----------------------------- MODULE CUPSAccess -----------------------------
(***************************************************************************)
(* A program that uses the library to reach CUPS: it caches credentials,   *)
(* connects (asyncconn.c, asyncpk1.c, asyncipp.c), each time taking what   *)
(* is cached for the host and port, and asks for printers and devices      *)
(* (asyncipp.c).  The service itself connects and asks for printers, and   *)
(* caches nothing.                                                         *)
(*                                                                         *)
(* The calls run one after the other; `last` is the last one and what it   *)
(* gave.  What crosses from one call to another is the list of credentials *)
(* with what earlier connections and removals did to it.                   *)
(*                                                                         *)
(* Left out: encryption, prompts, and the choice of user and of PolicyKit  *)
(* (asyncconn.c:30), as what they decide is not used.                      *)
(***************************************************************************)
EXTENDS AuthInfoCache, IPPAnswers

CONSTANTS
    PrinterAnswers,     \* [status, records, order of the attributes], CUPS'
    DeviceAnswers       \* answers to the two queries

PrinterAttributes == {"printer-name", "device-uri"}
DeviceAttributes == {"device-uri", "device-id", "device-make-and-model", "device-info",
                     "device-location"}

\* Of the attributes that CUPS sends, those a query reads, each once in a record.
IsAnswer(answer, attributes) ==
    /\ answer.order \in Seq(attributes) /\ IsInjective(answer.order)
    /\ ToSet(answer.order) = attributes
    /\ answer.records \in Seq({answer.records[i] : i \in DOMAIN answer.records})
    /\ \A r \in ToSet(answer.records) : r = [a \in DOMAIN r |-> r[a]]
ASSUME AnswersAssumption ==
    /\ \A answer \in PrinterAnswers : IsAnswer(answer, PrinterAttributes)
    /\ \A answer \in DeviceAnswers : IsAnswer(answer, DeviceAttributes)

VARIABLES
    last,           \* the last call, what it gave and which handlers it called
    ideal,          \* history: what was cached and not removed
    used,           \* history: a connection found cached credentials
    reordered       \* history: an entry behind the head was removed

vars == <<cacheVars, last, ideal, used, reordered>>

NoCall == [call |-> "none"]

Init ==
    /\ CacheInit
    /\ last = NoCall
    /\ ideal = <<>>
    /\ used = FALSE
    /\ reordered = FALSE

Disturbed == used \/ reordered
Remembers(entries) == ideal' = IF Disturbed' THEN <<>> ELSE entries

-----------------------------------------------------------------------------
(* The cache. *)

Entry(host, port) == [host |-> host, port |-> Port(port)]

CacheAuthInfo(host, port) ==
    /\ process = "running"
    /\ cache_auth_info(host, port)
    /\ last' = NoCall
    /\ UNCHANGED <<used, reordered>>
    /\ Remembers(Append(ideal, Entry(host, port)))

\* What is found is in CacheIsComplete; here, what looking may do.
LookupAuthInfo(host, port) ==
    /\ process = "running"
    /\ \E n \in lookup_auth_info(host, port) :
          IF n \in {CRASH, HANG} THEN Ends(n) ELSE UNCHANGED cacheVars
    /\ last' = NoCall
    /\ UNCHANGED <<ideal, used, reordered>>

RemoveAuthInfo(host, port) ==
    LET k == SelectInSeq(ideal, LAMBDA e : e = Entry(host, port))
        found == lookup_auth_info(host, port) \cap Nodes
    IN  /\ process = "running"
        /\ remove_auth_info(host, port)
        /\ last' = NoCall
        /\ reordered' = (reordered \/ found \ {creds} # {})
        /\ UNCHANGED used
        /\ Remembers(IF k = 0 THEN ideal ELSE RemoveAt(ideal, k))

-----------------------------------------------------------------------------
(* Connections. *)

\* What was found for the host and port is freed before the connection is made;
\* error: PK1Connection was given an error handler; told: which handlers are
\* called, by whether there is a connection.
IPPConnection(host, port, error, told) ==
    /\ process = "running"
    /\ UNCHANGED reordered
    /\ \E n \in lookup_auth_info(host, port), connected \in BOOLEAN :
          IF n \in {CRASH, HANG}
          THEN Ends(n) /\ last' = NoCall /\ UNCHANGED <<ideal, used>>
          ELSE /\ last' = [call |-> "connection", connected |-> connected,
                           error |-> error, told |-> told[connected]]
               /\ used' = (used \/ n # NULL)
               /\ IF n = NULL THEN UNCHANGED heap ELSE free(n)
               /\ Remembers(ideal)
               /\ UNCHANGED <<creds, process>>

\* The handler that is told of the connection; nobody is told of a failure.
IPPTold(connected, reply) == IF connected /\ reply THEN <<"reply">> ELSE <<>>

\* A caller without an error handler is told of a failure as of a success, and
\* of a success twice.  A mistake: so is every caller.
PK1Told_unless(connected, reply, error) ==
    IPPTold(connected, reply)
        \o (IF ~connected /\ error THEN <<"error">> ELSE <<>>)
        \o (IF reply THEN <<"reply">> ELSE <<>>)
PK1Told(connected, reply, error) ==
    IPPTold(connected, reply)
        \o (IF ~connected /\ error THEN <<"error">>
            ELSE IF reply THEN <<"reply">> ELSE <<>>)

IPPAuthConnection(host, port, reply) ==
    IPPConnection(host, port, FALSE, [c \in BOOLEAN |-> IPPTold(c, reply)])

PK1Connection(host, port, reply, error) ==
    IPPConnection(host, port, error, [c \in BOOLEAN |-> PK1Told(c, reply, error)])

\* With PolicyKit or without, handlers that do nothing take the place of the
\* caller's.
Async_Connection(host, port) ==
    IPPConnection(host, port, FALSE, [c \in BOOLEAN |-> <<>>])

-----------------------------------------------------------------------------
(* Queries. *)

Failed(call) == [call |-> call, failed |-> TRUE]
Gives(call, answer, table) ==
    [call |-> call, answer |-> answer, failed |-> FALSE, table |-> table]

\* The loop starts with an attribute that nothing has set: there are none, or it
\* is followed and is no attribute, or all are read.
getURI(answer) ==
    /\ process = "running"
    /\ IF answer.status # "ok"
       THEN last' = Failed("getURI") /\ UNCHANGED process
       ELSE \/ last' = Gives("getURI", answer, <<>>) /\ UNCHANGED process
            \/ last' = Failed("getURI") /\ process' = "crashed"
            \/ /\ last' = Gives("getURI", answer,
                                Collect(answer.records, answer.order, PrinterAttributes,
                                        "printer-name"))
               /\ UNCHANGED process
    /\ UNCHANGED <<creds, heap, ideal, used, reordered>>

getDevices(answer) ==
    /\ process = "running"
    /\ last' = IF answer.status # "ok"
               THEN Failed("getDevices")
               ELSE Gives("getDevices", answer,
                          Collect(answer.records, answer.order, DeviceAttributes, "device-uri"))
    /\ UNCHANGED <<cacheVars, ideal, used, reordered>>

-----------------------------------------------------------------------------

Next ==
    \/ \E host \in Hosts, port \in Ports :
          \/ CacheAuthInfo(host, port)
          \/ LookupAuthInfo(host, port)
          \/ RemoveAuthInfo(host, port)
          \/ Async_Connection(host, port)
          \/ \E reply \in BOOLEAN :
                \/ IPPAuthConnection(host, port, reply)
                \/ \E error \in BOOLEAN : PK1Connection(host, port, reply, error)
    \/ \E answer \in PrinterAnswers : getURI(answer)
    \/ \E answer \in DeviceAnswers : getDevices(answer)

Spec == Init /\ [][Next]_vars

-----------------------------------------------------------------------------
(* Properties. *)

\* The list is made of nodes that were allocated, each of which holds an entry
\* and ends or goes on with another of them, even after memory was used again.
TypeOK ==
    /\ process \in {"running", "crashed", "hung"}
    /\ \A n \in ToSet(List) :
          /\ heap[n].state \in {"live", "freed"}
          /\ heap[n].state = "live" <=> heap[n].entry \in Credentials
          /\ heap[n].next \in Nodes \cup {NULL}
    /\ \A n \in Nodes : heap[n].state = "unused" => heap[n] = Unused

\* Until a connection has used credentials, or an entry behind the head was
\* removed, the list is what was cached and not removed, in that order, and a
\* lookup finds the entry of the host and port if and only if there is one.
CacheIsComplete ==
    ~Disturbed =>
        /\ Entries = ideal
        /\ ~Cyclic
        /\ \A host \in Hosts, port \in Ports :
              \A n \in lookup_auth_info(host, port) :
                 IF n = NULL
                 THEN Entry(host, port) \notin ToSet(ideal)
                 ELSE heap[n].entry = Entry(host, port)

\* Only a connection that used credentials leaves freed memory in the list, only
\* the removal of an entry behind the head makes it endless, and without either the
\* process lives, unless getURI ends it.
EndsOnlyIfDisturbed ==
    /\ (\E n \in ToSet(List) : Freed(n)) => used
    /\ Cyclic => reordered
    /\ process = "hung" => reordered
    /\ process = "crashed" => Disturbed \/ last.call = "getURI"

\* What can be found of the entries of a list, in their order.
Found(entries) ==
    LET found[k \in 0 .. Len(entries)] ==
            IF k = 0 THEN <<>>
            ELSE IF entries[k] = Garbage THEN found[k - 1]
            ELSE Append(found[k - 1], entries[k])
    IN  found[Len(entries)]

\* Whatever connections and removals do to the list, what can be found in it is
\* in the order of caching, and what is gone is not found again.
Store == INSTANCE CredentialStore WITH store <- Found(Entries)
ImplementsCredentialStore == Store!StoreSpec

\* Who gave PK1Connection an error handler is told of each failure, and never of
\* a success that was none (asyncpk1.c:17).
FailureIsNotAReply ==
    (last.call = "connection" /\ last.error) =>
        /\ last.connected => "error" \notin ToSet(last.told)
        /\ ~last.connected => last.told = <<"error">>

\* When CUPS sends complete records, a table has each of them under its own key,
\* if no other has the same, although the queries do not see where a record ends;
\* or getURI read none.
WholeRecords(answer) ==
    \A i \in DOMAIN answer.records : DOMAIN answer.records[i] = ToSet(answer.order)
TablesAreRecords ==
    (/\ last.call \in {"getURI", "getDevices"}
     /\ ~last.failed
     /\ WholeRecords(last.answer))
    => LET records == last.answer.records
           key == IF last.call = "getURI" THEN "printer-name" ELSE "device-uri"
       IN  \/ last.call = "getURI" /\ last.table = <<>>
           \/ /\ DOMAIN last.table = {r[key] : r \in ToSet(records)}
              /\ \A k \in DOMAIN last.table :
                    \E r \in ToSet(records) : r[key] = k /\ last.table[k] = r

=============================================================================
