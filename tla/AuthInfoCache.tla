--------------------------- MODULE AuthInfoCache ---------------------------
(***************************************************************************)
(* The authentication cache (authinfocache.c): a linked list of the hosts  *)
(* and ports for which a user and a password were cached.  The user and    *)
(* the password are never read and left out; so is what becomes of the     *)
(* caller's strings that the list points to.                               *)
(*                                                                         *)
(* A connection frees the node it finds and leaves it in the list          *)
(* (asyncipp.c:364).  The memory of a freed node                           *)
(*   - is read: its host is garbage, which strcmp follows to a crash or    *)
(*     finds different, while its next is as it was;                       *)
(*   - may be what the next malloc returns.                                *)
(***************************************************************************)
EXTENDS Integers, SequencesExt

CONSTANTS
    MaxNodes,   \* bound on the nodes that malloc finds memory for
    Hosts,
    Ports

ASSUME MaxNodesAssumption == MaxNodes \in Nat \ {0}

VARIABLES
    creds,      \* the head of the list
    heap,       \* the nodes, by address
    process     \* "running", "crashed" or in an endless loop, "hung"

cacheVars == <<creds, heap, process>>

NULL == 0
Nodes == 1 .. MaxNodes
Credentials == [host : Hosts, port : (Ports \ {0}) \cup {631}]

\* A mistake: a port that is not given is taken as it is.
Port_given(port) == port
Port(port) == IF port = 0 THEN 631 ELSE port

Garbage == [host |-> "garbage", port |-> 0]
Unused == [state |-> "unused", entry |-> Garbage, next |-> NULL]
Node(entry) == [state |-> "live", entry |-> entry, next |-> NULL]

CacheInit ==
    /\ creds = NULL
    /\ heap = [n \in Nodes |-> Unused]
    /\ process = "running"

-----------------------------------------------------------------------------
(* The list. *)

\* The node that following next leads to in k steps.
After(n) == IF n = NULL THEN NULL ELSE heap[n].next
Reached[k \in 0 .. MaxNodes] == IF k = 0 THEN creds ELSE After(Reached[k - 1])

\* The nodes in the list, each once.
List ==
    LET linked == {Reached[k] : k \in 0 .. MaxNodes - 1} \ {NULL}
    IN  [i \in 1 .. Cardinality(linked) |-> Reached[i - 1]]
Entries == [i \in DOMAIN List |-> heap[List[i]].entry]
Cyclic == Reached[MaxNodes] # NULL
Freed(n) == heap[n].state = "freed"
Is(n, entry) == heap[n].entry = entry

free(n) == heap' = [heap EXCEPT ![n].state = "freed", ![n].entry = Garbage]

CRASH == -1
HANG == -2

\* The possible results: the first node of this host and port, or NULL.  A
\* mistake: the port is not compared.
find_any_port(entry) ==
    LET k == SelectInSeq(List, LAMBDA n : heap[n].entry.host = entry.host)
    IN  {IF k = 0 THEN NULL ELSE List[k]}
find(entry) ==
    LET k == SelectInSeq(List, LAMBDA n : Is(n, entry))
        read == IF k = 0 THEN ToSet(List) ELSE ToSet(SubSeq(List, 1, k))
    IN  {IF k # 0 THEN List[k] ELSE IF Cyclic THEN HANG ELSE NULL}
            \cup {CRASH : n \in {m \in read : Freed(m)}}

Ends(how) ==
    /\ process' = IF how = CRASH THEN "crashed" ELSE "hung"
    /\ UNCHANGED <<creds, heap>>

\* Memory that no node has; of the addresses never used, which is of no matter.
Allocatable ==
    LET unused == {m \in Nodes : heap[m].state = "unused"}
    IN  {m \in Nodes : Freed(m)} \cup (IF unused = {} THEN {} ELSE {Min(unused)})

\* A node of its own, behind the last.  Memory that is used again is still
\* linked: what followed it is lost.  Two mistakes: the new node is put before
\* the others; its next is not set.
insert_first(entry) ==
    \E n \in Allocatable :
        /\ heap' = [heap EXCEPT ![n] = [Node(entry) EXCEPT !.next = creds]]
        /\ creds' = n
        /\ UNCHANGED process
insert_unended(entry) ==
    \E n \in Allocatable :
        /\ heap' = [heap EXCEPT ![n] = [Node(entry) EXCEPT !.next = n]]
        /\ creds' = IF creds = NULL THEN n ELSE creds
        /\ UNCHANGED process
insert(entry) ==
    \/ Cyclic /\ Ends(HANG)
    \/ /\ ~Cyclic
       /\ \E n \in Allocatable :
             IF creds = NULL
             THEN creds' = n /\ heap' = [heap EXCEPT ![n] = Node(entry)]
             ELSE /\ heap' = [heap EXCEPT ![Last(List)].next = n, ![n] = Node(entry)]
                  /\ UNCHANGED creds
       /\ UNCHANGED process

\* The head is taken out of the list, and not freed.  For another entry the
\* loop, which goes on while entries match, ends at the head with p unset: what
\* p happens to point to gets the head's next.
del(entry) ==
    IF Is(creds, entry)
    THEN creds' = heap[creds].next /\ UNCHANGED <<heap, process>>
    ELSE \/ Ends(CRASH)
         \/ UNCHANGED cacheVars
         \/ /\ \E p \in {m \in Nodes : heap[m].state # "unused"} :
                   heap' = [heap EXCEPT ![p].next = heap[creds].next]
            /\ UNCHANGED <<creds, process>>

-----------------------------------------------------------------------------
(* The operations. *)

cache_auth_info(host, port) == insert([host |-> host, port |-> Port(port)])

\* The first node found, or what becomes of the process.
lookup_auth_info(host, port) == find([host |-> host, port |-> Port(port)])

remove_auth_info(host, port) ==
    LET entry == [host |-> host, port |-> Port(port)]
    IN  \E n \in find(entry) :
            CASE n \in {CRASH, HANG} -> Ends(n)
              [] n = NULL -> UNCHANGED cacheVars
              [] OTHER -> del(entry)

=============================================================================
