------------------------------ MODULE PPDCache ------------------------------
(***************************************************************************)
(* The PPD cache (ppdcache.c) and the D-Bus method that uses it, ChangePPD *)
(* of a New Printer dialog (ConfigPrintingNewPrinterDialog.c:173-293).     *)
(*                                                                         *)
(* fetch_ppd, got_ppd3, self_connect and connected call each other and, at *)
(* the end, the callback, which shows a window and so re-enters the main   *)
(* loop: other ChangePPD calls are handled on top of it.  The C stack is   *)
(* the variable `stack`, a sequence of frames with the innermost last; a   *)
(* step is what the innermost frame does up to its next call or return.    *)
(*                                                                         *)
(* The cache's lists keep the char pointers they are given, not copies.    *)
(* Strings have an address, `mem` gives their content, and a string that   *)
(* arrived over D-Bus is freed when its handler returns.                   *)
(***************************************************************************)
EXTENDS Integers, SequencesExt

CONSTANTS
    Queues,         \* the names of the print queues
    MaxRequests,    \* bound on the number of ChangePPD calls
    MaxVersion,     \* bound on the times CUPS changes a PPD
    MaxFailures,    \* bound on the connection attempts that fail
    NamesPersist    \* whether the caller's strings outlive the handler

ASSUME MaxRequestsAssumption == MaxRequests \in Nat \ {0}
ASSUME MaxVersionAssumption == MaxVersion \in Nat \ {0}
ASSUME MaxFailuresAssumption == MaxFailures \in Nat
ASSUME NamesPersistAssumption == NamesPersist \in BOOLEAN

Requests == 1 .. MaxRequests
Addrs == Requests
Versions == 1 .. MaxVersion

\* A PPD file is the version of a queue's PPD that it holds; NULL is none.
NoFile == [queue |-> "NULL", version |-> 0]
Files == [queue : Queues, version : Versions]

\* What a freed string reads as.
Garbage == "garbage"

VARIABLES
    server,      \* the version of each queue's PPD at the CUPS server
    mem,         \* the content of each string
    live,        \* the strings that are allocated
    cache,       \* the list of [qname, fp]
    modtimes,    \* the list of [qname, time]
    lists,       \* the lists `queued` has pointed to, of [qname, method]
    queued,      \* which of them it points to now, 0 for NULL
    connecting,
    cups,        \* whether `cups` is a connection
    ref_data,    \* the request whose arguments ref_data holds
    stack,       \* the C stack
    failures,    \* connection attempts that failed
    request,     \* what became of each ChangePPD call
    delivered,   \* history: the files each request's callback was given
    shown        \* history: <<request, whose device id>> of the windows shown

cacheVars == <<cache, modtimes, lists, queued, connecting, cups>>
vars == <<server, mem, live, cacheVars, ref_data, stack, failures, request,
          delivered, shown>>

NoRequest == [queue |-> "none", name |-> 0, asked |-> 0, status |-> "unsent"]

Init ==
    /\ server \in [Queues -> Versions]
    /\ mem = [a \in Addrs |-> Garbage]
    /\ live = {}
    /\ cache = <<>>
    /\ modtimes = <<>>
    /\ lists = <<>>
    /\ queued = 0
    /\ connecting = FALSE
    /\ cups = FALSE
    /\ ref_data = 0
    /\ stack = <<>>
    /\ failures = 0
    /\ request = [r \in Requests |-> NoRequest]
    /\ delivered = [r \in Requests |-> <<>>]
    /\ shown = {}

-----------------------------------------------------------------------------
(* Frames. *)

Handler(r) == [fn |-> "ChangePPD", request |-> r]
Fetch(a, r, check) ==
    [fn |-> "fetch_ppd", name |-> a, callback |-> r, check_uptodate |-> check]
SelfConnect == [fn |-> "self_connect"]
Connected(l, i) == [fn |-> "connected", list |-> l, next |-> i]
Window(r) == [fn |-> "g_application_run", request |-> r]

Running(fn) == stack # <<>> /\ Last(stack).fn = fn
Return == stack' = Front(stack)
ReturnTo(frame) == stack' = Append(Front(stack), frame)
Enter(frame) == stack' = Append(stack, frame)

-----------------------------------------------------------------------------
(* The lists. *)

\* strcmp with each entry's string, from the head.
Find(list, name) == SelectInSeq(list, LAMBDA e : mem[e.qname] = name)

find_cache(name) == Find(cache, name) # 0
find_modtimes(name) == Find(modtimes, name)
\* A mistake: the file of the list's head, whichever queue that is for.
find_file_head(name) == cache[1].fp
find_file(name) == cache[Find(cache, name)].fp

insert_cache(a, file) == cache' = Append(cache, [qname |-> a, fp |-> file])
insert_modtimes(times, a, time) == modtimes' = Append(times, [qname |-> a, time |-> time])
insert_list(a, r) ==
    LET entry == [qname |-> a, method |-> r]
    IN  IF queued = 0
        THEN lists' = Append(lists, <<entry>>) /\ queued' = Len(lists) + 1
        ELSE lists' = [lists EXCEPT ![queued] = Append(@, entry)] /\ UNCHANGED queued

-----------------------------------------------------------------------------
(* ChangePPD. *)

\* A call is handled when the main loop runs, be it inside a window.  Its
\* name argument is a new string, perhaps where a freed one was.
ChangePPD(r, q, a) ==
    /\ stack = <<>> \/ Running("g_application_run")
    /\ request[r].status = "unsent"
    /\ \A p \in 1 .. r - 1 : request[p].status # "unsent"
    /\ a \in Addrs \ live
    /\ NamesPersist => a = r
    /\ mem' = [mem EXCEPT ![a] = q]
    /\ live' = live \cup {a}
    /\ request' = [request EXCEPT ![r] =
          [queue |-> q, name |-> a, asked |-> server[q], status |-> "handled"]]
    /\ ref_data' = r
    /\ stack' = stack \o <<Handler(r), Fetch(a, r, TRUE)>>
    /\ UNCHANGED <<server, cacheVars, failures, delivered, shown>>

\* fetch_ppd is back: the call is completed and its strings are freed.
Complete ==
    LET r == Last(stack).request
        a == request[r].name
    IN  /\ Running("ChangePPD")
        /\ request' = [request EXCEPT ![r].status = "answered"]
        /\ IF NamesPersist
           THEN UNCHANGED <<mem, live>>
           ELSE /\ live' = live \ {a}
                /\ \E content \in {mem[a], Garbage} : mem' = [mem EXCEPT ![a] = content]
        /\ Return
        /\ UNCHANGED <<server, cacheVars, ref_data, failures, delivered, shown>>

\* The callback, change_ppd_got_ppd, ends in do_change_ppd: a window for the
\* request, with the device id ref_data holds by now, unless one is open.
Callback(r, file) ==
    /\ delivered' = [delivered EXCEPT ![r] = Append(@, file)]
    /\ IF \E i \in DOMAIN stack : stack[i].fn = "g_application_run"
       THEN Return /\ UNCHANGED shown
       ELSE ReturnTo(Window(r)) /\ shown' = shown \cup {<<r, ref_data>>}

CloseWindow ==
    /\ Running("g_application_run")
    /\ Return
    /\ UNCHANGED <<server, mem, live, cacheVars, ref_data, failures, request,
                   delivered, shown>>

-----------------------------------------------------------------------------
(* fetch_ppd and what it calls. *)

\* cupsGetPPD3: the server compares the time it is sent with its PPD's, and
\* on success reports the PPD's time.  It may fail, and so may fopen.
Answers(q, time) ==
    (IF time = server[q] THEN {"NOT_MODIFIED"} ELSE {"OK", "no file"}) \cup {"error"}

\* got_ppd3, given modtimes' with the time cupsGetPPD3 has stored.
got_ppd3(f, answer, times, time) ==
    LET q == mem[f.name]
    IN  CASE answer = "NOT_MODIFIED" ->
              /\ Return
              /\ UNCHANGED <<cache, modtimes, delivered, shown>>
          [] answer = "OK" ->
              /\ insert_cache(f.name, [queue |-> q, version |-> server[q]])
              /\ insert_modtimes(times, f.name, time)
              /\ ReturnTo(Fetch(f.name, f.callback, FALSE))
              /\ UNCHANGED <<delivered, shown>>
          [] OTHER ->
              /\ modtimes' = times
              /\ Callback(f.callback, NoFile)
              /\ UNCHANGED cache

\* Stored(q, answer, old): *modtime after cupsGetPPD3.  A mistake: it is not
\* stored unless there is a file.
Stored_unset(q, answer, old) == IF answer = "OK" THEN server[q] ELSE 0
Stored(q, answer, old) == IF answer \in {"OK", "no file"} THEN server[q] ELSE old

\* The PPD is known: ask the server whether it is up to date.  got_ppd3 is
\* given the time of the list's head, whichever queue that is for.
CheckUpToDate ==
    LET f == Last(stack)
        q == mem[f.name]
        i == find_modtimes(q)
    IN  /\ Running("fetch_ppd")
        /\ f.check_uptodate /\ i # 0
        /\ \E answer \in Answers(q, modtimes[i].time) :
              LET times == [modtimes EXCEPT ![i].time = Stored(q, answer, @)]
              IN  got_ppd3(f, answer, times, times[1].time)
        /\ UNCHANGED <<server, mem, live, lists, queued, connecting, cups,
                       ref_data, failures, request>>

NotToCheck(f) == ~f.check_uptodate \/ find_modtimes(mem[f.name]) = 0

\* Not cached and no connection: queue the request and connect.
QueueRequest ==
    LET f == Last(stack)
    IN  /\ Running("fetch_ppd")
        /\ NotToCheck(f) /\ ~find_cache(mem[f.name]) /\ ~cups
        /\ insert_list(f.name, f.callback)
        /\ IF connecting
           THEN Return /\ UNCHANGED connecting
           ELSE ReturnTo(SelfConnect) /\ connecting' = TRUE
        /\ UNCHANGED <<server, mem, live, cache, modtimes, cups, ref_data,
                       failures, request, delivered, shown>>

\* Not cached: get the PPD.
Download ==
    LET f == Last(stack)
        q == mem[f.name]
    IN  /\ Running("fetch_ppd")
        /\ NotToCheck(f) /\ ~find_cache(q) /\ cups
        /\ \E answer \in Answers(q, 0) :
              got_ppd3(f, answer, modtimes, Stored(q, answer, 0))
        /\ UNCHANGED <<server, mem, live, lists, queued, connecting, cups,
                       ref_data, failures, request>>

\* Cached: give the callback the file.
Deliver ==
    LET f == Last(stack)
    IN  /\ Running("fetch_ppd")
        /\ NotToCheck(f) /\ find_cache(mem[f.name])
        /\ Callback(f.callback, find_file(mem[f.name]))
        /\ UNCHANGED <<server, mem, live, cacheVars, ref_data, failures, request>>

\* httpConnectEncrypt succeeds or fails.  No credentials were cached before.
IPPConnection(ok) ==
    /\ ok \/ failures < MaxFailures
    /\ failures' = IF ok THEN failures ELSE failures + 1

\* With PolicyKit or without, it blocks; the handlers it calls are its own and
\* empty, so that connected() is not called from here.
Async_Connection(ok) == IPPConnection(ok) /\ cups' = ok

\* connected() is called whether the connection succeeded or not.
self_connect(ok) ==
    /\ Running("self_connect")
    /\ Async_Connection(ok)
    /\ connecting' = FALSE
    /\ ReturnTo(Connected(queued, 1))
    /\ UNCHANGED <<server, mem, live, cache, modtimes, lists, queued, ref_data,
                   request, delivered, shown>>

\* There is an entry left to walk to.  A mistake: the last one is not seen.
More_but_last(f) == f.list # 0 /\ f.next < Len(lists[f.list])
More(f) == f.list # 0 /\ f.next <= Len(lists[f.list])

\* Three mistakes: the queue is not dropped, the walk does not go on, or it
\* does not return.
connected_keeps_queue ==
    LET f == Last(stack)
    IN  /\ Running("connected")
        /\ IF More(f)
           THEN LET e == lists[f.list][f.next]
                IN  stack' = Front(stack) \o <<Connected(f.list, f.next + 1),
                                              Fetch(e.qname, e.method, TRUE)>>
           ELSE Return
        /\ UNCHANGED <<server, mem, live, cacheVars, ref_data, failures, request,
                       delivered, shown>>
connected_repeats ==
    LET f == Last(stack)
    IN  /\ Running("connected")
        /\ IF More(f)
           THEN LET e == lists[f.list][f.next]
                IN  /\ Enter(Fetch(e.qname, e.method, TRUE))
                    /\ UNCHANGED queued
           ELSE Return /\ queued' = 0
        /\ UNCHANGED <<server, mem, live, cache, modtimes, lists, connecting, cups,
                       ref_data, failures, request, delivered, shown>>
connected_past_end ==
    LET f == Last(stack)
    IN  /\ Running("connected")
        /\ IF More(f)
           THEN LET e == lists[f.list][f.next]
                IN  /\ stack' = Front(stack) \o <<Connected(f.list, f.next + 1),
                                                  Fetch(e.qname, e.method, TRUE)>>
                    /\ UNCHANGED queued
           ELSE UNCHANGED stack /\ queued' = 0
        /\ UNCHANGED <<server, mem, live, cache, modtimes, lists, connecting, cups,
                       ref_data, failures, request, delivered, shown>>

\* connected() walks the list `queued` pointed to when it was called, which
\* may grow under way, and then drops whatever `queued` points to.
connected ==
    LET f == Last(stack)
    IN  /\ Running("connected")
        /\ IF More(f)
           THEN LET e == lists[f.list][f.next]
                IN  /\ stack' = Front(stack) \o <<Connected(f.list, f.next + 1),
                                                  Fetch(e.qname, e.method, TRUE)>>
                    /\ UNCHANGED queued
           ELSE Return /\ queued' = 0
        /\ UNCHANGED <<server, mem, live, cache, modtimes, lists, connecting, cups,
                       ref_data, failures, request, delivered, shown>>

-----------------------------------------------------------------------------

\* Somebody installs another PPD for a queue.
ChangeAtServer(q) ==
    /\ server[q] < MaxVersion
    /\ server' = [server EXCEPT ![q] = @ + 1]
    /\ UNCHANGED <<mem, live, cacheVars, ref_data, stack, failures, request,
                   delivered, shown>>

Program ==
    \/ Complete
    \/ CheckUpToDate
    \/ QueueRequest
    \/ Download
    \/ Deliver
    \/ \E ok \in BOOLEAN : self_connect(ok)
    \/ connected

Next ==
    \/ \E r \in Requests, q \in Queues, a \in Addrs : ChangePPD(r, q, a)
    \/ \E q \in Queues : ChangeAtServer(q)
    \/ CloseWindow
    \/ Program

Spec == Init /\ [][Next]_vars

\* The program does not stop between two calls, and the user closes windows.
FairSpec == Spec /\ WF_vars(Program) /\ WF_vars(CloseWindow)

-----------------------------------------------------------------------------
(* Properties. *)

\* The types of the state; every entry of a list has a name and a value.
TypeOK ==
    /\ server \in [Queues -> Versions]
    /\ mem \in [Addrs -> Queues \cup {Garbage}]
    /\ live \subseteq Addrs
    /\ \A e \in ToSet(cache) : e.qname \in Addrs /\ e.fp \in Files
    /\ \A e \in ToSet(modtimes) : e.qname \in Addrs /\ e.time \in Versions
    /\ \A l \in ToSet(lists) : \A e \in ToSet(l) : e.qname \in Addrs /\ e.method \in Requests
    /\ queued \in 0 .. Len(lists)
    /\ connecting \in BOOLEAN /\ cups \in BOOLEAN
    /\ ref_data \in Requests \cup {0}
    /\ \A r \in Requests : \A f \in ToSet(delivered[r]) : f \in Files \cup {NoFile}

\* No request is left behind in the queue: as long as `queued` holds any, a
\* connection attempt or a walk through that very list is under way, also when
\* an attempt fails inside a walk (insert_list and connected, ppdcache.c:186,
\* 223 to 233), and the queue is empty whenever the main loop is idle.
QueueIsServed ==
    queued # 0 =>
        \E i \in DOMAIN stack :
            \/ stack[i].fn = "self_connect"
            \/ stack[i].fn = "connected" /\ stack[i].list = queued

\* As long as no connection attempt has failed, a request's callback is called
\* at most once, and the window it opens shows the request's own device id,
\* although ref_data is overwritten by every call handled meanwhile
\* (ConfigPrintingNewPrinterDialog.c:184 to 187, 289).
OneWindowWithoutFailures ==
    failures = 0 =>
        /\ \A r \in Requests : Len(delivered[r]) <= 1
        /\ \A w \in shown : w[1] = w[2]

\* "Return the file descriptor of the corresponding printer queue if avaliable
\* else return NULL" (ppdcache.c:22): the file a callback is given is a PPD of
\* the queue that its ChangePPD call named.
FileIsOfRequestedQueue ==
    \A r \in Requests : \A f \in ToSet(delivered[r]) :
        f # NoFile => f.queue = request[r].queue

\* "If the file is older, Cache the new version" (ppdcache.c:34): the file a
\* callback is given is no older than the PPD the server had when the ChangePPD
\* call was made.
FileIsUpToDate ==
    \A r \in Requests : \A f \in ToSet(delivered[r]) :
        f # NoFile => f.version >= request[r].asked

\* A ChangePPD call is promised a dialog, but a PPD the server reports as not
\* modified ends it without a callback (ppdcache.c:259).  That is the only way
\* to get none: whatever failed or was nested meanwhile, a call that ended so
\* names a queue of which another call's callback was given a file.  (Not always
\* the newest: its time is kept although opening its file failed.)
NoCallbackOnlyIfKnown ==
    stack = <<>> =>
        \A r \in Requests :
            request[r].status = "answered" /\ delivered[r] = <<>> =>
                \E p \in Requests \ {r} : \E f \in ToSet(delivered[p]) :
                    f.queue = request[r].queue

\* Every ChangePPD call is answered, if finitely many connection attempts fail
\* and the user closes the windows: no queue or walk goes on for ever.
EveryRequestAnswered ==
    \A r \in Requests :
        request[r].status = "handled" ~> request[r].status = "answered"

=============================================================================
