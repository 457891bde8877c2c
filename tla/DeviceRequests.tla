--------------------------- MODULE DeviceRequests ---------------------------
(***************************************************************************)
(* The requests about devices, and the holds they take on the kill timer:  *)
(* GetBestDriversRequest.c, which the D-Bus method GetBestDrivers runs,    *)
(* and GroupPhysicalDevicesRequest.c, which a program using the library    *)
(* calls.  Dialogs take and remove holds of their own in between.          *)
(*                                                                         *)
(* Nothing in these requests runs the main loop.  GBDRequest is a step;    *)
(* GPDRequest waits in Avahi's loop, where only Avahi's callbacks run, and *)
(* is a step for each host name to resolve.                                *)
(*                                                                         *)
(* Device ids are taken to be ones that parseDeviceID can read; module     *)
(* PPDMatching has those that it cannot.                                   *)
(***************************************************************************)
EXTENDS KillTimerOps, FiniteSets

CONSTANTS
    MaxRequests,    \* bound on the number of requests
    MaxHeld,        \* bound on the dialogs' holds
    MaxStops,       \* bound on the times the Avahi daemon stops
    Devices,        \* the devices that drivers are wanted for
    DirectUris,     \* device URIs without a DNS-SD host name,
    ShortUris,      \* with one that does not have five parts,
    FullUris,       \* with one that has
    NamelessUris    \* those of devices whose id does not give two words

ASSUME BoundsAssumption ==
    /\ MaxRequests \in Nat \ {0}
    /\ MaxHeld \in Nat
    /\ MaxStops \in Nat
ASSUME UrisAssumption ==
    /\ IsFiniteSet(DirectUris \cup ShortUris \cup FullUris)
    /\ DirectUris \cap (ShortUris \cup FullUris) = {}
    /\ ShortUris \cap FullUris = {}
    /\ NamelessUris \subseteq DirectUris \cup ShortUris \cup FullUris

Requests == 1 .. MaxRequests
Uris == DirectUris \cup ShortUris \cup FullUris

\* The drivers found for a device, or the NULL that `fit` starts as; for a list,
\* to be empty and to be NULL are the same here.
NoDrivers == "NULL"

VARIABLES
    kt,          \* the kill timer
    held,        \* the holds the dialogs have
    http,        \* whether CP_data->http is a connection
    g_ppds,      \* PPDs have been asked for
    fit,         \* the device that the global driver list was made for
    waiting,     \* requests whose "ready" and "error" handlers are connected
    unresolved,  \* host names that are not accounted for, a guint
    todo,        \* the URIs that the running GPDRequest has yet to look at
    poll,        \* Avahi's loop: "none", "running" or told to "quit"
    resolver,    \* whether the service resolver awaits its event
    nameless,    \* whether a device of the running GPDRequest is nameless
    daemon,      \* whether the Avahi daemon runs
    stops,       \* times it stopped
    crashed,
    request,     \* what became of each request
    released     \* history: the holds each request removed

driverVars == <<http, g_ppds, fit, waiting>>
avahiVars == <<unresolved, todo, poll, resolver, nameless>>
daemonVars == <<daemon, stops>>
vars == <<kt, held, driverVars, avahiVars, daemonVars, crashed, request, released>>

Unsent == [kind |-> "none", device |-> NoDrivers, status |-> "unsent", reply |-> NoDrivers]

Init ==
    /\ kt = Started
    /\ held = 0
    /\ http \in BOOLEAN
    /\ g_ppds = FALSE
    /\ fit = NoDrivers
    /\ waiting = {}
    /\ unresolved = 0
    /\ todo = {}
    /\ poll = "none"
    /\ resolver = FALSE
    /\ nameless = FALSE
    /\ daemon \in BOOLEAN
    /\ stops = 0
    /\ crashed = FALSE
    /\ request = [r \in Requests |-> Unsent]
    /\ released = [r \in Requests |-> 0]

Resolving(r) ==
    ~crashed /\ request[r].kind = "group" /\ request[r].status = "running"
Idle == ~crashed /\ \A r \in Requests : ~Resolving(r)
NextRequest(r) ==
    /\ Idle
    /\ request[r].status = "unsent"
    /\ \A p \in 1 .. r - 1 : request[p].status # "unsent"

-----------------------------------------------------------------------------
(* The dialogs. *)

AddHold ==
    /\ Idle
    /\ held < MaxHeld
    /\ held' = held + 1
    /\ kt' = add_hold(kt)
    /\ UNCHANGED <<driverVars, avahiVars, daemonVars, crashed, request, released>>

RemoveHold ==
    /\ Idle
    /\ held > 0
    /\ held' = held - 1
    /\ kt' = remove_hold(kt)
    /\ UNCHANGED <<driverVars, avahiVars, daemonVars, crashed, request, released>>

-----------------------------------------------------------------------------
(* GetBestDrivers. *)

\* GetBestDrivers completes the call with the list, and with NULL if it is empty:
\* GVariant has no such value and aborts.
Reply(r, d, list) ==
    IF list = NoDrivers
    THEN crashed' = TRUE /\ UNCHANGED request
    ELSE /\ request' = [request EXCEPT ![r] =
               [kind |-> "drivers", device |-> d, status |-> "answered", reply |-> list]]
         /\ UNCHANGED crashed

\* The handler of "ready": make the list, which may be empty, remove the hold.
ppds_ready(r, d, k) ==
    /\ fit' \in {d, NoDrivers}
    /\ kt' = remove_hold(k)
    /\ released' = [released EXCEPT ![r] = 1]

\* The handler of "error" leaves the hold.
ppds_error(k) == kt' = k /\ UNCHANGED <<fit, released>>

\* The first request fetches the PPDs and emits "ready" or "error", which runs
\* its own handler; either handler disconnects both.
FetchPPDs(r, d, fetched) ==
    /\ NextRequest(r)
    /\ ~g_ppds
    /\ g_ppds' = TRUE
    /\ IF fetched /\ http
       THEN ppds_ready(r, d, add_hold(kt))
       ELSE ppds_error(add_hold(kt))
    /\ Reply(r, d, fit')
    /\ UNCHANGED <<held, http, waiting, avahiVars, daemonVars>>

\* Later requests test the local ppdnames, which nothing has set, and do not
\* fill in `data`.  If ppdnames reads NULL, ppds_ready is called with that data
\* and returns when its ppdnames reads NULL too; if not, what it reads next is
\* no string.  If ppdnames does not read NULL, the request connects handlers
\* for a signal that only the first request emits.
PPDsAlreadyFetched(r, d, data_ppdnames) ==
    /\ NextRequest(r)
    /\ g_ppds
    /\ kt' = add_hold(kt)
    /\ IF data_ppdnames = "NULL"
       THEN Reply(r, d, fit)
       ELSE crashed' = TRUE /\ UNCHANGED request
    /\ UNCHANGED <<held, driverVars, avahiVars, daemonVars, released>>

WaitForPPDs(r, d) ==
    /\ NextRequest(r)
    /\ g_ppds
    /\ kt' = add_hold(kt)
    /\ waiting' = waiting \cup {r}
    /\ Reply(r, d, fit)
    /\ UNCHANGED <<held, http, g_ppds, fit, avahiVars, daemonVars, released>>

-----------------------------------------------------------------------------
(* GPDRequest. *)

\* canonical_id gives the make and model that the device's id names, or only
\* one of them if the other is empty; ppdMakeModelSplit finds no second word.
canonical_id_fails(uri) == uri \in NamelessUris

\* Hosts are compared only when a physical device has one, and none ever does.
add_device_fails(uris) == \E uri \in uris : canonical_id_fails(uri)

\* A mistake: the hold is left.
group_unheld(r, k, fails) ==
    IF fails
    THEN crashed' = TRUE /\ kt' = k /\ UNCHANGED released
    ELSE /\ kt' = k
         /\ released' = [released EXCEPT ![r] = @ + 1]
         /\ UNCHANGED crashed

\* Each device becomes a physical device of its own; their list is printed.
group(r, k, fails) ==
    IF fails
    THEN crashed' = TRUE /\ kt' = k /\ UNCHANGED released
    ELSE /\ kt' = remove_hold(k)
         /\ released' = [released EXCEPT ![r] = @ + 1]
         /\ UNCHANGED crashed

Grouping(r, status) ==
    request' = [request EXCEPT ![r] = [Unsent EXCEPT !.kind = "group", !.status = status]]

GPDRequest(r, uris) ==
    /\ NextRequest(r)
    /\ LET need_resolving == uris \ DirectUris
       IN  IF need_resolving = {}
           THEN /\ Grouping(r, "answered")
                /\ group(r, add_hold(kt), add_device_fails(uris))
                /\ UNCHANGED <<unresolved, todo, nameless>>
           ELSE /\ Grouping(r, "running")
                /\ kt' = add_hold(kt)
                /\ unresolved' = Cardinality(need_resolving)
                /\ todo' = need_resolving
                /\ nameless' = add_device_fails(uris)
                /\ UNCHANGED <<crashed, released>>
    /\ UNCHANGED <<held, driverVars, poll, resolver, daemonVars>>

\* The loop of DNSSDHostNamesResolver takes the next URI.
TakeUri(r, u) ==
    /\ Resolving(r)
    /\ poll = "none"
    /\ u \in todo
    /\ todo' = todo \ {u}
    /\ UNCHANGED <<held, driverVars, nameless, daemonVars, crashed, request>>

SkipShortName(r, u) ==
    /\ TakeUri(r, u)
    /\ u \in ShortUris
    /\ unresolved' = unresolved - 1
    /\ UNCHANGED <<kt, poll, resolver, released>>

\* ResolveService fails: no poll object, or no client because no daemon runs.
ResolveServiceFails(r, u) ==
    /\ TakeUri(r, u)
    /\ u \in FullUris
    /\ unresolved' = unresolved - 1
    /\ UNCHANGED <<kt, poll, resolver, released>>

\* ResolveService has a client, perhaps a resolver, and runs Avahi's loop.
ResolveServicePolls(r, u) ==
    /\ TakeUri(r, u)
    /\ u \in FullUris
    /\ daemon
    /\ poll' = "running"
    /\ resolver' \in BOOLEAN
    /\ UNCHANGED <<kt, unresolved, released>>

\* The resolver's only event: it is freed in the callback.
resolve_callback(found) ==
    /\ poll = "running"
    /\ resolver
    /\ resolver' = FALSE
    /\ unresolved' = IF found THEN unresolved - 1 ELSE unresolved
    /\ UNCHANGED <<kt, held, driverVars, todo, poll, nameless, daemonVars, crashed, request,
                   released>>

\* Avahi's loop has returned, ResolveService with 0: group all devices.
ResolveServiceReturns_counts(r) ==
    /\ Resolving(r)
    /\ poll = "quit"
    /\ poll' = "none"
    /\ resolver' = FALSE
    /\ unresolved' = unresolved - 1
    /\ group(r, kt, nameless)
    /\ UNCHANGED <<held, driverVars, todo, nameless, daemonVars, request>>
ResolveServiceReturns(r) ==
    /\ Resolving(r)
    /\ poll = "quit"
    /\ poll' = "none"
    /\ resolver' = FALSE
    /\ group(r, kt, nameless)
    /\ UNCHANGED <<held, driverVars, unresolved, todo, nameless, daemonVars, request>>

GPDReturns_if_resolved(r) ==
    /\ Resolving(r)
    /\ poll = "none"
    /\ todo = {} /\ unresolved = 0
    /\ request' = [request EXCEPT ![r].status = "answered"]
    /\ nameless' = FALSE
    /\ UNCHANGED <<kt, held, driverVars, unresolved, todo, poll, resolver, daemonVars,
                   crashed, released>>
GPDReturns(r) ==
    /\ Resolving(r)
    /\ poll = "none"
    /\ todo = {}
    /\ request' = [request EXCEPT ![r].status = "answered"]
    /\ nameless' = FALSE
    /\ UNCHANGED <<kt, held, driverVars, unresolved, todo, poll, resolver, daemonVars,
                   crashed, released>>

\* The daemon stops; a client sees AVAHI_CLIENT_FAILURE, and client_callback
\* tells the loop to quit.
DaemonStops ==
    /\ daemon
    /\ stops < MaxStops
    /\ daemon' = FALSE
    /\ stops' = stops + 1
    /\ poll' = IF poll = "running" THEN "quit" ELSE poll
    /\ UNCHANGED <<kt, held, driverVars, unresolved, todo, resolver, nameless, crashed, request,
                   released>>

DaemonStarts ==
    /\ ~daemon
    /\ daemon' = TRUE
    /\ UNCHANGED <<kt, held, driverVars, avahiVars, stops, crashed, request, released>>

-----------------------------------------------------------------------------

GroupStep ==
    \E r \in Requests :
        \/ \E u \in Uris : \/ SkipShortName(r, u)
                           \/ ResolveServiceFails(r, u)
                           \/ ResolveServicePolls(r, u)
        \/ ResolveServiceReturns(r)
        \/ GPDReturns(r)

Next ==
    \/ AddHold
    \/ RemoveHold
    \/ \E r \in Requests, d \in Devices :
          \/ \E fetched \in BOOLEAN : FetchPPDs(r, d, fetched)
          \/ \E data_ppdnames \in {"NULL", "garbage"} : PPDsAlreadyFetched(r, d, data_ppdnames)
          \/ WaitForPPDs(r, d)
    \/ \E r \in Requests, uris \in SUBSET Uris : GPDRequest(r, uris)
    \/ \E found \in BOOLEAN : resolve_callback(found)
    \/ GroupStep
    \/ DaemonStops
    \/ DaemonStarts

Spec == Init /\ [][Next]_vars

\* The program goes on, and a resolver gets its event.
Fairness == WF_vars(GroupStep) /\ WF_vars(\E found \in BOOLEAN : resolve_callback(found))

FairSpec == Spec /\ Fairness

-----------------------------------------------------------------------------
(* Properties. *)

\* The types of the state; `unresolved` may be any integer here.
TypeOK ==
    /\ kt \in TimerState
    /\ held \in 0 .. MaxHeld
    /\ http \in BOOLEAN /\ g_ppds \in BOOLEAN /\ crashed \in BOOLEAN
    /\ fit \in Devices \cup {NoDrivers}
    /\ waiting \subseteq Requests
    /\ unresolved \in Int
    /\ todo \subseteq Uris
    /\ poll \in {"none", "running", "quit"}
    /\ resolver \in BOOLEAN /\ nameless \in BOOLEAN
    /\ daemon \in BOOLEAN /\ stops \in 0 .. MaxStops
    /\ request \in [Requests ->
          [kind : {"none", "drivers", "group"}, device : Devices \cup {NoDrivers},
           status : {"unsent", "running", "answered"}, reply : Devices \cup {NoDrivers}]]
    /\ released \in [Requests -> Nat]

\* Requests never disturb the dialogs' holds, unless one of them grouped its
\* devices twice (group() is called for each resolved name, and each time
\* removes a hold): the timer's holds are the dialogs' and one for each request
\* that took its hold and never removed it (GetBestDriversRequest.c:92,
\* GroupPhysicalDevicesRequest.c:115).
HoldsBalance ==
    ~crashed /\ (\A r \in Requests : released[r] <= 1) =>
        kt.holds = held + Cardinality({r \in Requests :
                              request[r].status # "unsent" /\ released[r] = 0})

\* `unresolved` is unsigned and decremented from two sides, the resolver's loop
\* and its callback: it never wraps, as every name that may still be decremented
\* for is accounted for (GroupPhysicalDevicesRequest.c:183, 199, 232, 295, 362).
NamesAccounted ==
    unresolved >= Cardinality(todo) + (IF poll = "running" /\ resolver THEN 1 ELSE 0)

\* Unless it crashes, GPDRequest ends provided Avahi's loop returns whenever it was entered,
\* whatever the resolvers report (GroupPhysicalDevicesRequest.c:195 to 301).
GroupingEndsIfLoopReturns ==
    \A r \in Requests :
        []<>(poll # "running") => (Resolving(r) ~> ~Resolving(r))

\* "Called whenever a service has been resolved successfully or timed out"
\* (GroupPhysicalDevicesRequest.c:319): the resolver's event, whichever it is,
\* lets the request end.
GroupingEnds ==
    \A r \in Requests : Resolving(r) ~> ~Resolving(r)

\* "Determine the best available drivers for a particular device" (the
\* interface's XML:102): a list of drivers is one for the device of the call.
ReplyIsForDevice ==
    \A r \in Requests :
        request[r].reply # NoDrivers => request[r].reply = request[r].device

=============================================================================
