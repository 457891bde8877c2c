----------------------- MODULE DeviceRequests_proofs -----------------------
(***************************************************************************)
(* Proofs about the requests about devices, for any number of requests,    *)
(* holds, devices and URIs.                                                *)
(***************************************************************************)
EXTENDS DeviceRequests, CommonLemmas, FiniteSetTheorems

USE TimeoutAssumption, MaxIdAssumption, BoundsAssumption, UrisAssumption

\* The timer's source is attached when nobody holds.
TimerOK ==
    /\ kt \in TimerState
    /\ IF kt.holds = 0 THEN OnlyTimer(kt) ELSE NoSource(kt)

\* The requests whose hold has not been removed.
Holding == {r \in Requests : request[r].status # "unsent" /\ released[r] = 0}

\* A request removes no hold before it was made, unless its reply is the NULL that
\* ends the program.
ReleasedAfterSent ==
    ~crashed => \A r \in Requests : request[r].status = "unsent" => released[r] = 0

\* Avahi's loop runs in a grouping request only.
PollIsOfRequest == poll # "none" => crashed \/ \E r \in Requests : Resolving(r)

\* The inductive invariant.
IInv ==
    /\ TypeOK
    /\ TimerOK
    /\ HoldsBalance
    /\ NamesAccounted
    /\ ReleasedAfterSent
    /\ PollIsOfRequest

-----------------------------------------------------------------------------
(* Finite sets. *)

LEMMA FiniteUris ==
    ASSUME NEW uris \in SUBSET Uris
    PROVE  IsFiniteSet(uris) /\ Cardinality(uris) \in Nat
BY FS_Subset, FS_CardinalityType DEF Uris

LEMMA FiniteRequests ==
    ASSUME NEW R \in SUBSET Requests
    PROVE  IsFiniteSet(R) /\ Cardinality(R) \in Nat
<1>1. IsFiniteSet(Requests)
  BY FS_Interval DEF Requests
<1> QED
  BY <1>1, FS_Subset, FS_CardinalityType

\* HoldsBalance in the terms of Holding.
LEMMA BalanceOfHolding ==
    HoldsBalance <=>
        (~crashed /\ (\A r \in Requests : released[r] <= 1)
            => kt.holds = held + Cardinality(Holding))
BY DEF HoldsBalance, Holding

-----------------------------------------------------------------------------
(* The timer in the steps that several actions share. *)

LEMMA Added ==
    ASSUME NEW k \in TimerState, IF k.holds = 0 THEN OnlyTimer(k) ELSE NoSource(k)
    PROVE  /\ add_hold(k) \in TimerState
           /\ add_hold(k).holds = k.holds + 1
           /\ add_hold(k).holds > 0
           /\ IF add_hold(k).holds = 0 THEN OnlyTimer(add_hold(k)) ELSE NoSource(add_hold(k))
<1>1. k.holds \in Nat
  BY DEF TimerState
<1> QED
  BY <1>1, AddHoldState

LEMMA Removed ==
    ASSUME NEW k \in TimerState, IF k.holds = 0 THEN OnlyTimer(k) ELSE NoSource(k)
    PROVE  /\ remove_hold(k) \in TimerState
           /\ k.holds > 0 => remove_hold(k).holds = k.holds - 1
           /\ IF remove_hold(k).holds = 0
              THEN OnlyTimer(remove_hold(k)) ELSE NoSource(remove_hold(k))
<1>1. k.holds \in Nat
  BY DEF TimerState
<1>2. CASE k.holds = 0
  BY <1>2 DEF remove_hold
<1>3. CASE k.holds > 0
  BY <1>1, <1>3, RemoveHoldState
<1> QED
  BY <1>1, <1>2, <1>3

-----------------------------------------------------------------------------
(* Types. *)

\* The type of a request's record, and the types of the rest.
RequestType ==
    [kind : {"none", "drivers", "group"}, device : Devices \cup {NoDrivers},
     status : {"unsent", "running", "answered"}, reply : Devices \cup {NoDrivers}]
RequestsOK == request \in [Requests -> RequestType]
CountsOK ==
    /\ held \in 0 .. MaxHeld
    /\ stops \in 0 .. MaxStops
    /\ unresolved \in Int
    /\ released \in [Requests -> Nat]
SetsOK ==
    /\ fit \in Devices \cup {NoDrivers}
    /\ waiting \subseteq Requests
    /\ todo \subseteq Uris
    /\ poll \in {"none", "running", "quit"}
FlagsOK ==
    /\ http \in BOOLEAN /\ g_ppds \in BOOLEAN /\ crashed \in BOOLEAN
    /\ resolver \in BOOLEAN /\ nameless \in BOOLEAN /\ daemon \in BOOLEAN

LEMMA TypeParts == TypeOK <=> kt \in TimerState /\ RequestsOK /\ CountsOK /\ SetsOK /\ FlagsOK
<1>1. TypeOK => kt \in TimerState /\ RequestsOK /\ CountsOK /\ SetsOK /\ FlagsOK
  BY Zenon DEF TypeOK, RequestsOK, CountsOK, SetsOK, FlagsOK, RequestType
<1>2. kt \in TimerState /\ RequestsOK /\ CountsOK /\ SetsOK /\ FlagsOK => TypeOK
  BY Zenon DEF TypeOK, RequestsOK, CountsOK, SetsOK, FlagsOK, RequestType
<1> QED
  BY <1>1, <1>2

LEMMA TypeInit == Init => TypeOK /\ TimerOK
<1> SUFFICES ASSUME Init PROVE TypeOK /\ TimerOK
  OBVIOUS
<1>1. TimerOK
  BY StartedState DEF Init, TimerOK
<1>2. RequestsOK
  BY DEF Init, RequestsOK, RequestType, Unsent
<1>3. CountsOK
  BY DEF Init, CountsOK
<1>4. SetsOK
  BY DEF Init, SetsOK
<1>5. FlagsOK
  BY DEF Init, FlagsOK
<1> QED
  BY <1>1, <1>2, <1>3, <1>4, <1>5, TypeParts DEF TimerOK

LEMMA TimerStep == TypeOK /\ TimerOK /\ [Next]_vars => TimerOK'
<1> SUFFICES ASSUME TimerOK, [Next]_vars PROVE TimerOK'
  OBVIOUS
<1>1. TimerOK' \/ kt' = kt
         \/ kt' \in {add_hold(kt), remove_hold(kt), remove_hold(add_hold(kt))}
  BY DEF Next, GroupStep, vars, AddHold, RemoveHold, FetchPPDs, ppds_ready, ppds_error,
         PPDsAlreadyFetched, WaitForPPDs, GPDRequest, group, resolve_callback,
         SkipShortName, ResolveServiceFails, ResolveServicePolls, TakeUri,
         ResolveServiceReturns, GPDReturns, DaemonStops, DaemonStarts
<1>2. CASE kt' = kt
  BY <1>2 DEF TimerOK
<1>3. CASE kt' = add_hold(kt)
  BY <1>3, Added DEF TimerOK
<1>4. CASE kt' = remove_hold(kt)
  BY <1>4, Removed DEF TimerOK
<1>5. CASE kt' = remove_hold(add_hold(kt))
  <2>1. /\ add_hold(kt) \in TimerState
        /\ IF add_hold(kt).holds = 0
           THEN OnlyTimer(add_hold(kt)) ELSE NoSource(add_hold(kt))
    BY Added DEF TimerOK
  <2> QED
    BY <1>5, <2>1, Removed DEF TimerOK
<1> QED
  BY <1>1, <1>2, <1>3, <1>4, <1>5

\* Every assignment to a request gives it a record of the type.
LEMMA RequestsStep == RequestsOK /\ SetsOK' /\ [Next]_vars => RequestsOK'
<1> SUFFICES ASSUME RequestsOK, SetsOK', [Next]_vars PROVE RequestsOK'
  OBVIOUS
<1>1. ASSUME NEW r \in Requests, NEW d \in Devices, NEW list, Reply(r, d, list),
             list \in Devices \cup {NoDrivers}
      PROVE  RequestsOK'
  BY <1>1 DEF Reply, RequestsOK, RequestType
<1>2. ASSUME NEW r \in Requests, NEW status \in {"running", "answered"},
             Grouping(r, status)
      PROVE  RequestsOK'
  <2>1. [Unsent EXCEPT !.kind = "group", !.status = status] \in RequestType
    BY DEF Unsent, RequestType
  <2> QED
    BY <1>2, <2>1 DEF Grouping, RequestsOK
<1>3. ASSUME NEW r \in Requests, GPDReturns(r) PROVE RequestsOK'
  <2>1. request[r] \in RequestType
    BY DEF RequestsOK
  <2>2. [request[r] EXCEPT !.status = "answered"] \in RequestType
    BY <2>1 DEF RequestType
  <2>3. request' = [request EXCEPT ![r] = [request[r] EXCEPT !.status = "answered"]]
    BY <1>3 DEF GPDReturns, RequestsOK
  <2> QED
    BY <2>2, <2>3 DEF RequestsOK
<1>4. ASSUME NEW r \in Requests, NEW d \in Devices, NEW fetched \in BOOLEAN,
             FetchPPDs(r, d, fetched)
      PROVE  RequestsOK'
  BY <1>1, <1>4 DEF FetchPPDs, SetsOK
<1>5. ASSUME NEW r \in Requests, NEW d \in Devices, NEW data_ppdnames \in {"NULL", "garbage"},
             PPDsAlreadyFetched(r, d, data_ppdnames)
      PROVE  RequestsOK'
  BY <1>1, <1>5 DEF PPDsAlreadyFetched, SetsOK, RequestsOK, driverVars
<1>6. ASSUME NEW r \in Requests, NEW d \in Devices, WaitForPPDs(r, d)
      PROVE  RequestsOK'
  BY <1>1, <1>6 DEF WaitForPPDs, SetsOK
<1>7. ASSUME NEW r \in Requests, NEW uris \in SUBSET Uris, GPDRequest(r, uris)
      PROVE  RequestsOK'
  BY <1>2, <1>7 DEF GPDRequest
<1>8. \/ request' = request
      \/ \E r \in Requests, d \in Devices :
            \/ \E fetched \in BOOLEAN : FetchPPDs(r, d, fetched)
            \/ \E data_ppdnames \in {"NULL", "garbage"} : PPDsAlreadyFetched(r, d, data_ppdnames)
            \/ WaitForPPDs(r, d)
      \/ \E r \in Requests, uris \in SUBSET Uris : GPDRequest(r, uris)
      \/ \E r \in Requests : GPDReturns(r)
  BY DEF Next, GroupStep, vars, AddHold, RemoveHold, resolve_callback, SkipShortName,
         ResolveServiceFails, ResolveServicePolls, TakeUri, ResolveServiceReturns,
         DaemonStops, DaemonStarts
<1> QED
  BY <1>3, <1>4, <1>5, <1>6, <1>7, <1>8 DEF RequestsOK

LEMMA CountsStep == CountsOK /\ [Next]_vars => CountsOK'
<1> SUFFICES ASSUME CountsOK, [Next]_vars PROVE CountsOK'
  OBVIOUS
<1> USE DEF CountsOK, driverVars, avahiVars, daemonVars
<1>1. CASE AddHold \/ RemoveHold
  BY <1>1 DEF AddHold, RemoveHold
<1>2. ASSUME NEW r \in Requests, NEW d \in Devices, NEW fetched \in BOOLEAN,
             FetchPPDs(r, d, fetched)
      PROVE  CountsOK'
  BY <1>2 DEF FetchPPDs, ppds_ready, ppds_error
<1>3. ASSUME NEW r \in Requests, NEW d \in Devices, NEW data_ppdnames \in {"NULL", "garbage"},
             PPDsAlreadyFetched(r, d, data_ppdnames)
      PROVE  CountsOK'
  BY <1>3 DEF PPDsAlreadyFetched
<1>4. ASSUME NEW r \in Requests, NEW d \in Devices, WaitForPPDs(r, d)
      PROVE  CountsOK'
  BY <1>4 DEF WaitForPPDs
<1>5. ASSUME NEW r \in Requests, NEW uris \in SUBSET Uris, GPDRequest(r, uris)
      PROVE  CountsOK'
  <2>1. Cardinality(uris \ DirectUris) \in Nat
    BY FiniteUris
  <2> QED
    BY <1>5, <2>1 DEF GPDRequest, group
<1>6. ASSUME NEW found \in BOOLEAN, resolve_callback(found)
      PROVE  CountsOK'
  BY <1>6 DEF resolve_callback
<1>7. ASSUME NEW r \in Requests, NEW u \in Uris,
             SkipShortName(r, u) \/ ResolveServiceFails(r, u) \/ ResolveServicePolls(r, u)
      PROVE  CountsOK'
  BY <1>7 DEF SkipShortName, ResolveServiceFails, ResolveServicePolls, TakeUri
<1>8. ASSUME NEW r \in Requests, ResolveServiceReturns(r) PROVE CountsOK'
  BY <1>8 DEF ResolveServiceReturns, group
<1>9. ASSUME NEW r \in Requests, GPDReturns(r) PROVE CountsOK'
  BY <1>9 DEF GPDReturns
<1>10. CASE DaemonStops \/ DaemonStarts
  BY <1>10 DEF DaemonStops, DaemonStarts
<1>11. CASE UNCHANGED vars
  BY <1>11 DEF vars
<1> QED
  BY <1>1, <1>2, <1>3, <1>4, <1>5, <1>6, <1>7, <1>8, <1>9, <1>10, <1>11 DEF Next, GroupStep

LEMMA SetsStep == SetsOK /\ [Next]_vars => SetsOK'
<1> SUFFICES ASSUME SetsOK, [Next]_vars PROVE SetsOK'
  OBVIOUS
<1> USE DEF SetsOK, driverVars, avahiVars, daemonVars
<1>1. CASE AddHold \/ RemoveHold
  BY <1>1 DEF AddHold, RemoveHold
<1>2. ASSUME NEW r \in Requests, NEW d \in Devices, NEW fetched \in BOOLEAN,
             FetchPPDs(r, d, fetched)
      PROVE  SetsOK'
  BY <1>2 DEF FetchPPDs, ppds_ready, ppds_error
<1>3. ASSUME NEW r \in Requests, NEW d \in Devices, NEW data_ppdnames \in {"NULL", "garbage"},
             PPDsAlreadyFetched(r, d, data_ppdnames)
      PROVE  SetsOK'
  BY <1>3 DEF PPDsAlreadyFetched
<1>4. ASSUME NEW r \in Requests, NEW d \in Devices, WaitForPPDs(r, d)
      PROVE  SetsOK'
  BY <1>4 DEF WaitForPPDs
<1>5. ASSUME NEW r \in Requests, NEW uris \in SUBSET Uris, GPDRequest(r, uris)
      PROVE  SetsOK'
  BY <1>5 DEF GPDRequest, group
<1>6. ASSUME NEW found \in BOOLEAN, resolve_callback(found)
      PROVE  SetsOK'
  BY <1>6 DEF resolve_callback
<1>7. ASSUME NEW r \in Requests, NEW u \in Uris,
             SkipShortName(r, u) \/ ResolveServiceFails(r, u) \/ ResolveServicePolls(r, u)
      PROVE  SetsOK'
  BY <1>7 DEF SkipShortName, ResolveServiceFails, ResolveServicePolls, TakeUri
<1>8. ASSUME NEW r \in Requests, ResolveServiceReturns(r) PROVE SetsOK'
  BY <1>8 DEF ResolveServiceReturns, group
<1>9. ASSUME NEW r \in Requests, GPDReturns(r) PROVE SetsOK'
  BY <1>9 DEF GPDReturns
<1>10. CASE DaemonStops \/ DaemonStarts
  BY <1>10 DEF DaemonStops, DaemonStarts
<1>11. CASE UNCHANGED vars
  BY <1>11 DEF vars
<1> QED
  BY <1>1, <1>2, <1>3, <1>4, <1>5, <1>6, <1>7, <1>8, <1>9, <1>10, <1>11 DEF Next, GroupStep

LEMMA FlagsStep == FlagsOK /\ [Next]_vars => FlagsOK'
<1> SUFFICES ASSUME FlagsOK, [Next]_vars PROVE FlagsOK'
  OBVIOUS
<1> USE DEF FlagsOK, driverVars, avahiVars, daemonVars
<1>1. CASE AddHold \/ RemoveHold
  BY <1>1 DEF AddHold, RemoveHold
<1>2. ASSUME NEW r \in Requests, NEW d \in Devices, NEW fetched \in BOOLEAN,
             FetchPPDs(r, d, fetched)
      PROVE  FlagsOK'
  BY <1>2 DEF FetchPPDs, Reply
<1>3. ASSUME NEW r \in Requests, NEW d \in Devices, NEW data_ppdnames \in {"NULL", "garbage"},
             PPDsAlreadyFetched(r, d, data_ppdnames)
      PROVE  FlagsOK'
  BY <1>3 DEF PPDsAlreadyFetched, Reply
<1>4. ASSUME NEW r \in Requests, NEW d \in Devices, WaitForPPDs(r, d)
      PROVE  FlagsOK'
  BY <1>4 DEF WaitForPPDs, Reply
<1>5. ASSUME NEW r \in Requests, NEW uris \in SUBSET Uris, GPDRequest(r, uris)
      PROVE  FlagsOK'
  <2>1. add_device_fails(uris) \in BOOLEAN
    BY DEF add_device_fails
  <2> QED
    BY <1>5, <2>1 DEF GPDRequest, group
<1>6. ASSUME NEW found \in BOOLEAN, resolve_callback(found)
      PROVE  FlagsOK'
  BY <1>6 DEF resolve_callback
<1>7. ASSUME NEW r \in Requests, NEW u \in Uris,
             SkipShortName(r, u) \/ ResolveServiceFails(r, u) \/ ResolveServicePolls(r, u)
      PROVE  FlagsOK'
  BY <1>7 DEF SkipShortName, ResolveServiceFails, ResolveServicePolls, TakeUri
<1>8. ASSUME NEW r \in Requests, ResolveServiceReturns(r) PROVE FlagsOK'
  BY <1>8 DEF ResolveServiceReturns, group
<1>9. ASSUME NEW r \in Requests, GPDReturns(r) PROVE FlagsOK'
  BY <1>9 DEF GPDReturns
<1>10. CASE DaemonStops \/ DaemonStarts
  BY <1>10 DEF DaemonStops, DaemonStarts
<1>11. CASE UNCHANGED vars
  BY <1>11 DEF vars
<1> QED
  BY <1>1, <1>2, <1>3, <1>4, <1>5, <1>6, <1>7, <1>8, <1>9, <1>10, <1>11 DEF Next, GroupStep

LEMMA TypeStep == TypeOK /\ TimerOK /\ [Next]_vars => TypeOK' /\ TimerOK'
<1> SUFFICES ASSUME TypeOK, TimerOK, [Next]_vars PROVE TypeOK' /\ TimerOK'
  OBVIOUS
<1>1. TimerOK'
  BY TimerStep
<1>2. RequestsOK' /\ CountsOK' /\ SetsOK' /\ FlagsOK'
  BY TypeParts, RequestsStep, CountsStep, SetsStep, FlagsStep
<1>3. TypeOK'
  BY <1>1, <1>2, Zenon
  DEF TimerOK, TypeOK, RequestsOK, CountsOK, SetsOK, FlagsOK, RequestType
<1> QED
  BY <1>1, <1>3

-----------------------------------------------------------------------------
(* The balance of holds. *)

\* A request that is made keeps its hold.
LEMMA MadeHeld ==
    ASSUME RequestsOK, CountsOK, NEW r \in Requests, NEW q,
           request[r].status = "unsent", released[r] = 0,
           request' = [request EXCEPT ![r] = q], q.status # "unsent",
           released' = released
    PROVE  Cardinality(Holding') = Cardinality(Holding) + 1
<1>1. Holding' = Holding \cup {r} /\ r \notin Holding
  BY DEF Holding, RequestsOK
<1>2. Holding \in SUBSET Requests
  BY DEF Holding
<1> QED
  BY <1>1, <1>2, FiniteRequests, FS_AddElement

\* A request that is made gives its hold back at once.
LEMMA MadeReleased ==
    ASSUME RequestsOK, CountsOK, NEW r \in Requests, NEW q,
           request[r].status = "unsent",
           request' = [request EXCEPT ![r] = q],
           released' = [released EXCEPT ![r] = 1]
    PROVE  Cardinality(Holding') = Cardinality(Holding)
<1>1. Holding' = Holding
  BY DEF Holding, RequestsOK, CountsOK
<1> QED
  BY <1>1

\* A request that has its hold gives it back.
LEMMA HeldReleased ==
    ASSUME RequestsOK, CountsOK, NEW r \in Requests,
           request[r].status # "unsent", released[r] = 0,
           request' = request,
           released' = [released EXCEPT ![r] = 1]
    PROVE  Cardinality(Holding) > 0 /\ Cardinality(Holding') = Cardinality(Holding) - 1
<1>1. Holding' = Holding \ {r} /\ r \in Holding
  BY DEF Holding, CountsOK
<1>2. Holding \in SUBSET Requests
  BY DEF Holding
<1>3. Cardinality(Holding) # 0
  BY <1>1, <1>2, FiniteRequests, FS_EmptySet
<1> QED
  BY <1>1, <1>2, <1>3, FiniteRequests, FS_RemoveElement

\* Balance(k, h, n): the equation of HoldsBalance.
Balance(k, h, n) == k.holds = h + n

LEMMA BalanceStep == IInv /\ [Next]_vars => HoldsBalance' /\ ReleasedAfterSent'
<1> SUFFICES ASSUME IInv, [Next]_vars PROVE HoldsBalance' /\ ReleasedAfterSent'
  OBVIOUS
<1>t. RequestsOK /\ CountsOK /\ FlagsOK
  BY TypeParts DEF IInv
<1>k. /\ kt.holds \in Nat /\ held \in Nat
      /\ add_hold(kt).holds = kt.holds + 1
      /\ kt.holds > 0 => remove_hold(kt).holds = kt.holds - 1
      /\ remove_hold(add_hold(kt)).holds = kt.holds
  <2>1. kt.holds \in Nat /\ held \in Nat
    BY <1>t DEF IInv, TimerOK, TimerState, CountsOK
  <2>2. /\ add_hold(kt) \in TimerState
        /\ add_hold(kt).holds = kt.holds + 1
        /\ IF add_hold(kt).holds = 0
           THEN OnlyTimer(add_hold(kt)) ELSE NoSource(add_hold(kt))
        /\ kt.holds > 0 => remove_hold(kt).holds = kt.holds - 1
    BY Added, Removed DEF IInv, TimerOK
  <2>3. remove_hold(add_hold(kt)).holds = add_hold(kt).holds - 1
    BY <2>1, <2>2, Removed
  <2> QED
    BY <2>1, <2>2, <2>3
<1>h. Cardinality(Holding) \in Nat
  BY FiniteRequests DEF Holding
<1>b. ~crashed /\ (\A r \in Requests : released[r] <= 1)
         => Balance(kt, held, Cardinality(Holding))
  BY BalanceOfHolding DEF IInv, Balance
<1> DEFINE Goal == /\ ~crashed' /\ (\A r \in Requests : released'[r] <= 1)
                        => Balance(kt', held', Cardinality(Holding'))
                   /\ ReleasedAfterSent'
<1>g. Goal => HoldsBalance' /\ ReleasedAfterSent'
  BY DEF HoldsBalance, Holding, Balance
<1>s. ReleasedAfterSent
  BY DEF IInv
<1> HIDE DEF Goal
<1>1. ASSUME AddHold PROVE Goal
  <2>1. Holding' = Holding /\ ReleasedAfterSent'
    BY <1>1, <1>s DEF AddHold, Holding, ReleasedAfterSent
  <2>2. /\ crashed' = crashed /\ released' = released
        /\ held' = held + 1 /\ kt' = add_hold(kt)
    BY <1>1 DEF AddHold
  <2> QED
    BY <2>1, <2>2, <1>k, <1>h, <1>b DEF Balance, Goal
<1>2. ASSUME RemoveHold PROVE Goal
  <2>1. Holding' = Holding /\ ReleasedAfterSent'
    BY <1>2, <1>s DEF RemoveHold, Holding, ReleasedAfterSent
  <2>2. /\ crashed' = crashed /\ released' = released
        /\ held > 0 /\ held' = held - 1 /\ kt' = remove_hold(kt)
    BY <1>2 DEF RemoveHold
  <2> QED
    BY <2>1, <2>2, <1>k, <1>h, <1>b DEF Balance, Goal
<1>3. ASSUME NEW r \in Requests, NEW d \in Devices, NEW fetched \in BOOLEAN,
             FetchPPDs(r, d, fetched)
      PROVE  Goal
  <2> DEFINE q == [kind |-> "drivers", device |-> d, status |-> "answered", reply |-> fit']
  <2>1. /\ request[r].status = "unsent" /\ released[r] = 0
        /\ q.status # "unsent"
        /\ held' = held
    BY <1>3, <1>s DEF FetchPPDs, NextRequest, Idle, ReleasedAfterSent
  <2>2. \/ request' = [request EXCEPT ![r] = q] /\ crashed' = crashed
        \/ crashed' = TRUE
    BY <1>3 DEF FetchPPDs, Reply
  <2> HIDE DEF q
  <2>3. CASE crashed' = TRUE
    BY <2>3 DEF Goal, ReleasedAfterSent
  <2>4. CASE request' = [request EXCEPT ![r] = q] /\ crashed' = crashed
    <3>1. ReleasedAfterSent'
      BY <1>3, <1>s, <1>t, <2>1, <2>4
      DEF FetchPPDs, ppds_ready, ppds_error, ReleasedAfterSent, RequestsOK, CountsOK
    <3>2. CASE fetched /\ http
      <4>1. released' = [released EXCEPT ![r] = 1] /\ kt' = remove_hold(add_hold(kt))
        BY <1>3, <3>2 DEF FetchPPDs, ppds_ready
      <4>2. Cardinality(Holding') = Cardinality(Holding)
        BY <1>t, <2>1, <2>4, <4>1, MadeReleased
      <4>3. (\A p \in Requests : released'[p] <= 1) => \A p \in Requests : released[p] <= 1
        BY <1>t, <2>1, <4>1 DEF CountsOK
      <4> QED
        BY <1>b, <1>k, <2>1, <2>4, <3>1, <4>1, <4>2, <4>3 DEF Balance, Goal
    <3>3. CASE ~(fetched /\ http)
      <4>1. released' = released /\ kt' = add_hold(kt)
        BY <1>3, <3>3 DEF FetchPPDs, ppds_error
      <4>2. Cardinality(Holding') = Cardinality(Holding) + 1
        BY <1>t, <2>1, <2>4, <4>1, MadeHeld
      <4> QED
        BY <1>b, <1>k, <1>h, <2>1, <2>4, <3>1, <4>1, <4>2 DEF Balance, Goal
    <3> QED
      BY <3>2, <3>3
  <2> QED
    BY <2>2, <2>3, <2>4
<1>4. ASSUME NEW r \in Requests, NEW d \in Devices,
             \/ \E data_ppdnames \in {"NULL", "garbage"} : PPDsAlreadyFetched(r, d, data_ppdnames)
             \/ WaitForPPDs(r, d)
      PROVE  Goal
  <2> DEFINE q == [kind |-> "drivers", device |-> d, status |-> "answered", reply |-> fit]
  <2>1. /\ request[r].status = "unsent" /\ released[r] = 0
        /\ q.status # "unsent"
        /\ held' = held /\ released' = released /\ kt' = add_hold(kt)
    BY <1>4, <1>s DEF PPDsAlreadyFetched, WaitForPPDs, NextRequest, Idle, ReleasedAfterSent
  <2>2. \/ request' = [request EXCEPT ![r] = q] /\ crashed' = crashed
        \/ crashed' = TRUE
    BY <1>4 DEF PPDsAlreadyFetched, WaitForPPDs, Reply
  <2> HIDE DEF q
  <2>3. CASE request' = [request EXCEPT ![r] = q] /\ crashed' = crashed
    <3>1. ReleasedAfterSent'
      BY <1>s, <1>t, <2>1, <2>3 DEF ReleasedAfterSent, RequestsOK
    <3>2. Cardinality(Holding') = Cardinality(Holding) + 1
      BY <1>t, <2>1, <2>3, MadeHeld
    <3> QED
      BY <1>b, <1>k, <1>h, <2>1, <2>3, <3>1, <3>2 DEF Balance, Goal
  <2>4. CASE crashed' = TRUE
    BY <2>4 DEF Goal, ReleasedAfterSent
  <2> QED
    BY <2>2, <2>3, <2>4
<1>5. ASSUME NEW r \in Requests, NEW uris \in SUBSET Uris, GPDRequest(r, uris)
      PROVE  Goal
  <2> DEFINE q == IF uris \ DirectUris = {}
                  THEN [Unsent EXCEPT !.kind = "group", !.status = "answered"]
                  ELSE [Unsent EXCEPT !.kind = "group", !.status = "running"]
  <2>1. /\ request[r].status = "unsent" /\ released[r] = 0
        /\ request' = [request EXCEPT ![r] = q]
        /\ q.status # "unsent"
        /\ held' = held
    BY <1>5, <1>s DEF GPDRequest, NextRequest, Idle, Grouping, Unsent, ReleasedAfterSent
  <2>2. \/ crashed' = TRUE /\ released' = released
        \/ /\ crashed' = crashed
           /\ released' = [released EXCEPT ![r] = @ + 1]
           /\ kt' = remove_hold(add_hold(kt))
        \/ crashed' = crashed /\ released' = released /\ kt' = add_hold(kt)
    BY <1>5 DEF GPDRequest, group
  <2> HIDE DEF q
  <2>3. ReleasedAfterSent'
    BY <1>s, <1>t, <2>1, <2>2 DEF ReleasedAfterSent, RequestsOK, CountsOK
  <2>4. CASE crashed' = TRUE
    BY <2>3, <2>4 DEF Goal
  <2>5. CASE /\ crashed' = crashed
             /\ released' = [released EXCEPT ![r] = @ + 1]
             /\ kt' = remove_hold(add_hold(kt))
    <3>1. released' = [released EXCEPT ![r] = 1]
      BY <1>t, <2>1, <2>5 DEF CountsOK
    <3>2. Cardinality(Holding') = Cardinality(Holding)
      BY <1>t, <2>1, <3>1, MadeReleased
    <3>3. (\A p \in Requests : released'[p] <= 1) => \A p \in Requests : released[p] <= 1
      BY <1>t, <2>1, <3>1 DEF CountsOK
    <3> QED
      BY <1>b, <1>k, <2>1, <2>3, <2>5, <3>2, <3>3 DEF Balance, Goal
  <2>6. CASE crashed' = crashed /\ released' = released /\ kt' = add_hold(kt)
    <3>1. Cardinality(Holding') = Cardinality(Holding) + 1
      BY <1>t, <2>1, <2>6, MadeHeld
    <3> QED
      BY <1>b, <1>k, <1>h, <2>1, <2>3, <2>6, <3>1 DEF Balance, Goal
  <2> QED
    BY <2>2, <2>4, <2>5, <2>6
<1>6. ASSUME NEW r \in Requests, ResolveServiceReturns(r) PROVE Goal
  <2>1. /\ request[r].status # "unsent"
        /\ request' = request /\ held' = held
    BY <1>6 DEF ResolveServiceReturns, Resolving
  <2>2. \/ crashed' = TRUE /\ released' = released
        \/ /\ crashed' = crashed
           /\ released' = [released EXCEPT ![r] = @ + 1]
           /\ kt' = remove_hold(kt)
    BY <1>6 DEF ResolveServiceReturns, group
  <2>3. ReleasedAfterSent'
    BY <1>s, <1>t, <2>1, <2>2 DEF ReleasedAfterSent, CountsOK
  <2>4. CASE crashed' = TRUE
    BY <2>3, <2>4 DEF Goal
  <2>5. CASE /\ crashed' = crashed
             /\ released' = [released EXCEPT ![r] = @ + 1]
             /\ kt' = remove_hold(kt)
    <3>1. CASE released[r] = 0
      <4>1. released' = [released EXCEPT ![r] = 1]
        BY <1>t, <2>5, <3>1 DEF CountsOK
      <4>2. Cardinality(Holding) > 0 /\ Cardinality(Holding') = Cardinality(Holding) - 1
        BY <1>t, <2>1, <3>1, <4>1, HeldReleased
      <4>3. (\A p \in Requests : released'[p] <= 1) => \A p \in Requests : released[p] <= 1
        BY <1>t, <3>1, <4>1 DEF CountsOK
      <4> QED
        BY <1>b, <1>k, <1>h, <2>1, <2>3, <2>5, <4>2, <4>3 DEF Balance, Goal
    <3>2. CASE released[r] # 0
      <4>1. released'[r] > 1
        BY <1>t, <2>5, <3>2 DEF CountsOK
      <4>2. ~(\A p \in Requests : released'[p] <= 1)
        BY <1>t, <2>5, <4>1 DEF CountsOK
      <4> QED
        BY <2>3, <4>2 DEF Goal
    <3> QED
      BY <3>1, <3>2
  <2> QED
    BY <2>2, <2>4, <2>5
<1>7. ASSUME NEW r \in Requests, GPDReturns(r) PROVE Goal
  <2>1. /\ request[r].status # "unsent"
        /\ request' = [request EXCEPT ![r].status = "answered"]
        /\ kt' = kt /\ held' = held /\ crashed' = crashed /\ released' = released
    BY <1>7 DEF GPDReturns, Resolving
  <2>2. \A p \in Requests : request'[p].status = "unsent" <=> request[p].status = "unsent"
    BY <1>t, <2>1 DEF RequestsOK, RequestType
  <2>3. Holding' = Holding /\ ReleasedAfterSent'
    BY <1>s, <2>1, <2>2 DEF Holding, ReleasedAfterSent
  <2> QED
    BY <1>b, <2>1, <2>3 DEF Goal
<1>8. ASSUME UNCHANGED <<kt, held, crashed, request, released>> PROVE Goal
  <2>1. Holding' = Holding /\ ReleasedAfterSent'
    BY <1>8, <1>s DEF Holding, ReleasedAfterSent
  <2> QED
    BY <1>b, <1>8, <2>1 DEF Goal
<1>9. \/ AddHold \/ RemoveHold
      \/ \E r \in Requests, d \in Devices :
            \/ \E fetched \in BOOLEAN : FetchPPDs(r, d, fetched)
            \/ \E data_ppdnames \in {"NULL", "garbage"} : PPDsAlreadyFetched(r, d, data_ppdnames)
            \/ WaitForPPDs(r, d)
      \/ \E r \in Requests, uris \in SUBSET Uris : GPDRequest(r, uris)
      \/ \E r \in Requests : ResolveServiceReturns(r) \/ GPDReturns(r)
      \/ UNCHANGED <<kt, held, crashed, request, released>>
  BY DEF Next, GroupStep, vars, resolve_callback, SkipShortName, ResolveServiceFails,
         ResolveServicePolls, TakeUri, DaemonStops, DaemonStarts
<1> QED
  BY <1>1, <1>2, <1>3, <1>4, <1>5, <1>6, <1>7, <1>8, <1>9, <1>g

-----------------------------------------------------------------------------
(* The names that are accounted for. *)

\* The service resolvers that have yet to report.
Reporting == IF poll = "running" /\ resolver THEN 1 ELSE 0

\* When the loop of a grouping request is at none, nothing reports.
LEMMA IdleHasNoPoll == IInv /\ Idle => poll = "none"
BY DEF IInv, PollIsOfRequest, Idle

LEMMA NamesStep == IInv /\ [Next]_vars => NamesAccounted'
<1> SUFFICES ASSUME IInv, [Next]_vars PROVE NamesAccounted'
  OBVIOUS
<1>t. unresolved \in Int /\ todo \in SUBSET Uris
  BY DEF IInv, TypeOK
<1>c. Cardinality(todo) \in Nat /\ Reporting \in {0, 1}
  BY <1>t, FiniteUris DEF Reporting
<1>n. unresolved >= Cardinality(todo) + Reporting
  BY DEF IInv, NamesAccounted, Reporting
<1>g. ASSUME unresolved' >= Cardinality(todo') + Reporting' PROVE NamesAccounted'
  BY <1>g DEF NamesAccounted, Reporting
<1>1. ASSUME NEW r \in Requests, NEW uris \in SUBSET Uris, GPDRequest(r, uris)
      PROVE  NamesAccounted'
  <2>1. poll = "none" /\ poll' = "none"
    BY <1>1, IdleHasNoPoll DEF GPDRequest, NextRequest
  <2>2. Reporting' = 0 /\ Reporting = 0
    BY <2>1 DEF Reporting
  <2>3. Cardinality(uris \ DirectUris) \in Nat
    BY FiniteUris
  <2>4. \/ unresolved' = unresolved /\ todo' = todo
        \/ unresolved' = Cardinality(todo') /\ todo' = uris \ DirectUris
    BY <1>1 DEF GPDRequest
  <2>5. unresolved' >= Cardinality(todo') + Reporting'
    BY <1>c, <1>n, <2>2, <2>3, <2>4
  <2> QED
    BY <1>g, <2>5
<1>2. ASSUME NEW r \in Requests, NEW u \in Uris,
             SkipShortName(r, u) \/ ResolveServiceFails(r, u) \/ ResolveServicePolls(r, u)
      PROVE  NamesAccounted'
  <2>1. poll = "none" /\ u \in todo /\ todo' = todo \ {u}
    BY <1>2 DEF SkipShortName, ResolveServiceFails, ResolveServicePolls, TakeUri
  <2>2. Cardinality(todo') = Cardinality(todo) - 1
    BY <1>t, <2>1, FiniteUris, FS_RemoveElement
  <2>3. \/ unresolved' = unresolved - 1 /\ poll' = poll
        \/ unresolved' = unresolved
    BY <1>2 DEF SkipShortName, ResolveServiceFails, ResolveServicePolls
  <2>4. Reporting = 0 /\ Reporting' \in {0, 1} /\ (poll' = poll => Reporting' = 0)
    BY <2>1 DEF Reporting
  <2>5. unresolved' >= Cardinality(todo') + Reporting'
    BY <1>t, <1>c, <1>n, <2>2, <2>3, <2>4
  <2> QED
    BY <1>g, <2>5
<1>3. ASSUME NEW found \in BOOLEAN, resolve_callback(found)
      PROVE  NamesAccounted'
  <2>1. Reporting = 1 /\ Reporting' = 0 /\ todo' = todo
    BY <1>3 DEF resolve_callback, Reporting
  <2>2. unresolved' \in {unresolved - 1, unresolved}
    BY <1>3 DEF resolve_callback
  <2>3. unresolved' >= Cardinality(todo') + Reporting'
    BY <1>t, <1>c, <1>n, <2>1, <2>2
  <2> QED
    BY <1>g, <2>3
<1>4. ASSUME unresolved' = unresolved, todo' = todo, Reporting' \in {0, Reporting}
      PROVE  NamesAccounted'
  <2>1. unresolved' >= Cardinality(todo') + Reporting'
    BY <1>t, <1>c, <1>n, <1>4
  <2> QED
    BY <1>g, <2>1
<1>5. ASSUME unresolved' = unresolved, todo' = todo,
             \/ poll' = poll /\ resolver' = resolver
             \/ poll' = "none"
             \/ poll' = IF poll = "running" THEN "quit" ELSE poll
      PROVE  NamesAccounted'
  <2>1. Reporting' \in {0, Reporting}
    BY <1>5 DEF Reporting
  <2> QED
    BY <1>4, <1>5, <2>1
<1>6. \/ \E r \in Requests, uris \in SUBSET Uris : GPDRequest(r, uris)
      \/ \E r \in Requests, u \in Uris :
            SkipShortName(r, u) \/ ResolveServiceFails(r, u) \/ ResolveServicePolls(r, u)
      \/ \E found \in BOOLEAN : resolve_callback(found)
      \/ /\ unresolved' = unresolved /\ todo' = todo
         /\ \/ poll' = poll /\ resolver' = resolver
            \/ poll' = "none"
            \/ poll' = IF poll = "running" THEN "quit" ELSE poll
  BY DEF Next, GroupStep, vars, AddHold, RemoveHold, FetchPPDs, PPDsAlreadyFetched,
         WaitForPPDs, ResolveServiceReturns, GPDReturns, DaemonStops, DaemonStarts,
         driverVars, avahiVars, daemonVars
<1> QED
  BY <1>1, <1>2, <1>3, <1>5, <1>6

\* A request that resolves goes on doing so, or ends, or crashes the program.
LEMMA PollStep == IInv /\ [Next]_vars => PollIsOfRequest'
<1> SUFFICES ASSUME IInv, [Next]_vars, poll' # "none", ~crashed'
             PROVE  \E r \in Requests : Resolving(r)'
  BY DEF PollIsOfRequest
<1>c. ~crashed
  BY DEF Next, GroupStep, vars, AddHold, RemoveHold, FetchPPDs, PPDsAlreadyFetched,
         WaitForPPDs, GPDRequest, NextRequest, Idle, resolve_callback, SkipShortName,
         ResolveServiceFails, ResolveServicePolls, ResolveServiceReturns, GPDReturns,
         TakeUri, Resolving, DaemonStops, DaemonStarts
<1>1. ASSUME request' = request, poll # "none"
      PROVE  \E r \in Requests : Resolving(r)'
  <2>1. PICK r \in Requests : Resolving(r)
    BY <1>1, <1>c DEF IInv, PollIsOfRequest
  <2> QED
    BY <1>1, <2>1 DEF Resolving
<1>2. ASSUME NEW r \in Requests, NEW u \in Uris,
             SkipShortName(r, u) \/ ResolveServiceFails(r, u) \/ ResolveServicePolls(r, u)
      PROVE  \E p \in Requests : Resolving(p)'
  <2>1. Resolving(r) /\ request' = request
    BY <1>2 DEF SkipShortName, ResolveServiceFails, ResolveServicePolls, TakeUri
  <2> QED
    BY <2>1 DEF Resolving
<1>3. Idle => poll = "none"
  BY IdleHasNoPoll
<1>4. \/ \E r \in Requests, u \in Uris :
            SkipShortName(r, u) \/ ResolveServiceFails(r, u) \/ ResolveServicePolls(r, u)
      \/ Idle /\ poll' = poll
      \/ poll' = "none"
      \/ request' = request /\ (poll = "none" => poll' = "none")
      \/ poll = "none" /\ poll' = poll
  BY DEF Next, GroupStep, vars, AddHold, RemoveHold, FetchPPDs, PPDsAlreadyFetched,
         WaitForPPDs, GPDRequest, NextRequest, resolve_callback, ResolveServiceReturns,
         GPDReturns, DaemonStops, DaemonStarts, driverVars, avahiVars, daemonVars
<1> QED
  BY <1>1, <1>2, <1>3, <1>4

-----------------------------------------------------------------------------
(* The theorems. *)

LEMMA InitInv == Init => IInv
<1> SUFFICES ASSUME Init PROVE IInv
  OBVIOUS
<1>1. TypeOK /\ TimerOK
  BY TypeInit
<1>2. ReleasedAfterSent /\ PollIsOfRequest
  BY DEF Init, ReleasedAfterSent, PollIsOfRequest
<1>3. HoldsBalance
  <2>1. Holding = {}
    BY DEF Init, Holding, Unsent
  <2>2. kt.holds = 0 /\ held = 0
    BY StartedState DEF Init, Started
  <2> QED
    BY <2>1, <2>2, FS_EmptySet, BalanceOfHolding
<1>4. NamesAccounted
  BY FS_EmptySet DEF Init, NamesAccounted
<1> QED
  BY <1>1, <1>2, <1>3, <1>4 DEF IInv

\* The inductive invariant holds of every reachable state.
THEOREM Invariance == Spec => []IInv
<1>1. IInv /\ [Next]_vars => IInv'
  BY TypeStep, BalanceStep, NamesStep, PollStep DEF IInv
<1> QED
  BY InitInv, <1>1, PTL DEF Spec

\* The state has its types, and kt is a timer that add_hold and remove_hold can
\* have made, for any number of requests, holds, devices and URIs.
THEOREM TypeCorrect == Spec => []TypeOK
<1>1. IInv => TypeOK
  BY DEF IInv
<1> QED
  BY Invariance, <1>1, PTL

\* Requests about devices leave the dialogs' holds alone: the timer's holds are
\* the dialogs' and one for each request that never removed its own
\* (GetBestDriversRequest.c:92, GroupPhysicalDevicesRequest.c:115).
THEOREM HoldsCorrect == Spec => []HoldsBalance
<1>1. IInv => HoldsBalance
  BY DEF IInv
<1> QED
  BY Invariance, <1>1, PTL

\* The unsigned count of unresolved names is never decremented below zero
\* (GroupPhysicalDevicesRequest.c:183, 199, 232, 295, 362).
THEOREM NamesCorrect == Spec => []NamesAccounted
<1>1. IInv => NamesAccounted
  BY DEF IInv
<1> QED
  BY Invariance, <1>1, PTL

=============================================================================
