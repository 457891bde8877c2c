-------------------------- MODULE KillTimer_proofs --------------------------
(***************************************************************************)
(* Proofs about the kill timer, for every Timeout, every number of source  *)
(* ids and every number of holds.                                          *)
(***************************************************************************)
EXTENDS KillTimer, CommonLemmas

\* While nobody holds, the seconds already waited and the seconds the source
\* still has to wait make up the whole Timeout.
ClockAddsUp ==
    phase = "running" /\ kt.holds = 0 => quiet + kt.due[kt.timer] >= Timeout

\* The inductive invariant: types, which source is attached, and the clock.
IInv ==
    /\ TypeOK
    /\ OneSourceIffIdle
    /\ ClockAddsUp
    /\ phase = "unstarted" => kt = Unstarted /\ quiet = 0

USE TimeoutAssumption, MaxIdAssumption, MaxHoldsAssumption

-----------------------------------------------------------------------------
(* The invariant. *)

LEMMA InitInv == Init => IInv
<1> SUFFICES ASSUME Init PROVE IInv
  OBVIOUS
<1>1. Unstarted \in TimerState
  BY DEF Unstarted, TimerState, Dead, Ids
<1>3. quiet \in 0 .. Timeout /\ phase = "unstarted" /\ kt = Unstarted /\ quiet = 0
      /\ kill_func \in KillFuncs \cup {"NULL"}
  BY DEF Init
<1>4. TypeOK
  BY <1>1, <1>3 DEF TypeOK
<1> QED
  BY <1>3, <1>4 DEF IInv, OneSourceIffIdle, ClockAddsUp

LEMMA NextInv == IInv /\ [Next]_vars => IInv'
<1> SUFFICES ASSUME IInv, [Next]_vars PROVE IInv'
  OBVIOUS
<1> USE DEF IInv, TypeOK, OneSourceIffIdle, ClockAddsUp
<1>0. /\ kt \in TimerState
      /\ phase = "running" =>
            IF kt.holds = 0 THEN OnlyTimer(kt) ELSE NoSource(kt)
  BY AttachedOne
<1>1. ASSUME NEW f \in KillFuncs, Start(f) PROVE IInv'
  BY <1>1, StartedState, AttachedOne DEF Start
<1>2. ASSUME AddHold PROVE IInv'
  <2>1. kt' \in TimerState /\ kt'.holds = kt.holds + 1 /\ NoSource(kt')
    BY <1>0, <1>2, AddHoldState DEF AddHold
  <2>2. kt'.holds # 0
    BY <2>1, <1>0 DEF TimerState
  <2> QED
    BY <1>2, <2>1, <2>2, AttachedOne DEF AddHold
<1>3. ASSUME RemoveHold PROVE IInv'
  <2>1. CASE kt.holds = 0
    BY <1>3, <2>1 DEF RemoveHold, remove_hold
  <2>2. CASE kt.holds > 0
    <3>1. /\ kt' \in TimerState
          /\ kt'.holds = kt.holds - 1
          /\ IF kt.holds = 1
             THEN OnlyTimer(kt') /\ kt'.due[kt'.timer] = Timeout
             ELSE NoSource(kt')
      BY <1>0, <1>3, <2>2, RemoveHoldState DEF RemoveHold
    <3>2. kt'.holds = 0 <=> kt.holds = 1
      BY <3>1, <1>0 DEF TimerState
    <3>3. quiet' = 0 /\ phase' = "running" /\ kill_func' = kill_func
      BY <1>3, <2>2 DEF RemoveHold
    <3> QED
      BY <3>1, <3>2, <3>3, AttachedOne
  <2> QED
    BY <1>0, <2>1, <2>2 DEF TimerState
<1>4. ASSUME Alive PROVE IInv'
  <2>1. CASE kt.holds = 0
    BY <1>0, <1>4, <2>1, AliveState, AttachedOne DEF Alive
  <2>2. CASE kt.holds # 0
    BY <1>4, <2>2 DEF Alive, alive
  <2> QED
    BY <2>1, <2>2
<1>5. ASSUME Tick PROVE IInv'
  <2> DEFINE later(n) == IF n > 0 THEN n - 1 ELSE n
  <2>1. /\ kt' = [kt EXCEPT !.due = [id \in Ids |-> later(kt.due[id])]]
        /\ phase = "running" /\ phase' = "running"
        /\ kill_func' = kill_func
        /\ quiet' = IF kt.holds = 0 /\ quiet < Timeout THEN quiet + 1 ELSE quiet
    BY <1>5 DEF Tick
  <2>2. \A n \in Dead .. Timeout :
            later(n) \in Dead .. Timeout /\ (later(n) = Dead <=> n = Dead)
    BY DEF Dead
  <2>3. \A n \in Dead .. Timeout : later(n) >= n - 1
    BY DEF Dead
  <2> HIDE DEF later
  <2>4. \A id \in Ids : kt.due[id] \in Dead .. Timeout
    BY <1>0 DEF TimerState
  <2>5. /\ kt' \in TimerState
        /\ kt'.holds = kt.holds /\ kt'.timer = kt.timer
        /\ \A id \in Ids : kt'.due[id] = later(kt.due[id])
    BY <1>0, <2>1, <2>2, <2>4 DEF TimerState
  <2>6. Attached(kt') = Attached(kt)
    BY <2>2, <2>4, <2>5 DEF Attached
  <2>7. quiet' \in 0 .. Timeout
    BY <2>1
  <2>8. kt.holds = 0 => quiet' + kt'.due[kt'.timer] >= Timeout
    <3> SUFFICES ASSUME kt.holds = 0
                 PROVE  quiet' + kt'.due[kt'.timer] >= Timeout
      OBVIOUS
    <3>1. kt.timer \in Ids
      BY <1>0 DEF TimerState
    <3>2. OnlyTimer(kt)
      BY <1>0, <2>1
    <3> DEFINE n == kt.due[kt.timer]
    <3>3. n \in 0 .. Timeout /\ quiet + n >= Timeout
      BY <2>1, <2>4, <3>1, <3>2 DEF OnlyTimer, Dead
    <3>4. kt'.due[kt'.timer] = later(n)
      BY <2>5, <3>1
    <3> HIDE DEF n
    <3>5. later(n) = IF n > 0 THEN n - 1 ELSE n
      BY DEF later
    <3> QED
      BY <2>1, <3>3, <3>4, <3>5
  <2> QED
    BY <2>1, <2>5, <2>6, <2>7, <2>8
<1>6. ASSUME NEW id \in Ids, Kil(id) PROVE IInv'
  <2>1. kt.holds = 0 /\ id = kt.timer
    BY <1>0, <1>6 DEF Kil, OnlyTimer, NoSource, Dead
  <2>2. CASE kill_func # "NULL"
    <3>1. kt' = [kt EXCEPT !.due[id] = Timeout]
      BY <1>6, <2>2 DEF Kil
    <3>2. /\ kt' \in TimerState
          /\ kt'.holds = kt.holds /\ kt'.timer = kt.timer
          /\ kt'.due = [kt.due EXCEPT ![id] = Timeout]
      BY <1>0, <3>1 DEF TimerState, Dead
    <3>3. kt'.due[id] = Timeout /\ OnlyTimer(kt')
      BY <1>0, <1>6, <2>1, <3>2 DEF OnlyTimer, Kil, TimerState, Dead
    <3> QED
      BY <1>6, <2>1, <2>2, <3>2, <3>3, AttachedOne DEF Kil
  <2>3. CASE kill_func = "NULL"
    BY <1>6, <2>3 DEF Kil
  <2> QED
    BY <2>2, <2>3
<1>7. CASE UNCHANGED vars
  BY <1>7 DEF vars, Attached
<1> QED
  BY <1>1, <1>2, <1>3, <1>4, <1>5, <1>6, <1>7 DEF Next, KilAny

\* The state predicate holds in every reachable state.
THEOREM Invariance == Spec => []IInv
BY InitInv, NextInv, PTL DEF Spec

\* Type correctness of killtimer.c's globals.
THEOREM TypeCorrect == Spec => []TypeOK
BY Invariance, PTL DEF IInv

\* No timeout source is leaked or lost, for any number of holds and any
\* interleaving of add_hold, remove_hold, alive and kil.
THEOREM SourcesCorrect == Spec => []OneSourceIffIdle
BY Invariance, PTL DEF IInv

\* kil() never runs while the timer is held nor before the whole Timeout.
THEOREM GraceCorrect == Spec => FullGracePeriod
<1>1. IInv /\ [Next]_vars => [KilAny => kt.holds = 0 /\ quiet = Timeout]_vars
  <2> SUFFICES ASSUME IInv, NEW id \in Ids, Kil(id)
               PROVE  kt.holds = 0 /\ quiet = Timeout
    BY DEF KilAny
  <2> USE DEF IInv, TypeOK, OneSourceIffIdle, ClockAddsUp
  <2>1. IF kt.holds = 0 THEN OnlyTimer(kt) ELSE NoSource(kt)
    BY AttachedOne DEF Kil
  <2>2. kt.holds = 0 /\ id = kt.timer
    BY <2>1 DEF Kil, OnlyTimer, NoSource, Dead
  <2> QED
    BY <2>2 DEF Kil
<1> QED
  BY <1>1, Invariance, PTL DEF Spec, FullGracePeriod

-----------------------------------------------------------------------------
(* Refinement: every step of the timer is a step of the idle monitor. *)

LEMMA RefineInit == Init => Idle!Init
BY DEF Init, Idle!Init, IdleClock, Unstarted

LEMMA RefineNext == IInv /\ IInv' /\ [Next]_vars => [Idle!Next]_(Idle!vars)
<1> SUFFICES ASSUME IInv, IInv', [Next]_vars
             PROVE  Idle!Next \/ UNCHANGED Idle!vars
  OBVIOUS
<1> USE DEF IInv, TypeOK, OneSourceIffIdle
<1>0. /\ kt \in TimerState
      /\ phase = "running" =>
            IF kt.holds = 0 THEN OnlyTimer(kt) ELSE NoSource(kt)
  BY AttachedOne
<1>1. ASSUME NEW f \in KillFuncs, Start(f) PROVE Idle!Start
  BY <1>1, StartedState DEF Start, Idle!Start, IdleClock, Unstarted
<1>2. ASSUME AddHold PROVE Idle!Inhibit
  <2>1. kt'.holds = kt.holds + 1 /\ kt'.holds > 0
    BY <1>0, <1>2, AddHoldState DEF AddHold, TimerState
  <2> QED
    BY <1>2, <2>1 DEF AddHold, Idle!Inhibit, IdleClock
<1>3. ASSUME RemoveHold PROVE Idle!Release \/ UNCHANGED Idle!vars
  <2>1. CASE kt.holds = 0
    BY <1>3, <2>1 DEF RemoveHold, remove_hold, Idle!vars, IdleClock
  <2>2. CASE kt.holds > 0
    <3>1. /\ kt'.holds = kt.holds - 1
          /\ kt.holds = 1 => kt'.due[kt'.timer] = Timeout
      BY <1>0, <1>3, <2>2, RemoveHoldState DEF RemoveHold
    <3>2. IdleClock' = 0
      BY <1>0, <2>2, <3>1 DEF IdleClock, TimerState
    <3> QED
      BY <1>3, <2>2, <3>1, <3>2 DEF RemoveHold, Idle!Release
  <2> QED
    BY <1>0, <2>1, <2>2 DEF TimerState
<1>4. ASSUME Alive PROVE Idle!Reset
  <2>1. CASE kt.holds = 0
    <3>1. kt'.holds = 0 /\ kt'.due[kt'.timer] = Timeout
      BY <1>0, <1>4, <2>1, AliveState DEF Alive
    <3> QED
      BY <1>4, <2>1, <3>1 DEF Alive, Idle!Reset, IdleClock
  <2>2. CASE kt.holds > 0
    BY <1>4, <2>2 DEF Alive, alive, Idle!Reset, IdleClock
  <2> QED
    BY <1>0, <2>1, <2>2 DEF TimerState
<1>5. ASSUME Tick PROVE Idle!Pass \/ UNCHANGED Idle!vars
  <2>1. /\ kt'.holds = kt.holds /\ kt'.timer = kt.timer /\ kt.timer \in Ids
        /\ phase = "running" /\ phase' = "running"
        /\ \A id \in Ids :
              kt'.due[id] = IF kt.due[id] > 0 THEN kt.due[id] - 1 ELSE kt.due[id]
    BY <1>0, <1>5 DEF Tick, TimerState
  <2>2. CASE kt.holds > 0
    BY <2>1, <2>2 DEF IdleClock, Idle!vars
  <2>3. CASE kt.holds = 0
    <3> DEFINE n == kt.due[kt.timer]
    <3>1. n \in 0 .. Timeout
      BY <1>0, <2>1, <2>3 DEF OnlyTimer, TimerState, Dead
    <3>2. kt'.due[kt'.timer] = IF n > 0 THEN n - 1 ELSE n
      BY <2>1
    <3>3. IdleClock = Timeout - n /\ IdleClock' = Timeout - kt'.due[kt'.timer]
      BY <2>1, <2>3 DEF IdleClock
    <3> HIDE DEF n
    <3>4. CASE n > 0
      BY <2>1, <2>3, <3>1, <3>2, <3>3, <3>4 DEF Idle!Pass
    <3>5. CASE n = 0
      BY <2>1, <3>2, <3>3, <3>5 DEF Idle!vars
    <3> QED
      BY <3>1, <3>4, <3>5
  <2> QED
    BY <1>0, <2>2, <2>3 DEF TimerState
<1>6. ASSUME NEW id \in Ids, Kil(id) PROVE Idle!Notice
  <2>1. kt.holds = 0 /\ id = kt.timer /\ phase = "running"
    BY <1>0, <1>6 DEF Kil, OnlyTimer, NoSource, Dead
  <2>2. IdleClock = Timeout
    BY <1>6, <2>1 DEF Kil, IdleClock
  <2>3. CASE kill_func # "NULL"
    <3>1. kt'.holds = 0 /\ kt'.due[kt'.timer] = Timeout
      BY <1>0, <1>6, <2>1, <2>3 DEF Kil, TimerState
    <3> QED
      BY <1>6, <2>1, <2>2, <2>3, <3>1 DEF Kil, Idle!Notice, IdleClock
  <2>4. CASE kill_func = "NULL"
    BY <1>6, <2>1, <2>2, <2>4 DEF Kil, Idle!Notice, IdleClock
  <2> QED
    BY <2>3, <2>4
<1>7. CASE UNCHANGED vars
  BY <1>7 DEF vars, Idle!vars, IdleClock
<1> QED
  BY <1>1, <1>2, <1>3, <1>4, <1>5, <1>6, <1>7 DEF Next, KilAny, Idle!Next

\* The timer's bookkeeping of GLib sources implements the plain idle clock
\* (its safety part; the fairness part is left to the model checker).
THEOREM Refinement == Spec => Idle!Spec
BY RefineInit, RefineNext, Invariance, PTL DEF Spec, Idle!Spec

=============================================================================
