----------------------------- MODULE KillTimer -----------------------------
(***************************************************************************)
(* The idle timer of the service (src/dbus/killtimer.c) as a state machine.*)
(* Whoever shows a dialog takes a hold; while nobody holds, a GLib timeout *)
(* source runs kil() after Timeout seconds.                                *)
(***************************************************************************)
EXTENDS KillTimerOps

CONSTANTS
    MaxHolds,   \* bound on the number of nested holds
    KillFuncs   \* the arguments KillTimer() may be called with

ASSUME MaxHoldsAssumption == MaxHolds \in Nat \ {0}

VARIABLES
    kt,         \* the timer's state
    kill_func,  \* what kil() tests, "NULL" or a function's name
    phase,      \* "unstarted", "running" or "exited"
    quiet       \* history: seconds, at most Timeout, since the last hold was
                \* removed or alive() was called, 0 while the timer is held

vars == <<kt, kill_func, phase, quiet>>

Init ==
    /\ kt = Unstarted
    /\ kill_func = "NULL"
    /\ phase = "unstarted"
    /\ quiet = 0

Start(killfunc) ==
    /\ phase = "unstarted"
    /\ kt' = Started
    /\ kill_func' = killfunc
    /\ phase' = "running"
    /\ UNCHANGED quiet

AddHold ==
    /\ phase = "running"
    /\ kt.holds < MaxHolds
    /\ kt' = add_hold(kt)
    /\ quiet' = 0
    /\ UNCHANGED <<kill_func, phase>>

RemoveHold ==
    /\ phase = "running"
    /\ kt' = remove_hold(kt)
    /\ quiet' = IF kt.holds = 0 THEN quiet ELSE 0
    /\ UNCHANGED <<kill_func, phase>>

Alive ==
    /\ phase = "running"
    /\ kt' = alive(kt)
    /\ quiet' = 0
    /\ UNCHANGED <<kill_func, phase>>

\* A second passes.  Attached sources come closer to being due; one that is
\* due stays due until the main loop gets round to it.
Tick ==
    /\ phase = "running"
    /\ kt' = [kt EXCEPT !.due =
                  [id \in Ids |-> IF @[id] > 0 THEN @[id] - 1 ELSE @[id]]]
    /\ quiet' = IF kt.holds = 0 /\ quiet < Timeout THEN quiet + 1 ELSE quiet
    /\ UNCHANGED <<kill_func, phase>>

\* The main loop dispatches a due source.  kil() returns TRUE when there is a
\* kill_func, which it does not call, and GLib re-arms the source; otherwise it
\* exits the process.
Kil(id) ==
    /\ phase = "running"
    /\ kt.due[id] = 0
    /\ \/ /\ kill_func # "NULL"
          /\ kt' = [kt EXCEPT !.due[id] = Timeout]
          /\ UNCHANGED phase
       \/ /\ kill_func = "NULL"
          /\ phase' = "exited"
          /\ UNCHANGED kt
    /\ UNCHANGED <<kill_func, quiet>>

KilAny == \E id \in Ids : Kil(id)

Next ==
    \/ \E f \in KillFuncs : Start(f)
    \/ AddHold
    \/ RemoveHold
    \/ Alive
    \/ Tick
    \/ KilAny

Spec == Init /\ [][Next]_vars

\* The clock advances and GLib dispatches what is due.
Fairness == WF_vars(Tick) /\ WF_vars(KilAny)

FairSpec == Spec /\ Fairness

-----------------------------------------------------------------------------
(* Properties. *)

\* The types of killtimer.c's globals, of the attached sources and of the clock.
TypeOK ==
    /\ kt \in TimerState
    /\ kill_func \in KillFuncs \cup {"NULL"}
    /\ phase \in {"unstarted", "running", "exited"}
    /\ quiet \in 0 .. Timeout

\* No timeout source is ever leaked or lost: while the service runs, exactly
\* the source that `timer` names is attached when nobody holds, and none is
\* when somebody does (the g_source_remove and g_timeout_add_seconds calls of
\* killtimer.c pair up whatever the order of the calls).
OneSourceIffIdle ==
    phase = "running" =>
        Attached(kt) = IF kt.holds = 0 THEN {kt.timer} ELSE {}

\* kil() (killtimer.c:28) is never run while somebody holds, nor before the
\* service has been silent for the whole Timeout since the last alive() or
\* the removal of the last hold.
FullGracePeriod ==
    [][KilAny => kt.holds = 0 /\ quiet = Timeout]_vars

\* A service that stays idle is noticed: kil() is called at regular intervals
\* (killtimer.c:21) unless somebody keeps holding the timer or resetting it.
IdleIsNoticed ==
    []<>(phase # "running" \/ kt.holds > 0 \/ quiet = 0) \/ []<><<KilAny>>_vars

-----------------------------------------------------------------------------
(* The abstraction: an idle clock that knows nothing of sources. *)

IdleClock ==
    IF phase # "running" \/ kt.holds > 0 THEN 0 ELSE Timeout - kt.due[kt.timer]

Idle == INSTANCE IdleMonitor WITH
    inhibitors <- kt.holds,
    idle <- IdleClock,
    state <- phase

\* The timer implements the idle monitor.
ImplementsIdleMonitor == Idle!FairSpec

=============================================================================
