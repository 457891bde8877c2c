---------------------------- MODULE IdleMonitor ----------------------------
(***************************************************************************)
(* What the kill timer promises the rest of the service, without the       *)
(* mechanism: a clock of idle seconds that stands at zero while anybody    *)
(* inhibits it, that any sign of life resets, and that gives notice when it *)
(* has run for the whole Timeout.                                          *)
(***************************************************************************)
EXTENDS Integers

CONSTANT Timeout

VARIABLES
    state,       \* "unstarted", "running" or "exited"
    inhibitors,  \* how many users inhibit the monitor
    idle         \* seconds of idleness since the clock was last set to zero

vars == <<state, inhibitors, idle>>

Init == state = "unstarted" /\ inhibitors = 0 /\ idle = 0

Start == state = "unstarted" /\ state' = "running" /\ UNCHANGED <<inhibitors, idle>>

Inhibit ==
    /\ state = "running"
    /\ inhibitors' = inhibitors + 1
    /\ idle' = 0
    /\ UNCHANGED state

Release ==
    /\ state = "running"
    /\ inhibitors > 0
    /\ inhibitors' = inhibitors - 1
    /\ idle' = 0
    /\ UNCHANGED state

Reset ==
    /\ state = "running"
    /\ idle' = 0
    /\ UNCHANGED <<state, inhibitors>>

Pass ==
    /\ state = "running"
    /\ inhibitors = 0
    /\ idle < Timeout
    /\ idle' = idle + 1
    /\ UNCHANGED <<state, inhibitors>>

\* Notice is given only to a service nobody uses, after the whole Timeout.
Notice ==
    /\ state = "running"
    /\ inhibitors = 0
    /\ idle = Timeout
    /\ idle' = 0
    /\ state' \in {"running", "exited"}
    /\ UNCHANGED inhibitors

Next == Start \/ Inhibit \/ Release \/ Reset \/ Pass \/ Notice

Spec == Init /\ [][Next]_vars

FairSpec == Spec /\ WF_vars(Pass) /\ WF_vars(Notice)
=============================================================================
