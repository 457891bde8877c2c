--------------------------- MODULE KillTimerOps ---------------------------
(***************************************************************************)
(* The operations of the idle timer (src/dbus/killtimer.c) on its state, a *)
(* record of                                                               *)
(*   holds   the number of holds taken and not removed                     *)
(*   timer   the id of the last timeout source created                     *)
(*   due     for every source id, the seconds until the main loop may      *)
(*           dispatch it, Dead when no such source is attached             *)
(* The timer's own state machine (KillTimer) and the handlers that hold    *)
(* the timer (ConfigPrinting and others) share them.                       *)
(***************************************************************************)
EXTENDS Integers

CONSTANTS
    Timeout,    \* killtimer.c:12, 30 in the code
    MaxId       \* GLib source ids are 1 .. MaxId and wrap around

ASSUME TimeoutAssumption == Timeout \in Nat \ {0}
ASSUME MaxIdAssumption == MaxId \in Nat /\ MaxId >= 2

Ids == 1 .. MaxId
Dead == -1

TimerState == [holds : Nat, timer : Ids, due : [Ids -> Dead .. Timeout]]

\* The sources the main loop may still dispatch.
Attached(k) == {id \in Ids : k.due[id] # Dead}

\* GLib: forget the source; a warning when there is none.
g_source_remove(k, id) == [k EXCEPT !.due[id] = Dead]

\* GLib never gives a new source the id of the previous one.
NextId(k) == IF k.timer = MaxId THEN 1 ELSE k.timer + 1

add_timeout(k) ==
    [k EXCEPT !.timer = NextId(k), !.due[NextId(k)] = Timeout]

\* Mistakes in these operations that the properties below must notice.
remove_hold_unguarded(k) ==
    IF k.holds = 1 THEN add_timeout([k EXCEPT !.holds = 0])
                   ELSE [k EXCEPT !.holds = @ - 1]
remove_hold_forgets_timer(k) ==
    IF k.holds = 0 THEN k ELSE [k EXCEPT !.holds = @ - 1]
add_hold_keeps_source(k) == [k EXCEPT !.holds = @ + 1]
alive_keeps_source(k) == IF k.holds = 0 THEN add_timeout(k) ELSE k
alive_keeps_due(k) ==
    IF k.holds > 0 THEN add_timeout(g_source_remove(k, k.timer)) ELSE k

add_hold(k) ==
    [(IF k.holds = 0 THEN g_source_remove(k, k.timer) ELSE k)
        EXCEPT !.holds = @ + 1]

remove_hold(k) ==
    CASE k.holds = 0 -> k
      [] k.holds = 1 -> add_timeout([k EXCEPT !.holds = 0])
      [] OTHER       -> [k EXCEPT !.holds = @ - 1]

alive(k) ==
    IF k.holds = 0 THEN add_timeout(g_source_remove(k, k.timer)) ELSE k

\* The globals as the loader leaves them, then KillTimer().
Unstarted == [holds |-> 0, timer |-> MaxId, due |-> [id \in Ids |-> Dead]]
Started == add_timeout(Unstarted)

=============================================================================
