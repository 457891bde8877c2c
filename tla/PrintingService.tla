--------------------------- MODULE PrintingService ---------------------------
(***************************************************************************)
(* What the clients of the D-Bus service may see, without the timer, the   *)
(* dialogs' handlers and the globals that the code does it with: each call *)
(* has one outcome, which never changes; at most one call waits for the    *)
(* user, and it is not forgotten while the process lives; a call that      *)
(* creates a dialog is answered with a path that has an object of the      *)
(* dialog's interface, and objects stay where they are.                    *)
(*                                                                         *)
(* ConfigPrinting is shown to implement this.                              *)
(***************************************************************************)
EXTENDS Naturals

CONSTANTS
    Calls,      \* the calls that clients make
    Methods,    \* of the service and of its objects
    Creators,   \* the methods that create an object; its interface has their name
    Droppable,  \* the methods that may end without an answer
    Showing,    \* the methods that may wait for the user
    Paths,      \* where objects may be
    NoPath

VARIABLES
    life,       \* "starting", "serving" or "ended"
    seen,       \* what is known of each call
    objects,    \* <<interface, path>> of the objects
    shown       \* the call that waits for the user, 0 if none

vars == <<life, seen, objects, shown>>

Unsent == [method |-> "none", status |-> "unsent", reply |-> NoPath]
Outcome(m, status, reply) == [method |-> m, status |-> status, reply |-> reply]

Init ==
    /\ life = "starting"
    /\ seen = [c \in Calls |-> Unsent]
    /\ objects = {}
    /\ shown = 0

Start == life = "starting" /\ life' = "serving" /\ UNCHANGED <<seen, objects, shown>>

IsNew(c) == seen[c] = Unsent
Becomes(c, outcome) == seen' = [seen EXCEPT ![c] = outcome]

Refuse(c, m) ==
    /\ life = "starting"
    /\ IsNew(c)
    /\ Becomes(c, Outcome(m, "refused", NoPath))
    /\ UNCHANGED <<life, objects, shown>>

\* A call comes to its end.
Create(m) ==
    IF m \in Creators
    THEN \/ UNCHANGED objects
         \/ \E p \in Paths : objects' = objects \cup {<<m, p>>}
    ELSE UNCHANGED objects
Finish(c, m) ==
    /\ Create(m)
    /\ \/ \E p \in Paths \cup {NoPath} :
             /\ IF m \in Creators THEN <<m, p>> \in objects' ELSE p = NoPath
             /\ Becomes(c, Outcome(m, "answered", p))
       \/ m \in Droppable /\ Becomes(c, Outcome(m, "dropped", NoPath))

Serve(c, m) ==
    /\ life = "serving"
    /\ IsNew(c)
    /\ Finish(c, m)
    /\ UNCHANGED <<life, shown>>

Show(c, m) ==
    /\ life = "serving"
    /\ IsNew(c)
    /\ shown = 0
    /\ m \in Showing
    /\ shown' = c
    /\ Becomes(c, Outcome(m, "blocked", NoPath))
    /\ UNCHANGED <<life, objects>>

Close ==
    /\ shown # 0
    /\ Finish(shown, seen[shown].method)
    /\ shown' = 0
    /\ UNCHANGED life

\* A call ends the process: it is lost, and so is the one that waits.
End(c, m) ==
    /\ life = "serving"
    /\ life' = "ended"
    /\ IsNew(c)
    /\ seen' = [d \in Calls |->
                  CASE d = c -> Outcome(m, "lost", NoPath)
                    [] d # c /\ d = shown -> [seen[d] EXCEPT !.status = "lost"]
                    [] OTHER -> seen[d]]
    /\ shown' = 0
    /\ UNCHANGED objects

Next ==
    \/ Start
    \/ Close
    \/ \E c \in Calls, m \in Methods : Refuse(c, m) \/ Serve(c, m) \/ Show(c, m) \/ End(c, m)

\* The user does not let a call wait for ever.
Spec == Init /\ [][Next]_vars /\ WF_vars(Start) /\ WF_vars(Close)

=============================================================================
