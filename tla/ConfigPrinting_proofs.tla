----------------------- MODULE ConfigPrinting_proofs -----------------------
(***************************************************************************)
(* Proofs about the service as its clients see it, for any number of calls *)
(* and of source ids.                                                      *)
(***************************************************************************)
EXTENDS ConfigPrinting, CommonLemmas, FiniteSetTheorems

USE TimeoutAssumption, MaxIdAssumption, MaxCallsAssumption, FlagValuesAssumption

-----------------------------------------------------------------------------
(* The inductive invariant. *)

\* Before start-up nothing has been used; after it the timer's source is attached
\* when nobody holds.
TimerOK ==
    /\ kt \in TimerState
    /\ IF phase = "owning" THEN kt = Unstarted /\ inuse = {} /\ pathn = 0
       ELSE IF kt.holds = 0 THEN OnlyTimer(kt) ELSE NoSource(kt)

\* Of a call to come nothing is known, and a number was used for each path.
FutureIsBlank ==
    /\ pathn <= ncalls
    /\ \A c \in Calls : c > ncalls =>
          calls[c] = Unsent /\ dialogs[c] = NoDialog /\ c \notin inuse

\* Only the call whose window is open is blocked, for an error window or for a
\* dialog's.  In an error window its dialog is still to be made, at a path that
\* has been set, by this call or by a later one.
BlockedMethod(call) ==
    /\ call.reply = NoPath
    /\ \/ call.method = "PrinterPropertiesDialog" /\ call.completes
       \/ call.method \in NPDMethods
       \/ call.method = "PrintTestPage" /\ call.completes
WindowIsOfBlocked ==
    /\ window <= ncalls
    /\ \A c \in Calls : calls[c].status = "blocked" <=> c = window
    /\ window # 0 =>
          /\ phase = "serving"
          /\ BlockedMethod(calls[window])
          /\ calls[window].method = "PrinterPropertiesDialog" =>
                dialogs[window] = NoDialog /\ window \notin inuse /\ path \in Paths

\* The numbers of the paths in use have been given out.  While no other call has set
\* the path, the one that is blocked in its error window will get a path of its own.
PathsAreNumbered ==
    /\ path.n <= pathn
    /\ \A d \in Calls : dialogs[d].at.n <= pathn
    /\ (/\ window # 0 /\ window \notin overlapped
        /\ calls[window].method = "PrinterPropertiesDialog") =>
          path = calls[window].own /\ \A d \in Calls : dialogs[d].at # path

IInv ==
    /\ TypeOK
    /\ TimerOK
    /\ kt.holds >= Cardinality(inuse)
    /\ FutureIsBlank
    /\ WindowIsOfBlocked
    /\ PathsAreNumbered
    /\ PathSupportsInterface
    /\ UndisturbedCallGetsItsDialog

-----------------------------------------------------------------------------
(* Types. *)

\* TypeOK in parts.
CallsOK == calls \in [Calls -> CallType]
DialogsOK == dialogs \in [Calls -> Dialogs \cup {NoDialog}]
IdsOK ==
    /\ NPDSignal_id \subseteq Calls \X Signals
    /\ ppd_finished_id \subseteq Calls \X Signals
    /\ finished_id \subseteq Calls \X Signals
GlobalsOK ==
    /\ phase \in {"owning", "serving", "ended"}
    /\ pathn \in 0 .. MaxCalls
    /\ path \in Paths \cup {NoPath}
    /\ window \in Calls \cup {0}
    /\ ncalls \in 0 .. MaxCalls
    /\ inuse \subseteq Calls
    /\ overlapped \subseteq Calls

LEMMA TypeParts ==
    TypeOK <=> /\ kt \in TimerState /\ g_ppds \in BOOLEAN
               /\ CallsOK /\ DialogsOK /\ IdsOK /\ GlobalsOK
BY Zenon DEF TypeOK, CallsOK, DialogsOK, IdsOK, GlobalsOK

LEMMA PathTypes ==
    ASSUME NEW iface \in Creators, NEW n \in Calls
    PROVE  [iface |-> iface, n |-> n] \in Paths
BY DEF Paths

\* What is done to the record of a call.
LEMMA CallTypes ==
    /\ Unsent \in CallType
    /\ \A iface \in Creators, p \in Paths : Creation(iface, p) \in CallType
    /\ \A m \in Methods, d \in Calls, flag \in BOOLEAN :
          /\ OnDialog(m, d) \in CallType
          /\ [OnDialog(m, d) EXCEPT !.completes = flag] \in CallType
    /\ \A m \in Methods : /\ [Unsent EXCEPT !.method = m] \in CallType
                          /\ [Unsent EXCEPT !.method = m, !.status = "answered"] \in CallType
                          /\ [Unsent EXCEPT !.method = m, !.status = "refused"] \in CallType
    /\ \A call \in CallType :
          /\ Lost(call) \in CallType /\ Shown(call) \in CallType /\ Completed(call) \in CallType
          /\ [call EXCEPT !.status = "blocked"] \in CallType
          /\ \A p \in Paths \cup {NoPath} : Answered(call, p) \in CallType
<1> USE DEF CallType, Status
<1>1. Unsent \in CallType
  BY DEF Unsent
<1>2. ASSUME NEW call \in CallType
      PROVE  /\ Lost(call) \in CallType /\ Shown(call) \in CallType /\ Completed(call) \in CallType
             /\ [call EXCEPT !.status = "blocked"] \in CallType
             /\ \A p \in Paths \cup {NoPath} : Answered(call, p) \in CallType
  BY DEF Lost, Shown, Completed, Answered
<1>3. \A iface \in Creators, p \in Paths : Creation(iface, p) \in CallType
  BY DEF Creation, Unsent, Creators, Methods
<1>4. \A m \in Methods, d \in Calls, flag \in BOOLEAN :
          /\ OnDialog(m, d) \in CallType
          /\ [OnDialog(m, d) EXCEPT !.completes = flag] \in CallType
  BY DEF OnDialog, Unsent
<1>5. \A m \in Methods : /\ [Unsent EXCEPT !.method = m] \in CallType
                         /\ [Unsent EXCEPT !.method = m, !.status = "answered"] \in CallType
                         /\ [Unsent EXCEPT !.method = m, !.status = "refused"] \in CallType
  BY DEF Unsent
<1> QED
  BY <1>1, <1>2, <1>3, <1>4, <1>5

\* A new dialog, exported or not.
LEMMA DialogTypes ==
    ASSUME NEW iface \in Creators, NEW p \in Paths \cup {NoPath},
           NEW hs \in SUBSET SignalsOf(iface)
    PROVE  [iface |-> iface, at |-> p, handlers |-> hs] \in Dialogs
BY DEF Dialogs, Signals

LEMMA TypeInit == Init => TypeOK
<1> SUFFICES ASSUME Init PROVE TypeOK
  OBVIOUS
<1>1. kt \in TimerState
  BY DEF Init, Unstarted, TimerState, Dead, Ids
<1>2. CallsOK
  BY CallTypes DEF Init, CallsOK
<1>3. DialogsOK
  BY DEF Init, DialogsOK
<1>4. IdsOK
  BY DEF Init, IdsOK
<1>5. GlobalsOK
  BY DEF Init, GlobalsOK
<1>6. g_ppds \in BOOLEAN
  BY Zenon DEF Init
<1> QED
  BY <1>1, <1>2, <1>3, <1>4, <1>5, <1>6, TypeParts

\* The next call, its number and the path it may be given.
LEMMA NextCall ==
    ASSUME GlobalsOK, ncalls < MaxCalls
    PROVE  /\ ncalls + 1 \in Calls
           /\ pathn <= ncalls =>
                 /\ pathn + 1 \in 0 .. MaxCalls
                 /\ \A iface \in Creators : NextPath(iface) \in Paths
BY PathTypes DEF GlobalsOK, Calls, NextPath

\* What the end of the process changes, apart from what becomes of the calls.
LEMMA EndOfProcess ==
    ASSUME NEW call, ProcessEnds(call)
    PROVE  /\ Arrives /\ phase' = "ended" /\ window' = 0
           /\ UNCHANGED <<kt, pathn, path, dialogVars, g_ppds, inuse, overlapped>>
BY Zenon DEF ProcessEnds

\* A call that is too early changes nothing else.
LEMMA Refused ==
    EarlyCall =>
        /\ phase = "owning" /\ ncalls < MaxCalls /\ ncalls' = ncalls + 1
        /\ UNCHANGED <<phase, kt, pathn, path, dialogVars, g_ppds, window, inuse, overlapped>>
BY Zenon DEF EarlyCall

-----------------------------------------------------------------------------
(* The kinds of steps: what each does to the calls and to the dialogs. *)

\* No call comes or goes: start-up, and the dialogs' signals.
Quiet ==
    /\ UNCHANGED <<calls, ncalls, path, window, overlapped>>
    /\ \/ UNCHANGED phase
       \/ phase = "owning" /\ phase' = "serving"
    /\ \/ UNCHANGED pathn
       \/ phase = "owning" /\ pathn' = 0
    /\ \/ UNCHANGED dialogs
       \/ \E d \in Calls, ids \in SUBSET (Calls \X Signals) : Disconnect(d, ids)

\* A call that makes no dialog; it may show a window.
Outcome(call) ==
    /\ call.method \in Methods /\ call.reply = NoPath
    /\ IF phase = "owning" THEN call.status = "refused"
       ELSE phase = "serving" /\ call.status \in {"answered", "dropped", "blocked"}
    /\ call.status = "answered" => call.method \notin Creators
    /\ call.status = "dropped" => call.method \in NPDMethods
Serves ==
    /\ ncalls < MaxCalls
    /\ ncalls' = ncalls + 1
    /\ \E call \in CallType :
          /\ calls' = [calls EXCEPT ![ncalls + 1] = call]
          /\ Outcome(call)
          /\ IF call.status = "blocked"
             THEN /\ phase = "serving" /\ window = 0 /\ window' = ncalls + 1
                  /\ BlockedMethod(call) /\ call.method # "PrinterPropertiesDialog"
             ELSE UNCHANGED window
    /\ UNCHANGED <<phase, dialogs, pathn, path, overlapped>>

\* A call that makes a dialog.
Creates ==
    \E iface \in Creators :
        LET p == NextPath(iface)
        IN  /\ Dispatch
            /\ SetPath(iface)
            /\ NewDialog(ncalls + 1, iface, p)
            /\ calls' = [calls EXCEPT ![ncalls + 1] = Answered(Creation(iface, p), p)]
            /\ UNCHANGED window

LEMMA StepKinds ==
    ASSUME IdsOK, [Next]_vars
    PROVE  \/ Quiet
           \/ Serves
           \/ Creates
           \/ PrinterNotFound
           \/ CloseErrorWindow
           \/ CloseDialogWindow
           \/ \E call \in CallType :
                 call.method \in Methods /\ call.reply = NoPath /\ ProcessEnds(call)
<1> DEFINE c == ncalls + 1
<1>1. CASE EarlyCall
  <2>1. PICK m \in Creators :
          calls' = [calls EXCEPT ![c] = [Unsent EXCEPT !.method = m, !.status = "refused"]]
    BY Zenon, <1>1 DEF EarlyCall
  <2> DEFINE call == [Unsent EXCEPT !.method = m, !.status = "refused"]
  <2>2. call \in CallType /\ call.status = "refused" /\ Outcome(call)
    BY <1>1, Refused, CallTypes DEF Methods, Unsent, Outcome
  <2>3. calls' = [calls EXCEPT ![c] = call]
    BY <2>1
  <2> HIDE DEF call
  <2>4. Serves
    BY <1>1, <2>2, <2>3, Refused DEF Serves, dialogVars
  <2> QED
    BY <2>4
<1>2. CASE GetBestDrivers \/ MissingExecutables
  <2>1. PICK m \in Requests :
          calls' = [calls EXCEPT ![c] = [Unsent EXCEPT !.method = m, !.status = "answered"]]
    BY Zenon, <1>2 DEF GetBestDrivers, MissingExecutables, Requests
  <2> DEFINE call == [Unsent EXCEPT !.method = m, !.status = "answered"]
  <2>2. call \in CallType /\ call.status = "answered"
    BY CallTypes DEF Methods, Unsent
  <2>3. Outcome(call)
    BY <1>2 DEF Methods, Unsent, Requests, Creators, Outcome, GetBestDrivers, MissingExecutables,
                Dispatch, Arrives
  <2>4. calls' = [calls EXCEPT ![c] = call]
    BY <2>1
  <2> HIDE DEF call
  <2>5. Serves
    BY <1>2, <2>2, <2>3, <2>4 DEF Serves, dialogVars, GetBestDrivers, MissingExecutables, Dispatch,
                           Arrives
  <2> QED
    BY <2>5
<1>3. ASSUME NEW call \in CallType, Dispatch, UNCHANGED <<dialogs, pathn, path, overlapped>>,
             BlockedMethod(Shown(call)), call.method \in Methods \ Creators, call.reply = NoPath,
             call.completes \/ call.method \in NPDMethods,
             \/ ShowWindow(call)
             \/ /\ calls' = [calls EXCEPT ![c] = Completed(call)]
                /\ UNCHANGED window
      PROVE  Serves
  <2>1. /\ Shown(call) \in CallType /\ Completed(call) \in CallType
        /\ "PrinterPropertiesDialog" \in Creators
    BY CallTypes DEF Creators
  <2>4. /\ Shown(call).status = "blocked" /\ Completed(call).status # "blocked"
        /\ Shown(call).method = call.method /\ Completed(call).method = call.method
    BY DEF CallType, Shown, Completed
  <2>5. Outcome(Shown(call)) /\ Outcome(Completed(call))
    BY <1>3 DEF CallType, Shown, Completed, Outcome, Dispatch, Arrives
  <2>2. CASE calls' = [calls EXCEPT ![c] = Completed(call)] /\ UNCHANGED window
    BY <1>3, <2>1, <2>2, <2>4, <2>5 DEF Serves, Dispatch, Arrives
  <2>3. CASE calls' = [calls EXCEPT ![c] = Shown(call)] /\ window = 0 /\ window' = c
    <3> HIDE DEF BlockedMethod
    <3> QED
      BY <1>3, <2>1, <2>3, <2>4, <2>5 DEF Serves, Dispatch, Arrives
  <2> QED
    BY Zenon, <1>3, <2>2, <2>3 DEF ShowWindow
<1>4. ASSUME NEW d \in Calls, NEW flag \in BOOLEAN,
             \/ NewPrinterFromDevice(d, flag)
             \/ DownloadDriverForDeviceID(d, flag)
             \/ \E fetched \in BOOLEAN : ChangePPD(d, flag, fetched)
      PROVE  Serves
  <2>1. ASSUME NEW m \in NPDMethods
        PROVE  LET call == [OnDialog(m, d) EXCEPT !.completes = flag] IN
               /\ call \in CallType /\ BlockedMethod(Shown(call))
               /\ call.method \in Methods \ Creators /\ call.reply = NoPath
               /\ call.method \in NPDMethods
    <3>1. [OnDialog(m, d) EXCEPT !.completes = flag] \in CallType
      BY CallTypes DEF Methods
    <3> QED
      BY <3>1 DEF BlockedMethod, Shown, OnDialog, Unsent, NPDMethods, Creators, Methods
  <2>2. Dispatch /\ UNCHANGED <<dialogs, pathn, path, overlapped>>
    BY Zenon, <1>4 DEF NewPrinterFromDevice, DownloadDriverForDeviceID, ChangePPD, UseDialog,
                       dialogVars
  <2>3. \E m \in NPDMethods : LET call == [OnDialog(m, d) EXCEPT !.completes = flag] IN
            \/ ShowWindow(call)
            \/ calls' = [calls EXCEPT ![c] = Completed(call)] /\ UNCHANGED window
    BY Zenon, <1>4 DEF NewPrinterFromDevice, DownloadDriverForDeviceID, ChangePPD, NPDMethods
  <2> QED
    BY Zenon, <1>3, <2>1, <2>2, <2>3
<1>5. ASSUME NEW d \in Calls, PrintTestPage(d) \/ Quit(d) PROVE Serves
  <2>1. PrintTestPage(d) => /\ Dispatch /\ ShowWindow(OnDialog("PrintTestPage", d))
                            /\ UNCHANGED <<dialogs, pathn, path, overlapped>>
    BY Zenon DEF PrintTestPage, PPDialogCall, dialogVars
  <2>2. /\ OnDialog("PrintTestPage", d) \in CallType
        /\ BlockedMethod(Shown(OnDialog("PrintTestPage", d)))
        /\ OnDialog("PrintTestPage", d).method \in Methods \ Creators
        /\ OnDialog("PrintTestPage", d).reply = NoPath
        /\ OnDialog("PrintTestPage", d).completes
    BY CallTypes DEF Methods, BlockedMethod, Shown, OnDialog, Unsent, Creators
  <2>3. CASE Quit(d)
    <3>1. /\ Completed(OnDialog("Quit", d)) \in CallType
          /\ Completed(OnDialog("Quit", d)).status = "answered"
          /\ Completed(OnDialog("Quit", d)).method = "Quit"
          /\ Completed(OnDialog("Quit", d)).reply = NoPath
      BY CallTypes DEF Methods, Completed, OnDialog, Unsent
    <3> QED
      BY <2>3, <3>1 DEF Quit, JobAppletCall, Serves, dialogVars, Dispatch, Arrives, Creators,
                             Outcome, Methods
  <2> QED
    BY Zenon, <1>3, <1>5, <2>1, <2>2, <2>3
<1>6. CASE NewPrinterDialog \/ JobApplet \/ \E known \in BOOLEAN : PrinterPropertiesDialog(known)
  BY Zenon, <1>6 DEF NewPrinterDialog, JobApplet, PrinterPropertiesDialog, FinishPPD, Creates,
                     Creators
<1>7. ASSUME \/ \E m \in Mortal : EndsInMethod(m)
             \/ \E d \in Calls : ChangePPDEnds(d)
      PROVE  \E call \in CallType :
                call.method \in Methods /\ call.reply = NoPath /\ ProcessEnds(call)
  <2>1. \A m \in Mortal : LET call == [Unsent EXCEPT !.method = m]
                         IN  call \in CallType /\ call.method \in Methods /\ call.reply = NoPath
    BY CallTypes DEF Mortal, Methods, Creators, Unsent
  <2>2. \A d \in Calls : LET call == OnDialog("ChangePPD", d)
                        IN  call \in CallType /\ call.method \in Methods /\ call.reply = NoPath
    BY CallTypes DEF Methods, NPDMethods, OnDialog, Unsent
  <2> QED
    BY Zenon, <1>7, <2>1, <2>2 DEF EndsInMethod, ChangePPDEnds
<1>8. CASE \/ name_acquired_handler \/ UNCHANGED vars
           \/ \E d \in Calls :
                 \/ \E s \in SignalsOf("NewPrinterDialog") : EmitNewPrinterDialog(d, s)
                 \/ on_dialog_closed(d) \/ on_dialog_closed_applet(d)
  <2>1. /\ NPDSignal_id \in SUBSET (Calls \X Signals)
        /\ ppd_finished_id \in SUBSET (Calls \X Signals)
        /\ finished_id \in SUBSET (Calls \X Signals)
    BY DEF IdsOK
  <2> QED
    BY Zenon, <1>8, <2>1 DEF name_acquired_handler, vars, dialogVars, Quiet, Emit,
          EmitNewPrinterDialog, on_dialog_closed, on_dialog_closed_applet
<1> QED
  BY Zenon, <1>1, <1>2, <1>4, <1>5, <1>6, <1>7, <1>8 DEF Next

\* The holds and the uses of dialogs in a step: a use is a hold, and a signal that
\* ends one removes at most one.
UsesKept ==
    /\ inuse' = inuse
    /\ kt' \in {kt, alive(kt), add_hold(kt), remove_hold(add_hold(kt))}
UseBegins ==
    \E c \in Calls :
        /\ \/ c = ncalls + 1 /\ ncalls' = ncalls + 1
           \/ c = window /\ window' = 0 /\ ncalls' = ncalls
        /\ inuse' = inuse \cup {c}
        /\ kt' \in {add_hold(kt), alive(add_hold(kt))}
UseEnds ==
    \E c \in inuse : inuse' = inuse \ {c} /\ kt' \in {kt, remove_hold(kt)} /\ ncalls' = ncalls

LEMMA UseKinds ==
    ASSUME GlobalsOK, WindowIsOfBlocked, [Next]_vars
    PROVE  \/ phase = "owning" /\ kt' = Started /\ inuse' = inuse /\ phase' = "serving"
           \/ phase' = phase /\ UNCHANGED <<kt, inuse, pathn>>
           \/ /\ phase = "serving" /\ phase' \in {"serving", "ended"}
              /\ UsesKept \/ UseBegins
           \/ phase \in {"owning", "serving"} /\ phase' = phase /\ UseEnds
<1> DEFINE c == ncalls + 1
<1>1. ASSUME ncalls < MaxCalls PROVE c \in Calls
  BY <1>1, NextCall
<1> HIDE DEF c
<1>2. CASE EarlyCall \/ UNCHANGED vars
  BY Zenon, <1>2, Refused DEF vars
<1>3. CASE name_acquired_handler
  BY Zenon, <1>3 DEF name_acquired_handler
<1>4. CASE NewPrinterDialog \/ PrinterNotFound
  BY <1>4 DEF NewPrinterDialog, PrinterNotFound, UsesKept, Dispatch, Arrives
<1>5. CASE JobApplet \/ \E known \in BOOLEAN : PrinterPropertiesDialog(known)
  BY Zenon, <1>1, <1>5 DEF JobApplet, PrinterPropertiesDialog, FinishPPD, UseBegins, Dispatch,
                           Arrives, c
<1>6. CASE GetBestDrivers \/ MissingExecutables
  BY <1>6 DEF GetBestDrivers, MissingExecutables, UsesKept, Dispatch, Arrives
<1>7. CASE \/ \E m \in Mortal : EndsInMethod(m)
           \/ \E d \in Calls : ChangePPDEnds(d)
  BY Zenon, <1>7, EndOfProcess DEF EndsInMethod, ChangePPDEnds, UsesKept, Arrives
<1>8. ASSUME NEW d \in Calls, NEW flag \in BOOLEAN,
             \/ NewPrinterFromDevice(d, flag)
             \/ DownloadDriverForDeviceID(d, flag)
             \/ \E fetched \in BOOLEAN : ChangePPD(d, flag, fetched)
      PROVE  phase = "serving" /\ phase' = phase /\ UseBegins
  BY Zenon, <1>1, <1>8 DEF NewPrinterFromDevice, DownloadDriverForDeviceID, ChangePPD,
        UseDialog, UseBegins, Dispatch, Arrives, c
<1>9. ASSUME NEW d \in Calls, PrintTestPage(d) \/ Quit(d)
      PROVE  phase = "serving" /\ phase' = phase /\ UsesKept
  BY Zenon, <1>9 DEF PrintTestPage, Quit, PPDialogCall, JobAppletCall, UsesKept, Dispatch,
                     Arrives
<1>10. CASE CloseErrorWindow
  <2>1. window \in Calls /\ phase = "serving"
    BY <1>10 DEF CloseErrorWindow, GlobalsOK, WindowIsOfBlocked
  <2> QED
    BY Zenon, <1>10, <2>1 DEF CloseErrorWindow, FinishPPD, UseBegins
<1>11. CASE CloseDialogWindow
  BY Zenon, <1>11 DEF CloseDialogWindow
<1>12. ASSUME NEW d \in Calls,
              \/ \E s \in SignalsOf("NewPrinterDialog") : EmitNewPrinterDialog(d, s)
              \/ on_dialog_closed(d) \/ on_dialog_closed_applet(d)
       PROVE  phase \in {"owning", "serving"} /\ phase' = phase /\ UseEnds
  <2>1. phase # "ended" /\ phase' = phase /\ UseEnds
    BY Zenon, <1>12 DEF EmitNewPrinterDialog, on_dialog_closed, on_dialog_closed_applet, Emit,
                        UseEnds
  <2> QED
    BY <2>1 DEF GlobalsOK
<1> QED
  BY Zenon, <1>2, <1>3, <1>4, <1>5, <1>6, <1>7, <1>8, <1>9, <1>10, <1>11, <1>12 DEF Next

-----------------------------------------------------------------------------
(* Each step keeps the types. *)

LEMMA FlagStep == g_ppds \in BOOLEAN /\ [Next]_vars => g_ppds' \in BOOLEAN
<1> SUFFICES ASSUME [Next]_vars PROVE g_ppds' = g_ppds \/ g_ppds' = TRUE
  BY Zenon
<1> QED
  BY Zenon, Refused, EndOfProcess
     DEF Next, vars, name_acquired_handler, NewPrinterDialog, PrinterPropertiesDialog,
         PrinterNotFound, JobApplet, GetBestDrivers, MissingExecutables, EndsInMethod,
         NewPrinterFromDevice, DownloadDriverForDeviceID, ChangePPD, UseDialog, ChangePPDEnds,
         PrintTestPage, Quit, CloseErrorWindow, CloseDialogWindow, EmitNewPrinterDialog,
         on_dialog_closed, on_dialog_closed_applet, Emit

LEMMA GlobalsStep ==
    ASSUME GlobalsOK, IdsOK, FutureIsBlank, WindowIsOfBlocked, [Next]_vars
    PROVE  GlobalsOK'
<1> USE DEF GlobalsOK, Dispatch, Arrives, SetPath
<1>1. ASSUME ncalls < MaxCalls
      PROVE  /\ ncalls + 1 \in Calls /\ pathn + 1 \in 0 .. MaxCalls
             /\ \A iface \in Creators : NextPath(iface) \in Paths
  BY <1>1, NextCall DEF FutureIsBlank
<1>2. ncalls' \in 0 .. MaxCalls /\ pathn' \in 0 .. MaxCalls /\ path' \in Paths \cup {NoPath}
  BY <1>1, StepKinds, EndOfProcess
     DEF Quiet, Serves, Creates, PrinterNotFound, CloseErrorWindow, CloseDialogWindow, Creators
<1>3. window' \in Calls \cup {0} /\ overlapped' \subseteq Calls
  BY <1>1, StepKinds, EndOfProcess
     DEF Quiet, Serves, Creates, PrinterNotFound, CloseErrorWindow, CloseDialogWindow
<1>4. phase' \in {"owning", "serving", "ended"} /\ inuse' \subseteq Calls
  BY UseKinds DEF UsesKept, UseBegins, UseEnds
<1> QED
  BY <1>2, <1>3, <1>4

LEMMA CallsStep ==
    ASSUME CallsOK, GlobalsOK, IdsOK, FutureIsBlank, [Next]_vars
    PROVE  CallsOK'
<1>1. ASSUME ncalls < MaxCalls
      PROVE  ncalls + 1 \in Calls /\ \A iface \in Creators : NextPath(iface) \in Paths
  BY <1>1, NextCall DEF FutureIsBlank
<1>2. ASSUME NEW d \in Calls, NEW call \in CallType, calls' = [calls EXCEPT ![d] = call]
      PROVE  CallsOK'
  BY <1>2 DEF CallsOK
<1>3. CASE Quiet
  BY <1>3 DEF Quiet, CallsOK
<1>4. CASE Serves
  BY Zenon, <1>1, <1>2, <1>4 DEF Serves
<1>5. CASE Creates
  <2>1. PICK iface \in Creators :
          /\ ncalls < MaxCalls
          /\ calls' = [calls EXCEPT ![ncalls + 1] =
                          Answered(Creation(iface, NextPath(iface)), NextPath(iface))]
    BY Zenon, <1>5 DEF Creates, Dispatch, Arrives
  <2>2. NextPath(iface) \in Paths
    BY <1>1, <2>1
  <2>3. Creation(iface, NextPath(iface)) \in CallType
    BY <2>2, CallTypes
  <2>4. Answered(Creation(iface, NextPath(iface)), NextPath(iface)) \in CallType
    BY <2>2, <2>3, CallTypes
  <2> QED
    BY Zenon, <1>1, <1>2, <2>1, <2>4
<1>6. CASE PrinterNotFound
  <2> DEFINE p == NextPath("PrinterPropertiesDialog")
             call == Creation("PrinterPropertiesDialog", p)
  <2>1. ncalls < MaxCalls /\ ncalls + 1 \in Calls /\ p \in Paths /\ call \in CallType
    BY <1>1, <1>6, CallTypes DEF PrinterNotFound, Dispatch, Arrives, Creators
  <2>2. [call EXCEPT !.status = "blocked"] \in CallType
    BY <2>1, CallTypes
  <2> QED
    BY Zenon, <1>2, <1>6, <2>1, <2>2 DEF PrinterNotFound
<1>7. CASE CloseErrorWindow
  <2>1. window \in Calls /\ calls[window] \in CallType /\ path \in Paths \cup {NoPath}
    BY <1>7 DEF CloseErrorWindow, GlobalsOK, CallsOK
  <2>2. Answered(calls[window], path) \in CallType
    BY <2>1, CallTypes
  <2> QED
    BY <1>2, <1>7, <2>1, <2>2 DEF CloseErrorWindow, FinishPPD
<1>8. CASE CloseDialogWindow
  <2>1. window \in Calls /\ Completed(calls[window]) \in CallType
    BY <1>8, CallTypes DEF CloseDialogWindow, GlobalsOK, CallsOK
  <2> QED
    BY <1>2, <1>8, <2>1 DEF CloseDialogWindow
<1>9. ASSUME NEW call \in CallType, ProcessEnds(call) PROVE CallsOK'
  <2>1. calls' = [d \in Calls |->
                    CASE d = ncalls + 1 -> Lost(call)
                      [] calls[d].status = "blocked" -> Lost(calls[d])
                      [] OTHER -> calls[d]]
    BY Zenon, <1>9 DEF ProcessEnds
  <2>2. Lost(call) \in CallType /\ \A d \in Calls : Lost(calls[d]) \in CallType
    BY CallTypes DEF CallsOK
  <2> QED
    BY <2>1, <2>2 DEF CallsOK
<1> QED
  BY Zenon, <1>3, <1>4, <1>5, <1>6, <1>7, <1>8, <1>9, StepKinds

\* The parts of a new dialog, wherever it is exported.
LEMMA NewDialogState ==
    ASSUME DialogsOK, NEW c \in Calls, NEW iface \in Creators, NEW p \in Paths \cup {NoPath},
           NewDialog(c, iface, p)
    PROVE  /\ DialogsOK'
           /\ dialogs'[c].iface = iface
           /\ dialogs'[c].at = Export(iface, p)
           /\ \A d \in Calls : d # c => dialogs'[d] = dialogs[d]
<1> DEFINE new == [iface |-> iface, at |-> Export(iface, p), handlers |-> SignalsOf(iface)]
<1>1. Export(iface, p) \in Paths \cup {NoPath}
  BY DEF Export
<1>2. new \in Dialogs
  BY <1>1, DialogTypes
<1>3. dialogs' = [dialogs EXCEPT ![c] = new]
  BY DEF NewDialog
<1> QED
  BY <1>2, <1>3 DEF DialogsOK

\* A dialog that loses handlers stays where it is.
LEMMA DisconnectState ==
    ASSUME DialogsOK, NEW d \in Calls, NEW ids, Disconnect(d, ids)
    PROVE  /\ DialogsOK'
           /\ \A e \in Calls : /\ dialogs'[e].iface = dialogs[e].iface
                               /\ dialogs'[e].at = dialogs[e].at
                               /\ dialogs[e] = NoDialog => dialogs'[e] = NoDialog
<1> DEFINE old == dialogs[d]
           hs == {s \in old.handlers : <<d, s>> \notin ids}
           new == [old EXCEPT !.handlers = hs]
<1>1. dialogs' = [dialogs EXCEPT ![d] = new]
  BY Zenon DEF Disconnect
<1>2. CASE old \in Dialogs
  <2>1. new = [iface |-> old.iface, at |-> old.at, handlers |-> hs]
    <3>1. PICK i \in Creators, a \in Paths \cup {NoPath}, h \in SUBSET Signals :
              old = [iface |-> i, at |-> a, handlers |-> h]
      BY <1>2 DEF Dialogs
    <3>2. \A new_h : [[iface |-> i, at |-> a, handlers |-> h] EXCEPT !.handlers = new_h]
                        = [iface |-> i, at |-> a, handlers |-> new_h]
      OBVIOUS
    <3>3. old.iface = i /\ old.at = a
      BY <3>1
    <3> HIDE DEF hs, old
    <3> QED
      BY Zenon, <3>1, <3>2, <3>3
  <2>2. hs \in SUBSET Signals
    BY <1>2 DEF Dialogs
  <2> HIDE DEF hs, new
  <2>3. new \in Dialogs /\ new.iface = old.iface /\ new.at = old.at
    BY <1>2, <2>1, <2>2 DEF Dialogs
  <2>4. old # NoDialog
    BY <1>2 DEF Dialogs, NoDialog, Creators
  <2> QED
    BY <1>1, <2>3, <2>4 DEF DialogsOK
<1>3. CASE old = NoDialog
  <2>1. new = NoDialog
    BY <1>3 DEF NoDialog
  <2> QED
    BY <1>1, <1>3, <2>1 DEF DialogsOK
<1> QED
  BY <1>2, <1>3 DEF DialogsOK

LEMMA DialogsStep ==
    ASSUME DialogsOK, GlobalsOK, IdsOK, FutureIsBlank, [Next]_vars
    PROVE  DialogsOK'
<1>1. ASSUME UNCHANGED dialogs PROVE DialogsOK'
  BY <1>1 DEF DialogsOK
<1>2. ASSUME NEW d \in Calls, NEW ids, Disconnect(d, ids) PROVE DialogsOK'
  BY <1>2, DisconnectState
<1>3. CASE Creates
  <2>1. PICK iface \in Creators :
          ncalls < MaxCalls /\ NewDialog(ncalls + 1, iface, NextPath(iface))
    BY Zenon, <1>3 DEF Creates, Dispatch, Arrives
  <2> QED
    BY <2>1, NextCall, NewDialogState DEF FutureIsBlank
<1>4. CASE CloseErrorWindow
  BY <1>4, NewDialogState DEF CloseErrorWindow, FinishPPD, GlobalsOK, Creators
<1> QED
  BY Zenon, <1>1, <1>2, <1>3, <1>4, StepKinds, EndOfProcess
     DEF Quiet, Serves, PrinterNotFound, CloseDialogWindow, dialogVars

LEMMA IdsStep ==
    ASSUME IdsOK, GlobalsOK, [Next]_vars
    PROVE  IdsOK'
<1>1. ASSUME NEW c \in Calls, NEW iface \in Creators
      PROVE  HandlerIds(c, iface) \subseteq Calls \X Signals
  BY DEF HandlerIds, Signals
<1>2. CASE NewPrinterDialog \/ JobApplet \/ \E known \in BOOLEAN : PrinterPropertiesDialog(known)
  <2>1. ncalls + 1 \in Calls
    BY <1>2, NextCall DEF NewPrinterDialog, JobApplet, PrinterPropertiesDialog, Dispatch, Arrives
  <2> QED
    BY <1>1, <1>2, <2>1 DEF NewPrinterDialog, JobApplet, PrinterPropertiesDialog, FinishPPD,
                            IdsOK, Creators
<1>3. CASE CloseErrorWindow
  BY <1>1, <1>3 DEF CloseErrorWindow, FinishPPD, GlobalsOK, IdsOK, Creators
<1>4. ASSUME UNCHANGED <<NPDSignal_id, ppd_finished_id, finished_id>> PROVE IdsOK'
  BY <1>4 DEF IdsOK
<1> QED
  BY Zenon, <1>2, <1>3, <1>4, Refused, EndOfProcess
     DEF Next, vars, dialogVars, name_acquired_handler,
         PrinterNotFound, GetBestDrivers, MissingExecutables, EndsInMethod,
         NewPrinterFromDevice, DownloadDriverForDeviceID, ChangePPD, UseDialog, ChangePPDEnds,
         PrintTestPage, Quit, CloseDialogWindow, EmitNewPrinterDialog,
         on_dialog_closed, on_dialog_closed_applet, Emit

-----------------------------------------------------------------------------
(* Each step keeps the timer and the uses of dialogs in balance. *)

Counting(k) == IF k.holds = 0 THEN OnlyTimer(k) ELSE NoSource(k)

LEMMA TimerOps ==
    ASSUME NEW k \in TimerState, Counting(k)
    PROVE  /\ k.holds \in Nat
           /\ add_hold(k) \in TimerState /\ Counting(add_hold(k))
           /\ add_hold(k).holds = k.holds + 1
           /\ alive(k) \in TimerState /\ Counting(alive(k)) /\ alive(k).holds = k.holds
           /\ remove_hold(k) \in TimerState /\ Counting(remove_hold(k))
           /\ remove_hold(k).holds = IF k.holds = 0 THEN 0 ELSE k.holds - 1
<1> USE DEF Counting
<1>1. k.holds \in Nat
  BY DEF TimerState
<1>2. /\ add_hold(k) \in TimerState /\ Counting(add_hold(k))
      /\ add_hold(k).holds = k.holds + 1
  BY <1>1, AddHoldState
<1>3. alive(k) \in TimerState /\ Counting(alive(k)) /\ alive(k).holds = k.holds
  BY <1>1, AliveState DEF alive
<1>4. CASE k.holds = 0
  BY <1>1, <1>2, <1>3, <1>4 DEF remove_hold
<1>5. CASE k.holds > 0
  BY <1>1, <1>2, <1>3, <1>5, RemoveHoldState
<1> QED
  BY <1>1, <1>4, <1>5

LEMMA TimerStep ==
    ASSUME TimerOK, GlobalsOK, WindowIsOfBlocked, [Next]_vars
    PROVE  TimerOK'
<1>1. /\ kt \in TimerState
      /\ phase # "owning" => Counting(kt)
      /\ phase = "owning" => kt = Unstarted /\ inuse = {} /\ pathn = 0
  BY DEF TimerOK, Counting
<1>2. CASE phase = "owning" /\ kt' = Started /\ inuse' = inuse /\ phase' = "serving"
  BY <1>2, StartedState DEF TimerOK
<1>3. CASE phase' = phase /\ UNCHANGED <<kt, inuse, pathn>>
  BY <1>3 DEF TimerOK, OnlyTimer, NoSource
<1>4. ASSUME phase = "serving", phase' \in {"serving", "ended"}, UsesKept \/ UseBegins
      PROVE  TimerOK'
  <2>1. /\ add_hold(kt) \in TimerState /\ Counting(add_hold(kt))
        /\ alive(kt) \in TimerState /\ Counting(alive(kt))
    BY <1>1, <1>4, TimerOps
  <2>2. /\ remove_hold(add_hold(kt)) \in TimerState /\ Counting(remove_hold(add_hold(kt)))
        /\ alive(add_hold(kt)) \in TimerState /\ Counting(alive(add_hold(kt)))
    BY <2>1, TimerOps
  <2>3. kt' \in TimerState /\ Counting(kt')
    BY <1>1, <1>4, <2>1, <2>2 DEF UsesKept, UseBegins
  <2> QED
    BY <1>4, <2>3 DEF TimerOK, Counting, OnlyTimer, NoSource
<1>5. ASSUME phase \in {"owning", "serving"}, phase' = phase, UseEnds PROVE TimerOK'
  <2>1. phase = "serving"
    BY <1>1, <1>5 DEF UseEnds
  <2>2. kt' \in TimerState /\ Counting(kt')
    BY <1>1, <1>5, <2>1, TimerOps DEF UseEnds
  <2> QED
    BY <1>5, <2>1, <2>2 DEF TimerOK, Counting, OnlyTimer, NoSource
<1> QED
  BY <1>2, <1>3, <1>4, <1>5, UseKinds

LEMMA FiniteUses ==
    ASSUME NEW uses \in SUBSET Calls
    PROVE  IsFiniteSet(uses) /\ Cardinality(uses) \in Nat
<1>1. IsFiniteSet(Calls)
  BY FS_Interval DEF Calls
<1> QED
  BY <1>1, FS_Subset, FS_CardinalityType

LEMMA HoldsStep ==
    ASSUME TimerOK, GlobalsOK, WindowIsOfBlocked, kt.holds >= Cardinality(inuse), [Next]_vars
    PROVE  kt'.holds >= Cardinality(inuse')
<1>1. /\ kt \in TimerState
      /\ phase # "owning" => Counting(kt)
      /\ phase = "owning" => kt = Unstarted /\ inuse = {}
      /\ IsFiniteSet(inuse) /\ Cardinality(inuse) \in Nat
  BY FiniteUses DEF TimerOK, Counting, GlobalsOK
<1>2. CASE phase = "owning" /\ kt' = Started /\ inuse' = inuse
  BY <1>1, <1>2, StartedState, FS_EmptySet
<1>3. CASE UNCHANGED <<kt, inuse>>
  BY <1>3
<1>4. ASSUME phase = "serving", UsesKept \/ UseBegins
      PROVE  kt'.holds >= Cardinality(inuse')
  <2> DEFINE n == kt.holds
  <2>1. /\ n \in Nat
        /\ add_hold(kt) \in TimerState /\ Counting(add_hold(kt))
        /\ add_hold(kt).holds = n + 1 /\ alive(kt).holds = n
    BY <1>1, <1>4, TimerOps
  <2>2. /\ remove_hold(add_hold(kt)).holds = n
        /\ alive(add_hold(kt)).holds = n + 1
    BY <2>1, TimerOps
  <2>3. CASE UsesKept
    BY <1>1, <2>1, <2>2, <2>3 DEF UsesKept
  <2>4. CASE UseBegins
    <3>1. PICK c \in Calls : inuse' = inuse \cup {c}
      BY <2>4 DEF UseBegins
    <3>2. Cardinality(inuse \cup {c})
              = IF c \in inuse THEN Cardinality(inuse) ELSE Cardinality(inuse) + 1
      BY <1>1, FS_AddElement
    <3>3. kt'.holds = n + 1
      BY <2>1, <2>2, <2>4 DEF UseBegins
    <3> QED
      BY <1>1, <2>1, <3>1, <3>2, <3>3
  <2> QED
    BY <1>4, <2>3, <2>4
<1>5. ASSUME phase = "serving" \/ phase = "owning", UseEnds
      PROVE  kt'.holds >= Cardinality(inuse')
  <2>1. PICK c \in inuse : inuse' = inuse \ {c} /\ kt' \in {kt, remove_hold(kt)}
    BY <1>5 DEF UseEnds
  <2>2. Cardinality(inuse \ {c}) = Cardinality(inuse) - 1
    BY <1>1, FS_RemoveElement
  <2>3. /\ kt.holds \in Nat
        /\ remove_hold(kt).holds = IF kt.holds = 0 THEN 0 ELSE kt.holds - 1
    BY <1>1, <1>5, <2>1, TimerOps
  <2>4. Cardinality(inuse \ {c}) \in Nat
    BY <1>1, FS_RemoveElement, FS_CardinalityType
  <2> QED
    BY <1>1, <2>1, <2>2, <2>3, <2>4
<1> QED
  BY <1>2, <1>3, <1>4, <1>5, UseKinds

-----------------------------------------------------------------------------
(* Each step keeps what is known of calls, windows and paths. *)

LEMMA BlankStep ==
    ASSUME CallsOK, DialogsOK, IdsOK, GlobalsOK, FutureIsBlank, WindowIsOfBlocked, [Next]_vars
    PROVE  FutureIsBlank'
<1> USE DEF GlobalsOK, Dispatch, Arrives, SetPath
<1>0. ncalls' \in {ncalls, ncalls + 1} /\ pathn' <= ncalls'
  BY StepKinds, EndOfProcess
     DEF FutureIsBlank, Quiet, Serves, Creates, PrinterNotFound, CloseErrorWindow,
         CloseDialogWindow
<1>1. \A c \in Calls : c > ncalls' => c > ncalls
  BY <1>0 DEF Calls
<1>2. \A c \in Calls : c > ncalls' => calls'[c] = Unsent
  <2>1. ASSUME NEW d \in Calls, NEW call, calls' = [calls EXCEPT ![d] = call], d <= ncalls'
        PROVE  \A c \in Calls : c > ncalls' => calls'[c] = Unsent
    BY <1>0, <1>1, <2>1 DEF FutureIsBlank, CallsOK, Calls
  <2>2. ASSUME ncalls < MaxCalls PROVE ncalls + 1 \in Calls
    BY <2>2, NextCall
  <2>3. CASE Quiet
    BY <2>3 DEF Quiet, FutureIsBlank
  <2>4. CASE Serves
    <3>1. /\ ncalls < MaxCalls /\ ncalls' = ncalls + 1
          /\ \E call : calls' = [calls EXCEPT ![ncalls + 1] = call]
      BY Zenon, <2>4 DEF Serves
    <3>2. ncalls + 1 \in Calls /\ ncalls + 1 <= ncalls'
      BY <2>2, <3>1
    <3> QED
      BY Zenon, <2>1, <3>1, <3>2
  <2>5. CASE Creates \/ PrinterNotFound
    <3>1. /\ ncalls < MaxCalls /\ ncalls' = ncalls + 1
          /\ \E call : calls' = [calls EXCEPT ![ncalls + 1] = call]
      BY Zenon, <2>5 DEF Creates, PrinterNotFound
    <3>2. ncalls + 1 \in Calls /\ ncalls + 1 <= ncalls'
      BY <2>2, <3>1
    <3> QED
      BY Zenon, <2>1, <3>1, <3>2
  <2>6. CASE CloseErrorWindow \/ CloseDialogWindow
    <3>1. /\ ncalls' = ncalls /\ window # 0
          /\ \E call : calls' = [calls EXCEPT ![window] = call]
      BY Zenon, <2>6 DEF CloseErrorWindow, CloseDialogWindow, FinishPPD
    <3> QED
      BY <2>1, <3>1 DEF WindowIsOfBlocked
  <2>7. ASSUME NEW call, ProcessEnds(call)
        PROVE  \A c \in Calls : c > ncalls' => calls'[c] = Unsent
    <3>1. /\ ncalls < MaxCalls /\ ncalls' = ncalls + 1
          /\ calls' = [d \in Calls |->
                        CASE d = ncalls + 1 -> Lost(call)
                          [] calls[d].status = "blocked" -> Lost(calls[d])
                          [] OTHER -> calls[d]]
      BY Zenon, <2>7 DEF ProcessEnds
    <3>2. ASSUME NEW c \in Calls, c > ncalls' PROVE calls'[c] = Unsent
      <4>1. calls[c] = Unsent /\ c # ncalls + 1
        BY <1>1, <3>1, <3>2 DEF FutureIsBlank, Calls
      <4>2. calls[c].status # "blocked"
        BY <4>1 DEF Unsent
      <4> QED
        BY <3>1, <4>1, <4>2
    <3> QED
      BY <3>2
  <2> QED
    BY Zenon, <2>3, <2>4, <2>5, <2>6, <2>7, StepKinds
<1>3. \A c \in Calls : c > ncalls' => dialogs'[c] = NoDialog
  <2>1. ASSUME UNCHANGED dialogs PROVE \A c \in Calls : c > ncalls' => dialogs'[c] = NoDialog
    BY <1>1, <2>1 DEF FutureIsBlank, Calls
  <2>2. ASSUME Quiet PROVE \A c \in Calls : c > ncalls' => dialogs'[c] = NoDialog
    BY <2>2, DisconnectState DEF Quiet, FutureIsBlank
  <2>3. CASE Creates
    <3>1. PICK iface \in Creators :
            /\ ncalls < MaxCalls /\ ncalls' = ncalls + 1
            /\ NewDialog(ncalls + 1, iface, NextPath(iface))
      BY Zenon, <2>3 DEF Creates
    <3>2. ncalls + 1 \in Calls /\ NextPath(iface) \in Paths
      BY <3>1, NextCall DEF FutureIsBlank
    <3>3. \A d \in Calls : d # ncalls + 1 => dialogs'[d] = dialogs[d]
      BY <3>1, <3>2, NewDialogState
    <3> QED
      BY <3>1, <3>3 DEF FutureIsBlank, Calls
  <2>4. CASE CloseErrorWindow
    <3>1. /\ ncalls' = ncalls /\ window \in Calls /\ window <= ncalls
          /\ NewDialog(window, "PrinterPropertiesDialog", path)
      BY <2>4 DEF CloseErrorWindow, FinishPPD, WindowIsOfBlocked
    <3>2. \A d \in Calls : d # window => dialogs'[d] = dialogs[d]
      BY <3>1, NewDialogState DEF Creators
    <3> QED
      BY <3>1, <3>2 DEF FutureIsBlank, Calls
  <2> QED
    BY Zenon, <2>1, <2>2, <2>3, <2>4, StepKinds, EndOfProcess
       DEF Serves, PrinterNotFound, CloseDialogWindow, dialogVars
<1>4. \A c \in Calls : c > ncalls' => c \notin inuse'
  BY <1>0, <1>1, UseKinds
     DEF FutureIsBlank, WindowIsOfBlocked, UsesKept, UseBegins, UseEnds, Calls
<1> QED
  BY <1>0, <1>2, <1>3, <1>4 DEF FutureIsBlank

\* What is read of the records of calls.
LEMMA CallFields ==
    /\ \A iface \in Creators, p \in Paths :
          LET call == Creation(iface, p)
          IN  call.method = iface /\ call.own = p /\ call.reply = NoPath /\ call.completes
    /\ \A call \in CallType :
          /\ \A p \in Paths \cup {NoPath} :
                LET new == Answered(call, p)
                IN  /\ new.method = call.method /\ new.own = call.own
                    /\ new.reply = p /\ new.status = "answered"
          /\ LET new == Completed(call)
             IN  /\ new.method = call.method /\ new.reply = call.reply
                 /\ new.status \in {"answered", "dropped"}
                 /\ new.status = "dropped" => ~call.completes
          /\ LET new == [call EXCEPT !.status = "blocked"]
             IN  /\ new.method = call.method /\ new.own = call.own
                 /\ new.reply = call.reply /\ new.completes = call.completes
                 /\ new.status = "blocked"
          /\ Lost(call).status = "lost"
<1>1. \A iface \in Creators, p \in Paths :
          LET call == Creation(iface, p)
          IN  call.method = iface /\ call.own = p /\ call.reply = NoPath /\ call.completes
  BY DEF Creation, Unsent
<1>2. ASSUME NEW call \in CallType, NEW p \in Paths \cup {NoPath}
      PROVE  LET new == Answered(call, p)
             IN  /\ new.method = call.method /\ new.own = call.own
                 /\ new.reply = p /\ new.status = "answered"
  BY DEF CallType, Answered
<1>3. ASSUME NEW call \in CallType
      PROVE  /\ LET new == Completed(call)
                IN  /\ new.method = call.method /\ new.reply = call.reply
                    /\ new.status \in {"answered", "dropped"}
                    /\ new.status = "dropped" => ~call.completes
             /\ LET new == [call EXCEPT !.status = "blocked"]
                IN  /\ new.method = call.method /\ new.own = call.own
                    /\ new.reply = call.reply /\ new.completes = call.completes
                    /\ new.status = "blocked"
             /\ Lost(call).status = "lost"
  BY DEF CallType, Completed, Lost
<1> QED
  BY Zenon, <1>1, <1>2, <1>3

LEMMA CallChanged ==
    ASSUME CallsOK, NEW c \in Calls, NEW call, calls' = [calls EXCEPT ![c] = call]
    PROVE  calls'[c] = call /\ \A d \in Calls : d # c => calls'[d] = calls[d]
BY DEF CallsOK

\* What a step does that makes a dialog.
LEMMA CreatesFacts ==
    ASSUME CallsOK, DialogsOK, GlobalsOK, FutureIsBlank, Creates
    PROVE  \E iface \in Creators :
              LET c == ncalls + 1
                  p == NextPath(iface)
              IN  /\ c \in Calls /\ p \in Paths /\ p.n = pathn + 1
                  /\ phase = "serving" /\ phase' = phase
                  /\ ncalls' = c /\ pathn' = pathn + 1 /\ path' = p /\ window' = window
                  /\ overlapped' = IF window = 0 THEN overlapped ELSE overlapped \cup {window}
                  /\ calls'[c].method = iface /\ calls'[c].status = "answered"
                  /\ calls'[c].own = p /\ calls'[c].reply = p
                  /\ dialogs'[c].iface = iface /\ dialogs'[c].at = Export(iface, p)
                  /\ \A d \in Calls : d # c => dialogs'[d] = dialogs[d] /\ calls'[d] = calls[d]
<1>1. PICK iface \in Creators :
        /\ Dispatch
        /\ SetPath(iface)
        /\ NewDialog(ncalls + 1, iface, NextPath(iface))
        /\ calls' = [calls EXCEPT ![ncalls + 1] =
                        Answered(Creation(iface, NextPath(iface)), NextPath(iface))]
        /\ UNCHANGED window
  BY Zenon DEF Creates
<1> DEFINE c == ncalls + 1
           p == NextPath(iface)
           call == Creation(iface, p)
<1>2. c \in Calls /\ p \in Paths /\ p.n = pathn + 1
  BY <1>1, NextCall DEF Dispatch, Arrives, FutureIsBlank, NextPath
<1>3. call \in CallType /\ call.method = iface /\ call.own = p
  <2> HIDE DEF p
  <2>1. p \in Paths
    BY <1>2
  <2>2. call \in CallType
    BY <2>1, CallTypes
  <2> QED
    BY <2>1, <2>2, CallFields
<1>4. /\ Answered(call, p).method = iface /\ Answered(call, p).own = p
      /\ Answered(call, p).reply = p /\ Answered(call, p).status = "answered"
  <2> HIDE DEF call, p
  <2> QED
    BY <1>2, <1>3, CallFields
<1>5. calls'[c] = Answered(call, p) /\ \A d \in Calls : d # c => calls'[d] = calls[d]
  BY Zenon, <1>1, <1>2, CallChanged
<1>6. /\ dialogs'[c].iface = iface /\ dialogs'[c].at = Export(iface, p)
      /\ \A d \in Calls : d # c => dialogs'[d] = dialogs[d]
  BY <1>1, <1>2, NewDialogState
<1>7. /\ phase = "serving" /\ phase' = phase /\ ncalls' = c /\ pathn' = pathn + 1
      /\ path' = p /\ window' = window
      /\ overlapped' = IF window = 0 THEN overlapped ELSE overlapped \cup {window}
  BY <1>1 DEF Dispatch, Arrives, SetPath
<1> HIDE DEF call, p, c
<1>8. /\ calls'[c].method = iface /\ calls'[c].status = "answered"
      /\ calls'[c].own = p /\ calls'[c].reply = p
  BY <1>4, <1>5
<1> QED
  BY Zenon, <1>2, <1>5, <1>6, <1>7, <1>8 DEF c, p

LEMMA NotFoundFacts ==
    ASSUME CallsOK, GlobalsOK, FutureIsBlank, PrinterNotFound
    PROVE  LET c == ncalls + 1
               p == NextPath("PrinterPropertiesDialog")
           IN  /\ c \in Calls /\ p \in Paths /\ p.n = pathn + 1
               /\ phase = "serving" /\ phase' = phase
               /\ ncalls' = c /\ pathn' = pathn + 1 /\ path' = p
               /\ window = 0 /\ window' = c
               /\ overlapped' = overlapped
               /\ calls'[c].method = "PrinterPropertiesDialog"
               /\ calls'[c].status = "blocked" /\ calls'[c].own = p
               /\ BlockedMethod(calls'[c])
               /\ \A d \in Calls : d # c => calls'[d] = calls[d]
               /\ dialogs' = dialogs /\ inuse' = inuse
<1> DEFINE c == ncalls + 1
           p == NextPath("PrinterPropertiesDialog")
           call == Creation("PrinterPropertiesDialog", p)
           new == [call EXCEPT !.status = "blocked"]
<1>1. /\ ncalls < MaxCalls /\ phase = "serving" /\ phase' = phase
      /\ ncalls' = c /\ pathn' = pathn + 1 /\ path' = p
      /\ window = 0 /\ window' = c /\ overlapped' = overlapped
      /\ calls' = [calls EXCEPT ![c] = new]
      /\ dialogs' = dialogs /\ inuse' = inuse
  BY DEF PrinterNotFound, Dispatch, Arrives, SetPath, dialogVars
<1>2. c \in Calls /\ p \in Paths /\ p.n = pathn + 1
  BY <1>1, NextCall DEF FutureIsBlank, NextPath, Creators
<1>3. /\ call \in CallType /\ call.method = "PrinterPropertiesDialog" /\ call.own = p
      /\ call.reply = NoPath /\ call.completes
  <2> HIDE DEF p
  <2>1. p \in Paths /\ "PrinterPropertiesDialog" \in Creators
    BY <1>2 DEF Creators
  <2>2. call \in CallType
    BY <2>1, CallTypes
  <2> QED
    BY <2>1, <2>2, CallFields
<1>4. /\ new.method = "PrinterPropertiesDialog" /\ new.own = p /\ new.reply = NoPath
      /\ new.completes /\ new.status = "blocked"
  <2> HIDE DEF call
  <2> QED
    BY <1>3, CallFields
<1>5. calls'[c] = new /\ \A d \in Calls : d # c => calls'[d] = calls[d]
  BY Zenon, <1>1, <1>2, CallChanged
<1> HIDE DEF new
<1> QED
  BY <1>1, <1>2, <1>4, <1>5 DEF BlockedMethod

LEMMA CloseFacts ==
    ASSUME CallsOK, DialogsOK, GlobalsOK, WindowIsOfBlocked,
           CloseErrorWindow \/ CloseDialogWindow
    PROVE  /\ window \in Calls /\ window' = 0 /\ phase' = phase /\ ncalls' = ncalls
           /\ UNCHANGED <<pathn, path, overlapped>>
           /\ \A d \in Calls : d # window =>
                 dialogs'[d] = dialogs[d] /\ calls'[d] = calls[d]
           /\ calls'[window].method = calls[window].method
           /\ IF calls[window].method = "PrinterPropertiesDialog"
              THEN /\ calls'[window].status = "answered" /\ calls'[window].reply = path
                   /\ calls'[window].own = calls[window].own
                   /\ dialogs'[window].iface = "PrinterPropertiesDialog"
                   /\ dialogs'[window].at = Export("PrinterPropertiesDialog", path)
              ELSE /\ calls'[window].status \in {"answered", "dropped"}
                   /\ calls'[window].status = "dropped" => calls[window].method \in NPDMethods
                   /\ calls'[window].reply = NoPath
                   /\ dialogs' = dialogs
<1>1. window \in Calls /\ calls[window] \in CallType /\ path \in Paths \cup {NoPath}
  BY DEF CloseErrorWindow, CloseDialogWindow, GlobalsOK, CallsOK
<1>2. CASE CloseErrorWindow
  <2> DEFINE new == Answered(calls[window], path)
  <2>1. /\ calls' = [calls EXCEPT ![window] = new]
        /\ NewDialog(window, "PrinterPropertiesDialog", path)
        /\ calls[window].method = "PrinterPropertiesDialog"
        /\ window' = 0 /\ phase' = phase /\ ncalls' = ncalls
        /\ UNCHANGED <<pathn, path, overlapped>>
    BY Zenon, <1>2 DEF CloseErrorWindow, FinishPPD
  <2>2. /\ new.method = calls[window].method /\ new.own = calls[window].own
        /\ new.reply = path /\ new.status = "answered"
    BY <1>1, CallFields
  <2>3. calls'[window] = new /\ \A d \in Calls : d # window => calls'[d] = calls[d]
    BY Zenon, <1>1, <2>1, CallChanged
  <2>4. /\ dialogs'[window].iface = "PrinterPropertiesDialog"
        /\ dialogs'[window].at = Export("PrinterPropertiesDialog", path)
        /\ \A d \in Calls : d # window => dialogs'[d] = dialogs[d]
    BY <1>1, <2>1, NewDialogState DEF Creators
  <2> HIDE DEF new
  <2> QED
    BY <1>1, <2>1, <2>2, <2>3, <2>4
<1>3. CASE CloseDialogWindow
  <2> DEFINE new == Completed(calls[window])
  <2>1. /\ calls' = [calls EXCEPT ![window] = new]
        /\ calls[window].method # "PrinterPropertiesDialog"
        /\ window' = 0 /\ phase' = phase /\ ncalls' = ncalls
        /\ UNCHANGED <<pathn, path, overlapped, dialogs>>
    BY Zenon, <1>3 DEF CloseDialogWindow, dialogVars
  <2>2. /\ new.method = calls[window].method /\ new.reply = calls[window].reply
        /\ new.status \in {"answered", "dropped"}
        /\ new.status = "dropped" => ~calls[window].completes
    BY <1>1, CallFields
  <2>4. /\ calls[window].reply = NoPath
        /\ ~calls[window].completes => calls[window].method \in NPDMethods
    BY <1>3 DEF CloseDialogWindow, WindowIsOfBlocked, BlockedMethod
  <2>3. calls'[window] = new /\ \A d \in Calls : d # window => calls'[d] = calls[d]
    BY Zenon, <1>1, <2>1, CallChanged
  <2> HIDE DEF new
  <2> QED
    BY <1>1, <2>1, <2>2, <2>3, <2>4
<1> QED
  BY <1>2, <1>3

LEMMA EndFacts ==
    ASSUME CallsOK, GlobalsOK, NEW call \in CallType, ProcessEnds(call)
    PROVE  /\ ncalls + 1 \in Calls /\ ncalls' = ncalls + 1 /\ phase' = "ended" /\ window' = 0
           /\ UNCHANGED <<pathn, path, dialogs, overlapped>>
           /\ \A d \in Calls :
                 \/ calls'[d].status = "lost"
                 \/ d # ncalls + 1 /\ calls'[d] = calls[d] /\ calls[d].status # "blocked"
<1>1. /\ Arrives /\ phase' = "ended" /\ window' = 0
      /\ UNCHANGED <<pathn, path, dialogs, overlapped>>
      /\ calls' = [d \in Calls |->
                     CASE d = ncalls + 1 -> Lost(call)
                       [] calls[d].status = "blocked" -> Lost(calls[d])
                       [] OTHER -> calls[d]]
  BY Zenon DEF ProcessEnds, dialogVars
<1>2. Lost(call).status = "lost" /\ \A d \in Calls : Lost(calls[d]).status = "lost"
  BY CallFields DEF CallsOK
<1>3. ncalls + 1 \in Calls
  BY <1>1, NextCall DEF Arrives
<1> QED
  BY <1>1, <1>2, <1>3 DEF Arrives

LEMMA ServesFacts ==
    ASSUME CallsOK, GlobalsOK, Serves
    PROVE  LET c == ncalls + 1
           IN  /\ c \in Calls /\ ncalls' = c
               /\ UNCHANGED <<phase, dialogs, pathn, path, overlapped>>
               /\ \A d \in Calls : d # c => calls'[d] = calls[d]
               /\ Outcome(calls'[c])
               /\ IF calls'[c].status = "blocked"
                  THEN /\ phase = "serving" /\ window = 0 /\ window' = c
                       /\ BlockedMethod(calls'[c])
                       /\ calls'[c].method # "PrinterPropertiesDialog"
                  ELSE window' = window
<1>1. PICK call \in CallType :
        /\ calls' = [calls EXCEPT ![ncalls + 1] = call]
        /\ Outcome(call)
        /\ IF call.status = "blocked"
           THEN /\ phase = "serving" /\ window = 0 /\ window' = ncalls + 1
                /\ BlockedMethod(call) /\ call.method # "PrinterPropertiesDialog"
           ELSE UNCHANGED window
  BY Zenon DEF Serves
<1>2. /\ ncalls + 1 \in Calls /\ ncalls' = ncalls + 1
      /\ UNCHANGED <<phase, dialogs, pathn, path, overlapped>>
  BY NextCall DEF Serves
<1>3. /\ calls'[ncalls + 1] = call
      /\ \A d \in Calls : d # ncalls + 1 => calls'[d] = calls[d]
  BY Zenon, <1>1, <1>2, CallChanged
<1> QED
  BY Zenon, <1>1, <1>2, <1>3

\* The handlers' uses do not reach a call that waits in its error window.
LEMMA WaitingUsesNothing ==
    ASSUME GlobalsOK, WindowIsOfBlocked, [Next]_vars,
           window # 0, window' = window, window \notin inuse
    PROVE  window \notin inuse'
BY UseKinds DEF GlobalsOK, WindowIsOfBlocked, UsesKept, UseBegins, UseEnds, Calls

LEMMA WindowStep ==
    ASSUME CallsOK, DialogsOK, IdsOK, GlobalsOK, FutureIsBlank, WindowIsOfBlocked, [Next]_vars
    PROVE  WindowIsOfBlocked'
<1> USE DEF GlobalsOK, Calls
<1>1. CASE Quiet
  <2>1. /\ UNCHANGED <<calls, ncalls, path, window>>
        /\ phase = "serving" => phase' = "serving"
    BY <1>1 DEF Quiet
  <2>2. \A d \in Calls : dialogs[d] = NoDialog => dialogs'[d] = NoDialog
    BY <1>1, DisconnectState DEF Quiet
  <2> QED
    BY <2>1, <2>2, WaitingUsesNothing DEF WindowIsOfBlocked, BlockedMethod
<1>2. CASE Serves
  <2> DEFINE c == ncalls + 1
  <2>1. /\ c \in Calls /\ ncalls' = c /\ UNCHANGED <<phase, dialogs, path>>
        /\ \A d \in Calls : d # c => calls'[d] = calls[d]
        /\ IF calls'[c].status = "blocked"
           THEN /\ phase = "serving" /\ window = 0 /\ window' = c
                /\ BlockedMethod(calls'[c])
                /\ calls'[c].method # "PrinterPropertiesDialog"
           ELSE window' = window
    BY <1>2, ServesFacts
  <2>2. CASE calls'[c].status = "blocked"
    BY <2>1, <2>2 DEF WindowIsOfBlocked, BlockedMethod
  <2>3. CASE calls'[c].status # "blocked"
    BY <2>1, <2>3, WaitingUsesNothing DEF WindowIsOfBlocked, BlockedMethod
  <2> QED
    BY <2>2, <2>3
<1>3. CASE Creates
  <2>1. PICK iface \in Creators :
          /\ ncalls + 1 \in Calls /\ NextPath(iface) \in Paths
          /\ phase' = phase /\ ncalls' = ncalls + 1 /\ path' = NextPath(iface)
          /\ window' = window /\ calls'[ncalls + 1].status = "answered"
          /\ \A d \in Calls : d # ncalls + 1 =>
                dialogs'[d] = dialogs[d] /\ calls'[d] = calls[d]
    BY <1>3, CreatesFacts
  <2> QED
    BY <2>1, WaitingUsesNothing DEF WindowIsOfBlocked, BlockedMethod
<1>4. CASE PrinterNotFound
  <2>1. /\ ncalls + 1 \in Calls /\ NextPath("PrinterPropertiesDialog") \in Paths
        /\ phase = "serving" /\ phase' = phase
        /\ ncalls' = ncalls + 1 /\ path' = NextPath("PrinterPropertiesDialog")
        /\ window = 0 /\ window' = ncalls + 1
        /\ calls'[ncalls + 1].status = "blocked" /\ BlockedMethod(calls'[ncalls + 1])
        /\ \A d \in Calls : d # ncalls + 1 => calls'[d] = calls[d]
        /\ dialogs' = dialogs /\ inuse' = inuse
    BY <1>4, NotFoundFacts
  <2>2. dialogs[ncalls + 1] = NoDialog /\ ncalls + 1 \notin inuse
    BY <2>1 DEF FutureIsBlank
  <2> QED
    BY <2>1, <2>2 DEF WindowIsOfBlocked, BlockedMethod
<1>5. CASE CloseErrorWindow \/ CloseDialogWindow
  <2>1. /\ window \in Calls /\ window' = 0 /\ ncalls' = ncalls
        /\ \A d \in Calls : d # window => calls'[d] = calls[d]
        /\ calls'[window].status \in {"answered", "dropped"}
    BY <1>5, CloseFacts
  <2> QED
    BY <2>1 DEF WindowIsOfBlocked
<1>6. ASSUME NEW call \in CallType, ProcessEnds(call) PROVE WindowIsOfBlocked'
  <2>1. /\ ncalls' = ncalls + 1 /\ window' = 0
        /\ \A d \in Calls : calls'[d].status = "lost" \/ calls'[d].status # "blocked"
    BY Zenon, <1>6, EndFacts
  <2> QED
    BY <2>1 DEF WindowIsOfBlocked
<1> QED
  BY <1>1, <1>2, <1>3, <1>4, <1>5, <1>6, StepKinds


LEMMA NumbersOfPaths ==
    /\ \A p \in Paths \cup {NoPath} : p.n \in Nat
    /\ \A d \in Dialogs \cup {NoDialog} : d.at \in Paths \cup {NoPath}
BY DEF Paths, NoPath, Calls, Dialogs, NoDialog

LEMMA NumbersStep ==
    ASSUME CallsOK, DialogsOK, IdsOK, GlobalsOK, TimerOK, FutureIsBlank, WindowIsOfBlocked,
           PathsAreNumbered, [Next]_vars
    PROVE  PathsAreNumbered'
<1> USE DEF GlobalsOK
<1>0. \A d \in Calls : dialogs[d].at.n \in Nat
  BY NumbersOfPaths DEF DialogsOK
<1>1. CASE Quiet
  <2>1. UNCHANGED <<calls, ncalls, path, window, overlapped, pathn>>
    BY <1>1 DEF Quiet, TimerOK
  <2>2. \A d \in Calls : dialogs'[d].at = dialogs[d].at
    BY <1>1, DisconnectState DEF Quiet
  <2> QED
    BY <2>1, <2>2 DEF PathsAreNumbered
<1>2. CASE Serves
  <2>1. /\ UNCHANGED <<dialogs, pathn, path, overlapped>>
        /\ \A d \in Calls : d # ncalls + 1 => calls'[d] = calls[d]
        /\ window' = window \/ calls'[window'].method # "PrinterPropertiesDialog"
    BY <1>2, ServesFacts
  <2> QED
    BY <2>1 DEF PathsAreNumbered, WindowIsOfBlocked
<1>3. CASE Creates
  <2>1. PICK iface \in Creators :
          LET c == ncalls + 1
              p == NextPath(iface)
          IN  /\ c \in Calls /\ p.n = pathn + 1
              /\ pathn' = pathn + 1 /\ path' = p /\ window' = window
              /\ overlapped' = IF window = 0 THEN overlapped ELSE overlapped \cup {window}
              /\ dialogs'[c].at = Export(iface, p)
              /\ \A d \in Calls : d # c => dialogs'[d] = dialogs[d]
    BY Zenon, <1>3, CreatesFacts
  <2>2. \A d \in Calls : dialogs'[d].at.n <= pathn'
    BY <1>0, <2>1 DEF PathsAreNumbered, Export, NoPath
  <2> QED
    BY <2>1, <2>2 DEF PathsAreNumbered
<1>4. CASE PrinterNotFound
  <2> DEFINE p == NextPath("PrinterPropertiesDialog")
  <2>1. /\ p.n = pathn + 1 /\ pathn' = pathn + 1 /\ path' = p
        /\ window' = ncalls + 1 /\ calls'[ncalls + 1].own = p /\ dialogs' = dialogs
    BY <1>4, NotFoundFacts
  <2>2. \A d \in Calls : dialogs[d].at.n <= pathn /\ dialogs[d].at # p
    BY <1>0, <2>1 DEF PathsAreNumbered
  <2> HIDE DEF p
  <2> QED
    BY <1>0, <2>1, <2>2 DEF PathsAreNumbered
<1>5. CASE CloseErrorWindow \/ CloseDialogWindow
  <2>1. /\ window' = 0 /\ UNCHANGED <<pathn, path>>
        /\ \A d \in Calls : d # window => dialogs'[d] = dialogs[d]
        /\ \/ dialogs' = dialogs
           \/ dialogs'[window].at = Export("PrinterPropertiesDialog", path)
    BY <1>5, CloseFacts
  <2>2. Export("PrinterPropertiesDialog", path).n <= pathn
    BY DEF PathsAreNumbered, Export, NoPath
  <2> QED
    BY <2>1, <2>2 DEF PathsAreNumbered
<1>6. ASSUME NEW call \in CallType, ProcessEnds(call) PROVE PathsAreNumbered'
  BY <1>6, EndOfProcess DEF PathsAreNumbered, dialogVars
<1> QED
  BY <1>1, <1>2, <1>3, <1>4, <1>5, <1>6, StepKinds

\* An object stays at its path.
LEMMA ObjectsStay ==
    ASSUME CallsOK, DialogsOK, IdsOK, GlobalsOK, FutureIsBlank, WindowIsOfBlocked, [Next]_vars,
           NEW d \in Calls, dialogs[d] # NoDialog \/ calls[d].status = "answered"
    PROVE  dialogs'[d].iface = dialogs[d].iface /\ dialogs'[d].at = dialogs[d].at
<1>1. CASE UNCHANGED dialogs
  BY <1>1
<1>2. CASE Quiet
  BY <1>1, <1>2, DisconnectState DEF Quiet
<1>3. CASE Creates
  <2>1. ncalls + 1 \in Calls /\ \A e \in Calls : e # ncalls + 1 => dialogs'[e] = dialogs[e]
    BY Zenon, <1>3, CreatesFacts
  <2> QED
    BY <2>1 DEF FutureIsBlank, GlobalsOK, Calls, Unsent
<1>4. CASE CloseErrorWindow \/ CloseDialogWindow
  <2>1. /\ window # 0
        /\ \A e \in Calls : e # window => dialogs'[e] = dialogs[e]
        /\ calls[window].method # "PrinterPropertiesDialog" => dialogs' = dialogs
    BY <1>4, CloseFacts DEF CloseErrorWindow, CloseDialogWindow
  <2> QED
    BY <2>1 DEF WindowIsOfBlocked
<1> QED
  BY Zenon, <1>1, <1>2, <1>3, <1>4, StepKinds, EndOfProcess
     DEF Serves, PrinterNotFound, dialogVars

\* A creating call that a step answers has made its dialog, exported at the path of
\* the reply unless another one was; that is a new path, and the call's own, if no
\* other call set the buffer meanwhile.
IsFresh(c) ==
    calls'[c].reply = calls'[c].own /\ \A d \in Calls : dialogs[d].at # calls'[c].reply
LEMMA NewAnswers ==
    ASSUME CallsOK, DialogsOK, IdsOK, GlobalsOK, FutureIsBlank, WindowIsOfBlocked,
           PathsAreNumbered, [Next]_vars,
           NEW c \in Calls, calls'[c].status = "answered", calls'[c].method \in Creators
    PROVE  \/ calls'[c] = calls[c]
           \/ /\ dialogs'[c].iface = calls'[c].method
              /\ dialogs'[c].at = Export(calls'[c].method, calls'[c].reply)
              /\ calls'[c].reply \in Paths
              /\ c \in overlapped \/ IsFresh(c)
<1>1. CASE Quiet
  BY <1>1 DEF Quiet
<1>2. CASE Serves
  BY <1>2, ServesFacts DEF Outcome
<1>3. CASE Creates
  <2>1. PICK iface \in Creators :
          LET d == ncalls + 1
              p == NextPath(iface)
          IN  /\ p \in Paths /\ p.n = pathn + 1
              /\ calls'[d].method = iface /\ calls'[d].own = p /\ calls'[d].reply = p
              /\ dialogs'[d].iface = iface /\ dialogs'[d].at = Export(iface, p)
              /\ \A e \in Calls : e # d => calls'[e] = calls[e]
    BY Zenon, <1>3, CreatesFacts
  <2>2. \A d \in Calls : dialogs[d].at # NextPath(iface)
    BY <2>1, NumbersOfPaths DEF PathsAreNumbered, DialogsOK, GlobalsOK
  <2>3. CASE c = ncalls + 1
    BY Zenon, <2>1, <2>2, <2>3 DEF IsFresh
  <2> QED
    BY Zenon, <2>1, <2>3
<1>4. CASE PrinterNotFound
  <2>1. /\ calls'[ncalls + 1].status = "blocked"
        /\ \A d \in Calls : d # ncalls + 1 => calls'[d] = calls[d]
    BY Zenon, <1>4, NotFoundFacts
  <2> QED
    BY <2>1
<1>5. CASE CloseErrorWindow \/ CloseDialogWindow
  <2>1. /\ window \in Calls /\ window # 0
        /\ \A d \in Calls : d # window => calls'[d] = calls[d]
        /\ calls'[window].method = calls[window].method
        /\ calls[window].method = "PrinterPropertiesDialog" =>
              /\ calls'[window].reply = path /\ calls'[window].own = calls[window].own
              /\ dialogs'[window].iface = "PrinterPropertiesDialog"
              /\ dialogs'[window].at = Export("PrinterPropertiesDialog", path)
    BY <1>5, CloseFacts DEF Calls
  <2>2. /\ calls[window].method \in {"PrinterPropertiesDialog", "PrintTestPage"} \cup NPDMethods
        /\ calls[window].method = "PrinterPropertiesDialog" => path \in Paths
    BY <2>1 DEF WindowIsOfBlocked, BlockedMethod
  <2>3. calls[window].method = "PrinterPropertiesDialog" =>
            window \in overlapped \/ IsFresh(window)
    BY <2>1 DEF PathsAreNumbered, IsFresh
  <2>4. CASE c = window
    BY <2>1, <2>2, <2>3, <2>4 DEF NPDMethods, Creators
  <2> QED
    BY <2>1, <2>4
<1>6. ASSUME NEW call \in CallType, ProcessEnds(call) PROVE calls'[c] = calls[c]
  <2>1. calls'[c].status = "lost" \/ calls'[c] = calls[c]
    BY Zenon, <1>6, EndFacts
  <2> QED
    BY <2>1
<1> QED
  BY Zenon, <1>1, <1>2, <1>3, <1>4, <1>5, <1>6, StepKinds

LEMMA SupportsStep ==
    ASSUME CallsOK, DialogsOK, IdsOK, GlobalsOK, FutureIsBlank, WindowIsOfBlocked,
           PathsAreNumbered, PathSupportsInterface, [Next]_vars
    PROVE  PathSupportsInterface'
<1> SUFFICES ASSUME NEW c \in Calls, calls'[c].status = "answered",
                    calls'[c].method \in Creators
             PROVE  \E d \in Calls : /\ dialogs'[d].iface = calls'[c].method
                                     /\ dialogs'[d].at = calls'[c].reply
  BY DEF PathSupportsInterface
<1>1. ASSUME NEW d \in Calls, dialogs[d].iface = calls'[c].method,
             dialogs[d].at = calls'[c].reply
      PROVE  dialogs'[d].iface = calls'[c].method /\ dialogs'[d].at = calls'[c].reply
  <2>1. dialogs[d] # NoDialog
    BY <1>1 DEF NoDialog, Creators
  <2> QED
    BY <1>1, <2>1, ObjectsStay
<1>2. CASE calls'[c] = calls[c]
  BY <1>1, <1>2 DEF PathSupportsInterface
<1>3. CASE /\ dialogs'[c].iface = calls'[c].method
           /\ dialogs'[c].at = Export(calls'[c].method, calls'[c].reply)
  BY <1>1, <1>3 DEF Export
<1> QED
  BY <1>2, <1>3, NewAnswers

LEMMA OverlapsStay ==
    ASSUME CallsOK, DialogsOK, IdsOK, GlobalsOK, FutureIsBlank, WindowIsOfBlocked, [Next]_vars
    PROVE  overlapped \subseteq overlapped'
<1>1. Creates => overlapped \subseteq overlapped'
  BY DEF Creates, SetPath
<1>2. PrinterNotFound => overlapped \subseteq overlapped'
  BY DEF PrinterNotFound, SetPath
<1> QED
  BY Zenon, <1>1, <1>2, StepKinds, EndOfProcess
     DEF Quiet, Serves, CloseErrorWindow, CloseDialogWindow

LEMMA UndisturbedStep ==
    ASSUME CallsOK, DialogsOK, IdsOK, GlobalsOK, FutureIsBlank, WindowIsOfBlocked,
           PathsAreNumbered, UndisturbedCallGetsItsDialog, [Next]_vars
    PROVE  UndisturbedCallGetsItsDialog'
<1> SUFFICES ASSUME NEW c \in Calls, c \notin overlapped', calls'[c].status = "answered",
                    calls'[c].method \in Creators
             PROVE  calls'[c].reply = calls'[c].own /\ dialogs'[c].at = calls'[c].own
  BY DEF UndisturbedCallGetsItsDialog
<1>1. c \notin overlapped
  BY OverlapsStay
<1>2. CASE calls'[c] = calls[c]
  <2>1. calls[c].reply = calls[c].own /\ dialogs[c].at = calls[c].own
    BY <1>1, <1>2 DEF UndisturbedCallGetsItsDialog
  <2>2. dialogs'[c].at = dialogs[c].at
    BY <1>2, ObjectsStay
  <2> QED
    BY <1>2, <2>1, <2>2
<1>3. CASE dialogs'[c].at = Export(calls'[c].method, calls'[c].reply) /\ IsFresh(c)
  BY <1>3 DEF Export, IsFresh
<1> QED
  BY <1>1, <1>2, <1>3, NewAnswers

-----------------------------------------------------------------------------
(* The invariant is inductive. *)

LEMMA IInvInit == Init => IInv
<1> SUFFICES ASSUME Init PROVE IInv
  OBVIOUS
<1>1. TypeOK
  BY TypeInit
<1>2. TimerOK
  BY <1>1 DEF TypeOK, Init, TimerOK
<1>3. kt.holds >= Cardinality(inuse)
  BY FS_EmptySet DEF Init, Unstarted, Dead
<1>4. /\ \A c \in Calls : calls[c] = Unsent /\ dialogs[c] = NoDialog
      /\ Unsent.status = "unsent" /\ NoDialog.at.n = 0
      /\ ncalls = 0 /\ pathn = 0 /\ window = 0 /\ inuse = {}
      /\ path = NoPath /\ NoPath.n = 0
  BY DEF Init, Unsent, NoDialog, NoPath
<1>5. FutureIsBlank
  BY <1>4 DEF FutureIsBlank
<1>6. WindowIsOfBlocked
  BY <1>4 DEF WindowIsOfBlocked, Calls
<1>7. PathsAreNumbered /\ PathSupportsInterface /\ UndisturbedCallGetsItsDialog
  BY <1>4 DEF PathsAreNumbered, PathSupportsInterface, UndisturbedCallGetsItsDialog
<1> QED
  BY <1>1, <1>2, <1>3, <1>5, <1>6, <1>7 DEF IInv

LEMMA IInvStep == IInv /\ [Next]_vars => IInv'
<1> SUFFICES ASSUME IInv, [Next]_vars PROVE IInv'
  OBVIOUS
<1>1. /\ CallsOK /\ DialogsOK /\ IdsOK /\ GlobalsOK /\ g_ppds \in BOOLEAN
      /\ TimerOK /\ kt.holds >= Cardinality(inuse)
      /\ FutureIsBlank /\ WindowIsOfBlocked /\ PathsAreNumbered
      /\ PathSupportsInterface /\ UndisturbedCallGetsItsDialog
  BY Zenon, TypeParts DEF IInv
<1>2. CallsOK' /\ DialogsOK' /\ IdsOK' /\ GlobalsOK'
  BY <1>1, CallsStep, DialogsStep, IdsStep, GlobalsStep
<1>3. TimerOK' /\ kt'.holds >= Cardinality(inuse')
  BY <1>1, TimerStep, HoldsStep
<1>4. kt' \in TimerState
  BY <1>3 DEF TimerOK
<1>5. g_ppds' \in BOOLEAN
  BY Zenon, <1>1, FlagStep
<1>6. TypeOK'
  BY Zenon, <1>2, <1>4, <1>5 DEF TypeOK, CallsOK, DialogsOK, IdsOK, GlobalsOK
<1>7. FutureIsBlank' /\ WindowIsOfBlocked' /\ PathsAreNumbered'
  BY <1>1, BlankStep, WindowStep, NumbersStep
<1>8. PathSupportsInterface' /\ UndisturbedCallGetsItsDialog'
  BY <1>1, SupportsStep, UndisturbedStep
<1> QED
  BY <1>3, <1>6, <1>7, <1>8 DEF IInv

\* Counted holds keep the timer's source away.
LEMMA HeldWhileInUse == IInv => UseIsHeld
<1> SUFFICES ASSUME IInv, inuse # {} PROVE Attached(kt) = {}
  BY DEF IInv, UseIsHeld
<1>1. inuse \subseteq Calls /\ TimerOK /\ kt.holds >= Cardinality(inuse)
  BY DEF IInv, TypeOK
<1>2. Cardinality(inuse) \in Nat /\ Cardinality(inuse) # 0
  BY <1>1, FiniteUses, FS_EmptySet
<1>3. kt.holds # 0 /\ phase # "owning"
  BY <1>1, <1>2 DEF TimerOK
<1> QED
  BY <1>1, <1>3, AttachedOne DEF TimerOK

LEMMA IInvAlways == Spec => []IInv
BY IInvInit, IInvStep, PTL DEF Spec

-----------------------------------------------------------------------------
(* What holds in every reachable state. *)

\* The globals, the dialogs and the history of the calls keep their types, for any
\* number of calls (main and the handlers of the main object and of the dialogs).
THEOREM TypeCorrect == Spec => []TypeOK
<1>1. IInv => TypeOK
  BY DEF IInv
<1> QED
  BY <1>1, IInvAlways, PTL

\* While a dialog is in use the process is held, once for each use, and its idle
\* timeout is not attached: whatever order the dialogs' handlers run in, and whatever
\* ids the global lists hold (remove_hold and remove_handles in the three dialogs).
THEOREM UsesCorrect == Spec => []UseIsHeld
BY HeldWhileInUse, IInvAlways, PTL

\* Every path that the main object has returned has an object of the dialog's
\* interface, for any interleaving of windows and calls (handle_new_printer_dialog and
\* its like, and CPPrinterPropertiesDialog after activate_error).
THEOREM PathsCorrect == Spec => []PathSupportsInterface
<1>1. IInv => PathSupportsInterface
  BY DEF IInv
<1> QED
  BY <1>1, IInvAlways, PTL

\* A call during which no other call set the buffer `path` gets its own dialog, at a
\* path that was made for it.
THEOREM UndisturbedCorrect == Spec => []UndisturbedCallGetsItsDialog
<1>1. IInv => UndisturbedCallGetsItsDialog
  BY DEF IInv
<1> QED
  BY <1>1, IInvAlways, PTL


-----------------------------------------------------------------------------
(* What clients see of a step. *)

\* The state that PrintingService speaks of.
Life == IF phase = "owning" THEN "starting" ELSE phase
Seen == [c \in Calls |-> [method |-> calls[c].method, status |-> calls[c].status,
                          reply |-> calls[c].reply]]
Objects == {<<dialogs[d].iface, dialogs[d].at>> : d \in {e \in Calls : dialogs[e].at # NoPath}}

LEMMA SeenChanged ==
    ASSUME NEW c \in Calls, \A d \in Calls : d # c => calls'[d] = calls[d]
    PROVE  Seen' = [Seen EXCEPT ![c] = Service!Outcome(calls'[c].method, calls'[c].status,
                                                      calls'[c].reply)]
BY DEF Seen, Service!Outcome

LEMMA ObjectsKept ==
    ASSUME \A d \in Calls : dialogs'[d].iface = dialogs[d].iface /\ dialogs'[d].at = dialogs[d].at
    PROVE  Objects' = Objects
BY DEF Objects

\* Whether the export of the new dialog fails or not, there is an object then.
LEMMA ObjectsGrow ==
    ASSUME NEW c \in Calls, NEW iface \in Creators, NEW p \in Paths,
           dialogs[c] = NoDialog,
           dialogs'[c].iface = iface, dialogs'[c].at = Export(iface, p),
           \A d \in Calls : d # c => dialogs'[d] = dialogs[d]
    PROVE  Objects' = Objects \cup {<<iface, p>>}
<1>1. p # NoPath /\ dialogs[c].at = NoPath
  BY DEF Paths, NoPath, NoDialog, Creators
<1>2. CASE Export(iface, p) = p
  BY <1>1, <1>2 DEF Objects
<1>3. CASE Export(iface, p) # p
  <2>1. /\ dialogs'[c].at = NoPath
        /\ \E d \in Calls : dialogs[d].iface = iface /\ dialogs[d].at = p
    BY <1>3 DEF Export
  <2>2. <<iface, p>> \in Objects
    BY <1>1, <2>1 DEF Objects
  <2>3. Objects' = Objects
    BY <1>1, <2>1 DEF Objects
  <2> QED
    BY <2>2, <2>3
<1> QED
  BY <1>2, <1>3


LEMMA MapsToInit == Init => Service!Init
<1> SUFFICES ASSUME Init PROVE Service!Init
  OBVIOUS
<1>1. /\ phase = "owning" /\ window = 0
      /\ calls = [c \in Calls |-> Unsent] /\ dialogs = [c \in Calls |-> NoDialog]
  BY DEF Init
<1>2. Seen = [c \in Calls |-> Service!Unsent] /\ Objects = {}
  BY <1>1 DEF Seen, Objects, Unsent, NoDialog, Service!Unsent
<1> QED
  BY <1>1, <1>2 DEF Service!Init, Seen, Objects

\* The steps of PrintingService, of the mapped state.
LEMMA MappedStart ==
    ASSUME phase = "owning", phase' = "serving", UNCHANGED <<Seen, Objects, window>>
    PROVE  Service!Next
BY DEF Service!Next, Service!Start, Seen, Objects

LEMMA MappedFinish ==
    ASSUME NEW c \in Calls, NEW m \in Methods, NEW status, NEW p \in Paths \cup {NoPath},
           Seen' = [Seen EXCEPT ![c] = Service!Outcome(m, status, p)],
           IF m \in Creators
           THEN status = "answered" /\ p \in Paths /\ Objects' = Objects \cup {<<m, p>>}
           ELSE /\ p = NoPath /\ Objects' = Objects
                /\ \/ status = "answered"
                   \/ status = "dropped" /\ m \in NPDMethods
    PROVE  Service!Finish(c, m)
<1>1. Service!Create(m)
  BY DEF Service!Create, Objects
<1>2. Service!Becomes(c, Service!Outcome(m, status, p))
  BY DEF Service!Becomes, Seen
<1>3. CASE status = "answered"
  <2>1. IF m \in Creators THEN <<m, p>> \in Objects' ELSE p = NoPath
    OBVIOUS
  <2> QED
    BY Zenon, <1>1, <1>2, <1>3, <2>1 DEF Service!Finish, Objects
<1>4. CASE status = "dropped" /\ m \in NPDMethods /\ p = NoPath
  BY Zenon, <1>1, <1>2, <1>4 DEF Service!Finish
<1> QED
  BY <1>3, <1>4


LEMMA MapsToStep ==
    ASSUME CallsOK, DialogsOK, IdsOK, GlobalsOK, TimerOK, FutureIsBlank, WindowIsOfBlocked,
           PathsAreNumbered, [Next]_vars
    PROVE  [Service!Next]_(Service!vars)
<1>1. CASE Quiet
  <2>1. /\ UNCHANGED <<calls, window>>
        /\ phase' = phase \/ (phase = "owning" /\ phase' = "serving")
    BY <1>1 DEF Quiet
  <2>2. Seen' = Seen
    BY <2>1 DEF Seen
  <2>3. Objects' = Objects
    <3>1. \A d \in Calls : dialogs'[d].iface = dialogs[d].iface /\ dialogs'[d].at = dialogs[d].at
      BY <1>1, DisconnectState DEF Quiet
    <3> QED
      BY <3>1, ObjectsKept
  <2>4. CASE phase' = phase
    BY Zenon, <2>1, <2>2, <2>3, <2>4 DEF Service!vars, Seen, Objects
  <2> QED
    BY <2>1, <2>2, <2>3, <2>4, MappedStart
<1>2. CASE Serves
  <2>1. PICK c \in Calls, m \in Methods, status \in Status :
          /\ c = ncalls + 1 /\ UNCHANGED <<phase, dialogs>>
          /\ m = calls'[c].method /\ status = calls'[c].status /\ calls'[c].reply = NoPath
          /\ \A d \in Calls : d # c => calls'[d] = calls[d]
          /\ IF phase = "owning" THEN status = "refused"
             ELSE phase = "serving" /\ status \in {"answered", "dropped", "blocked"}
          /\ status = "answered" => m \notin Creators
          /\ status = "dropped" => m \in NPDMethods
          /\ IF status = "blocked"
             THEN window = 0 /\ window' = c /\ BlockedMethod(calls'[c])
             ELSE window' = window
    BY <1>2, ServesFacts DEF Outcome, Status
  <2>2. calls[c] = Unsent
    BY <2>1 DEF FutureIsBlank, GlobalsOK, Calls
  <2>3. Seen' = [Seen EXCEPT ![c] = Service!Outcome(m, status, NoPath)]
    BY <2>1, SeenChanged
  <2>4. Objects' = Objects
    BY <2>1, ObjectsKept
  <2>5. Service!IsNew(c) /\ Service!Becomes(c, Service!Outcome(m, status, NoPath))
    BY <2>1, <2>2, <2>3 DEF Service!IsNew, Service!Becomes, Service!Unsent, Unsent, Seen
  <2>6. CASE status = "refused"
    <3>1. Service!Refuse(c, m)
      BY <2>1, <2>4, <2>5, <2>6 DEF Service!Refuse, Objects
    <3> QED
      BY Zenon, <2>1, <3>1 DEF Service!Next
  <2>7. CASE status = "answered" \/ status = "dropped"
    <3>1. m \notin Creators
      BY <2>1, <2>7 DEF NPDMethods, Creators
    <3>2. Service!Finish(c, m)
      BY <2>1, <2>3, <2>4, <2>7, <3>1, MappedFinish
    <3>3. phase = "serving" /\ window' = window
      BY <2>1, <2>7
    <3>4. Service!Serve(c, m)
      BY <2>1, <2>5, <3>2, <3>3 DEF Service!Serve
    <3> QED
      BY Zenon, <2>1, <3>4 DEF Service!Next
  <2>8. CASE status = "blocked"
    <3>1. m \in NPDMethods \cup {"PrinterPropertiesDialog", "PrintTestPage"}
      BY <2>1, <2>8 DEF BlockedMethod
    <3>2. Service!Show(c, m)
      BY <2>1, <2>4, <2>5, <2>8, <3>1 DEF Service!Show, Objects
    <3> QED
      BY Zenon, <2>1, <3>2 DEF Service!Next
  <2> QED
    BY <2>1, <2>6, <2>7, <2>8
<1>3. CASE Creates
  <2>1. PICK m \in Creators, c \in Calls, p \in Paths :
          /\ c = ncalls + 1
          /\ phase = "serving" /\ phase' = phase /\ window' = window
          /\ calls'[c].method = m /\ calls'[c].status = "answered"
          /\ calls'[c].reply = p
          /\ dialogs'[c].iface = m /\ dialogs'[c].at = Export(m, p)
          /\ \A d \in Calls : d # c => dialogs'[d] = dialogs[d] /\ calls'[d] = calls[d]
    BY Zenon, <1>3, CreatesFacts
  <2>2. calls[c] = Unsent /\ dialogs[c] = NoDialog /\ m \in Methods
    BY <2>1 DEF FutureIsBlank, GlobalsOK, Calls, Methods
  <2>3. Seen' = [Seen EXCEPT ![c] = Service!Outcome(m, "answered", p)]
    BY <2>1, SeenChanged
  <2>4. Objects' = Objects \cup {<<m, p>>}
    BY <2>1, <2>2, ObjectsGrow
  <2>5. Service!Finish(c, m)
    BY <2>1, <2>2, <2>3, <2>4, MappedFinish
  <2>6. Service!IsNew(c)
    BY <2>1, <2>2 DEF Service!IsNew, Service!Unsent, Unsent, Seen
  <2>7. Service!Serve(c, m)
    BY <2>1, <2>5, <2>6 DEF Service!Serve
  <2> QED
    BY Zenon, <2>1, <2>2, <2>7 DEF Service!Next
<1>4. CASE PrinterNotFound
  <2> DEFINE m == "PrinterPropertiesDialog"
  <2>1. PICK c \in Calls :
          /\ c = ncalls + 1 /\ phase = "serving" /\ phase' = phase
          /\ window = 0 /\ window' = c
          /\ calls'[c].method = m /\ calls'[c].status = "blocked" /\ calls'[c].reply = NoPath
          /\ \A d \in Calls : d # c => calls'[d] = calls[d]
          /\ dialogs' = dialogs
    BY <1>4, NotFoundFacts DEF BlockedMethod
  <2>2. calls[c] = Unsent /\ m \in Methods
    BY <2>1 DEF FutureIsBlank, GlobalsOK, Calls, Methods, Creators
  <2>3. Seen' = [Seen EXCEPT ![c] = Service!Outcome(m, "blocked", NoPath)]
    BY <2>1, SeenChanged
  <2>4. Objects' = Objects
    BY <2>1, ObjectsKept
  <2>5. Service!IsNew(c) /\ Service!Becomes(c, Service!Outcome(m, "blocked", NoPath))
    BY <2>1, <2>2, <2>3 DEF Service!IsNew, Service!Becomes, Service!Unsent, Unsent, Seen
  <2>6. Service!Show(c, m)
    BY <2>1, <2>4, <2>5 DEF Service!Show, Objects
  <2> QED
    BY Zenon, <2>1, <2>2, <2>6 DEF Service!Next
<1>5. CASE CloseErrorWindow \/ CloseDialogWindow
  <2>1. PICK w \in Calls :
          /\ w = window /\ window # 0 /\ window' = 0 /\ phase' = phase
          /\ \A d \in Calls : d # w => dialogs'[d] = dialogs[d] /\ calls'[d] = calls[d]
          /\ calls'[w].method = calls[w].method
          /\ IF calls[w].method = "PrinterPropertiesDialog"
             THEN /\ calls'[w].status = "answered" /\ calls'[w].reply = path
                  /\ dialogs'[w].iface = "PrinterPropertiesDialog"
                  /\ dialogs'[w].at = Export("PrinterPropertiesDialog", path)
             ELSE /\ calls'[w].status \in {"answered", "dropped"}
                  /\ calls'[w].status = "dropped" => calls[w].method \in NPDMethods
                  /\ calls'[w].reply = NoPath /\ dialogs' = dialogs
    BY <1>5, CloseFacts DEF Calls
  <2>2. /\ calls[w].method \in NPDMethods \cup {"PrinterPropertiesDialog", "PrintTestPage"}
        /\ calls[w].method = "PrinterPropertiesDialog" =>
              dialogs[w] = NoDialog /\ path \in Paths
    BY <2>1 DEF WindowIsOfBlocked, BlockedMethod
  <2>3. PICK m \in Methods, status \in Status, p \in Paths \cup {NoPath} :
          /\ m = calls[w].method /\ status = calls'[w].status /\ p = calls'[w].reply
          /\ m \in Creators <=> m = "PrinterPropertiesDialog"
    BY <2>1, <2>2 DEF Methods, Creators, NPDMethods, Status
  <2>4. Seen' = [Seen EXCEPT ![w] = Service!Outcome(m, status, p)]
    BY <2>1, <2>3, SeenChanged
  <2>5. Seen[w].method = m
    BY <2>1, <2>3 DEF Seen
  <2>6. IF m \in Creators
        THEN status = "answered" /\ p \in Paths /\ Objects' = Objects \cup {<<m, p>>}
        ELSE /\ p = NoPath /\ Objects' = Objects
             /\ \/ status = "answered"
                \/ status = "dropped" /\ m \in NPDMethods
    <3>1. CASE m = "PrinterPropertiesDialog"
      BY <2>1, <2>2, <2>3, <3>1, ObjectsGrow
    <3>2. CASE m # "PrinterPropertiesDialog"
      BY <2>1, <2>3, <3>2, ObjectsKept
    <3> QED
      BY <3>1, <3>2
  <2>7. Service!Finish(w, m)
    BY <2>1, <2>3, <2>4, <2>6, MappedFinish
  <2>8. Service!Close
    BY <2>1, <2>5, <2>7 DEF Service!Close, Service!Finish, Service!Create, Service!Becomes, Seen
  <2> QED
    BY <2>8 DEF Service!Next
<1>6. ASSUME NEW call \in CallType, call.method \in Methods, call.reply = NoPath,
             ProcessEnds(call)
      PROVE  Service!Next
  <2> DEFINE m == call.method
  <2>0. PICK c \in Calls : c = ncalls + 1
    BY <1>6, NextCall DEF ProcessEnds, Arrives
  <2>1. /\ Arrives /\ phase' = "ended" /\ window' = 0 /\ dialogs' = dialogs
        /\ calls' = [d \in Calls |->
                       CASE d = ncalls + 1 -> Lost(call)
                         [] calls[d].status = "blocked" -> Lost(calls[d])
                         [] OTHER -> calls[d]]
    BY Zenon, <1>6 DEF ProcessEnds, dialogVars
  <2>2. phase = "serving" /\ calls[c] = Unsent
    BY <2>0, <2>1 DEF Arrives, FutureIsBlank, GlobalsOK, Calls
  <2>3. Objects' = Objects
    BY <2>1, ObjectsKept
  <2>4. Seen' = [d \in Calls |->
                   CASE d = c -> Service!Outcome(m, "lost", NoPath)
                     [] d # c /\ d = window -> [Seen[d] EXCEPT !.status = "lost"]
                     [] OTHER -> Seen[d]]
    <3>1. ASSUME NEW d \in Calls
          PROVE  Seen'[d] = CASE d = c -> Service!Outcome(m, "lost", NoPath)
                              [] d # c /\ d = window -> [Seen[d] EXCEPT !.status = "lost"]
                              [] OTHER -> Seen[d]
      <4>1. Lost(call).method = m /\ Lost(call).reply = NoPath /\ Lost(call).status = "lost"
        BY <1>6 DEF CallType, Lost
      <4>2. LET old == calls[d] IN
            /\ Lost(old).method = old.method /\ Lost(old).reply = old.reply
            /\ Lost(old).status = "lost"
        BY DEF CallType, Lost, CallsOK
      <4>3. calls[d].status = "blocked" <=> d = window
        BY DEF WindowIsOfBlocked
      <4>4. Seen'[d] = [method |-> calls'[d].method, status |-> calls'[d].status,
                        reply |-> calls'[d].reply]
        BY DEF Seen
      <4>5. [Seen[d] EXCEPT !.status = "lost"]
               = [method |-> calls[d].method, status |-> "lost", reply |-> calls[d].reply]
        BY DEF Seen
      <4>6. CASE d = c
        <5>1. d = ncalls + 1 /\ calls[d].status # "blocked"
          BY <2>0, <2>2, <4>6 DEF Unsent
        <5>2. calls'[d] = Lost(call)
          BY <2>1, <5>1
        <5> QED
          BY <4>1, <4>4, <4>6, <5>2 DEF Service!Outcome
      <4>7. CASE d # c /\ d = window
        BY <2>0, <2>1, <4>2, <4>3, <4>4, <4>5, <4>7
      <4>8. CASE d # c /\ d # window
        BY <2>0, <2>1, <4>3, <4>4, <4>8 DEF Seen
      <4> QED
        BY <4>6, <4>7, <4>8
    <3> QED
      BY <3>1 DEF Seen
  <2>5. Service!IsNew(c)
    BY <2>2 DEF Service!IsNew, Service!Unsent, Unsent, Seen
  <2>6. Service!End(c, m)
    <3> HIDE DEF m
    <3> QED
      BY <2>1, <2>2, <2>3, <2>4, <2>5 DEF Service!End, Seen, Objects
  <2> QED
    BY Zenon, <1>6, <2>2, <2>6 DEF Service!Next
<1> QED
  BY Zenon, <1>1, <1>2, <1>3, <1>4, <1>5, <1>6, StepKinds


\* The service implements PrintingService, apart from the fairness: the initial states
\* map to initial states, and each step of a handler maps to what PrintingService allows
\* of one call, or to a stutter (the timer, the dialogs' signals, the globals).
THEOREM ServiceImplemented == Spec => Service!Init /\ [][Service!Next]_(Service!vars)
<1>1. IInv /\ [Next]_vars => [Service!Next]_(Service!vars)
  BY MapsToStep, TypeParts DEF IInv
<1> QED
  BY <1>1, MapsToInit, IInvAlways, PTL DEF Spec

=============================================================================
