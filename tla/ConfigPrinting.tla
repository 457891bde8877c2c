--------------------------- MODULE ConfigPrinting ---------------------------
(***************************************************************************)
(* The D-Bus service as its clients see it: the main object of             *)
(* ConfigPrinting.c, the dialog objects it creates                         *)
(* (ConfigPrintingNewPrinterDialog.c, PPDialog.c, JobApplet.c), and the    *)
(* windows they show (newprinter.c), on top of the kill timer.             *)
(*                                                                         *)
(* Handlers run one at a time in the GLib main loop, but a handler that    *)
(* shows a window calls g_application_run, a nested main loop, in which    *)
(* other calls are handled while the first handler waits for the window to *)
(* be closed.  All applications have the same id, so that a second one     *)
(* cannot register while the first has its window open: its                *)
(* g_application_run returns at once, and no window is shown.              *)
(*                                                                         *)
(* Calls are numbered in the order of their dispatch; a dialog is known by *)
(* the number of the call that created it.                                 *)
(*                                                                         *)
(* Several handlers may end the process: then the bus daemon answers the   *)
(* calls that are open with an error.  Nothing starts the service again.   *)
(***************************************************************************)
EXTENDS KillTimerOps, FiniteSets

CONSTANTS
    MaxCalls,   \* bound on the number of D-Bus calls
    FlagValues  \* what a New Printer dialog may read through its dbus_flag

ASSUME MaxCallsAssumption == MaxCalls \in Nat \ {0}
ASSUME FlagValuesAssumption == FlagValues \subseteq BOOLEAN

Calls == 1 .. MaxCalls

\* The methods of the main object that create a dialog; a dialog's D-Bus
\* interface has the name of the method that creates it.  GDBus refuses calls
\* of methods that the tables of an interface do not have.
Creators == {"NewPrinterDialog", "PrinterPropertiesDialog", "JobApplet"}

NPDMethods == {"NewPrinterFromDevice", "DownloadDriverForDeviceID", "ChangePPD"}
Requests == {"GetBestDrivers", "MissingExecutables", "GroupPhysicalDevices"}
Methods == Creators \cup Requests \cup NPDMethods \cup {"PrintTestPage", "Quit"}

SignalsOf(iface) ==
    IF iface = "NewPrinterDialog"
    THEN {"dialog-canceled", "printer-added", "printer-modified",
          "driver-download-checked"}
    ELSE {"finished"}
Signals == UNION {SignalsOf(i) : i \in Creators}

\* /org/fedoraproject/Config/Printing/<iface>/<n>
NoPath == [iface |-> "none", n |-> 0]
Paths == [iface : Creators, n : Calls]

NoDialog == [iface |-> "none", at |-> NoPath, handlers |-> {}]
Dialogs == [iface : Creators, at : Paths \cup {NoPath},
            handlers : SUBSET Signals]

\* What becomes of a call: refused (no object exported yet), blocked in a
\* window, answered, dropped by a handler that returns without completing, or
\* lost with the process.
Status == {"unsent", "refused", "blocked", "answered", "dropped", "lost"}
Unsent == [method |-> "none", dialog |-> 0, own |-> NoPath,
           status |-> "unsent", reply |-> NoPath,
           completes |-> TRUE, presented |-> FALSE]

VARIABLES
    phase,            \* "owning" the name, "serving" with the object exported, "ended"
    kt,               \* the kill timer
    pathn,            \* CP_data->pathn
    path,             \* the global buffer of ConfigPrinting.c
    dialogs,          \* the dialog objects, by creating call
    NPDSignal_id,     \* the global list of handler ids: <<dialog, signal>>
    ppd_finished_id,  \* the same in PPDialog.c
    finished_id,      \* the same in JobApplet.c
    g_ppds,           \* GetBestDrivers has asked for the PPDs
    window,           \* the call whose handler is blocked in a window, 0 if none
    calls,            \* the calls made so far
    ncalls,           \* their number
    inuse,            \* history: calls that took a hold for a dialog, which has
                      \* not emitted a signal for it
    overlapped        \* history: calls blocked while another one set `path`

dialogVars == <<dialogs, NPDSignal_id, ppd_finished_id, finished_id>>
vars == <<phase, kt, pathn, path, dialogVars, g_ppds, window, calls, ncalls,
          inuse, overlapped>>

Init ==
    /\ phase = "owning"
    /\ kt = Unstarted
    /\ pathn = 0
    /\ path = NoPath
    /\ dialogs = [c \in Calls |-> NoDialog]
    /\ NPDSignal_id = {}
    /\ ppd_finished_id = {}
    /\ finished_id = {}
    /\ g_ppds = FALSE
    /\ window = 0
    /\ calls = [c \in Calls |-> Unsent]
    /\ ncalls = 0
    /\ inuse = {}
    /\ overlapped = {}

-----------------------------------------------------------------------------
(* Start-up. *)

\* GDBus answers for itself while no object is exported under the name.
EarlyCall ==
    /\ phase = "owning"
    /\ ncalls < MaxCalls
    /\ ncalls' = ncalls + 1
    /\ \E m \in Creators :
          calls' = [calls EXCEPT ![ncalls + 1] =
                       [Unsent EXCEPT !.method = m, !.status = "refused"]]
    /\ UNCHANGED <<phase, kt, pathn, path, dialogVars, g_ppds, window, inuse, overlapped>>

name_acquired_handler ==
    /\ phase = "owning"
    /\ phase' = "serving"
    /\ kt' = Started
    /\ pathn' = 0
    /\ UNCHANGED <<path, dialogVars, g_ppds, window, calls, ncalls, inuse, overlapped>>

-----------------------------------------------------------------------------
(* Creating dialogs. *)

\* A call is dispatched, in the main loop or in the nested one, and its
\* handler leaves the process alive.
Arrives ==
    /\ phase = "serving"
    /\ ncalls < MaxCalls
    /\ ncalls' = ncalls + 1
Dispatch == Arrives /\ UNCHANGED phase

\* snprintf(path, ...) with the next number.
\* A mistake: pathn is incremented after the path is made.
NextPath_too_late(iface) == [iface |-> iface, n |-> pathn]
NextPath(iface) == [iface |-> iface, n |-> pathn + 1]

\* A mistake: pathn is not incremented.
SetPath_reused(iface) ==
    /\ path' = NextPath(iface)
    /\ overlapped' = IF window = 0 THEN overlapped ELSE overlapped \cup {window}
    /\ UNCHANGED pathn

SetPath(iface) ==
    /\ pathn' = pathn + 1
    /\ path' = NextPath(iface)
    /\ overlapped' = IF window = 0 THEN overlapped ELSE overlapped \cup {window}

\* g_dbus_interface_skeleton_export fails, and nobody looks, when the path
\* already has an object with this interface.
Export(iface, p) ==
    IF \E d \in Calls : dialogs[d].iface = iface /\ dialogs[d].at = p
    THEN NoPath ELSE p

\* The new object c: its signal handlers connected, exported at p.
NewDialog(c, iface, p) ==
    dialogs' = [dialogs EXCEPT ![c] =
        [iface |-> iface, at |-> Export(iface, p), handlers |-> SignalsOf(iface)]]

\* The ids g_signal_connect returned for the handlers of dialog c.
HandlerIds(c, iface) == {c} \X SignalsOf(iface)

Creation(iface, own) == [Unsent EXCEPT !.method = iface, !.own = own]
Answered(call, p) == [call EXCEPT !.status = "answered", !.reply = p]

NewPrinterDialog ==
    LET c == ncalls + 1
        p == NextPath("NewPrinterDialog")
    IN  /\ Dispatch
        /\ SetPath("NewPrinterDialog")
        /\ NewDialog(c, "NewPrinterDialog", p)
        /\ NPDSignal_id' = HandlerIds(c, "NewPrinterDialog")
        /\ kt' = alive(kt)
        /\ calls' = [calls EXCEPT ![c] = Answered(Creation("NewPrinterDialog", p), p)]
        /\ UNCHANGED <<ppd_finished_id, finished_id, g_ppds, window, inuse>>

\* Two mistakes: the reply has another path than the export; no hold is taken.
FinishPPD_own_path(c, call, p) ==
    /\ NewDialog(c, "PrinterPropertiesDialog", p)
    /\ ppd_finished_id' = HandlerIds(c, "PrinterPropertiesDialog")
    /\ kt' = alive(add_hold(kt))
    /\ inuse' = inuse \cup {c}
    /\ calls' = [calls EXCEPT ![c] = Answered(call, call.own)]
    /\ UNCHANGED <<NPDSignal_id, finished_id>>
FinishPPD_unheld(c, call, p) ==
    /\ NewDialog(c, "PrinterPropertiesDialog", p)
    /\ ppd_finished_id' = HandlerIds(c, "PrinterPropertiesDialog")
    /\ kt' = alive(kt)
    /\ inuse' = inuse \cup {c}
    /\ calls' = [calls EXCEPT ![c] = Answered(call, p)]
    /\ UNCHANGED <<NPDSignal_id, finished_id>>

\* The part of CPPrinterPropertiesDialog after the error window, and of its
\* caller after that: whatever the buffer holds by then is the path.
FinishPPD(c, call, p) ==
    /\ NewDialog(c, "PrinterPropertiesDialog", p)
    /\ ppd_finished_id' = HandlerIds(c, "PrinterPropertiesDialog")
    /\ kt' = alive(add_hold(kt))
    /\ inuse' = inuse \cup {c}
    /\ calls' = [calls EXCEPT ![c] = Answered(call, p)]
    /\ UNCHANGED <<NPDSignal_id, finished_id>>

\* The printer is known to CUPS, or the error window cannot be shown.
PrinterPropertiesDialog(known) ==
    LET c == ncalls + 1
        p == NextPath("PrinterPropertiesDialog")
    IN  /\ known \/ window # 0
        /\ Dispatch
        /\ SetPath("PrinterPropertiesDialog")
        /\ FinishPPD(c, Creation("PrinterPropertiesDialog", p), p)
        /\ UNCHANGED <<g_ppds, window>>

\* The printer is unknown: activate_error() blocks before the dialog exists.
PrinterNotFound ==
    LET c == ncalls + 1
        p == NextPath("PrinterPropertiesDialog")
    IN  /\ window = 0
        /\ Dispatch
        /\ SetPath("PrinterPropertiesDialog")
        /\ window' = c
        /\ calls' = [calls EXCEPT ![c] =
              [Creation("PrinterPropertiesDialog", p) EXCEPT !.status = "blocked"]]
        /\ UNCHANGED <<kt, dialogVars, g_ppds, inuse>>

JobApplet ==
    LET c == ncalls + 1
        p == NextPath("JobApplet")
    IN  /\ Dispatch
        /\ SetPath("JobApplet")
        /\ NewDialog(c, "JobApplet", p)
        /\ finished_id' = HandlerIds(c, "JobApplet")
        /\ kt' = alive(add_hold(kt))
        /\ inuse' = inuse \cup {c}
        /\ calls' = [calls EXCEPT ![c] = Answered(Creation("JobApplet", p), p)]
        /\ UNCHANGED <<NPDSignal_id, ppd_finished_id, g_ppds, window>>

-----------------------------------------------------------------------------
(* The other methods of the main object. *)

\* GBDRequest and its reply (module DeviceRequests).  The first request takes a
\* hold, finds drivers and removes the hold; later ones take a hold and keep it.
GetBestDrivers ==
    /\ Dispatch
    /\ g_ppds' = TRUE
    /\ kt' = IF g_ppds THEN add_hold(kt) ELSE remove_hold(add_hold(kt))
    /\ calls' = [calls EXCEPT ![ncalls + 1] =
                    [Unsent EXCEPT !.method = "GetBestDrivers", !.status = "answered"]]
    /\ UNCHANGED <<pathn, path, dialogVars, window, inuse, overlapped>>

\* The PPD can be read (module MissingExecutables).
MissingExecutables ==
    /\ Dispatch
    /\ calls' = [calls EXCEPT ![ncalls + 1] =
                    [Unsent EXCEPT !.method = "MissingExecutables", !.status = "answered"]]
    /\ UNCHANGED <<kt, pathn, path, dialogVars, g_ppds, window, inuse, overlapped>>

\* The handlers in which the process may end: no driver is found and the reply
\* is NULL, which GVariant aborts on; the PPD cannot be opened (exit(-1)); the
\* devices, a GVariant, are read as a GHashTable, and the reply is NULL;
\* getURI() follows a pointer that nothing has set.
Mortal == Requests \cup {"PrinterPropertiesDialog"}

Lost(call) == [call EXCEPT !.status = "lost"]

\* What the process had in memory means nothing any more.
ProcessEnds(call) ==
    /\ Arrives
    /\ phase' = "ended"
    /\ calls' = [c \in Calls |->
                    CASE c = ncalls + 1 -> Lost(call)
                      [] calls[c].status = "blocked" -> Lost(calls[c])
                      [] OTHER -> calls[c]]
    /\ window' = 0
    /\ UNCHANGED <<kt, pathn, path, dialogVars, g_ppds, inuse, overlapped>>

EndsInMethod(m) == ProcessEnds([Unsent EXCEPT !.method = m])

-----------------------------------------------------------------------------
(* Methods of the dialogs. *)

OnDialog(m, d) == [Unsent EXCEPT !.method = m, !.dialog = d]
Shown(call) == [call EXCEPT !.status = "blocked", !.presented = TRUE]
Completed(call) ==
    [call EXCEPT !.status = IF call.completes THEN "answered" ELSE "dropped"]

\* Dialog d is reachable: some path leads to it.
Reachable(d, iface) == dialogs[d].iface = iface /\ dialogs[d].at # NoPath

\* A mistake: a second window is shown on top of the first.
ShowWindow_on_top(call) ==
    LET c == ncalls + 1 IN window' = c /\ calls' = [calls EXCEPT ![c] = Shown(call)]

\* The handler of `call` shows a window, and blocks until it is closed, or
\* comes back at once because another window is open.
ShowWindow(call) ==
    LET c == ncalls + 1
    IN  IF window = 0
        THEN window' = c /\ calls' = [calls EXCEPT ![c] = Shown(call)]
        ELSE calls' = [calls EXCEPT ![c] = Completed(call)] /\ UNCHANGED window

\* CPNewPrinterDialog registers the address of its local variable dbus_flag.
\* When a handler reads it that frame is gone, and the value is whatever is
\* there: a handler that reads 0 never completes the call.
UseDialog(m, d, flag) ==
    /\ Reachable(d, "NewPrinterDialog")
    /\ Dispatch
    /\ flag \in FlagValues
    /\ kt' = add_hold(kt)
    /\ inuse' = inuse \cup {ncalls + 1}
    /\ UNCHANGED <<pathn, path, dialogVars, g_ppds, overlapped>>

NewPrinterFromDevice(d, flag) ==
    /\ UseDialog("NewPrinterFromDevice", d, flag)
    /\ ShowWindow([OnDialog("NewPrinterFromDevice", d) EXCEPT !.completes = flag])

DownloadDriverForDeviceID(d, flag) ==
    /\ UseDialog("DownloadDriverForDeviceID", d, flag)
    /\ ShowWindow([OnDialog("DownloadDriverForDeviceID", d) EXCEPT !.completes = flag])

\* fetch_ppd calls change_ppd_got_ppd, which shows the window, or does not
\* (module PPDCache says when).  Which PPD the window is about is in PPDCache.
ChangePPD(d, flag, fetched) ==
    LET call == [OnDialog("ChangePPD", d) EXCEPT !.completes = flag]
    IN  /\ UseDialog("ChangePPD", d, flag)
        /\ IF fetched
           THEN ShowWindow(call)
           ELSE /\ calls' = [calls EXCEPT ![ncalls + 1] = Completed(call)]
                /\ UNCHANGED window

\* change_ppd_got_ppd calls getURI() before it shows the window.
ChangePPDEnds(d) ==
    /\ Reachable(d, "NewPrinterDialog")
    /\ ProcessEnds(OnDialog("ChangePPD", d))

\* A call of a method of a printer properties dialog, and of a job applet.
PPDialogCall(d) == Reachable(d, "PrinterPropertiesDialog") /\ Dispatch
JobAppletCall(d) == Reachable(d, "JobApplet") /\ Dispatch

\* data->dbus_flag is TRUE for every dialog created over D-Bus.
PrintTestPage(d) ==
    /\ PPDialogCall(d)
    /\ ShowWindow(OnDialog("PrintTestPage", d))
    /\ UNCHANGED <<kt, pathn, path, dialogVars, g_ppds, inuse, overlapped>>

Quit(d) ==
    /\ JobAppletCall(d)
    /\ calls' = [calls EXCEPT ![ncalls + 1] = Completed(OnDialog("Quit", d))]
    /\ UNCHANGED <<kt, pathn, path, dialogVars, g_ppds, window, inuse, overlapped>>

-----------------------------------------------------------------------------
(* The user closes the window: its handler goes on. *)

CloseErrorWindow ==
    /\ window # 0
    /\ calls[window].method = "PrinterPropertiesDialog"
    /\ FinishPPD(window, calls[window], path)
    /\ window' = 0
    /\ UNCHANGED <<phase, pathn, path, g_ppds, ncalls, overlapped>>

\* A mistake: a handler comes back only if no call was handled above it.
CloseDialogWindow_undisturbed ==
    /\ window = ncalls
    /\ window # 0
    /\ calls[window].method # "PrinterPropertiesDialog"
    /\ calls' = [calls EXCEPT ![window] = Completed(@)]
    /\ window' = 0
    /\ UNCHANGED <<phase, kt, pathn, path, dialogVars, g_ppds, ncalls, inuse, overlapped>>
CloseDialogWindow ==
    /\ window # 0
    /\ calls[window].method # "PrinterPropertiesDialog"
    /\ calls' = [calls EXCEPT ![window] = Completed(@)]
    /\ window' = 0
    /\ UNCHANGED <<phase, kt, pathn, path, dialogVars, g_ppds, ncalls, inuse, overlapped>>

CloseWindow == CloseErrorWindow \/ CloseDialogWindow

-----------------------------------------------------------------------------
(* The dialogs' signals.  Nothing in the service emits them: that is left to *)
(* a program that uses the library, once for each time it used a dialog.     *)

\* g_signal_handler_disconnect of each id; a warning for ids of other dialogs.
Disconnect(d, ids) ==
    dialogs' = [dialogs EXCEPT ![d].handlers = {s \in @ : <<d, s>> \notin ids}]

\* The dialog that call c took a hold for: the one it created or was made to.
Used(c) == IF calls[c].dialog = 0 THEN c ELSE calls[c].dialog

Emit(d, iface) ==
    /\ phase # "ended"
    /\ dialogs[d].iface = iface
    /\ \E c \in inuse : Used(c) = d /\ inuse' = inuse \ {c}
    /\ UNCHANGED <<phase, pathn, path, NPDSignal_id, ppd_finished_id, finished_id,
                   g_ppds, window, calls, ncalls, overlapped>>

\* on_dialog_canceled, on_printer_added, on_printer_modified and
\* on_driver_download_checked: remove_hold(), then remove_handles().
EmitNewPrinterDialog(d, s) ==
    /\ Emit(d, "NewPrinterDialog")
    /\ IF s \in dialogs[d].handlers
       THEN kt' = remove_hold(kt) /\ Disconnect(d, NPDSignal_id)
       ELSE UNCHANGED <<kt, dialogs>>

on_dialog_closed(d) ==
    /\ Emit(d, "PrinterPropertiesDialog")
    /\ IF dialogs[d].handlers # {}
       THEN kt' = remove_hold(kt) /\ Disconnect(d, ppd_finished_id)
       ELSE UNCHANGED <<kt, dialogs>>

on_dialog_closed_applet(d) ==
    /\ Emit(d, "JobApplet")
    /\ IF dialogs[d].handlers # {}
       THEN kt' = remove_hold(kt) /\ Disconnect(d, finished_id)
       ELSE UNCHANGED <<kt, dialogs>>

-----------------------------------------------------------------------------

Next ==
    \/ EarlyCall
    \/ name_acquired_handler
    \/ NewPrinterDialog
    \/ \E known \in BOOLEAN : PrinterPropertiesDialog(known)
    \/ PrinterNotFound
    \/ JobApplet
    \/ GetBestDrivers
    \/ MissingExecutables
    \/ \E m \in Mortal : EndsInMethod(m)
    \/ \E d \in Calls, flag \in BOOLEAN :
          \/ NewPrinterFromDevice(d, flag)
          \/ DownloadDriverForDeviceID(d, flag)
          \/ \E fetched \in BOOLEAN : ChangePPD(d, flag, fetched)
    \/ \E d \in Calls : PrintTestPage(d) \/ Quit(d) \/ ChangePPDEnds(d)
    \/ CloseErrorWindow
    \/ CloseDialogWindow
    \/ \E d \in Calls :
          \/ \E s \in SignalsOf("NewPrinterDialog") : EmitNewPrinterDialog(d, s)
          \/ on_dialog_closed(d)
          \/ on_dialog_closed_applet(d)

Spec == Init /\ [][Next]_vars

\* The start-up handler is run, and the user closes the windows.
FairSpec == Spec /\ WF_vars(name_acquired_handler) /\ WF_vars(CloseWindow)

-----------------------------------------------------------------------------
(* Properties. *)

CallType == [method : Methods \cup {"none"}, dialog : Calls \cup {0},
             own : Paths \cup {NoPath}, status : Status,
             reply : Paths \cup {NoPath},
             completes : BOOLEAN, presented : BOOLEAN]

\* The types of the globals, of the dialogs and of the calls' history.
TypeOK ==
    /\ phase \in {"owning", "serving", "ended"}
    /\ kt \in TimerState
    /\ pathn \in 0 .. MaxCalls
    /\ path \in Paths \cup {NoPath}
    /\ dialogs \in [Calls -> Dialogs \cup {NoDialog}]
    /\ NPDSignal_id \subseteq Calls \X Signals
    /\ ppd_finished_id \subseteq Calls \X Signals
    /\ finished_id \subseteq Calls \X Signals
    /\ g_ppds \in BOOLEAN
    /\ window \in Calls \cup {0}
    /\ calls \in [Calls -> CallType]
    /\ ncalls \in 0 .. MaxCalls
    /\ inuse \subseteq Calls
    /\ overlapped \subseteq Calls

\* The timer is held at least once for each time a dialog is in use, whatever
\* other dialogs do with the global lists of handler ids: no dialog's signal
\* removes the hold of another, and the idle timeout is not attached while a
\* dialog is in use (add_hold and remove_hold in the dialogs' handlers).
UseIsHeld ==
    /\ kt.holds >= Cardinality(inuse)
    /\ inuse # {} => Attached(kt) = {}

\* The path a method of the main object returns has an object supporting the
\* dialog's interface, as interface/org.fedoraproject.Config.Printing.xml:30,
\* 69 and 90 promise, even when the buffer `path` was overwritten while the
\* handler was blocked and the export failed.
PathSupportsInterface ==
    \A c \in Calls :
        calls[c].status = "answered" /\ calls[c].method \in Creators =>
            \E d \in Calls : /\ dialogs[d].iface = calls[c].method
                             /\ dialogs[d].at = calls[c].reply

\* Unless another call set `path` while it was blocked, a call is answered
\* with the path made for it, and its own dialog is exported there
\* (ConfigPrinting.c:176 to 179, 190 to 196, 205 to 208).
UndisturbedCallGetsItsDialog ==
    \A c \in Calls \ overlapped :
        calls[c].status = "answered" /\ calls[c].method \in Creators =>
            calls[c].reply = calls[c].own /\ dialogs[c].at = calls[c].own

\* "Path of D-Bus object representing dialog" (the interface's XML:68): the
\* returned path leads to the dialog that the call created.
PathNamesOwnDialog ==
    \A c \in Calls :
        calls[c].status = "answered" /\ calls[c].method \in Creators =>
            dialogs[c].at = calls[c].reply

\* What clients see of the service.
Service == INSTANCE PrintingService WITH
    Droppable <- NPDMethods,
    Showing   <- NPDMethods \cup {"PrinterPropertiesDialog", "PrintTestPage"},
    life      <- IF phase = "owning" THEN "starting" ELSE phase,
    seen      <- [c \in Calls |-> [method |-> calls[c].method, status |-> calls[c].status,
                                  reply |-> calls[c].reply]],
    objects   <- {<<dialogs[d].iface, dialogs[d].at>> :
                     d \in {e \in Calls : dialogs[e].at # NoPath}},
    shown     <- window

\* Through all re-entrancy, clients see what PrintingService allows: no call has
\* a second outcome, none that waits is forgotten while the process lives, and a
\* path that is handed out has an object of the right interface.
ImplementsPrintingService == Service!Spec

\* Every call that blocks in a window, also below the windows of later calls, is
\* answered once the user closes windows, if its handler read a flag other than
\* 0, unless a call handled meanwhile ended the process (the completions after
\* init() in ConfigPrintingNewPrinterDialog.c and after activate_error and
\* activate_PPDialog in PPDialog.c).
EveryCallAnswered ==
    \A c \in Calls :
        calls[c].status = "blocked" /\ calls[c].completes
            ~> calls[c].status = "answered" \/ phase = "ended"

=============================================================================
