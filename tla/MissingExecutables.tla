------------------------- MODULE MissingExecutables -------------------------
(***************************************************************************)
(* missingexecutables (MissingExecutables.c) and the D-Bus method that     *)
(* runs it: which executables that a PPD needs are not installed?          *)
(*                                                                         *)
(* A PPD is a record of                                                    *)
(*   cmdline   the pipes of its FoomaticRIPCommandLine, sequences of       *)
(*             commands, or NoCommandLine, or Unsafe when it contains "("  *)
(*             or "&", as an HTML entity does                              *)
(*   filters   the executables of its *cupsFilter lines, Malformed when    *)
(*             the line does not have three parts                          *)
(* A command is its executable and its arguments; an argument of gs that   *)
(* is an executable e stands for -sIjsServer=e.                            *)
(*                                                                         *)
(* The result is a global array, reused by every call; `exe` and `exepath` *)
(* are locals that nothing initialises; `exe`, never NULL when set, is     *)
(* left to the choice in TestCommands.                                     *)
(***************************************************************************)
EXTENDS Integers, FiniteSetsExt, SequencesExt

CONSTANTS
    PPDs,       \* the PPDs that are examined
    Commands,   \* the commands that a stale string may contain
    Executables,
    MaxCalls    \* bound on the number of calls

CONSTANTS NoCommandLine, Unsafe, Malformed, NoPath, Found, Uninitialised

Words == Executables \cup {"option"}
IsCommand(c) == c \in Seq(Words) /\ c # <<>> /\ c[1] \in Executables
IsCommandLine(pp) ==
    /\ pp \in Seq(Seq(Seq(Words))) /\ pp # <<>>
    /\ \A i \in DOMAIN pp : pp[i] # <<>> /\ \A j \in DOMAIN pp[i] : IsCommand(pp[i][j])

ASSUME MaxCallsAssumption == MaxCalls \in Nat \ {0}
ASSUME MarksAssumption ==
    /\ NoCommandLine # Unsafe
    /\ NoPath # Found /\ Uninitialised \notin {NoPath, Found}
    /\ "none" \notin Executables
ASSUME CommandsAssumption == \A c \in Commands : IsCommand(c)
ASSUME PPDsAssumption ==
    /\ PPDs # {}
    /\ \A p \in PPDs :
          /\ p.cmdline \in {NoCommandLine, Unsafe} \/ IsCommandLine(p.cmdline)
          /\ p.filters \in Seq(Executables \cup {Malformed})

VARIABLES
    installed,        \* the executables in /usr/bin and the CUPS filters
    exes_to_install,  \* the array up to the last element ever set
    exes_index,
    ppd,              \* the PPD of the call
    exepath,          \* the local; of a path only whether it is NULL
    pipes,            \* the split command line
    at,               \* the command, <<pipe, command>>, or filter line, <<line>>, to check
    pc,               \* "idle", "commands", "test", "filters", "finish", "done",
                      \* "exited" or "crashed"
    garbage,          \* the call has used a stale string as a command line
    calls             \* the calls made

cVars == <<exes_to_install, exes_index, exepath>>
vars == <<installed, cVars, ppd, pipes, at, pc, garbage, calls>>

\* Where an executable is looked for.
Bin(e) == [dir |-> "bin", exe |-> e]
Filter(e) == [dir |-> "filter", exe |-> e]

\* What a PPD needs, by definition; the files to look for.
CommandsOf(p) ==
    IF p.cmdline \in {NoCommandLine, Unsafe} THEN {} ELSE UNION {ToSet(q) : q \in ToSet(p.cmdline)}
Servers(cmd) == IF cmd[1] = "gs" THEN {a \in ToSet(Tail(cmd)) : a \in Executables} ELSE {}
Required(p) ==
    {Bin(cmd[1]) : cmd \in CommandsOf(p)}
    \cup {Bin(e) : e \in UNION {Servers(cmd) : cmd \in CommandsOf(p)}}
    \cup {Filter(l) : l \in ToSet(p.filters) \ {Malformed}}
Files == UNION {Required(p) : p \in PPDs}

Terminator == [dir |-> "none", exe |-> "none"]

AnyPPD == CHOOSE p \in PPDs : TRUE

Init ==
    /\ installed \in SUBSET Files
    /\ exes_to_install = <<>>
    /\ exes_index = 0
    /\ ppd = AnyPPD
    /\ exepath = Uninitialised
    /\ pipes = <<>>
    /\ at = <<>>
    /\ pc = "idle"
    /\ garbage = FALSE
    /\ calls = 0

-----------------------------------------------------------------------------
(* Between calls. *)

\* The reply is sent and the locals are gone; before the next call a package may
\* be installed or removed.
Return ==
    /\ pc = "done"
    /\ pc' = "idle"
    /\ \E f \in Files : installed' \in {installed, installed \cup {f}, installed \ {f}}
    /\ ppd' = AnyPPD
    /\ exepath' = Uninitialised
    /\ pipes' = <<>>
    /\ at' = <<>>
    /\ garbage' = FALSE
    /\ UNCHANGED <<exes_to_install, exes_index, calls>>

Begin ==
    /\ pc = "idle"
    /\ calls < MaxCalls
    /\ calls' = calls + 1
    /\ UNCHANGED installed

\* fopen or ppdOpenFile fails: exit(-1).
NoSuchPPD ==
    /\ Begin
    /\ exes_index' = 0
    /\ pc' = "exited"
    /\ UNCHANGED <<exes_to_install, exepath, ppd, pipes, at, garbage>>

\* The split of an empty command line has no token, yet the first is read: a
\* stale pointer, at best to a string.
Analyse(p) ==
    /\ Begin
    /\ ppd' = p
    /\ exepath' = Uninitialised
    /\ garbage' = (p.cmdline = Unsafe)
    /\ at' = <<1, 1>>
    /\ CASE p.cmdline = NoCommandLine -> pipes' = <<>> /\ pc' = "test"
         [] p.cmdline = Unsafe ->
              \/ pipes' = <<>> /\ pc' = "crashed"
              \/ pc' = "commands" /\ \E c \in Commands : pipes' = <<<<c>>>>
         [] OTHER -> pipes' = p.cmdline /\ pc' = "commands"
    /\ UNCHANGED exes_to_install

\* A mistake: the array goes on where the last call ended.
missingexecutables_appends(p) == Analyse(p) /\ UNCHANGED exes_index
missingexecutables(p) == Analyse(p) /\ exes_index' = 0

-----------------------------------------------------------------------------
(* The command line. *)

\* exes_to_install[i] = f.
Set(i, f) ==
    exes_to_install' = IF i < Len(exes_to_install)
                       THEN [exes_to_install EXCEPT ![i + 1] = f]
                       ELSE Append(exes_to_install, f)

\* A mistake: the first element is overwritten.
add_missing_overwrites(f) == Set(0, f) /\ exes_index' = exes_index + 1
add_missing(f) == Set(exes_index, f) /\ exes_index' = exes_index + 1

pathcheck(f) == IF f \in installed THEN Found ELSE NoPath

Check(f) ==
    /\ exepath' = pathcheck(f)
    /\ IF pathcheck(f) = NoPath
       THEN add_missing(f)
       ELSE UNCHANGED <<exes_to_install, exes_index>>

\* The IJS server of a gs command.  count_args counts the separators, and the
\* loop stops before the last argument.
IjsServer(cmd) ==
    LET args == SubSeq(cmd, 2, Len(cmd) - 1)
        k == SelectInSeq(args, LAMBDA a : a \in Executables)
    IN  IF cmd[1] = "gs" /\ k # 0 THEN args[k] ELSE "none"

\* The last command checked decides whether the next pipe is looked at.
Advance ==
    LET i == at[1]
        j == at[2]
    IN  CASE j < Len(pipes[i]) -> at' = <<i, j + 1>> /\ pc' = "commands"
          [] j = Len(pipes[i]) /\ i < Len(pipes) /\ exepath' # NoPath ->
                at' = <<i + 1, 1>> /\ pc' = "commands"
          [] OTHER -> pc' = "test" /\ UNCHANGED at

CheckCommand ==
    LET cmd == pipes[at[1]][at[2]]
        server == IjsServer(cmd)
    IN  /\ pc = "commands"
        /\ IF Bin(cmd[1]) \in installed /\ server # "none"
           THEN Check(Bin(server))
           ELSE Check(Bin(cmd[1]))
        /\ Advance
        /\ UNCHANGED <<installed, ppd, pipes, garbage, calls>>

-----------------------------------------------------------------------------
(* The filters. *)

\* A mistake: the filters are examined when a command was missing.
TestCommands_inverted ==
    /\ pc = "test"
    /\ \/ exepath # Found /\ pc' = "filters" /\ at' = <<1>>
       \/ exepath \in {Found, Uninitialised} /\ pc' = "finish" /\ UNCHANGED at
    /\ UNCHANGED <<installed, cVars, ppd, pipes, garbage, calls>>

\* if(exepath || !(exe)): either way when nothing has set them.
TestCommands ==
    /\ pc = "test"
    /\ \/ exepath # NoPath /\ pc' = "filters" /\ at' = <<1>>
       \/ exepath \in {NoPath, Uninitialised} /\ pc' = "finish" /\ UNCHANGED at
    /\ UNCHANGED <<installed, cVars, ppd, pipes, garbage, calls>>

CheckFilter ==
    LET line == ppd.filters[at[1]]
    IN  /\ pc = "filters"
        /\ at[1] <= Len(ppd.filters)
        /\ at' = <<at[1] + 1>>
        /\ IF line = Malformed
           THEN UNCHANGED cVars
           ELSE Check(Filter(line))
        /\ UNCHANGED <<installed, ppd, pipes, pc, garbage, calls>>

\* The terminator, and the reply.
Finish ==
    /\ \/ pc = "finish"
       \/ pc = "filters" /\ at[1] > Len(ppd.filters)
    /\ Set(exes_index, Terminator)
    /\ pc' = "done"
    /\ UNCHANGED <<installed, exes_index, exepath, ppd, pipes, at, garbage, calls>>

-----------------------------------------------------------------------------

Next ==
    \/ Return
    \/ NoSuchPPD
    \/ \E p \in PPDs : missingexecutables(p)
    \/ CheckCommand
    \/ TestCommands
    \/ CheckFilter
    \/ Finish

Spec == Init /\ [][Next]_vars

-----------------------------------------------------------------------------
(* Properties. *)

\* The types of the locals and of the array that calls share; exes_index is
\* within the array.
TypeOK ==
    /\ installed \subseteq Files
    /\ exes_to_install \in Seq(Files \cup {Bin(e) : e \in Executables} \cup {Terminator})
    /\ exes_index \in 0 .. Len(exes_to_install)
    /\ ppd \in PPDs
    /\ exepath \in {NoPath, Found, Uninitialised}
    /\ pipes \in Seq(Seq(Seq(Words)))
    /\ at \in Seq(Nat)
    /\ pc \in {"idle", "commands", "test", "filters", "finish", "done", "exited", "crashed"}
    /\ garbage \in BOOLEAN
    /\ calls \in 0 .. MaxCalls

Missing(p) == Required(p) \ installed

\* The list up to the terminator, as src/demo/test.c:64 reads it.
Report == SubSeq(exes_to_install, 1, exes_index)

\* "A list of missing executables required by the PPD" (the interface's
\* XML:172): whatever earlier calls left in the array and the locals, each entry
\* up to the terminator is required by this PPD and not installed, unless the
\* call took a stale string for the command line.
ReportedIsMissing ==
    pc = "done" /\ ~garbage => ToSet(Report) \subseteq Missing(ppd)

\* "Determine whether a driver requires more packages to be installed"
\* (XML:155): when nothing is reported, nothing is missing, although the walk
\* stops after a pipe and may leave out the filters; for PPDs with a command line
\* that is analysed and names one IJS server, before the last argument of gs.
EmptyReportMeansComplete ==
    /\ pc = "done"
    /\ ppd.cmdline \notin {NoCommandLine, Unsafe}
    /\ \A cmd \in CommandsOf(ppd) : \A a, b \in Servers(cmd) : a = b /\ a # Last(cmd)
    /\ Report = <<>>
    => Missing(ppd) = {}

=============================================================================
