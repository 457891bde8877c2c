---------------------- MODULE MissingExecutables_proofs ----------------------
(***************************************************************************)
(* Proofs about missingexecutables, for any PPDs and any number of calls.  *)
(***************************************************************************)
EXTENDS MissingExecutables, CommonLemmas, SequenceTheorems

USE MaxCallsAssumption, MarksAssumption

-----------------------------------------------------------------------------
(* The inductive invariant. *)

InCall == pc \in {"commands", "test", "filters", "finish", "done"}

\* What a command and a filter line need.
Needs(cmd) == {Bin(cmd[1])} \cup {Bin(e) : e \in Servers(cmd)}
FilterOf(line) == IF line = Malformed THEN {} ELSE {Filter(line)}

\* What is checked next is part of the PPD, or of the stale string.
WhereOK ==
    /\ InCall /\ garbage => ppd.cmdline = Unsafe
    /\ pc = "commands" =>
          /\ IsCommandLine(pipes)
          /\ at[1] \in 1 .. Len(pipes) /\ at[2] \in 1 .. Len(pipes[at[1]])
          /\ ~garbage => pipes = ppd.cmdline /\ ppd.cmdline \notin {NoCommandLine, Unsafe}
    /\ pc = "filters" => at[1] \in 1 .. Len(ppd.filters) + 1

\* The array, up to where the call has come, has what this PPD lacks.
ReportOK ==
    InCall /\ ~garbage => \A k \in 1 .. exes_index : exes_to_install[k] \in Missing(ppd)

\* A command line that is analysed to its end, and what is there of the PPD.
Analysable ==
    /\ ppd.cmdline \notin {NoCommandLine, Unsafe}
    /\ \A cmd \in CommandsOf(ppd) : \A a, b \in Servers(cmd) : a = b /\ a # Last(cmd)
CommandsThere == \A cmd \in CommandsOf(ppd) : Needs(cmd) \subseteq installed
FiltersThere(n) == \A k \in 1 .. n : FilterOf(ppd.filters[k]) \subseteq installed

\* As long as nothing is reported, all that was passed is there, and the walk goes on
\* to the end of the filters.
CompleteOK ==
    InCall /\ Analysable /\ exes_index = 0 =>
        /\ pc = "commands" =>
              \A i \in 1 .. at[1] : \A j \in 1 .. Len(pipes[i]) :
                  i < at[1] \/ j < at[2] => Needs(pipes[i][j]) \subseteq installed
        /\ pc = "test" => exepath = Found
        /\ pc # "commands" => CommandsThere
        /\ pc = "filters" => FiltersThere(at[1] - 1)
        /\ pc = "done" => FiltersThere(Len(ppd.filters))
        /\ pc # "finish"

IInv == TypeOK /\ WhereOK /\ ReportOK /\ CompleteOK

-----------------------------------------------------------------------------
(* Searching the arguments of gs. *)

\* The server found is one that the command names; it is the only one, and none is
\* left out, if none is named last and no two are named.
LEMMA ServerFound ==
    ASSUME NEW cmd, IsCommand(cmd)
    PROVE  LET s == IjsServer(cmd)
           IN  /\ s # "none" => s \in Servers(cmd) /\ s \in Executables
               /\ (\A a, b \in Servers(cmd) : a = b /\ a # Last(cmd)) =>
                     Servers(cmd) = IF s = "none" THEN {} ELSE {s}
<1> DEFINE n == Len(cmd)
           args == SubSeq(cmd, 2, n - 1)
           I == {i \in 1 .. Len(args) : args[i] \in Executables}
           k == IF I # {} THEN Min(I) ELSE 0
           s == IjsServer(cmd)
<1>1. cmd \in Seq(Words) /\ n \in Nat /\ n >= 1
  BY EmptySeq, LenProperties DEF IsCommand
<1>2. /\ Len(args) = IF 2 <= n - 1 THEN n - 2 ELSE 0
      /\ \A i \in 1 .. n - 2 : args[i] = cmd[i + 1]
  <2>1. \A i \in 2 .. n - 1 : cmd[i] \in Words
    BY <1>1, ElementOfSeq
  <2>2. 2 \in Int /\ n - 1 \in Int
    BY <1>1
  <2>3. /\ Len(args) = IF 2 <= n - 1 THEN (n - 1) - 2 + 1 ELSE 0
        /\ \A i \in 1 .. (n - 1) - 2 + 1 : args[i] = cmd[2 + i - 1]
    BY <2>1, <2>2, SubSeqProperties
  <2>4. (n - 1) - 2 + 1 = n - 2 /\ \A i \in 1 .. n - 2 : 2 + i - 1 = i + 1
    BY <1>1
  <2> QED
    BY <2>3, <2>4
<1>3. s = IF cmd[1] = "gs" /\ k # 0 THEN args[k] ELSE "none"
  BY DEF IjsServer, SelectInSeq
<1>4. I # {} => k \in I
  <2>1. I \in SUBSET Nat
    BY <1>1, <1>2
  <2> HIDE DEF I
  <2> QED
    BY <2>1, Least
<1>5. Servers(cmd) = IF cmd[1] = "gs" THEN {a \in {cmd[i] : i \in 2 .. n} : a \in Executables} ELSE {}
  <2>1. cmd # <<>>
    BY DEF IsCommand
  <2>2. /\ Tail(cmd) \in Seq(Words) /\ Len(Tail(cmd)) = n - 1
        /\ \A i \in 1 .. n - 1 : Tail(cmd)[i] = cmd[i + 1]
    BY <1>1, <2>1, HeadTailProperties
  <2>3. DOMAIN Tail(cmd) = 1 .. n - 1
    BY <2>2, LenProperties
  <2>4. ToSet(Tail(cmd)) = {cmd[i] : i \in 2 .. n}
    <3>1. ToSet(Tail(cmd)) = {Tail(cmd)[i] : i \in 1 .. n - 1}
      BY <2>3 DEF ToSet
    <3>2. \A i \in 1 .. n - 1 : i + 1 \in 2 .. n /\ Tail(cmd)[i] = cmd[i + 1]
      BY <1>1, <2>2
    <3>3. ASSUME NEW i \in 2 .. n PROVE \E j \in 1 .. n - 1 : cmd[i] = Tail(cmd)[j]
      <4>1. PICK j \in 1 .. n - 1 : j + 1 = i
        BY <1>1
      <4> QED
        BY <3>2, <4>1
    <3>4. {cmd[i] : i \in 2 .. n} \subseteq ToSet(Tail(cmd))
      BY <3>1, <3>3
    <3>5. ToSet(Tail(cmd)) \subseteq {cmd[i] : i \in 2 .. n}
      BY <3>1, <3>2
    <3> QED
      BY <3>4, <3>5
  <2> QED
    BY <2>4 DEF Servers
<1>6. s # "none" => cmd[1] = "gs" /\ k \in I
  BY <1>3, <1>4
<1>7. \A i \in I : args[i] \in Executables /\ args[i] = cmd[i + 1] /\ i + 1 \in 2 .. n - 1 /\ i # 0
  BY <1>1, <1>2
<1>8. s # "none" => s \in Executables /\ cmd[1] = "gs" /\ \E i \in 2 .. n : s = cmd[i]
  <2> HIDE DEF I, k, args, s, n
  <2>1. s # "none" => s = args[k]
    BY <1>3
  <2> QED
    BY <1>1, <1>6, <1>7, <2>1
<1>9. s # "none" => s \in Servers(cmd) /\ s \in Executables
  BY <1>5, <1>8
<1>10. ASSUME \A a, b \in Servers(cmd) : a = b /\ a # Last(cmd)
       PROVE  Servers(cmd) = IF s = "none" THEN {} ELSE {s}
  <2>1. CASE s # "none"
    BY <1>9, <1>10, <2>1
  <2>2. CASE s = "none"
    <3>1. ASSUME NEW a \in Servers(cmd) PROVE FALSE
      <4>1. cmd[1] = "gs" /\ a \in Executables
        BY <1>5, <3>1
      <4>2. PICK i \in 2 .. n : a = cmd[i]
        BY <1>5, <3>1
      <4>3. i # n
        BY <1>10, <3>1, <4>2 DEF Last
      <4>4. i - 1 \in I
        BY <1>1, <1>2, <4>1, <4>2, <4>3
      <4>5. k \in I
        BY <1>4, <4>4
      <4>6. k # 0
        BY Zenon, <1>7, <4>5
      <4>7. args[k] \in Executables
        BY <4>5
      <4> HIDE DEF s, k, args
      <4> QED
        BY <1>3, <2>2, <4>1, <4>6, <4>7
    <3> QED
      BY <2>2, <3>1
  <2> QED
    BY <2>1, <2>2
<1> QED
  BY <1>9, <1>10

-----------------------------------------------------------------------------
(* The array. *)

Slots == Files \cup {Bin(e) : e \in Executables} \cup {Terminator}

LEMMA SetSlot ==
    ASSUME exes_to_install \in Seq(Slots), NEW i \in 0 .. Len(exes_to_install), NEW f \in Slots,
           Set(i, f)
    PROVE  /\ exes_to_install' \in Seq(Slots)
           /\ i + 1 \in 1 .. Len(exes_to_install') /\ exes_to_install'[i + 1] = f
           /\ \A k \in 1 .. i : exes_to_install'[k] = exes_to_install[k]
<1> DEFINE n == Len(exes_to_install)
<1>1. n \in Nat
  BY LenProperties
<1>2. CASE i < n
  <2>1. exes_to_install' = [exes_to_install EXCEPT ![i + 1] = f]
    BY <1>2 DEF Set
  <2>2. i + 1 \in 1 .. n /\ \A k \in 1 .. i : k \in 1 .. n /\ k # i + 1
    BY <1>1, <1>2
  <2> QED
    BY <2>1, <2>2, ExceptSeq
<1>3. CASE ~(i < n)
  <2>1. exes_to_install' = Append(exes_to_install, f)
    BY <1>3 DEF Set
  <2>2. i = n
    BY <1>1, <1>3
  <2>3. /\ exes_to_install' \in Seq(Slots) /\ Len(exes_to_install') = n + 1
        /\ exes_to_install'[n + 1] = f
        /\ \A k \in 1 .. n : exes_to_install'[k] = exes_to_install[k]
    BY <2>1, AppendProperties
  <2> QED
    BY <1>1, <2>2, <2>3
<1> QED
  BY <1>2, <1>3

\* Looking for a file adds it to the array exactly if it is not there.
LEMMA Checked ==
    ASSUME TypeOK, NEW f \in Slots, Check(f)
    PROVE  /\ exes_to_install' \in Seq(Slots) /\ exes_index' \in 0 .. Len(exes_to_install')
           /\ \A k \in 1 .. exes_index : exes_to_install'[k] = exes_to_install[k]
           /\ f \in installed => exes_index' = exes_index /\ exepath' = Found
           /\ f \notin installed =>
                 /\ exes_index' = exes_index + 1 /\ exes_to_install'[exes_index + 1] = f
                 /\ exepath' = NoPath
<1>0. exes_to_install \in Seq(Slots) /\ exes_index \in 0 .. Len(exes_to_install)
  BY DEF TypeOK, Slots
<1>1. CASE f \in installed
  <2>1. UNCHANGED <<exes_to_install, exes_index>> /\ exepath' = Found
    BY <1>1 DEF Check, pathcheck
  <2> QED
    BY <1>0, <1>1, <2>1
<1>2. CASE f \notin installed
  <2>1. Set(exes_index, f) /\ exes_index' = exes_index + 1 /\ exepath' = NoPath
    BY <1>2 DEF Check, pathcheck, add_missing
  <2> QED
    BY <1>0, <1>2, <2>1, SetSlot
<1> QED
  BY <1>1, <1>2

\* A check of a file that the PPD needs keeps the report right.
LEMMA ReportKept ==
    ASSUME TypeOK, ReportOK, NEW f \in Slots, Check(f), InCall,
           UNCHANGED <<installed, ppd, garbage>>, ~garbage => f \in Required(ppd)
    PROVE  ReportOK'
<1> SUFFICES ASSUME ~garbage, NEW k \in 1 .. exes_index'
             PROVE  exes_to_install'[k] \in Missing(ppd)
  BY DEF ReportOK, Missing, InCall
<1>0. exes_index \in Nat
  BY LenProperties DEF TypeOK
<1>1. CASE k \in 1 .. exes_index
  BY <1>1, Checked DEF ReportOK
<1>2. CASE k \notin 1 .. exes_index
  <2>1. f \notin installed /\ k = exes_index + 1
    BY <1>0, <1>2, Checked
  <2> QED
    BY <2>1, Checked DEF Missing
<1> QED
  BY <1>1, <1>2

\* What is looked for: a part of a PPD, or of the stale string.
LEMMA CommandNeeds ==
    ASSUME NEW p, IsCommandLine(p.cmdline), p.cmdline \notin {NoCommandLine, Unsafe},
           NEW i \in 1 .. Len(p.cmdline), NEW j \in 1 .. Len(p.cmdline[i])
    PROVE  /\ p.cmdline[i][j] \in CommandsOf(p)
           /\ Needs(p.cmdline[i][j]) \subseteq Required(p)
<1> DEFINE l == p.cmdline
           cmd == l[i][j]
<1>1. l \in Seq(Seq(Seq(Words)))
  BY DEF IsCommandLine
<1>2. i \in DOMAIN l /\ j \in DOMAIN l[i]
  BY <1>1, ElementOfSeq, LenProperties
<1>3. l[i] \in ToSet(l) /\ cmd \in ToSet(l[i])
  BY <1>2 DEF ToSet
<1>4. cmd \in CommandsOf(p)
  BY <1>3 DEF CommandsOf
<1> HIDE DEF cmd, l
<1>5. Needs(cmd) \subseteq Required(p)
  <2>1. Bin(cmd[1]) \in Required(p)
    BY <1>4 DEF Required
  <2>2. ASSUME NEW e \in Servers(cmd) PROVE Bin(e) \in Required(p)
    BY <1>4, <2>2 DEF Required
  <2> QED
    BY <2>1, <2>2 DEF Needs
<1> QED
  BY <1>4, <1>5 DEF cmd, l

LEMMA FilterNeeds ==
    ASSUME NEW p, NEW S, p.filters \in Seq(S), NEW k \in 1 .. Len(p.filters)
    PROVE  FilterOf(p.filters[k]) \subseteq Required(p)
<1>1. p.filters[k] \in ToSet(p.filters)
  BY LenProperties DEF ToSet
<1> QED
  BY <1>1 DEF FilterOf, Required

\* A PPD is missing nothing if its commands and its filters are there.
LEMMA AllThere ==
    ASSUME NEW S, ppd.filters \in Seq(S), CommandsThere, FiltersThere(Len(ppd.filters))
    PROVE  Missing(ppd) = {}
<1> SUFFICES ASSUME NEW f \in Required(ppd) PROVE f \in installed
  BY DEF Missing
<1>1. CASE f \in {Bin(cmd[1]) : cmd \in CommandsOf(ppd)}
  BY <1>1 DEF CommandsThere, Needs
<1>2. CASE f \in {Bin(e) : e \in UNION {Servers(cmd) : cmd \in CommandsOf(ppd)}}
  BY <1>2 DEF CommandsThere, Needs
<1>3. CASE f \in {Filter(l) : l \in ToSet(ppd.filters) \ {Malformed}}
  <2>1. PICK l \in ToSet(ppd.filters) : f = Filter(l) /\ l # Malformed
    BY <1>3
  <2>2. PICK k \in 1 .. Len(ppd.filters) : l = ppd.filters[k]
    BY <2>1, LenProperties DEF ToSet
  <2> QED
    BY <2>1, <2>2 DEF FiltersThere, FilterOf
<1> QED
  BY <1>1, <1>2, <1>3 DEF Required

-----------------------------------------------------------------------------
(* The steps. *)

\* The PPDs that are examined have a known form, and need known files.
LEMMA PPDForm ==
    ASSUME NEW p \in PPDs
    PROVE  /\ p.cmdline \in {NoCommandLine, Unsafe} \/ IsCommandLine(p.cmdline)
           /\ p.filters \in Seq(Executables \cup {Malformed}) /\ Len(p.filters) \in Nat
           /\ Required(p) \subseteq Files
BY PPDsAssumption, LenProperties DEF Files

LEMMA InvInit == Init => IInv
<1> SUFFICES ASSUME Init PROVE IInv
  OBVIOUS
<1>1. AnyPPD \in PPDs
  BY PPDsAssumption DEF AnyPPD
<1>2. /\ exes_to_install = <<>> /\ pipes = <<>> /\ at = <<>> /\ Len(<<>>) = 0
      /\ <<>> \in Seq(Slots) /\ <<>> \in Seq(Seq(Seq(Words))) /\ <<>> \in Seq(Nat)
  BY EmptySeq DEF Init
<1>3. TypeOK
  <2>1. exes_to_install \in Seq(Slots) /\ pipes \in Seq(Seq(Seq(Words))) /\ at \in Seq(Nat)
    BY Zenon, <1>2
  <2>2. exes_index \in 0 .. Len(exes_to_install) /\ calls \in 0 .. MaxCalls
    BY <1>2 DEF Init
  <2>3. /\ installed \subseteq Files /\ ppd \in PPDs /\ exepath = Uninitialised
        /\ pc = "idle" /\ garbage = FALSE
    BY <1>1 DEF Init
  <2> QED
    BY <2>1, <2>2, <2>3 DEF TypeOK, Slots
<1>4. pc = "idle"
  BY DEF Init
<1> QED
  BY <1>3, <1>4 DEF IInv, WhereOK, ReportOK, CompleteOK, InCall

\* A call starts.
LEMMA AnalyseStep ==
    ASSUME IInv, NEW p \in PPDs, missingexecutables(p)
    PROVE  IInv'
<1> DEFINE one == <<1, 1>>
<1>1. /\ exes_index' = 0 /\ ppd' = p /\ exepath' = Uninitialised /\ garbage' = (p.cmdline = Unsafe)
      /\ at' = one /\ UNCHANGED <<exes_to_install, installed>> /\ calls' = calls + 1
      /\ calls < MaxCalls
  BY DEF missingexecutables, Analyse, Begin
<1>2. one \in Seq(Nat) /\ one[1] = 1 /\ one[2] = 1
  OBVIOUS
<1> HIDE DEF one
<1>3. \/ p.cmdline = NoCommandLine /\ pipes' = <<>> /\ pc' = "test"
      \/ p.cmdline = Unsafe /\ pipes' = <<>> /\ pc' = "crashed"
      \/ p.cmdline = Unsafe /\ pc' = "commands" /\ \E c \in Commands : pipes' = <<<<c>>>>
      \/ p.cmdline \notin {NoCommandLine, Unsafe} /\ pipes' = p.cmdline /\ pc' = "commands"
  <2>1. CASE p.cmdline = NoCommandLine
    BY <2>1 DEF missingexecutables, Analyse
  <2>2. CASE p.cmdline = Unsafe
    BY <2>2 DEF missingexecutables, Analyse
  <2>3. CASE p.cmdline \notin {NoCommandLine, Unsafe}
    BY <2>3 DEF missingexecutables, Analyse
  <2> QED
    BY <2>1, <2>2, <2>3
<1>4. /\ pipes' \in Seq(Seq(Seq(Words))) /\ pc' \in {"test", "crashed", "commands"}
      /\ pc' = "commands" =>
            /\ IsCommandLine(pipes') /\ 1 \in 1 .. Len(pipes') /\ 1 \in 1 .. Len(pipes'[1])
            /\ p.cmdline # Unsafe => pipes' = p.cmdline /\ p.cmdline \notin {NoCommandLine, Unsafe}
      /\ pc' = "test" => p.cmdline = NoCommandLine
  <2>1. CASE pipes' = <<>> /\ pc' \in {"test", "crashed"}
    <3>1. <<>> \in Seq(Seq(Seq(Words)))
      BY EmptySeq
    <3> QED
      BY <1>3, <2>1, <3>1
  <2>2. ASSUME NEW c \in Commands, pipes' = <<<<c>>>>, p.cmdline = Unsafe, pc' = "commands"
        PROVE  /\ pipes' \in Seq(Seq(Seq(Words))) /\ IsCommandLine(pipes')
               /\ 1 \in 1 .. Len(pipes') /\ 1 \in 1 .. Len(pipes'[1])
    <3>1. IsCommand(c) /\ c \in Seq(Words)
      BY CommandsAssumption DEF IsCommand
    <3> DEFINE pipe == <<c>>
    <3>2. pipe \in Seq(Seq(Words)) /\ Len(pipe) = 1 /\ pipe[1] = c /\ DOMAIN pipe = 1 .. 1
      BY <3>1
    <3> HIDE DEF pipe
    <3>3. pipes' = <<pipe>>
      BY <2>2 DEF pipe
    <3>4. pipes' \in Seq(Seq(Seq(Words))) /\ Len(pipes') = 1 /\ pipes'[1] = pipe /\ DOMAIN pipes' = 1 .. 1
      BY <3>2, <3>3
    <3>5. pipe # <<>> /\ pipes' # <<>>
      BY <3>2, <3>4, EmptySeq
    <3> QED
      BY <3>1, <3>2, <3>4, <3>5 DEF IsCommandLine
  <2>3. CASE p.cmdline \notin {NoCommandLine, Unsafe} /\ pipes' = p.cmdline /\ pc' = "commands"
    <3>1. IsCommandLine(pipes')
      BY <2>3, PPDForm
    <3>2. pipes' \in Seq(Seq(Seq(Words))) /\ pipes' # <<>>
      BY <3>1 DEF IsCommandLine
    <3>3. Len(pipes') \in Nat \ {0} /\ DOMAIN pipes' = 1 .. Len(pipes')
      BY <3>2, EmptySeq, LenProperties
    <3>4. pipes'[1] \in Seq(Seq(Words)) /\ pipes'[1] # <<>>
      <4>1. 1 \in 1 .. Len(pipes')
        BY <3>3
      <4>2. pipes'[1] \in Seq(Seq(Words))
        BY <3>2, <4>1, ElementOfSeq
      <4>3. pipes'[1] # <<>>
        BY <3>1, <3>3, <4>1 DEF IsCommandLine
      <4> QED
        BY <4>2, <4>3
    <3>5. Len(pipes'[1]) \in Nat \ {0}
      BY <3>4, EmptySeq
    <3> QED
      BY <2>3, <3>1, <3>2, <3>3, <3>5
  <2> QED
    BY <1>3, <2>1, <2>2, <2>3
<1>5. TypeOK'
  BY <1>1, <1>2, <1>4 DEF IInv, TypeOK, Slots
<1>6. WhereOK'
  BY <1>1, <1>2, <1>4 DEF WhereOK, IsCommandLine, IsCommand
<1>7. ReportOK'
  BY <1>1 DEF ReportOK
<1>8. CompleteOK'
  <2> SUFFICES ASSUME Analysable' PROVE
         /\ pc' = "commands" =>
              \A i \in 1 .. at'[1] : \A j \in 1 .. Len(pipes'[i]) :
                  i < at'[1] \/ j < at'[2] => (Needs(pipes[i][j]) \subseteq installed)'
         /\ pc' \notin {"test", "filters", "done", "finish"}
    <3>1. pc' \notin {"test", "filters", "done", "finish"} =>
             pc' # "test" /\ pc' # "filters" /\ pc' # "done" /\ pc' # "finish"
      OBVIOUS
    <3>2. InCall' /\ pc' \notin {"test", "filters", "done", "finish"} => pc' = "commands"
      BY DEF InCall
    <3> QED
      BY Zenon, <3>1, <3>2 DEF CompleteOK
  <2>1. p.cmdline # NoCommandLine
    BY <1>1 DEF Analysable
  <2> QED
    BY <1>1, <1>2, <1>4, <2>1
<1> QED
  BY <1>5, <1>6, <1>7, <1>8 DEF IInv

\* A command, or the IJS server it names, is looked for.
LEMMA CommandStep ==
    ASSUME IInv, CheckCommand
    PROVE  IInv'
<1> DEFINE i == at[1]
           j == at[2]
           cmd == pipes[i][j]
           server == IjsServer(cmd)
           f == IF Bin(cmd[1]) \in installed /\ server # "none" THEN Bin(server) ELSE Bin(cmd[1])
           next == <<i, j + 1>>
           nextPipe == <<i + 1, 1>>
<1>1. pc = "commands" /\ UNCHANGED <<installed, ppd, pipes, garbage, calls>> /\ Check(f) /\ Advance
  BY DEF CheckCommand
<1>2. /\ IsCommandLine(pipes) /\ i \in 1 .. Len(pipes) /\ j \in 1 .. Len(pipes[i])
      /\ ~garbage => pipes = ppd.cmdline /\ ppd.cmdline \notin {NoCommandLine, Unsafe}
      /\ garbage => ppd.cmdline = Unsafe
  BY <1>1 DEF IInv, WhereOK, InCall
<1>3. pipes \in Seq(Seq(Seq(Words))) /\ pipes[i] \in Seq(Seq(Words)) /\ IsCommand(cmd)
  <2>1. pipes \in Seq(Seq(Seq(Words)))
    BY <1>2 DEF IsCommandLine
  <2>2. pipes[i] \in Seq(Seq(Words)) /\ i \in DOMAIN pipes
    BY <1>2, <2>1, ElementOfSeq, LenProperties
  <2>3. j \in DOMAIN pipes[i]
    BY <1>2, <2>2, LenProperties
  <2> QED
    BY <1>2, <2>1, <2>2, <2>3 DEF IsCommandLine
<1>4. /\ cmd[1] \in Executables
      /\ server # "none" => server \in Servers(cmd) /\ server \in Executables
      /\ (\A a, b \in Servers(cmd) : a = b /\ a # Last(cmd)) =>
            Servers(cmd) = IF server = "none" THEN {} ELSE {server}
  BY <1>3, ServerFound DEF IsCommand
<1> HIDE DEF server
<1>5. f \in Slots /\ f \in Needs(cmd)
  BY <1>4 DEF Slots, Needs
<1>6. ~garbage => cmd \in CommandsOf(ppd) /\ Needs(cmd) \subseteq Required(ppd)
  BY <1>2, CommandNeeds
<1>7. TypeOK /\ WhereOK /\ ReportOK /\ CompleteOK /\ InCall
  BY <1>1 DEF IInv, InCall
<1>8. (f \in installed) /\ (\A a, b \in Servers(cmd) : a = b /\ a # Last(cmd)) =>
         Needs(cmd) \subseteq installed
  <2> SUFFICES ASSUME f \in installed, Servers(cmd) = IF server = "none" THEN {} ELSE {server}
               PROVE  Needs(cmd) \subseteq installed
    BY <1>4
  <2>1. CASE server = "none"
    BY <2>1 DEF Needs
  <2>2. CASE server # "none"
    <3>1. Bin(cmd[1]) \in installed /\ Bin(server) \in installed
      BY <2>2
    <3> QED
      BY <2>2, <3>1 DEF Needs
  <2> QED
    BY <2>1, <2>2
<1> HIDE DEF f
<1>9. ReportOK'
  BY <1>1, <1>5, <1>6, <1>7, ReportKept
<1>10. /\ exes_to_install' \in Seq(Slots) /\ exes_index' \in 0 .. Len(exes_to_install')
       /\ exes_index' = 0 => exes_index = 0 /\ f \in installed /\ exepath' = Found
       /\ exepath' \in {NoPath, Found}
  <2>1. exes_index \in Nat
    BY <1>7, LenProperties DEF TypeOK
  <2>2. f \notin installed => exes_index' # 0
    BY <1>1, <1>5, <1>7, <2>1, Checked
  <2> QED
    BY <1>1, <1>5, <1>7, <2>2, Checked
<1>11. i \in Nat /\ j \in Nat /\ Len(pipes) \in Nat /\ Len(pipes[i]) \in Nat
  BY <1>2, <1>3, LenProperties
<1>12. /\ next \in Seq(Nat) /\ next[1] = i /\ next[2] = j + 1
       /\ nextPipe \in Seq(Nat) /\ nextPipe[1] = i + 1 /\ nextPipe[2] = 1
  BY <1>11
<1>13. \/ j < Len(pipes[i]) /\ at' = next /\ pc' = "commands"
       \/ j = Len(pipes[i]) /\ i < Len(pipes) /\ at' = nextPipe /\ pc' = "commands"
       \/ /\ pc' = "test" /\ at' = at
          /\ exepath' # NoPath => j = Len(pipes[i]) /\ i = Len(pipes)
  <2>1. CASE j < Len(pipes[i])
    BY <1>1, <2>1 DEF Advance
  <2>2. CASE j = Len(pipes[i]) /\ i < Len(pipes) /\ exepath' # NoPath
    BY <1>1, <1>11, <2>2 DEF Advance
  <2>3. CASE ~(j < Len(pipes[i])) /\ ~(j = Len(pipes[i]) /\ i < Len(pipes) /\ exepath' # NoPath)
    <3>1. pc' = "test" /\ at' = at
      BY <1>1, <2>3 DEF Advance
    <3>2. j = Len(pipes[i])
      BY <1>2, <1>11, <2>3
    <3>3. exepath' # NoPath => i = Len(pipes)
      BY <1>2, <1>11, <2>3, <3>2
    <3> QED
      BY <3>1, <3>2, <3>3
  <2> QED
    BY <2>1, <2>2, <2>3
<1> HIDE DEF next, nextPipe
<1>14. i + 1 \in 1 .. Len(pipes) => Len(pipes[i + 1]) \in Nat \ {0}
  <2> SUFFICES ASSUME i + 1 \in 1 .. Len(pipes) PROVE Len(pipes[i + 1]) \in Nat \ {0}
    OBVIOUS
  <2>1. pipes[i + 1] \in Seq(Seq(Words)) /\ i + 1 \in DOMAIN pipes
    BY <1>3, ElementOfSeq, LenProperties
  <2>2. pipes[i + 1] # <<>>
    BY <1>2, <2>1 DEF IsCommandLine
  <2> QED
    BY <2>1, <2>2, EmptySeq
<1>15. TypeOK'
  <2>1. at' \in Seq(Nat)
    BY <1>7, <1>12, <1>13 DEF TypeOK
  <2>2. /\ installed' \subseteq Files /\ ppd' \in PPDs /\ pipes' \in Seq(Seq(Seq(Words)))
        /\ garbage' \in BOOLEAN /\ calls' \in 0 .. MaxCalls
    BY Zenon, <1>1, <1>7 DEF TypeOK
  <2> QED
    BY <1>10, <1>13, <2>1, <2>2 DEF TypeOK, Slots
<1>16. WhereOK'
  <2>1. pc' = "commands" => at'[1] \in 1 .. Len(pipes) /\ at'[2] \in 1 .. Len(pipes[at'[1]])
    <3>1. CASE j < Len(pipes[i]) /\ at' = next
      <4>1. at'[1] = i /\ at'[2] = j + 1 /\ j + 1 \in 1 .. Len(pipes[i])
        <5>1. at'[1] = i /\ at'[2] = j + 1
          BY Zenon, <1>12, <3>1
        <5>2. j + 1 \in 1 .. Len(pipes[i])
          BY <1>11, <3>1
        <5> QED
          BY <5>1, <5>2
      <4> QED
        BY <1>2, <4>1
    <3>2. CASE i < Len(pipes) /\ at' = nextPipe
      <4>0. i + 1 \in 1 .. Len(pipes)
        BY <1>2, <1>11, <3>2
      <4>1. at'[1] = i + 1 /\ at'[2] = 1 /\ i + 1 \in 1 .. Len(pipes)
        BY Zenon, <1>12, <3>2, <4>0
      <4>2. Len(pipes[at'[1]]) \in Nat \ {0}
        BY <1>14, <4>1
      <4>3. 1 \in 1 .. Len(pipes[at'[1]])
        BY <4>2
      <4> QED
        BY <4>1, <4>3
    <3> QED
      BY <1>13, <3>1, <3>2
  <2>2. IsCommandLine(pipes)'
    BY <1>1, <1>2 DEF IsCommandLine, IsCommand
  <2> QED
    BY <1>1, <1>2, <1>13, <2>1, <2>2 DEF WhereOK
<1>17. CompleteOK'
  <2> SUFFICES ASSUME Analysable', exes_index' = 0
               PROVE  /\ pc' = "commands" =>
                            \A k \in 1 .. at'[1] : \A m \in 1 .. Len(pipes[k]) :
                                k < at'[1] \/ m < at'[2] => Needs(pipes[k][m]) \subseteq installed
                      /\ pc' = "test" => exepath' = Found /\ CommandsThere
    <3>1. pc' \in {"commands", "test"}
      BY <1>13
    <3>2. pc' # "filters" /\ pc' # "done" /\ pc' # "finish"
      BY <3>1
    <3>3. CommandsThere => CommandsThere'
      BY <1>1 DEF CommandsThere, Needs, CommandsOf
    <3>4. \A k, m : Needs(pipes[k][m]) \subseteq installed => (Needs(pipes[k][m]) \subseteq installed)'
      BY <1>1
    <3>5. pc' # "commands" <=> pc' = "test"
      BY <3>1
    <3> QED
      BY Zenon, <1>1, <3>2, <3>3, <3>4, <3>5 DEF CompleteOK
  <2>1. Analysable
    BY <1>1 DEF Analysable, CommandsOf
  <2>2. /\ pipes = ppd.cmdline /\ cmd \in CommandsOf(ppd)
        /\ ppd.cmdline \notin {NoCommandLine, Unsafe}
    BY <1>2, <1>6, <2>1 DEF Analysable
  <2>3. \A k \in 1 .. i : \A m \in 1 .. Len(pipes[k]) :
           k < i \/ m < j => Needs(pipes[k][m]) \subseteq installed
    BY <1>1, <1>7, <1>10, <2>1 DEF CompleteOK
  <2>4. Needs(cmd) \subseteq installed
    BY <1>8, <1>10, <2>1, <2>2 DEF Analysable
  <2>5. \A k \in 1 .. i : \A m \in 1 .. Len(pipes[k]) :
           k < i \/ m <= j => Needs(pipes[k][m]) \subseteq installed
    <3> SUFFICES ASSUME NEW k \in 1 .. i, NEW m \in 1 .. Len(pipes[k]), k < i \/ m <= j
                 PROVE  Needs(pipes[k][m]) \subseteq installed
      OBVIOUS
    <3>1. CASE k < i \/ m < j
      BY <2>3, <3>1
    <3>2. CASE k = i /\ m = j
      BY <2>4, <3>2
    <3>3. m \in Nat
      OBVIOUS
    <3> QED
      BY <1>11, <3>1, <3>2, <3>3
  <2> HIDE DEF cmd
  <2>6. CASE j < Len(pipes[i]) /\ at' = next /\ pc' = "commands"
    <3>1. at'[1] = i /\ at'[2] = j + 1
      BY <1>12, <2>6
    <3>2. \A m \in Nat : m < j + 1 => m <= j
      BY <1>11
    <3>3. \A k \in 1 .. i : \A m \in 1 .. Len(pipes[k]) :
             k < i \/ m < j + 1 => Needs(pipes[k][m]) \subseteq installed
      BY <2>5, <3>2
    <3> QED
      BY <2>6, <3>1, <3>3
  <2>7. CASE j = Len(pipes[i]) /\ i < Len(pipes) /\ at' = nextPipe /\ pc' = "commands"
    <3>1. at'[1] = i + 1 /\ at'[2] = 1
      BY <1>12, <2>7
    <3> SUFFICES ASSUME NEW k \in 1 .. i + 1, NEW m \in 1 .. Len(pipes[k]), k < i + 1 \/ m < 1
                 PROVE  Needs(pipes[k][m]) \subseteq installed
      BY <2>7, <3>1
    <3>2. k \in 1 .. i /\ (k < i \/ k = i)
      BY <1>11
    <3>3. k = i => m <= j
      BY <1>11, <2>7
    <3> QED
      BY <2>5, <3>2, <3>3
  <2>8. CASE pc' = "test" /\ (exepath' # NoPath => j = Len(pipes[i]) /\ i = Len(pipes))
    <3>1. exepath' = Found /\ j = Len(pipes[i]) /\ i = Len(pipes)
      BY <1>10, <2>8
    <3>2. ASSUME NEW c \in CommandsOf(ppd) PROVE Needs(c) \subseteq installed
      <4>1. PICK pipe \in ToSet(pipes) : c \in ToSet(pipe)
        BY <2>2 DEF CommandsOf
      <4>2. PICK k \in 1 .. Len(pipes) : pipe = pipes[k]
        BY <1>3, <4>1, LenProperties DEF ToSet
      <4>3. pipes[k] \in Seq(Seq(Words))
        BY <1>3, ElementOfSeq
      <4>4. PICK m \in 1 .. Len(pipes[k]) : c = pipes[k][m]
        BY <4>1, <4>2, <4>3, LenProperties DEF ToSet
      <4>5. k \in 1 .. i /\ (k < i \/ k = i)
        BY <1>11, <3>1
      <4>6. k = i => m <= j
        BY <1>11, <3>1
      <4> QED
        BY <2>5, <4>4, <4>5, <4>6
    <3> QED
      BY <2>8, <3>1, <3>2 DEF CommandsThere
  <2> QED
    BY <1>13, <2>6, <2>7, <2>8
<1> QED
  BY <1>9, <1>15, <1>16, <1>17 DEF IInv

\* The filters are looked at if the last command was there, and left out if it was not.
LEMMA TestStep ==
    ASSUME IInv, TestCommands
    PROVE  IInv'
<1> DEFINE one == <<1>>
<1>1. /\ pc = "test" /\ UNCHANGED <<installed, cVars, ppd, pipes, garbage, calls>>
      /\ \/ exepath # NoPath /\ pc' = "filters" /\ at' = one
         \/ exepath \in {NoPath, Uninitialised} /\ pc' = "finish" /\ UNCHANGED at
  BY DEF TestCommands
<1>2. one \in Seq(Nat) /\ one[1] = 1
  OBVIOUS
<1> HIDE DEF one
<1>3. UNCHANGED <<exes_to_install, exes_index, exepath>>
  BY <1>1 DEF cVars
<1>4. InCall /\ InCall' /\ pc' # "commands" /\ pc' # "done" /\ pc' # "test"
  BY <1>1 DEF InCall
<1>5. TypeOK'
  <2>1. at' \in Seq(Nat) /\ pc' \in {"filters", "finish"}
    BY <1>1, <1>2 DEF IInv, TypeOK
  <2>2. /\ installed' \subseteq Files /\ ppd' \in PPDs /\ pipes' \in Seq(Seq(Seq(Words)))
        /\ garbage' \in BOOLEAN /\ calls' \in 0 .. MaxCalls
        /\ exes_to_install' \in Seq(Slots) /\ exes_index' \in 0 .. Len(exes_to_install')
        /\ exepath' \in {NoPath, Found, Uninitialised}
    BY Zenon, <1>1, <1>3 DEF IInv, TypeOK, Slots
  <2> QED
    BY <2>1, <2>2 DEF TypeOK, Slots
<1>6. WhereOK'
  <2>1. Len(ppd.filters) \in Nat
    BY PPDForm DEF IInv, TypeOK
  <2>2. pc' = "filters" => at'[1] \in 1 .. Len(ppd.filters) + 1
    BY <1>1, <1>2, <2>1
  <2>3. InCall /\ garbage => ppd.cmdline = Unsafe
    BY DEF IInv, WhereOK
  <2> QED
    BY <1>1, <1>4, <2>2, <2>3 DEF WhereOK
<1>7. ReportOK'
  <2>1. InCall /\ ~garbage => \A k \in 1 .. exes_index : exes_to_install[k] \in Missing(ppd)
    BY DEF IInv, ReportOK
  <2>2. Missing(ppd)' = Missing(ppd)
    BY <1>1 DEF Missing, Required, CommandsOf
  <2> QED
    BY <1>1, <1>3, <1>4, <2>1, <2>2 DEF ReportOK
<1>8. CompleteOK'
  <2> SUFFICES ASSUME Analysable', exes_index' = 0
               PROVE  CommandsThere' /\ pc' # "finish" /\ (pc' = "filters" => FiltersThere(at[1] - 1)')
    BY Zenon, <1>4 DEF CompleteOK
  <2>1. Analysable /\ exes_index = 0
    BY <1>1, <1>3 DEF Analysable, CommandsOf
  <2>2. exepath = Found /\ CommandsThere
    BY <1>1, <1>4, <2>1 DEF IInv, CompleteOK
  <2>3. CommandsThere'
    BY <1>1, <2>2 DEF CommandsThere, CommandsOf, Needs
  <2>4. pc' = "filters" /\ at' = one
    BY <1>1, <2>2
  <2>5. FiltersThere(at[1] - 1)'
    <3>1. at'[1] - 1 = 0
      BY <1>2, <2>4
    <3> QED
      BY <3>1 DEF FiltersThere
  <2> QED
    BY <2>3, <2>4, <2>5
<1> QED
  BY <1>5, <1>6, <1>7, <1>8 DEF IInv

\* The next filter line is looked for, or passed over.
LEMMA FilterStep ==
    ASSUME IInv, CheckFilter
    PROVE  IInv'
<1> DEFINE line == ppd.filters[at[1]]
           n == at[1]
           next == <<n + 1>>
<1>1. /\ pc = "filters" /\ pc' = "filters" /\ n <= Len(ppd.filters) /\ at' = next
      /\ UNCHANGED <<installed, ppd, pipes, garbage, calls>>
      /\ IF line = Malformed THEN UNCHANGED cVars ELSE Check(Filter(line))
  BY DEF CheckFilter
<1>2. TypeOK /\ WhereOK /\ ReportOK /\ CompleteOK /\ InCall /\ InCall'
  BY <1>1 DEF IInv, InCall
<1>3. /\ ppd \in PPDs /\ ppd.filters \in Seq(Executables \cup {Malformed})
      /\ Len(ppd.filters) \in Nat /\ Required(ppd) \subseteq Files
  BY <1>2, PPDForm DEF TypeOK
<1>4. n \in 1 .. Len(ppd.filters) /\ n \in Nat
  BY <1>1, <1>2, <1>3 DEF WhereOK
<1>5. next \in Seq(Nat) /\ next[1] = n + 1
  BY <1>4
<1> HIDE DEF next
<1>6. FilterOf(line) \subseteq Required(ppd)
  BY <1>3, <1>4, FilterNeeds
<1>7. line # Malformed => Filter(line) \in Slots /\ Filter(line) \in Required(ppd)
  BY <1>3, <1>6 DEF FilterOf, Slots
<1>8. /\ exes_to_install' \in Seq(Slots) /\ exes_index' \in 0 .. Len(exes_to_install')
      /\ exepath' \in {NoPath, Found, Uninitialised}
      /\ exes_index' = 0 => exes_index = 0 /\ FilterOf(line) \subseteq installed
      /\ ReportOK'
  <2>1. CASE line = Malformed
    <3>1. UNCHANGED <<exes_to_install, exes_index, exepath>>
      BY <1>1, <2>1 DEF cVars
    <3>2. ReportOK'
      <4>1. Missing(ppd)' = Missing(ppd)
        BY <1>1 DEF Missing, Required, CommandsOf
      <4>2. InCall /\ ~garbage => \A k \in 1 .. exes_index : exes_to_install[k] \in Missing(ppd)
        BY <1>2 DEF ReportOK
      <4> QED
        BY <1>1, <1>2, <3>1, <4>1, <4>2 DEF ReportOK
    <3>3. /\ exes_to_install \in Seq(Slots) /\ exes_index \in 0 .. Len(exes_to_install)
          /\ exepath \in {NoPath, Found, Uninitialised}
      BY Zenon, <1>2 DEF TypeOK, Slots
    <3>4. FilterOf(line) \subseteq installed
      BY <2>1 DEF FilterOf
    <3> QED
      BY <3>1, <3>2, <3>3, <3>4
  <2>2. CASE line # Malformed
    <3>1. PICK f \in Slots : f = Filter(line)
      BY <1>7, <2>2
    <3>2. Check(f) /\ f \in Required(ppd)
      BY <1>1, <1>7, <2>2, <3>1
    <3>3. ReportOK'
      BY <1>1, <1>2, <3>2, ReportKept
    <3>4. exes_index \in Nat
      BY <1>2, LenProperties DEF TypeOK
    <3>5. f \notin installed => exes_index' # 0
      BY <1>2, <3>2, <3>4, Checked
    <3>6. f \in installed => FilterOf(line) \subseteq installed
      BY <3>1 DEF FilterOf
    <3> QED
      BY <1>2, <3>2, <3>3, <3>5, <3>6, Checked
  <2> QED
    BY <2>1, <2>2
<1> HIDE DEF line
<1>9. TypeOK'
  <2>1. at' \in Seq(Nat)
    BY <1>1, <1>5
  <2>2. /\ installed' \subseteq Files /\ ppd' \in PPDs /\ pipes' \in Seq(Seq(Seq(Words)))
        /\ garbage' \in BOOLEAN /\ calls' \in 0 .. MaxCalls
    BY Zenon, <1>1, <1>2 DEF TypeOK
  <2> QED
    BY <1>1, <1>8, <2>1, <2>2 DEF TypeOK, Slots
<1>10. WhereOK'
  <2>1. at'[1] \in 1 .. Len(ppd.filters) + 1
    BY <1>1, <1>3, <1>4, <1>5
  <2>2. garbage => ppd.cmdline = Unsafe
    BY <1>2 DEF WhereOK
  <2> QED
    BY <1>1, <2>1, <2>2 DEF WhereOK
<1>11. CompleteOK'
  <2> SUFFICES ASSUME Analysable', exes_index' = 0
               PROVE  CommandsThere' /\ FiltersThere(at[1] - 1)'
    <3>1. pc' # "commands" /\ pc' # "test" /\ pc' # "done" /\ pc' # "finish"
      BY <1>1
    <3> QED
      BY Zenon, <3>1 DEF CompleteOK
  <2>1. Analysable /\ exes_index = 0
    BY <1>1, <1>8 DEF Analysable, CommandsOf
  <2>2. CommandsThere /\ FiltersThere(n - 1)
    BY <1>1, <1>2, <2>1 DEF CompleteOK
  <2>3. CommandsThere'
    BY <1>1, <2>2 DEF CommandsThere, CommandsOf, Needs
  <2>4. ASSUME NEW k \in 1 .. n PROVE FilterOf(ppd.filters[k]) \subseteq installed
    <3>1. CASE k = n
      BY <1>8, <3>1 DEF line
    <3>2. CASE k # n
      BY <1>4, <2>2, <3>2 DEF FiltersThere
    <3> QED
      BY <3>1, <3>2
  <2>5. at'[1] - 1 = n
    BY <1>1, <1>4, <1>5
  <2> HIDE DEF n
  <2>6. FiltersThere(at[1] - 1)'
    BY <1>1, <2>4, <2>5 DEF FiltersThere
  <2> QED
    BY <2>3, <2>6
<1> QED
  BY <1>8, <1>9, <1>10, <1>11 DEF IInv

\* The terminator is put behind what was reported.
LEMMA FinishStep ==
    ASSUME IInv, Finish
    PROVE  IInv'
<1>1. /\ pc = "finish" \/ (pc = "filters" /\ at[1] > Len(ppd.filters))
      /\ Set(exes_index, Terminator) /\ pc' = "done"
      /\ UNCHANGED <<installed, exes_index, exepath, ppd, pipes, at, garbage, calls>>
  BY DEF Finish
<1>2. TypeOK /\ WhereOK /\ ReportOK /\ CompleteOK /\ InCall /\ InCall'
  BY <1>1 DEF IInv, InCall
<1>3. exes_to_install \in Seq(Slots) /\ exes_index \in 0 .. Len(exes_to_install) /\ Terminator \in Slots
  BY <1>2 DEF TypeOK, Slots
<1>4. /\ exes_to_install' \in Seq(Slots)
      /\ exes_index + 1 \in 1 .. Len(exes_to_install')
      /\ \A k \in 1 .. exes_index : exes_to_install'[k] = exes_to_install[k]
  BY <1>1, <1>3, SetSlot
<1>5. TypeOK'
  <2>1. exes_index' \in 0 .. Len(exes_to_install')
    <3>1. exes_index \in Nat /\ Len(exes_to_install') \in Nat
      BY <1>3, <1>4, LenProperties
    <3> QED
      BY <1>1, <1>4, <3>1
  <2>2. /\ installed' \subseteq Files /\ ppd' \in PPDs /\ pipes' \in Seq(Seq(Seq(Words)))
        /\ garbage' \in BOOLEAN /\ calls' \in 0 .. MaxCalls /\ at' \in Seq(Nat)
        /\ exepath' \in {NoPath, Found, Uninitialised}
    BY Zenon, <1>1, <1>2 DEF TypeOK
  <2> QED
    BY <1>1, <1>4, <2>1, <2>2 DEF TypeOK, Slots
<1>6. WhereOK'
  BY <1>1, <1>2 DEF WhereOK
<1>7. ReportOK'
  <2>1. Missing(ppd)' = Missing(ppd)
    BY <1>1 DEF Missing, Required, CommandsOf
  <2>2. ~garbage => \A k \in 1 .. exes_index : exes_to_install[k] \in Missing(ppd)
    BY <1>2 DEF ReportOK
  <2> QED
    BY <1>1, <1>4, <2>1, <2>2 DEF ReportOK
<1>8. CompleteOK'
  <2> SUFFICES ASSUME Analysable', exes_index' = 0
               PROVE  CommandsThere' /\ FiltersThere(Len(ppd.filters))'
    <3>1. pc' # "commands" /\ pc' # "test" /\ pc' # "filters" /\ pc' # "finish"
      BY <1>1
    <3> QED
      BY Zenon, <3>1 DEF CompleteOK
  <2>1. Analysable /\ exes_index = 0
    BY <1>1 DEF Analysable, CommandsOf
  <2>2. CommandsThere /\ pc = "filters" /\ FiltersThere(at[1] - 1)
    BY <1>1, <1>2, <2>1 DEF CompleteOK
  <2>3. CommandsThere'
    BY <1>1, <2>2 DEF CommandsThere, CommandsOf, Needs
  <2>4. at[1] - 1 = Len(ppd.filters)
    <3>1. at[1] \in 1 .. Len(ppd.filters) + 1 /\ at[1] > Len(ppd.filters)
      BY <1>1, <1>2, <2>2 DEF WhereOK
    <3>2. Len(ppd.filters) \in Nat
      BY <1>2, PPDForm DEF TypeOK
    <3> QED
      BY <3>1, <3>2
  <2>5. FiltersThere(Len(ppd.filters))'
    BY <1>1, <2>2, <2>4 DEF FiltersThere
  <2> QED
    BY <2>3, <2>5
<1> QED
  BY <1>5, <1>6, <1>7, <1>8 DEF IInv

LEMMA InvStep ==
    ASSUME IInv, [Next]_vars
    PROVE  IInv'
<1>1. CASE Return
  <2>1. /\ pc' = "idle" /\ ppd' = AnyPPD /\ exepath' = Uninitialised /\ pipes' = <<>> /\ at' = <<>>
        /\ garbage' = FALSE /\ UNCHANGED <<exes_to_install, exes_index, calls>>
        /\ \E f \in Files : installed' \in {installed, installed \cup {f}, installed \ {f}}
    BY <1>1 DEF Return
  <2>2. AnyPPD \in PPDs
    BY PPDsAssumption DEF AnyPPD
  <2>3. pipes' \in Seq(Seq(Seq(Words))) /\ at' \in Seq(Nat)
    BY <2>1, EmptySeq
  <2>4. installed' \subseteq Files
    BY <2>1 DEF IInv, TypeOK
  <2>5. /\ exes_to_install' \in Seq(Slots) /\ exes_index' \in 0 .. Len(exes_to_install')
        /\ calls' \in 0 .. MaxCalls
    BY Zenon, <2>1 DEF IInv, TypeOK, Slots
  <2>6. TypeOK'
    BY <2>1, <2>2, <2>3, <2>4, <2>5 DEF TypeOK, Slots
  <2> QED
    BY <2>1, <2>6 DEF IInv, WhereOK, ReportOK, CompleteOK, InCall
<1>2. CASE NoSuchPPD
  <2>1. /\ pc' = "exited" /\ exes_index' = 0 /\ calls' = calls + 1 /\ calls < MaxCalls
        /\ UNCHANGED <<installed, exes_to_install, exepath, ppd, pipes, at, garbage>>
    BY <1>2 DEF NoSuchPPD, Begin
  <2>2. exes_index' \in 0 .. Len(exes_to_install') /\ calls' \in 0 .. MaxCalls
    BY <2>1, LenProperties DEF IInv, TypeOK
  <2>3. /\ installed' \subseteq Files /\ ppd' \in PPDs /\ pipes' \in Seq(Seq(Seq(Words)))
        /\ garbage' \in BOOLEAN /\ at' \in Seq(Nat)
        /\ exepath' \in {NoPath, Found, Uninitialised} /\ exes_to_install' \in Seq(Slots)
    BY Zenon, <2>1 DEF IInv, TypeOK, Slots
  <2>4. TypeOK'
    BY <2>1, <2>2, <2>3 DEF TypeOK, Slots
  <2> QED
    BY <2>1, <2>4 DEF IInv, WhereOK, ReportOK, CompleteOK, InCall
<1>3. CASE UNCHANGED vars
  BY <1>3 DEF IInv, TypeOK, WhereOK, ReportOK, CompleteOK, InCall, Analysable, CommandsThere,
              FiltersThere, IsCommandLine, IsCommand, Missing, vars, cVars
<1> QED
  BY Zenon, <1>1, <1>2, <1>3, AnalyseStep, CommandStep, TestStep, FilterStep, FinishStep DEF Next

LEMMA InvCorrect == Spec => []IInv
BY InvInit, InvStep, PTL DEF Spec

-----------------------------------------------------------------------------
(* The theorems. *)

\* The locals and the array, which all calls share, stay well typed.
THEOREM TypeCorrect == Spec => []TypeOK
<1>1. IInv => TypeOK
  BY DEF IInv
<1> QED
  BY <1>1, InvCorrect, PTL

\* What is reported up to the terminator is required by the PPD and not installed.
THEOREM ReportedCorrect == Spec => []ReportedIsMissing
<1>1. IInv => ReportedIsMissing
  <2> SUFFICES ASSUME IInv, pc = "done", ~garbage, NEW f \in ToSet(Report) PROVE f \in Missing(ppd)
    BY DEF ReportedIsMissing
  <2>1. exes_to_install \in Seq(Slots) /\ exes_index \in 0 .. Len(exes_to_install)
    BY DEF IInv, TypeOK, Slots
  <2>2. Len(exes_to_install) \in Nat
    BY <2>1, LenProperties
  <2>3. \A k \in 1 .. exes_index : exes_to_install[k] \in Slots
    BY <2>1, <2>2, ElementOfSeq
  <2>4. /\ Report \in Seq(Slots) /\ Len(Report) = exes_index
        /\ \A k \in 1 .. exes_index : Report[k] = exes_to_install[k]
    <3>1. 1 \in Int /\ exes_index \in Int
      BY <2>1
    <3>2. /\ Report \in Seq(Slots)
          /\ Len(Report) = IF 1 <= exes_index THEN exes_index - 1 + 1 ELSE 0
          /\ \A k \in 1 .. exes_index - 1 + 1 : Report[k] = exes_to_install[1 + k - 1]
      BY <2>3, <3>1, SubSeqProperties DEF Report
    <3>3. exes_index - 1 + 1 = exes_index /\ \A k \in 1 .. exes_index : 1 + k - 1 = k
      BY <2>1
    <3>4. ~(1 <= exes_index) => exes_index = 0
      BY <2>1
    <3> QED
      BY <3>2, <3>3, <3>4
  <2>5. PICK k \in 1 .. exes_index : f = Report[k]
    BY <2>4, LenProperties DEF ToSet
  <2>6. InCall
    BY DEF InCall
  <2> QED
    BY <2>4, <2>5, <2>6 DEF IInv, ReportOK
<1> QED
  BY <1>1, InvCorrect, PTL

\* When nothing is reported of a PPD whose command line is analysed to its end, all that
\* it requires is installed.
THEOREM EmptyReportCorrect == Spec => []EmptyReportMeansComplete
<1>1. IInv => EmptyReportMeansComplete
  <2> SUFFICES ASSUME IInv, pc = "done", Analysable, Report = <<>> PROVE Missing(ppd) = {}
    BY DEF EmptyReportMeansComplete, Analysable
  <2>1. exes_to_install \in Seq(Slots) /\ exes_index \in 0 .. Len(exes_to_install)
    BY DEF IInv, TypeOK, Slots
  <2>2. exes_index = 0
    <3>1. \A k \in 1 .. exes_index : exes_to_install[k] \in Slots
      BY <2>1, ElementOfSeq, LenProperties
    <3>2. 1 \in Int /\ exes_index \in Int
      BY <2>1
    <3>3. Len(Report) = IF 1 <= exes_index THEN exes_index - 1 + 1 ELSE 0
      BY <3>1, <3>2, SubSeqProperties DEF Report
    <3>4. Len(Report) = 0
      BY EmptySeq
    <3> QED
      BY <2>1, <3>3, <3>4
  <2>3. CommandsThere /\ FiltersThere(Len(ppd.filters))
    BY <2>2 DEF IInv, CompleteOK, InCall
  <2>4. ppd.filters \in Seq(Executables \cup {Malformed})
    BY PPDForm DEF IInv, TypeOK
  <2> QED
    BY <2>3, <2>4, AllThere
<1> QED
  BY <1>1, InvCorrect, PTL

=============================================================================
