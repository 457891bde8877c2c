------------------------ MODULE MCMissingExecutables ------------------------
(***************************************************************************)
(* MissingExecutables for TLC: every PPD with up to two pipes, two         *)
(* commands a pipe and one filter line, over a few telling commands.       *)
(***************************************************************************)
EXTENDS MissingExecutables

MCExecutables == {"gs", "rip"}
MCCommands == {<<"rip">>, <<"gs", "option">>, <<"gs", "rip", "option">>, <<"gs", "rip">>}
MCPipes == BoundedSeq(MCCommands, 2) \ {<<>>}
MCCommandLines ==
    (BoundedSeq(MCPipes, 2) \ {<<>>}) \cup {NoCommandLine, Unsafe}
MCFilters == {<<>>, <<Malformed, "rip">>}
MCPPDs == [cmdline : MCCommandLines, filters : MCFilters]

=============================================================================
