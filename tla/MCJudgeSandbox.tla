--------------------------- MODULE MCJudgeSandbox ---------------------------
(* JudgeSandbox with a handful of programs.                                 *)
EXTENDS JudgeSandbox

MCSlurp == [ops |-> <<"E", "W">>, end |-> "exit 0"]
MCPrint == [ops |-> <<"W", "W">>, end |-> "exit 0"]
MCSpam  == [ops |-> <<"W", "W", "W", "W">>, end |-> "exit 0"]
MCCrash == [ops |-> <<"R">>, end |-> "SIGSEGV"]
MCSpin  == [ops |-> <<>>, end |-> "spin"]
MCSleep == [ops |-> <<"W">>, end |-> "sleep"]

MCAll  == {MCSlurp, MCPrint, MCSpam, MCCrash, MCSpin, MCSleep}
MCEof  == {MCSlurp}
=============================================================================
