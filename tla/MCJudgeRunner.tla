--------------------------- MODULE MCJudgeRunner ---------------------------
(* JudgeRunner with a handful of programs and the submissions made of them. *)
EXTENDS JudgeRunner

CONSTANTS s1, s2, r1, r2, r3

MCSlurp == [ops |-> <<"E", "W">>, end |-> "exit 0"]
MCPrint == [ops |-> <<"W", "W">>, end |-> "exit 0"]
MCSpam  == [ops |-> <<"W", "W", "W", "W">>, end |-> "exit 0"]
MCCrash == [ops |-> <<"R">>, end |-> "SIGSEGV"]
MCSpin  == [ops |-> <<>>, end |-> "spin"]
MCSleep == [ops |-> <<"W">>, end |-> "sleep"]

MCAll   == {MCSlurp, MCPrint, MCSpam, MCCrash, MCSpin, MCSleep}
MCRight == {MCSlurp, MCSpam}
MCCalls == [s \in Others |-> IF s = s1 THEN <<r1, r2>> ELSE <<r3>>]

\* One case of any kind beside a program that waits for the end of its input,
\* which is the one that notices what others have inherited; two cases in a row
\* beside a submission that has none, which only compiles.
MCStarts ==
    /\ prog[r3] = MCSlurp
    /\ input[r3] = 0
    /\ \/ /\ Len(cases[s1]) = 1 /\ Len(cases[s2]) = 1
          /\ prog[r2] = MCSlurp /\ input[r2] = 0
          /\ prog[r1] # MCPrint
          /\ input[r1] > 0 <=> prog[r1] \in {MCSlurp, MCCrash}
       \/ /\ Len(cases[s1]) = 2 /\ Len(cases[s2]) = 0
          /\ <<prog[r1], prog[r2]>> \in {<<MCPrint, MCSlurp>>,
                                        <<MCCrash, MCPrint>>}
          /\ input[r1] + input[r2] = 0

MCInit == ServerInit /\ MCStarts

\* One failure of a call's pipe(), fork(), execv() or cgroup, or of a remove_all,
\* in a behaviour; the other alternative is always there, so no thread is held
\* up by the bound.
MCFailed ==
    {r \in Requests : pc[r] = "done" /\ verdict[r] = "IE"}
       \cup {r \in Requests : status[r] = "exit 127"}
       \cup {r \in Requests : child[r] # "none" /\ r \notin leaves}
MCFewFaults == Cardinality(MCFailed) + Cardinality(unremoved) <= 1

MCNext == ServerNext /\ MCFewFaults'

MCSpec == MCInit /\ [][MCNext]_allVars /\ ServerFairness
=============================================================================
