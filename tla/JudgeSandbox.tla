---------------------------- MODULE JudgeSandbox ----------------------------
(***************************************************************************)
(* Sandbox::run, called by several threads of the judge at once: a pipe    *)
(* for the program's input and one for its output, fork, write the input,  *)
(* read the output to its end or to its limit, reap, and name a verdict.   *)
(*                                                                         *)
(* What the calls share is the descriptor table of the judge.  No pipe is  *)
(* opened with O_CLOEXEC, so a child keeps every descriptor the judge had  *)
(* when it was forked, those of the other calls included, until it dies.   *)
(*                                                                         *)
(* Input and output are counted in chunks.  A program is a script: "R"     *)
(* reads a chunk, "E" reads to the end of the input, "W" writes a chunk;   *)
(* then it ends in one of the ways of Endings.  The wall clock is not      *)
(* modelled: any program that exits may have taken too long.               *)
(***************************************************************************)
EXTENDS Integers, Sequences, FiniteSets

CONSTANTS
    Requests,   \* calls of Sandbox::run
    Others,     \* other children the judge forks, each with an output pipe
    Programs,   \* the programs they may be given: [ops, end]
    Inputs,     \* lengths the input may have
    PipeSize,   \* chunks a pipe holds
    OutMax,     \* limits_.output_bytes
    Faults      \* subset of FaultKinds

FaultKinds == {"pipe",     \* pipe() fails
               "cgroup",   \* create_cgroup throws before it makes the leaf
               "fork",     \* fork() fails
               "exec",     \* execv() or execvp() fails
               "dir",      \* create_directories fails for a run directory
               "remove"}   \* remove_all fails for a run directory

\* How a program ends; "spin" burns CPU until RLIMIT_CPU, "sleep" does not.
Endings == {"exit 0", "exit 1", "SIGSEGV", "spin", "sleep"}

ASSUME SandboxAssumption ==
    /\ "judge" \notin Requests \cup Others
    /\ Requests \cap Others = {}
    /\ Programs \subseteq [ops : Seq({"R", "E", "W"}), end : Endings]
    /\ Inputs \subseteq Nat
    /\ PipeSize \in Nat \ {0}
    /\ OutMax \in Nat
    /\ Faults \subseteq FaultKinds

VARIABLES
    judge,     \* the judge process: "up", or "dead" of a SIGPIPE
    pc,        \* where each call is
    fds,       \* descriptors of the judge and of each child: <<call, end>>
    inp,       \* chunks in each in_pipe
    outp,      \* chunks in each out_pipe
    unsent,    \* chunks write() still has to put into in_pipe
    captured,  \* chunks read from out_pipe
    verdict,   \* result.verdict
    leaves,    \* calls that have a cgroup of their own below the slice
    prog,      \* the program of each call
    input,     \* the length of its input
    ops,       \* what is left of its script
    child,     \* "none", "forked", "runs", "zombie" or "reaped"
    status     \* how the child ended

pipeVars  == <<inp, outp>>
childVars == <<ops, child, status>>
given     == <<prog, input>>
ownVars   == <<unsent, captured, verdict, leaves, prog, input>>
callVars  == <<judge, pc, ownVars>>
vars == <<judge, pc, fds, inp, outp, unsent, captured, verdict, leaves, prog,
          input, ops, child, status>>

Ends      == {"inR", "inW", "outR", "outW"}
Processes == {"judge"} \cup Requests \cup Others
PCs       == {"pipe in", "pipe out", "fork", "close inR", "close outW",
              "write", "close inW", "read", "kill", "close outR", "wait",
              "done"}
Statuses  == {"none", "exit 0", "exit 1", "exit 127", "SIGSEGV", "SIGKILL",
              "SIGPIPE"}
Verdicts  == {"IE", "AC", "TLE", "MLE", "OLE", "RE"}

Written(p) == Cardinality({i \in DOMAIN p.ops : p.ops[i] = "W"})

TypeOK ==
    /\ judge \in {"up", "dead"}
    /\ pc \in [Requests -> PCs]
    /\ fds \in [Processes -> SUBSET ((Requests \cup Others) \X Ends)]
    /\ inp \in [Requests -> 0 .. PipeSize]
    /\ outp \in [Requests -> 0 .. PipeSize]
    /\ unsent \in [Requests -> Nat]
    /\ captured \in [Requests -> 0 .. OutMax + 1]
    /\ verdict \in [Requests -> Verdicts]
    /\ leaves \subseteq Requests
    /\ prog \in [Requests -> Programs]
    /\ input \in [Requests -> Inputs]
    /\ ops \in [Requests -> Seq({"R", "E", "W"})]
    /\ child \in [Requests -> {"none", "forked", "runs", "zombie", "reaped"}]
    /\ status \in [Requests -> Statuses]

Init ==
    /\ judge = "up"
    /\ pc = [r \in Requests |-> "pipe in"]
    /\ fds = [p \in Processes |-> {}]
    /\ inp = [r \in Requests |-> 0]
    /\ outp = [r \in Requests |-> 0]
    /\ captured = [r \in Requests |-> 0]
    /\ verdict = [r \in Requests |-> "IE"]
    /\ leaves = {}
    /\ prog \in [Requests -> Programs]
    /\ input \in [Requests -> Inputs]
    /\ unsent = input
    /\ ops = [r \in Requests |-> prog[r].ops]
    /\ child = [r \in Requests |-> "none"]
    /\ status = [r \in Requests |-> "none"]

-----------------------------------------------------------------------------
(* Pipes.                                                                   *)

Open(r, end) == \E p \in Processes : <<r, end>> \in fds[p]

OpenedBy(p, set) == fds' = [fds EXCEPT ![p] = @ \cup set]
ClosedBy(p, set) == fds' = [fds EXCEPT ![p] = @ \ set]

\* A step of call r's thread from pc `from` to pc `to`.
At(r, from, to) ==
    /\ judge = "up"
    /\ pc[r] = from
    /\ pc' = [pc EXCEPT ![r] = to]

-----------------------------------------------------------------------------
(* The thread of a call.                                                    *)

Pipe(r) ==
    /\ \/ /\ At(r, "pipe in", "pipe out")
          /\ OpenedBy("judge", {<<r, "inR">>, <<r, "inW">>})
       \/ /\ At(r, "pipe out", "fork")
          /\ OpenedBy("judge", {<<r, "outR">>, <<r, "outW">>})
    /\ UNCHANGED <<judge, pipeVars, ownVars, childVars>>

\* create_cgroup makes a leaf named after the moment of the call, which nothing
\* ever removes; what it throws is swallowed, and a leaf whose limits could not
\* be written stays as well.
create_cgroup(r) ==
    \/ leaves' = leaves \cup {r}
    \/ "cgroup" \in Faults /\ UNCHANGED leaves

\* pipe() or fork() fails: InternalError, whatever is open stays open.
Refused(r) ==
    /\ \/ /\ "pipe" \in Faults
          /\ At(r, "pipe in", "done") \/ At(r, "pipe out", "done")
          /\ UNCHANGED leaves
       \/ /\ "fork" \in Faults
          /\ At(r, "fork", "done")
          /\ create_cgroup(r)
    /\ UNCHANGED <<judge, fds, pipeVars, unsent, captured, verdict, given,
                   childVars>>

\* create_cgroup, fork and attach; the groups' limits are those of the rlimits.
Fork(r) ==
    /\ At(r, "fork", "close inR")
    /\ create_cgroup(r)
    /\ fds' = [fds EXCEPT ![r] = fds["judge"]]
    /\ child' = [child EXCEPT ![r] = "forked"]
    /\ UNCHANGED <<judge, pipeVars, unsent, captured, verdict, given, ops,
                   status>>

\* The four close() calls, one by one: from which pc, which end, to which pc.
Closes == {<<"close inR", "inR", "close outW">>,
           <<"close outW", "outW", "write">>,
           <<"close inW", "inW", "read">>,
           <<"close outR", "outR", "wait">>}
Close(r) ==
    /\ \E c \in Closes : At(r, c[1], c[3]) /\ ClosedBy("judge", {<<r, c[2]>>})
    /\ UNCHANGED <<judge, pipeVars, ownVars, childVars>>

\* write() blocks while the pipe is full.
WriteInput(r) ==
    /\ unsent[r] > 0
    /\ Open(r, "inR")
    /\ inp[r] < PipeSize
    /\ At(r, "write", "write")
    /\ inp' = [inp EXCEPT ![r] = @ + 1]
    /\ unsent' = [unsent EXCEPT ![r] = @ - 1]
    /\ UNCHANGED <<judge, fds, outp, captured, verdict, leaves, given,
                   childVars>>

InputWritten(r) ==
    /\ unsent[r] = 0
    /\ At(r, "write", "close inW")
    /\ UNCHANGED <<judge, fds, pipeVars, ownVars, childVars>>

\* Nobody can read the input any more: SIGPIPE, which nothing ignores, ends
\* the judge and with it every call.
InputRefused(r) ==
    /\ judge = "up"
    /\ pc[r] = "write"
    /\ unsent[r] > 0
    /\ ~Open(r, "inR")
    /\ judge' = "dead"
    /\ fds' = [fds EXCEPT !["judge"] = {}]
    /\ UNCHANGED <<pc, pipeVars, ownVars, childVars>>

OverLimit(n) == n > OutMax

ReadOutput(r) ==
    /\ outp[r] > 0
    /\ At(r, "read", IF OverLimit(captured[r] + 1) THEN "kill" ELSE "read")
    /\ outp' = [outp EXCEPT ![r] = @ - 1]
    /\ captured' = [captured EXCEPT ![r] = @ + 1]
    /\ UNCHANGED <<judge, fds, inp, unsent, verdict, leaves, given, childVars>>

\* read() returns 0.
\* (mutant) the loop ends when the child does.
EndOfOutputEarly(r) == child[r] = "zombie"
EndOfOutput(r) == outp[r] = 0 /\ ~Open(r, "outW")

OutputRead(r) ==
    /\ EndOfOutput(r)
    /\ At(r, "read", "close outR")
    /\ UNCHANGED <<judge, fds, pipeVars, ownVars, childVars>>

\* kill(pid, SIGKILL): a child that has ended by itself is not changed by it.
Kill(r) ==
    /\ At(r, "kill", "close outR")
    /\ verdict' = [verdict EXCEPT ![r] = "OLE"]
    /\ IF child[r] = "zombie"
       THEN UNCHANGED <<fds, child, status>>
       ELSE /\ child' = [child EXCEPT ![r] = "zombie"]
            /\ status' = [status EXCEPT ![r] = "SIGKILL"]
            /\ fds' = [fds EXCEPT ![r] = {}]
    /\ UNCHANGED <<judge, pipeVars, unsent, captured, leaves, given, ops>>

\* The verdicts a wait status leads to.
Judged(st) ==
    CASE st = "SIGKILL" -> {"MLE"}
      [] st \in {"SIGSEGV", "SIGPIPE"} -> {"RE"}
      [] st \in {"exit 1", "exit 127"} -> {"RE", "TLE"}
      [] OTHER -> {"AC", "TLE"}

\* (mutant) WNOHANG.
ReapHasty(r) ==
    /\ At(r, "wait", "done")
    /\ verdict' = [verdict EXCEPT ![r] = IF @ = "OLE" THEN @ ELSE "AC"]
    /\ UNCHANGED <<judge, fds, pipeVars, unsent, captured, leaves, given,
                   childVars>>

\* waitpid; the verdict of an output over the limit stands.
Reap(r) ==
    /\ child[r] = "zombie"
    /\ At(r, "wait", "done")
    /\ child' = [child EXCEPT ![r] = "reaped"]
    /\ \E v \in Judged(status[r]) :
          verdict' = [verdict EXCEPT ![r] = IF @ = "OLE" THEN @ ELSE v]
    /\ UNCHANGED <<judge, fds, pipeVars, unsent, captured, leaves, given, ops,
                   status>>

-----------------------------------------------------------------------------
(* The child of a call.                                                     *)

\* dup2 onto 0, 1 and 2, close the parent's ends, limits, execv.
ChildCloses(r) == {<<r, "inW">>, <<r, "outR">>}

Exec(r) ==
    /\ child[r] = "forked"
    /\ ClosedBy(r, ChildCloses(r))
    /\ child' = [child EXCEPT ![r] = "runs"]
    /\ UNCHANGED <<callVars, pipeVars, ops, status>>

Dies(r, st) ==
    /\ child' = [child EXCEPT ![r] = "zombie"]
    /\ status' = [status EXCEPT ![r] = st]
    /\ fds' = [fds EXCEPT ![r] = {}]
    /\ UNCHANGED <<callVars, pipeVars, ops>>

ExecFails(r) ==
    /\ "exec" \in Faults
    /\ child[r] = "forked"
    /\ Dies(r, "exit 127")

Next1(r) == ops' = [ops EXCEPT ![r] = Tail(@)]

ReadsChunk(r) ==
    /\ child[r] = "runs"
    /\ ops[r] # <<>>
    /\ Head(ops[r]) \in {"R", "E"}
    /\ inp[r] > 0
    /\ inp' = [inp EXCEPT ![r] = @ - 1]
    /\ IF Head(ops[r]) = "R" THEN Next1(r) ELSE UNCHANGED ops
    /\ UNCHANGED <<callVars, fds, outp, child, status>>

ReadsEof(r) ==
    /\ child[r] = "runs"
    /\ ops[r] # <<>>
    /\ Head(ops[r]) \in {"R", "E"}
    /\ inp[r] = 0
    /\ ~Open(r, "inW")
    /\ Next1(r)
    /\ UNCHANGED <<callVars, fds, pipeVars, child, status>>

WritesChunk(r) ==
    /\ child[r] = "runs"
    /\ ops[r] # <<>>
    /\ Head(ops[r]) = "W"
    /\ Open(r, "outR")
    /\ outp[r] < PipeSize
    /\ outp' = [outp EXCEPT ![r] = @ + 1]
    /\ Next1(r)
    /\ UNCHANGED <<callVars, fds, inp, child, status>>

WriteRefused(r) ==
    /\ child[r] = "runs"
    /\ ops[r] # <<>>
    /\ Head(ops[r]) = "W"
    /\ ~Open(r, "outR")
    /\ Dies(r, "SIGPIPE")

\* RLIMIT_CPU has the same soft and hard limit: the kernel sends SIGKILL.
Finish(r) ==
    /\ child[r] = "runs"
    /\ ops[r] = <<>>
    /\ prog[r].end # "sleep"
    /\ Dies(r, IF prog[r].end = "spin" THEN "SIGKILL" ELSE prog[r].end)

-----------------------------------------------------------------------------

Run(r) == \/ Pipe(r)
          \/ Refused(r)
          \/ Fork(r)
          \/ Close(r)
          \/ WriteInput(r)
          \/ InputWritten(r)
          \/ InputRefused(r)
          \/ ReadOutput(r)
          \/ OutputRead(r)
          \/ Kill(r)
          \/ Reap(r)

Program(r) == \/ Exec(r)
              \/ ExecFails(r)
              \/ ReadsChunk(r)
              \/ ReadsEof(r)
              \/ WritesChunk(r)
              \/ WriteRefused(r)
              \/ Finish(r)

Next == \E r \in Requests : Run(r) \/ Program(r)

Spec == Init /\ [][Next]_vars

\* The scheduler runs every thread and every child that is not blocked.
FairSpec == Spec /\ \A r \in Requests : WF_vars(Run(r)) /\ WF_vars(Program(r))

-----------------------------------------------------------------------------

(* The verdict is about this call's own program, whatever descriptors other
   children have inherited: an accepted run is one that exited with 0 and whose
   output was captured to the last chunk, an exceeded output limit was really
   exceeded, and the other verdicts go with the way the program ended. *)
VerdictIsOwn ==
    \A r \in Requests : pc[r] = "done" =>
        /\ verdict[r] = "AC" => /\ prog[r].end = "exit 0"
                                /\ status[r] = "exit 0"
                                /\ captured[r] = Written(prog[r])
        /\ verdict[r] = "OLE" => Written(prog[r]) > OutMax
        /\ verdict[r] = "MLE" => prog[r].end = "spin"
        /\ verdict[r] = "RE" => \/ prog[r].end \in {"exit 1", "SIGSEGV"}
                                \/ status[r] = "exit 127"

\* The ends of a call's pipes that the judge has open.
OpenEnds(r) == {end \in Ends : <<r, end>> \in fds["judge"]}

(* What a call leaves behind when it comes back, and nothing else.  After a
   verdict of its program there is no descriptor, no child and no zombie of it,
   only its cgroup.  After InternalError there is no child; the pipes it had
   opened stay open, both ends of them, as long as the judge lives, and once
   both were open so may stay its cgroup. *)
NothingElseLeft ==
    \A r \in Requests : pc[r] = "done" =>
        IF verdict[r] # "IE"
        THEN /\ child[r] = "reaped"
             /\ OpenEnds(r) = {}
             /\ r \in leaves \/ "cgroup" \in Faults
        ELSE /\ child[r] = "none"
             /\ OpenEnds(r) \in {{}, {"inR", "inW"}, Ends}
             /\ r \in leaves /\ judge = "up" => OpenEnds(r) = Ends

\* SIGPIPE has ended the judge: it was writing to a program that has ended before
\* it read its input.
DiedOfUnreadInput ==
    /\ judge = "dead"
    /\ \E r \in Requests :
          /\ pc[r] = "write"
          /\ unsent[r] > 0
          /\ status[r] # "none"

\* Programs that cannot hold up the call themselves: they end, and either the
\* input or the output fits into a pipe (the call writes first, then reads).
Finishes(r) ==
    /\ prog[r].end # "sleep"
    /\ input[r] <= PipeSize \/ Written(prog[r]) <= PipeSize

\* Reads of the program that only the end of the input can satisfy.
NeedsEof(r) ==
    \/ \E i \in DOMAIN prog[r].ops : prog[r].ops[i] = "E"
    \/ Cardinality({i \in DOMAIN prog[r].ops : prog[r].ops[i] = "R"}) > input[r]

Returned(r) == pc[r] = "done" \/ judge = "dead"

(* "no race between concurrent gRPC requests sharing the same Runner instance"
   (runner.cpp:92-93): calls side by side return as they do alone. *)
ReturnsTogether == \A r \in Requests :
    (\A q \in Requests : Finishes(q)) ~> Returned(r)

=============================================================================
