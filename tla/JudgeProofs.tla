---------------------------- MODULE JudgeProofs ----------------------------
(***************************************************************************)
(* Theorems about JudgeSandbox and JudgeRunner: any number of submissions  *)
(* and calls of the sandbox, any programs and inputs, any size of a pipe,  *)
(* any output limit, any faults.                                           *)
(***************************************************************************)
EXTENDS JudgeRunner, FiniteSetTheorems, SequenceTheorems, TLAPS

Steps == {"R", "E", "W"}

\* The chunks a script has still to write.
ToWrite(s) == Cardinality({i \in DOMAIN s : s[i] = "W"})

\* Where a call's thread is while the judge holds an end of its pipes.
OpenAt(end) ==
    CASE end = "inR"  -> {"pipe out", "fork", "close inR"}
      [] end = "inW"  -> {"pipe out", "fork", "close inR", "close outW",
                          "write", "close inW"}
      [] end = "outR" -> {"fork", "close inR", "close outW", "write",
                          "close inW", "read", "kill", "close outR"}
      [] end = "outW" -> {"fork", "close inR", "close outW"}

BeforeFork == {"pipe in", "pipe out", "fork"}
BeforeEnd  == PCs \ {"kill", "close outR", "wait", "done"}

\* The judge holds the ends that the call has open, and none when it is dead.
EndsInv(r) ==
    /\ judge = "dead" => fds["judge"] = {}
    /\ judge = "up" /\ (pc[r] = "done" => child[r] # "none") =>
          \A end \in Ends : <<r, end>> \in fds["judge"] <=> pc[r] \in OpenAt(end)

\* The child is there from fork to waitpid, and can write until it dies.
ChildInv(r) ==
    /\ pc[r] \in BeforeFork => child[r] = "none"
    /\ pc[r] \notin BeforeFork \cup {"done"} =>
          child[r] \in {"forked", "runs", "zombie"}
    /\ pc[r] = "done" => child[r] \in {"none", "reaped"}
    /\ child[r] \in {"forked", "runs"} => <<r, "outW">> \in fds[r]

\* How it ended tells what it did.
StatusInv(r) ==
    /\ child[r] \in {"zombie", "reaped"} <=> status[r] # "none"
    /\ status[r] = "exit 0" => ops[r] = <<>> /\ prog[r].end = "exit 0"
    /\ status[r] \in {"exit 1", "SIGSEGV"} => prog[r].end = status[r]
    /\ status[r] = "SIGKILL" => prog[r].end = "spin" \/ verdict[r] = "OLE"
    /\ status[r] = "SIGPIPE" => judge = "dead" /\ pc[r] # "done"

\* What is written, in the pipe and captured is the whole output.
OutputInv(r) ==
    /\ captured[r] + outp[r] + ToWrite(ops[r]) = Written(prog[r])
    /\ pc[r] \in BeforeEnd => captured[r] <= OutMax
    /\ pc[r] = "kill" \/ verdict[r] = "OLE" => captured[r] > OutMax
    /\ pc[r] \in {"close outR", "wait", "done"} /\ child[r] # "none"
       /\ verdict[r] # "OLE" => outp[r] = 0
    /\ pc[r] \in {"close outR", "wait"} => child[r] = "zombie"

VerdictInv(r) ==
    /\ pc[r] # "done" => verdict[r] \in {"IE", "OLE"}
    /\ pc[r] \in BeforeEnd \cup {"kill"} => verdict[r] = "IE"
    /\ pc[r] = "done" =>
          IF child[r] = "none" THEN verdict[r] = "IE"
          ELSE verdict[r] = "OLE" \/ verdict[r] \in Judged(status[r])

CallInv(r) ==
    /\ EndsInv(r)
    /\ ChildInv(r)
    /\ StatusInv(r)
    /\ OutputInv(r)
    /\ VerdictInv(r)

\* Its cgroup is made where it forks; a call that forked nothing keeps the ends of
\* the pipes it had made, and has a cgroup only if it had made both.
LeafInv(r) ==
    /\ pc[r] \in BeforeFork => r \notin leaves
    /\ child[r] # "none" => r \in leaves \/ "cgroup" \in Faults
    /\ judge = "up" /\ pc[r] = "done" /\ child[r] = "none" =>
          /\ OpenEnds(r) \in {{}, {"inR", "inW"}, Ends}
          /\ r \in leaves => OpenEnds(r) = Ends

SandboxInv == TypeOK /\ \A r \in Requests : CallInv(r) /\ LeafInv(r)

BeforeCompiler == {"mkdir", "source", "log pipe", "fork"}
Compiling      == {"close logW", "log", "close logR", "wait"}
Working        == JPCs \ {"mkdir", "reply", "done"}

\* Every request takes the next number, so no two have the same directory.
NumbersInv ==
    /\ counter = Cardinality({s \in Submissions : jpc[s] # "mkdir"})
    /\ \A s \in Submissions : /\ run_dir[s] <= counter
                              /\ jpc[s] = "mkdir" => run_dir[s] = 0
    /\ \A s, t \in Submissions :
          s # t /\ run_dir[s] = run_dir[t] => run_dir[s] = 0

\* A request at work has its directory, and in it what it put there; after that
\* only the directory that could not be removed is there.
DirInv(s) ==
    /\ run_dir[s] \in dirs <=> jpc[s] \in Working \/ s \in unremoved
    /\ s \in unremoved => jpc[s] \in {"reply", "done"}
    /\ jpc[s] \in Working \ {"source"} => source[run_dir[s]] = s
    /\ jpc[s] \in Compiling \cup {"cases"} /\ cc[s] \in {"zombie", "reaped"}
       /\ cc_ok[s] => binary[run_dir[s]] = s

\* The compiler is there from fork to waitpid; the ends of its log are open
\* where the thread has not closed them.
CompilerInv(s) ==
    /\ jpc[s] \in BeforeCompiler => cc[s] = "none"
    /\ jpc[s] \in Compiling => cc[s] \in {"forked", "runs", "zombie"}
    /\ jpc[s] = "cases" => cc[s] = "reaped" /\ cc_ok[s]
    /\ jpc[s] \in {"reply", "done"} => cc[s] \in {"none", "reaped"}
    /\ \A end \in Ends : <<s, end>> \in fds["judge"] =>
          \/ end = "outW" /\ jpc[s] \in {"fork", "close logW"}
          \/ end = "outR" /\ jpc[s] \in {"fork", "close logW", "log", "close logR"}

\* The verdicts so far are those of the cases so far, and the overall verdict is
\* the first of them that is not AC.
CasesInv(s) ==
    /\ Len(per_case[s]) <= Len(cases[s])
    /\ \A i \in 1 .. Len(per_case[s]) :
          /\ pc[cases[s][i]] = "done"
          /\ per_case[s][i] = CaseVerdict(cases[s][i])
    /\ \/ /\ overall[s] = "AC"
          /\ \A i \in 1 .. Len(per_case[s]) : per_case[s][i] = "AC"
       \/ /\ overall[s] \notin {"AC", "CE"}
          /\ \E i \in 1 .. Len(per_case[s]) :
                /\ per_case[s][i] = overall[s]
                /\ \A j \in 1 .. i - 1 : per_case[s][j] = "AC"

ResultInv(s) ==
    /\ cc[s] # "reaped" => overall[s] = "IE" /\ per_case[s] = <<>>
    /\ cc[s] = "reaped" /\ ~cc_ok[s] => overall[s] = "CE"
    /\ cc[s] = "reaped" /\ cc_ok[s] =>
          /\ CasesInv(s)
          /\ jpc[s] # "cases" => Len(per_case[s]) = Len(cases[s])

JobInv(s) ==
    /\ DirInv(s)
    /\ CompilerInv(s)
    /\ ResultInv(s)

RunnerInv ==
    /\ RunnerTypeOK
    /\ SandboxInv
    /\ NumbersInv
    /\ \A s \in Submissions : JobInv(s)

-----------------------------------------------------------------------------
(* Scripts.                                                                 *)

LEMMA ToWriteType ==
    ASSUME NEW s \in Seq(Steps)
    PROVE  /\ IsFiniteSet({i \in DOMAIN s : s[i] = "W"})
           /\ ToWrite(s) \in Nat
           /\ s = <<>> => ToWrite(s) = 0
<1>1. IsFiniteSet(1 .. Len(s)) /\ DOMAIN s = 1 .. Len(s)
    BY FS_Interval
<1>2. IsFiniteSet({i \in DOMAIN s : s[i] = "W"})
    BY <1>1, FS_Subset
<1>3. s = <<>> => {i \in DOMAIN s : s[i] = "W"} = {}
    BY <1>1
<1>4. QED
    BY <1>2, <1>3, FS_CardinalityType, FS_EmptySet DEF ToWrite

(* A step that is done is not to be done any more, and a write counted once. *)
LEMMA ToWriteTail ==
    ASSUME NEW s \in Seq(Steps), s # <<>>
    PROVE  ToWrite(s) = ToWrite(Tail(s)) + (IF Head(s) = "W" THEN 1 ELSE 0)
<1> DEFINE W == {i \in DOMAIN s : s[i] = "W"}
           V == {i \in DOMAIN Tail(s) : Tail(s)[i] = "W"}
           f == [i \in V |-> i + 1]
<1>1. /\ DOMAIN s = 1 .. Len(s) /\ Len(s) \in Nat \ {0}
      /\ Tail(s) \in Seq(Steps) /\ Head(s) = s[1]
      /\ DOMAIN Tail(s) = 1 .. Len(s) - 1
      /\ \A i \in 1 .. Len(s) - 1 : Tail(s)[i] = s[i + 1]
    OBVIOUS
<1>2. V \subseteq Nat /\ W \subseteq Nat
    BY <1>1
<1>3. f \in Bijection(V, W \ {1})
    <2>1. \A i \in V : i + 1 \in W \ {1}
        BY <1>1, <1>2
    <2>2. \A j \in W \ {1} : j - 1 \in V /\ f[j - 1] = j
        BY <1>1, <1>2
    <2>3. \A i, j \in V : f[i] = f[j] => i = j
        BY <1>2
    <2>4. f \in [V -> W \ {1}]
        BY <2>1
    <2> HIDE DEF f, V, W
    <2>5. f \in Surjection(V, W \ {1})
        <3>1. \A j \in W \ {1} : \E i \in V : f[i] = j
            BY <2>2
        <3>2. QED
            BY <2>4, <3>1 DEF Surjection
    <2>6. QED
        BY <2>3, <2>4, <2>5 DEF Bijection, Injection, IsInjective
<1>4. IsFiniteSet(V) /\ IsFiniteSet(W) /\ Cardinality(W) \in Nat
    BY <1>1, ToWriteType DEF ToWrite
<1>5. Cardinality(W \ {1}) = Cardinality(V)
    <2> HIDE DEF f, V, W
    <2>1. ExistsBijection(V, W \ {1})
        BY <1>3 DEF ExistsBijection
    <2>2. QED
        BY <1>4, <2>1, FS_Bijection
<1>6. 1 \in W <=> Head(s) = "W"
    BY <1>1
<1>7. Cardinality(W) = Cardinality(V) + (IF 1 \in W THEN 1 ELSE 0)
    <2> HIDE DEF V, W
    <2>1. Cardinality(W \ {1}) = IF 1 \in W THEN Cardinality(W) - 1 ELSE Cardinality(W)
        BY <1>4, FS_RemoveElement
    <2>2. QED
        BY <1>4, <1>5, <2>1
<1>8. QED
    BY <1>6, <1>7 DEF ToWrite

-----------------------------------------------------------------------------
(* Types.                                                                   *)

LEMMA InitTypeOK == Init => TypeOK
<1> SUFFICES ASSUME Init PROVE TypeOK
    OBVIOUS
<1>1. \A r \in Requests : prog[r].ops \in Seq(Steps)
    <2>1. \A r \in Requests : prog[r] \in Programs
        BY DEF Init
    <2>2. \A p \in Programs : p.ops \in Seq(Steps)
        BY SandboxAssumption DEF Steps
    <2>3. QED
        BY <2>1, <2>2
<1>2. ops \in [Requests -> Seq(Steps)]
    BY <1>1 DEF Init
<1>3. unsent \in [Requests -> Nat]
    <2>1. unsent \in [Requests -> Inputs] /\ Inputs \subseteq Nat
        BY SandboxAssumption DEF Init
    <2>2. QED
        BY <2>1
<1>4. /\ inp \in [Requests -> 0 .. PipeSize]
      /\ outp \in [Requests -> 0 .. PipeSize]
      /\ captured \in [Requests -> 0 .. OutMax + 1]
    <2>1. 0 \in 0 .. PipeSize /\ 0 \in 0 .. OutMax + 1
        BY SandboxAssumption
    <2>2. QED
        BY <2>1 DEF Init
<1>5. fds \in [Processes -> SUBSET ((Requests \cup Others) \X Ends)]
    BY DEF Init
<1>6. QED
    BY <1>2, <1>3, <1>4, <1>5 DEF Init, TypeOK, PCs, Verdicts, Statuses, Steps

\* How the descriptor table changes keeps its type.
LEMMA FdsType ==
    ASSUME TypeOK, NEW p \in Processes,
           NEW set \in SUBSET ((Requests \cup Others) \X Ends)
    PROVE  /\ OpenedBy(p, set) \/ ClosedBy(p, set) \/ fds' = [fds EXCEPT ![p] = set] =>
                 fds' \in [Processes -> SUBSET ((Requests \cup Others) \X Ends)]
           /\ OpenedBy(p, set) => fds'[p] = fds[p] \cup set
           /\ ClosedBy(p, set) => fds'[p] = fds[p] \ set
           /\ OpenedBy(p, set) \/ ClosedBy(p, set) \/ fds' = [fds EXCEPT ![p] = set] =>
                 \A q \in Processes : q # p => fds'[q] = fds[q]
BY DEF TypeOK, OpenedBy, ClosedBy

LEMMA ClosesType ==
    ASSUME NEW c \in Closes
    PROVE  /\ c[1] # "done" /\ c[2] \in Ends /\ c[3] \in PCs
           /\ c[1] \notin BeforeFork \cup {"done"}
           /\ c[3] \notin BeforeFork \cup {"done"}
<1>1. \/ c = <<"close inR", "inR", "close outW">>
      \/ c = <<"close outW", "outW", "write">>
      \/ c = <<"close inW", "inW", "read">>
      \/ c = <<"close outR", "outR", "wait">>
    BY DEF Closes
<1>2. CASE c = <<"close inR", "inR", "close outW">>
    BY <1>2 DEF Ends, PCs, BeforeFork
<1>3. CASE c = <<"close outW", "outW", "write">>
    BY <1>3 DEF Ends, PCs, BeforeFork
<1>4. CASE c = <<"close inW", "inW", "read">>
    BY <1>4 DEF Ends, PCs, BeforeFork
<1>5. CASE c = <<"close outR", "outR", "wait">>
    BY <1>5 DEF Ends, PCs, BeforeFork
<1>6. QED
    BY <1>1, <1>2, <1>3, <1>4, <1>5

LEMMA CallTypeOK ==
    ASSUME TypeOK, NEW r \in Requests, CallInv(r), Run(r) \/ Program(r)
    PROVE  TypeOK'
<1> USE SandboxAssumption DEF TypeOK
<1>1. /\ {r, "judge"} \subseteq Processes
      /\ \A end \in Ends : {<<r, end>>} \subseteq (Requests \cup Others) \X Ends
      /\ {"inR", "inW", "outR", "outW"} \subseteq Ends
    BY DEF Processes, Ends
<1>2. captured[r] + 1 \in 0 .. OutMax + 1 \/ pc[r] # "read"
    <2>1. pc[r] = "read" => captured[r] <= OutMax
        BY DEF CallInv, OutputInv, BeforeEnd, PCs
    <2>2. captured[r] \in Nat /\ OutMax \in Nat
        OBVIOUS
    <2>3. QED
        BY <2>1, <2>2
<1>3. CASE Pipe(r)
    BY <1>1, <1>3, FdsType DEF Pipe, At, PCs, pipeVars, ownVars, childVars
<1>4. CASE Refused(r)
    BY <1>4 DEF Refused, create_cgroup, At, PCs, pipeVars, given, childVars
<1>5. CASE Fork(r)
    BY <1>1, <1>5 DEF Fork, create_cgroup, At, PCs, pipeVars, given
<1>6. CASE Close(r)
    <2>1. PICK c \in Closes : At(r, c[1], c[3]) /\ ClosedBy("judge", {<<r, c[2]>>})
        BY <1>6 DEF Close
    <2>2. c[2] \in Ends /\ c[3] \in PCs
        BY ClosesType
    <2>3. QED
        BY <1>1, <1>6, <2>1, <2>2, FdsType
           DEF Close, At, pipeVars, ownVars, childVars
<1>7. CASE WriteInput(r)
    <2>1. inp[r] + 1 \in 0 .. PipeSize /\ unsent[r] - 1 \in Nat
        BY <1>7 DEF WriteInput
    <2>2. QED
        BY <1>7, <2>1 DEF WriteInput, At, PCs, given, childVars
<1>8. CASE InputWritten(r)
    BY <1>8 DEF InputWritten, At, PCs, pipeVars, ownVars, childVars
<1>9. CASE InputRefused(r)
    BY <1>9 DEF InputRefused, pipeVars, ownVars, childVars
<1>10. CASE ReadOutput(r)
    <2>1. outp[r] - 1 \in 0 .. PipeSize /\ captured[r] + 1 \in 0 .. OutMax + 1
        BY <1>2, <1>10 DEF ReadOutput, At
    <2>2. QED
        BY <1>10, <2>1 DEF ReadOutput, At, PCs, given, childVars
<1>11. CASE OutputRead(r)
    BY <1>11 DEF OutputRead, At, PCs, pipeVars, ownVars, childVars
<1>12. CASE Kill(r)
    BY <1>12 DEF Kill, At, PCs, Verdicts, Statuses, pipeVars, given
<1>13. CASE Reap(r)
    <2>1. Judged(status[r]) \subseteq Verdicts
        BY DEF Judged, Verdicts
    <2>2. verdict' \in [Requests -> Verdicts]
        BY <1>13, <2>1 DEF Reap
    <2>3. QED
        BY <1>13, <2>2 DEF Reap, At, PCs, pipeVars, given
<1>14. CASE Exec(r)
    BY <1>1, <1>14, FdsType DEF Exec, ChildCloses, callVars, pipeVars, ownVars
<1>15. ASSUME NEW st \in Statuses, Dies(r, st) PROVE TypeOK'
    BY <1>15 DEF Dies, callVars, pipeVars, ownVars
<1>16. CASE ReadsChunk(r)
    <2>1. inp[r] - 1 \in 0 .. PipeSize
        BY <1>16 DEF ReadsChunk
    <2>2. ops' \in [Requests -> Seq({"R", "E", "W"})]
        <3>1. Tail(ops[r]) \in Seq({"R", "E", "W"})
            BY <1>16 DEF ReadsChunk
        <3>2. ops' \in {ops, [ops EXCEPT ![r] = Tail(ops[r])]}
            BY <1>16 DEF ReadsChunk, Next1
        <3>3. QED
            BY <3>1, <3>2
    <2>3. inp' \in [Requests -> 0 .. PipeSize]
        BY <1>16, <2>1 DEF ReadsChunk
    <2>4. QED
        BY <1>16, <2>2, <2>3 DEF ReadsChunk, callVars, ownVars
<1>17. CASE ReadsEof(r)
    BY <1>17 DEF ReadsEof, Next1, callVars, pipeVars, ownVars
<1>18. CASE WritesChunk(r)
    <2>1. Tail(ops[r]) \in Seq({"R", "E", "W"})
        BY <1>18 DEF WritesChunk
    <2>2. ops' \in [Requests -> Seq({"R", "E", "W"})]
        BY <1>18, <2>1 DEF WritesChunk, Next1
    <2>3. outp' \in [Requests -> 0 .. PipeSize]
        BY <1>18 DEF WritesChunk
    <2>4. QED
        BY <1>18, <2>2, <2>3 DEF WritesChunk, callVars, ownVars
<1>19. CASE ExecFails(r) \/ WriteRefused(r) \/ Finish(r)
    <2>1. prog[r].end \in Endings
        OBVIOUS
    <2>2. QED
        BY <1>15, <1>19, <2>1 DEF ExecFails, WriteRefused, Finish, Endings, Statuses
<1>20. QED
    BY <1>3, <1>4, <1>5, <1>6, <1>7, <1>8, <1>9, <1>10, <1>11, <1>12, <1>13, <1>14,
       <1>16, <1>17, <1>18, <1>19 DEF Run, Program

-----------------------------------------------------------------------------
(* Calls side by side.                                                      *)

LEMMA OpenAtIs ==
    /\ OpenAt("inR") = {"pipe out", "fork", "close inR"}
    /\ OpenAt("inW") = {"pipe out", "fork", "close inR", "close outW", "write",
                        "close inW"}
    /\ OpenAt("outR") = {"fork", "close inR", "close outW", "write", "close inW",
                         "read", "kill", "close outR"}
    /\ OpenAt("outW") = {"fork", "close inR", "close outW"}
BY DEF OpenAt

(* What does not touch a call's own variables, its child's descriptors and its
   pipes in the judge's table leaves its invariant, also when the judge dies. *)
LEMMA Undisturbed ==
    ASSUME NEW r \in Requests, CallInv(r),
           UNCHANGED <<pc[r], outp[r], captured[r], verdict[r], prog, ops[r],
                       child[r], status[r], fds[r]>>,
           \/ /\ judge' = judge
              /\ judge = "dead" => fds'["judge"] = {}
              /\ \A end \in Ends :
                    <<r, end>> \in fds'["judge"] <=> <<r, end>> \in fds["judge"]
           \/ judge' = "dead" /\ fds'["judge"] = {}
    PROVE  CallInv(r)'
<1>1. EndsInv(r)'
    BY DEF CallInv, EndsInv
<1>2. ChildInv(r)'
    BY DEF CallInv, ChildInv
<1>3. StatusInv(r)'
    BY DEF CallInv, StatusInv
<1>4. OutputInv(r)'
    BY DEF CallInv, OutputInv
<1>5. VerdictInv(r)'
    BY DEF CallInv, VerdictInv
<1>6. QED
    BY <1>1, <1>2, <1>3, <1>4, <1>5 DEF CallInv

(* A step of another call is none of this one's business. *)
LEMMA OtherCall ==
    ASSUME TypeOK, NEW r \in Requests, CallInv(r), NEW q \in Requests, q # r,
           Run(q) \/ Program(q)
    PROVE  CallInv(r)'
<1> USE SandboxAssumption DEF TypeOK
<1>1. /\ {r, q, "judge"} \subseteq Processes /\ "judge" \notin {r, q}
      /\ \A p \in Processes : fds[p] \subseteq (Requests \cup Others) \X Ends
    BY DEF Processes
<1>2. UNCHANGED <<pc[r], outp[r], captured[r], verdict[r], prog, ops[r],
                  child[r], status[r]>>
    <2>1. CASE Pipe(q) \/ Refused(q) \/ Fork(q) \/ InputWritten(q) \/ OutputRead(q)
               \/ InputRefused(q)
        BY <2>1 DEF Pipe, Refused, Fork, InputWritten, OutputRead, InputRefused, At,
               pipeVars, ownVars, given, childVars
    <2>2. CASE Close(q)
        BY <2>2 DEF Close, At, pipeVars, ownVars, childVars
    <2>3. CASE WriteInput(q) \/ ReadOutput(q)
        BY <2>3 DEF WriteInput, ReadOutput, At, childVars, given
    <2>4. CASE Kill(q)
        BY <2>4 DEF Kill, At, pipeVars, given
    <2>5. CASE Reap(q)
        <3>1. PICK v \in Judged(status[q]) :
                  verdict' = [verdict EXCEPT ![q] = IF @ = "OLE" THEN @ ELSE v]
            BY <2>5 DEF Reap
        <3>2. verdict'[r] = verdict[r]
            BY <3>1
        <3>3. QED
            BY <2>5, <3>2 DEF Reap, At, pipeVars, given
    <2>6. CASE Program(q)
        BY <2>6 DEF Program, Exec, ExecFails, ReadsChunk, ReadsEof, WritesChunk,
               WriteRefused, Finish, Dies, Next1, pipeVars, ownVars, callVars
    <2>7. QED
        BY <2>1, <2>2, <2>3, <2>4, <2>5, <2>6 DEF Run
<1>3. ASSUME NEW p \in Processes, p # r, NEW set \in SUBSET ((Requests \cup Others) \X Ends),
             \A end \in Ends : <<r, end>> \notin set,
             OpenedBy(p, set) \/ ClosedBy(p, set), judge' = judge,
             p = "judge" => judge = "up"
      PROVE  CallInv(r)'
    <2>1. fds'[r] = fds[r]
        BY <1>1, <1>3, FdsType
    <2>2. p # "judge" => fds'["judge"] = fds["judge"]
        <3>1. \A x \in Processes : x # p => fds'[x] = fds[x]
            BY <1>3, FdsType
        <3>2. QED
            BY <1>1, <3>1
    <2>3. \A end \in Ends : <<r, end>> \in fds'["judge"] <=> <<r, end>> \in fds["judge"]
        <3>1. CASE p = "judge"
            <4>1. fds'[p] = fds[p] \cup set \/ fds'[p] = fds[p] \ set
                BY <1>3, FdsType
            <4>2. QED
                BY <1>3, <3>1, <4>1
        <3>2. CASE p # "judge"
            BY <2>2, <3>2
        <3>3. QED
            BY <3>1, <3>2
    <2>4. judge = "dead" => fds'["judge"] = {}
        BY <1>3, <2>2 DEF CallInv, EndsInv
    <2>5. QED
        BY <1>2, <1>3, <2>1, <2>3, <2>4, Undisturbed
<1>4. ASSUME NEW p \in Processes, p \notin {r, "judge"}, judge' = judge,
             fds' = fds \/ \E set : fds' = [fds EXCEPT ![p] = set]
      PROVE  CallInv(r)'
    <2>1. fds'[r] = fds[r] /\ fds'["judge"] = fds["judge"]
        BY <1>1, <1>4
    <2>2. QED
        BY <1>2, <1>4, <2>1, Undisturbed DEF CallInv, EndsInv
<1>5. CASE Pipe(q)
    <2>1. PICK set \in {{<<q, "inR">>, <<q, "inW">>}, {<<q, "outR">>, <<q, "outW">>}} :
              OpenedBy("judge", set) /\ judge = "up" /\ judge' = judge
        BY <1>5 DEF Pipe, At
    <2>2. /\ set \subseteq (Requests \cup Others) \X Ends
          /\ \A end \in Ends : <<r, end>> \notin set
        BY <2>1 DEF Ends
    <2>3. QED
        BY <1>1, <1>3, <2>1, <2>2
<1>6. CASE Close(q)
    <2>1. PICK c \in Closes : At(q, c[1], c[3]) /\ ClosedBy("judge", {<<q, c[2]>>})
        BY <1>6 DEF Close
    <2>2. /\ {<<q, c[2]>>} \subseteq (Requests \cup Others) \X Ends
          /\ \A end \in Ends : <<r, end>> \notin {<<q, c[2]>>}
        <3>1. PICK e \in Ends : e = c[2]
            BY ClosesType
        <3>2. /\ {<<q, e>>} \subseteq (Requests \cup Others) \X Ends
              /\ \A end \in Ends : <<r, end>> \notin {<<q, e>>}
            OBVIOUS
        <3>3. QED
            BY <3>1, <3>2
    <2>3. judge = "up" /\ judge' = judge
        BY <1>6, <2>1 DEF Close, At
    <2>4. QED
        BY <1>1, <1>3, <2>1, <2>2, <2>3
<1>7. CASE Exec(q)
    <2>1. /\ ChildCloses(q) \subseteq (Requests \cup Others) \X Ends
          /\ \A end \in Ends : <<r, end>> \notin ChildCloses(q)
        BY DEF ChildCloses, Ends
    <2>2. ClosedBy(q, ChildCloses(q)) /\ judge' = judge
        BY <1>7 DEF Exec, callVars
    <2>3. QED
        BY <1>1, <1>3, <2>1, <2>2
<1>8. CASE InputRefused(q)
    <2>1. judge' = "dead" /\ fds'["judge"] = {} /\ fds'[r] = fds[r]
        BY <1>1, <1>8 DEF InputRefused
    <2>2. QED
        BY <1>2, <2>1, Undisturbed
<1>9. ASSUME fds' = fds \/ \E set : fds' = [fds EXCEPT ![q] = set], judge' = judge
      PROVE  CallInv(r)'
    BY <1>1, <1>4, <1>9
<1>10. CASE Run(q) /\ ~Pipe(q) /\ ~Close(q) /\ ~InputRefused(q)
    <2>1. /\ judge' = judge
          /\ fds' = fds \/ \E set : fds' = [fds EXCEPT ![q] = set]
        BY <1>10 DEF Run, Refused, Fork, WriteInput, InputWritten,
               ReadOutput, OutputRead, Kill, Reap, At, pipeVars,
               ownVars, childVars, given
    <2>2. QED
        BY <1>9, <2>1
<1>11. CASE Program(q) /\ ~Exec(q)
    <2>1. /\ judge' = judge
          /\ fds' = fds \/ \E set : fds' = [fds EXCEPT ![q] = set]
        BY <1>11 DEF Program, ExecFails, ReadsChunk, ReadsEof, WritesChunk,
               WriteRefused, Finish, Dies, Next1, pipeVars, ownVars, callVars
    <2>2. QED
        BY <1>9, <2>1
<1>12. QED
    BY <1>5, <1>6, <1>7, <1>8, <1>10, <1>11 DEF Run, Program

-----------------------------------------------------------------------------
(* A call's own thread.                                                     *)

LEMMA PipeStep ==
    ASSUME TypeOK, NEW r \in Requests, CallInv(r), Pipe(r) \/ Refused(r)
    PROVE  CallInv(r)'
<1> USE SandboxAssumption DEF TypeOK, CallInv
<1>1. {r, "judge"} \subseteq Processes /\ r # "judge"
    BY DEF Processes
<1>2. UNCHANGED <<judge, ops[r], child[r], status[r], prog, captured[r], outp[r],
                  verdict[r]>> /\ judge = "up"
    BY DEF Pipe, Refused, At, pipeVars, ownVars, given, childVars
<1>3. /\ pc[r] \in BeforeFork /\ pc'[r] \in {"pipe out", "fork", "done"}
      /\ child[r] = "none" /\ verdict[r] = "IE"
    BY DEF Pipe, Refused, At, BeforeFork, ChildInv, VerdictInv, BeforeEnd, PCs
<1>4. StatusInv(r)'
    BY <1>2, <1>3 DEF StatusInv
<1>5. ChildInv(r)'
    BY <1>2, <1>3 DEF ChildInv, BeforeFork
<1>6. OutputInv(r)'
    BY <1>2, <1>3 DEF OutputInv, BeforeFork, BeforeEnd, PCs
<1>7. VerdictInv(r)'
    BY <1>2, <1>3 DEF VerdictInv
<1>8. EndsInv(r)'
    <2>1. CASE Refused(r)
        BY <1>2, <1>3, <2>1 DEF Refused, At, EndsInv
    <2>2. CASE At(r, "pipe in", "pipe out")
               /\ OpenedBy("judge", {<<r, "inR">>, <<r, "inW">>})
        <3>1. pc[r] = "pipe in" /\ pc'[r] = "pipe out"
            BY <2>2 DEF At
        <3>2. fds'["judge"] = fds["judge"] \cup {<<r, "inR">>, <<r, "inW">>}
            BY <1>1, <2>2 DEF OpenedBy
        <3>3. QED
            BY <1>2, <3>1, <3>2, OpenAtIs DEF EndsInv, Ends
    <2>3. CASE At(r, "pipe out", "fork")
               /\ OpenedBy("judge", {<<r, "outR">>, <<r, "outW">>})
        <3>1. pc[r] = "pipe out" /\ pc'[r] = "fork"
            BY <2>3 DEF At
        <3>2. fds'["judge"] = fds["judge"] \cup {<<r, "outR">>, <<r, "outW">>}
            BY <1>1, <2>3 DEF OpenedBy
        <3>3. QED
            BY <1>2, <3>1, <3>2, OpenAtIs DEF EndsInv, Ends
    <2>4. QED
        BY <2>1, <2>2, <2>3 DEF Pipe
<1>9. QED
    BY <1>4, <1>5, <1>6, <1>7, <1>8

(* The child starts with all that the judge has open, its own pipes among it. *)
LEMMA ForkStep ==
    ASSUME TypeOK, NEW r \in Requests, CallInv(r), Fork(r)
    PROVE  CallInv(r)'
<1> USE SandboxAssumption DEF TypeOK, CallInv
<1>1. /\ pc[r] = "fork" /\ pc'[r] = "close inR" /\ judge = "up" /\ judge' = "up"
      /\ child[r] = "none" /\ child'[r] = "forked"
      /\ fds'[r] = fds["judge"] /\ fds'["judge"] = fds["judge"]
      /\ UNCHANGED <<ops[r], status[r], prog, captured[r], outp[r], verdict[r]>>
    BY DEF Fork, At, pipeVars, given, Processes, ChildInv, BeforeFork
<1>2. EndsInv(r)'
    BY <1>1, OpenAtIs DEF EndsInv, Ends
<1>3. ChildInv(r)'
    BY <1>1, OpenAtIs DEF ChildInv, EndsInv, Ends, BeforeFork
<1>4. StatusInv(r)'
    BY <1>1 DEF StatusInv
<1>5. OutputInv(r)'
    BY <1>1 DEF OutputInv, BeforeEnd, PCs
<1>6. VerdictInv(r)'
    BY <1>1 DEF VerdictInv, BeforeEnd, PCs
<1>7. QED
    BY <1>2, <1>3, <1>4, <1>5, <1>6

(* The read end of the output is the last to be closed. *)
LEMMA LastOpen ==
    ASSUME NEW e \in Ends
    PROVE  "wait" \notin OpenAt(e) /\ ("close outR" \in OpenAt(e) <=> e = "outR")
<1>1. CASE e \in {"inR", "inW"}
    BY <1>1, OpenAtIs
<1>2. CASE e = "outR"
    BY <1>2, OpenAtIs
<1>3. CASE e = "outW"
    BY <1>3, OpenAtIs
<1>4. QED
    BY <1>1, <1>2, <1>3 DEF Ends

LEMMA CloseStep ==
    ASSUME TypeOK, NEW r \in Requests, CallInv(r), Close(r)
    PROVE  CallInv(r)'
<1> USE SandboxAssumption DEF TypeOK, CallInv
<1>1. /\ judge = "up" /\ judge' = "up" /\ fds'[r] = fds[r]
      /\ UNCHANGED <<ops[r], status[r], prog, captured[r], outp[r], verdict[r], child[r]>>
    BY DEF Close, At, ClosedBy, pipeVars, ownVars, childVars, Processes
<1>2. PICK c \in Closes : At(r, c[1], c[3]) /\ ClosedBy("judge", {<<r, c[2]>>})
    BY DEF Close
<1>3. /\ pc[r] = c[1] /\ pc'[r] = c[3]
      /\ fds'["judge"] = fds["judge"] \ {<<r, c[2]>>}
    BY <1>2 DEF At, ClosedBy, Processes
<1>4. ASSUME NEW p, NEW end, NEW p2, c = <<p, end, p2>>,
             p \in PCs \ {"done"}, p2 \in PCs \ BeforeFork, p2 # "done",
             \A e \in Ends : p2 \in OpenAt(e) <=> p \in OpenAt(e) /\ e # end,
             p2 \in BeforeEnd => p \in BeforeEnd, 
             p2 \notin BeforeEnd => p = "close outR" /\ p2 = "wait",
             p \notin BeforeFork, p2 # "kill", p2 # "close outR"
      PROVE  CallInv(r)'
    <2>1. /\ pc[r] = p /\ pc'[r] = p2
          /\ fds'["judge"] = fds["judge"] \ {<<r, end>>}
        BY <1>3, <1>4
    <2>2. EndsInv(r)'
        BY <1>1, <1>4, <2>1 DEF EndsInv
    <2>3. ChildInv(r)'
        BY <1>1, <1>4, <2>1 DEF ChildInv
    <2>4. StatusInv(r)'
        BY <1>1, <1>4, <2>1 DEF StatusInv
    <2>5. OutputInv(r)'
        BY <1>1, <1>4, <2>1 DEF OutputInv, BeforeEnd
    <2>6. VerdictInv(r)'
        BY <1>1, <1>4, <2>1 DEF VerdictInv, BeforeEnd
    <2>7. QED
        BY <2>2, <2>3, <2>4, <2>5, <2>6
<1>5. CASE c = <<"close inR", "inR", "close outW">>
    BY <1>4, <1>5, OpenAtIs DEF Ends, PCs, BeforeFork, BeforeEnd
<1>6. CASE c = <<"close outW", "outW", "write">>
    BY <1>4, <1>6, OpenAtIs DEF Ends, PCs, BeforeFork, BeforeEnd
<1>7. CASE c = <<"close inW", "inW", "read">>
    BY <1>4, <1>7, OpenAtIs DEF Ends, PCs, BeforeFork, BeforeEnd
<1>8. CASE c = <<"close outR", "outR", "wait">>
    <2>1. \A e \in Ends : "wait" \notin OpenAt(e) /\ ("close outR" \in OpenAt(e) <=> e = "outR")
        BY LastOpen
    <2>2. /\ {"close outR", "wait"} \subseteq PCs \ (BeforeEnd \cup BeforeFork)
          /\ "close outR" # "done" /\ "wait" \notin {"done", "kill", "close outR"}
        BY DEF PCs, BeforeEnd, BeforeFork
    <2>3. \A e \in Ends : "wait" \in OpenAt(e) <=> "close outR" \in OpenAt(e) /\ e # "outR"
        BY <2>1
    <2> HIDE DEF TypeOK, CallInv
    <2>4. QED
        BY <1>4, <1>8, <2>2, <2>3
<1>9. QED
    BY <1>5, <1>6, <1>7, <1>8 DEF Closes

LEMMA WriteStep ==
    ASSUME TypeOK, NEW r \in Requests, CallInv(r),
           WriteInput(r) \/ InputWritten(r) \/ InputRefused(r)
    PROVE  CallInv(r)'
<1> USE SandboxAssumption DEF TypeOK, CallInv
<1>1. /\ pc[r] = "write" /\ pc'[r] \in {"write", "close inW"} /\ judge = "up"
      /\ fds'[r] = fds[r]
      /\ UNCHANGED <<ops[r], status[r], prog, captured[r], outp[r], verdict[r], child[r]>>
      /\ \/ judge' = "up" /\ fds'["judge"] = fds["judge"]
         \/ judge' = "dead" /\ fds'["judge"] = {}
    BY DEF WriteInput, InputWritten, InputRefused, At, pipeVars, ownVars, childVars,
           given, Processes
<1>2. EndsInv(r)'
    BY <1>1, OpenAtIs DEF EndsInv, Ends
<1>3. ChildInv(r)'
    BY <1>1 DEF ChildInv, BeforeFork
<1>4. StatusInv(r)'
    BY <1>1 DEF StatusInv
<1>5. OutputInv(r)'
    BY <1>1 DEF OutputInv, BeforeEnd, PCs
<1>6. VerdictInv(r)'
    BY <1>1 DEF VerdictInv, BeforeEnd, PCs
<1>7. QED
    BY <1>2, <1>3, <1>4, <1>5, <1>6

(* A chunk goes from the pipe to what is captured; the limit is noticed as soon
   as it is exceeded. *)
LEMMA ReadStep ==
    ASSUME TypeOK, NEW r \in Requests, CallInv(r), ReadOutput(r)
    PROVE  CallInv(r)'
<1> USE SandboxAssumption DEF TypeOK, CallInv
<1>1. /\ pc[r] = "read" /\ judge = "up" /\ judge' = "up" /\ UNCHANGED fds
      /\ UNCHANGED <<ops[r], status[r], prog, verdict[r], child[r]>>
      /\ captured'[r] = captured[r] + 1 /\ outp'[r] = outp[r] - 1 /\ outp[r] > 0
      /\ pc'[r] = IF captured[r] + 1 > OutMax THEN "kill" ELSE "read"
    BY DEF ReadOutput, At, OverLimit, childVars, given
<1>2. EndsInv(r)'
    BY <1>1, OpenAtIs DEF EndsInv, Ends
<1>3. ChildInv(r)'
    BY <1>1 DEF ChildInv, BeforeFork
<1>4. StatusInv(r)'
    BY <1>1 DEF StatusInv
<1>5. OutputInv(r)'
    <2>1. verdict[r] = "IE"
        BY <1>1 DEF VerdictInv, BeforeEnd, PCs
    <2>2. ToWrite(ops[r]) \in Nat
        BY ToWriteType DEF Steps
    <2>3. /\ captured'[r] + outp'[r] + ToWrite(ops'[r]) = Written(prog'[r])
        BY <1>1, <2>2 DEF OutputInv
    <2>4. /\ pc'[r] = "kill" => captured'[r] > OutMax
          /\ pc'[r] = "read" => captured'[r] <= OutMax
        BY <1>1
    <2>5. captured'[r] \in Nat /\ OutMax \in Nat /\ pc'[r] \in {"read", "kill"}
        BY <1>1
    <2>6. QED
        BY <1>1, <2>1, <2>3, <2>4, <2>5 DEF OutputInv, BeforeEnd
<1>6. VerdictInv(r)'
    BY <1>1 DEF VerdictInv, BeforeEnd, PCs
<1>7. QED
    BY <1>2, <1>3, <1>4, <1>5, <1>6

(* No write end is open, so the child, which would have its own, is gone. *)
LEMMA EndOfOutputStep ==
    ASSUME TypeOK, NEW r \in Requests, CallInv(r), OutputRead(r)
    PROVE  CallInv(r)'
<1> USE SandboxAssumption DEF TypeOK, CallInv
<1>1. /\ pc[r] = "read" /\ pc'[r] = "close outR" /\ judge = "up" /\ judge' = "up"
      /\ UNCHANGED fds /\ outp[r] = 0 /\ <<r, "outW">> \notin fds[r]
      /\ UNCHANGED <<ops[r], status[r], prog, verdict[r], child[r], captured[r], outp[r]>>
    BY DEF OutputRead, EndOfOutput, Open, At, pipeVars, ownVars, childVars, Processes
<1>2. child[r] = "zombie"
    BY <1>1 DEF ChildInv, BeforeFork
<1>3. EndsInv(r)'
    BY <1>1, OpenAtIs DEF EndsInv, Ends
<1>4. ChildInv(r)'
    BY <1>1, <1>2 DEF ChildInv, BeforeFork
<1>5. StatusInv(r)'
    BY <1>1 DEF StatusInv
<1>6. OutputInv(r)'
    BY <1>1, <1>2 DEF OutputInv, BeforeEnd, PCs
<1>7. VerdictInv(r)'
    BY <1>1 DEF VerdictInv, BeforeEnd, PCs
<1>8. QED
    BY <1>3, <1>4, <1>5, <1>6, <1>7

LEMMA KillStep ==
    ASSUME TypeOK, NEW r \in Requests, CallInv(r), Kill(r)
    PROVE  CallInv(r)'
<1> USE SandboxAssumption DEF TypeOK, CallInv
<1>1. /\ pc[r] = "kill" /\ pc'[r] = "close outR" /\ judge = "up" /\ judge' = "up"
      /\ verdict'[r] = "OLE" /\ child'[r] = "zombie"
      /\ fds'["judge"] = fds["judge"]
      /\ status'[r] = IF child[r] = "zombie" THEN status[r] ELSE "SIGKILL"
      /\ UNCHANGED <<ops[r], prog, captured[r], outp[r]>>
    BY DEF Kill, At, pipeVars, given, Processes
<1>2. EndsInv(r)'
    BY <1>1, OpenAtIs DEF EndsInv, Ends
<1>3. ChildInv(r)'
    BY <1>1 DEF ChildInv, BeforeFork
<1>4. StatusInv(r)'
    BY <1>1 DEF StatusInv
<1>5. OutputInv(r)'
    BY <1>1 DEF OutputInv, BeforeEnd, PCs
<1>6. VerdictInv(r)'
    BY <1>1 DEF VerdictInv, BeforeEnd, PCs
<1>7. QED
    BY <1>2, <1>3, <1>4, <1>5, <1>6

LEMMA ReapStep ==
    ASSUME TypeOK, NEW r \in Requests, CallInv(r), Reap(r)
    PROVE  CallInv(r)'
<1> USE SandboxAssumption DEF TypeOK, CallInv
<1>1. /\ pc[r] = "wait" /\ pc'[r] = "done" /\ judge = "up" /\ judge' = "up"
      /\ child[r] = "zombie" /\ child'[r] = "reaped" /\ UNCHANGED fds
      /\ UNCHANGED <<ops[r], prog, captured[r], outp[r], status[r]>>
    BY DEF Reap, At, pipeVars, given
<1>2. \/ verdict'[r] = "OLE" /\ verdict[r] = "OLE"
      \/ verdict'[r] \in Judged(status[r]) /\ verdict[r] # "OLE"
    <2>1. PICK v \in Judged(status[r]) :
              verdict' = [verdict EXCEPT ![r] = IF @ = "OLE" THEN @ ELSE v]
        BY DEF Reap
    <2>2. verdict'[r] = IF verdict[r] = "OLE" THEN "OLE" ELSE v
        BY <2>1
    <2>3. QED
        BY <2>2
<1>3. "OLE" \notin Judged(status[r])
    BY DEF Judged
<1>4. EndsInv(r)'
    BY <1>1, OpenAtIs DEF EndsInv, Ends
<1>5. ChildInv(r)'
    BY <1>1 DEF ChildInv, BeforeFork
<1>6. StatusInv(r)'
    BY <1>1, <1>2 DEF StatusInv
<1>7. OutputInv(r)'
    BY <1>1, <1>2, <1>3 DEF OutputInv, BeforeEnd
<1>8. VerdictInv(r)'
    BY <1>1, <1>2 DEF VerdictInv, BeforeEnd
<1>9. QED
    BY <1>4, <1>5, <1>6, <1>7, <1>8

-----------------------------------------------------------------------------
(* A call's own program.                                                    *)

(* The program does not move the thread, and so it may do anything to the pipes
   that keeps count of the chunks. *)
LEMMA ProgramAlone ==
    ASSUME NEW r \in Requests, CallInv(r),
           UNCHANGED <<judge, pc[r], captured[r], verdict[r], prog, status[r]>>,
           fds'["judge"] = fds["judge"],
           child[r] \in {"forked", "runs"}, child'[r] = "runs",
           <<r, "outW">> \in fds'[r],
           outp'[r] + ToWrite(ops'[r]) = outp[r] + ToWrite(ops[r]),
           captured[r] \in Nat, {outp[r], outp'[r]} \subseteq Nat,
           {ToWrite(ops[r]), ToWrite(ops'[r])} \subseteq Nat
    PROVE  CallInv(r)'
<1> USE DEF CallInv
<1>1. pc[r] \notin BeforeFork \cup {"close outR", "wait", "done"} /\ status[r] = "none"
    BY DEF ChildInv, StatusInv, OutputInv
<1>2. EndsInv(r)'
    BY <1>1 DEF EndsInv
<1>3. ChildInv(r)'
    BY <1>1 DEF ChildInv
<1>4. StatusInv(r)'
    BY <1>1 DEF StatusInv
<1>5. OutputInv(r)'
    <2>1. captured'[r] + outp'[r] + ToWrite(ops'[r]) = Written(prog'[r])
        <3>1. captured[r] + outp[r] + ToWrite(ops[r]) = Written(prog[r])
            BY DEF OutputInv
        <3>2. captured[r] + (outp'[r] + ToWrite(ops'[r])) = Written(prog'[r])
            BY <3>1
        <3>3. QED
            BY <3>2
    <2>2. QED
        BY <1>1, <2>1 DEF OutputInv
<1>6. VerdictInv(r)'
    BY <1>1 DEF VerdictInv
<1>7. QED
    BY <1>2, <1>3, <1>4, <1>5, <1>6

(* A program may die at any point of the call before its end has been noticed;
   of SIGPIPE only when the judge is dead. *)
LEMMA DeathStep ==
    ASSUME TypeOK, NEW r \in Requests, CallInv(r), NEW st, Dies(r, st), st # "none",
           child[r] \in {"forked", "runs"},
           st = "exit 0" => ops[r] = <<>> /\ prog[r].end = "exit 0",
           st \in {"exit 1", "SIGSEGV"} => prog[r].end = st,
           st = "SIGKILL" => prog[r].end = "spin",
           st = "SIGPIPE" => judge = "dead"
    PROVE  CallInv(r)'
<1> USE SandboxAssumption DEF TypeOK, CallInv
<1>1. /\ fds'["judge"] = fds["judge"] /\ child'[r] = "zombie" /\ status'[r] = st
      /\ UNCHANGED <<judge, pc[r], captured[r], verdict[r], prog, outp[r], ops[r]>>
    BY DEF Dies, Processes, callVars, ownVars, pipeVars
<1>2. pc[r] \notin BeforeFork \cup {"close outR", "wait", "done"}
    BY DEF ChildInv, OutputInv
<1>3. EndsInv(r)'
    BY <1>1, <1>2 DEF EndsInv
<1>4. ChildInv(r)'
    BY <1>1, <1>2 DEF ChildInv
<1>5. StatusInv(r)'
    BY <1>1, <1>2 DEF StatusInv
<1>6. OutputInv(r)'
    BY <1>1, <1>2 DEF OutputInv
<1>7. VerdictInv(r)'
    BY <1>1, <1>2 DEF VerdictInv
<1>8. QED
    BY <1>3, <1>4, <1>5, <1>6, <1>7

LEMMA ProgramStep ==
    ASSUME TypeOK, TypeOK', NEW r \in Requests, CallInv(r), Program(r)
    PROVE  CallInv(r)'
<1> USE SandboxAssumption
<1>1. /\ {r, "judge"} \subseteq Processes /\ r # "judge"
      /\ captured[r] \in Nat /\ outp[r] \in Nat /\ outp'[r] \in Nat
      /\ ops[r] \in Seq(Steps) /\ ops'[r] \in Seq(Steps)
    BY DEF Processes, TypeOK, Steps
<1>2. ToWrite(ops[r]) \in Nat /\ ToWrite(ops'[r]) \in Nat
    BY <1>1, ToWriteType
<1>3. child[r] \in {"forked", "runs"} => <<r, "outW">> \in fds[r]
    BY DEF CallInv, ChildInv
<1>4. CASE Exec(r)
    <2>1. /\ UNCHANGED <<judge, pc[r], captured[r], verdict[r], prog, status[r], outp, ops>>
          /\ fds'["judge"] = fds["judge"] /\ <<r, "outW">> \in fds'[r]
          /\ child[r] = "forked" /\ child'[r] = "runs"
        BY <1>1, <1>3, <1>4
           DEF Exec, ClosedBy, ChildCloses, callVars, ownVars, pipeVars, TypeOK
    <2>2. QED
        BY <1>1, <1>2, <2>1, ProgramAlone
<1>5. CASE ReadsChunk(r) \/ ReadsEof(r)
    <2>1. /\ UNCHANGED <<judge, pc[r], captured[r], verdict[r], prog, status[r], outp,
                         fds, child>>
          /\ child[r] = "runs" /\ ops[r] # <<>> /\ Head(ops[r]) # "W"
          /\ ops'[r] \in {ops[r], Tail(ops[r])}
        BY <1>5 DEF ReadsChunk, ReadsEof, Next1, callVars, ownVars, pipeVars, TypeOK
    <2>2. ToWrite(ops'[r]) = ToWrite(ops[r])
        <3>1. Tail(ops[r]) \in Seq(Steps)
            BY <1>1, <2>1
        <3>2. ToWrite(Tail(ops[r])) \in Nat
            BY <3>1, ToWriteType
        <3>3. ToWrite(Tail(ops[r])) = ToWrite(ops[r])
            <4>1. ToWrite(ops[r]) = ToWrite(Tail(ops[r])) + 0
                BY <1>1, <2>1, ToWriteTail
            <4>2. QED
                BY <3>2, <4>1
        <3>4. QED
            BY <2>1, <3>3
    <2>3. QED
        BY <1>1, <1>2, <1>3, <2>1, <2>2, ProgramAlone
<1>6. CASE WritesChunk(r)
    <2>1. /\ UNCHANGED <<judge, pc[r], captured[r], verdict[r], prog, status[r], fds, child>>
          /\ child[r] = "runs" /\ ops[r] # <<>> /\ Head(ops[r]) = "W"
          /\ ops'[r] = Tail(ops[r]) /\ outp'[r] = outp[r] + 1
        BY <1>6 DEF WritesChunk, Next1, callVars, ownVars, TypeOK
    <2>2. ToWrite(ops[r]) = ToWrite(ops'[r]) + 1
        BY <1>1, <2>1, ToWriteTail
    <2>3. outp'[r] + ToWrite(ops'[r]) = outp[r] + ToWrite(ops[r])
        <3>1. outp'[r] = outp[r] + 1
            BY <2>1
        <3>2. outp[r] \in Nat
            BY <1>1
        <3>3. QED
            BY <1>2, <2>2, <3>1, <3>2
    <2>4. QED
        BY <1>1, <1>2, <1>3, <2>1, <2>3, ProgramAlone
<1>7. CASE ExecFails(r)
    BY <1>7, DeathStep DEF ExecFails
<1>8. CASE WriteRefused(r)
    <2>1. judge = "dead"
        <3>1. <<r, "outR">> \notin fds["judge"]
            BY <1>1, <1>8 DEF WriteRefused, Open
        <3>2. pc[r] \in PCs \ {"pipe in", "pipe out", "fork", "wait", "done"}
            BY <1>8 DEF WriteRefused, CallInv, ChildInv, OutputInv, BeforeFork, TypeOK
        <3>3. pc[r] \in OpenAt("outR")
            BY <3>2, OpenAtIs DEF PCs
        <3>4. QED
            BY <3>1, <3>2, <3>3 DEF CallInv, EndsInv, TypeOK, Ends
    <2>2. QED
        BY <1>8, <2>1, DeathStep DEF WriteRefused
<1>9. CASE Finish(r)
    <2>1. prog[r].end \in {"exit 0", "exit 1", "SIGSEGV", "spin"}
        <3>1. prog[r].end \in Endings
            BY DEF TypeOK
        <3>2. QED
            BY <1>9, <3>1 DEF Finish, Endings
    <2>2. QED
        BY <1>9, <2>1, DeathStep DEF Finish
<1>10. QED
    BY <1>4, <1>5, <1>6, <1>7, <1>8, <1>9 DEF Program

(* A step of another call takes no cgroup, and leaves the ends of this one's pipes
   as they are unless it ends the judge. *)
LEMMA OtherLeaf ==
    ASSUME TypeOK, NEW r \in Requests, NEW q \in Requests, q # r, LeafInv(r),
           Run(q) \/ Program(q)
    PROVE  LeafInv(r)'
<1> USE SandboxAssumption DEF TypeOK
<1>1. {q, "judge"} \subseteq Processes /\ "judge" # q
    BY DEF Processes
<1>2. UNCHANGED <<pc[r], child[r]>> /\ (r \in leaves' <=> r \in leaves)
    <2>1. CASE Pipe(q) \/ Refused(q) \/ Fork(q) \/ InputWritten(q) \/ OutputRead(q)
               \/ InputRefused(q)
        BY <2>1 DEF Pipe, Refused, Fork, InputWritten, OutputRead, InputRefused, At,
               create_cgroup, ownVars, childVars
    <2>2. CASE Close(q)
        BY <2>2 DEF Close, At, ownVars, childVars
    <2>3. CASE WriteInput(q) \/ ReadOutput(q)
        BY <2>3 DEF WriteInput, ReadOutput, At, childVars
    <2>4. CASE Kill(q)
        <3>1. child' = child \/ child' = [child EXCEPT ![q] = "zombie"]
            BY <2>4 DEF Kill
        <3>2. pc' = [pc EXCEPT ![q] = "close outR"] /\ leaves' = leaves
            BY <2>4 DEF Kill, At
        <3>3. QED
            BY <3>1, <3>2
    <2>5. CASE Reap(q)
        <3>1. /\ child' = [child EXCEPT ![q] = "reaped"]
              /\ pc' = [pc EXCEPT ![q] = "done"] /\ leaves' = leaves
            BY <2>5 DEF Reap, At
        <3>2. QED
            BY <3>1
    <2>6. CASE Program(q)
        BY <2>6 DEF Program, Exec, ExecFails, ReadsChunk, ReadsEof, WritesChunk,
               WriteRefused, Finish, Dies, ownVars, callVars
    <2>7. QED
        BY <2>1, <2>2, <2>3, <2>4, <2>5, <2>6 DEF Run
<1>3. \/ judge' = "dead"
      \/ judge' = judge /\ \A end \in Ends :
            <<r, end>> \in fds'["judge"] <=> <<r, end>> \in fds["judge"]
    <2>1. CASE Pipe(q)
        <3>1. PICK set \in {{<<q, "inR">>, <<q, "inW">>}, {<<q, "outR">>, <<q, "outW">>}} :
                  OpenedBy("judge", set) /\ judge' = judge
            BY <2>1 DEF Pipe
        <3>2. fds'["judge"] = fds["judge"] \cup set
            BY <1>1, <3>1 DEF OpenedBy
        <3>3. \A end \in Ends : <<r, end>> \notin set
            BY <3>1
        <3>4. QED
            BY <3>1, <3>2, <3>3
    <2>2. CASE Close(q)
        <3>1. PICK c \in Closes : ClosedBy("judge", {<<q, c[2]>>})
            BY <2>2 DEF Close
        <3>2. QED
            BY <1>1, <2>2, <3>1 DEF Close, ClosedBy
    <2>3. CASE InputRefused(q)
        BY <2>3 DEF InputRefused
    <2>4. CASE Run(q) /\ ~Pipe(q) /\ ~Close(q) /\ ~InputRefused(q)
        <3>1. judge' = judge /\ (fds' = fds \/ \E set : fds' = [fds EXCEPT ![q] = set])
            BY <2>4 DEF Run, Refused, Fork, WriteInput, InputWritten, ReadOutput,
                   OutputRead, Kill, Reap, At, childVars
        <3>2. QED
            BY <1>1, <3>1
    <2>5. CASE Program(q)
        <3>1. judge' = judge /\ (fds' = fds \/ \E set : fds' = [fds EXCEPT ![q] = set])
            BY <2>5 DEF Program, Exec, ExecFails, ReadsChunk, ReadsEof, WritesChunk,
                   WriteRefused, Finish, Dies, Next1, ClosedBy, callVars
        <3>2. QED
            BY <1>1, <3>1
    <2>6. QED
        BY <2>1, <2>2, <2>3, <2>4, <2>5
<1>4. judge' = "dead" \/ (judge' = judge /\ OpenEnds(r)' = OpenEnds(r))
    BY <1>3 DEF OpenEnds
<1>5. QED
    BY <1>2, <1>4 DEF LeafInv

(* A call takes its cgroup when it forks or fails to. *)
LEMMA OwnLeaf ==
    ASSUME TypeOK, NEW r \in Requests, CallInv(r), LeafInv(r), Run(r) \/ Program(r)
    PROVE  LeafInv(r)'
<1> USE SandboxAssumption DEF TypeOK
<1>1. CASE Pipe(r)
    <2>1. /\ pc[r] \in BeforeFork /\ pc'[r] # "done"
          /\ UNCHANGED <<leaves, child>>
        BY <1>1 DEF Pipe, At, BeforeFork, ownVars, childVars
    <2>2. QED
        BY <2>1 DEF LeafInv
<1>2. CASE Refused(r)
    <2>1. /\ judge = "up" /\ pc[r] \in BeforeFork /\ child[r] = "none"
          /\ pc'[r] = "done" /\ UNCHANGED <<child, fds>>
          /\ pc[r] = "fork" \/ leaves' = leaves
        BY <1>2 DEF Refused, At, CallInv, ChildInv, BeforeFork, childVars
    <2>2. \A end \in Ends : <<r, end>> \in fds["judge"] <=> pc[r] \in OpenAt(end)
        BY <2>1 DEF CallInv, EndsInv, BeforeFork
    <2>3. OpenEnds(r) = CASE pc[r] = "pipe in" -> {}
                          [] pc[r] = "pipe out" -> {"inR", "inW"}
                          [] pc[r] = "fork" -> Ends
        <3>1. OpenEnds(r) = {end \in Ends : pc[r] \in OpenAt(end)}
            BY <2>2 DEF OpenEnds
        <3>2. CASE pc[r] = "pipe in"
            BY <3>1, <3>2, OpenAtIs DEF Ends
        <3>3. CASE pc[r] = "pipe out"
            BY <3>1, <3>3, OpenAtIs DEF Ends
        <3>4. CASE pc[r] = "fork"
            BY <3>1, <3>4, OpenAtIs DEF Ends
        <3>5. QED
            BY <2>1, <3>2, <3>3, <3>4 DEF BeforeFork
    <2>4. OpenEnds(r)' = OpenEnds(r)
        BY <2>1 DEF OpenEnds
    <2>5. r \notin leaves
        BY <2>1 DEF LeafInv
    <2>6. QED
        BY <2>1, <2>3, <2>4, <2>5 DEF LeafInv, BeforeFork
<1>3. CASE Fork(r)
    <2>1. pc'[r] = "close inR" /\ child'[r] = "forked"
          /\ (r \in leaves' \/ "cgroup" \in Faults)
        BY <1>3 DEF Fork, At, create_cgroup
    <2>2. QED
        BY <2>1 DEF LeafInv, BeforeFork
<1>4. ASSUME pc[r] \notin BeforeFork \cup {"done"}, pc'[r] \notin BeforeFork,
             leaves' = leaves, pc'[r] = "done" => child'[r] # "none"
      PROVE  LeafInv(r)'
    <2>1. child[r] # "none"
        BY <1>4 DEF CallInv, ChildInv
    <2>2. QED
        BY <1>4, <2>1 DEF LeafInv
<1>5. CASE Close(r)
    <2>1. PICK c \in Closes : At(r, c[1], c[3])
        BY <1>5 DEF Close
    <2>2. c[1] \notin BeforeFork \cup {"done"} /\ c[3] \notin BeforeFork \cup {"done"}
        BY ClosesType
    <2>3. pc[r] = c[1] /\ pc'[r] = c[3] /\ leaves' = leaves
        BY <1>5, <2>1 DEF At, Close, ownVars
    <2>4. QED
        BY <1>4, <2>2, <2>3
<1>6. CASE WriteInput(r) \/ InputWritten(r) \/ InputRefused(r) \/ ReadOutput(r)
           \/ OutputRead(r) \/ Kill(r)
    BY <1>4, <1>6 DEF WriteInput, InputWritten, InputRefused, ReadOutput, OutputRead,
           Kill, At, BeforeFork, ownVars
<1>7. CASE Reap(r)
    BY <1>4, <1>7 DEF Reap, At, BeforeFork
<1>8. CASE Program(r)
    <2>1. /\ UNCHANGED <<judge, pc, leaves>>
          /\ child[r] \in {"forked", "runs"}
        BY <1>8 DEF Program, Exec, ExecFails, ReadsChunk, ReadsEof, WritesChunk,
               WriteRefused, Finish, Dies, ownVars, callVars
    <2>2. pc[r] \notin BeforeFork \cup {"done"}
        BY <2>1 DEF CallInv, ChildInv
    <2>3. QED
        BY <1>4, <2>1, <2>2
<1>9. QED
    BY <1>1, <1>2, <1>3, <1>5, <1>6, <1>7, <1>8 DEF Run

LEMMA LeafStep ==
    ASSUME SandboxInv, NEW q \in Requests, Run(q) \/ Program(q), NEW r \in Requests
    PROVE  LeafInv(r)'
<1>1. CASE r = q
    BY <1>1, OwnLeaf DEF SandboxInv
<1>2. CASE r # q
    BY <1>2, OtherLeaf DEF SandboxInv
<1>3. QED
    BY <1>1, <1>2

(* The invariant of all the calls. *)
LEMMA InitSandboxInv == Init => SandboxInv
<1> SUFFICES ASSUME Init, NEW r \in Requests PROVE CallInv(r) /\ LeafInv(r)
    BY InitTypeOK DEF SandboxInv
<1>1. /\ judge = "up" /\ fds["judge"] = {} /\ pc[r] = "pipe in" /\ child[r] = "none"
      /\ status[r] = "none" /\ verdict[r] = "IE" /\ captured[r] = 0 /\ outp[r] = 0
      /\ ops[r] = prog[r].ops
    BY DEF Init, Processes
<1>2. EndsInv(r)
    BY <1>1, OpenAtIs DEF EndsInv, Ends
<1>3. ChildInv(r) /\ StatusInv(r) /\ VerdictInv(r)
    BY <1>1 DEF ChildInv, StatusInv, VerdictInv, BeforeFork
<1>4. OutputInv(r)
    <2>1. ToWrite(ops[r]) \in Nat /\ OutMax \in Nat
        BY InitTypeOK, ToWriteType, SandboxAssumption DEF TypeOK, Steps
    <2>2. Written(prog[r]) = ToWrite(ops[r])
        BY <1>1 DEF Written, ToWrite
    <2>3. captured[r] = 0 /\ outp[r] = 0
        BY <1>1
    <2>4. captured[r] + outp[r] + ToWrite(ops[r]) = Written(prog[r])
        BY <2>1, <2>2, <2>3
    <2>5. captured[r] <= OutMax
        BY <2>1, <2>3
    <2>6. pc[r] = "pipe in" /\ verdict[r] = "IE"
        BY <1>1
    <2>7. QED
        BY <2>4, <2>5, <2>6 DEF OutputInv
<1>5. LeafInv(r)
    BY <1>1 DEF LeafInv, Init
<1>6. QED
    BY <1>2, <1>3, <1>4, <1>5 DEF CallInv

LEMMA CallsInv ==
    ASSUME SandboxInv, NEW q \in Requests, Run(q) \/ Program(q)
    PROVE  SandboxInv'
<1>1. TypeOK'
    BY CallTypeOK DEF SandboxInv
<1>2. ASSUME NEW r \in Requests PROVE CallInv(r)'
    <2>1. CASE r # q
        BY <1>2, <2>1, OtherCall DEF SandboxInv
    <2>2. CASE r = q
        BY <1>1, <1>2, <2>2, PipeStep, ForkStep, CloseStep, WriteStep, ReadStep,
           EndOfOutputStep, KillStep, ReapStep, ProgramStep DEF SandboxInv, Run
    <2>3. QED
        BY <2>1, <2>2
<1>3. QED
    BY <1>1, <1>2, LeafStep DEF SandboxInv

(* What has been said of calls is what VerdictIsOwn says of those that are done. *)
LEMMA InvVerdictIsOwn ==
    ASSUME SandboxInv
    PROVE  VerdictIsOwn
<1> SUFFICES ASSUME NEW r \in Requests, pc[r] = "done"
             PROVE  /\ verdict[r] = "AC" => /\ prog[r].end = "exit 0"
                                            /\ status[r] = "exit 0"
                                            /\ captured[r] = Written(prog[r])
                    /\ verdict[r] = "OLE" => Written(prog[r]) > OutMax
                    /\ verdict[r] = "MLE" => prog[r].end = "spin"
                    /\ verdict[r] = "RE" => \/ prog[r].end \in {"exit 1", "SIGSEGV"}
                                            \/ status[r] = "exit 127"
    BY DEF VerdictIsOwn
<1> USE DEF SandboxInv, CallInv
<1>1. /\ child[r] = "none" => verdict[r] = "IE"
      /\ child[r] = "reaped" => verdict[r] = "OLE" \/ verdict[r] \in Judged(status[r])
      /\ child[r] \in {"none", "reaped"}
      /\ child[r] = "reaped" => status[r] # "none"
      /\ status[r] # "SIGPIPE" /\ status[r] \in Statuses
    BY DEF ChildInv, VerdictInv, StatusInv, TypeOK
<1>2. captured[r] \in Nat /\ outp[r] \in Nat /\ OutMax \in Nat
    BY SandboxAssumption DEF TypeOK
<1>3. ToWrite(ops[r]) \in Nat /\ (ops[r] = <<>> => ToWrite(ops[r]) = 0)
    BY ToWriteType DEF TypeOK, Steps
<1>4. captured[r] + outp[r] + ToWrite(ops[r]) = Written(prog[r])
    BY DEF OutputInv
<1>5. verdict[r] = "AC" => /\ prog[r].end = "exit 0"
                           /\ status[r] = "exit 0"
                           /\ captured[r] = Written(prog[r])
    <2> SUFFICES ASSUME verdict[r] = "AC"
                 PROVE  /\ prog[r].end = "exit 0"
                        /\ status[r] = "exit 0"
                        /\ captured[r] = Written(prog[r])
        OBVIOUS
    <2>1. status[r] = "exit 0"
        BY <1>1 DEF Judged, Statuses
    <2>2. ops[r] = <<>> /\ prog[r].end = "exit 0" /\ outp[r] = 0
        BY <1>1, <2>1 DEF StatusInv, OutputInv
    <2>3. outp[r] = 0 /\ ToWrite(ops[r]) = 0
        BY <1>3, <2>2
    <2>4. captured[r] = Written(prog[r])
        BY <1>2, <1>4, <2>3
    <2>5. QED
        BY <2>1, <2>2, <2>4
<1>6. verdict[r] = "OLE" => Written(prog[r]) > OutMax
    <2>1. verdict[r] = "OLE" => captured[r] > OutMax
        BY DEF OutputInv
    <2>2. captured[r] > OutMax => captured[r] + outp[r] + ToWrite(ops[r]) > OutMax
        BY <1>2, <1>3
    <2>3. QED
        BY <1>4, <2>1, <2>2
<1>7. verdict[r] = "MLE" => prog[r].end = "spin"
    BY <1>1 DEF StatusInv, Judged, Statuses
<1>8. verdict[r] = "RE" => \/ prog[r].end \in {"exit 1", "SIGSEGV"}
                           \/ status[r] = "exit 127"
    BY <1>1 DEF StatusInv, Judged, Statuses
<1>9. QED
    BY <1>5, <1>6, <1>7, <1>8

(* What comes back with a verdict of its program leaves its cgroup, and what comes
   back without one the pipes it had made. *)
LEMMA InvNothingElseLeft ==
    ASSUME SandboxInv
    PROVE  NothingElseLeft
<1> SUFFICES ASSUME NEW r \in Requests, pc[r] = "done"
             PROVE  /\ verdict[r] # "IE" => /\ child[r] = "reaped"
                                            /\ OpenEnds(r) = {}
                                            /\ r \in leaves \/ "cgroup" \in Faults
                    /\ verdict[r] = "IE" =>
                          /\ child[r] = "none"
                          /\ OpenEnds(r) \in {{}, {"inR", "inW"}, Ends}
                          /\ r \in leaves /\ judge = "up" => OpenEnds(r) = Ends
    BY DEF NothingElseLeft
<1>1. CallInv(r) /\ LeafInv(r) /\ judge \in {"up", "dead"} /\ status[r] \in Statuses
    BY DEF SandboxInv, TypeOK
<1>2. child[r] \in {"none", "reaped"} /\ (verdict[r] = "IE" <=> child[r] = "none")
    BY <1>1 DEF CallInv, ChildInv, VerdictInv, StatusInv, Judged, Statuses
<1>3. judge = "dead" => OpenEnds(r) = {}
    BY <1>1 DEF CallInv, EndsInv, OpenEnds
<1>4. verdict[r] # "IE" => OpenEnds(r) = {}
    <2>1. ASSUME judge = "up", verdict[r] # "IE", NEW end \in Ends
          PROVE  <<r, end>> \notin fds["judge"]
        <3>1. "done" \notin OpenAt(end)
            BY OpenAtIs DEF Ends
        <3>2. QED
            BY <1>1, <1>2, <2>1, <3>1 DEF CallInv, EndsInv
    <2>2. QED
        BY <1>1, <1>3, <2>1 DEF OpenEnds
<1>5. QED
    BY <1>1, <1>2, <1>3, <1>4 DEF LeafInv

-----------------------------------------------------------------------------
(* Requests side by side.                                                   *)

JobTypeOK ==
    /\ jpc \in [Submissions -> JPCs]
    /\ counter \in 0 .. Cardinality(Submissions)
    /\ run_dir \in [Submissions -> {0} \cup Ids]
    /\ dirs \subseteq Ids
    /\ {source, binary} \subseteq [Ids -> Submissions \cup {Nobody}]
    /\ unremoved \subseteq Submissions
    /\ cc \in [Submissions -> {"none", "forked", "runs", "zombie", "reaped"}]
    /\ cc_ok \in [Submissions -> BOOLEAN]
    /\ cases \in [Submissions -> Seq(Requests)]
    /\ per_case \in [Submissions -> Seq(Verdicts \cup {"WA"})]
    /\ overall \in [Submissions -> Verdicts \cup {"WA", "CE"}]

LEMMA RunnerTypes == RunnerTypeOK <=> TypeOK /\ JobTypeOK
BY DEF RunnerTypeOK, JobTypeOK

(* What does not touch a request's own variables, its directory and its log,
   and takes back no call that is done, leaves its invariant. *)
LEMMA JobUndisturbed ==
    ASSUME JobTypeOK, NEW s \in Submissions, JobInv(s),
           UNCHANGED <<jpc[s], run_dir[s], cc[s], cc_ok[s], cases, per_case[s],
                       overall[s], prog>>,
           run_dir[s] \in dirs' <=> run_dir[s] \in dirs,
           s \in unremoved' <=> s \in unremoved,
           jpc[s] \in Working => /\ source'[run_dir[s]] = source[run_dir[s]]
                                 /\ binary'[run_dir[s]] = binary[run_dir[s]],
           \A end \in Ends : <<s, end>> \in fds'["judge"] => <<s, end>> \in fds["judge"],
           \A r \in Requests : pc[r] = "done" =>
               pc'[r] = "done" /\ verdict'[r] = verdict[r]
    PROVE  JobInv(s)'
<1>1. DirInv(s)'
    BY DEF JobInv, DirInv, Compiling, Working, JPCs
<1>2. CompilerInv(s)'
    BY DEF JobInv, CompilerInv
<1>3. ResultInv(s)'
    <2>1. CasesInv(s) => CasesInv(s)'
        <3>1. ASSUME NEW i \in 1 .. Len(per_case[s]), Len(per_case[s]) <= Len(cases[s]),
                     pc[cases[s][i]] = "done"
              PROVE  /\ pc'[cases'[s][i]] = "done"
                     /\ CaseVerdict(cases[s][i])' = CaseVerdict(cases[s][i])
            <4>1. cases[s] \in Seq(Requests) /\ per_case[s] \in Seq(Verdicts \cup {"WA"})
                BY DEF JobTypeOK
            <4>2. cases[s][i] \in Requests
                <5>1. i \in 1 .. Len(cases[s])
                    BY <3>1, <4>1
                <5>2. QED
                    BY <4>1, <5>1
            <4>3. QED
                BY <3>1, <4>2 DEF CaseVerdict
        <3>2. QED
            BY <3>1 DEF CasesInv
    <2>2. QED
        BY <2>1 DEF JobInv, ResultInv
<1>4. QED
    BY <1>1, <1>2, <1>3 DEF JobInv

(* A call of the sandbox that is done stays as it is, and no call opens a pipe
   of a compiler. *)
LEMMA DoneStays ==
    ASSUME TypeOK, NEW q \in Requests, Run(q) \/ Program(q), NEW r \in Requests,
           pc[r] = "done"
    PROVE  pc'[r] = "done" /\ verdict'[r] = verdict[r]
<1> USE DEF TypeOK
<1>1. CASE Pipe(q) \/ Refused(q) \/ Fork(q) \/ InputWritten(q) \/ OutputRead(q)
           \/ InputRefused(q)
    BY <1>1 DEF Pipe, Refused, Fork, InputWritten, OutputRead, InputRefused, At, ownVars
<1>2. CASE Close(q)
    <2>1. PICK c \in Closes : At(q, c[1], c[3])
        BY <1>2 DEF Close
    <2>2. c[1] # "done"
        BY <2>1, ClosesType
    <2>3. QED
        BY <1>2, <2>1, <2>2 DEF Close, At, ownVars
<1>3. CASE WriteInput(q) \/ ReadOutput(q)
    BY <1>3 DEF WriteInput, ReadOutput, At, given
<1>4. CASE Kill(q)
    BY <1>4 DEF Kill, At
<1>5. CASE Reap(q)
    <2>1. pc[q] = "wait" /\ q # r /\ pc'[r] = "done"
        BY <1>5 DEF Reap, At
    <2>2. PICK v \in Judged(status[q]) :
              verdict' = [verdict EXCEPT ![q] = IF @ = "OLE" THEN @ ELSE v]
        BY <1>5 DEF Reap
    <2>3. QED
        BY <2>1, <2>2
<1>6. CASE Program(q)
    BY <1>6 DEF Program, Exec, ExecFails, ReadsChunk, ReadsEof, WritesChunk,
           WriteRefused, Finish, Dies, callVars, ownVars
<1>7. QED
    BY <1>1, <1>2, <1>3, <1>4, <1>5, <1>6 DEF Run

LEMMA CallOpensOwn ==
    ASSUME TypeOK, NEW q \in Requests, Run(q) \/ Program(q), NEW s \in Submissions,
           NEW end \in Ends, <<s, end>> \in fds'["judge"]
    PROVE  <<s, end>> \in fds["judge"]
<1> USE SandboxAssumption DEF TypeOK
<1>1. {q, "judge"} \subseteq Processes /\ q # "judge" /\ q # s
    BY DEF Processes, Submissions
<1>2. CASE Pipe(q)
    <2>1. PICK set \in {{<<q, "inR">>, <<q, "inW">>}, {<<q, "outR">>, <<q, "outW">>}} :
              fds' = [fds EXCEPT !["judge"] = @ \cup set]
        BY <1>2 DEF Pipe, OpenedBy
    <2>2. <<s, end>> \notin set
        BY <1>1, <2>1
    <2>3. fds'["judge"] = fds["judge"] \cup set
        BY <1>1, <2>1
    <2>4. QED
        BY <2>2, <2>3
<1>3. CASE Close(q)
    BY <1>1, <1>3 DEF Close, ClosedBy
<1>4. CASE Exec(q)
    BY <1>1, <1>4 DEF Exec, ClosedBy
<1>5. CASE Refused(q) \/ Fork(q) \/ InputWritten(q) \/ OutputRead(q) \/ InputRefused(q)
           \/ WriteInput(q) \/ ReadOutput(q) \/ Kill(q) \/ Reap(q)
    BY <1>1, <1>5 DEF Refused, Fork, InputWritten, OutputRead, InputRefused, WriteInput,
           ReadOutput, Kill, Reap
<1>6. CASE Program(q) /\ ~Exec(q)
    BY <1>1, <1>6 DEF Program, ExecFails, ReadsChunk, ReadsEof, WritesChunk,
           WriteRefused, Finish, Dies
<1>7. QED
    BY <1>2, <1>3, <1>4, <1>5, <1>6 DEF Run

LEMMA GivenStays ==
    ASSUME NEW q \in Requests, Run(q) \/ Program(q)
    PROVE  prog' = prog
<1>1. CASE Run(q)
    BY <1>1 DEF Run, Pipe, Refused, Fork, Close, WriteInput, InputWritten,
           InputRefused, ReadOutput, OutputRead, Kill, Reap, given, ownVars
<1>2. CASE Program(q)
    BY <1>2 DEF Program, Exec, ExecFails, ReadsChunk, ReadsEof, WritesChunk,
           WriteRefused, Finish, Dies, callVars, ownVars
<1>3. QED
    BY <1>1, <1>2

(* A step inside the sandbox leaves every request where it is. *)
LEMMA CallStep ==
    ASSUME RunnerInv, NEW q \in Requests, Run(q) \/ Program(q), UNCHANGED jobVars
    PROVE  RunnerInv'
<1>1. SandboxInv'
    BY CallsInv DEF RunnerInv
<1>2. TypeOK /\ JobTypeOK /\ JobTypeOK'
    BY RunnerTypes
       DEF RunnerInv, JobTypeOK, jobVars, diskVars, ccVars, resVars
<1>3. RunnerTypeOK'
    BY <1>1, <1>2, RunnerTypes DEF SandboxInv, RunnerTypeOK, JobTypeOK
<1>4. NumbersInv'
    BY DEF RunnerInv, NumbersInv, jobVars, diskVars
<1>5. ASSUME NEW s \in Submissions PROVE JobInv(s)'
    BY <1>2, JobUndisturbed, DoneStays, CallOpensOwn, GivenStays
       DEF RunnerInv, jobVars, diskVars, ccVars, resVars
<1>6. QED
    BY <1>1, <1>3, <1>4, <1>5 DEF RunnerInv

(* The judge's and the compilers' own descriptors are none of a call's. *)
LEMMA OtherDescriptors ==
    ASSUME SandboxInv, UNCHANGED sandboxVars,
           fds' \in [Processes -> SUBSET ((Requests \cup Others) \X Ends)],
           \A r \in Requests : fds'[r] = fds[r],
           \A r \in Requests, end \in Ends :
               <<r, end>> \in fds'["judge"] <=> <<r, end>> \in fds["judge"],
           judge = "dead" => fds'["judge"] \subseteq fds["judge"]
    PROVE  SandboxInv'
<1>1. TypeOK'
    BY DEF SandboxInv, TypeOK, sandboxVars, pipeVars, ownVars, childVars
<1>2. ASSUME NEW r \in Requests PROVE CallInv(r)'
    <2>1. judge = "dead" => fds'["judge"] = {}
        BY <1>2 DEF SandboxInv, CallInv, EndsInv
    <2>2. QED
        BY <1>2, <2>1, Undisturbed
           DEF SandboxInv, sandboxVars, pipeVars, ownVars, childVars
<1>3. ASSUME NEW r \in Requests PROVE LeafInv(r)'
    <2>1. LeafInv(r) /\ UNCHANGED <<judge, pc, leaves, child>>
        BY DEF SandboxInv, sandboxVars, ownVars, childVars
    <2>2. OpenEnds(r)' = OpenEnds(r)
        BY DEF OpenEnds
    <2>3. QED
        BY <2>1, <2>2 DEF LeafInv
<1>4. QED
    BY <1>1, <1>2, <1>3 DEF SandboxInv

LEMMA SandboxStays ==
    ASSUME RunnerInv, UNCHANGED <<judge, pc, fds, inp, outp, unsent, captured, verdict,
                                  leaves, prog, input, ops, child, status>>
    PROVE  SandboxInv'
<1>1. SandboxInv /\ TypeOK
    BY DEF RunnerInv, SandboxInv
<1>2. UNCHANGED sandboxVars
    BY DEF sandboxVars, pipeVars, ownVars, childVars
<1>3. fds' \in [Processes -> SUBSET ((Requests \cup Others) \X Ends)]
    BY <1>1 DEF TypeOK
<1>4. QED
    BY <1>1, <1>2, <1>3, OtherDescriptors

-----------------------------------------------------------------------------
(* The steps of a request.                                                  *)

LEMMA InitRunnerInv == ServerInit => RunnerInv
<1> SUFFICES ASSUME ServerInit PROVE RunnerInv
    OBVIOUS
<1> USE DEF ServerInit
<1>1. SandboxInv
    BY InitSandboxInv
<1>2. ASSUME NEW s \in Submissions PROVE cases[s] \in Seq(Requests)
    <2>1. PICK n \in 0 .. Len(Calls[s]) : cases[s] = SubSeq(Calls[s], 1, n)
        BY DEF Starts
    <2>2. Calls[s] \in Seq(Requests)
        BY RunnerAssumption
    <2>3. QED
        BY <2>1, <2>2, SubSeqProperties
<1>3. Cardinality(Submissions) \in Nat
    BY RunnerAssumption, FS_CardinalityType
<1>4. JobTypeOK
    <2>1. cases \in [Submissions -> Seq(Requests)]
        <3>1. \E X : cases \in [Submissions -> X]
            OBVIOUS
        <3>2. QED
            BY <1>2, <3>1
    <2>2. counter \in 0 .. Cardinality(Submissions)
        BY <1>3
    <2>3. overall \in [Submissions -> Verdicts \cup {"WA", "CE"}]
        BY DEF Verdicts
    <2>4. QED
        BY <2>1, <2>2, <2>3 DEF JobTypeOK, JPCs
<1>5. NumbersInv
    <2>1. {s \in Submissions : jpc[s] # "mkdir"} = {}
        OBVIOUS
    <2>2. counter = Cardinality({s \in Submissions : jpc[s] # "mkdir"})
        BY <2>1, FS_EmptySet
    <2>3. QED
        BY <2>2 DEF NumbersInv
<1>6. ASSUME NEW s \in Submissions PROVE JobInv(s)
    <2>1. /\ jpc[s] = "mkdir" /\ run_dir[s] = 0 /\ dirs = {} /\ cc[s] = "none"
          /\ per_case[s] = <<>> /\ overall[s] = "IE" /\ fds["judge"] = {}
        BY DEF Init, Processes
    <2>2. QED
        BY <2>1 DEF JobInv, DirInv, CompilerInv, ResultInv, Working, Compiling,
               BeforeCompiler
<1>7. QED
    BY <1>1, <1>4, <1>5, <1>6, RunnerTypes DEF RunnerInv, SandboxInv

(* No two directories that requests work in are the same. *)
LEMMA OwnDirectory ==
    ASSUME RunnerInv, NEW s \in Submissions, jpc[s] \in Working
    PROVE  /\ run_dir[s] \in Ids /\ run_dir[s] \in dirs
           /\ \A t \in Submissions : t # s => run_dir[t] # run_dir[s]
<1>1. run_dir[s] \in Ids /\ run_dir[s] \in dirs
    BY DEF RunnerInv, JobInv, DirInv, RunnerTypeOK
<1>2. run_dir[s] # 0
    BY <1>1 DEF Ids
<1>3. QED
    BY <1>1, <1>2 DEF RunnerInv, NumbersInv

(* The numbers move only when a request takes one. *)
LEMMA NumbersStay ==
    ASSUME RunnerInv, UNCHANGED <<counter, run_dir>>,
           \A s \in Submissions : jpc'[s] = "mkdir" <=> jpc[s] = "mkdir"
    PROVE  NumbersInv'
<1>1. {s \in Submissions : jpc'[s] # "mkdir"} = {s \in Submissions : jpc[s] # "mkdir"}
    OBVIOUS
<1>2. QED
    BY <1>1 DEF RunnerInv, NumbersInv

LEMMA NextNumber ==
    ASSUME RunnerInv, NEW s \in Submissions, NEW to \in JPCs \ {"mkdir"},
           Goes(s, "mkdir", to), counter' = counter + 1,
           run_dir' \in {run_dir, [run_dir EXCEPT ![s] = counter + 1]}
    PROVE  /\ counter + 1 \in Ids /\ counter \in Nat
           /\ counter' \in 0 .. Cardinality(Submissions)
           /\ run_dir' \in [Submissions -> {0} \cup Ids]
           /\ NumbersInv'
<1> DEFINE Gone == {t \in Submissions : jpc[t] # "mkdir"}
           GoneNow == {t \in Submissions : jpc'[t] # "mkdir"}
<1>1. /\ jpc \in [Submissions -> JPCs] /\ jpc[s] = "mkdir" /\ run_dir[s] = 0
      /\ jpc' = [jpc EXCEPT ![s] = to]
      /\ run_dir \in [Submissions -> {0} \cup Ids]
      /\ \A t \in Submissions : /\ run_dir[t] <= counter
                                /\ jpc[t] = "mkdir" => run_dir[t] = 0
      /\ \A t, u \in Submissions : t # u /\ run_dir[t] = run_dir[u] => run_dir[t] = 0
    <2> HIDE DEF Gone, GoneNow
    <2>1. NumbersInv /\ RunnerTypeOK
        BY DEF RunnerInv
    <2>2. \A t \in Submissions : /\ run_dir[t] <= counter
                                /\ jpc[t] = "mkdir" => run_dir[t] = 0
        BY <2>1, Zenon DEF NumbersInv
    <2>3. QED
        BY <2>1, <2>2 DEF RunnerTypeOK, NumbersInv, Goes
<1>10. counter = Cardinality(Gone)
    BY DEF RunnerInv, NumbersInv
<1>2. GoneNow = Gone \cup {s} /\ s \notin Gone
    BY <1>1
<1>3. /\ IsFiniteSet(Submissions) /\ Cardinality(Submissions) \in Nat
      /\ IsFiniteSet(Gone) /\ Cardinality(Gone) \in Nat
      /\ IsFiniteSet(GoneNow) /\ Cardinality(GoneNow) <= Cardinality(Submissions)
    BY RunnerAssumption, FS_Subset, FS_CardinalityType
<1>4. Cardinality(GoneNow) = counter + 1
    <2> HIDE DEF Gone, GoneNow
    <2>1. Cardinality(Gone \cup {s}) = Cardinality(Gone) + 1
        BY <1>2, <1>3, FS_AddElement
    <2>2. QED
        BY <1>2, <1>10, <2>1
<1>5. counter \in Nat /\ counter + 1 <= Cardinality(Submissions)
    <2> HIDE DEF Gone, GoneNow
    <2>1. QED
        BY <1>3, <1>4, <1>10
<1>6. counter + 1 \in Ids /\ counter' \in 0 .. Cardinality(Submissions)
    BY <1>3, <1>5 DEF Ids
<1>7. run_dir' \in [Submissions -> {0} \cup Ids]
    BY <1>1, <1>6
<1>8. NumbersInv'
    <2>1. counter' = Cardinality({t \in Submissions : jpc'[t] # "mkdir"})
        BY <1>4
    <2> HIDE DEF Gone, GoneNow
    <2>2. \A t \in Submissions : run_dir[t] <= counter /\ run_dir[t] \in Nat
        <3>1. {0} \cup Ids \subseteq Nat
            BY <1>3 DEF Ids
        <3>2. QED
            BY <1>1, <3>1
    <2>3. \A t \in Submissions : /\ run_dir'[t] <= counter'
                                 /\ jpc'[t] = "mkdir" => run_dir'[t] = 0
        <3>1. \A t \in Submissions : \/ run_dir'[t] = run_dir[t]
                                     \/ t = s /\ run_dir'[t] = counter + 1
            BY <1>1
        <3>2. \A t \in Submissions : jpc'[t] = "mkdir" => jpc[t] = "mkdir" /\ t # s
            BY <1>1
        <3>4. \A t \in Submissions : run_dir'[t] <= counter'
            BY <1>5, <2>2, <3>1
        <3>5. \A t \in Submissions : t # s => run_dir'[t] = run_dir[t]
            BY <1>1
        <3>6. \A t \in Submissions : jpc'[t] = "mkdir" => run_dir'[t] = 0
            BY <1>1, <3>2, <3>5
        <3>7. QED
            BY <3>4, <3>6
    <2>4. \A t, u \in Submissions :
              t # u /\ run_dir'[t] = run_dir'[u] => run_dir'[t] = 0
        <3>2. \A t \in Submissions : run_dir[t] # counter + 1
            BY <1>5, <2>2
        <3>3. QED
            BY <1>1, <3>2
    <2>5. QED
        BY <2>1, <2>3, <2>4 DEF NumbersInv
<1>9. QED
    BY <1>5, <1>6, <1>7, <1>8

(* A request's step, what it must leave to the others, and what is left to show
   for itself. *)
LEMMA OwnStep ==
    ASSUME RunnerInv, NEW s \in Submissions,
           UNCHANGED <<cases, pc, verdict, prog>>,
           \A t \in Submissions \ {s} :
               /\ UNCHANGED <<jpc[t], run_dir[t], cc[t], cc_ok[t], per_case[t], overall[t]>>
               /\ run_dir[t] \in dirs' <=> run_dir[t] \in dirs
               /\ t \in unremoved' <=> t \in unremoved
               /\ jpc[t] \in Working => /\ source'[run_dir[t]] = source[run_dir[t]]
                                        /\ binary'[run_dir[t]] = binary[run_dir[t]]
               /\ \A end \in Ends :
                     <<t, end>> \in fds'["judge"] => <<t, end>> \in fds["judge"],
           JobTypeOK', SandboxInv', NumbersInv', JobInv(s)'
    PROVE  RunnerInv'
<1>1. ASSUME NEW t \in Submissions, t # s PROVE JobInv(t)'
    <2>1. JobTypeOK /\ JobInv(t)
        BY RunnerTypes DEF RunnerInv
    <2>2. QED
        BY <1>1, <2>1, JobUndisturbed
<1>2. RunnerTypeOK'
    BY DEF RunnerTypeOK, JobTypeOK, SandboxInv
<1>3. QED
    BY <1>1, <1>2 DEF RunnerInv

\* The ends of s's log that the judge opens or closes.
LEMMA LogEnds ==
    ASSUME RunnerInv, NEW s \in Submissions, NEW ends \in SUBSET Ends, judge = "up",
           \/ OpenedBy("judge", {<<s, end>> : end \in ends})
           \/ ClosedBy("judge", {<<s, end>> : end \in ends}),
           UNCHANGED sandboxVars
    PROVE  /\ SandboxInv'
           /\ \A t \in Submissions \ {s}, end \in Ends :
                 <<t, end>> \in fds'["judge"] => <<t, end>> \in fds["judge"]
           /\ OpenedBy("judge", {<<s, end>> : end \in ends}) => \A end \in Ends :
                 <<s, end>> \in fds'["judge"] <=> <<s, end>> \in fds["judge"] \/ end \in ends
           /\ ClosedBy("judge", {<<s, end>> : end \in ends}) => \A end \in Ends :
                 <<s, end>> \in fds'["judge"] <=> <<s, end>> \in fds["judge"] /\ end \notin ends
<1> USE SandboxAssumption
<1> DEFINE set == {<<s, end>> : end \in ends}
<1>1. TypeOK /\ SandboxInv
    BY DEF RunnerInv, SandboxInv
<1>2. /\ "judge" \in Processes /\ Requests \subseteq Processes /\ "judge" \notin Requests
      /\ set \in SUBSET ((Requests \cup Others) \X Ends) /\ s \notin Requests
    BY DEF Processes, Submissions
<1>3. /\ \A t, end : <<t, end>> \in set <=> t = s /\ end \in ends
      /\ \A x \in set : x \in (Requests \cup Others) \X Ends
    BY <1>2
<1> HIDE DEF set
<1>4. /\ fds' \in [Processes -> SUBSET ((Requests \cup Others) \X Ends)]
      /\ OpenedBy("judge", set) => fds'["judge"] = fds["judge"] \cup set
      /\ ClosedBy("judge", set) => fds'["judge"] = fds["judge"] \ set
      /\ \A q \in Processes : q # "judge" => fds'[q] = fds[q]
    BY <1>1, <1>2, FdsType DEF set
<1>5. OpenedBy("judge", set) \/ ClosedBy("judge", set)
    BY DEF set
<1>6. \A r \in Requests, end \in Ends :
          <<r, end>> \in fds'["judge"] <=> <<r, end>> \in fds["judge"]
    BY <1>2, <1>3, <1>4, <1>5
<1>7. SandboxInv'
    BY <1>1, <1>2, <1>4, <1>6, OtherDescriptors
<1>8. \A t \in Submissions, end \in Ends :
          /\ OpenedBy("judge", set) =>
                (<<t, end>> \in fds'["judge"] <=>
                    <<t, end>> \in fds["judge"] \/ (t = s /\ end \in ends))
          /\ ClosedBy("judge", set) =>
                (<<t, end>> \in fds'["judge"] <=>
                    <<t, end>> \in fds["judge"] /\ ~(t = s /\ end \in ends))
    BY <1>3, <1>4
<1>9. QED
    BY <1>5, <1>7, <1>8 DEF set

(* A compiler's own descriptors. *)
LEMMA CompilerEndsOwn ==
    ASSUME RunnerInv, NEW s \in Submissions, UNCHANGED sandboxVars,
           NEW set \in SUBSET ((Requests \cup Others) \X Ends),
           fds' = [fds EXCEPT ![s] = set]
    PROVE  SandboxInv' /\ fds'["judge"] = fds["judge"]
<1> USE SandboxAssumption
<1>1. TypeOK /\ SandboxInv
    BY DEF RunnerInv, SandboxInv
<1>2. /\ s \in Processes /\ "judge" \in Processes /\ Requests \subseteq Processes
      /\ "judge" # s /\ s \notin Requests
    BY DEF Processes, Submissions
<1>3. /\ fds' \in [Processes -> SUBSET ((Requests \cup Others) \X Ends)]
      /\ \A q \in Processes : q # s => fds'[q] = fds[q]
    BY <1>1, <1>2 DEF TypeOK
<1>4. QED
    BY <1>1, <1>2, <1>3, OtherDescriptors

LEMMA Places ==
    /\ Working = {"source", "log pipe", "fork", "close logW", "log", "close logR",
                  "wait", "cases"}
    /\ JPCs = {"mkdir", "reply", "done"} \cup Working
BY DEF Working, JPCs

LEMMA MakeDirStep ==
    ASSUME RunnerInv, NEW s \in Submissions, MakeDir(s) \/ MakeDirFails(s)
    PROVE  RunnerInv'
<1>1. /\ UNCHANGED <<vars, source, binary, unremoved, cc, cc_ok, cases, per_case,
                     overall>>
      /\ counter' = counter + 1
    BY DEF MakeDir, MakeDirFails, make_run_id, ccVars, resVars
<1>2. /\ jpc[s] = "mkdir" /\ \A t \in Submissions \ {s} : jpc'[t] = jpc[t]
      /\ jpc' \in [Submissions -> JPCs]
    BY DEF MakeDir, MakeDirFails, Goes, RunnerInv, RunnerTypeOK, JPCs
<1>3. /\ counter + 1 \in Ids /\ counter' \in 0 .. Cardinality(Submissions)
      /\ run_dir' \in [Submissions -> {0} \cup Ids] /\ NumbersInv' /\ counter \in Nat
    <2>1. PICK to \in {"source", "reply"} : Goes(s, "mkdir", to)
        BY DEF MakeDir, MakeDirFails
    <2>2. to \in JPCs \ {"mkdir"}
        BY <2>1 DEF JPCs
    <2>3. run_dir' \in {run_dir, [run_dir EXCEPT ![s] = counter + 1]}
        BY DEF MakeDir, MakeDirFails
    <2>4. QED
        BY <1>1, <2>1, <2>2, <2>3, NextNumber
<1>4. dirs' \in {dirs, dirs \cup {counter + 1}}
    BY DEF MakeDir, MakeDirFails
<1>5. JobTypeOK'
    BY <1>1, <1>2, <1>3, <1>4 DEF RunnerInv, RunnerTypeOK, JobTypeOK
<1>6. SandboxInv'
    BY <1>1, SandboxStays DEF vars
<1>7. \A t \in Submissions \ {s} :
          /\ run_dir'[t] = run_dir[t]
          /\ run_dir[t] \in dirs' <=> run_dir[t] \in dirs
    <2>1. run_dir' \in {run_dir, [run_dir EXCEPT ![s] = counter + 1]}
        BY DEF MakeDir, MakeDirFails
    <2>2. \A t \in Submissions : run_dir[t] # counter + 1
        <3>1. \A t \in Submissions : run_dir[t] <= counter /\ run_dir[t] \in {0} \cup Ids
            BY DEF RunnerInv, NumbersInv, RunnerTypeOK
        <3>2. \A n \in {0} \cup Ids : n <= counter => n # counter + 1
            BY <1>3 DEF Ids
        <3>3. QED
            BY <3>1, <3>2
    <2>3. QED
        BY <1>4, <2>1, <2>2 DEF RunnerInv, RunnerTypeOK
<1>8. JobInv(s)'
    <2>1. /\ cc[s] = "none" /\ overall[s] = "IE" /\ per_case[s] = <<>>
          /\ \A end \in Ends : <<s, end>> \notin fds["judge"]
          /\ run_dir[s] \notin dirs /\ s \notin unremoved
        <3>1. JobInv(s)
            BY DEF RunnerInv
        <3>2. QED
            BY <1>2, <3>1, Places
               DEF JobInv, DirInv, CompilerInv, ResultInv, BeforeCompiler
    <2>2. CompilerInv(s)' /\ ResultInv(s)'
        <3>1. jpc'[s] \in {"source", "reply"}
            BY <1>2 DEF MakeDir, MakeDirFails, Goes, RunnerInv, RunnerTypeOK
        <3>2. QED
            BY <1>1, <2>1, <3>1
               DEF CompilerInv, ResultInv, BeforeCompiler, Compiling, vars
    <2>3. DirInv(s)'
        <3>1. CASE MakeDir(s)
            <4>1. /\ jpc'[s] = "source" /\ run_dir'[s] = counter + 1
                  /\ counter + 1 \in dirs'
                BY <3>1 DEF MakeDir, Goes, RunnerInv, RunnerTypeOK
            <4>2. QED
                BY <1>1, <2>1, <4>1, Places DEF DirInv, Compiling
        <3>2. CASE MakeDirFails(s)
            <4>1. jpc'[s] = "reply" /\ run_dir'[s] = run_dir[s] /\ dirs' = dirs
                BY <3>2 DEF MakeDirFails, Goes, RunnerInv, RunnerTypeOK
            <4>2. QED
                BY <1>1, <2>1, <4>1, Places DEF DirInv, Compiling
        <3>3. QED
            BY <3>1, <3>2
    <2>4. QED
        BY <2>2, <2>3 DEF JobInv
<1>9. QED
    BY <1>1, <1>2, <1>3, <1>5, <1>6, <1>7, <1>8, OwnStep DEF vars

LEMMA WriteSourceStep ==
    ASSUME RunnerInv, NEW s \in Submissions, WriteSource(s)
    PROVE  RunnerInv'
<1>1. /\ UNCHANGED <<vars, counter, run_dir, dirs, binary, unremoved, cc, cc_ok, cases,
                     per_case, overall>>
      /\ jpc[s] = "source" /\ jpc' = [jpc EXCEPT ![s] = "log pipe"]
      /\ source' = [source EXCEPT ![run_dir[s]] = s]
    BY DEF WriteSource, Goes, ccVars, resVars
<1>2. /\ run_dir[s] \in Ids /\ run_dir[s] \in dirs
      /\ \A t \in Submissions : t # s => run_dir[t] # run_dir[s]
    BY <1>1, Places, OwnDirectory
<1>3. jpc \in [Submissions -> JPCs] /\ source \in [Ids -> Submissions \cup {Nobody}]
    BY DEF RunnerInv, RunnerTypeOK
<1>4. JobTypeOK'
    <2>1. source' \in [Ids -> Submissions \cup {Nobody}]
        BY <1>1, <1>2, <1>3
    <2>2. jpc' \in [Submissions -> JPCs]
        BY <1>1, <1>3 DEF JPCs
    <2>3. QED
        BY <1>1, <2>1, <2>2 DEF RunnerInv, RunnerTypeOK, JobTypeOK
<1>5. SandboxInv'
    BY <1>1, SandboxStays DEF vars
<1>6. NumbersInv'
    <2>1. \A t \in Submissions : jpc'[t] = "mkdir" <=> jpc[t] = "mkdir"
        BY <1>1, <1>3
    <2>2. QED
        BY <1>1, <2>1, NumbersStay
<1>7. ASSUME NEW t \in Submissions \ {s}
      PROVE  /\ jpc'[t] = jpc[t]
             /\ jpc[t] \in Working => source'[run_dir[t]] = source[run_dir[t]]
    <2>1. jpc[t] \in Working => run_dir[t] \in Ids
        BY OwnDirectory
    <2>2. QED
        BY <1>1, <1>2, <1>3, <2>1
<1>8. JobInv(s)'
    <2>1. jpc'[s] = "log pipe" /\ source'[run_dir[s]] = s
        BY <1>1, <1>2, <1>3
    <2>2. JobInv(s)
        BY DEF RunnerInv
    <2>3. DirInv(s)'
        <3>1. run_dir'[s] \in dirs' /\ source'[run_dir'[s]] = s
            BY <1>1, <1>2, <2>1
        <3>2. s \notin unremoved'
            BY <1>1, <2>2, Places DEF JobInv, DirInv
        <3>3. QED
            BY <2>1, <3>1, <3>2, Places DEF DirInv, Compiling
    <2>4. CompilerInv(s)' /\ ResultInv(s)'
        BY <1>1, <2>1, <2>2
           DEF JobInv, CompilerInv, ResultInv, BeforeCompiler, Compiling, vars
    <2>5. QED
        BY <2>3, <2>4 DEF JobInv
<1>9. QED
    BY <1>1, <1>4, <1>5, <1>6, <1>7, <1>8, OwnStep DEF vars

(* A step that leaves the directories alone. *)
LEMMA QuietStep ==
    ASSUME RunnerInv, NEW s \in Submissions,
           UNCHANGED <<diskVars, cases, pc, verdict, prog>>,
           \A t \in Submissions \ {s} :
               /\ UNCHANGED <<jpc[t], cc[t], cc_ok[t], per_case[t], overall[t]>>
               /\ \A end \in Ends :
                     <<t, end>> \in fds'["judge"] => <<t, end>> \in fds["judge"],
           jpc'[s] = "mkdir" <=> jpc[s] = "mkdir",
           jpc' \in [Submissions -> JPCs],
           cc' \in [Submissions -> {"none", "forked", "runs", "zombie", "reaped"}],
           cc_ok' \in [Submissions -> BOOLEAN],
           per_case' \in [Submissions -> Seq(Verdicts \cup {"WA"})],
           overall' \in [Submissions -> Verdicts \cup {"WA", "CE"}],
           SandboxInv', JobInv(s)'
    PROVE  RunnerInv'
<1>1. JobTypeOK'
    BY DEF RunnerInv, RunnerTypeOK, JobTypeOK, diskVars
<1>2. NumbersInv'
    <2>1. \A t \in Submissions : jpc'[t] = "mkdir" <=> jpc[t] = "mkdir"
        OBVIOUS
    <2>2. QED
        BY <2>1, NumbersStay DEF diskVars
<1>3. QED
    BY <1>1, <1>2, OwnStep DEF diskVars

(* The cleanup of one request does not touch what another one works with. *)
LEMMA CleanupOwn ==
    ASSUME RunnerInv, NEW s \in Submissions, jpc[s] \in Working, Cleanup(s)
    PROVE  /\ dirs' \subseteq Ids
           /\ {source', binary'} \subseteq [Ids -> Submissions \cup {Nobody}]
           /\ unremoved' \subseteq Submissions
           /\ run_dir'[s] \in dirs' <=> s \in unremoved'
           /\ UNCHANGED <<counter, run_dir>>
           /\ \A t \in Submissions \ {s} :
                /\ run_dir[t] \in dirs' <=> run_dir[t] \in dirs
                /\ t \in unremoved' <=> t \in unremoved
                /\ jpc[t] \in Working => /\ source'[run_dir[t]] = source[run_dir[t]]
                                         /\ binary'[run_dir[t]] = binary[run_dir[t]]
<1>1. /\ run_dir[s] \in Ids
      /\ \A t \in Submissions : t # s => run_dir[t] # run_dir[s]
      /\ \A t \in Submissions : jpc[t] \in Working => run_dir[t] \in Ids
    BY OwnDirectory
<1>2. /\ {source, binary} \subseteq [Ids -> Submissions \cup {Nobody}]
      /\ dirs \subseteq Ids /\ unremoved \subseteq Submissions
    BY DEF RunnerInv, RunnerTypeOK
<1>3. s \notin unremoved /\ run_dir[s] \in dirs
    BY Places DEF RunnerInv, JobInv, DirInv
<1>4. CASE /\ dirs' = dirs \ {run_dir[s]}
           /\ source' = Without(source, s) /\ binary' = Without(binary, s)
           /\ UNCHANGED <<unremoved, counter, run_dir>>
    BY <1>1, <1>2, <1>3, <1>4 DEF Without
<1>5. CASE /\ unremoved' = unremoved \cup {s}
           /\ source' \in {source, Without(source, s)}
           /\ binary' \in {binary, Without(binary, s)}
           /\ UNCHANGED <<dirs, counter, run_dir>>
    BY <1>1, <1>2, <1>3, <1>5 DEF Without
<1>6. QED
    BY <1>4, <1>5 DEF Cleanup

(* A step that ends the work of a request. *)
LEMMA LastStep ==
    ASSUME RunnerInv, NEW s \in Submissions, Cleanup(s), NEW from \in Working,
           Goes(s, from, "reply"), UNCHANGED <<cases, cc_ok, pc, verdict, prog>>,
           \A t \in Submissions \ {s} :
               /\ UNCHANGED <<cc[t], per_case[t], overall[t]>>
               /\ \A end \in Ends :
                     <<t, end>> \in fds'["judge"] => <<t, end>> \in fds["judge"],
           cc' \in [Submissions -> {"none", "forked", "runs", "zombie", "reaped"}],
           per_case' \in [Submissions -> Seq(Verdicts \cup {"WA"})],
           overall' \in [Submissions -> Verdicts \cup {"WA", "CE"}],
           cc'[s] \in {"none", "reaped"},
           \A end \in Ends : <<s, end>> \notin fds'["judge"],
           SandboxInv', ResultInv(s)'
    PROVE  RunnerInv'
<1>1. jpc[s] = from /\ jpc' = [jpc EXCEPT ![s] = "reply"] /\ from # "mkdir"
    BY Places DEF Goes
<1>2. jpc \in [Submissions -> JPCs] /\ jpc' \in [Submissions -> JPCs] /\ jpc'[s] = "reply"
    BY <1>1 DEF RunnerInv, RunnerTypeOK, JPCs
<1>3. /\ dirs' \subseteq Ids
      /\ {source', binary'} \subseteq [Ids -> Submissions \cup {Nobody}]
      /\ unremoved' \subseteq Submissions
      /\ run_dir'[s] \in dirs' <=> s \in unremoved'
      /\ UNCHANGED <<counter, run_dir>>
      /\ \A t \in Submissions \ {s} :
            /\ run_dir[t] \in dirs' <=> run_dir[t] \in dirs
            /\ t \in unremoved' <=> t \in unremoved
            /\ jpc[t] \in Working => /\ source'[run_dir[t]] = source[run_dir[t]]
                                     /\ binary'[run_dir[t]] = binary[run_dir[t]]
    BY <1>1, CleanupOwn
<1>4. JobTypeOK'
    BY <1>2, <1>3 DEF RunnerInv, RunnerTypeOK, JobTypeOK
<1>5. NumbersInv'
    <2>1. \A t \in Submissions : jpc'[t] = "mkdir" <=> jpc[t] = "mkdir"
        BY <1>1, <1>2
    <2>2. QED
        BY <1>3, <2>1, NumbersStay
<1>6. JobInv(s)'
    <2>1. DirInv(s)'
        BY <1>2, <1>3, Places DEF DirInv, Compiling
    <2>2. CompilerInv(s)'
        BY <1>2 DEF CompilerInv, BeforeCompiler, Compiling
    <2>3. QED
        BY <2>1, <2>2 DEF JobInv
<1>7. \A t \in Submissions \ {s} : jpc'[t] = jpc[t]
    BY <1>1, <1>2
<1>8. QED
    BY <1>3, <1>4, <1>5, <1>6, <1>7, OwnStep

LEMMA LogPipeStep ==
    ASSUME RunnerInv, NEW s \in Submissions, LogPipe(s)
    PROVE  RunnerInv'
<1>1. /\ UNCHANGED <<sandboxVars, diskVars, cc, cc_ok, cases, per_case, overall>>
      /\ jpc[s] = "log pipe" /\ jpc' = [jpc EXCEPT ![s] = "fork"] /\ judge = "up"
      /\ OpenedBy("judge", {<<s, "outR">>, <<s, "outW">>})
    BY DEF LogPipe, Goes, ccVars, resVars
<1>2. jpc \in [Submissions -> JPCs] /\ jpc' \in [Submissions -> JPCs] /\ jpc'[s] = "fork"
    BY <1>1 DEF RunnerInv, RunnerTypeOK, JPCs
<1>3. /\ {"outR", "outW"} \in SUBSET Ends
      /\ OpenedBy("judge", {<<s, end>> : end \in {"outR", "outW"}})
    <2>1. {<<s, "outR">>, <<s, "outW">>} = {<<s, end>> : end \in {"outR", "outW"}}
        OBVIOUS
    <2>2. QED
        BY <1>1, <2>1 DEF Ends
<1>4. /\ SandboxInv'
      /\ \A t \in Submissions \ {s}, end \in Ends :
            <<t, end>> \in fds'["judge"] => <<t, end>> \in fds["judge"]
      /\ \A end \in Ends : <<s, end>> \in fds'["judge"] <=>
            <<s, end>> \in fds["judge"] \/ end \in {"outR", "outW"}
    BY <1>1, <1>3, LogEnds
<1>5. JobInv(s)'
    <2>1. JobInv(s)
        BY DEF RunnerInv
    <2>2. DirInv(s)'
        BY <1>1, <1>2, <2>1, Places DEF JobInv, DirInv, diskVars, Compiling
    <2>3. CompilerInv(s)'
        BY <1>1, <1>2, <1>4, <2>1 DEF JobInv, CompilerInv, BeforeCompiler, Compiling
    <2>4. ResultInv(s)'
        BY <1>1, <1>2, <2>1, <2>3
           DEF JobInv, CompilerInv, ResultInv, BeforeCompiler, Compiling
    <2>5. QED
        BY <2>2, <2>3, <2>4 DEF JobInv
<1>6. \A t \in Submissions \ {s} : jpc'[t] = jpc[t]
    BY <1>1, <1>2
<1>7. QED
    BY <1>1, <1>2, <1>4, <1>5, <1>6, QuietStep
       DEF RunnerInv, RunnerTypeOK, sandboxVars, pipeVars, ownVars, childVars

LEMMA NotSpawnedStep ==
    ASSUME RunnerInv, NEW s \in Submissions, NotSpawned(s)
    PROVE  RunnerInv'
<1>1. /\ UNCHANGED <<sandboxVars, cc, cc_ok, cases, per_case, overall>>
      /\ judge = "up" /\ Cleanup(s)
      /\ ClosedBy("judge", {<<s, "outR">>, <<s, "outW">>})
    BY DEF NotSpawned, Goes, ccVars, resVars
<1>2. PICK from \in {"log pipe", "fork"} : Goes(s, from, "reply")
    BY DEF NotSpawned
<1>3. jpc[s] = from /\ from \in Working
    BY <1>2, Places DEF Goes
<1>4. JobInv(s)
    BY DEF RunnerInv
<1>5. /\ {"outR", "outW"} \in SUBSET Ends
      /\ ClosedBy("judge", {<<s, end>> : end \in {"outR", "outW"}})
    <2>1. {<<s, "outR">>, <<s, "outW">>} = {<<s, end>> : end \in {"outR", "outW"}}
        OBVIOUS
    <2>2. QED
        BY <1>1, <2>1 DEF Ends
<1>6. /\ SandboxInv'
      /\ \A t \in Submissions \ {s}, end \in Ends :
            <<t, end>> \in fds'["judge"] => <<t, end>> \in fds["judge"]
      /\ \A end \in Ends : <<s, end>> \in fds'["judge"] =>
            <<s, end>> \in fds["judge"] /\ end \notin {"outR", "outW"}
    BY <1>1, <1>5, LogEnds
<1>7. \A end \in Ends : <<s, end>> \notin fds'["judge"]
    BY <1>4, <1>6 DEF JobInv, CompilerInv
<1>8. cc[s] = "none"
    BY <1>2, <1>3, <1>4 DEF JobInv, CompilerInv, BeforeCompiler
<1>9. ResultInv(s)'
    BY <1>1, <1>4, <1>8 DEF JobInv, ResultInv
<1>10. QED
    BY <1>1, <1>2, <1>3, <1>6, <1>7, <1>8, <1>9, LastStep
       DEF RunnerInv, RunnerTypeOK, sandboxVars, pipeVars, ownVars, childVars

LEMMA ForkCompilerStep ==
    ASSUME RunnerInv, NEW s \in Submissions, ForkCompiler(s)
    PROVE  RunnerInv'
<1>1. /\ UNCHANGED <<sandboxVars, diskVars, cc_ok, cases, per_case, overall>>
      /\ jpc[s] = "fork" /\ jpc' = [jpc EXCEPT ![s] = "close logW"]
      /\ cc' = [cc EXCEPT ![s] = "forked"]
      /\ fds' = [fds EXCEPT ![s] = fds["judge"]]
    BY DEF ForkCompiler, Goes, resVars
<1>2. /\ jpc \in [Submissions -> JPCs] /\ jpc' \in [Submissions -> JPCs]
      /\ jpc'[s] = "close logW" /\ cc'[s] = "forked"
      /\ cc' \in [Submissions -> {"none", "forked", "runs", "zombie", "reaped"}]
    BY <1>1 DEF RunnerInv, RunnerTypeOK, JPCs
<1>3. SandboxInv' /\ fds'["judge"] = fds["judge"]
    <2>1. fds["judge"] \in SUBSET ((Requests \cup Others) \X Ends)
        BY DEF RunnerInv, SandboxInv, TypeOK, Processes
    <2>2. QED
        BY <1>1, <2>1, CompilerEndsOwn
<1>4. JobInv(s)'
    <2>1. JobInv(s)
        BY DEF RunnerInv
    <2>2. cc[s] = "none"
        BY <1>1, <2>1 DEF JobInv, CompilerInv, BeforeCompiler
    <2>3. DirInv(s)'
        BY <1>1, <1>2, <2>1, Places DEF JobInv, DirInv, diskVars
    <2>4. CompilerInv(s)'
        BY <1>1, <1>2, <1>3, <2>1 DEF JobInv, CompilerInv, BeforeCompiler, Compiling
    <2>5. ResultInv(s)'
        BY <1>1, <1>2, <2>1, <2>2 DEF JobInv, ResultInv
    <2>6. QED
        BY <2>3, <2>4, <2>5 DEF JobInv
<1>5. \A t \in Submissions \ {s} : jpc'[t] = jpc[t] /\ cc'[t] = cc[t]
    BY <1>1, <1>2
<1>6. QED
    BY <1>1, <1>2, <1>3, <1>4, <1>5, QuietStep
       DEF RunnerInv, RunnerTypeOK, sandboxVars, pipeVars, ownVars, childVars

(* The thread goes on while the compiler is at work. *)
LEMMA WaitingStep ==
    ASSUME RunnerInv, NEW s \in Submissions,
           UNCHANGED <<diskVars, cc, cc_ok, cases, per_case, overall, pc, verdict, prog>>,
           NEW from \in Compiling, NEW to \in Compiling, Goes(s, from, to),
           SandboxInv',
           \A t \in Submissions \ {s}, end \in Ends :
               <<t, end>> \in fds'["judge"] => <<t, end>> \in fds["judge"],
           \A end \in Ends : <<s, end>> \in fds'["judge"] =>
               \/ end = "outW" /\ to \in {"fork", "close logW"}
               \/ end = "outR" /\ to \in {"fork", "close logW", "log", "close logR"}
    PROVE  RunnerInv'
<1>1. jpc[s] = from /\ jpc' = [jpc EXCEPT ![s] = to] /\ to \in JPCs
    BY DEF Goes, Compiling, JPCs
<1>2. jpc \in [Submissions -> JPCs] /\ jpc' \in [Submissions -> JPCs] /\ jpc'[s] = to
    BY <1>1 DEF RunnerInv, RunnerTypeOK
<1>3. /\ Compiling \subseteq Working \ {"source"}
      /\ Compiling \cap (BeforeCompiler \cup {"cases", "reply", "done", "mkdir"}) = {}
    BY Places DEF Compiling, BeforeCompiler
<1>4. JobInv(s)'
    <2>1. JobInv(s)
        BY DEF RunnerInv
    <2>2. DirInv(s)'
        BY <1>1, <1>2, <1>3, <2>1 DEF JobInv, DirInv, diskVars
    <2>3. CompilerInv(s)'
        BY <1>1, <1>2, <1>3, <2>1 DEF JobInv, CompilerInv
    <2>4. ResultInv(s)'
        BY <1>1, <1>2, <1>3, <2>1, <2>3 DEF JobInv, CompilerInv, ResultInv
    <2>5. QED
        BY <2>2, <2>3, <2>4 DEF JobInv
<1>5. \A t \in Submissions \ {s} : jpc'[t] = jpc[t]
    BY <1>1, <1>2
<1>6. jpc'[s] = "mkdir" <=> jpc[s] = "mkdir"
    BY <1>1, <1>2, <1>3
<1>7. QED
    BY <1>2, <1>4, <1>5, <1>6, QuietStep DEF RunnerInv, RunnerTypeOK

LEMMA LogStep ==
    ASSUME RunnerInv, NEW s \in Submissions, CloseLog(s) \/ LogRead(s)
    PROVE  RunnerInv'
<1> USE DEF Compiling
<1>1. JobInv(s)
    BY DEF RunnerInv
<1>2. UNCHANGED <<diskVars, cc, cc_ok, cases, per_case, overall, pc, verdict, prog>>
    BY DEF CloseLog, LogRead, ccVars, resVars, sandboxVars, ownVars, vars
<1>3. ASSUME NEW from \in Compiling, NEW to \in Compiling, NEW end0 \in Ends,
             Goes(s, from, to), ClosedBy("judge", {<<s, end0>>}), UNCHANGED sandboxVars,
             \A end \in Ends :
                 (\/ end = "outW" /\ from \in {"fork", "close logW"}
                  \/ end = "outR" /\ from \in {"fork", "close logW", "log", "close logR"})
                 /\ end # end0 =>
                     \/ end = "outW" /\ to \in {"fork", "close logW"}
                     \/ end = "outR" /\ to \in {"fork", "close logW", "log", "close logR"}
      PROVE  RunnerInv'
    <2>1. ClosedBy("judge", {<<s, end>> : end \in {end0}})
        <3>1. {<<s, end0>>} = {<<s, end>> : end \in {end0}}
            OBVIOUS
        <3>2. QED
            BY <1>3, <3>1
    <2>2. {end0} \in SUBSET Ends /\ judge = "up" /\ jpc[s] = from
        BY <1>3 DEF Goes
    <2>3. /\ SandboxInv'
          /\ \A t \in Submissions \ {s}, end \in Ends :
                <<t, end>> \in fds'["judge"] => <<t, end>> \in fds["judge"]
          /\ \A end \in Ends : <<s, end>> \in fds'["judge"] =>
                <<s, end>> \in fds["judge"] /\ end \notin {end0}
        BY <1>3, <2>1, <2>2, LogEnds
    <2>4. \A end \in Ends : <<s, end>> \in fds'["judge"] =>
              \/ end = "outW" /\ to \in {"fork", "close logW"}
              \/ end = "outR" /\ to \in {"fork", "close logW", "log", "close logR"}
        BY <1>1, <1>3, <2>2, <2>3 DEF JobInv, CompilerInv
    <2>5. QED
        BY <1>2, <1>3, <2>3, <2>4, WaitingStep
<1>4. CASE CloseLog(s)
    <2>1. PICK c \in LogCloses : Goes(s, c[1], c[3]) /\ ClosedBy("judge", {<<s, c[2]>>})
        BY <1>4 DEF CloseLog
    <2>2. UNCHANGED sandboxVars
        BY <1>4 DEF CloseLog
    <2>3. CASE c = <<"close logW", "outW", "log">>
        BY <1>3, <2>1, <2>2, <2>3 DEF Ends
    <2>4. CASE c = <<"close logR", "outR", "wait">>
        BY <1>3, <2>1, <2>2, <2>4 DEF Ends
    <2>5. QED
        BY <2>3, <2>4 DEF LogCloses
<1>5. CASE LogRead(s)
    <2>1. Goes(s, "log", "close logR") /\ UNCHANGED vars /\ jpc[s] = "log"
        BY <1>5 DEF LogRead, Goes
    <2>2. SandboxInv'
        BY <2>1, SandboxStays DEF vars
    <2>3. QED
        BY <1>1, <1>2, <2>1, <2>2, WaitingStep DEF vars, JobInv, CompilerInv
<1>6. QED
    BY <1>4, <1>5

LEMMA CompiledStep ==
    ASSUME RunnerInv, NEW s \in Submissions, Compiled(s)
    PROVE  RunnerInv'
<1>1. /\ UNCHANGED <<vars, cc_ok, cases, per_case>>
      /\ cc[s] = "zombie" /\ cc' = [cc EXCEPT ![s] = "reaped"] /\ jpc[s] = "wait"
    BY DEF Compiled, Goes
<1>2. JobInv(s) /\ SandboxInv' /\ RunnerTypeOK
    BY <1>1, SandboxStays DEF RunnerInv, vars
<1>3. /\ cc'[s] = "reaped" /\ \A t \in Submissions \ {s} : cc'[t] = cc[t]
      /\ cc' \in [Submissions -> {"none", "forked", "runs", "zombie", "reaped"}]
    BY <1>1, <1>2 DEF RunnerTypeOK
<1>4. /\ \A end \in Ends : <<s, end>> \notin fds'["judge"]
      /\ UNCHANGED <<pc, verdict, prog, fds>> /\ per_case[s] = <<>>
    BY <1>1, <1>2 DEF JobInv, CompilerInv, ResultInv, vars
<1>5. CASE cc_ok[s]
    <2>1. /\ Goes(s, "wait", "cases") /\ overall' = [overall EXCEPT ![s] = "AC"]
          /\ UNCHANGED diskVars
        BY <1>5 DEF Compiled
    <2>2. /\ jpc'[s] = "cases" /\ overall'[s] = "AC" /\ jpc' \in [Submissions -> JPCs]
          /\ \A t \in Submissions \ {s} : jpc'[t] = jpc[t] /\ overall'[t] = overall[t]
        BY <1>2, <2>1 DEF Goes, RunnerTypeOK, JPCs
    <2>3. overall' \in [Submissions -> Verdicts \cup {"WA", "CE"}]
        BY <1>2, <2>1 DEF RunnerTypeOK, Verdicts
    <2>4. DirInv(s)'
        BY <1>1, <1>2, <1>5, <2>1, <2>2, Places DEF JobInv, DirInv, Compiling, diskVars
    <2>5. CompilerInv(s)'
        BY <1>1, <1>3, <1>4, <1>5, <2>2 DEF CompilerInv, BeforeCompiler, Compiling
    <2>6. ResultInv(s)'
        <3>1. cases[s] \in Seq(Requests) /\ Len(per_case[s]) = 0
            BY <1>2, <1>4 DEF RunnerTypeOK
        <3>2. Len(cases[s]) \in Nat /\ 1 .. Len(per_case[s]) = {}
            BY <3>1
        <3>3. CasesInv(s)'
            BY <1>1, <2>2, <3>1, <3>2 DEF CasesInv
        <3>4. QED
            BY <1>1, <1>3, <1>5, <2>2, <3>3 DEF ResultInv
    <2>7. JobInv(s)'
        BY <2>4, <2>5, <2>6 DEF JobInv
    <2>8. QED
        BY <1>1, <1>2, <1>3, <1>4, <2>1, <2>2, <2>3, <2>7, QuietStep DEF RunnerTypeOK
<1>6. CASE ~cc_ok[s]
    <2>1. /\ Goes(s, "wait", "reply") /\ overall' = [overall EXCEPT ![s] = "CE"]
          /\ Cleanup(s)
        BY <1>6 DEF Compiled
    <2>2. /\ overall'[s] = "CE" /\ \A t \in Submissions \ {s} : overall'[t] = overall[t]
          /\ overall' \in [Submissions -> Verdicts \cup {"WA", "CE"}]
        BY <1>2, <2>1 DEF RunnerTypeOK
    <2>3. ResultInv(s)'
        BY <1>1, <1>3, <1>6, <2>2 DEF ResultInv
    <2>4. "wait" \in Working
        BY Places
    <2>5. QED
        BY <1>1, <1>2, <1>3, <1>4, <2>1, <2>2, <2>3, <2>4, LastStep DEF RunnerTypeOK
<1>7. QED
    BY <1>5, <1>6

(* The verdict of one more case is added to those that are there. *)
LEMMA CaseAdded ==
    ASSUME RunnerInv, NEW s \in Submissions, CasesLeft(s), pc[Current(s)] = "done",
           CasesInv(s), NEW v, v = CaseVerdict(Current(s)),
           UNCHANGED <<pc, cases, verdict, prog>>,
           per_case' = [per_case EXCEPT ![s] = Append(@, v)],
           overall' = [overall EXCEPT ![s] = Worse(@, v)]
    PROVE  /\ v \in Verdicts \cup {"WA"} /\ CasesInv(s)'
           /\ per_case' \in [Submissions -> Seq(Verdicts \cup {"WA"})]
           /\ overall' \in [Submissions -> Verdicts \cup {"WA", "CE"}]
<1> DEFINE n == Len(per_case[s])
<1>1. /\ per_case \in [Submissions -> Seq(Verdicts \cup {"WA"})]
      /\ overall \in [Submissions -> Verdicts \cup {"WA", "CE"}]
      /\ cases[s] \in Seq(Requests) /\ per_case[s] \in Seq(Verdicts \cup {"WA"})
      /\ verdict \in [Requests -> Verdicts]
    BY DEF RunnerInv, RunnerTypeOK, TypeOK
<1>2. n \in Nat /\ n < Len(cases[s]) /\ Len(cases[s]) \in Nat
    BY <1>1 DEF CasesLeft
<1>3. Current(s) \in Requests /\ Current(s) = cases[s][n + 1]
    <2>1. n + 1 \in 1 .. Len(cases[s])
        BY <1>2
    <2>2. QED
        BY <1>1, <2>1 DEF Current
<1>4. v \in Verdicts \cup {"WA"}
    BY <1>1, <1>3 DEF CaseVerdict
<1>5. /\ per_case'[s] = Append(per_case[s], v) /\ overall'[s] = Worse(overall[s], v)
      /\ per_case' \in [Submissions -> Seq(Verdicts \cup {"WA"})]
      /\ overall' \in [Submissions -> Verdicts \cup {"WA", "CE"}]
    <2>1. Append(per_case[s], v) \in Seq(Verdicts \cup {"WA"})
        BY <1>1, <1>4
    <2>2. Worse(overall[s], v) \in Verdicts \cup {"WA", "CE"}
        BY <1>1, <1>4 DEF Worse
    <2>3. QED
        BY <1>1, <2>1, <2>2
<1>6. /\ Len(per_case'[s]) = n + 1 /\ per_case'[s][n + 1] = v
      /\ \A i \in 1 .. n : per_case'[s][i] = per_case[s][i]
    BY <1>1, <1>4, <1>5
<1>7. \A i \in 1 .. n + 1 : i \in 1 .. n \/ i = n + 1
    BY <1>2
<1>8. \A r \in Requests : CaseVerdict(r)' = CaseVerdict(r)
    BY DEF CaseVerdict
<1>9. \A i \in 1 .. n : cases[s][i] \in Requests
    <2>1. \A i \in 1 .. n : i \in 1 .. Len(cases[s])
        BY <1>2
    <2>2. QED
        BY <1>1, <2>1
<1>10. \A i \in 1 .. n + 1 : /\ pc[cases[s][i]] = "done"
                             /\ per_case'[s][i] = CaseVerdict(cases[s][i])
    BY <1>3, <1>6, <1>7 DEF CasesInv
<1>11. \/ /\ overall'[s] = "AC"
          /\ \A i \in 1 .. n + 1 : per_case'[s][i] = "AC"
       \/ /\ overall'[s] \notin {"AC", "CE"}
          /\ \E i \in 1 .. n + 1 : /\ per_case'[s][i] = overall'[s]
                                   /\ \A j \in 1 .. i - 1 : per_case'[s][j] = "AC"
    <2>1. CASE overall[s] = "AC"
        <3>1. \A i \in 1 .. n : per_case[s][i] = "AC"
            BY <2>1 DEF CasesInv
        <3>2. CASE v = "AC"
            BY <1>5, <1>6, <1>7, <2>1, <3>1, <3>2 DEF Worse
        <3>3. CASE v # "AC"
            <4>1. overall'[s] = v /\ v # "CE"
                BY <1>4, <1>5, <2>1, <3>3 DEF Worse, Verdicts
            <4>2. n + 1 \in 1 .. n + 1 /\ 1 .. (n + 1) - 1 = 1 .. n
                BY <1>2
            <4>3. \A j \in 1 .. (n + 1) - 1 : per_case'[s][j] = "AC"
                BY <1>6, <3>1, <4>2
            <4>4. QED
                BY <1>6, <3>3, <4>1, <4>2, <4>3
        <3>4. QED
            BY <3>2, <3>3
    <2>2. CASE overall[s] # "AC"
        <3>1. overall'[s] = overall[s] /\ overall[s] # "CE"
            BY <1>5, <2>2 DEF Worse, CasesInv
        <3>2. PICK i \in 1 .. n : /\ per_case[s][i] = overall[s]
                                  /\ \A j \in 1 .. i - 1 : per_case[s][j] = "AC"
            BY <2>2 DEF CasesInv
        <3>3. i \in 1 .. n + 1 /\ \A j \in 1 .. i - 1 : j \in 1 .. n
            BY <1>2
        <3>4. per_case'[s][i] = overall'[s] /\ \A j \in 1 .. i - 1 : per_case'[s][j] = "AC"
            BY <1>6, <3>1, <3>2, <3>3
        <3>5. QED
            BY <2>2, <3>1, <3>3, <3>4
    <2>3. QED
        BY <2>1, <2>2
<1>12. CasesInv(s)'
    <2>1. n + 1 <= Len(cases[s])
        BY <1>2
    <2>2. \A i \in 1 .. n + 1 : CaseVerdict(cases[s][i])' = CaseVerdict(cases[s][i])
        BY <1>3, <1>7, <1>8, <1>9
    <2>3. \A i \in 1 .. Len(per_case'[s]) :
              /\ pc'[cases'[s][i]] = "done"
              /\ per_case'[s][i] = CaseVerdict(cases[s][i])'
        BY <1>6, <1>10, <2>2
    <2> HIDE DEF n
    <2>4. QED
        BY <1>6, <1>11, <2>1, <2>3 DEF CasesInv
<1>13. QED
    BY <1>4, <1>5, <1>12

LEMMA CaseDoneStep ==
    ASSUME RunnerInv, NEW s \in Submissions, CaseDone(s)
    PROVE  RunnerInv'
<1>1. /\ UNCHANGED <<vars, diskVars, cc, cc_ok, cases>> /\ CasesLeft(s)
      /\ pc[Current(s)] = "done" /\ jpc[s] = "cases"
      /\ jpc' = [jpc EXCEPT ![s] = "cases"]
    BY DEF CaseDone, Goes, ccVars
<1>2. PICK v : /\ v = CaseVerdict(Current(s))
               /\ per_case' = [per_case EXCEPT ![s] = Append(@, v)]
               /\ overall' = [overall EXCEPT ![s] = Worse(@, v)]
    BY DEF CaseDone
<1>3. JobInv(s) /\ SandboxInv' /\ RunnerTypeOK
    BY <1>1, SandboxStays DEF RunnerInv, vars
<1>4. cc[s] = "reaped" /\ cc_ok[s] /\ CasesInv(s)
    BY <1>1, <1>3 DEF JobInv, CompilerInv, ResultInv
<1>5. UNCHANGED <<pc, cases, verdict, prog, fds>>
    BY <1>1 DEF vars
<1>6. /\ CasesInv(s)'
      /\ per_case' \in [Submissions -> Seq(Verdicts \cup {"WA"})]
      /\ overall' \in [Submissions -> Verdicts \cup {"WA", "CE"}]
    BY <1>1, <1>2, <1>4, <1>5, CaseAdded
<1>7. /\ jpc' = jpc /\ \A t \in Submissions \ {s} : /\ per_case'[t] = per_case[t]
                                                   /\ overall'[t] = overall[t]
    BY <1>1, <1>2, <1>3 DEF RunnerTypeOK
<1>8. JobInv(s)'
    <2>1. DirInv(s)' /\ CompilerInv(s)'
        BY <1>1, <1>3, <1>5, <1>7 DEF JobInv, DirInv, CompilerInv, diskVars
    <2>2. ResultInv(s)'
        BY <1>1, <1>4, <1>6, <1>7 DEF ResultInv
    <2>3. QED
        BY <2>1, <2>2 DEF JobInv
<1>9. /\ cc' \in [Submissions -> {"none", "forked", "runs", "zombie", "reaped"}]
      /\ cc_ok' \in [Submissions -> BOOLEAN]
      /\ jpc' \in [Submissions -> JPCs]
    BY <1>1, <1>3, <1>7 DEF RunnerTypeOK
<1>10. UNCHANGED <<diskVars, cc, cc_ok, cases, fds, jpc, pc, verdict, prog>>
    BY <1>1, <1>5, <1>7
<1>11. QED
    BY <1>1, <1>3, <1>6, <1>7, <1>8, <1>9, <1>10, QuietStep

LEMMA ReturnStep ==
    ASSUME RunnerInv, NEW s \in Submissions, Return(s)
    PROVE  RunnerInv'
<1>1. /\ UNCHANGED <<vars, cc, cc_ok, cases, per_case, overall>> /\ Cleanup(s)
      /\ Len(per_case[s]) = Len(cases[s]) /\ Goes(s, "cases", "reply") /\ jpc[s] = "cases"
    BY DEF Return, Goes, ccVars, resVars
<1>2. JobInv(s) /\ SandboxInv' /\ RunnerTypeOK
    BY <1>1, SandboxStays DEF RunnerInv, vars
<1>3. /\ cc[s] = "reaped" /\ cc_ok[s] /\ CasesInv(s)
      /\ \A end \in Ends : <<s, end>> \notin fds["judge"]
    BY <1>1, <1>2 DEF JobInv, CompilerInv, ResultInv
<1>4. UNCHANGED <<pc, cases, verdict, prog, fds>>
    BY <1>1 DEF vars
<1>5. ResultInv(s)'
    <2>1. CasesInv(s)'
        BY <1>1, <1>3, <1>4 DEF CasesInv, CaseVerdict
    <2>2. QED
        BY <1>1, <1>3, <2>1 DEF ResultInv
<1>6. "cases" \in Working
    BY Places
<1>7. QED
    BY <1>1, <1>2, <1>3, <1>4, <1>5, <1>6, LastStep DEF RunnerTypeOK

LEMMA AnswerStep ==
    ASSUME RunnerInv, NEW s \in Submissions, Answer(s)
    PROVE  RunnerInv'
<1>1. /\ UNCHANGED <<vars, diskVars, cc, cc_ok, cases, per_case, overall>>
      /\ jpc[s] = "reply" /\ jpc' = [jpc EXCEPT ![s] = "done"]
    BY DEF Answer, Goes, ccVars, resVars
<1>2. JobInv(s) /\ SandboxInv' /\ RunnerTypeOK
    BY <1>1, SandboxStays DEF RunnerInv, vars
<1>3. UNCHANGED <<pc, cases, verdict, prog, fds>>
    BY <1>1 DEF vars
<1>4. /\ jpc'[s] = "done" /\ \A t \in Submissions \ {s} : jpc'[t] = jpc[t]
      /\ jpc' \in [Submissions -> JPCs]
    BY <1>1, <1>2 DEF RunnerTypeOK, JPCs
<1>5. JobInv(s)'
    <2>1. DirInv(s)'
        BY <1>1, <1>2, <1>4, Places DEF JobInv, DirInv, Compiling, diskVars
    <2>2. CompilerInv(s)'
        BY <1>1, <1>2, <1>3, <1>4 DEF JobInv, CompilerInv, BeforeCompiler, Compiling
    <2>3. CasesInv(s) => CasesInv(s)'
        BY <1>1, <1>3 DEF CasesInv, CaseVerdict
    <2>4. ResultInv(s)'
        BY <1>1, <1>2, <1>4, <2>3 DEF JobInv, ResultInv
    <2>5. QED
        BY <2>1, <2>2, <2>4 DEF JobInv
<1>6. QED
    BY <1>1, <1>2, <1>3, <1>4, <1>5, QuietStep DEF RunnerTypeOK

(* A compiler is there only while its request waits for it. *)
LEMMA CompilerStep ==
    ASSUME RunnerInv, NEW s \in Submissions, Compiler(s)
    PROVE  RunnerInv'
<1> USE SandboxAssumption
<1>1. /\ UNCHANGED <<sandboxVars, jpc, counter, run_dir, dirs, source, unremoved,
                     cases, per_case, overall>>
      /\ cc[s] \in {"forked", "runs"}
    BY DEF Compiler, ExecCompiler, CompilerEnds, resVars, diskVars
<1>2. JobInv(s) /\ RunnerTypeOK /\ TypeOK
    BY DEF RunnerInv, SandboxInv
<1>3. jpc[s] \in Compiling
    BY <1>1, <1>2 DEF JobInv, CompilerInv, RunnerTypeOK, JPCs, BeforeCompiler, Compiling
<1>4. /\ run_dir[s] \in Ids /\ run_dir[s] \in dirs
      /\ \A t \in Submissions : t # s => run_dir[t] # run_dir[s]
      /\ \A t \in Submissions : jpc[t] \in Working => run_dir[t] \in Ids
    BY <1>3, Places, OwnDirectory DEF Compiling
<1>5. PICK set \in SUBSET ((Requests \cup Others) \X Ends) : fds' = [fds EXCEPT ![s] = set]
    <2>1. fds[s] \subseteq (Requests \cup Others) \X Ends
        BY <1>2 DEF TypeOK, Processes, Submissions
    <2>2. CASE ExecCompiler(s)
        <3>1. fds' = [fds EXCEPT ![s] = fds[s] \ {<<s, "outR">>}]
            BY <2>2 DEF ExecCompiler, ClosedBy
        <3>2. fds[s] \ {<<s, "outR">>} \in SUBSET ((Requests \cup Others) \X Ends)
            BY <2>1
        <3>3. QED
            BY <3>1, <3>2
    <2>3. CASE \E ok \in BOOLEAN : CompilerEnds(s, ok)
        BY <2>3 DEF CompilerEnds
    <2>4. QED
        BY <2>2, <2>3 DEF Compiler
<1>6. SandboxInv' /\ fds'["judge"] = fds["judge"]
    BY <1>1, <1>5, CompilerEndsOwn
<1>7. \/ /\ cc' = [cc EXCEPT ![s] = "runs"] /\ UNCHANGED <<cc_ok, binary>>
      \/ /\ cc' = [cc EXCEPT ![s] = "zombie"]
         /\ \E ok \in BOOLEAN :
               /\ cc_ok' = [cc_ok EXCEPT ![s] = ok]
               /\ binary' = IF ok THEN [binary EXCEPT ![run_dir[s]] = source[run_dir[s]]]
                            ELSE binary
    BY DEF Compiler, ExecCompiler, CompilerEnds, diskVars
<1>8. source[run_dir[s]] = s
    BY <1>2, <1>3, Places DEF JobInv, DirInv, Compiling
<1>9. /\ cc'[s] \in {"runs", "zombie"}
      /\ cc' \in [Submissions -> {"none", "forked", "runs", "zombie", "reaped"}]
      /\ cc_ok' \in [Submissions -> BOOLEAN]
      /\ binary' \in [Ids -> Submissions \cup {Nobody}]
      /\ cc'[s] = "zombie" /\ cc_ok'[s] => binary'[run_dir[s]] = s
      /\ \A t \in Submissions \ {s} : cc'[t] = cc[t] /\ cc_ok'[t] = cc_ok[t]
      /\ \A t \in Submissions \ {s} :
            jpc[t] \in Working => binary'[run_dir[t]] = binary[run_dir[t]]
    <2>1. /\ cc \in [Submissions -> {"none", "forked", "runs", "zombie", "reaped"}]
          /\ cc_ok \in [Submissions -> BOOLEAN]
          /\ {source, binary} \subseteq [Ids -> Submissions \cup {Nobody}]
        BY <1>2 DEF RunnerTypeOK
    <2>2. CASE cc' = [cc EXCEPT ![s] = "runs"] /\ UNCHANGED <<cc_ok, binary>>
        BY <2>1, <2>2
    <2>3. CASE cc' = [cc EXCEPT ![s] = "zombie"]
        <3>1. PICK ok \in BOOLEAN :
                  /\ cc_ok' = [cc_ok EXCEPT ![s] = ok]
                  /\ binary' = IF ok THEN [binary EXCEPT ![run_dir[s]] = source[run_dir[s]]]
                               ELSE binary
            BY <1>1, <1>7, <2>1, <2>3
        <3>2. QED
            BY <1>4, <1>8, <2>1, <2>3, <3>1
    <2>4. QED
        BY <1>7, <2>2, <2>3
<1>10. JobTypeOK'
    BY <1>1, <1>2, <1>9 DEF RunnerTypeOK, JobTypeOK
<1>11. NumbersInv'
    BY <1>1, NumbersStay
<1>12. JobInv(s)'
    <2>1. jpc[s] \notin BeforeCompiler \cup {"cases", "reply", "done"}
        BY <1>3 DEF BeforeCompiler, Compiling
    <2>2. DirInv(s)'
        BY <1>1, <1>2, <1>9 DEF JobInv, DirInv
    <2>3. CompilerInv(s)'
        BY <1>1, <1>2, <1>6, <1>9, <2>1 DEF JobInv, CompilerInv
    <2>4. ResultInv(s)'
        BY <1>1, <1>2, <1>9 DEF JobInv, ResultInv
    <2>5. QED
        BY <2>2, <2>3, <2>4 DEF JobInv
<1>13. QED
    BY <1>1, <1>6, <1>9, <1>10, <1>11, <1>12, OwnStep
       DEF sandboxVars, ownVars

LEMMA NextRunnerInv == RunnerInv /\ [ServerNext]_allVars => RunnerInv'
<1> SUFFICES ASSUME RunnerInv, [ServerNext]_allVars PROVE RunnerInv'
    OBVIOUS
<1>1. ASSUME NEW q \in Requests, Run(q) \/ Program(q), UNCHANGED jobVars PROVE RunnerInv'
    BY <1>1, CallStep
<1>2. ASSUME NEW s \in Submissions, Thread(s) PROVE RunnerInv'
    <2>1. CASE RunCase(s)
        <3>1. Current(s) \in Requests
            <4>1. cases[s] \in Seq(Requests) /\ per_case[s] \in Seq(Verdicts \cup {"WA"})
                BY DEF RunnerInv, RunnerTypeOK
            <4>2. Len(per_case[s]) + 1 \in 1 .. Len(cases[s])
                BY <2>1, <4>1 DEF RunCase, CasesLeft
            <4>3. QED
                BY <4>1, <4>2 DEF Current
        <3>2. QED
            BY <1>1, <2>1, <3>1 DEF RunCase
    <2>2. QED
        BY <1>2, <2>1, MakeDirStep, WriteSourceStep, LogPipeStep, NotSpawnedStep,
           ForkCompilerStep, LogStep, CompiledStep, CaseDoneStep, ReturnStep, AnswerStep
           DEF Thread
<1>3. CASE UNCHANGED allVars
    <2>1. SandboxInv'
        BY <1>3, SandboxStays DEF allVars, vars
    <2>2. UNCHANGED <<jpc, counter, run_dir, dirs, source, binary, unremoved, cc,
                      cc_ok, cases, per_case, overall, fds, pc, verdict, prog>>
        BY <1>3 DEF allVars, vars, jobVars, diskVars, ccVars, resVars
    <2>3. RunnerTypeOK'
        BY <2>1, <2>2 DEF RunnerInv, RunnerTypeOK, SandboxInv
    <2>4. NumbersInv'
        BY <2>2, NumbersStay
    <2>5. ASSUME NEW s \in Submissions PROVE JobInv(s)'
        <3>1. JobTypeOK /\ JobInv(s)
            BY RunnerTypes DEF RunnerInv
        <3>2. QED
            BY <2>2, <3>1, JobUndisturbed
    <2>6. QED
        BY <2>1, <2>3, <2>4, <2>5 DEF RunnerInv
<1>4. QED
    BY <1>1, <1>2, <1>3, CompilerStep DEF ServerNext

-----------------------------------------------------------------------------
(* What a judged submission can rely on.                                    *)

(* The invariant of the whole judge. *)
LEMMA RunnerAlways == ServerSpec => []RunnerInv
BY InitRunnerInv, NextRunnerInv, PTL DEF ServerSpec

LEMMA InvDirsAreOwn ==
    ASSUME RunnerInv
    PROVE  DirsAreOwn
<1> SUFFICES ASSUME NEW s \in Submissions
             PROVE  /\ jpc[s] \in JPCs \ {"mkdir", "reply", "done"} => run_dir[s] \in dirs
                    /\ jpc[s] \in {"log pipe", "fork", "close logW", "log", "close logR",
                                   "wait", "cases"} => source[run_dir[s]] = s
                    /\ jpc[s] = "cases" => binary[run_dir[s]] = s
    BY DEF DirsAreOwn
<1>1. DirInv(s) /\ CompilerInv(s)
    BY DEF RunnerInv, JobInv
<1>2. QED
    BY <1>1, Places DEF DirInv, CompilerInv, Working

LEMMA InvLeftoversAreKnown ==
    ASSUME RunnerInv
    PROVE  LeftoversAreKnown
<1>1. NothingElseLeft
    BY InvNothingElseLeft DEF RunnerInv
<1>2. ASSUME NEW s \in Submissions, jpc[s] = "done"
      PROVE  /\ run_dir[s] \in dirs <=> s \in unremoved
             /\ cc[s] \in {"none", "reaped"}
             /\ \A end \in Ends : <<s, end>> \notin fds["judge"]
    <2>1. DirInv(s) /\ CompilerInv(s)
        BY DEF RunnerInv, JobInv
    <2>2. QED
        BY <1>2, <2>1, Places DEF DirInv, CompilerInv
<1>3. QED
    BY <1>1, <1>2 DEF LeftoversAreKnown, Answered

LEMMA InvAcceptedIsEarned ==
    ASSUME RunnerInv
    PROVE  AcceptedIsEarned
<1> SUFFICES ASSUME NEW s \in Submissions, jpc[s] = "done"
             PROVE  /\ overall[s] = "AC" =>
                          /\ cc_ok[s]
                          /\ \A r \in CallsOf(s) : /\ status[r] = "exit 0"
                                                   /\ captured[r] = Written(prog[r])
                                                   /\ prog[r] \in Right
                    /\ overall[s] = "CE" <=> cc[s] = "reaped" /\ ~cc_ok[s]
                    /\ overall[s] \notin {"AC", "CE", "IE"} =>
                          \E i \in DOMAIN cases[s] :
                             /\ CaseVerdict(cases[s][i]) = overall[s]
                             /\ \A j \in 1 .. i - 1 : CaseVerdict(cases[s][j]) = "AC"
    BY DEF AcceptedIsEarned, Answered
<1>1. ResultInv(s) /\ CompilerInv(s) /\ SandboxInv /\ RunnerTypeOK
    BY DEF RunnerInv, JobInv
<1>2. VerdictIsOwn
    BY <1>1, InvVerdictIsOwn
<1>3. CASE cc[s] # "reaped"
    BY <1>1, <1>3 DEF ResultInv
<1>4. CASE cc[s] = "reaped" /\ ~cc_ok[s]
    BY <1>1, <1>4 DEF ResultInv
<1>5. CASE cc[s] = "reaped" /\ cc_ok[s]
    <2>1. CasesInv(s) /\ Len(per_case[s]) = Len(cases[s])
        BY <1>1, <1>5 DEF ResultInv
    <2>2. cases[s] \in Seq(Requests) /\ DOMAIN cases[s] = 1 .. Len(cases[s])
        BY <1>1 DEF RunnerTypeOK
    <2>3. \A i \in DOMAIN cases[s] : /\ cases[s][i] \in Requests
                                     /\ pc[cases[s][i]] = "done"
                                     /\ per_case[s][i] = CaseVerdict(cases[s][i])
        BY <2>1, <2>2 DEF CasesInv
    <2>4. ASSUME overall[s] = "AC", NEW r \in CallsOf(s)
          PROVE  /\ status[r] = "exit 0"
                 /\ captured[r] = Written(prog[r])
                 /\ prog[r] \in Right
        <3>1. PICK i \in DOMAIN cases[s] : r = cases[s][i]
            BY <2>4 DEF CallsOf
        <3>2. per_case[s][i] = "AC"
            BY <2>1, <2>2, <2>4, <3>1 DEF CasesInv
        <3>3. CaseVerdict(r) = "AC" /\ r \in Requests /\ pc[r] = "done"
            BY <2>3, <3>1, <3>2
        <3>4. verdict[r] = "AC" /\ prog[r] \in Right
            BY <3>3 DEF CaseVerdict
        <3>5. QED
            BY <1>2, <3>3, <3>4 DEF VerdictIsOwn
    <2>5. overall[s] # "CE"
        BY <2>1 DEF CasesInv
    <2>6. ASSUME overall[s] # "AC"
          PROVE  \E i \in DOMAIN cases[s] :
                     /\ CaseVerdict(cases[s][i]) = overall[s]
                     /\ \A j \in 1 .. i - 1 : CaseVerdict(cases[s][j]) = "AC"
        <3>1. PICK i \in 1 .. Len(per_case[s]) :
                  /\ per_case[s][i] = overall[s]
                  /\ \A j \in 1 .. i - 1 : per_case[s][j] = "AC"
            BY <2>1, <2>6 DEF CasesInv
        <3>2. i \in DOMAIN cases[s] /\ \A j \in 1 .. i - 1 : j \in DOMAIN cases[s]
            BY <2>1, <2>2, <3>1
        <3>3. QED
            BY <2>3, <3>1, <3>2
    <2>7. QED
        BY <1>5, <2>4, <2>5, <2>6
<1>6. QED
    BY <1>3, <1>4, <1>5

(* Every state the judge reaches is well typed: in particular run numbers stay
   within the number of submissions, and no pipe holds more than it can. *)
THEOREM JudgeIsTypeCorrect == ServerSpec => []RunnerTypeOK
<1>1. RunnerInv => RunnerTypeOK
    BY DEF RunnerInv
<1>2. QED
    BY <1>1, RunnerAlways, PTL

(* The verdict of a case is about its own program, for any number of submissions
   that the judge runs at once on one descriptor table. *)
THEOREM VerdictsAreOwn == ServerSpec => []VerdictIsOwn
<1>1. RunnerInv => VerdictIsOwn
    BY InvVerdictIsOwn DEF RunnerInv
<1>2. QED
    BY <1>1, RunnerAlways, PTL

(* No request's directory is another's, or is taken away from under it. *)
THEOREM DirectoriesAreOwn == ServerSpec => []DirsAreOwn
BY InvDirsAreOwn, RunnerAlways, PTL

(* What is accepted has earned it, whatever fails in the other submissions. *)
THEOREM AcceptanceIsEarned == ServerSpec => []AcceptedIsEarned
BY InvAcceptedIsEarned, RunnerAlways, PTL

(* What an answered submission leaves behind, and nothing else: the directory that
   remove_all could not remove, the cgroups of its calls, and the pipes of a call
   that could not fork. *)
THEOREM AnswersLeaveWhatIsKnown == ServerSpec => []LeftoversAreKnown
BY InvLeftoversAreKnown, RunnerAlways, PTL

(* The same of the sandbox alone, called by any threads. *)
THEOREM CallsLeaveWhatIsKnown == Spec => [](TypeOK /\ VerdictIsOwn /\ NothingElseLeft)
<1>1. SandboxInv /\ [Next]_vars => SandboxInv'
    <2> SUFFICES ASSUME SandboxInv, [Next]_vars PROVE SandboxInv'
        OBVIOUS
    <2>1. CASE UNCHANGED vars
        <3>1. \A r \in Requests : CallInv(r)'
            BY <2>1, Undisturbed DEF SandboxInv, vars, CallInv, EndsInv
        <3>2. TypeOK'
            BY <2>1 DEF SandboxInv, vars, TypeOK
        <3>3. \A r \in Requests : LeafInv(r)'
            BY <2>1 DEF SandboxInv, vars, LeafInv, OpenEnds
        <3>4. QED
            BY <3>1, <3>2, <3>3 DEF SandboxInv
    <2>2. QED
        BY <2>1, CallsInv DEF Next
<1>2. SandboxInv => TypeOK /\ VerdictIsOwn /\ NothingElseLeft
    BY InvVerdictIsOwn, InvNothingElseLeft DEF SandboxInv
<1>3. QED
    BY <1>1, <1>2, InitSandboxInv, PTL DEF Spec
=============================================================================
