----------------------------- MODULE JudgeRunner -----------------------------
(***************************************************************************)
(* The gRPC judge: each request runs Runner::judge in a thread of its own, *)
(* on one Runner: a run directory, the source, a compiler in a child of    *)
(* its own, one Sandbox::run per case, the overall verdict, the cleanup,   *)
(* and an answer by Submit or by Stream.                                   *)
(*                                                                         *)
(* The compiler's log pipe lives in the descriptor table the sandbox's     *)
(* pipes live in: programs of other submissions inherit its write end and  *)
(* the compiler inherits theirs.  What the compiler writes is read to its  *)
(* end in any case, so the log is only an end of file here.                *)
(***************************************************************************)
EXTENDS JudgeSandbox

CONSTANTS
    Calls,      \* the Sandbox::run calls of each submission's cases, in order
    Right       \* programs that print what their case expects

Submissions == Others

ASSUME RunnerAssumption ==
    /\ IsFiniteSet(Submissions)
    /\ Calls \in [Submissions -> Seq(Requests)]
    /\ Right \subseteq Programs

VARIABLES
    jpc,        \* where each request is
    counter,    \* of make_run_id
    run_dir,    \* the number of the run directory, 0 before it is made
    dirs,       \* directories below workdir_
    source,     \* whose main.cpp a directory holds
    binary,     \* whose main it holds
    unremoved,  \* requests whose remove_all set the error code nobody reads
    cc,         \* the compiler: "none", "forked", "runs", "zombie", "reaped"
    cc_ok,      \* it has exited with 0
    cases,      \* submission.cases, as calls
    per_case,   \* result.per_case: the verdicts
    overall     \* result.overall

diskVars == <<counter, run_dir, dirs, source, binary, unremoved>>
ccVars   == <<cc, cc_ok>>
resVars  == <<per_case, overall>>
jobVars  == <<jpc, diskVars, ccVars, cases, resVars>>
allVars  == <<vars, jobVars>>

JPCs == {"mkdir", "source", "log pipe", "fork", "close logW", "log",
         "close logR", "wait", "cases", "reply", "done"}
Ids  == 1 .. Cardinality(Submissions)
Nobody == "nobody"

RunnerTypeOK ==
    /\ TypeOK
    /\ jpc \in [Submissions -> JPCs]
    /\ counter \in 0 .. Cardinality(Submissions)
    /\ run_dir \in [Submissions -> {0} \cup Ids]
    /\ dirs \subseteq Ids
    /\ {source, binary} \subseteq [Ids -> Submissions \cup {Nobody}]
    /\ unremoved \subseteq Submissions
    /\ cc \in [Submissions -> {"none", "forked", "runs", "zombie", "reaped"}]
    /\ cc_ok \in [Submissions -> BOOLEAN]
    /\ cases \in [Submissions -> Seq(Requests)]
    /\ per_case \in [Submissions -> Seq(Verdicts \cup {"WA"})]
    /\ overall \in [Submissions -> Verdicts \cup {"WA", "CE"}]

\* A submission may have fewer cases than it has calls, or none.
Starts(q) == {SubSeq(q, 1, n) : n \in 0 .. Len(q)}

ServerInit ==
    /\ Init
    /\ jpc = [s \in Submissions |-> "mkdir"]
    /\ counter = 0
    /\ run_dir = [s \in Submissions |-> 0]
    /\ dirs = {}
    /\ source = [d \in Ids |-> Nobody]
    /\ binary = [d \in Ids |-> Nobody]
    /\ unremoved = {}
    /\ cc = [s \in Submissions |-> "none"]
    /\ cc_ok = [s \in Submissions |-> FALSE]
    /\ cases \in [Submissions -> UNION {Starts(Calls[s]) : s \in Submissions}]
    /\ \A s \in Submissions : cases[s] \in Starts(Calls[s])
    /\ per_case = [s \in Submissions |-> <<>>]
    /\ overall = [s \in Submissions |-> "IE"]

\* A step of request s from one place to another.
Goes(s, from, to) ==
    /\ judge = "up"
    /\ jpc[s] = from
    /\ jpc' = [jpc EXCEPT ![s] = to]

-----------------------------------------------------------------------------
(* Runner::judge up to the compiler.                                        *)

\* create_directories: a directory that exists is as good as a new one.
\* (mutant) the counter is read and not advanced.
make_run_idStale == counter' = counter
make_run_id == counter' = counter + 1

MakeDir(s) ==
    /\ Goes(s, "mkdir", "source")
    /\ make_run_id
    /\ run_dir' = [run_dir EXCEPT ![s] = counter + 1]
    /\ dirs' = dirs \cup {counter + 1}
    /\ UNCHANGED <<vars, source, binary, unremoved, ccVars, cases, resVars>>

\* judge() returns before it has a directory: there is nothing to clean up.
MakeDirFails(s) ==
    /\ "dir" \in Faults
    /\ Goes(s, "mkdir", "reply")
    /\ make_run_id
    /\ UNCHANGED <<vars, run_dir, dirs, source, binary, unremoved, ccVars,
                   cases, resVars>>

WriteSource(s) ==
    /\ Goes(s, "source", "log pipe")
    /\ source' = [source EXCEPT ![run_dir[s]] = s]
    /\ UNCHANGED <<vars, counter, run_dir, dirs, binary, unremoved, ccVars,
                   cases, resVars>>

\* A file of the directory, gone.
Without(file, s) == [file EXCEPT ![run_dir[s]] = Nobody]

\* ~Cleanup: judge() returns, and remove_all takes the directory away, or fails
\* and leaves it with what it has not removed.
Cleanup(s) ==
    /\ \/ /\ dirs' = dirs \ {run_dir[s]}
          /\ source' = Without(source, s)
          /\ binary' = Without(binary, s)
          /\ UNCHANGED unremoved
       \/ /\ "remove" \in Faults
          /\ unremoved' = unremoved \cup {s}
          /\ source' \in {source, Without(source, s)}
          /\ binary' \in {binary, Without(binary, s)}
          /\ UNCHANGED dirs
    /\ UNCHANGED <<counter, run_dir>>

-----------------------------------------------------------------------------
(* compile_via_execv.                                                       *)

sandboxVars == <<judge, pc, pipeVars, ownVars, childVars>>

LogPipe(s) ==
    /\ Goes(s, "log pipe", "fork")
    /\ OpenedBy("judge", {<<s, "outR">>, <<s, "outW">>})
    /\ UNCHANGED <<sandboxVars, diskVars, ccVars, cases, resVars>>

\* pipe() or fork() fails: not spawned, and here both ends are closed.
NotSpawned(s) ==
    /\ \/ "pipe" \in Faults /\ Goes(s, "log pipe", "reply")
       \/ "fork" \in Faults /\ Goes(s, "fork", "reply")
    /\ ClosedBy("judge", {<<s, "outR">>, <<s, "outW">>})
    /\ Cleanup(s)
    /\ UNCHANGED <<sandboxVars, ccVars, cases, resVars>>

ForkCompiler(s) ==
    /\ Goes(s, "fork", "close logW")
    /\ fds' = [fds EXCEPT ![s] = fds["judge"]]
    /\ cc' = [cc EXCEPT ![s] = "forked"]
    /\ UNCHANGED <<sandboxVars, diskVars, cc_ok, cases, resVars>>

\* (mutant) the judge keeps the write end of the log.
LogClosesKeepW == {<<"close logW", "none", "log">>,
                   <<"close logR", "outR", "wait">>}
LogCloses == {<<"close logW", "outW", "log">>, <<"close logR", "outR", "wait">>}
CloseLog(s) ==
    /\ \E c \in LogCloses : Goes(s, c[1], c[3]) /\ ClosedBy("judge", {<<s, c[2]>>})
    /\ UNCHANGED <<sandboxVars, diskVars, ccVars, cases, resVars>>

\* read() returns 0: nobody has the write end any more.
LogRead(s) ==
    /\ ~Open(s, "outW")
    /\ Goes(s, "log", "close logR")
    /\ UNCHANGED <<vars, diskVars, ccVars, cases, resVars>>

\* waitpid; any exit code but 0, and a signal, is a CompileError.
Compiled(s) ==
    /\ cc[s] = "zombie"
    /\ cc' = [cc EXCEPT ![s] = "reaped"]
    /\ IF cc_ok[s]
       THEN /\ Goes(s, "wait", "cases")
            /\ overall' = [overall EXCEPT ![s] = "AC"]
            /\ UNCHANGED diskVars
       ELSE /\ Goes(s, "wait", "reply")
            /\ overall' = [overall EXCEPT ![s] = "CE"]
            /\ Cleanup(s)
    /\ UNCHANGED <<vars, cc_ok, cases, per_case>>

\* The compiler: dup2, close both ends of its own pipe but for 1 and 2, exec.
ExecCompiler(s) ==
    /\ cc[s] = "forked"
    /\ cc' = [cc EXCEPT ![s] = "runs"]
    /\ ClosedBy(s, {<<s, "outR">>})
    /\ UNCHANGED <<sandboxVars, jpc, diskVars, cc_ok, cases, resVars>>

CompilerEnds(s, ok) ==
    /\ cc[s] = "runs" \/ (cc[s] = "forked" /\ "exec" \in Faults /\ ~ok)
    /\ cc' = [cc EXCEPT ![s] = "zombie"]
    /\ cc_ok' = [cc_ok EXCEPT ![s] = ok]
    /\ fds' = [fds EXCEPT ![s] = {}]
    /\ binary' = IF ok THEN [binary EXCEPT ![run_dir[s]] = source[run_dir[s]]]
                 ELSE binary
    /\ UNCHANGED <<sandboxVars, jpc, counter, run_dir, dirs, source, unremoved,
                   cases, resVars>>

-----------------------------------------------------------------------------
(* The cases and the answer.                                                *)

\* The call in work, if there is one left.
Current(s) == cases[s][Len(per_case[s]) + 1]
CasesLeft(s) == jpc[s] = "cases" /\ Len(per_case[s]) < Len(cases[s])

RunCase(s) ==
    /\ CasesLeft(s)
    /\ Run(Current(s))
    /\ UNCHANGED jobVars

\* normalize() of both sides is what Right stands for.
CaseVerdict(r) ==
    IF verdict[r] = "AC" /\ prog[r] \notin Right THEN "WA" ELSE verdict[r]

\* (mutant) the last failure counts.
WorseLast(all, v) == IF v # "AC" THEN v ELSE all
Worse(all, v) == IF v # "AC" /\ all = "AC" THEN v ELSE all

\* Sandbox::run has returned; the next case follows whatever the verdict is.
CaseDone(s) ==
    /\ CasesLeft(s)
    /\ pc[Current(s)] = "done"
    /\ Goes(s, "cases", "cases")
    /\ LET v == CaseVerdict(Current(s))
       IN  /\ per_case' = [per_case EXCEPT ![s] = Append(@, v)]
           /\ overall' = [overall EXCEPT ![s] = Worse(@, v)]
    /\ UNCHANGED <<vars, diskVars, ccVars, cases>>

Return(s) ==
    /\ Len(per_case[s]) = Len(cases[s])
    /\ Goes(s, "cases", "reply")
    /\ Cleanup(s)
    /\ UNCHANGED <<vars, ccVars, cases, resVars>>

\* Submit answers with the whole result.  So does Stream, case by case: it has
\* called judge() to its end before it writes the first case.
Answer(s) ==
    /\ Goes(s, "reply", "done")
    /\ UNCHANGED <<vars, diskVars, ccVars, cases, resVars>>

-----------------------------------------------------------------------------

Thread(s) == \/ MakeDir(s)
             \/ MakeDirFails(s)
             \/ WriteSource(s)
             \/ LogPipe(s)
             \/ NotSpawned(s)
             \/ ForkCompiler(s)
             \/ CloseLog(s)
             \/ LogRead(s)
             \/ Compiled(s)
             \/ RunCase(s)
             \/ CaseDone(s)
             \/ Return(s)
             \/ Answer(s)

Compiler(s) == \/ ExecCompiler(s)
               \/ \E ok \in BOOLEAN : CompilerEnds(s, ok)

ServerNext ==
    \/ \E s \in Submissions : Thread(s) \/ Compiler(s)
    \/ \E r \in Requests : Program(r) /\ UNCHANGED jobVars

ServerSpec == ServerInit /\ [][ServerNext]_allVars

\* The scheduler runs every thread and every child that is not blocked, and
\* compilers come to an end.
ServerFairness ==
    /\ \A s \in Submissions : WF_allVars(Thread(s)) /\ WF_allVars(Compiler(s))
    /\ \A r \in Requests : WF_allVars(Program(r) /\ UNCHANGED jobVars)

-----------------------------------------------------------------------------

Answered(s) == jpc[s] = "done"
CallsOf(s)  == {cases[s][i] : i \in DOMAIN cases[s]}

(* The directory of a submission is its own as long as it works in it: what
   the compiler reads is the submission's source, what the sandbox runs is its
   binary, and no other request's cleanup takes them away (runner.cpp:92-94). *)
DirsAreOwn ==
    \A s \in Submissions :
        /\ jpc[s] \in JPCs \ {"mkdir", "reply", "done"} =>
              run_dir[s] \in dirs
        /\ jpc[s] \in {"log pipe", "fork", "close logW", "log", "close logR",
                       "wait", "cases"} => source[run_dir[s]] = s
        /\ jpc[s] = "cases" => binary[run_dir[s]] = s

(* What a submission leaves behind when it is answered, on every path through
   judge() and whatever the others do: its directory exactly if remove_all
   failed (runner.cpp:101 drops the error), no compiler and no pipe of it, and
   of each of its calls what NothingElseLeft allows - a cgroup for each, which
   nothing removes, and the open pipes of a call that ended in InternalError. *)
LeftoversAreKnown ==
    /\ \A s \in Submissions : Answered(s) =>
          /\ run_dir[s] \in dirs <=> s \in unremoved
          /\ cc[s] \in {"none", "reaped"}
          /\ \A end \in Ends : <<s, end>> \notin fds["judge"]
    /\ NothingElseLeft

(* An accepted submission has earned it, whatever the others did: it compiled,
   every case's program exited with 0 after printing all of what the case
   expects; any other answer is the first of its cases that went wrong. *)
AcceptedIsEarned ==
    \A s \in Submissions : Answered(s) =>
        /\ overall[s] = "AC" =>
              /\ cc_ok[s]
              /\ \A r \in CallsOf(s) : /\ status[r] = "exit 0"
                                       /\ captured[r] = Written(prog[r])
                                       /\ prog[r] \in Right
        /\ overall[s] = "CE" <=> cc[s] = "reaped" /\ ~cc_ok[s]
        /\ overall[s] \notin {"AC", "CE", "IE"} =>
              \E i \in DOMAIN cases[s] :
                 /\ CaseVerdict(cases[s][i]) = overall[s]
                 /\ \A j \in 1 .. i - 1 : CaseVerdict(cases[s][j]) = "AC"

(* Every request is answered, or the judge has died of a program that left its
   input unread, as long as at most one program waits for the end of its input:
   the descriptors that programs and compilers of other requests have inherited
   can then only delay an end of file until they are gone. *)
AnswersUnlessTwoNeedEof ==
    (/\ \A s \in Submissions, r \in Requests : r \in CallsOf(s) => Finishes(r)
     /\ Cardinality({r \in UNION {CallsOf(s) : s \in Submissions} :
                        NeedsEof(r)}) <= 1)
        ~> (DiedOfUnreadInput \/ \A s \in Submissions : Answered(s))
=============================================================================
