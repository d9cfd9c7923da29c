SPECIFICATION MCSpec
CONSTANTS
    s1 = s1
    s2 = s2
    r1 = r1
    r2 = r2
    r3 = r3
    Others = {s1, s2}
    Requests = {r1, r2, r3}
    Calls <- MCCalls
    Right <- MCRight
    Programs <- MCAll
    Inputs = {0, 2}
    PipeSize = 1
    OutMax = 2
    Faults = {"pipe", "fork", "exec", "dir", "cgroup", "remove"}
CHECK_DEADLOCK FALSE
INVARIANTS VerdictIsOwn LeftoversAreKnown DirsAreOwn AcceptedIsEarned
PROPERTY AnswersUnlessTwoNeedEof
