SPECIFICATION FairSpec
CONSTANTS
    Requests = {r1, r2}
    Others = {}
    Programs <- MCEof
    Inputs = {1}
    PipeSize = 1
    OutMax = 2
    Faults = {}
CHECK_DEADLOCK FALSE
PROPERTY ReturnsTogether
