SPECIFICATION FairSpec
CONSTANTS
    Page = 2
    MaxSeen = 3
    Bursts = FALSE
    Faults = {"http", "json", "connect", "pg", "insert", "crash"}
    MaxIssued = 5
    MaxRestarts = 2
CHECK_DEADLOCK FALSE
INVARIANTS HandedOnce NothingSkipped StoredOrLogged
PROPERTIES HandedInTheEnd
