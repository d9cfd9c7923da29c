SPECIFICATION Spec
CONSTANTS
    Trades = {t1}
    None = None
    SecLen = 2
    Interval = 2
    R2On = TRUE
    Faults = {"clock", "put"}
    MaxClock = 5
    MaxRestarts = 1
CHECK_DEADLOCK FALSE
INVARIANTS FilesHoldThePast
