SPECIFICATION Spec
CONSTANTS
    Trades = {t1}
    None = None
    SecLen = 1
    Interval = 2
    R2On = TRUE
    Faults = {}
    MaxClock = 5
    MaxRestarts = 1
CHECK_DEADLOCK FALSE
PROPERTY NothingLeftBehind
