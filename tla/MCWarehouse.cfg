SPECIFICATION Spec
CONSTANTS
    Trades = {t1, t2}
    None = None
    SecLen = 2
    Interval = 2
    R2On = TRUE
    Faults = {"dir", "parquet", "csv", "put", "crash"}
    MaxClock = 6
    MaxRestarts = 2
CHECK_DEADLOCK FALSE
INVARIANTS DuplicateOnlyAtBoundary ReportedIsUploaded
PROPERTIES FilesDurable OnlyKnownLosses ImplementsArchive
SYMMETRY MCSymmetry
