SPECIFICATION MCSpec
CONSTANTS
    Good = {g1, g2, g3}
    Bad = {b1}
    Noise = {n1}
    None = None
    Reconnect = TRUE
    Closes = FALSE
    Faults = {"link", "redis"}
    PerSecond = 2
    Moments <- MCWeekend
    StockFrames = {g1, b1}
CHECK_DEADLOCK FALSE
INVARIANTS NeverTerminated PublishedInOrder
PROPERTIES Quiet Lossless FollowsTheSession EndsOnSignal
