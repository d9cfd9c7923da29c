SPECIFICATION MCSpec
CONSTANTS
    trade = trade
    book = book
    c1 = c1
    c2 = c2
    Conns = {c1, c2}
    Channels = {trade, book}
    Symbols = {trade, book}
    Cap = 1
    MaxMsgs = 3
    Levels <- MCLevels
    Wrap = 4
    Buffer = 1
    Everys = {1, 2, 3}
    Faults = {"link", "redis"}
CHECK_DEADLOCK FALSE
INVARIANTS NeverPanics  TopsAreOfOneSnapshot OvertakesOnlyBeforeTheLock ThrottleKeepsUp
PROPERTIES SlowConsumersDelayNobody LeaversAreForgotten TopsReachBrowsers
