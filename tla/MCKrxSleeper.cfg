SPECIFICATION SleeperSpec
CONSTANTS
    PerSecond = 10
    Tick = 307
    Horizon = 13000000
CHECK_DEADLOCK FALSE
INVARIANTS NotedIsCurrent
