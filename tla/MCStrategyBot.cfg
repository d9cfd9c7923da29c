SPECIFICATION Spec
CONSTANTS
    x = x
    y = y
    nan = nan
    Symbols = {x, y}
    Prices <- MCPrices
    Zeros = {0}
    Mean <- MCMean
    Compare <- MCCompare
    Moves <- MCMoves
    Fast = 1
    Slow = 2
    Window = 3
    cooldown_sec = 2
    MaxTrades = 6
    MaxTime = 4
SYMMETRY MCSymmetry
CHECK_DEADLOCK FALSE
INVARIANTS SignalsMatchReference
