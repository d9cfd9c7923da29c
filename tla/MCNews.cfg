SPECIFICATION MCSpec
CONSTANTS
    a = a
    b = b
    x = x
    t1 = t1
    t2 = t2
    Chars <- MCChars
    Tickers <- MCTickers
    Sources = 2
    Feeds <- MCFeeds
    Tables <- MCTables
    Scores <- MCScores
    Cutoff = 1
    Decay <- MCDecay
    Horizon = 3
CHECK_DEADLOCK FALSE
INVARIANTS MentionsAreLongest SnapshotIsReference MemoryIsBounded
