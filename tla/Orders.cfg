SPECIFICATION MCSpec
CONSTANTS
    Need = 3
    Whole = 2
    Prices = {p}
    NoPrice = NoPrice
    MaxKeys = 2
    MaxAttempts = 3
    Size = 2
    OrderDeadline = 3
    SettleDeadline = 2
    Interval = 1
    CancelTimeout = 1
    MaxHold = 4
    Hints = {0, 2, 9}
    MaxCalls = 3
INVARIANTS UnwrittenMeansNoOrder PlacementIsHeld NeverHedgedTwice AnswerIsFinal KnownFillIsKept
PROPERTY EveryConversionEnds
CHECK_DEADLOCK FALSE
