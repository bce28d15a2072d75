SPECIFICATION ConvSpec
CONSTANTS
    Size = 2
    OrderDeadline = 3
    SettleDeadline = 2
    Interval = 1
    CancelTimeout = 1
    MaxHold = 4
    Hints = {0, 2, 9}
    MaxCalls = 3
INVARIANT NeverPlacedIsTrue
CHECK_DEADLOCK FALSE
