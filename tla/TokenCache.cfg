SPECIFICATION CacheFairSpec
CONSTANTS
    Callers = {a, b, c}
    RefreshMargin = 3
    HardMargin = 1
    FailedBackoff = 2
    MaxHold = 3
    MaxLifetime = 6
    MintTimeout = 1
    Lifetimes = {0, 5}
    Hints = {0, 9}
    MaxTime = 5
INVARIANT OneMint
PROPERTIES WaitersReturn CachedTokenLives MintsAreSpaced
