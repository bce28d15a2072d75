SPECIFICATION FairSpec
CONSTANTS
    Keys = {k1}
    NoKey = NoKey
    Symbols = {s1}
    Known = {s1}
    Chains = {c1}
    MockChain = c1
    Quantities = {1}
    Until = 1
    MaxAttempts = 1
    MaxRequests = 2
    MaxSends = 2
    MaxLost = 1
    MaxForced = 1
INVARIANT TotalsConserved
PROPERTY RedemptionDetected
CHECK_DEADLOCK FALSE
