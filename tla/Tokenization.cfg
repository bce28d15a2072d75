SPECIFICATION Spec
CONSTANTS
    Keys = {k1}
    NoKey = NoKey
    Symbols = {s1, s2}
    Known = {s1}
    Chains = {c1, c2}
    MockChain = c1
    Quantities = {1}
    Until = 1
    MaxAttempts = 3
    MaxRequests = 2
    MaxSends = 0
    MaxLost = 0
    MaxForced = 1
INVARIANTS NotAppliedMintsNothing OneRequestPerKey
CHECK_DEADLOCK FALSE
