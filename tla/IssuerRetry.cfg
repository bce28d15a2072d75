SPECIFICATION IssuerFairSpec
CONSTANTS
    Callers = {a, b}
    Calls = {"mint", "redeem", "poll"}
    MaxRetries = 1
    Budget = 3
    MaxHold = 4
    Hints = {2, 5}
    Jitters = {1}
    Delays = {1}
INVARIANTS UnwrittenIsUntouched WaitsWithinBudget
PROPERTY EveryCallEnds
