SPECIFICATION Spec
CONSTANTS
    Requests = {r1, r2}
    JWKS_TTL = 3
    REFRESH_FLOOR = 2
    FetchTimeout = 1
    WINDOW = 3
    PerMinute = 1
    LockDelay = 1
    MaxKey = 3
    MaxNow = 5
INVARIANTS RefusedOnlyForAReason BudgetHolds
PROPERTY KeysNeverGoBack
SYMMETRY RequestSymmetry
CHECK_DEADLOCK FALSE
