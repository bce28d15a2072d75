SPECIFICATION Spec
CONSTANTS
    Readers = {r1, r2}
    Minutes <- MinutesDef
    PAGE_SIZE = 2
    MaxPages = 3
    MaxRows = 6
    TTL = 2
    FetchTimeout = 1
    MaxTick = 4
    MaxFrame = 4
    Logs <- LogsDef
INVARIANTS ReadIsRight EveryRowOnce StreamIsSafe
PROPERTY EveryEventCommitted
CHECK_DEADLOCK FALSE
