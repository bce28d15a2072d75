SPECIFICATION FairSpec
CONSTANTS
    Calls = {c1}
    Kinds <- AllKinds
    PerMinute = 1
INVARIANTS NotAppliedIsTrue AuditTellsTheAnswer
PROPERTIES NoSendOnceAbandoned ShutdownEnds EventuallyRecorded
CHECK_DEADLOCK FALSE
