SPECIFICATION Spec
CONSTANTS
    Operations <- AllOperations
    MaxCalls = 3
INVARIANTS HopIsSafe HopKeepsTheMeaning
CHECK_DEADLOCK FALSE
