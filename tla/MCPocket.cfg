CONSTANTS
    MaxID = 1
SPECIFICATION Spec
INVARIANT TypeOK
INVARIANT LoopHasItsConnections
CHECK_DEADLOCK FALSE
