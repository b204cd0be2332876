CONSTANTS
    MaxID = 1
SPECIFICATION Spec
INVARIANT ReproduceFindsTheLogs
CHECK_DEADLOCK FALSE
