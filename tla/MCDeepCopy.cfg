CONSTANTS
    MaxCells = 3
    MaxLen = 2
SPECIFICATION Spec
INVARIANT TypeOK
INVARIANT OriginalIntact
CHECK_DEADLOCK FALSE
