CONSTANTS
    t1 = t1
    t2 = t2
    t3 = t3
    x = x
    y = y
    Txns <- ThreeTxns
    Keys <- TwoKeys
    MaxMops = 2
    MaxFaults = 1
    MaxTotal = 5
SYMMETRY Symmetry
SPECIFICATION Spec
INVARIANT TypeOK
INVARIANT SerialHistoryIsValid
INVARIANT VersionOrderIsReal
INVARIANT AbortedReadFound
INVARIANT IntermediateReadFound
INVARIANT TestsPass
CHECK_DEADLOCK FALSE
