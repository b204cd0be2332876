CONSTANTS
    MaxID = 3
    t1 = t1
    t2 = t2
    Threads <- TwoThreads
SPECIFICATION Spec
INVARIANT TypeOK
INVARIANT PositionsIndexIds
PROPERTY ImplementsIdPool
