CONSTANTS
    Cluster <- MCCluster
    ReloadTicks = 20
SPECIFICATION Spec
INVARIANT TypeOK
INVARIANT PreparedOnce
INVARIANT SetUpMeansPrepared
CHECK_DEADLOCK FALSE
