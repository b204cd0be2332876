CONSTANTS
    AccountNum = 2
    InitBalance = 10
    Amount = 5
    MaxRequests = 3
    LostUpdate = FALSE
    CommitErrors = TRUE
    c1 = c1
    c2 = c2
    Clients <- TwoClients
    FirstClient = c1
SPECIFICATION Spec
INVARIANT TypeOK
INVARIANT ValidHistoryLinearizable
INVARIANT FalseAlarmNeedsFailedTwin
INVARIANT SequentialHistoryAccepted
INVARIANT NoOverdraft
PROPERTY ImplementsBankModel
CHECK_DEADLOCK FALSE
