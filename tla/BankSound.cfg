CONSTANTS
    AccountNum = 2
    InitBalance = 10
    Amount = 5
    MaxRequests = 3
    LostUpdate = FALSE
    CommitErrors = FALSE
    c1 = c1
    c2 = c2
    Clients <- TwoClients
    FirstClient = c1
SPECIFICATION Spec
INVARIANT ValidHistoryAccepted
CHECK_DEADLOCK FALSE
