CONSTANTS
    c1 = c1
    c2 = c2
    Clients <- TwoClients
    FirstClient = c1
    AccountNum = 3
    InitBalance = 10
    Amount = 5
    MaxRequests = 3
    LostUpdate = TRUE
    CommitErrors = FALSE
SPECIFICATION Spec
INVARIANT LostUpdateCaught
CHECK_DEADLOCK FALSE
