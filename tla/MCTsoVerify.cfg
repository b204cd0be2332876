CONSTANTS
    AccountNum = 2
    InitBalance = 10
    Amount = 5
    MaxEvents = 4
    Balances <- MCBalances
SPECIFICATION Spec
INVARIANT TypeOK
INVARIANT AcceptedIsExplainablePerAccount
INVARIANT ReadNotBeforeLastReported
CHECK_DEADLOCK FALSE
