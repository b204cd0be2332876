CONSTANTS
    MaxBackups = 5
    NumAccounts = 3
    RetryLimit = 2
    MaxTxnID = 2
SPECIFICATION FairSpec
INVARIANT TypeOK
INVARIANT RestoreReplaysChain
INVARIANT FeaturesInEffect
INVARIANT AccountsInitialised
INVARIANT TransferFindsBothAccounts
PROPERTY EveryBackupRestored
CHECK_DEADLOCK FALSE
