CONSTANTS
    MaxBackups = 1
    NumAccounts = 2
    RetryLimit = 1
    MaxTxnID = 1
SPECIFICATION Spec
PROPERTY ReplicaReadKept
CHECK_DEADLOCK FALSE
