SPECIFICATION FairSpec
CONSTANTS
    Task = {t1}
    Loop = Loop
    None = None
    Period = 1
    MaxRetries = 2
    MaxHooks = 0
    MaxTime = 1
    MaxRenewals = 1
    MaxReaders = 0
    MaxFaults = 1
PROPERTY FailedSyncIsQueued
CHECK_DEADLOCK FALSE
