SPECIFICATION FairSpec
CONSTANTS
    Task = {t1}
    Loop = Loop
    None = None
    Period = 1
    MaxRetries = 2
    MaxHooks = 1
    MaxTime = 1
    MaxRenewals = 2
    MaxReaders = 1
    MaxFaults = 2
INVARIANT TypeOK
INVARIANT PaidIsKept
PROPERTY PaidReachesPanel
CHECK_DEADLOCK FALSE
