SPECIFICATION FairSpec
CONSTANTS
    Task = {t1, t2}
    Loop = Loop
    Monitor = Monitor
    Price = 2
    Opening = 2
    ResetsTraffic = TRUE
    MaxDay = 3
    MaxCalls = 2
    MaxActs = 1
    MaxFaults = 1
INVARIANT TypeOK
INVARIANT DayIsPaidOnce
PROPERTY DueIsSettled
CHECK_DEADLOCK FALSE
