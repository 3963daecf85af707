SPECIFICATION Spec
CONSTANTS
    Task = {t1}
    Loop = Loop
    Monitor = Monitor
    Price = 2
    Opening = 2
    ResetsTraffic = TRUE
    MaxDay = 2
    MaxCalls = 0
    MaxActs = 1
    MaxFaults = 0
PROPERTY LoopChargesDue
CHECK_DEADLOCK FALSE
