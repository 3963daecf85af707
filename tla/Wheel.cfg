SPECIFICATION WheelSpec
CONSTANTS
    Task = {t1, t2}
    Charge = {c1, c2}
    Free = Free
    Limit = 2
    Cost = 1
    Bonus = 2
    Fee = 1
    Gift = 2
    Floor = 0
    OpeningBalance = 3
    OpeningDays = 3
    MaxCalls = 5
    MaxFaults = 1
INVARIANT WheelTypeOK
INVARIANT LimitUnlessApart
INVARIANT ChargedForPrize
INVARIANT OncePerCharge
CHECK_DEADLOCK FALSE
