SPECIFICATION FairSpec
CONSTANTS
    Payment = {p1, p2}
    Handler = {h1}
    Loop = Loop
    Forced = Forced
    Admin = {a1}
    MaxAttempts = 2
    MaxFaults = 2
INVARIANT TypeOK
INVARIANT SecondNeedsDoubt
PROPERTY QueuedIsKept
PROPERTY QueueDrains
CHECK_DEADLOCK FALSE
