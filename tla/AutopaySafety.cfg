SPECIFICATION FairSpec
CONSTANTS
    Sub = {s1}
    Card = {1, 2}
    Hook = {h1, h2}
    Price = 1
    MinAmount = 1
    Opening = 0
    Period = 2
    Before = 1
    Reach = 1
    MaxDay = 1
    MaxEdits = 1
    MaxFaults = 1
INVARIANT TypeOK
INVARIANT ChargedOnce
PROPERTY LedgerSpec
PROPERTY ChargedIsCredited
CHECK_DEADLOCK FALSE
