SPECIFICATION FairSpec
CONSTANTS
    p1 = p1
    u1 = u1
    h1 = h1
    h2 = h2
    c1 = c1
    Payment = {p1}
    User = {u1}
    Owner <- OneUser
    Amount <- OneAmount
    Opening <- OneUnit
    Hook = {h1}
    Checker = {c1}
    Price <- OnePrice
INVARIANT TypeOK
INVARIANT PaidMeansDeposited
PROPERTY LedgerSpec
PROPERTY WebhooksKeepFinal
PROPERTY PendingIsReconciled
CHECK_DEADLOCK FALSE
