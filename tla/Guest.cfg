SPECIFICATION FairSpec
CONSTANTS
    Purchase = {p1}
    u1 = u1
    User = {u1, u2, buyer}
    NoUser = NoUser
    Buyer = buyer
    Recipient <- MCRecipient
    Opening = 2
    Task = {t1, t2}
    Monitor = Monitor
    MaxCalls = 2
    MaxRetries = 1
INVARIANT TypeOK
INVARIANT OneRecipient
INVARIANT GrantedIsPaidFor
INVARIANT OnceUnlessDoubt
PROPERTY ImplementsDelivery
PROPERTY PaidIsSettled
CHECK_DEADLOCK FALSE
