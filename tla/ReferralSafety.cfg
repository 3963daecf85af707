SPECIFICATION Spec
CONSTANTS
    Task = {t1, t2}
    Request = {r1, r2}
    NoRequest = NoRequest
    Commission = 1
    InviterBonus = 0
    MaxCommissions = 1
    MinWithdrawal = 1
    OnlyReferral = TRUE
    MaxTopUps = 3
INVARIANT TypeOK
INVARIANT WithinEntitlement
INVARIANT ChargedIfApproved
INVARIANT BonusOnce
INVARIANT LimitIsKept
SYMMETRY Symmetry
