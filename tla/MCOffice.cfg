SPECIFICATION Spec
CONSTANTS
    s1 = s1
    s2 = s2
    o1 = o1
    c1 = c1
    ph1 = ph1
    e1 = e1
    i1 = i1
    n1 = n1
    l1 = l1
    l2 = l2
    q1 = q1
    v1 = v1
    v2 = v2
    d1 = d1
    t1 = t1
    t2 = t2
    large = large
    u1 = u1
    u2 = u2
    r1 = r1
    r2 = r2
    None = None
    Sessions = {s1, s2}
    OrderIds = {o1}
    LastDate = 3
    MaxLots = 1
    ChangeIds = {c1}
    OrderOf <- MCOrderOf
    NewDate <- MCNewDate
    Delta <- MCDelta
    MaxApplied = 1
    PhaseIds = {ph1}
    ExpenseIds = {e1}
    InvoiceIds = {i1}
    BilledTo <- MCBilledTo
    Amounts = {1}
    NeedIds = {n1}
    NeedLines = {l1, l2}
    Ceiling = 1
    RfqIds = {q1}
    Vendors = {v1, v2}
    MINIMUM_VENDORS = 2
    MaxOrders = 1
    Documents = {d1}
    Terms = {t1, t2}
    ApprovalRules = {large}
    RequiredRole <- MCRequiredRole
    Threshold <- MCThreshold
    Value <- MCValue
    MaxRounds = 2
    Users = {u1, u2}
    FirstAdministrator = u1
    Roles = {r1, r2}
    Capabilities = {"admin:manage"}
SYMMETRY Symmetry
INVARIANTS TypeOK HandedOver PhasesBelowCommitment SheetCoversClaims AwardsRestOnProcess LockKeepsTerms
PROPERTY AdministratorsRemain
CONSTRAINT Apart
CHECK_DEADLOCK FALSE
