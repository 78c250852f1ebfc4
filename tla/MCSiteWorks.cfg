SPECIFICATION Spec
CONSTANTS
    s1 = s1
    s2 = s2
    so1 = so1
    so2 = so2
    fo1 = fo1
    fo2 = fo2
    f1 = f1
    f2 = f2
    t1 = t1
    t2 = t2
    Sessions = {s1, s2}
    ServiceOrderIds = {so1, so2}
    FabOrderIds = {fo1}
    FlagIds = {f1}
    TransferIds = {t1, t2}
    Documents = {so1, so2, fo1}
    LineOf <- MCLineOf
    Ceilings <- MCCeilings
    ServiceQtys = {1, 4}
    CertifyQtys = {1, 3}
    FlagQtys = {1}
    FabQtys = {1}
    Recipe = 1
    MaxRuns = 1
    MaxSupply = 1
SYMMETRY Symmetry
INVARIANTS TypeOK BillsNumbered OncePerOverlap LedgersAgree
PROPERTY KeepsContract
CONSTRAINT Apart
CHECK_DEADLOCK FALSE
