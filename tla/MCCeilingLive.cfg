SPECIFICATION FairSpec
CONSTANTS
    s1 = s1
    s2 = s2
    l1 = l1
    l2 = l2
    d1 = d1
    d2 = d2
    NoSession = NoSession
    Sessions = {s1, s2}
    Lines = {l1, l2}
    Docs = {d1}
    Qtys = {2}
    BoqQty <- MCBoqQty
    TolerancePct <- MCTolerancePct
    MaxOps = 2
    MaxOverride = 0
PROPERTY TransactionsEnd
