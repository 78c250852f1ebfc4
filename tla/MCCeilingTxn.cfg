SPECIFICATION Spec
CONSTANTS
    s1 = s1
    s2 = s2
    l1 = l1
    l2 = l2
    d1 = d1
    d2 = d2
    NoSession = NoSession
    Sessions = {s1, s2}
    Lines = {l1}
    Docs = {d1, d2}
    Qtys = {1, 2}
    BoqQty <- MCOneLineQty
    TolerancePct <- MCOneLinePct
    MaxOps = 2
    MaxOverride = 2
SYMMETRY Symmetry
INVARIANTS TypeOK WithinCeiling NeverOverReleased DecisionOnFreshRead
PROPERTY ContractSpec
