SPECIFICATION Spec
CONSTANTS
    s1 = s1
    s2 = s2
    o1 = o1
    o2 = o2
    g1 = g1
    g2 = g2
    Sessions = {s1}
    Orders = {o1}
    Receipts = {g1}
    Qtys = {2}
    Ceiling = 2
SYMMETRY Symmetry
INVARIANT ReturnedWasReceived
CHECK_DEADLOCK FALSE
