SPECIFICATION Spec
CONSTANTS
    s1 = s1
    s2 = s2
    o1 = o1
    o2 = o2
    g1 = g1
    g2 = g2
    Sessions = {s1, s2}
    Orders = {o1, o2}
    Receipts = {g1}
    Qtys = {1, 2}
    Ceiling = 2
SYMMETRY Symmetry
INVARIANTS TypeOK HeadroomAccounted AnnouncedOnce PostedOnce
PROPERTY KeepsContract
CHECK_DEADLOCK FALSE
