SPECIFICATION Spec
CONSTANTS
    s1 = s1
    s2 = s2
    goods = goods
    service = service
    Sessions = {s1, s2}
    Disciplines = {goods, service}
    MaxRev = 1
    MaxLines = 1
SYMMETRY Symmetry
INVARIANTS TypeOK ReleasedOnce OneWorkingRevision BuiltOnReleased
CONSTRAINT LinesFromFirst
CHECK_DEADLOCK FALSE
