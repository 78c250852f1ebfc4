SPECIFICATION Spec
CONSTANTS
    pipe = pipe
    valve = valve
    row1 = row1
    row2 = row2
    Items = {pipe}
    Slots = {row1}
    MaxQty = 2
    MaxRev = 1
    MaxArrived = 2
    MaxSentBack = 1
    OrderRows <- RowOfEach
    Duplicates = FALSE
SYMMETRY Symmetry
PROPERTY OrdersFitLatestRevision
CHECK_DEADLOCK FALSE
