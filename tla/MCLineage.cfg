SPECIFICATION Spec
CONSTANTS
    pipe = pipe
    valve = valve
    row1 = row1
    row2 = row2
    Items = {pipe, valve}
    Slots = {row1, row2}
    MaxQty = 2
    MaxRev = 1
    MaxArrived = 2
    MaxSentBack = 1
    OrderRows <- FirstRow
    Duplicates = FALSE
SYMMETRY Symmetry
INVARIANTS TypeOK ComparedOnce InstructionsSettle NetChangesAddUp
CHECK_DEADLOCK FALSE
