SPECIFICATION Spec
CONSTANTS
    r1 = r1
    r2 = r2
    Responders = {r1, r2}
    MaxEntries = 3
    MaxClicks = 4
SYMMETRY Symmetry
INVARIANTS ActivityKept ActivityInOrder
CHECK_DEADLOCK FALSE
