SPECIFICATION Spec
CONSTANTS
    r1 = r1
    r2 = r2
    r3 = r3
    v1 = v1
    v2 = v2
    Runs = {r1, r2}
    Versions = {v1}
    Exclusive = FALSE
    MaxEdits = 0
SYMMETRY Symmetry
PROPERTIES
    CompletedIsKept
CHECK_DEADLOCK FALSE
