SPECIFICATION Spec
CONSTANTS
    r1 = r1
    r2 = r2
    r3 = r3
    v1 = v1
    v2 = v2
    Runs = {r1, r2, r3}
    Versions = {v1, v2}
    Exclusive = TRUE
    MaxEdits = 1
SYMMETRY Symmetry
INVARIANTS
    TypeOK
PROPERTIES
    CompletionIsWhole
    ForeignIsKept
CHECK_DEADLOCK FALSE
