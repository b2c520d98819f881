SPECIFICATION MCSpec
CONSTANTS
    a1 = a1
    a2 = a2
    Adapters = {a1, a2}
    Requests <- MCTwoRounds
    Foreign <- MCForeign
    GpuStates = {"ok", "occupied", "drifted"}
SYMMETRY Symmetry
INVARIANTS
  TypeOK
  ChainAtMostOnce
  PublishedIsSound
CHECK_DEADLOCK FALSE
