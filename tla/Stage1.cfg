SPECIFICATION MCSpec
CONSTANTS
  Plan <- FiveCells
  Latencies = {1, 2}
  Restarts = 1
  Manifests <- MCManifests
  Evidence <- MCEvidence
INVARIANTS
  TypesOK
  ProbeIsHonest
  SpaceIsBuildable
  ReportsAreGrounded
PROPERTIES
  OnlyTheLastWriteTears
CHECK_DEADLOCK FALSE
