SPECIFICATION Spec
CONSTANTS
  Paths <- MCPaths
  Targets <- MCTargets
  Identity <- MCIdentity
  Contents <- MCContents
  FirstManifests <- MCFirstManifests
  Evidence <- MCEvidence
  MaxScans = 1
  RescanDuring <- MCNever
INVARIANTS
  TypeOK
  GateIsSound
  ArtifactsAgree
  BlockersAreCarried
