SPECIFICATION MCSpec
CONSTANTS
  wide = wide
  trap = trap
  pad = pad
  Widths <- MCWidths
  Latency <- MCLatency
  Int8Latency <- MCInt8Latency
  Buildable <- MCBuildable
  AP <- MCAP
  Int8Penalty = 1
  Nadir = 7
  Arms = {"joint", "noS", "serial"}
  Setups <- MCSetups
  MaxGens = 4
  TuneQuant = TRUE
  Inputs <- AllInputs
  Later <- PublishInputs
  Deltas = {1, 2}
  PublicDelta = 1
  MaxRuns = 4
  MaxCrashes = 2
INVARIANTS
  TypesOK
  ArmsStayInBounds
  ScoresMeanWhatTheySay
  TableIsHonest
  ManifestSealsRoot
CHECK_DEADLOCK FALSE
