SPECIFICATION MCSpec
CONSTANTS
  k1 = k1
  k2 = k2
  k3 = k3
  k4 = k4
  TargetOrder <- MCTargetOrder
  Requested <- MCRequested
  RowGroup <- MCRowGroup
  Faults = {"none", "context", "labels", "unmeasured", "negative", "splits"}
  OuterSplits = 2
  InnerSplits = 2
  Scores = {1, 2}
  GroupIds <- MCGroups
  Table <- MCTable
  Targets = {"latency_ms", "ap70"}
  Metrics <- MCMetrics
  Completions <- MCCompletions
  Holdouts <- MCHoldouts
  Elections <- MCElections
  Heads = {1, 2}
  Reruns <- MCReruns
  Required <- MCRequired
  MaxDrifts = 2
INVARIANTS
  TypesOK
  ClosedIsSound
  NestedIsHonest
  AcquisitionIsSound
CHECK_DEADLOCK FALSE
