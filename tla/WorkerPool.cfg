SPECIFICATION FairSpec
CONSTANTS
  MinConcurrency = 1
  MaxConcurrency = 3
  QueueDepthLimit = 1
  ScaleUpStep = 2
  ScaleDownStep = 1
  MaxJobs = 4
INVARIANTS
  Conservation
  BoundWhenSettled
  FinishedMeansIdle
PROPERTIES
  ScaleUpCompletes
  ShutdownLeavesNothing
