SPECIFICATION FairSpec
CONSTANTS
  Jobs = {"a", "b", "c", "d"}
  Workers = {w1, w2}
  Keys = {}
  Batches = {}
  NoJob = NoJob
  NoKey = NoKey
  NoBatch = NoBatch
  UniqueKey <- NoKeys
  BatchOf <- NoBatches
  Workflow = {"b", "c", "d"}
  Parents <- Diamond
  MaxAttempts <- TwoAttempts
  MaxRunning = 0
  SingleWriter = TRUE
  MaxSubmits = 0
  Faults = {}
  AdminOps = {}
  MaxAdminCalls = 0
INVARIANTS
  ParentsFirst
  DeadParentKillsChild
PROPERTIES
  EveryJobSettles
  ImplementsLifecycle
