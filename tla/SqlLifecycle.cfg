SPECIFICATION Spec
CONSTANTS
  Jobs = {"a", "b", "c"}
  Workers = {w1, w2}
  Keys = {"k"}
  Batches = {"B"}
  NoJob = NoJob
  NoKey = NoKey
  NoBatch = NoBatch
  UniqueKey <- SameKey
  BatchOf <- OnlyB
  Workflow = {}
  Parents <- NoParents
  MaxAttempts <- OnlyCAgain
  MaxRunning = 1
  SingleWriter = FALSE
  MaxSubmits = 0
  Faults = {"crash", "clientCrash", "lockTTL", "rateLimit"}
  AdminOps = {"RetryAllFailed"}
  MaxAdminCalls = 1
SYMMETRY WorkerSymmetry
INVARIANTS
  ExclusiveExecution
  RetryBudget
  ThrottleBound
  RefusedOnlyForAnother
