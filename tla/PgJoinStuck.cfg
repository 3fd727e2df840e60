SPECIFICATION Spec
CONSTANTS
  Jobs = {"a", "b", "c"}
  Workers = {w1, w2}
  Keys = {}
  Batches = {}
  NoJob = NoJob
  NoKey = NoKey
  NoBatch = NoBatch
  UniqueKey <- NoKeys
  BatchOf <- NoBatches
  Workflow = {"a", "b", "c"}
  Parents <- Join
  MaxAttempts <- OneAttempt
  MaxRunning = 0
  SingleWriter = FALSE
  MaxSubmits = 0
  Faults = {}
  AdminOps = {}
  MaxAdminCalls = 0
SYMMETRY WorkerSymmetry
INVARIANTS
  BlockedHasDeps
