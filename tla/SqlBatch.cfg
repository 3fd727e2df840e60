SPECIFICATION FairSpec
CONSTANTS
  Jobs = {"a", "b", "c"}
  Workers = {w1, w2}
  Keys = {"k"}
  Batches = {"B"}
  NoJob = NoJob
  NoKey = NoKey
  NoBatch = NoBatch
  UniqueKey <- SameKey
  BatchOf <- OneBatch
  Workflow = {}
  Parents <- NoParents
  MaxAttempts <- OneAttempt
  MaxRunning = 0
  SingleWriter = FALSE
  MaxSubmits = 1
  Faults = {"batchTTL"}
  AdminOps = {}
  MaxAdminCalls = 0
INVARIANTS
  BatchCount
  CallbackOnce
  CallbackAfterAll
  UniqueLive
PROPERTIES
  EveryBatchSettles
