SPECIFICATION Spec
CONSTANTS
  Jobs = {"a", "b", "c"}
  Workers = {w1, w2}
  Keys = {}
  Batches = {}
  NoJob = NoJob
  NoKey = NoKey
  NoBatch = NoBatch
  UniqueKey <- NoKeys
  BatchOf <- NoBatches
  Workflow = {"a", "b", "c"}
  Parents <- Tree
  MaxAttempts <- OneAttempt
  MaxRunning = 0
  SingleWriter = FALSE
  MaxSubmits = 0
  Faults = {"shutdown", "storageError"}
  AdminOps = {"Retry", "RetryAllFailed", "Cancel", "BulkCancel", "BulkPurge",
              "ClearQueue", "PurgeAllFailed", "ArchiveJobs", "Pause"}
  MaxAdminCalls = 1
SYMMETRY WorkerSymmetry
INVARIANTS
  BlockedHasDeps
