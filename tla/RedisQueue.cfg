SPECIFICATION Spec
CONSTANTS
  Jobs = {"a", "b", "c"}
  Workers = {w1, w2}
  Pollers = {p}
  Keys = {"k"}
  NoJob = NoJob
  NoKey = NoKey
  UniqueKey <- SameKey
  MaxAttempts <- Attempts
  MaxRunning = 1
  DeadListSize = 2
  MaxAdminCalls = 1
SYMMETRY WorkerSymmetry
INVARIANTS
  ExclusiveExecution
  NotLost
  ThrottleBound
  RetryBudget
  RefusedOnlyForAnother
PROPERTIES
  ImplementsLifecycle
