SPECIFICATION Spec
CONSTANTS
  Jobs = {"a", "b", "c", "d"}
  Parents <- Diamond
  Workflows <- TwoCalls
  Workers = {w1, w2}
  Admins = {admin}
  NoJob = NoJob
  MaxCancels = 1
SYMMETRY WorkerSymmetry
INVARIANTS
  ParentsFirst
  NoneForgotten
