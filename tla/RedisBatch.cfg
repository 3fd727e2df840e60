SPECIFICATION FairSpec
CONSTANTS
  Members = {a, b}
  MaxSubmits = 2
INVARIANTS
  CallbackNotLost
  NoCallbackBeforeSubmit
  PendingCoversQueued
PROPERTIES
  SealedSettles
