SPECIFICATION FairSpec
CONSTANTS
  Total = 2
  Conflicts = {2}
  MaxAttempts = 2
  MaxResets = 1
  MaxErrors = 1
  MaxCrashes = 1
INVARIANTS
  EveryEndCounted
  BatchInv
  CallbackOnce
PROPERTIES
  Finishes
CHECK_DEADLOCK FALSE
