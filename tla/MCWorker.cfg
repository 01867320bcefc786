SPECIFICATION FairSpec
CONSTANTS
  j1 = j1
  j2 = j2
  j3 = j3
  Jobs <- MCJobs
  Hanging <- MCHanging
  MaxParallel = 2
  MaxErrors = 1
  MaxLosses = 1
INVARIANTS
  ClaimedIsExecuted
  WorkerInv
  InFlightFinish
PROPERTIES
  PickedUp
  ShutdownEnds
CHECK_DEADLOCK FALSE
