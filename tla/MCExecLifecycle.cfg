SPECIFICATION FairSpec
CONSTANTS
  w1 = w1
  w2 = w2
  s1 = s1
  s2 = s2
  j1 = j1
  j2 = j2
  Jobs = {j1, j2}
  Workers = {w1, w2}
  Slots = {s1, s2}
  SlotWorker <- TwoProcesses
  MaxAttempts <- TwoAttempts
  Retries = {"r1"}
  Replays = {}
  NoJob = NoJob
  NoWorker = NoWorker
  MaxErrors = 0
  QuickRelease = TRUE
  MaxCrashes = 0
  MaxOverruns = 0
INVARIANTS
  NoOrphan
  SucceedsOnce
  AttemptBudget
  ExecutionInv
PROPERTIES
  FollowsLifecycle
  Settles
CHECK_DEADLOCK FALSE
