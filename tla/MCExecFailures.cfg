SPECIFICATION Spec
CONSTANTS
  w1 = w1
  w2 = w2
  s1 = s1
  s2 = s2
  j1 = j1
  j2 = j2
  Jobs = {j1}
  Workers = {w1, w2}
  Slots = {s1, s2}
  SlotWorker <- TwoProcesses
  MaxAttempts <- TwoAttempts
  Retries = {"r1"}
  Replays = {"p1"}
  NoJob = NoJob
  NoWorker = NoWorker
  MaxErrors = 2
  QuickRelease = FALSE
  MaxCrashes = 1
  MaxOverruns = 0
INVARIANTS
  MutualExclusion
  HoldsLock
CHECK_DEADLOCK FALSE
