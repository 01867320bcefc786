SPECIFICATION FairSpec
CONSTANTS
  a = a
  b = b
  c = c
  r1 = r1
  Jobs = {a, b, c}
  DependsOn <- Chain
  Scheduled = {c}
  Overlap = FALSE
  Slots = {1, 2}
  Requests = {r1}
  NoJob = NoJob
  MaxCancels = 1
  MaxCrashes = 1
  MaxErrors = 1
INVARIANTS
  DependenciesInv
PROPERTIES
  NoLostWakeup
CHECK_DEADLOCK FALSE
