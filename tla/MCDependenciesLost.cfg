SPECIFICATION FairSpec
CONSTANTS
  a = a
  b = b
  c = c
  r1 = r1
  Jobs = {a, b, c}
  DependsOn <- Chain
  Scheduled = {c}
  Overlap = TRUE
  Slots = {1, 2}
  Requests = {}
  NoJob = NoJob
  MaxCancels = 0
  MaxCrashes = 0
  MaxErrors = 0
PROPERTIES
  NoLostWakeup
CHECK_DEADLOCK FALSE
