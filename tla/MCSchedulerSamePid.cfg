SPECIFICATION Spec
CONSTANTS
  t1 = t1
  t2 = t2
  o1 = o1
  o2 = o2
  Ticks = {t1, t2}
  Owners = {o1, o2}
  NoOwner = NoOwner
  TickOwner <- OneOwner
  Schedules = {"s1"}
  NoSchedule = NoSchedule
  Jobs = {"j"}
  RunAt <- AtOne
  MaxClock = 1
  MaxErrors = 0
  MaxCrashes = 0
  MaxOverruns = 0
INVARIANTS
  NoDuplicateDispatch
CHECK_DEADLOCK FALSE
