SPECIFICATION FairSpec
CONSTANTS
  t1 = t1
  t2 = t2
  o1 = o1
  o2 = o2
  Ticks = {t1, t2}
  Owners = {o1, o2}
  NoOwner = NoOwner
  TickOwner <- TwoOwners
  Schedules = {"s1", "s2"}
  NoSchedule = NoSchedule
  Jobs = {"j"}
  RunAt <- AtOne
  MaxClock = 2
  MaxErrors = 1
  MaxCrashes = 1
  MaxOverruns = 0
INVARIANTS
  NoDuplicateDispatch
  SchedulerInv
PROPERTIES
  NeverBackwards
  EveryOccurrence
  ReleasedWhenDue
