SPECIFICATION Spec
CONSTANTS
  w1 = w1
  w2 = w2
  j1 = j1
  j2 = j2
  j3 = j3
  Workers = {w1, w2}
  Queues = {1, 2}
  Jobs = {j1, j2, j3}
  QueueOf <- MCQueueOf
  Priority <- MCSamePriority
  WorkerShard <- MCWorkerShard
  QueueIds <- MCQueueIds
  Shards = {"a", "b"}
  AnyShard = "any"
  Limits = {1, 2}
  InitLimit <- MCInitLimit
  InitShard <- MCInitShard
  NoWorker = NoWorker
  NoJob = NoJob
  MaxClock = 0
  MaxPatches = 1
  Slots = {1, 2}
  SlotWorker <- MCSlotWorker
  Requests = {r1}
  r1 = r1
  r2 = r2
  MaxCrashes = 0
  MaxErrors = 0
SYMMETRY MCSymmetry
INVARIANTS
  EligibleStaysTrue
  NoWaitCycle
  OneHolder
PROPERTIES
  NoOverAdmission
  ClaimIsAtomic
CHECK_DEADLOCK FALSE
