SPECIFICATION FairSpec
CONSTANTS
  w1 = w1
  w2 = w2
  j1 = j1
  j2 = j2
  j3 = j3
  Workers = {w1, w2}
  Queues = {1}
  Jobs = {j1, j2}
  QueueOf <- MCQueueOf
  Priority <- MCPriority
  WorkerShard <- MCWorkerShard
  QueueIds <- MCQueueIds
  Shards = {"a", "b"}
  AnyShard = "any"
  Limits = {1, 2}
  InitLimit <- MCInitLimit
  InitShard <- MCInitShard
  NoWorker = NoWorker
  NoJob = NoJob
  MaxClock = 1
  MaxPatches = 0
  Slots = {1, 2, 3}
  SlotWorker <- MCSlotWorker
  Requests = {}
  r1 = r1
  r2 = r2
  MaxCrashes = 1
  MaxErrors = 1
INVARIANTS
  ClaimInv
PROPERTIES
  Pickup
  ClaimReturns
