------------------------- MODULE MCClaimTransaction -------------------------
(* Two workers, two queues and up to three jobs: w1 polls every queue, w2 only
   the shard "a"; j2 has the higher priority, j3 is alone in queue 2. *)
EXTENDS ClaimTransaction, TLC

CONSTANTS w1, w2, j1, j2, j3, r1, r2

MCQueueOf == [j \in Jobs |-> IF j = j3 THEN 2 ELSE 1]
MCPriority == [j \in Jobs |-> IF j = j2 THEN 1 ELSE 0]
MCSamePriority == [j \in Jobs |-> 0]
MCSymmetry == Permutations({j1, j2})
MCWorkerShard == w1 :> AnyShard @@ w2 :> "a"
MCInitLimit == [q \in Queues |-> 1]
MCInitShard == [q \in Queues |-> "a"]
MCSlotWorker == [s \in Slots |-> IF s = 2 THEN w2 ELSE w1]
MCQueueIds == [w \in Workers |-> Queues]
=============================================================================
