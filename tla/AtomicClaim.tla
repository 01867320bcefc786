---------------------------- MODULE AtomicClaim ----------------------------
(***************************************************************************)
(* What src/server/src/engine/claimer.ts promises, as a specification: a   *)
(* claim takes effect at one instant, and at that instant the job is       *)
(* queued and due, its queue is not paused, serves the worker's shard, and *)
(* has a free concurrency slot.  ClaimTransaction is the transaction that  *)
(* has to keep this promise out of row locks, counts and an UPDATE.        *)
(*                                                                         *)
(* The other actions are the statements by which the rest of the server    *)
(* changes the rows a claim reads; each is one autocommitted statement.    *)
(* Those of executor.ts, and the resets of a retry and a replay, name the  *)
(* job by its id and look at no status: whoever sends them has to know     *)
(* that they are due.                                                      *)
(***************************************************************************)
EXTENDS Integers, FiniteSets

CONSTANTS
  Workers,      \* registrations in table workers (a restart registers anew)
  Queues,       \* queue ids
  Jobs,         \* job ids
  QueueOf,      \* jobs.queue_id, which no statement changes
  WorkerShard,  \* shardKey of each caller of claimNextJob, AnyShard for none
  QueueIds,     \* the queue ids a worker's claim is restricted to
  Shards,       \* values of queues.shard_key
  AnyShard,
  Limits,       \* values of queues.concurrency_limit
  InitLimit,    \* the settings the queues were created with
  InitShard,
  NoWorker,     \* jobs.worker_id IS NULL
  MaxClock,     \* bound on the clock
  MaxPatches    \* bound on PATCH /queues requests

VARIABLES
  status,   \* jobs.status
  owner,    \* jobs.worker_id
  runAt,    \* jobs.run_at
  limit,    \* queues.concurrency_limit
  paused,   \* queues.is_paused
  shard,    \* queues.shard_key
  clock,    \* the database's now()
  patches   \* PATCH requests so far

rowVars == <<status, owner, runAt, limit, paused, shard, clock, patches>>

ActiveStatuses == {"claimed", "running"}

\* A "waiting" job has no row yet, or one that is blocked or scheduled.
Statuses == {"waiting", "queued", "completed", "failed", "dead_letter"}
              \cup ActiveStatuses

ActiveJobs(q) == {j \in Jobs : QueueOf[j] = q /\ status[j] \in ActiveStatuses}
Active(q) == Cardinality(ActiveJobs(q))

Matches(w, q) == /\ q \in QueueIds[w]
                 /\ WorkerShard[w] \in {AnyShard, shard[q]}

RowsTypeOK ==
  /\ status \in [Jobs -> Statuses]
  /\ owner \in [Jobs -> Workers \cup {NoWorker}]
  /\ runAt \in [Jobs -> 0 .. MaxClock]
  /\ limit \in [Queues -> Limits]
  /\ paused \in [Queues -> BOOLEAN]
  /\ shard \in [Queues -> Shards]
  /\ clock \in 0 .. MaxClock
  /\ patches \in 0 .. MaxPatches

Init ==
  /\ status = [j \in Jobs |-> "waiting"]
  /\ owner = [j \in Jobs |-> NoWorker]
  /\ runAt = [j \in Jobs |-> 0]
  /\ limit = InitLimit
  /\ paused = [q \in Queues |-> FALSE]
  /\ shard = InitShard
  /\ clock = 0
  /\ patches = 0
-----------------------------------------------------------------------------
(* The promise. *)
Claimable(w, j) ==
  /\ status[j] = "queued"
  /\ runAt[j] <= clock
  /\ Matches(w, QueueOf[j])
  /\ ~paused[QueueOf[j]]
  /\ Active(QueueOf[j]) < limit[QueueOf[j]]

Take(w, j) ==
  /\ status' = [status EXCEPT ![j] = "claimed"]
  /\ owner' = [owner EXCEPT ![j] = w]
  /\ UNCHANGED <<runAt, limit, paused, shard, clock, patches>>

Claim(w, j) == Claimable(w, j) /\ Take(w, j)
-----------------------------------------------------------------------------
(* The other writers of these rows. *)

SetStatus(j, s) ==
  /\ status' = [status EXCEPT ![j] = s]
  /\ UNCHANGED <<owner, runAt, limit, paused, shard, clock, patches>>

Enqueue(j, times) ==
  /\ status[j] = "waiting"
  /\ status' = [status EXCEPT ![j] = "queued"]
  /\ \E at \in times : runAt' = [runAt EXCEPT ![j] = at]
  /\ UNCHANGED <<owner, limit, paused, shard, clock, patches>>

\* POST /queues/:queueId/jobs: the row is inserted queued, due at once
\* (immediate, batch) or later (delayed).
InsertJob(j) == Enqueue(j, clock .. MaxClock)

\* The scheduler's release of a job whose time has come, and
\* unblockDependentJobs.
ReleaseJob(j) == Enqueue(j, 0 .. clock)

\* The executor's UPDATEs ... WHERE id = j.
MarkRunning(j) == SetStatus(j, "running")
Complete(j)    == SetStatus(j, "completed")
DeadLetter(j)  == SetStatus(j, "dead_letter")

\* The retry delay is one unit of the bounded clock.
Requeue(j) ==
  /\ clock < MaxClock
  /\ status' = [status EXCEPT ![j] = "queued"]
  /\ owner' = [owner EXCEPT ![j] = NoWorker]
  /\ runAt' = [runAt EXCEPT ![j] = clock + 1]
  /\ UNCHANGED <<limit, paused, shard, clock, patches>>

\* The same UPDATE ... WHERE id = j in POST /jobs/:id/retry and in
\* POST /dlq/:id/replay.
Reset(j) ==
  /\ status' = [status EXCEPT ![j] = "queued"]
  /\ owner' = [owner EXCEPT ![j] = NoWorker]
  /\ runAt' = [runAt EXCEPT ![j] = clock]
  /\ UNCHANGED <<limit, paused, shard, clock, patches>>

\* POST /batches/:id/cancel on the batch that holds j.
CancelJob(j) == status[j] \in {"queued", "waiting"} /\ SetStatus(j, "failed")

\* PATCH /queues/:id rewrites the settings a claim reads.
PatchQueue(q, l, p, s) ==
  /\ patches < MaxPatches
  /\ patches' = patches + 1
  /\ limit' = [limit EXCEPT ![q] = l]
  /\ paused' = [paused EXCEPT ![q] = p]
  /\ shard' = [shard EXCEPT ![q] = s]
  /\ UNCHANGED <<status, owner, runAt, clock>>

Tick ==
  /\ clock < MaxClock
  /\ clock' = clock + 1
  /\ UNCHANGED <<status, owner, runAt, limit, paused, shard, patches>>

Next ==
  \/ \E w \in Workers, j \in Jobs : Claim(w, j)
  \/ \E j \in Jobs : \/ InsertJob(j) \/ ReleaseJob(j) \/ CancelJob(j)
                     \/ MarkRunning(j) \/ Complete(j) \/ DeadLetter(j)
                     \/ Requeue(j) \/ Reset(j)
  \/ \E q \in Queues, l \in Limits, p \in BOOLEAN, s \in Shards :
       PatchQueue(q, l, p, s)
  \/ Tick

Spec == Init /\ [][Next]_rowVars
=============================================================================
