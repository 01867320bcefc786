-------------------------- MODULE ClaimTransaction --------------------------
(***************************************************************************)
(* claimNextJob of src/server/src/engine/claimer.ts, statement by          *)
(* statement, called from the poll loop of worker.ts.  PostgreSQL is the   *)
(* part modelled from its use: READ COMMITTED, row locks held to the end   *)
(* of the transaction, now() fixed at BEGIN.                               *)
(*                                                                         *)
(* An "open" transaction first locks, one by one, the rows of the snapshot *)
(* of SELECT ... FROM queues ... ORDER BY id FOR UPDATE, then counts the   *)
(* active jobs of each row it got, then UPDATEs the job it chooses and is  *)
(* "committing" until COMMIT is answered.                                  *)
(* Rows, and what other statements do to them, come from AtomicClaim; of   *)
(* its action Claim this module has no other form than the transaction.    *)
(*                                                                         *)
(* Of executeJob it keeps the UPDATEs of the job's row and the end, by     *)
(* slot: a process holds a job until the end, also when it has already put *)
(* it back (JobExecution has every statement, and the lock).  Of a retry   *)
(* or replay it keeps the read and the UPDATE.                             *)
(***************************************************************************)
EXTENDS Integers, FiniteSets

CONSTANTS
  Workers, Queues, Jobs, QueueOf, WorkerShard, QueueIds, Shards, AnyShard,
  Limits, InitLimit, InitShard, NoWorker, MaxClock, MaxPatches,  \* see AtomicClaim
  Priority,     \* jobs.priority
  NoJob,        \* no job chosen
  Slots, SlotWorker,  \* the executions a worker may run at once, and whose
  Requests,     \* manual retries and replays, each of them once
  MaxCrashes,   \* bound on worker processes that die
  MaxErrors     \* bound on queries that throw, done or not

ASSUME QueuesAssumption ==      \* queue ids are ordered
  IsFiniteSet(Queues) /\ Queues \subseteq Nat /\ QueueOf \in [Jobs -> Queues]
ASSUME JobsAssumption ==
  IsFiniteSet(Jobs) /\ NoJob \notin Jobs /\ Priority \in [Jobs -> Nat]
ASSUME WorkersAssumption ==
  NoWorker \notin Workers /\ Slots \subseteq Nat /\ SlotWorker \in [Slots -> Workers]
ASSUME SettingsAssumption ==
  /\ Limits \subseteq Nat
  /\ InitLimit \in [Queues -> Limits] /\ InitShard \in [Queues -> Shards]
ASSUME BoundsAssumption ==
  /\ MaxClock \in Nat /\ MaxPatches \in Nat
  /\ MaxCrashes \in Nat /\ MaxErrors \in Nat

VARIABLES
  status, owner, runAt, limit, paused, shard, clock, patches,
  rowLock,   \* the worker whose transaction holds FOR UPDATE on a queue row
  pc,        \* where each worker's claimNextJob is
  snapshot,  \* queue rows of the SELECT's snapshot still to be locked
  rows,      \* lockedQueues: rows returned and not yet counted
  eligible,  \* eligibleQueueIds
  picked,    \* the job row the UPDATE has locked
  txnNow,    \* now() of the transaction
  job, stage,   \* of each slot: the job in it, and how far executeJob is
  at, target,   \* of each request: how far it is, and its job
  letters,      \* jobs with a row in dead_letter_queue
  dead,      \* worker processes that died
  errors     \* queries that threw so far

AC == INSTANCE AtomicClaim

rowVars == <<status, owner, runAt, limit, paused, shard, clock, patches>>
txnVars == <<rowLock, pc, snapshot, rows, eligible, picked, txnNow>>
slotVars == <<job, stage>>
requestVars == <<at, target, letters>>
faultVars == <<dead, errors>>
restVars == <<slotVars, requestVars, faultVars>>
vars == <<rowVars, txnVars, restVars>>

Unlocked(q) == rowLock[q] = NoWorker
HeldBy(w) == {q \in Queues : rowLock[q] = w}
InTransaction == {"open", "committing"}

\* A slot is at work until the last statement of its execution that may
\* write the job's row; then it is "ending", until executeJob returns.
AtWork == {"claimed", "running", "completed"}
Live(s) == SlotWorker[s] \notin dead
Working(s) == stage[s] \in AtWork /\ Live(s)
FreeSlots(w) == {s \in Slots : SlotWorker[s] = w /\ stage[s] = "free"}

TypeOK ==
  /\ AC!RowsTypeOK
  /\ rowLock \in [Queues -> Workers \cup {NoWorker}]
  /\ pc \in [Workers -> InTransaction \cup {"idle"}]
  /\ snapshot \in [Workers -> SUBSET Queues]
  /\ rows \in [Workers -> SUBSET Queues]
  /\ eligible \in [Workers -> SUBSET Queues]
  /\ picked \in [Workers -> Jobs \cup {NoJob}]
  /\ txnNow \in [Workers -> 0 .. MaxClock]
  /\ job \in [Slots -> Jobs \cup {NoJob}]
  /\ stage \in [Slots -> AtWork \cup {"free", "ending"}]
  /\ \A s \in Slots : stage[s] # "free" => job[s] \in Jobs
  /\ at \in [Requests -> {"new", "reset", "done"}]
  /\ target \in [Requests -> Jobs \cup {NoJob}]
  /\ \A r \in Requests : at[r] # "new" => target[r] \in Jobs
  /\ letters \subseteq Jobs
  /\ dead \in SUBSET Workers
  /\ errors \in 0 .. MaxErrors

Init ==
  /\ AC!Init
  /\ rowLock = [q \in Queues |-> NoWorker]
  /\ pc = [w \in Workers |-> "idle"]
  /\ snapshot = [w \in Workers |-> {}]
  /\ rows = [w \in Workers |-> {}]
  /\ eligible = [w \in Workers |-> {}]
  /\ picked = [w \in Workers |-> NoJob]
  /\ txnNow = [w \in Workers |-> 0]
  /\ job = [s \in Slots |-> NoJob]
  /\ stage = [s \in Slots |-> "free"]
  /\ at = [r \in Requests |-> "new"]
  /\ target = [r \in Requests |-> NoJob]
  /\ letters = {}
  /\ dead = {}
  /\ errors = 0
-----------------------------------------------------------------------------
(* The transaction of worker w. *)

\* The end of a transaction, however it ends, lets go of every row lock.
EndTransaction(w) ==
  /\ rowLock' = [q \in Queues |-> IF rowLock[q] = w THEN NoWorker ELSE rowLock[q]]
  /\ pc' = [pc EXCEPT ![w] = "idle"]
  /\ snapshot' = [snapshot EXCEPT ![w] = {}]
  /\ rows' = [rows EXCEPT ![w] = {}]
  /\ eligible' = [eligible EXCEPT ![w] = {}]
  /\ picked' = [picked EXCEPT ![w] = NoJob]
  /\ txnNow' = [txnNow EXCEPT ![w] = 0]

\* The poll loop claims only while the worker has room (worker.ts), then
\* BEGIN, and the SELECT's snapshot of the queues that match.
Begin(w) ==
  /\ pc[w] = "idle"
  /\ w \notin dead
  /\ FreeSlots(w) # {}
  /\ pc' = [pc EXCEPT ![w] = "open"]
  /\ txnNow' = [txnNow EXCEPT ![w] = clock]
  /\ snapshot' = [snapshot EXCEPT ![w] = {q \in Queues : AC!Matches(w, q)}]
  /\ UNCHANGED <<rowVars, restVars, rowLock, rows, eligible, picked>>

\* Mutants: the SELECT without ORDER BY id, and without FOR UPDATE.
LockQueueUnordered(w) ==
  /\ pc[w] = "open"
  /\ \E q \in snapshot[w] :
       /\ Unlocked(q)
       /\ rowLock' = [rowLock EXCEPT ![q] = w]
       /\ snapshot' = [snapshot EXCEPT ![w] = @ \ {q}]
       /\ rows' = [rows EXCEPT ![w] = IF AC!Matches(w, q) THEN @ \cup {q} ELSE @]
  /\ UNCHANGED <<rowVars, restVars, pc, eligible, picked, txnNow>>
LockQueueNoLock(w) ==
  /\ pc[w] = "open" /\ snapshot[w] # {}
  /\ snapshot' = [snapshot EXCEPT ![w] = {}]
  /\ rows' = [rows EXCEPT ![w] = {q \in snapshot[w] : AC!Matches(w, q)}]
  /\ UNCHANGED <<rowVars, restVars, rowLock, pc, eligible, picked, txnNow>>

\* Locks are taken in the order of id, waiting for each.  A row that was
\* changed meanwhile is re-read, and left out when it no longer matches,
\* but its lock is kept.
LockQueue(w) ==
  /\ pc[w] = "open"
  /\ \E q \in snapshot[w] :
       /\ \A r \in snapshot[w] : q <= r
       /\ Unlocked(q)
       /\ rowLock' = [rowLock EXCEPT ![q] = w]
       /\ snapshot' = [snapshot EXCEPT ![w] = @ \ {q}]
       /\ rows' = [rows EXCEPT ![w] = IF AC!Matches(w, q) THEN @ \cup {q} ELSE @]
  /\ UNCHANGED <<rowVars, restVars, pc, eligible, picked, txnNow>>

\* Mutants: an off-by-one, is_paused ignored.
AdmitsOneMore(q) == ~paused[q] /\ AC!Active(q) <= limit[q]
AdmitsPaused(q) == AC!Active(q) < limit[q]

Admits(q) == ~paused[q] /\ AC!Active(q) < limit[q]

CountQueue(w) ==
  /\ pc[w] = "open" /\ snapshot[w] = {}
  /\ \E q \in rows[w] :
       /\ \A r \in rows[w] : q <= r
       /\ rows' = [rows EXCEPT ![w] = @ \ {q}]
       /\ eligible' = [eligible EXCEPT ![w] = IF Admits(q) THEN @ \cup {q} ELSE @]
  /\ UNCHANGED <<rowVars, restVars, rowLock, pc, snapshot, picked, txnNow>>

AllCounted(w) == pc[w] = "open" /\ snapshot[w] = {} /\ rows[w] = {}

\* Mutant: the early return without its COMMIT.
NothingEligibleKeepsLocks(w) ==
  /\ AllCounted(w) /\ eligible[w] = {}
  /\ pc' = [pc EXCEPT ![w] = "idle"]
  /\ UNCHANGED <<rowVars, restVars, rowLock, snapshot, rows, eligible, picked, txnNow>>

NothingEligible(w) ==
  /\ AllCounted(w) /\ eligible[w] = {}
  /\ EndTransaction(w)
  /\ UNCHANGED <<rowVars, restVars>>

\* The rows the UPDATE's subselect can return: SKIP LOCKED passes over a row
\* another transaction has locked.
Candidates(w) ==
  {j \in Jobs : /\ QueueOf[j] \in eligible[w]
                /\ status[j] = "queued"
                /\ runAt[j] <= txnNow[w]
                /\ \A v \in Workers : picked[v] # j}

\* ORDER BY priority DESC, run_at ASC; ties are broken either way.
Precedes(i, j) == \/ Priority[i] > Priority[j]
                  \/ Priority[i] = Priority[j] /\ runAt[i] <= runAt[j]

ClaimUpdate(w) ==
  /\ AllCounted(w) /\ eligible[w] # {}
  /\ \/ \E j \in Candidates(w) :
          /\ \A i \in Candidates(w) : Precedes(j, i)
          /\ picked' = [picked EXCEPT ![w] = j]
     \/ Candidates(w) = {} /\ picked' = picked
  /\ pc' = [pc EXCEPT ![w] = "committing"]
  /\ UNCHANGED <<rowVars, restVars, rowLock, snapshot, rows, eligible, txnNow>>

\* COMMIT makes the UPDATE of the picked row visible.
Publish(w) == IF picked[w] = NoJob THEN UNCHANGED rowVars
                                   ELSE AC!Take(w, picked[w])

\* The poll loop runs the job it was given in a slot of its limiter, of which
\* any will do.
Occupy(w, j) ==
  \E s \in FreeSlots(w) : /\ \A t \in FreeSlots(w) : s <= t
                         /\ job' = [job EXCEPT ![s] = j]
                         /\ stage' = [stage EXCEPT ![s] = "claimed"]

Commit(w) ==
  /\ pc[w] = "committing"
  /\ Publish(w)
  /\ IF picked[w] = NoJob THEN UNCHANGED slotVars ELSE Occupy(w, picked[w])
  /\ EndTransaction(w)
  /\ UNCHANGED <<requestVars, faultVars>>

QueryFails == errors < MaxErrors /\ errors' = errors + 1

\* Mutant: the job of the UPDATE is returned although COMMIT failed.
RollbackKeepsJob(w) ==
  /\ pc[w] \in InTransaction
  /\ QueryFails
  /\ IF picked[w] = NoJob THEN UNCHANGED slotVars ELSE Occupy(w, picked[w])
  /\ EndTransaction(w)
  /\ UNCHANGED <<rowVars, requestVars, dead>>

\* A query throws: ROLLBACK, and claimNextJob returns null.
Rollback(w) ==
  /\ pc[w] \in InTransaction
  /\ QueryFails
  /\ EndTransaction(w)
  /\ UNCHANGED <<rowVars, slotVars, requestVars, dead>>

\* COMMIT took effect and its answer was lost: the catch block's ROLLBACK
\* undoes nothing, and no process knows of the job it left claimed.
CommitAnswerLost(w) ==
  /\ pc[w] = "committing"
  /\ QueryFails
  /\ Publish(w)
  /\ EndTransaction(w)
  /\ UNCHANGED <<slotVars, requestVars, dead>>

\* A worker process dies: PostgreSQL rolls its open transaction back; its
\* jobs keep status and worker_id, and nothing in the server looks for them.
Crash(w) ==
  /\ w \notin dead
  /\ Cardinality(dead) < MaxCrashes
  /\ dead' = dead \cup {w}
  /\ EndTransaction(w)
  /\ UNCHANGED <<rowVars, slotVars, requestVars, errors>>
-----------------------------------------------------------------------------
(* executeJob in slot s.  An UPDATE of a row that a transaction has picked
   waits for that transaction. *)

RowFree(j) == \A w \in Workers : picked[w] # j

Reach(s, there) == stage' = [stage EXCEPT ![s] = there] /\ UNCHANGED job
Leave(s) == /\ stage' = [stage EXCEPT ![s] = "free"]
            /\ job' = [job EXCEPT ![s] = NoJob]

MarkRunning(s) ==
  /\ stage[s] = "claimed" /\ Live(s) /\ RowFree(job[s])
  /\ AC!MarkRunning(job[s])
  /\ Reach(s, "running")
  /\ UNCHANGED <<txnVars, requestVars, faultVars>>

Complete(s) ==
  /\ stage[s] = "running" /\ Live(s) /\ RowFree(job[s])
  /\ AC!Complete(job[s])
  /\ Reach(s, "completed")
  /\ UNCHANGED <<txnVars, requestVars, faultVars>>

\* The handler throws; or a statement after the completion does, in the same
\* try block.  How many attempts there may be is left to JobExecution.
Fails(s) == \/ stage[s] = "running" /\ UNCHANGED errors
            \/ stage[s] = "completed" /\ QueryFails

Requeue(s) ==
  /\ Fails(s) /\ Live(s) /\ RowFree(job[s])
  /\ AC!Requeue(job[s])
  /\ Reach(s, "ending")
  /\ UNCHANGED <<txnVars, requestVars, dead>>

\* The row of dead_letter_queue is taken to be inserted with the UPDATE.
DeadLetter(s) ==
  /\ Fails(s) /\ Live(s) /\ RowFree(job[s])
  /\ AC!DeadLetter(job[s])
  /\ letters' = letters \cup {job[s]}
  /\ Reach(s, "ending")
  /\ UNCHANGED <<txnVars, at, target, dead>>

\* The release in the finally block, and the slot of the poll loop is free.
Finish(s) ==
  /\ stage[s] \in {"completed", "ending"} /\ Live(s)
  /\ Leave(s)
  /\ UNCHANGED <<rowVars, txnVars, requestVars, faultVars>>

Run(s) == MarkRunning(s) \/ Complete(s) \/ Requeue(s) \/ DeadLetter(s) \/ Finish(s)

\* executeJob throws outside its inner try block: the slot is freed, the row
\* keeps its status.
Abandon(s) ==
  /\ Working(s)
  /\ QueryFails
  /\ Leave(s)
  /\ UNCHANGED <<rowVars, txnVars, requestVars, dead>>

\* The same, when another process has the job's lock, which it may keep until
\* the end of its execution, or may have left behind when it died.
Skip(s) ==
  /\ stage[s] = "claimed" /\ Live(s)
  /\ \E t \in Slots : SlotWorker[t] # SlotWorker[s] /\ job[t] = job[s]
  /\ Leave(s)
  /\ UNCHANGED <<rowVars, txnVars, requestVars, faultVars>>
-----------------------------------------------------------------------------
(* What the rest of the server does to the rows meanwhile. *)

\* Mutant: a job may be reset in any status.
CheckResetAnyStatus(r, j) ==
  /\ at[r] = "new"
  /\ at' = [at EXCEPT ![r] = "reset"]
  /\ target' = [target EXCEPT ![r] = j]
  /\ UNCHANGED <<rowVars, txnVars, slotVars, letters, faultVars>>

\* POST /jobs/:id/retry reads the job's status, POST /dlq/:id/replay a row of
\* dead_letter_queue (which JobExecution also deletes); the UPDATE is sent
\* later, and looks at neither.
CheckReset(r, j) ==
  /\ at[r] = "new"
  /\ status[j] \in {"failed", "dead_letter"} \/ j \in letters
  /\ at' = [at EXCEPT ![r] = "reset"]
  /\ target' = [target EXCEPT ![r] = j]
  /\ UNCHANGED <<rowVars, txnVars, slotVars, letters, faultVars>>

ApplyReset(r) ==
  /\ at[r] = "reset" /\ RowFree(target[r])
  /\ AC!Reset(target[r])
  /\ at' = [at EXCEPT ![r] = "done"]
  /\ UNCHANGED <<target, letters, txnVars, slotVars, faultVars>>

\* INSERT INTO jobs checks the foreign key to its queue, and so waits for a
\* transaction that holds the queue's row.
Insert(j) == /\ Unlocked(QueueOf[j])
             /\ AC!InsertJob(j)
             /\ UNCHANGED <<txnVars, restVars>>

Release(j) == AC!ReleaseJob(j) /\ UNCHANGED <<txnVars, restVars>>

Cancel(j) == /\ RowFree(j)
             /\ AC!CancelJob(j)
             /\ UNCHANGED <<txnVars, restVars>>

Patch(q) == /\ Unlocked(q)
            /\ \E l \in Limits, p \in BOOLEAN, s \in Shards :
                 AC!PatchQueue(q, l, p, s)
            /\ UNCHANGED <<txnVars, restVars>>

Tick == AC!Tick /\ UNCHANGED <<txnVars, restVars>>

ClaimStep(w) == \/ Begin(w) \/ LockQueue(w) \/ CountQueue(w)
                \/ NothingEligible(w) \/ ClaimUpdate(w) \/ Commit(w)

Next ==
  \/ \E w \in Workers : \/ ClaimStep(w) \/ Rollback(w)
                        \/ CommitAnswerLost(w) \/ Crash(w)
  \/ \E s \in Slots : Run(s) \/ Abandon(s) \/ Skip(s)
  \/ \E r \in Requests : ApplyReset(r) \/ \E j \in Jobs : CheckReset(r, j)
  \/ \E j \in Jobs : Insert(j) \/ Release(j) \/ Cancel(j)
  \/ \E q \in Queues : Patch(q)
  \/ Tick

Spec == Init /\ [][Next]_vars

(* A process that is alive executes its next statement; PostgreSQL serves
   the waiters of a row in turn, so a worker whose row is free again and
   again gets it; an execution ends; time passes. *)
Fairness ==
  /\ \A w \in Workers : WF_vars(ClaimStep(w)) /\ SF_vars(LockQueue(w))
  /\ \A s \in Slots : WF_vars(Run(s))
  /\ WF_vars(Tick)

FairSpec == Spec /\ Fairness
-----------------------------------------------------------------------------
(* What a manual retry or a replay has read is still so when its UPDATE comes:
   the job has failed for good.  The code does not make sure; one request
   about a job at a time is enough. *)
FreshResets ==
  \A r \in Requests : at[r] = "reset" => status[target[r]] \in {"failed", "dead_letter"}

(* While resets are fresh, no job is at work in two slots, of one process or
   of two, up to the statement by which an execution lets go of it; and until
   then the database has it as that execution left it (claimer.ts "prevents
   duplicate claims across concurrent workers"). *)
OneHolder ==
  \A s \in Slots : Working(s) =>
    /\ owner[job[s]] = SlotWorker[s] /\ status[job[s]] = stage[s]
    /\ \A t \in Slots \ {s} : Working(t) => job[t] # job[s]

(* Between the count and the COMMIT the queue of a job being claimed has
   stayed unpaused and below its limit, whatever PATCH requests, inserts,
   executions, other claims and fresh resets ran meanwhile (claimer.ts
   "serializing via queue-level FOR UPDATE locks"). *)
EligibleStaysTrue ==
  \A w \in Workers : \A q \in eligible[w] :
    AC!Matches(w, q) /\ ~paused[q] /\ AC!Active(q) < limit[q]

(* What makes the two hold, whatever is reset: a transaction owns the rows it
   has read, took them in the order of id, and has chosen a job that is still
   queued; a process without a transaction owns nothing. *)
OwnsWhatItRead ==
  \A w \in Workers :
    /\ rows[w] \cup eligible[w] \subseteq HeldBy(w)
    /\ \A q \in rows[w] : AC!Matches(w, q)
LockOrder ==
  \A w \in Workers : \A q \in HeldBy(w), r \in snapshot[w] : q < r
PickIsGood ==
  \A w \in Workers : picked[w] # NoJob =>
    /\ status[picked[w]] = "queued"
    /\ runAt[picked[w]] <= txnNow[w]
    /\ QueueOf[picked[w]] \in eligible[w]
IdleIsClean ==
  \A w \in Workers :
    /\ pc[w] = "idle" => /\ HeldBy(w) = {} /\ snapshot[w] = {}
                         /\ rows[w] = {} /\ eligible[w] = {}
    /\ picked[w] # NoJob => pc[w] = "committing"
    /\ txnNow[w] <= clock
LocksInv == TypeOK /\ OwnsWhatItRead /\ LockOrder /\ PickIsGood /\ IdleIsClean
ClaimInv == LocksInv /\ OneHolder /\ EligibleStaysTrue

(* No set of claims waits for one another in a circle ("sorting queues by ID
   before locking prevents deadlocks"). *)
WaitsFor(w, v) ==
  /\ pc[w] = "open"
  /\ \E q \in snapshot[w] : (\A r \in snapshot[w] : q <= r) /\ rowLock[q] = v
NoWaitCycle ==
  \A W \in (SUBSET Workers) \ {{}} :
    \E w \in W : \A v \in W : ~WaitsFor(w, v)

(* Admitting a job never takes a queue above its concurrency limit (README
   "strict concurrency limit"); PATCH may lower the limit below what already
   runs. *)
NoOverAdmission ==
  [][\A q \in Queues :
       AC!Active(q)' > AC!Active(q) => AC!Active(q)' <= limit'[q]]_vars

(* Every claim is the atomic one of AtomicClaim, whose other writers need not
   be in step with it. *)
ClaimIsAtomic == AC!Spec

(* A queued job that a live worker could take is not passed over for ever
   (README "guaranteed job pickup"), unless a slot of its queue is taken by
   a job that no execution is at work on any more. *)
Stranded(q) == \E j \in AC!ActiveJobs(q) : \A s \in Slots : Working(s) => job[s] # j
Servable(j) ==
  LET q == QueueOf[j] IN
    /\ ~paused[q] /\ limit[q] > 0 /\ ~Stranded(q)
    /\ \E w \in Workers \ dead : AC!Matches(w, q)
Pickup == \A j \in Jobs : ~<>[](status[j] = "queued" /\ Servable(j))

(* claimNextJob returns, or dies with its process. *)
ClaimReturns == \A w \in Workers : pc[w] # "idle" ~> pc[w] = "idle"
=============================================================================
