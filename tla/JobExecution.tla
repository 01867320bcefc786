---------------------------- MODULE JobExecution ----------------------------
(***************************************************************************)
(* executeJob of src/server/src/engine/executor.ts, one statement a step,  *)
(* under the per-job lock, with what the operator may do meanwhile:        *)
(* POST /jobs/:id/retry and POST /dlq/:id/replay, each a read, a check and *)
(* later writes, and the cancellation of the job's batch.                  *)
(*                                                                         *)
(* A slot is one of the executions a worker process can run at once.  The  *)
(* claim itself is atomic here (ClaimTransaction shows that it is) and     *)
(* free of limits and shards; of times it keeps only Due.                  *)
(***************************************************************************)
EXTENDS Integers, Sequences, FiniteSets

CONSTANTS
  Jobs, Workers,
  Slots, SlotWorker,   \* execution slots and the process each belongs to
  MaxAttempts,         \* jobs.max_attempts
  Retries, Replays,    \* requests an operator makes, each of them once
  NoJob, NoWorker,
  QuickRelease,        \* TRUE: see Due
  MaxErrors,           \* bound on queries that throw
  MaxCrashes,          \* bound on worker processes that die
  MaxOverruns          \* bound on executions that outlast their lock's TTL

ASSUME SlotsAssumption == SlotWorker \in [Slots -> Workers]
ASSUME JobsAssumption ==
  NoJob \notin Jobs /\ MaxAttempts \in [Jobs -> Nat \ {0}]
ASSUME WorkersAssumption == NoWorker \notin Workers
ASSUME RequestsAssumption == Retries \cap Replays = {}
ASSUME FiniteAssumption == IsFiniteSet(Retries) /\ IsFiniteSet(Replays)
ASSUME BoundsAssumption ==
  QuickRelease \in BOOLEAN /\ MaxErrors \in Nat /\ MaxCrashes \in Nat /\ MaxOverruns \in Nat

VARIABLES
  status, attempts, owner,  \* jobs.status, jobs.attempts, jobs.worker_id
  executions,  \* job_executions.status of each job's rows, oldest first
  dlq,         \* ids of each job's rows in dead_letter_queue
  buried,      \* rows ever inserted there, the source of ids
  holder, expired,     \* the locks "job:<id>"
  pc, job, attempt,    \* of each slot: where executeJob is, its job, attemptNumber
  row,                 \* and the index of its row in executions
  at, target, entry,   \* of each request: where it is, its job, the DLQ row it read
  dead,                \* processes that died
  errors, overruns

jobVars == <<status, attempts, owner>>
tableVars == <<executions, dlq, buried>>
lockVars == <<holder, expired>>
slotVars == <<pc, job, attempt, row>>
requestVars == <<at, target, entry>>
faultVars == <<dead, errors, overruns>>
vars == <<jobVars, tableVars, lockVars, slotVars, requestVars, faultVars>>

L == INSTANCE DistributedLock WITH Keys <- Jobs, Owners <- Workers, NoOwner <- NoWorker

Requests == Retries \cup Replays
Statuses == {"queued", "claimed", "running", "completed", "failed", "dead_letter"}

\* Where executeJob can be: the steps taken under the lock are Inside.
Working == {"mark", "record", "handler", "complete", "finish", "announce",
            "failed", "decide", "bury"}
Inside == Working \cup {"release"}
PCs == {"idle", "acquire"} \cup Inside

TypeOK ==
  /\ status \in [Jobs -> Statuses]
  /\ attempts \in [Jobs -> Nat]
  /\ owner \in [Jobs -> Workers \cup {NoWorker}]
  /\ executions \in [Jobs -> Seq({"running", "completed", "failed"})]
  /\ dlq \in [Jobs -> SUBSET Nat]
  /\ buried \in [Jobs -> Nat]
  /\ L!LockTypeOK
  /\ pc \in [Slots -> PCs]
  /\ job \in [Slots -> Jobs \cup {NoJob}]
  /\ \A s \in Slots : pc[s] # "idle" => job[s] \in Jobs
  /\ attempt \in [Slots -> Nat]
  /\ row \in [Slots -> Nat]
  /\ at \in [Requests -> {"new", "retry", "reset", "delete", "done"}]
  /\ target \in [Requests -> Jobs \cup {NoJob}]
  /\ \A r \in Requests : at[r] \in {"retry", "reset", "delete"} => target[r] \in Jobs
  /\ entry \in [Requests -> Nat]
  /\ dead \in SUBSET Workers
  /\ errors \in 0 .. MaxErrors
  /\ overruns \in 0 .. MaxOverruns

Init ==
  /\ status = [j \in Jobs |-> "queued"]
  /\ attempts = [j \in Jobs |-> 0]
  /\ owner = [j \in Jobs |-> NoWorker]
  /\ executions = [j \in Jobs |-> <<>>]
  /\ dlq = [j \in Jobs |-> {}]
  /\ buried = [j \in Jobs |-> 0]
  /\ L!LockInit
  /\ pc = [s \in Slots |-> "idle"]
  /\ job = [s \in Slots |-> NoJob]
  /\ attempt = [s \in Slots |-> 0]
  /\ row = [s \in Slots |-> 0]
  /\ at = [r \in Requests |-> "new"]
  /\ target = [r \in Requests |-> NoJob]
  /\ entry = [r \in Requests |-> 0]
  /\ dead = {} /\ errors = 0 /\ overruns = 0
-----------------------------------------------------------------------------
(* The execution in slot s. *)

Live(s) == SlotWorker[s] \notin dead
At(s, here) == pc[s] = here /\ Live(s)

Goto(s, there) == /\ pc' = [pc EXCEPT ![s] = there]
                  /\ UNCHANGED <<job, attempt, row>>

\* executeJob returns: the poll loop's slot is free again.
Leave(s) == /\ pc' = [pc EXCEPT ![s] = "idle"]
            /\ job' = [job EXCEPT ![s] = NoJob]
            /\ attempt' = [attempt EXCEPT ![s] = 0]
            /\ row' = [row EXCEPT ![s] = 0]

\* UPDATE jobs SET status = v WHERE id = the slot's job, whatever it was.
SetStatus(s, v) == status' = [status EXCEPT ![job[s]] = v]

SetExecution(s, v) ==
  executions' = [executions EXCEPT ![job[s]][row[s]] = v]

\* run_at <= now().  A job may be due again while the execution that put it
\* back, or buried it, is still on its way to its release (the events, logs
\* and batch callback in between take their time); QuickRelease supposes that
\* those always end first.
Due(j) == QuickRelease =>
            ~ \E t \in Slots : job[t] = j /\ pc[t] \in {"bury", "release"} /\ Live(t)

Claim(s, j) ==
  /\ At(s, "idle")
  /\ status[j] = "queued" /\ Due(j)
  /\ status' = [status EXCEPT ![j] = "claimed"]
  /\ owner' = [owner EXCEPT ![j] = SlotWorker[s]]
  /\ pc' = [pc EXCEPT ![s] = "acquire"]
  /\ job' = [job EXCEPT ![s] = j]
  /\ attempt' = [attempt EXCEPT ![s] = attempts[j] + 1]
  /\ UNCHANGED <<attempts, row, tableVars, lockVars, requestVars, faultVars>>

AcquireLock(s) ==
  /\ At(s, "acquire")
  /\ L!Acquire(job[s], SlotWorker[s])
  /\ Goto(s, "mark")
  /\ UNCHANGED <<jobVars, tableVars, requestVars, faultVars>>

\* Mutant: the release is in a finally block that the early return runs too,
\* and deletes the row whoever owns it.
SkipReleasesLock(s) ==
  /\ At(s, "acquire")
  /\ ~L!CanAcquire(job[s], SlotWorker[s])
  /\ holder' = [holder EXCEPT ![job[s]] = NoWorker]
  /\ expired' = expired \ {job[s]}
  /\ Leave(s)
  /\ UNCHANGED <<jobVars, tableVars, requestVars, faultVars>>

\* "Job execution skipped because distributed lock is held".
SkipExecution(s) ==
  /\ At(s, "acquire")
  /\ ~L!CanAcquire(job[s], SlotWorker[s])
  /\ Leave(s)
  /\ UNCHANGED <<jobVars, tableVars, lockVars, requestVars, faultVars>>

MarkRunning(s) ==
  /\ At(s, "mark")
  /\ SetStatus(s, "running")
  /\ attempts' = [attempts EXCEPT ![job[s]] = attempt[s]]
  /\ Goto(s, "record")
  /\ UNCHANGED <<owner, tableVars, lockVars, requestVars, faultVars>>

RecordExecution(s) ==
  /\ At(s, "record")
  /\ executions' = [executions EXCEPT ![job[s]] = Append(@, "running")]
  /\ row' = [row EXCEPT ![s] = Len(executions[job[s]]) + 1]
  /\ pc' = [pc EXCEPT ![s] = "handler"]
  /\ UNCHANGED <<job, attempt, jobVars, dlq, buried, lockVars, requestVars, faultVars>>

\* Mutant: a handler's exception reaches the finally block only.
HandlerErrorUncaught(s) ==
  /\ At(s, "handler")
  /\ \E next \in {"complete", "release"} : Goto(s, next)
  /\ UNCHANGED <<jobVars, tableVars, lockVars, requestVars, faultVars>>

\* The handler returns a result or throws.
RunJobHandler(s) ==
  /\ At(s, "handler")
  /\ \E next \in {"complete", "failed"} : Goto(s, next)
  /\ UNCHANGED <<jobVars, tableVars, lockVars, requestVars, faultVars>>

MarkCompleted(s) ==
  /\ At(s, "complete")
  /\ SetStatus(s, "completed")
  /\ Goto(s, "finish")
  /\ UNCHANGED <<attempts, owner, tableVars, lockVars, requestVars, faultVars>>

FinishExecution(s) ==
  /\ At(s, "finish")
  /\ SetExecution(s, "completed")
  /\ Goto(s, "announce")
  /\ UNCHANGED <<jobVars, dlq, buried, lockVars, requestVars, faultVars>>

\* The event, the dependent jobs and the batch, all inside the try block.
Announce(s) ==
  /\ At(s, "announce")
  /\ Goto(s, "release")
  /\ UNCHANGED <<jobVars, tableVars, lockVars, requestVars, faultVars>>

\* The catch block.
RecordFailure(s) ==
  /\ At(s, "failed")
  /\ SetExecution(s, "failed")
  /\ Goto(s, "decide")
  /\ UNCHANGED <<jobVars, dlq, buried, lockVars, requestVars, faultVars>>

\* Mutants: an off-by-one in the attempts, and a retry that only clears
\* worker_id and run_at.
RetryOnceMore(s) ==
  /\ At(s, "decide")
  /\ attempt[s] <= MaxAttempts[job[s]]
  /\ SetStatus(s, "queued")
  /\ owner' = [owner EXCEPT ![job[s]] = NoWorker]
  /\ Goto(s, "release")
  /\ UNCHANGED <<attempts, tableVars, lockVars, requestVars, faultVars>>
RetryKeepsStatus(s) ==
  /\ At(s, "decide")
  /\ attempt[s] < MaxAttempts[job[s]]
  /\ owner' = [owner EXCEPT ![job[s]] = NoWorker]
  /\ Goto(s, "release")
  /\ UNCHANGED <<status, attempts, tableVars, lockVars, requestVars, faultVars>>

ScheduleRetry(s) ==
  /\ At(s, "decide")
  /\ attempt[s] < MaxAttempts[job[s]]
  /\ SetStatus(s, "queued")
  /\ owner' = [owner EXCEPT ![job[s]] = NoWorker]
  /\ Goto(s, "release")
  /\ UNCHANGED <<attempts, tableVars, lockVars, requestVars, faultVars>>

\* Mutant: no row for the dead letter queue.
MarkDeadLetterOnly(s) ==
  /\ At(s, "decide")
  /\ attempt[s] >= MaxAttempts[job[s]]
  /\ SetStatus(s, "dead_letter")
  /\ Goto(s, "release")
  /\ UNCHANGED <<attempts, owner, tableVars, lockVars, requestVars, faultVars>>

MarkDeadLetter(s) ==
  /\ At(s, "decide")
  /\ attempt[s] >= MaxAttempts[job[s]]
  /\ SetStatus(s, "dead_letter")
  /\ Goto(s, "bury")
  /\ UNCHANGED <<attempts, owner, tableVars, lockVars, requestVars, faultVars>>

InsertDeadLetter(s) ==
  /\ At(s, "bury")
  /\ buried' = [buried EXCEPT ![job[s]] = @ + 1]
  /\ dlq' = [dlq EXCEPT ![job[s]] = @ \cup {buried'[job[s]]}]
  /\ Goto(s, "release")
  /\ UNCHANGED <<executions, jobVars, lockVars, requestVars, faultVars>>

ReleaseLock(s) ==
  /\ At(s, "release")
  /\ L!Release(job[s], SlotWorker[s])
  /\ Leave(s)
  /\ UNCHANGED <<jobVars, tableVars, requestVars, faultVars>>

Step(s) ==
  \/ AcquireLock(s) \/ SkipExecution(s) \/ MarkRunning(s) \/ RecordExecution(s)
  \/ RunJobHandler(s) \/ MarkCompleted(s) \/ FinishExecution(s) \/ Announce(s)
  \/ RecordFailure(s) \/ ScheduleRetry(s) \/ MarkDeadLetter(s)
  \/ InsertDeadLetter(s) \/ ReleaseLock(s)
-----------------------------------------------------------------------------
(* Failures. *)

\* A query throws: inside the inner try its catch block takes over, inside the
\* outer one only its finally block, and elsewhere executeJob rejects.
OnError == [acquire |-> "idle", mark |-> "release", record |-> "release",
            complete |-> "failed", finish |-> "failed", announce |-> "failed",
            failed |-> "release", decide |-> "release", bury |-> "release",
            release |-> "idle"]

QueryFails(s) ==
  /\ Live(s) /\ pc[s] \in DOMAIN OnError
  /\ errors < MaxErrors /\ errors' = errors + 1
  /\ IF OnError[pc[s]] = "idle" THEN Leave(s) ELSE Goto(s, OnError[pc[s]])
  /\ UNCHANGED <<jobVars, tableVars, lockVars, requestVars, dead, overruns>>

Crash(w) ==
  /\ w \notin dead /\ Cardinality(dead) < MaxCrashes
  /\ dead' = dead \cup {w}
  /\ UNCHANGED <<jobVars, tableVars, lockVars, slotVars, requestVars, errors, overruns>>

\* Ten minutes pass.  A lock whose execution goes on is an overrun.
Overrun(j) == \E s \in Slots : pc[s] \in Inside /\ Live(s) /\ job[s] = j
ExpireLock(j) ==
  /\ L!Expire(j)
  /\ IF Overrun(j) THEN overruns < MaxOverruns /\ overruns' = overruns + 1
                   ELSE UNCHANGED overruns
  /\ UNCHANGED <<jobVars, tableVars, slotVars, requestVars, dead, errors>>
-----------------------------------------------------------------------------
(* The operator. *)

Request(r, there, j, e) == /\ at[r] = "new"
                           /\ at' = [at EXCEPT ![r] = there]
                           /\ target' = [target EXCEPT ![r] = j]
                           /\ entry' = [entry EXCEPT ![r] = e]
Proceed(r, there) == at' = [at EXCEPT ![r] = there] /\ UNCHANGED <<target, entry>>

\* UPDATE jobs SET status = 'queued', worker_id = NULL, attempts = 0, in both.
ResetJob(j) == /\ status' = [status EXCEPT ![j] = "queued"]
               /\ attempts' = [attempts EXCEPT ![j] = 0]
               /\ owner' = [owner EXCEPT ![j] = NoWorker]

\* Mutant: a job may be retried in any status.
CheckRetryAnyStatus(r, j) ==
  /\ r \in Retries
  /\ Request(r, "retry", j, 0)
  /\ UNCHANGED <<jobVars, tableVars, lockVars, slotVars, faultVars>>

CheckRetry(r, j) ==
  /\ r \in Retries
  /\ status[j] \in {"failed", "dead_letter"}
  /\ Request(r, "retry", j, 0)
  /\ UNCHANGED <<jobVars, tableVars, lockVars, slotVars, faultVars>>

ApplyRetry(r) ==
  /\ at[r] = "retry"
  /\ ResetJob(target[r])
  /\ Proceed(r, "done")
  /\ UNCHANGED <<tableVars, lockVars, slotVars, faultVars>>

FindDeadLetter(r, j) ==
  /\ r \in Replays
  /\ \E e \in dlq[j] : Request(r, "reset", j, e)
  /\ UNCHANGED <<jobVars, tableVars, lockVars, slotVars, faultVars>>

ApplyReplay(r) ==
  /\ at[r] = "reset"
  /\ ResetJob(target[r])
  /\ Proceed(r, "delete")
  /\ UNCHANGED <<tableVars, lockVars, slotVars, faultVars>>

DeleteDeadLetter(r) ==
  /\ at[r] = "delete"
  /\ dlq' = [dlq EXCEPT ![target[r]] = @ \ {entry[r]}]
  /\ Proceed(r, "done")
  /\ UNCHANGED <<executions, buried, jobVars, lockVars, slotVars, faultVars>>

\* Mutant: every job of the batch that has not finished is cancelled.
CancelUnfinished(j) ==
  /\ status[j] \notin {"completed", "failed", "dead_letter"}
  /\ status' = [status EXCEPT ![j] = "failed"]
  /\ UNCHANGED <<attempts, owner, tableVars, lockVars, slotVars, requestVars, faultVars>>

\* POST /batches/:id/cancel on the job's batch.
CancelJob(j) ==
  /\ status[j] = "queued"
  /\ status' = [status EXCEPT ![j] = "failed"]
  /\ UNCHANGED <<attempts, owner, tableVars, lockVars, slotVars, requestVars, faultVars>>

Next ==
  \/ \E s \in Slots : \/ \E j \in Jobs : Claim(s, j)
                      \/ Step(s) \/ QueryFails(s)
  \/ \E w \in Workers : Crash(w)
  \/ \E j \in Jobs : ExpireLock(j) \/ CancelJob(j)
  \/ \E r \in Requests : \/ \E j \in Jobs : CheckRetry(r, j) \/ FindDeadLetter(r, j)
                         \/ ApplyRetry(r) \/ ApplyReplay(r) \/ DeleteDeadLetter(r)

Spec == Init /\ [][Next]_vars

(* A live process takes its next step, a handler ends (each kind has a
   timeout or a duration), a live process with a free slot keeps polling, and
   a request that has been accepted is carried out. *)
Fairness ==
  /\ \A s \in Slots : WF_vars(Step(s)) /\ WF_vars(\E j \in Jobs : Claim(s, j))
  /\ \A r \in Requests : WF_vars(ApplyRetry(r) \/ ApplyReplay(r) \/ DeleteDeadLetter(r))

FairSpec == Spec /\ Fairness
-----------------------------------------------------------------------------
(* One execution of a job at a time, from the acquisition of its lock to the
   last write under it (executor.ts "second line of defense against duplicate
   execution"). *)
MutualExclusion ==
  \A s, t \in Slots :
    s # t /\ pc[s] \in Working /\ pc[t] \in Working /\ Live(s) /\ Live(t)
      => job[s] # job[t]

(* A live execution under way owns its job's lock. *)
HoldsLock ==
  \A s \in Slots : pc[s] \in Inside /\ Live(s) =>
    holder[job[s]] = SlotWorker[s] /\ job[s] \notin expired

(* A claimed or running job is in the hands of a live execution: nothing else
   will ever move it (no part of the server looks for stranded jobs). *)
NoOrphan ==
  \A j \in Jobs : status[j] \in {"claimed", "running"} =>
    \E s \in Slots : job[s] = j /\ pc[s] # "idle" /\ Live(s)

(* A job succeeds at most once. *)
SucceedsOnce ==
  \A j \in Jobs :
    Cardinality({i \in DOMAIN executions[j] : executions[j][i] = "completed"}) <= 1

(* A job runs at most max_attempts times for each time it was put back to
   zero by an operator. *)
Resets(j) ==
  {r \in Requests : target[r] = j /\ at[r] \in {"delete", "done"}}
AttemptBudget ==
  \A j \in Jobs : Len(executions[j]) <= MaxAttempts[j] * (1 + Cardinality(Resets(j)))

(* A job in status dead_letter has a row in the dead letter queue (README
   "Jobs exceeding max_attempts land in dead_letter_queue"), but for the
   moment between the two statements of a live execution. *)
DeadLetterHasEntry ==
  \A j \in Jobs : status[j] = "dead_letter" =>
    \/ dlq[j] # {}
    \/ \E s \in Slots : job[s] = j /\ pc[s] = "bury" /\ Live(s)

(* The types, and a dead letter for each buried job, in every state. *)
ExecutionInv == TypeOK /\ DeadLetterHasEntry

(* A status changes along the arrows of the diagram in docs/architecture.md;
   "failed" is the state batch cancellation adds to it. *)
Lifecycle == {<<"queued", "claimed">>, <<"claimed", "running">>,
              <<"running", "completed">>, <<"running", "queued">>,
              <<"running", "dead_letter">>, <<"dead_letter", "queued">>,
              <<"queued", "failed">>, <<"failed", "queued">>}
FollowsLifecycle ==
  [][\A j \in Jobs : status'[j] # status[j] => <<status[j], status'[j]>> \in Lifecycle]_vars

(* Every queued job comes to an end. *)
Settles ==
  \A j \in Jobs :
    status[j] = "queued" ~> status[j] \in {"completed", "dead_letter", "failed"}
=============================================================================
