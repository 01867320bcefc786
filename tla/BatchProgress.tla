---------------------------- MODULE BatchProgress ----------------------------
(***************************************************************************)
(* One batch: its creation by POST /queues/:queueId/jobs, one INSERT after *)
(* another (modules/jobs/jobs.routes.ts); updateBatchProgress of           *)
(* engine/executor.ts, which the executor of each job runs after the job   *)
(* has ended, as a count, a judgement and a callback; the cancellation of  *)
(* the batch (modules/batches/batches.routes.ts) and manual retries.       *)
(*                                                                         *)
(* Of an execution this module keeps its outcome and what follows it, with *)
(* one execution of a job at a time; JobExecution has the rest: the locks, *)
(* and the job that is claimed before the last execution of it has let go  *)
(* of its lock, which is executed no more.                                 *)
(***************************************************************************)
EXTENDS Integers, FiniteSets

CONSTANTS
  Total,        \* batch_jobs.length
  Conflicts,    \* the positions whose idempotency key may be taken already
  MaxAttempts,  \* jobs.max_attempts
  MaxResets,    \* bound on POST /jobs/:id/retry
  MaxErrors,    \* bound on queries that throw in updateBatchProgress
  MaxCrashes    \* bound on executors that die

ASSUME TotalAssumption == Total \in Nat \ {0} /\ Conflicts \subseteq 1 .. Total
ASSUME BoundsAssumption ==
  /\ MaxAttempts \in Nat \ {0}
  /\ MaxResets \in Nat /\ MaxErrors \in Nat /\ MaxCrashes \in Nat

VARIABLES
  creation,   \* where the request is
  inserted,   \* jobs inserted so far
  batchStatus, completed, failed,  \* the row of batches
  status, attempts,                \* of each job
  pc,         \* where each job's execution is
  outcome,    \* and what it has come to
  seen,       \* completed_jobs and failed_jobs as the count returned them
  cancel,     \* where the cancellation is
  callbacks,  \* statuses sent to callback_url, how often each
  ends,       \* times a job was marked completed or dead_letter
  uncounted,  \* of these, the ones whose executor never counted them
  resets, errors, crashes

batchVars == <<batchStatus, completed, failed>>
jobVars == <<status, attempts>>
executionVars == <<pc, outcome, seen>>
historyVars == <<callbacks, ends, uncounted>>
boundVars == <<resets, errors, crashes>>
vars == <<creation, inserted, batchVars, jobVars, executionVars, cancel,
          historyVars, boundVars>>

Jobs == 1 .. Total
JobStatuses == {"absent", "queued", "running", "completed", "failed", "dead_letter"}

TypeOK ==
  /\ creation \in {"new", "inserting", "created", "refused"}
  /\ inserted \in 0 .. Total
  /\ batchStatus \in {"absent", "processing", "completed", "failed", "cancelled"}
  /\ completed \in Nat /\ failed \in Nat
  /\ status \in [Jobs -> JobStatuses]
  /\ attempts \in [Jobs -> 0 .. MaxAttempts]
  /\ pc \in [Jobs -> {"none", "run", "count", "judge", "call"}]
  /\ outcome \in [Jobs -> {"none", "completed", "failed"}]
  /\ seen \in [Jobs -> [completed : Nat, failed : Nat]]
  /\ cancel \in {"none", "jobs", "done"}
  /\ callbacks \in [{"completed", "failed"} -> Nat]
  /\ ends \in Nat /\ uncounted \in Nat
  /\ resets \in 0 .. MaxResets /\ errors \in 0 .. MaxErrors /\ crashes \in 0 .. MaxCrashes

Nothing == [completed |-> 0, failed |-> 0]

Init ==
  /\ creation = "new" /\ inserted = 0
  /\ batchStatus = "absent" /\ completed = 0 /\ failed = 0
  /\ status = [j \in Jobs |-> "absent"]
  /\ attempts = [j \in Jobs |-> 0]
  /\ pc = [j \in Jobs |-> "none"]
  /\ outcome = [j \in Jobs |-> "none"]
  /\ seen = [j \in Jobs |-> Nothing]
  /\ cancel = "none"
  /\ callbacks = Nothing
  /\ ends = 0 /\ uncounted = 0
  /\ resets = 0 /\ errors = 0 /\ crashes = 0
-----------------------------------------------------------------------------
(* The request.  Jobs can be claimed while later ones are still inserted. *)

InsertBatch ==
  /\ creation = "new"
  /\ creation' = "inserting"
  /\ batchStatus' = "processing"
  /\ UNCHANGED <<inserted, completed, failed, jobVars, executionVars, cancel,
                 historyVars, boundVars>>

InsertJob ==
  /\ creation = "inserting" /\ inserted < Total
  /\ inserted' = inserted + 1
  /\ status' = [status EXCEPT ![inserted'] = "queued"]
  /\ UNCHANGED <<creation, batchVars, attempts, executionVars, cancel,
                 historyVars, boundVars>>

\* 409; the batch and the jobs before the conflict stay.
Refuse ==
  /\ creation = "inserting" /\ inserted + 1 \in Conflicts
  /\ creation' = "refused"
  /\ UNCHANGED <<inserted, batchVars, jobVars, executionVars, cancel,
                 historyVars, boundVars>>

Respond ==
  /\ creation = "inserting" /\ inserted = Total
  /\ creation' = "created"
  /\ UNCHANGED <<inserted, batchVars, jobVars, executionVars, cancel,
                 historyVars, boundVars>>

Create == InsertBatch \/ InsertJob \/ Refuse \/ Respond
-----------------------------------------------------------------------------
(* The executions. *)

Start(j) ==
  /\ status[j] = "queued" /\ pc[j] = "none"
  /\ status' = [status EXCEPT ![j] = "running"]
  /\ attempts' = [attempts EXCEPT ![j] = @ + 1]
  /\ pc' = [pc EXCEPT ![j] = "run"]
  /\ UNCHANGED <<creation, inserted, batchVars, outcome, seen, cancel,
                 historyVars, boundVars>>

\* The job is marked; updateBatchProgress comes next.
End(j, s, o) ==
  /\ status' = [status EXCEPT ![j] = s]
  /\ pc' = [pc EXCEPT ![j] = "count"]
  /\ outcome' = [outcome EXCEPT ![j] = o]
  /\ ends' = ends + 1
  /\ UNCHANGED <<attempts, seen>>

Leave(j) == /\ pc' = [pc EXCEPT ![j] = "none"]
            /\ outcome' = [outcome EXCEPT ![j] = "none"]
            /\ seen' = [seen EXCEPT ![j] = Nothing]

\* The catch block: another attempt, or the dead letter queue.
HandleFailure(j) ==
  \/ /\ attempts[j] < MaxAttempts
     /\ status' = [status EXCEPT ![j] = "queued"]
     /\ Leave(j)
     /\ UNCHANGED <<attempts, ends>>
  \/ attempts[j] >= MaxAttempts /\ End(j, "dead_letter", "failed")

Execute(j) ==
  /\ pc[j] = "run"
  /\ End(j, "completed", "completed") \/ HandleFailure(j)
  /\ UNCHANGED <<creation, inserted, batchVars, cancel, callbacks, uncounted, boundVars>>

\* Mutant: dead-lettered jobs are not counted.
CountCompleted(j) ==
  /\ pc[j] = "count"
  /\ completed' = completed + (IF outcome[j] = "completed" THEN 1 ELSE 0)
  /\ seen' = [seen EXCEPT ![j] = [completed |-> completed', failed |-> failed]]
  /\ pc' = [pc EXCEPT ![j] = "judge"]
  /\ UNCHANGED <<creation, inserted, batchStatus, failed, jobVars, outcome, cancel,
                 historyVars, boundVars>>

\* UPDATE batches ... RETURNING *, one atomic statement.
Count(j) ==
  /\ pc[j] = "count"
  /\ completed' = completed + (IF outcome[j] = "completed" THEN 1 ELSE 0)
  /\ failed' = failed + (IF outcome[j] = "completed" THEN 0 ELSE 1)
  /\ seen' = [seen EXCEPT ![j] = [completed |-> completed', failed |-> failed']]
  /\ pc' = [pc EXCEPT ![j] = "judge"]
  /\ UNCHANGED <<creation, inserted, batchStatus, jobVars, outcome, cancel,
                 historyVars, boundVars>>

\* Mutants: the jobs inserted so far instead of total_jobs, the counters read
\* again instead of RETURNING, and an off-by-one.
AllInsertedDone(j) == seen[j].completed + seen[j].failed >= inserted
AllDoneByNow(j) == completed + failed >= Total
AllDoneAndMore(j) == seen[j].completed + seen[j].failed > Total

AllDone(j) == seen[j].completed + seen[j].failed >= Total

FinalStatus(j) == IF seen[j].failed > 0 THEN "failed" ELSE "completed"

Judge(j) ==
  /\ pc[j] = "judge"
  /\ \/ /\ AllDone(j)
        /\ batchStatus' = FinalStatus(j)
        /\ pc' = [pc EXCEPT ![j] = "call"]
        /\ UNCHANGED <<outcome, seen>>
     \/ /\ ~AllDone(j)
        /\ Leave(j)
        /\ UNCHANGED batchStatus
  /\ UNCHANGED <<creation, inserted, completed, failed, jobVars, cancel,
                 historyVars, boundVars>>

\* The POST to callback_url; its errors are caught and logged.
Callback(j) ==
  /\ pc[j] = "call"
  /\ callbacks' = [callbacks EXCEPT ![FinalStatus(j)] = @ + 1]
  /\ Leave(j)
  /\ UNCHANGED <<creation, inserted, batchVars, jobVars, cancel, ends, uncounted, boundVars>>

\* A query of updateBatchProgress throws.  For a job that has been completed
\* this is inside executeJob's try block, and so a failure of the job.
UpdateFails(j) ==
  /\ pc[j] \in {"count", "judge", "call"}
  /\ errors < MaxErrors /\ errors' = errors + 1
  /\ uncounted' = uncounted + (IF pc[j] = "count" THEN 1 ELSE 0)
  /\ IF outcome[j] = "completed" THEN HandleFailure(j)
                                 ELSE Leave(j) /\ UNCHANGED <<jobVars, ends>>
  /\ UNCHANGED <<creation, inserted, batchVars, cancel, callbacks, resets, crashes>>

Crash(j) ==
  /\ pc[j] # "none"
  /\ crashes < MaxCrashes /\ crashes' = crashes + 1
  /\ uncounted' = uncounted + (IF pc[j] = "count" THEN 1 ELSE 0)
  /\ Leave(j)
  /\ UNCHANGED <<creation, inserted, batchVars, jobVars, cancel, callbacks, ends,
                 resets, errors>>
-----------------------------------------------------------------------------
(* The operator. *)

\* Whatever status the batch has.
CancelBatch ==
  /\ cancel = "none" /\ batchStatus # "absent"
  /\ batchStatus' = "cancelled"
  /\ cancel' = "jobs"
  /\ UNCHANGED <<creation, inserted, completed, failed, jobVars, executionVars,
                 historyVars, boundVars>>

CancelJobs ==
  /\ cancel = "jobs"
  /\ status' = [j \in Jobs |-> IF status[j] = "queued" THEN "failed" ELSE status[j]]
  /\ cancel' = "done"
  /\ UNCHANGED <<creation, inserted, batchVars, attempts, executionVars,
                 historyVars, boundVars>>

RetryJob(j) ==
  /\ status[j] \in {"failed", "dead_letter"}
  /\ resets < MaxResets /\ resets' = resets + 1
  /\ status' = [status EXCEPT ![j] = "queued"]
  /\ attempts' = [attempts EXCEPT ![j] = 0]
  /\ UNCHANGED <<creation, inserted, batchVars, executionVars, cancel,
                 historyVars, errors, crashes>>

Step(j) == Start(j) \/ Execute(j) \/ Count(j) \/ Judge(j) \/ Callback(j)

Next ==
  \/ Create \/ CancelBatch \/ CancelJobs
  \/ \E j \in Jobs : Step(j) \/ UpdateFails(j) \/ Crash(j) \/ RetryJob(j)

Spec == Init /\ [][Next]_vars

(* The request and the executions go on, and queued jobs are claimed. *)
Fairness == WF_vars(Create) /\ \A j \in Jobs : WF_vars(Step(j))
FairSpec == Spec /\ Fairness
-----------------------------------------------------------------------------
Counting == Cardinality({j \in Jobs : pc[j] = "count"})

(* Every end of a job is counted once, in whatever order the executors of a
   batch come to count: nothing is lost but what a fault has cut off. *)
EveryEndCounted == completed + failed + Counting + uncounted = ends

(* A batch that is called completed or failed has ended: no job of it is still
   to be inserted, queued or running, and it is completed exactly when every
   job is - unless an operator has retried one, or a fault has intervened. *)
StatusAgrees ==
  batchStatus \in {"completed", "failed"} /\ resets + errors + crashes = 0 =>
    /\ \A j \in Jobs : status[j] \in {"completed", "dead_letter"}
    /\ batchStatus = "completed" <=> \A j \in Jobs : status[j] = "completed"

(* The types, and the agreement of status and jobs, in every state. *)
BatchInv == TypeOK /\ StatusAgrees

(* The callback is sent once, and once more at most for each manual retry and
   for each error that makes a job count again. *)
CallbackOnce == callbacks["completed"] + callbacks["failed"] <= 1 + resets + errors

(* A batch that was created whole comes to a final status, if nobody cancels it
   and no fault cuts a count off. *)
Finishes ==
  creation = "created" ~>
    batchStatus \in {"completed", "failed", "cancelled"} \/ errors + crashes > 0
=============================================================================
