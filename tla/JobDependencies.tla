--------------------------- MODULE JobDependencies ---------------------------
(***************************************************************************)
(* Jobs that wait for other jobs: the creation of a job with depends_on    *)
(* (modules/jobs/jobs.routes.ts), which reads the prerequisites' statuses, *)
(* inserts the job and then one row of job_dependencies after another, and *)
(* unblockDependentJobs (engine/executor.ts), which a prerequisite's       *)
(* executor runs some time after marking it completed, if nothing throws   *)
(* in between: then it marks the completed job failed, in the catch block. *)
(*                                                                         *)
(* Of an execution this module keeps the UPDATEs of the job's row, by id   *)
(* whatever the status is, and of a retry or replay the read and the       *)
(* UPDATE; ClaimTransaction and JobExecution have the rest.  A slot is an  *)
(* execution that may still write its job's row.  That a job is in one     *)
(* slot at a time is not assumed, and a claim that is refused the job's    *)
(* lock is an execution that does not go on.                               *)
(***************************************************************************)
EXTENDS Integers, FiniteSets

CONSTANTS
  Jobs,
  DependsOn,    \* depends_on of each job's request
  Scheduled,    \* jobs of type 'scheduled', whose run_at lies in the future
  Overlap,      \* TRUE: a prerequisite may complete, and unblock others,
                \* while a job that names it is being created
  Slots,        \* executions that can be under way at once
  Requests,     \* manual retries and replays, each of them once
  NoJob,
  MaxCancels,   \* bound on the jobs POST /batches/:id/cancel reaches
  MaxCrashes,   \* bound on the executions abandoned after the completion
  MaxErrors     \* bound on the queries that throw, those of MaxCrashes apart

ASSUME JobsAssumption ==
  /\ Scheduled \subseteq Jobs /\ DependsOn \in [Jobs -> SUBSET Jobs]
  /\ NoJob \notin Jobs /\ Slots \subseteq Nat
ASSUME BoundsAssumption ==
  /\ Overlap \in BOOLEAN
  /\ MaxCancels \in Nat /\ MaxCrashes \in Nat /\ MaxErrors \in Nat

VARIABLES
  status,      \* jobs.status, "absent" before the INSERT
  attached,    \* job_dependencies: the prerequisites attached to each job
  due,         \* jobs whose run_at has come
  creation,    \* where each job's request is
  satisfied,   \* its dependenciesSatisfied
  job, phase,  \* of each slot: the job in it, and where executeJob is
  at, target,  \* of each retry or replay: how far it is, and its job
  letters,     \* jobs that have had a row in dead_letter_queue
  undone,      \* jobs taken out of "completed" again
  lost,        \* completed jobs whose executor ended before it could unblock
  cancelled,   \* jobs cancelled with their batch
  crashes, errors

creationVars == <<creation, satisfied>>
slotVars == <<job, phase>>
requestVars == <<at, target>>
historyVars == <<letters, undone>>
faultVars == <<lost, cancelled, crashes, errors>>
vars == <<status, attached, due, creationVars, slotVars, requestVars, historyVars,
          faultVars>>

Statuses == {"absent", "blocked", "scheduled", "queued", "running",
             "completed", "failed", "dead_letter"}

TypeOK ==
  /\ status \in [Jobs -> Statuses]
  /\ attached \in [Jobs -> SUBSET Jobs]
  /\ due \subseteq Jobs
  /\ creation \in [Jobs -> {"new", "checked", "attaching", "done", "failed"}]
  /\ satisfied \in [Jobs -> BOOLEAN]
  /\ job \in [Slots -> Jobs \cup {NoJob}]
  /\ phase \in [Slots -> {"free", "running", "announcing", "ending", "failing"}]
  /\ \A s \in Slots : phase[s] # "free" => job[s] \in Jobs
  /\ at \in [Requests -> {"new", "reset", "done"}]
  /\ target \in [Requests -> Jobs \cup {NoJob}]
  /\ \A r \in Requests : at[r] # "new" => target[r] \in Jobs
  /\ letters \subseteq Jobs /\ undone \subseteq Jobs
  /\ lost \subseteq Jobs /\ cancelled \subseteq Jobs
  /\ crashes \in 0 .. MaxCrashes /\ errors \in 0 .. MaxErrors

Init ==
  /\ status = [j \in Jobs |-> "absent"]
  /\ attached = [j \in Jobs |-> {}]
  /\ due = Jobs \ Scheduled
  /\ creation = [j \in Jobs |-> "new"]
  /\ satisfied = [j \in Jobs |-> FALSE]
  /\ job = [s \in Slots |-> NoJob]
  /\ phase = [s \in Slots |-> "free"]
  /\ at = [r \in Requests |-> "new"]
  /\ target = [r \in Requests |-> NoJob]
  /\ letters = {} /\ undone = {} /\ lost = {} /\ cancelled = {}
  /\ crashes = 0 /\ errors = 0

QueryFails == errors < MaxErrors /\ errors' = errors + 1
-----------------------------------------------------------------------------
(* POST /queues/:queueId/jobs. *)

\* dependenciesAreSatisfied: every prerequisite must exist.
CheckDependencies(j) ==
  /\ creation[j] = "new"
  /\ \A d \in DependsOn[j] : status[d] # "absent"
  /\ creation' = [creation EXCEPT ![j] = "checked"]
  /\ satisfied' = [satisfied EXCEPT ![j] =
                     \A d \in DependsOn[j] : status[d] = "completed"]
  /\ UNCHANGED <<status, attached, due, slotVars, requestVars, historyVars, faultVars>>

InitialStatus(j) == IF ~satisfied[j] THEN "blocked"
                    ELSE IF j \in Scheduled THEN "scheduled" ELSE "queued"

InsertJob(j) ==
  /\ creation[j] = "checked"
  /\ status' = [status EXCEPT ![j] = InitialStatus(j)]
  /\ creation' = [creation EXCEPT ![j] = "attaching"]
  /\ UNCHANGED <<attached, due, satisfied, slotVars, requestVars, historyVars, faultVars>>

AttachDependency(j) ==
  /\ creation[j] = "attaching"
  /\ \E d \in DependsOn[j] \ attached[j] :
       attached' = [attached EXCEPT ![j] = @ \cup {d}]
  /\ UNCHANGED <<status, due, creationVars, slotVars, requestVars, historyVars, faultVars>>

Respond(j) ==
  /\ creation[j] = "attaching" /\ attached[j] = DependsOn[j]
  /\ creation' = [creation EXCEPT ![j] = "done"]
  /\ UNCHANGED <<status, attached, due, satisfied, slotVars, requestVars, historyVars,
                 faultVars>>

\* An INSERT throws, and with it the request: what it has inserted stays.
CreationFails(j) ==
  /\ creation[j] \in {"checked", "attaching"}
  /\ QueryFails
  /\ creation' = [creation EXCEPT ![j] = "failed"]
  /\ UNCHANGED <<status, attached, due, satisfied, slotVars, requestVars, historyVars,
                 lost, cancelled, crashes>>
-----------------------------------------------------------------------------
(* The life of a job, and what its end does to others. *)

Elapse(j) ==
  /\ j \notin due
  /\ due' = due \cup {j}
  /\ UNCHANGED <<status, attached, creationVars, slotVars, requestVars, historyVars,
                 faultVars>>

\* The scheduler's UPDATE of every due job.
ReleaseScheduled ==
  /\ \E j \in due : status[j] = "scheduled"
  /\ status' = [j \in Jobs |-> IF status[j] = "scheduled" /\ j \in due
                               THEN "queued" ELSE status[j]]
  /\ UNCHANGED <<attached, due, creationVars, slotVars, requestVars, historyVars, faultVars>>

SetStatus(j, to) ==
  /\ status' = [status EXCEPT ![j] = to]
  /\ undone' = IF status[j] = "completed" /\ to # "completed"
               THEN undone \cup {j} ELSE undone

Reach(s, there) == phase' = [phase EXCEPT ![s] = there] /\ UNCHANGED job
Leave(s) == /\ phase' = [phase EXCEPT ![s] = "free"]
            /\ job' = [job EXCEPT ![s] = NoJob]

\* Claim and MarkRunning in one, in any free slot (which one does not matter).
Start(s, j) ==
  /\ phase[s] = "free" /\ \A t \in Slots : phase[t] = "free" => s <= t
  /\ j \in due /\ status[j] = "queued"
  /\ SetStatus(j, "running")
  /\ phase' = [phase EXCEPT ![s] = "running"]
  /\ job' = [job EXCEPT ![s] = j]
  /\ UNCHANGED <<attached, due, creationVars, requestVars, letters, faultVars>>

BeingCreatedOn(j) == \E k \in Jobs : j \in DependsOn[k]
                                     /\ creation[k] \in {"checked", "attaching"}

MarkCompleted(s) ==
  /\ phase[s] = "running"
  /\ BeingCreatedOn(job[s]) => Overlap
  /\ SetStatus(job[s], "completed")
  /\ Reach(s, "announcing")
  /\ UNCHANGED <<attached, due, creationVars, requestVars, letters, faultVars>>

\* The catch block, after the handler or after a later statement threw: a
\* failure is retried or final.
Fail(s) ==
  /\ phase[s] \in {"running", "failing"}
  /\ \/ SetStatus(job[s], "queued") /\ UNCHANGED letters
     \/ SetStatus(job[s], "dead_letter") /\ letters' = letters \cup {job[s]}
  /\ Leave(s)
  /\ UNCHANGED <<attached, due, creationVars, requestVars, faultVars>>

\* Mutants: a cancelled prerequisite counts as completed;
\* only jobs with no other prerequisite are looked at.
UnblockedByEnded(j) ==
  {k \in Jobs : /\ status[k] = "blocked"
                /\ j \in attached[k]
                /\ \A d \in attached[k] : status[d] \in {"completed", "failed"}}
UnblockedByOne(j) == {k \in Jobs : status[k] = "blocked" /\ attached[k] = {j}}

\* The rows the UPDATE of unblockDependentJobs matches.
Unblocked(j) ==
  {k \in Jobs : /\ status[k] = "blocked"
                /\ j \in attached[k]
                /\ \A d \in attached[k] : status[d] = "completed"}

UnblockDependentJobs(s) ==
  /\ phase[s] = "announcing"
  /\ BeingCreatedOn(job[s]) => Overlap
  /\ status' = [k \in Jobs |-> IF k \notin Unblocked(job[s]) THEN status[k]
                               ELSE IF k \in due THEN "queued" ELSE "scheduled"]
  /\ Reach(s, "ending")
  /\ UNCHANGED <<attached, due, creationVars, requestVars, historyVars, faultVars>>

Finish(s) ==
  /\ phase[s] = "ending"
  /\ Leave(s)
  /\ UNCHANGED <<status, attached, due, creationVars, requestVars, historyVars, faultVars>>

\* A statement after the completion throws, before or after the release of
\* others: the catch block is next.
Throw(s) ==
  /\ phase[s] \in {"announcing", "ending"}
  /\ QueryFails
  /\ Reach(s, "failing")
  /\ UNCHANGED <<status, attached, due, creationVars, requestVars, historyVars, lost,
                 cancelled, crashes>>

\* With the job marked completed, the process dies, or the catch block throws
\* as well and executeJob with it: nobody goes on with this execution.
Abandon(s) ==
  /\ phase[s] \in {"announcing", "failing"}
  /\ crashes < MaxCrashes /\ crashes' = crashes + 1
  /\ lost' = lost \cup {job[s]}
  /\ Leave(s)
  /\ UNCHANGED <<status, attached, due, creationVars, requestVars, historyVars,
                 cancelled, errors>>

\* The operator puts a job back to work; its prerequisites are not looked at.
\* POST /jobs/:id/retry reads the job's status, POST /dlq/:id/replay a row of
\* dead_letter_queue; the UPDATE is sent later, and looks at neither.
CheckReset(r, j) ==
  /\ at[r] = "new"
  /\ status[j] \in {"failed", "dead_letter"} \/ j \in letters
  /\ at' = [at EXCEPT ![r] = "reset"]
  /\ target' = [target EXCEPT ![r] = j]
  /\ UNCHANGED <<status, attached, due, creationVars, slotVars, historyVars, faultVars>>

ApplyReset(r) ==
  /\ at[r] = "reset"
  /\ SetStatus(target[r], "queued")
  /\ due' = due \cup {target[r]}
  /\ at' = [at EXCEPT ![r] = "done"]
  /\ UNCHANGED <<attached, target, creationVars, slotVars, letters, faultVars>>

Cancel(j) ==
  /\ status[j] \in {"queued", "scheduled", "blocked"}
  /\ Cardinality(cancelled) < MaxCancels /\ cancelled' = cancelled \cup {j}
  /\ SetStatus(j, "failed")
  /\ UNCHANGED <<attached, due, creationVars, slotVars, requestVars, letters, lost,
                 crashes, errors>>

Create(j) == CheckDependencies(j) \/ InsertJob(j) \/ AttachDependency(j) \/ Respond(j)
Execute(s) == \/ MarkCompleted(s) \/ Fail(s) \/ UnblockDependentJobs(s) \/ Finish(s)

Next ==
  \/ \E j \in Jobs : \/ Create(j) \/ CreationFails(j)
                     \/ Elapse(j) \/ Cancel(j)
  \/ \E s \in Slots : \/ Execute(s) \/ Throw(s) \/ Abandon(s)
                      \/ \E j \in Jobs : Start(s, j)
  \/ \E r \in Requests : ApplyReset(r) \/ \E j \in Jobs : CheckReset(r, j)
  \/ ReleaseScheduled

Spec == Init /\ [][Next]_vars

(* A request that has read its prerequisites is carried through, and a live
   executor goes on to unblock, or to its catch block; whether a job ever
   succeeds is left open. *)
Fairness ==
  /\ \A j \in Jobs : WF_vars(InsertJob(j) \/ AttachDependency(j) \/ Respond(j))
  /\ \A s \in Slots : /\ WF_vars(UnblockDependentJobs(s))
                      /\ WF_vars(phase[s] = "failing" /\ Fail(s))
FairSpec == Spec /\ Fairness
-----------------------------------------------------------------------------
(* What a job waits for: of a request that failed on its way, the
   prerequisites that it had attached. *)
Required(j) == IF creation[j] = "failed" THEN attached[j] ELSE DependsOn[j]
Retried(j) == \E r \in Requests : at[r] = "done" /\ target[r] = j

(* A job leaves "blocked", if it was ever in it, only with every prerequisite
   completed (docs/design-decisions.md "releases them only when every
   prerequisite is completed"), unless an operator has retried it since.  A
   prerequisite may be undone afterwards, by a statement that throws after its
   completion or by a reset of a job that has completed meanwhile. *)
ReleasedOnlyWhenSatisfied ==
  \A j \in Jobs :
    status[j] \in {"scheduled", "queued", "running", "completed", "dead_letter"}
      => Retried(j) \/ \A d \in Required(j) : status[d] = "completed" \/ d \in undone

(* The types, and no release ahead of the prerequisites, in every state. *)
DependenciesInv == TypeOK /\ ReleasedOnlyWhenSatisfied

(* A job whose prerequisites are, and stay, completed does not stay blocked for
   ever, whichever of them completes last and however their executors'
   statements interleave, throw and are tried again, as long as its request
   was carried through and none of these executors ended before it could
   unblock. *)
NoLostWakeup ==
  \A j \in Jobs :
    ~<>[](/\ status[j] = "blocked" /\ creation[j] = "done"
          /\ \A d \in DependsOn[j] : status[d] = "completed" /\ d \notin lost)
=============================================================================
