# Verification of the job scheduler

TLA+ models of the distributed job scheduler in `src/`, the TLC runs that check
them on small instances, and TLAPS proofs of every safety property of these runs
for every instance, some under hypotheses that the code does not ensure and that
the theorems state. `PROJECT.json` maps each definition to the
lines it was translated from.

## The system

Several API servers and worker processes share one PostgreSQL database. There is
no broker: rows, row locks, a lock table and `LISTEN`/`NOTIFY` are all that
processes have in common, and every `await` on a query is a point where another
process may run.

| Component | State | Operations | Correct when |
|---|---|---|---|
| Claiming, `engine/claimer.ts` | rows of `queues` and `jobs`, row locks | `claimNextJob`: lock queues in id order, count, pick, `COMMIT` | no job has two holders, no queue is over-admitted, no claims deadlock, due jobs are picked up |
| Lock table, `engine/distributedLock.ts` | `distributed_locks` | acquire (re-entrant for its owner), release, expiry | one owner at a time until the time to live ends |
| Execution, `engine/executor.ts` | `jobs`, `job_executions`, `dead_letter_queue` | `executeJob`: lock, run, complete or retry or bury, unlock | one execution at a time, statuses along the documented arrows, attempts within budget, nothing stranded |
| Dependencies, `jobs.routes.ts`, `executor.ts` | `job_dependencies` | creation with `depends_on`, `unblockDependentJobs` | released only when every prerequisite completed, and then certainly |
| Scheduler, `engine/scheduler.ts` | `scheduled_jobs`, the lock `scheduler:tick` | release of due jobs, cron dispatch | each occurrence once, in order, none skipped |
| Batches, `jobs.routes.ts`, `executor.ts`, `batches.routes.ts` | `batches` | creation, counting, final status, callback, cancellation | each end counted once, final status agrees with the jobs, the batch finishes |
| Worker, `engine/worker.ts` | in-process counters, timers, `workers.status` | poll loop, limiter, sleep and wake-up, heartbeat, graceful shutdown | claimed jobs run, wake-ups cannot be lost for good, the shutdown ends and waits |
| Dead letter queue, `dlq.routes.ts` | `dead_letter_queue` | replay | modelled with execution |
| Queues API, `queues.routes.ts` | settings of `queues` | creation, `PATCH` | modelled with accounts and with claiming |
| Accounts, `auth.routes.ts`, `projects.routes.ts`, `access.ts` | users, organizations, memberships, projects | registration, sign-in, projects with their default queues, members | rows refer to rows that exist, names are unique, who created a project sees it |
| Events, `events.ts`, `websocketHub.ts` | `system_events`, the sockets of each API process | `publishEvent`, upgrade, broadcast | what is pushed is recorded, a dead socket is forgotten |
| Dashboard, `client/src/App.tsx` and its components | what is shown, selected and under way; a web socket | polling, clicks, responses in any order | the open tab comes to show the database, a panel shows one job |
| Retry policy, rate limiting, workers API, migrations, HTTP plumbing | | | see *What is not modelled* |

Who calls whom: the poll loop claims and hands the job to the limiter, which runs
`executeJob`; that takes the job's lock, and at the end of a success calls
`unblockDependentJobs` and `updateBatchProgress`. The scheduler and the API insert
the jobs and publish the events that wake the poll loops. Operators retry, replay,
cancel and reconfigure at any moment, from dashboards that poll the lists every
three seconds and after every event their web socket brings.

Hard to test are the interleavings of these statements across processes, a process
that dies between two of them, a query that throws in the middle of a sequence
that has no transaction, what was read before an `await` and used after it, and,
in the browser, responses that overtake one another.
`PROJECT.json` lists these hazards line by line.

## The modules

* **AtomicClaim** is the abstract specification: the rows, the statements other
  than a claim that change them, and `Claim` as one atomic step that takes a due job
  of a matching, unpaused queue below its limit. The executor's statements
  (`MarkRunning`, `Complete`, `DeadLetter`, `Requeue`) and `Reset`, the `UPDATE` of a
  manual retry and of a replay, name the job by its id and look at no status, as in
  the code.
* **ClaimTransaction** is `claimNextJob` statement by statement. READ COMMITTED is
  modelled as it works: the queue rows of the `SELECT ... FOR UPDATE` are fixed by
  its snapshot and locked one by one in id order (`LockQueue`), the counts see
  what is committed at that moment, `now()` is that of `BEGIN`, and a row locked
  by someone else is waited for. `CommitAnswerLost`, `Rollback`, `Abandon` and `Crash`
  are the failures. Each process has slots; an execution is in its slot, and its process
  holds the job, until `Finish`, also when it has already put the job back (`stage`). Of an
  execution there are the `UPDATE`s of the job's row, the error after a completion
  (`Fails`) and the refusal by the lock (`Skip`); of a retry or replay the read
  (`CheckReset`) and the `UPDATE` (`ApplyReset`), which may come when what was read is
  no longer so. It refines AtomicClaim (`ClaimIsAtomic`).
* **DistributedLock** is the lock table; JobExecution and SchedulerTick instantiate
  it. Expiry is an event, not a clock: a run bounds how often it may overtake a
  holder that is still working (`MaxOverruns`).
* **JobExecution** is `executeJob`, one statement a step, in several slots of
  several processes, against manual retry, replay and batch cancellation. Any
  query may throw (`QueryFails`) and then does what the enclosing `try` says: a
  statement after the completion of the job sits in the same `try` as the handler.
* **JobDependencies** is the creation of a job with prerequisites, one row after
  another, which may stop half way (`CreationFails`), against executors that complete
  these prerequisites and unblock others. An execution is in a slot, from `Start` to
  `Finish`; a statement that throws after the completion, before or after others are
  unblocked (`Throw`), leads to the catch block, which sends the completed job back to
  `queued` or to `dead_letter` (`Fail`). A reset may be stale (`CheckReset`, `ApplyReset`).
* **SchedulerTick** is `schedulerTick` on several servers, with restarts, failing
  queries and locks left behind; a cron schedule is its sequence 1, 2, 3, ... of
  occurrences.
* **BatchProgress** is one batch from its insertion, job by job, to its callback.
  The count is one atomic `UPDATE ... RETURNING`; judgement and callback use what
  it returned (`seen`).
* **WorkerProcess** is one process: poll loop, limiter, `sleep` with the two fields
  `wakePoll` and `pollTimer` that the loop and the shutdown share, notifications,
  heartbeat, shutdown. A claim that throws may have taken effect, and leaves the job
  claimed in nobody's hands (`ClaimThrows`, `stray`). A timer that is armed is distinguished from the field that
  holds its handle, because the second sleeper overwrites the field.
* **Accounts** has a process for each request and an action for each statement of
  registration, sign-in, the routes of projects and members, and the creation of
  queues. The constraints of the migrations (`UniqueViolation`, `Referenced`,
  `EmailTaken`) refuse a statement; what the earlier statements of the request
  wrote stays, since no handler opens a transaction. `before` remembers which
  requests had ended when another began: it tells a race from a sequence.
* **Dashboard** is the page with what it talks to. A change of the database is a
  number and the database the set of those committed; a response is the set it
  saw, and a view shows the set and the key (project, filter) of its last response.
  `flights` are the requests and responses in the network, in no order. One
  callback, the render after it and the effects whose dependencies changed are one
  action (`Page`, `DependsOn`), as React runs them. A request keeps the project
  and the filter of the closure that sent it (`follow`). BatchesTab loses its list
  when another tab is opened (`Unmounts`). `PublishEvent` has the
  two steps of `publishEvent`, the row and then the listeners of the same process;
  what a worker publishes reaches no socket. Two GETs of the same kind at the same
  point are one flight, which may be received again as often as the timer asks.
* **MC...** modules give the constants small values. **...Proofs** modules hold the
  theorems of the module they are named after.

Definitions introduced by a comment "Mutant" are no part of a specification. Each
is a plausible bug in the definition that follows it; put in its place it makes
TLC report the property that `PROJECT.json` names. They show that the properties can
fail.

## The runs

| Run | Question | Instance |
|---|---|---|
| `claim_concurrent` | is a claim atomic, admission bounded, deadlock excluded? | 2 workers, one of them tied to a shard, 1 slot each, 2 queues, 3 jobs, 1 `PATCH`, 1 retry or replay |
| `claim_faults` | do claims return and jobs get picked up, with every fault? | 2 workers, one with 2 slots and one with 1, 1 queue, 2 jobs, 1 crash, 1 query that throws: rolled back, done or in an execution |
| `exec_lifecycle` | does a job follow the documented lifecycle to an end? | 2 processes, 2 jobs of 2 attempts, a cancellation, a manual retry |
| `exec_failures` | is a job executed once at a time under errors and a crash? | 2 processes, 1 job, a retry and a replay, 2 errors, 1 crash |
| `deps_waiting` | is a job released exactly when it should be? | a; b after a; c, scheduled, after both; 2 slots, a reset, a cancellation, 1 query that throws, 1 abandoned execution |
| `scheduler` | is each occurrence dispatched, once and in order? | 2 servers, 2 schedules, 1 scheduled job, clock to 2, 1 error, 1 crash |
| `batch` | do counters, status and callback agree with the jobs? | 2 jobs of 2 attempts, a conflict on the second, 1 error, 1 crash, 1 retry, a cancellation |
| `worker` | is due work picked up, claimed work run, the shutdown finite? | 2 slots, 3 jobs of which 1 may hang, 1 error (done or not), 1 lost listener |
| `accounts` | what survives of checks made before an insert by concurrent requests? | 2 users, registered or not, 3 requests of any kind, 1 failing statement |
| `dashboard` | does the page converge on the database? | 7 slices, below, with up to 2 changes, 3 clicks, 2 sign-ins, 1 failure |

`deps_lost_wakeup` and `scheduler_same_pid` are the two runs that end in a
violation (see below).

Why these sizes: the claim needs two queues for a lock cycle, a second job in one
queue for over-admission, a shard to make the two snapshots differ, and a process
with two slots to hold two jobs of a queue when its limit is raised; an execution
needs two attempts to retry and to be buried, and two processes to race; the chain
of three has a job with two prerequisites and a prerequisite that is itself
released; two schedules let one tick fail between them; a batch of two has a last
and a last but one to race, and a conflict that leaves a part inserted; three jobs
for two slots fill the limiter and leave one to be picked up late; two requests
race for an address, a name or a first project, and a third deletes, grants or
follows; two changes and two requests under way make an old response overtake a new
one, and two sign-ins leave a socket of the earlier one to report its end. The
views of the page have nothing in common but its own state, so each behaviour of
`Dashboard` watches one slice of them (`watch`): those that depend on one another
(projects, queues, statistics) together, those that share an effect in pairs, the
job panel and the events alone. `MaxFlights` delays the timer and the user while two
requests are under way; what those set off may exceed it. The last session of a
behaviour is not signed out, for nothing is shown without one. Clocks, errors,
crashes and requests are bounded by constants that the guards of the faults name.
Larger instances of the safety properties are covered by the proofs. Deadlock is checked in `claim_faults`, `scheduler` and `dashboard`,
whose systems never stop, and off where a model ends: all jobs done, all requests
answered, all bounds used up, the process gone.

### Fairness

Only what runs by itself is fair: the next statement of a live process, a timer, a
handler (each kind has a timeout), an accepted request, the passing of time, and
in `ClaimTransaction` strong fairness of `LockQueue`, since PostgreSQL queues the
waiters of a row. Operators, signals, notifications, faults and, in
`JobDependencies`, the success of a job are never fair. In `WorkerProcess` a
hanging handler is not fair either: `PickedUp` asks only that one slot be free of
them, and `ShutdownEnds` asks nothing. In `Dashboard` the timer, the server's
answers, `publishEvent`, the hub and the handlers of sockets are fair. Delivery is
fair for each kind of request, and apart for responses that are older than the page
and those that are not: the network may hold either back for any finite time, and
brings in the end what it does not lose.

## What the code does not keep

Two runs end in a violation of something a document or comment of the repository
says:

* `deps_lost_wakeup`: a prerequisite that completes between the check of
  `depends_on` and the insertion of the rows wakes nobody (`jobs.routes.ts:82`).
* `scheduler_same_pid`: two servers with the same process id, as in containers, or
  two overlapping ticks of one server, share the re-entrant lock and dispatch an
  occurrence twice (`scheduler.ts:15`).

The passing runs that these would break exclude exactly the offending order:
`deps_waiting` by `Overlap = FALSE`, `scheduler` by an owner id for each server.
Further deviations that the models contain, and how to see them:

* `QuickRelease = FALSE` in `MCExecLifecycle.cfg` violates `NoOrphan`: the retry is
  made claimable before the lock is released; a worker that claims it in between
  is refused the lock and leaves the job `claimed` for ever (`executor.ts:18, 73,
  118`), although `docs/architecture.md:67` has `claimed --> running : worker starts`;
* `INVARIANT NothingLeftBehind` added to `MCWorker.cfg` is violated: `inFlight` does
  not count a claim that has not returned, and the process exits under it
  (`worker.ts:95, 196`), although `README.md:332` says that workers wait;
* two slots of one process (`TwoProcesses` mapping both to `w1`; a process has five
  unless told otherwise, `env.ts:21`), or `MaxOverruns = 1`, in `MCExecFailures.cfg`
  violate `MutualExclusion` and `HoldsLock`. The lock's owner is the process: it takes
  the job again that it has put back and not yet released, or that a stale reset put
  back, and the end of one execution releases the lock of the other. With
  `QuickRelease = TRUE` and one request both hold again (`OwnJobsStayApart`). The time to
  live is never extended;
* `Requests = {r1, r2}` in `MCClaimTransaction.cfg` violates `OneHolder`,
  `EligibleStaysTrue`, `NoOverAdmission` and `ClaimIsAtomic`, each checked alone: a
  replay of a row that an earlier retry left behind, or a second retry, resets a job
  that is at work (`jobs.routes.ts:404`, `dlq.routes.ts:90`); its slot in the queue's
  limit is given away, and the first execution, which updates by id, takes it back;
* `MaxErrors = 1` in `MCExecLifecycle.cfg` violates `FollowsLifecycle` (a completed
  job is put back to `queued`) and `ExecutionInv` (a buried job without a
  row); `Replays = {"p1"}`, or a second retry `{"r1", "r2"}`, violates
  `FollowsLifecycle` (a job at work is reset) and with it `SucceedsOnce`,
  `AttemptBudget` and `NoOrphan`; `MaxCrashes = 1` violates `ExecutionInv` (the
  process dies before it inserts the row) and `NoOrphan`;
* `Overlap = TRUE` in `MCDependencies.cfg` violates `DependenciesInv`: a
  job whose rows are half inserted is released by the first of its prerequisites;
* a blocked job that is cancelled with its batch and retried by hand runs without
  its prerequisites (hence `Retried(j)` in that property); a request that fails half
  way leaves a job with part of its prerequisites, which is released without the others
  (hence `Required(j)`); and an error after the completion, or a stale reset, takes a
  prerequisite out of `completed` when its dependents are released (hence `undone`);
* a job in the hands of a process that dies stays `claimed` or `running`, since no
  code looks for it, and takes up its queue's limit (`Stranded` in `Pickup`); so does a
  job whose claim took effect and whose `COMMIT` was not answered (`claimer.ts:74, 82`;
  `stray` in `ClaimedIsExecuted`);
* a listener connection that fails during `UNLISTEN` kills the worker with a
  rejected promise (`ListenerLost`), and a heartbeat on its way may overwrite the
  mark `offline` (`HeartbeatArrives` after `Exit`);
* a batch that is refused half way never finishes, a cancelled one may still become
  `completed`; `Finishes` and `BatchInv` say what remains.
* two first `GET /projects` that overlap, as a page loaded in development mode
  sends them, seed two organizations, each with a default project
  (`SeedsOnlyConcurrently` says that nothing else does); a request that fails
  between an organization and its membership leaves an organization that later
  projects of the user go to and that shows none of them (the exception in
  `CreatedIsVisible`), and `POST /projects/:id/members` may lower the role of the
  organization's owner;
* events that workers publish reach no web socket, since `websocketHub.ts` listens
  to its own process and nobody in the API process to the `NOTIFY` (`PublishEvent`
  with `by = "worker"`); the page learns of them by its timer;
* the page opens a socket when it signs in and never again (`OnClose`); the
  `onclose` of an earlier session's socket makes a live page say that it is
  polling, so `ViewsSettle` promises only the converse;
* a list of projects that arrives after signing out selects a project that the next
  session keeps (`ReceiveProjects`); an error for one of the four requests of a job's
  panel leaves that part of the job shown before (`failures = 0` in `DetailsAgree`).

## The proofs

`ClaimTransactionProofs` is about any number of workers, slots, queues, jobs, patches,
requests and faults, from the assumptions named in `ClaimTransaction`.

| Theorem | Property | Hypotheses |
|---|---|---|
| `TypeCorrect` | `TypeOK` | none |
| `LocksHold` | `LocksInv` | none |
| `ClaimsNeverDeadlock` | `NoWaitCycle` | none |
| `InvariantHolds` | `ClaimInv` | fresh resets |
| `NoDoubleClaim`, `EligibilityIsStable` | `OneHolder`, `EligibleStaysTrue` | fresh resets |
| `ClaimRefinesAtomic` | `ClaimIsAtomic` | fresh resets |
| `AdmissionWithinLimit` | `NoOverAdmission` | fresh resets |
| `OneRequestIsFresh` | `FreshResets` | no two requests about one job |

*Fresh resets* (`FreshResets`) says that a manual retry, or a replay, that is about to
reset a job still finds it `failed` or `dead_letter`. Nothing in the server makes sure:
two requests about a job, or the replay of a row that an earlier retry left in the table,
reset a job that is at work again. `OneRequestIsFresh` proves that one request about each
job at a time is enough, which is the instance of `claim_concurrent`; the deviations above
show that the hypothesis cannot be dropped.

`LocksInv` needs no hypothesis: a transaction owns the rows it has read, in the order of
id (`OwnsWhatItRead`, `LockOrder`), and the job it has picked is still queued and due
(`PickIsGood`), which the lock on the job's row keeps. `EligibleStaysTrue` is not
inductive: that a queue stays eligible follows because every statement that could spoil
the answer needs the queue's row (a `PATCH`, another claim) or starts from a job that is
active already. The second is true of the executor's `UPDATE`s by id only when the job is
still as the execution left it: that is `OneHolder`, and a reset of a job at work breaks
it. The lemmas state what each statement of the transaction leaves alone; the step lemma
has one case for each action.

`ClaimsNeverDeadlock` needs no more of it than `LockOrder`: of the queues
that a set of claims waits for, the one with the greatest id is held by a claim that
waits only for greater ones (`GreatestQueue` finds it, the queues being finitely many).

`JobExecutionProofs` is about any number of jobs, processes, slots and requests.

| Theorem | Property | Hypotheses |
|---|---|---|
| `LockIsHeld`, `ExecutionsExclude` | `HoldsLock`, `MutualExclusion` | no process inside two executions of a job (`OwnJobsApart`), no overrun of the lock |
| `OwnJobsStayApart` | `OwnJobsApart` | fresh resets, quick release |
| `OneExecution` | one execution of a job between its claim and its outcome | fresh resets |
| `TypesHold` | `TypeOK` | none |
| `JobsSucceedOnce` | `SucceedsOnce` | fresh resets |
| `AttemptsWithinBudget` | `AttemptBudget` | fresh resets |
| `StatusFollowsLifecycle` | `FollowsLifecycle` | fresh resets, no errors |
| `BuriedJobsHaveEntries` | `ExecutionInv` | no errors, no crashes |
| `JobsAreNotStranded` | `NoOrphan` | fresh resets, quick release, no errors, no crashes |

Where a line does not exclude errors and crashes, there may be any number of them.
*Fresh resets* is as for the claim, with an `OneRequestIsFresh` of its own; one request
is the instance of `exec_lifecycle`. *Quick release* supposes that an execution that has
put its job back releases the lock before the retry is due. The deviations above show
that none of the hypotheses can be dropped.

For the lock the invariant is `LockInv`: the types of the slots and of the lock, and
that each execution between acquisition and release owns its lock; the steps that
need the hypotheses are the release, because the lock is re-entrant for its owner and
one execution of a process would release the lock of another, and the expiry. So the
lock keeps processes apart, of any number of slots, and leaves it to the process to keep
its own executions of a job apart, which no code does: `OwnJobsStayApart` says when it
goes well all the same. The other theorems but the last do not go through the lock: with fresh resets,
the `UPDATE` that claims a job is enough to give it one execution (`OneExecution`). `StatusInv` says
where a live execution finds its job's status and that it is the only one up to the
statement that lets go of the job; `RowInv` and `SuccessInv` add that it writes into
the last row of `job_executions` and that a completed row is the last; `AttemptInv` and
`BudgetInv` relate the number of rows to `attempts` and to the resets, with one row to
spare while an attempt is counted and not yet recorded. `EntryInv` and `BuriedInv`
keep, for each dead-lettered job, a row that no replay is about to delete, or the
slot that is about to insert it. `HeldInv` is `NoOrphan` with what the lock has to
say: a claimed or running job is in a live slot, which will not be refused the lock.

`JobDependenciesProofs` proves `ReleasedInOrder` (`DependenciesInv`) for any jobs and
prerequisites, slots, resets, stale ones too, cancellations, half-failed creations, errors
after a completion and abandoned executions, with `~Overlap`: no prerequisite completes or
unblocks others while a job that names it is being created. The argument is about what
never becomes false again: that a prerequisite has completed (it is `completed`, or
remembered in `undone`), that a job was reset, and so that all a job waits for has
completed (`Permit`). `CreationInv` says that what a request has read of the prerequisites
stays true in this sense and that its rows are all there when it has ended; `WorkInv` that
a job that has left `blocked`, or is in a slot, has `Permit`.

`SchedulerTickProofs` proves `DispatchInSequence`, `DispatchOnce` and `NeverBack`
(`SchedulerInv`, `NoDuplicateDispatch`, `NeverBackwards`) for any number of servers,
schedules, errors and crashes, if owner ids differ (`OwnersDiffer`) and no tick
outlasts its lock. `TickInv`: a tick under way holds the lock, so what it has read of
the schedules it has still to advance is true (`ReadInv`), and what was inserted for a
schedule is the sequence of its occurrences with repetitions, one at most for each
error and each crash.

`BatchProgressProofs` proves `EndsAreCounted`, `CallbackSentOnce` and `StatusIsRight`
(`EveryEndCounted`, `CallbackOnce`, `BatchInv`) without hypotheses, for any number of
jobs, attempts, resets, errors and crashes. That ends are counted is
inductive together with the place of each execution and the status of its job
(`LiveInv`). The ends are at most the jobs that have ended, the resets and the errors
(`EndsInv`); the callbacks, and the executions that are about to send one, are at most
the counts from the one that reached the total on (`CallbackInv`); and without resets,
errors and crashes each counter, with what is about to be added, is the number of jobs
that ended so (`AgreeInv`).

`WorkerProcessProofs` proves `ClaimedExecuted`, `WorkerSafe` and `ShutdownWaits`
(`ClaimedIsExecuted`, `WorkerInv`, `InFlightFinish`) without hypotheses. `ProcessInv`
counts the executions, has at most one job on its way out of a claim, for which
there is a slot, at most one stray job for each error, and tells which sleepers have a
timer that fires.

`AccountsProofs` proves `TablesAreConsistent`, `OneRegistration`, `ProjectNamesUnique`,
`CreatorSees` and `SeedsTwiceOnlyConcurrently` (the five properties of the run
`accounts`) without hypotheses, for any number of users, requests and failing
statements. `RowsInv` ties each request, by the statement it is at, to the rows it
has written and to the rows it refers to, which no other request removes.

`DashboardProofs` proves `PanelAgrees` and `ShowsWhatIsRecorded` (`DetailsAgree`,
`DashboardInv`) without hypotheses, for any slices. `PageInv` says of a response under way
that it brings only what its kind can bring (`FlightInv`), also through the requests that
follow it; of the sockets that they bring only what has its row (`WireInv`); and of the
page that it shows what one of them brought (`ShownInv`).

In modules with a proof the constants are assumed to be what the code gives: finite
sets of queues, jobs and requests, queue ids that are numbers, null values that are no
job and no worker.

Only model-checked is liveness, which is beyond the prover (`Pickup`, `ClaimReturns`,
`Settles`, `NoLostWakeup`, `EveryOccurrence`, `ReleasedWhenDue`, `Finishes`, `PickedUp`,
`ShutdownEnds`, `ViewsSettle`); and, by the runs that end in a violation and by the
deviations above, what happens when the hypotheses fail.

## What is not modelled

* Handlers (`runJobHandler` is an outcome), payloads, logs and texts;
  `failureSummary.ts`, which formats a string.
* The retry policy: a delay is a `run_at` in the future (`Due`), whatever its length.
  The jitter of `retryPolicy.ts` is applied after the cap, so a delay may exceed
  `max_delay_ms` by 15 %, which line 11 excludes.
* Rate limiting: one atomic statement counts a request in its window.
* The 8000 bytes a `NOTIFY` may have: a longer event makes `publishEvent` throw after
  its row, and the executor's `catch` then treats it as any failing query.
* Of the API: the classification of a worker's health, lists of heartbeats and of
  members, pagination (a page and its count are one answer), retry policies, the
  replay of an entry whose job is gone. Migrations, HTTP wiring, validation and
  configuration.
* Of the dashboard: forms, charts and texts; the heartbeats of a worker and the jobs of
  a batch, which are fetched once, on a click, and of which a late answer for
  another selection stays (`App.tsx:595`); another user at the same page.
* The deletion of a project removes its queues and their jobs (`ON DELETE CASCADE`).
  Accounts has the projects and queues; the modules about jobs have none deleted.

## The plan

Done, in this order: AtomicClaim and ClaimTransaction (the core, with its proofs);
DistributedLock and JobExecution (with the proof of exclusion); JobDependencies;
SchedulerTick; BatchProgress; WorkerProcess; Accounts; Dashboard.

Done after that: the proofs of every safety property, of ClaimTransaction and
JobExecution first, then of WorkerProcess, JobDependencies, Accounts, SchedulerTick,
BatchProgress and Dashboard.

Next:

1. weaken hypotheses of theorems to where they are exact: `StatusFollowsLifecycle`
   with errors, for all arrows but that from `completed` to `queued`;
   `JobsAreNotStranded` with crashes, for the jobs no dead process holds;
2. state what the wake-up of dependent jobs keeps as an invariant (a blocked job has a
   prerequisite that is not completed, or an executor that has still to look at it) and
   prove it: the safety half of `NoLostWakeup`;
3. the same for `ViewsSettle`: a view that is not current has a flight or a timer ahead.

Then, to model: the retry delay as a function, the size of an event, the rate limiter.
