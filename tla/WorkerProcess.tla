---------------------------- MODULE WorkerProcess ----------------------------
(***************************************************************************)
(* One worker process from its registration on (engine/worker.ts): the     *)
(* poll loop, the limiter its executions run in, the sleep that a NOTIFY   *)
(* cuts short, the heartbeat and the graceful shutdown.  All run in one    *)
(* thread and interleave where they await; sleep() is shared by the poll   *)
(* loop and the shutdown, and so are the two fields it keeps its callback  *)
(* and its timer in.                                                       *)
(*                                                                         *)
(* claimNextJob is the atomic claim ClaimTransaction implements; of an     *)
(* execution only its end matters here.  A job that is to be tried again   *)
(* is another job that becomes due.                                        *)
(***************************************************************************)
EXTENDS Integers, Sequences, FiniteSets

CONSTANTS
  Jobs,         \* the jobs this worker may claim
  Hanging,      \* those whose handler never returns
  MaxParallel,  \* maxParallelJobs
  MaxErrors,    \* bound on queries that throw
  MaxLosses     \* bound on lost listener connections

None == "none"

ASSUME JobsAssumption == Hanging \subseteq Jobs /\ None \notin Jobs
ASSUME LimitsAssumption ==
  MaxParallel \in Nat \ {0} /\ MaxErrors \in Nat /\ MaxLosses \in Nat

VARIABLES
  job,        \* of each job: absent (or not due), queued, claimed, done
  stray,      \* those whose claim took effect and threw all the same
  loop,       \* where the poll loop is
  claimed,    \* what claimNextJob is about to return
  inFlight,
  running, waiting, executing,  \* the limiter: running, queue, and what runs
  wakePoll, pollTimer,          \* the fields: whose callback, whose timer
  armed,      \* the timers that will fire
  listening, notified,          \* eventClient, and a NOTIFY on its way
  heartbeat,  \* heartbeatTimer, and the UPDATE it has sent
  row,        \* workers.status
  shutdown,   \* where gracefulShutdown is
  timeUp,     \* it has waited maxWaitMs
  before,     \* the jobs that were executing when it began
  late,       \* the executions started since
  errors, losses

jobVars == <<job, stray>>
loopVars == <<loop, claimed>>
limiterVars == <<inFlight, running, waiting, executing>>
sleepVars == <<wakePoll, pollTimer, armed>>
eventVars == <<listening, notified>>
workerVars == <<heartbeat, row>>
shutdownVars == <<shutdown, timeUp, before, late>>
boundVars == <<errors, losses>>
vars == <<jobVars, loopVars, limiterVars, sleepVars, eventVars, workerVars,
          shutdownVars, boundVars>>

Sleepers == {"poll", "shutdown"}

TypeOK ==
  /\ job \in [Jobs -> {"absent", "queued", "claimed", "done"}] /\ stray \subseteq Jobs
  /\ loop \in {"check", "claim", "return", "sleep", "ended"}
  /\ claimed \in Jobs \cup {None}
  /\ inFlight \in 0 .. MaxParallel /\ running \in 0 .. MaxParallel
  /\ waiting \in Seq(Jobs) /\ executing \subseteq Jobs
  /\ wakePoll \in Sleepers \cup {None} /\ pollTimer \in Sleepers \cup {None}
  /\ armed \subseteq Sleepers
  /\ listening \in BOOLEAN /\ notified \in BOOLEAN
  /\ heartbeat \in [timer : BOOLEAN, sent : {None, "idle", "busy"}]
  /\ row \in {"idle", "busy", "offline"}
  /\ shutdown \in {"no", "unlisten", "wait", "sleep", "offline", "exit",
                   "exited", "died"}
  /\ timeUp \in BOOLEAN
  /\ before \subseteq Jobs /\ late \in Nat
  /\ errors \in 0 .. MaxErrors /\ losses \in 0 .. MaxLosses

\* start() has registered the worker and called pollLoop().
Init ==
  /\ job = [j \in Jobs |-> "absent"] /\ stray = {}
  /\ loop = "check" /\ claimed = None
  /\ inFlight = 0 /\ running = 0 /\ waiting = <<>> /\ executing = {}
  /\ wakePoll = None /\ pollTimer = None /\ armed = {}
  /\ listening = TRUE /\ notified = FALSE
  /\ heartbeat = [timer |-> TRUE, sent |-> None]
  /\ row = "idle"
  /\ shutdown = "no" /\ timeUp = FALSE /\ before = {} /\ late = 0
  /\ errors = 0 /\ losses = 0

Alive == shutdown \notin {"exited", "died"}
ShuttingDown == shutdown # "no"

Fails == errors < MaxErrors /\ errors' = errors + 1 /\ UNCHANGED losses
-----------------------------------------------------------------------------
(* sleep, its timer and its callback.  Who sleeps goes on where Resume says. *)

Sleep(who) ==
  /\ wakePoll' = who
  /\ pollTimer' = who
  /\ armed' = armed \cup {who}

Resume(who) ==
  /\ loop' = IF who = "poll" THEN "check" ELSE loop
  /\ shutdown' = IF who = "shutdown" THEN "wait" ELSE shutdown
  /\ UNCHANGED claimed

Fire(who) ==
  /\ Alive /\ who \in armed
  /\ armed' = armed \ {who}
  /\ wakePoll' = None /\ pollTimer' = None
  /\ Resume(who)
  /\ UNCHANGED <<jobVars, limiterVars, eventVars, workerVars, timeUp, before, late, boundVars>>

\* Mutant: the callback clears the timer, and nobody resolves the promise.
WakeWithoutResolve ==
  /\ Alive /\ listening /\ notified
  /\ notified' = FALSE
  /\ armed' = armed \ {pollTimer}
  /\ wakePoll' = None
  /\ pollTimer' = None
  /\ UNCHANGED <<jobVars, listening, loopVars, limiterVars, workerVars, shutdownVars, boundVars>>

\* A notification arrives.  It does nothing to a loop that does not sleep.
Notification ==
  /\ Alive /\ listening /\ notified
  /\ notified' = FALSE
  /\ IF wakePoll # None
       THEN /\ armed' = armed \ {pollTimer}
            /\ wakePoll' = None /\ pollTimer' = None
            /\ Resume(wakePoll)
       ELSE UNCHANGED <<sleepVars, loopVars, shutdown>>
  /\ UNCHANGED <<jobVars, listening, limiterVars, workerVars, timeUp, before, late, boundVars>>

\* client.on('error'): a connection lost during UNLISTEN is released twice,
\* and the second time through a null eventClient.
ListenerLost ==
  /\ Alive /\ listening
  /\ losses < MaxLosses /\ losses' = losses + 1
  /\ listening' = FALSE
  /\ notified' = FALSE
  /\ shutdown' = IF shutdown = "unlisten" THEN "died" ELSE shutdown
  /\ UNCHANGED <<jobVars, loopVars, limiterVars, sleepVars, workerVars, timeUp, before,
                 late, errors>>

\* A job becomes due: with a NOTIFY when it is created or released, without
\* one when its run_at passes.
BecomesDue(j) ==
  /\ job[j] = "absent"
  /\ job' = [job EXCEPT ![j] = "queued"]
  /\ notified' \in {notified, listening}
  /\ UNCHANGED <<stray, loopVars, limiterVars, sleepVars, listening, workerVars,
                 shutdownVars, boundVars>>
-----------------------------------------------------------------------------
(* pollLoop. *)

\* Mutant: a loop that never looks at shuttingDown.
PollRegardless ==
  /\ Alive /\ loop = "check"
  /\ \/ inFlight < MaxParallel /\ loop' = "claim" /\ UNCHANGED sleepVars
     \/ inFlight >= MaxParallel /\ loop' = "sleep" /\ Sleep("poll")
  /\ UNCHANGED <<jobVars, claimed, limiterVars, eventVars, workerVars, shutdownVars, boundVars>>

Poll ==
  /\ Alive /\ loop = "check"
  /\ \/ ShuttingDown /\ loop' = "ended" /\ UNCHANGED sleepVars
     \/ ~ShuttingDown /\ inFlight < MaxParallel /\ loop' = "claim" /\ UNCHANGED sleepVars
     \/ ~ShuttingDown /\ inFlight >= MaxParallel /\ loop' = "sleep" /\ Sleep("poll")
  /\ UNCHANGED <<jobVars, claimed, limiterVars, eventVars, workerVars, shutdownVars, boundVars>>

\* claimNextJob in the database, and its answer.
ClaimCommits(j) ==
  /\ Alive /\ loop = "claim" /\ job[j] = "queued"
  /\ job' = [job EXCEPT ![j] = "claimed"]
  /\ loop' = "return" /\ claimed' = j
  /\ UNCHANGED <<stray, limiterVars, sleepVars, eventVars, workerVars, shutdownVars, boundVars>>

ClaimFindsNothing ==
  /\ Alive /\ loop = "claim"
  /\ \A j \in Jobs : job[j] # "queued"
  /\ loop' = "sleep" /\ Sleep("poll")
  /\ UNCHANGED <<jobVars, claimed, limiterVars, eventVars, workerVars, shutdownVars, boundVars>>

\* A statement of the claim throws, and the worker has no job.  When it is the
\* COMMIT whose answer is lost, the database has claimed one.
ClaimThrows ==
  /\ Alive /\ loop = "claim"
  /\ Fails
  /\ \/ UNCHANGED jobVars
     \/ \E j \in Jobs : /\ job[j] = "queued"
                        /\ job' = [job EXCEPT ![j] = "claimed"]
                        /\ stray' = stray \cup {j}
  /\ loop' = "sleep" /\ Sleep("poll")
  /\ UNCHANGED <<claimed, limiterVars, eventVars, workerVars, shutdownVars>>

\* limit(): the job runs, or waits for one of concurrency to end.
Limit(j) ==
  \/ /\ running < MaxParallel
     /\ running' = running + 1
     /\ executing' = executing \cup {j}
     /\ UNCHANGED waiting
  \/ /\ running >= MaxParallel
     /\ waiting' = Append(waiting, j)
     /\ UNCHANGED <<running, executing>>

\* Mutant: a claim that returns after the signal is dropped.
DispatchUnlessStopping ==
  /\ Alive /\ loop = "return"
  /\ IF ShuttingDown THEN UNCHANGED limiterVars
                     ELSE inFlight' = inFlight + 1 /\ Limit(claimed)
  /\ loop' = "check" /\ claimed' = None
  /\ UNCHANGED <<jobVars, sleepVars, eventVars, workerVars, shutdownVars, boundVars>>

Dispatch ==
  /\ Alive /\ loop = "return"
  /\ inFlight' = inFlight + 1
  /\ Limit(claimed)
  /\ late' = late + (IF ShuttingDown THEN 1 ELSE 0)
  /\ loop' = "check" /\ claimed' = None
  /\ UNCHANGED <<jobVars, sleepVars, eventVars, workerVars, shutdown, timeUp, before, boundVars>>

ClaimNextJob == ClaimFindsNothing \/ \E j \in Jobs : ClaimCommits(j)

\* executeJob returns or throws; finally, and the limiter's finally.
ExecutionEnds(j) ==
  /\ Alive /\ j \in executing
  /\ job' = [job EXCEPT ![j] = "done"]
  /\ inFlight' = inFlight - 1
  /\ IF waiting = <<>>
       THEN /\ running' = running - 1
            /\ executing' = executing \ {j}
            /\ UNCHANGED waiting
       ELSE /\ executing' = (executing \ {j}) \cup {Head(waiting)}
            /\ waiting' = Tail(waiting)
            /\ UNCHANGED running
  /\ UNCHANGED <<stray, loopVars, sleepVars, eventVars, workerVars, shutdownVars, boundVars>>
-----------------------------------------------------------------------------
(* The heartbeat: its UPDATE is sent, and reaches the row later. *)

HeartbeatSent ==
  /\ Alive /\ heartbeat.timer /\ heartbeat.sent = None
  /\ heartbeat' = [heartbeat EXCEPT !.sent = IF inFlight > 0 THEN "busy" ELSE "idle"]
  /\ UNCHANGED <<jobVars, loopVars, limiterVars, sleepVars, eventVars, row, shutdownVars, boundVars>>

HeartbeatArrives ==
  /\ heartbeat.sent # None
  /\ heartbeat' = [heartbeat EXCEPT !.sent = None]
  /\ \/ row' = heartbeat.sent /\ UNCHANGED boundVars
     \/ Fails /\ UNCHANGED row
  /\ UNCHANGED <<jobVars, loopVars, limiterVars, sleepVars, eventVars, shutdownVars>>
-----------------------------------------------------------------------------
(* gracefulShutdown.  A second signal finds shuttingDown set and returns. *)

Signal ==
  /\ Alive /\ ~ShuttingDown
  /\ heartbeat' = [heartbeat EXCEPT !.timer = FALSE]
  /\ armed' = armed \ {pollTimer}
  /\ pollTimer' = None
  /\ shutdown' = IF listening THEN "unlisten" ELSE "wait"
  /\ before' = executing
  /\ UNCHANGED <<jobVars, loopVars, limiterVars, wakePoll, eventVars, row, timeUp,
                 late, boundVars>>

Unlisten ==
  /\ shutdown = "unlisten"
  /\ listening' = FALSE /\ notified' = FALSE
  /\ shutdown' = "wait"
  /\ UNCHANGED <<jobVars, loopVars, limiterVars, sleepVars, workerVars, timeUp, before,
                 late, boundVars>>

TimeUp ==
  /\ shutdown \in {"wait", "sleep"} /\ ~timeUp
  /\ timeUp' = TRUE
  /\ UNCHANGED <<jobVars, loopVars, limiterVars, sleepVars, eventVars, workerVars,
                 shutdown, before, late, boundVars>>

\* Mutants: no timeout, and an off-by-one.
WaitForAll == inFlight > 0
WaitForOthers == inFlight > 1 /\ ~timeUp

MustWait == inFlight > 0 /\ ~timeUp

Wait ==
  /\ shutdown = "wait"
  /\ \/ MustWait /\ shutdown' = "sleep" /\ Sleep("shutdown")
     \/ ~MustWait /\ shutdown' = "offline" /\ UNCHANGED sleepVars
  /\ UNCHANGED <<jobVars, loopVars, limiterVars, eventVars, workerVars, timeUp, before,
                 late, boundVars>>

MarkOffline ==
  /\ shutdown = "offline"
  /\ \/ row' = "offline" /\ UNCHANGED boundVars
     \/ Fails /\ UNCHANGED row
  /\ shutdown' = "exit"
  /\ UNCHANGED <<jobVars, loopVars, limiterVars, sleepVars, eventVars, heartbeat, timeUp,
                 before, late>>

Exit ==
  /\ shutdown = "exit"
  /\ shutdown' = "exited"
  /\ UNCHANGED <<jobVars, loopVars, limiterVars, sleepVars, eventVars, workerVars,
                 timeUp, before, late, boundVars>>

GracefulShutdown == Unlisten \/ Wait \/ MarkOffline \/ Exit

Next ==
  \/ \E who \in Sleepers : Fire(who)
  \/ Notification \/ ListenerLost
  \/ Poll \/ ClaimNextJob \/ ClaimThrows \/ Dispatch
  \/ \E j \in Jobs : BecomesDue(j) \/ ExecutionEnds(j)
  \/ HeartbeatSent \/ HeartbeatArrives
  \/ Signal \/ GracefulShutdown \/ TimeUp

Spec == Init /\ [][Next]_vars

(* Timers fire, queries are answered, handlers return but for the hanging
   ones, and time passes.  No signal, notification or heartbeat is owed. *)
Fairness ==
  /\ \A who \in Sleepers : WF_vars(Fire(who))
  /\ WF_vars(Poll) /\ WF_vars(ClaimNextJob) /\ WF_vars(Dispatch)
  /\ \A j \in Jobs \ Hanging : WF_vars(ExecutionEnds(j))
  /\ WF_vars(GracefulShutdown) /\ WF_vars(TimeUp)

FairSpec == Spec /\ Fairness
-----------------------------------------------------------------------------
(* A job claimed for this process is being executed, or about to be returned
   by the claim, unless the claim's COMMIT threw after it took effect, at most
   one job for each error: none waits in the limiter and none is forgotten
   otherwise, shutdown or not. *)
ClaimedIsExecuted ==
  Alive => /\ {j \in Jobs : job[j] = "claimed"} = executing \cup ({claimed} \ {None}) \cup stray
           /\ executing \cap stray = {} /\ Cardinality(stray) <= errors
           /\ waiting = <<>> /\ running = inFlight

(* At most the one claim that is under way when the signal comes starts an
   execution after it. *)
OneLateStart == late <= 1

(* The types, and the one late start, in every state. *)
WorkerInv == TypeOK /\ OneLateStart

(* A job that was executing when the signal came has ended when the process
   exits, unless the time to wait was up. *)
InFlightFinish == shutdown = "exited" /\ ~timeUp => before \cap executing = {}

(* A due job is claimed, also when its NOTIFY comes while the loop does not
   sleep, or never: as long as one slot is free of hanging jobs, and until the
   process is told to stop. *)
PickedUp ==
  Cardinality(Hanging) < MaxParallel =>
    \A j \in Jobs : job[j] = "queued" ~> job[j] # "queued" \/ ShuttingDown

(* The signal ends the process, with hanging jobs too, and though the poll
   loop and the shutdown sleep through the same two fields. *)
ShutdownEnds == ShuttingDown ~> ~Alive

(* worker.ts:163: the shutdown waits for in-flight jobs to complete; no job is
   left to a process that has exited before the time was up. *)
NothingLeftBehind ==
  shutdown = "exited" /\ ~timeUp => \A j \in Jobs : job[j] = "claimed" => j \in stray
=============================================================================
