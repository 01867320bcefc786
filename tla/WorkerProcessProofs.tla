------------------------- MODULE WorkerProcessProofs -------------------------
(***************************************************************************)
(* One worker process, for any number of slots, jobs, errors and lost      *)
(* listeners: what it has claimed is executed and waits nowhere, at most   *)
(* one execution starts after the signal, and the shutdown leaves no job   *)
(* that was executing when the signal came, unless its time was up.        *)
(***************************************************************************)
EXTENDS WorkerProcess, FiniteSetTheorems, TLAPS

USE JobsAssumption, LimitsAssumption

(* The limiter: it has as many executions as it counts, and a loop that is *)
(* in a claim has a slot for what comes back. claimNextJob has one job to  *)
(* return, which is nowhere else yet.                                      *)
LimiterInv ==
  /\ IsFiniteSet(executing) /\ inFlight = Cardinality(executing)
  /\ running = inFlight /\ waiting = <<>>
  /\ loop \in {"claim", "return"} => inFlight < MaxParallel
  /\ loop = "return" <=> claimed # None
  /\ claimed \notin executing \cup stray /\ executing \cap stray = {}
  /\ {j \in Jobs : job[j] = "claimed"} = executing \cup ({claimed} \ {None}) \cup stray
  /\ IsFiniteSet(stray) /\ Cardinality(stray) <= errors

(* A timer that will fire, and the callback a notification calls, belong to *)
(* one that still sleeps: waking clears both. The signal clears the timer   *)
(* of a sleeping poll loop and leaves its callback.                         *)
SleepInv ==
  /\ "shutdown" \in armed => shutdown = "sleep"
  /\ wakePoll = "shutdown" => pollTimer = "shutdown" /\ shutdown = "sleep"
  /\ "poll" \in armed \/ wakePoll = "poll" => loop = "sleep"
  /\ wakePoll = "poll" =>
       \/ pollTimer = "poll"
       \/ pollTimer = None /\ "poll" \notin armed /\ ShuttingDown

(* A loop that has the signal behind it does not go back to a claim.       *)
LateInv ==
  /\ late <= 1
  /\ ~ShuttingDown \/ loop \in {"claim", "return"} => late = 0

(* The jobs the shutdown found executing end and are not claimed again.    *)
BeforeInv ==
  /\ \A j \in before : j \in executing \/ job[j] = "done"
  /\ shutdown \in {"offline", "exit", "exited"} /\ ~timeUp => before \cap executing = {}

ProcessInv == TypeOK /\ LimiterInv /\ SleepInv /\ LateInv /\ BeforeInv

LEMMA InitInv == Init => ProcessInv
<1> SUFFICES ASSUME Init PROVE ProcessInv
  OBVIOUS
<1>1. TypeOK
  <2> USE DEF Init
  <2>1. /\ job \in [Jobs -> {"absent", "queued", "claimed", "done"}] /\ stray \subseteq Jobs
        /\ loop = "check" /\ claimed \in Jobs \cup {None}
    OBVIOUS
  <2>2. inFlight \in 0 .. MaxParallel /\ running \in 0 .. MaxParallel
    OBVIOUS
  <2>3. waiting \in Seq(Jobs) /\ executing \subseteq Jobs
    OBVIOUS
  <2>4. /\ wakePoll \in Sleepers \cup {None} /\ pollTimer \in Sleepers \cup {None}
        /\ armed \subseteq Sleepers /\ listening \in BOOLEAN /\ notified \in BOOLEAN
    OBVIOUS
  <2>5. heartbeat \in [timer : BOOLEAN, sent : {None, "idle", "busy"}]
    OBVIOUS
  <2>6. row = "idle" /\ shutdown = "no" /\ timeUp \in BOOLEAN
    OBVIOUS
  <2>7. /\ before \subseteq Jobs /\ late \in Nat
        /\ errors \in 0 .. MaxErrors /\ losses \in 0 .. MaxLosses
    OBVIOUS
  <2>8. QED
    BY <2>1, <2>2, <2>3, <2>4, <2>5, <2>6, <2>7 DEF TypeOK
<1>2. LimiterInv
  BY FS_EmptySet DEF Init, LimiterInv, None
<1>3. SleepInv /\ LateInv /\ BeforeInv
  BY DEF Init, SleepInv, LateInv, BeforeInv, ShuttingDown, None
<1>4. QED
  BY <1>1, <1>2, <1>3 DEF ProcessInv

USE DEF ProcessInv, jobVars, loopVars, limiterVars, sleepVars, eventVars, workerVars, shutdownVars,
        boundVars

\* The types of what the loop, the sleeps and the shutdown move.
ControlTypes ==
  /\ loop \in {"check", "claim", "return", "sleep", "ended"}
  /\ wakePoll \in Sleepers \cup {None} /\ pollTimer \in Sleepers \cup {None}
  /\ armed \subseteq Sleepers
  /\ listening \in BOOLEAN /\ notified \in BOOLEAN
  /\ shutdown \in {"no", "unlisten", "wait", "sleep", "offline", "exit",
                   "exited", "died"}
  /\ timeUp \in BOOLEAN
  /\ errors \in 0 .. MaxErrors /\ losses \in 0 .. MaxLosses

LEMMA ControlTyped == TypeOK => ControlTypes
  BY DEF TypeOK, ControlTypes

LEMMA ControlStep ==
  ASSUME TypeOK, UNCHANGED <<jobVars, claimed, limiterVars, heartbeat, before, late>>,
         row' \in {row, "offline"}, ControlTypes'
  PROVE  TypeOK'
  BY DEF TypeOK, ControlTypes

\* An error more leaves the limiter and the stray jobs as they are.
LEMMA LimiterStep ==
  ASSUME TypeOK, LimiterInv, UNCHANGED <<jobVars, claimed, limiterVars>>,
         errors' \in {errors, errors + 1},
         loop' = loop \/ (loop = "claim" /\ loop' = "sleep")
  PROVE  LimiterInv'
<1>1. Cardinality(stray') <= errors'
  <2>1. Cardinality(stray) \in Nat /\ errors \in Nat /\ Cardinality(stray) <= errors
    BY FS_CardinalityType DEF LimiterInv, TypeOK
  <2>2. stray' = stray
    OBVIOUS
  <2>3. QED
    BY <2>1, <2>2
<1>2. loop' \in {"claim", "return"} => loop \in {"claim", "return"}
  OBVIOUS
<1>3. QED
  BY <1>1, <1>2 DEF LimiterInv

LEMMA FireInv ==
  ASSUME ProcessInv, NEW who \in Sleepers, Fire(who)
  PROVE  ProcessInv'
<1> USE DEF Fire, Resume
<1>1. TypeOK'
  BY DEF TypeOK, Sleepers
<1>2. LimiterInv'
  <2>1. loop' # loop => loop = "sleep" /\ loop' = "check"
    BY DEF SleepInv, Sleepers
  <2>2. QED
    BY <2>1 DEF LimiterInv
<1>3. SleepInv' /\ LateInv' /\ BeforeInv'
  BY DEF SleepInv, LateInv, BeforeInv, ShuttingDown, Sleepers, None
<1>4. QED
  BY <1>1, <1>2, <1>3

LEMMA NotificationInv ==
  ASSUME ProcessInv, Notification
  PROVE  ProcessInv'
<1> USE DEF Notification, Resume
<1>1. TypeOK'
  <2>1. ControlTypes'
    BY ControlTyped DEF Sleepers, None, ControlTypes
  <2>2. QED
    BY <2>1, ControlStep
<1>2. LimiterInv'
  <2>1. loop' # loop => loop = "sleep" /\ loop' = "check"
    BY DEF SleepInv
  <2>2. QED
    BY <2>1 DEF LimiterInv
<1>3. SleepInv' /\ LateInv' /\ BeforeInv'
  BY DEF SleepInv, LateInv, BeforeInv, ShuttingDown, Sleepers, TypeOK, None
<1>4. QED
  BY <1>1, <1>2, <1>3

LEMMA ListenerLostInv ==
  ASSUME ProcessInv, ListenerLost
  PROVE  ProcessInv'
<1> USE DEF ListenerLost
<1>1. TypeOK'
  <2>1. losses' \in 0 .. MaxLosses
    BY DEF TypeOK
  <2>2. listening' \in BOOLEAN /\ notified' \in BOOLEAN
    OBVIOUS
  <2>3. ControlTypes'
    BY <2>1, <2>2, ControlTyped DEF ControlTypes
  <2>4. QED
    BY <2>3, ControlStep
<1>2. LimiterInv'
  BY DEF LimiterInv
<1>3. SleepInv' /\ LateInv' /\ BeforeInv'
  BY DEF SleepInv, LateInv, BeforeInv, ShuttingDown
<1>4. QED
  BY <1>1, <1>2, <1>3

\* The poll loop goes to sleep.
LEMMA SleepPollInv ==
  ASSUME SleepInv, Sleep("poll"), loop' = "sleep", UNCHANGED shutdown
  PROVE  SleepInv'
  BY DEF SleepInv, Sleep, ShuttingDown

LEMMA PollInv ==
  ASSUME ProcessInv, Poll
  PROVE  ProcessInv'
<1> USE DEF Poll, Sleep
<1>1. TypeOK'
  <2>1. ControlTypes'
    BY ControlTyped DEF Sleepers, None, ControlTypes
  <2>2. QED
    BY <2>1, ControlStep
<1>2. LimiterInv'
  BY DEF LimiterInv, TypeOK
<1>3. SleepInv'
  BY SleepPollInv DEF SleepInv, ShuttingDown
<1>4. LateInv' /\ BeforeInv'
  BY DEF LateInv, BeforeInv, ShuttingDown
<1>5. QED
  BY <1>1, <1>2, <1>3, <1>4

LEMMA ClaimCommitsInv ==
  ASSUME ProcessInv, NEW j \in Jobs, ClaimCommits(j)
  PROVE  ProcessInv'
<1> USE DEF ClaimCommits
<1>1. TypeOK'
  BY DEF TypeOK
<1>2. LimiterInv'
  <2>1. j # None /\ j \notin executing /\ claimed = None
    BY DEF LimiterInv, TypeOK
  <2>2. {k \in Jobs : job'[k] = "claimed"} = {k \in Jobs : job[k] = "claimed"} \cup {j}
    BY DEF TypeOK
  <2>3. QED
    BY <2>1, <2>2 DEF LimiterInv
<1>3. SleepInv' /\ LateInv' /\ BeforeInv'
  BY DEF SleepInv, LateInv, BeforeInv, ShuttingDown, TypeOK
<1>4. QED
  BY <1>1, <1>2, <1>3

\* A claim that comes back with nothing and has done nothing.
NoClaim == ClaimFindsNothing \/ (ClaimThrows /\ UNCHANGED jobVars)
LEMMA NoClaimInv ==
  ASSUME ProcessInv, NoClaim
  PROVE  ProcessInv'
<1> USE DEF NoClaim, ClaimFindsNothing, ClaimThrows, Fails, Sleep
<1>1. TypeOK'
  <2>1. ControlTypes'
    BY ControlTyped DEF Sleepers, None, ControlTypes
  <2>2. QED
    BY <2>1, ControlStep
<1>2. LimiterInv'
  BY LimiterStep
<1>3. SleepInv'
  BY SleepPollInv
<1>4. LateInv' /\ BeforeInv'
  BY DEF LateInv, BeforeInv, ShuttingDown
<1>5. QED
  BY <1>1, <1>2, <1>3, <1>4

\* A claim that throws after its COMMIT took effect: a stray job, one error.
LEMMA StrayInv ==
  ASSUME ProcessInv, ClaimThrows, ~UNCHANGED jobVars
  PROVE  ProcessInv'
<1>1. PICK j \in Jobs : /\ job[j] = "queued" /\ job' = [job EXCEPT ![j] = "claimed"]
                       /\ stray' = stray \cup {j}
  BY DEF ClaimThrows
<1>2. /\ errors < MaxErrors /\ errors' = errors + 1
      /\ loop = "claim" /\ loop' = "sleep" /\ Sleep("poll")
      /\ UNCHANGED <<losses, claimed, limiterVars, eventVars, workerVars, shutdownVars>>
  BY DEF ClaimThrows, Fails
<1>3. TypeOK'
  <2>1. job' \in [Jobs -> {"absent", "queued", "claimed", "done"}] /\ stray' \subseteq Jobs
    BY <1>1 DEF TypeOK
  <2>2. ControlTypes'
    BY <1>2, ControlTyped DEF ControlTypes, Sleep, Sleepers, None, TypeOK
  <2>3. QED
    BY <1>2, <2>1, <2>2 DEF TypeOK, ControlTypes
<1>4. LimiterInv'
  <2>1. j # None /\ j \notin executing /\ j \notin stray /\ claimed = None
    BY <1>1, <1>2 DEF LimiterInv, TypeOK
  <2>2. {k \in Jobs : job'[k] = "claimed"} = {k \in Jobs : job[k] = "claimed"} \cup {j}
    BY <1>1 DEF TypeOK
  <2>3. IsFiniteSet(stray') /\ Cardinality(stray') = Cardinality(stray) + 1
    BY <1>1, <2>1, FS_AddElement DEF LimiterInv
  <2>4. Cardinality(stray') <= errors'
    <3>1. Cardinality(stray) \in Nat /\ errors \in Nat /\ Cardinality(stray) <= errors
      BY FS_CardinalityType DEF LimiterInv, TypeOK
    <3>2. QED
      BY <1>2, <2>3, <3>1
  <2>5. {k \in Jobs : job'[k] = "claimed"} = executing' \cup ({claimed'} \ {None}) \cup stray'
    BY <1>1, <1>2, <2>2 DEF LimiterInv
  <2>6. claimed' \notin executing' \cup stray' /\ executing' \cap stray' = {}
    BY <1>1, <1>2, <2>1 DEF LimiterInv
  <2>7. QED
    BY <1>2, <2>1, <2>3, <2>4, <2>5, <2>6 DEF LimiterInv
<1>5. SleepInv'
  BY <1>2, SleepPollInv
<1>6. LateInv'
  BY <1>2 DEF LateInv, ShuttingDown
<1>7. BeforeInv'
  BY <1>1, <1>2 DEF BeforeInv, TypeOK
<1>8. QED
  BY <1>3, <1>4, <1>5, <1>6, <1>7

\* The loop has claimed only with a slot free, so that the job waits nowhere.
LEMMA DispatchInv ==
  ASSUME ProcessInv, Dispatch
  PROVE  ProcessInv'
<1>1. /\ claimed \in Jobs /\ claimed \notin executing /\ inFlight < MaxParallel
      /\ running = inFlight /\ waiting = <<>> /\ inFlight \in Nat
      /\ loop = "return"
  BY DEF LimiterInv, TypeOK, Dispatch
<1>2. /\ executing' = executing \cup {claimed} /\ running' = running + 1
      /\ waiting' = waiting /\ inFlight' = inFlight + 1
      /\ loop' = "check" /\ claimed' = None
      /\ UNCHANGED <<jobVars, sleepVars, eventVars, workerVars, shutdown, timeUp, before, boundVars>>
  BY <1>1 DEF Dispatch, Limit
<1>3. late' \in Nat /\ late' <= 1 /\ (~ShuttingDown => late' = 0)
  BY DEF Dispatch, LateInv, TypeOK, ShuttingDown
<1>4. IsFiniteSet(executing') /\ inFlight' = Cardinality(executing')
  BY <1>1, <1>2, FS_AddElement DEF LimiterInv
<1>5. TypeOK'
  BY <1>1, <1>2, <1>3 DEF TypeOK
<1>6. LimiterInv'
  BY <1>1, <1>2, <1>4 DEF LimiterInv, TypeOK
<1>7. SleepInv' /\ LateInv'
  BY <1>1, <1>2, <1>3 DEF SleepInv, LateInv, ShuttingDown
<1>8. BeforeInv'
  <2>1. claimed \notin before
    BY <1>1 DEF BeforeInv, LimiterInv
  <2>2. QED
    BY <1>2, <2>1 DEF BeforeInv
<1>9. QED
  BY <1>5, <1>6, <1>7, <1>8

LEMMA BecomesDueInv ==
  ASSUME ProcessInv, NEW j \in Jobs, BecomesDue(j)
  PROVE  ProcessInv'
<1> USE DEF BecomesDue
<1>1. TypeOK'
  BY DEF TypeOK
<1>2. LimiterInv'
  <2>1. {k \in Jobs : job'[k] = "claimed"} = {k \in Jobs : job[k] = "claimed"}
    BY DEF TypeOK
  <2>2. QED
    BY <2>1 DEF LimiterInv
<1>3. SleepInv' /\ LateInv' /\ BeforeInv'
  BY DEF SleepInv, LateInv, BeforeInv, ShuttingDown, TypeOK
<1>4. QED
  BY <1>1, <1>2, <1>3

LEMMA ExecutionEndsInv ==
  ASSUME ProcessInv, NEW j \in Jobs, ExecutionEnds(j)
  PROVE  ProcessInv'
<1>1. /\ j \in executing /\ j # claimed /\ j # None
      /\ running = inFlight /\ waiting = <<>>
  BY DEF LimiterInv, ExecutionEnds
<1>2. /\ executing' = executing \ {j} /\ running' = running - 1 /\ waiting' = waiting
      /\ inFlight' = inFlight - 1 /\ job' = [job EXCEPT ![j] = "done"]
      /\ UNCHANGED <<stray, loopVars, sleepVars, eventVars, workerVars, shutdownVars, boundVars>>
  BY <1>1 DEF ExecutionEnds
<1>3. IsFiniteSet(executing') /\ inFlight' = Cardinality(executing')
  BY <1>1, <1>2, FS_RemoveElement DEF LimiterInv
<1>4. inFlight' \in 0 .. MaxParallel
  BY <1>2, <1>3, FS_CardinalityType DEF TypeOK
<1>5. TypeOK'
  BY <1>1, <1>2, <1>4 DEF TypeOK
<1>6. LimiterInv'
  <2>1. {k \in Jobs : job'[k] = "claimed"} = {k \in Jobs : job[k] = "claimed"} \ {j}
    BY <1>2 DEF TypeOK
  <2>2. QED
    BY <1>1, <1>2, <1>3, <1>4, <2>1 DEF LimiterInv, TypeOK
<1>7. SleepInv' /\ LateInv'
  BY <1>2 DEF SleepInv, LateInv, ShuttingDown
<1>8. BeforeInv'
  BY <1>2 DEF BeforeInv, TypeOK
<1>9. QED
  BY <1>5, <1>6, <1>7, <1>8

LEMMA HeartbeatInv ==
  ASSUME ProcessInv, HeartbeatSent \/ HeartbeatArrives
  PROVE  ProcessInv'
<1> USE DEF HeartbeatSent, HeartbeatArrives, Fails
<1>1. TypeOK'
  BY DEF TypeOK, None
<1>2. LimiterInv'
  BY LimiterStep
<1>3. SleepInv' /\ LateInv' /\ BeforeInv'
  BY DEF SleepInv, LateInv, BeforeInv, ShuttingDown
<1>4. QED
  BY <1>1, <1>2, <1>3

\* The signal clears the timer of whoever sleeps; only the poll loop does.
LEMMA SignalInv ==
  ASSUME ProcessInv, Signal
  PROVE  ProcessInv'
<1> USE DEF Signal
<1>1. TypeOK'
  BY DEF TypeOK
<1>2. LimiterInv'
  BY DEF LimiterInv
<1>3. SleepInv' /\ LateInv' /\ BeforeInv'
  BY DEF SleepInv, LateInv, BeforeInv, ShuttingDown
<1>4. QED
  BY <1>1, <1>2, <1>3

LEMMA GracefulShutdownInv ==
  ASSUME ProcessInv, GracefulShutdown \/ TimeUp
  PROVE  ProcessInv'
<1> USE DEF GracefulShutdown, Unlisten, MarkOffline, Exit, TimeUp, Fails
<1>1. CASE Wait
  <2> USE <1>1 DEF Wait, Sleep
  <2>1. TypeOK'
    <3>1. ControlTypes'
      BY ControlTyped DEF Sleepers, None, ControlTypes
    <3>2. QED
      BY <3>1, ControlStep
  <2>2. LimiterInv'
    BY LimiterStep
  <2>3. SleepInv' /\ LateInv'
    BY DEF SleepInv, LateInv, ShuttingDown
  <2>4. ~MustWait /\ ~timeUp => executing = {}
    <3>1. Cardinality(executing) = 0 => executing = {}
      BY FS_EmptySet DEF LimiterInv
    <3>2. QED
      BY <3>1 DEF MustWait, LimiterInv, TypeOK
  <2>5. BeforeInv'
    BY <2>4 DEF BeforeInv
  <2>6. QED
    BY <2>1, <2>2, <2>3, <2>5
<1>2. CASE ~Wait
  <2> USE <1>2
  <2>1. TypeOK'
    <3>1. errors' \in 0 .. MaxErrors
      BY DEF TypeOK
    <3>2. listening' \in BOOLEAN /\ notified' \in BOOLEAN /\ timeUp' \in BOOLEAN
      BY DEF TypeOK
    <3>3. ControlTypes'
      BY <3>1, <3>2, ControlTyped DEF ControlTypes
    <3>4. QED
      BY <3>3, ControlStep
  <2>2. LimiterInv'
    BY LimiterStep
  <2>3. SleepInv' /\ LateInv' /\ BeforeInv'
    BY DEF SleepInv, LateInv, BeforeInv, ShuttingDown
  <2>4. QED
    BY <2>1, <2>2, <2>3
<1>3. QED
  BY <1>1, <1>2

LEMMA StutterInv == ProcessInv /\ UNCHANGED vars => ProcessInv'
<1> SUFFICES ASSUME ProcessInv, UNCHANGED vars PROVE ProcessInv'
  OBVIOUS
<1>1. TypeOK'
  BY DEF vars, TypeOK
<1>2. LimiterInv'
  BY DEF vars, LimiterInv
<1>3. SleepInv' /\ LateInv' /\ BeforeInv'
  BY DEF vars, SleepInv, LateInv, BeforeInv, ShuttingDown
<1>4. QED
  BY <1>1, <1>2, <1>3

LEMMA NextInv == ProcessInv /\ [Next]_vars => ProcessInv'
<1> SUFFICES ASSUME ProcessInv, [Next]_vars PROVE ProcessInv'
  OBVIOUS
<1>1. CASE \E who \in Sleepers : Fire(who)
  BY <1>1, FireInv
<1>2. CASE Notification \/ ListenerLost
  BY <1>2, NotificationInv, ListenerLostInv
<1>3. CASE Poll \/ ClaimNextJob \/ ClaimThrows \/ Dispatch
  BY <1>3, PollInv, ClaimCommitsInv, NoClaimInv, StrayInv, DispatchInv DEF ClaimNextJob, NoClaim
<1>4. CASE \E j \in Jobs : BecomesDue(j) \/ ExecutionEnds(j)
  BY <1>4, BecomesDueInv, ExecutionEndsInv
<1>5. CASE HeartbeatSent \/ HeartbeatArrives \/ Signal \/ GracefulShutdown \/ TimeUp
  BY <1>5, HeartbeatInv, SignalInv, GracefulShutdownInv
<1>6. CASE UNCHANGED vars
  BY <1>6, StutterInv
<1>7. QED
  BY <1>1, <1>2, <1>3, <1>4, <1>5, <1>6 DEF Next

LEMMA InvHolds == Spec => []ProcessInv
  BY InitInv, NextInv, PTL DEF Spec

(* Every job claimed for the process is executing, or about to be returned *)
(* by the claim, or was claimed by a COMMIT that took effect and threw, at *)
(* most one for each error (claimer.ts:74, 82); none waits in the limiter, *)
(* whose queue is never used, and no other is forgotten when the signal    *)
(* comes (engine/worker.ts, pollLoop).                                     *)
THEOREM ClaimedExecuted == Spec => []ClaimedIsExecuted
<1>1. ProcessInv => ClaimedIsExecuted
  BY DEF LimiterInv, ClaimedIsExecuted
<1>2. QED
  BY <1>1, InvHolds, PTL

(* The types hold, and one execution at most starts after the signal: the  *)
(* claim that was under way, for pollLoop looks at shuttingDown only at    *)
(* its head.                                                               *)
THEOREM WorkerSafe == Spec => []WorkerInv
<1>1. ProcessInv => WorkerInv
  BY DEF LateInv, WorkerInv, OneLateStart
<1>2. QED
  BY <1>1, InvHolds, PTL

(* gracefulShutdown exits before its time is up only when every job that   *)
(* was executing at the signal has ended.                                  *)
THEOREM ShutdownWaits == Spec => []InFlightFinish
<1>1. ProcessInv => InFlightFinish
  BY DEF BeforeInv, InFlightFinish
<1>2. QED
  BY <1>1, InvHolds, PTL
=============================================================================
