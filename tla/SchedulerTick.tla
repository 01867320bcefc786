---------------------------- MODULE SchedulerTick ----------------------------
(***************************************************************************)
(* schedulerTick of src/server/src/engine/scheduler.ts, one statement a    *)
(* step, as run by the timers of several API servers: the release of due   *)
(* scheduled jobs, and the dispatch of cron schedules, one insertion and   *)
(* one update each, under the lock 'scheduler:tick'.                       *)
(*                                                                         *)
(* A tick is one run of schedulerTick; the interval starts it again when   *)
(* it has ended.  Two ticks overlap when they belong to two servers, or to *)
(* one whose interval fires before the previous run has ended.  Of a cron  *)
(* schedule only the sequence of its occurrences matters: 1, 2, 3, ...     *)
(***************************************************************************)
EXTENDS Integers, Sequences, FiniteSets

CONSTANTS
  Ticks, Owners, NoOwner,
  TickOwner,    \* the ownerId each tick computes, `scheduler-${process.pid}`
  Schedules,    \* rows of scheduled_jobs
  NoSchedule,
  Jobs,         \* jobs created with status 'scheduled'
  RunAt,        \* their run_at
  MaxClock,     \* bound on the clock
  MaxErrors,    \* bound on queries that throw
  MaxCrashes,   \* bound on servers that die, each restarted at once
  MaxOverruns   \* bound on ticks that outlast the ten seconds of the lock

ASSUME OwnersAssumption == TickOwner \in [Ticks -> Owners] /\ NoOwner \notin Owners
ASSUME SchedulesAssumption == NoSchedule \notin Schedules
ASSUME JobsAssumption == RunAt \in [Jobs -> Nat]
ASSUME BoundsAssumption ==
  MaxClock \in Nat /\ MaxErrors \in Nat /\ MaxCrashes \in Nat /\ MaxOverruns \in Nat

VARIABLES
  holder, expired,  \* the lock
  clock,
  scheduled,   \* jobs still in status 'scheduled'
  first,       \* the occurrence each schedule started with, 0 before its creation
  next,        \* next_run_at
  dispatched,  \* the occurrences jobs were inserted for, in the order of insertion
  pc,          \* where each tick is
  read,        \* next_run_at as the tick's SELECT returned it
  todo,        \* dueSchedules not yet begun
  current,     \* the schedule being dispatched
  errors, crashes, overruns

lockVars == <<holder, expired>>
scheduleVars == <<first, next, dispatched>>
tickVars == <<pc, read, todo, current>>
faultVars == <<errors, crashes, overruns>>
vars == <<lockVars, clock, scheduled, scheduleVars, tickVars, faultVars>>

Key == "scheduler:tick"
L == INSTANCE DistributedLock WITH Keys <- {Key}

Times == 0 .. MaxClock + 1
Inside == {"flip", "select", "dispatch", "advance", "release"}

TypeOK ==
  /\ L!LockTypeOK
  /\ clock \in 0 .. MaxClock
  /\ scheduled \subseteq Jobs
  /\ first \in [Schedules -> Times]
  /\ next \in [Schedules -> Times]
  /\ dispatched \in [Schedules -> Seq(Times)]
  /\ pc \in [Ticks -> Inside \cup {"idle"}]
  /\ read \in [Ticks -> [Schedules -> Times]]
  /\ todo \in [Ticks -> SUBSET Schedules]
  /\ current \in [Ticks -> Schedules \cup {NoSchedule}]
  /\ \A t \in Ticks : pc[t] = "advance" => current[t] \in Schedules
  /\ errors \in 0 .. MaxErrors
  /\ crashes \in 0 .. MaxCrashes
  /\ overruns \in 0 .. MaxOverruns

Init ==
  /\ L!LockInit
  /\ clock = 0
  /\ scheduled = Jobs
  /\ first = [s \in Schedules |-> 0]
  /\ next = [s \in Schedules |-> 0]
  /\ dispatched = [s \in Schedules |-> <<>>]
  /\ pc = [t \in Ticks |-> "idle"]
  /\ read = [t \in Ticks |-> [s \in Schedules |-> 0]]
  /\ todo = [t \in Ticks |-> {}]
  /\ current = [t \in Ticks |-> NoSchedule]
  /\ errors = 0 /\ crashes = 0 /\ overruns = 0
-----------------------------------------------------------------------------
(* The outside: time, and POST /queues/:queueId/jobs of type 'recurring'. *)

PassTime ==
  /\ clock < MaxClock
  /\ clock' = clock + 1
  /\ UNCHANGED <<lockVars, scheduled, scheduleVars, tickVars, faultVars>>

\* interval.next() is the first occurrence after now.
Create(s) ==
  /\ first[s] = 0
  /\ first' = [first EXCEPT ![s] = clock + 1]
  /\ next' = [next EXCEPT ![s] = clock + 1]
  /\ UNCHANGED <<lockVars, clock, scheduled, dispatched, tickVars, faultVars>>

\* Mutant: the time has to be past.
IsPast(s) == first[s] > 0 /\ next[s] < clock

IsDue(s) == first[s] > 0 /\ next[s] <= clock
-----------------------------------------------------------------------------
(* Tick t. *)

Goto(t, there) == pc' = [pc EXCEPT ![t] = there] /\ UNCHANGED <<read, todo, current>>

\* The tick is over, or gone, and forgets what it read.
EndTick(t) == /\ pc' = [pc EXCEPT ![t] = "idle"]
              /\ read' = [read EXCEPT ![t] = [s \in Schedules |-> 0]]
              /\ todo' = [todo EXCEPT ![t] = {}]
              /\ current' = [current EXCEPT ![t] = NoSchedule]

\* A tick that is refused the lock returns, and no state remembers it.
Begin(t) ==
  /\ pc[t] = "idle"
  /\ L!Acquire(Key, TickOwner[t])
  /\ Goto(t, "flip")
  /\ UNCHANGED <<clock, scheduled, scheduleVars, faultVars>>

\* Mutant: the UPDATE takes the jobs whose time is strictly past.
FlipScheduledLate(t) ==
  /\ pc[t] = "flip"
  /\ scheduled' = {j \in scheduled : RunAt[j] >= clock}
  /\ Goto(t, "select")
  /\ UNCHANGED <<lockVars, clock, scheduleVars, faultVars>>

FlipScheduled(t) ==
  /\ pc[t] = "flip"
  /\ scheduled' = {j \in scheduled : RunAt[j] > clock}
  /\ Goto(t, "select")
  /\ UNCHANGED <<lockVars, clock, scheduleVars, faultVars>>

SelectDue(t) ==
  /\ pc[t] = "select"
  /\ read' = [read EXCEPT ![t] = next]
  /\ todo' = [todo EXCEPT ![t] = {s \in Schedules : IsDue(s)}]
  /\ pc' = [pc EXCEPT ![t] = "dispatch"]
  /\ UNCHANGED <<current, lockVars, clock, scheduled, scheduleVars, faultVars>>

InsertJob(t) ==
  /\ pc[t] = "dispatch"
  /\ \E s \in todo[t] :
       /\ dispatched' = [dispatched EXCEPT ![s] = Append(@, read[t][s])]
       /\ current' = [current EXCEPT ![t] = s]
       /\ todo' = [todo EXCEPT ![t] = @ \ {s}]
  /\ pc' = [pc EXCEPT ![t] = "advance"]
  /\ UNCHANGED <<read, first, next, lockVars, clock, scheduled, faultVars>>

\* Mutants: the next occurrence counted from now, which skips those missed in
\* between; an UPDATE of last_run_at alone.
AdvanceFromNow(t) ==
  /\ pc[t] = "advance"
  /\ next' = [next EXCEPT ![current[t]] = clock + 1]
  /\ current' = [current EXCEPT ![t] = NoSchedule]
  /\ pc' = [pc EXCEPT ![t] = "dispatch"]
  /\ UNCHANGED <<read, todo, first, dispatched, lockVars, clock, scheduled, faultVars>>
AdvanceNothing(t) ==
  /\ pc[t] = "advance"
  /\ current' = [current EXCEPT ![t] = NoSchedule]
  /\ pc' = [pc EXCEPT ![t] = "dispatch"]
  /\ UNCHANGED <<read, todo, scheduleVars, lockVars, clock, scheduled, faultVars>>

\* The occurrence after the one read, even when now is past it.
Advance(t) ==
  /\ pc[t] = "advance"
  /\ next' = [next EXCEPT ![current[t]] = read[t][current[t]] + 1]
  /\ current' = [current EXCEPT ![t] = NoSchedule]
  /\ pc' = [pc EXCEPT ![t] = "dispatch"]
  /\ UNCHANGED <<read, todo, first, dispatched, lockVars, clock, scheduled, faultVars>>

AllDispatched(t) ==
  /\ pc[t] = "dispatch" /\ todo[t] = {}
  /\ Goto(t, "release")
  /\ UNCHANGED <<lockVars, clock, scheduled, scheduleVars, faultVars>>

Finish(t) ==
  /\ pc[t] = "release"
  /\ L!Release(Key, TickOwner[t])
  /\ EndTick(t)
  /\ UNCHANGED <<clock, scheduled, scheduleVars, faultVars>>

Step(t) == \/ Begin(t) \/ FlipScheduled(t) \/ SelectDue(t) \/ InsertJob(t)
           \/ Advance(t) \/ AllDispatched(t) \/ Finish(t)
-----------------------------------------------------------------------------
(* Failures. *)

\* A query throws: in the loop, the catch block of the schedule's own try,
\* which goes on with the others; before it, the finally block; in the
\* release, nothing more.
QueryFails(t) ==
  /\ errors < MaxErrors /\ errors' = errors + 1
  /\ \/ pc[t] \in {"flip", "select"} /\ Goto(t, "release")
     \/ /\ pc[t] = "dispatch"
        /\ \E s \in todo[t] : todo' = [todo EXCEPT ![t] = @ \ {s}]
        /\ UNCHANGED <<pc, read, current>>
     \/ /\ pc[t] = "advance"
        /\ current' = [current EXCEPT ![t] = NoSchedule]
        /\ pc' = [pc EXCEPT ![t] = "dispatch"]
        /\ UNCHANGED <<read, todo>>
     \/ pc[t] = "release" /\ EndTick(t)
  /\ UNCHANGED <<lockVars, clock, scheduled, scheduleVars, crashes, overruns>>

\* The server of tick t dies, and is started again.
Crash(t) ==
  /\ pc[t] # "idle"
  /\ crashes < MaxCrashes /\ crashes' = crashes + 1
  /\ EndTick(t)
  /\ UNCHANGED <<lockVars, clock, scheduled, scheduleVars, errors, overruns>>

\* Ten seconds pass since the lock was taken.
ExpireLock ==
  /\ L!Expire(Key)
  /\ IF \E t \in Ticks : pc[t] \in Inside /\ TickOwner[t] = holder[Key]
     THEN overruns < MaxOverruns /\ overruns' = overruns + 1
     ELSE UNCHANGED overruns
  /\ UNCHANGED <<clock, scheduled, scheduleVars, tickVars, errors, crashes>>

Next ==
  \/ \E t \in Ticks : Step(t) \/ QueryFails(t) \/ Crash(t)
  \/ \E s \in Schedules : Create(s)
  \/ PassTime
  \/ ExpireLock

Spec == Init /\ [][Next]_vars

(* Every server's interval fires again and again and its ticks go on; a lock
   that nobody is using expires. *)
Fairness == (\A t \in Ticks : WF_vars(Step(t))) /\ WF_vars(ExpireLock)
FairSpec == Spec /\ Fairness
-----------------------------------------------------------------------------
Occurrences(s) == {dispatched[s][i] : i \in DOMAIN dispatched[s]}

(* No occurrence of a schedule is dispatched twice (README "without triggering
   duplicate cron dispatches"), but once more for each query that failed and
   each server that died: the insertion and the update are two statements. *)
NoDuplicateDispatch ==
  \A s \in Schedules :
    Len(dispatched[s]) - Cardinality(Occurrences(s)) <= errors + crashes

(* No occurrence is skipped, whatever fails: a schedule has moved past exactly
   the occurrences it has dispatched, in their order ("downtime is caught up
   one tick at a time"). *)
InSequence ==
  \A s \in Schedules :
    /\ first[s] .. next[s] - 1 \subseteq Occurrences(s)
    /\ \A i \in DOMAIN dispatched[s] :
         dispatched[s][i] \in first[s] .. next[s]

(* The types, and dispatch in sequence, in every state. *)
SchedulerInv == TypeOK /\ InSequence

(* A schedule never goes back to an occurrence it has moved past. *)
NeverBackwards == [][\A s \in Schedules : next'[s] >= next[s]]_vars

(* Every occurrence that comes is dispatched, with servers that die, queries
   that fail and locks left behind. *)
EveryOccurrence ==
  \A s \in Schedules, k \in 1 .. MaxClock :
    (first[s] \in 1 .. k /\ k <= clock) ~> k \in Occurrences(s)

(* A scheduled job whose time has come is released. *)
ReleasedWhenDue == \A j \in Jobs : RunAt[j] <= clock ~> j \notin scheduled
=============================================================================
