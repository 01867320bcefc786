------------------------- MODULE SchedulerTickProofs -------------------------
(***************************************************************************)
(* Dispatch of the cron schedules, for any number of servers, schedules,   *)
(* queries that throw and servers that die, as long as no two servers have *)
(* the same process id and no tick outlasts its lock.                      *)
(***************************************************************************)
EXTENDS SchedulerTick, SequenceTheorems, FiniteSetTheorems, TLAPS

OwnersDiffer == \A t, u \in Ticks : TickOwner[t] = TickOwner[u] => t = u

USE OwnersAssumption, SchedulesAssumption, JobsAssumption, BoundsAssumption
USE DEF lockVars, scheduleVars, tickVars, faultVars

\* A tick that is under way holds the lock.
LockInv ==
  \A t \in Ticks : pc[t] \in Inside => holder[Key] = TickOwner[t] /\ Key \notin expired

(* What a tick has read of a schedule it has still to advance is true: no  *)
(* other tick has moved it on in between.                                  *)
Fresh(t, s) == first[s] > 0 /\ read[t][s] = next[s] /\ next[s] <= clock

ReadInv ==
  \A t \in Ticks :
    /\ pc[t] \notin {"dispatch", "advance"} => todo[t] = {}
    /\ \A s \in todo[t] : Fresh(t, s)
    /\ pc[t] = "advance" => /\ current[t] \notin todo[t] /\ Fresh(t, current[t])
                            /\ next[current[t]] \in Occurrences(current[t])

(* A schedule has one row dispatched for each occurrence it has moved past,*)
(* one that it is going to move past, and one for each failure in between. *)
Pending(s) == \E t \in Ticks : pc[t] = "advance" /\ current[t] = s
Extra(s) == IF Pending(s) THEN 1 ELSE 0

SequenceInv(s) ==
  /\ first[s] = 0 => next[s] = 0 /\ dispatched[s] = <<>>
  /\ first[s] <= next[s]
  /\ first[s] .. next[s] - 1 \subseteq Occurrences(s)
  /\ \A i \in DOMAIN dispatched[s] : dispatched[s][i] \in first[s] .. next[s]
  /\ Len(dispatched[s]) <= (next[s] - first[s]) + errors + crashes + Extra(s)

TickInv ==
  TypeOK /\ LockInv /\ ReadInv /\ \A s \in Schedules : SequenceInv(s)

LEMMA InitInv == Init => TickInv
<1> SUFFICES ASSUME Init PROVE TickInv
  OBVIOUS
<1>1. TypeOK
  BY DEF Init, TypeOK, L!LockInit, L!LockTypeOK, Times
<1>2. LockInv /\ ReadInv
  BY DEF Init, LockInv, ReadInv, Inside
<1>3. \A s \in Schedules : SequenceInv(s)
  BY DEF Init, SequenceInv, Extra, Pending
<1>4. QED
  BY <1>1, <1>2, <1>3 DEF TickInv

LEMMA Alone ==
  ASSUME OwnersDiffer, TickInv, NEW t \in Ticks, pc[t] \in Inside,
         NEW u \in Ticks, pc[u] \in Inside
  PROVE  u = t
  BY DEF TickInv, LockInv, OwnersDiffer

LEMMA Numbers ==
  ASSUME TypeOK, NEW s \in Schedules
  PROVE  /\ first[s] \in Nat /\ next[s] \in Nat /\ next[s] <= MaxClock + 1
         /\ dispatched[s] \in Seq(Times) /\ Len(dispatched[s]) \in Nat
         /\ DOMAIN dispatched[s] = 1 .. Len(dispatched[s])
         /\ errors \in Nat /\ crashes \in Nat /\ clock \in Nat /\ Extra(s) \in {0, 1}
<1>1. dispatched[s] \in Seq(Times) /\ first[s] \in Times /\ next[s] \in Times
  BY DEF TypeOK
<1>2. Len(dispatched[s]) \in Nat /\ DOMAIN dispatched[s] = 1 .. Len(dispatched[s])
  BY <1>1, LenProperties
<1>3. errors \in Nat /\ crashes \in Nat /\ clock \in Nat
  BY DEF TypeOK
<1>4. QED
  BY <1>1, <1>2, <1>3 DEF Times, Extra

LEMMA Counted ==
  ASSUME NEW len \in Int, NEW d \in Int,
         NEW e \in Int, NEW c \in Int, NEW x \in Int,
         NEW ee \in Int, NEW cc \in Int, NEW xx \in Int,
         ee + cc + xx >= e + c + x, len <= d + e + c + x
  PROVE  len <= d + ee + cc + xx
  OBVIOUS

LEMMA OneMore ==
  ASSUME NEW e \in Nat, NEW c \in Nat, NEW x \in {0, 1},
         NEW ee \in Nat, NEW cc \in Nat, NEW xx \in {0, 1}, ee + cc = e + c + 1
  PROVE  ee + cc + xx >= e + c + x
  OBVIOUS

(* A schedule that a step does not touch stays in sequence, if the step    *)
(* that takes away its pending dispatch is a failure.                      *)
LEMMA ScheduleKept ==
  ASSUME TypeOK, NEW s \in Schedules, SequenceInv(s), TypeOK',
         first'[s] = first[s], next'[s] = next[s], dispatched'[s] = dispatched[s],
         errors' + crashes' + Extra(s)' >= errors + crashes + Extra(s)
  PROVE  SequenceInv(s)'
<1>1. Occurrences(s)' = Occurrences(s)
  BY DEF Occurrences
<1>2. /\ errors \in Nat /\ crashes \in Nat /\ errors' \in Nat /\ crashes' \in Nat
      /\ Extra(s) \in Nat /\ Extra(s)' \in Nat
      /\ first[s] \in Nat /\ next[s] \in Nat /\ Len(dispatched[s]) \in Nat
  <2>1. Extra(s) \in Nat /\ Extra(s)' \in Nat
    BY DEF Extra
  <2>2. errors' \in Nat /\ crashes' \in Nat
    BY DEF TypeOK
  <2>3. QED
    BY <2>1, <2>2, Numbers
<1>3. Len(dispatched'[s]) <= (next'[s] - first'[s]) + errors' + crashes' + Extra(s)'
  <2>1. Len(dispatched[s]) <= (next[s] - first[s]) + errors + crashes + Extra(s)
    BY DEF SequenceInv
  <2> DEFINE len == Len(dispatched[s])
             d == next[s] - first[s]
             x == Extra(s)
             xx == Extra(s)'
             e == errors'
             c == crashes'
  <2>2. /\ len \in Int /\ d \in Int /\ errors \in Int /\ crashes \in Int /\ x \in Int
        /\ e \in Int /\ c \in Int /\ xx \in Int
    BY <1>2
  <2>3. len <= d + errors + crashes + x
    BY <2>1
  <2>4. e + c + xx >= errors + crashes + x
    OBVIOUS
  <2> HIDE DEF len, d, x, xx, e, c
  <2>5. len <= d + e + c + xx
    BY <2>2, <2>3, <2>4, Counted
  <2>6. QED
    BY <2>5 DEF len, d, xx, e, c
<1>4. QED
  BY <1>1, <1>3 DEF SequenceInv

\* Ticks outside the dispatch, time and the creation of schedules.
LEMMA BeginInv ==
  ASSUME OwnersDiffer, TickInv, NEW t \in Ticks, Begin(t)
  PROVE  TickInv'
<1> USE DEF TickInv
<1>1. /\ pc[t] = "idle" /\ L!CanAcquire(Key, TickOwner[t])
      /\ holder' = [holder EXCEPT ![Key] = TickOwner[t]] /\ expired' = expired \ {Key}
      /\ pc' = [pc EXCEPT ![t] = "flip"]
      /\ UNCHANGED <<read, todo, current, clock, scheduled, scheduleVars, faultVars>>
  BY DEF Begin, L!Acquire, Goto
<1>2. TypeOK'
  BY <1>1 DEF TypeOK, L!LockTypeOK, Inside
<1>3. LockInv'
  BY <1>1 DEF LockInv, L!CanAcquire, OwnersDiffer, TypeOK, L!LockTypeOK, Inside
<1>4. ReadInv'
  BY <1>1 DEF ReadInv, Fresh, Occurrences, TypeOK
<1>5. \A s \in Schedules : Extra(s)' = Extra(s)
  BY <1>1 DEF Extra, Pending, TypeOK
<1>6. \A s \in Schedules : SequenceInv(s)'
  BY <1>1, <1>2, <1>5, ScheduleKept, Numbers
<1>7. QED
  BY <1>2, <1>3, <1>4, <1>6

LEMMA SelectDueInv ==
  ASSUME TickInv, NEW t \in Ticks, SelectDue(t)
  PROVE  TickInv'
<1> USE DEF TickInv
<1>1. /\ pc[t] = "select" /\ pc' = [pc EXCEPT ![t] = "dispatch"]
      /\ read' = [read EXCEPT ![t] = next]
      /\ todo' = [todo EXCEPT ![t] = {s \in Schedules : IsDue(s)}]
      /\ UNCHANGED <<current, lockVars, clock, scheduled, scheduleVars, faultVars>>
  BY DEF SelectDue
<1>2. TypeOK'
  BY <1>1 DEF TypeOK, L!LockTypeOK, Inside
<1>3. LockInv'
  BY <1>1 DEF LockInv, TypeOK, Inside
<1>4. ReadInv'
  <2> SUFFICES ASSUME NEW u \in Ticks
               PROVE  /\ pc'[u] \notin {"dispatch", "advance"} => todo'[u] = {}
                      /\ \A s \in todo'[u] : Fresh(u, s)'
                      /\ pc'[u] = "advance" =>
                           /\ current'[u] \notin todo'[u] /\ Fresh(u, current[u])'
                           /\ next'[current'[u]] \in Occurrences(current[u])'
    BY DEF ReadInv
  <2>1. CASE u = t
    BY <1>1, <2>1 DEF TypeOK, Fresh, IsDue
  <2>2. CASE u # t
    BY <1>1, <2>2 DEF ReadInv, Fresh, Occurrences, TypeOK
  <2>3. QED
    BY <2>1, <2>2
<1>5. \A s \in Schedules : Extra(s)' = Extra(s)
  BY <1>1 DEF Extra, Pending, TypeOK
<1>6. \A s \in Schedules : SequenceInv(s)'
  BY <1>1, <1>2, <1>5, ScheduleKept, Numbers
<1>7. QED
  BY <1>2, <1>3, <1>4, <1>6

LEMMA GoOnInv ==
  ASSUME TickInv, NEW t \in Ticks, FlipScheduled(t) \/ AllDispatched(t)
  PROVE  TickInv'
<1> USE DEF TickInv
<1>1. PICK there \in {"select", "release"} :
        /\ pc[t] \in {"flip", "dispatch"} /\ todo[t] = {}
        /\ pc' = [pc EXCEPT ![t] = there] /\ scheduled' \subseteq scheduled
        /\ UNCHANGED <<read, todo, current, lockVars, clock, scheduleVars, faultVars>>
  BY DEF FlipScheduled, AllDispatched, Goto, ReadInv
<1>2. TypeOK'
  BY <1>1 DEF TypeOK, L!LockTypeOK, Inside
<1>3. LockInv'
  BY <1>1 DEF LockInv, TypeOK, Inside
<1>4. ReadInv'
  BY <1>1 DEF ReadInv, Fresh, Occurrences, TypeOK
<1>5. \A s \in Schedules : Extra(s)' = Extra(s)
  BY <1>1 DEF Extra, Pending, TypeOK
<1>6. \A s \in Schedules : SequenceInv(s)'
  BY <1>1, <1>2, <1>5, ScheduleKept, Numbers
<1>7. QED
  BY <1>2, <1>3, <1>4, <1>6

LEMMA FinishInv ==
  ASSUME OwnersDiffer, TickInv, NEW t \in Ticks, Finish(t)
  PROVE  TickInv'
<1> USE DEF TickInv
<1>1. /\ pc[t] = "release" /\ holder[Key] = TickOwner[t]
      /\ holder' = [holder EXCEPT ![Key] = NoOwner] /\ expired' = expired \ {Key}
      /\ EndTick(t) /\ UNCHANGED <<clock, scheduled, scheduleVars, faultVars>>
  BY DEF Finish, L!Release, LockInv, Inside
<1>2. TypeOK'
  BY <1>1 DEF TypeOK, L!LockTypeOK, Inside, EndTick, Times
<1>3. LockInv'
  BY <1>1, Alone DEF EndTick, TypeOK, LockInv, Inside
<1>4. ReadInv'
  BY <1>1 DEF ReadInv, Fresh, Occurrences, TypeOK, EndTick
<1>5. \A s \in Schedules : Extra(s)' = Extra(s)
  BY <1>1 DEF Extra, Pending, TypeOK, EndTick
<1>6. \A s \in Schedules : SequenceInv(s)'
  BY <1>1, <1>2, <1>5, ScheduleKept, Numbers
<1>7. QED
  BY <1>2, <1>3, <1>4, <1>6

LEMMA OutsideInv ==
  ASSUME MaxOverruns = 0, TickInv, PassTime \/ ExpireLock \/ UNCHANGED vars
  PROVE  TickInv'
<1> USE DEF TickInv
<1>1. /\ UNCHANGED <<holder, scheduled, scheduleVars, tickVars, errors, crashes>>
      /\ clock' \in clock .. MaxClock
      /\ overruns' \in 0 .. MaxOverruns
  BY DEF PassTime, ExpireLock, L!Expire, vars, TypeOK
<1>2. \/ UNCHANGED expired
      \/ /\ expired' = expired \cup {Key} /\ holder[Key] # NoOwner
         /\ \A t \in Ticks : pc[t] \in Inside => TickOwner[t] # holder[Key]
  BY DEF PassTime, ExpireLock, L!Expire, vars, TypeOK
<1>3. TypeOK'
  <2>1. L!LockTypeOK'
    BY <1>1, <1>2 DEF TypeOK, L!LockTypeOK
  <2>2. clock' \in 0 .. MaxClock
    BY <1>1 DEF TypeOK
  <2>3. QED
    BY <1>1, <2>1, <2>2 DEF TypeOK
<1>4. LockInv'
  BY <1>1, <1>2 DEF LockInv
<1>5. ReadInv'
  <2>1. \A t \in Ticks, s \in Schedules : Fresh(t, s) => Fresh(t, s)'
    BY <1>1, Numbers DEF Fresh, TypeOK
  <2>2. QED
    BY <1>1, <2>1 DEF ReadInv, Occurrences, TypeOK
<1>6. \A s \in Schedules : Extra(s)' = Extra(s)
  BY <1>1 DEF Extra, Pending
<1>7. \A s \in Schedules : SequenceInv(s)'
  BY <1>1, <1>3, <1>6, ScheduleKept, Numbers
<1>8. QED
  BY <1>3, <1>4, <1>5, <1>7

LEMMA CreateInv ==
  ASSUME TickInv, NEW s \in Schedules, Create(s)
  PROVE  TickInv'
<1> USE DEF TickInv, Create
<1>1. first[s] = 0 /\ next[s] = 0 /\ dispatched[s] = <<>> /\ clock + 1 \in Times
      /\ first' = [first EXCEPT ![s] = clock + 1] /\ next' = [next EXCEPT ![s] = clock + 1]
  BY DEF SequenceInv, TypeOK, Times
<1>2. TypeOK'
  <2>1. first' \in [Schedules -> Times] /\ next' \in [Schedules -> Times]
    BY <1>1 DEF TypeOK
  <2>2. QED
    BY <2>1 DEF TypeOK, L!LockTypeOK
<1>3. LockInv'
  BY DEF LockInv
<1>4. ReadInv'
  BY <1>1 DEF ReadInv, Fresh, Occurrences, TypeOK
<1>5. \A k \in Schedules : Extra(k)' = Extra(k)
  BY DEF Extra, Pending
<1>6. ASSUME NEW k \in Schedules PROVE SequenceInv(k)'
  <2>1. CASE k # s
    <3>1. first'[k] = first[k] /\ next'[k] = next[k] /\ dispatched'[k] = dispatched[k]
      BY <1>1, <2>1 DEF TypeOK
    <3>2. errors' + crashes' + Extra(k)' >= errors + crashes + Extra(k)
      BY <1>5, Numbers
    <3>3. QED
      BY <1>2, <3>1, <3>2, ScheduleKept
  <2>2. CASE k = s
    <3>1. first'[s] = clock + 1 /\ next'[s] = clock + 1 /\ dispatched'[s] = <<>>
      BY <1>1 DEF TypeOK
    <3>2. Len(dispatched'[s]) = 0 /\ DOMAIN dispatched'[s] = {}
      BY <3>1
    <3>3. clock \in Nat /\ errors \in Nat /\ crashes \in Nat /\ Extra(s)' \in Nat
      BY <1>5, Numbers
    <3>4. QED
      BY <2>2, <3>1, <3>2, <3>3 DEF SequenceInv
  <2>3. QED
    BY <2>1, <2>2
<1>7. QED
  BY <1>2, <1>3, <1>4, <1>6

(* The INSERT: the schedule gets the occurrence that was read, which is    *)
(* the next one, and is the only one pending.                              *)
LEMMA InsertJobInv ==
  ASSUME OwnersDiffer, TickInv, NEW t \in Ticks, InsertJob(t)
  PROVE  TickInv'
<1> USE DEF TickInv
<1>1. PICK s \in todo[t] :
        /\ dispatched' = [dispatched EXCEPT ![s] = Append(@, read[t][s])]
        /\ current' = [current EXCEPT ![t] = s]
        /\ todo' = [todo EXCEPT ![t] = @ \ {s}]
  BY DEF InsertJob
<1>2. /\ pc[t] = "dispatch" /\ pc' = [pc EXCEPT ![t] = "advance"]
      /\ UNCHANGED <<read, first, next, lockVars, clock, scheduled, faultVars>>
  BY DEF InsertJob
<1>3. /\ s \in Schedules /\ first[s] > 0 /\ read[t][s] = next[s] /\ next[s] <= clock
      /\ next[s] \in Times
  BY <1>1 DEF TypeOK, ReadInv, Fresh
<1>4. \A u \in Ticks \ {t} : pc[u] \notin Inside
  BY <1>2, Alone DEF Inside
<1>5. /\ Append(dispatched[s], next[s]) \in Seq(Times)
      /\ Len(Append(dispatched[s], next[s])) = Len(dispatched[s]) + 1
      /\ DOMAIN Append(dispatched[s], next[s]) = 1 .. Len(dispatched[s]) + 1
      /\ \A i \in 1 .. Len(dispatched[s]) :
           Append(dispatched[s], next[s])[i] = dispatched[s][i]
      /\ Append(dispatched[s], next[s])[Len(dispatched[s]) + 1] = next[s]
  <2>1. dispatched[s] \in Seq(Times)
    BY <1>3, Numbers
  <2>2. QED
    BY <1>3, <2>1, AppendProperties, LenProperties
<1>6. dispatched' = [dispatched EXCEPT ![s] = Append(dispatched[s], next[s])]
  BY <1>1, <1>3
<1>7. dispatched'[s] = Append(dispatched[s], next[s])
  BY <1>3, <1>6 DEF TypeOK
<1>8. TypeOK'
  <2>1. dispatched' \in [Schedules -> Seq(Times)]
    BY <1>5, <1>6 DEF TypeOK
  <2>2. /\ todo' \in [Ticks -> SUBSET Schedules]
        /\ current' \in [Ticks -> Schedules \cup {NoSchedule}]
        /\ pc' \in [Ticks -> Inside \cup {"idle"}]
        /\ \A u \in Ticks : pc'[u] = "advance" => current'[u] \in Schedules
    BY <1>1, <1>2, <1>3 DEF TypeOK, Inside
  <2>3. QED
    BY <1>2, <2>1, <2>2 DEF TypeOK, L!LockTypeOK
<1>9. LockInv'
  BY <1>2 DEF LockInv, TypeOK, Inside
<1>10. Occurrences(s)' = Occurrences(s) \cup {next[s]}
  <2>1. \A i \in DOMAIN dispatched'[s] :
          \/ i \in DOMAIN dispatched[s] /\ dispatched'[s][i] = dispatched[s][i]
          \/ dispatched'[s][i] = next[s]
    BY <1>3, <1>5, <1>7, Numbers
  <2>2. \A i \in DOMAIN dispatched[s] :
          i \in DOMAIN dispatched'[s] /\ dispatched'[s][i] = dispatched[s][i]
    BY <1>3, <1>5, <1>7, Numbers
  <2>3. \E i \in DOMAIN dispatched'[s] : dispatched'[s][i] = next[s]
    BY <1>3, <1>5, <1>7, Numbers
  <2>4. QED
    BY <2>1, <2>2, <2>3 DEF Occurrences
<1>11. ReadInv'
  <2> SUFFICES ASSUME NEW u \in Ticks
               PROVE  /\ pc'[u] \notin {"dispatch", "advance"} => todo'[u] = {}
                      /\ \A k \in todo'[u] : Fresh(u, k)'
                      /\ pc'[u] = "advance" =>
                           /\ current'[u] \notin todo'[u] /\ Fresh(u, current[u])'
                           /\ next'[current'[u]] \in Occurrences(current[u])'
    BY DEF ReadInv
  <2>1. CASE u = t
    <3>1. pc'[t] = "advance" /\ current'[t] = s /\ todo'[t] = todo[t] \ {s}
      BY <1>1, <1>2 DEF TypeOK
    <3>2. \A k \in todo[t] : Fresh(t, k)'
      BY <1>2 DEF ReadInv, Fresh
    <3>3. QED
      BY <1>1, <1>2, <1>10, <2>1, <3>1, <3>2
  <2>2. CASE u # t
    <3>1. pc'[u] = pc[u] /\ pc[u] \notin Inside /\ todo'[u] = todo[u] /\ todo[u] = {}
      BY <1>1, <1>2, <1>4, <2>2 DEF TypeOK, ReadInv, Inside
    <3>2. QED
      BY <3>1 DEF Inside
  <2>3. QED
    BY <2>1, <2>2
<1>12. ~Pending(s) /\ Pending(s)'
  BY <1>1, <1>2, <1>4 DEF Pending, TypeOK, Inside
<1>13. ASSUME NEW k \in Schedules, k # s PROVE SequenceInv(k)'
  <2>1. ~Pending(k)
    BY <1>2, <1>4 DEF Pending, Inside
  <2>2. errors' + crashes' + Extra(k)' >= errors + crashes + Extra(k)
    BY <1>2, <2>1, Numbers DEF Extra
  <2>3. dispatched'[k] = dispatched[k]
    BY <1>6, <1>13 DEF TypeOK
  <2>4. QED
    BY <1>2, <1>8, <2>2, <2>3, ScheduleKept
<1>14. SequenceInv(s)'
  <2>1. /\ first[s] \in Nat /\ next[s] \in Nat /\ errors \in Nat /\ crashes \in Nat
        /\ Len(dispatched[s]) \in Nat
    BY <1>3, Numbers
  <2>2. first[s] .. next[s] - 1 \subseteq Occurrences(s)'
    BY <1>3, <1>10 DEF SequenceInv
  <2>3. \A i \in DOMAIN dispatched'[s] : dispatched'[s][i] \in first[s] .. next[s]
    <3>1. \A i \in DOMAIN dispatched'[s] :
            \/ i \in DOMAIN dispatched[s] /\ dispatched'[s][i] = dispatched[s][i]
            \/ dispatched'[s][i] = next[s]
      BY <1>3, <1>5, <1>7, Numbers
    <3>2. next[s] \in first[s] .. next[s]
      BY <1>3, <2>1 DEF SequenceInv
    <3>3. QED
      BY <1>3, <3>1, <3>2 DEF SequenceInv
  <2>4. Len(dispatched'[s]) <= (next[s] - first[s]) + errors + crashes + 1
    <3>1. Len(dispatched[s]) <= (next[s] - first[s]) + errors + crashes + 0
      BY <1>3, <1>12 DEF SequenceInv, Extra
    <3>2. QED
      BY <1>5, <1>7, <2>1, <3>1
  <2>5. QED
    BY <1>2, <1>3, <1>12, <2>1, <2>2, <2>3, <2>4 DEF SequenceInv, Extra
<1>15. QED
  BY <1>8, <1>9, <1>11, <1>13, <1>14

(* The UPDATE: the schedule moves past the occurrence that was inserted.   *)
LEMMA AdvanceInv ==
  ASSUME OwnersDiffer, TickInv, NEW t \in Ticks, Advance(t)
  PROVE  TickInv'
<1> USE DEF TickInv
<1>1. /\ pc[t] = "advance" /\ pc' = [pc EXCEPT ![t] = "dispatch"]
      /\ current' = [current EXCEPT ![t] = NoSchedule]
      /\ UNCHANGED <<read, todo, first, dispatched, lockVars, clock, scheduled, faultVars>>
  BY DEF Advance
<1>2. PICK s \in Schedules :
      /\ s = current[t] /\ s \notin todo[t] /\ first[s] > 0 /\ read[t][s] = next[s]
      /\ next[s] <= clock /\ next[s] \in Occurrences(s)
  BY <1>1 DEF TypeOK, ReadInv, Fresh
<1>3. next' = [next EXCEPT ![s] = next[s] + 1]
  BY <1>2 DEF Advance
<1>4. \A u \in Ticks \ {t} : pc[u] \notin Inside
  BY <1>1, Alone DEF Inside
<1>5. next[s] + 1 \in Times
  BY <1>2, Numbers DEF Times, TypeOK
<1>6. TypeOK'
  <2>1. next' \in [Schedules -> Times]
    BY <1>3, <1>5 DEF TypeOK
  <2>2. /\ pc' \in [Ticks -> Inside \cup {"idle"}]
        /\ current' \in [Ticks -> Schedules \cup {NoSchedule}]
        /\ \A u \in Ticks : pc'[u] = "advance" => current'[u] \in Schedules
    BY <1>1 DEF TypeOK, Inside
  <2>3. QED
    BY <1>1, <2>1, <2>2 DEF TypeOK, L!LockTypeOK
<1>7. LockInv'
  BY <1>1 DEF LockInv, TypeOK, Inside
<1>8. ReadInv'
  <2>1. \A u \in Ticks : todo'[u] = todo[u] /\ pc'[u] # "advance"
    BY <1>1, <1>4 DEF TypeOK, Inside
  <2>2. \A u \in Ticks \ {t} : todo[u] = {}
    BY <1>4 DEF ReadInv, Inside
  <2>3. ASSUME NEW k \in todo[t] PROVE Fresh(t, k)'
    <3>1. k \in Schedules /\ k # s /\ Fresh(t, k)
      BY <1>2, <2>3 DEF TypeOK, ReadInv
    <3>2. QED
      BY <1>1, <1>3, <3>1 DEF Fresh, TypeOK
  <2>4. pc'[t] = "dispatch"
    BY <1>1 DEF TypeOK
  <2>5. QED
    BY <2>1, <2>2, <2>3, <2>4 DEF ReadInv
<1>9. \A k \in Schedules : ~Pending(k)' /\ (k # s => ~Pending(k))
  BY <1>1, <1>2, <1>4 DEF Pending, TypeOK, Inside
<1>10. ASSUME NEW k \in Schedules, k # s PROVE SequenceInv(k)'
  <2>1. errors' + crashes' + Extra(k)' >= errors + crashes + Extra(k)
    BY <1>1, <1>9, <1>10, Numbers DEF Extra
  <2>2. next'[k] = next[k]
    BY <1>3, <1>10 DEF TypeOK
  <2>3. QED
    BY <1>1, <1>6, <2>1, <2>2, ScheduleKept
<1>11. SequenceInv(s)'
  <2>1. /\ first[s] \in Nat /\ next[s] \in Nat /\ errors \in Nat /\ crashes \in Nat
        /\ Len(dispatched[s]) \in Nat
    BY <1>2, Numbers
  <2>2. next'[s] = next[s] + 1 /\ first'[s] = first[s] /\ dispatched'[s] = dispatched[s]
        /\ errors' = errors /\ crashes' = crashes
    BY <1>1, <1>2, <1>3 DEF TypeOK
  <2>3. first[s] <= next[s] /\ first[s] .. next[s] - 1 \subseteq Occurrences(s)
        /\ \A i \in DOMAIN dispatched[s] : dispatched[s][i] \in first[s] .. next[s]
    BY <1>2 DEF SequenceInv
  <2>4. first[s] .. next[s] \subseteq Occurrences(s)
    <3>1. \A n \in first[s] .. next[s] : n \in first[s] .. next[s] - 1 \/ n = next[s]
      BY <2>1
    <3>2. QED
      BY <1>2, <2>3, <3>1
  <2>5. Len(dispatched[s]) <= (next[s] - first[s]) + errors + crashes + 1
    <3>1. Len(dispatched[s]) <= (next[s] - first[s]) + errors + crashes + Extra(s)
      BY <1>2 DEF SequenceInv
    <3>2. CASE Extra(s) = 0
      BY <2>1, <3>1, <3>2
    <3>3. CASE Extra(s) = 1
      BY <3>1, <3>3
    <3>4. QED
      BY <3>2, <3>3 DEF Extra
  <2>6. Extra(s)' = 0
    BY <1>2, <1>9 DEF Extra
  <2>7. Occurrences(s)' = Occurrences(s)
    BY <2>2 DEF Occurrences
  <2>8. /\ first'[s] # 0 /\ first'[s] <= next'[s]
        /\ first'[s] .. next'[s] - 1 = first[s] .. next[s]
    BY <1>2, <2>1, <2>2, <2>3
  <2>9. \A i \in DOMAIN dispatched'[s] : dispatched'[s][i] \in first'[s] .. next'[s]
    <3>1. first[s] .. next[s] \subseteq first[s] .. next[s] + 1
      BY <2>1
    <3>2. QED
      BY <2>2, <2>3, <3>1
  <2>10. Len(dispatched'[s]) <= (next'[s] - first'[s]) + errors' + crashes' + Extra(s)'
    BY <2>1, <2>2, <2>5, <2>6
  <2>11. QED
    BY <2>4, <2>7, <2>8, <2>9, <2>10 DEF SequenceInv
<1>12. QED
  BY <1>6, <1>7, <1>8, <1>10, <1>11

\* A query that throws and a server that dies leave the schedules as they are,
\* and account for the dispatch that is then pending no more.
LEMMA FailureInv ==
  ASSUME TickInv, NEW t \in Ticks, QueryFails(t) \/ Crash(t)
  PROVE  TickInv'
<1> USE DEF TickInv
<1>1. /\ UNCHANGED <<lockVars, clock, scheduled, scheduleVars, overruns>>
      /\ errors' \in 0 .. MaxErrors /\ crashes' \in 0 .. MaxCrashes
      /\ errors' + crashes' = errors + crashes + 1
  <2>1. errors \in Nat /\ crashes \in Nat
    BY DEF TypeOK
  <2>2. CASE QueryFails(t)
    BY <2>1, <2>2 DEF QueryFails, TypeOK
  <2>3. CASE Crash(t)
    BY <2>1, <2>3 DEF Crash, TypeOK
  <2>4. QED
    BY <2>2, <2>3
<1>2. /\ pc' \in [Ticks -> Inside \cup {"idle"}] /\ read' \in [Ticks -> [Schedules -> Times]]
      /\ todo' \in [Ticks -> SUBSET Schedules]
      /\ current' \in [Ticks -> Schedules \cup {NoSchedule}]
      /\ pc'[t] # "idle" => pc[t] \in Inside
      /\ pc'[t] # "advance" /\ todo'[t] \subseteq todo[t]
      /\ pc'[t] = "dispatch" \/ todo'[t] = {}
      /\ todo'[t] # {} => read'[t] = read[t]
  <2>1. CASE Crash(t) \/ (pc[t] = "release" /\ EndTick(t))
    <3>1. [s \in Schedules |-> 0] \in [Schedules -> Times]
      BY DEF Times
    <3>2. /\ pc' = [pc EXCEPT ![t] = "idle"] /\ todo' = [todo EXCEPT ![t] = {}]
          /\ read' = [read EXCEPT ![t] = [s \in Schedules |-> 0]]
          /\ current' = [current EXCEPT ![t] = NoSchedule]
      BY <2>1 DEF Crash, EndTick
    <3>3. read' \in [Ticks -> [Schedules -> Times]]
      BY <3>1, <3>2 DEF TypeOK
    <3>4. QED
      BY <3>2, <3>3 DEF TypeOK, Inside
  <2>2. CASE pc[t] \in {"flip", "select"} /\ Goto(t, "release")
    BY <2>2 DEF Goto, TypeOK, Inside, ReadInv
  <2>3. CASE /\ pc[t] = "dispatch" /\ UNCHANGED <<pc, read, current>>
             /\ \E s \in todo[t] : todo' = [todo EXCEPT ![t] = @ \ {s}]
    BY <2>3 DEF TypeOK, Inside
  <2>4. CASE /\ pc[t] = "advance" /\ UNCHANGED <<read, todo>>
             /\ current' = [current EXCEPT ![t] = NoSchedule]
             /\ pc' = [pc EXCEPT ![t] = "dispatch"]
    BY <2>4 DEF TypeOK, Inside
  <2>5. QED
    BY <2>1, <2>2, <2>3, <2>4 DEF QueryFails
<1>3. \A u \in Ticks \ {t} : pc'[u] = pc[u] /\ todo'[u] = todo[u] /\ current'[u] = current[u]
                             /\ read'[u] = read[u]
  BY DEF QueryFails, Crash, Goto, EndTick, TypeOK
<1>4. TypeOK'
  BY <1>1, <1>2, <1>3 DEF TypeOK, L!LockTypeOK
<1>5. LockInv'
  BY <1>1, <1>2, <1>3 DEF LockInv, Inside
<1>6. ReadInv'
  <2> SUFFICES ASSUME NEW u \in Ticks
               PROVE  /\ pc'[u] \notin {"dispatch", "advance"} => todo'[u] = {}
                      /\ \A k \in todo'[u] : Fresh(u, k)'
                      /\ pc'[u] = "advance" =>
                           /\ current'[u] \notin todo'[u] /\ Fresh(u, current[u])'
                           /\ next'[current'[u]] \in Occurrences(current[u])'
    BY DEF ReadInv
  <2>1. CASE u = t
    BY <1>1, <1>2, <2>1 DEF ReadInv, Fresh
  <2>2. CASE u # t
    BY <1>1, <1>3, <2>2 DEF ReadInv, Fresh, Occurrences
  <2>3. QED
    BY <2>1, <2>2
<1>7. \A s \in Schedules : errors' + crashes' + Extra(s)' >= errors + crashes + Extra(s)
  <2> SUFFICES ASSUME NEW s \in Schedules
               PROVE  errors' + crashes' + Extra(s)' >= errors + crashes + Extra(s)
    OBVIOUS
  <2>1. Extra(s) \in {0, 1} /\ Extra(s)' \in {0, 1}
    BY DEF Extra
  <2>2. errors \in Nat /\ crashes \in Nat /\ errors' \in Nat /\ crashes' \in Nat
    BY <1>1, Numbers
  <2> DEFINE x == Extra(s)
             xx == Extra(s)'
             e == errors'
             c == crashes'
  <2>3. /\ x \in {0, 1} /\ xx \in {0, 1} /\ e \in Nat /\ c \in Nat
        /\ e + c = errors + crashes + 1
    BY <1>1, <2>1, <2>2
  <2> HIDE DEF x, xx, e, c
  <2>4. e + c + xx >= errors + crashes + x
    BY <2>2, <2>3, OneMore
  <2>5. QED
    BY <2>4 DEF x, xx, e, c
<1>8. \A s \in Schedules : SequenceInv(s)'
  BY <1>1, <1>4, <1>7, ScheduleKept
<1>9. QED
  BY <1>4, <1>5, <1>6, <1>8

LEMMA NextInv ==
  ASSUME OwnersDiffer, MaxOverruns = 0
  PROVE  TickInv /\ [Next]_vars => TickInv'
<1> SUFFICES ASSUME TickInv, [Next]_vars PROVE TickInv'
  OBVIOUS
<1>1. ASSUME NEW t \in Ticks, Step(t) PROVE TickInv'
  BY <1>1, BeginInv, GoOnInv, SelectDueInv, InsertJobInv, AdvanceInv, FinishInv DEF Step
<1>2. ASSUME NEW t \in Ticks, QueryFails(t) \/ Crash(t) PROVE TickInv'
  BY <1>2, FailureInv
<1>3. ASSUME NEW s \in Schedules, Create(s) PROVE TickInv'
  BY <1>3, CreateInv
<1>4. CASE PassTime \/ ExpireLock \/ UNCHANGED vars
  BY <1>4, OutsideInv
<1>5. QED
  BY <1>1, <1>2, <1>3, <1>4 DEF Next

LEMMA InvHolds ==
  ASSUME OwnersDiffer, MaxOverruns = 0
  PROVE  Spec => []TickInv
<1>1. TickInv /\ [Next]_vars => TickInv'
  BY NextInv
<1>2. QED
  BY InitInv, <1>1, PTL DEF Spec

(* A schedule moves past an occurrence only when a job was inserted for it,*)
(* and no occurrence is skipped, whatever fails (scheduler.ts,             *)
(* schedulerTick).                                                         *)
THEOREM DispatchInSequence ==
  ASSUME OwnersDiffer, MaxOverruns = 0
  PROVE  Spec => []SchedulerInv
<1>1. TickInv => SchedulerInv
  BY DEF TickInv, SequenceInv, SchedulerInv, InSequence
<1>2. QED
  BY <1>1, InvHolds, PTL

(* An occurrence is dispatched once, and once more at most for each query  *)
(* that throws and each server that dies: the lock keeps every other tick  *)
(* from the schedules a tick has read.                                     *)
THEOREM DispatchOnce ==
  ASSUME OwnersDiffer, MaxOverruns = 0
  PROVE  Spec => []NoDuplicateDispatch
<1>1. TickInv => NoDuplicateDispatch
  <2> SUFFICES ASSUME TickInv, NEW s \in Schedules
               PROVE  Len(dispatched[s]) - Cardinality(Occurrences(s)) <= errors + crashes
    BY DEF NoDuplicateDispatch
  <2> USE DEF TickInv
  <2> DEFINE a == first[s]
             n == next[s]
  <2>1. a \in Nat /\ n \in Nat /\ a <= n /\ Len(dispatched[s]) \in Nat
        /\ errors \in Nat /\ crashes \in Nat
    BY Numbers DEF SequenceInv
  <2>2. Occurrences(s) \subseteq a .. n
    BY DEF Occurrences, SequenceInv
  <2>3. IsFiniteSet(Occurrences(s)) /\ Cardinality(Occurrences(s)) \in Nat
    <3> HIDE DEF a, n
    <3>1. IsFiniteSet(a .. n)
      BY <2>1, FS_Interval
    <3>2. IsFiniteSet(Occurrences(s))
      BY <2>2, <3>1, FS_Subset
    <3>3. QED
      BY <3>2, FS_CardinalityType
  <2>4. Len(dispatched[s]) <= (n - a) + errors + crashes + Extra(s)
    BY DEF SequenceInv
  <2>5. CASE Pending(s)
    <3>1. n \in Occurrences(s)
      BY <2>5 DEF Pending, ReadInv
    <3>2. a .. n \subseteq Occurrences(s)
      <4>1. \A k \in a .. n : k \in a .. n - 1 \/ k = n
        BY <2>1
      <4>2. QED
        BY <3>1, <4>1 DEF SequenceInv
    <3> HIDE DEF a, n
    <3>3. Cardinality(a .. n) = (n - a) + 1 /\ IsFiniteSet(a .. n)
      BY <2>1, FS_Interval
    <3>4. Cardinality(a .. n) <= Cardinality(Occurrences(s))
      BY <2>3, <3>2, FS_Subset
    <3>5. Len(dispatched[s]) <= (n - a) + errors + crashes + 1
      BY <2>4, <2>5 DEF Extra
    <3>6. QED
      BY <2>1, <2>3, <3>3, <3>4, <3>5
  <2>6. CASE ~Pending(s)
    <3>1. a .. n - 1 \subseteq Occurrences(s)
      BY DEF SequenceInv
    <3> HIDE DEF a, n
    <3>2. Cardinality(a .. n - 1) = n - a
      <4>1. n - 1 \in Int
        BY <2>1
      <4>2. Cardinality(a .. n - 1) = IF a > n - 1 THEN 0 ELSE (n - 1) - a + 1
        BY <2>1, <4>1, FS_Interval
      <4>3. QED
        BY <2>1, <4>2
    <3>3. Cardinality(a .. n - 1) <= Cardinality(Occurrences(s))
      BY <2>3, <3>1, FS_Subset
    <3>4. Len(dispatched[s]) <= (n - a) + errors + crashes + 0
      BY <2>4, <2>6 DEF Extra
    <3>5. QED
      BY <2>1, <2>3, <3>2, <3>3, <3>4
  <2>7. QED
    BY <2>5, <2>6
<1>2. QED
  BY <1>1, InvHolds, PTL

(* No statement takes a schedule back: the UPDATE writes the occurrence    *)
(* after the one read, which is still the next.                            *)
THEOREM NeverBack ==
  ASSUME OwnersDiffer, MaxOverruns = 0
  PROVE  Spec => NeverBackwards
<1>1. TickInv /\ [Next]_vars => [\A s \in Schedules : next'[s] >= next[s]]_vars
  <2> SUFFICES ASSUME TickInv, [Next]_vars, NEW s \in Schedules PROVE next'[s] >= next[s]
    OBVIOUS
  <2>1. next[s] \in Nat /\ clock \in Nat
    BY Numbers DEF TickInv
  <2>2. ASSUME NEW k \in Schedules, Create(k) PROVE next'[s] >= next[s]
    <3>1. next[k] = 0 /\ next' = [next EXCEPT ![k] = clock + 1]
      BY <2>2 DEF TickInv, SequenceInv, Create
    <3>2. QED
      BY <2>1, <3>1 DEF TickInv, TypeOK
  <2>3. ASSUME NEW t \in Ticks, Advance(t) PROVE next'[s] >= next[s]
    <3>1. current[t] \in Schedules /\ read[t][current[t]] = next[current[t]]
      BY <2>3 DEF TickInv, TypeOK, ReadInv, Fresh, Advance
    <3>2. next' = [next EXCEPT ![current[t]] = next[current[t]] + 1]
      BY <2>3, <3>1 DEF Advance
    <3>3. QED
      BY <2>1, <3>2 DEF TickInv, TypeOK
  <2>4. CASE UNCHANGED next
    BY <2>1, <2>4
  <2>5. QED
    BY <2>2, <2>3, <2>4 DEF Next, Step, Begin, FlipScheduled, SelectDue, InsertJob,
       AllDispatched, Finish, QueryFails, Crash, PassTime, ExpireLock, vars
<1>2. QED
  BY <1>1, InvHolds, PTL DEF Spec, NeverBackwards
=============================================================================
