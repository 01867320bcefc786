------------------------- MODULE JobExecutionProofs -------------------------
(***************************************************************************)
(* For any number of jobs, processes, slots and requests:                  *)
(* - the per-job lock excludes a second execution, whatever fails, as long *)
(*   as none outlasts its lock and no process, for which its lock is       *)
(*   re-entrant, is inside two executions of one job (OwnJobsApart);       *)
(* - a job succeeds once, within its attempts, and its status follows the  *)
(*   diagram, as long as a request resets a job that is still as the       *)
(*   request read it (FreshResets), which no part of the server makes sure *)
(*   of;                                                                   *)
(* - a dead-lettered job has its row, and no job is stranded, as long as   *)
(*   nothing throws and no process dies.                                   *)
(***************************************************************************)
EXTENDS JobExecution, SequenceTheorems, FiniteSetTheorems, TLAPS

\* A process may run many jobs at once, but not one job twice: what the lock
\* cannot see to.
OwnJobsApart ==
  \A s, t \in Slots :
    s # t /\ SlotWorker[s] = SlotWorker[t] /\ Live(s) /\ {pc[s], pc[t]} \subseteq Inside
      => job[s] # job[t]

\* The variables the argument is about have their types.
SlotTypeOK ==
  /\ pc \in [Slots -> PCs]
  /\ job \in [Slots -> Jobs \cup {NoJob}]
  /\ holder \in [Jobs -> Workers \cup {NoWorker}]
  /\ \A s \in Slots : pc[s] # "idle" => job[s] \in Jobs

LockInv == SlotTypeOK /\ HoldsLock

USE SlotsAssumption, WorkersAssumption, BoundsAssumption
USE DEF At, PCs, Inside, Working, slotVars, lockVars

\* A step that moves no slot and leaves the locks alone keeps the invariant.
LEMMA SameSlots ==
  ASSUME LockInv, UNCHANGED <<slotVars, lockVars>>, dead \subseteq dead'
  PROVE  LockInv'
  BY DEF LockInv, SlotTypeOK, HoldsLock, Live

\* A slot that goes on under its lock, or leaves without it, does too.
LEMMA Going ==
  ASSUME LockInv, NEW s \in Slots, pc[s] \in Inside, Live(s),
         pc' = [pc EXCEPT ![s] = pc'[s]], pc'[s] \in Inside, UNCHANGED <<job, lockVars, dead>>
  PROVE  LockInv'
  BY DEF LockInv, SlotTypeOK, HoldsLock, Live

LEMMA Leaving ==
  ASSUME LockInv, NEW s \in Slots, Leave(s), UNCHANGED <<lockVars, dead>>
  PROVE  LockInv'
  BY DEF LockInv, SlotTypeOK, HoldsLock, Live, Leave

\* Taking a lock takes it from no execution under way.
LEMMA AcquireInv ==
  ASSUME OwnJobsApart', LockInv, NEW s \in Slots, AcquireLock(s)
  PROVE  LockInv'
<1> USE DEF LockInv, SlotTypeOK
<1>1. /\ pc[s] = "acquire" /\ job[s] \in Jobs /\ L!CanAcquire(job[s], SlotWorker[s])
      /\ holder' = [holder EXCEPT ![job[s]] = SlotWorker[s]]
      /\ expired' = expired \ {job[s]}
      /\ pc' = [pc EXCEPT ![s] = "mark"] /\ UNCHANGED <<job, dead>>
  BY DEF AcquireLock, L!Acquire, Goto, faultVars
<1>2. SlotTypeOK'
  BY <1>1
<1>3. ASSUME NEW t \in Slots, pc'[t] \in Inside, Live(t)'
      PROVE  (holder[job[t]] = SlotWorker[t] /\ job[t] \notin expired)'
  <2>1. CASE t = s
    BY <1>1, <2>1
  <2>2. CASE t # s
    <3>1. holder[job[t]] = SlotWorker[t] /\ job[t] \notin expired /\ job[t] \in Jobs
      BY <1>1, <1>3, <2>2 DEF HoldsLock, Live
    <3>2. SlotWorker[s] = SlotWorker[t] => job[t] # job[s]
      BY <1>1, <1>3, <2>2 DEF OwnJobsApart, Live
    <3>3. job[t] # job[s]
      BY <1>1, <3>1, <3>2 DEF L!CanAcquire
    <3>4. QED
      BY <1>1, <3>1, <3>3
  <2>3. QED
    BY <2>1, <2>2
<1>4. QED
  BY <1>2, <1>3 DEF HoldsLock

\* Giving a lock up takes it from no other execution.
LEMMA ReleaseInv ==
  ASSUME OwnJobsApart, LockInv, NEW s \in Slots, ReleaseLock(s)
  PROVE  LockInv'
<1> USE DEF LockInv, SlotTypeOK
<1>1. /\ pc[s] = "release" /\ Live(s) /\ job[s] \in Jobs
      /\ holder' = [holder EXCEPT ![job[s]] = NoWorker]
      /\ expired' = expired \ {job[s]}
      /\ Leave(s) /\ UNCHANGED dead
  BY DEF ReleaseLock, L!Release, faultVars, HoldsLock
<1>2. SlotTypeOK'
  BY <1>1 DEF Leave
<1>3. ASSUME NEW t \in Slots, pc'[t] \in Inside, Live(t)'
      PROVE  (holder[job[t]] = SlotWorker[t] /\ job[t] \notin expired)'
  <2>1. /\ t # s /\ pc[t] \in Inside /\ job'[t] = job[t] /\ job[t] \in Jobs
        /\ holder[job[t]] = SlotWorker[t] /\ job[t] \notin expired
    BY <1>1, <1>3 DEF Leave, HoldsLock, Live
  <2>2. job[t] # job[s]
    BY <1>1, <2>1 DEF HoldsLock, OwnJobsApart
  <2>3. QED
    BY <1>1, <2>1, <2>2
<1>4. QED
  BY <1>2, <1>3 DEF HoldsLock

LEMMA StepInv ==
  ASSUME OwnJobsApart, OwnJobsApart', LockInv, NEW s \in Slots, Step(s)
  PROVE  LockInv'
<1>1. CASE AcquireLock(s)
  BY <1>1, AcquireInv
<1>2. CASE ReleaseLock(s)
  BY <1>2, ReleaseInv
<1>3. CASE SkipExecution(s)
  BY <1>3, Leaving DEF SkipExecution, faultVars
<1>4. CASE RecordExecution(s)
  BY <1>4, Going DEF RecordExecution, faultVars, LockInv, SlotTypeOK
<1>5. CASE \/ MarkRunning(s) \/ RunJobHandler(s) \/ MarkCompleted(s) \/ FinishExecution(s)
           \/ Announce(s) \/ RecordFailure(s) \/ ScheduleRetry(s) \/ MarkDeadLetter(s)
           \/ InsertDeadLetter(s)
  <2>1. /\ pc[s] \in Inside /\ Live(s) /\ UNCHANGED <<lockVars, dead>>
        /\ \E there \in Inside : Goto(s, there)
    BY <1>5 DEF MarkRunning, RunJobHandler, MarkCompleted, FinishExecution, Announce,
                RecordFailure, ScheduleRetry, MarkDeadLetter, InsertDeadLetter, faultVars
  <2>2. QED
    BY <2>1, Going DEF Goto, LockInv, SlotTypeOK
<1>6. QED
  BY <1>1, <1>2, <1>3, <1>4, <1>5 DEF Step

LEMMA QueryFailsInv ==
  ASSUME LockInv, NEW s \in Slots, QueryFails(s)
  PROVE  LockInv'
<1>1. /\ Live(s) /\ pc[s] \in {"acquire"} \cup Inside /\ UNCHANGED <<lockVars, dead>>
      /\ Leave(s) \/ (pc[s] \in Inside /\ \E there \in Inside : Goto(s, there))
  BY DEF QueryFails, OnError
<1>2. QED
  BY <1>1, Going, Leaving DEF Goto, LockInv, SlotTypeOK

LEMMA ClaimInv ==
  ASSUME LockInv, NEW s \in Slots, NEW j \in Jobs, Claim(s, j)
  PROVE  LockInv'
  BY DEF LockInv, SlotTypeOK, HoldsLock, Live, Claim, faultVars

\* A lock expires under no execution, when none is an overrun.
LEMMA ExpireInv ==
  ASSUME MaxOverruns = 0, LockInv, overruns \in 0 .. MaxOverruns,
         NEW j \in Jobs, ExpireLock(j)
  PROVE  LockInv'
<1>1. ~Overrun(j) /\ expired' = expired \cup {j} /\ UNCHANGED <<holder, slotVars, dead>>
  BY DEF ExpireLock, L!Expire
<1>2. QED
  BY <1>1 DEF LockInv, SlotTypeOK, HoldsLock, Live, Overrun

\* The lock is held throughout every execution, for processes of any number of
\* slots, whatever crashes, throws, is retried or is replayed.
THEOREM LockIsHeld ==
  ASSUME MaxOverruns = 0
  PROVE  Spec /\ []OwnJobsApart => []HoldsLock
<1> DEFINE Inv == LockInv /\ overruns \in 0 .. MaxOverruns
<1>1. Init => Inv
  BY DEF Init, LockInv, SlotTypeOK, HoldsLock, L!LockInit
<1>2. Inv /\ OwnJobsApart /\ OwnJobsApart' /\ [Next]_vars => Inv'
  <2> SUFFICES ASSUME Inv, OwnJobsApart, OwnJobsApart', [Next]_vars PROVE Inv'
    OBVIOUS
  <2>1. ASSUME NEW s \in Slots, NEW j \in Jobs, Claim(s, j) PROVE Inv'
    BY <2>1, ClaimInv DEF Claim, faultVars
  <2>2. ASSUME NEW s \in Slots, Step(s) PROVE Inv'
    <3>1. UNCHANGED overruns
      BY <2>2 DEF Step, AcquireLock, SkipExecution, MarkRunning, RecordExecution,
         RunJobHandler, MarkCompleted, FinishExecution, Announce, RecordFailure,
         ScheduleRetry, MarkDeadLetter, InsertDeadLetter, ReleaseLock, faultVars
    <3>2. QED
      BY <2>2, <3>1, StepInv
  <2>3. ASSUME NEW s \in Slots, QueryFails(s) PROVE Inv'
    <3>1. UNCHANGED overruns
      BY <2>3 DEF QueryFails
    <3>2. QED
      BY <2>3, <3>1, QueryFailsInv
  <2>4. ASSUME NEW w \in Workers, Crash(w) PROVE Inv'
    BY <2>4, SameSlots DEF Crash
  <2>5. ASSUME NEW j \in Jobs, ExpireLock(j) PROVE Inv'
    <3>1. overruns' \in 0 .. MaxOverruns
      BY <2>5 DEF ExpireLock
    <3>2. QED
      BY <2>5, <3>1, ExpireInv
  <2>6. ASSUME NEW j \in Jobs, CancelJob(j) PROVE Inv'
    BY <2>6, SameSlots DEF CancelJob, faultVars
  <2>7. ASSUME NEW r \in Requests, NEW j \in Jobs, CheckRetry(r, j) \/ FindDeadLetter(r, j)
        PROVE  Inv'
    BY <2>7, SameSlots DEF CheckRetry, FindDeadLetter, faultVars
  <2>8. ASSUME NEW r \in Requests, ApplyRetry(r) \/ ApplyReplay(r) \/ DeleteDeadLetter(r)
        PROVE  Inv'
    BY <2>8, SameSlots DEF ApplyRetry, ApplyReplay, DeleteDeadLetter, faultVars
  <2>9. CASE UNCHANGED vars
    BY <2>9, SameSlots DEF vars, faultVars
  <2>10. QED
    BY <2>1, <2>2, <2>3, <2>4, <2>5, <2>6, <2>7, <2>8, <2>9 DEF Next
<1>3. Inv => HoldsLock
  BY DEF LockInv
<1>4. QED
  BY <1>1, <1>2, <1>3, PTL DEF Spec

\* No job is executed twice at once (executor.ts "second line of defense
\* against duplicate execution"), by two processes or by one, under the same
\* hypotheses.
THEOREM ExecutionsExclude ==
  ASSUME MaxOverruns = 0
  PROVE  Spec /\ []OwnJobsApart => []MutualExclusion
<1>1. HoldsLock /\ OwnJobsApart => MutualExclusion
  BY DEF HoldsLock, MutualExclusion, OwnJobsApart
<1>2. QED
  BY <1>1, LockIsHeld, PTL

-----------------------------------------------------------------------------
(* Types, with no hypothesis at all.                                       *)

USE RequestsAssumption, JobsAssumption
USE DEF jobVars, tableVars, requestVars, faultVars

Rows == Seq({"running", "completed", "failed"})
JobTypeOK ==
  /\ status \in [Jobs -> Statuses]
  /\ attempts \in [Jobs -> Nat]
  /\ owner \in [Jobs -> Workers \cup {NoWorker}]
TableTypeOK ==
  /\ executions \in [Jobs -> Rows]
  /\ dlq \in [Jobs -> SUBSET Nat]
  /\ buried \in [Jobs -> Nat]
SlotsTypeOK ==
  /\ pc \in [Slots -> PCs]
  /\ job \in [Slots -> Jobs \cup {NoJob}]
  /\ \A s \in Slots : pc[s] # "idle" => job[s] \in Jobs
  /\ attempt \in [Slots -> Nat]
  /\ row \in [Slots -> Nat]
RequestTypeOK ==
  /\ at \in [Requests -> {"new", "retry", "reset", "delete", "done"}]
  /\ target \in [Requests -> Jobs \cup {NoJob}]
  /\ \A r \in Requests : at[r] \in {"retry", "reset", "delete"} => target[r] \in Jobs
  /\ entry \in [Requests -> Nat]
FaultTypeOK ==
  /\ dead \in SUBSET Workers
  /\ errors \in 0 .. MaxErrors
  /\ overruns \in 0 .. MaxOverruns

LEMMA TypeParts ==
  TypeOK <=> /\ JobTypeOK /\ TableTypeOK /\ L!LockTypeOK
             /\ SlotsTypeOK /\ RequestTypeOK /\ FaultTypeOK
  BY DEF TypeOK, JobTypeOK, TableTypeOK, SlotsTypeOK, RequestTypeOK, FaultTypeOK, Rows

LEMMA RowTypes ==
  ASSUME NEW rows \in Rows, NEW v \in {"running", "completed", "failed"}, NEW i \in Nat
  PROVE  /\ Len(rows) \in Nat /\ DOMAIN rows = 1 .. Len(rows)
         /\ \A k \in 1 .. Len(rows) : rows[k] \in {"running", "completed", "failed"}
         /\ Append(rows, v) \in Rows /\ Len(Append(rows, v)) = Len(rows) + 1
         /\ \A k \in 1 .. Len(rows) : Append(rows, v)[k] = rows[k]
         /\ Append(rows, v)[Len(rows) + 1] = v
         /\ [rows EXCEPT ![i] = v] \in Rows /\ Len([rows EXCEPT ![i] = v]) = Len(rows)
<1> DEFINE S == {"running", "completed", "failed"}
<1>1. Len(rows) \in Nat /\ DOMAIN rows = 1 .. Len(rows) /\ rows \in [1 .. Len(rows) -> S]
  BY LenProperties DEF Rows
<1>2. \A k \in 1 .. Len(rows) : rows[k] \in S
  BY <1>1
<1>3. /\ Append(rows, v) \in Seq(S) /\ Len(Append(rows, v)) = Len(rows) + 1
      /\ \A k \in 1 .. Len(rows) : Append(rows, v)[k] = rows[k]
      /\ Append(rows, v)[Len(rows) + 1] = v
  <2>1. rows \in Seq(S) /\ v \in S
    BY DEF Rows
  <2> HIDE DEF S
  <2>2. QED
    BY <2>1, AppendProperties
<1>4. [rows EXCEPT ![i] = v] \in Seq(S) /\ Len([rows EXCEPT ![i] = v]) = Len(rows)
  <2>1. rows \in Seq(S) /\ v \in S
    BY DEF Rows
  <2> HIDE DEF S
  <2>2. [rows EXCEPT ![i] = v] \in [1 .. Len(rows) -> S]
    BY <1>1, <2>1
  <2>3. QED
    BY <1>1, <2>2, LenProperties
<1>5. QED
  BY <1>1, <1>2, <1>3, <1>4 DEF Rows

\* What a slot's step does to the slots, and to the jobs.
LEMMA StepSlotTypes ==
  ASSUME SlotsTypeOK, TableTypeOK, NEW s \in Slots, Step(s) \/ QueryFails(s)
  PROVE  SlotsTypeOK'
<1> USE DEF SlotsTypeOK
<1>1. CASE RecordExecution(s)
  <2>1. Len(executions[job[s]]) \in Nat
    BY <1>1, RowTypes DEF RecordExecution, TableTypeOK
  <2>2. QED
    BY <1>1, <2>1 DEF RecordExecution
<1>2. CASE Leave(s)
  BY <1>2 DEF Leave
<1>3. ASSUME NEW p \in Inside, Goto(s, p), pc[s] # "idle"
      PROVE  SlotsTypeOK'
  BY <1>3 DEF Goto
<1>4. CASE QueryFails(s)
  BY <1>2, <1>3, <1>4 DEF QueryFails, OnError
<1>5. QED
  BY <1>1, <1>2, <1>3, <1>4
     DEF Step, AcquireLock, SkipExecution, MarkRunning, RunJobHandler, MarkCompleted,
         FinishExecution, Announce, RecordFailure, ScheduleRetry, MarkDeadLetter,
         InsertDeadLetter, ReleaseLock

LEMMA StepJobTypes ==
  ASSUME JobTypeOK, SlotsTypeOK, NEW s \in Slots, Step(s)
  PROVE  JobTypeOK'
<1>1. CASE MarkRunning(s) \/ MarkCompleted(s) \/ ScheduleRetry(s) \/ MarkDeadLetter(s)
  BY <1>1 DEF MarkRunning, MarkCompleted, ScheduleRetry, MarkDeadLetter, SetStatus, JobTypeOK,
              SlotsTypeOK, Statuses
<1>2. CASE UNCHANGED <<status, attempts, owner>>
  BY <1>2 DEF JobTypeOK
<1>3. QED
  BY <1>1, <1>2
     DEF Step, AcquireLock, SkipExecution, RecordExecution, RunJobHandler,
         FinishExecution, Announce, RecordFailure, InsertDeadLetter, ReleaseLock

LEMMA StepTableTypes ==
  ASSUME TableTypeOK, SlotsTypeOK, NEW s \in Slots, Step(s)
  PROVE  TableTypeOK'
<1>1. CASE RecordExecution(s)
  <2>1. job[s] \in Jobs /\ executions[job[s]] \in Rows
    BY <1>1 DEF RecordExecution, TableTypeOK, SlotsTypeOK
  <2>2. Append(executions[job[s]], "running") \in Rows
    BY <2>1, RowTypes
  <2>3. QED
    BY <1>1, <2>1, <2>2 DEF RecordExecution, TableTypeOK
<1>2. CASE FinishExecution(s) \/ RecordFailure(s)
  <2>1. PICK v \in {"running", "completed", "failed"} : SetExecution(s, v)
    BY <1>2 DEF FinishExecution, RecordFailure
  <2>2. job[s] \in Jobs /\ executions[job[s]] \in Rows /\ row[s] \in Nat
    BY <1>2 DEF FinishExecution, RecordFailure, TableTypeOK, SlotsTypeOK
  <2>3. [executions[job[s]] EXCEPT ![row[s]] = v] \in Rows
    BY <2>2, RowTypes
  <2>4. executions' \in [Jobs -> Rows]
    BY <2>1, <2>2, <2>3 DEF SetExecution, TableTypeOK
  <2>5. QED
    BY <1>2, <2>4 DEF FinishExecution, RecordFailure, TableTypeOK
<1>3. CASE InsertDeadLetter(s)
  BY <1>3 DEF InsertDeadLetter, TableTypeOK, SlotsTypeOK
<1>4. CASE UNCHANGED <<executions, dlq, buried>>
  BY <1>4 DEF TableTypeOK
<1>5. QED
  BY <1>1, <1>2, <1>3, <1>4
     DEF Step, AcquireLock, SkipExecution, MarkRunning, RunJobHandler, MarkCompleted,
         Announce, ScheduleRetry, MarkDeadLetter, ReleaseLock

LEMMA StepLockTypes ==
  ASSUME L!LockTypeOK, SlotsTypeOK, NEW s \in Slots, Step(s)
  PROVE  L!LockTypeOK'
<1>1. CASE AcquireLock(s)
  BY <1>1 DEF AcquireLock, L!Acquire, L!LockTypeOK, SlotsTypeOK
<1>2. CASE ReleaseLock(s)
  BY <1>2 DEF ReleaseLock, L!Release, L!LockTypeOK, L!lockVars, SlotsTypeOK
<1>3. CASE UNCHANGED lockVars
  BY <1>3 DEF L!LockTypeOK, lockVars
<1>4. QED
  BY <1>1, <1>2, <1>3
     DEF Step, SkipExecution, MarkRunning, RecordExecution, RunJobHandler, MarkCompleted,
         FinishExecution, Announce, RecordFailure, ScheduleRetry, MarkDeadLetter, InsertDeadLetter

LEMMA StepTypes ==
  ASSUME TypeOK, NEW s \in Slots, Step(s)
  PROVE  TypeOK'
<1>1. /\ JobTypeOK /\ TableTypeOK /\ L!LockTypeOK
      /\ SlotsTypeOK /\ RequestTypeOK /\ FaultTypeOK
  BY TypeParts
<1>2. JobTypeOK' /\ TableTypeOK' /\ L!LockTypeOK' /\ SlotsTypeOK'
  BY <1>1, StepSlotTypes, StepJobTypes, StepTableTypes, StepLockTypes
<1>3. UNCHANGED <<at, target, entry, dead, errors, overruns>>
  BY DEF Step, AcquireLock, SkipExecution, MarkRunning, RecordExecution, RunJobHandler,
         MarkCompleted, FinishExecution, Announce, RecordFailure, ScheduleRetry, MarkDeadLetter,
         InsertDeadLetter, ReleaseLock
<1>4. RequestTypeOK' /\ FaultTypeOK'
  BY <1>1, <1>3 DEF RequestTypeOK, FaultTypeOK
<1>5. TypeOK'
  BY <1>2, <1>4 DEF TypeOK, JobTypeOK, TableTypeOK, SlotsTypeOK, RequestTypeOK, FaultTypeOK, Rows
<1>6. QED
  BY <1>5

\* The other steps: of the processes, of time and of the operator.
LEMMA OtherTypes ==
  ASSUME TypeOK, [Next]_vars, \A s \in Slots : ~Step(s)
  PROVE  TypeOK'
<1>1. /\ JobTypeOK /\ TableTypeOK /\ L!LockTypeOK
      /\ SlotsTypeOK /\ RequestTypeOK /\ FaultTypeOK
  BY TypeParts
<1>2. ASSUME JobTypeOK', TableTypeOK', L!LockTypeOK', SlotsTypeOK', RequestTypeOK', FaultTypeOK'
      PROVE  TypeOK'
  BY <1>2 DEF TypeOK, JobTypeOK, TableTypeOK, SlotsTypeOK, RequestTypeOK, FaultTypeOK, Rows
<1>3. ASSUME NEW s \in Slots, NEW j \in Jobs, Claim(s, j) PROVE TypeOK'
  <2>1. JobTypeOK' /\ SlotsTypeOK'
    BY <1>1, <1>3 DEF Claim, JobTypeOK, SlotsTypeOK, Statuses
  <2>2. UNCHANGED <<tableVars, lockVars, requestVars, faultVars>>
    BY <1>3 DEF Claim
  <2>3. TableTypeOK' /\ L!LockTypeOK' /\ RequestTypeOK' /\ FaultTypeOK'
    BY <1>1, <2>2 DEF TableTypeOK, L!LockTypeOK, RequestTypeOK, FaultTypeOK, lockVars
  <2>4. QED
    BY <1>2, <2>1, <2>3
<1>4. ASSUME NEW s \in Slots, QueryFails(s) PROVE TypeOK'
  <2>1. SlotsTypeOK' /\ FaultTypeOK'
    BY <1>1, <1>4, StepSlotTypes DEF QueryFails, FaultTypeOK
  <2>2. UNCHANGED <<jobVars, tableVars, lockVars, requestVars>>
    BY <1>4 DEF QueryFails
  <2>3. JobTypeOK' /\ TableTypeOK' /\ L!LockTypeOK' /\ RequestTypeOK'
    BY <1>1, <2>2 DEF JobTypeOK, TableTypeOK, L!LockTypeOK, RequestTypeOK, lockVars
  <2>4. QED
    BY <1>2, <2>1, <2>3
<1>5. ASSUME NEW w \in Workers, Crash(w) PROVE TypeOK'
  <2>1. UNCHANGED <<jobVars, tableVars, lockVars, slotVars, requestVars>> /\ FaultTypeOK'
    BY <1>1, <1>5 DEF Crash, FaultTypeOK
  <2>2. JobTypeOK' /\ TableTypeOK' /\ L!LockTypeOK' /\ SlotsTypeOK' /\ RequestTypeOK'
    BY <1>1, <2>1 DEF JobTypeOK, TableTypeOK, L!LockTypeOK, SlotsTypeOK, RequestTypeOK, lockVars
  <2>3. QED
    BY <1>2, <2>1, <2>2
<1>6. ASSUME NEW j \in Jobs, ExpireLock(j) PROVE TypeOK'
  <2>1. UNCHANGED <<jobVars, tableVars, slotVars, requestVars>> /\ FaultTypeOK' /\ L!LockTypeOK'
    BY <1>1, <1>6 DEF ExpireLock, L!Expire, FaultTypeOK, L!LockTypeOK
  <2>2. JobTypeOK' /\ TableTypeOK' /\ SlotsTypeOK' /\ RequestTypeOK'
    BY <1>1, <2>1 DEF JobTypeOK, TableTypeOK, SlotsTypeOK, RequestTypeOK
  <2>3. QED
    BY <1>2, <2>1, <2>2
<1>7. ASSUME NEW j \in Jobs, CancelJob(j) PROVE TypeOK'
  <2>1. UNCHANGED <<tableVars, lockVars, slotVars, requestVars, faultVars>> /\ JobTypeOK'
    BY <1>1, <1>7 DEF CancelJob, JobTypeOK, Statuses
  <2>2. TableTypeOK' /\ L!LockTypeOK' /\ SlotsTypeOK' /\ RequestTypeOK' /\ FaultTypeOK'
    BY <1>1, <2>1 DEF TableTypeOK, L!LockTypeOK, SlotsTypeOK, RequestTypeOK, FaultTypeOK, lockVars
  <2>3. QED
    BY <1>2, <2>1, <2>2
<1>8. ASSUME NEW r \in Requests,
             \/ \E j \in Jobs : CheckRetry(r, j) \/ FindDeadLetter(r, j)
             \/ ApplyRetry(r) \/ ApplyReplay(r) \/ DeleteDeadLetter(r)
      PROVE  TypeOK'
  <2>1. UNCHANGED <<executions, buried, lockVars, slotVars, faultVars>>
    BY <1>8 DEF CheckRetry, FindDeadLetter, ApplyRetry, ApplyReplay, DeleteDeadLetter
  <2>2. L!LockTypeOK' /\ SlotsTypeOK' /\ FaultTypeOK'
    BY <1>1, <2>1 DEF L!LockTypeOK, SlotsTypeOK, FaultTypeOK, lockVars
  <2>3. RequestTypeOK'
    BY <1>1, <1>8
       DEF CheckRetry, FindDeadLetter, ApplyRetry, ApplyReplay, DeleteDeadLetter, Request, Proceed,
           RequestTypeOK, TableTypeOK
  <2>4. JobTypeOK'
    BY <1>1, <1>8
       DEF CheckRetry, FindDeadLetter, ApplyRetry, ApplyReplay, DeleteDeadLetter, ResetJob,
           RequestTypeOK, JobTypeOK, Statuses
  <2>5. TableTypeOK'
    BY <1>1, <1>8, <2>1
       DEF CheckRetry, FindDeadLetter, ApplyRetry, ApplyReplay, DeleteDeadLetter,
           RequestTypeOK, TableTypeOK
  <2>6. QED
    BY <1>2, <2>2, <2>3, <2>4, <2>5
<1>9. CASE UNCHANGED vars
  <2>1. UNCHANGED <<jobVars, tableVars, lockVars, slotVars, requestVars, faultVars>>
    BY <1>9 DEF vars
  <2>2. /\ JobTypeOK' /\ TableTypeOK' /\ L!LockTypeOK'
        /\ SlotsTypeOK' /\ RequestTypeOK' /\ FaultTypeOK'
    BY <1>1, <2>1
       DEF JobTypeOK, TableTypeOK, L!LockTypeOK, SlotsTypeOK, RequestTypeOK, FaultTypeOK, lockVars
  <2>3. QED
    BY <1>2, <2>2
<1>10. QED
  BY <1>3, <1>4, <1>5, <1>6, <1>7, <1>8, <1>9 DEF Next

\* The variables have their types, whatever fails and whoever asks.
THEOREM TypesHold == Spec => []TypeOK
<1>1. Init => TypeOK
  BY DEF Init, TypeOK, Statuses, L!LockInit, L!LockTypeOK
<1>2. TypeOK /\ [Next]_vars => TypeOK'
  BY StepTypes, OtherTypes
<1>3. QED
  BY <1>1, <1>2, PTL DEF Spec

-----------------------------------------------------------------------------
(* A request that is about to reset a job finds it as it read it: failed   *)
(* or dead-lettered.  Two requests about a job can break this, and so can  *)
(* a replay of the row that an earlier retry left in the queue.            *)
FreshResets ==
  \A r \in Requests : at[r] \in {"retry", "reset"} => status[target[r]] \in {"failed", "dead_letter"}

Busy == {"acquire", "mark", "record", "handler", "complete", "finish", "announce", "failed",
         "decide"}
Executing(s, j) == pc[s] \in Busy /\ Live(s) /\ job[s] = j

(* A live execution knows its job's status, and is the only one of the job *)
(* up to the moment that it puts it back or marks it dead-lettered: a job  *)
(* is claimed when it is queued, and it is queued in no execution's hands. *)
StatusInv ==
  \A s \in Slots, j \in Jobs : Executing(s, j) =>
    /\ pc[s] \in {"acquire", "mark"} => status[j] = "claimed"
    /\ pc[s] \in {"record", "handler", "complete"} => status[j] = "running"
    /\ pc[s] \in {"finish", "announce"} => status[j] = "completed"
    /\ pc[s] \in {"failed", "decide"} =>
         status[j] = "running" \/ (status[j] = "completed" /\ errors # 0)
    /\ \A t \in Slots : Executing(t, j) => t = s

ExecInv == TypeOK /\ StatusInv

LEMMA ClaimStatus ==
  ASSUME ExecInv, NEW s \in Slots, NEW i \in Jobs, Claim(s, i)
  PROVE  StatusInv'
<1>1. SlotsTypeOK /\ JobTypeOK
  BY TypeParts DEF ExecInv
<1>2. QED
  BY <1>1 DEF ExecInv, StatusInv, Executing, Busy, Live, Claim, SlotsTypeOK, JobTypeOK

LEMMA StepStatus ==
  ASSUME ExecInv, NEW s \in Slots, Step(s) \/ QueryFails(s)
  PROVE  StatusInv'
<1> USE DEF ExecInv
<1>1. SlotsTypeOK /\ JobTypeOK /\ errors \in Nat
  BY TypeParts DEF FaultTypeOK
<1>2. CASE Leave(s) /\ UNCHANGED <<status, dead>> /\ (errors' = errors \/ errors' = errors + 1)
  BY <1>1, <1>2 DEF Leave, StatusInv, Executing, Busy, Live, SlotsTypeOK
<1>3. CASE MarkRunning(s) \/ MarkCompleted(s) \/ ScheduleRetry(s) \/ MarkDeadLetter(s)
  BY <1>1, <1>3 DEF MarkRunning, MarkCompleted, ScheduleRetry, MarkDeadLetter, SetStatus, Goto,
                    StatusInv, Executing, Busy, Live, SlotsTypeOK, JobTypeOK
<1>4. CASE \/ AcquireLock(s) \/ RunJobHandler(s) \/ FinishExecution(s) \/ Announce(s)
           \/ RecordFailure(s) \/ InsertDeadLetter(s)
  BY <1>1, <1>4 DEF AcquireLock, RunJobHandler, FinishExecution, Announce, RecordFailure,
                    InsertDeadLetter, Goto, StatusInv, Executing, Busy, Live, SlotsTypeOK
<1>5. CASE RecordExecution(s)
  BY <1>1, <1>5 DEF RecordExecution, StatusInv, Executing, Busy, Live, SlotsTypeOK
<1>6. CASE QueryFails(s) /\ OnError[pc[s]] # "idle"
  BY <1>1, <1>6 DEF QueryFails, OnError, Goto, StatusInv, Executing, Busy, Live, SlotsTypeOK
<1>7. CASE QueryFails(s) /\ OnError[pc[s]] = "idle"
  BY <1>2, <1>7 DEF QueryFails
<1>8. CASE SkipExecution(s) \/ ReleaseLock(s)
  BY <1>2, <1>8 DEF SkipExecution, ReleaseLock
<1>9. QED
  BY <1>3, <1>4, <1>5, <1>6, <1>7, <1>8 DEF Step

\* A reset finds no execution of the job that would still change it.
LEMMA ApplyStatus ==
  ASSUME ExecInv, FreshResets, NEW r \in Requests, ApplyRetry(r) \/ ApplyReplay(r)
  PROVE  StatusInv'
<1>1. RequestTypeOK /\ JobTypeOK
  BY TypeParts DEF ExecInv
<1>2. PICK j \in Jobs : j = target[r] /\ ResetJob(j)
  BY <1>1 DEF ApplyRetry, ApplyReplay, RequestTypeOK
<1>3. status[j] \in {"failed", "dead_letter"} /\ UNCHANGED <<slotVars, faultVars>>
  BY <1>2 DEF ApplyRetry, ApplyReplay, FreshResets
<1>4. QED
  BY <1>1, <1>2, <1>3 DEF ExecInv, StatusInv, Executing, Busy, Live, ResetJob, JobTypeOK

LEMMA OtherStatus ==
  ASSUME ExecInv,
         \/ \E w \in Workers : Crash(w)
         \/ \E j \in Jobs : ExpireLock(j) \/ CancelJob(j)
         \/ \E r \in Requests, j \in Jobs : CheckRetry(r, j) \/ FindDeadLetter(r, j)
         \/ \E r \in Requests : DeleteDeadLetter(r)
         \/ UNCHANGED vars
  PROVE  StatusInv'
<1>1. JobTypeOK
  BY TypeParts DEF ExecInv
<1>2. UNCHANGED <<pc, job, errors>> /\ dead \subseteq dead'
  BY DEF Crash, ExpireLock, CancelJob, CheckRetry, FindDeadLetter, DeleteDeadLetter, vars
<1>3. \A j \in Jobs : status'[j] # status[j] => status[j] = "queued"
  BY <1>1 DEF Crash, ExpireLock, CancelJob, CheckRetry, FindDeadLetter, DeleteDeadLetter, vars,
     JobTypeOK
<1>4. QED
  BY <1>2, <1>3 DEF ExecInv, StatusInv, Executing, Live, Busy

LEMMA InitExec == Init => ExecInv
<1>1. Init => TypeOK
  BY DEF Init, TypeOK, Statuses, L!LockInit, L!LockTypeOK
<1>2. Init => StatusInv
  BY DEF Init, StatusInv, Executing, Busy
<1>3. QED
  BY <1>1, <1>2 DEF ExecInv

LEMMA NextExec == ExecInv /\ FreshResets /\ [Next]_vars => ExecInv'
<1> SUFFICES ASSUME ExecInv, FreshResets, [Next]_vars PROVE ExecInv'
  OBVIOUS
<1>1. TypeOK'
  BY StepTypes, OtherTypes DEF ExecInv
<1>2. StatusInv'
  BY ClaimStatus, StepStatus, ApplyStatus, OtherStatus DEF Next
<1>3. QED
  BY <1>1, <1>2 DEF ExecInv

LEMMA ExecHolds == Spec /\ []FreshResets => []ExecInv
  BY InitExec, NextExec, PTL DEF Spec

\* From its claim to the UPDATE that records its outcome, an execution is the
\* only one of its job, without the help of the lock: for any slots, errors,
\* crashes, slow releases and overruns, while resets are fresh.
THEOREM OneExecution ==
  Spec /\ []FreshResets =>
    [](\A s, t \in Slots, j \in Jobs : Executing(s, j) /\ Executing(t, j) => s = t)
<1>1. ExecInv => \A s, t \in Slots, j \in Jobs : Executing(s, j) /\ Executing(t, j) => s = t
  BY DEF ExecInv, StatusInv
<1>2. QED
  BY <1>1, ExecHolds, PTL

ApartInv ==
  \A s, t \in Slots :
    s # t /\ pc[s] # "idle" /\ pc[t] # "idle" /\ Live(s) /\ Live(t) => job[s] # job[t]

\* Without slow releases a job that is claimed has been let go of, in every
\* slot of every process.
LEMMA ClaimApart ==
  ASSUME QuickRelease, ExecInv, ApartInv, NEW s \in Slots, NEW j \in Jobs, Claim(s, j)
  PROVE  ApartInv'
<1>1. SlotsTypeOK /\ status[j] = "queued" /\ UNCHANGED dead
  BY TypeParts DEF ExecInv, Claim, faultVars
<1>2. ASSUME NEW t \in Slots, pc[t] # "idle", Live(t) PROVE job[t] # j
  <2>1. CASE pc[t] \in Busy
    BY <1>1, <1>2, <2>1 DEF ExecInv, StatusInv, Executing, Busy
  <2>2. CASE pc[t] \in {"bury", "release"}
    BY <1>2, <2>2 DEF Claim, Due
  <2>3. QED
    BY <1>1, <1>2, <2>1, <2>2 DEF SlotsTypeOK, Busy
<1>3. pc' = [pc EXCEPT ![s] = "acquire"] /\ job' = [job EXCEPT ![s] = j]
  BY DEF Claim
<1>4. ASSUME NEW t \in Slots, t # s, pc'[t] # "idle", Live(t)' PROVE job'[t] = job[t] /\ job[t] # j
  BY <1>1, <1>2, <1>3, <1>4 DEF Live, SlotsTypeOK
<1>5. job'[s] = j
  BY <1>1, <1>3 DEF SlotsTypeOK
<1>6. QED
  BY <1>1, <1>3, <1>4, <1>5 DEF ApartInv, Live, SlotsTypeOK

LEMMA OtherApart ==
  ASSUME TypeOK, ApartInv, [Next]_vars, ~ \E s \in Slots, j \in Jobs : Claim(s, j)
  PROVE  ApartInv'
<1>1. SlotsTypeOK
  BY TypeParts
<1>2. CASE UNCHANGED <<pc, job>> /\ dead \subseteq dead'
  BY <1>2 DEF ApartInv, Live
<1>3. ASSUME NEW s \in Slots, Step(s) \/ QueryFails(s) PROVE ApartInv'
  <2>1. /\ pc[s] # "idle" /\ UNCHANGED dead
        /\ \A t \in Slots : t # s => pc'[t] = pc[t] /\ job'[t] = job[t]
        /\ pc'[s] = "idle" \/ job'[s] = job[s]
    BY <1>1, <1>3 DEF Step, AcquireLock, SkipExecution, MarkRunning, RecordExecution,
       RunJobHandler, MarkCompleted, FinishExecution, Announce, RecordFailure,
       ScheduleRetry, MarkDeadLetter, InsertDeadLetter, ReleaseLock, QueryFails, OnError,
       Goto, Leave, faultVars, SlotsTypeOK
  <2>2. QED
    BY <2>1 DEF ApartInv, Live
<1>4. QED
  BY <1>2, <1>3 DEF Next, Crash, ExpireLock, CancelJob, CheckRetry, FindDeadLetter,
     ApplyRetry, ApplyReplay, DeleteDeadLetter, faultVars, vars

\* With fresh resets and quick releases a process of any number of slots is
\* never inside two executions of a job, which is what the lock needs.
THEOREM OwnJobsStayApart ==
  ASSUME QuickRelease
  PROVE  Spec /\ []FreshResets => []OwnJobsApart
<1>1. Init => ApartInv
  BY DEF Init, ApartInv
<1>2. ExecInv /\ ApartInv /\ [Next]_vars => ApartInv'
  BY ClaimApart, OtherApart DEF ExecInv
<1>3. ApartInv => OwnJobsApart
  BY DEF ApartInv, OwnJobsApart, Live
<1>4. QED
  BY <1>1, <1>2, <1>3, ExecHolds, PTL DEF Spec

-----------------------------------------------------------------------------
(* One request about each job is fresh.                                    *)

OneRequest ==
  \A q, r \in Requests : q # r /\ target[q] # NoJob => target[q] # target[r]

Reset(j) == \E r \in Requests : target[r] = j /\ at[r] \in {"delete", "done"}

(* A job that no request has reset stays failed or dead-lettered, and only *)
(* such a job has rows in the dead letter queue.                           *)
RequestInv ==
  /\ \A r \in Requests : at[r] = "new" => target[r] = NoJob
  /\ \A r \in Requests : at[r] # "new" => target[r] \in Jobs
  /\ FreshResets
  /\ \A j \in Jobs : ~Reset(j) =>
       /\ dlq[j] # {} => status[j] = "dead_letter"
       /\ \A s \in Slots : At(s, "bury") /\ job[s] = j => status[j] = "dead_letter"

LEMMA StepRequest ==
  ASSUME ExecInv, RequestInv, NEW s \in Slots, Step(s) \/ QueryFails(s)
  PROVE  RequestInv'
<1> USE DEF ExecInv, FreshResets
<1>1. SlotsTypeOK /\ JobTypeOK /\ TableTypeOK /\ RequestTypeOK
  BY TypeParts
<1>2. UNCHANGED <<at, target, entry, dead>>
  BY DEF Step, AcquireLock, SkipExecution, MarkRunning, RecordExecution, RunJobHandler,
         MarkCompleted, FinishExecution, Announce, RecordFailure, ScheduleRetry, MarkDeadLetter,
         InsertDeadLetter, ReleaseLock, QueryFails
<1>3. CASE /\ UNCHANGED <<status, dlq>> /\ pc'[s] # "bury"
           /\ \A t \in Slots \ {s} : pc'[t] = pc[t] /\ job'[t] = job[t]
  BY <1>1, <1>2, <1>3 DEF RequestInv, Reset, Live, SlotsTypeOK
<1>4. CASE MarkRunning(s) \/ MarkCompleted(s) \/ ScheduleRetry(s) \/ MarkDeadLetter(s)
  BY <1>1, <1>2, <1>4
     DEF MarkRunning, MarkCompleted, ScheduleRetry, MarkDeadLetter, SetStatus, Goto, RequestInv,
         Reset, StatusInv, Executing, Busy, Live, SlotsTypeOK, JobTypeOK, RequestTypeOK
<1>5. CASE InsertDeadLetter(s)
  BY <1>1, <1>2, <1>5
     DEF InsertDeadLetter, Goto, RequestInv, Reset, Live, SlotsTypeOK, TableTypeOK
<1>6. QED
  BY <1>1, <1>3, <1>4, <1>5
     DEF Step, AcquireLock, SkipExecution, RecordExecution, RunJobHandler, FinishExecution,
         Announce, RecordFailure, ReleaseLock, QueryFails, OnError, Leave, Goto, SlotsTypeOK

LEMMA CheckRequest ==
  ASSUME ExecInv, RequestInv, OneRequest', NEW r \in Requests, NEW j \in Jobs,
         CheckRetry(r, j) \/ FindDeadLetter(r, j)
  PROVE  RequestInv'
<1>1. RequestTypeOK
  BY TypeParts DEF ExecInv
<1>2. /\ at[r] = "new" /\ target' = [target EXCEPT ![r] = j]
      /\ \E there \in {"retry", "reset"} : at' = [at EXCEPT ![r] = there]
      /\ UNCHANGED <<jobVars, tableVars, slotVars, faultVars>>
      /\ status[j] \in {"failed", "dead_letter"} \/ dlq[j] # {}
  BY DEF CheckRetry, FindDeadLetter, Request
<1>3. ~Reset(j)
  BY <1>1, <1>2 DEF OneRequest, Reset, RequestInv, RequestTypeOK
<1>4. QED
  BY <1>1, <1>2, <1>3 DEF RequestInv, FreshResets, Reset, Live, RequestTypeOK

LEMMA ApplyRequest ==
  ASSUME ExecInv, RequestInv, OneRequest, NEW r \in Requests, ApplyRetry(r) \/ ApplyReplay(r)
  PROVE  RequestInv'
<1>1. RequestTypeOK /\ JobTypeOK
  BY TypeParts DEF ExecInv
<1>2. PICK j \in Jobs : j = target[r] /\ ResetJob(j)
  BY <1>1 DEF ApplyRetry, ApplyReplay, RequestTypeOK
<1>3. /\ UNCHANGED <<dlq, slotVars, faultVars, target>>
      /\ at[r] \in {"retry", "reset"}
      /\ \E there \in {"delete", "done"} : at' = [at EXCEPT ![r] = there]
  BY <1>2 DEF ApplyRetry, ApplyReplay, Proceed
<1>4. QED
  BY <1>1, <1>2, <1>3
     DEF RequestInv, FreshResets, Reset, OneRequest, Live, ResetJob, JobTypeOK, RequestTypeOK

LEMMA OtherRequest ==
  ASSUME ExecInv, RequestInv,
         \/ \E s \in Slots, j \in Jobs : Claim(s, j)
         \/ \E w \in Workers : Crash(w)
         \/ \E j \in Jobs : ExpireLock(j) \/ CancelJob(j)
         \/ \E r \in Requests : DeleteDeadLetter(r)
         \/ UNCHANGED vars
  PROVE  RequestInv'
<1>1. SlotsTypeOK /\ RequestTypeOK /\ TableTypeOK /\ JobTypeOK
  BY TypeParts DEF ExecInv
<1>2. UNCHANGED target /\ dead \subseteq dead'
  BY DEF Claim, Crash, ExpireLock, CancelJob, DeleteDeadLetter, Proceed, vars
<1>3. /\ \A j \in Jobs : dlq'[j] \subseteq dlq[j]
      /\ \A j \in Jobs : status'[j] # status[j] => status[j] = "queued"
      /\ \A r \in Requests : at'[r] = at[r] \/ (at[r] = "delete" /\ at'[r] = "done")
      /\ \A s \in Slots : pc'[s] = "bury" => pc[s] = "bury" /\ job'[s] = job[s]
  BY <1>1 DEF Claim, Crash, ExpireLock, CancelJob, DeleteDeadLetter, Proceed, vars, TableTypeOK,
     RequestTypeOK, JobTypeOK, SlotsTypeOK
<1>4. QED
  BY <1>2, <1>3 DEF RequestInv, FreshResets, Reset, Live

\* A reset is fresh as long as no two requests are about the same job.
THEOREM OneRequestIsFresh == Spec /\ []OneRequest => []FreshResets
<1>1. Init => ExecInv /\ RequestInv
  BY InitExec DEF Init, RequestInv, FreshResets
<1>2. ExecInv /\ RequestInv /\ OneRequest /\ OneRequest' /\ [Next]_vars => ExecInv' /\ RequestInv'
  <2> SUFFICES ASSUME ExecInv, RequestInv, OneRequest, OneRequest', [Next]_vars
               PROVE  ExecInv' /\ RequestInv'
    OBVIOUS
  <2>1. ExecInv'
    BY NextExec DEF RequestInv
  <2>2. RequestInv'
    BY StepRequest, CheckRequest, ApplyRequest, OtherRequest DEF Next
  <2>3. QED
    BY <2>1, <2>2
<1>3. RequestInv => FreshResets
  BY DEF RequestInv
<1>4. QED
  BY <1>1, <1>2, <1>3, PTL DEF Spec

-----------------------------------------------------------------------------
(* A job that has succeeded stays completed, and has no further execution. *)

Succeeded(j) == \E i \in DOMAIN executions[j] : executions[j][i] = "completed"

(* Where an execution writes: into its own row, which is the last one.     *)
RowInv ==
  \A s \in Slots, j \in Jobs :
    Executing(s, j) /\ pc[s] \notin {"acquire", "mark", "record"} => row[s] = Len(executions[j])

SuccessInv ==
  \A j \in Jobs :
    /\ \A i \in DOMAIN executions[j] :
         executions[j][i] = "completed" => i = Len(executions[j]) /\ status[j] = "completed"
    /\ \A s \in Slots : Executing(s, j) /\ pc[s] = "decide" => ~Succeeded(j)

LEMMA OnlyStepsOnRows ==
  ASSUME ExecInv, FreshResets, [Next]_vars, ~\E s \in Slots : Step(s)
  PROVE  /\ UNCHANGED executions
         /\ \A j \in Jobs : status[j] = "completed" => status'[j] = "completed"
         /\ \A s \in Slots, j \in Jobs :
              Executing(s, j)' /\ pc'[s] \notin {"acquire", "mark", "record", "failed"} =>
                Executing(s, j) /\ pc'[s] = pc[s] /\ row'[s] = row[s]
         /\ \A s \in Slots, j \in Jobs :
              Executing(s, j)' /\ pc'[s] = "failed" =>
                /\ Executing(s, j) /\ row'[s] = row[s]
                /\ pc[s] \in {"failed", "complete", "finish", "announce"}
<1>1. SlotsTypeOK /\ JobTypeOK /\ RequestTypeOK
  BY TypeParts DEF ExecInv
<1>2. UNCHANGED executions
  BY DEF Next, Claim, QueryFails, Crash, ExpireLock, CancelJob, CheckRetry, FindDeadLetter,
         ApplyRetry, ApplyReplay, DeleteDeadLetter, vars
<1>3. \A j \in Jobs : status[j] = "completed" => status'[j] = "completed"
  BY <1>1 DEF Next, Claim, QueryFails, Crash, ExpireLock, CancelJob, CheckRetry, FindDeadLetter,
         ApplyRetry, ApplyReplay, DeleteDeadLetter, ResetJob, vars, JobTypeOK, FreshResets
<1>4. ASSUME NEW s \in Slots, NEW j \in Jobs, Executing(s, j)'
      PROVE  /\ pc'[s] \notin {"acquire", "mark", "record", "failed"} =>
                  Executing(s, j) /\ pc'[s] = pc[s] /\ row'[s] = row[s]
             /\ pc'[s] = "failed" =>
                  /\ Executing(s, j) /\ row'[s] = row[s]
                  /\ pc[s] \in {"failed", "complete", "finish", "announce"}
  <2>1. CASE UNCHANGED slotVars /\ dead \subseteq dead'
    BY <1>4, <2>1 DEF Executing, Live, Busy
  <2>2. CASE \E t \in Slots, i \in Jobs : Claim(t, i)
    BY <1>1, <1>4, <2>2 DEF Claim, Executing, Live, Busy, SlotsTypeOK
  <2>3. CASE \E t \in Slots : QueryFails(t)
    BY <1>1, <1>4, <2>3 DEF QueryFails, OnError, Leave, Goto, Executing, Live, Busy, SlotsTypeOK
  <2>4. QED
    BY <2>1, <2>2, <2>3
       DEF Next, Crash, ExpireLock, CancelJob, CheckRetry, FindDeadLetter,
           ApplyRetry, ApplyReplay, DeleteDeadLetter, vars
<1>5. QED
  BY <1>2, <1>3, <1>4

LEMMA OtherSuccess ==
  ASSUME ExecInv, FreshResets, RowInv, SuccessInv, [Next]_vars, ~\E s \in Slots : Step(s)
  PROVE  RowInv' /\ SuccessInv'
<1>1. RowInv'
  BY OnlyStepsOnRows DEF RowInv
<1>2. SuccessInv'
  BY OnlyStepsOnRows DEF SuccessInv, Succeeded
<1>3. QED
  BY <1>1, <1>2

\* The rows of the job that a step writes to, and those of the others.
LEMMA RowWritten ==
  ASSUME ExecInv, RowInv, NEW s \in Slots, NEW v \in {"completed", "failed"}, SetExecution(s, v),
         pc[s] \in {"finish", "failed"}, Live(s)
  PROVE  /\ job[s] \in Jobs
         /\ \A j \in Jobs \ {job[s]} : executions'[j] = executions[j]
         /\ Len(executions'[job[s]]) = Len(executions[job[s]])
         /\ DOMAIN executions'[job[s]] = DOMAIN executions[job[s]]
         /\ \A i \in DOMAIN executions[job[s]] :
              executions'[job[s]][i] = IF i = Len(executions[job[s]]) THEN v
                                       ELSE executions[job[s]][i]
<1>1. job[s] \in Jobs /\ executions[job[s]] \in Rows /\ row[s] \in Nat /\ executions \in [Jobs -> Rows]
  BY TypeParts DEF ExecInv, SlotsTypeOK, TableTypeOK
<1>2. row[s] = Len(executions[job[s]])
  BY <1>1 DEF RowInv, Executing, Busy
<1>3. executions'[job[s]] = [executions[job[s]] EXCEPT ![row[s]] = v]
      /\ \A j \in Jobs \ {job[s]} : executions'[j] = executions[j]
  BY <1>1 DEF SetExecution
<1>4. Len(executions'[job[s]]) = Len(executions[job[s]])
  <2>1. PICK rows \in Rows : rows = executions[job[s]]
    BY <1>1
  <2>2. \A i \in Nat : Len([rows EXCEPT ![i] = v]) = Len(rows)
    BY RowTypes
  <2>3. PICK i \in Nat : i = row[s]
    BY <1>1
  <2>4. executions'[job[s]] = [rows EXCEPT ![i] = v]
    BY <1>3, <2>1, <2>3
  <2>5. QED
    BY <2>1, <2>2, <2>4
<1>5. DOMAIN executions'[job[s]] = DOMAIN executions[job[s]]
  BY <1>3
<1>6. QED
  BY <1>1, <1>2, <1>3, <1>4, <1>5

LEMMA FinishSuccess ==
  ASSUME ExecInv, RowInv, SuccessInv, NEW s \in Slots, FinishExecution(s) \/ RecordFailure(s)
  PROVE  RowInv' /\ SuccessInv'
<1>1. SlotsTypeOK
  BY TypeParts DEF ExecInv
<1>2. PICK v \in {"completed", "failed"} :
        /\ SetExecution(s, v) /\ v = IF pc[s] = "finish" THEN "completed" ELSE "failed"
        /\ pc[s] \in {"finish", "failed"} /\ Live(s)
        /\ pc' = [pc EXCEPT ![s] = IF pc[s] = "finish" THEN "announce" ELSE "decide"]
        /\ UNCHANGED <<job, row, status, dead>>
  BY DEF FinishExecution, RecordFailure, Goto
<1>3. /\ job[s] \in Jobs
      /\ \A j \in Jobs \ {job[s]} : executions'[j] = executions[j]
      /\ Len(executions'[job[s]]) = Len(executions[job[s]])
      /\ DOMAIN executions'[job[s]] = DOMAIN executions[job[s]]
      /\ \A i \in DOMAIN executions[job[s]] :
           executions'[job[s]][i] = IF i = Len(executions[job[s]]) THEN v
                                    ELSE executions[job[s]][i]
  BY <1>2, RowWritten
<1>4. Executing(s, job[s])
  BY <1>2 DEF Executing, Busy
<1>5. RowInv'
  BY <1>1, <1>2, <1>3 DEF RowInv, Executing, Busy, Live, SlotsTypeOK
<1>6. ASSUME NEW j \in Jobs, NEW i \in DOMAIN executions'[j], executions'[j][i] = "completed"
      PROVE  i = Len(executions'[j]) /\ status'[j] = "completed"
  <2>1. CASE j # job[s]
    BY <1>2, <1>3, <1>6, <2>1 DEF SuccessInv
  <2>2. CASE j = job[s] /\ pc[s] = "finish"
    <3>1. status[j] = "completed"
      BY <1>4, <2>2 DEF ExecInv, StatusInv
    <3>2. QED
      BY <1>2, <1>3, <1>6, <2>2, <3>1 DEF SuccessInv
  <2>3. CASE j = job[s] /\ pc[s] = "failed"
    <3>1. v = "failed" /\ i \in DOMAIN executions[j]
      BY <1>2, <1>3, <2>3
    <3>2. i # Len(executions[j]) /\ executions[j][i] = "completed"
      BY <1>3, <1>6, <2>3, <3>1
    <3>3. QED
      BY <3>1, <3>2 DEF SuccessInv
  <2>4. QED
    BY <1>2, <2>1, <2>2, <2>3
<1>7. ASSUME NEW j \in Jobs, NEW t \in Slots, Executing(t, j)', pc'[t] = "decide"
      PROVE  ~Succeeded(j)'
  <2>1. CASE t = s
    <3>1. j = job[s] /\ v = "failed" /\ pc[s] = "failed"
      BY <1>1, <1>2, <1>7, <2>1 DEF Executing, SlotsTypeOK
    <3>2. \A i \in DOMAIN executions'[j] : executions'[j][i] # "completed"
      BY <1>3, <3>1 DEF SuccessInv
    <3>3. QED
      BY <3>2 DEF Succeeded
  <2>2. CASE t # s
    <3>1. Executing(t, j) /\ pc[t] = "decide"
      BY <1>1, <1>2, <1>7, <2>2 DEF Executing, Live, Busy, SlotsTypeOK
    <3>2. j # job[s]
      BY <1>4, <2>2, <3>1 DEF ExecInv, StatusInv
    <3>3. QED
      BY <1>3, <3>1, <3>2 DEF SuccessInv, Succeeded
  <2>3. QED
    BY <2>1, <2>2
<1>8. QED
  BY <1>5, <1>6, <1>7 DEF SuccessInv

LEMMA RecordSuccess ==
  ASSUME ExecInv, RowInv, SuccessInv, NEW s \in Slots, RecordExecution(s)
  PROVE  RowInv' /\ SuccessInv'
<1>1. SlotsTypeOK /\ executions \in [Jobs -> Rows]
  BY TypeParts DEF ExecInv, TableTypeOK
<1>2. job[s] \in Jobs /\ Executing(s, job[s]) /\ status[job[s]] = "running"
      /\ executions[job[s]] \in Rows
  BY <1>1 DEF RecordExecution, Executing, Busy, SlotsTypeOK, ExecInv, StatusInv
<1>3. /\ executions'[job[s]] = Append(executions[job[s]], "running")
      /\ \A j \in Jobs \ {job[s]} : executions'[j] = executions[j]
      /\ row' = [row EXCEPT ![s] = Len(executions[job[s]]) + 1]
      /\ pc' = [pc EXCEPT ![s] = "handler"]
      /\ UNCHANGED <<job, status, dead>>
  BY <1>1, <1>2 DEF RecordExecution
<1>4. /\ Len(executions'[job[s]]) = Len(executions[job[s]]) + 1
      /\ Len(executions[job[s]]) \in Nat
      /\ DOMAIN executions[job[s]] = 1 .. Len(executions[job[s]])
      /\ \A i \in 1 .. Len(executions[job[s]]) : executions'[job[s]][i] = executions[job[s]][i]
      /\ executions'[job[s]][Len(executions[job[s]]) + 1] = "running"
      /\ executions'[job[s]] \in Rows
  <2>1. PICK rows \in Rows : rows = executions[job[s]]
    BY <1>2
  <2>2. executions'[job[s]] = Append(rows, "running")
    BY <1>3, <2>1
  <2>3. /\ Len(rows) \in Nat /\ DOMAIN rows = 1 .. Len(rows)
        /\ Append(rows, "running") \in Rows /\ Len(Append(rows, "running")) = Len(rows) + 1
        /\ \A k \in 1 .. Len(rows) : Append(rows, "running")[k] = rows[k]
        /\ Append(rows, "running")[Len(rows) + 1] = "running"
    BY RowTypes
  <2>4. QED
    BY <2>1, <2>2, <2>3
<1>5. DOMAIN executions'[job[s]] = 1 .. Len(executions[job[s]]) + 1
  BY <1>4, RowTypes
<1>6. \A i \in DOMAIN executions[job[s]] : executions[job[s]][i] # "completed"
  BY <1>2 DEF SuccessInv
<1>7. \A i \in DOMAIN executions'[job[s]] : executions'[job[s]][i] # "completed"
  BY <1>4, <1>5, <1>6
<1>8. \A t \in Slots \ {s} : ~Executing(t, job[s])
  BY <1>2 DEF ExecInv, StatusInv
<1>9. RowInv'
  BY <1>1, <1>3, <1>4, <1>8 DEF RowInv, Executing, Busy, Live, SlotsTypeOK
<1>10. SuccessInv'
  <2>1. ASSUME NEW j \in Jobs, j # job[s], NEW t \in Slots, Executing(t, j)', pc'[t] = "decide"
        PROVE  Executing(t, j) /\ pc[t] = "decide"
    BY <1>1, <1>3, <2>1 DEF Executing, Busy, Live, SlotsTypeOK
  <2>2. ASSUME NEW j \in Jobs, j # job[s]
        PROVE  /\ \A i \in DOMAIN executions'[j] : executions'[j][i] = "completed" =>
                    i = Len(executions'[j]) /\ status'[j] = "completed"
               /\ \A t \in Slots : Executing(t, j)' /\ pc'[t] = "decide" => ~Succeeded(j)'
    BY <1>3, <2>1, <2>2 DEF SuccessInv, Succeeded
  <2>3. QED
    BY <1>7, <2>2 DEF SuccessInv, Succeeded
<1>11. QED
  BY <1>9, <1>10

LEMMA PlainSuccess ==
  ASSUME ExecInv, RowInv, SuccessInv, NEW s \in Slots, Step(s),
         ~FinishExecution(s), ~RecordFailure(s), ~RecordExecution(s)
  PROVE  RowInv' /\ SuccessInv'
<1>1. SlotsTypeOK /\ JobTypeOK
  BY TypeParts DEF ExecInv
<1>2. UNCHANGED <<executions, dead>> /\ \A t \in Slots \ {s} : pc'[t] = pc[t] /\ job'[t] = job[t] /\ row'[t] = row[t]
  BY <1>1 DEF Step, AcquireLock, SkipExecution, MarkRunning, RunJobHandler, MarkCompleted, Announce,
         ScheduleRetry, MarkDeadLetter, InsertDeadLetter, ReleaseLock, Leave, Goto, SlotsTypeOK
<1>3. \/ pc'[s] \notin Busy
      \/ /\ pc'[s] \in {"mark", "record"}
      \/ /\ pc[s] \in {"handler", "complete"} /\ pc'[s] \in {"complete", "failed", "finish"}
         /\ job'[s] = job[s] /\ row'[s] = row[s] /\ Live(s)
  BY <1>1 DEF Step, AcquireLock, SkipExecution, MarkRunning, RunJobHandler, MarkCompleted, Announce,
         ScheduleRetry, MarkDeadLetter, InsertDeadLetter, ReleaseLock, Leave, Goto, SlotsTypeOK, Busy
<1>4. RowInv'
  BY <1>1, <1>2, <1>3 DEF RowInv, Executing, Busy, Live, SlotsTypeOK
<1>5. ASSUME NEW j \in Jobs, Succeeded(j)
      PROVE  status'[j] = "completed"
  <2>1. status[j] = "completed"
    BY <1>5 DEF SuccessInv, Succeeded
  <2>2. ~(pc[s] \in {"mark", "complete", "decide"} /\ Live(s) /\ job[s] = j)
    BY <1>5, <2>1 DEF SuccessInv, ExecInv, StatusInv, Executing, Busy
  <2>3. QED
    BY <1>1, <2>1, <2>2
       DEF Step, AcquireLock, SkipExecution, MarkRunning, RunJobHandler, MarkCompleted, Announce,
           ScheduleRetry, MarkDeadLetter, InsertDeadLetter, ReleaseLock, SetStatus, JobTypeOK
<1>6. SuccessInv'
  BY <1>2, <1>3, <1>5 DEF SuccessInv, Succeeded, Executing, Live, Busy
<1>7. QED
  BY <1>4, <1>6

\* A job has at most one completed execution: executor.ts completes a job by
\* its id, whatever its status, and is right to.
THEOREM JobsSucceedOnce == Spec /\ []FreshResets => []SucceedsOnce
<1>1. Init => RowInv /\ SuccessInv
  <2>1. DOMAIN <<>> = {}
    OBVIOUS
  <2>2. QED
    BY <2>1 DEF Init, RowInv, SuccessInv, Succeeded, Executing, Busy
<1>2. ExecInv /\ FreshResets /\ RowInv /\ SuccessInv /\ [Next]_vars => RowInv' /\ SuccessInv'
  BY OtherSuccess, FinishSuccess, RecordSuccess, PlainSuccess
<1>3. ASSUME SuccessInv, NEW j \in Jobs
      PROVE  Cardinality({i \in DOMAIN executions[j] : executions[j][i] = "completed"}) <= 1
  <2> DEFINE S == {i \in DOMAIN executions[j] : executions[j][i] = "completed"}
  <2>1. S = {} \/ S = {Len(executions[j])}
    BY <1>3 DEF SuccessInv
  <2> HIDE DEF S
  <2>2. Cardinality(S) = 0 \/ Cardinality(S) = 1
    BY <2>1, FS_EmptySet, FS_Singleton
  <2>3. Cardinality(S) <= 1
    BY <2>2
  <2>4. QED
    BY <2>3 DEF S
<1>4. SuccessInv => SucceedsOnce
  BY <1>3 DEF SucceedsOnce
<1>5. QED
  BY <1>1, <1>2, <1>4, ExecHolds, PTL DEF Spec

-----------------------------------------------------------------------------
\* Without errors a status changes as the diagram says: no statement that
\* sets one looks at what it was, and the status it overwrites is the one
\* that the execution, or the request, has reason to believe in.
LEMMA StepLifecycle ==
  ASSUME ExecInv, MaxErrors = 0, NEW s \in Slots, Step(s), NEW j \in Jobs, status'[j] # status[j]
  PROVE  <<status[j], status'[j]>> \in Lifecycle
<1>1. SlotsTypeOK /\ JobTypeOK /\ errors = 0
  BY TypeParts DEF FaultTypeOK, ExecInv
<1>2. MarkRunning(s) \/ MarkCompleted(s) \/ ScheduleRetry(s) \/ MarkDeadLetter(s)
  BY DEF Step, AcquireLock, SkipExecution, RecordExecution, RunJobHandler, FinishExecution,
         Announce, RecordFailure, InsertDeadLetter, ReleaseLock
<1>3. job[s] = j /\ Executing(s, j)
  BY <1>1, <1>2 DEF MarkRunning, MarkCompleted, ScheduleRetry, MarkDeadLetter, SetStatus,
     JobTypeOK, Executing, Busy
<1>4. QED
  BY <1>1, <1>2, <1>3 DEF MarkRunning, MarkCompleted, ScheduleRetry, MarkDeadLetter, SetStatus,
     JobTypeOK, ExecInv, StatusInv, Lifecycle

\* Without errors, a job's status changes only along the arrows of
\* docs/architecture.md.
THEOREM StatusFollowsLifecycle ==
  ASSUME MaxErrors = 0
  PROVE  Spec /\ []FreshResets => FollowsLifecycle
<1> DEFINE A == \A j \in Jobs : status'[j] # status[j] => <<status[j], status'[j]>> \in Lifecycle
<1>1. ExecInv /\ FreshResets /\ [Next]_vars => [A]_vars
  <2> SUFFICES ASSUME ExecInv, FreshResets, [Next]_vars, NEW j \in Jobs, status'[j] # status[j]
               PROVE  <<status[j], status'[j]>> \in Lifecycle
    OBVIOUS
  <2>1. JobTypeOK /\ RequestTypeOK
    BY TypeParts DEF ExecInv
  <2>2. CASE \E s \in Slots : Step(s)
    BY <2>2, StepLifecycle
  <2>3. CASE \E s \in Slots, i \in Jobs : Claim(s, i)
    BY <2>1, <2>3 DEF Claim, JobTypeOK, Lifecycle
  <2>4. CASE \E r \in Requests : ApplyRetry(r) \/ ApplyReplay(r)
    BY <2>1, <2>4 DEF ApplyRetry, ApplyReplay, ResetJob, JobTypeOK, RequestTypeOK,
       FreshResets, Lifecycle
  <2>5. CASE \E i \in Jobs : CancelJob(i)
    BY <2>1, <2>5 DEF CancelJob, JobTypeOK, Lifecycle
  <2>6. QED
    BY <2>2, <2>3, <2>4, <2>5
       DEF Next, QueryFails, Crash, ExpireLock, CheckRetry, FindDeadLetter, DeleteDeadLetter, vars
<1>2. QED
  BY <1>1, ExecHolds, PTL DEF Spec, FollowsLifecycle

-----------------------------------------------------------------------------
(* The attempts of a job, and its rows.                                    *)

AttemptInv ==
  /\ \A s \in Slots, j \in Jobs : Executing(s, j) =>
       /\ attempt[s] <= MaxAttempts[j]
       /\ pc[s] \in {"acquire", "mark"} => attempt[s] = attempts[j] + 1
       /\ pc[s] \notin {"acquire", "mark"} => attempt[s] = attempts[j]
  /\ \A j \in Jobs : /\ attempts[j] <= MaxAttempts[j]
                     /\ status[j] = "queued" => attempts[j] < MaxAttempts[j]

LEMMA ClaimAttempt ==
  ASSUME ExecInv, AttemptInv, NEW s \in Slots, NEW i \in Jobs, Claim(s, i)
  PROVE  AttemptInv'
<1>1. SlotsTypeOK /\ JobTypeOK
  BY TypeParts DEF ExecInv
<1>2. QED
  BY <1>1 DEF AttemptInv, Claim, Executing, Live, Busy, SlotsTypeOK, JobTypeOK

LEMMA StepAttempt ==
  ASSUME ExecInv, AttemptInv, NEW s \in Slots, Step(s) \/ QueryFails(s)
  PROVE  AttemptInv'
<1>1. SlotsTypeOK /\ JobTypeOK
  BY TypeParts DEF ExecInv
<1>2. UNCHANGED dead /\ \A t \in Slots \ {s} : pc'[t] = pc[t] /\ job'[t] = job[t] /\ attempt'[t] = attempt[t]
  BY <1>1 DEF Step, AcquireLock, SkipExecution, MarkRunning, RecordExecution, RunJobHandler,
       MarkCompleted, FinishExecution, Announce, RecordFailure, ScheduleRetry, MarkDeadLetter,
       InsertDeadLetter, ReleaseLock, QueryFails, Leave, Goto, SlotsTypeOK
<1>3. CASE MarkRunning(s)
  <2>1. Executing(s, job[s]) /\ job[s] \in Jobs
    BY <1>1, <1>3 DEF MarkRunning, Executing, Busy, SlotsTypeOK
  <2>2. \A t \in Slots \ {s} : ~Executing(t, job[s])
    BY <2>1 DEF ExecInv, StatusInv
  <2>3. attempt[s] = attempts[job[s]] + 1 /\ attempt[s] <= MaxAttempts[job[s]]
    BY <1>3, <2>1 DEF MarkRunning, AttemptInv
  <2>4. QED
    BY <1>1, <1>2, <1>3, <2>1, <2>2, <2>3
       DEF MarkRunning, SetStatus, Goto, AttemptInv, Executing, Live, Busy, SlotsTypeOK, JobTypeOK
<1>4. CASE ~MarkRunning(s)
  <2>1. UNCHANGED attempts
        /\ \A j \in Jobs : status'[j] = "queued" =>
             status[j] = "queued" \/ (ScheduleRetry(s) /\ j = job[s])
    BY <1>1, <1>4 DEF Step, AcquireLock, SkipExecution, RecordExecution, RunJobHandler,
       MarkCompleted, FinishExecution, Announce, RecordFailure, ScheduleRetry, MarkDeadLetter,
       InsertDeadLetter, ReleaseLock, QueryFails, SetStatus, JobTypeOK
  <2>2. \/ pc'[s] \notin Busy
        \/ /\ job'[s] = job[s] /\ attempt'[s] = attempt[s] /\ pc[s] \in Busy /\ Live(s)
           /\ pc[s] \in {"acquire", "mark"} <=> pc'[s] \in {"acquire", "mark"}
    BY <1>1, <1>4 DEF Step, AcquireLock, SkipExecution, RecordExecution, RunJobHandler,
       MarkCompleted, FinishExecution, Announce, RecordFailure, ScheduleRetry, MarkDeadLetter,
       InsertDeadLetter, ReleaseLock, QueryFails, OnError, Leave, Goto, SlotsTypeOK, Busy
  <2>3. ScheduleRetry(s) => /\ job[s] \in Jobs /\ attempts[job[s]] < MaxAttempts[job[s]]
    BY <1>1 DEF ScheduleRetry, AttemptInv, Executing, Busy, SlotsTypeOK
  <2>4. ASSUME NEW t \in Slots, NEW j \in Jobs, Executing(t, j)'
        PROVE  /\ Executing(t, j) /\ attempt'[t] = attempt[t]
               /\ pc[t] \in {"acquire", "mark"} <=> pc'[t] \in {"acquire", "mark"}
    <3>1. t = s => Live(s) /\ pc[s] \in Busy /\ job[s] = j /\ attempt'[s] = attempt[s]
                   /\ (pc[s] \in {"acquire", "mark"} <=> pc'[s] \in {"acquire", "mark"})
      BY <1>2, <2>2, <2>4 DEF Executing, Live
    <3>2. t # s => Executing(t, j) /\ attempt'[t] = attempt[t] /\ pc'[t] = pc[t]
      BY <1>2, <2>4 DEF Executing, Live
    <3>3. QED
      BY <3>1, <3>2 DEF Executing
  <2>5. \A j \in Jobs : /\ attempts'[j] <= MaxAttempts[j]
                        /\ status'[j] = "queued" => attempts'[j] < MaxAttempts[j]
    BY <2>1, <2>3 DEF AttemptInv
  <2>6. \A t \in Slots, j \in Jobs : Executing(t, j)' =>
          /\ attempt'[t] <= MaxAttempts[j]
          /\ pc'[t] \in {"acquire", "mark"} => attempt'[t] = attempts'[j] + 1
          /\ pc'[t] \notin {"acquire", "mark"} => attempt'[t] = attempts'[j]
    BY <2>1, <2>4 DEF AttemptInv
  <2>7. QED
    BY <2>5, <2>6 DEF AttemptInv, Executing, Live
<1>5. QED
  BY <1>3, <1>4

LEMMA OtherAttempt ==
  ASSUME ExecInv, FreshResets, AttemptInv, [Next]_vars, ~\E s \in Slots : Step(s) \/ QueryFails(s),
         ~\E s \in Slots, j \in Jobs : Claim(s, j)
  PROVE  AttemptInv'
<1>1. JobTypeOK /\ RequestTypeOK
  BY TypeParts DEF ExecInv
<1>2. UNCHANGED slotVars /\ dead \subseteq dead'
  BY DEF Next, Crash, ExpireLock, CancelJob, CheckRetry, FindDeadLetter,
         ApplyRetry, ApplyReplay, DeleteDeadLetter, vars
<1>3. CASE \E r \in Requests : ApplyRetry(r) \/ ApplyReplay(r)
  <2>1. PICK j \in Jobs : ResetJob(j) /\ status[j] \in {"failed", "dead_letter"}
    BY <1>1, <1>3 DEF ApplyRetry, ApplyReplay, FreshResets, RequestTypeOK
  <2>2. \A t \in Slots : ~Executing(t, j)
    BY <2>1 DEF ExecInv, StatusInv, Executing, Busy
  <2>3. QED
    BY <1>1, <1>2, <2>1, <2>2 DEF ResetJob, AttemptInv, Executing, Live, JobTypeOK
<1>4. CASE ~\E r \in Requests : ApplyRetry(r) \/ ApplyReplay(r)
  <2>1. UNCHANGED attempts /\ \A j \in Jobs : status'[j] = "queued" => status[j] = "queued"
    BY <1>1, <1>4 DEF Next, Crash, ExpireLock, CancelJob, CheckRetry, FindDeadLetter,
         DeleteDeadLetter, vars, JobTypeOK
  <2>2. QED
    BY <1>2, <2>1 DEF AttemptInv, Executing, Live
<1>5. QED
  BY <1>3, <1>4

Recording(j) == \E s \in Slots : Executing(s, j) /\ pc[s] = "record"
Budget(j) == attempts[j] + MaxAttempts[j] * Cardinality(Resets(j))
BudgetInv ==
  \A j \in Jobs : /\ Len(executions[j]) <= Budget(j)
                  /\ Recording(j) => Len(executions[j]) < Budget(j)

LEMMA ResetsFinite == ASSUME NEW j PROVE IsFiniteSet(Resets(j)) /\ Cardinality(Resets(j)) \in Nat
<1>1. IsFiniteSet(Requests)
  BY FiniteAssumption, FS_Union DEF Requests
<1>2. Resets(j) \subseteq Requests
  BY DEF Resets
<1>3. IsFiniteSet(Resets(j))
  BY <1>1, <1>2, FS_Subset
<1>4. QED
  BY <1>3, FS_CardinalityType

LEMMA BudgetTypes ==
  ASSUME TypeOK, NEW j \in Jobs
  PROVE  /\ Len(executions[j]) \in Nat /\ attempts[j] \in Nat /\ MaxAttempts[j] \in Nat
         /\ Budget(j) \in Nat
<1>1. JobTypeOK /\ TableTypeOK
  BY TypeParts
<1>2. attempts[j] \in Nat /\ executions[j] \in Rows /\ MaxAttempts[j] \in Nat
  BY <1>1 DEF JobTypeOK, TableTypeOK
<1>3. PICK n \in Nat, m \in Nat : n = Cardinality(Resets(j)) /\ m = MaxAttempts[j]
  BY <1>2, ResetsFinite
<1>4. m * n \in Nat
  OBVIOUS
<1>5. Budget(j) \in Nat
  BY <1>2, <1>3, <1>4 DEF Budget
<1>6. QED
  BY <1>2, <1>5, RowTypes

LEMMA ResetsSame ==
  ASSUME ExecInv, [Next]_vars, ~\E r \in Requests : ApplyRetry(r) \/ ApplyReplay(r)
  PROVE  \A j \in Jobs : Resets(j)' = Resets(j)
<1>1. RequestTypeOK
  BY TypeParts DEF ExecInv
<1>2. CASE \E r \in Requests, j \in Jobs : CheckRetry(r, j) \/ FindDeadLetter(r, j)
  BY <1>1, <1>2 DEF CheckRetry, FindDeadLetter, Request, Resets, RequestTypeOK
<1>3. CASE \E r \in Requests : DeleteDeadLetter(r)
  BY <1>1, <1>3 DEF DeleteDeadLetter, Proceed, Resets, RequestTypeOK
<1>4. CASE UNCHANGED <<at, target>>
  BY <1>4 DEF Resets
<1>5. QED
  BY <1>2, <1>3, <1>4
     DEF Next, Claim, Crash, ExpireLock, CancelJob, vars, Step, AcquireLock, SkipExecution,
         MarkRunning, RecordExecution, RunJobHandler, MarkCompleted, FinishExecution, Announce,
         RecordFailure, ScheduleRetry, MarkDeadLetter, InsertDeadLetter, ReleaseLock, QueryFails

LEMMA NoteBudget ==
  ASSUME ExecInv, AttemptInv, BudgetInv, NEW s \in Slots, MarkRunning(s)
  PROVE  BudgetInv'
<1>1. SlotsTypeOK /\ JobTypeOK
  BY TypeParts DEF ExecInv
<1>2. PICK i \in Jobs : i = job[s] /\ Executing(s, i)
  BY <1>1 DEF MarkRunning, Executing, Busy, SlotsTypeOK
<1>3. attempt[s] = attempts[i] + 1
  BY <1>2 DEF MarkRunning, AttemptInv
<1>4. /\ attempts'[i] = attempts[i] + 1 /\ executions' = executions
      /\ \A j \in Jobs \ {i} : attempts'[j] = attempts[j]
  BY <1>1, <1>2, <1>3 DEF MarkRunning, JobTypeOK
<1>5. \A j \in Jobs : Cardinality(Resets(j))' = Cardinality(Resets(j))
  BY DEF MarkRunning, Resets
<1>6. Budget(i)' = Budget(i) + 1 /\ \A j \in Jobs \ {i} : Budget(j)' = Budget(j)
  <2>1. PICK n \in Nat, m \in Nat, k \in Nat :
          n = Cardinality(Resets(i)) /\ m = MaxAttempts[i] /\ k = attempts[i]
    BY <1>1, <1>2, ResetsFinite DEF JobTypeOK
  <2>2. m * n \in Nat
    OBVIOUS
  <2>3. Budget(i) = k + m * n /\ Budget(i)' = k + 1 + m * n
    BY <1>2, <1>4, <1>5, <2>1 DEF Budget
  <2>4. Budget(i)' = Budget(i) + 1
    BY <2>2, <2>3
  <2>5. QED
    BY <1>4, <1>5, <2>4 DEF Budget
<1>7. \A j \in Jobs \ {i} : Recording(j)' => Recording(j)
  BY <1>1, <1>2 DEF MarkRunning, Goto, Recording, Executing, Live, SlotsTypeOK
<1>8. Len(executions[i]) < Budget(i) + 1
  <2>1. i \in Jobs /\ Len(executions[i]) <= Budget(i)
    BY <1>2 DEF BudgetInv
  <2>2. QED
    BY <2>1, BudgetTypes DEF ExecInv
<1>9. QED
  <2>1. Len(executions'[i]) < Budget(i)' /\ Len(executions'[i]) <= Budget(i)'
    BY <1>4, <1>6, <1>8, BudgetTypes DEF ExecInv
  <2>2. QED
    BY <1>4, <1>6, <1>7, <2>1 DEF BudgetInv

LEMMA RecordBudget ==
  ASSUME ExecInv, BudgetInv, NEW s \in Slots, RecordExecution(s)
  PROVE  BudgetInv'
<1>1. SlotsTypeOK /\ TableTypeOK
  BY TypeParts DEF ExecInv
<1>2. PICK i \in Jobs : i = job[s] /\ Executing(s, i)
  BY <1>1 DEF RecordExecution, Executing, Busy, SlotsTypeOK
<1>3. /\ executions'[i] = Append(executions[i], "running")
      /\ \A j \in Jobs \ {i} : executions'[j] = executions[j]
  BY <1>1, <1>2 DEF RecordExecution, TableTypeOK
<1>4. Len(executions'[i]) = Len(executions[i]) + 1
  <2>1. PICK rows \in Rows : rows = executions[i]
    BY <1>1 DEF TableTypeOK
  <2>2. Len(Append(rows, "running")) = Len(rows) + 1
    BY RowTypes
  <2>3. QED
    BY <1>3, <2>1, <2>2
<1>5. \A j \in Jobs : Budget(j)' = Budget(j)
  BY DEF RecordExecution, Budget, Resets
<1>6. Recording(i)
  BY <1>2 DEF Recording, RecordExecution
<1>7. \A t \in Slots \ {s} : ~Executing(t, i)
  BY <1>2 DEF ExecInv, StatusInv
<1>8. ~Recording(i)' /\ \A j \in Jobs \ {i} : Recording(j)' => Recording(j)
  BY <1>1, <1>2, <1>7 DEF RecordExecution, Recording, Executing, Live, Busy, SlotsTypeOK
<1>9. Len(executions'[i]) <= Budget(i)'
  <2>1. Len(executions[i]) < Budget(i)
    BY <1>2, <1>6 DEF BudgetInv
  <2>2. QED
    BY <1>4, <1>5, <2>1, BudgetTypes DEF ExecInv
<1>10. QED
  BY <1>3, <1>5, <1>8, <1>9 DEF BudgetInv

LEMMA ResetBudget ==
  ASSUME ExecInv, FreshResets, AttemptInv, BudgetInv, NEW r \in Requests,
         ApplyRetry(r) \/ ApplyReplay(r)
  PROVE  BudgetInv'
<1>1. RequestTypeOK /\ JobTypeOK
  BY TypeParts DEF ExecInv
<1>2. PICK i \in Jobs : i = target[r] /\ ResetJob(i)
  BY <1>1 DEF ApplyRetry, ApplyReplay, RequestTypeOK
<1>3. /\ at[r] \in {"retry", "reset"} /\ at'[r] \in {"delete", "done"}
      /\ \A q \in Requests \ {r} : at'[q] = at[q]
      /\ UNCHANGED <<target, executions, slotVars, dead>>
  BY <1>1 DEF ApplyRetry, ApplyReplay, Proceed, RequestTypeOK
<1>4. /\ r \notin Resets(i) /\ Resets(i)' = Resets(i) \cup {r}
      /\ \A j \in Jobs \ {i} : Resets(j)' = Resets(j)
  BY <1>2, <1>3 DEF Resets
<1>5. attempts'[i] = 0 /\ \A j \in Jobs \ {i} : attempts'[j] = attempts[j]
  BY <1>1, <1>2 DEF ResetJob, JobTypeOK
<1>6. \A j \in Jobs \ {i} : Budget(j)' = Budget(j)
  BY <1>4, <1>5 DEF Budget
<1>7. Len(executions[i]) <= Budget(i)'
  <2>1. PICK n \in Nat : n = Cardinality(Resets(i))
    BY ResetsFinite
  <2>2. Cardinality(Resets(i)') = n + 1
    BY <1>4, <2>1, ResetsFinite, FS_AddElement
  <2>3. PICK m \in Nat, k \in Nat : m = MaxAttempts[i] /\ k = attempts[i]
    BY <1>1, <1>2 DEF JobTypeOK
  <2>4. Budget(i) = k + m * n /\ Budget(i)' = 0 + m * (n + 1)
    BY <1>5, <2>1, <2>2, <2>3 DEF Budget
  <2>5. k <= m /\ Len(executions[i]) <= Budget(i) /\ Len(executions[i]) \in Nat
    BY <1>2, <2>3, BudgetTypes DEF AttemptInv, BudgetInv, ExecInv
  <2>6. PICK p \in Nat : p = m * n /\ m * (n + 1) = p + m
    OBVIOUS
  <2>7. Budget(i) = k + p /\ Budget(i)' = p + m
    BY <2>4, <2>6
  <2>8. Len(executions[i]) <= k + p
    BY <2>5, <2>7
  <2>9. PICK x \in Nat : x = Len(executions[i])
    BY <2>5
  <2>10. x <= p + m
    BY <2>5, <2>8, <2>9, p \in Nat, m \in Nat, k \in Nat
  <2>11. QED
    BY <2>7, <2>9, <2>10
<1>8. \A j \in Jobs : Recording(j)' <=> Recording(j)
  BY <1>3 DEF Recording, Executing, Live
<1>9. ~Recording(i)
  BY <1>2, <1>3 DEF Recording, Executing, Busy, ExecInv, StatusInv, FreshResets
<1>10. QED
  BY <1>3, <1>6, <1>7, <1>8, <1>9 DEF BudgetInv

LEMMA OtherBudget ==
  ASSUME ExecInv, AttemptInv, BudgetInv, [Next]_vars,
         ~\E s \in Slots : MarkRunning(s) \/ RecordExecution(s),
         ~\E r \in Requests : ApplyRetry(r) \/ ApplyReplay(r)
  PROVE  BudgetInv'
<1>1. SlotsTypeOK /\ TableTypeOK
  BY TypeParts DEF ExecInv
<1>2. UNCHANGED attempts
  BY DEF Next, Claim, Crash, ExpireLock, CancelJob, CheckRetry, FindDeadLetter, DeleteDeadLetter,
         vars, Step, AcquireLock, SkipExecution, RunJobHandler, MarkCompleted, FinishExecution,
         Announce, RecordFailure, ScheduleRetry, MarkDeadLetter, InsertDeadLetter, ReleaseLock,
         QueryFails
<1>3. \A j \in Jobs : Budget(j)' = Budget(j)
  BY <1>2, ResetsSame DEF Budget
<1>4. \A j \in Jobs : Len(executions'[j]) = Len(executions[j])
  <2>1. CASE \E s \in Slots : FinishExecution(s) \/ RecordFailure(s)
    <3>1. PICK s \in Slots, v \in {"completed", "failed"} : SetExecution(s, v)
      BY <2>1 DEF FinishExecution, RecordFailure
    <3>2. row[s] \in Nat /\ executions \in [Jobs -> Rows]
      BY <1>1 DEF SlotsTypeOK, TableTypeOK
    <3>3. ASSUME NEW j \in Jobs
          PROVE  Len(executions'[j]) = Len(executions[j])
      <4>1. PICK rows \in Rows : rows = executions[j]
        BY <3>2
      <4>2. PICK i \in Nat : i = row[s]
        BY <3>2
      <4>3. Len([rows EXCEPT ![i] = v]) = Len(rows)
        BY RowTypes
      <4>4. executions'[j] = [rows EXCEPT ![i] = v] \/ executions'[j] = rows
        BY <3>1, <3>2, <4>1, <4>2 DEF SetExecution
      <4>5. QED
        BY <4>1, <4>3, <4>4
    <3>4. QED
      BY <3>3
  <2>2. CASE ~\E s \in Slots : FinishExecution(s) \/ RecordFailure(s)
    BY <2>2 DEF Next, Claim, Crash, ExpireLock, CancelJob, CheckRetry, FindDeadLetter,
         DeleteDeadLetter, vars, Step, AcquireLock, SkipExecution, RunJobHandler, MarkCompleted,
         Announce, ScheduleRetry, MarkDeadLetter, InsertDeadLetter, ReleaseLock, QueryFails
  <2>3. QED
    BY <2>1, <2>2
<1>5. ASSUME NEW t \in Slots, pc'[t] = "record"
      PROVE  pc[t] = "record" /\ job'[t] = job[t]
  <2>1. CASE \E s \in Slots : Step(s) \/ QueryFails(s)
    BY <1>1, <1>5, <2>1 DEF Step, AcquireLock, SkipExecution, RunJobHandler, MarkCompleted,
         FinishExecution, Announce, RecordFailure, ScheduleRetry, MarkDeadLetter, InsertDeadLetter,
         ReleaseLock, QueryFails, OnError, Leave, Goto, SlotsTypeOK
  <2>2. CASE \E s \in Slots, j \in Jobs : Claim(s, j)
    BY <1>1, <1>5, <2>2 DEF Claim, SlotsTypeOK
  <2>3. CASE UNCHANGED slotVars
    BY <1>5, <2>3
  <2>4. QED
    BY <2>1, <2>2, <2>3 DEF Next, Crash, ExpireLock, CancelJob, CheckRetry, FindDeadLetter,
       DeleteDeadLetter, vars
<1>6. dead \subseteq dead'
  BY DEF Next, Claim, Crash, ExpireLock, CancelJob, CheckRetry, FindDeadLetter, DeleteDeadLetter,
         vars, Step, AcquireLock, SkipExecution, RunJobHandler, MarkCompleted, FinishExecution,
         Announce, RecordFailure, ScheduleRetry, MarkDeadLetter, InsertDeadLetter, ReleaseLock,
         QueryFails
<1>7. \A j \in Jobs : Recording(j)' => Recording(j)
  BY <1>5, <1>6 DEF Recording, Executing, Live, Busy
<1>8. QED
  BY <1>3, <1>4, <1>7 DEF BudgetInv

\* A job is run at most max_attempts times, and as often again after a reset,
\* errors and crashes or not.
THEOREM AttemptsWithinBudget == Spec /\ []FreshResets => []AttemptBudget
<1>1. Init => AttemptInv /\ BudgetInv
  <2>1. Len(<<>>) = 0
    OBVIOUS
  <2>2. ASSUME Init, NEW j \in Jobs PROVE Len(executions[j]) <= Budget(j)
    <3>1. Len(executions[j]) = 0
      BY <2>1, <2>2 DEF Init
    <3>2. Budget(j) \in Nat
      BY <2>2, BudgetTypes, InitExec DEF ExecInv
    <3>3. QED
      BY <3>1, <3>2
  <2>3. QED
    BY <2>2 DEF Init, AttemptInv, BudgetInv, Recording, Executing, Busy
<1>2. ExecInv /\ FreshResets /\ AttemptInv /\ BudgetInv /\ [Next]_vars => AttemptInv' /\ BudgetInv'
  BY ClaimAttempt, StepAttempt, OtherAttempt, NoteBudget, RecordBudget, ResetBudget, OtherBudget
<1>3. ASSUME ExecInv, AttemptInv, BudgetInv, NEW j \in Jobs
      PROVE  Len(executions[j]) <= MaxAttempts[j] * (1 + Cardinality(Resets(j)))
  <2>1. JobTypeOK
    BY <1>3, TypeParts DEF ExecInv
  <2>2. PICK n \in Nat, m \in Nat, k \in Nat :
          n = Cardinality(Resets(j)) /\ m = MaxAttempts[j] /\ k = attempts[j]
    BY <2>1, ResetsFinite DEF JobTypeOK
  <2>3. k <= m /\ Len(executions[j]) <= k + m * n /\ Len(executions[j]) \in Nat
    BY <1>3, <2>2, BudgetTypes DEF AttemptInv, BudgetInv, Budget, ExecInv
  <2>4. PICK p \in Nat : p = m * n /\ m * (1 + n) = p + m
    OBVIOUS
  <2>5. Len(executions[j]) <= p + m
    <3>1. Len(executions[j]) <= k + p
      BY <2>3, <2>4
    <3>2. QED
      BY <2>3, <2>4, <3>1
  <2>6. QED
    BY <2>2, <2>4, <2>5
<1>4. ExecInv /\ AttemptInv /\ BudgetInv => AttemptBudget
  BY <1>3 DEF AttemptBudget
<1>5. QED
  BY <1>1, <1>2, <1>4, ExecHolds, PTL DEF Spec

-----------------------------------------------------------------------------
(* The dead letter queue, and the executions, while nothing fails.         *)

NoFaults == dead = {} /\ errors = 0

LEMMA NoFaultsStep ==
  ASSUME MaxErrors = 0, MaxCrashes = 0, NoFaults, [Next]_vars
  PROVE  NoFaults' /\ ~\E s \in Slots : QueryFails(s)
<1>1. ~\E s \in Slots : QueryFails(s)
  BY DEF NoFaults, QueryFails
<1>2. ASSUME NEW w \in Workers, Crash(w) PROVE FALSE
  <2>1. Cardinality(dead) = 0
    BY FS_EmptySet DEF NoFaults
  <2>2. Cardinality(dead) < 0
    BY <1>2 DEF Crash
  <2>3. QED
    BY <2>1, <2>2
<1>3. UNCHANGED <<dead, errors>>
  BY <1>1, <1>2 DEF Next, Claim, ExpireLock, CancelJob, CheckRetry, FindDeadLetter, ApplyRetry,
     ApplyReplay, DeleteDeadLetter, vars, Step, AcquireLock, SkipExecution, MarkRunning,
     RecordExecution, RunJobHandler, MarkCompleted, FinishExecution, Announce, RecordFailure,
     ScheduleRetry, MarkDeadLetter, InsertDeadLetter, ReleaseLock
<1>4. QED
  BY <1>1, <1>3 DEF NoFaults

(* The ids that are in use, and a row that no request is about to delete   *)
(* for each buried job.                                                    *)
EntryInv ==
  /\ \A j \in Jobs : dlq[j] \subseteq 1 .. buried[j]
  /\ \A r \in Requests : at[r] \in {"reset", "delete"} => entry[r] <= buried[target[r]]

Kept(j) == \E e \in dlq[j] : \A r \in Requests : at[r] = "delete" /\ target[r] = j => e # entry[r]
BuriedInv ==
  \A j \in Jobs : status[j] = "dead_letter" =>
    Kept(j) \/ \E s \in Slots : job[s] = j /\ pc[s] = "bury"

DeadLetterInv == TypeOK /\ NoFaults /\ EntryInv /\ BuriedInv

LEMMA InsertBuried ==
  ASSUME DeadLetterInv, NEW s \in Slots, InsertDeadLetter(s)
  PROVE  EntryInv' /\ BuriedInv'
<1> USE DEF DeadLetterInv
<1>1. SlotsTypeOK /\ TableTypeOK /\ RequestTypeOK
  BY TypeParts
<1>2. PICK i \in Jobs : i = job[s] /\ pc[s] = "bury"
  BY <1>1 DEF InsertDeadLetter, SlotsTypeOK
<1>3. PICK n \in Nat : n = buried[i]
  BY <1>1, <1>2 DEF TableTypeOK
<1>4. /\ buried'[i] = n + 1 /\ dlq'[i] = dlq[i] \cup {n + 1}
      /\ \A j \in Jobs \ {i} : buried'[j] = buried[j] /\ dlq'[j] = dlq[j]
      /\ \A t \in Slots \ {s} : pc'[t] = pc[t]
      /\ UNCHANGED <<status, job, requestVars>>
  BY <1>1, <1>2, <1>3 DEF InsertDeadLetter, Goto, SlotsTypeOK, TableTypeOK
<1>5. dlq[i] \subseteq 1 .. n /\ 1 .. n \subseteq 1 .. n + 1
  BY <1>2, <1>3 DEF EntryInv
<1>6. \A j \in Jobs : dlq'[j] \subseteq 1 .. buried'[j]
  BY <1>3, <1>4, <1>5 DEF EntryInv
<1>7. ASSUME NEW r \in Requests, at[r] \in {"reset", "delete"}
      PROVE  entry[r] <= buried'[target[r]] /\ (target[r] = i => entry[r] # n + 1)
  <2>1. entry[r] \in Nat /\ target[r] \in Jobs /\ entry[r] <= buried[target[r]]
    BY <1>1, <1>7 DEF EntryInv, RequestTypeOK
  <2>2. CASE target[r] = i
    <3>1. entry[r] <= n
      BY <1>3, <2>1, <2>2
    <3>2. entry[r] <= n + 1 /\ entry[r] # n + 1
      BY <1>3, <2>1, <3>1
    <3>3. QED
      BY <1>4, <2>2, <3>2
  <2>3. QED
    BY <1>4, <2>1, <2>2
<1>8. EntryInv'
  BY <1>4, <1>6, <1>7 DEF EntryInv
<1>9. Kept(i)'
  BY <1>4, <1>7 DEF Kept
<1>10. ASSUME NEW j \in Jobs, j # i, status[j] = "dead_letter"
       PROVE  Kept(j)' \/ \E t \in Slots : job'[t] = j /\ pc'[t] = "bury"
  <2>1. Kept(j) \/ \E t \in Slots : job[t] = j /\ pc[t] = "bury"
    BY <1>10 DEF BuriedInv
  <2>2. Kept(j) => Kept(j)'
    BY <1>4, <1>10 DEF Kept
  <2>3. \A t \in Slots : job[t] = j /\ pc[t] = "bury" => job'[t] = j /\ pc'[t] = "bury"
    BY <1>2, <1>4, <1>10
  <2>4. QED
    BY <2>1, <2>2, <2>3
<1>11. BuriedInv'
  BY <1>4, <1>9, <1>10 DEF BuriedInv
<1>12. QED
  BY <1>8, <1>11

LEMMA StepBuried ==
  ASSUME DeadLetterInv, NEW s \in Slots, Step(s), ~InsertDeadLetter(s)
  PROVE  EntryInv' /\ BuriedInv'
<1> USE DEF DeadLetterInv
<1>1. SlotsTypeOK /\ JobTypeOK
  BY TypeParts
<1>2. UNCHANGED <<dlq, buried, requestVars>> /\ pc[s] # "bury"
      /\ \A t \in Slots \ {s} : pc'[t] = pc[t] /\ job'[t] = job[t]
  BY <1>1 DEF Step, AcquireLock, SkipExecution, MarkRunning, RecordExecution, RunJobHandler,
     MarkCompleted, FinishExecution, Announce, RecordFailure, ScheduleRetry, MarkDeadLetter,
     ReleaseLock, Leave, Goto, SlotsTypeOK
<1>3. \A j \in Jobs : status'[j] = "dead_letter" =>
        status[j] = "dead_letter" \/ (job'[s] = j /\ pc'[s] = "bury")
  BY <1>1 DEF Step, AcquireLock, SkipExecution, MarkRunning, RecordExecution, RunJobHandler,
     MarkCompleted, FinishExecution, Announce, RecordFailure, ScheduleRetry, MarkDeadLetter,
     ReleaseLock, InsertDeadLetter, Goto, SetStatus, SlotsTypeOK, JobTypeOK
<1>4. EntryInv'
  BY <1>2 DEF EntryInv
<1>5. \A j \in Jobs : Kept(j)' <=> Kept(j)
  BY <1>2 DEF Kept
<1>6. BuriedInv'
  BY <1>2, <1>3, <1>5 DEF BuriedInv
<1>7. QED
  BY <1>4, <1>6

LEMMA RequestBuried ==
  ASSUME DeadLetterInv, NEW r \in Requests,
         \/ \E j \in Jobs : CheckRetry(r, j) \/ FindDeadLetter(r, j)
         \/ ApplyRetry(r) \/ ApplyReplay(r) \/ DeleteDeadLetter(r)
  PROVE  EntryInv' /\ BuriedInv'
<1> USE DEF DeadLetterInv
<1>1. RequestTypeOK /\ TableTypeOK /\ JobTypeOK
  BY TypeParts
<1>2. CASE \E j \in Jobs : CheckRetry(r, j) \/ FindDeadLetter(r, j)
  <2>1. PICK j \in Jobs, e \in Nat, there \in {"retry", "reset"} :
          /\ Request(r, there, j, e) /\ (there = "reset" => e \in dlq[j])
          /\ UNCHANGED <<status, dlq, buried, slotVars>>
    BY <1>1, <1>2 DEF CheckRetry, FindDeadLetter, TableTypeOK
  <2>2. /\ at'[r] = there /\ target'[r] = j /\ entry'[r] = e
        /\ \A q \in Requests \ {r} : at'[q] = at[q] /\ target'[q] = target[q] /\ entry'[q] = entry[q]
    BY <1>1, <2>1 DEF Request, RequestTypeOK
  <2>3. buried[j] \in Nat /\ (there = "reset" => e <= buried[j])
    BY <1>1, <2>1 DEF EntryInv, TableTypeOK
  <2>4. EntryInv'
    BY <2>1, <2>2, <2>3 DEF EntryInv
  <2>5. \A i \in Jobs : Kept(i) => Kept(i)'
    BY <2>1, <2>2 DEF Kept
  <2>6. BuriedInv'
    BY <2>1, <2>5 DEF BuriedInv
  <2>7. QED
    BY <2>4, <2>6
<1>3. CASE ApplyRetry(r) \/ ApplyReplay(r)
  <2>1. /\ target[r] \in Jobs /\ ResetJob(target[r]) /\ UNCHANGED <<dlq, buried, slotVars, target, entry>>
        /\ \A q \in Requests \ {r} : at'[q] = at[q]
        /\ at'[r] \in {"reset", "delete"} => at[r] = "reset"
    BY <1>1, <1>3 DEF ApplyRetry, ApplyReplay, Proceed, RequestTypeOK
  <2>2. EntryInv'
    BY <2>1 DEF EntryInv
  <2>3. \A i \in Jobs \ {target[r]} : Kept(i) => Kept(i)'
    BY <2>1 DEF Kept
  <2>4. status'[target[r]] # "dead_letter" /\ \A i \in Jobs \ {target[r]} : status'[i] = status[i]
    BY <1>1, <2>1 DEF ResetJob, JobTypeOK
  <2>5. BuriedInv'
    BY <2>1, <2>3, <2>4 DEF BuriedInv
  <2>6. QED
    BY <2>2, <2>5
<1>4. CASE DeleteDeadLetter(r)
  <2>1. /\ at[r] = "delete" /\ at'[r] = "done" /\ target[r] \in Jobs
        /\ dlq'[target[r]] = dlq[target[r]] \ {entry[r]}
        /\ \A j \in Jobs \ {target[r]} : dlq'[j] = dlq[j]
        /\ \A q \in Requests \ {r} : at'[q] = at[q]
        /\ UNCHANGED <<status, buried, slotVars, target, entry>>
    BY <1>1, <1>4 DEF DeleteDeadLetter, Proceed, RequestTypeOK, TableTypeOK
  <2>2. EntryInv'
    BY <2>1 DEF EntryInv
  <2>3. ASSUME NEW j \in Jobs, Kept(j) PROVE Kept(j)'
    <3>1. PICK e \in dlq[j] : \A q \in Requests : at[q] = "delete" /\ target[q] = j => e # entry[q]
      BY <2>3 DEF Kept
    <3>2. e \in dlq'[j]
      BY <2>1, <3>1
    <3>3. \A q \in Requests : at'[q] = "delete" /\ target'[q] = j => e # entry'[q]
      BY <2>1, <3>1
    <3>4. QED
      BY <3>2, <3>3 DEF Kept
  <2>4. BuriedInv'
    BY <2>1, <2>3 DEF BuriedInv
  <2>5. QED
    BY <2>2, <2>4
<1>5. QED
  BY <1>2, <1>3, <1>4

LEMMA OtherBuried ==
  ASSUME DeadLetterInv,
         \/ \E s \in Slots, j \in Jobs : Claim(s, j)
         \/ \E w \in Workers : Crash(w)
         \/ \E j \in Jobs : ExpireLock(j) \/ CancelJob(j)
         \/ UNCHANGED vars
  PROVE  EntryInv' /\ BuriedInv'
<1> USE DEF DeadLetterInv
<1>1. SlotsTypeOK /\ JobTypeOK
  BY TypeParts
<1>2. UNCHANGED <<dlq, buried, requestVars>>
  BY DEF Claim, Crash, ExpireLock, CancelJob, vars
<1>3. \A t \in Slots : pc[t] = "bury" => pc'[t] = "bury" /\ job'[t] = job[t]
  BY <1>1 DEF Claim, Crash, ExpireLock, CancelJob, vars, SlotsTypeOK
<1>4. \A j \in Jobs : status'[j] = "dead_letter" => status[j] = "dead_letter"
  BY <1>1 DEF Claim, Crash, ExpireLock, CancelJob, vars, JobTypeOK
<1>5. EntryInv'
  BY <1>2 DEF EntryInv
<1>6. \A j \in Jobs : Kept(j)' <=> Kept(j)
  BY <1>2 DEF Kept
<1>7. BuriedInv'
  BY <1>3, <1>4, <1>6 DEF BuriedInv
<1>8. QED
  BY <1>5, <1>7

\* A job in status dead_letter has a row in the dead letter queue, whatever
\* the operator replays (README "Jobs exceeding max_attempts land in
\* dead_letter_queue").
THEOREM BuriedJobsHaveEntries ==
  ASSUME MaxErrors = 0, MaxCrashes = 0
  PROVE  Spec => []ExecutionInv
<1>1. Init => DeadLetterInv
  <2>1. Init => TypeOK
    BY InitExec DEF ExecInv
  <2>2. Init => NoFaults /\ EntryInv /\ BuriedInv
    BY DEF Init, NoFaults, EntryInv, BuriedInv
  <2>3. QED
    BY <2>1, <2>2 DEF DeadLetterInv
<1>2. DeadLetterInv /\ [Next]_vars => DeadLetterInv'
  <2> SUFFICES ASSUME DeadLetterInv, [Next]_vars PROVE DeadLetterInv'
    OBVIOUS
  <2>1. TypeOK'
    BY StepTypes, OtherTypes DEF DeadLetterInv
  <2>2. NoFaults' /\ ~\E s \in Slots : QueryFails(s)
    BY NoFaultsStep DEF DeadLetterInv
  <2>3. EntryInv' /\ BuriedInv'
    BY <2>2, InsertBuried, StepBuried, RequestBuried, OtherBuried DEF Next
  <2>4. QED
    BY <2>1, <2>2, <2>3 DEF DeadLetterInv
<1>3. DeadLetterInv => ExecutionInv
  BY DEF DeadLetterInv, NoFaults, BuriedInv, Kept, ExecutionInv, DeadLetterHasEntry, Live
<1>4. QED
  BY <1>1, <1>2, <1>3, PTL DEF Spec

-----------------------------------------------------------------------------
(* When every execution ends before its job is due again, a job is in at   *)
(* most one slot, its lock is that slot's, and no execution is skipped.    *)

HeldInv ==
  /\ \A s \in Slots : pc[s] = "idle" => job[s] = NoJob
  /\ \A s, t \in Slots : job[s] # NoJob /\ job[s] = job[t] => s = t
  /\ \A j \in Jobs : holder[j] # NoWorker =>
       \E s \in Slots : job[s] = j /\ pc[s] \in Inside /\ holder[j] = SlotWorker[s]
  /\ \A j \in Jobs : status[j] \in {"claimed", "running"} => \E s \in Slots : Executing(s, j)

LEMMA ClaimHeld ==
  ASSUME QuickRelease, ExecInv, NoFaults, HeldInv, NEW s \in Slots, NEW i \in Jobs, Claim(s, i)
  PROVE  HeldInv'
<1>1. SlotsTypeOK /\ JobTypeOK /\ L!LockTypeOK
  BY TypeParts DEF ExecInv
<1>2. ASSUME NEW t \in Slots, job[t] = i PROVE FALSE
  <2>1. Live(t)
    BY DEF NoFaults, Live
  <2>2. pc[t] \in Busy
    BY <1>1, <1>2, <2>1 DEF Claim, Due, HeldInv, SlotsTypeOK, Busy
  <2>3. status[i] # "queued"
    BY <1>2, <2>1, <2>2 DEF ExecInv, StatusInv, Executing, Busy
  <2>4. QED
    BY <2>3 DEF Claim
<1>3. /\ pc' = [pc EXCEPT ![s] = "acquire"] /\ job' = [job EXCEPT ![s] = i]
      /\ status' = [status EXCEPT ![i] = "claimed"] /\ UNCHANGED <<holder, dead>> /\ Live(s)
      /\ pc[s] = "idle" /\ job[s] = NoJob
  BY DEF Claim, HeldInv
<1>4. Executing(s, i)'
  BY <1>1, <1>3 DEF Executing, Busy, Live, SlotsTypeOK
<1>5. \A t \in Slots \ {s} : pc'[t] = pc[t] /\ job'[t] = job[t]
  BY <1>1, <1>3 DEF SlotsTypeOK
<1>6. \A j \in Jobs \ {i} : status'[j] = status[j] /\
        \A t \in Slots : Executing(t, j) => Executing(t, j)'
  BY <1>1, <1>3, <1>5 DEF Executing, Live, Busy, JobTypeOK
<1>7. \A t \in Slots : pc'[t] = "idle" => job'[t] = NoJob
  BY <1>1, <1>3, <1>5 DEF HeldInv, SlotsTypeOK
<1>8. \A t, u \in Slots : job'[t] # NoJob /\ job'[t] = job'[u] => t = u
  BY <1>1, <1>2, <1>3, <1>5 DEF HeldInv, SlotsTypeOK
<1>9. \A j \in Jobs : holder'[j] # NoWorker =>
        \E t \in Slots : job'[t] = j /\ pc'[t] \in Inside /\ holder'[j] = SlotWorker[t]
  BY <1>3, <1>5 DEF HeldInv
<1>10. \A j \in Jobs : status'[j] \in {"claimed", "running"} => \E t \in Slots : Executing(t, j)'
  BY <1>4, <1>6 DEF HeldInv
<1>11. QED
  BY <1>7, <1>8, <1>9, <1>10 DEF HeldInv

LEMMA EnterHeld ==
  ASSUME ExecInv, NoFaults, HeldInv, NEW s \in Slots, AcquireLock(s)
  PROVE  HeldInv'
<1>1. SlotsTypeOK /\ L!LockTypeOK
  BY TypeParts DEF ExecInv
<1>2. /\ pc[s] = "acquire" /\ job[s] \in Jobs
      /\ pc' = [pc EXCEPT ![s] = "mark"] /\ holder' = [holder EXCEPT ![job[s]] = SlotWorker[s]]
      /\ UNCHANGED <<job, status, dead>>
  BY <1>1 DEF AcquireLock, L!Acquire, Goto, SlotsTypeOK
<1>3. \A t \in Slots, j \in Jobs : Executing(t, j)' <=> Executing(t, j)
  BY <1>1, <1>2 DEF Executing, Live, Busy, SlotsTypeOK
<1>4. QED
  BY <1>1, <1>2, <1>3 DEF HeldInv, L!LockTypeOK, SlotsTypeOK

\* The only slot of a job finds its lock free, or its own.
LEMMA NeverSkipped ==
  ASSUME ExecInv, HeldInv, NEW s \in Slots
  PROVE  ~SkipExecution(s)
<1>1. SlotsTypeOK
  BY TypeParts DEF ExecInv
<1>2. QED
  BY <1>1 DEF SkipExecution, L!CanAcquire, HeldInv, SlotsTypeOK

LEMMA LeaveHeld ==
  ASSUME ExecInv, NoFaults, HeldInv, NEW s \in Slots, ReleaseLock(s)
  PROVE  HeldInv'
<1>1. SlotsTypeOK /\ L!LockTypeOK
  BY TypeParts DEF ExecInv
<1>2. /\ pc[s] = "release" /\ job[s] \in Jobs
      /\ pc' = [pc EXCEPT ![s] = "idle"] /\ job' = [job EXCEPT ![s] = NoJob]
      /\ UNCHANGED <<status, dead>>
  BY <1>1 DEF ReleaseLock, Leave, SlotsTypeOK
<1>3. holder'[job[s]] = NoWorker /\ \A j \in Jobs \ {job[s]} : holder'[j] = holder[j]
  <2>1. holder[job[s]] # NoWorker => holder[job[s]] = SlotWorker[s]
    BY <1>2 DEF HeldInv
  <2>2. CASE holder[job[s]] = SlotWorker[s]
    BY <1>1, <1>2, <2>2 DEF ReleaseLock, L!Release, L!LockTypeOK
  <2>3. CASE holder[job[s]] # SlotWorker[s]
    BY <2>1, <2>3 DEF ReleaseLock, L!Release, L!lockVars
  <2>4. QED
    BY <2>2, <2>3
<1>4. ASSUME NEW t \in Slots, t # s
      PROVE  pc'[t] = pc[t] /\ job'[t] = job[t] /\ job[t] # job[s]
  BY <1>1, <1>2, <1>4 DEF HeldInv, SlotsTypeOK
<1>5. \A t \in Slots : job[t] = job[s] => t = s
  BY <1>4
<1>6. status[job[s]] \notin {"claimed", "running"}
  BY <1>2, <1>5 DEF HeldInv, Executing, Busy
<1>7. \A t \in Slots \ {s}, j \in Jobs : Executing(t, j) => Executing(t, j)'
  BY <1>2, <1>4 DEF Executing, Live
<1>8. \A j \in Jobs : status'[j] \in {"claimed", "running"} => \E t \in Slots : Executing(t, j)'
  BY <1>2, <1>6, <1>7 DEF HeldInv, Executing
<1>9. \A j \in Jobs : holder'[j] # NoWorker =>
        \E t \in Slots : job'[t] = j /\ pc'[t] \in Inside /\ holder'[j] = SlotWorker[t]
  BY <1>3, <1>4 DEF HeldInv
<1>10. /\ \A t \in Slots : pc'[t] = "idle" => job'[t] = NoJob
       /\ \A t, u \in Slots : job'[t] # NoJob /\ job'[t] = job'[u] => t = u
  BY <1>1, <1>2, <1>4 DEF HeldInv, SlotsTypeOK
<1>11. QED
  BY <1>8, <1>9, <1>10 DEF HeldInv

LEMMA WorkHeld ==
  ASSUME ExecInv, NoFaults, HeldInv, NEW s \in Slots, Step(s), ~AcquireLock(s), ~ReleaseLock(s)
  PROVE  HeldInv'
<1>1. SlotsTypeOK /\ JobTypeOK
  BY TypeParts DEF ExecInv
<1>2. PICK i \in Jobs : i = job[s]
  BY <1>1, NeverSkipped
     DEF Step, SkipExecution, MarkRunning, RecordExecution, RunJobHandler, MarkCompleted,
         FinishExecution, Announce, RecordFailure, ScheduleRetry, MarkDeadLetter,
         InsertDeadLetter, SlotsTypeOK
<1>3. /\ pc[s] \in Inside /\ pc'[s] \in Inside /\ UNCHANGED <<job, holder, dead>> /\ Live(s)
      /\ \A t \in Slots \ {s} : pc'[t] = pc[t]
      /\ \A j \in Jobs \ {i} : status'[j] = status[j]
      /\ pc'[s] \notin Busy => \/ status'[i] \notin {"claimed", "running"}
                               \/ pc[s] \in {"announce", "bury"} /\ status' = status
  BY <1>1, <1>2, NeverSkipped
     DEF Step, MarkRunning, RecordExecution, RunJobHandler, MarkCompleted,
         FinishExecution, Announce, RecordFailure, ScheduleRetry, MarkDeadLetter,
         InsertDeadLetter, SetStatus, Goto, SlotsTypeOK, JobTypeOK, Busy
<1>4. \A t \in Slots \ {s} : job[t] # i
  BY <1>2 DEF HeldInv
<1>5. pc'[s] \notin Busy => status'[i] \notin {"claimed", "running"}
  <2>1. CASE pc[s] = "announce" /\ status' = status
    BY <1>2, <1>3, <2>1 DEF ExecInv, StatusInv, Executing, Busy
  <2>2. CASE pc[s] = "bury" /\ status' = status
    BY <1>2, <1>4, <2>2 DEF HeldInv, Executing, Busy
  <2>3. QED
    BY <1>3, <2>1, <2>2
<1>6. \A t \in Slots \ {s}, j \in Jobs : Executing(t, j) => Executing(t, j)'
  BY <1>3 DEF Executing, Live
<1>7. pc'[s] \in Busy => Executing(s, i)'
  BY <1>2, <1>3 DEF Executing, Live
<1>8. \A j \in Jobs \ {i} : ~Executing(s, j)
  BY <1>2 DEF Executing
<1>9. \A j \in Jobs : status'[j] \in {"claimed", "running"} => \E t \in Slots : Executing(t, j)'
  <2>1. ASSUME NEW j \in Jobs \ {i}, status'[j] \in {"claimed", "running"}
        PROVE  \E t \in Slots : Executing(t, j)'
    <3>1. PICK t \in Slots : Executing(t, j)
      BY <1>3, <2>1 DEF HeldInv
    <3>2. QED
      BY <1>6, <1>8, <3>1
  <2>2. QED
    BY <1>5, <1>7, <2>1
<1>10. \A j \in Jobs : holder'[j] # NoWorker =>
         \E t \in Slots : job'[t] = j /\ pc'[t] \in Inside /\ holder'[j] = SlotWorker[t]
  BY <1>3 DEF HeldInv
<1>11. /\ \A t \in Slots : pc'[t] = "idle" => job'[t] = NoJob
       /\ \A t, u \in Slots : job'[t] # NoJob /\ job'[t] = job'[u] => t = u
  BY <1>3 DEF HeldInv
<1>12. QED
  BY <1>9, <1>10, <1>11 DEF HeldInv

LEMMA OtherHeld ==
  ASSUME ExecInv, NoFaults, NoFaults', HeldInv, [Next]_vars,
         ~\E s \in Slots : Step(s) \/ QueryFails(s), ~\E s \in Slots, j \in Jobs : Claim(s, j)
  PROVE  HeldInv'
<1>1. JobTypeOK /\ RequestTypeOK
  BY TypeParts DEF ExecInv
<1>2. UNCHANGED <<slotVars, holder, dead>>
  BY DEF Next, Crash, ExpireLock, L!Expire, CancelJob, CheckRetry, FindDeadLetter, ApplyRetry,
     ApplyReplay, DeleteDeadLetter, vars, NoFaults
<1>3. \A j \in Jobs : status'[j] \in {"claimed", "running"} => status'[j] = status[j]
  BY <1>1 DEF Next, Crash, ExpireLock, CancelJob, CheckRetry, FindDeadLetter, ApplyRetry,
     ApplyReplay, ResetJob, DeleteDeadLetter, vars, JobTypeOK
<1>4. \A s \in Slots, j \in Jobs : Executing(s, j)' <=> Executing(s, j)
  BY <1>2 DEF Executing, Live
<1>5. QED
  BY <1>2, <1>3, <1>4 DEF HeldInv

\* A claimed or running job is in the hands of a live execution.
THEOREM JobsAreNotStranded ==
  ASSUME MaxErrors = 0, MaxCrashes = 0, QuickRelease
  PROVE  Spec /\ []FreshResets => []NoOrphan
<1>1. Init => NoFaults /\ HeldInv
  BY DEF Init, NoFaults, HeldInv, L!LockInit
<1>2. ExecInv /\ NoFaults /\ HeldInv /\ [Next]_vars => NoFaults' /\ HeldInv'
  <2> SUFFICES ASSUME ExecInv, NoFaults, HeldInv, [Next]_vars PROVE NoFaults' /\ HeldInv'
    OBVIOUS
  <2>1. NoFaults' /\ ~\E s \in Slots : QueryFails(s)
    BY NoFaultsStep
  <2>2. HeldInv'
    BY <2>1, ClaimHeld, EnterHeld, LeaveHeld, WorkHeld, OtherHeld
  <2>3. QED
    BY <2>1, <2>2
<1>3. HeldInv => NoOrphan
  BY DEF HeldInv, NoOrphan, Executing, Busy
<1>4. QED
  BY <1>1, <1>2, <1>3, ExecHolds, PTL DEF Spec
=============================================================================
