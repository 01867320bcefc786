----------------------- MODULE ClaimTransactionProofs -----------------------
(***************************************************************************)
(* Theorems about ClaimTransaction, for any number of workers, slots,      *)
(* queues, jobs, requests, crashes and errors.  The locks of the claim     *)
(* transaction do what they are for whatever is written meanwhile          *)
(* (LocksInv).  That a claim is then atomic takes the others to know what  *)
(* they write: executions do, as long as manual resets are fresh.          *)
(***************************************************************************)
EXTENDS ClaimTransaction, FiniteSetTheorems, WellFoundedInduction, TLAPS

USE QueuesAssumption, WorkersAssumption, SettingsAssumption, BoundsAssumption

\* The initial states are typed.
LEMMA InitTypeOK == Init => TypeOK
  BY DEF Init, TypeOK, AC!Init, AC!RowsTypeOK, AC!Statuses, AC!ActiveStatuses,
         InTransaction, AtWork

TxnTypeOK ==
  /\ rowLock \in [Queues -> Workers \cup {NoWorker}]
  /\ pc \in [Workers -> InTransaction \cup {"idle"}]
  /\ snapshot \in [Workers -> SUBSET Queues]
  /\ rows \in [Workers -> SUBSET Queues]
  /\ eligible \in [Workers -> SUBSET Queues]
  /\ picked \in [Workers -> Jobs \cup {NoJob}]
  /\ txnNow \in [Workers -> 0 .. MaxClock]

\* COMMIT keeps the rows typed, and the end of a transaction its variables.
LEMMA PublishTyped ==
  ASSUME TypeOK, NEW w \in Workers, Publish(w)
  PROVE  AC!RowsTypeOK'
<1>1. CASE picked[w] = NoJob
  BY <1>1 DEF Publish, rowVars, TypeOK, AC!RowsTypeOK
<1>2. CASE picked[w] # NoJob
  <2>1. picked[w] \in Jobs
    BY <1>2 DEF TypeOK
  <2>2. AC!Take(w, picked[w])
    BY <1>2 DEF Publish
  <2>3. QED
    BY <2>1, <2>2 DEF AC!Take, TypeOK, AC!RowsTypeOK, AC!Statuses, AC!ActiveStatuses
<1>3. QED
  BY <1>1, <1>2

LEMMA EndTransactionTyped ==
  ASSUME TypeOK, NEW w \in Workers, EndTransaction(w)
  PROVE  TxnTypeOK'
  BY DEF TypeOK, TxnTypeOK, EndTransaction, InTransaction

\* The writes of the rest of the server keep the rows typed.
LEMMA SetStatusTyped ==
  ASSUME TypeOK, NEW j \in Jobs, NEW st \in AC!Statuses, AC!SetStatus(j, st)
  PROVE  AC!RowsTypeOK'
  BY DEF AC!SetStatus, TypeOK, AC!RowsTypeOK

LEMMA WriteTyped ==
  ASSUME TypeOK, NEW j \in Jobs,
         \/ AC!MarkRunning(j) \/ AC!Complete(j) \/ AC!DeadLetter(j) \/ AC!Requeue(j)
         \/ AC!Reset(j) \/ AC!InsertJob(j) \/ AC!ReleaseJob(j) \/ AC!CancelJob(j)
  PROVE  AC!RowsTypeOK'
<1>1. CASE AC!MarkRunning(j) \/ AC!Complete(j) \/ AC!DeadLetter(j) \/ AC!CancelJob(j)
  BY <1>1, SetStatusTyped DEF AC!MarkRunning, AC!Complete, AC!DeadLetter, AC!CancelJob,
     AC!Statuses, AC!ActiveStatuses
<1>2. CASE AC!Requeue(j) \/ AC!Reset(j)
  <2>1. PICK now \in 0 .. MaxClock : runAt' = [runAt EXCEPT ![j] = now]
    BY <1>2 DEF AC!Requeue, AC!Reset, TypeOK, AC!RowsTypeOK
  <2>2. status' \in [Jobs -> AC!Statuses]
    BY <1>2 DEF AC!Requeue, AC!Reset, TypeOK, AC!RowsTypeOK, AC!Statuses
  <2>3. QED
    BY <1>2, <2>1, <2>2 DEF AC!Requeue, AC!Reset, TypeOK, AC!RowsTypeOK
<1>3. CASE AC!InsertJob(j) \/ AC!ReleaseJob(j)
  BY <1>3 DEF AC!InsertJob, AC!ReleaseJob, AC!Enqueue, TypeOK, AC!RowsTypeOK, AC!Statuses
<1>4. QED
  BY <1>1, <1>2, <1>3

SlotTypeOK ==
  /\ job \in [Slots -> Jobs \cup {NoJob}]
  /\ stage \in [Slots -> AtWork \cup {"free", "ending"}]
  /\ \A s \in Slots : stage[s] # "free" => job[s] \in Jobs

\* So do the steps of an execution, of its slot.
LEMMA SlotTyped ==
  ASSUME TypeOK, NEW s \in Slots,
         \/ /\ stage[s] # "free"
            /\ \E there \in AtWork \cup {"ending"} : Reach(s, there)
         \/ Leave(s)
  PROVE  SlotTypeOK'
<1> USE DEF TypeOK, SlotTypeOK
<1>1. CASE stage[s] # "free" /\ \E there \in AtWork \cup {"ending"} : Reach(s, there)
  BY <1>1 DEF Reach
<1>2. CASE Leave(s)
  BY <1>2 DEF Leave
<1>3. QED
  BY <1>1, <1>2

LEMMA OccupyTyped ==
  ASSUME TypeOK, NEW w \in Workers, NEW j \in Jobs, Occupy(w, j)
  PROVE  SlotTypeOK'
  BY DEF Occupy, FreeSlots, AtWork, TypeOK, SlotTypeOK

LEMMA RunTyped ==
  ASSUME TypeOK, NEW s \in Slots, Run(s)
  PROVE  TypeOK'
<1>1. CASE MarkRunning(s) \/ Complete(s) \/ Requeue(s) \/ DeadLetter(s)
  <2>1. stage[s] # "free" /\ job[s] \in Jobs
    BY <1>1 DEF MarkRunning, Complete, Requeue, DeadLetter, Fails, TypeOK
  <2>2. AC!RowsTypeOK'
    BY <1>1, <2>1, WriteTyped DEF MarkRunning, Complete, Requeue, DeadLetter
  <2>3. SlotTypeOK'
    BY <1>1, <2>1, SlotTyped DEF MarkRunning, Complete, Requeue, DeadLetter, AtWork
  <2>4. errors' \in 0 .. MaxErrors
    BY <1>1 DEF MarkRunning, Complete, Requeue, DeadLetter, Fails, QueryFails, faultVars, TypeOK
  <2>5. letters' \subseteq Jobs /\ UNCHANGED <<at, target, dead, txnVars>>
    BY <1>1, <2>1 DEF MarkRunning, Complete, Requeue, DeadLetter, faultVars, requestVars, TypeOK
  <2>6. QED
    BY <2>2, <2>3, <2>4, <2>5 DEF TypeOK, SlotTypeOK, txnVars
<1>2. CASE Finish(s)
  <2>1. SlotTypeOK'
    BY <1>2, SlotTyped DEF Finish
  <2>2. UNCHANGED <<rowVars, txnVars, requestVars, faultVars>>
    BY <1>2 DEF Finish
  <2>3. QED
    BY <2>1, <2>2 DEF TypeOK, SlotTypeOK, rowVars, txnVars, requestVars, faultVars, AC!RowsTypeOK
<1>3. QED
  BY <1>1, <1>2 DEF Run

\* Every action keeps the type invariant.
LEMMA ClaimTyped ==
  ASSUME TypeOK, NEW w \in Workers,
         ClaimStep(w) \/ Rollback(w) \/ CommitAnswerLost(w) \/ Crash(w)
  PROVE  TypeOK'
<1> USE DEF InTransaction
<1>a. UNCHANGED <<rowVars, restVars>> /\ TxnTypeOK' => TypeOK'
  BY DEF TypeOK, TxnTypeOK, rowVars, restVars, slotVars, requestVars, faultVars, AC!RowsTypeOK
<1>b. AC!RowsTypeOK' /\ TxnTypeOK' /\ SlotTypeOK' /\ UNCHANGED requestVars
        /\ dead' \in SUBSET Workers /\ errors' \in 0 .. MaxErrors => TypeOK'
  BY DEF TypeOK, TxnTypeOK, SlotTypeOK, requestVars
<1>c. UNCHANGED slotVars => SlotTypeOK'
  BY DEF slotVars, TypeOK, SlotTypeOK
<1>d. UNCHANGED rowVars => AC!RowsTypeOK'
  BY DEF rowVars, TypeOK, AC!RowsTypeOK
<1>e. QueryFails => errors' \in 0 .. MaxErrors
  BY DEF QueryFails, TypeOK
<1>1. CASE Begin(w)
  BY <1>1, <1>a DEF Begin, TypeOK, TxnTypeOK, AC!RowsTypeOK
<1>2. CASE LockQueue(w)
  BY <1>2, <1>a DEF LockQueue, TypeOK, TxnTypeOK
<1>3. CASE CountQueue(w)
  BY <1>3, <1>a DEF CountQueue, TypeOK, TxnTypeOK
<1>4. CASE NothingEligible(w)
  BY <1>4, <1>a, EndTransactionTyped DEF NothingEligible
<1>5. CASE ClaimUpdate(w)
  BY <1>5, <1>a DEF ClaimUpdate, Candidates, TypeOK, TxnTypeOK
<1>6. CASE Commit(w)
  <2>1. picked[w] # NoJob => picked[w] \in Jobs
    BY DEF TypeOK
  <2>2. SlotTypeOK'
    <3>1. CASE picked[w] = NoJob
      BY <1>6, <3>1, <1>c DEF Commit
    <3>2. CASE picked[w] # NoJob
      <4>1. Occupy(w, picked[w]) /\ picked[w] \in Jobs
        BY <1>6, <2>1, <3>2 DEF Commit
      <4>2. QED
        BY <4>1, OccupyTyped
    <3>3. QED
      BY <3>1, <3>2
  <2>3. QED
    BY <1>6, <1>b, <2>2, PublishTyped, EndTransactionTyped DEF Commit, faultVars, TypeOK
<1>7. CASE Rollback(w) \/ CommitAnswerLost(w)
  BY <1>7, <1>b, <1>c, <1>d, <1>e, PublishTyped, EndTransactionTyped
     DEF Rollback, CommitAnswerLost, TypeOK
<1>8. CASE Crash(w)
  BY <1>8, <1>b, <1>c, <1>d, EndTransactionTyped DEF Crash, TypeOK
<1>9. QED
  BY <1>1, <1>2, <1>3, <1>4, <1>5, <1>6, <1>7, <1>8 DEF ClaimStep

LEMMA NextTypeOK == TypeOK /\ [Next]_vars => TypeOK'
<1> SUFFICES ASSUME TypeOK, [Next]_vars PROVE TypeOK'
  OBVIOUS
<1>a. AC!RowsTypeOK' /\ UNCHANGED <<txnVars, restVars>> => TypeOK'
  BY DEF TypeOK, txnVars, restVars, slotVars, requestVars, faultVars
<1>1. ASSUME NEW w \in Workers,
             ClaimStep(w) \/ Rollback(w) \/ CommitAnswerLost(w) \/ Crash(w)
      PROVE  TypeOK'
  BY <1>1, ClaimTyped
<1>2. ASSUME NEW s \in Slots, Run(s) PROVE TypeOK'
  BY <1>2, RunTyped
<1>3. ASSUME NEW s \in Slots, Abandon(s) \/ Skip(s) PROVE TypeOK'
  <2>1. SlotTypeOK'
    BY <1>3, SlotTyped DEF Abandon, Skip
  <2>2. errors' \in 0 .. MaxErrors
    BY <1>3 DEF Abandon, Skip, QueryFails, faultVars, TypeOK
  <2>3. UNCHANGED <<rowVars, txnVars, requestVars, dead>>
    BY <1>3 DEF Abandon, Skip, faultVars
  <2>4. QED
    BY <2>1, <2>2, <2>3 DEF TypeOK, SlotTypeOK, rowVars, txnVars, requestVars, AC!RowsTypeOK
<1>4. ASSUME NEW r \in Requests, ApplyReset(r) PROVE TypeOK'
  <2>1. target[r] \in Jobs
    BY <1>4 DEF ApplyReset, TypeOK
  <2>2. AC!RowsTypeOK'
    BY <1>4, <2>1, WriteTyped DEF ApplyReset
  <2>3. QED
    BY <1>4, <2>1, <2>2 DEF ApplyReset, TypeOK, txnVars, slotVars, faultVars
<1>5. ASSUME NEW r \in Requests, NEW j \in Jobs, CheckReset(r, j) PROVE TypeOK'
  BY <1>5 DEF CheckReset, TypeOK, AC!RowsTypeOK, rowVars, txnVars, slotVars, faultVars
<1>6. ASSUME NEW j \in Jobs, Insert(j) \/ Release(j) \/ Cancel(j) PROVE TypeOK'
  BY <1>6, <1>a, WriteTyped DEF Insert, Release, Cancel
<1>7. ASSUME NEW q \in Queues, Patch(q) PROVE TypeOK'
  BY <1>7, <1>a DEF Patch, AC!PatchQueue, TypeOK, AC!RowsTypeOK
<1>8. CASE Tick
  BY <1>8, <1>a DEF Tick, AC!Tick, TypeOK, AC!RowsTypeOK
<1>9. CASE UNCHANGED vars
  BY <1>9, <1>a DEF vars, rowVars, TypeOK, AC!RowsTypeOK
<1>10. QED
  BY <1>1, <1>2, <1>3, <1>4, <1>5, <1>6, <1>7, <1>8, <1>9 DEF Next

\* Every variable keeps its type, whatever the number of workers and jobs.
THEOREM TypeCorrect == Spec => []TypeOK
  BY InitTypeOK, NextTypeOK, PTL DEF Spec
-----------------------------------------------------------------------------
(* The locks: what a transaction owns, in which order it took it, and that
   the job it has picked stays as it was, whatever else is written. *)

\* A step that leaves the rows alone leaves counts and settings alone.
LEMMA SameRows ==
  ASSUME UNCHANGED rowVars
  PROVE  /\ \A q \in Queues : AC!Active(q)' = AC!Active(q)
         /\ \A w \in Workers, q \in Queues : AC!Matches(w, q)' = AC!Matches(w, q)
  BY DEF rowVars, AC!Active, AC!ActiveJobs, AC!Matches

LEMMA InitLocks == Init => LocksInv
<1> SUFFICES ASSUME Init PROVE LocksInv
  OBVIOUS
<1>1. TypeOK
  BY InitTypeOK
<1>2. QED
  BY <1>1 DEF Init, AC!Init, LocksInv, OwnsWhatItRead, HeldBy, LockOrder, PickIsGood,
          IdleIsClean, TypeOK

LEMMA BeginLocks ==
  ASSUME LocksInv, TypeOK', NEW w \in Workers, Begin(w)
  PROVE  LocksInv'
<1> USE DEF LocksInv
<1>1. OwnsWhatItRead'
  BY SameRows DEF OwnsWhatItRead, HeldBy, Begin, TypeOK
<1>2. LockOrder'
  <2> SUFFICES ASSUME NEW v \in Workers, NEW q \in HeldBy(v)', NEW r \in snapshot'[v]
               PROVE  q < r
    BY DEF LockOrder
  <2>1. q \in HeldBy(v) /\ v # w /\ r \in snapshot[v]
    BY DEF HeldBy, IdleIsClean, Begin, TypeOK
  <2>2. QED
    BY <2>1 DEF LockOrder
<1>3. PickIsGood'
  BY DEF PickIsGood, IdleIsClean, Begin, rowVars, TypeOK
<1>4. IdleIsClean'
  BY DEF IdleIsClean, HeldBy, Begin, rowVars, TypeOK, AC!RowsTypeOK, InTransaction
<1>5. QED
  BY <1>1, <1>2, <1>3, <1>4

LEMMA LockQueueLocks ==
  ASSUME LocksInv, TypeOK', NEW w \in Workers, LockQueue(w)
  PROVE  LocksInv'
<1> USE DEF LocksInv
<1>0. PICK q \in snapshot[w] :
        /\ \A r \in snapshot[w] : q <= r
        /\ Unlocked(q)
        /\ rowLock' = [rowLock EXCEPT ![q] = w]
        /\ snapshot' = [snapshot EXCEPT ![w] = @ \ {q}]
        /\ rows' = [rows EXCEPT ![w] = IF AC!Matches(w, q) THEN @ \cup {q} ELSE @]
  BY DEF LockQueue
<1>q. q \in Queues
  BY DEF TypeOK
<1>1. OwnsWhatItRead'
  BY <1>0, <1>q, SameRows DEF OwnsWhatItRead, HeldBy, Unlocked, LockQueue, TypeOK
<1>2. LockOrder'
  <2> SUFFICES ASSUME NEW v \in Workers, NEW p \in HeldBy(v)', NEW r \in snapshot'[v]
               PROVE  p < r
    BY DEF LockOrder
  <2>1. r \in snapshot[v] /\ r \in Queues /\ p \in Queues
    BY <1>0 DEF HeldBy, TypeOK
  <2>2. CASE v = w /\ p = q
    <3>1. q <= r /\ r # q
      BY <1>0, <2>1, <2>2 DEF TypeOK
    <3>2. q \in Nat /\ r \in Nat
      BY <1>q, <2>1
    <3>3. QED
      BY <3>1, <3>2, <2>2
  <2>3. CASE ~(v = w /\ p = q)
    <3>1. p \in HeldBy(v)
      BY <1>0, <1>q, <2>3 DEF HeldBy, TypeOK
    <3>2. QED
      BY <3>1, <2>1 DEF LockOrder
  <2>4. QED
    BY <2>2, <2>3
<1>3. PickIsGood'
  BY DEF PickIsGood, LockQueue, rowVars, TypeOK
<1>4. IdleIsClean'
  BY <1>0, <1>q DEF IdleIsClean, HeldBy, Unlocked, LockQueue, rowVars, TypeOK
<1>5. QED
  BY <1>1, <1>2, <1>3, <1>4

LEMMA CountQueueLocks ==
  ASSUME LocksInv, TypeOK', NEW w \in Workers, CountQueue(w)
  PROVE  LocksInv'
<1> USE DEF LocksInv
<1>0. PICK q \in rows[w] :
        /\ rows' = [rows EXCEPT ![w] = @ \ {q}]
        /\ eligible' = [eligible EXCEPT ![w] =
             IF Admits(q) THEN @ \cup {q} ELSE @]
  BY DEF CountQueue
<1>q. q \in Queues
  BY DEF TypeOK
<1>1. OwnsWhatItRead'
  BY <1>0, <1>q, SameRows DEF OwnsWhatItRead, HeldBy, CountQueue, TypeOK
<1>2. LockOrder'
  BY DEF LockOrder, HeldBy, CountQueue, TypeOK
<1>3. PickIsGood'
  BY <1>0 DEF PickIsGood, CountQueue, rowVars, TypeOK
<1>4. IdleIsClean'
  BY <1>0 DEF IdleIsClean, HeldBy, CountQueue, rowVars, TypeOK
<1>5. QED
  BY <1>1, <1>2, <1>3, <1>4

LEMMA ClaimUpdateLocks ==
  ASSUME LocksInv, TypeOK', NEW w \in Workers, ClaimUpdate(w)
  PROVE  LocksInv'
<1> USE DEF LocksInv
<1>1. OwnsWhatItRead'
  <2>1. UNCHANGED <<rowVars, rowLock, rows, eligible>>
    BY DEF ClaimUpdate
  <2>2. \A v \in Workers, q \in Queues : AC!Matches(v, q)' = AC!Matches(v, q)
    BY <2>1, SameRows
  <2>3. \A v \in Workers : rows[v] \subseteq Queues
    BY DEF TypeOK
  <2>4. QED
    BY <2>1, <2>2, <2>3 DEF OwnsWhatItRead, HeldBy
<1>2. LockOrder'
  BY DEF LockOrder, HeldBy, ClaimUpdate, TypeOK
<1>3. PickIsGood'
  BY DEF PickIsGood, ClaimUpdate, Candidates, rowVars, TypeOK
<1>4. IdleIsClean'
  BY DEF IdleIsClean, HeldBy, ClaimUpdate, AllCounted, rowVars, TypeOK
<1>5. QED
  BY <1>1, <1>2, <1>3, <1>4

\* The end of a transaction: its own variables are cleared and no other's.
LEMMA EndLocks ==
  ASSUME LocksInv, NEW w \in Workers, EndTransaction(w)
  PROVE  \A v \in Workers :
           /\ v # w => /\ HeldBy(v)' = HeldBy(v) /\ snapshot'[v] = snapshot[v]
                       /\ rows'[v] = rows[v] /\ eligible'[v] = eligible[v]
                       /\ picked'[v] = picked[v] /\ pc'[v] = pc[v]
                       /\ txnNow'[v] = txnNow[v]
           /\ v = w => /\ HeldBy(v)' = {} /\ snapshot'[v] = {}
                       /\ rows'[v] = {} /\ eligible'[v] = {}
                       /\ picked'[v] = NoJob /\ pc'[v] = "idle"
                       /\ txnNow'[v] = 0
  BY DEF LocksInv, TypeOK, EndTransaction, HeldBy

LEMMA AbortLocks ==
  ASSUME LocksInv, TypeOK', NEW w \in Workers, EndTransaction(w), UNCHANGED rowVars
  PROVE  LocksInv'
<1> USE DEF LocksInv
<1>1. OwnsWhatItRead'
  BY EndLocks, SameRows DEF OwnsWhatItRead, TypeOK
<1>2. LockOrder'
  BY EndLocks DEF LockOrder
<1>3. PickIsGood'
  BY EndLocks DEF PickIsGood, rowVars
<1>4. IdleIsClean'
  BY EndLocks DEF IdleIsClean, rowVars, TypeOK, AC!RowsTypeOK
<1>5. QED
  BY <1>1, <1>2, <1>3, <1>4

\* A claim's queue is its own, and so the other picks are of other queues.
LEMMA TakenQueue ==
  ASSUME LocksInv, NEW w \in Workers, picked[w] # NoJob
  PROVE  /\ picked[w] \in Jobs /\ QueueOf[picked[w]] \in Queues
         /\ rowLock[QueueOf[picked[w]]] = w
         /\ \A v \in Workers \ {w} : QueueOf[picked[w]] \notin eligible[v]
<1>1. /\ picked[w] \in Jobs /\ QueueOf[picked[w]] \in Queues
      /\ rowLock[QueueOf[picked[w]]] = w
  BY DEF LocksInv, TypeOK, PickIsGood, OwnsWhatItRead, HeldBy
<1>2. QED
  BY <1>1 DEF LocksInv, OwnsWhatItRead, HeldBy

LEMMA TakeLocks ==
  ASSUME LocksInv, TypeOK', NEW w \in Workers, EndTransaction(w),
         picked[w] # NoJob, AC!Take(w, picked[w])
  PROVE  LocksInv'
<1> USE DEF LocksInv
<1>1. OwnsWhatItRead'
  BY EndLocks DEF OwnsWhatItRead, AC!Take, AC!Matches
<1>2. LockOrder'
  BY EndLocks DEF LockOrder
<1>3. PickIsGood'
  <2> SUFFICES ASSUME NEW v \in Workers, picked'[v] # NoJob
               PROVE  /\ status'[picked'[v]] = "queued"
                      /\ runAt'[picked'[v]] <= txnNow'[v]
                      /\ QueueOf[picked'[v]] \in eligible'[v]
    BY DEF PickIsGood
  <2>1. v # w /\ picked'[v] = picked[v]
    BY EndLocks
  <2>2. picked[v] # picked[w] /\ picked[v] \in Jobs
    BY <2>1, TakenQueue DEF PickIsGood, TypeOK
  <2>3. QED
    BY TakenQueue, <2>1, <2>2, EndLocks DEF PickIsGood, AC!Take, TypeOK, AC!RowsTypeOK
<1>4. IdleIsClean'
  BY EndLocks DEF IdleIsClean, AC!Take, TypeOK, AC!RowsTypeOK
<1>5. QED
  BY <1>1, <1>2, <1>3, <1>4

\* Steps of the rest of the server leave the transactions' own variables
\* alone, the settings of locked queues, and the rows of picked jobs.
KeepsOff ==
  /\ UNCHANGED txnVars
  /\ \A q \in Queues : ~Unlocked(q) =>
       limit'[q] = limit[q] /\ paused'[q] = paused[q] /\ shard'[q] = shard[q]
  /\ \A w \in Workers : picked[w] # NoJob =>
       /\ status'[picked[w]] = status[picked[w]]
       /\ runAt'[picked[w]] = runAt[picked[w]]
  /\ clock <= clock'

LEMMA KeepsOffLocks ==
  ASSUME LocksInv, TypeOK', KeepsOff
  PROVE  LocksInv'
<1> USE DEF LocksInv, txnVars, KeepsOff
<1>1. \A w \in Workers : \A q \in rows[w] \cup eligible[w] : q \in Queues /\ ~Unlocked(q)
  BY DEF OwnsWhatItRead, HeldBy, Unlocked
<1>2. OwnsWhatItRead'
  BY <1>1 DEF OwnsWhatItRead, HeldBy, AC!Matches
<1>3. LockOrder'
  BY DEF LockOrder, HeldBy
<1>4. PickIsGood'
  BY DEF PickIsGood
<1>5. IdleIsClean'
  BY DEF IdleIsClean, HeldBy, TypeOK, AC!RowsTypeOK
<1>6. QED
  BY <1>2, <1>3, <1>4, <1>5

OtherStep ==
  \/ \E s \in Slots : Run(s) \/ Abandon(s) \/ Skip(s)
  \/ \E r \in Requests : ApplyReset(r) \/ \E j \in Jobs : CheckReset(r, j)
  \/ \E j \in Jobs : Insert(j) \/ Release(j) \/ Cancel(j)
  \/ \E q \in Queues : Patch(q)
  \/ Tick
  \/ UNCHANGED vars

\* A write to one job's row, which no transaction has picked.
LEMMA WriteKeepsOff ==
  ASSUME LocksInv, UNCHANGED txnVars, NEW j \in Jobs, RowFree(j) \/ status[j] # "queued",
         \/ AC!MarkRunning(j) \/ AC!Complete(j) \/ AC!DeadLetter(j) \/ AC!Requeue(j)
         \/ AC!Reset(j) \/ AC!InsertJob(j) \/ AC!ReleaseJob(j) \/ AC!CancelJob(j)
  PROVE  KeepsOff
<1>1. \A w \in Workers : picked[w] # NoJob => picked[w] # j
  BY DEF RowFree, LocksInv, PickIsGood
<1>2. /\ \A i \in Jobs : i # j => status'[i] = status[i] /\ runAt'[i] = runAt[i]
      /\ UNCHANGED <<limit, paused, shard, clock>>
  BY DEF AC!MarkRunning, AC!Complete, AC!DeadLetter, AC!Requeue, AC!Reset, AC!InsertJob,
     AC!ReleaseJob, AC!Enqueue, AC!CancelJob, AC!SetStatus, LocksInv, TypeOK, AC!RowsTypeOK
<1>3. clock <= clock'
  BY <1>2 DEF LocksInv, TypeOK, AC!RowsTypeOK
<1>4. QED
  BY <1>1, <1>2, <1>3 DEF KeepsOff, LocksInv, TypeOK

LEMMA OtherStepKeepsOff == ASSUME LocksInv, OtherStep PROVE KeepsOff
<1>a. UNCHANGED <<rowVars, txnVars>> => KeepsOff
  BY DEF KeepsOff, rowVars, LocksInv, TypeOK, AC!RowsTypeOK
<1>1. ASSUME NEW s \in Slots, Run(s) \/ Abandon(s) \/ Skip(s) PROVE KeepsOff
  <2>1. CASE MarkRunning(s) \/ Complete(s) \/ Requeue(s) \/ DeadLetter(s)
    <3>1. job[s] \in Jobs
      BY <2>1 DEF MarkRunning, Complete, Requeue, DeadLetter, Fails, LocksInv, TypeOK
    <3>2. QED
      BY <2>1, <3>1, WriteKeepsOff DEF MarkRunning, Complete, Requeue, DeadLetter
  <2>2. CASE Finish(s) \/ Abandon(s) \/ Skip(s)
    BY <2>2, <1>a DEF Finish, Abandon, Skip
  <2>3. QED
    BY <1>1, <2>1, <2>2 DEF Run
<1>2. ASSUME NEW r \in Requests, ApplyReset(r) PROVE KeepsOff
  <2>1. target[r] \in Jobs
    BY <1>2 DEF ApplyReset, LocksInv, TypeOK
  <2>2. QED
    BY <1>2, <2>1, WriteKeepsOff DEF ApplyReset
<1>3. ASSUME NEW r \in Requests, NEW j \in Jobs, CheckReset(r, j) PROVE KeepsOff
  BY <1>3, <1>a DEF CheckReset
<1>4. ASSUME NEW j \in Jobs, Insert(j) \/ Release(j) \/ Cancel(j) PROVE KeepsOff
  <2>1. RowFree(j) \/ status[j] # "queued"
    BY <1>4 DEF Insert, Release, Cancel, AC!InsertJob, AC!ReleaseJob, AC!Enqueue
  <2>2. QED
    BY <1>4, <2>1, WriteKeepsOff DEF Insert, Release, Cancel
<1>5. ASSUME NEW q \in Queues, Patch(q) PROVE KeepsOff
  BY <1>5 DEF Patch, AC!PatchQueue, KeepsOff, LocksInv, TypeOK, AC!RowsTypeOK
<1>6. CASE Tick
  BY <1>6 DEF Tick, AC!Tick, KeepsOff, LocksInv, TypeOK, AC!RowsTypeOK
<1>7. CASE UNCHANGED vars
  BY <1>7, <1>a DEF vars
<1>8. QED
  BY <1>1, <1>2, <1>3, <1>4, <1>5, <1>6, <1>7 DEF OtherStep

\* Every step is one of a claim transaction or one of the rest.
LEMMA StepKinds ==
  [Next]_vars =>
    \/ \E w \in Workers : Begin(w) \/ LockQueue(w) \/ CountQueue(w) \/ ClaimUpdate(w)
    \/ \E w \in Workers : EndTransaction(w) /\ (UNCHANGED rowVars \/ Publish(w))
    \/ OtherStep
  BY DEF Next, ClaimStep, OtherStep, NothingEligible, Commit, Rollback, CommitAnswerLost, Crash

LEMMA NextLocks == LocksInv /\ [Next]_vars => LocksInv'
<1> SUFFICES ASSUME LocksInv, [Next]_vars PROVE LocksInv'
  OBVIOUS
<1>1. TypeOK'
  BY NextTypeOK DEF LocksInv
<1>2. CASE \E w \in Workers : Begin(w) \/ LockQueue(w) \/ CountQueue(w) \/ ClaimUpdate(w)
  BY <1>1, <1>2, BeginLocks, LockQueueLocks, CountQueueLocks, ClaimUpdateLocks
<1>3. ASSUME NEW w \in Workers, EndTransaction(w), UNCHANGED rowVars \/ Publish(w)
      PROVE  LocksInv'
  BY <1>1, <1>3, AbortLocks, TakeLocks DEF Publish
<1>4. CASE OtherStep
  BY <1>1, <1>4, OtherStepKeepsOff, KeepsOffLocks
<1>5. QED
  BY <1>2, <1>3, <1>4, StepKinds

\* The locks are owned, ordered and let go of, and the picked job stays queued
\* and due, with any executions, resets, crashes and errors.
THEOREM LocksHold == Spec => []LocksInv
  BY InitLocks, NextLocks, PTL DEF Spec
-----------------------------------------------------------------------------
(* One holder, and eligibility that stays true: what each needs to know of a
   step is how it moves the counts, and whose job it writes. *)

\* Cardinality is the same operator in both modules.
LEMMA SameCardinality == ASSUME NEW S PROVE AC!Cardinality(S) = Cardinality(S)
  BY DEF AC!Cardinality, Cardinality

\* A queue's active jobs are finitely many, and a part of them is no more.
LEMMA ActiveIsNat == \A q \in Queues : IsFiniteSet(AC!ActiveJobs(q)) /\ AC!Active(q) \in Nat
<1>1. ASSUME NEW q \in Queues PROVE IsFiniteSet(AC!ActiveJobs(q))
  <2>1. AC!ActiveJobs(q) \in SUBSET Jobs
    BY DEF AC!ActiveJobs
  <2>2. QED
    BY <2>1, FS_Subset, JobsAssumption
<1>2. QED
  BY <1>1, SameCardinality, FS_CardinalityType DEF AC!Active

LEMMA FewerActive ==
  ASSUME NEW q \in Queues, AC!ActiveJobs(q)' \subseteq AC!ActiveJobs(q)
  PROVE  AC!Active(q)' \in Nat /\ AC!Active(q)' <= AC!Active(q)
<1>1. IsFiniteSet(AC!ActiveJobs(q)) /\ AC!ActiveJobs(q)' \in SUBSET AC!ActiveJobs(q)
  BY ActiveIsNat
<1>2. /\ Cardinality(AC!ActiveJobs(q)') \in Nat
      /\ Cardinality(AC!ActiveJobs(q)') <= Cardinality(AC!ActiveJobs(q))
  BY <1>1, FS_Subset, FS_CardinalityType
<1>3. QED
  BY <1>2, SameCardinality DEF AC!Active

\* A process at work on a job has it as the database has it; so a job in any
\* other status is nobody's.
LEMMA FreeJobWrite ==
  ASSUME ClaimInv, NEW j \in Jobs, status[j] \notin AtWork,
         \A i \in Jobs : i # j => status'[i] = status[i] /\ owner'[i] = owner[i],
         UNCHANGED <<slotVars, dead>>
  PROVE  OneHolder'
<1>1. \A s \in Slots : Working(s)' => Working(s) /\ job[s] \in Jobs /\ job[s] # j
  BY DEF slotVars, Working, Live, ClaimInv, OneHolder, LocksInv, TypeOK, AtWork
<1>2. QED
  BY <1>1 DEF slotVars, Working, Live, ClaimInv, OneHolder

LEMMA FewerHolders ==
  ASSUME ClaimInv, UNCHANGED <<status, owner>>,
         \A s \in Slots : Working(s)' => /\ Working(s)
                                        /\ job'[s] = job[s] /\ stage'[s] = stage[s]
  PROVE  OneHolder'
  BY DEF ClaimInv, OneHolder

LEMMA HolderWrite ==
  ASSUME ClaimInv, NEW s \in Slots, Working(s),
         \A i \in Jobs : i # job[s] => status'[i] = status[i] /\ owner'[i] = owner[i],
         UNCHANGED <<job, dead>>, \A t \in Slots : t # s => stage'[t] = stage[t],
         Working(s)' => /\ status'[job[s]] = stage'[s]
                        /\ owner'[job[s]] = owner[job[s]]
  PROVE  OneHolder'
<1> SUFFICES ASSUME NEW t \in Slots, Working(t)'
             PROVE  /\ owner'[job'[t]] = SlotWorker[t] /\ status'[job'[t]] = stage'[t]
                    /\ \A u \in Slots \ {t} : Working(u)' => job'[t] # job'[u]
  BY DEF OneHolder
<1>1. \A u \in Slots : Working(u)' => Working(u)
  BY DEF Working, Live
<1>2. job'[t] = job[t] /\ job[t] \in Jobs
  BY <1>1 DEF Working, AtWork, ClaimInv, LocksInv, TypeOK
<1>3. \A u \in Slots \ {t} : Working(u)' => job'[t] # job'[u]
  BY <1>1 DEF ClaimInv, OneHolder
<1>4. CASE t = s
  BY <1>1, <1>2, <1>3, <1>4 DEF ClaimInv, OneHolder
<1>5. CASE t # s
  <2>1. job[t] # job[s]
    BY <1>1, <1>5 DEF ClaimInv, OneHolder
  <2>2. QED
    BY <1>1, <1>2, <1>3, <1>5, <2>1 DEF ClaimInv, OneHolder
<1>6. QED
  BY <1>4, <1>5

\* COMMIT of a picked job, which is queued and so in no slot.
LEMMA CommitHolder ==
  ASSUME ClaimInv, NEW w \in Workers, NEW j \in Jobs, status[j] = "queued",
         AC!Take(w, j), UNCHANGED dead, UNCHANGED slotVars \/ Occupy(w, j)
  PROVE  OneHolder'
<1>1. /\ status'[j] = "claimed" /\ owner'[j] = w
      /\ \A i \in Jobs : i # j => status'[i] = status[i] /\ owner'[i] = owner[i]
  BY DEF AC!Take, ClaimInv, LocksInv, TypeOK, AC!RowsTypeOK
<1>2. CASE UNCHANGED slotVars
  BY <1>1, <1>2, FreeJobWrite DEF AtWork
<1>3. CASE Occupy(w, j)
  <2>1. PICK s \in FreeSlots(w) : /\ job' = [job EXCEPT ![s] = j]
                                  /\ stage' = [stage EXCEPT ![s] = "claimed"]
    BY <1>3 DEF Occupy
  <2>2. s \in Slots /\ SlotWorker[s] = w /\ job'[s] = j /\ stage'[s] = "claimed"
    BY <2>1 DEF FreeSlots, ClaimInv, LocksInv, TypeOK
  <2>3. ASSUME NEW t \in Slots, t # s, Working(t)'
        PROVE  /\ Working(t) /\ job'[t] = job[t] /\ stage'[t] = stage[t]
               /\ job[t] \in Jobs /\ job[t] # j
    <3>1. job'[t] = job[t] /\ stage'[t] = stage[t]
      BY <2>1, <2>3 DEF ClaimInv, LocksInv, TypeOK
    <3>2. Working(t) /\ job[t] \in Jobs
      BY <2>3, <3>1 DEF Working, Live, AtWork, ClaimInv, LocksInv, TypeOK
    <3>3. status[job[t]] = stage[t] /\ stage[t] # "queued"
      BY <3>2 DEF ClaimInv, OneHolder, Working, AtWork
    <3>4. QED
      BY <3>1, <3>2, <3>3
  <2> SUFFICES ASSUME NEW t \in Slots, Working(t)'
               PROVE  /\ owner'[job'[t]] = SlotWorker[t] /\ status'[job'[t]] = stage'[t]
                      /\ \A u \in Slots \ {t} : Working(u)' => job'[t] # job'[u]
    BY DEF OneHolder
  <2>4. CASE t = s
    BY <1>1, <2>2, <2>3, <2>4
  <2>5. CASE t # s
    <3>1. /\ Working(t) /\ job'[t] = job[t] /\ stage'[t] = stage[t]
          /\ job[t] \in Jobs /\ job[t] # j
      BY <2>3, <2>5
    <3>2. /\ owner[job[t]] = SlotWorker[t] /\ status[job[t]] = stage[t]
          /\ \A u \in Slots \ {t} : Working(u) => job[t] # job[u]
      BY <3>1 DEF ClaimInv, OneHolder
    <3>3. owner'[job'[t]] = SlotWorker[t] /\ status'[job'[t]] = stage'[t]
      BY <1>1, <3>1, <3>2
    <3>4. ASSUME NEW u \in Slots, u # t, Working(u)' PROVE job'[t] # job'[u]
      <4>1. CASE u = s
        BY <2>2, <3>1, <4>1
      <4>2. CASE u # s
        BY <2>3, <3>1, <3>2, <3>4, <4>2
      <4>3. QED
        BY <4>1, <4>2
    <3>5. QED
      BY <3>3, <3>4
  <2>6. QED
    BY <2>4, <2>5
<1>4. QED
  BY <1>2, <1>3

LEMMA InitInv == Init => ClaimInv
  BY InitLocks DEF Init, ClaimInv, OneHolder, EligibleStaysTrue, Working, AtWork

\* A transaction's own steps.
LEMMA ClaimStepInv ==
  ASSUME ClaimInv, TypeOK', NEW w \in Workers,
         Begin(w) \/ LockQueue(w) \/ CountQueue(w) \/ ClaimUpdate(w)
  PROVE  OneHolder' /\ EligibleStaysTrue'
<1> USE DEF ClaimInv, LocksInv
<1>0. UNCHANGED <<rowVars, restVars>>
  BY DEF Begin, LockQueue, CountQueue, ClaimUpdate
<1>1. OneHolder'
  BY <1>0 DEF OneHolder, Working, Live, rowVars, restVars, slotVars, faultVars
<1>2. CASE UNCHANGED eligible
  BY <1>0, <1>2, <1>1, SameRows DEF EligibleStaysTrue, rowVars, TypeOK
<1>3. CASE CountQueue(w)
  <2>1. PICK q \in rows[w] :
          eligible' = [eligible EXCEPT ![w] = IF Admits(q) THEN @ \cup {q} ELSE @]
    BY <1>3 DEF CountQueue
  <2>2. q \in Queues
    BY DEF TypeOK
  <2>3. EligibleStaysTrue'
    BY <1>0, <2>1, <2>2, SameRows DEF EligibleStaysTrue, OwnsWhatItRead, Admits, rowVars, TypeOK
  <2>4. QED
    BY <1>1, <2>3
<1>4. QED
  BY <1>2, <1>3 DEF Begin, LockQueue, ClaimUpdate

\* A claim adds its job to the queue it has locked and to no other.
LEMMA TakeCounts ==
  ASSUME TypeOK, NEW w \in Workers, NEW j \in Jobs, AC!Take(w, j),
         NEW q \in Queues, q # QueueOf[j]
  PROVE  AC!Active(q)' = AC!Active(q)
  BY DEF AC!Active, AC!ActiveJobs, AC!Take, TypeOK, AC!RowsTypeOK

LEMMA EndEligible ==
  ASSUME ClaimInv, TypeOK', NEW w \in Workers, EndTransaction(w),
         UNCHANGED rowVars \/ Publish(w)
  PROVE  EligibleStaysTrue'
<1> USE DEF ClaimInv, LocksInv
<1>1. CASE UNCHANGED rowVars
  BY <1>1, EndLocks, SameRows DEF EligibleStaysTrue, rowVars, TypeOK
<1>2. CASE picked[w] # NoJob /\ AC!Take(w, picked[w])
  <2> SUFFICES ASSUME NEW v \in Workers, NEW q \in eligible'[v]
               PROVE  (AC!Matches(v, q) /\ ~paused[q] /\ AC!Active(q) < limit[q])'
    BY DEF EligibleStaysTrue
  <2>1. v # w /\ q \in eligible[v] /\ q \in Queues
    BY EndLocks DEF TypeOK
  <2>2. q # QueueOf[picked[w]] /\ picked[w] \in Jobs
    BY <1>2, <2>1, TakenQueue
  <2>3. AC!Active(q)' = AC!Active(q)
    BY <1>2, <2>1, <2>2, TakeCounts
  <2>4. QED
    BY <1>2, <2>1, <2>3 DEF EligibleStaysTrue, AC!Take, AC!Matches
<1>3. QED
  BY <1>1, <1>2 DEF Publish

LEMMA EndHolder ==
  ASSUME ClaimInv, NEW w \in Workers,
         \/ NothingEligible(w) \/ Commit(w) \/ Rollback(w)
         \/ CommitAnswerLost(w) \/ Crash(w)
  PROVE  OneHolder'
<1>1. CASE UNCHANGED <<rowVars, slotVars>> /\ dead \subseteq dead'
  BY <1>1, FewerHolders DEF rowVars, slotVars, Working, Live
<1>2. CASE picked[w] # NoJob /\ (Commit(w) \/ CommitAnswerLost(w))
  <2>1. /\ picked[w] \in Jobs /\ status[picked[w]] = "queued"
        /\ AC!Take(w, picked[w]) /\ UNCHANGED dead
        /\ UNCHANGED slotVars \/ Occupy(w, picked[w])
    BY <1>2 DEF Commit, CommitAnswerLost, Publish, faultVars, ClaimInv, LocksInv, TypeOK,
       PickIsGood
  <2>2. QED
    BY <2>1, CommitHolder
<1>3. QED
  BY <1>1, <1>2 DEF NothingEligible, Commit, Rollback, CommitAnswerLost, Crash, Publish,
     restVars, faultVars

\* The rest of the server adds to no queue's active jobs.
LEMMA OtherActive ==
  ASSUME ClaimInv, OtherStep, NEW q \in Queues
  PROVE  AC!ActiveJobs(q)' \subseteq AC!ActiveJobs(q)
<1> USE DEF AC!ActiveJobs, AC!ActiveStatuses
<1>a. UNCHANGED status => AC!ActiveJobs(q)' \subseteq AC!ActiveJobs(q)
  OBVIOUS
<1>b. ASSUME NEW j \in Jobs, NEW to \in {"waiting", "queued", "completed", "failed", "dead_letter"},
             status' = [status EXCEPT ![j] = to]
      PROVE  AC!ActiveJobs(q)' \subseteq AC!ActiveJobs(q)
  BY <1>b DEF ClaimInv, LocksInv, TypeOK, AC!RowsTypeOK
<1>1. ASSUME NEW s \in Slots, Run(s) \/ Abandon(s) \/ Skip(s)
      PROVE  AC!ActiveJobs(q)' \subseteq AC!ActiveJobs(q)
  <2>1. stage[s] \in AtWork => job[s] \in Jobs
    BY DEF AtWork, ClaimInv, LocksInv, TypeOK
  <2>2. CASE MarkRunning(s)
    <3>1. job[s] \in Jobs /\ status[job[s]] = "claimed"
      BY <2>1, <2>2 DEF MarkRunning, AtWork, Working, ClaimInv, OneHolder
    <3>2. status' = [status EXCEPT ![job[s]] = "running"]
      BY <2>2 DEF MarkRunning, AC!MarkRunning, AC!SetStatus
    <3>3. QED
      BY <3>1, <3>2 DEF ClaimInv, LocksInv, TypeOK, AC!RowsTypeOK
  <2>3. CASE Complete(s) \/ Requeue(s) \/ DeadLetter(s)
    <3>1. job[s] \in Jobs
      BY <2>1, <2>3 DEF Complete, Requeue, DeadLetter, Fails, AtWork
    <3>2. QED
      BY <2>3, <3>1, <1>b DEF Complete, Requeue, DeadLetter, AC!Complete, AC!Requeue,
         AC!DeadLetter, AC!SetStatus
  <2>4. CASE Finish(s) \/ Abandon(s) \/ Skip(s)
    BY <2>4, <1>a DEF Finish, Abandon, Skip, rowVars
  <2>5. QED
    BY <1>1, <2>2, <2>3, <2>4 DEF Run
<1>2. ASSUME NEW r \in Requests, ApplyReset(r)
      PROVE  AC!ActiveJobs(q)' \subseteq AC!ActiveJobs(q)
  <2>1. target[r] \in Jobs
    BY <1>2 DEF ApplyReset, ClaimInv, LocksInv, TypeOK
  <2>2. QED
    BY <1>2, <2>1, <1>b DEF ApplyReset, AC!Reset
<1>3. ASSUME NEW j \in Jobs, Insert(j) \/ Release(j) \/ Cancel(j)
      PROVE  AC!ActiveJobs(q)' \subseteq AC!ActiveJobs(q)
  BY <1>3, <1>b DEF Insert, Release, Cancel, AC!InsertJob, AC!ReleaseJob, AC!Enqueue,
     AC!CancelJob, AC!SetStatus
<1>4. ASSUME \/ \E r \in Requests, j \in Jobs : CheckReset(r, j)
             \/ \E p \in Queues : Patch(p)
             \/ Tick \/ UNCHANGED vars
      PROVE  AC!ActiveJobs(q)' \subseteq AC!ActiveJobs(q)
  BY <1>4, <1>a DEF CheckReset, Patch, AC!PatchQueue, Tick, AC!Tick, vars, rowVars
<1>5. QED
  BY <1>1, <1>2, <1>3, <1>4 DEF OtherStep

LEMMA OtherEligible ==
  ASSUME ClaimInv, OtherStep
  PROVE  EligibleStaysTrue'
<1> USE DEF ClaimInv, LocksInv
<1>0. KeepsOff
  BY OtherStepKeepsOff
<1> SUFFICES ASSUME NEW w \in Workers, NEW q \in eligible'[w]
             PROVE  (AC!Matches(w, q) /\ ~paused[q] /\ AC!Active(q) < limit[q])'
  BY DEF EligibleStaysTrue
<1>1. q \in eligible[w] /\ q \in Queues /\ ~Unlocked(q)
  BY <1>0 DEF KeepsOff, txnVars, TypeOK, OwnsWhatItRead, HeldBy, Unlocked
<1>2. AC!Active(q)' \in Nat /\ AC!Active(q)' <= AC!Active(q)
  BY <1>1, OtherActive, FewerActive
<1>3. AC!Active(q) \in Nat /\ AC!Active(q) < limit[q] /\ limit[q] \in Nat
  BY <1>1, ActiveIsNat DEF EligibleStaysTrue, TypeOK, AC!RowsTypeOK
<1>4. limit'[q] = limit[q] /\ paused'[q] = paused[q] /\ shard'[q] = shard[q]
  BY <1>0, <1>1 DEF KeepsOff
<1>5. AC!Active(q)' < limit[q]
  BY <1>2, <1>3
<1>6. QED
  BY <1>1, <1>4, <1>5 DEF EligibleStaysTrue, AC!Matches

LEMMA OtherHolder ==
  ASSUME ClaimInv, FreshResets, OtherStep
  PROVE  OneHolder'
<1>a. UNCHANGED <<status, owner, slotVars, dead>> => OneHolder'
  BY DEF ClaimInv, OneHolder, Working, Live, slotVars
<1>1. ASSUME NEW s \in Slots, Run(s) \/ Abandon(s) \/ Skip(s) PROVE OneHolder'
  <2>1. CASE MarkRunning(s) \/ Complete(s) \/ Requeue(s) \/ DeadLetter(s)
    <3>1. Working(s) /\ job[s] \in Jobs
      BY <2>1 DEF MarkRunning, Complete, Requeue, DeadLetter, Fails, Working, AtWork,
         ClaimInv, LocksInv, TypeOK
    <3>2. /\ \A i \in Jobs : i # job[s] => status'[i] = status[i] /\ owner'[i] = owner[i]
          /\ UNCHANGED <<job, dead>>
      BY <2>1, <3>1 DEF MarkRunning, Complete, Requeue, DeadLetter, AC!MarkRunning,
         AC!Complete, AC!Requeue, AC!DeadLetter, AC!SetStatus, Reach, faultVars, ClaimInv,
         LocksInv, TypeOK, AC!RowsTypeOK
    <3>3. \A t \in Slots : t # s => stage'[t] = stage[t]
      BY <2>1 DEF MarkRunning, Complete, Requeue, DeadLetter, Reach, ClaimInv, LocksInv, TypeOK
    <3>4. Working(s)' => /\ status'[job[s]] = stage'[s]
                         /\ owner'[job[s]] = owner[job[s]]
      <4>1. CASE MarkRunning(s) \/ Complete(s)
        BY <3>1, <4>1 DEF MarkRunning, Complete, AC!MarkRunning, AC!Complete,
           AC!SetStatus, Reach, ClaimInv, LocksInv, TypeOK, AC!RowsTypeOK
      <4>2. CASE Requeue(s) \/ DeadLetter(s)
        BY <4>2 DEF Requeue, DeadLetter, Reach, Working, AtWork, ClaimInv, LocksInv, TypeOK
      <4>3. QED
        BY <2>1, <4>1, <4>2
    <3>5. QED
      BY <3>1, <3>2, <3>3, <3>4, HolderWrite
  <2>2. CASE Finish(s) \/ Abandon(s) \/ Skip(s)
    <3>1. UNCHANGED <<status, owner, dead>> /\ Leave(s)
      BY <2>2 DEF Finish, Abandon, Skip, rowVars, faultVars
    <3>2. \A t \in Slots : Working(t)' => /\ Working(t)
                                        /\ job'[t] = job[t] /\ stage'[t] = stage[t]
      BY <3>1 DEF Leave, Working, Live, AtWork, ClaimInv, LocksInv, TypeOK
    <3>3. QED
      BY <3>1, <3>2, FewerHolders
  <2>3. QED
    BY <1>1, <2>1, <2>2 DEF Run
<1>2. ASSUME NEW r \in Requests, ApplyReset(r) PROVE OneHolder'
  <2>1. target[r] \in Jobs /\ status[target[r]] \notin AtWork
    BY <1>2 DEF ApplyReset, FreshResets, AtWork, ClaimInv, LocksInv, TypeOK
  <2>2. /\ \A i \in Jobs : i # target[r] => status'[i] = status[i] /\ owner'[i] = owner[i]
        /\ UNCHANGED <<slotVars, dead>>
    BY <1>2 DEF ApplyReset, AC!Reset, faultVars, ClaimInv, LocksInv, TypeOK, AC!RowsTypeOK
  <2>3. QED
    BY <2>1, <2>2, FreeJobWrite
<1>3. ASSUME NEW j \in Jobs, Insert(j) \/ Release(j) \/ Cancel(j) PROVE OneHolder'
  <2>1. /\ status[j] \notin AtWork
        /\ \A i \in Jobs : i # j => status'[i] = status[i] /\ owner'[i] = owner[i]
        /\ UNCHANGED <<slotVars, dead>>
    BY <1>3 DEF Insert, Release, Cancel, AC!InsertJob, AC!ReleaseJob, AC!Enqueue,
       AC!CancelJob, AC!SetStatus, AtWork, restVars, faultVars, ClaimInv, LocksInv, TypeOK,
       AC!RowsTypeOK
  <2>2. QED
    BY <2>1, FreeJobWrite
<1>4. ASSUME \/ \E r \in Requests, j \in Jobs : CheckReset(r, j)
             \/ \E p \in Queues : Patch(p)
             \/ Tick \/ UNCHANGED vars
      PROVE  OneHolder'
  BY <1>4, <1>a DEF CheckReset, Patch, AC!PatchQueue, Tick, AC!Tick, vars, rowVars,
     restVars, faultVars
<1>5. QED
  BY <1>1, <1>2, <1>3, <1>4 DEF OtherStep

\* Every step from a state with fresh resets keeps the invariant.
LEMMA NextInv == ClaimInv /\ FreshResets /\ [Next]_vars => ClaimInv'
<1> SUFFICES ASSUME ClaimInv, FreshResets, [Next]_vars PROVE ClaimInv'
  OBVIOUS
<1>0. LocksInv' /\ TypeOK'
  BY NextLocks DEF ClaimInv, LocksInv
<1>1. CASE \E w \in Workers : Begin(w) \/ LockQueue(w) \/ CountQueue(w) \/ ClaimUpdate(w)
  BY <1>0, <1>1, ClaimStepInv DEF ClaimInv
<1>2. ASSUME NEW w \in Workers, \/ NothingEligible(w) \/ Commit(w) \/ Rollback(w)
                                 \/ CommitAnswerLost(w) \/ Crash(w)
      PROVE  ClaimInv'
  <2>1. EndTransaction(w) /\ (UNCHANGED rowVars \/ Publish(w))
    BY <1>2 DEF NothingEligible, Commit, Rollback, CommitAnswerLost, Crash
  <2>2. QED
    BY <1>0, <1>2, <2>1, EndEligible, EndHolder DEF ClaimInv
<1>3. CASE OtherStep
  BY <1>0, <1>3, OtherEligible, OtherHolder DEF ClaimInv
<1>4. QED
  BY <1>1, <1>2, <1>3 DEF Next, ClaimStep, OtherStep

\* While resets are fresh, the whole invariant of the claim holds.
THEOREM InvariantHolds == Spec /\ []FreshResets => []ClaimInv
  BY InitInv, NextInv, PTL DEF Spec

\* While resets are fresh, no job is at work in two slots, of one process or
\* of two, and the database agrees with the holder, with any number of
\* executions, claims, crashes and errors (claimer.ts "prevents duplicate
\* claims across concurrent workers").
THEOREM NoDoubleClaim == Spec /\ []FreshResets => []OneHolder
<1>1. ClaimInv => OneHolder
  BY DEF ClaimInv
<1>2. QED
  BY <1>1, InvariantHolds, PTL

\* While resets are fresh, the verdict of the count stands until COMMIT
\* (claimer.ts "serializing via queue-level FOR UPDATE locks").
THEOREM EligibilityIsStable == Spec /\ []FreshResets => []EligibleStaysTrue
<1>1. ClaimInv => EligibleStaysTrue
  BY DEF ClaimInv
<1>2. QED
  BY <1>1, InvariantHolds, PTL
-----------------------------------------------------------------------------
(* When resets are fresh.  Each of them is read once and then sent once, and
   a row of dead_letter_queue is of a job that is dead-lettered, or that has
   been reset since; so requests that do not share a job are fresh. *)

OneRequest == \A r, q \in Requests : r # q /\ target[r] = target[q] => target[r] = NoJob

ResetBy(j) == \E r \in Requests : at[r] = "done" /\ target[r] = j
LettersAreDue == \A j \in letters : status[j] = "dead_letter" \/ ResetBy(j)
NewHasNoTarget == \A r \in Requests : at[r] = "new" => target[r] = NoJob
FreshInv == ClaimInv /\ FreshResets /\ LettersAreDue /\ NewHasNoTarget

\* A job that has failed for good is written by nothing but a reset.
LEMMA FailedStays ==
  ASSUME ClaimInv, [Next]_vars, NEW j \in Jobs, status[j] \in {"failed", "dead_letter"},
         ~ \E r \in Requests : ApplyReset(r) /\ target[r] = j
  PROVE  status'[j] = status[j]
<1> USE DEF ClaimInv, LocksInv, TypeOK, AC!RowsTypeOK
<1>1. ASSUME NEW s \in Slots, Run(s) PROVE status'[j] = status[j]
  <2>1. CASE MarkRunning(s) \/ Complete(s) \/ Requeue(s) \/ DeadLetter(s)
    <3>1. Working(s)
      BY <2>1 DEF MarkRunning, Complete, Requeue, DeadLetter, Fails, Working, AtWork
    <3>2. job[s] # j
      BY <3>1 DEF OneHolder, Working, AtWork
    <3>3. QED
      BY <2>1, <3>2 DEF MarkRunning, Complete, Requeue, DeadLetter, AC!MarkRunning,
         AC!Complete, AC!Requeue, AC!DeadLetter, AC!SetStatus
  <2>2. CASE Finish(s)
    BY <2>2 DEF Finish, rowVars
  <2>3. QED
    BY <1>1, <2>1, <2>2 DEF Run
<1>2. ASSUME NEW r \in Requests, ApplyReset(r) PROVE status'[j] = status[j]
  BY <1>2 DEF ApplyReset, AC!Reset
<1>3. ASSUME NEW i \in Jobs, Insert(i) \/ Release(i) \/ Cancel(i)
      PROVE  status'[j] = status[j]
  BY <1>3 DEF Insert, Release, Cancel, AC!InsertJob, AC!ReleaseJob, AC!Enqueue,
     AC!CancelJob, AC!SetStatus
<1>4. ASSUME NEW w \in Workers, Publish(w) PROVE status'[j] = status[j]
  <2>1. picked[w] # j
    BY JobsAssumption DEF PickIsGood
  <2>2. QED
    BY <1>4, <2>1 DEF Publish, AC!Take, rowVars
<1>5. CASE UNCHANGED status
  BY <1>5
<1>6. QED
  BY <1>1, <1>2, <1>3, <1>4, <1>5
     DEF Next, ClaimStep, Begin, LockQueue, CountQueue, NothingEligible, ClaimUpdate, Commit,
     Rollback, CommitAnswerLost, Crash, Abandon, Skip, CheckReset, Patch, AC!PatchQueue,
     Tick, AC!Tick, rowVars, vars

\* How a step moves the requests.
LEMMA RequestMoves ==
  ASSUME TypeOK, [Next]_vars, NEW r \in Requests
  PROVE  \/ at'[r] = at[r] /\ target'[r] = target[r] /\ ~ApplyReset(r)
         \/ ApplyReset(r) /\ at[r] = "reset" /\ at'[r] = "done" /\ target'[r] = target[r]
         \/ \E j \in Jobs : /\ CheckReset(r, j) /\ at[r] = "new" /\ at'[r] = "reset"
                            /\ target'[r] = j
<1>1. ASSUME NEW q \in Requests, ApplyReset(q)
      PROVE  /\ at[q] = "reset" /\ at' = [at EXCEPT ![q] = "done"] /\ target' = target
  BY <1>1 DEF ApplyReset
<1>2. ASSUME NEW q \in Requests, NEW j \in Jobs, CheckReset(q, j)
      PROVE  /\ at[q] = "new" /\ at' = [at EXCEPT ![q] = "reset"]
             /\ target' = [target EXCEPT ![q] = j]
  BY <1>2 DEF CheckReset
<1>3. ApplyReset(r) => at'[r] = "done" /\ at[r] = "reset" /\ target'[r] = target[r]
  BY <1>1 DEF TypeOK
<1>4. CASE UNCHANGED <<at, target>>
  BY <1>3, <1>4
<1>5. CASE \E q \in Requests : ApplyReset(q)
  BY <1>1, <1>3, <1>5 DEF TypeOK
<1>6. CASE \E q \in Requests, j \in Jobs : CheckReset(q, j)
  BY <1>2, <1>3, <1>6 DEF TypeOK
<1>7. QED
  BY <1>4, <1>5, <1>6
     DEF Next, ClaimStep, Begin, LockQueue, CountQueue, NothingEligible, ClaimUpdate, Commit,
     Rollback, CommitAnswerLost, Crash, Run, MarkRunning, Complete, Requeue, DeadLetter,
     Finish, Abandon, Skip, Insert, Release, Cancel, Patch, Tick, restVars, requestVars, vars

LEMMA FreshStep == FreshInv /\ OneRequest /\ OneRequest' /\ [Next]_vars => FreshInv'
<1> SUFFICES ASSUME FreshInv, OneRequest, OneRequest', [Next]_vars PROVE FreshInv'
  OBVIOUS
<1>0. ClaimInv' /\ TypeOK /\ TypeOK'
  BY NextInv DEF FreshInv, ClaimInv, LocksInv
<1>1. ASSUME NEW j \in letters PROVE status[j] = "dead_letter" \/ ResetBy(j)
  BY DEF FreshInv, LettersAreDue
<1>2. ASSUME NEW r \in Requests, NEW q \in Requests, target[r] = target[q],
             target[r] \in Jobs
      PROVE  r = q
  BY <1>2, JobsAssumption DEF OneRequest
<1>3. ASSUME NEW r \in Requests, NEW q \in Requests, target'[r] = target'[q],
             target'[r] \in Jobs
      PROVE  r = q
  BY <1>3, JobsAssumption DEF OneRequest
<1>4. ASSUME NEW r \in Requests, at'[r] = "reset"
      PROVE  status'[target'[r]] \in {"failed", "dead_letter"}
  <2>1. CASE at[r] = "reset" /\ target'[r] = target[r] /\ ~ApplyReset(r)
    <3>1. target[r] \in Jobs /\ status[target[r]] \in {"failed", "dead_letter"}
      BY <1>0, <2>1 DEF FreshInv, FreshResets, TypeOK
    <3>2. PICK j \in Jobs : j = target[r]
      BY <3>1
    <3>3. ~ \E q \in Requests : ApplyReset(q) /\ target[q] = j
      BY <1>2, <2>1, <3>2
    <3>4. status'[j] = status[j]
      BY <3>1, <3>2, <3>3, FailedStays DEF FreshInv
    <3>5. QED
      BY <2>1, <3>1, <3>2, <3>4
  <2>2. CASE \E j \in Jobs : /\ CheckReset(r, j) /\ at[r] = "new" /\ at'[r] = "reset"
                            /\ target'[r] = j
    <3>1. PICK j \in Jobs : CheckReset(r, j) /\ at[r] = "new" /\ target'[r] = j
      BY <2>2
    <3>2. status' = status /\ letters' = letters
      BY <3>1 DEF CheckReset, rowVars
    <3>3. ~ResetBy(j)
      <4>1. ASSUME NEW q \in Requests, at[q] = "done", target[q] = j PROVE FALSE
        <5>1. q # r
          BY <3>1, <4>1
        <5>2. target'[q] = target[q]
          BY <3>1, <5>1, <1>0 DEF CheckReset, TypeOK
        <5>3. QED
          BY <1>3, <3>1, <4>1, <5>1, <5>2
      <4>2. QED
        BY <4>1 DEF ResetBy
    <3>4. status[j] \in {"failed", "dead_letter"}
      BY <1>1, <3>1, <3>3 DEF CheckReset
    <3>5. QED
      BY <3>1, <3>2, <3>4
  <2>3. QED
    BY <1>0, <1>4, <2>1, <2>2, RequestMoves
<1>5. ASSUME NEW r \in Requests, at'[r] = "new" PROVE target'[r] = NoJob
  BY <1>0, <1>5, RequestMoves DEF FreshInv, NewHasNoTarget
<1>6. ASSUME NEW j \in letters' PROVE status'[j] = "dead_letter" \/ ResetBy(j)'
  <2>0. j \in Jobs
    BY <1>0 DEF TypeOK
  <2>1. CASE j \in letters
    <3>1. CASE ResetBy(j)
      <4>1. PICK r \in Requests : at[r] = "done" /\ target[r] = j
        BY <3>1 DEF ResetBy
      <4>2. at'[r] = "done" /\ target'[r] = j
        BY <1>0, <4>1, RequestMoves
      <4>3. QED
        BY <4>2 DEF ResetBy
    <3>2. CASE \E r \in Requests : ApplyReset(r) /\ target[r] = j
      <4>1. PICK r \in Requests : ApplyReset(r) /\ target[r] = j
        BY <3>2
      <4>2. at'[r] = "done" /\ target'[r] = j
        BY <1>0, <4>1 DEF ApplyReset, TypeOK
      <4>3. QED
        BY <4>2 DEF ResetBy
    <3>3. CASE /\ status[j] = "dead_letter"
               /\ ~ \E r \in Requests : ApplyReset(r) /\ target[r] = j
      BY <2>0, <3>3, FailedStays DEF FreshInv
    <3>4. QED
      BY <1>1, <2>1, <3>1, <3>2, <3>3
  <2>2. CASE j \notin letters
    <3>1. PICK s \in Slots : DeadLetter(s) /\ j = job[s]
      BY <2>2 DEF Next, ClaimStep, Begin, LockQueue, CountQueue, NothingEligible,
         ClaimUpdate, Commit, Rollback, CommitAnswerLost, Crash, Run, MarkRunning, Complete,
         Requeue, DeadLetter, Finish, Abandon, Skip, CheckReset, ApplyReset, Insert,
         Release, Cancel, Patch, Tick, restVars, requestVars, vars
    <3>2. QED
      BY <1>0, <2>0, <3>1 DEF DeadLetter, AC!DeadLetter, AC!SetStatus, TypeOK, AC!RowsTypeOK
  <2>3. QED
    BY <2>1, <2>2
<1>7. FreshResets' /\ LettersAreDue' /\ NewHasNoTarget'
  BY <1>4, <1>5, <1>6 DEF FreshResets, LettersAreDue, NewHasNoTarget
<1>8. QED
  BY <1>0, <1>7 DEF FreshInv

\* One request about a job, ever, is enough: whatever retries and replays read,
\* nothing else has taken the job out of the status they read.
THEOREM OneRequestIsFresh == Spec /\ []OneRequest => []FreshResets
<1>1. Init => FreshInv
  BY InitInv DEF Init, FreshInv, FreshResets, LettersAreDue, NewHasNoTarget
<1>2. FreshInv => FreshResets
  BY DEF FreshInv
<1>3. QED
  BY <1>1, <1>2, FreshStep, PTL DEF Spec
-----------------------------------------------------------------------------
(* No circle of waiting claims: of the queues that the claims of a set are *)
(* waiting for, the one with the greatest id is held by a claim that waits *)
(* for none of them.                                                       *)

LEMMA GreatestQueue ==
  ASSUME NEW S \in SUBSET Queues, S # {}
  PROVE  \E n \in S : \A k \in S : k <= n
<1> DEFINE Above(n) == {r \in Queues : r > n}
           T == {Above(n) : n \in S}
<1>1. IsWellFoundedOn(StrictSubsetOrdering(Queues), FiniteSubsetsOf(Queues))
  BY FS_StrictSubsetOrderingWellFounded
<1>2. T \subseteq FiniteSubsetsOf(Queues) /\ T # {}
  <2>1. FiniteSubsetsOf(Queues) = SUBSET Queues
    BY FS_FiniteSubsetsOfFinite
  <2>2. \A n \in S : Above(n) \in SUBSET Queues
    OBVIOUS
  <2>3. T \subseteq SUBSET Queues /\ T # {}
    <3> HIDE DEF Above
    <3>1. PICK n \in S : TRUE
      OBVIOUS
    <3>2. Above(n) \in T
      OBVIOUS
    <3>3. T \subseteq SUBSET Queues
      BY <2>2
    <3>4. QED
      BY <3>2, <3>3
  <2>4. QED
    BY <2>1, <2>3
<1>3. PICK x \in T : \A y \in T : <<y, x>> \notin StrictSubsetOrdering(Queues)
  <2> HIDE DEF T
  <2>1. QED
    BY <1>1, <1>2, WFMin
<1>4. PICK n \in S : x = Above(n)
  OBVIOUS
<1>5. ASSUME NEW k \in S, ~(k <= n) PROVE FALSE
  <2>1. k \in Nat /\ n \in Nat /\ k > n /\ k \in Queues
    BY <1>5
  <2>2. k \in Above(n) /\ k \notin Above(k)
    BY <2>1
  <2>3. \A r \in Queues : r > k => r > n
    BY <2>1
  <2>4. Above(k) \subseteq Above(n)
    BY <2>3
  <2>5. Above(k) \in T
    OBVIOUS
  <2>6. <<Above(k), Above(n)>> \in StrictSubsetOrdering(Queues)
    <3>1. Above(k) \in SUBSET Queues /\ Above(n) \in SUBSET Queues
      OBVIOUS
    <3> HIDE DEF Above
    <3>2. QED
      BY <2>2, <2>4, <3>1 DEF StrictSubsetOrdering
  <2>7. QED
    BY <1>3, <1>4, <2>5, <2>6
<1>6. QED
  BY <1>5

\* Claims lock queues in the order of id, so they never wait in a circle
\* ("sorting queues by ID before locking prevents deadlocks").
THEOREM ClaimsNeverDeadlock == Spec => []NoWaitCycle
<1>1. ASSUME TypeOK, LockOrder, NEW W \in SUBSET Workers, W # {},
             \A w \in W : \E v \in W : WaitsFor(w, v)
      PROVE  FALSE
  <2> DEFINE Least(w, q) == q \in snapshot[w] /\ \A r \in snapshot[w] : q <= r
             Awaited == {q \in Queues : \E w \in W : Least(w, q)}
  <2>1. ASSUME NEW w \in W
        PROVE  \E q \in Awaited, v \in W : Least(w, q) /\ rowLock[q] = v
    BY <1>1 DEF WaitsFor, TypeOK
  <2>2. PICK q \in Awaited : \A k \in Awaited : k <= q
    <3>1. Awaited # {}
      <4>1. PICK w \in W : TRUE
        BY <1>1
      <4>2. \E q \in Awaited : Least(w, q)
        BY <2>1, <4>1
      <4> HIDE DEF Awaited
      <4>3. QED
        BY <4>2
    <3>2. Awaited \in SUBSET Queues
      OBVIOUS
    <3> HIDE DEF Awaited
    <3>3. QED
      BY <3>1, <3>2, GreatestQueue
  <2>3. PICK w \in W : Least(w, q)
    OBVIOUS
  <2>4. PICK p \in Awaited, v \in W : Least(w, p) /\ rowLock[p] = v
    BY <2>1
  <2>5. p = q
    BY <1>1, <2>3, <2>4 DEF TypeOK
  <2>6. PICK r \in Awaited : Least(v, r)
    BY <2>1, <2>4
  <2>7. q < r
    BY <1>1, <2>4, <2>5, <2>6 DEF LockOrder, HeldBy
  <2>8. q \in Nat /\ r \in Nat
    OBVIOUS
  <2>9. r <= q
    BY <2>2
  <2> HIDE DEF Awaited, Least
  <2>10. QED
    BY <2>7, <2>8, <2>9
<1>2. LocksInv => NoWaitCycle
  BY <1>1 DEF LocksInv, NoWaitCycle
<1>3. QED
  BY <1>2, LocksHold, PTL
-----------------------------------------------------------------------------
(* Refinement: a COMMIT that publishes a job is the atomic claim, any other
   step of a transaction leaves the rows alone. *)

LEMMA PublishIsClaim ==
  ASSUME ClaimInv, NEW w \in Workers, Publish(w)
  PROVE  [AC!Next]_(AC!rowVars)
<1>1. CASE picked[w] = NoJob
  BY <1>1 DEF Publish, rowVars, AC!rowVars
<1>2. CASE picked[w] # NoJob
  <2>1. picked[w] \in Jobs /\ AC!Take(w, picked[w])
    BY <1>2 DEF Publish, ClaimInv, LocksInv, TypeOK
  <2>2. runAt[picked[w]] <= clock
    BY <1>2, <2>1 DEF ClaimInv, LocksInv, PickIsGood, IdleIsClean, TypeOK, AC!RowsTypeOK
  <2>3. AC!Claimable(w, picked[w])
    BY <1>2, <2>2 DEF ClaimInv, LocksInv, PickIsGood, EligibleStaysTrue, AC!Claimable
  <2>4. QED
    BY <2>1, <2>3 DEF AC!Next, AC!Claim
<1>3. QED
  BY <1>1, <1>2

LEMMA StepRefines == ClaimInv /\ [Next]_vars => [AC!Next]_(AC!rowVars)
<1> SUFFICES ASSUME ClaimInv, [Next]_vars PROVE [AC!Next]_(AC!rowVars)
  OBVIOUS
<1>a. UNCHANGED rowVars => [AC!Next]_(AC!rowVars)
  BY DEF rowVars, AC!rowVars
<1>1. CASE \E w \in Workers : Begin(w) \/ LockQueue(w) \/ CountQueue(w) \/ ClaimUpdate(w)
  BY <1>1, <1>a DEF Begin, LockQueue, CountQueue, ClaimUpdate
<1>2. CASE \E w \in Workers : UNCHANGED rowVars \/ Publish(w)
  BY <1>2, <1>a, PublishIsClaim
<1>3. ASSUME NEW s \in Slots, Run(s) \/ Abandon(s) \/ Skip(s) PROVE [AC!Next]_(AC!rowVars)
  <2>1. stage[s] # "free" => job[s] \in Jobs
    BY DEF ClaimInv, LocksInv, TypeOK
  <2>2. CASE MarkRunning(s) \/ Complete(s) \/ Requeue(s) \/ DeadLetter(s)
    BY <2>1, <2>2 DEF MarkRunning, Complete, Requeue, DeadLetter, Fails, AC!Next
  <2>3. CASE Finish(s) \/ Abandon(s) \/ Skip(s)
    BY <2>3, <1>a DEF Finish, Abandon, Skip
  <2>4. QED
    BY <1>3, <2>2, <2>3 DEF Run
<1>4. ASSUME NEW r \in Requests, ApplyReset(r) PROVE [AC!Next]_(AC!rowVars)
  BY <1>4 DEF ApplyReset, AC!Next, ClaimInv, LocksInv, TypeOK
<1>5. ASSUME NEW r \in Requests, NEW j \in Jobs, CheckReset(r, j)
      PROVE  [AC!Next]_(AC!rowVars)
  BY <1>5, <1>a DEF CheckReset
<1>6. ASSUME NEW j \in Jobs, Insert(j) \/ Release(j) \/ Cancel(j)
      PROVE  [AC!Next]_(AC!rowVars)
  BY <1>6 DEF Insert, Release, Cancel, AC!Next
<1>7. ASSUME NEW q \in Queues, Patch(q) PROVE [AC!Next]_(AC!rowVars)
  BY <1>7 DEF Patch, AC!Next
<1>8. CASE Tick
  BY <1>8 DEF Tick, AC!Next
<1>9. CASE UNCHANGED vars
  BY <1>9, <1>a DEF vars
<1>10. QED
  BY <1>1, <1>2, <1>3, <1>4, <1>5, <1>6, <1>7, <1>8, <1>9, StepKinds DEF OtherStep

\* While resets are fresh, the transaction implements the atomic claim, in
\* whose specification every other write goes by id.
THEOREM ClaimRefinesAtomic == Spec /\ []FreshResets => ClaimIsAtomic
<1>1. Init => AC!Init
  BY DEF Init
<1>2. QED
  BY <1>1, StepRefines, InvariantHolds, PTL DEF Spec, ClaimIsAtomic, AC!Spec
-----------------------------------------------------------------------------
\* A COMMIT adds at most one active job to a queue, and only to a queue with a
\* free slot; no other step adds any.
LEMMA StepAdmits ==
  ASSUME ClaimInv, [Next]_vars, NEW q \in Queues, AC!Active(q)' > AC!Active(q)
  PROVE  AC!Active(q)' <= limit'[q]
<1> USE DEF ClaimInv, LocksInv, TypeOK, AC!RowsTypeOK
<1>1. PICK w \in Workers : picked[w] # NoJob /\ AC!Take(w, picked[w])
  <2> SUFFICES ASSUME ~ \E w \in Workers : picked[w] # NoJob /\ AC!Take(w, picked[w])
               PROVE  FALSE
    OBVIOUS
  <2>1. UNCHANGED rowVars \/ OtherStep
    BY StepKinds DEF Publish, Begin, LockQueue, CountQueue, ClaimUpdate
  <2>2. AC!Active(q)' <= AC!Active(q)
    BY <2>1, SameRows, OtherActive, FewerActive, ActiveIsNat
  <2>3. AC!Active(q)' \in Nat /\ AC!Active(q) \in Nat
    BY <2>1, SameRows, OtherActive, FewerActive, ActiveIsNat
  <2>4. QED
    BY <2>2, <2>3
<1>2. PICK j \in Jobs : j = picked[w]
  BY <1>1
<1>3. /\ status[j] = "queued" /\ QueueOf[j] \in eligible[w]
      /\ AC!Take(w, j)
  BY <1>1, <1>2 DEF PickIsGood
<1>4. CASE q # QueueOf[j]
  BY <1>3, <1>4, TakeCounts, ActiveIsNat
<1>5. CASE q = QueueOf[j]
  <2>1. AC!ActiveJobs(q)' = AC!ActiveJobs(q) \cup {j}
    BY <1>3, <1>5 DEF AC!Take, AC!ActiveJobs, AC!ActiveStatuses
  <2>2. IsFiniteSet(AC!ActiveJobs(q)) /\ j \notin AC!ActiveJobs(q)
    BY <1>3, ActiveIsNat DEF AC!ActiveJobs, AC!ActiveStatuses
  <2>3. Cardinality(AC!ActiveJobs(q) \cup {j}) = Cardinality(AC!ActiveJobs(q)) + 1
    BY <2>2, FS_AddElement
  <2>4. AC!Active(q)' = AC!Active(q) + 1
    BY <2>1, <2>3, SameCardinality DEF AC!Active
  <2>5. AC!Active(q) < limit[q] /\ limit'[q] = limit[q] /\ limit[q] \in Nat
    BY <1>3, <1>5 DEF EligibleStaysTrue, AC!Take
  <2>6. AC!Active(q) \in Nat
    BY ActiveIsNat
  <2>7. QED
    BY <2>4, <2>5, <2>6
<1>6. QED
  BY <1>4, <1>5

\* While resets are fresh, admitting a job never takes a queue above its limit
\* (README "strict concurrency limit"), whatever the interleaving and the
\* failures.
THEOREM AdmissionWithinLimit == Spec /\ []FreshResets => NoOverAdmission
<1>1. ClaimInv /\ [Next]_vars =>
        [\A q \in Queues :
           AC!Active(q)' > AC!Active(q) => AC!Active(q)' <= limit'[q]]_vars
  BY StepAdmits
<1>2. QED
  BY <1>1, InvariantHolds, PTL DEF Spec, NoOverAdmission
=============================================================================
