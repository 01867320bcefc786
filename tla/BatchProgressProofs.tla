-------------------------- MODULE BatchProgressProofs --------------------------
(***************************************************************************)
(* What the counters of a batch come to, for any number of jobs, attempts, *)
(* manual retries, errors and crashes: every end of a job is counted once, *)
(* the callback is sent once and once more at most for each retry and each *)
(* error, and the status agrees with the jobs if there were none of these. *)
(***************************************************************************)
EXTENDS BatchProgress, FiniteSetTheorems, TLAPS

USE TotalAssumption, BoundsAssumption
    DEF batchVars, jobVars, executionVars, historyVars, boundVars

Ended == {j \in Jobs : status[j] \in {"completed", "dead_letter"}}
Deciding == {j \in Jobs : pc[j] \in {"judge", "call"} /\ AllDone(j)}
Marked(s) == {j \in Jobs : status[j] = s}
ToCount(o) == {j \in Jobs : pc[j] = "count" /\ outcome[j] = o}

EndedJobs == Cardinality(Ended)
Decisions == Cardinality(Deciding)
Completions == Cardinality(Marked("completed"))
DeadLetters == Cardinality(Marked("dead_letter"))
Gains == Cardinality(ToCount("completed"))
Losses == Cardinality(ToCount("failed"))

(* How the place of an execution goes with the status of its job, and what *)
(* its count returned with the counters.                                   *)
FlowInv ==
  \A j \in Jobs :
    /\ j > inserted <=> status[j] = "absent"
    /\ status[j] = "absent" => attempts[j] = 0
    /\ status[j] = "queued" => attempts[j] < MaxAttempts
    /\ pc[j] = "run" => status[j] = "running"
    /\ pc[j] \in {"none", "run"} <=> outcome[j] = "none"
    /\ outcome[j] = "completed" => status[j] = "completed"
    /\ pc[j] = "call" => AllDone(j)
    /\ seen[j].completed <= completed /\ seen[j].failed <= failed

(* A job ends again only if a retry or an error has put it back.           *)
EndsInv == ends <= EndedJobs + resets + errors

(* Each count that has reached the total sends one callback at most.       *)
Sent == callbacks["completed"] + callbacks["failed"]
Counts == completed + failed
CallbackInv == Sent + Decisions <= IF Counts >= Total THEN Counts - Total + 1 ELSE 0

(* Without a retry or a fault, the counters are behind the jobs by no more *)
(* than the counts that are still to come.                                 *)
AgreeInv ==
  resets + errors + crashes = 0 =>
    completed + Gains = Completions /\ failed + Losses = DeadLetters

LiveInv == TypeOK /\ FlowInv
-----------------------------------------------------------------------------
(* Sets of jobs that differ in one job at most.                            *)

LEMMA JobsAreFinite ==
  /\ IsFiniteSet(Jobs) /\ Cardinality(Jobs) = Total
  /\ \A P \in SUBSET Jobs : IsFiniteSet(P) /\ Cardinality(P) \in Nat /\ Cardinality(P) <= Total
<1>1. IsFiniteSet(Jobs) /\ Cardinality(Jobs) = Total
  BY FS_Interval DEF Jobs
<1>2. QED
  BY <1>1, FS_Subset, FS_CardinalityType

LEMMA OneMember ==
  ASSUME NEW j \in Jobs, NEW P \in SUBSET Jobs, NEW Q \in SUBSET Jobs, P \ {j} = Q \ {j}
  PROVE  /\ Cardinality(P) \in Nat /\ Cardinality(Q) \in Nat
         /\ (j \in P <=> j \in Q) => Cardinality(Q) = Cardinality(P)
         /\ j \notin P /\ j \in Q => Cardinality(Q) = Cardinality(P) + 1
         /\ j \in P /\ j \notin Q => Cardinality(Q) = Cardinality(P) - 1
<1>1. Cardinality(P) \in Nat /\ Cardinality(Q) \in Nat /\ IsFiniteSet(P) /\ IsFiniteSet(Q)
  BY JobsAreFinite
<1>2. CASE j \in P <=> j \in Q
  <2>1. P = Q
    BY <1>2
  <2>2. QED
    BY <1>1, <1>2, <2>1
<1>3. CASE j \notin P /\ j \in Q
  <2>1. Q = P \cup {j}
    BY <1>3
  <2>2. QED
    BY <1>1, <1>3, <2>1, FS_AddElement
<1>4. CASE j \in P /\ j \notin Q
  <2>1. P = Q \cup {j}
    BY <1>4
  <2>2. QED
    BY <1>1, <1>4, <2>1, FS_AddElement
<1>5. QED
  BY <1>2, <1>3, <1>4

(* A step that leaves every job but one, and its execution, as they were.  *)
Local(j) ==
  \A k \in Jobs \ {j} :
    status'[k] = status[k] /\ pc'[k] = pc[k] /\ outcome'[k] = outcome[k] /\ seen'[k] = seen[k]

\* How a number moves with the membership of one job.
Moves(n, m, before, after) ==
  /\ n \in Nat /\ m \in Nat
  /\ (before <=> after) => m = n
  /\ ~before /\ after => m = n + 1
  /\ before /\ ~after => m = n - 1

LEMMA LocalMoves ==
  ASSUME NEW j \in Jobs, Local(j)
  PROVE  /\ Moves(EndedJobs, EndedJobs', j \in Ended, j \in Ended')
         /\ Moves(Decisions, Decisions', j \in Deciding, j \in Deciding')
         /\ Moves(Completions, Completions', j \in Marked("completed"), j \in Marked("completed")')
         /\ Moves(DeadLetters, DeadLetters', j \in Marked("dead_letter"), j \in Marked("dead_letter")')
         /\ Moves(Gains, Gains', j \in ToCount("completed"), j \in ToCount("completed")')
         /\ Moves(Losses, Losses', j \in ToCount("failed"), j \in ToCount("failed")')
         /\ Moves(Counting, Counting', pc[j] = "count", pc'[j] = "count")
<1> USE DEF Local, Moves
<1>1. Moves(EndedJobs, EndedJobs', j \in Ended, j \in Ended')
  <2>1. Ended \ {j} = Ended' \ {j} /\ Ended \in SUBSET Jobs /\ Ended' \in SUBSET Jobs
    BY DEF Ended
  <2>2. QED
    BY <2>1, OneMember DEF EndedJobs
<1>2. Moves(Decisions, Decisions', j \in Deciding, j \in Deciding')
  <2>1. /\ Deciding \ {j} = Deciding' \ {j}
        /\ Deciding \in SUBSET Jobs /\ Deciding' \in SUBSET Jobs
    BY DEF Deciding, AllDone
  <2>2. QED
    BY <2>1, OneMember DEF Decisions
<1>3. ASSUME NEW s \in {"completed", "dead_letter"}
      PROVE  Moves(Cardinality(Marked(s)), Cardinality(Marked(s))', j \in Marked(s), j \in Marked(s)')
  <2>1. Marked(s) \ {j} = Marked(s)' \ {j} /\ Marked(s) \in SUBSET Jobs /\ Marked(s)' \in SUBSET Jobs
    BY DEF Marked
  <2>2. QED
    BY <2>1, OneMember
<1>4. ASSUME NEW o \in {"completed", "failed"}
      PROVE  Moves(Cardinality(ToCount(o)), Cardinality(ToCount(o))', j \in ToCount(o), j \in ToCount(o)')
  <2>1. /\ ToCount(o) \ {j} = ToCount(o)' \ {j}
        /\ ToCount(o) \in SUBSET Jobs /\ ToCount(o)' \in SUBSET Jobs
    BY DEF ToCount
  <2>2. QED
    BY <2>1, OneMember
<1>5. Moves(Counting, Counting', pc[j] = "count", pc'[j] = "count")
  <2> DEFINE P == {k \in Jobs : pc[k] = "count"}
             Q == {k \in Jobs : pc'[k] = "count"}
  <2>1. P \ {j} = Q \ {j} /\ P \in SUBSET Jobs /\ Q \in SUBSET Jobs
    OBVIOUS
  <2>2. /\ Counting = Cardinality(P) /\ Counting' = Cardinality(Q)
        /\ j \in P <=> pc[j] = "count"
        /\ j \in Q <=> pc'[j] = "count"
    BY DEF Counting
  <2> HIDE DEF P, Q
  <2>3. QED
    BY <2>1, <2>2, OneMember
<1>6. QED
  BY <1>1, <1>2, <1>3, <1>4, <1>5 DEF Completions, DeadLetters, Gains, Losses
-----------------------------------------------------------------------------
(* The types, and FlowInv.                                                 *)

LEMMA InitLive == Init => LiveInv
  BY DEF Init, LiveInv, TypeOK, FlowInv, Nothing, Jobs, JobStatuses

LEMMA CreateLive == LiveInv /\ Create => LiveInv'
<1> SUFFICES ASSUME LiveInv, Create PROVE LiveInv'
  OBVIOUS
<1> USE DEF LiveInv
<1>1. CASE InsertBatch \/ Refuse \/ Respond
  BY <1>1 DEF InsertBatch, Refuse, Respond, TypeOK, FlowInv, AllDone, Jobs
<1>2. CASE InsertJob
  <2>1. TypeOK'
    BY <1>2 DEF InsertJob, TypeOK, Jobs, JobStatuses
  <2>2. FlowInv'
    BY <1>2 DEF InsertJob, TypeOK, FlowInv, AllDone, Jobs, JobStatuses
  <2>3. QED
    BY <2>1, <2>2
<1>3. QED
  BY <1>1, <1>2 DEF Create

\* The types of what an execution changes of its own job.
LEMMA LocalTypes ==
  ASSUME TypeOK, NEW j \in Jobs, NEW s \in JobStatuses, NEW o \in {"none", "completed", "failed"},
         NEW p \in {"none", "run", "count", "judge", "call"}
  PROVE  /\ [status EXCEPT ![j] = s] \in [Jobs -> JobStatuses]
         /\ [outcome EXCEPT ![j] = o] \in [Jobs -> {"none", "completed", "failed"}]
         /\ [pc EXCEPT ![j] = p] \in [Jobs -> {"none", "run", "count", "judge", "call"}]
         /\ [seen EXCEPT ![j] = Nothing] \in [Jobs -> [completed : Nat, failed : Nat]]
  BY DEF TypeOK, Nothing

LEMMA StartLive ==
  ASSUME LiveInv, NEW j \in Jobs, Start(j)
  PROVE  LiveInv'
<1> USE DEF LiveInv, Start
<1>1. attempts[j] + 1 \in 0 .. MaxAttempts
  BY DEF TypeOK, FlowInv
<1>2. TypeOK'
  BY <1>1, LocalTypes DEF TypeOK, JobStatuses
<1>3. FlowInv'
  BY DEF TypeOK, FlowInv, AllDone
<1>4. QED
  BY <1>2, <1>3

LEMMA ExecuteLive ==
  ASSUME LiveInv, NEW j \in Jobs, Execute(j)
  PROVE  LiveInv'
<1> USE DEF LiveInv, Execute, HandleFailure, End, Leave
<1>0. seen' \in [Jobs -> [completed : Nat, failed : Nat]]
  BY DEF TypeOK, Nothing
<1>1. /\ pc' \in [Jobs -> {"none", "run", "count", "judge", "call"}]
      /\ outcome' \in [Jobs -> {"none", "completed", "failed"}]
  BY DEF TypeOK
<1>2. status' \in [Jobs -> JobStatuses] /\ ends' \in Nat /\ UNCHANGED attempts
  BY DEF TypeOK, JobStatuses
<1>3. TypeOK'
  BY <1>0, <1>1, <1>2 DEF TypeOK
<1>4. FlowInv'
  BY DEF TypeOK, FlowInv, AllDone, Nothing
<1>5. QED
  BY <1>3, <1>4

LEMMA CountLive ==
  ASSUME LiveInv, NEW j \in Jobs, Count(j)
  PROVE  LiveInv'
<1> USE DEF LiveInv, Count
<1>1. /\ completed \in Nat /\ failed \in Nat /\ completed' \in Nat /\ failed' \in Nat
      /\ completed <= completed' /\ failed <= failed'
  BY DEF TypeOK
<1>2. TypeOK'
  BY <1>1, LocalTypes DEF TypeOK
<1>3. FlowInv'
  BY <1>1 DEF TypeOK, FlowInv, AllDone
<1>4. QED
  BY <1>2, <1>3

LEMMA JudgeLive ==
  ASSUME LiveInv, NEW j \in Jobs, Judge(j) \/ Callback(j)
  PROVE  LiveInv'
<1> USE DEF LiveInv, Judge, Callback, Leave
<1>0. seen' \in [Jobs -> [completed : Nat, failed : Nat]]
  BY DEF TypeOK, Nothing
<1>1. /\ pc' \in [Jobs -> {"none", "run", "count", "judge", "call"}]
      /\ outcome' \in [Jobs -> {"none", "completed", "failed"}]
  BY DEF TypeOK
<1>2. FinalStatus(j) \in {"completed", "failed"}
  BY DEF FinalStatus
<1>3. /\ batchStatus' \in {"absent", "processing", "completed", "failed", "cancelled"}
      /\ callbacks' \in [{"completed", "failed"} -> Nat]
  BY <1>2 DEF TypeOK
<1>4. TypeOK'
  BY <1>0, <1>1, <1>3 DEF TypeOK
<1>5. FlowInv'
  BY DEF TypeOK, FlowInv, AllDone, Nothing
<1>6. QED
  BY <1>4, <1>5

LEMMA FaultLive ==
  ASSUME LiveInv, NEW j \in Jobs, UpdateFails(j) \/ Crash(j)
  PROVE  LiveInv'
<1> USE DEF LiveInv, UpdateFails, Crash, HandleFailure, End, Leave
<1>0. seen' \in [Jobs -> [completed : Nat, failed : Nat]]
  BY DEF TypeOK, Nothing
<1>1. /\ pc' \in [Jobs -> {"none", "run", "count", "judge", "call"}]
      /\ outcome' \in [Jobs -> {"none", "completed", "failed"}]
  BY DEF TypeOK
<1>2. status' \in [Jobs -> JobStatuses] /\ ends' \in Nat /\ UNCHANGED attempts
  BY DEF TypeOK, JobStatuses
<1>3. errors' \in 0 .. MaxErrors /\ crashes' \in 0 .. MaxCrashes /\ uncounted' \in Nat
  BY DEF TypeOK
<1>4. TypeOK'
  BY <1>0, <1>1, <1>2, <1>3 DEF TypeOK
<1>5. FlowInv'
  BY DEF TypeOK, FlowInv, AllDone, Nothing
<1>6. QED
  BY <1>4, <1>5

LEMMA OperatorLive ==
  ASSUME LiveInv, CancelBatch \/ CancelJobs \/ \E j \in Jobs : RetryJob(j)
  PROVE  LiveInv'
<1> USE DEF LiveInv, CancelBatch, CancelJobs, RetryJob
<1>1. TypeOK'
  BY DEF TypeOK, JobStatuses
<1>2. FlowInv'
  BY DEF TypeOK, FlowInv, AllDone
<1>3. QED
  BY <1>1, <1>2
LEMMA NextLive == LiveInv /\ [Next]_vars => LiveInv'
<1>1. LiveInv /\ UNCHANGED vars => LiveInv'
  BY DEF LiveInv, TypeOK, FlowInv, AllDone, vars
<1>2. QED
  BY <1>1, CreateLive, StartLive, ExecuteLive, CountLive, JudgeLive, FaultLive, OperatorLive
     DEF Next, Step

LEMMA LiveHolds == Spec => []LiveInv
<1>1. QED
  BY InitLive, NextLive, PTL DEF Spec
-----------------------------------------------------------------------------
(* How each step moves the numbers.                                        *)

LEMMA LocalSteps ==
  ASSUME TypeOK, NEW j \in Jobs, Step(j) \/ UpdateFails(j) \/ Crash(j) \/ RetryJob(j)
  PROVE  Local(j)
<1>1. CASE Start(j) \/ RetryJob(j)
  BY <1>1 DEF Start, RetryJob, TypeOK, Local
<1>2. CASE Execute(j) \/ UpdateFails(j) \/ Crash(j)
  BY <1>2 DEF Execute, UpdateFails, Crash, HandleFailure, End, Leave, TypeOK, Local
<1>3. CASE Count(j) \/ Judge(j) \/ Callback(j)
  BY <1>3 DEF Count, Judge, Callback, Leave, TypeOK, Local
<1>4. QED
  BY <1>1, <1>2, <1>3 DEF Step

LEMMA InsertJobMoves ==
  ASSUME TypeOK, InsertJob
  PROVE  inserted + 1 \in Jobs /\ Local(inserted + 1)
  BY DEF InsertJob, TypeOK, Local, Jobs

(* Steps that mark no job completed or dead-lettered, and let none go.     *)
Quiet == InsertBatch \/ Refuse \/ Respond \/ CancelBatch \/ CancelJobs \/ UNCHANGED vars

LEMMA QuietMoves ==
  ASSUME TypeOK, Quiet
  PROVE  /\ UNCHANGED <<pc, outcome, seen, completed, failed, callbacks, ends, uncounted, boundVars>>
         /\ UNCHANGED <<EndedJobs, Decisions, Completions, DeadLetters, Gains, Losses, Counting>>
<1>1. UNCHANGED <<pc, outcome, seen, completed, failed, callbacks, ends, uncounted, boundVars>>
  BY DEF Quiet, InsertBatch, Refuse, Respond, CancelBatch, CancelJobs, vars
<1>2. \A j \in Jobs, s \in {"completed", "dead_letter"} : status'[j] = s <=> status[j] = s
  BY DEF Quiet, InsertBatch, Refuse, Respond, CancelBatch, CancelJobs, vars, TypeOK
<1>3. Ended' = Ended /\ Marked("completed")' = Marked("completed")
      /\ Marked("dead_letter")' = Marked("dead_letter")
  BY <1>2 DEF Ended, Marked
<1>4. Deciding' = Deciding /\ ToCount("completed")' = ToCount("completed")
      /\ ToCount("failed")' = ToCount("failed") /\ Counting' = Counting
  BY <1>1 DEF Deciding, AllDone, ToCount, Counting
<1>5. QED
  BY <1>1, <1>3, <1>4 DEF EndedJobs, Decisions, Completions, DeadLetters, Gains, Losses

LEMMA NumbersAreNat ==
  /\ EndedJobs \in Nat /\ Decisions \in Nat /\ Completions \in Nat /\ DeadLetters \in Nat
  /\ Gains \in Nat /\ Losses \in Nat /\ Counting \in Nat
  /\ EndedJobs <= Total
  BY JobsAreFinite
     DEF EndedJobs, Decisions, Completions, DeadLetters, Gains, Losses, Counting,
         Ended, Deciding, Marked, ToCount
(* What becomes of the job itself and of its execution: it goes on, it ends *)
(* or it is put back.                                                      *)
Ends(j, s, o) ==
  /\ status'[j] = s /\ outcome'[j] = o
  /\ pc'[j] = "count" /\ seen'[j] = seen[j] /\ ends' = ends + 1
PutBack(j) == status'[j] = "queued" /\ outcome'[j] = "none" /\ pc'[j] = "none" /\ ends' = ends

LEMMA FailureOutcome ==
  ASSUME TypeOK, NEW j \in Jobs, HandleFailure(j)
  PROVE  Ends(j, "dead_letter", "failed") \/ PutBack(j)
<1>1. CASE End(j, "dead_letter", "failed")
  BY <1>1 DEF End, Ends, TypeOK
<1>2. CASE status' = [status EXCEPT ![j] = "queued"] /\ Leave(j) /\ ends' = ends
  BY <1>2 DEF Leave, PutBack, TypeOK
<1>3. QED
  BY <1>1, <1>2 DEF HandleFailure

LEMMA ExecuteOutcome ==
  ASSUME TypeOK, NEW j \in Jobs, Execute(j)
  PROVE  /\ Ends(j, "completed", "completed") \/ Ends(j, "dead_letter", "failed") \/ PutBack(j)
         /\ pc[j] = "run"
         /\ UNCHANGED <<completed, failed, callbacks, uncounted, boundVars>>
<1>1. CASE End(j, "completed", "completed")
  BY <1>1 DEF End, Ends, TypeOK, Execute
<1>2. CASE HandleFailure(j)
  BY <1>2, FailureOutcome DEF Execute
<1>3. QED
  BY <1>1, <1>2 DEF Execute

LEMMA UpdateFailsOutcome ==
  ASSUME TypeOK, NEW j \in Jobs, UpdateFails(j)
  PROVE  /\ \/ outcome[j] = "completed" /\ (Ends(j, "dead_letter", "failed") \/ PutBack(j))
            \/ outcome[j] # "completed" /\ pc'[j] = "none" /\ UNCHANGED <<status, ends>>
         /\ pc[j] \in {"count", "judge", "call"} /\ errors' = errors + 1
         /\ uncounted' = uncounted + (IF pc[j] = "count" THEN 1 ELSE 0)
         /\ UNCHANGED <<completed, failed, callbacks, resets, crashes>>
<1>1. CASE outcome[j] = "completed"
  BY <1>1, FailureOutcome DEF UpdateFails
<1>2. CASE outcome[j] # "completed"
  BY <1>2 DEF UpdateFails, Leave, TypeOK
<1>3. QED
  BY <1>1, <1>2

-----------------------------------------------------------------------------
(* Every end of a job is counted once.                                     *)

LEMMA InitCounted == Init => EveryEndCounted
<1> SUFFICES ASSUME Init PROVE EveryEndCounted
  OBVIOUS
<1>1. {j \in Jobs : pc[j] = "count"} = {}
  BY DEF Init
<1>2. Counting = 0
  BY <1>1, FS_EmptySet DEF Counting
<1>3. QED
  BY <1>2 DEF Init, EveryEndCounted

LEMMA NextCounted ==
  ASSUME LiveInv, EveryEndCounted, [Next]_vars
  PROVE  EveryEndCounted'
<1> USE DEF LiveInv, EveryEndCounted
<1>1. /\ completed \in Nat /\ failed \in Nat /\ uncounted \in Nat /\ ends \in Nat
      /\ Counting \in Nat
  BY NumbersAreNat DEF TypeOK
<1>2. CASE Quiet
  BY <1>1, <1>2, QuietMoves
<1>3. CASE InsertJob
  <2>1. Counting' = Counting
    BY <1>3 DEF InsertJob, Counting
  <2>2. QED
    BY <1>1, <1>3, <2>1 DEF InsertJob
<1>4. ASSUME NEW j \in Jobs, Step(j) \/ UpdateFails(j) \/ Crash(j) \/ RetryJob(j)
      PROVE  EveryEndCounted'
  <2>1. Moves(Counting, Counting', pc[j] = "count", pc'[j] = "count")
    BY <1>4, LocalSteps, LocalMoves
  <2>2. CASE Start(j) \/ Callback(j) \/ Judge(j) \/ RetryJob(j)
    <3>1. \/ UNCHANGED <<completed, failed, uncounted, ends>> /\ pc'[j] # "count" /\ pc[j] # "count"
          \/ UNCHANGED <<completed, failed, uncounted, ends, pc>>
      BY <2>2 DEF Start, Callback, Judge, RetryJob, Leave, TypeOK
    <3>2. QED
      BY <1>1, <2>1, <3>1 DEF Moves
  <2>3. CASE Execute(j)
    <3>1. pc[j] # "count" /\ UNCHANGED <<completed, failed, uncounted>>
      BY <2>3, ExecuteOutcome
    <3>2. \/ pc'[j] = "count" /\ ends' = ends + 1
          \/ pc'[j] # "count" /\ ends' = ends
      BY <2>3, ExecuteOutcome DEF Ends, PutBack
    <3>3. \/ Counting' = Counting + 1 /\ ends' = ends + 1
          \/ Counting' = Counting /\ ends' = ends
      BY <2>1, <3>1, <3>2 DEF Moves
    <3>4. QED
      BY <1>1, <3>1, <3>3
  <2>4. CASE Count(j)
    <3>1. UNCHANGED <<uncounted, ends>> /\ pc[j] = "count" /\ pc'[j] # "count"
      BY <2>4 DEF Count, TypeOK
    <3>2. Counting' = Counting - 1
      BY <2>1, <3>1 DEF Moves
    <3>3. \/ completed' = completed + 1 /\ failed' = failed
          \/ completed' = completed /\ failed' = failed + 1
      BY <1>1, <2>4 DEF Count
    <3>4. UNCHANGED <<uncounted, ends>>
      BY <3>1
    <3>5. QED
      BY <1>1, <3>2, <3>3, <3>4
  <2>5. CASE Crash(j)
    <3>1. /\ UNCHANGED <<completed, failed, ends>> /\ pc'[j] = "none"
          /\ uncounted' = uncounted + (IF pc[j] = "count" THEN 1 ELSE 0)
      BY <2>5 DEF Crash, Leave, TypeOK
    <3>2. \/ pc[j] = "count" /\ uncounted' = uncounted + 1
          \/ pc[j] # "count" /\ uncounted' = uncounted
      BY <1>1, <3>1
    <3>3. \/ Counting' = Counting - 1 /\ uncounted' = uncounted + 1
          \/ Counting' = Counting /\ uncounted' = uncounted
      BY <2>1, <3>1, <3>2 DEF Moves
    <3>4. QED
      BY <1>1, <3>1, <3>3
  <2>6. CASE UpdateFails(j)
    <3>1. /\ UNCHANGED <<completed, failed>>
          /\ uncounted' = uncounted + (IF pc[j] = "count" THEN 1 ELSE 0)
      BY <2>6, UpdateFailsOutcome
    <3>2. \/ pc[j] = "count" /\ uncounted' = uncounted + 1
          \/ pc[j] # "count" /\ uncounted' = uncounted
      BY <1>1, <3>1
    <3>3. \/ pc'[j] = "count" /\ ends' = ends + 1
          \/ pc'[j] # "count" /\ ends' = ends
      BY <2>6, UpdateFailsOutcome DEF Ends, PutBack
    <3>4. \/ uncounted' = uncounted + 1 /\ ends' = ends + 1 /\ Counting' = Counting
          \/ uncounted' = uncounted + 1 /\ ends' = ends /\ Counting' = Counting - 1
          \/ uncounted' = uncounted /\ ends' = ends + 1 /\ Counting' = Counting + 1
          \/ uncounted' = uncounted /\ ends' = ends /\ Counting' = Counting
      BY <2>1, <3>2, <3>3 DEF Moves
    <3>5. UNCHANGED <<completed, failed>>
      BY <3>1
    <3>6. QED
      BY <1>1, <3>4, <3>5
  <2>7. QED
    BY <1>4, <2>2, <2>3, <2>4, <2>5, <2>6 DEF Step
<1>5. QED
  BY <1>2, <1>3, <1>4 DEF Next, Create, Quiet

(* Nothing is lost, and nothing is counted twice.                          *)
THEOREM EndsAreCounted == Spec => []EveryEndCounted
<1>1. QED
  BY InitCounted, NextCounted, LiveHolds, PTL DEF Spec
-----------------------------------------------------------------------------
(* The callback.                                                           *)

LEMMA InitEnds == Init => EndsInv
  BY NumbersAreNat DEF Init, EndsInv

LEMMA NextEnds ==
  ASSUME LiveInv, EndsInv, [Next]_vars
  PROVE  EndsInv'
<1> USE DEF LiveInv, EndsInv
<1>1. ends \in Nat /\ resets \in Nat /\ errors \in Nat /\ EndedJobs \in Nat
  BY NumbersAreNat DEF TypeOK
<1>2. CASE Quiet
  BY <1>1, <1>2, QuietMoves
<1>3. CASE InsertJob
  <2>1. inserted + 1 \in Jobs /\ Local(inserted + 1)
    BY <1>3, InsertJobMoves
  <2>2. PICK j \in Jobs : j = inserted + 1 /\ Local(j)
    BY <2>1
  <2>3. j > inserted
    BY <2>2 DEF TypeOK
  <2>4. j \notin Ended
    BY <2>3 DEF FlowInv, Ended
  <2>5. UNCHANGED <<ends, resets, errors>> /\ status' = [status EXCEPT ![j] = "queued"]
    BY <1>3, <2>2 DEF InsertJob, TypeOK
  <2>6. j \notin Ended'
    BY <2>5 DEF Ended, TypeOK
  <2>7. EndedJobs' = EndedJobs
    BY <2>2, <2>4, <2>6, LocalMoves DEF Moves
  <2>8. QED
    BY <1>1, <2>5, <2>7
<1>4. ASSUME NEW j \in Jobs, Step(j) \/ UpdateFails(j) \/ Crash(j) \/ RetryJob(j)
      PROVE  EndsInv'
  <2>1. Moves(EndedJobs, EndedJobs', j \in Ended, j \in Ended')
    BY <1>4, LocalSteps, LocalMoves
  <2>2. \/ EndedJobs' = EndedJobs
        \/ EndedJobs' = EndedJobs + 1
        \/ EndedJobs' = EndedJobs - 1
    BY <2>1 DEF Moves
  <2>3. CASE Start(j) \/ Count(j) \/ Judge(j) \/ Callback(j) \/ Crash(j)
    <3>1. UNCHANGED <<ends, resets, errors>>
      BY <2>3 DEF Start, Count, Judge, Callback, Crash
    <3>2. j \in Ended' <=> j \in Ended
      BY <2>3 DEF Start, Count, Judge, Callback, Crash, Ended, TypeOK
    <3>3. EndedJobs' = EndedJobs
      BY <2>1, <3>2 DEF Moves
    <3>4. QED
      BY <1>1, <3>1, <3>3
  <2>4. CASE Execute(j)
    <3>1. UNCHANGED <<resets, errors>> /\ j \notin Ended
      BY <2>4, ExecuteOutcome DEF Ended, FlowInv
    <3>2. \/ j \in Ended' /\ ends' = ends + 1
          \/ j \notin Ended' /\ ends' = ends
      BY <2>4, ExecuteOutcome DEF Ended, Ends, PutBack
    <3>3. \/ EndedJobs' = EndedJobs + 1 /\ ends' = ends + 1
          \/ EndedJobs' = EndedJobs /\ ends' = ends
      BY <2>1, <3>1, <3>2 DEF Moves
    <3>4. QED
      BY <1>1, <3>1, <3>3
  <2>5. CASE UpdateFails(j)
    <3>1. UNCHANGED resets /\ errors' = errors + 1
      BY <2>5, UpdateFailsOutcome
    <3>2. \/ j \in Ended' /\ ends' = ends + 1 /\ j \in Ended
          \/ j \notin Ended' /\ ends' = ends
          \/ (j \in Ended' <=> j \in Ended) /\ ends' = ends
      BY <2>5, UpdateFailsOutcome DEF Ended, Ends, PutBack, FlowInv
    <3>3. \/ EndedJobs' = EndedJobs /\ ends' = ends + 1
          \/ EndedJobs' = EndedJobs - 1 /\ ends' = ends
          \/ EndedJobs' = EndedJobs /\ ends' = ends
      BY <2>1, <3>2 DEF Moves
    <3>4. QED
      BY <1>1, <3>1, <3>3
  <2>6. CASE RetryJob(j)
    <3>1. UNCHANGED <<ends, errors>> /\ resets' = resets + 1 /\ j \notin Ended'
      BY <2>6 DEF RetryJob, TypeOK, Ended
    <3>2. EndedJobs' = EndedJobs \/ EndedJobs' = EndedJobs - 1
      BY <2>1, <3>1 DEF Moves
    <3>3. UNCHANGED <<ends, errors>> /\ resets' = resets + 1
      BY <3>1
    <3>4. QED
      BY <1>1, <3>2, <3>3
  <2>7. QED
    BY <1>4, <2>3, <2>4, <2>5, <2>6 DEF Step
<1>5. QED
  BY <1>2, <1>3, <1>4 DEF Next, Create, Quiet

LEMMA InitCallback == Init => CallbackInv
<1> SUFFICES ASSUME Init PROVE CallbackInv
  OBVIOUS
<1>1. Deciding = {}
  BY DEF Init, Deciding
<1>2. Decisions = 0
  BY <1>1, FS_EmptySet DEF Decisions
<1>3. Sent = 0 /\ Counts = 0
  BY DEF Init, Nothing, Sent, Counts
<1>4. QED
  BY <1>2, <1>3 DEF CallbackInv

LEMMA NextCallback ==
  ASSUME LiveInv, CallbackInv, [Next]_vars
  PROVE  CallbackInv'
<1> USE DEF LiveInv
<1>1. Sent \in Nat /\ Counts \in Nat /\ Decisions \in Nat
  BY NumbersAreNat DEF TypeOK, Sent, Counts
<1>2. CASE UNCHANGED <<Sent, Counts, Decisions>>
  BY <1>1, <1>2 DEF CallbackInv
<1>3. CASE Quiet
  BY <1>2, <1>3, QuietMoves DEF Sent, Counts
<1>4. CASE InsertJob
  <2>1. UNCHANGED <<Sent, Counts, Decisions>>
    BY <1>4 DEF InsertJob, Sent, Counts, Decisions, Deciding, AllDone
  <2>2. QED
    BY <1>2, <2>1
<1>5. ASSUME NEW j \in Jobs, Step(j) \/ UpdateFails(j) \/ Crash(j) \/ RetryJob(j)
      PROVE  CallbackInv'
  <2>1. Moves(Decisions, Decisions', j \in Deciding, j \in Deciding')
    BY <1>5, LocalSteps, LocalMoves
  <2>2. CASE UNCHANGED <<Sent, Counts>> /\ (Decisions' = Decisions \/ Decisions' = Decisions - 1)
    BY <1>1, <2>2 DEF CallbackInv
  <2>3. CASE Start(j) \/ RetryJob(j) \/ Judge(j) \/ Crash(j)
    <3>1. UNCHANGED <<Sent, Counts>>
      BY <2>3 DEF Start, RetryJob, Judge, Crash, Sent, Counts
    <3>2. j \in Deciding' => j \in Deciding
      BY <2>3 DEF Start, RetryJob, Judge, Crash, Leave, Deciding, AllDone, TypeOK
    <3>3. QED
      BY <2>1, <2>2, <3>1, <3>2 DEF Moves
  <2>4. CASE Execute(j) \/ UpdateFails(j)
    <3>1. UNCHANGED <<Sent, Counts>>
      BY <2>4, ExecuteOutcome, UpdateFailsOutcome DEF Sent, Counts
    <3>2. j \notin Deciding'
      BY <2>4, ExecuteOutcome, UpdateFailsOutcome DEF Deciding, Ends, PutBack
    <3>3. QED
      BY <2>1, <2>2, <3>1, <3>2 DEF Moves
  <2>5. CASE Count(j)
    <3>1. UNCHANGED Sent /\ j \notin Deciding
      BY <2>5 DEF Count, Sent, Deciding
    <3>2. Counts' = Counts + 1
      BY <2>5 DEF Count, Counts, TypeOK
    <3>3. j \in Deciding' => Counts' >= Total
      BY <2>5 DEF Count, Counts, Deciding, AllDone, TypeOK
    <3>4. \/ Decisions' = Decisions
          \/ Decisions' = Decisions + 1 /\ Counts' >= Total
      BY <2>1, <3>1, <3>3 DEF Moves
    <3>5. UNCHANGED Sent
      BY <3>1
    <3>6. QED
      BY <1>1, <3>2, <3>4, <3>5 DEF CallbackInv
  <2>6. CASE Callback(j)
    <3>1. UNCHANGED Counts
      BY <2>6 DEF Callback, Counts
    <3>2. j \in Deciding /\ j \notin Deciding'
      BY <2>6 DEF Callback, Leave, Deciding, FlowInv, TypeOK
    <3>3. Sent' = Sent + 1
      BY <2>6 DEF Callback, Sent, FinalStatus, TypeOK
    <3>4. Decisions' = Decisions - 1
      BY <2>1, <3>2 DEF Moves
    <3>5. QED
      BY <1>1, <3>1, <3>3, <3>4 DEF CallbackInv
  <2>7. QED
    BY <1>5, <2>3, <2>4, <2>5, <2>6 DEF Step
<1>6. QED
  BY <1>3, <1>4, <1>5 DEF Next, Create, Quiet

(* As many counts as there are jobs, and as there were retries and errors, *)
(* and a callback from each that has reached the total.                    *)
THEOREM CallbackSentOnce == Spec => []CallbackOnce
<1>1. ASSUME LiveInv, EveryEndCounted, EndsInv, CallbackInv
      PROVE  CallbackOnce
  <2>1. /\ Sent \in Nat /\ Counts \in Nat /\ Decisions \in Nat /\ ends \in Nat
        /\ uncounted \in Nat /\ resets \in Nat /\ errors \in Nat /\ Counting \in Nat
        /\ EndedJobs \in Nat /\ EndedJobs <= Total
    BY <1>1, NumbersAreNat DEF LiveInv, TypeOK, Sent, Counts
  <2>2. Counts + Counting + uncounted = ends
    BY <1>1 DEF EveryEndCounted, Counts
  <2>3. Counts <= Total + resets + errors
    BY <1>1, <2>1, <2>2 DEF EndsInv
  <2>4. Sent <= 1 + resets + errors
    BY <1>1, <2>1, <2>3 DEF CallbackInv
  <2>5. QED
    BY <2>4 DEF CallbackOnce, Sent
<1>2. QED
  BY <1>1, LiveHolds, EndsAreCounted, InitEnds, NextEnds, InitCallback, NextCallback,
     PTL DEF Spec
-----------------------------------------------------------------------------
(* The status.                                                             *)

NoFaults == resets + errors + crashes = 0

LEMMA NoFaultsBefore ==
  ASSUME TypeOK, [Next]_vars, NoFaults'
  PROVE  /\ NoFaults
         /\ \A j \in Jobs : ~UpdateFails(j) /\ ~Crash(j) /\ ~RetryJob(j)
<1>1. resets \in Nat /\ errors \in Nat /\ crashes \in Nat
  BY DEF TypeOK
<1>2. /\ resets' = resets \/ resets' = resets + 1
      /\ errors' = errors \/ errors' = errors + 1
      /\ crashes' = crashes \/ crashes' = crashes + 1
  BY DEF Next, Create, InsertBatch, InsertJob, Refuse, Respond, CancelBatch, CancelJobs, Step,
         Start, Execute, Count, Judge, Callback, UpdateFails, Crash, RetryJob, vars
<1>3. resets' = 0 /\ errors' = 0 /\ crashes' = 0
  BY <1>1, <1>2 DEF NoFaults
<1>4. resets = 0 /\ errors = 0 /\ crashes = 0
  BY <1>1, <1>2, <1>3
<1>5. QED
  BY <1>3, <1>4 DEF NoFaults, UpdateFails, Crash, RetryJob

LEMMA InitAgree == Init => AgreeInv
<1> SUFFICES ASSUME Init PROVE AgreeInv
  OBVIOUS
<1>1. /\ Marked("completed") = {} /\ Marked("dead_letter") = {}
      /\ ToCount("completed") = {} /\ ToCount("failed") = {}
  BY DEF Init, Marked, ToCount
<1>2. Completions = 0 /\ DeadLetters = 0 /\ Gains = 0 /\ Losses = 0
  BY <1>1, FS_EmptySet DEF Completions, DeadLetters, Gains, Losses
<1>3. QED
  BY <1>2 DEF Init, AgreeInv

LEMMA NextAgree ==
  ASSUME LiveInv, AgreeInv, [Next]_vars
  PROVE  AgreeInv'
<1> USE DEF LiveInv
<1> SUFFICES ASSUME NoFaults'
             PROVE  completed' + Gains' = Completions' /\ failed' + Losses' = DeadLetters'
  BY DEF AgreeInv, NoFaults
<1>1. NoFaults /\ \A j \in Jobs : ~UpdateFails(j) /\ ~Crash(j) /\ ~RetryJob(j)
  BY NoFaultsBefore
<1>2. /\ completed \in Nat /\ failed \in Nat
      /\ Gains \in Nat /\ Losses \in Nat /\ Completions \in Nat /\ DeadLetters \in Nat
      /\ completed + Gains = Completions /\ failed + Losses = DeadLetters
  BY <1>1, NumbersAreNat DEF TypeOK, AgreeInv, NoFaults
<1>3. CASE UNCHANGED <<completed, failed, Gains, Losses, Completions, DeadLetters>>
  BY <1>2, <1>3
<1>4. CASE Quiet
  BY <1>3, <1>4, QuietMoves
<1>5. CASE InsertJob
  <2>1. inserted + 1 \in Jobs /\ Local(inserted + 1)
    BY <1>5, InsertJobMoves
  <2>2. PICK j \in Jobs : j = inserted + 1 /\ Local(j)
    BY <2>1
  <2>3. j > inserted
    BY <2>2 DEF TypeOK
  <2>4. j \notin Marked("completed") /\ j \notin Marked("dead_letter")
    BY <2>3 DEF FlowInv, Marked
  <2>5. /\ UNCHANGED <<completed, failed, pc, outcome>>
        /\ status' = [status EXCEPT ![j] = "queued"]
    BY <1>5, <2>2 DEF InsertJob, TypeOK
  <2>6. j \notin Marked("completed")' /\ j \notin Marked("dead_letter")'
    BY <2>5 DEF Marked, TypeOK
  <2>7. UNCHANGED <<Completions, DeadLetters, Gains, Losses>>
    BY <2>2, <2>4, <2>5, <2>6, LocalMoves DEF Moves, Gains, Losses, ToCount
  <2>8. QED
    BY <1>3, <2>5, <2>7
<1>6. ASSUME NEW j \in Jobs, Step(j)
      PROVE  completed' + Gains' = Completions' /\ failed' + Losses' = DeadLetters'
  <2>1. /\ Moves(Completions, Completions', j \in Marked("completed"), j \in Marked("completed")')
        /\ Moves(DeadLetters, DeadLetters', j \in Marked("dead_letter"), j \in Marked("dead_letter")')
        /\ Moves(Gains, Gains', j \in ToCount("completed"), j \in ToCount("completed")')
        /\ Moves(Losses, Losses', j \in ToCount("failed"), j \in ToCount("failed")')
    BY <1>6, LocalSteps, LocalMoves
  <2>2. CASE Start(j) \/ Judge(j) \/ Callback(j)
    <3>1. UNCHANGED <<completed, failed>>
      BY <2>2 DEF Start, Judge, Callback
    <3>2. /\ j \in Marked("completed") <=> j \in Marked("completed")'
          /\ j \in Marked("dead_letter") <=> j \in Marked("dead_letter")'
          /\ j \in ToCount("completed") <=> j \in ToCount("completed")'
          /\ j \in ToCount("failed") <=> j \in ToCount("failed")'
      BY <2>2 DEF Start, Judge, Callback, Leave, Marked, ToCount, TypeOK
    <3>3. QED
      BY <1>3, <2>1, <3>1, <3>2 DEF Moves
  <2>3. CASE Execute(j)
    <3>1. UNCHANGED <<completed, failed>>
      BY <2>3, ExecuteOutcome
    <3>2. /\ j \notin Marked("completed") /\ j \notin Marked("dead_letter")
          /\ j \notin ToCount("completed") /\ j \notin ToCount("failed")
      BY <2>3, ExecuteOutcome DEF FlowInv, Marked, ToCount
    <3>3. /\ j \in Marked("completed")' <=> j \in ToCount("completed")'
          /\ j \in Marked("dead_letter")' <=> j \in ToCount("failed")'
      BY <2>3, ExecuteOutcome DEF Ends, PutBack, Marked, ToCount
    <3>4. \/ Completions' = Completions + 1 /\ Gains' = Gains + 1
          \/ Completions' = Completions /\ Gains' = Gains
      BY <2>1, <3>2, <3>3 DEF Moves
    <3>5. \/ DeadLetters' = DeadLetters + 1 /\ Losses' = Losses + 1
          \/ DeadLetters' = DeadLetters /\ Losses' = Losses
      BY <2>1, <3>2, <3>3 DEF Moves
    <3>6. QED
      BY <1>2, <3>1, <3>4, <3>5
  <2>4. CASE Count(j)
    <3>1. /\ j \in Marked("completed") <=> j \in Marked("completed")'
          /\ j \in Marked("dead_letter") <=> j \in Marked("dead_letter")'
          /\ j \notin ToCount("completed")' /\ j \notin ToCount("failed")'
      BY <2>4 DEF Count, Marked, ToCount, TypeOK
    <3>2. Completions' = Completions /\ DeadLetters' = DeadLetters
      BY <2>1, <3>1 DEF Moves
    <3>3. CASE outcome[j] = "completed"
      <4>1. completed' = completed + 1 /\ failed' = failed
        BY <1>2, <2>4, <3>3 DEF Count
      <4>2. j \in ToCount("completed") /\ j \notin ToCount("failed")
        BY <2>4, <3>3 DEF Count, ToCount
      <4>3. Gains' = Gains - 1 /\ Losses' = Losses
        BY <2>1, <3>1, <4>2 DEF Moves
      <4>4. QED
        BY <1>2, <3>2, <4>1, <4>3
    <3>4. CASE outcome[j] = "failed"
      <4>1. completed' = completed /\ failed' = failed + 1
        BY <1>2, <2>4, <3>4 DEF Count
      <4>2. j \notin ToCount("completed") /\ j \in ToCount("failed")
        BY <2>4, <3>4 DEF Count, ToCount
      <4>3. Gains' = Gains /\ Losses' = Losses - 1
        BY <2>1, <3>1, <4>2 DEF Moves
      <4>4. QED
        BY <1>2, <3>2, <4>1, <4>3
    <3>5. QED
      BY <2>4, <3>3, <3>4 DEF Count, FlowInv, TypeOK
  <2>5. QED
    BY <1>6, <2>2, <2>3, <2>4 DEF Step
<1>7. QED
  BY <1>1, <1>4, <1>5, <1>6 DEF Next, Create, Quiet

\* An executor that finds all jobs done finds it in counters that are right.
LEMMA JudgedRight ==
  ASSUME LiveInv, AgreeInv, NoFaults, NEW j \in Jobs, AllDone(j)
  PROVE  /\ \A k \in Jobs : status[k] \in {"completed", "dead_letter"}
         /\ FinalStatus(j) = "completed" <=> \A k \in Jobs : status[k] = "completed"
<1> DEFINE C == Marked("completed")
           D == Marked("dead_letter")
<1>1. /\ C \in SUBSET Jobs /\ D \in SUBSET Jobs /\ C \cap D = {}
      /\ IsFiniteSet(C) /\ IsFiniteSet(D)
      /\ Cardinality(C) = Completions /\ Cardinality(D) = DeadLetters
  BY JobsAreFinite DEF Marked, Completions, DeadLetters
<1>2. \A k \in Jobs : (k \in C <=> status[k] = "completed") /\ (k \in D <=> status[k] = "dead_letter")
  BY DEF Marked
<1> HIDE DEF C, D
<1>3. /\ Cardinality(C \cup D) = Cardinality(C) + Cardinality(D) - Cardinality(C \cap D)
      /\ Cardinality(C \cap D) = 0
  BY <1>1, FS_Union, FS_EmptySet
<1>4. /\ Completions \in Nat /\ DeadLetters \in Nat /\ Gains \in Nat /\ Losses \in Nat
      /\ completed \in Nat /\ failed \in Nat
      /\ completed + Gains = Completions /\ failed + Losses = DeadLetters
  BY NumbersAreNat DEF LiveInv, TypeOK, AgreeInv, NoFaults
<1>5. /\ seen[j].completed \in Nat /\ seen[j].failed \in Nat
      /\ seen[j].completed <= completed /\ seen[j].failed <= failed
      /\ seen[j].completed + seen[j].failed >= Total
  BY DEF LiveInv, TypeOK, FlowInv, AllDone
<1>6. /\ seen[j].completed <= Completions /\ seen[j].failed <= DeadLetters
      /\ Completions + DeadLetters >= Total
  BY <1>4, <1>5
<1>7. C \cup D = Jobs
  <2>1. C \cup D \in SUBSET Jobs
    BY <1>1
  <2>2. Cardinality(C \cup D) = Completions + DeadLetters
    BY <1>1, <1>3, <1>4
  <2>3. Cardinality(C \cup D) <= Total
    BY <2>1, JobsAreFinite
  <2>4. Cardinality(C \cup D) = Total
    BY <1>4, <1>6, <2>2, <2>3
  <2>5. QED
    BY <2>1, <2>4, JobsAreFinite, FS_Subset
<1>8. CASE seen[j].failed > 0
  <2>1. DeadLetters # 0
    BY <1>4, <1>5, <1>6, <1>8
  <2>2. D # {}
    BY <1>1, <2>1, FS_EmptySet
  <2>3. FinalStatus(j) # "completed"
    BY <1>8 DEF FinalStatus
  <2>4. QED
    BY <1>1, <1>2, <1>7, <2>2, <2>3
<1>9. CASE ~(seen[j].failed > 0)
  <2>1. Completions >= Total
    BY <1>4, <1>5, <1>6, <1>9
  <2>2. C = Jobs
    BY <1>1, <1>4, <2>1, JobsAreFinite, FS_Subset
  <2>3. FinalStatus(j) = "completed"
    BY <1>9 DEF FinalStatus
  <2>4. QED
    BY <1>1, <1>2, <1>7, <2>2, <2>3
<1>10. QED
  BY <1>8, <1>9

LEMMA NextStatus ==
  ASSUME LiveInv, AgreeInv, StatusAgrees, [Next]_vars
  PROVE  StatusAgrees'
<1> USE DEF LiveInv
<1> SUFFICES ASSUME NoFaults', batchStatus' \in {"completed", "failed"}
             PROVE  StatusAgrees'
  BY DEF StatusAgrees, NoFaults
<1>1. NoFaults /\ \A j \in Jobs : ~UpdateFails(j) /\ ~Crash(j) /\ ~RetryJob(j)
  BY NoFaultsBefore
<1>2. CASE \E j \in Jobs : Judge(j) /\ AllDone(j)
  <2>1. PICK j \in Jobs : Judge(j) /\ AllDone(j)
    BY <1>2
  <2>2. batchStatus' = FinalStatus(j) /\ UNCHANGED status
    BY <2>1 DEF Judge
  <2>3. FinalStatus(j) \in {"completed", "failed"}
    BY DEF FinalStatus
  <2>4. /\ \A k \in Jobs : status[k] \in {"completed", "dead_letter"}
        /\ FinalStatus(j) = "completed" <=> \A k \in Jobs : status[k] = "completed"
    BY <1>1, <2>1, JudgedRight
  <2>5. QED
    BY <2>2, <2>4 DEF StatusAgrees
<1>3. CASE ~\E j \in Jobs : Judge(j) /\ AllDone(j)
  <2>1. UNCHANGED batchStatus
    BY <1>1, <1>3 DEF Next, Create, InsertBatch, InsertJob, Refuse, Respond, CancelBatch, CancelJobs,
                      Step, Start, Execute, Count, Judge, Callback, vars
  <2>2. /\ \A k \in Jobs : status[k] \in {"completed", "dead_letter"}
        /\ batchStatus = "completed" <=> \A k \in Jobs : status[k] = "completed"
    BY <1>1, <2>1 DEF StatusAgrees, NoFaults
  <2>3. ~InsertJob
    <3>1. SUFFICES ASSUME InsertJob PROVE FALSE
      OBVIOUS
    <3>2. inserted + 1 \in Jobs /\ inserted + 1 > inserted
      BY <3>1 DEF InsertJob, TypeOK, Jobs
    <3>3. status[inserted + 1] = "absent"
      BY <3>2 DEF FlowInv
    <3>4. QED
      BY <2>2, <3>2, <3>3
  <2>4. \A k \in Jobs : ~Start(k) /\ ~Execute(k)
    BY <2>2 DEF Start, Execute, FlowInv
  <2>5. status' = status
    <3>1. CASE CancelJobs
      BY <2>2, <3>1 DEF CancelJobs, TypeOK
    <3>2. QED
      BY <1>1, <2>3, <2>4, <3>1
         DEF Next, Create, InsertBatch, Refuse, Respond, CancelBatch, Step, Count, Judge, Callback, vars
  <2>6. QED
    BY <2>1, <2>2, <2>5 DEF StatusAgrees
<1>4. QED
  BY <1>2, <1>3

(* The types, and a final status that is the one of the jobs.              *)
THEOREM StatusIsRight == Spec => []BatchInv
<1>1. Init => StatusAgrees
  BY DEF Init, StatusAgrees
<1>2. LiveInv /\ StatusAgrees => BatchInv
  BY DEF LiveInv, BatchInv
<1>3. QED
  BY <1>1, <1>2, LiveHolds, InitAgree, NextAgree, NextStatus, PTL DEF Spec
=============================================================================
