------------------------ MODULE JobDependenciesProofs ------------------------
(***************************************************************************)
(* No job is released ahead of its prerequisites, whatever they are,       *)
(* however many jobs, executions and resets there are, and whichever       *)
(* statements throw, as long as no prerequisite completes or unblocks      *)
(* others while a job that names it is being created.                      *)
(*                                                                         *)
(* The argument: that a prerequisite has completed, that a job was reset,  *)
(* and that all a job waits for has completed, once true stays true        *)
(* (Permit), and a job's status leaves "blocked" or "absent", and the job  *)
(* enters a slot, only with Permit.                                        *)
(***************************************************************************)
EXTENDS JobDependencies, TLAPS

USE JobsAssumption, BoundsAssumption

Done(d) == status[d] = "completed" \/ d \in undone
Permit(j) == Retried(j) \/ \A d \in Required(j) : Done(d)
Created(j) == creation[j] \notin {"new", "checked"}
Released(j) == status[j] \in {"scheduled", "queued", "running", "completed", "dead_letter"}

(* What a request has done so far: no row before InsertJob, the rows of    *)
(* job_dependencies all there when it is done, and what it has read of the *)
(* prerequisites still true of their past.                                 *)
CreationInv ==
  \A j \in Jobs :
    /\ status[j] # "absent" => Created(j)
    /\ attached[j] \subseteq DependsOn[j]
    /\ creation[j] = "done" => attached[j] = DependsOn[j]
    /\ creation[j] # "new" /\ satisfied[j] => \A d \in DependsOn[j] : Done(d)

(* The jobs that are executed, or about to be reset, have been created.    *)
WorkInv ==
  /\ \A j \in Jobs : Released(j) => Permit(j)
  /\ \A s \in Slots : phase[s] # "free" => Created(job[s]) /\ Permit(job[s])
  /\ \A r \in Requests : at[r] # "new" => Created(target[r])
  /\ \A j \in letters : Created(j)

ReleaseInv == TypeOK /\ CreationInv /\ WorkInv

LEMMA InvImplies == ReleaseInv => DependenciesInv
  BY DEF ReleaseInv, WorkInv, DependenciesInv, ReleasedOnlyWhenSatisfied, Released,
         Permit, Done

LEMMA InitInv == Init => ReleaseInv
<1> SUFFICES ASSUME Init PROVE ReleaseInv
  OBVIOUS
<1>1. TypeOK
  BY DEF Init, TypeOK, Statuses
<1>2. CreationInv
  BY DEF Init, CreationInv, Created
<1>3. WorkInv
  BY DEF Init, WorkInv, Released
<1>4. QED
  BY <1>1, <1>2, <1>3 DEF ReleaseInv

(* What every step keeps. *)
Grows ==
  \A j \in Jobs :
    /\ Done(j) => Done(j)'
    /\ Retried(j) => Retried(j)'
    /\ attached[j] \subseteq DependsOn[j] => Required(j)' \subseteq Required(j)
    /\ Created(j) => Created(j)'

LEMMA PermitStays ==
  ASSUME TypeOK, CreationInv, Grows, NEW j \in Jobs, Permit(j)
  PROVE  Permit(j)'
<1>1. Required(j)' \subseteq Required(j) /\ Required(j) \subseteq Jobs
  BY DEF TypeOK, CreationInv, Grows, Required
<1>2. QED
  BY <1>1 DEF Permit, Grows
-----------------------------------------------------------------------------
(* The request that creates a job. *)

LEMMA CreationGrows ==
  ASSUME ReleaseInv, NEW j \in Jobs, Create(j) \/ CreationFails(j)
  PROVE  Grows
<1> USE DEF ReleaseInv
<1>1. \A k \in Jobs : Retried(k) <=> Retried(k)'
  BY DEF Create, CheckDependencies, InsertJob, AttachDependency, Respond, CreationFails,
         Retried, requestVars
<1>2. \A k \in Jobs : Created(k) => Created(k)'
  BY DEF Create, CheckDependencies, InsertJob, AttachDependency, Respond, CreationFails,
         Created, creationVars, TypeOK
<1>3. \A k \in Jobs : Done(k) => Done(k)'
  <2>1. CASE InsertJob(j)
    BY <2>1 DEF InsertJob, CreationInv, Created, Done, TypeOK, historyVars
  <2>2. QED
    BY <2>1 DEF Create, CheckDependencies, AttachDependency, Respond, CreationFails, Done,
                historyVars
<1>4. \A k \in Jobs : attached[k] \subseteq DependsOn[k] => Required(k)' \subseteq Required(k)
  BY DEF Create, CheckDependencies, InsertJob, AttachDependency, Respond, CreationFails,
         Required, creationVars, TypeOK
<1>5. QED
  BY <1>1, <1>2, <1>3, <1>4 DEF Grows

LEMMA CreationTypes ==
  ASSUME ReleaseInv, NEW j \in Jobs, Create(j) \/ CreationFails(j)
  PROVE  TypeOK'
<1> USE DEF ReleaseInv, TypeOK, slotVars, requestVars, historyVars, faultVars, creationVars
<1>1. CASE CheckDependencies(j)
  BY <1>1 DEF CheckDependencies
<1>2. CASE InsertJob(j)
  BY <1>2 DEF InsertJob, InitialStatus, Statuses
<1>3. CASE AttachDependency(j)
  BY <1>3 DEF AttachDependency
<1>4. CASE Respond(j)
  BY <1>4 DEF Respond
<1>5. CASE CreationFails(j)
  BY <1>5 DEF CreationFails, QueryFails
<1>6. QED
  BY <1>1, <1>2, <1>3, <1>4, <1>5 DEF Create

LEMMA CreationKeepsCreationInv ==
  ASSUME ReleaseInv, NEW j \in Jobs, Create(j) \/ CreationFails(j)
  PROVE  CreationInv'
<1>1. Grows
  BY CreationGrows
<1>2. \A k \in Jobs, d \in Jobs : Done(d) => Done(d)'
  BY <1>1 DEF Grows
<1> USE DEF ReleaseInv, TypeOK, CreationInv, Created, historyVars, creationVars
<1>3. CASE CheckDependencies(j)
  BY <1>3, <1>2 DEF CheckDependencies, Done
<1>4. CASE InsertJob(j)
  BY <1>4, <1>2 DEF InsertJob
<1>5. CASE AttachDependency(j)
  BY <1>5, <1>2 DEF AttachDependency
<1>6. CASE Respond(j)
  BY <1>6, <1>2 DEF Respond
<1>7. CASE CreationFails(j)
  BY <1>7, <1>2 DEF CreationFails
<1>8. QED
  BY <1>3, <1>4, <1>5, <1>6, <1>7 DEF Create

\* The status the job is inserted with is one its request has read to be due.
LEMMA CreationKeepsWorkInv ==
  ASSUME ReleaseInv, NEW j \in Jobs, Create(j) \/ CreationFails(j)
  PROVE  WorkInv'
<1>1. Grows
  BY CreationGrows
<1>2. TypeOK /\ CreationInv /\ WorkInv
  BY DEF ReleaseInv
<1>3. \A k \in Jobs : /\ Permit(k) => Permit(k)'
                      /\ Created(k) => Created(k)'
  BY <1>1, <1>2, PermitStays DEF Grows
<1>4. \A k \in Jobs : Released(k)' => Released(k) \/ Permit(k)
  <2>1. CASE InsertJob(j)
    <3>1. ASSUME satisfied[j] PROVE Permit(j)
      BY <1>2, <2>1, <3>1 DEF InsertJob, CreationInv, Permit, Required
    <3>2. Released(j)' => satisfied[j]
      BY <1>2, <2>1 DEF InsertJob, InitialStatus, Released, TypeOK
    <3>3. \A k \in Jobs \ {j} : Released(k)' <=> Released(k)
      BY <1>2, <2>1 DEF InsertJob, Released, TypeOK
    <3>4. QED
      BY <3>1, <3>2, <3>3
  <2>2. QED
    BY <2>1 DEF Create, CheckDependencies, AttachDependency, Respond, CreationFails, Released
<1>5. UNCHANGED <<job, phase, at, target, letters>>
  BY DEF Create, CheckDependencies, InsertJob, AttachDependency, Respond, CreationFails,
         slotVars, requestVars, historyVars
<1>6. \A s \in Slots : phase[s] # "free" => Created(job[s])' /\ Permit(job[s])'
  <2>1. TAKE s \in Slots
  <2>2. HAVE phase[s] # "free"
  <2>3. PICK k \in Jobs : k = job[s]
    BY <1>2, <2>2 DEF TypeOK
  <2>4. Created(k)' /\ Permit(k)'
    BY <1>2, <1>3, <2>2, <2>3 DEF WorkInv
  <2>5. QED
    BY <1>5, <2>3, <2>4 DEF Created, Permit, Retried, Required
<1>7. \A r \in Requests : at[r] # "new" => Created(target[r])'
  BY <1>2, <1>3, <1>5 DEF WorkInv, TypeOK, Created
<1>8. QED
  BY <1>2, <1>3, <1>4, <1>5, <1>6, <1>7 DEF WorkInv, TypeOK
-----------------------------------------------------------------------------
(* The life of the jobs that exist: none leaves "blocked" but with Permit or *)
(* for "failed", and none enters a slot without Permit.                      *)
Moves ==
  /\ UNCHANGED <<attached, creation, satisfied>>
  /\ \A j \in Jobs :
       /\ Done(j) => Done(j)'
       /\ Retried(j) => Retried(j)'
       /\ \/ status'[j] = status[j]
          \/ Created(j) /\ (Permit(j) \/ Retried(j)' \/ status'[j] = "failed")
  /\ \A s \in Slots : phase'[s] # "free" =>
       \/ phase[s] # "free" /\ job'[s] = job[s]
       \/ job'[s] \in Jobs /\ Created(job'[s]) /\ Permit(job'[s])
  /\ \A r \in Requests : at'[r] # "new" =>
       (at[r] # "new" /\ target'[r] = target[r]) \/ Created(target'[r])
  /\ \A j \in letters' : Created(j)

LEMMA MovesInv ==
  ASSUME ReleaseInv, Moves, TypeOK'
  PROVE  ReleaseInv'
<1>1. TypeOK /\ CreationInv /\ WorkInv
  BY DEF ReleaseInv
<1>2. Grows
  BY DEF Moves, Grows, Required, Created
<1>3. \A k \in Jobs : Permit(k) => Permit(k)'
  BY <1>1, <1>2, PermitStays
<1>4. \A k \in Jobs : Created(k)' <=> Created(k)
  BY DEF Moves, Created
<1>5. CreationInv'
  BY <1>1, <1>4 DEF Moves, CreationInv, TypeOK
<1>6. \A k \in Jobs : Released(k)' => Permit(k)'
  <2>1. TAKE k \in Jobs
  <2>2. HAVE Released(k)'
  <2>3. CASE status'[k] = status[k]
    BY <1>1, <1>3, <2>2, <2>3 DEF WorkInv, Released
  <2>4. CASE Permit(k)
    BY <1>3, <2>4
  <2>5. CASE Retried(k)'
    BY <2>5 DEF Permit
  <2>6. status'[k] # "failed"
    BY <2>2 DEF Released
  <2>7. QED
    BY <2>3, <2>4, <2>5, <2>6 DEF Moves
<1>7. \A s \in Slots : phase'[s] # "free" => Created(job[s])' /\ Permit(job[s])'
  <2>1. TAKE s \in Slots
  <2>2. HAVE phase'[s] # "free"
  <2>3. PICK k \in Jobs : k = job'[s] /\ Created(k) /\ Permit(k)
    BY <1>1, <2>2 DEF Moves, WorkInv, TypeOK
  <2>4. Created(k)' /\ Permit(k)'
    BY <1>3, <1>4, <2>3
  <2>5. QED
    BY <2>3, <2>4 DEF Created, Permit, Retried, Required
<1>8. \A r \in Requests : at'[r] # "new" => Created(target[r])'
  BY <1>1 DEF Moves, WorkInv, Created
<1>9. \A j \in letters' : Created(j)'
  BY DEF Moves, Created
<1>10. QED
  BY <1>5, <1>6, <1>7, <1>8, <1>9 DEF ReleaseInv, WorkInv

\* A completed job is remembered when it is undone.
LEMMA SetStatusKeeps ==
  ASSUME TypeOK, NEW j \in Jobs, NEW to \in Statuses, SetStatus(j, to)
  PROVE  /\ \A k \in Jobs : Done(k) => Done(k)'
         /\ \A k \in Jobs \ {j} : status'[k] = status[k]
         /\ status' \in [Jobs -> Statuses] /\ undone' \subseteq Jobs
         /\ status'[j] = to
  BY DEF SetStatus, Done, TypeOK, Statuses

USE DEF requestVars, slotVars, creationVars, faultVars, historyVars

LEMMA TimeMoves ==
  ASSUME ReleaseInv, NEW j \in Jobs, Elapse(j) \/ ReleaseScheduled
  PROVE  Moves /\ TypeOK'
<1>1. TypeOK /\ CreationInv /\ WorkInv
  BY DEF ReleaseInv
<1>2. CASE Elapse(j)
  <2>1. TypeOK'
    BY <1>1, <1>2 DEF Elapse, TypeOK
  <2>2. Moves
    BY <1>1, <1>2 DEF Elapse, Moves, Done, Retried, WorkInv
  <2>3. QED
    BY <2>1, <2>2
<1>3. CASE ReleaseScheduled
  <2>1. TypeOK'
    BY <1>1, <1>3 DEF ReleaseScheduled, TypeOK, Statuses
  <2>2. \A k \in Jobs : \/ status'[k] = status[k]
                        \/ status[k] = "scheduled" /\ Created(k) /\ Permit(k)
    BY <1>1, <1>3 DEF ReleaseScheduled, CreationInv, WorkInv, Released
  <2>3. \A k \in Jobs : Done(k) => Done(k)'
    BY <1>1, <1>3 DEF ReleaseScheduled, Done
  <2>4. Moves
    BY <1>1, <1>3, <2>2, <2>3 DEF ReleaseScheduled, Moves, Retried, WorkInv
  <2>5. QED
    BY <2>1, <2>4
<1>4. QED
  BY <1>2, <1>3

LEMMA ClaimMoves ==
  ASSUME ReleaseInv, NEW j \in Jobs, NEW s \in Slots, Start(s, j)
  PROVE  Moves /\ TypeOK'
<1>1. TypeOK /\ CreationInv /\ WorkInv
  BY DEF ReleaseInv
<1>2. Created(j) /\ Permit(j) /\ SetStatus(j, "running") /\ "running" \in Statuses
  BY <1>1 DEF Start, CreationInv, WorkInv, Released, Statuses
<1>3. /\ \A k \in Jobs : Done(k) => Done(k)'
      /\ \A k \in Jobs \ {j} : status'[k] = status[k]
      /\ status' \in [Jobs -> Statuses] /\ undone' \subseteq Jobs
  BY <1>1, <1>2, SetStatusKeeps
<1>4. TypeOK'
  BY <1>1, <1>3 DEF Start, TypeOK
<1>5. Moves
  BY <1>1, <1>2, <1>3 DEF Start, Moves, Retried, WorkInv, TypeOK
<1>6. QED
  BY <1>4, <1>5

\* The catch block and the completion write the row of a job in a slot.
LEMMA EndMoves ==
  ASSUME ReleaseInv, NEW s \in Slots, MarkCompleted(s) \/ Fail(s)
  PROVE  Moves /\ TypeOK'
<1>1. TypeOK /\ CreationInv /\ WorkInv
  BY DEF ReleaseInv
<1>2. PICK j \in Jobs : j = job[s] /\ Created(j) /\ Permit(j)
  BY <1>1 DEF MarkCompleted, Fail, TypeOK, WorkInv
<1>3. PICK to \in Statuses : SetStatus(j, to)
  BY <1>2 DEF MarkCompleted, Fail, Statuses
<1>4. /\ \A k \in Jobs : Done(k) => Done(k)'
      /\ \A k \in Jobs \ {j} : status'[k] = status[k]
      /\ status' \in [Jobs -> Statuses] /\ undone' \subseteq Jobs
  BY <1>1, <1>3, SetStatusKeeps
<1>5. letters' \subseteq letters \cup {j}
  BY <1>2 DEF MarkCompleted, Fail
<1>6. TypeOK'
  BY <1>1, <1>2, <1>4, <1>5 DEF MarkCompleted, Fail, Reach, Leave, TypeOK
<1>7. Moves
  <2>1. \A t \in Slots : phase'[t] # "free" => phase[t] # "free" /\ job'[t] = job[t]
    BY <1>1 DEF MarkCompleted, Fail, Reach, Leave, TypeOK
  <2>2. \A k \in letters' : Created(k)
    BY <1>1, <1>2, <1>5 DEF WorkInv
  <2>3. UNCHANGED <<attached, creation, satisfied, at, target>>
    BY DEF MarkCompleted, Fail
  <2>4. QED
    BY <1>1, <1>2, <1>4, <2>1, <2>2, <2>3 DEF Moves, Retried, WorkInv
<1>8. QED
  BY <1>6, <1>7

(* A job that is unblocked is not being created any more, so that all the  *)
(* rows of job_dependencies it will have are there for the UPDATE.         *)
LEMMA UnblockMoves ==
  ASSUME ~Overlap, ReleaseInv, NEW s \in Slots, UnblockDependentJobs(s)
  PROVE  Moves /\ TypeOK'
<1>1. TypeOK /\ CreationInv /\ WorkInv
  BY DEF ReleaseInv
<1>2. PICK j \in Jobs : j = job[s]
  BY <1>1 DEF UnblockDependentJobs, TypeOK
<1>3. ASSUME NEW k \in Unblocked(j)
      PROVE  k \in Jobs /\ Created(k) /\ Permit(k) /\ status[k] = "blocked"
  <2>1. /\ k \in Jobs /\ status[k] = "blocked" /\ j \in attached[k]
        /\ \A d \in attached[k] : status[d] = "completed"
    BY DEF Unblocked
  <2>2. j \in DependsOn[k] /\ Created(k)
    BY <1>1, <2>1 DEF CreationInv
  <2>3. creation[k] # "attaching"
    BY <1>2, <2>1, <2>2 DEF UnblockDependentJobs, BeingCreatedOn
  <2>4. Required(k) = attached[k]
    BY <1>1, <2>1, <2>2, <2>3 DEF CreationInv, Created, Required, TypeOK
  <2>5. QED
    BY <2>1, <2>2, <2>4 DEF Permit, Done
<1>4. /\ status' = [k \in Jobs |-> IF k \notin Unblocked(j) THEN status[k]
                                   ELSE IF k \in due THEN "queued" ELSE "scheduled"]
      /\ phase' = [phase EXCEPT ![s] = "ending"] /\ phase[s] = "announcing"
      /\ UNCHANGED <<attached, due, creation, satisfied, job, at, target, letters, undone,
                     lost, cancelled, crashes, errors>>
  BY <1>2 DEF UnblockDependentJobs, Reach
<1>5. TypeOK'
  BY <1>1, <1>4 DEF TypeOK, Statuses
<1>6. \A k \in Jobs : Done(k) => Done(k)'
  BY <1>3, <1>4 DEF Done
<1>7. Moves
  BY <1>1, <1>3, <1>4, <1>6 DEF Moves, Retried, WorkInv, TypeOK
<1>8. QED
  BY <1>5, <1>7

LEMMA LeaveMoves ==
  ASSUME ReleaseInv, NEW s \in Slots, Finish(s) \/ Throw(s) \/ Abandon(s)
  PROVE  Moves /\ TypeOK'
<1>1. TypeOK /\ CreationInv /\ WorkInv
  BY DEF ReleaseInv
<1>2. PICK j \in Jobs : j = job[s]
  BY <1>1 DEF Finish, Throw, Abandon, TypeOK
<1>3. TypeOK'
  BY <1>1, <1>2 DEF Finish, Throw, Abandon, QueryFails, Reach, Leave, TypeOK
<1>4. UNCHANGED <<status, undone, attached, creation, satisfied, at, target, letters>>
  BY DEF Finish, Throw, Abandon
<1>5. \A t \in Slots : phase'[t] # "free" => phase[t] # "free" /\ job'[t] = job[t]
  BY <1>1 DEF Finish, Throw, Abandon, Reach, Leave, TypeOK
<1>6. Moves
  BY <1>1, <1>4, <1>5 DEF Moves, Done, Retried, WorkInv
<1>7. QED
  BY <1>3, <1>6

LEMMA ResetMoves ==
  ASSUME ReleaseInv, NEW r \in Requests, NEW j \in Jobs, CheckReset(r, j) \/ ApplyReset(r)
  PROVE  Moves /\ TypeOK'
<1>1. TypeOK /\ CreationInv /\ WorkInv
  BY DEF ReleaseInv
<1>2. CASE CheckReset(r, j)
  <2>1. Created(j)
    BY <1>1, <1>2 DEF CheckReset, CreationInv, WorkInv
  <2>2. TypeOK'
    BY <1>1, <1>2 DEF CheckReset, TypeOK
  <2>3. Moves
    BY <1>1, <1>2, <2>1 DEF CheckReset, Moves, Done, Retried, WorkInv, TypeOK
  <2>4. QED
    BY <2>2, <2>3
<1>3. CASE ApplyReset(r)
  <2>1. PICK k \in Jobs : k = target[r] /\ Created(k)
    BY <1>1, <1>3 DEF ApplyReset, TypeOK, WorkInv
  <2>2. SetStatus(k, "queued") /\ "queued" \in Statuses
    BY <1>3, <2>1 DEF ApplyReset, Statuses
  <2>3. /\ \A i \in Jobs : Done(i) => Done(i)'
        /\ \A i \in Jobs \ {k} : status'[i] = status[i]
        /\ status' \in [Jobs -> Statuses] /\ undone' \subseteq Jobs
    BY <1>1, <2>2, SetStatusKeeps
  <2>4. TypeOK'
    BY <1>1, <1>3, <2>1, <2>3 DEF ApplyReset, TypeOK
  <2>5. Retried(k)' /\ \A i \in Jobs : Retried(i) => Retried(i)'
    BY <1>1, <1>3, <2>1 DEF ApplyReset, Retried, TypeOK
  <2>6. Moves
    BY <1>1, <1>3, <2>1, <2>3, <2>5 DEF ApplyReset, Moves, WorkInv, TypeOK
  <2>7. QED
    BY <2>4, <2>6
<1>4. QED
  BY <1>2, <1>3

LEMMA CancelMoves ==
  ASSUME ReleaseInv, NEW j \in Jobs, Cancel(j)
  PROVE  Moves /\ TypeOK'
<1>1. TypeOK /\ CreationInv /\ WorkInv
  BY DEF ReleaseInv
<1>2. Created(j) /\ SetStatus(j, "failed") /\ "failed" \in Statuses
  BY <1>1 DEF Cancel, CreationInv, Statuses
<1>3. /\ \A k \in Jobs : Done(k) => Done(k)'
      /\ \A k \in Jobs \ {j} : status'[k] = status[k]
      /\ status' \in [Jobs -> Statuses] /\ undone' \subseteq Jobs
      /\ status'[j] = "failed"
  BY <1>1, <1>2, SetStatusKeeps
<1>4. TypeOK'
  BY <1>1, <1>3 DEF Cancel, TypeOK
<1>5. Moves
  BY <1>1, <1>2, <1>3 DEF Cancel, Moves, Retried, WorkInv
<1>6. QED
  BY <1>4, <1>5
-----------------------------------------------------------------------------
LEMMA NextInv == ~Overlap /\ ReleaseInv /\ [Next]_vars => ReleaseInv'
<1> SUFFICES ASSUME ~Overlap, ReleaseInv, [Next]_vars PROVE ReleaseInv'
  OBVIOUS
<1>1. ASSUME NEW j \in Jobs, Create(j) \/ CreationFails(j) PROVE ReleaseInv'
  BY <1>1, CreationTypes, CreationKeepsCreationInv, CreationKeepsWorkInv DEF ReleaseInv
<1>2. ASSUME NEW j \in Jobs, Elapse(j) \/ ReleaseScheduled PROVE ReleaseInv'
  BY <1>2, TimeMoves, MovesInv
<1>3. ASSUME NEW j \in Jobs, NEW s \in Slots, Start(s, j) PROVE ReleaseInv'
  BY <1>3, ClaimMoves, MovesInv
<1>4. ASSUME NEW j \in Jobs, Cancel(j) PROVE ReleaseInv'
  BY <1>4, CancelMoves, MovesInv
<1>5. ASSUME NEW s \in Slots, Execute(s) PROVE ReleaseInv'
  BY <1>5, EndMoves, UnblockMoves, LeaveMoves, MovesInv DEF Execute
<1>6. ASSUME NEW s \in Slots, Throw(s) \/ Abandon(s) PROVE ReleaseInv'
  BY <1>6, LeaveMoves, MovesInv
<1>7. ASSUME NEW r \in Requests, NEW j \in Jobs, CheckReset(r, j) PROVE ReleaseInv'
  BY <1>7, ResetMoves, MovesInv
<1>8. ASSUME NEW r \in Requests, ApplyReset(r) PROVE ReleaseInv'
  <2>1. PICK j \in Jobs : j = target[r]
    BY <1>8 DEF ApplyReset, ReleaseInv, TypeOK
  <2>2. QED
    BY <1>8, <2>1, ResetMoves, MovesInv
<1>9. CASE ReleaseScheduled
  <2>1. PICK j \in Jobs : TRUE
    BY <1>9 DEF ReleaseScheduled, ReleaseInv, TypeOK
  <2>2. QED
    BY <1>2, <1>9, <2>1
<1>10. CASE UNCHANGED vars
  <2>1. TypeOK' /\ Moves
    BY <1>10 DEF vars, TypeOK, Moves, Done, Retried, ReleaseInv, WorkInv
  <2>2. QED
    BY <2>1, MovesInv
<1>11. QED
  BY <1>1, <1>2, <1>3, <1>4, <1>5, <1>6, <1>7, <1>8, <1>9, <1>10 DEF Next

(* No job is scheduled, queued or run before every prerequisite of its     *)
(* request (of those attached, when the request failed half way) has       *)
(* completed, unless an operator resets it, for any number of executions,  *)
(* resets, crashes and errors, those after a completion included, which    *)
(* take a prerequisite out of "completed" again.  The prerequisites must   *)
(* not complete or unblock others while the job is being created, which    *)
(* jobs.routes.ts leaves to chance.                                        *)
THEOREM ReleasedInOrder ==
  ASSUME ~Overlap
  PROVE  Spec => []DependenciesInv
<1>1. ReleaseInv /\ [Next]_vars => ReleaseInv'
  BY NextInv
<1>2. QED
  BY InitInv, InvImplies, <1>1, PTL DEF Spec
=============================================================================
