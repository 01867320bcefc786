--------------------------- MODULE DistributedLock ---------------------------
(***************************************************************************)
(* src/server/src/engine/distributedLock.ts: the rows of distributed_locks *)
(* as a map from key to owner.  Each operation is one SQL statement and so *)
(* one step.  An owner may take its own lock again, and one release then   *)
(* gives it up.  Expiry is the passing of the time to live: a row whose    *)
(* expires_at has passed stays in the table until someone takes it over.   *)
(***************************************************************************)
CONSTANTS Keys, Owners, NoOwner

VARIABLES
  holder,   \* owner_id of each key's row, NoOwner when there is no row
  expired   \* keys whose row has expires_at <= now()

lockVars == <<holder, expired>>

LockTypeOK == /\ holder \in [Keys -> Owners \cup {NoOwner}]
              /\ expired \subseteq {k \in Keys : holder[k] # NoOwner}

LockInit == holder = [k \in Keys |-> NoOwner] /\ expired = {}

\* Mutant: ON CONFLICT DO UPDATE without its WHERE.
CanAlwaysAcquire(k, o) == TRUE

\* The WHERE of ON CONFLICT DO UPDATE, or no conflict.
CanAcquire(k, o) == holder[k] \in {NoOwner, o} \/ k \in expired

Acquire(k, o) == /\ CanAcquire(k, o)
                 /\ holder' = [holder EXCEPT ![k] = o]
                 /\ expired' = expired \ {k}

\* DELETE ... WHERE lock_key AND owner_id: nothing happens to another's row.
Release(k, o) == IF holder[k] = o
                 THEN /\ holder' = [holder EXCEPT ![k] = NoOwner]
                      /\ expired' = expired \ {k}
                 ELSE UNCHANGED lockVars

Expire(k) == /\ holder[k] # NoOwner /\ k \notin expired
             /\ expired' = expired \cup {k}
             /\ UNCHANGED holder
=============================================================================
