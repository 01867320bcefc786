----------------------------- MODULE MCAccounts -----------------------------
(* Two users, registered or not yet, and requests that stand for one another. *)
EXTENDS Accounts, TLC

CONSTANTS u1, u2, r1, r2, r3, r4

MCInitAccounts == {<<>>, u1 :> "p" @@ u2 :> "p"}
Alike == Permutations(Requests)
=============================================================================
