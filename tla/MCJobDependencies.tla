-------------------------- MODULE MCJobDependencies --------------------------
(* Three jobs: b waits for a, and c, which is scheduled for later, for both. *)
EXTENDS JobDependencies, TLC

CONSTANTS a, b, c, r1

Chain == [j \in Jobs |-> CASE j = b -> {a} [] j = c -> {a, b} [] OTHER -> {}]
=============================================================================
