--------------------------- MODULE MCJobExecution ---------------------------
(* Two slots, one of each process, and one or two jobs that may be
   tried twice. *)
EXTENDS JobExecution, TLC

CONSTANTS w1, w2, s1, s2, j1, j2

TwoProcesses == s1 :> w1 @@ s2 :> w2
TwoAttempts == [j \in Jobs |-> 2]
=============================================================================
