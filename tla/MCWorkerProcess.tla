--------------------------- MODULE MCWorkerProcess ---------------------------
(* Two slots and three jobs, one of which may hang. *)
EXTENDS WorkerProcess, TLC

CONSTANTS j1, j2, j3
MCJobs == {j1, j2, j3}
MCHanging == {j3}
=============================================================================
