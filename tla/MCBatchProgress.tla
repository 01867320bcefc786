--------------------------- MODULE MCBatchProgress ---------------------------
(* A batch of two jobs that may be tried twice; the second may be refused. *)
EXTENDS BatchProgress, TLC
=============================================================================
