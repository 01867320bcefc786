----------------------------- MODULE MCDashboard -----------------------------
(* The views that depend on one another together, the others by themselves. *)
EXTENDS Dashboard

Slice(v, n, c, l, f) == [views |-> v, changes |-> n, clicks |-> c, logins |-> l, failures |-> f]

MCSlices ==
  {Slice({"projects", "queues", "stats"}, 2, 2, 1, 0),
   Slice({"projects", "queues", "stats"}, 1, 1, 2, 1),
   Slice({"jobs", "batches"}, 2, 2, 2, 1),
   Slice({"details"}, 1, 3, 1, 1),
   Slice({"workers", "dlq"}, 2, 2, 2, 1),
   Slice({"events"}, 2, 1, 1, 1),
   Slice({"events"}, 1, 1, 2, 1)}
=============================================================================
