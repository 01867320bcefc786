--------------------------- MODULE MCSchedulerTick ---------------------------
(* Two ticks, of servers with different process ids or with the same one, one
   or two cron schedules, and a job scheduled for time 1. *)
EXTENDS SchedulerTick, TLC

CONSTANTS t1, t2, o1, o2

TwoOwners == t1 :> o1 @@ t2 :> o2
OneOwner == t1 :> o1 @@ t2 :> o1
AtOne == [j \in Jobs |-> 1]
=============================================================================
