---------------------------- MODULE MCScheduler -----------------------------
(* Instances of Scheduler for TLC: which cron triggers come, and what the  *)
(* bootstraps are for.                                                     *)
EXTENDS Scheduler, TLC

CONSTANTS B, R

(* Day 1 opens with a recovered 07:30; its reports, its evening and the    *)
(* first runs of the next day follow or do not, queueing for the group,    *)
(* and a rebaseline of the evening races them.                             *)
DayRuns == {5, 6, 7, 8, 11}
DayBoots == (R :> 4 @@ B :> 7)

(* Every run from the first refresh on, and no bootstrap.                  *)
AllRuns == 7 .. (4 * LastDay + 3)
NoBoots == [b \in {} |-> Baseline]
=============================================================================
