---------------------------- MODULE MCScheduler ----------------------------
(***************************************************************************)
(* Two persistent jobs, one of each overlap policy, and for the runs that   *)
(* are not about reloads a third job that is not persistent.                *)
(***************************************************************************)
EXTENDS Scheduler

CONSTANTS sync, sweep, ping

MCJobs == {sync, sweep}
MCAllJobs == {sync, sweep, ping}
MCSkips == {sweep}
MCMaximumAttempts == [j \in Jobs |-> IF j = sync THEN 2 ELSE 1]
=============================================================================
