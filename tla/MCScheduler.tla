---------------------------- MODULE MCScheduler ----------------------------
(* Small instances of Scheduler for TLC.                                   *)
EXTENDS Scheduler, TLC

CONSTANTS i1, c1

\* An interval of two clock units and a cron expression with uneven gaps, as
\* across a change of daylight saving time.
MCEvery     == i1 :> 2
MCCronTimes == c1 :> {1, 2, 4, 7, 8}
=============================================================================
