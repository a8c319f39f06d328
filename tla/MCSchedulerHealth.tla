-------------------------- MODULE MCSchedulerHealth --------------------------
(* SchedulerHealth with two jobs of different intervals.                     *)
EXTENDS SchedulerHealth, TLC

CONSTANTS j1, j2

TolleranzaMC == j1 :> 0 @@ j2 :> 1
=============================================================================
