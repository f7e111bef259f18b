----------------------------- MODULE MCScheduler -----------------------------
(* Instances of the scheduler for TLC.                                     *)
EXTENDS SchedulerRefinement

(* The threads and the jobs that the configurations choose from.          *)
CONSTANTS w1, w2, main, a, b, c
=============================================================================
