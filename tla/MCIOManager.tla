----------------------------- MODULE MCIOManager -----------------------------
(* Instances of the scheduler with IOManager's idle threads for TLC.       *)
EXTENDS IOManager

(* The threads and the jobs that the configurations choose from.          *)
CONSTANTS w1, w2, main, a, b, c
=============================================================================
