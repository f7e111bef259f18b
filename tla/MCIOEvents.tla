----------------------------- MODULE MCIOEvents -----------------------------
(* Instances of the event table for TLC.                                   *)
EXTENDS IOEvents

(* The values that the configurations give to Pollers, Callers, Waiters.   *)
CONSTANTS p1, p2, c1, c2, v, w
=============================================================================
