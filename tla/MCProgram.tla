----------------------------- MODULE MCProgram -----------------------------
(* Instances of the program with threads for TLC.                          *)
EXTENDS Program

CONSTANTS t1, t2
=============================================================================
