----------------------------- MODULE MCGlfRingUse -----------------------------
(* GlfRingUse with model values, for TLC. *)
EXTENDS GlfRingUse, TLC

CONSTANTS t1, t2, t3

Symmetry == Permutations(Threads)
===============================================================================
