------------------------------- MODULE MCSfQueue ------------------------------
(* SfQueue with model values, for TLC. *)
EXTENDS SfQueue

CONSTANTS t1, t2, a, b
===============================================================================
