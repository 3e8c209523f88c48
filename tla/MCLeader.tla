------------------------------ MODULE MCLeader ------------------------------
(* Constants for model checking Leader, shared by its runs.                *)
EXTENDS Leader, TLC

CONSTANTS a, b, c, d

FourPods == {a, b, c, d}
=============================================================================
