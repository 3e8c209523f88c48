---------------------------- MODULE MCStackOwner ----------------------------
(* Constants for model checking StackOwner.                                *)
EXTENDS StackOwner

CONSTANTS v1, v2, u1, u2

TwoSpecs == {v1, v2}

(* An owner, and the one of the same name before it. *)
TwoUids == {u1, u2}
=============================================================================
