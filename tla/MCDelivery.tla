----------------------------- MODULE MCDelivery -----------------------------
(* Constants for model checking Delivery.                                  *)
EXTENDS Delivery

CONSTANTS s1, s2

OneStep  == {s1}
TwoSteps == {s1, s2}
=============================================================================
