----------------------------- MODULE MCOperator -----------------------------
(* Constants for model checking Operator.                                  *)
EXTENDS Operator

CONSTANTS a, b, repo

TwoPods == {a, b}

Component == [labelled |-> TRUE, images |-> << <<Scheme, repo>>, <<repo>> >>, status |-> FALSE]

(* A pod of a component, and one without the labels. *)
SomeWorkloads == {Component, [Component EXCEPT !.labelled = FALSE]}

TwoZones == {<<"eu-west-1", "a">>, <<"us-east-1", "b">>}

EuWest1 == <<"eu-west-1">>
=============================================================================
