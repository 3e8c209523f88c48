---------------------------- MODULE MCBuildSteps ----------------------------
(* Constants for model checking BuildSteps, shared by its runs.            *)
EXTENDS BuildSteps

CONSTANTS s1, s2, p1, x, z, v1, v2

AbsentObject == [uid |-> 0]

B(name, content) == [name |-> name, content |-> content]

OneStep     == {s1}
TwoSteps    == {s1, s2}
OnePipeline == {p1}

(* s1's build x: an edit may change what it does, but not its name. *)
EditedBuilds == s1 :> {<<B(x, v1)>>, <<B(x, v2)>>}
PlainBuilds  == s1 :> {<<B(x, v1)>>}

(* Two steps with a build of their own each, which carries their name, and *)
(* one whose name they share.                                              *)
BuildPerStep == [s \in TwoSteps |-> {<<B(x, s), B(s, v1)>>}]
StepSymmetry == Permutations(TwoSteps)

(* The pipeline is created without builds, or with one of the user's own.  *)
NoBuilds  == {<<>>}
OwnBuilds == {<<B(z, v1)>>}
=============================================================================
