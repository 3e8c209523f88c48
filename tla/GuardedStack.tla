---------------------------- MODULE GuardedStack ----------------------------
(***************************************************************************)
(* What the PolarisStack controller promises about one object and its      *)
(* CloudFormation stack, without saying how: no queue, no cache, no worker *)
(* and no failures.  The object guards the stack while the API server      *)
(* holds the finalizer polaris.cleanup.aws.stack on it.                    *)
(***************************************************************************)

VARIABLES
    claim,    \* the object: "none", "wanted" or "deleting"
    guarded,  \* it holds the stack finalizer
    stack     \* "none", "standing", "rolledback" or "going"

vars == <<claim, guarded, stack>>

TypeOK ==
    /\ claim \in {"none", "wanted", "deleting"}
    /\ guarded \in BOOLEAN
    /\ stack \in {"none", "standing", "rolledback", "going"}

Init ==
    /\ claim = "none"
    /\ guarded = FALSE
    /\ stack = "none"

(* A user creates the object. *)
Claim ==
    /\ claim = "none"
    /\ claim' = "wanted"
    /\ UNCHANGED <<guarded, stack>>

(* A user deletes it: what guards a stack stays until it is released. *)
Abandon ==
    /\ claim = "wanted"
    /\ claim' \in {"none", "deleting"}
    /\ guarded => claim' = "deleting"
    /\ UNCHANGED <<guarded, stack>>

(* A stack is created, perhaps for an object that has just been deleted. *)
Build ==
    /\ stack = "none"
    /\ stack' = "standing"
    /\ UNCHANGED <<claim, guarded>>

(* The guard is set for a stack that has been created. *)
Guard ==
    /\ claim = "wanted"
    /\ stack \in {"standing", "rolledback"}
    /\ guarded' = TRUE
    /\ UNCHANGED <<claim, stack>>

RollBack ==
    /\ stack = "standing"
    /\ stack' = "rolledback"
    /\ UNCHANGED <<claim, guarded>>

(* A stack is torn down when nobody wants it, or to be built again. *)
TearDown ==
    /\ \/ stack = "standing" /\ claim # "wanted"
       \/ stack = "rolledback"
    /\ stack' = "going"
    /\ UNCHANGED <<claim, guarded>>

Vanish ==
    /\ stack = "going"
    /\ stack' = "none"
    /\ UNCHANGED <<claim, guarded>>

(* The guard is dropped once the teardown has begun, with the object when  *)
(* nothing else holds it.                                                  *)
Release ==
    /\ stack \in {"none", "going"}
    /\ guarded' = FALSE
    /\ claim' \in {claim} \cup (IF claim = "deleting" THEN {"none"} ELSE {})
    /\ UNCHANGED stack

Next ==
    \/ Claim \/ Abandon
    \/ Build \/ Guard \/ RollBack
    \/ TearDown \/ Vanish \/ Release

Spec == Init /\ [][Next]_vars
=============================================================================
