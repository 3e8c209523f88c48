----------------------- MODULE PolarisStackRefinement -----------------------
(***************************************************************************)
(* PolarisStack implements GuardedStack: an initial state maps to an       *)
(* initial state, and each step to a step of GuardedStack or to none.      *)
(* Steps that change the stored object (UserStepsMap, UpdateMaps) and      *)
(* steps that change the stack (StackStepsMap) are disjoint.               *)
(***************************************************************************)
EXTENDS PolarisStackProofs

LEMMA AbstractInit == Init => Abstract!Init
<1>1. Init => obj = NoObject /\ cf = NoStack
  BY DEF Init
<1> QED
  BY <1>1 DEF Abstract!Init, Claim, StackPhase, StackStanding, Holds, Exists

(* The refinement mapping, read off the stored object and the stack. *)
LEMMA ClaimOf ==
  /\ ~Exists(obj) => Claim = "none"
  /\ Exists(obj) /\ obj.deleting => Claim = "deleting"
  /\ Exists(obj) /\ ~obj.deleting => Claim = "wanted"
BY DEF Claim

LEMMA PhaseOf ==
  /\ cf = NoStack => StackPhase = "none"
  /\ cf # NoStack /\ cf.status \notin Standing => StackPhase = "going"
  /\ cf # NoStack /\ cf.status = "ROLLBACK_COMPLETE" => StackPhase = "rolledback"
  /\ StackStanding /\ cf.status # "ROLLBACK_COMPLETE" => StackPhase = "standing"
BY DEF StackPhase, StackStanding, Standing, StackStatus, InProgress

LEMMA PhaseOfNext ==
  /\ cf' = NoStack => StackPhase' = "none"
  /\ cf' # NoStack /\ cf'.status \notin Standing => StackPhase' = "going"
  /\ cf' # NoStack /\ cf'.status = "ROLLBACK_COMPLETE" => StackPhase' = "rolledback"
  /\ StackStanding' /\ cf'.status # "ROLLBACK_COMPLETE" => StackPhase' = "standing"
BY DEF StackPhase, StackStanding, Standing, StackStatus, InProgress

LEMMA ClaimOfNext ==
  /\ ~Exists(obj') => Claim' = "none"
  /\ Exists(obj') /\ obj'.deleting => Claim' = "deleting"
  /\ Exists(obj') /\ ~obj'.deleting => Claim' = "wanted"
BY DEF Claim, Exists

(* A user's step, seen in GuardedStack. *)
LEMMA UserStepsMap ==
  ASSUME Inv, UNCHANGED cf,
         \/ \E t \in Templates : UserCreate(t) \/ UserEdit(t)
         \/ UserDelete
  PROVE  [Abstract!Next]_(Abstract!vars)
<1>0. StackPhase' = StackPhase
  BY DEF StackPhase, StackStanding
<1>1. ASSUME NEW t \in Templates, UserCreate(t) PROVE Abstract!Claim
  <2>1. /\ obj = NoObject
        /\ obj' # NoObject
        /\ obj'.deleting = FALSE
        /\ obj'.finalizers = {}
    <3>1. /\ obj = NoObject
          /\ obj' = [template |-> t, deleting |-> FALSE, finalizers |-> {},
                     named |-> FALSE, status |-> ""]
      BY <1>1 DEF UserCreate, Stored
    <3>2. obj' \in Object
      BY <3>1 DEF Object
    <3> QED
      BY <3>1, <3>2, Absent
  <2> QED
    BY <1>0, <2>1, ClaimOf, ClaimOfNext DEF Abstract!Claim, Holds, Exists
<1>2. ASSUME NEW t \in Templates, UserEdit(t) PROVE UNCHANGED Abstract!vars
  <2>1. obj \in Object /\ obj' = [obj EXCEPT !.template = t]
    BY <1>2 DEF UserEdit, Stored, Inv, TypeOK
  <2>2. /\ obj # NoObject
        /\ obj' # NoObject
        /\ obj'.deleting = obj.deleting
        /\ obj'.finalizers = obj.finalizers
    BY <2>1, FieldsKept, ObjectUpdates, Absent, ZenonT(60)
  <2> QED
    BY <1>0, <2>2, ClaimOf, ClaimOfNext DEF Abstract!vars, Holds, Exists
<1>3. CASE UserDelete
  <2>1. obj \in Object /\ obj # NoObject /\ ~obj.deleting
    BY <1>3 DEF UserDelete, Inv, TypeOK
  <2>2. CASE obj.finalizers = {}
    <3>1. obj' = NoObject
      BY <1>3, <2>2 DEF UserDelete, Stored
    <3> QED
      BY <1>0, <2>1, <2>2, <3>1, ClaimOf, ClaimOfNext
      DEF Abstract!Next, Abstract!Abandon, Holds, Exists
  <2>3. CASE obj.finalizers # {}
    <3>1. obj' = [obj EXCEPT !.deleting = TRUE]
      BY <1>3, <2>3 DEF UserDelete, Stored
    <3>2. obj' # NoObject /\ obj'.deleting /\ obj'.finalizers = obj.finalizers
      BY <2>1, <3>1, FieldsKept, ObjectUpdates, Absent
    <3> QED
      BY <1>0, <2>1, <3>2, ClaimOf, ClaimOfNext
      DEF Abstract!Next, Abstract!Abandon, Holds, Exists
  <2> QED
    BY <2>2, <2>3
<1> QED
  BY <1>1, <1>2, <1>3 DEF Abstract!Next

(* The Update that ends a pass: a guard set, a guard dropped, or neither. *)
LEMMA UpdateMaps ==
  ASSUME Inv, UNCHANGED cf, pc = "write", UpdateApplied
  PROVE  [Abstract!Next]_(Abstract!vars)
<1>1. /\ StackPhase' = StackPhase
      /\ StackStanding' <=> StackStanding
  BY DEF StackPhase, StackStanding
<1>2. /\ inst \in Object
      /\ inst # NoObject
      /\ instCurrent
      /\ Exists(obj)
      /\ inst.deleting = obj.deleting
      /\ cf \in Stack \cup {NoStack}
  BY Absent DEF Inv, TypeOK, Steps, UpdateApplied, Updatable, Consistent, CopiesAgree
<1>3. /\ Holds(obj, StackFinalizer) /\ StackFinalizer \notin inst.finalizers
            => ~StackStanding
      /\ ~Holds(obj, StackFinalizer) /\ StackFinalizer \in inst.finalizers
            => StackStanding /\ ~inst.deleting
      /\ inst.deleting => ~StackStanding
  BY <1>2 DEF Inv, Consistent, FinalizerFollowsStack, StaleMarkHarmless, Steps
<1>4. /\ StackStanding => StackPhase \in {"standing", "rolledback"}
      /\ ~StackStanding => StackPhase \in {"none", "going"}
  BY PhaseOf DEF StackStanding
<1>5. CASE obj' = NoObject
  <2>1. inst.deleting
    BY <1>2, <1>5 DEF UpdateApplied
  <2>2. Abstract!Release
    BY <1>1, <1>2, <1>3, <1>4, <1>5, <2>1, ClaimOf, ClaimOfNext
    DEF Abstract!Release, Holds, Exists
  <2> QED
    BY <2>2 DEF Abstract!Next
<1>6. CASE obj' = inst
  <2>1. Claim' = Claim /\ Exists(obj')
    BY <1>2, <1>6, ClaimOf, ClaimOfNext DEF Exists
  <2>2. CASE Holds(obj, StackFinalizer) /\ StackFinalizer \notin inst.finalizers
    BY <1>1, <1>3, <1>4, <1>6, <2>1, <2>2 DEF Abstract!Next, Abstract!Release, Holds
  <2>3. CASE ~Holds(obj, StackFinalizer) /\ StackFinalizer \in inst.finalizers
    <3>1. Claim = "wanted"
      BY <1>2, <1>3, <2>3, ClaimOf
    <3> QED
      BY <1>1, <1>3, <1>4, <1>6, <2>1, <2>3, <3>1 DEF Abstract!Next, Abstract!Guard, Holds
  <2>4. CASE Holds(obj, StackFinalizer) <=> StackFinalizer \in inst.finalizers
    BY <1>1, <1>6, <2>1, <2>4 DEF Abstract!vars, Holds
  <2> QED
    BY <2>2, <2>3, <2>4
<1> QED
  BY <1>5, <1>6 DEF UpdateApplied

(* CloudFormation's own steps and the calls that change a stack.           *)
LEMMA StackStepsMap ==
  ASSUME Inv, Inv', [Next]_vars, UNCHANGED obj
  PROVE  [Abstract!Next]_(Abstract!vars)
<1>0. /\ Claim' = Claim
      /\ Holds(obj, StackFinalizer)' = Holds(obj, StackFinalizer)
  BY DEF Claim, Holds, Exists
<1>1. /\ cf \in Stack \cup {NoStack}
      /\ cf' \in Stack \cup {NoStack}
      /\ TypeOK /\ TypeOK'
  BY DEF Inv, TypeOK
<1> USE <1>0
<1>2. CASE UNCHANGED cf
  BY <1>2 DEF Abstract!vars, StackPhase, StackStanding
<1>3. CASE CreateStack \/ CreateStackFails
  <2>1. CASE UNCHANGED cf
    BY <1>2, <2>1
  <2>2. CASE cf = NoStack /\ cf' = NewStack(inst.template)
    <3>1. cf' # NoStack /\ cf'.status = "CREATE_IN_PROGRESS"
      <4>1. inst \in Object
        BY <1>3 DEF CreateStack, CreateStackFails, Inv, TypeOK, Steps
      <4>2. cf' \in Stack
        BY <2>2, <4>1, NewStackIsStack, Fields
      <4> QED
        BY <2>2, <4>2, Absent DEF NewStack
    <3>2. StackPhase = "none" /\ StackPhase' = "standing"
      BY <2>2, <3>1, PhaseOf, PhaseOfNext
      DEF StackStanding, Standing, StackStatus, InProgress
    <3> QED
      BY <3>2 DEF Abstract!Next, Abstract!Build
  <2> QED
    BY <1>3, <2>1, <2>2 DEF CreateStack, CreateStackFails
<1>4. CASE UpdateStack \/ UpdateStackFails
  <2>1. CASE UNCHANGED cf
    BY <1>2, <2>1
  <2>2. CASE /\ cf # NoStack
             /\ cf.status = "COMPLETE"
             /\ cf' = [cf EXCEPT !.status = "UPDATE_IN_PROGRESS",
                                 !.target = inst.template]
    <3>1. inst.template \in Templates /\ cf \in Stack
      BY <1>1, <1>4, <2>2, Fields DEF UpdateStack, UpdateStackFails, Inv, TypeOK, Steps
    <3>2. cf' # NoStack /\ cf'.status = "UPDATE_IN_PROGRESS"
      <4>1. "UPDATE_IN_PROGRESS" \in StackStatus
        BY DEF StackStatus, InProgress
      <4>2. cf' \in Stack
        BY ONLY <2>2, <3>1, <4>1, StackUpdates
      <4> QED
        BY ONLY <2>2, <3>1, <4>2, StatusSet, Absent
    <3>3. StackPhase = "standing" /\ StackPhase' = "standing"
      BY <2>2, <3>2, PhaseOf, PhaseOfNext
      DEF StackStanding, Standing, StackStatus, InProgress
    <3> QED
      BY <3>3 DEF Abstract!vars
  <2> QED
    BY <1>4, <2>1, <2>2 DEF UpdateStack, UpdateStackFails
<1>5. CASE DeleteStack \/ DeleteStackFails
  <2>1. CASE UNCHANGED cf
    BY <1>2, <2>1
  <2>2. CASE cf # NoStack /\ cf' = [cf EXCEPT !.status = "DELETE_IN_PROGRESS"]
    <3>1. cf' # NoStack /\ cf'.status = "DELETE_IN_PROGRESS"
      <4>1. cf \in Stack /\ cf.template \in Templates
        BY <1>1, <2>2, Fields
      <4>2. "DELETE_IN_PROGRESS" \in StackStatus
        BY DEF StackStatus, InProgress
      <4>3. cf' \in Stack
        BY ONLY <2>2, <4>1, <4>2, StackUpdates
      <4> QED
        BY ONLY <2>2, <4>1, <4>3, StatusSet, Absent
    <3>2. StackPhase' = "going"
      BY <3>1, PhaseOfNext DEF Standing
    <3>3. CASE ~StackStanding
      <4>1. StackPhase = "going"
        BY <2>2, <3>3, PhaseOf DEF StackStanding
      <4> QED
        BY <3>2, <4>1 DEF Abstract!vars
    <3>4. CASE StackStanding /\ cf.status = "ROLLBACK_COMPLETE"
      <4>1. StackPhase = "rolledback"
        BY <2>2, <3>4, PhaseOf
      <4> QED
        BY <3>2, <4>1 DEF Abstract!Next, Abstract!TearDown
    <3>5. CASE StackStanding /\ cf.status # "ROLLBACK_COMPLETE"
      <4>1. StackPhase = "standing"
        BY <3>5, PhaseOf
      <4>2. ~Exists(obj) \/ obj.deleting
        BY <3>1, <3>5, TeardownIsDueNext DEF TeardownIsDue
      <4>3. Claim # "wanted"
        BY <4>2, ClaimOf
      <4> QED
        BY <3>2, <4>1, <4>3 DEF Abstract!Next, Abstract!TearDown
    <3> QED
      BY <3>3, <3>4, <3>5
  <2> QED
    BY <1>5, <2>1, <2>2 DEF DeleteStack, DeleteStackFails, StackAfterDelete
<1>6. CASE \/ \E r \in Resources : CloudCreatesResource(r)
           \/ CloudFinishesCreate \/ CloudFailsCreate
           \/ CloudFinishesUpdate \/ CloudFailsUpdate
           \/ CloudFinishesDelete \/ CloudFailsDelete
  <2>1. /\ StackStanding' <=> StackStanding
        /\ cf # NoStack
        /\ cf.status # "ROLLBACK_COMPLETE"
    BY <1>1, <1>6, CloudSteps
  <2>2. CASE StackStanding
    <3>1. StackPhase = "standing"
      BY <2>1, <2>2, PhaseOf
    <3>2. StackPhase' \in {"standing", "rolledback"}
      BY <2>1, <2>2, PhaseOfNext DEF StackStanding
    <3> QED
      BY <3>1, <3>2 DEF Abstract!Next, Abstract!RollBack, Abstract!vars
  <2>3. CASE ~StackStanding
    <3>1. StackPhase = "going"
      BY <2>1, <2>3, PhaseOf DEF StackStanding
    <3>2. StackPhase' \in {"none", "going"}
      BY <2>1, <2>3, PhaseOfNext DEF StackStanding
    <3> QED
      BY <3>1, <3>2 DEF Abstract!Next, Abstract!Vanish, Abstract!vars
  <2> QED
    BY <2>2, <2>3
<1> QED
  BY <1>2, <1>3, <1>4, <1>5, <1>6, StackChanges

LEMMA AbstractNext == Inv /\ Inv' /\ [Next]_vars => [Abstract!Next]_(Abstract!vars)
<1> SUFFICES ASSUME Inv, Inv', [Next]_vars
             PROVE  [Abstract!Next]_(Abstract!vars)
  OBVIOUS
<1>1. CASE UNCHANGED obj
  BY <1>1, StackStepsMap
<1>2. CASE \/ \E t \in Templates : UserCreate(t) \/ UserEdit(t)
           \/ UserDelete
  <2>1. UNCHANGED cf
    BY <1>2 DEF UserCreate, UserEdit, UserDelete, cloud
  <2> QED
    BY <1>2, <2>1, UserStepsMap
<1>3. CASE pc = "write" /\ UpdateApplied /\ UNCHANGED cf
  BY <1>3, UpdateMaps
<1> QED
  BY <1>1, <1>2, <1>3, ObjectChanges

(* The controller, with a stale cache, requeues, conflicting writes and    *)
(* failures, implements the abstract life of an object and its stack.      *)
THEOREM Implementation == Spec => ImplementsGuardedStack
<1>1. Spec => []Inv
  BY InvInit, InvNext, PTL DEF Spec
<1> QED
  BY AbstractInit, AbstractNext, <1>1, PTL DEF Spec, ImplementsGuardedStack, Abstract!Spec
=============================================================================
