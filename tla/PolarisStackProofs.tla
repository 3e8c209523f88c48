------------------------- MODULE PolarisStackProofs -------------------------
(***************************************************************************)
(* What PolarisStack's runs check on a small instance, proved for every    *)
(* set of templates, buckets, repositories and finalizers and for every    *)
(* number of edits and faults.                                             *)
(*                                                                         *)
(* The argument: Inv is inductive (InvInit, InvNext).  TypeNext shows that *)
(* the variables keep their types, ConsistentNext that the copies of the   *)
(* object (the cache's, the pass's) never disagree with the API server and *)
(* CloudFormation in a way that a later step could act on.  The safety     *)
(* properties follow from Inv at the only steps that could break them.     *)
(***************************************************************************)
EXTENDS PolarisStack, TLAPS

(***************************************************************************)
(* The counters.                                                           *)
(***************************************************************************)
LEMMA BoundsNat == MaxEdits \in Nat /\ MaxFaults \in Nat
BY ConstantsAssumption

LEMMA InitWithinBounds == Init => WithinBounds
<1>1. Init => edits = 0 /\ faults = 0
  BY DEF Init
<1> QED
  BY <1>1, BoundsNat DEF WithinBounds

(* Every action leaves a counter alone or, within its bound, counts it up. *)
LEMMA Counting ==
  [Next]_vars => /\ edits' = edits \/ Edit
                 /\ faults' = faults \/ Fault
BY DEF vars, Next, Environment, Cloud, Reconcile, UserCreate, UserEdit,
       UserDelete, CacheSync, Resync, TimerFires, Dequeue, Crash, Get, GetStack,
       CreateStack, CreateStackFails, UpdateStack, UpdateStackTolerated,
       UpdateStackFails, DescribeResources, DescribeResourcesFails,
       CleanResource, DeleteStack, DeleteStackFails, AfterDeleteError, Update,
       UpdateFails, ReturnError, Return, CloudCreatesResource,
       CloudFinishesCreate, CloudFailsCreate, CloudFinishesUpdate,
       CloudFailsUpdate, CloudFinishesDelete, CloudFailsDelete, WorkloadFills

LEMMA NextWithinBounds == WithinBounds /\ [Next]_vars => WithinBounds'
BY Counting, BoundsNat DEF WithinBounds, Edit, Fault

(***************************************************************************)
(* What the actions write are objects and stacks.                          *)
(***************************************************************************)
LEMMA ObjectUpdates ==
  ASSUME NEW o \in Object
  PROVE  /\ \A t \in Templates : [o EXCEPT !.template = t] \in Object
         /\ [o EXCEPT !.deleting = TRUE] \in Object
         /\ \A f : [o EXCEPT !.finalizers = @ \ {f}] \in Object
         /\ \A s \in StackStatus \cup {""} :
               [o EXCEPT !.named = TRUE, !.status = s] \in Object
BY DEF Object

LEMMA RegisteredIsObject == ASSUME NEW o \in Object PROVE Registered(o) \in Object
<1>1. SpecFinalizers \subseteq Finalizers
  BY ConstantsAssumption
<1> QED
  BY <1>1 DEF Registered, Object

LEMMA StackUpdates ==
  ASSUME NEW s \in Stack, NEW st \in StackStatus, NEW t \in Templates
  PROVE  /\ [s EXCEPT !.status = st] \in Stack
         /\ [s EXCEPT !.status = st, !.target = t] \in Stack
         /\ [s EXCEPT !.status = st, !.target = s.template] \in Stack
         /\ [s EXCEPT !.status = st, !.template = s.target] \in Stack
         /\ \A r \in Resources : [s EXCEPT !.resources = @ \cup {r}] \in Stack
BY DEF Stack, Resources

LEMMA StatusUpdate ==
  \A s \in Stack : \A st \in StackStatus : [s EXCEPT !.status = st] \in Stack
BY DEF Stack

LEMMA ResourceUpdate ==
  \A s \in Stack : \A r \in Resources : [s EXCEPT !.resources = @ \cup {r}] \in Stack
BY DEF Stack

LEMMA NewStackIsStack == \A t \in Templates : NewStack(t) \in Stack
BY DEF NewStack, Stack, StackStatus, InProgress

LEMMA Fields ==
  /\ \A o \in Object : o.template \in Templates
  /\ \A s \in Stack : s.status \in StackStatus /\ s.resources \subseteq Resources
                      /\ s.template \in Templates
BY DEF Object, Stack

(***************************************************************************)
(* Types.                                                                  *)
(***************************************************************************)
LEMMA TypeInit == Init => TypeOK
BY InitWithinBounds DEF Init, TypeOK, Steps, Resources

LEMMA TypeNext == TypeOK /\ [Next]_vars => TypeOK'
<1> SUFFICES ASSUME TypeOK, [Next]_vars PROVE TypeOK'
  OBVIOUS
<1>0. WithinBounds'
  BY NextWithinBounds DEF TypeOK
<1> USE <1>0 DEF TypeOK, Steps, server, queue, instance, cloud
<1>1. ASSUME NEW t \in Templates, UserCreate(t) PROVE TypeOK'
  BY <1>1, ZenonT(60) DEF UserCreate, Stored, Object
<1>2. ASSUME NEW t \in Templates, UserEdit(t) PROVE TypeOK'
  BY <1>2, ObjectUpdates DEF UserEdit, Stored
<1>3. CASE UserDelete
  BY <1>3, ObjectUpdates DEF UserDelete, Stored
<1>4. CASE CacheSync
  BY <1>4 DEF CacheSync
<1>5. CASE Resync
  BY <1>5 DEF Resync
<1>6. CASE TimerFires
  BY <1>6 DEF TimerFires
<1>7. CASE Dequeue
  BY <1>7 DEF Dequeue
<1>8. CASE Crash
  BY <1>8 DEF Crash
<1>9. CASE Get
  BY <1>9 DEF Get, AfterGet
<1>10. CASE GetStack
  BY <1>10, Fields DEF GetStack
<1>11. CASE CreateStack
  BY <1>11, Fields, NewStackIsStack, RegisteredIsObject DEF CreateStack
<1>12. CASE CreateStackFails
  BY <1>12, Fields, NewStackIsStack DEF CreateStackFails, ReturnError, Return
<1>13. CASE UpdateStack
  BY <1>13, Fields, ObjectUpdates, StackUpdates
  DEF UpdateStack, Reported, StackStatus, InProgress
<1>14. CASE UpdateStackTolerated
  BY <1>14, ObjectUpdates DEF UpdateStackTolerated, AfterUpdateError, Reported
<1>15. CASE UpdateStackFails
  <2>1. cf' \in Stack \cup {NoStack}
    <3>1. CASE cf' = cf
      BY <3>1
    <3>2. CASE cf' # cf
      <4>1. /\ cf \in Stack
            /\ cf' = [cf EXCEPT !.status = "UPDATE_IN_PROGRESS",
                                !.target = inst.template]
        BY <1>15, <3>2 DEF UpdateStackFails
      <4> QED
        BY <1>15, <4>1, Fields, StackUpdates
        DEF UpdateStackFails, StackStatus, InProgress
    <3> QED
      BY <3>1, <3>2
  <2> QED
    BY <1>15, <2>1 DEF UpdateStackFails, ReturnError, Return
<1>16. CASE DescribeResources
  BY <1>16, Fields DEF DescribeResources
<1>17. CASE DescribeResourcesFails
  BY <1>17 DEF DescribeResourcesFails, ReturnError, Return
<1>18. ASSUME NEW r \in Resources, CleanResource(r) PROVE TypeOK'
  <2>1. inst \in Object /\ inst' \in Object
    <3>1. inst \in Object
      BY <1>18 DEF CleanResource
    <3>2. \/ inst' = inst
          \/ inst' = [inst EXCEPT !.finalizers = @ \ {CleanupFinalizer(r)}]
      BY <1>18 DEF CleanResource, Cleaned
    <3>3. [inst EXCEPT !.finalizers = @ \ {CleanupFinalizer(r)}] \in Object
      BY <3>1, ObjectUpdates
    <3> QED
      BY <3>1, <3>2, <3>3
  <2>2. contents' \in [Resources -> {"absent", "empty", "full"}]
    BY <1>18 DEF CleanResource
  <2> QED
    BY <1>18, <2>1, <2>2 DEF CleanResource
<1>19. CASE DeleteStack
  BY <1>19, Fields, ObjectUpdates, StackUpdates, ZenonT(60)
  DEF DeleteStack, StackAfterDelete, Released, Reported, StackStatus, InProgress
<1>20. CASE DeleteStackFails
  BY <1>20, Fields, StackUpdates, ZenonT(60)
  DEF DeleteStackFails, StackAfterDelete, AfterDeleteError, ReturnError, Return,
      StackStatus, InProgress
<1>21. CASE Update
  BY <1>21 DEF Update, UpdateApplied, RequeueAfterUpdate, Return
<1>22. CASE UpdateFails
  BY <1>22 DEF UpdateFails, UpdateApplied, ReturnError, Return
<1>23. ASSUME NEW r \in Resources, CloudCreatesResource(r) PROVE TypeOK'
  <2>1. cf \in Stack /\ cf' = [cf EXCEPT !.resources = @ \cup {r}]
    BY <1>23 DEF CloudCreatesResource
  <2>2. cf' \in Stack
    BY <2>1, ResourceUpdate
  <2>3. contents' \in [Resources -> {"absent", "empty", "full"}]
    BY <1>23 DEF CloudCreatesResource
  <2> QED
    BY <1>23, <2>2, <2>3 DEF CloudCreatesResource
<1>24. CASE CloudFinishesCreate
  <2>1. cf \in Stack /\ cf' = [cf EXCEPT !.status = "COMPLETE"]
    BY <1>24 DEF CloudFinishesCreate
  <2>2. cf' \in Stack
    BY <2>1, StatusUpdate DEF StackStatus
  <2> QED
    BY <1>24, <2>2 DEF CloudFinishesCreate
<1>25. CASE CloudFailsCreate
  <2>1. PICK s \in StackStatus : cf \in Stack /\ cf' = [cf EXCEPT !.status = s]
    BY <1>25 DEF CloudFailsCreate, StackStatus
  <2>2. contents' \in [Resources -> {"absent", "empty", "full"}]
    BY <1>25 DEF CloudFailsCreate
  <2>3. cf' \in Stack
    BY <2>1, StatusUpdate
  <2> QED
    BY <1>25, <2>2, <2>3 DEF CloudFailsCreate
<1>26. CASE CloudFinishesUpdate
  <2>1. cf \in Stack /\ cf' = [cf EXCEPT !.status = "COMPLETE", !.template = cf.target]
    BY <1>26 DEF CloudFinishesUpdate
  <2>2. cf' \in Stack
    BY <2>1, Fields, StackUpdates DEF StackStatus
  <2> QED
    BY <1>26, <2>2 DEF CloudFinishesUpdate
<1>27. CASE CloudFailsUpdate
  <2>1. PICK s \in StackStatus :
           cf \in Stack /\ cf' = [cf EXCEPT !.status = s, !.target = cf.template]
    BY <1>27 DEF CloudFailsUpdate, StackStatus
  <2>2. cf' \in Stack
    BY <2>1, Fields, StackUpdates
  <2> QED
    BY <1>27, <2>2 DEF CloudFailsUpdate
<1>28. CASE CloudFinishesDelete
  <2>1. cf' \in Stack \cup {NoStack}
    <3>1. cf \in Stack
      BY <1>28 DEF CloudFinishesDelete
    <3>2. cf' = NoStack \/ cf' = [cf EXCEPT !.status = "DELETE_FAILED"]
      BY <1>28 DEF CloudFinishesDelete
    <3>3. [cf EXCEPT !.status = "DELETE_FAILED"] \in Stack
      BY <3>1, StatusUpdate DEF StackStatus
    <3> QED
      BY <3>2, <3>3
  <2>2. contents' \in [Resources -> {"absent", "empty", "full"}]
    BY <1>28 DEF CloudFinishesDelete
  <2> QED
    BY <1>28, <2>1, <2>2 DEF CloudFinishesDelete
<1>29. CASE CloudFailsDelete
  <2>1. cf \in Stack /\ cf' = [cf EXCEPT !.status = "DELETE_FAILED"]
    BY <1>29 DEF CloudFailsDelete
  <2>2. cf' \in Stack
    BY <2>1, StatusUpdate DEF StackStatus
  <2> QED
    BY <1>29, <2>2 DEF CloudFailsDelete
<1>30. ASSUME NEW r \in Resources, WorkloadFills(r) PROVE TypeOK'
  BY <1>30, ZenonT(60) DEF WorkloadFills
<1>31. CASE UNCHANGED vars
  BY <1>31, ZenonT(60) DEF vars
<1> QED
  BY <1>1, <1>2, <1>3, <1>4, <1>5, <1>6, <1>7, <1>8, <1>9, <1>10, <1>11,
     <1>12, <1>13, <1>14, <1>15, <1>16, <1>17, <1>18, <1>19, <1>20, <1>21,
     <1>22, <1>23, <1>24, <1>25, <1>26, <1>27, <1>28, <1>29, <1>30, <1>31
  DEF Next, Environment, Cloud, Reconcile

(* The variables keep their types: what a pass holds in its variable       *)
(* instance is always a whole object, and only between Get and return.     *)
THEOREM TypeCorrect == Spec => []TypeOK
BY TypeInit, TypeNext, PTL DEF Spec

(***************************************************************************)
(* The inductive invariant.                                                *)
(***************************************************************************)

(* What an update of one field leaves alone. *)
LEMMA FieldsKept ==
  ASSUME NEW o \in Object
  PROVE  /\ \A t : LET n == [o EXCEPT !.template = t]
                   IN  /\ n.deleting = o.deleting
                       /\ n.finalizers = o.finalizers
                       /\ n.named = o.named
         /\ LET n == [o EXCEPT !.deleting = TRUE]
            IN  /\ n.deleting
                /\ n.template = o.template
                /\ n.finalizers = o.finalizers
                /\ n.named = o.named
         /\ \A f : LET n == [o EXCEPT !.finalizers = @ \ {f}]
                   IN  /\ n.deleting = o.deleting
                       /\ n.template = o.template
                       /\ n.finalizers = o.finalizers \ {f}
                       /\ n.named = o.named
         /\ \A s : LET n == [o EXCEPT !.named = TRUE, !.status = s]
                   IN  /\ n.deleting = o.deleting
                       /\ n.template = o.template
                       /\ n.finalizers = o.finalizers
                       /\ n.named
         /\ Registered(o).deleting = o.deleting
         /\ Registered(o).template = o.template
         /\ Registered(o).finalizers = o.finalizers \cup SpecFinalizers
         /\ Registered(o).named
BY DEF Object, Registered

LEMMA StatusSet ==
  ASSUME NEW s \in Stack
  PROVE  /\ \A st : [s EXCEPT !.status = st].status = st
         /\ \A st, t : [s EXCEPT !.status = st, !.target = t].status = st
         /\ \A st, t : [s EXCEPT !.status = st, !.template = t].status = st
         /\ \A R : [s EXCEPT !.resources = R].status = s.status
BY DEF Stack

(* The two model values for "not there" are told from what is there. *)
LEMMA Absent == NoObject \notin Object /\ NoStack \notin Stack
BY ConstantsAssumption

LEMMA InvInit == Init => Inv
BY TypeInit DEF Init, Inv, Consistent, CopiesAgree, MarkedIsHeld, CopiesNamed,
  PathFollowsMark, FinalizerFollowsStack, StaleMarkHarmless, Named, Holds,
  Exists, Steps

(* The cloud's own steps do not start or end the standing of a stack, and  *)
(* never touch one that was rolled back.                                   *)
LEMMA CloudSteps ==
  ASSUME TypeOK, TypeOK',
         \/ \E r \in Resources : CloudCreatesResource(r)
         \/ CloudFinishesCreate \/ CloudFailsCreate
         \/ CloudFinishesUpdate \/ CloudFailsUpdate
         \/ CloudFinishesDelete \/ CloudFailsDelete
  PROVE  /\ UNCHANGED <<server, cache, pc, inst>>
         /\ StackStanding' <=> StackStanding
         /\ cf # NoStack
         /\ cf.status # "ROLLBACK_COMPLETE"
<1>1. /\ UNCHANGED <<server, cache, pc, inst>>
      /\ cf # NoStack
      /\ cf.status # "ROLLBACK_COMPLETE"
  BY DEF instance, CloudCreatesResource, CloudFinishesCreate, CloudFailsCreate,
         CloudFinishesUpdate, CloudFailsUpdate, CloudFinishesDelete,
         CloudFailsDelete
<1>2. cf \in Stack /\ cf' \in Stack \cup {NoStack} /\ NoStack \notin Stack
  BY <1>1, Absent DEF TypeOK
<1>3. ASSUME NEW r \in Resources, CloudCreatesResource(r)
      PROVE  cf' # NoStack /\ cf.status = "CREATE_IN_PROGRESS"
             /\ cf'.status = "CREATE_IN_PROGRESS"
  <2>1. cf' = [cf EXCEPT !.resources = @ \cup {r}]
    BY <1>3 DEF CloudCreatesResource
  <2> QED
    BY <1>2, <1>3, <2>1 DEF CloudCreatesResource, Stack
<1>4. ASSUME CloudFinishesCreate \/ CloudFailsCreate
      PROVE  cf' # NoStack /\ cf.status = "CREATE_IN_PROGRESS"
             /\ cf'.status \in {"COMPLETE", "ROLLBACK_COMPLETE", "ROLLBACK_FAILED"}
  BY <1>2, <1>4 DEF Stack, StackStatus, CloudFinishesCreate, CloudFailsCreate
<1>5. ASSUME CloudFinishesUpdate \/ CloudFailsUpdate
      PROVE  cf' # NoStack /\ cf.status = "UPDATE_IN_PROGRESS"
             /\ cf'.status \in {"COMPLETE", "ROLLBACK_FAILED"}
  <2>1. CASE CloudFinishesUpdate
    BY <1>2, <2>1 DEF Stack, StackStatus, CloudFinishesUpdate
  <2>2. CASE CloudFailsUpdate
    <3>1. PICK s \in {"COMPLETE", "ROLLBACK_FAILED"} :
             cf' = [cf EXCEPT !.status = s, !.target = cf.template]
      BY <2>2 DEF CloudFailsUpdate
    <3>2. cf.status = "UPDATE_IN_PROGRESS"
      BY <2>2 DEF CloudFailsUpdate
    <3> QED
      BY <1>2, <3>1, <3>2 DEF Stack, StackStatus
  <2> QED
    BY <1>5, <2>1, <2>2
<1>6. ASSUME CloudFinishesDelete \/ CloudFailsDelete
      PROVE  cf.status = "DELETE_IN_PROGRESS"
             /\ (cf' = NoStack \/ cf'.status = "DELETE_FAILED")
  BY <1>2, <1>6 DEF Stack, CloudFinishesDelete, CloudFailsDelete
<1>7. StackStanding' <=> StackStanding
  BY <1>1, <1>3, <1>4, <1>5, <1>6
  DEF StackStanding, Standing, StackStatus, InProgress
<1> QED
  BY <1>1, <1>7

LEMMA CloudKeepsConsistent ==
  ASSUME Consistent,
         UNCHANGED <<server, cache, pc, inst>>,
         StackStanding' <=> StackStanding,
         cf # NoStack,
         cf.status # "ROLLBACK_COMPLETE"
  PROVE  Consistent'
BY DEF Consistent, CopiesAgree, MarkedIsHeld, CopiesNamed, PathFollowsMark,
  FinalizerFollowsStack, StaleMarkHarmless, MarkGone, Named, Holds, Exists, server

(* The Update that ends a pass, once the API server has taken it.          *)
LEMMA UpdateKeepsConsistent ==
  ASSUME TypeOK, Consistent, pc = "write", UpdateApplied, ~instCurrent',
         pc' = "idle", UNCHANGED <<cache, cloud>>
  PROVE  Consistent'
<1>1. /\ inst \in Object
      /\ instCurrent
      /\ NoObject \notin Object
      /\ inst.deleting = obj.deleting
      /\ Exists(obj)
  BY Absent DEF TypeOK, Steps, UpdateApplied, Updatable, Consistent, CopiesAgree
<1>2. StackStanding' <=> StackStanding
  BY DEF cloud, StackStanding
<1> USE DEF Consistent, CopiesAgree, MarkedIsHeld, CopiesNamed,
            PathFollowsMark, FinalizerFollowsStack, StaleMarkHarmless,
            MarkGone, Named, Holds, Exists, Steps
<1>3. CASE inst.deleting /\ inst.finalizers = {}
  <2>1. obj' = NoObject
    BY <1>3 DEF UpdateApplied
  <2>2. ~cacheCurrent'
    BY <1>1, <1>3 DEF UpdateApplied
  <2>3. ~StackStanding'
    BY <1>2, <1>3
  <2> QED
    BY <2>1, <2>2, <2>3
<1>4. CASE ~(inst.deleting /\ inst.finalizers = {})
  <2>1. obj' = inst
    BY <1>4 DEF UpdateApplied
  <2>2. cacheCurrent' => cacheCurrent /\ inst = obj
    BY DEF UpdateApplied
  <2>3. MarkGone' <=> MarkGone
    BY <1>1, <2>1
  <2> HIDE DEF MarkGone
  <2> QED
    BY <1>1, <1>2, <1>4, <2>1, <2>2, <2>3
<1> QED
  BY <1>3, <1>4

(* A pass that gives up leaves the object to a later one.                  *)
LEMMA ReturnErrorKeepsConsistent ==
  ASSUME TypeOK, Consistent, UNCHANGED <<obj, cache, cacheCurrent>>,
         ~instCurrent', pc' = "idle", StackStanding' => StackStanding
  PROVE  Consistent'
BY DEF Consistent, CopiesAgree, MarkedIsHeld, CopiesNamed, PathFollowsMark,
  FinalizerFollowsStack, StaleMarkHarmless, MarkGone, Named, Holds, Exists, Steps

LEMMA ConsistentNext == Inv /\ [Next]_vars => Consistent'
<1> SUFFICES ASSUME Inv, [Next]_vars PROVE Consistent'
  OBVIOUS
<1>0. TypeOK /\ TypeOK' /\ Consistent
  BY TypeNext DEF Inv
<1>t. /\ obj \in Object \cup {NoObject}
      /\ cache \in Object \cup {NoObject}
      /\ pc \in Steps \cup {"idle", "get"}
      /\ inst \in IF pc \in Steps THEN Object ELSE {NoObject}
      /\ cf \in Stack \cup {NoStack}
      /\ obj' \in Object \cup {NoObject}
      /\ cf' \in Stack \cup {NoStack}
      /\ NoObject \notin Object
      /\ NoStack \notin Stack
  BY <1>0, Absent DEF TypeOK
<1> USE <1>0, <1>t
    DEF Consistent, CopiesAgree, MarkedIsHeld, CopiesNamed, PathFollowsMark,
        FinalizerFollowsStack, StaleMarkHarmless, MarkGone, StackStanding,
        Standing, StackStatus, InProgress, Holds, Exists, Named, Steps,
        server, queue, instance, cloud
<1>1. ASSUME NEW t \in Templates, UserCreate(t) PROVE Consistent'
  BY <1>1 DEF UserCreate, Stored
<1>2. ASSUME NEW t \in Templates, UserEdit(t) PROVE Consistent'
  <2>1. /\ obj \in Object
        /\ obj' = [obj EXCEPT !.template = t]
    BY <1>2 DEF UserEdit, Stored
  <2>2. /\ obj' \in Object
        /\ obj'.deleting = obj.deleting
        /\ obj'.finalizers = obj.finalizers
        /\ obj'.named = obj.named
    BY <2>1, FieldsKept, ObjectUpdates
  <2>3. StackStanding' <=> StackStanding
    BY <1>2 DEF UserEdit
  <2> HIDE DEF StackStanding
  <2> QED
    BY <1>2, <2>1, <2>2, <2>3 DEF UserEdit, Stored
<1>3. CASE UserDelete
  BY <1>3, FieldsKept, ZenonT(60) DEF UserDelete, Stored
<1>4. CASE CacheSync
  BY <1>4 DEF CacheSync
<1>5. CASE Resync
  BY <1>5 DEF Resync
<1>6. CASE TimerFires
  BY <1>6 DEF TimerFires
<1>7. CASE Dequeue
  BY <1>7 DEF Dequeue
<1>8. CASE Crash
  BY <1>8 DEF Crash
<1>9. CASE Get
  BY <1>9 DEF Get, AfterGet
<1>10. CASE GetStack
  BY <1>10 DEF GetStack
<1>11. CASE CreateStack
  <2>1. inst \in Object /\ inst' = Registered(inst)
    BY <1>11 DEF CreateStack
  <2>2. StackStanding'
    <3>1. cf' = NewStack(inst.template) /\ cf' \in Stack
      BY <1>11, <2>1, NewStackIsStack, Fields DEF CreateStack
    <3> QED
      BY <3>1 DEF NewStack
  <2>3. /\ inst'.deleting = inst.deleting
        /\ inst'.template = inst.template
        /\ inst.finalizers \subseteq inst'.finalizers
        /\ inst'.named
    BY <2>1, FieldsKept
  <2> HIDE DEF StackStanding
  <2> QED
    BY <1>11, <2>2, <2>3 DEF CreateStack
<1>12. CASE CreateStackFails
  BY <1>12 DEF CreateStackFails, NewStack, ReturnError, Return
<1>13. CASE UpdateStack
  BY <1>13, FieldsKept, StatusSet DEF UpdateStack, Reported
<1>14. CASE UpdateStackTolerated
  BY <1>14, FieldsKept DEF UpdateStackTolerated, AfterUpdateError, Reported
<1>15. CASE UpdateStackFails
  BY <1>15, StatusSet DEF UpdateStackFails, ReturnError, Return
<1>16. CASE DescribeResources
  BY <1>16 DEF DescribeResources
<1>17. CASE DescribeResourcesFails
  BY <1>17 DEF DescribeResourcesFails, ReturnError, Return
<1>18. ASSUME NEW r \in Resources, CleanResource(r) PROVE Consistent'
  <2>1. inst \in Object
    BY <1>18 DEF CleanResource
  <2>2. \/ inst' = inst
        \/ inst' = [inst EXCEPT !.finalizers = @ \ {CleanupFinalizer(r)}]
    BY <1>18 DEF CleanResource, Cleaned
  <2>3. CleanupFinalizer(r) # StackFinalizer
    BY DEF CleanupFinalizer, StackFinalizer, BucketsFinalizer, RegistryFinalizer
  <2>4. /\ inst'.deleting = inst.deleting
        /\ inst'.template = inst.template
        /\ inst'.finalizers \subseteq inst.finalizers
        /\ StackFinalizer \in inst.finalizers => StackFinalizer \in inst'.finalizers
        /\ inst'.named = inst.named
    <3>1. CASE inst' = inst
      BY ONLY <3>1
    <3>2. CASE inst' = [inst EXCEPT !.finalizers = @ \ {CleanupFinalizer(r)}]
      <4>1. /\ inst'.deleting = inst.deleting
            /\ inst'.template = inst.template
            /\ inst'.finalizers = inst.finalizers \ {CleanupFinalizer(r)}
            /\ inst'.named = inst.named
        BY ONLY <2>1, <3>2 DEF Object
      <4> QED
        BY ONLY <4>1, <2>3
    <3> QED
      BY ONLY <2>2, <3>1, <3>2
  <2>5. /\ UNCHANGED <<server, cache, pc>>
        /\ pc = "teardown"
        /\ cf' = cf
        /\ StackStanding' <=> StackStanding
    BY <1>18 DEF CleanResource
  <2> HIDE DEF StackStanding
  <2> QED
    BY <2>4, <2>5
<1>19. CASE DeleteStack
  BY <1>19, FieldsKept, StatusSet
  DEF DeleteStack, StackAfterDelete, Released, Reported
<1>20. CASE DeleteStackFails
  <2>1. StackStanding' => StackStanding
    <3>1. CASE cf' = cf
      BY <3>1
    <3>2. CASE cf' = StackAfterDelete
      <4>1. CASE cf = NoStack
        BY <3>2, <4>1 DEF StackAfterDelete
      <4>2. CASE cf \in Stack
        <5>1. cf'.status = "DELETE_IN_PROGRESS"
          BY ONLY <3>2, <4>2, StatusSet, Absent DEF StackAfterDelete
        <5> QED
          BY ONLY <5>1 DEF StackStanding, Standing
      <4> QED
        BY <4>1, <4>2
    <3> QED
      BY ONLY <1>20, <3>1, <3>2 DEF DeleteStackFails
  <2> QED
    BY ONLY <1>0, <1>20, <2>1, ReturnErrorKeepsConsistent
    DEF DeleteStackFails, AfterDeleteError, ReturnError, Return
<1>21. CASE Update
  BY ONLY <1>0, <1>21, UpdateKeepsConsistent DEF Update, Return
<1>22. CASE UpdateFails
  <2>1. CASE UpdateApplied
    BY ONLY <1>0, <1>22, <2>1, UpdateKeepsConsistent
    DEF UpdateFails, ReturnError, Return
  <2>2. CASE UNCHANGED <<obj, cacheCurrent>>
    BY ONLY <1>0, <1>22, <2>2, ReturnErrorKeepsConsistent
    DEF UpdateFails, ReturnError, Return, cloud, StackStanding
  <2> QED
    BY <1>22, <2>1, <2>2 DEF UpdateFails
<1>23. CASE \/ \E r \in Resources : CloudCreatesResource(r)
            \/ CloudFinishesCreate \/ CloudFailsCreate
            \/ CloudFinishesUpdate \/ CloudFailsUpdate
            \/ CloudFinishesDelete \/ CloudFailsDelete
  BY ONLY <1>0, <1>23, CloudSteps, CloudKeepsConsistent
<1>24. ASSUME NEW r \in Resources, WorkloadFills(r) PROVE Consistent'
  BY <1>24 DEF WorkloadFills
<1>25. CASE UNCHANGED vars
  BY <1>25 DEF vars
<1> QED
  BY <1>1, <1>2, <1>3, <1>4, <1>5, <1>6, <1>7, <1>8, <1>9, <1>10, <1>11,
     <1>12, <1>13, <1>14, <1>15, <1>16, <1>17, <1>18, <1>19, <1>20, <1>21,
     <1>22, <1>23, <1>24, <1>25
  DEF Next, Environment, Cloud, Reconcile

LEMMA InvNext == Inv /\ [Next]_vars => Inv'
BY TypeNext, ConsistentNext DEF Inv

(* The cache, the pass under way, the API server and CloudFormation stay   *)
(* consistent: no stale copy can be acted on to the stored object's harm.  *)
THEOREM ConsistentAlways == Spec => []Consistent
<1>1. Inv => Consistent
  BY DEF Inv
<1> QED
  BY InvInit, InvNext, <1>1, PTL DEF Spec


(***************************************************************************)
(* The safety properties.                                                  *)
(***************************************************************************)

(* The only steps that change the stored object. *)
LEMMA ObjectChanges ==
  [Next]_vars =>
     \/ UNCHANGED obj
     \/ \E t \in Templates : UserCreate(t) \/ UserEdit(t)
     \/ UserDelete
     \/ pc = "write" /\ UpdateApplied /\ UNCHANGED cf
BY DEF vars, server, cloud, Next, Environment, Cloud, Reconcile, CacheSync, Resync,
       TimerFires, Dequeue, Crash, Get, GetStack, CreateStack,
       CreateStackFails, UpdateStack, UpdateStackTolerated, UpdateStackFails,
       DescribeResources, DescribeResourcesFails, CleanResource, DeleteStack,
       DeleteStackFails, AfterDeleteError, Update, UpdateFails,
       CloudCreatesResource, CloudFinishesCreate, CloudFailsCreate,
       CloudFinishesUpdate, CloudFailsUpdate, CloudFinishesDelete,
       CloudFailsDelete, WorkloadFills

(* The only steps that end a pass at its final Update. *)
LEMMA PassesEnd ==
  [Next]_vars /\ pc = "write" /\ pc' = "idle" =>
     UNCHANGED obj \/ UpdateApplied
BY DEF vars, server, queue, instance, Next, Environment, Cloud, Reconcile,
       UserCreate, UserEdit, UserDelete, CacheSync, Resync,
       TimerFires, Dequeue, Crash, Get, GetStack, CreateStack,
       CreateStackFails, UpdateStack, UpdateStackTolerated, UpdateStackFails,
       DescribeResources, DescribeResourcesFails, CleanResource, DeleteStack,
       DeleteStackFails, AfterDeleteError, Update, UpdateFails,
       CloudCreatesResource, CloudFinishesCreate, CloudFailsCreate,
       CloudFinishesUpdate, CloudFailsUpdate, CloudFinishesDelete,
       CloudFailsDelete, WorkloadFills

(* deleteStack always has a name to go by when a finalizer holds an object *)
(* back: CreateStack's pass writes both in the same Update.                *)
THEOREM FinalizerImpliesName == Spec => []GuardedIsNamed
<1>1. Inv => GuardedIsNamed
  BY DEF Inv, Consistent, CopiesNamed, Named, GuardedIsNamed
<1> QED
  BY InvInit, InvNext, <1>1, PTL DEF Spec

LEMMA SpecKeptNext == Inv /\ [Next]_vars => SpecKept
<1> SUFFICES ASSUME Inv, [Next]_vars, pc = "write", pc' = "idle", Exists(obj')
             PROVE  /\ Exists(obj)
                    /\ obj'.template = obj.template
                    /\ obj'.deleting = obj.deleting
  BY DEF SpecKept
<1>1. CASE UNCHANGED obj
  BY <1>1 DEF Exists
<1>2. CASE UpdateApplied
  <2>1. instCurrent /\ obj' = inst
    BY <1>2 DEF UpdateApplied, Updatable, Exists
  <2> QED
    BY <2>1 DEF Inv, Consistent, CopiesAgree, Exists
<1> QED
  BY <1>1, <1>2, PassesEnd

(* The Update at the end of a pass never undoes a user's edit or deletion. *)
THEOREM NoLostEdit == Spec => OperatorKeepsSpec
BY InvInit, InvNext, SpecKeptNext, PTL DEF Spec, OperatorKeepsSpec

LEMMA ReleasedNext == Inv /\ [Next]_vars => ReleasedAfterTeardown
<1> SUFFICES ASSUME Inv, [Next]_vars, Releases(StackFinalizer)
             PROVE  ~StackStanding
  BY DEF ReleasedAfterTeardown
<1>1. CASE UNCHANGED obj
  BY <1>1 DEF Releases, Holds, Exists
<1>2. ASSUME NEW t \in Templates, UserCreate(t) PROVE FALSE
  BY <1>2 DEF UserCreate, Releases, Holds, Exists
<1>3. ASSUME NEW t \in Templates, UserEdit(t) PROVE FALSE
  <2>1. obj \in Object /\ obj' = [obj EXCEPT !.template = t]
    BY <1>3 DEF UserEdit, Stored, Inv, TypeOK
  <2>2. obj'.finalizers = obj.finalizers /\ obj' # NoObject
    BY <2>1, FieldsKept, ObjectUpdates, Absent, ZenonT(60)
  <2> QED
    BY <2>2 DEF Releases, Holds, Exists
<1>4. CASE UserDelete
  <2>1. obj \in Object
    BY <1>4 DEF UserDelete, Inv, TypeOK
  <2>2. obj' = [obj EXCEPT !.deleting = TRUE]
    BY <1>4 DEF UserDelete, Stored, Releases, Holds
  <2>3. obj'.finalizers = obj.finalizers /\ obj' # NoObject
    BY <2>1, <2>2, FieldsKept, ObjectUpdates, Absent
  <2> QED
    BY <2>3 DEF Releases, Holds, Exists
<1>5. CASE pc = "write" /\ UpdateApplied
  <2>1. inst \in Object
    BY <1>5 DEF Inv, TypeOK, Steps
  <2>2. /\ instCurrent
        /\ obj' = inst \/ inst.finalizers = {}
    BY <1>5 DEF UpdateApplied, Updatable
  <2>3. StackFinalizer \notin inst.finalizers
    BY <2>1, <2>2, Absent DEF Releases, Holds, Exists
  <2> QED
    BY <1>5, <2>2, <2>3
    DEF Inv, Consistent, FinalizerFollowsStack, Releases, Steps
<1> QED
  BY <1>1, <1>2, <1>3, <1>4, <1>5, ObjectChanges

(* The stack finalizer never leaves the stored object while its stack is   *)
(* standing, whatever fails or is repeated in deleteStack.                 *)
THEOREM NoUnguardedStack == Spec => TeardownBeforeRelease
BY InvInit, InvNext, ReleasedNext, PTL DEF Spec, TeardownBeforeRelease

(* The only steps that change the stack. *)
LEMMA StackChanges ==
  [Next]_vars =>
      \/ UNCHANGED cf
      \/ \E r \in Resources : CloudCreatesResource(r)
      \/ CloudFinishesCreate \/ CloudFailsCreate
      \/ CloudFinishesUpdate \/ CloudFailsUpdate
      \/ CloudFinishesDelete \/ CloudFailsDelete
      \/ CreateStack \/ CreateStackFails
      \/ UpdateStack \/ UpdateStackFails
      \/ DeleteStack \/ DeleteStackFails
BY DEF vars, cloud, Next, Environment, Cloud, Reconcile, UserCreate, UserEdit,
       UserDelete, CacheSync, Resync, TimerFires, Dequeue, Crash, Get,
       GetStack, UpdateStackTolerated, DescribeResources,
       DescribeResourcesFails, CleanResource, Update, UpdateFails,
       WorkloadFills

(* The only steps that ask for a stack to be deleted. *)
LEMMA TeardownSteps ==
  ASSUME TypeOK, TypeOK', [Next]_vars, StackStanding,
         cf' # NoStack, cf'.status = "DELETE_IN_PROGRESS"
  PROVE  pc = "teardown"
<1>1. ~StackStanding'
  BY DEF StackStanding, Standing
<1>2. /\ cf \in Stack
      /\ inst \in Object \/ pc \notin Steps
      /\ cf.status # "DELETE_IN_PROGRESS"
  BY DEF StackStanding, Standing, TypeOK
<1>3. CASE UNCHANGED cf
  BY <1>2, <1>3
<1>4. CASE \/ \E r \in Resources : CloudCreatesResource(r)
           \/ CloudFinishesCreate \/ CloudFailsCreate
           \/ CloudFinishesUpdate \/ CloudFailsUpdate
           \/ CloudFinishesDelete \/ CloudFailsDelete
  BY <1>1, <1>4, CloudSteps
<1>5. CASE CreateStack \/ CreateStackFails
  BY <1>3, <1>5 DEF CreateStack, CreateStackFails, StackStanding
<1>6. CASE UpdateStack \/ UpdateStackFails
  <2>1. ASSUME cf' = [cf EXCEPT !.status = "UPDATE_IN_PROGRESS",
                               !.target = inst.template]
        PROVE  FALSE
    BY <1>2, <2>1, StatusSet
  <2> QED
    BY <1>3, <1>6, <2>1 DEF UpdateStack, UpdateStackFails
<1>7. CASE DeleteStack \/ DeleteStackFails
  BY <1>7 DEF DeleteStack, DeleteStackFails
<1> QED
  BY <1>3, <1>4, <1>5, <1>6, <1>7, StackChanges

LEMMA TeardownIsDueNext == Inv /\ [Next]_vars => TeardownIsDue
<1> SUFFICES ASSUME Inv, [Next]_vars, StackStanding, cf' # NoStack,
                    cf'.status = "DELETE_IN_PROGRESS"
             PROVE  \/ ~Exists(obj) 
                    \/ obj.deleting
                    \/ cf.status = "ROLLBACK_COMPLETE"
  BY DEF TeardownIsDue
<1>1. pc = "teardown"
  BY TeardownSteps, TypeNext DEF Inv
<1> QED
  BY <1>1 DEF Inv, Consistent, PathFollowsMark, StaleMarkHarmless, MarkGone, Steps

(* deleteStack never reaches the stack of an object that is stored and not *)
(* marked for deletion, unless its creation was rolled back.               *)
THEOREM WantedStackStays == Spec => NoTeardownOfWantedStack
BY InvInit, InvNext, TeardownIsDueNext, PTL DEF Spec, NoTeardownOfWantedStack

(***************************************************************************)
(* The finalizers of the resources.  ResourceGoneBeforeRelease speaks of   *)
(* the write at the end of a pass; the deletion that it needs came earlier *)
(* in the pass.  What holds in between: a finalizer that the copy has lost *)
(* and the object has not stands for a resource that deleteStack found in  *)
(* the stack and deleted.  It stays deleted, because only a stack that is  *)
(* being created makes resources, and none that it has made already.       *)
(***************************************************************************)
Gone(r) ==
    /\ contents[r] = "absent"
    /\ cf # NoStack => r \in cf.resources

GoneFor(f) == \E r \in Resources : CleanupFinalizer(r) = f /\ Gone(r)

CleanupFinalizers == {BucketsFinalizer, RegistryFinalizer}

(* deleteStack's loop visits resources of the stack that is there. *)
LoopFollowsStack ==
    pc = "teardown" /\ cf # NoStack => todo \subseteq cf.resources

FinalizersFollowResources ==
    pc \in Steps /\ instCurrent =>
       \A f \in CleanupFinalizers :
          Holds(obj, f) /\ f \notin inst.finalizers
            => pc \in {"teardown", "write"} /\ GoneFor(f)

ResourcesInv == LoopFollowsStack /\ FinalizersFollowResources

LEMMA ResourcesKept ==
  ASSUME TypeOK, TypeOK', [Next]_vars, pc # "createStack", cf' # NoStack
  PROVE  cf # NoStack /\ cf.resources \subseteq cf'.resources
<1>0. cf \in Stack \cup {NoStack} /\ NoStack \notin Stack
  BY Absent DEF TypeOK
<1>1. CASE UNCHANGED cf
  BY <1>1
<1>2. ASSUME cf \in Stack,
             \/ \E st \in StackStatus, t \in Templates :
                   \/ cf' = [cf EXCEPT !.status = st]
                   \/ cf' = [cf EXCEPT !.status = st, !.target = t]
                   \/ cf' = [cf EXCEPT !.status = st, !.template = t]
             \/ \E r \in Resources : cf' = [cf EXCEPT !.resources = @ \cup {r}]
      PROVE  cf # NoStack /\ cf.resources \subseteq cf'.resources
  BY <1>0, <1>2 DEF Stack
<1>3. ASSUME NEW r \in Resources, CloudCreatesResource(r)
      PROVE  cf # NoStack /\ cf.resources \subseteq cf'.resources
  BY <1>0, <1>2, <1>3 DEF CloudCreatesResource
<1>4. CASE \/ CloudFinishesCreate \/ CloudFailsCreate
           \/ CloudFinishesDelete \/ CloudFailsDelete
  <2>1. PICK st \in StackStatus : cf \in Stack /\ cf' = [cf EXCEPT !.status = st]
    BY <1>0, <1>4 DEF CloudFinishesCreate, CloudFailsCreate, CloudFinishesDelete,
                      CloudFailsDelete, StackStatus, InProgress
  <2> QED
    BY <1>0, <2>1 DEF Stack
<1>5. CASE CloudFinishesUpdate \/ CloudFailsUpdate
  <2>1. PICK st, t :
            /\ st \in StackStatus /\ cf \in Stack
            /\ \/ cf' = [cf EXCEPT !.status = st, !.template = t]
               \/ cf' = [cf EXCEPT !.status = st, !.target = t]
    BY <1>0, <1>5 DEF CloudFinishesUpdate, CloudFailsUpdate, StackStatus
  <2> QED
    BY <1>0, <2>1 DEF Stack
<1>6. CASE UpdateStack \/ UpdateStackFails
  <2>1. CASE cf' = [cf EXCEPT !.status = "UPDATE_IN_PROGRESS", !.target = inst.template]
             /\ cf \in Stack
    BY <1>0, <2>1 DEF Stack
  <2> QED
    BY <1>0, <1>1, <1>6, <2>1 DEF UpdateStack, UpdateStackFails
<1>7. CASE DeleteStack \/ DeleteStackFails
  <2>1. CASE cf' = StackAfterDelete
    <3>1. cf \in Stack /\ cf' = [cf EXCEPT !.status = "DELETE_IN_PROGRESS"]
      BY <1>0, <2>1 DEF StackAfterDelete
    <3> QED
      BY <1>0, <3>1 DEF Stack
  <2> QED
    BY <1>1, <1>7, <2>1 DEF DeleteStack, DeleteStackFails
<1>8. ~CreateStack /\ ~CreateStackFails
  BY DEF CreateStack, CreateStackFails
<1> QED
  BY <1>1, <1>3, <1>4, <1>5, <1>6, <1>7, <1>8, StackChanges

(* The only steps that change what a resource holds. *)
LEMMA ContentsChange ==
  [Next]_vars =>
      \/ UNCHANGED contents
      \/ \E r \in Resources : CloudCreatesResource(r) \/ CleanResource(r) \/ WorkloadFills(r)
      \/ CloudFailsCreate \/ CloudFinishesDelete
BY DEF vars, cloud, Next, Environment, Cloud, Reconcile, UserCreate, UserEdit,
       UserDelete, CacheSync, Resync, TimerFires, Dequeue, Crash, Get,
       GetStack, CreateStack, CreateStackFails, UpdateStack,
       UpdateStackTolerated, UpdateStackFails, DescribeResources,
       DescribeResourcesFails, DeleteStack, DeleteStackFails, Update,
       UpdateFails, CloudFinishesCreate, CloudFinishesUpdate,
       CloudFailsUpdate, CloudFailsDelete

(* A resource that is gone from the stack stays so until the next stack.   *)
LEMMA GoneStays ==
  ASSUME TypeOK, TypeOK', [Next]_vars, pc # "createStack", NEW r \in Resources, Gone(r)
  PROVE  Gone(r)'
<1>1. cf' # NoStack => r \in cf'.resources
  BY ResourcesKept DEF Gone
<1>2. contents \in [Resources -> {"absent", "empty", "full"}] /\ contents[r] = "absent"
  BY DEF TypeOK, Gone
<1>3. ASSUME NEW s \in Resources, CloudCreatesResource(s) PROVE contents'[r] = "absent"
  <2>1. cf # NoStack /\ s \notin cf.resources /\ contents' = [contents EXCEPT ![s] = "empty"]
    BY <1>3 DEF CloudCreatesResource
  <2>2. s # r
    BY <2>1 DEF Gone
  <2> QED
    BY <1>2, <2>1, <2>2
<1>4. ASSUME NEW s \in Resources, CleanResource(s) PROVE contents'[r] = "absent"
  BY <1>2, <1>4 DEF CleanResource
<1>5. ASSUME NEW s \in Resources, WorkloadFills(s) PROVE contents'[r] = "absent"
  BY <1>2, <1>5 DEF WorkloadFills
<1>6. CASE CloudFailsCreate
  BY <1>1, <1>2, <1>6 DEF CloudFailsCreate, Gone
<1>7. CASE CloudFinishesDelete
  <2>1. contents'[r] = "absent"
    BY <1>2, <1>7 DEF CloudFinishesDelete
  <2> QED
    BY <1>1, <2>1 DEF Gone
<1>8. CASE UNCHANGED contents
  BY <1>1, <1>2, <1>8 DEF Gone
<1> QED
  BY <1>1, <1>3, <1>4, <1>5, <1>6, <1>7, <1>8, ContentsChange DEF Gone

(* A pass takes a finalizer of resources off its copy only in deleteStack's *)
(* loop, at the deletion of a resource of that type.                        *)
LEMMA CleanedResource ==
  ASSUME TypeOK, LoopFollowsStack, NEW r \in Resources, CleanResource(r),
         NEW f \in CleanupFinalizers, f \in inst.finalizers, f \notin inst'.finalizers
  PROVE  CleanupFinalizer(r) = f /\ Gone(r)'
<1>1. inst \in Object
  BY DEF CleanResource, TypeOK, Steps
<1>2. inst' # inst
  OBVIOUS
<1>3. /\ contents' = [contents EXCEPT ![r] = "absent"]
      /\ inst' = [inst EXCEPT !.finalizers = @ \ {CleanupFinalizer(r)}]
  BY <1>2 DEF CleanResource, Cleaned
<1>4. CleanupFinalizer(r) = f
  <2>1. inst'.finalizers = inst.finalizers \ {CleanupFinalizer(r)}
    BY <1>1, <1>3 DEF Object
  <2> QED
    BY <2>1
<1>5. contents'[r] = "absent"
  BY <1>3 DEF TypeOK
<1>6. cf' # NoStack => r \in cf'.resources
  BY DEF CleanResource, LoopFollowsStack
<1> QED
  BY <1>4, <1>5, <1>6 DEF Gone

(* While its copy is current a pass works on the object that is stored. *)
LEMMA CurrentPass ==
  ASSUME Inv, [Next]_vars, pc' \in Steps, instCurrent'
  PROVE  \/ pc = "get" /\ inst' = obj /\ UNCHANGED obj
         \/ instCurrent /\ pc \in Steps /\ UNCHANGED obj
<1> USE DEF Steps
<1>1. CASE Environment
  BY <1>1 DEF Environment, UserCreate, UserEdit, UserDelete, Stored, WorkloadFills,
              CloudFailsCreate, CloudFailsUpdate, CloudFailsDelete, server
<1>2. CASE Cloud
  BY <1>2 DEF Cloud, CloudCreatesResource, CloudFinishesCreate, CloudFinishesUpdate,
              CloudFinishesDelete, server
<1>3. CASE CacheSync \/ TimerFires \/ Resync \/ Crash \/ UNCHANGED vars
  BY <1>3 DEF CacheSync, TimerFires, Resync, Crash, vars, server
<1>4. CASE Get
  BY <1>4 DEF Get, Inv, Consistent, CopiesAgree
<1>5. CASE Reconcile /\ ~Get
  BY <1>5 DEF Reconcile, Dequeue, GetStack, CreateStack, CreateStackFails, UpdateStack,
              UpdateStackTolerated, UpdateStackFails, DescribeResources,
              DescribeResourcesFails, CleanResource, DeleteStack, DeleteStackFails,
              AfterDeleteError, Update, UpdateFails, ReturnError, Return, server
<1> QED
  BY <1>1, <1>2, <1>3, <1>4, <1>5 DEF Next

LEMMA ReportedKeeps == \A o \in Object : Reported(o).finalizers = o.finalizers
BY DEF Reported, Object

(* Between Get and the write, finalizers of resources leave the copy only  *)
(* in deleteStack's loop, and the pass does not go back.                   *)
LEMMA PassKeepsFinalizers ==
  ASSUME TypeOK, [Next]_vars, pc \in Steps, pc' \in Steps
  PROVE  /\ pc \in {"teardown", "write"} => pc' \in {"teardown", "write"}
         /\ \/ inst.finalizers \cap CleanupFinalizers \subseteq inst'.finalizers
            \/ \E r \in Resources : CleanResource(r)
<1>0. inst \in Object
  BY DEF TypeOK
<1> USE DEF Steps
<1>1. CASE UNCHANGED <<pc, inst>>
  BY <1>1
<1>2. CASE Environment \/ Cloud \/ CacheSync \/ TimerFires \/ Resync \/ UNCHANGED vars
  BY <1>1, <1>2
  DEF Environment, UserCreate, UserEdit, UserDelete, WorkloadFills, CloudFailsCreate,
      CloudFailsUpdate, CloudFailsDelete, Cloud, CloudCreatesResource,
      CloudFinishesCreate, CloudFinishesUpdate, CloudFinishesDelete, CacheSync,
      TimerFires, Resync, vars, instance
<1>3. CASE GetStack \/ DescribeResources
  BY <1>3 DEF GetStack, DescribeResources
<1>4. CASE CreateStack
  BY <1>0, <1>4, FieldsKept DEF CreateStack
<1>5. CASE UpdateStack \/ UpdateStackTolerated
  <2>1. inst' = inst \/ inst' = Reported(inst)
    BY <1>5 DEF UpdateStack, UpdateStackTolerated
  <2>2. inst'.finalizers = inst.finalizers /\ pc = "updateStack"
    BY <1>0, <1>5, <2>1, ReportedKeeps DEF UpdateStack, UpdateStackTolerated
  <2> QED
    BY <2>2
<1>6. CASE DeleteStack
  <2>1. inst'.finalizers = inst.finalizers \ {StackFinalizer} /\ pc' = "write"
    <3> DEFINE o == [inst EXCEPT !.finalizers = @ \ {StackFinalizer}]
    <3>1. o \in Object /\ o.finalizers = inst.finalizers \ {StackFinalizer}
      BY <1>0, FieldsKept, ObjectUpdates
    <3>2. inst' = o \/ inst' = Reported(o)
      BY <1>6 DEF DeleteStack, Released
    <3> HIDE DEF o
    <3> QED
      BY <1>6, <3>1, <3>2, ReportedKeeps DEF DeleteStack
  <2> QED
    BY <2>1 DEF CleanupFinalizers, StackFinalizer, BucketsFinalizer, RegistryFinalizer
<1>7. ASSUME NEW r \in Resources, CleanResource(r)
      PROVE  pc' = "teardown"
  BY <1>7 DEF CleanResource
<1>8. CASE Crash \/ Dequeue \/ Get \/ CreateStackFails \/ UpdateStackFails
           \/ DescribeResourcesFails \/ DeleteStackFails \/ Update \/ UpdateFails
  BY <1>8 DEF Crash, Dequeue, Get, CreateStackFails, UpdateStackFails,
              DescribeResourcesFails, DeleteStackFails, AfterDeleteError, Update,
              UpdateFails, ReturnError, Return
<1> QED
  BY <1>2, <1>3, <1>4, <1>5, <1>6, <1>7, <1>8 DEF Next, Reconcile

LEMMA LoopNext ==
  ASSUME Inv, LoopFollowsStack, [Next]_vars
  PROVE  LoopFollowsStack'
<1> SUFFICES ASSUME pc' = "teardown", cf' # NoStack PROVE todo' \subseteq cf'.resources
  BY DEF LoopFollowsStack
<1>0. TypeOK /\ TypeOK'
  BY InvNext DEF Inv
<1>1. CASE UNCHANGED <<pc, todo>>
  <2>1. cf # NoStack /\ cf.resources \subseteq cf'.resources
    BY <1>0, <1>1, ResourcesKept
  <2> QED
    BY <1>1, <2>1 DEF LoopFollowsStack
<1>2. CASE DescribeResources
  BY <1>2 DEF DescribeResources, cloud
<1>3. ASSUME NEW r \in Resources, CleanResource(r) PROVE todo' \subseteq cf'.resources
  BY <1>3 DEF CleanResource, LoopFollowsStack
<1>4. CASE Environment \/ Cloud \/ CacheSync \/ TimerFires \/ Resync \/ UNCHANGED vars
  BY <1>1, <1>4
  DEF Environment, UserCreate, UserEdit, UserDelete, WorkloadFills, CloudFailsCreate,
      CloudFailsUpdate, CloudFailsDelete, Cloud, CloudCreatesResource,
      CloudFinishesCreate, CloudFinishesUpdate, CloudFinishesDelete, CacheSync,
      TimerFires, Resync, vars, instance
<1>5. ASSUME Crash \/ Dequeue \/ Get \/ GetStack \/ CreateStack \/ CreateStackFails
             \/ UpdateStack \/ UpdateStackTolerated \/ UpdateStackFails
             \/ DescribeResourcesFails \/ DeleteStack \/ DeleteStackFails
             \/ Update \/ UpdateFails
      PROVE  FALSE
  BY <1>5
  DEF Crash, Dequeue, Get, AfterGet, GetStack, CreateStack, CreateStackFails,
      UpdateStack, UpdateStackTolerated, AfterUpdateError, UpdateStackFails,
      DescribeResourcesFails, DeleteStack, DeleteStackFails, AfterDeleteError, Update,
      UpdateFails, ReturnError, Return
<1> QED
  BY <1>2, <1>3, <1>4, <1>5 DEF Next, Reconcile

LEMMA FinalizersNext ==
  ASSUME Inv, ResourcesInv, [Next]_vars
  PROVE  FinalizersFollowResources'
<1> SUFFICES ASSUME pc' \in Steps, instCurrent', NEW f \in CleanupFinalizers,
                    Holds(obj', f), f \notin inst'.finalizers
             PROVE  pc' \in {"teardown", "write"} /\ GoneFor(f)'
  BY DEF FinalizersFollowResources, Holds, Exists, CleanupFinalizers
<1>0. TypeOK /\ TypeOK'
  BY InvNext DEF Inv
<1>1. instCurrent /\ pc \in Steps /\ UNCHANGED obj
  BY CurrentPass DEF Holds
<1>2. CASE f \notin inst.finalizers
  <2>1. pc \in {"teardown", "write"} /\ GoneFor(f)
    BY <1>1, <1>2 DEF ResourcesInv, FinalizersFollowResources
  <2>2. PICK r \in Resources : CleanupFinalizer(r) = f /\ Gone(r)
    BY <2>1 DEF GoneFor
  <2>3. Gone(r)'
    BY <1>0, <2>1, <2>2, GoneStays
  <2> QED
    BY <1>0, <1>1, <2>1, <2>2, <2>3, PassKeepsFinalizers
    DEF GoneFor, CleanupFinalizer, BucketsFinalizer, RegistryFinalizer
<1>3. CASE f \in inst.finalizers
  <2>1. PICK r \in Resources : CleanResource(r)
    BY <1>0, <1>1, <1>3, PassKeepsFinalizers
  <2>2. CleanupFinalizer(r) = f /\ Gone(r)'
    BY <1>0, <1>3, <2>1, CleanedResource DEF ResourcesInv
  <2>3. pc' = "teardown"
    BY <2>1 DEF CleanResource
  <2> QED
    BY <2>2, <2>3 DEF GoneFor, CleanupFinalizer, BucketsFinalizer, RegistryFinalizer
<1> QED
  BY <1>2, <1>3

LEMMA ResourcesInitially == Init => ResourcesInv
BY DEF Init, ResourcesInv, LoopFollowsStack, FinalizersFollowResources, Steps

LEMMA ResourcesNext == Inv /\ ResourcesInv /\ [Next]_vars => ResourcesInv'
BY LoopNext, FinalizersNext DEF ResourcesInv

(* A step that takes such a finalizer off the object is a pass's write.    *)
LEMMA ReleasedByWrite ==
  ASSUME Inv, [Next]_vars, NEW f, Releases(f)
  PROVE  pc = "write" /\ instCurrent /\ f \notin inst.finalizers
<1>1. CASE UNCHANGED obj
  BY <1>1 DEF Releases, Holds, Exists
<1>2. ASSUME NEW t \in Templates, UserCreate(t) PROVE FALSE
  BY <1>2 DEF UserCreate, Releases, Holds, Exists
<1>3. ASSUME obj \in Object, \/ \E t \in Templates : obj' = [obj EXCEPT !.template = t]
                             \/ obj' = [obj EXCEPT !.deleting = TRUE]
      PROVE  FALSE
  <2>1. obj' \in Object
    BY <1>3, ObjectUpdates
  <2>2. obj'.finalizers = obj.finalizers
    BY <1>3 DEF Object
  <2> QED
    BY <2>1, <2>2, Absent DEF Releases, Holds, Exists
<1>4. ASSUME NEW t \in Templates, UserEdit(t) PROVE FALSE
  BY <1>3, <1>4 DEF UserEdit, Stored, Inv, TypeOK
<1>5. CASE UserDelete
  BY <1>3, <1>5 DEF UserDelete, Stored, Inv, TypeOK, Releases, Holds
<1>6. CASE pc = "write" /\ UpdateApplied
  <2>1. inst \in Object
    BY <1>6 DEF Inv, TypeOK, Steps
  <2>2. instCurrent /\ (obj' = inst \/ inst.finalizers = {})
    BY <1>6 DEF UpdateApplied, Updatable
  <2> QED
    BY <1>6, <2>1, <2>2, Absent DEF Releases, Holds, Exists
<1> QED
  BY <1>1, <1>2, <1>4, <1>5, <1>6, ObjectChanges

(* Whatever fails or is repeated in deleteStack, the finalizer of buckets  *)
(* or of repositories leaves the object only once a resource of that type  *)
(* has been deleted, and has not been made again.                          *)
THEOREM NoUncleanedRelease == Spec => ResourceGoneBeforeRelease
<1>1. ASSUME Inv, ResourcesInv, [Next]_vars, NEW f \in CleanupFinalizers, Releases(f)
      PROVE  \E r \in Resources : CleanupFinalizer(r) = f /\ contents[r] = "absent"
  <2>1. pc = "write" /\ instCurrent /\ Holds(obj, f) /\ f \notin inst.finalizers
    BY <1>1, ReleasedByWrite DEF Releases
  <2>2. GoneFor(f)
    BY <1>1, <2>1 DEF ResourcesInv, FinalizersFollowResources, Steps
  <2> QED
    BY <2>2 DEF GoneFor, Gone
<1>2. Inv /\ ResourcesInv /\ [Next]_vars => ReleasedAfterCleanup
  BY <1>1 DEF ReleasedAfterCleanup, CleanupFinalizers
<1> QED
  BY <1>2, InvInit, InvNext, ResourcesInitially, ResourcesNext, PTL
  DEF Spec, ResourceGoneBeforeRelease
=============================================================================
