-------------------------- MODULE StackOwnerProofs --------------------------
(* The two writers of a stack object do not undo each other's work, for    *)
(* every spec, uid and number of failures.                                 *)
EXTENDS StackOwner, TLAPS

LEMMA Initially == Init => CopiesAgree
  BY DEF Init, CopiesAgree

(* A write of another client outdates the copy that the pass works on. *)
LEMMA OutsideSteps ==
    ASSUME CopiesAgree,
           Environment \/ CollectGarbage \/ Guard \/ Release
    PROVE  CopiesAgree'
<1>1. CASE \/ \E v \in Specs, u \in Uids : CreateOwner(v, u)
           \/ \E v \in Specs : EditOwner(v)
           \/ DeleteOwner
  <2>1. UNCHANGED <<stack, stackCache, news, pc, made, foundCurrent>>
    BY <1>1 DEF CreateOwner, EditOwner, DeleteOwner, OwnerStored, caches, pass
  <2> QED
    BY <2>1 DEF CopiesAgree
<1>2. CASE \/ \E v \in Specs : EditStack(v)
           \/ DeleteStack \/ CollectGarbage \/ Guard \/ Release
  <2>1. news' # "none" /\ foundCurrent' = FALSE
    BY <1>2 DEF EditStack, DeleteStack, CollectGarbage, Guard, Release, Delete,
                StackStored, StackWritten
  <2> QED
    BY <2>1 DEF CopiesAgree
<1> QED
  BY <1>1, <1>2 DEF Environment

(* A cache that has caught up shows the stored stack, and a pass that      *)
(* starts from it changes the spec alone.                                  *)
LEMMA CopiesAgreeStep == CopiesAgree /\ [Next]_vars => CopiesAgree'
<1> SUFFICES ASSUME CopiesAgree, [Next]_vars PROVE CopiesAgree'
  OBVIOUS
<1>1. CASE Environment \/ CollectGarbage \/ Guard \/ Release
  BY <1>1, OutsideSteps
<1>2. CASE SyncOwner \/ Resync \/ TimerFires \/ NothingToDo
  <2>1. UNCHANGED <<stack, stackCache, news, pc, made, foundCurrent>>
    BY <1>2 DEF SyncOwner, Resync, TimerFires, NothingToDo, Take, objects, caches, pass
  <2> QED
    BY <2>1 DEF CopiesAgree
<1>3. CASE SyncStack
  BY <1>3 DEF SyncStack, CopiesAgree, pass
<1>4. CASE Crash
  BY <1>4 DEF Crash, EndOfPass, CopiesAgree
<1>5. CASE StartCreate
  <2>1. pc = "idle" /\ UNCHANGED <<stack, stackCache, news, foundCurrent>>
    BY <1>5 DEF StartCreate, Take, caches
  <2> QED
    BY <2>1 DEF CopiesAgree
<1>6. CASE StartUpdate
  <2>1. UNCHANGED <<stack, stackCache, news>>
    BY <1>6 DEF StartUpdate, Take, caches
  <2>2. pc' = "update"
    BY <1>6 DEF StartUpdate
  <2>3. ASSUME foundCurrent' PROVE Exists(stack) /\ OnlySpecDiffers(made', stack)
    <3>1. stackCache = stack /\ Exists(stack)
      BY <1>6, <2>3 DEF StartUpdate, CopiesAgree
    <3>2. made' = [stack EXCEPT !.spec = StackFor(ownerCache).spec]
      BY <1>6, <3>1 DEF StartUpdate
    <3> QED
      BY <3>1, <3>2 DEF OnlySpecDiffers
  <2> QED
    BY <2>1, <2>2, <2>3 DEF CopiesAgree, Exists
<1>7. CASE Write \/ WriteFails
  <2>1. pc' = "idle" /\ foundCurrent' = FALSE /\ stackCache' = stackCache
    BY <1>7 DEF Write, WriteFails, Return, ReturnError, EndOfPass, caches
  <2>2. \/ UNCHANGED <<stack, news>>
        \/ news' # "none"
    BY <1>7 DEF Write, WriteFails, Written, StackWritten
  <2> QED
    BY <2>1, <2>2 DEF CopiesAgree
<1>8. CASE UNCHANGED vars
  BY <1>8 DEF vars, objects, caches, pass, CopiesAgree
<1> QED
  BY <1>1, <1>2, <1>3, <1>4, <1>5, <1>6, <1>7, <1>8 DEF Next, Reconcile

(* Whatever happened since the owner's controller read the stack, its      *)
(* write leaves the finalizers, the status and a deletion mark that others *)
(* have written, and a stack that is gone stays gone.                      *)
THEOREM OwnSpecOnly == Spec => WritesOnlySpec
<1>1. CopiesAgree /\ [Next]_vars => [SpecAloneWritten]_vars
  <2> SUFFICES ASSUME CopiesAgree, Next, pc # "idle", pc' = "idle", stack' # stack
               PROVE  IF pc = "create" THEN ~Exists(stack)
                      ELSE Exists(stack) /\ stack' = [stack EXCEPT !.spec = made.spec]
    BY DEF SpecAloneWritten
  <2>1. Write \/ WriteFails
    <3>1. ~(Environment \/ SyncOwner \/ SyncStack \/ Resync \/ TimerFires)
      BY DEF Environment, CreateOwner, EditOwner, DeleteOwner, EditStack,
             DeleteStack, Delete, OwnerStored, StackStored, SyncOwner, SyncStack,
             Resync, TimerFires, pass
    <3>2. ~(CollectGarbage \/ Guard \/ Release)
      BY DEF CollectGarbage, Delete, Guard, Release, StackStored, pass
    <3>3. ~(NothingToDo \/ StartCreate \/ StartUpdate \/ Crash)
      BY DEF NothingToDo, StartCreate, StartUpdate, Take, Crash
    <3> QED
      BY <3>1, <3>2, <3>3 DEF Next, Reconcile
  <2>2. Accepts /\ stack' = made
    BY <2>1 DEF Write, WriteFails, Written, StackWritten
  <2> QED
    BY <2>2 DEF Accepts, CopiesAgree, OnlySpecDiffers
<1> QED
  BY <1>1, Initially, CopiesAgreeStep, PTL DEF Spec, WritesOnlySpec

(* A copy of the stack that has caught up shows the stored one, and the    *)
(* one that a pass is about to write differs from it in the spec alone.    *)
THEOREM CopiesAgreeAlways == Spec => []CopiesAgree
  BY Initially, CopiesAgreeStep, PTL DEF Spec

-----------------------------------------------------------------------------
(* Type correctness.                                                       *)

LEMMA Real == \A o : o \in Owner \cup Stack => Exists(o)
  BY ConstantsAssumption DEF Exists

LEMMA StackRecord ==
    ASSUME NEW o \in Stack, NEW v \in Specs
    PROVE  /\ [o EXCEPT !.spec = v] \in Stack
           /\ [o EXCEPT !.deleting = TRUE] \in Stack
           /\ [o EXCEPT !.guarded = TRUE] \in Stack
  BY DEF Stack

LEMMA StackForType == \A i \in Owner : StackFor(i) \in Stack
  BY DEF StackFor, Owner, Stack

LEMMA Bounds ==
    ASSUME TypeOK
    PROVE  /\ Edit => edits' \in 0..MaxEdits
           /\ Fault => faults' \in 0..MaxFaults
  BY ConstantsAssumption DEF TypeOK, Edit, Fault

(* Other clients' writes store an owner, a stack or nothing.               *)
LEMMA TypeOutside ==
    ASSUME TypeOK, Environment \/ CollectGarbage \/ Guard \/ Release
    PROVE  TypeOK'
<1>1. ASSUME NEW o \in Owner \cup {NoObject}, OwnerStored(o), edits' \in 0..MaxEdits
      PROVE  TypeOK'
  BY <1>1 DEF OwnerStored, TypeOK, caches, queue, pass
<1>2. ASSUME NEW o \in Stack \cup {NoObject}, StackStored(o), edits' \in 0..MaxEdits
      PROVE  TypeOK'
  BY <1>2 DEF StackStored, StackWritten, TypeOK, caches, queue, pass
<1>3. edits \in 0..MaxEdits /\ (Exists(owner) => owner \in Owner) /\ (Exists(stack) => stack \in Stack)
  BY DEF TypeOK, Exists
<1>4. ASSUME NEW v \in Specs, NEW u \in Uids, CreateOwner(v, u) PROVE TypeOK'
  <2>1. [spec |-> v, uid |-> u] \in Owner
    BY DEF Owner
  <2> QED
    BY <1>1, <1>3, <1>4, <2>1 DEF CreateOwner
<1>5. ASSUME NEW v \in Specs, EditOwner(v) PROVE TypeOK'
  <2>1. [owner EXCEPT !.spec = v] \in Owner
    BY <1>3, <1>5 DEF EditOwner, Owner
  <2> QED
    BY <1>1, <1>5, <2>1, Bounds DEF EditOwner
<1>6. CASE DeleteOwner
  BY <1>1, <1>3, <1>6 DEF DeleteOwner
<1>7. ASSUME NEW v \in Specs, EditStack(v) PROVE TypeOK'
  BY <1>2, <1>3, <1>7, StackRecord, Bounds DEF EditStack
<1>8. CASE DeleteStack \/ CollectGarbage
  <2>1. Delete /\ edits' = edits
    BY <1>8 DEF DeleteStack, CollectGarbage
  <2>2. PICK v \in Specs : TRUE
    BY <1>3, <2>1 DEF Delete, Stack
  <2>3. PICK o \in Stack \cup {NoObject} : StackStored(o)
    BY <1>3, <2>1, <2>2, StackRecord DEF Delete
  <2> QED
    BY <1>2, <1>3, <2>1, <2>3
<1>9. CASE Guard
  <2>1. PICK v \in Specs : TRUE
    BY <1>3, <1>9 DEF Guard, Stack
  <2> QED
    BY <1>2, <1>3, <1>9, <2>1, StackRecord DEF Guard
<1>10. CASE Release
  BY <1>2, <1>3, <1>10 DEF Release
<1> QED
  BY <1>4, <1>5, <1>6, <1>7, <1>8, <1>9, <1>10 DEF Environment

LEMMA TypeStep == TypeOK /\ [Next]_vars => TypeOK'
<1> SUFFICES ASSUME TypeOK, [Next]_vars PROVE TypeOK'
  OBVIOUS
<1>1. CASE Environment \/ CollectGarbage \/ Guard \/ Release
  BY <1>1, TypeOutside
<1>2. CASE SyncOwner \/ SyncStack \/ Resync \/ TimerFires
  <2>1. queued' \in BOOLEAN
    BY <1>2 DEF SyncOwner, SyncStack, Resync, TimerFires, TypeOK
  <2> QED
    BY <1>2, <2>1 DEF SyncOwner, SyncStack, Resync, TimerFires, TypeOK, objects, caches, pass, bounded
<1>3. CASE Crash
  <2>1. queued' \in BOOLEAN /\ faults' \in 0..MaxFaults
    BY <1>3, Bounds DEF Crash
  <2> QED
    BY <1>3, <2>1 DEF Crash, EndOfPass, TypeOK
<1>4. CASE NothingToDo
  BY <1>4 DEF NothingToDo, Take, TypeOK, caches, pass, bounded
<1>5. CASE StartCreate \/ StartUpdate
  <2>1. Take /\ ownerCache \in Owner /\ inst' = ownerCache
    BY <1>5 DEF StartCreate, StartUpdate, TypeOK, Exists
  <2>2. pc' \in {"create", "update"} /\ foundCurrent' \in BOOLEAN
    BY <1>5 DEF StartCreate, StartUpdate, TypeOK
  <2>3. made' \in Stack
    <3>1. CASE StartCreate
      BY <2>1, <3>1, StackForType DEF StartCreate
    <3>2. CASE StartUpdate
      <4>1. stackCache \in Stack
        BY <3>2 DEF StartUpdate, TypeOK, Exists
      <4>2. StackFor(ownerCache).spec \in Specs
        BY <2>1, StackForType DEF Stack
      <4> QED
        BY <3>2, <4>1, <4>2, StackRecord DEF StartUpdate
    <3> QED
      BY <1>5, <3>1, <3>2
  <2> QED
    BY <2>1, <2>2, <2>3 DEF Take, TypeOK, caches, bounded
<1>6. CASE Write \/ WriteFails
  <2>1. made \in Stack
    BY <1>6 DEF Write, WriteFails, TypeOK
  <2>2. stack' \in Stack \cup {NoObject} /\ news' \in {"none", "unowned", "owned"}
    BY <1>6, <2>1 DEF Write, WriteFails, Written, StackWritten, TypeOK
  <2>3. faults' \in 0..MaxFaults
    BY <1>6, Bounds DEF Write, WriteFails, TypeOK
  <2> QED
    BY <1>6, <2>2, <2>3
    DEF Write, WriteFails, Return, ReturnError, EndOfPass, TypeOK, caches, queue
<1>7. CASE UNCHANGED vars
  BY <1>7 DEF vars, objects, caches, queue, pass, bounded, TypeOK
<1> QED
  BY <1>1, <1>2, <1>3, <1>4, <1>5, <1>6, <1>7 DEF Next, Reconcile

(* Owner, stack and every copy of them are what their kinds allow; a pass  *)
(* has an owner and a stack to write, an idle worker neither.              *)
THEOREM TypeCorrect == Spec => []TypeOK
<1>1. Init => TypeOK
  <2>1. 0 \in 0..MaxEdits /\ 0 \in 0..MaxFaults
    BY ConstantsAssumption
  <2> QED
    BY <2>1 DEF Init, TypeOK
<1> QED
  BY <1>1, TypeStep, PTL DEF Spec
=============================================================================
