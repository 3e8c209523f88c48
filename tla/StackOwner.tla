----------------------------- MODULE StackOwner -----------------------------
(***************************************************************************)
(* The controllers that keep a PolarisStack object for an object of their  *)
(* own kind: PolarisBuildPipeline, PolarisContainerRegistry and            *)
(* PolarisSourceRepository.  The three Reconcile functions are one loop    *)
(* and differ in two points, see UpdatesSpec and WatchesStacks.            *)
(*                                                                         *)
(* One owner and the stack object of its name are modelled.  Users, the    *)
(* garbage collector and the PolarisStack controller, which writes to the  *)
(* same stack object, are the environment.  Reconcile reads neither the    *)
(* owner's finalizers nor its deletion mark: an owner that waits for its   *)
(* finalizers is one that still exists.                                    *)
(***************************************************************************)
EXTENDS Naturals

CONSTANTS
    Specs,      \* values of the owner's Spec
    NoObject,   \* the API server, or the cache, has no such object
    Uids,       \* the uids that tell owners of one name apart
    NoUid,      \* no controller reference
    MaxEdits,   \* bound on users' edits of either object
    MaxFaults   \* bound on crashes and failed or unanswered writes

Owner == [spec : Specs, uid : Uids]

(* spec: the owner's spec that template and parameters were made from.     *)
(* owner: the uid of the controller reference, NoUid if there is none.     *)
(* guarded: the stack controller has written its finalizers and status.    *)
Stack == [spec : Specs, owner : Uids \cup {NoUid}, deleting : BOOLEAN, guarded : BOOLEAN]

ASSUME ConstantsAssumption ==
    /\ NoObject \notin Owner \cup Stack
    /\ NoUid \notin Uids
    /\ {MaxEdits, MaxFaults} \subseteq Nat

VARIABLES
    kind,                    \* which of the three controllers this is
    owner, stack,            \* the objects in the API server
    ownerCache, stackCache,  \* the informers' copies
    ownerSynced,             \* the owner's copy is the server's version
    news,                    \* events about the stack still to be delivered:
                             \* none, only of unowned stacks, or of owned ones
    queued, timer,           \* the work queue and the delaying queue
    pc,                      \* the worker's next write, or "idle"
    inst,                    \* Reconcile's variable instance
    made,                    \* the stack it is about to create or update
    foundCurrent,            \* resourceVersion of found is still the server's
    edits, faults            \* how often each has happened

objects == <<owner, ownerSynced, stack, news, foundCurrent>>
caches  == <<ownerCache, stackCache>>
queue   == <<queued, timer>>
pass    == <<pc, inst, made>>
bounded == <<kind, edits, faults>>
vars    == <<objects, caches, queue, pass, bounded>>

Kinds == {"pipeline", "registry", "repository"}

(* A stack that is already there gets the owner's spec, or is left alone.  *)
UpdatesSpec == kind = "pipeline"

(* Changes of a stack bring its owner back into the queue; the registry's  *)
(* controller watches Pods instead.                                        *)
WatchesStacks == kind # "registry"

TypeOK ==
    /\ kind \in Kinds
    /\ {owner, ownerCache} \subseteq Owner \cup {NoObject}
    /\ {stack, stackCache} \subseteq Stack \cup {NoObject}
    /\ ownerSynced \in BOOLEAN
    /\ news \in {"none", "unowned", "owned"}
    /\ {queued, timer, foundCurrent} \subseteq BOOLEAN
    /\ pc \in {"idle", "create", "update"}
    /\ inst \in IF pc = "idle" THEN {NoObject} ELSE Owner
    /\ made \in IF pc = "idle" THEN {NoObject} ELSE Stack
    /\ edits \in 0..MaxEdits
    /\ faults \in 0..MaxFaults

Init ==
    /\ kind \in Kinds
    /\ owner = NoObject /\ ownerCache = NoObject /\ ownerSynced = TRUE
    /\ stack = NoObject /\ stackCache = NoObject /\ news = "none"
    /\ queued = FALSE /\ timer = FALSE
    /\ pc = "idle" /\ inst = NoObject /\ made = NoObject /\ foundCurrent = FALSE
    /\ edits = 0 /\ faults = 0

Exists(o) == o # NoObject

-----------------------------------------------------------------------------
(* Writes to the two objects by other clients.                             *)

OwnerStored(o) ==
    /\ owner' = o
    /\ ownerSynced' = FALSE
    /\ UNCHANGED <<stack, news, foundCurrent, caches, queue, pass, kind, faults>>

Owned(o) == Exists(o) /\ o.owner # NoUid

(* The stack's new version, and the event that its informer will deliver. *)
StackWritten(o) ==
    /\ stack' = o
    /\ news' = IF news = "owned" \/ Owned(stack) \/ Owned(o) THEN "owned" ELSE "unowned"

StackStored(o) ==
    /\ StackWritten(o)
    /\ foundCurrent' = FALSE
    /\ UNCHANGED <<owner, ownerSynced, caches, queue, pass, kind, faults>>

Edit ==
    /\ edits < MaxEdits
    /\ edits' = edits + 1

(* The uids that a copy of either object still carries. *)
InUse == {o.uid : o \in {ownerCache, inst} \ {NoObject}}
           \cup {o.owner : o \in {stack, stackCache, made} \ {NoObject}}

CreateOwner(v, u) ==
    /\ ~Exists(owner)
    /\ u \notin InUse
    /\ OwnerStored([spec |-> v, uid |-> u])
    /\ UNCHANGED edits

(* Another client's update: the spec, or (v unchanged) anything else.      *)
EditOwner(v) ==
    /\ Exists(owner)
    /\ Edit
    /\ OwnerStored([owner EXCEPT !.spec = v])

DeleteOwner ==
    /\ Exists(owner)
    /\ OwnerStored(NoObject)
    /\ UNCHANGED edits

EditStack(v) ==
    /\ Exists(stack)
    /\ Edit
    /\ StackStored([stack EXCEPT !.spec = v])

Delete ==
    /\ Exists(stack)
    /\ ~stack.deleting
    /\ StackStored(IF stack.guarded THEN [stack EXCEPT !.deleting = TRUE] ELSE NoObject)

DeleteStack == Delete /\ UNCHANGED edits

(* The garbage collector deletes a stack whose owner is gone. *)
CollectGarbage ==
    /\ Owned(stack)
    /\ ~(Exists(owner) /\ owner.uid = stack.owner)
    /\ Delete
    /\ UNCHANGED edits

(* The PolarisStack controller adds the finalizers of the object's spec. *)
Guard ==
    /\ Exists(stack)
    /\ ~stack.guarded
    /\ ~stack.deleting
    /\ StackStored([stack EXCEPT !.guarded = TRUE])
    /\ UNCHANGED edits

(* It may take them away again, and a marked object then goes.  deleteStack *)
(* takes the stack finalizer away with the call of DeleteStack, but that   *)
(* for buckets, or for the container registry, only in a turn of its loop  *)
(* in which it deleted one: once CloudFormation lists none, never.         *)
Release ==
    /\ Exists(stack)
    /\ stack.deleting
    /\ StackStored(NoObject)
    /\ UNCHANGED edits

-----------------------------------------------------------------------------
(* The informers and the work queue.                                       *)

SyncOwner ==
    /\ ~ownerSynced
    /\ ownerCache' = owner
    /\ ownerSynced' = TRUE
    /\ queued' = TRUE
    /\ UNCHANGED <<owner, stack, news, foundCurrent, stackCache, timer, pass, bounded>>

(* EnqueueRequestForOwner: an event about a stack that has, or had, a      *)
(* controller reference enqueues the owner of that name.                   *)
SyncStack ==
    /\ news # "none"
    /\ stackCache' = stack
    /\ news' = "none"
    /\ queued' = (queued \/ (WatchesStacks /\ news = "owned"))
    /\ UNCHANGED <<owner, ownerSynced, stack, foundCurrent, ownerCache, timer, pass, bounded>>

Resync ==
    /\ \/ Exists(ownerCache)
       \/ WatchesStacks /\ Owned(stackCache)
    /\ queued' = TRUE
    /\ UNCHANGED <<objects, caches, timer, pass, bounded>>

TimerFires ==
    /\ timer
    /\ timer' = FALSE
    /\ queued' = TRUE
    /\ UNCHANGED <<objects, caches, pass, bounded>>

(* Faulty form: instance outlives the pass, as a field of the reconciler. *)
EndOfPassKept ==
    /\ pc' = "idle"
    /\ inst' = inst
    /\ made' = NoObject
    /\ foundCurrent' = FALSE

EndOfPass ==
    /\ pc' = "idle"
    /\ inst' = NoObject
    /\ made' = NoObject
    /\ foundCurrent' = FALSE

Return == EndOfPass /\ UNCHANGED <<owner, ownerSynced, caches, queue, kind, edits>>

(* Faulty form: the error is logged and nil returned. *)
ReturnErrorLogged == Return

(* A non-nil error: the request is requeued with a delay. *)
ReturnError ==
    /\ EndOfPass
    /\ timer' = TRUE
    /\ UNCHANGED <<owner, ownerSynced, caches, queued, kind, edits>>

Fault ==
    /\ faults < MaxFaults
    /\ faults' = faults + 1

Crash ==
    /\ Fault
    /\ EndOfPass
    /\ ownerCache' = owner /\ ownerSynced' = TRUE
    /\ stackCache' = stack /\ news' = "none"
    /\ queued' = (Exists(owner) \/ (WatchesStacks /\ Owned(stack)))
    /\ timer' = FALSE
    /\ UNCHANGED <<owner, stack, kind, edits>>

-----------------------------------------------------------------------------
(* Reconcile.                                                              *)

(* Faulty form: no controller reference is set. *)
StackForUnowned(i) ==
    [spec |-> i.spec, owner |-> NoUid, deleting |-> FALSE, guarded |-> FALSE]

(* getStackForInstance and SetControllerReference. *)
StackFor(i) ==
    [spec |-> i.spec, owner |-> i.uid, deleting |-> FALSE, guarded |-> FALSE]

Take ==
    /\ pc = "idle"
    /\ queued
    /\ queued' = FALSE
    /\ UNCHANGED <<owner, ownerSynced, stack, news, caches, timer, bounded>>

(* The owner is gone, or its stack exists and is left alone. *)
NothingToDo ==
    /\ Take
    /\ Exists(ownerCache) => Exists(stackCache) /\ ~UpdatesSpec
    /\ UNCHANGED <<foundCurrent, pass>>

StartCreate ==
    /\ Take
    /\ Exists(ownerCache)
    /\ ~Exists(stackCache)
    /\ inst' = ownerCache
    /\ made' = StackFor(ownerCache)
    /\ pc' = "create"
    /\ UNCHANGED foundCurrent

(* Faulty form: the new definition is written over the one found. *)
StartUpdateWhole ==
    /\ Take
    /\ Exists(ownerCache)
    /\ Exists(stackCache)
    /\ UpdatesSpec
    /\ inst' = ownerCache
    /\ made' = StackFor(ownerCache)
    /\ foundCurrent' = (news = "none")
    /\ pc' = "update"

(* Only the spec of the stack that was found is replaced. *)
StartUpdate ==
    /\ Take
    /\ Exists(ownerCache)
    /\ Exists(stackCache)
    /\ UpdatesSpec
    /\ inst' = ownerCache
    /\ made' = [stackCache EXCEPT !.spec = StackFor(ownerCache).spec]
    /\ foundCurrent' = (news = "none")
    /\ pc' = "update"

(* Faulty form: the resourceVersion is refreshed before the write. *)
AcceptsUnversioned == IF pc = "create" THEN ~Exists(stack) ELSE Exists(stack)

(* The API server creates what is not there, and updates the version it    *)
(* holds.                                                                  *)
Accepts == IF pc = "create" THEN ~Exists(stack) ELSE foundCurrent

Written ==
    /\ Accepts
    /\ IF made = stack THEN UNCHANGED <<stack, news>> ELSE StackWritten(made)

Write ==
    /\ pc # "idle"
    /\ Written
    /\ Return
    /\ UNCHANGED faults

(* The stack exists by now, a conflict, a failed call or a lost answer. *)
WriteFails ==
    /\ pc # "idle"
    /\ \/ ~Accepts /\ UNCHANGED <<stack, news, faults>>
       \/ Fault /\ UNCHANGED <<stack, news>>
       \/ Fault /\ Written
    /\ ReturnError

-----------------------------------------------------------------------------
Environment ==
    \/ \E v \in Specs, u \in Uids : CreateOwner(v, u)
    \/ \E v \in Specs : EditOwner(v) \/ EditStack(v)
    \/ DeleteOwner \/ DeleteStack

Reconcile == NothingToDo \/ StartCreate \/ StartUpdate \/ Write \/ WriteFails

Next ==
    \/ Environment \/ Reconcile \/ Crash
    \/ CollectGarbage \/ Guard \/ Release
    \/ SyncOwner \/ SyncStack \/ Resync \/ TimerFires

Spec == Init /\ [][Next]_vars

(* The worker, the informers, timers and the garbage collector go on;      *)
(* users and faults need not.  The stack controller's teardown comes to an *)
(* end for a repository's stack, which has the stack finalizer alone; a    *)
(* pipeline's has that for buckets too, a registry's that for the          *)
(* container registry, and either may stay marked for ever.  The ten-hour  *)
(* resync is counted on for registries alone, which nothing else brings    *)
(* back when their stack is gone.                                          *)
SoleFinalizer == kind = "repository"

Fairness ==
    /\ WF_vars(Reconcile)
    /\ WF_vars(SyncOwner)
    /\ WF_vars(SyncStack)
    /\ WF_vars(TimerFires)
    /\ WF_vars(CollectGarbage)
    /\ WF_vars(SoleFinalizer /\ Release)
    /\ WF_vars(kind = "registry" /\ Resync)

FairSpec == Spec /\ Fairness

-----------------------------------------------------------------------------
(* Two controllers write to the stack object.  The owner's never undoes    *)
(* what the stack controller, a user or the garbage collector wrote after  *)
(* the owner's cache saw it: finalizers, status, a deletion mark, and the  *)
(* object's being gone; it creates the object only where there is none.    *)
SpecAloneWritten ==
    pc # "idle" /\ pc' = "idle" /\ stack' # stack =>
       IF pc = "create"
       THEN ~Exists(stack)
       ELSE Exists(stack) /\ stack' = [stack EXCEPT !.spec = made.spec]

WritesOnlySpec == [][SpecAloneWritten]_vars

(* The invariant behind it: a cache that has caught up shows the stored    *)
(* stack, and while the copy that a pass works on has the stored version,  *)
(* it differs from it in the spec alone.                                   *)
OnlySpecDiffers(o, p) == o = [p EXCEPT !.spec = o.spec]

CopiesAgree ==
    /\ news = "none" => stackCache = stack
    /\ foundCurrent => pc = "update" /\ Exists(stack) /\ OnlySpecDiffers(made, stack)

Has(v) == Exists(owner) /\ owner.spec = v

Provided == Exists(stack) /\ stack.owner = owner.uid

(* The stack object is marked and, its finalizers being those that         *)
(* deleteStack may never take away, stays so for ever.                     *)
StaysMarked == <>[](~SoleFinalizer /\ Exists(stack) /\ stack.deleting)

(* A spec that stays in a pipeline reaches a stack that belongs to it,     *)
(* through conflicts with the stack controller, restarts, users who delete *)
(* or change the stack, and a stack that an earlier pipeline of the same   *)
(* name left behind; only not where a marked stack object is left for      *)
(* ever, which the controller then writes to in vain.                      *)
SpecReachesStack ==
    \/ StaysMarked
    \/ \A v \in Specs :
          (UpdatesSpec /\ Has(v)) ~> (~Has(v) \/ (Provided /\ stack.spec = v))

(* An owner of any kind has a stack of its own, although users delete it,  *)
(* and an owner of the same name may have left one behind that the first   *)
(* pass found: a repository always, a pipeline or a registry unless a      *)
(* marked one is left for ever.  A registry may have to wait for the       *)
(* resync.                                                                 *)
StackProvided ==
    StaysMarked \/ (Exists(owner) ~> (~Exists(owner) \/ Provided))

(* A stack that a late pass creates for an owner that is gone by then is   *)
(* given to the garbage collector, never left standing without an owner.   *)
NoStackLeftBehind ==
    (Exists(stack) /\ ~stack.deleting /\ ~Exists(owner))
       ~> (~Exists(stack) \/ stack.deleting \/ Exists(owner))
=============================================================================
