---------------------------- MODULE PolarisStack ----------------------------
(***************************************************************************)
(* The PolarisStack controller: the reconcile loop that mirrors one        *)
(* PolarisStack object of the Kubernetes API into one CloudFormation       *)
(* stack, and tears the stack down again when the object is deleted.       *)
(*                                                                         *)
(* One namespaced name is modelled.  Reconciles of other names touch other *)
(* objects and other stacks, and the controller's single worker only       *)
(* delays them.  Every call that leaves the process (a CloudFormation, S3  *)
(* or ECR request, a write to the API server) is a step of its own, so     *)
(* that the user, the informer, AWS, another reconcile's events and a      *)
(* crash can come between any two of them.                                 *)
(***************************************************************************)
EXTENDS Naturals

CONSTANTS
    Templates,       \* values of Spec.Template together with Spec.Parameters
    Buckets,         \* the AWS::S3::Bucket resources of the template
    Repositories,    \* the AWS::ECR::Repository resources of the template
    SpecFinalizers,  \* Spec.Finalizers
    NoObject,        \* the API server, or the cache, has no such object
    NoStack,         \* CloudFormation has no stack of this name
    MaxEdits,        \* bound on the writes of other clients to the object
    MaxFaults        \* bound on crashes, failed calls and failed AWS operations

StackFinalizer    == "polaris.cleanup.aws.stack"
BucketsFinalizer  == "polaris.cleanup.aws.stack.buckets"
RegistryFinalizer == "polaris.cleanup.aws.stack.containerregistry"
Finalizers        == {StackFinalizer, BucketsFinalizer, RegistryFinalizer}

Resources == Buckets \cup Repositories

(* The finalizer under which deleteStack removes a resource of this type. *)
CleanupFinalizer(r) ==
    IF r \in Buckets THEN BucketsFinalizer ELSE RegistryFinalizer

(* CloudFormation's stack statuses, one for each way UpdateStack and       *)
(* DeleteStack answer: COMPLETE stands for CREATE_, UPDATE_ and            *)
(* UPDATE_ROLLBACK_COMPLETE, ROLLBACK_FAILED also for                      *)
(* UPDATE_ROLLBACK_FAILED, CREATE_IN_PROGRESS also for the rollback of a   *)
(* creation that is under way.                                             *)
InProgress  == {"CREATE_IN_PROGRESS", "UPDATE_IN_PROGRESS", "DELETE_IN_PROGRESS"}
StackStatus == InProgress \cup
    {"COMPLETE", "ROLLBACK_COMPLETE", "ROLLBACK_FAILED", "DELETE_FAILED"}

(* A stack that nobody has asked CloudFormation to delete. *)
Standing == StackStatus \ {"DELETE_IN_PROGRESS", "DELETE_FAILED"}

(* What the API server stores.  named: Status.Name holds the stack name.   *)
(* status: Status.Status as last reported, "" before that.                 *)
Object == [template   : Templates,
           deleting   : BOOLEAN,
           finalizers : SUBSET Finalizers,
           named      : BOOLEAN,
           status     : StackStatus \cup {""}]

(* A stack: target is the template an operation is moving it to, resources *)
(* those DescribeStackResources lists with a PhysicalResourceId.           *)
Stack == [status    : StackStatus,
          template  : Templates,
          target    : Templates,
          resources : SUBSET Resources]

ASSUME ConstantsAssumption ==
    /\ NoObject \notin Object
    /\ NoStack \notin Stack
    /\ Buckets \cap Repositories = {}
    /\ SpecFinalizers \subseteq Finalizers
    /\ MaxEdits \in Nat
    /\ MaxFaults \in Nat

VARIABLES
    obj,           \* the object in the API server
    cache,         \* the informer's copy of it, which the client's Get reads
    cacheCurrent,  \* the copy's resourceVersion is still the server's
    queued,        \* the work queue holds the request
    timer,         \* the delaying queue holds it (AddAfter, AddRateLimited)
    pc,            \* the worker's next call
    inst,          \* Reconcile's variable instance
    instCurrent,   \* its resourceVersion is still the server's
    seen,          \* StackStatus of the stack getStack returned
    todo,          \* the resources deleteStack's loop has yet to visit
    cf,            \* the stack in CloudFormation
    contents,      \* what each resource holds in S3 or ECR
    edits,         \* writes of other clients so far
    faults         \* faults so far

server   == <<obj, cacheCurrent, instCurrent>>
queue    == <<queued, timer>>
instance == <<inst, seen, todo>>
cloud    == <<cf, contents>>
vars     == <<server, cache, queue, pc, instance, cloud, edits, faults>>

Steps == {"describeStack", "createStack", "updateStack",
          "describeResources", "teardown", "write"}

(* The two counters keep within their bounds. *)
WithinBounds ==
    /\ edits \in 0..MaxEdits
    /\ faults \in 0..MaxFaults

TypeOK ==
    /\ obj \in Object \cup {NoObject}
    /\ cache \in Object \cup {NoObject}
    /\ cacheCurrent \in BOOLEAN
    /\ queued \in BOOLEAN
    /\ timer \in BOOLEAN
    /\ pc \in Steps \cup {"idle", "get"}
    /\ inst \in IF pc \in Steps THEN Object ELSE {NoObject}
    /\ instCurrent \in BOOLEAN
    /\ seen \in StackStatus \cup {""}
    /\ todo \in SUBSET Resources
    /\ cf \in Stack \cup {NoStack}
    /\ contents \in [Resources -> {"absent", "empty", "full"}]
    /\ WithinBounds

Init ==
    /\ obj = NoObject
    /\ cache = NoObject
    /\ cacheCurrent = TRUE
    /\ queued = FALSE
    /\ timer = FALSE
    /\ pc = "idle"
    /\ inst = NoObject
    /\ instCurrent = FALSE
    /\ seen = ""
    /\ todo = {}
    /\ cf = NoStack
    /\ contents = [r \in Resources |-> "absent"]
    /\ edits = 0
    /\ faults = 0

-----------------------------------------------------------------------------
(* Other clients of the API server.                                        *)

(* A write gives the object a new resourceVersion, so no copy is current.  *)
Stored(o) ==
    /\ obj' = o
    /\ cacheCurrent' = FALSE
    /\ instCurrent' = FALSE

(* A user, or a controller that owns stacks, creates the object.           *)
UserCreate(t) ==
    /\ obj = NoObject
    /\ Stored([template |-> t, deleting |-> FALSE, finalizers |-> {},
               named |-> FALSE, status |-> ""])
    /\ UNCHANGED <<cache, queue, pc, instance, cloud, edits, faults>>

Edit ==
    /\ edits < MaxEdits
    /\ edits' = edits + 1

(* Another client's update: the template, or (t unchanged) a label.        *)
UserEdit(t) ==
    /\ obj # NoObject
    /\ Edit
    /\ Stored([obj EXCEPT !.template = t])
    /\ UNCHANGED <<cache, queue, pc, instance, cloud, faults>>

(* A delete only marks an object that has finalizers.                      *)
UserDelete ==
    /\ obj # NoObject
    /\ ~obj.deleting
    /\ Stored(IF obj.finalizers = {} THEN NoObject
                                     ELSE [obj EXCEPT !.deleting = TRUE])
    /\ UNCHANGED <<cache, queue, pc, instance, cloud, edits, faults>>

-----------------------------------------------------------------------------
(* The informer and the work queue of controller-runtime.                  *)

(* The watch brings the cache up to date; the event enqueues the request.  *)
CacheSync ==
    /\ ~cacheCurrent
    /\ cache' = obj
    /\ cacheCurrent' = TRUE
    /\ queued' = TRUE
    /\ UNCHANGED <<obj, instCurrent, timer, pc, instance, cloud, edits, faults>>

(* The periodic resync enqueues every object the cache holds.              *)
Resync ==
    /\ cache # NoObject
    /\ ~queued
    /\ queued' = TRUE
    /\ UNCHANGED <<server, cache, timer, pc, instance, cloud, edits, faults>>

TimerFires ==
    /\ timer
    /\ timer' = FALSE
    /\ queued' = TRUE
    /\ UNCHANGED <<server, cache, pc, instance, cloud, edits, faults>>

(* The single worker takes the request; an event that arrives from now on  *)
(* enqueues it again.                                                      *)
Dequeue ==
    /\ pc = "idle"
    /\ queued
    /\ queued' = FALSE
    /\ pc' = "get"
    /\ UNCHANGED <<server, cache, timer, instance, cloud, edits, faults>>

(* Reconcile returns: the request is requeued after a delay, or not.       *)
Return(requeue) ==
    /\ pc' = "idle"
    /\ inst' = NoObject
    /\ seen' = ""
    /\ todo' = {}
    /\ timer' = (timer \/ requeue)
    /\ UNCHANGED <<cache, queued, edits>>

(* Reconcile returns a non-nil error: AddRateLimited.                      *)
ReturnError == Return(TRUE)

Fault ==
    /\ faults < MaxFaults
    /\ faults' = faults + 1

(* The operator dies at any point and is started again: queue, timer and   *)
(* local variables are lost, the informer lists the object afresh.         *)
Crash ==
    /\ Fault
    /\ pc' = "idle"
    /\ inst' = NoObject
    /\ instCurrent' = FALSE
    /\ seen' = ""
    /\ todo' = {}
    /\ cache' = obj
    /\ cacheCurrent' = TRUE
    /\ queued' = (obj # NoObject)
    /\ timer' = FALSE
    /\ UNCHANGED <<obj, cloud, edits>>

-----------------------------------------------------------------------------
(* Reconcile.                                                              *)

(* Faulty form: an object that is not in the cache is reconciled too.      *)
AfterGetUnchecked(o) ==
    IF o # NoObject /\ o.deleting THEN "describeResources" ELSE "describeStack"

AfterGet(o) ==
    CASE o = NoObject                 -> "idle"
      [] o # NoObject /\ o.deleting   -> "describeResources"
      [] o # NoObject /\ ~o.deleting  -> "describeStack"

Get ==
    /\ pc = "get"
    /\ pc' = AfterGet(cache)
    /\ inst' = cache
    /\ instCurrent' = (cache # NoObject /\ cacheCurrent)
    /\ UNCHANGED <<obj, cacheCurrent, cache, queue, seen, todo, cloud, edits, faults>>

(* getStack: the stack is there, or it is not, or the call fails, which    *)
(* Reconcile takes for "not there".                                        *)
GetStack ==
    /\ pc = "describeStack"
    /\ \/ /\ cf # NoStack
          /\ seen' = cf.status
          /\ pc' = "updateStack"
          /\ UNCHANGED faults
       \/ /\ cf = NoStack
          /\ pc' = "createStack"
          /\ UNCHANGED <<seen, faults>>
       \/ /\ Fault
          /\ pc' = "createStack"
          /\ UNCHANGED seen
    /\ UNCHANGED <<server, cache, queue, inst, todo, cloud, edits>>

NewStack(t) == [status |-> "CREATE_IN_PROGRESS", template |-> t, target |-> t,
                resources |-> {}]

(* Faulty form: Status.Name is left for a later pass to record.            *)
RegisteredUnnamed(o) == [o EXCEPT !.finalizers = @ \cup SpecFinalizers]

(* The instance once CreateStack has succeeded: Status.Name and the        *)
(* finalizers, both still only in memory.                                  *)
Registered(o) == [o EXCEPT !.named = TRUE,
                           !.finalizers = @ \cup SpecFinalizers]

CreateStack ==
    /\ pc = "createStack"
    /\ cf = NoStack
    /\ cf' = NewStack(inst.template)
    /\ inst' = Registered(inst)
    /\ pc' = "write"
    /\ UNCHANGED <<server, cache, queue, seen, todo, contents, edits, faults>>

(* CreateStack returns an error: the stack exists, the call failed, or it  *)
(* took effect and only its answer was lost.                               *)
CreateStackFails ==
    /\ pc = "createStack"
    /\ \/ cf # NoStack /\ UNCHANGED <<cf, faults>>
       \/ Fault /\ UNCHANGED cf
       \/ Fault /\ cf = NoStack /\ cf' = NewStack(inst.template)
    /\ instCurrent' = FALSE
    /\ ReturnError
    /\ UNCHANGED <<obj, cacheCurrent, contents>>

(* Faulty form: "state and can not be updated" alone is matched, so that a *)
(* stack with an operation in progress is taken for a rolled back one.     *)
AfterUpdateErrorLoose(status) ==
    IF status \in InProgress \cup {"ROLLBACK_COMPLETE"} THEN "describeResources"
                                                        ELSE "error"

(* What Reconcile does next when UpdateStack rejects a stack in this       *)
(* status: remove a stack whose creation was rolled back, go on if an      *)
(* operation is in progress, else give up.                                 *)
AfterUpdateError(status) ==
    CASE status = "ROLLBACK_COMPLETE"                  -> "describeResources"
      [] status \in InProgress                         -> "write"
      [] status \notin InProgress \cup {"ROLLBACK_COMPLETE"} -> "error"

(* The instance with what getStack returned copied into its status.        *)
Reported(o) == [o EXCEPT !.named = TRUE, !.status = seen]

(* UpdateStack is accepted, or there is nothing to update. *)
UpdateStack ==
    /\ pc = "updateStack"
    /\ cf # NoStack
    /\ cf.status = "COMPLETE"
    /\ cf' = IF cf.template = inst.template THEN cf
             ELSE [cf EXCEPT !.status = "UPDATE_IN_PROGRESS",
                             !.target = inst.template]
    /\ inst' = Reported(inst)
    /\ pc' = "write"
    /\ UNCHANGED <<server, cache, queue, seen, todo, contents, edits, faults>>

(* UpdateStack rejects the stack's status and Reconcile carries on. *)
UpdateStackTolerated ==
    /\ pc = "updateStack"
    /\ cf # NoStack
    /\ cf.status # "COMPLETE"
    /\ AfterUpdateError(cf.status) # "error"
    /\ pc' = AfterUpdateError(cf.status)
    /\ inst' = IF pc' = "write" THEN Reported(inst) ELSE inst
    /\ UNCHANGED <<server, cache, queue, seen, todo, cloud, edits, faults>>

UpdateStackFails ==
    /\ pc = "updateStack"
    /\ \/ cf = NoStack /\ UNCHANGED <<cf, faults>>
       \/ /\ cf # NoStack
          /\ cf.status # "COMPLETE"
          /\ AfterUpdateError(cf.status) = "error"
          /\ UNCHANGED <<cf, faults>>
       \/ Fault /\ UNCHANGED cf
       \/ /\ Fault
          /\ cf # NoStack
          /\ cf.status = "COMPLETE"
          /\ cf' = [cf EXCEPT !.status = "UPDATE_IN_PROGRESS",
                              !.target = inst.template]
    /\ instCurrent' = FALSE
    /\ ReturnError
    /\ UNCHANGED <<obj, cacheCurrent, contents>>

-----------------------------------------------------------------------------
(* deleteStack, for an object that is being deleted and for a stack whose  *)
(* creation was rolled back.                                               *)

(* Faulty form: a stack that is already gone is an error like any other.   *)
ListableStrict == inst.named /\ cf # NoStack

(* DescribeStackResources answers or says that the stack does not exist;   *)
(* an empty stack name is refused.                                         *)
Listable == inst.named

DescribeResources ==
    /\ pc = "describeResources"
    /\ Listable
    /\ todo' = IF cf = NoStack THEN {} ELSE cf.resources
    /\ pc' = "teardown"
    /\ UNCHANGED <<server, cache, queue, inst, seen, cloud, edits, faults>>

DescribeResourcesFails ==
    /\ pc = "describeResources"
    /\ \/ ~Listable /\ UNCHANGED faults
       \/ Fault
    /\ instCurrent' = FALSE
    /\ ReturnError
    /\ UNCHANGED <<obj, cacheCurrent, cloud>>

(* Faulty form: the finalizer goes whether or not the resource went.       *)
CleanedAlways(r, gone) ==
    [inst EXCEPT !.finalizers = @ \ {CleanupFinalizer(r)}]

(* deleteResourceAndRemoveFinalizer, once deleteFunc has returned.         *)
Cleaned(r, gone) ==
    IF gone THEN [inst EXCEPT !.finalizers = @ \ {CleanupFinalizer(r)}] ELSE inst

(* One turn of the loop over the stack's resources.  A resource whose      *)
(* finalizer the instance does not hold is passed over; deleting one that  *)
(* is not there is an error, and the loop drops every error.               *)
CleanResource(r) ==
    /\ pc = "teardown"
    /\ r \in todo
    /\ todo' = todo \ {r}
    /\ \/ /\ CleanupFinalizer(r) \notin inst.finalizers
          /\ UNCHANGED <<inst, contents, faults>>
       \/ /\ CleanupFinalizer(r) \in inst.finalizers
          /\ contents[r] # "absent"
          /\ contents' = [contents EXCEPT ![r] = "absent"]
          /\ inst' = Cleaned(r, TRUE)
          /\ UNCHANGED faults
       \/ /\ CleanupFinalizer(r) \in inst.finalizers
          /\ contents[r] = "absent"
          /\ inst' = Cleaned(r, FALSE)
          /\ UNCHANGED <<contents, faults>>
       \/ /\ CleanupFinalizer(r) \in inst.finalizers
          /\ contents[r] # "absent"
          /\ Fault
          /\ inst' = Cleaned(r, FALSE)
          /\ \/ UNCHANGED contents
             \/ r \in Buckets /\ contents' = [contents EXCEPT ![r] = "empty"]
    /\ UNCHANGED <<server, cache, queue, pc, seen, cf, edits>>

(* Faulty form: DeleteStack is left out while the stack is being created.  *)
StackAfterDeleteUnlessCreating ==
    IF cf # NoStack /\ cf.status # "CREATE_IN_PROGRESS"
    THEN [cf EXCEPT !.status = "DELETE_IN_PROGRESS"] ELSE cf

(* DeleteStack of a stack that is not there succeeds and does nothing.     *)
StackAfterDelete ==
    IF cf = NoStack THEN NoStack ELSE [cf EXCEPT !.status = "DELETE_IN_PROGRESS"]

(* The instance without the stack finalizer, which deleteStack drops       *)
(* before it calls DeleteStack; the rollback path then reports the status. *)
Released ==
    LET o == [inst EXCEPT !.finalizers = @ \ {StackFinalizer}]
    IN  IF inst.deleting THEN o ELSE Reported(o)

DeleteStack ==
    /\ pc = "teardown"
    /\ todo = {}
    /\ cf' = StackAfterDelete
    /\ inst' = Released
    /\ pc' = "write"
    /\ UNCHANGED <<server, cache, queue, seen, todo, contents, edits, faults>>

(* Faulty form: DeleteStack's error is logged and the object written.      *)
AfterDeleteErrorLogged ==
    /\ pc' = "write"
    /\ inst' = Released
    /\ UNCHANGED <<server, cache, queue, seen, todo, edits>>

AfterDeleteError ==
    /\ instCurrent' = FALSE
    /\ ReturnError
    /\ UNCHANGED <<obj, cacheCurrent>>

(* DeleteStack returns an error: the call failed, or its answer was lost,  *)
(* or CloudFormation refuses, as it may while it is updating the stack.    *)
DeleteStackFails ==
    /\ pc = "teardown"
    /\ todo = {}
    /\ \/ /\ cf # NoStack
          /\ cf.status = "UPDATE_IN_PROGRESS"
          /\ UNCHANGED <<cf, faults>>
       \/ Fault /\ UNCHANGED cf
       \/ Fault /\ cf' = StackAfterDelete
    /\ AfterDeleteError
    /\ UNCHANGED contents

-----------------------------------------------------------------------------
(* The Update at the end of Reconcile.                                     *)

(* Faulty form: the resourceVersion is refreshed before the write.         *)
UpdatableUnversioned == obj # NoObject

(* The API server takes an update only of the version it holds.            *)
Updatable == instCurrent

(* An update that changes nothing keeps the resourceVersion; one that      *)
(* takes the last finalizer off a marked object removes it.                *)
UpdateApplied ==
    /\ Updatable
    /\ obj' = IF inst.deleting /\ inst.finalizers = {} THEN NoObject ELSE inst
    /\ cacheCurrent' = (cacheCurrent /\ inst = obj)

(* Faulty form: the result asks for no requeue.                            *)
RequeueNever == FALSE

(* Requeue after ten seconds, unless the object is being deleted.          *)
RequeueAfterUpdate == ~inst.deleting

Update ==
    /\ pc = "write"
    /\ UpdateApplied
    /\ instCurrent' = FALSE
    /\ Return(RequeueAfterUpdate)
    /\ UNCHANGED <<cloud, faults>>

(* A conflict, an object that is gone, a failed call or a lost answer.     *)
UpdateFails ==
    /\ pc = "write"
    /\ \/ ~Updatable /\ UNCHANGED <<obj, cacheCurrent, faults>>
       \/ Fault /\ UNCHANGED <<obj, cacheCurrent>>
       \/ Fault /\ UpdateApplied
    /\ instCurrent' = FALSE
    /\ ReturnError
    /\ UNCHANGED cloud

-----------------------------------------------------------------------------
(* CloudFormation and the workloads that use the stack's resources.        *)

(* A resource is created and gets its PhysicalResourceId. *)
CloudCreatesResource(r) ==
    /\ cf # NoStack
    /\ cf.status = "CREATE_IN_PROGRESS"
    /\ r \in Resources \ cf.resources
    /\ cf' = [cf EXCEPT !.resources = @ \cup {r}]
    /\ contents' = [contents EXCEPT ![r] = "empty"]
    /\ UNCHANGED <<server, cache, queue, pc, instance, edits, faults>>

CloudFinishesCreate ==
    /\ cf # NoStack
    /\ cf.status = "CREATE_IN_PROGRESS"
    /\ cf.resources = Resources
    /\ cf' = [cf EXCEPT !.status = "COMPLETE"]
    /\ UNCHANGED <<server, cache, queue, pc, instance, contents, edits, faults>>

(* The creation fails and is rolled back, which may fail as well. *)
CloudFailsCreate ==
    /\ cf # NoStack
    /\ cf.status = "CREATE_IN_PROGRESS"
    /\ Fault
    /\ \/ /\ cf' = [cf EXCEPT !.status = "ROLLBACK_COMPLETE"]
          /\ contents' = [r \in Resources |-> "absent"]
       \/ /\ cf' = [cf EXCEPT !.status = "ROLLBACK_FAILED"]
          /\ UNCHANGED contents
    /\ UNCHANGED <<server, cache, queue, pc, instance, edits>>

CloudFinishesUpdate ==
    /\ cf # NoStack
    /\ cf.status = "UPDATE_IN_PROGRESS"
    /\ cf' = [cf EXCEPT !.status = "COMPLETE", !.template = cf.target]
    /\ UNCHANGED <<server, cache, queue, pc, instance, contents, edits, faults>>

(* The update fails and the old template is restored, or cannot be. *)
CloudFailsUpdate ==
    /\ cf # NoStack
    /\ cf.status = "UPDATE_IN_PROGRESS"
    /\ Fault
    /\ \E s \in {"COMPLETE", "ROLLBACK_FAILED"} :
          cf' = [cf EXCEPT !.status = s, !.target = cf.template]
    /\ UNCHANGED <<server, cache, queue, pc, instance, contents, edits>>

(* A deletion removes what it can: not a bucket or repository in use. *)
CloudFinishesDelete ==
    /\ cf # NoStack
    /\ cf.status = "DELETE_IN_PROGRESS"
    /\ LET kept == {r \in Resources : contents[r] = "full"}
       IN  /\ cf' = IF kept = {} THEN NoStack
                    ELSE [cf EXCEPT !.status = "DELETE_FAILED"]
           /\ contents' = [r \in Resources |->
                             IF r \in kept THEN "full" ELSE "absent"]
    /\ UNCHANGED <<server, cache, queue, pc, instance, edits, faults>>

CloudFailsDelete ==
    /\ cf # NoStack
    /\ cf.status = "DELETE_IN_PROGRESS"
    /\ Fault
    /\ cf' = [cf EXCEPT !.status = "DELETE_FAILED"]
    /\ UNCHANGED <<server, cache, queue, pc, instance, contents, edits>>

(* A build pushes an artifact or an image. *)
WorkloadFills(r) ==
    /\ contents[r] = "empty"
    /\ contents' = [contents EXCEPT ![r] = "full"]
    /\ UNCHANGED <<server, cache, queue, pc, instance, cf, edits, faults>>

-----------------------------------------------------------------------------
Environment ==
    \/ \E t \in Templates : UserCreate(t) \/ UserEdit(t)
    \/ UserDelete
    \/ \E r \in Resources : WorkloadFills(r)
    \/ CloudFailsCreate \/ CloudFailsUpdate \/ CloudFailsDelete

Cloud ==
    \/ \E r \in Resources : CloudCreatesResource(r)
    \/ CloudFinishesCreate \/ CloudFinishesUpdate \/ CloudFinishesDelete

Reconcile ==
    \/ Dequeue \/ Get \/ GetStack
    \/ CreateStack \/ CreateStackFails
    \/ UpdateStack \/ UpdateStackTolerated \/ UpdateStackFails
    \/ DescribeResources \/ DescribeResourcesFails
    \/ \E r \in Resources : CleanResource(r)
    \/ DeleteStack \/ DeleteStackFails
    \/ Update \/ UpdateFails

Next ==
    \/ Environment \/ Cloud \/ Reconcile
    \/ CacheSync \/ TimerFires \/ Resync \/ Crash

Spec == Init /\ [][Next]_vars

(* The worker keeps running, the informer keeps delivering, armed timers   *)
(* fire and CloudFormation finishes what it started.  Users, workloads,    *)
(* faults and the ten-hour resync need not do anything.                    *)
Fairness == /\ WF_vars(Reconcile)
            /\ WF_vars(CacheSync)
            /\ WF_vars(TimerFires)
            /\ WF_vars(Cloud)

FairSpec == Spec /\ Fairness

(* The resync is added for the statements that not even it makes true.     *)
ResyncFairSpec == FairSpec /\ WF_vars(Resync)

-----------------------------------------------------------------------------
(* Safety.                                                                 *)

Exists(o) == o # NoObject

(* A step after which the stored object no longer holds the finalizer.     *)
Holds(o, finalizer) == Exists(o) /\ finalizer \in o.finalizers
Releases(finalizer) == Holds(obj, finalizer) /\ ~Holds(obj', finalizer)

StackStanding == cf # NoStack /\ cf.status \in Standing

(* An object that holds a finalizer also holds its stack's name: without   *)
(* Status.Name deleteStack cannot find the stack and fails for ever, so    *)
(* the object could never be deleted.                                      *)
GuardedIsNamed ==
    (Exists(obj) /\ obj.finalizers # {}) => obj.named

(* The Update at the end of Reconcile neither undoes another client's      *)
(* change of the spec, nor revives an object that is marked for deletion   *)
(* or gone, however old the copy is that Reconcile started from.           *)
SpecKept ==
    pc = "write" /\ pc' = "idle" /\ Exists(obj') =>
        /\ Exists(obj)
        /\ obj'.template = obj.template
        /\ obj'.deleting = obj.deleting

OperatorKeepsSpec == [][SpecKept]_vars

(* The stack finalizer leaves the stored object only when CloudFormation   *)
(* has no stack, or has been asked to delete it: whatever fails, is        *)
(* repeated or is lost on the way, no stack is left standing unguarded by  *)
(* the removal of its finalizer.                                           *)
ReleasedAfterTeardown == Releases(StackFinalizer) => ~StackStanding

TeardownBeforeRelease == [][ReleasedAfterTeardown]_vars

(* The buckets and container registry finalizers leave the stored object   *)
(* only after deleteStack has deleted a resource of that type: a failed or *)
(* repeated deletion, a lost answer or a stale copy never drops one.  In a *)
(* template with several buckets the first stands for all of them.         *)
ReleasedAfterCleanup ==
    \A finalizer \in {BucketsFinalizer, RegistryFinalizer} :
       Releases(finalizer) =>
          \E r \in Resources : CleanupFinalizer(r) = finalizer /\ contents[r] = "absent"

ResourceGoneBeforeRelease == [][ReleasedAfterCleanup]_vars

(* The operator asks CloudFormation to delete a standing stack only for an *)
(* object that is marked for deletion or gone, or to make room for the     *)
(* stack that a rolled back creation left behind: the marked object that a *)
(* stale cache still shows never costs a recreated object its stack.       *)
TeardownIsDue ==
    StackStanding /\ cf' # NoStack /\ cf'.status = "DELETE_IN_PROGRESS" =>
        \/ ~Exists(obj)
        \/ obj.deleting
        \/ cf.status = "ROLLBACK_COMPLETE"

NoTeardownOfWantedStack == [][TeardownIsDue]_vars

(* The abstract life of an object and its stack.                           *)
Claim == CASE ~Exists(obj)                -> "none"
           [] Exists(obj) /\ obj.deleting  -> "deleting"
           [] Exists(obj) /\ ~obj.deleting -> "wanted"

StackPhase == CASE cf = NoStack -> "none"
                [] cf # NoStack /\ cf.status \notin Standing -> "going"
                [] cf # NoStack /\ cf.status = "ROLLBACK_COMPLETE" -> "rolledback"
                [] StackStanding /\ cf.status # "ROLLBACK_COMPLETE" -> "standing"

Abstract == INSTANCE GuardedStack WITH
    claim   <- Claim,
    guarded <- Holds(obj, StackFinalizer),
    stack   <- StackPhase

(* The controller with its cache, queue and failures implements what       *)
(* GuardedStack says of an object and its stack in one place: the guard is *)
(* set only for a stack that has been created, and dropped only once its   *)
(* teardown has been asked for; a stack somebody wants is left alone.      *)
ImplementsGuardedStack == Abstract!Spec

-----------------------------------------------------------------------------
(* The inductive invariant behind the safety properties.                   *)

Named(o) == (Exists(o) /\ o.finalizers # {}) => o.named

(* A copy that carries the stored resourceVersion carries the stored spec. *)
CopiesAgree ==
    /\ cacheCurrent => cache = obj
    /\ instCurrent => /\ pc \in Steps
                      /\ Exists(obj)
                      /\ inst.template = obj.template
                      /\ inst.deleting = obj.deleting

(* The API server keeps a marked object only as long as it has finalizers. *)
MarkedIsHeld == Exists(obj) /\ obj.deleting => obj.finalizers # {}

(* No copy of the object holds a finalizer without its stack's name.       *)
CopiesNamed ==
    /\ Named(obj)
    /\ Named(cache)
    /\ pc \in Steps => Named(inst)

(* Which calls a pass makes for an object it found marked, and which for   *)
(* one it did not.                                                         *)
PathFollowsMark ==
    /\ pc \in {"describeStack", "createStack", "updateStack"} => ~inst.deleting
    /\ pc \in {"describeResources", "teardown"} /\ ~inst.deleting
         => cf # NoStack /\ cf.status = "ROLLBACK_COMPLETE"

(* A pass that is about to write the object without the stack finalizer    *)
(* has torn the stack down, one about to add it has created the stack.     *)
FinalizerFollowsStack ==
    pc \in Steps /\ instCurrent =>
       /\ Holds(obj, StackFinalizer) /\ StackFinalizer \notin inst.finalizers
            => pc = "write" /\ ~StackStanding
       /\ ~Holds(obj, StackFinalizer) /\ StackFinalizer \in inst.finalizers
            => pc = "write" /\ StackStanding /\ ~inst.deleting

MarkGone == ~Exists(obj) \/ ~obj.deleting

(* A copy that still shows the mark of an earlier incarnation of the       *)
(* object does so only while no stack stands.                              *)
StaleMarkHarmless ==
    /\ pc = "write" /\ inst.deleting => ~StackStanding
    /\ pc \in Steps /\ inst.deleting /\ MarkGone => ~StackStanding
    /\ Exists(cache) /\ cache.deleting /\ MarkGone
         => /\ ~StackStanding
            /\ pc \in Steps => inst.deleting

(* What the API server, the cache, the pass under way and CloudFormation   *)
(* may show at the same time: no stale copy of the object can make         *)
(* deleteStack or the final Update act against the object stored now.      *)
Consistent ==
    /\ CopiesAgree
    /\ MarkedIsHeld
    /\ CopiesNamed
    /\ PathFollowsMark
    /\ FinalizerFollowsStack
    /\ StaleMarkHarmless

Inv == TypeOK /\ Consistent

-----------------------------------------------------------------------------
(* Liveness.                                                               *)

Wanted(t) == Exists(obj) /\ ~obj.deleting /\ obj.template = t

Deployed(t) == cf # NoStack /\ cf.status = "COMPLETE" /\ cf.template = t

(* The states of a stack from which no reconcile of an object that is not  *)
(* being deleted ever recovers.                                            *)
Stuck ==
    /\ cf # NoStack
    /\ \/ cf.status \in {"ROLLBACK_FAILED", "DELETE_FAILED"}
       \/ cf.status = "ROLLBACK_COMPLETE" /\ Exists(obj) /\ ~obj.named

(* A template that stays in the object is deployed, through failed calls,  *)
(* conflicting writes, restarts and edits that arrive while CloudFormation *)
(* is busy with an earlier one, unless the stack is stuck.                 *)
EditDeployed ==
    \A t \in Templates : Wanted(t) ~> (~Wanted(t) \/ Deployed(t) \/ Stuck)

(* An object that is marked for deletion goes away: with the stack         *)
(* finalizer alone, no crash, lost answer or stack that is already gone    *)
(* leaves it in the API server for ever.                                   *)
DeletionCompletes ==
    (Exists(obj) /\ obj.deleting) ~> ~(Exists(obj) /\ obj.deleting)

(* The stack of an object that is marked for deletion is deleted, or       *)
(* CloudFormation reports that it could not delete it.                     *)
TeardownHappens ==
    (Exists(obj) /\ obj.deleting)
      ~> (cf = NoStack \/ cf.status = "DELETE_FAILED")

(* Line 301: the finalizers of an object go even if its stack is already   *)
(* deleted, "need to carry on to remove all the finalizers".               *)
AllFinalizersRemoved ==
    (Exists(obj) /\ obj.deleting /\ cf = NoStack)
      ~> ~(Exists(obj) /\ obj.deleting)
=============================================================================
