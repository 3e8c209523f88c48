# A TLA+ model of the Polaris operator

The operator is one Go process that runs six Kubernetes controllers. They turn
custom resources of a namespace (source repositories, container registries,
build pipelines, build steps) into CloudFormation stacks, and rewrite the image
names of pods. This directory holds a model of the controllers that change
state, TLC configurations that check it on small instances, and TLAPS proofs of
the safety properties that matter most. Paths are relative to the repository.

## 1. Inventory

| Part | State it keeps | Operations | Module |
|---|---|---|---|
| `pkg/controller/polarisstack` | a PolarisStack object's spec, finalizers, `Status.Name`, `Status.Status`; the CloudFormation stack | create, update, describe, delete the stack; empty buckets and image repositories first | `PolarisStack` |
| `pkg/controller/polarisbuildstep` | a step's finalizer and owner; a pipeline's builds and finalizers | merge a step's builds into its pipeline; take them out | `BuildSteps` |
| `pkg/controller/polarisbuildpipeline` | the stack object of a pipeline | create it, overwrite its spec | `StackOwner`, kind `pipeline` |
| `pkg/controller/polariscontainerregistry` | the stack object of a registry | create it | `StackOwner`, kind `registry` |
| `pkg/controller/polarissourcerepository` | the stack object of a repository | create it | `StackOwner`, kind `repository` |
| `pkg/controller/polarispodimageresolver` | the images of a labelled pod | replace `polaris://` by the registry's host | `ImageResolver` |
| `cmd/manager/main.go` and the SDK's `leader` | the lock, a ConfigMap | become the leader, ask for the environment, start the controllers | `Leader`, `Operator` |
| `pkg/utils/environment.go` | account and region of the process | `Populate` them once from AWS | `ImageResolver`, `Operator` |
| `pkg/utils/operatortools.go`, `utils.go` | none | finalizer helpers; templates and names | finalizers in `PolarisStack`, `BuildSteps`; rendering in `Delivery` |
| `pkg/controller/*.go` | none | each controller is added to the manager | `Operator`, as one step of the start |
| `pkg/apis`, `deploy` | none | types, generated copies, manifests | not modelled |

The controllers never call each other. They meet in the API server: the three
owners write PolarisStack objects that the stack controller writes as well, and
build steps write pipelines whose controller reads them. `Delivery` composes
that chain, step to pipeline to stack object to CloudFormation stack, and its
way back. Each controller has an
informer cache that lags behind the API server, a work queue that holds a
request once, one worker, and a delaying queue for errors and for the
ten-second requeue of the stack controller.

What is hard in this code:

* **Stale copies.** `Get` reads a cache; many calls later the whole object is
  written back. Only the `resourceVersion` check of the API server stands
  between an old copy and the stored object.
* **Several effects per pass, no transaction.** CloudFormation first, then the
  object (`polarisstack_controller.go` 145, 191); the pipeline first, then the
  step (`polarisbuildstep_controller.go` 139/146, 195/204). Either may fail, or
  take effect without its answer arriving, and the process may die in between.
* **Finalizers.** They are what makes a deletion wait, are added to a copy in
  memory, and reach the API server only with the last write of a pass.
* **Deleting and creating again.** An object of the same name may be a new
  incarnation while the cache shows the old one, marked for deletion.
* **Lost wake-ups.** A pass that ends without an error and without a requeue is
  only repeated when an event says so, and not every object is watched.
* **Chains.** A build goes through three controllers and three caches, a
  deletion comes back through finalizers, owner references and the garbage
  collector; names are used again before the last link has noticed.
* **Two processes.** One of several pods is to run the controllers. A process
  sets its controllers up before it knows its AWS account.

What makes each part correct:

* stack controller: the finalizers of an object and the state of its stack stay
  in step; edits and deletions by others are never undone; a wanted stack is
  never torn down; a template that stays is deployed; a deletion completes;
* build steps: steps that share a pipeline do not lose or double each other's
  builds; the two objects are tied to each other and parted in the right order
  (`Membership` says in which);
* stack owners: only the spec of a stack is written; the spec arrives and every
  owner has a stack, unless a marked one never goes; no stack outlives its owner;
* the three in a chain: a step's build is deployed, with the same exception; the
  stack of a living step is not torn down, that of a retired pipeline is;
* image resolver: a pass changes the images of a labelled pod and undoes no
  other writer, every such pod is resolved, and never with a host of no account;
* leader: one process runs the controllers, and somebody does.

`PROJECT.json` lists the hazards of the code at their lines, with the
properties that would catch each of them going wrong.

## 2. Modules

| Module | What it holds |
|---|---|
| `PolarisStack` | the stack controller, its environment, its properties and the invariant `Consistent` |
| `GuardedStack` | what it promises of one object and its stack: no queue, cache or failures |
| `PolarisStackProofs` | type correctness, the inductive invariant, the safety theorems |
| `PolarisStackRefinement` | `PolarisStack` implements `GuardedStack` |
| `BuildLists` | what a merge and a removal compute of a pipeline's list of builds |
| `BuildListProofs` | an induction principle for loops, and what the two lists contain |
| `BuildSteps` | the build step controller with any number of steps and pipelines |
| `Membership` | what it promises of steps and the pipelines they name: no queue, cache or failures |
| `BuildStepsProofs` | its inductive invariant, its safety theorems, and that it implements `Membership` |
| `StackOwner` | the loop shared by the pipeline, registry and repository controllers |
| `StackOwnerProofs` | type correctness, what its copies are worth, and that the owner's write to a stack object undoes nobody else's |
| `Delivery` | the step, pipeline and stack controllers composed with CloudFormation, users and the garbage collector |
| `DeliveryProofs` | its inductive invariant, that held steps keep their stack, and that it implements `GuardedStack` and `Membership` |
| `Leader` | the lock protocol of `leader.Become`, and main's use of its result |
| `LeaderProofs` | only a failed request lets a process past the lock |
| `ImageResolver` | the pod image controller of each process, and the environment it reads |
| `Operator` | `Leader` and `ImageResolver` composed: a process from the lock to its controllers |
| `OperatorProofs` | the resolver undoes no other writer and names no host of no account; the composition keeps what `LeaderProofs` shows |
| `MC...` | constants for TLC |

A definition named "Faulty form" in the comment before it is not part of the
model. It is a plausible mistake in the definition that follows, and is used to
see that the properties would notice it.

### Conventions shared by the modules

* *One step per call that leaves the process.* A pass of `Reconcile` is split
  where another client, AWS or a crash can come in between: at each write to
  the API server and each AWS call. Code between two such calls is one step.
* *Copies.* A `...Current` or `...Synced` variable says that a copy still has
  the stored `resourceVersion`. A write by anybody ends that, and the API
  server takes an update only of a current copy. This replaces version numbers,
  which would grow without bound.
* *Failures.* A fault is a failed call, a call that took effect although its
  answer was lost, a failed AWS operation, or a crash. Faults are counted
  against `MaxFaults`. Conflicts, `AlreadyExists` and the like are no faults:
  they are what the API server answers in the state it is in.
* *Crash.* The process dies between any two steps and is started again: local
  variables, queue and timers are lost, the informers list everything and
  enqueue it. That is the whole of the operator's recovery.
* *Users.* They create, edit and delete any object at any time. Edits are
  counted against `MaxEdits`; creation and deletion need no bound (but see
  `MaxUids` and `MaxCreated` below).

### PolarisStack and the code

| Model | `polarisstack_controller.go` |
|---|---|
| `Dequeue`, `Get`, `AfterGet` | 82-108; the worker of controller-runtime |
| `GetStack` | 122-141, `getStack` 246-263: an error is taken for "no stack" |
| `CreateStack`, `CreateStackFails`, `Registered` | 141-153, `createStack` |
| `UpdateStack`, `UpdateStackTolerated`, `UpdateStackFails`, `AfterUpdateError` | 155-189, `updateStack` |
| `DescribeResources`, `DescribeResourcesFails`, `Listable` | 287-306, `deleteStack` |
| `CleanResource`, `Cleaned`, `CleanupFinalizer` | 308-355, `deleteResourceAndRemoveFinalizer` |
| `DeleteStack`, `DeleteStackFails`, `Released` | 357-373 |
| `Update`, `UpdateFails`, `RequeueAfterUpdate` | 191-196, and 106-117 for a marked object |

`Object` is the stored resource with `template` for `Spec.Template` and its
parameters. `cf` is the stack, `contents` what each bucket or image repository
holds. `CleanResource`
takes listing and deleting a bucket's objects and `DeleteBucket` (317-337) as one
call, which succeeds or fails: where it stops in between, and whether its answer
is lost, no property tells apart, as the loop drops the error and the bucket is
cleaned again while it is there.
CloudFormation's statuses are merged where `UpdateStack` and
`DeleteStack` answer alike. The code tells them apart by error text; the model
keeps the outcome of that comparison for each status. Template text, parameters,
outputs and logging are left out. Objects of other names share nothing with
this one but the worker.

### BuildSteps and the code

| Model | `polarisbuildstep_controller.go` |
|---|---|
| `NotFound`, `Refuse`, `Start` | 75-104 and 154-161: both reads, and the errors before the first write |
| `Joined`, `Merged` (`BuildLists`) | 154-193, `AddFinalizer` |
| `Parted`, `Removed` (`BuildLists`) | 107-137, `RemoveFinalizer` |
| `UpdatePipeline`, `UpdatePipelineFails` | 137-142 and 193-198 |
| `UpdateStep`, `UpdateStepFails` | 144-151 and 200-213 |

Two caches lag independently. The reads of the step and of the pipeline are one
step: an event between them equals one before or after, as the caches are
separate. `uid` tells incarnations of a pipeline apart, `held` is the step's own
finalizer, `finalizers` the steps that a pipeline carries a finalizer for. The
garbage collector is not an action, because `HeldStepHasPipeline` shows that it
never has a live step to delete. `Status.Status`, a constant text, is left out.

A step may name another pipeline after an edit; `OwnedByOther` refuses it then, on
every pass (154-161), and `BuildsMerged` does not promise it anything. The runs
have one pipeline each and never come there. A second pipeline multiplies the
states beyond what the runs can explore with the edits, incarnations and faults that
their properties are about; one step, two pipelines and no user's write to them
(551 k states) were explored once, and every property of `step_safety` and
`step_merge` holds there. The theorems are about any number of pipelines.

### StackOwner and the code

The three `Reconcile` functions are the same loop (pipeline 263-325, registry
and repository 105-154). `kind`, fixed in `Init`, says which one runs;
`UpdatesSpec` and `WatchesStacks` are their only differences. `StartCreate`,
`StartUpdate` and `NothingToDo` read both caches and decide; `Write` and
`WriteFails` are `Create` or `Update`. The stack controller appears as `Guard`
(it writes its finalizers) and `Release` (the last of them is taken away, which may
never happen: see fairness), the garbage collector as `CollectGarbage`. An owner that waits for its finalizers is
one that still exists: this loop reads neither finalizers nor deletion marks. A
stack is represented by the owner's spec it was rendered from, so different
specs are taken to render different stacks.

### Leader and the code

`GetLock` is the Get of `leader.Become`, `CreateLock` the Create that is retried
until it succeeds, `BecomeFails` any other error, whose result `main.go:59`
drops. `CollectLock` is the garbage collector: the ConfigMap's owner is the pod.
A pod name that still appears in a lock is not used again.

### ImageResolver, Operator and the code

| Model | Code |
|---|---|
| `Populate`, `RegionOf`, `Blank` | `environment.go` 13-49; main 93-96 |
| `StartManager` | main 101: the informer lists the pods |
| `Ignore` | `polarispodimageresolver_controller.go` 77-100, and pods with nothing to do |
| `Fix`, `Fixed`, `Resolved`, `Interesting` | 91-111 |
| `Update`, `UpdateFails` | 113-121 |
| `OperatorNext` | main 58-105: lock, environment and controllers in this order |

An image is the sequence of its parts, and the environment of the process that
resolved it stands for the registry's host. `Populate` may find no metadata
service, which leaves the default region; a failed STS call ends the process,
which is a `ContainerRestarts`. `RegionOf` is what the code
computes, the whole availability zone, although the comment above it
(`environment.go:43`) says that its last character is dropped. No property says that
a region is right: `ImagesTypeOK` takes any beginning of a zone and would hold
either way, and `HostsAreNamed` and `ImagesResolved` speak of the account and of the
scheme. Every process has its own cache, queue and worker. A pod
that ends or a container that restarts loses all of them and the environment.

### Delivery and the code

`Join` and `Part` are a pass of the build step controller up to its write of the
pipeline, `Serve(s)` its write of the step. `Provide` is a pass of the pipeline
controller. `CreateStack`, `UpdateStack`, `DeleteStack` are the call that a pass
of the stack controller makes to CloudFormation, `Serve("stack")` the write of the
object that follows. Each works on `seen`, the copy in the cache.

A pipeline's stack object has two finalizers
(`polarisbuildpipeline_controller.go` 346-349): `guarded` is that of the stack,
`buckets` that of the template's ArtifactBucket (94). `DeleteStack` is
`deleteStack` with its loop over the resources (308-355): it takes `buckets` away
only in a pass that finds the bucket listed and deletes it (`Cleanable`,
`CleansBucket`), goes on when that fails, and takes `guarded` away in any case.
`DeleteStackFails` is the pass that has deleted the bucket and then returns the
error of `DeleteStack`. CloudFormation makes the bucket while it creates the
stack (`CloudMakesBucket`), and fails to delete a stack whose bucket may hold
objects (`CloudDeletes`, DELETE_FAILED). A marked object goes when neither
finalizer is left, which may be never (`StackStranded`).

`Delivery` is coarser than the modules of the single controllers, and this is
what it abstracts from. A write of a stale copy is refused and the request
repeated, so only accepted writes of a first object are steps, and they act on
the stored object: `BuildSteps` and `StackOwner` take these passes apart and show
that refused and failed ones do no harm. A pass's *second* write, where another
object was changed before, keeps its copy, its conflict and its failure. The
stack controller's status is left out, and rolled back creations, failed updates
and a registry's finalizer are in `PolarisStack` only. A template is the set of
resources and pipeline actions that the Go template names for a list of builds.
A step has one build, of its own name. The resync is not there at all: every
property that something happens is reached by events and retries alone.

## 3. Runs

| Run | Instance | What it shows |
|---|---|---|
| `stack_safety` | all three finalizers, a bucket, a repository, two templates, one edit, two faults; 1.8 M states | type, `GuardedIsNamed`, `Consistent`, the four action properties, refinement of `GuardedStack` |
| `stack_liveness` | stack finalizer only, two templates, one edit, one fault; 238 k states | `EditDeployed`, `DeletionCompletes`, `TeardownHappens` |
| `stack_finalizer_stuck` | a bucket, no fault | **violated**: with the stack gone nothing removes the buckets finalizer |
| `step_safety` | two steps, each with a build of its own and one of a shared name, one pipeline with a build of the user's, one edit of it, one fault; 1.8 M states | `HeldStepHasPipeline`, `NoDuplicateBuilds`, `OthersKept`, `OwnBuildsWritten`, `PartedBeforeRelease` |
| `step_merge` | one step, two incarnations of a pipeline, one edit of each, one fault; 229 k states | `BuildsMerged`, `StepDeletionCompletes`, refinement of `Membership` (`StepsKeepMembership`) across incarnations |
| `step_stuck` | one step, one pipeline, no fault | **violated**: a step whose pipeline went first is never deleted |
| `step_pipeline_held` | the same, with the resync | **violated**: a step deleted between two writes holds its pipeline for ever |
| `owned_stack` | each of the three kinds, two specs, two incarnations, one edit, one fault; 222 k states | `CopiesAgree`, `WritesOnlySpec`, `SpecReachesStack`, `StackProvided`, `NoStackLeftBehind` |
| `delivery` | one step, three creations of steps and pipelines, one crash, failed call or deleted stack object; 465 k states | `Coherent`, `HeldStepKeepsCloud`, refinement of `GuardedStack` and of `Membership` (`ChainKeepsGuard`, `ChainKeepsMembership`), `BuildDeployed`, `DeletionArrives` |
| `delivery_unguarded` | two steps, a pipeline, no fault | **violated**: the pipeline controller's write outdates the stack controller's, and the stack never gets its finalizer |
| `operator` | two pods of the operator, one failed request; a pod with three writes of others and one failed write, two zones; 345 k states | `OnlyFaultsPass`, `SomebodyLeads`, `HostsAreNamed`, `PassOnlyResolves`, `ImagesResolved` |
| `leader_ignored` | four pods, one fault | **violated**: two processes run the controllers |

There are twelve, chosen so that the whole suite runs in minutes.

**Bounds.** One object, pipeline or owner is enough where different names share
nothing. Two steps are what it takes to conflict over a pipeline. Two templates,
specs or build contents tell an old value from a new one, and two incarnations
an old object from a new one. One edit is enough for a write to meet a stale
copy, and one fault for each place where a call can fail or its answer be lost.
`stack_safety` has two, so that a second failure meets the state left by the
first. One bucket and one repository exercise both cleanup finalizers. Creations
and deletions are not bounded, so that runs contain arbitrarily long histories,
except for pipelines in `BuildSteps` by `MaxUids` and for steps and pipelines in
`Delivery` by `MaxCreated`. Three creations there are a step, a pipeline, and a
second incarnation of either. Two steps in `Delivery` multiply the states by ten;
its safety properties hold there too, and are proved for any number. Three
writes of others to a pod are its creation, one that meets a pass and one that
meets the retry; two processes are enough for both to be past the lock, one by
a failed request, and to resolve the same pod. Permuting the templates (`stack_safety`) or the
steps, each with a build of its own name (`step_safety`), is a symmetry, used
only where no liveness is checked.

**Deadlock** is checked where the bounded events cannot run out with the rest.
`CHECK_DEADLOCK FALSE` stands in the two configurations of `Delivery`: when the
creations are used up and everything has been delivered or deleted, nothing
happens there any more, and nothing should.

**Fairness.** What is assumed to keep going: the worker's pass (`Reconcile`
returns and AWS calls end), the informers' watches, armed timers, and
CloudFormation's operations. Each is weak fairness. In `BuildSteps` a queued
request is served with strong fairness: other requests may take the worker
between, but the queue is first in, first out, so none waits for ever. In
`StackOwner` the garbage collector is fair. The release of a marked stack is fair
for repositories alone, whose stack object has the stack finalizer and no other
(`polarissourcerepository_controller.go` 170-172): `DeletionCompletes` shows that
its teardown ends. A pipeline's stack object has the buckets finalizer as well and a
registry's that for the container registry, and `stack_finalizer_stuck` shows that
such an object may stay marked for ever. Users, workloads, pods and faults are never
obliged to act. The ten-hour resync is counted on only where the code has
nothing else: for a registry whose stack was deleted (its controller watches
Pods, `polariscontainerregistry_controller.go:77`), for a pipeline that a user
has written to (build steps do not watch pipelines), and in the runs of
violated properties named `ResyncFairSpec`, to show that not even it helps. In
`Leader` waiting processes retry and the garbage collector collects. A pod that
is forcibly deleted while its container still runs is excluded. `Operator` adds
that a process asks for its environment, starts its manager and serves its
queue; `ImagesResolved` concerns a Deployment that has settled (`Steady`, with a
pod), since a process that is always killed in time resolves nothing. In
`Delivery` a step's pass is strongly fair for the reason given for `BuildSteps`:
other steps' passes come between. It is also what the retries of an error
amount to: a step waits for a pipeline that comes and goes.

**Exceptions stated in properties.** `EditDeployed` excepts the states in
`Stuck`: a stack in ROLLBACK_FAILED, UPDATE_ROLLBACK_FAILED or DELETE_FAILED,
which no pass repairs, and a rolled back stack whose name never reached
`Status.Name`, which `deleteStack` cannot find. `StepDeletionCompletes` excepts
steps whose pipeline is gone (`step_stuck`). `DeletionArrives` starts from a
guarded stack object, since an unguarded one leaves its stack behind
(`delivery_unguarded`), and speaks of the stack, not of the objects, which may
have to wait for ever (`stack_finalizer_stuck`, `step_stuck`). It excepts
`BucketKept`: a bucket that is there after two faults, such as two passes that
could not clean it, so that CloudFormation ended in DELETE_FAILED with no request
left to try again. With one
fault, as in the run, the exception is never used.
`BuildDeployed` excepts `StackStranded`, and `SpecReachesStack` and
`StackProvided` except `StaysMarked` for pipelines and registries: a stack object
that stays marked for ever, on a finalizer that nothing takes away any more. A
pipeline created again under that name writes its template into the marked object,
which the stack controller only ever deletes. This needs no fault: without the
exception `BuildDeployed` is violated with `MaxFaults = 0`, for instance when a pipeline is
deleted before its bucket is made and then created again. `HeldStepKeepsCloud` excepts a stack object that the user
deletes, and one that an earlier pipeline of the same name left.

## 4. What is proved

For every value of the constants allowed by each module's named assumption
(`ConstantsAssumption`, `DeliveryAssumption`, `ImagesAssumption`,
`PodsAssumption`; TLC evaluates them in the runs):

| Theorem | Statement |
|---|---|
| `PolarisStackProofs!TypeCorrect` | `Spec => []TypeOK` |
| `PolarisStackProofs!ConsistentAlways` | `Spec => []Consistent` |
| `PolarisStackProofs!FinalizerImpliesName` | `Spec => []GuardedIsNamed` |
| `PolarisStackProofs!NoLostEdit` | `Spec => OperatorKeepsSpec` |
| `PolarisStackProofs!NoUnguardedStack` | `Spec => TeardownBeforeRelease` |
| `PolarisStackProofs!WantedStackStays` | `Spec => NoTeardownOfWantedStack` |
| `PolarisStackProofs!NoUncleanedRelease` | `Spec => ResourceGoneBeforeRelease` |
| `PolarisStackRefinement!Implementation` | `Spec => ImplementsGuardedStack` |
| `BuildStepsProofs!StepKeepsPipeline` | `Spec => []HeldStepHasPipeline` |
| `BuildStepsProofs!ReleasedOnceParted` | `Spec => PartedBeforeRelease` |
| `BuildStepsProofs!TypeCorrect` | `Spec => []TypeOK` |
| `BuildStepsProofs!PassKeepsOthers` | `Spec => OthersKept` |
| `BuildStepsProofs!NoDuplicates` | `UsersNameOnce` implies `Spec => []NoDuplicateBuilds` |
| `BuildStepsProofs!PassWritesOwn` | `UsersNameOnce` implies `Spec => OwnBuildsWritten` |
| `BuildStepsProofs!StepsImplementMembership` | `Spec => StepsKeepMembership` |
| `StackOwnerProofs!OwnSpecOnly` | `Spec => WritesOnlySpec` |
| `StackOwnerProofs!TypeCorrect`, `CopiesAgreeAlways` | `Spec => []TypeOK`, `Spec => []CopiesAgree` |
| `DeliveryProofs!ChainCoherent`, `TypeCorrect` | `Spec => [](TypeOK /\ Coherent)`, `Spec => []TypeOK` |
| `DeliveryProofs!CloudKept` | `Spec => HeldStepKeepsCloud` |
| `DeliveryProofs!ChainImplementsGuardedStack` | `Spec => ChainKeepsGuard` |
| `DeliveryProofs!ChainImplementsMembership` | `Spec => ChainKeepsMembership` |
| `OperatorProofs!ResolverKeepsOthers` | `OperatorSpec => PassOnlyResolves` |
| `OperatorProofs!ImagesTypeCorrect`, `HostsNamed` | `OperatorSpec => []ImagesTypeOK`, `OperatorSpec => []HostsAreNamed` |
| `OperatorProofs!OperatorKeepsLock` | `OperatorSpec => [](TypeOK /\ OnlyFaultsPass)` |
| `LeaderProofs!TypeCorrect`, `NoOthersPass` | `Spec => []TypeOK`, `Spec => []OnlyFaultsPass` |
| `LeaderProofs!OneLeader` | `MaxFaults = 0` implies `Spec => []SingleLeader` |

**The argument for the stack controller.** None of the safety properties is
inductive: each depends on what a copy made earlier may still say. `Consistent`
has six parts. `CopiesAgree`: a copy with the stored version has the stored
spec and mark. `MarkedIsHeld`: a marked object still has finalizers.
`CopiesNamed`: no copy holds a finalizer without the name of its stack.
`PathFollowsMark`: which calls a pass makes depends on the mark it read.
`FinalizerFollowsStack`: a current copy that is about to drop the stack finalizer
has torn the stack down, one about to add it has created the stack.
`StaleMarkHarmless`: a copy that shows the mark of an earlier incarnation exists
only while no stack stands. The last part is the one that is easy to miss. The
cache can show a marked object after it was deleted and created again, and
`deleteStack` acts on that copy; what saves the new stack is that the worker
cannot have created it while the cache is that old. `TypeOK /\ Consistent` is
inductive; the action properties and the refinement follow step by step. The
refinement maps the object to `claim`, the stack finalizer to `guarded`, and
the stack's status to one of four phases.

`ResourceGoneBeforeRelease` speaks of the write at the end of a pass, but what it
asks for happened earlier in the pass, in a loop over a list of resources that
was read earlier still. `ResourcesInv` carries it over. A cleanup finalizer that
the copy has lost and the stored object has not stands for a resource that is
deleted and that the stack, if it is still there, has made already
(`FinalizersFollowResources`): such a resource is not made again, because
CloudFormation makes each resource of a stack once (`GoneStays`) and the one
worker creates no stack while it is in `deleteStack`. That the loop's list never
names a resource of another stack is the second part (`LoopFollowsStack`).

**The argument for build steps.** `HeldStepHasPipeline` depends on what a pass
under way will write, so `Inv` says what its copies are worth. `CachesAgree` and
`CopiesAgree`: a copy with the stored version agrees with the server in
everything Reconcile did not change itself. `PassOrdered`: a pass that joins has
the pipeline tied before it writes the step, one that parts has it untied
first. `MarksStay`: a step whose deletion mark was read, however long ago, is
never a live and held step again, because holding it takes a pass on a current
copy; so a pass on an old copy may take the finalizer from the pipeline. 
`Inv` is enough for who holds whom; what the lists contain needs more.

**Build steps implement `Membership`.** There a step is a *member* of a pipeline
that carries its finalizer, and has a pipeline for its *home* while it is held
itself and owned by it; both are changed by one action each, at any time
the guard allows. The two finalizers of the code are written by two requests of a
pass on copies that may be old, so that the guards are what has to be
shown. `Join` needs a pipeline that is not being deleted, and comes from the API
server, which refuses new finalizers on a marked object. `Leave` forbids a live
step to lose its home: `MarksStay`. `Settle` needs the step to be a member of the
pipeline it names, and no other home: the first is part of `PassOrdered`, the second is
`Undisputed`, that a copy still current is of a step that no other pipeline owns.
`Release` needs the step to be no member of the pipeline it names: `PassOrdered` again. Each kind of write has a
lemma (`Ties...`), which maps it to the actions of `Membership` that it can be. TLC
checks the refinement with one step and two incarnations of a pipeline; two
steps in `step_safety` pass it as well, in twice the time that the other properties take,
and the theorem has any number of both.

**The argument for the lists of builds.** `Merged` and `Removed` are loops over
a step's builds, written as recursive functions `after[n]`, the list after `n`
rounds. The library's induction theorems take an operator as a parameter, which
no installed prover can instantiate, but the fact behind them is a formula about
a *set*: `<` on the naturals is well-founded (`NatLessThanWellFounded`), so a
non-empty set of naturals has a least element (`WFMin`). `NatSetInduction` draws
from it that a set that holds 0 and, with `n`, `n + 1`, is all of the naturals,
and `RoundInduction` the same for the rounds of a loop, with the set of those
rounds after which the property holds. Each recursive definition is shown once to have the history
of values that its equation describes (`LoopHasHistory`, `MergeLoop`,
`RemoveLoop`, `KeptLoop`); facts about a list follow by one lemma about a round
and one use of `RoundInduction`. That gives, for lists of any length: the result
is a list of builds (`MergedType`); it names nothing twice if its arguments do not
(`MergedDistinct`, `RemovedDistinct`); it carries each of the step's builds and
nobody else's of their names, or none of them (`MergedCarries`, `RemovedFrees`);
and the entries of other names are the same and in the same order
(`MergedLeavesOthers`, `RemovedLeavesOthers`, where `OthersOf` is itself such a
loop). Of these, the type and the order need no assumption. The other facts need
`UsersNameOnce`: no user gives a pipeline a list that has one name twice (a step's
list may). It is about input alone and has to be there, because the loops look for *one* entry of a name
(`polarisbuildstep_controller.go` 119-126, 164-170), and a pipeline that a user
gives two entries of one name keeps one of them after a removal.
On the side of the protocol `NoDuplicates` adds that the lists of pipelines and of
the copies of them are distinct (`ListsDistinct`); `PassKeepsOthers` that a
current copy of a pipeline has the stored list but for the step's own names
(`BuildsAgree`); `PassWritesOwn` that a pass about to write has its builds in, or
out of, the copy that it writes (`OwnBuildsHeld`).

**For StackOwner** `CopiesAgree` alone is inductive and gives `WritesOnlySpec`.
**For Leader** `OnlyFaultsPass` is inductive with `TypeOK`: a step that is not a
failed request adds no process that runs the controllers without the lock.

**For Delivery** `TypeOK /\ Coherent` is inductive. Each action of the chain has a
lemma that says what it changes (`...Changes`), so that no part of the invariant has to
unfold the loop over the bucket. `Coherent` has four parts.
`CopiesAgree`: a cached copy of the stored version shows the stored object, and a
copy about to be written differs from it in the finalizers alone. `MembersTied`: a
living step that is held, or about to be, holds its pipeline, and no copy of an
earlier, marked step of its name is left that could let the pipeline go.
`MarksHarmless`: the mark that the cache shows of a stack object that is gone or
was made anew finds no stack to tear down; a guard is about to be written only
for a stack that stands, and taken away only from one that does not. `OwnedStays`:
the garbage collector marks a stack object only when its owner is gone, and a new
pipeline never has the uid that an old object or copy names. `HeldStepKeepsCloud`
needs all four: a teardown takes a marked stack object (`MarksHarmless`), the
mark a missing owner (`OwnedStays`), and a held step's pipeline is not missing
(`MembersTied`). For the refinement, `claim` is the stored stack object's
presence and mark, as in `PolarisStackRefinement`. Both modules thus keep to one
abstract specification: `Delivery` may stand for the finer `PolarisStack` as far
as the guard and the teardown go. At the other end of the chain
`ChainImplementsMembership` does the same for `BuildSteps`. `Delivery` takes the first write of
a step's pass as part of the pass's start, and what remains for its second write
is `PartedFirst`: a pass about to let a step go has taken it from the pipeline,
and nobody has put it back. That nobody loses a home is `MembersTied`.

**For Operator** the resolver's invariant is that a copy about to be written, if
its version is current, is the stored pod with its images resolved by the
environment of the process, which was populated before. `ImagesInv` adds that a
process knows all of its environment or none (`AsksForAll`), and that no pod that is
stored, cached or about to be written names a host of no account; only `Fix`
puts a host into an image, and by the first invariant it has a populated
environment then. What users write into an image is excepted from
`HostsAreNamed`: the operator does not read it. A step of the resolver
leaves the lock's variables alone, so that `LeaderProofs` carries over.

**Only model-checked:** all liveness properties, because fairness and ENABLED are
beyond the prover. Every invariant and every action property of the passing runs
is stated by a theorem.

## 5. Findings

The runs marked violated are disagreements between the code and its comments;
`PROJECT.json` quotes them. In short:

1. `createStack` comes before the finalizers are stored. Two build steps suffice
   for the pipeline controller to write the object in between: the stack
   controller's write conflicts, later passes take the update path, and the stack
   has no finalizer for ever (`delivery_unguarded`).
2. The buckets and container registry finalizers are removed only while a
   resource is being visited; without the stack they stay for ever. It is enough to
   delete a pipeline before CloudFormation has made its bucket. A pipeline of that
   name can be created again, but its builds are never deployed.
3. A step's deletion writes the pipeline first. If the second write fails and
   the pipeline has gone, every later pass stops at "Unable to find pipeline".
4. A step's first pass writes the pipeline first. A step deleted before the
   second write leaves its builds and a finalizer in the pipeline.
5. `main.go` drops the error of `leader.Become` and starts the controllers.

Met while modelling and kept without a run of their own: an object deleted while
its stack is being created leaves the stack to nobody; one finalizer stands for
all buckets of a stack and goes with the first
(`polarisstack_controller.go:282`); `environment.go:43` says "Drop the last
character of the AZ for the region" and keeps all of them, so that hosts carry
the zone's letter, in images as well as in `aws.String(utils.Region())`; a step moved to
another pipeline is refused by `SetControllerReference` on every pass; a merge
moves a step's builds to the end of the list; `polarisbuildstep_controller.go`
211 says "Continue to requeue" and returns no requeue; a pipeline created again
updates the stack object of its predecessor without becoming its owner.

## 6. Not modelled

* Template text beyond the resources and actions that it names, parameters and
  outputs; the templates of registries and repositories (one resource each).
* `CloudFormationName` is taken to keep different names apart (it drops `-` and
  case), and so are the stack names of different objects, which join namespace
  and name with `-`. Each is one pure expression; what collides is its definition.
* The generated deep copies, scheme registration, the `init` functions of
  `pkg/controller`, flags, logging and the readiness file of `main`, the manifests
  under `deploy`: data or straight-line wiring without state.
* A process outside a cluster, which takes no lock; pods deleted by force.
* The internals of controller-runtime and client-go beyond queue, cache, requeue
  and owner events.
* Stacks that a user makes under an owner's name without being its owner.

## 7. What could follow

1. `Delivery` with two steps in the runs of its liveness properties: ten times
   the states of one.
2. Builds that an edit renames, once the repository says what should become of
   the old names.
3. A registry and its stack in the chain. What holds it up is what holds a
   pipeline's up (`stack_finalizer_stuck`): a finalizer of its own, for the
   container registry, that goes only with a listed resource.
4. Runs of `BuildSteps` in which a step moves between two pipelines, once the
   repository says what a move is to do.
