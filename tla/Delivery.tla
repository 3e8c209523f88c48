------------------------------ MODULE Delivery ------------------------------
(***************************************************************************)
(* The operator's three controllers one after another: the builds of       *)
(* PolarisBuildSteps go into a PolarisBuildPipeline, the pipeline's list   *)
(* becomes the template of a PolarisStack object, and that becomes a       *)
(* stack in CloudFormation.  Deletion goes the other way round.            *)
(*                                                                         *)
(* Each controller reads a cached copy that lags behind the API server.    *)
(* A write of a copy that is no longer current fails and is tried again,   *)
(* so that a write which succeeds is one step on the stored object; what   *)
(* it makes of other objects comes from copies of any age.  BuildSteps,    *)
(* StackOwner and PolarisStack take the passes apart; rolled back          *)
(* creations and registries are in PolarisStack only.                      *)
(***************************************************************************)
EXTENDS Naturals

CONSTANTS
    Steps,      \* names of PolarisBuildSteps that name the pipeline
    NoObject,   \* no such object
    MaxCreated, \* bound on how many steps and pipelines users create
    MaxFaults   \* bound on crashes, failed writes and users' deletions of
                \* the stack object

Objects == Steps \cup {"pipeline", "stack"}

Uids == 1..MaxCreated

(* The resources and pipeline actions of the template.  A step stands for  *)
(* the build in its Spec.Builds, whose name they carry.                    *)
Project(s) == <<"CodeBuildProject", s>>
Action(s)  == <<"build", s>>

formationTemplate(builds) ==
    {<<"CodeBuildServiceRole">>, <<"CodePipelineServiceRole">>,
     <<"ArtifactBucket">>, <<"Pipeline">>}
        \cup {Project(s) : s \in builds} \cup {Action(s) : s \in builds}

Templates == {formationTemplate(builds) : builds \in SUBSET Steps}

Step     == [deleting : BOOLEAN, held : BOOLEAN]
Pipeline == [uid : Uids, builds : SUBSET Steps, deleting : BOOLEAN, finalizers : SUBSET Steps]

(* guarded, buckets: the two finalizers of a pipeline's stack object,      *)
(* polaris.cleanup.aws.stack and polaris.cleanup.aws.stack.buckets.        *)
Stack == [template : Templates, owner : Uids, deleting : BOOLEAN,
          guarded : BOOLEAN, buckets : BOOLEAN]

(* template: the one deployed; target: the one it is moving to; neither is *)
(* of account once it is being deleted.  bucket: the ArtifactBucket is not *)
(* listed yet, is there and may hold objects, or was deleted by            *)
(* deleteStack and is still listed.                                        *)
CloudStack == [phase : {"creating", "updating", "complete", "deleting", "deleteFailed"},
               template : Templates \cup {{}}, target : Templates \cup {{}},
               bucket : {"none", "kept", "cleaned"}]

ASSUME DeliveryAssumption ==
    /\ {"pipeline", "stack"} \cap Steps = {}
    /\ NoObject \notin Step \cup Pipeline \cup Stack \cup CloudStack
    /\ {MaxCreated, MaxFaults} \subseteq Nat

VARIABLES
    object,   \* the objects in the API server, by name
    seen,     \* the informers' copies of them
    fresh,    \* objects whose cached copy is the server's version
    due,      \* requests in the controllers' queues
    pending,  \* the copy of a step, or of the stack, that its controller has
              \* begun a pass with and will write at the end, if any
    current,  \* those whose resourceVersion is still the server's
    cf,       \* the stack in CloudFormation
    created, deletes, faults   \* how often each has happened

server  == <<object, fresh, current>>
bounded == <<created, deletes, faults>>
vars    == <<server, seen, due, pending, cf, bounded>>

ObjectOf(n) == CASE n \in Steps     -> Step
                 [] n = "pipeline"  -> Pipeline
                 [] n = "stack"     -> Stack

Tables == {t \in [Objects -> Step \cup Pipeline \cup Stack \cup {NoObject}] :
             \A n \in Objects : t[n] = NoObject \/ t[n] \in ObjectOf(n)}

TypeOK ==
    /\ object \in Tables /\ seen \in Tables
    /\ pending \in Tables /\ pending["pipeline"] = NoObject
    /\ fresh \subseteq Objects /\ due \subseteq Objects /\ current \subseteq Objects
    /\ cf = NoObject \/ cf \in CloudStack
    /\ created \in 0..MaxCreated /\ deletes \in 0..MaxFaults /\ faults \in 0..MaxFaults

Init ==
    /\ object = [n \in Objects |-> NoObject]
    /\ seen = object /\ pending = object
    /\ fresh = Objects /\ due = {} /\ current = {}
    /\ cf = NoObject
    /\ created = 0 /\ deletes = 0 /\ faults = 0

Exists(o) == o # NoObject

pipe  == object["pipeline"]
stack == object["stack"]

(* A write that changes an object outdates the copies of it. *)
Put(n, o) ==
    /\ object' = [object EXCEPT ![n] = o]
    /\ fresh' = IF o = object[n] THEN fresh ELSE fresh \ {n}

Outdated(n) == IF object'[n] = object[n] THEN current ELSE current \ {n}

-----------------------------------------------------------------------------
(* Users, the garbage collector and the informers.                         *)

Stored(n, o) ==
    /\ Put(n, o)
    /\ current' = Outdated(n)
    /\ UNCHANGED <<seen, due, pending, cf>>

(* A finalizer of its controller holds the object n. *)
Held(n, o) == IF n = "stack" THEN o.guarded \/ o.buckets ELSE o.held

(* A delete only marks an object that a finalizer holds. *)
Deleted(o, held) == IF held THEN [o EXCEPT !.deleting = TRUE] ELSE NoObject

Created ==
    /\ created < MaxCreated
    /\ created' = created + 1
    /\ UNCHANGED <<deletes, faults>>

CreateStep(s) ==
    /\ ~Exists(object[s])
    /\ Created
    /\ Stored(s, [deleting |-> FALSE, held |-> FALSE])

DeleteStep(s) ==
    /\ Exists(object[s])
    /\ ~object[s].deleting
    /\ Stored(s, Deleted(object[s], object[s].held))
    /\ UNCHANGED bounded

(* The uids that some copy still carries. *)
InUse == {p.uid : p \in {seen["pipeline"]} \ {NoObject}}
           \cup {o.owner : o \in {stack, seen["stack"], pending["stack"]} \ {NoObject}}

CreatePipeline ==
    /\ ~Exists(pipe)
    /\ Created
    /\ \E u \in Uids \ InUse :
          /\ 1..(u - 1) \subseteq InUse
          /\ Stored("pipeline", [uid |-> u, builds |-> {}, deleting |-> FALSE, finalizers |-> {}])

DeletePipeline ==
    /\ Exists(pipe)
    /\ ~pipe.deleting
    /\ Stored("pipeline", Deleted(pipe, pipe.finalizers # {}))
    /\ UNCHANGED bounded

StackDeleted ==
    /\ Exists(stack)
    /\ ~stack.deleting
    /\ Stored("stack", Deleted(stack, Held("stack", stack)))
    /\ UNCHANGED <<created, faults>>

DeleteStackObject ==
    /\ deletes + faults < MaxFaults
    /\ deletes' = deletes + 1
    /\ StackDeleted

(* Faulty form: the object refers to no owner. *)
OwnerNeverSet == TRUE

OwnerAlive == Exists(pipe) /\ pipe.uid = stack.owner

CollectGarbage ==
    /\ StackDeleted
    /\ ~OwnerAlive
    /\ UNCHANGED deletes

(* An event about the stack brings its pipeline back as well; one about    *)
(* the pipeline brings no step back.  A request for an object that the     *)
(* cache does not hold comes to nothing.                                   *)
EventFor(n) == IF n = "stack" THEN {"stack", "pipeline"} ELSE {n}

Sync(n) ==
    /\ n \notin fresh
    /\ seen' = [seen EXCEPT ![n] = object[n]]
    /\ fresh' = fresh \cup {n}
    /\ due' = {m \in due \cup EventFor(n) : Exists(seen'[m])}
    /\ UNCHANGED <<object, current, pending, cf, bounded>>

Fault ==
    /\ deletes + faults < MaxFaults
    /\ faults' = faults + 1

Crash ==
    /\ Fault
    /\ seen' = object
    /\ fresh' = Objects
    /\ due' = {m \in Objects : Exists(object[m])}
    /\ pending' = [n \in Objects |-> NoObject]
    /\ current' = {}
    /\ UNCHANGED <<object, cf, created, deletes>>

-----------------------------------------------------------------------------
(* Passes that write a copy of their own object at the end.                *)

Begin(n, copy) ==
    /\ pending' = [pending EXCEPT ![n] = copy]
    /\ current' = Outdated("pipeline") \cup (fresh \cap {n})
    /\ UNCHANGED <<seen, created, deletes>>

(* Faulty form: the resourceVersion is refreshed before the write. *)
WriteUnversioned(n) ==
    LET o == pending[n]
    IN  /\ Exists(o)
        /\ Put(n, IF o.deleting /\ ~Held(n, o) THEN NoObject ELSE o)
        /\ current' = current \ {n}
        /\ pending' = [pending EXCEPT ![n] = NoObject]
        /\ UNCHANGED <<seen, due, cf, bounded>>

Write(n) ==
    LET o == pending[n]
    IN  /\ Exists(o)
        /\ n \in current
        /\ Put(n, IF o.deleting /\ ~Held(n, o) THEN NoObject ELSE o)
        /\ current' = current \ {n}
        /\ pending' = [pending EXCEPT ![n] = NoObject]
        /\ UNCHANGED <<seen, due, cf, bounded>>

(* A conflict or a failed call: the request is queued again. *)
WriteFails(n) ==
    /\ Exists(pending[n])
    /\ \/ n \notin current /\ UNCHANGED faults
       \/ Fault
    /\ pending' = [pending EXCEPT ![n] = NoObject]
    /\ current' = current \ {n}
    /\ due' = due \cup ({n} \cap {m \in Objects : Exists(seen[m])})
    /\ UNCHANGED <<object, fresh, seen, cf, created, deletes>>

-----------------------------------------------------------------------------
(* The PolarisBuildStep controller: first the pipeline, then the step.     *)

(* Faulty form: one finalizer stands for all steps. *)
WithMemberCounted(p, s) == [p EXCEPT !.builds = @ \cup {s}, !.finalizers = @ \cup {"pipeline"}]

(* Faulty form: the pipeline is left without the step's finalizer. *)
WithMemberUntied(p, s) == [p EXCEPT !.builds = @ \cup {s}]

WithMember(p, s) == [p EXCEPT !.builds = @ \cup {s}, !.finalizers = @ \cup {s}]

WithoutMember(p, s) == [p EXCEPT !.builds = @ \ {s}, !.finalizers = @ \ {s}]

StartStep(s) ==
    /\ s \in due
    /\ \A t \in Steps : ~Exists(pending[t])
    /\ Exists(pipe)
    /\ due' = due \ {s}
    /\ UNCHANGED <<cf, faults>>

Join(s) ==
    /\ StartStep(s)
    /\ ~seen[s].deleting
    /\ pipe.deleting => s \in pipe.finalizers
    /\ Put("pipeline", WithMember(pipe, s))
    /\ Begin(s, [seen[s] EXCEPT !.held = TRUE])

Part(s) ==
    /\ StartStep(s)
    /\ seen[s].deleting
    /\ LET p == WithoutMember(pipe, s)
       IN  Put("pipeline", IF p.deleting /\ p.finalizers = {} THEN NoObject ELSE p)
    /\ Begin(s, [seen[s] EXCEPT !.held = FALSE])

-----------------------------------------------------------------------------
(* The PolarisBuildPipeline controller.                                    *)

(* Faulty form: builds that are there already are left as they are. *)
ProvideMissing ==
    /\ "pipeline" \in due
    /\ LET p == seen["pipeline"]
       IN  Put("stack", IF Exists(stack) THEN stack
                        ELSE [template |-> formationTemplate(p.builds), owner |-> p.uid,
                              deleting |-> FALSE, guarded |-> FALSE, buckets |-> FALSE])
    /\ current' = Outdated("stack")
    /\ due' = due \ {"pipeline"}
    /\ UNCHANGED <<seen, pending, cf, bounded>>

(* A stack is made, or the one that is there gets the template. *)
Provide ==
    /\ "pipeline" \in due
    /\ LET p == seen["pipeline"]
       IN  Put("stack", IF Exists(stack) THEN [stack EXCEPT !.template = formationTemplate(p.builds)]
                        ELSE [template |-> formationTemplate(p.builds), owner |-> p.uid,
                              deleting |-> FALSE, guarded |-> FALSE, buckets |-> FALSE])
    /\ current' = Outdated("stack")
    /\ due' = due \ {"pipeline"}
    /\ UNCHANGED <<seen, pending, cf, bounded>>

-----------------------------------------------------------------------------
(* The PolarisStack controller, and CloudFormation.                        *)

StartStack ==
    /\ "stack" \in due
    /\ ~Exists(pending["stack"])
    /\ UNCHANGED <<object, fresh>>

CreateStack ==
    /\ StartStack
    /\ ~seen["stack"].deleting
    /\ ~Exists(cf)
    /\ cf' = [phase |-> "creating", template |-> {}, target |-> seen["stack"].template,
              bucket |-> "none"]
    /\ Begin("stack", [seen["stack"] EXCEPT !.guarded = TRUE, !.buckets = TRUE])
    /\ UNCHANGED <<due, faults>>

(* The request comes back after ten seconds: it stays due.  The status     *)
(* that the pass reports is left out.                                      *)
UpdateStack ==
    /\ StartStack
    /\ ~seen["stack"].deleting
    /\ Exists(cf)
    /\ cf.phase = "complete"
    /\ seen["stack"].template # cf.template
    /\ cf' = [cf EXCEPT !.phase = "updating", !.target = seen["stack"].template]
    /\ UNCHANGED <<seen, due, pending, current, bounded>>

(* deleteStack's loop finds the bucket listed, and the finalizer for       *)
(* buckets on its copy; to delete one that is gone already is an error.    *)
Cleanable == Exists(cf) /\ cf.bucket = "kept" /\ seen["stack"].buckets

(* The loop drops its errors, and goes on with the finalizer in place. *)
CleansBucket(done) ==
    /\ done => Cleanable
    /\ IF Cleanable /\ ~done THEN Fault ELSE UNCHANGED faults

(* The finalizer for buckets goes with the bucket alone, never once        *)
(* CloudFormation lists none; that of the stack with every pass.           *)
DeleteStack ==
    /\ StartStack
    /\ seen["stack"].deleting
    /\ Exists(cf) => cf.phase # "updating"
    /\ \E done \in BOOLEAN :
          /\ CleansBucket(done)
          /\ cf' = IF ~Exists(cf) THEN cf
                   ELSE [cf EXCEPT !.phase = "deleting", !.template = {}, !.target = {},
                                   !.bucket = IF done THEN "cleaned" ELSE @]
          /\ Begin("stack", [seen["stack"] EXCEPT !.guarded = FALSE, !.buckets = @ /\ ~done])
    /\ due' = due \ {"stack"}

(* DeleteStack is refused while an update is in progress, or the call      *)
(* fails: the request stays due and the finalizers stay, but the bucket is *)
(* gone already.                                                           *)
DeleteStackFails ==
    /\ StartStack
    /\ seen["stack"].deleting
    /\ Cleanable
    /\ \/ cf.phase = "updating" /\ UNCHANGED faults
       \/ Fault
    /\ cf' = [cf EXCEPT !.bucket = "cleaned"]
    /\ UNCHANGED <<seen, due, pending, current, created, deletes>>

CloudMakesBucket ==
    /\ Exists(cf)
    /\ cf.phase = "creating"
    /\ cf.bucket = "none"
    /\ cf' = [cf EXCEPT !.bucket = "kept"]
    /\ UNCHANGED <<server, seen, due, pending, bounded>>

CloudFinishes ==
    /\ Exists(cf)
    /\ cf.phase \in {"creating", "updating"}
    /\ cf.bucket # "none"
    /\ cf' = [cf EXCEPT !.phase = "complete", !.template = cf.target]
    /\ UNCHANGED <<server, seen, due, pending, bounded>>

(* A bucket that holds objects is not deleted, nor the stack with it. *)
CloudDeletes ==
    /\ Exists(cf)
    /\ cf.phase = "deleting"
    /\ \/ cf' = NoObject
       \/ cf.bucket = "kept" /\ cf' = [cf EXCEPT !.phase = "deleteFailed"]
    /\ UNCHANGED <<server, seen, due, pending, bounded>>

-----------------------------------------------------------------------------
Users ==
    \/ \E s \in Steps : CreateStep(s) \/ DeleteStep(s)
    \/ CreatePipeline \/ DeletePipeline \/ DeleteStackObject

Serve(n) == Write(n) \/ WriteFails(n)

StackController == CreateStack \/ UpdateStack \/ DeleteStack \/ DeleteStackFails

(* The passes of a controller's worker, from their start to their write. *)
StepWorker(s) == Join(s) \/ Part(s) \/ Serve(s)

StackWorker == StackController \/ Serve("stack")

CloudFormation == CloudMakesBucket \/ CloudFinishes \/ CloudDeletes

Next ==
    \/ Users \/ Crash \/ CollectGarbage
    \/ \E n \in Objects : Sync(n)
    \/ \E s \in Steps : StepWorker(s)
    \/ Provide
    \/ StackWorker
    \/ CloudFormation

Spec == Init /\ [][Next]_vars

FairSpec ==
    /\ Spec
    /\ \A n \in Objects : WF_vars(Sync(n))
    /\ \A s \in Steps : SF_vars(StepWorker(s))
    /\ WF_vars(Provide)
    /\ WF_vars(StackWorker)
    /\ WF_vars(CollectGarbage)
    /\ WF_vars(CloudFormation)

-----------------------------------------------------------------------------
Live(s) == Exists(object[s]) /\ ~object[s].deleting

Marked(o) == Exists(o) /\ o.deleting

Standing == Exists(cf) /\ cf.phase \notin {"deleting", "deleteFailed"}

(* While a step that its pipeline has taken up lives, CloudFormation is    *)
(* not asked to delete what runs its builds, by no chain of deletions,     *)
(* collections and late passes of the three controllers: only after a user *)
(* deleted the stack object itself, and where the object is one that an    *)
(* earlier pipeline of the same name left behind.                          *)
KeepsCloud(s) ==
    Live(s) /\ object[s].held /\ deletes = 0 /\ Standing /\ Exists(cf') /\ ~Standing'
       => Exists(pipe) /\ (Exists(stack) => ~OwnerAlive)

HeldStepKeepsCloud == [][\A s \in Steps : KeepsCloud(s)]_vars

(* The stack object and its stack behave as GuardedStack says, as those of *)
(* PolarisStack do: what the chain leaves out of that controller takes     *)
(* nothing from what the other two rely on.                                *)
Claim == IF ~Exists(stack) THEN "none" ELSE IF stack.deleting THEN "deleting" ELSE "wanted"

Guarded == Exists(stack) /\ stack.guarded

StackPhase == IF ~Exists(cf) THEN "none" ELSE IF Standing THEN "standing" ELSE "going"

Abstract == INSTANCE GuardedStack WITH
    claim <- Claim, guarded <- Guarded, stack <- StackPhase

ChainKeepsGuard == Abstract!Spec

(* The steps and the pipeline behave as Membership says, as those of       *)
(* BuildSteps do, which takes the passes apart that are one step here.     *)
StateOf(o) == IF ~Exists(o) THEN "none" ELSE IF o.deleting THEN "deleting" ELSE "live"

Named(s) == IF Exists(object[s]) THEN "pipeline" ELSE "nobody"

Home(s) == IF Exists(object[s]) /\ object[s].held THEN "pipeline" ELSE "nobody"

Ties == INSTANCE Membership WITH
    Pipelines <- {"pipeline"},
    Nobody  <- "nobody",
    step    <- [s \in Steps |-> StateOf(object[s])],
    target  <- [s \in Steps |-> Named(s)],
    home    <- [s \in Steps |-> Home(s)],
    pipe    <- [p \in {"pipeline"} |-> StateOf(pipe)],
    members <- [p \in {"pipeline"} |-> IF Exists(pipe) THEN pipe.finalizers ELSE {}]

ChainKeepsMembership == Ties!Spec

(* The invariants behind the three.  A copy that is current shows the stored *)
(* object; a pass works on an object that the cache has.                   *)
CopiesAgree ==
    /\ \A n \in fresh : seen[n] = object[n]
    /\ \A n \in due : Exists(seen[n])
    /\ \A n \in current :
          /\ n \in fresh /\ Exists(object[n]) /\ Exists(pending[n])
          /\ pending[n] = IF n = "stack"
                          THEN [object[n] EXCEPT !.guarded = pending[n].guarded,
                                                 !.buckets = pending[n].buckets]
                          ELSE [object[n] EXCEPT !.held = pending[n].held]

(* A living step that is held, or about to be, holds its pipeline, and no  *)
(* copy of an earlier step of its name is left that could let it go.       *)
Tied(s) == Exists(pipe) /\ s \in pipe.finalizers

MembersTied ==
    \A s \in Steps :
       /\ Live(s) /\ object[s].held => Tied(s) /\ ~Marked(seen[s])
       /\ s \in current /\ ~Marked(pending[s]) => Tied(s)

(* The mark that the cache shows of an object that is gone, or was made    *)
(* anew, finds no stack to tear down.  A guard is written for a stack that *)
(* stands, and taken away from one that does not.                          *)
MarksHarmless ==
    /\ Marked(seen["stack"]) /\ ~Marked(stack) => ~Standing
    /\ Exists(pending["stack"])
         => /\ pending["stack"].guarded = Standing
            /\ pending["stack"].deleting = ~Standing

(* Only the user deletes a stack object whose owner lives. *)
OwnedStays == deletes = 0 /\ Marked(stack) => ~OwnerAlive

Coherent == CopiesAgree /\ MembersTied /\ MarksHarmless /\ OwnedStays

Wanted(s) == Live(s) /\ Exists(pipe) /\ ~pipe.deleting

Deployed(s) == Exists(cf) /\ cf.phase = "complete" /\ {Project(s), Action(s)} \subseteq cf.template

(* A marked stack object keeps its finalizer for buckets for ever: the     *)
(* bucket was not there yet, or was deleted by a pass that failed later.   *)
StackStranded == <>[](Marked(stack) /\ stack.buckets)

(* The build of a step arrives in CloudFormation, through three caches,    *)
(* conflicts between the controllers, restarts, deleted stack objects and  *)
(* what an earlier pipeline left: unless that is a marked stack object     *)
(* that nobody lets go any more, which the pipeline then writes to in vain.*)
BuildDeployed ==
    \/ StackStranded
    \/ \A s \in Steps : Wanted(s) ~> (~Wanted(s) \/ Deployed(s))

(* When a pipeline is gone, or waits only for steps that are being deleted *)
(* as well, its stack in CloudFormation goes, although its bucket may hold *)
(* objects: a bucket that one pass could not delete is deleted by the next.*)
(* Where that fails as well, nothing brings the request back.  The stack   *)
(* object has to be guarded by then.  Only the stack is spoken of: the     *)
(* objects may have to wait for ever (StackStranded, and a step whose      *)
(* pipeline went first).                                                   *)
Leaving == pipe.deleting /\ \A s \in pipe.finalizers : Exists(object[s]) /\ object[s].deleting

Retired == Exists(pipe) => Leaving

BucketKept == <>[](Exists(cf) /\ cf.phase = "deleteFailed" /\ faults > 1)

DeletionArrives ==
    \/ BucketKept
    \/ (Retired /\ Exists(stack) /\ stack.guarded) ~> (~Exists(cf) \/ ~Retired)

(* polarisstack_controller.go:151: "Add the finalizers so that we can      *)
(* delete the stack in future": a stack whose object stays gets its guard. *)
StackGetsGuarded ==
    (Exists(cf) /\ Exists(stack)) ~> (~Exists(cf) \/ ~Exists(stack) \/ stack.guarded)
=============================================================================
