----------------------------- MODULE BuildSteps -----------------------------
(***************************************************************************)
(* The PolarisBuildStep controller: the reconcile loop that merges the     *)
(* builds of a PolarisBuildStep into the PolarisBuildPipeline it names,    *)
(* ties the two objects together with a finalizer on each and an owner     *)
(* reference, and takes the builds out again when the step is deleted.     *)
(*                                                                         *)
(* Several steps may build into one pipeline.  A pass works on copies of   *)
(* two objects, read from two caches that lag behind the API server each   *)
(* in its own time, and writes them back one after the other; users and a  *)
(* crash can come between any two steps.  The garbage collector, which     *)
(* deletes a step whose owner is gone, has nothing to do: as               *)
(* HeldStepHasPipeline says, a live step's owner is always there.          *)
(***************************************************************************)
EXTENDS BuildLists

CONSTANTS
    Steps,          \* names of PolarisBuildStep objects
    Pipelines,      \* names of PolarisBuildPipeline objects
    SpecBuilds,     \* SpecBuilds[s]: the values that users give Spec.Builds of s
    PipelineBuilds, \* and those they give Spec.Builds of a pipeline themselves
    NoObject,       \* the API server, or the cache, has no such object: a
                    \* record with a uid that no object has
    NoOwner,        \* the step has no controller reference
    MaxUids,        \* bound on the pipeline objects ever created
    MaxEdits,       \* bound on users' edits of the steps
    MaxPipeEdits,   \* bound on users' edits of the pipelines
    MaxFaults       \* bound on crashes and failed or unanswered writes

(* An entry of Spec.Builds; content stands for the fields beside Name. *)
Build == UNION {ToSet(bs) : bs \in UNION {SpecBuilds[s] : s \in Steps} \cup PipelineBuilds}

Uids   == 1..MaxUids
Owners == [name : Pipelines, uid : Uids] \cup {NoOwner}

(* held: the step's own finalizer, polaris.cleanup.buildstep. *)
Step == [target   : Pipelines,
         builds   : Seq(Build),
         deleting : BOOLEAN,
         held     : BOOLEAN,
         owner    : Owners]

(* s \in finalizers stands for polaris.cleanup.buildstep.<s>. *)
Pipeline == [uid        : Uids,
             builds     : Seq(Build),
             deleting   : BOOLEAN,
             finalizers : SUBSET Steps]

ASSUME ConstantsAssumption ==
    /\ NoObject \notin Step /\ NoObject.uid \notin Uids
    /\ NoOwner \notin [name : Pipelines, uid : Uids] \cup Pipelines
    /\ SpecBuilds \in [Steps -> SUBSET Seq(Build)]
    /\ PipelineBuilds \subseteq Seq(Build)
    /\ {MaxUids, MaxEdits, MaxPipeEdits, MaxFaults} \subseteq Nat

VARIABLES
    step, pipe,            \* the objects in the API server, by name
    stepCache, pipeCache,  \* the informers' copies of them
    stepSynced,            \* steps whose cached resourceVersion is the server's
    pipeSynced,            \* pipelines whose cached one is
    queued,                \* the work queue
    timers,                \* requests the delaying queue holds
    pc,                    \* the worker's next write, or "idle"
    self,                  \* the request under way
    inst, pline,           \* Reconcile's variables instance and pipeline
    instCurrent,           \* instance's resourceVersion is still the server's
    plineCurrent,          \* pipeline's is
    uids, edits, pipeEdits, faults   \* how often each has happened

server  == <<step, pipe, stepSynced, pipeSynced, instCurrent, plineCurrent>>
caches  == <<stepCache, pipeCache>>
queue   == <<queued, timers>>
pass    == <<pc, self, inst, pline>>
bounded == <<uids, edits, pipeEdits, faults>>
vars    == <<server, caches, queue, pass, bounded>>

TypeOK ==
    /\ step \in [Steps -> Step \cup {NoObject}]
    /\ stepCache \in [Steps -> Step \cup {NoObject}]
    /\ pipe \in [Pipelines -> Pipeline \cup {NoObject}]
    /\ pipeCache \in [Pipelines -> Pipeline \cup {NoObject}]
    /\ stepSynced \subseteq Steps
    /\ pipeSynced \subseteq Pipelines
    /\ queued \subseteq Steps
    /\ timers \subseteq Steps
    /\ pc \in {"idle", "writePipeline", "writeStep"}
    /\ self \in Steps \cup {NoObject}
    /\ inst \in IF pc = "idle" THEN {NoObject} ELSE Step
    /\ pline \in IF pc = "idle" THEN {NoObject} ELSE Pipeline
    /\ instCurrent \in BOOLEAN
    /\ plineCurrent \in BOOLEAN
    /\ uids \in 0..MaxUids
    /\ edits \in 0..MaxEdits
    /\ pipeEdits \in 0..MaxPipeEdits
    /\ faults \in 0..MaxFaults

Init ==
    /\ step = [s \in Steps |-> NoObject]
    /\ stepCache = step
    /\ pipe = [p \in Pipelines |-> NoObject]
    /\ pipeCache = pipe
    /\ stepSynced = Steps
    /\ pipeSynced = Pipelines
    /\ queued = {}
    /\ timers = {}
    /\ pc = "idle"
    /\ self = NoObject
    /\ inst = NoObject
    /\ pline = NoObject
    /\ instCurrent = FALSE
    /\ plineCurrent = FALSE
    /\ uids = 0
    /\ edits = 0
    /\ pipeEdits = 0
    /\ faults = 0

Exists(o) == o # NoObject

-----------------------------------------------------------------------------
(* Other clients of the API server.  Each write makes older copies stale.  *)

StepStored(s, o) ==
    /\ step' = [step EXCEPT ![s] = o]
    /\ stepSynced' = stepSynced \ {s}
    /\ instCurrent' = (instCurrent /\ self # s)
    /\ UNCHANGED <<pipe, pipeSynced, plineCurrent>>

PipeStored(p, o) ==
    /\ pipe' = [pipe EXCEPT ![p] = o]
    /\ pipeSynced' = pipeSynced \ {p}
    /\ plineCurrent' = (plineCurrent /\ inst.target # p)
    /\ UNCHANGED <<step, stepSynced, instCurrent>>

CreateStep(s, p, bs) ==
    /\ ~Exists(step[s])
    /\ StepStored(s, [target |-> p, builds |-> bs, deleting |-> FALSE,
                      held |-> FALSE, owner |-> NoOwner])
    /\ UNCHANGED <<caches, queue, pass, bounded>>

EditStep(s, p, bs) ==
    /\ Exists(step[s])
    /\ edits < MaxEdits
    /\ edits' = edits + 1
    /\ StepStored(s, [step[s] EXCEPT !.target = p, !.builds = bs])
    /\ UNCHANGED <<caches, queue, pass, uids, pipeEdits, faults>>

(* A delete only marks an object that has finalizers. *)
Delete(s) ==
    /\ Exists(step[s])
    /\ ~step[s].deleting
    /\ StepStored(s, IF step[s].held THEN [step[s] EXCEPT !.deleting = TRUE]
                                     ELSE NoObject)
    /\ UNCHANGED <<caches, queue, pass, bounded>>

CreatePipeline(p, bs) ==
    /\ ~Exists(pipe[p])
    /\ uids < MaxUids
    /\ uids' = uids + 1
    /\ PipeStored(p, [uid |-> uids + 1, builds |-> bs, deleting |-> FALSE,
                      finalizers |-> {}])
    /\ UNCHANGED <<caches, queue, pass, edits, pipeEdits, faults>>

EditPipeline(p, bs) ==
    /\ Exists(pipe[p])
    /\ pipeEdits < MaxPipeEdits
    /\ pipeEdits' = pipeEdits + 1
    /\ PipeStored(p, [pipe[p] EXCEPT !.builds = bs])
    /\ UNCHANGED <<caches, queue, pass, uids, edits, faults>>

DeletePipeline(p) ==
    /\ Exists(pipe[p])
    /\ ~pipe[p].deleting
    /\ PipeStored(p, IF pipe[p].finalizers = {} THEN NoObject
                     ELSE [pipe[p] EXCEPT !.deleting = TRUE])
    /\ UNCHANGED <<caches, queue, pass, bounded>>

-----------------------------------------------------------------------------
(* The informers and the work queue.  Only steps are watched: a change of  *)
(* a pipeline reaches the cache and enqueues nothing.                      *)

SyncStep(s) ==
    /\ s \notin stepSynced
    /\ stepCache' = [stepCache EXCEPT ![s] = step[s]]
    /\ stepSynced' = stepSynced \cup {s}
    /\ queued' = queued \cup {s}
    /\ UNCHANGED <<step, pipe, pipeSynced, instCurrent, plineCurrent, pipeCache,
                   timers, pass, bounded>>

SyncPipe(p) ==
    /\ p \notin pipeSynced
    /\ pipeCache' = [pipeCache EXCEPT ![p] = pipe[p]]
    /\ pipeSynced' = pipeSynced \cup {p}
    /\ UNCHANGED <<step, pipe, stepSynced, instCurrent, plineCurrent, stepCache,
                   queue, pass, bounded>>

Resync(s) ==
    /\ Exists(stepCache[s])
    /\ queued' = queued \cup {s}
    /\ UNCHANGED <<server, caches, timers, pass, bounded>>

TimerFires(s) ==
    /\ s \in timers
    /\ timers' = timers \ {s}
    /\ queued' = queued \cup {s}
    /\ UNCHANGED <<server, caches, pass, bounded>>

(* Faulty form: instance outlives the pass, as a field of the reconciler. *)
EndOfPassKept ==
    /\ pc' = "idle"
    /\ self' = NoObject
    /\ inst' = inst
    /\ pline' = NoObject
    /\ instCurrent' = FALSE
    /\ plineCurrent' = FALSE

EndOfPass ==
    /\ pc' = "idle"
    /\ self' = NoObject
    /\ inst' = NoObject
    /\ pline' = NoObject
    /\ instCurrent' = FALSE
    /\ plineCurrent' = FALSE

Return == EndOfPass /\ UNCHANGED <<queue, caches, uids, edits, pipeEdits>>

(* Faulty form: the error is logged and nil returned. *)
ReturnErrorLogged == Return

(* A non-nil error: the request is requeued with a delay. *)
ReturnError ==
    /\ EndOfPass
    /\ timers' = timers \cup {self}
    /\ UNCHANGED <<queued, caches, uids, edits, pipeEdits>>

Fault ==
    /\ faults < MaxFaults
    /\ faults' = faults + 1

(* The operator restarts: the informers list every object and the events   *)
(* enqueue every step.                                                     *)
Crash ==
    /\ Fault
    /\ EndOfPass
    /\ stepCache' = step
    /\ pipeCache' = pipe
    /\ stepSynced' = Steps
    /\ pipeSynced' = Pipelines
    /\ queued' = {s \in Steps : Exists(step[s])}
    /\ timers' = {}
    /\ UNCHANGED <<step, pipe, uids, edits, pipeEdits>>

-----------------------------------------------------------------------------
(* Reconcile.  Both objects are read before the first write; that the      *)
(* caches lag separately covers an event between the two reads.            *)

Take(s) ==
    /\ pc = "idle"
    /\ s \in queued
    /\ queued' = queued \ {s}

OwnedByOther(i) == i.owner # NoOwner /\ i.owner.name # i.target

(* Errors before the first write: no such pipeline, or another owner. *)
Refused(i) ==
    \/ ~Exists(pipeCache[i.target])
    \/ ~i.deleting /\ OwnedByOther(i)

NotFound(s) ==
    /\ Take(s)
    /\ ~Exists(stepCache[s])
    /\ UNCHANGED <<server, caches, timers, pass, bounded>>

(* Faulty form: a step without a pipeline is left for its next event. *)
RefuseQuietly(s) ==
    /\ Take(s)
    /\ Exists(stepCache[s])
    /\ Refused(stepCache[s])
    /\ UNCHANGED <<server, caches, timers, pass, bounded>>

Refuse(s) ==
    /\ Take(s)
    /\ Exists(stepCache[s])
    /\ Refused(stepCache[s])
    /\ timers' = timers \cup {s}
    /\ UNCHANGED <<server, caches, pass, bounded>>

(* Faulty form: the pipeline is left without the step's finalizer. *)
JoinedUntied(s, i, p) ==
    [instance |-> [i EXCEPT !.held = TRUE,
                            !.owner = [name |-> i.target, uid |-> p.uid]],
     pipeline |-> [p EXCEPT !.builds = Merged(p.builds, i.builds)]]

(* The copies once instance's builds have been merged into the pipeline. *)
Joined(s, i, p) ==
    [instance |-> [i EXCEPT !.held = TRUE,
                            !.owner = [name |-> i.target, uid |-> p.uid]],
     pipeline |-> [p EXCEPT !.builds = Merged(p.builds, i.builds),
                            !.finalizers = @ \cup {s}]]

(* The copies once they have been taken out, for a step being deleted. *)
Parted(s, i, p) ==
    [instance |-> [i EXCEPT !.held = FALSE],
     pipeline |-> [p EXCEPT !.builds = Removed(p.builds, i.builds),
                            !.finalizers = @ \ {s}]]

Start(s) ==
    /\ Take(s)
    /\ Exists(stepCache[s])
    /\ ~Refused(stepCache[s])
    /\ LET i == stepCache[s]
           p == pipeCache[i.target]
           copies == IF i.deleting THEN Parted(s, i, p) ELSE Joined(s, i, p)
       IN  /\ inst' = copies.instance
           /\ pline' = copies.pipeline
           /\ instCurrent' = (s \in stepSynced)
           /\ plineCurrent' = (i.target \in pipeSynced)
    /\ self' = s
    /\ pc' = "writePipeline"
    /\ UNCHANGED <<step, pipe, stepSynced, pipeSynced, caches, timers, bounded>>

(* Faulty form: the resourceVersion is refreshed before the write. *)
AcceptsUnversioned == Exists(pipe[inst.target])

(* The API server takes an update of the version it holds, and no new      *)
(* finalizer for an object that is being deleted.                          *)
Accepts ==
    /\ plineCurrent
    /\ pline.deleting => pline.finalizers \subseteq pipe[inst.target].finalizers

PipelineUpdated ==
    LET p == inst.target
    IN  /\ Accepts
        /\ pipe' = [pipe EXCEPT ![p] =
                      IF pline.deleting /\ pline.finalizers = {} THEN NoObject
                                                                 ELSE pline]
        /\ pipeSynced' = IF pipe'[p] = pipe[p] THEN pipeSynced ELSE pipeSynced \ {p}

(* The pipeline is updated first. *)
UpdatePipeline ==
    /\ pc = "writePipeline"
    /\ PipelineUpdated
    /\ plineCurrent' = FALSE
    /\ pc' = "writeStep"
    /\ UNCHANGED <<step, stepSynced, instCurrent, caches, queue, self, inst, pline, bounded>>

(* Faulty form: the error is logged and the step written all the same. *)
PipelineErrorLogged ==
    /\ pc' = "writeStep"
    /\ UNCHANGED <<self, inst, pline, instCurrent, plineCurrent, queue, caches,
                   uids, edits, pipeEdits>>

PipelineError == ReturnError

(* A conflict, a refusal, a failed call or a lost answer. *)
UpdatePipelineFails ==
    /\ pc = "writePipeline"
    /\ \/ ~Accepts /\ UNCHANGED <<pipe, pipeSynced, faults>>
       \/ Fault /\ UNCHANGED <<pipe, pipeSynced>>
       \/ Fault /\ PipelineUpdated
    /\ PipelineError
    /\ UNCHANGED <<step, stepSynced>>

StepUpdated ==
    /\ instCurrent
    /\ step' = [step EXCEPT ![self] = IF inst.deleting /\ ~inst.held THEN NoObject
                                                                     ELSE inst]
    /\ stepSynced' = IF step'[self] = step[self] THEN stepSynced ELSE stepSynced \ {self}

UpdateStep ==
    /\ pc = "writeStep"
    /\ StepUpdated
    /\ Return
    /\ UNCHANGED <<pipe, pipeSynced, faults>>

UpdateStepFails ==
    /\ pc = "writeStep"
    /\ \/ ~instCurrent /\ UNCHANGED <<step, stepSynced, faults>>
       \/ Fault /\ UNCHANGED <<step, stepSynced>>
       \/ Fault /\ StepUpdated
    /\ ReturnError
    /\ UNCHANGED <<pipe, pipeSynced>>

-----------------------------------------------------------------------------
Users ==
    \/ \E s \in Steps, p \in Pipelines : \E bs \in SpecBuilds[s] :
          CreateStep(s, p, bs) \/ EditStep(s, p, bs)
    \/ \E s \in Steps : Delete(s)
    \/ \E p \in Pipelines : DeletePipeline(p)
    \/ \E p \in Pipelines, bs \in PipelineBuilds :
          CreatePipeline(p, bs) \/ EditPipeline(p, bs)

Reconcile ==
    \/ \E s \in Steps : NotFound(s) \/ Refuse(s) \/ Start(s)
    \/ UpdatePipeline \/ UpdatePipelineFails
    \/ UpdateStep \/ UpdateStepFails

Next ==
    \/ Users \/ Reconcile \/ Crash
    \/ \E s \in Steps : SyncStep(s) \/ Resync(s) \/ TimerFires(s)
    \/ \E p \in Pipelines : SyncPipe(p)

Spec == Init /\ [][Next]_vars

Serve(s) == NotFound(s) \/ Refuse(s) \/ Start(s)

(* A pass that has begun goes on; the queue is first in, first out, so     *)
(* that a request in it gets its turn however often others come back; the  *)
(* informers and timers do their work.  Users and faults need not do       *)
(* anything.  The ten-hour resync is counted on only once a user has       *)
(* written to a pipeline, which raises no event.                           *)
Fairness ==
    /\ WF_vars(UpdatePipeline \/ UpdatePipelineFails)
    /\ WF_vars(UpdateStep \/ UpdateStepFails)
    /\ \A s \in Steps : /\ SF_vars(Serve(s))
                        /\ WF_vars(SyncStep(s))
                        /\ WF_vars(TimerFires(s))
                        /\ WF_vars(pipeEdits > 0 /\ Resync(s))
    /\ \A p \in Pipelines : WF_vars(SyncPipe(p))

FairSpec == Spec /\ Fairness

(* The resync is added for a statement that not even it makes true. *)
ResyncFairSpec == FairSpec /\ \A s \in Steps : WF_vars(Resync(s))

-----------------------------------------------------------------------------
(* Safety.                                                                 *)

OwnerAlive(owner) == Exists(pipe[owner.name]) /\ pipe[owner.name].uid = owner.uid

(* A live step that has been reconciled keeps its pipeline: the pipeline   *)
(* it is owned by is still there, in the same incarnation, and is held by  *)
(* the step's finalizer, whoever deletes and recreates either object.  So  *)
(* the garbage collector never deletes a step that somebody wants.         *)
HeldStepHasPipeline ==
    \A s \in Steps :
       Exists(step[s]) /\ step[s].held /\ ~step[s].deleting =>
          /\ step[s].owner # NoOwner
          /\ OwnerAlive(step[s].owner)
          /\ s \in pipe[step[s].owner.name].finalizers

(* Steps that merge into one pipeline, and retry, do not pile up entries:  *)
(* no two builds of a pipeline ever carry the same name.                   *)
NoDuplicateBuilds ==
    \A p \in Pipelines :
       Exists(pipe[p]) => NamesDistinct(pipe[p].builds)

(* The write of a pass to a pipeline loses nothing that others wrote to it *)
(* since the pass, or its cache, read it: other steps' builds and their    *)
(* order, their finalizers and a deletion mark; it only lets a pipeline go *)
(* that was marked and that nobody else holds.                             *)
OthersKept ==
    [][\A p \in Pipelines :
         pc = "writePipeline" /\ pc' # pc /\ pipe'[p] # pipe[p] =>
            /\ Exists(pipe[p])
            /\ IF Exists(pipe'[p])
               THEN /\ pipe'[p].uid = pipe[p].uid
                    /\ pipe'[p].deleting = pipe[p].deleting
                    /\ pipe'[p].finalizers \ {self} = pipe[p].finalizers \ {self}
                    /\ LET own == Names(inst.builds)
                       IN  OthersOf(pipe'[p].builds, own) = OthersOf(pipe[p].builds, own)
               ELSE pipe[p].deleting /\ pipe[p].finalizers \subseteq {self}]_vars

(* What a pass writes to a pipeline is the step's under the names of the   *)
(* step's builds, whoever had them before, and all of it; the write of a   *)
(* step that is being deleted leaves none of the names there.              *)
OwnBuildsWritten ==
    [][\A p \in Pipelines :
         pc = "writePipeline" /\ pc' # pc /\ pipe'[p] # pipe[p] /\ Exists(pipe'[p]) =>
            IF inst.deleting THEN FreeOf(pipe'[p].builds, inst.builds)
                             ELSE Carrying(pipe'[p].builds, inst.builds)]_vars

(* The operator lets a step go only when the pipeline the step names no    *)
(* longer carries the step's finalizer: after a failed, repeated or        *)
(* unanswered write of the pipeline the step is still there to try again.  *)
PartedBeforeRelease ==
    [][\A s \in Steps :
         /\ Exists(step[s]) /\ step[s].held
         /\ ~(Exists(step'[s]) /\ step'[s].held)
         /\ Exists(pipe[step[s].target])
         => s \notin pipe[step[s].target].finalizers]_vars

(* The steps and their pipelines behave as Membership says: what a pass    *)
(* reads late, repeats or leaves half done never brings a deleted object   *)
(* back or lets a pipeline that is being deleted take a new member, gives  *)
(* no step a second home, and lets no pipeline go that has a member.       *)
StateOf(o) == IF ~Exists(o) THEN "none" ELSE IF o.deleting THEN "deleting" ELSE "live"

TargetOf(o) == IF Exists(o) THEN o.target ELSE NoOwner

HomeOf(o) == IF Exists(o) /\ o.held THEN o.owner.name ELSE NoOwner

MembersOf(o) == IF Exists(o) THEN o.finalizers ELSE {}

Ties == INSTANCE Membership WITH
    step    <- [s \in Steps |-> StateOf(step[s])],
    target  <- [s \in Steps |-> TargetOf(step[s])],
    home    <- [s \in Steps |-> HomeOf(step[s])],
    pipe    <- [p \in Pipelines |-> StateOf(pipe[p])],
    members <- [p \in Pipelines |-> MembersOf(pipe[p])],
    Nobody  <- NoOwner

StepsKeepMembership == Ties!Spec

-----------------------------------------------------------------------------
(* Liveness.                                                               *)

Wanted(s, bs) ==
    /\ Exists(step[s])
    /\ ~step[s].deleting
    /\ step[s].builds = bs
    /\ ~OwnedByOther(step[s])
    /\ Exists(pipe[step[s].target])
    /\ ~pipe[step[s].target].deleting

(* The builds of a step reach its pipeline and tie the two together,       *)
(* whether the step or the pipeline is created first, whichever writes     *)
(* conflict or fail, and again after a user's write has taken them out, as *)
(* long as neither is being deleted.                                       *)
BuildsMerged ==
    \A s \in Steps : \A bs \in SpecBuilds[s] :
       Wanted(s, bs) ~>
          \/ ~Wanted(s, bs)
          \/ /\ ToSet(bs) \subseteq ToSet(pipe[step[s].target].builds)
             /\ s \in pipe[step[s].target].finalizers

Marked(s) == Exists(step[s]) /\ step[s].deleting

(* A step that is being deleted goes away as long as its pipeline is there.*)
StepDeletionCompletes ==
    \A s \in Steps :
       Marked(s) ~> (~Marked(s) \/ ~Exists(pipe[step[s].target]))

(* Line 144: "Now update the instance and let it be deleted": a step that  *)
(* is being deleted goes away.                                             *)
MarkedStepGoes == \A s \in Steps : Marked(s) ~> ~Marked(s)

(* Lines 112 and 133: "Remove our build steps from the pipeline", "Remove  *)
(* finalizer from the buildpipeline": the finalizer of a step that is gone *)
(* does not hold a pipeline for ever.                                      *)
PipelineFreed ==
    \A s \in Steps, p \in Pipelines :
       (~Exists(step[s]) /\ Exists(pipe[p]) /\ s \in pipe[p].finalizers)
         ~> (Exists(step[s]) \/ ~Exists(pipe[p]) \/ s \notin pipe[p].finalizers)
=============================================================================
