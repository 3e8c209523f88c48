-------------------------- MODULE BuildStepsProofs --------------------------
(***************************************************************************)
(* What BuildSteps' safety runs check for two steps and one pipeline,      *)
(* proved for every set of steps and pipelines, every list of builds, and  *)
(* every number of edits, incarnations and faults.                         *)
(*                                                                         *)
(* HeldStepHasPipeline is not inductive: it says nothing of a pass under   *)
(* way, which could write anything.  Inv adds what the copies are worth:   *)
(* a copy that is still current agrees with the server (CachesAgree,       *)
(* CopiesAgree), what a pass holds fits the write it makes next            *)
(* (PassOrdered), and a deletion mark, once read, stays true however old   *)
(* the copy is (MarksStay), so that a pass on an outdated copy may take    *)
(* the step's finalizer from the pipeline.  The types need Bookkeeping     *)
(* beside it, the lists of builds ListsDistinct, OwnBuildsHeld and         *)
(* BuildsAgree, with BuildListProofs for what a pass makes of a list, and  *)
(* the refinement of Membership, at the end, Undisputed.                   *)
(***************************************************************************)
EXTENDS BuildSteps, BuildListProofs, TLAPS

(* A Pipeline, field by field. *)
IsPipeline(o) ==
    /\ o = [uid |-> o.uid, builds |-> o.builds, deleting |-> o.deleting,
            finalizers |-> o.finalizers]
    /\ o.uid \in Uids
    /\ o.builds \in Seq(Build)
    /\ o.deleting \in BOOLEAN
    /\ o.finalizers \in SUBSET Steps

LEMMA PipelineFields == \A o : IsPipeline(o) <=> o \in Pipeline
  BY DEF IsPipeline, Pipeline

(* What the objects and the copies of them are. *)
Shapes ==
    /\ step \in [Steps -> Step \cup {NoObject}]
    /\ stepCache \in [Steps -> Step \cup {NoObject}]
    /\ pipe = [p \in Pipelines |-> pipe[p]]
    /\ pipeCache = [p \in Pipelines |-> pipeCache[p]]
    /\ \A p \in Pipelines :
          /\ pipe[p] = NoObject \/ IsPipeline(pipe[p])
          /\ pipeCache[p] = NoObject \/ IsPipeline(pipeCache[p])
    /\ uids \in Nat
    /\ pc \in {"idle", "writePipeline", "writeStep"}
    /\ pc # "idle" => self \in Steps /\ inst \in Step /\ IsPipeline(pline)

(* A cached copy whose version is the server's is the server's. *)
CachesAgree ==
    /\ \A s \in stepSynced \cap Steps : stepCache[s] = step[s]
    /\ \A p \in pipeSynced \cap Pipelines : pipeCache[p] = pipe[p]

(* What Reconcile's variables say that Reconcile did not change itself, as *)
(* long as an update of them would be accepted.                            *)
CopiesAgree ==
    /\ instCurrent =>
          /\ pc # "idle"
          /\ self \in stepSynced
          /\ step[self].target = inst.target
          /\ step[self].deleting = inst.deleting
    /\ plineCurrent =>
          /\ pc = "writePipeline"
          /\ Exists(pipe[inst.target])
          /\ pipe[inst.target].uid = pline.uid
          /\ pipe[inst.target].deleting = pline.deleting
          /\ pipe[inst.target].finalizers \ {self} = pline.finalizers \ {self}

(* What the first write of a pass leaves for the second to rely on. *)
Tied == OwnerAlive(inst.owner) /\ self \in pipe[inst.target].finalizers

Untied == Exists(pipe[inst.target]) => self \notin pipe[inst.target].finalizers

(* A pass that joins has both tied before it writes the step, one that     *)
(* parts has untied the pipeline before it lets the step go.               *)
PassOrdered ==
    /\ pc # "idle" =>
          IF inst.deleting THEN ~inst.held
          ELSE inst.held /\ inst.owner = [name |-> inst.target, uid |-> pline.uid]
    /\ pc = "writePipeline" => (self \in pline.finalizers <=> ~inst.deleting)
    /\ pc = "writeStep" => IF inst.deleting THEN Untied ELSE Tied

LiveHeld(o) == Exists(o) /\ o.held /\ ~o.deleting

(* A step that is being deleted never becomes a live, held one again. *)
MarksStay ==
    /\ \A s \in Steps :
          Exists(stepCache[s]) /\ stepCache[s].deleting => ~LiveHeld(step[s])
    /\ pc # "idle" /\ inst.deleting => ~LiveHeld(step[self])

Inv ==
    /\ Shapes
    /\ CachesAgree
    /\ CopiesAgree
    /\ PassOrdered
    /\ MarksStay
    /\ HeldStepHasPipeline

-----------------------------------------------------------------------------
(* Objects are there, and what is written over them leaves objects. *)
LEMMA PipelineThere ==
  ASSUME NEW o, IsPipeline(o) PROVE Exists(o)
  BY ConstantsAssumption DEF IsPipeline, Exists

LEMMA StepThere == \A o \in Step : Exists(o)
  BY ConstantsAssumption DEF Exists

Rewritten(o, bs, fs) == [o EXCEPT !.builds = bs, !.finalizers = fs]

LEMMA PipelineRewritten ==
  ASSUME NEW o, IsPipeline(o), NEW bs \in Seq(Build), NEW fs \in SUBSET Steps,
         NEW q, q = Rewritten(o, bs, fs)
  PROVE  /\ IsPipeline(q)
         /\ q.uid = o.uid
         /\ q.builds = bs
         /\ q.deleting = o.deleting
         /\ q.finalizers = fs
  BY DEF IsPipeline, Rewritten

LEMMA PipelineEdited ==
  ASSUME NEW o, IsPipeline(o), NEW bs \in Seq(Build), NEW q, q = [o EXCEPT !.builds = bs]
  PROVE  IsPipeline(q) /\ q.uid = o.uid /\ q.finalizers = o.finalizers
  BY DEF IsPipeline

LEMMA PipelineMarked ==
  ASSUME NEW o, IsPipeline(o), NEW q, q = [o EXCEPT !.deleting = TRUE]
  PROVE  IsPipeline(q) /\ q.uid = o.uid /\ q.finalizers = o.finalizers
  BY DEF IsPipeline

-----------------------------------------------------------------------------
(* What users' writes have in common: none sets a step's held mark, and no *)
(* object that is held by a finalizer goes.                                *)
GivenStep(s, o) ==
    IF Exists(step[s])
    THEN \/ /\ o \in Step
            /\ o.held = step[s].held
            /\ o.owner = step[s].owner
            /\ step[s].deleting => o.deleting
         \/ o = NoObject /\ ~step[s].held
    ELSE o \in Step /\ ~o.held

GivenPipeline(p, o) ==
    IF Exists(pipe[p])
    THEN \/ /\ IsPipeline(o)
            /\ o.uid = pipe[p].uid
            /\ o.finalizers = pipe[p].finalizers
         \/ o = NoObject /\ pipe[p].finalizers = {}
    ELSE IsPipeline(o) /\ o.finalizers = {}

UserWritesStep(s, o) ==
    /\ GivenStep(s, o)
    /\ StepStored(s, o)
    /\ uids' \in Nat
    /\ UNCHANGED <<caches, pass>>

UserWritesPipeline(p, o) ==
    /\ GivenPipeline(p, o)
    /\ PipeStored(p, o)
    /\ uids' \in Nat
    /\ UNCHANGED <<caches, pass>>

(* Every action of a user is such a write. *)
LEMMA UsersWrite ==
  ASSUME Shapes, Users
  PROVE  \/ \E s \in Steps : \E o : UserWritesStep(s, o)
         \/ \E p \in Pipelines : \E o : UserWritesPipeline(p, o)
<1>1. ASSUME NEW s \in Steps, NEW p \in Pipelines, NEW bs \in SpecBuilds[s],
             CreateStep(s, p, bs)
      PROVE  \E o : UserWritesStep(s, o)
  <2> DEFINE o == [target |-> p, builds |-> bs, deleting |-> FALSE,
                   held |-> FALSE, owner |-> NoOwner]
  <2>1. o \in Step /\ ~o.held
    BY ConstantsAssumption DEF Step, Owners
  <2>2. UserWritesStep(s, o)
    BY <1>1, <2>1 DEF CreateStep, UserWritesStep, GivenStep, Shapes, bounded
  <2> QED
    BY <2>2
<1>2. ASSUME NEW s \in Steps, NEW p \in Pipelines, NEW bs \in SpecBuilds[s],
             EditStep(s, p, bs)
      PROVE  \E o : UserWritesStep(s, o)
  <2> DEFINE o == [step[s] EXCEPT !.target = p, !.builds = bs]
  <2>1. step[s] \in Step /\ bs \in Seq(Build)
    BY <1>2, ConstantsAssumption DEF EditStep, Shapes, Exists
  <2>2. /\ o \in Step
        /\ o.held = step[s].held
        /\ o.owner = step[s].owner
        /\ o.deleting = step[s].deleting
    BY <2>1 DEF Step
  <2>3. UserWritesStep(s, o)
    BY <1>2, <2>2 DEF EditStep, UserWritesStep, GivenStep, Shapes
  <2> QED
    BY <2>3
<1>3. ASSUME NEW s \in Steps, Delete(s)
      PROVE  \E o : UserWritesStep(s, o)
  <2> DEFINE m == [step[s] EXCEPT !.deleting = TRUE]
             o == IF step[s].held THEN m ELSE NoObject
  <2>1. step[s] \in Step
    BY <1>3 DEF Delete, Shapes, Exists
  <2>2. m \in Step /\ m.held = step[s].held /\ m.owner = step[s].owner /\ m.deleting
    BY <2>1 DEF Step
  <2>3. UserWritesStep(s, o)
    BY <1>3, <2>2 DEF Delete, UserWritesStep, GivenStep, Shapes, bounded
  <2> QED
    BY <2>3
<1>4. ASSUME NEW p \in Pipelines, DeletePipeline(p)
      PROVE  \E o : UserWritesPipeline(p, o)
  <2> DEFINE m == [pipe[p] EXCEPT !.deleting = TRUE]
             o == IF pipe[p].finalizers = {} THEN NoObject ELSE m
  <2>1. IsPipeline(pipe[p])
    BY <1>4 DEF DeletePipeline, Shapes, Exists
  <2>2. IsPipeline(m) /\ m.uid = pipe[p].uid /\ m.finalizers = pipe[p].finalizers
    BY <2>1, PipelineMarked
  <2>3. UserWritesPipeline(p, o)
    BY <1>4, <2>2 DEF DeletePipeline, UserWritesPipeline, GivenPipeline, Shapes, bounded
  <2> QED
    BY <2>3
<1>5. ASSUME NEW p \in Pipelines, NEW bs \in PipelineBuilds, CreatePipeline(p, bs)
      PROVE  \E o : UserWritesPipeline(p, o)
  <2> DEFINE o == [uid |-> uids + 1, builds |-> bs, deleting |-> FALSE,
                   finalizers |-> {}]
  <2>1. uids + 1 \in Uids
    BY <1>5, ConstantsAssumption DEF CreatePipeline, Uids, Shapes
  <2>2. IsPipeline(o) /\ o.finalizers = {}
    BY <2>1, ConstantsAssumption DEF IsPipeline
  <2>3. UserWritesPipeline(p, o)
    BY <1>5, <2>2 DEF CreatePipeline, UserWritesPipeline, GivenPipeline, Shapes
  <2> QED
    BY <2>3
<1>6. ASSUME NEW p \in Pipelines, NEW bs \in PipelineBuilds, EditPipeline(p, bs)
      PROVE  \E o : UserWritesPipeline(p, o)
  <2> DEFINE o == [pipe[p] EXCEPT !.builds = bs]
  <2>1. IsPipeline(pipe[p]) /\ bs \in Seq(Build)
    BY <1>6, ConstantsAssumption DEF EditPipeline, Shapes, Exists
  <2>2. IsPipeline(o) /\ o.uid = pipe[p].uid /\ o.finalizers = pipe[p].finalizers
    BY <2>1, PipelineEdited
  <2>3. UserWritesPipeline(p, o)
    BY <1>6, <2>2 DEF EditPipeline, UserWritesPipeline, GivenPipeline, Shapes
  <2> QED
    BY <2>3
<1> QED
  BY <1>1, <1>2, <1>3, <1>4, <1>5, <1>6 DEF Users

-----------------------------------------------------------------------------
(* The invariant holds at first. *)
LEMMA InitInv == Init => Inv
<1> SUFFICES ASSUME Init PROVE Inv
  OBVIOUS
<1>1. \A s \in Steps : step[s] = NoObject /\ stepCache[s] = NoObject
  BY DEF Init
<1>2. \A p \in Pipelines : pipe[p] = NoObject /\ pipeCache[p] = NoObject
  BY DEF Init
<1>3. Shapes
  BY DEF Init, Shapes
<1>4. CachesAgree
  BY <1>1, <1>2 DEF CachesAgree
<1>5. CopiesAgree /\ PassOrdered
  BY DEF Init, CopiesAgree, PassOrdered
<1>6. MarksStay /\ HeldStepHasPipeline
  BY <1>1 DEF Init, MarksStay, HeldStepHasPipeline, Exists
<1> QED
  BY <1>3, <1>4, <1>5, <1>6 DEF Inv

-----------------------------------------------------------------------------
(* A user's write of a step, and of a pipeline, preserves it. *)
LEMMA UserStepKeepsInv ==
  ASSUME Inv, NEW s \in Steps, NEW o, UserWritesStep(s, o)
  PROVE  Inv'
<1> USE DEF UserWritesStep, StepStored, pass, caches
<1>1. o \in Step \cup {NoObject}
  BY DEF GivenStep
<1>2. Shapes'
  BY <1>1 DEF Inv, Shapes
<1>3. step' = [step EXCEPT ![s] = o] /\ step \in [Steps -> Step \cup {NoObject}]
  BY DEF Inv, Shapes
<1>4. CachesAgree'
  BY <1>3 DEF Inv, CachesAgree
<1>5. CopiesAgree'
  BY <1>3 DEF Inv, Shapes, CopiesAgree, Exists
<1>6. PassOrdered'
  BY DEF Inv, PassOrdered, Tied, Untied, OwnerAlive, Exists
<1>7. LiveHeld(o) => LiveHeld(step[s]) /\ o.owner = step[s].owner
  BY DEF GivenStep, LiveHeld, Exists
<1>8. MarksStay'
  BY <1>3, <1>7 DEF Inv, Shapes, MarksStay, LiveHeld, Exists
<1>9. HeldStepHasPipeline'
  BY <1>3, <1>7 DEF Inv, HeldStepHasPipeline, LiveHeld, OwnerAlive, Exists
<1> QED
  BY <1>2, <1>4, <1>5, <1>6, <1>8, <1>9 DEF Inv

LEMMA UserPipelineKeepsInv ==
  ASSUME Inv, NEW p \in Pipelines, NEW o, UserWritesPipeline(p, o)
  PROVE  Inv'
<1> USE DEF UserWritesPipeline, PipeStored, pass, caches
<1>1. IsPipeline(o) \/ o = NoObject
  BY DEF GivenPipeline
<1>3. /\ pipe' = [pipe EXCEPT ![p] = o]
      /\ pipe' = [q \in Pipelines |-> pipe'[q]]
      /\ \A q \in Pipelines : pipe'[q] = IF q = p THEN o ELSE pipe[q]
  BY DEF Inv, Shapes
<1>2. Shapes'
  BY <1>1, <1>3 DEF Inv, Shapes
<1>4. CachesAgree'
  BY <1>3 DEF Inv, CachesAgree
<1>5. CopiesAgree'
  BY <1>3 DEF Inv, CopiesAgree, Shapes, Step, Exists
<1>6. \A q \in Pipelines, s \in Steps :
         Exists(pipe[q]) /\ s \in pipe[q].finalizers =>
            Exists(pipe'[q]) /\ pipe'[q].uid = pipe[q].uid /\ s \in pipe'[q].finalizers
  BY <1>3, PipelineThere DEF GivenPipeline
<1>7. \A q \in Pipelines, s \in Steps :
         Exists(pipe'[q]) /\ s \in pipe'[q].finalizers =>
            Exists(pipe[q]) /\ s \in pipe[q].finalizers
  BY <1>3 DEF GivenPipeline, Exists
<1>8. PassOrdered'
  <2>1. pc # "idle" => self \in Steps /\ inst.target \in Pipelines
    BY DEF Inv, Shapes, Step
  <2>2. pc # "idle" /\ Untied => Untied'
    BY <1>7, <2>1 DEF Untied
  <2>3. pc # "idle" /\ inst.owner.name = inst.target /\ Tied => Tied'
    BY <1>6, <2>1 DEF Tied, OwnerAlive
  <2> QED
    BY <2>2, <2>3 DEF Inv, PassOrdered
<1>9. MarksStay'
  BY DEF Inv, MarksStay, LiveHeld, Exists
<1>10. HeldStepHasPipeline'
  BY <1>6 DEF Inv, HeldStepHasPipeline, Shapes, Step, Owners, OwnerAlive, Exists
<1> QED
  BY <1>2, <1>4, <1>5, <1>8, <1>9, <1>10 DEF Inv

-----------------------------------------------------------------------------
(* The informers' steps and a restart preserve it. *)
LEMMA SyncStepKeepsInv ==
  ASSUME Inv, NEW s \in Steps, SyncStep(s) PROVE Inv'
<1> USE DEF SyncStep, pass
<1>1. Shapes'
  BY DEF Inv, Shapes, bounded
<1>2. CachesAgree' /\ MarksStay'
  BY DEF Inv, Shapes, CachesAgree, MarksStay, LiveHeld, Exists
<1>3. CopiesAgree' /\ PassOrdered' /\ HeldStepHasPipeline'
  BY DEF Inv, CopiesAgree, PassOrdered, Tied, Untied, HeldStepHasPipeline,
         OwnerAlive, Exists
<1> QED
  BY <1>1, <1>2, <1>3 DEF Inv

LEMMA SyncPipeKeepsInv ==
  ASSUME Inv, NEW p \in Pipelines, SyncPipe(p) PROVE Inv'
<1> USE DEF SyncPipe, pass
<1>1. Shapes'
  BY DEF Inv, Shapes, bounded
<1>2. CachesAgree'
  BY DEF Inv, Shapes, CachesAgree
<1>3. CopiesAgree' /\ PassOrdered' /\ HeldStepHasPipeline' /\ MarksStay'
  BY DEF Inv, CopiesAgree, PassOrdered, Tied, Untied, HeldStepHasPipeline, OwnerAlive,
         Exists, MarksStay, LiveHeld
<1> QED
  BY <1>1, <1>2, <1>3 DEF Inv

LEMMA CrashKeepsInv == ASSUME Inv, Crash PROVE Inv'
<1> USE DEF Crash, EndOfPass
<1>1. Shapes'
  BY DEF Inv, Shapes
<1>2. CachesAgree' /\ MarksStay'
  BY DEF CachesAgree, MarksStay, LiveHeld, Exists
<1>3. CopiesAgree' /\ PassOrdered' /\ HeldStepHasPipeline'
  BY DEF Inv, CopiesAgree, PassOrdered, HeldStepHasPipeline, OwnerAlive, Exists
<1> QED
  BY <1>1, <1>2, <1>3 DEF Inv

-----------------------------------------------------------------------------
(* What a pass makes of the builds of a pipeline for the step i. *)
Rebuilt(bs, i) == IF i.deleting THEN Removed(bs, i.builds) ELSE Merged(bs, i.builds)

(* What a pass that begins holds in its two variables.                     *)
LEMMA PassBegins ==
  ASSUME Inv, NEW s \in Steps, Start(s)
  PROVE  LET i == stepCache[s]
             p == pipeCache[i.target]
         IN  /\ i \in Step /\ IsPipeline(p)
             /\ inst' \in Step /\ IsPipeline(pline')
             /\ inst'.target = i.target
             /\ inst'.deleting = i.deleting
             /\ inst'.builds = i.builds
             /\ IF i.deleting THEN ~inst'.held
                ELSE inst'.held /\ inst'.owner = [name |-> i.target, uid |-> p.uid]
             /\ pline'.uid = p.uid
             /\ pline'.deleting = p.deleting
             /\ pline'.builds = Rebuilt(p.builds, i)
             /\ pline'.finalizers = IF i.deleting THEN p.finalizers \ {s}
                                                  ELSE p.finalizers \cup {s}
<1> DEFINE i == stepCache[s]
           p == pipeCache[i.target]
<1>1. i \in Step
  BY DEF Inv, Shapes, Start, Exists
<1>2. IsPipeline(p)
  BY <1>1 DEF Inv, Shapes, Start, Refused, Exists, Step
<1>3. CASE i.deleting
  <2> DEFINE bs == Removed(p.builds, i.builds)
  <2>0. bs \in Seq(Build)
    BY <1>1, <1>2, RemovedType DEF Step, IsPipeline
  <2>1. inst' = [i EXCEPT !.held = FALSE]
    BY <1>3 DEF Start, Parted
  <2>2. pline' = Rewritten(p, bs, p.finalizers \ {s})
    BY <1>3 DEF Start, Parted, Rewritten
  <2>3. p.finalizers \ {s} \in SUBSET Steps
    BY <1>2 DEF IsPipeline
  <2>4. /\ IsPipeline(pline') /\ pline'.uid = p.uid /\ pline'.deleting = p.deleting
        /\ pline'.finalizers = p.finalizers \ {s} /\ pline'.builds = bs
    <3> HIDE DEF bs, p
    <3> QED
      BY <1>2, <2>0, <2>2, <2>3, PipelineRewritten
  <2>5. /\ inst' \in Step /\ inst'.target = i.target
        /\ inst'.deleting = i.deleting /\ ~inst'.held /\ inst'.builds = i.builds
    BY <1>1, <2>1 DEF Step
  <2> QED
    BY <1>1, <1>2, <1>3, <2>4, <2>5 DEF Rebuilt
<1>4. CASE ~i.deleting
  <2> DEFINE own == [name |-> i.target, uid |-> p.uid]
             bs  == Merged(p.builds, i.builds)
  <2>0. bs \in Seq(Build)
    BY <1>1, <1>2, MergedType DEF Step, IsPipeline
  <2>1. inst' = [i EXCEPT !.held = TRUE, !.owner = own]
    BY <1>4 DEF Start, Joined
  <2>2. pline' = Rewritten(p, bs, p.finalizers \cup {s})
    BY <1>4 DEF Start, Joined, Rewritten
  <2>3. p.finalizers \cup {s} \in SUBSET Steps
    BY <1>2 DEF IsPipeline
  <2>4. /\ IsPipeline(pline') /\ pline'.uid = p.uid /\ pline'.deleting = p.deleting
        /\ pline'.finalizers = p.finalizers \cup {s} /\ pline'.builds = bs
    <3> HIDE DEF bs, p
    <3> QED
      BY <1>2, <2>0, <2>2, <2>3, PipelineRewritten
  <2>5. own \in Owners
    BY <1>1, <1>2 DEF Step, IsPipeline, Owners
  <2> HIDE DEF own
  <2>6. /\ inst' \in Step /\ inst'.target = i.target /\ inst'.deleting = i.deleting
        /\ inst'.held /\ inst'.owner = own /\ inst'.builds = i.builds
    BY <1>1, <2>1, <2>5 DEF Step
  <2> QED
    BY <1>1, <1>2, <1>4, <2>4, <2>6 DEF own, Rebuilt
<1> QED
  BY <1>3, <1>4

(* The beginning of a pass preserves the invariant. *)
LEMMA StartKeepsInv == ASSUME Inv, NEW s \in Steps, Start(s) PROVE Inv'
<1> USE PassBegins
<1> DEFINE i == stepCache[s]
           p == pipeCache[i.target]
<1>0. /\ pc' = "writePipeline" /\ self' = s
      /\ instCurrent' = (s \in stepSynced)
      /\ plineCurrent' = (i.target \in pipeSynced)
      /\ UNCHANGED <<step, pipe, stepSynced, pipeSynced, stepCache, pipeCache, uids>>
  BY DEF Start, caches, bounded
<1>1. Shapes'
  BY <1>0 DEF Inv, Shapes
<1>2. CachesAgree'
  BY <1>0 DEF Inv, CachesAgree
<1>3. i.target \in Pipelines /\ Exists(p)
  BY PipelineThere DEF Step
<1>4. CopiesAgree'
  <2>1. s \in stepSynced => step[s] = i
    BY DEF Inv, CachesAgree
  <2>2. i.target \in pipeSynced => pipe[i.target] = p
    BY <1>3 DEF Inv, CachesAgree
  <2>3. pline'.finalizers \ {s} = p.finalizers \ {s}
    OBVIOUS
  <2>4. /\ i \in Step /\ inst'.target = i.target /\ inst'.deleting = i.deleting
        /\ pline'.uid = p.uid /\ pline'.deleting = p.deleting
    OBVIOUS
  <2> HIDE PassBegins
  <2>5. instCurrent' => /\ s \in stepSynced
                        /\ step[s].target = inst'.target /\ step[s].deleting = inst'.deleting
    BY <1>0, <2>1, <2>4
  <2>6. plineCurrent' => /\ Exists(pipe[i.target])
                         /\ pipe[i.target].uid = pline'.uid
                         /\ pipe[i.target].deleting = pline'.deleting
                         /\ pipe[i.target].finalizers \ {s} = pline'.finalizers \ {s}
    BY <1>0, <1>3, <2>2, <2>3, <2>4
  <2> HIDE DEF i, p
  <2> QED
    BY <1>0, <2>4, <2>5, <2>6 DEF CopiesAgree, Exists
<1>5. PassOrdered'
  BY <1>0 DEF PassOrdered
<1>6. MarksStay'
  BY <1>0, StepThere DEF Inv, MarksStay, LiveHeld, Exists
<1>7. HeldStepHasPipeline'
  BY <1>0 DEF Inv, HeldStepHasPipeline, OwnerAlive, Exists
<1> QED
  BY <1>1, <1>2, <1>4, <1>5, <1>6, <1>7 DEF Inv

-----------------------------------------------------------------------------
(* A pass's write of the pipeline takes no finalizer away but its own, and *)
(* that only for a step being deleted.                                     *)
LEMMA PipelineWrite ==
  ASSUME Inv, pc = "writePipeline", PipelineUpdated
  PROVE  /\ pipe' = [q \in Pipelines |-> pipe'[q]]
         /\ \A q \in Pipelines : pipe'[q] = NoObject \/ IsPipeline(pipe'[q])
         /\ \/ pipe'[inst.target] = pline
            \/ pipe'[inst.target] = NoObject /\ pline.finalizers = {}
         /\ \A q \in pipeSynced' : q \in pipeSynced /\ pipe'[q] = pipe[q]
         /\ \A q \in Pipelines, s \in Steps :
               Exists(pipe[q]) /\ s \in pipe[q].finalizers /\ (s = self => ~inst.deleting)
                 => Exists(pipe'[q]) /\ pipe'[q].uid = pipe[q].uid
                    /\ s \in pipe'[q].finalizers
<1> DEFINE p == inst.target
<1>1. p \in Pipelines /\ IsPipeline(pline) /\ self \in Steps
  BY DEF Inv, Shapes, Step
<1>2. \A q \in Pipelines : q # p => pipe'[q] = pipe[q]
  BY <1>1 DEF PipelineUpdated, Inv, Shapes
<1>3. pipe'[p] = pline \/ (pipe'[p] = NoObject /\ pline.finalizers = {})
  <2> DEFINE o == IF pline.deleting /\ pline.finalizers = {} THEN NoObject ELSE pline
  <2>1. pipe'[p] = o
    BY <1>1 DEF PipelineUpdated, Inv, Shapes
  <2>2. CASE pline.deleting /\ pline.finalizers = {}
    BY <2>1, <2>2
  <2>3. CASE ~(pline.deleting /\ pline.finalizers = {})
    BY <2>1, <2>3
  <2> QED
    BY <2>2, <2>3
<1>4. pipe' = [q \in Pipelines |-> pipe'[q]]
  BY DEF PipelineUpdated, Inv, Shapes
<1>5. \A q \in Pipelines : pipe'[q] = NoObject \/ IsPipeline(pipe'[q])
  BY <1>1, <1>2, <1>3 DEF Inv, Shapes
<1>6. \A q \in pipeSynced' : q \in pipeSynced /\ pipe'[q] = pipe[q]
  BY DEF PipelineUpdated, Inv, Shapes
<1>7. /\ pipe[p].uid = pline.uid
      /\ pipe[p].finalizers \ {self} = pline.finalizers \ {self}
      /\ self \in pline.finalizers <=> ~inst.deleting
  BY DEF PipelineUpdated, Accepts, Inv, CopiesAgree, PassOrdered
<1>8. ASSUME NEW s \in Steps, s \in pipe[p].finalizers, s = self => ~inst.deleting
      PROVE  Exists(pipe'[p]) /\ pipe'[p].uid = pipe[p].uid /\ s \in pipe'[p].finalizers
  <2>1. s \in pline.finalizers
    BY <1>7, <1>8
  <2> QED
    BY <1>1, <1>3, <1>7, <2>1, PipelineThere
<1> QED
  BY <1>2, <1>3, <1>4, <1>5, <1>6, <1>8

(* So no live step loses its pipeline by it. *)
LEMMA PipelineWriteKeeps ==
  ASSUME Inv, pc = "writePipeline", PipelineUpdated,
         UNCHANGED <<step, stepSynced, caches>>
  PROVE  CachesAgree' /\ HeldStepHasPipeline'
<1>1. CachesAgree'
  BY PipelineWrite DEF Inv, CachesAgree, caches
<1>2. ASSUME NEW s \in Steps, LiveHeld(step[s])
      PROVE  /\ step[s].owner # NoOwner
             /\ OwnerAlive(step[s].owner)'
             /\ s \in (pipe[step[s].owner.name].finalizers)'
  <2> DEFINE q == step[s].owner.name
  <2>1. /\ step[s].owner # NoOwner
        /\ OwnerAlive(step[s].owner)
        /\ s \in pipe[q].finalizers
    BY <1>2 DEF Inv, HeldStepHasPipeline, LiveHeld
  <2>2. q \in Pipelines
    BY <1>2, <2>1 DEF Inv, Shapes, LiveHeld, Exists, Step, Owners
  <2>3. s = self => ~inst.deleting
    BY <1>2 DEF Inv, MarksStay
  <2>4. Exists(pipe'[q]) /\ pipe'[q].uid = pipe[q].uid /\ s \in pipe'[q].finalizers
    BY <2>1, <2>2, <2>3, PipelineWrite DEF OwnerAlive
  <2> QED
    BY <2>1, <2>4 DEF OwnerAlive
<1>3. HeldStepHasPipeline'
  BY <1>2 DEF HeldStepHasPipeline, LiveHeld, OwnerAlive, Exists
<1> QED
  BY <1>1, <1>3

(* Where a pass is over nothing is promised of it. *)
LEMMA PassOver == EndOfPass => CopiesAgree' /\ PassOrdered'
  BY DEF EndOfPass, CopiesAgree, PassOrdered

(* The first write of a pass, answered or not, preserves the invariant. *)
LEMMA UpdatePipelineKeepsInv == ASSUME Inv, UpdatePipeline PROVE Inv'
<1>1. /\ pc = "writePipeline" /\ pc' = "writeStep" /\ PipelineUpdated
      /\ plineCurrent' = FALSE
      /\ UNCHANGED <<step, stepSynced, caches, instCurrent, self, inst, pline, uids>>
  BY DEF UpdatePipeline, bounded
<1>2. Shapes'
  BY <1>1, PipelineWrite DEF Inv, Shapes, caches
<1>3. CachesAgree' /\ HeldStepHasPipeline'
  BY <1>1, PipelineWriteKeeps
<1>4. CopiesAgree'
  BY <1>1 DEF Inv, CopiesAgree, Exists
<1>5. MarksStay'
  BY <1>1 DEF Inv, MarksStay, LiveHeld, Exists, caches
<1>6. PassOrdered'
  <2>1. self \in pline.finalizers <=> ~inst.deleting
    BY <1>1 DEF Inv, PassOrdered
  <2>2. CASE inst.deleting
    <3>1. Untied'
      BY <1>1, <2>1, <2>2, PipelineWrite DEF Untied, Exists
    <3> QED
      BY <1>1, <2>2, <3>1 DEF Inv, PassOrdered
  <2>3. CASE ~inst.deleting
    <3>1. inst.held /\ inst.owner = [name |-> inst.target, uid |-> pline.uid]
      BY <1>1, <2>3 DEF Inv, PassOrdered
    <3>2. Exists(pline)
      BY <1>1, PipelineThere DEF Inv, Shapes
    <3>3. pipe'[inst.target] = pline
      BY <1>1, <2>1, <2>3, PipelineWrite
    <3>4. Tied'
      BY <1>1, <2>1, <2>3, <3>1, <3>2, <3>3 DEF Tied, OwnerAlive, Exists
    <3> QED
      BY <1>1, <2>3, <3>1, <3>4 DEF PassOrdered
  <2> QED
    BY <2>2, <2>3
<1> QED
  BY <1>2, <1>3, <1>4, <1>5, <1>6 DEF Inv

LEMMA UpdatePipelineFailsKeepsInv == ASSUME Inv, UpdatePipelineFails PROVE Inv'
<1>1. /\ pc = "writePipeline" /\ pc' = "idle" /\ EndOfPass
      /\ PipelineUpdated \/ UNCHANGED <<pipe, pipeSynced>>
      /\ UNCHANGED <<step, stepSynced, caches, uids>>
  BY DEF UpdatePipelineFails, PipelineError, ReturnError, EndOfPass
<1>2. Shapes'
  BY <1>1, PipelineWrite DEF Inv, Shapes, caches
<1>3. CopiesAgree' /\ PassOrdered'
  BY <1>1, PassOver
<1>4. MarksStay'
  BY <1>1 DEF Inv, MarksStay, LiveHeld, Exists, caches
<1>5. CachesAgree' /\ HeldStepHasPipeline'
  <2>1. CASE PipelineUpdated
    BY <1>1, <2>1, PipelineWriteKeeps
  <2>2. CASE UNCHANGED <<pipe, pipeSynced>>
    BY <1>1, <2>2 DEF Inv, CachesAgree, HeldStepHasPipeline, OwnerAlive, Exists, caches
  <2> QED
    BY <1>1, <2>1, <2>2
<1> QED
  BY <1>2, <1>3, <1>4, <1>5 DEF Inv

-----------------------------------------------------------------------------
(* A pass's write of the step ties a live step to its pipeline, and lets a *)
(* step go that is being deleted and has been untied.                      *)
LEMMA StepWrite ==
  ASSUME Inv, pc = "writeStep", StepUpdated
  PROVE  /\ self \in Steps
         /\ step' = [step EXCEPT ![self] = step'[self]]
         /\ \/ step'[self] = inst /\ ~inst.deleting /\ inst.held /\ Tied
            \/ step'[self] = NoObject /\ inst.deleting /\ Untied
         /\ step[self].target = inst.target
         /\ stepCache[self].deleting = inst.deleting
         /\ \A s \in stepSynced' : s \in stepSynced /\ step'[s] = step[s]
<1> DEFINE o == IF inst.deleting /\ ~inst.held THEN NoObject ELSE inst
<1>1. self \in Steps /\ step \in [Steps -> Step \cup {NoObject}]
  BY DEF Inv, Shapes
<1>2. step' = [step EXCEPT ![self] = o]
  BY DEF StepUpdated
<1>3. step'[self] = o /\ \A s \in Steps : s # self => step'[s] = step[s]
  BY <1>1, <1>2
<1>4. \/ o = inst /\ ~inst.deleting /\ inst.held /\ Tied
      \/ o = NoObject /\ inst.deleting /\ Untied
  <2>1. CASE inst.deleting
    BY <2>1 DEF Inv, PassOrdered
  <2>2. CASE ~inst.deleting
    BY <2>2 DEF Inv, PassOrdered
  <2> QED
    BY <2>1, <2>2
<1>5. /\ step[self].target = inst.target
      /\ stepCache[self].deleting = inst.deleting
  BY <1>1 DEF StepUpdated, Inv, CopiesAgree, CachesAgree
<1>6. \A s \in stepSynced' : s \in stepSynced /\ step'[s] = step[s]
  BY <1>1, <1>2 DEF StepUpdated
<1> QED
  BY <1>1, <1>2, <1>3, <1>4, <1>5, <1>6

(* The second write of a pass, answered or not, preserves it. *)
LEMMA StepWriteKeeps ==
  ASSUME Inv, pc = "writeStep", StepUpdated, EndOfPass,
         UNCHANGED <<pipe, pipeSynced, caches, uids>>
  PROVE  Inv'
<1>1. step'[self] \in Step \cup {NoObject}
  BY StepWrite DEF Inv, Shapes
<1>2. Shapes'
  BY <1>1, StepWrite DEF Inv, Shapes, EndOfPass, caches
<1>3. CachesAgree'
  BY StepWrite DEF Inv, CachesAgree, caches
<1>4. CopiesAgree' /\ PassOrdered'
  BY PassOver
<1>5. \A s \in Steps : s # self => step'[s] = step[s]
  BY StepWrite DEF Inv, Shapes
<1>6. LiveHeld(step'[self]) => step'[self] = inst /\ ~inst.deleting
  BY StepWrite DEF LiveHeld, Exists
<1>7. MarksStay'
  BY <1>5, <1>6, StepWrite DEF Inv, MarksStay, LiveHeld, Exists, EndOfPass, caches
<1>8. LiveHeld(step'[self]) =>
         /\ inst.owner = [name |-> inst.target, uid |-> pline.uid]
         /\ Tied
  BY <1>6, StepWrite DEF Inv, PassOrdered
<1>9. NoOwner # [name |-> inst.target, uid |-> pline.uid]
  BY ConstantsAssumption DEF Inv, Shapes, Step, IsPipeline
<1>10. HeldStepHasPipeline'
  BY <1>5, <1>6, <1>8, <1>9
  DEF Inv, HeldStepHasPipeline, LiveHeld, Tied, OwnerAlive, Exists
<1> QED
  BY <1>2, <1>3, <1>4, <1>7, <1>10 DEF Inv

LEMMA UpdateStepKeepsInv == ASSUME Inv, UpdateStep PROVE Inv'
  BY StepWriteKeeps DEF UpdateStep, Return

LEMMA UpdateStepFailsKeepsInv == ASSUME Inv, UpdateStepFails PROVE Inv'
<1>1. /\ pc = "writeStep" /\ pc' = "idle" /\ EndOfPass
      /\ StepUpdated \/ UNCHANGED <<step, stepSynced>>
      /\ UNCHANGED <<pipe, pipeSynced, caches, uids>>
  BY DEF UpdateStepFails, ReturnError, EndOfPass
<1>2. CASE StepUpdated
  BY <1>1, <1>2, StepWriteKeeps
<1>3. CASE UNCHANGED <<step, stepSynced>>
  <2>1. CopiesAgree' /\ PassOrdered'
    BY <1>1, PassOver
  <2>2. Shapes' /\ CachesAgree' /\ MarksStay' /\ HeldStepHasPipeline'
    BY <1>1, <1>3 DEF Inv, Shapes, CachesAgree, MarksStay, LiveHeld,
                      HeldStepHasPipeline, OwnerAlive, Exists, caches
  <2> QED
    BY <2>1, <2>2 DEF Inv
<1> QED
  BY <1>1, <1>2, <1>3

-----------------------------------------------------------------------------
(* Steps of the queue touch nothing that the invariant speaks of. *)
LEMMA QuietKeepsInv ==
  ASSUME Inv, UNCHANGED <<server, caches, pass, uids>> PROVE Inv'
<1> USE DEF server, caches, pass
<1>1. Shapes' /\ CachesAgree' /\ CopiesAgree'
  BY DEF Inv, Shapes, CachesAgree, CopiesAgree, Exists
<1>2. PassOrdered' /\ MarksStay' /\ HeldStepHasPipeline'
  BY DEF Inv, PassOrdered, Tied, Untied, MarksStay, LiveHeld,
         HeldStepHasPipeline, OwnerAlive, Exists
<1> QED
  BY <1>1, <1>2 DEF Inv

LEMMA NextKeepsInv == Inv /\ [Next]_vars => Inv'
<1> SUFFICES ASSUME Inv, [Next]_vars PROVE Inv'
  OBVIOUS
<1>1. CASE Users
  BY <1>1, UsersWrite, UserStepKeepsInv, UserPipelineKeepsInv DEF Inv
<1>2. ASSUME NEW s \in Steps, NotFound(s) \/ Refuse(s) \/ Resync(s) \/ TimerFires(s)
      PROVE  Inv'
  <2>1. UNCHANGED <<server, caches, pass, uids>>
    BY <1>2 DEF NotFound, Refuse, Resync, TimerFires, bounded
  <2> QED
    BY <2>1, QuietKeepsInv
<1>3. ASSUME NEW s \in Steps, Start(s) \/ SyncStep(s) PROVE Inv'
  BY <1>3, StartKeepsInv, SyncStepKeepsInv
<1>4. ASSUME NEW p \in Pipelines, SyncPipe(p) PROVE Inv'
  BY <1>4, SyncPipeKeepsInv
<1>5. CASE UpdatePipeline \/ UpdatePipelineFails
  BY <1>5, UpdatePipelineKeepsInv, UpdatePipelineFailsKeepsInv
<1>6. CASE UpdateStep \/ UpdateStepFails
  BY <1>6, UpdateStepKeepsInv, UpdateStepFailsKeepsInv
<1>7. CASE Crash
  BY <1>7, CrashKeepsInv
<1>8. CASE UNCHANGED vars
  BY <1>8, QuietKeepsInv DEF vars, bounded
<1> QED
  BY <1>1, <1>2, <1>3, <1>4, <1>5, <1>6, <1>7, <1>8 DEF Next, Reconcile

LEMMA SpecInv == Spec => []Inv
  BY InitInv, NextKeepsInv, PTL DEF Spec

(***************************************************************************)
(* A live step that has been reconciled keeps its pipeline: the pipeline   *)
(* it is owned by is there, in the same incarnation, with the step's       *)
(* finalizer on it, for any number of steps that share pipelines, whatever *)
(* users create, edit and delete, whatever copies a pass works on and      *)
(* whichever writes fail, conflict or go unanswered.                       *)
(***************************************************************************)
THEOREM StepKeepsPipeline == Spec => []HeldStepHasPipeline
  BY SpecInv, PTL DEF Inv

-----------------------------------------------------------------------------
(* Nothing but the second write of a pass takes a held step away.          *)
LEMMA OnlyStepWritesRelease ==
  ASSUME Inv, [Next]_vars, NEW s \in Steps,
         Exists(step[s]), step[s].held, ~(Exists(step'[s]) /\ step'[s].held)
  PROVE  pc = "writeStep" /\ StepUpdated /\ s = self /\ UNCHANGED pipe
<1>1. step \in [Steps -> Step \cup {NoObject}]
  BY DEF Inv, Shapes
<1>2. step'[s] # step[s]
  OBVIOUS
<1>3. CASE Users
  <2>1. ASSUME NEW r \in Steps, NEW o, UserWritesStep(r, o) PROVE FALSE
    <3>1. step'[r] = o /\ \A q \in Steps : q # r => step'[q] = step[q]
      BY <1>1, <2>1 DEF UserWritesStep, StepStored
    <3>2. s = r
      BY <1>2, <3>1
    <3>3. o \in Step /\ o.held
      BY <2>1, <3>2 DEF UserWritesStep, GivenStep
    <3> QED
      BY <3>1, <3>2, <3>3, StepThere
  <2>2. ASSUME NEW p \in Pipelines, NEW o, UserWritesPipeline(p, o) PROVE FALSE
    BY <1>2, <2>2 DEF UserWritesPipeline, PipeStored
  <2> QED
    BY <1>3, <2>1, <2>2, UsersWrite DEF Inv
<1>4. CASE UpdateStep \/ UpdateStepFails
  <2>1. pc = "writeStep" /\ UNCHANGED pipe /\ StepUpdated
    BY <1>2, <1>4 DEF UpdateStep, UpdateStepFails
  <2>2. \A q \in Steps : q # self => step'[q] = step[q]
    BY <1>1, <2>1 DEF StepUpdated
  <2> QED
    BY <1>2, <2>1, <2>2
<1>5. ASSUME \/ UNCHANGED vars
             \/ \E q \in Steps : NotFound(q) \/ Refuse(q) \/ Start(q) \/ SyncStep(q)
                                 \/ Resync(q) \/ TimerFires(q)
             \/ \E p \in Pipelines : SyncPipe(p)
             \/ UpdatePipeline \/ UpdatePipelineFails \/ Crash
      PROVE  UNCHANGED step
  BY <1>5 DEF vars, server, NotFound, Refuse, Start, SyncStep, Resync, TimerFires,
              SyncPipe, UpdatePipeline, UpdatePipelineFails, Crash
<1> QED
  BY <1>2, <1>3, <1>4, <1>5 DEF Next, Reconcile

(* When it does, the pipeline has been untied. *)
LEMMA ReleaseFollowsParting ==
  ASSUME Inv, [Next]_vars, NEW s \in Steps,
         Exists(step[s]), step[s].held, ~(Exists(step'[s]) /\ step'[s].held),
         Exists(pipe[step[s].target])
  PROVE  s \notin pipe[step[s].target].finalizers
<1>1. pc = "writeStep" /\ StepUpdated /\ s = self
  BY OnlyStepWritesRelease
<1>2. pc # "idle" /\ self \in Steps /\ inst \in Step
  BY <1>1 DEF Inv, Shapes
<1>3. step'[self] # inst \/ ~inst.held
  BY <1>1, <1>2, StepThere
<1>4. Untied /\ step[self].target = inst.target
  BY <1>1, <1>3, StepWrite
<1> QED
  BY <1>1, <1>4 DEF Untied

(***************************************************************************)
(* The operator lets a step go only when the pipeline the step names no    *)
(* longer carries the step's finalizer, whichever write of the pipeline    *)
(* failed, went unanswered or was made from stale copies before.           *)
(***************************************************************************)
THEOREM ReleasedOnceParted == Spec => PartedBeforeRelease
<1>1. Inv /\ [Next]_vars =>
         [\A s \in Steps :
            /\ Exists(step[s]) /\ step[s].held
            /\ ~(Exists(step'[s]) /\ step'[s].held)
            /\ Exists(pipe[step[s].target])
            => s \notin pipe[step[s].target].finalizers]_vars
  BY ReleaseFollowsParting DEF Exists
<1> QED
  BY <1>1, SpecInv, PTL DEF Spec, PartedBeforeRelease

-----------------------------------------------------------------------------
(* The types of the variables that Inv does not speak of. *)
Bookkeeping ==
    /\ stepSynced \subseteq Steps
    /\ pipeSynced \subseteq Pipelines
    /\ queued \subseteq Steps
    /\ timers \subseteq Steps
    /\ instCurrent \in BOOLEAN
    /\ plineCurrent \in BOOLEAN
    /\ uids \in 0..MaxUids
    /\ edits \in 0..MaxEdits
    /\ pipeEdits \in 0..MaxPipeEdits
    /\ faults \in 0..MaxFaults
    /\ pc = "idle" => self = NoObject /\ inst = NoObject /\ pline = NoObject

(* The counters stay within their bounds. *)
LEMMA CountersBounded ==
  ASSUME Bookkeeping, [Next]_vars
  PROVE  /\ uids' \in 0..MaxUids
         /\ edits' \in 0..MaxEdits
         /\ pipeEdits' \in 0..MaxPipeEdits
         /\ faults' \in 0..MaxFaults
<1>1. /\ uids' = uids \/ (uids < MaxUids /\ uids' = uids + 1)
      /\ edits' = edits \/ (edits < MaxEdits /\ edits' = edits + 1)
      /\ pipeEdits' = pipeEdits \/ (pipeEdits < MaxPipeEdits /\ pipeEdits' = pipeEdits + 1)
      /\ faults' = faults \/ (faults < MaxFaults /\ faults' = faults + 1)
  BY DEF Next, Users, Reconcile, CreateStep, EditStep, Delete, CreatePipeline,
         EditPipeline, DeletePipeline, SyncStep, SyncPipe, Resync, TimerFires, Crash, Fault,
         NotFound, Refuse, Start, UpdatePipeline, UpdatePipelineFails, PipelineError,
         UpdateStep, UpdateStepFails, Return, ReturnError, vars, bounded
<1>2. /\ MaxUids \in Nat /\ MaxEdits \in Nat /\ MaxPipeEdits \in Nat /\ MaxFaults \in Nat
      /\ uids \in 0..MaxUids /\ edits \in 0..MaxEdits
      /\ pipeEdits \in 0..MaxPipeEdits /\ faults \in 0..MaxFaults
  BY ConstantsAssumption DEF Bookkeeping
<1>3. uids' \in 0..MaxUids /\ edits' \in 0..MaxEdits
  BY <1>1, <1>2
<1>4. pipeEdits' \in 0..MaxPipeEdits /\ faults' \in 0..MaxFaults
  BY <1>1, <1>2
<1> QED
  BY <1>3, <1>4

(* The queue and the informers speak of steps and pipelines only. *)
LEMMA QueueTyped ==
  ASSUME Shapes, Bookkeeping, [Next]_vars
  PROVE  /\ stepSynced' \subseteq Steps /\ pipeSynced' \subseteq Pipelines
         /\ queued' \subseteq Steps /\ timers' \subseteq Steps
<1>1. CASE Users
  BY <1>1 DEF Users, CreateStep, EditStep, Delete, CreatePipeline, EditPipeline,
              DeletePipeline, StepStored, PipeStored, queue, Bookkeeping
<1>2. CASE UpdatePipeline \/ UpdatePipelineFails
  BY <1>2 DEF UpdatePipeline, UpdatePipelineFails, PipelineUpdated, PipelineError,
              ReturnError, queue, Shapes, Bookkeeping
<1>3. CASE UpdateStep \/ UpdateStepFails
  BY <1>3 DEF UpdateStep, UpdateStepFails, StepUpdated, Return, ReturnError, queue,
              Shapes, Bookkeeping
<1>4. ASSUME \/ Crash
             \/ \E s \in Steps : NotFound(s) \/ Refuse(s) \/ Start(s) \/ SyncStep(s)
                                 \/ Resync(s) \/ TimerFires(s)
             \/ \E p \in Pipelines : SyncPipe(p)
             \/ UNCHANGED vars
      PROVE  /\ stepSynced' \subseteq Steps /\ pipeSynced' \subseteq Pipelines
             /\ queued' \subseteq Steps /\ timers' \subseteq Steps
  BY <1>4 DEF Crash, NotFound, Refuse, Start, Take, SyncStep, SyncPipe, Resync, TimerFires,
              server, queue, vars, Bookkeeping
<1> QED
  BY <1>1, <1>2, <1>3, <1>4 DEF Next, Reconcile

(* The two marks stay marks, and a worker that is idle holds nothing. *)
LEMMA MarksTyped ==
  ASSUME Bookkeeping, [Next]_vars
  PROVE  instCurrent' \in BOOLEAN /\ plineCurrent' \in BOOLEAN
<1> SUFFICES ASSUME Next PROVE instCurrent' \in BOOLEAN /\ plineCurrent' \in BOOLEAN
  BY DEF vars, server, Bookkeeping
<1>1. CASE Users
  BY <1>1 DEF Users, CreateStep, EditStep, Delete, CreatePipeline, EditPipeline,
              DeletePipeline, StepStored, PipeStored, Bookkeeping
<1>2. ASSUME NEW s \in Steps, Start(s)
      PROVE  instCurrent' \in BOOLEAN /\ plineCurrent' \in BOOLEAN
  BY <1>2 DEF Start
<1>3. CASE Crash \/ UpdatePipelineFails \/ UpdateStep \/ UpdateStepFails
  BY <1>3 DEF Crash, UpdatePipelineFails, PipelineError, UpdateStep, UpdateStepFails,
              Return, ReturnError, EndOfPass
<1>4. CASE UpdatePipeline
  BY <1>4 DEF UpdatePipeline, Bookkeeping
<1>5. ASSUME \/ \E s \in Steps : NotFound(s) \/ Refuse(s) \/ SyncStep(s)
                                 \/ Resync(s) \/ TimerFires(s)
             \/ \E p \in Pipelines : SyncPipe(p)
      PROVE  UNCHANGED <<instCurrent, plineCurrent>>
  BY <1>5 DEF NotFound, Refuse, SyncStep, SyncPipe, Resync, TimerFires, server
<1> QED
  BY <1>1, <1>2, <1>3, <1>4, <1>5 DEF Next, Reconcile, Bookkeeping

LEMMA IdleHoldsNothing ==
  ASSUME Bookkeeping, [Next]_vars, pc' = "idle"
  PROVE  (self = NoObject /\ inst = NoObject /\ pline = NoObject)'
<1>1. UNCHANGED pass \/ EndOfPass
  BY DEF Next, Users, Reconcile, CreateStep, EditStep, Delete, CreatePipeline,
         EditPipeline, DeletePipeline, SyncStep, SyncPipe, Resync, TimerFires, Crash,
         NotFound, Refuse, Start, UpdatePipeline, UpdatePipelineFails, PipelineError,
         UpdateStep, UpdateStepFails, Return, ReturnError, vars
<1> QED
  BY <1>1 DEF EndOfPass, pass, Bookkeeping

LEMMA SpecBookkeeping == Spec => [](Inv /\ Bookkeeping)
<1>1. Init => Bookkeeping
  <2>1. /\ 0 \in 0..MaxUids /\ 0 \in 0..MaxEdits
        /\ 0 \in 0..MaxPipeEdits /\ 0 \in 0..MaxFaults
    BY ConstantsAssumption
  <2> QED
    BY <2>1, Zenon DEF Init, Bookkeeping
<1>2. Inv /\ Bookkeeping /\ [Next]_vars => Bookkeeping'
  <2> SUFFICES ASSUME Inv, Bookkeeping, [Next]_vars PROVE Bookkeeping'
    OBVIOUS
  <2> QED
    BY CountersBounded, QueueTyped, MarksTyped, IdleHoldsNothing DEF Inv, Bookkeeping
<1> QED
  BY <1>1, <1>2, InitInv, NextKeepsInv, PTL DEF Spec

(***************************************************************************)
(* The variables keep their types, the lists of builds included, however   *)
(* many builds are merged and removed.                                     *)
(***************************************************************************)
THEOREM TypeCorrect == Spec => []TypeOK
<1>1. Inv /\ Bookkeeping => TypeOK
  <2> SUFFICES ASSUME Inv, Bookkeeping PROVE TypeOK
    OBVIOUS
  <2>1. \A p \in Pipelines : /\ pipe[p] \in Pipeline \cup {NoObject}
                             /\ pipeCache[p] \in Pipeline \cup {NoObject}
    BY PipelineFields DEF Inv, Shapes
  <2>2. /\ pipe \in [Pipelines -> Pipeline \cup {NoObject}]
        /\ pipeCache \in [Pipelines -> Pipeline \cup {NoObject}]
    BY <2>1 DEF Inv, Shapes
  <2>3. /\ self \in Steps \cup {NoObject}
        /\ inst \in IF pc = "idle" THEN {NoObject} ELSE Step
        /\ pline \in IF pc = "idle" THEN {NoObject} ELSE Pipeline
    BY PipelineFields DEF Inv, Shapes, Bookkeeping
  <2> QED
    BY <2>2, <2>3 DEF Inv, Shapes, Bookkeeping, TypeOK
<1> QED
  BY <1>1, SpecBookkeeping, PTL

-----------------------------------------------------------------------------
(* Where the lists of builds come from: a user writes one of his own, or a *)
(* pass writes the one it holds; nothing else changes a pipeline's list.   *)
LEMMA ListsWritten ==
  ASSUME Inv, [Next]_vars, NEW p \in Pipelines, Exists(pipe'[p])
  PROVE  \/ Exists(pipe[p]) /\ pipe'[p].builds = pipe[p].builds
         \/ pipe'[p].builds \in PipelineBuilds
         \/ pc = "writePipeline" /\ pipe'[p].builds = pline.builds
<1>0. pipe = [q \in Pipelines |-> pipe[q]]
  BY DEF Inv, Shapes
<1>1. ASSUME NEW q \in Pipelines, NEW bs \in PipelineBuilds, CreatePipeline(q, bs)
      PROVE  pipe'[p] = pipe[p] \/ pipe'[p].builds \in PipelineBuilds
  BY <1>0, <1>1 DEF CreatePipeline, PipeStored
<1>2. ASSUME NEW q \in Pipelines, NEW bs \in PipelineBuilds, EditPipeline(q, bs)
      PROVE  pipe'[p] = pipe[p] \/ pipe'[p].builds \in PipelineBuilds
  <2>1. pipe'[p] = IF p = q THEN [pipe[q] EXCEPT !.builds = bs] ELSE pipe[p]
    BY <1>0, <1>2 DEF EditPipeline, PipeStored
  <2>2. IsPipeline(pipe[q])
    BY <1>2 DEF Inv, Shapes, EditPipeline, Exists
  <2>3. [pipe[q] EXCEPT !.builds = bs].builds = bs
    BY <2>2 DEF IsPipeline
  <2> QED
    BY <2>1, <2>3
<1>3. ASSUME NEW q \in Pipelines, DeletePipeline(q)
      PROVE  Exists(pipe[p]) /\ pipe'[p].builds = pipe[p].builds
  <2>1. /\ Exists(pipe[q])
        /\ pipe' = [pipe EXCEPT ![q] = IF pipe[q].finalizers = {} THEN NoObject
                                       ELSE [pipe[q] EXCEPT !.deleting = TRUE]]
    BY <1>3 DEF DeletePipeline, PipeStored
  <2>2. IsPipeline(pipe[q])
    BY <2>1 DEF Inv, Shapes, Exists
  <2>3. [pipe[q] EXCEPT !.deleting = TRUE].builds = pipe[q].builds
    BY <2>2 DEF IsPipeline
  <2>4. CASE p = q
    BY <1>0, <2>1, <2>3, <2>4 DEF Exists
  <2>5. CASE p # q
    <3>1. pipe'[p] = pipe[p]
      BY <1>0, <2>1, <2>5
    <3> QED
      BY <3>1 DEF Exists
  <2> QED
    BY <2>4, <2>5
<1>4. CASE UpdatePipeline \/ UpdatePipelineFails
  <2>1. CASE UNCHANGED pipe
    BY <2>1 DEF Exists
  <2>2. CASE pc = "writePipeline" /\ PipelineUpdated
    <3>1. pipe'[inst.target] = pline \/ pipe'[inst.target] = NoObject
      BY <2>2, PipelineWrite
    <3>2. p # inst.target => pipe'[p] = pipe[p]
      BY <1>0, <2>2 DEF PipelineUpdated
    <3> QED
      BY <2>2, <3>1, <3>2 DEF Exists
  <2> QED
    BY <1>4, <2>1, <2>2 DEF UpdatePipeline, UpdatePipelineFails
<1>5. ASSUME \/ \E s \in Steps : \/ NotFound(s) \/ Refuse(s) \/ Start(s) \/ SyncStep(s)
                                 \/ Resync(s) \/ TimerFires(s) \/ Delete(s)
             \/ \E s \in Steps, q \in Pipelines : \E bs \in SpecBuilds[s] :
                   CreateStep(s, q, bs) \/ EditStep(s, q, bs)
             \/ \E q \in Pipelines : SyncPipe(q)
             \/ UpdateStep \/ UpdateStepFails \/ Crash \/ UNCHANGED vars
      PROVE  UNCHANGED pipe
  BY <1>5 DEF NotFound, Refuse, Start, SyncStep, Resync, TimerFires, Delete, CreateStep,
              EditStep, StepStored, SyncPipe, UpdateStep, UpdateStepFails, Crash,
              vars, server
<1> QED
  BY <1>1, <1>2, <1>3, <1>4, <1>5 DEF Next, Users, Reconcile, Exists

(* No list that is stored, cached or about to be written has two builds of *)
(* one name, if users write no such list themselves.                       *)
UsersNameOnce == \A bs \in PipelineBuilds : NamesDistinct(bs)

ListsDistinct ==
    /\ NoDuplicateBuilds
    /\ \A p \in Pipelines : Exists(pipeCache[p]) => NamesDistinct(pipeCache[p].builds)
    /\ pc # "idle" => NamesDistinct(pline.builds)

LEMMA CachesFilled ==
  ASSUME Inv, [Next]_vars, NEW p \in Pipelines
  PROVE  pipeCache'[p] = pipeCache[p] \/ pipeCache'[p] = pipe[p]
<1>1. CASE Users
  BY <1>1 DEF Users, CreateStep, EditStep, Delete, CreatePipeline, EditPipeline,
              DeletePipeline, caches
<1>2. ASSUME NEW q \in Pipelines, SyncPipe(q)
      PROVE  pipeCache'[p] = pipeCache[p] \/ pipeCache'[p] = pipe[p]
  BY <1>2 DEF SyncPipe, Inv, Shapes
<1>3. CASE Crash
  BY <1>3 DEF Crash
<1>4. ASSUME \/ \E s \in Steps : NotFound(s) \/ Refuse(s) \/ Start(s) \/ SyncStep(s)
                                 \/ Resync(s) \/ TimerFires(s)
             \/ UpdatePipeline \/ UpdatePipelineFails
             \/ UpdateStep \/ UpdateStepFails \/ UNCHANGED vars
      PROVE  UNCHANGED pipeCache
  BY <1>4 DEF NotFound, Refuse, Start, SyncStep, Resync, TimerFires, UpdatePipeline,
              UpdatePipelineFails, PipelineError, UpdateStep, UpdateStepFails, Return,
              ReturnError, vars, caches
<1> QED
  BY <1>1, <1>2, <1>3, <1>4 DEF Next, Reconcile

LEMMA ListsStayDistinct ==
  ASSUME UsersNameOnce, Inv, ListsDistinct, [Next]_vars PROVE ListsDistinct'
<1>1. ASSUME NEW p \in Pipelines, Exists(pipe'[p]) PROVE NamesDistinct(pipe'[p].builds)
  <2>1. \/ Exists(pipe[p]) /\ pipe'[p].builds = pipe[p].builds
        \/ pipe'[p].builds \in PipelineBuilds
        \/ pc = "writePipeline" /\ pipe'[p].builds = pline.builds
    BY <1>1, ListsWritten
  <2> QED
    BY <2>1 DEF UsersNameOnce, ListsDistinct, NoDuplicateBuilds
<1>2. ASSUME NEW p \in Pipelines, Exists(pipeCache'[p])
      PROVE  NamesDistinct(pipeCache'[p].builds)
  BY <1>2, CachesFilled DEF ListsDistinct, NoDuplicateBuilds, Exists
<1>3. ASSUME pc' # "idle" PROVE NamesDistinct(pline'.builds)
  <2>1. ASSUME NEW s \in Steps, Start(s) PROVE NamesDistinct(pline'.builds)
    <3> DEFINE i == stepCache[s]
               p == pipeCache[i.target]
    <3>1. i \in Step /\ IsPipeline(p) /\ pline'.builds = Rebuilt(p.builds, i)
      BY <2>1, PassBegins
    <3>2. /\ i.target \in Pipelines /\ i.builds \in Seq(Build) /\ p.builds \in Seq(Build)
          /\ NamesDistinct(p.builds)
      BY <3>1, PipelineThere DEF Step, IsPipeline, ListsDistinct
    <3>3. NamesDistinct(Rebuilt(p.builds, i))
      BY <3>2, MergedDistinct, RemovedDistinct DEF Rebuilt
    <3> QED
      BY <3>1, <3>3
  <2>2. CASE ~ \E s \in Steps : Start(s)
    <3>1. UNCHANGED pass \/ EndOfPass \/ UpdatePipeline
      BY <2>2 DEF Next, Users, Reconcile, CreateStep, EditStep, Delete, CreatePipeline,
         EditPipeline, DeletePipeline, SyncStep, SyncPipe, Resync, TimerFires, Crash,
         NotFound, Refuse, UpdatePipelineFails, PipelineError,
         UpdateStep, UpdateStepFails, Return, ReturnError, vars
    <3> QED
      BY <1>3, <3>1 DEF pass, EndOfPass, UpdatePipeline, ListsDistinct
  <2> QED
    BY <2>1, <2>2
<1> QED
  BY <1>1, <1>2, <1>3 DEF ListsDistinct, NoDuplicateBuilds, Exists

(***************************************************************************)
(* No two builds of a pipeline ever carry the same name, however many      *)
(* steps merge into it, of whatever names, and however often a pass is     *)
(* repeated, as long as users write no list with a name twice themselves.  *)
(***************************************************************************)
THEOREM NoDuplicates == ASSUME UsersNameOnce PROVE Spec => []NoDuplicateBuilds
<1>1. Init => ListsDistinct
  BY DEF Init, ListsDistinct, NoDuplicateBuilds, Exists
<1>2. Inv /\ ListsDistinct /\ [Next]_vars => ListsDistinct'
  BY ListsStayDistinct
<1>3. ListsDistinct => NoDuplicateBuilds
  BY DEF ListsDistinct
<1> QED
  BY <1>1, <1>2, <1>3, InitInv, NextKeepsInv, PTL DEF Spec

(* What a pass is about to write to a pipeline carries the step's builds,  *)
(* or is free of them, however old the list is that it was made from.      *)
OwnBuildsHeld ==
    pc = "writePipeline" =>
       IF inst.deleting THEN FreeOf(pline.builds, inst.builds)
                        ELSE Carrying(pline.builds, inst.builds)

LEMMA OwnBuildsStayHeld ==
  ASSUME Inv, ListsDistinct, OwnBuildsHeld, [Next]_vars PROVE OwnBuildsHeld'
<1>1. ASSUME NEW s \in Steps, Start(s) PROVE OwnBuildsHeld'
  <2> DEFINE i == stepCache[s]
             p == pipeCache[i.target]
  <2>1. /\ i \in Step /\ IsPipeline(p)
        /\ inst'.deleting = i.deleting /\ inst'.builds = i.builds
        /\ pline'.builds = Rebuilt(p.builds, i)
    BY <1>1, PassBegins
  <2>2. /\ i.target \in Pipelines /\ i.builds \in Seq(Build) /\ p.builds \in Seq(Build)
        /\ NamesDistinct(p.builds)
    BY <2>1, PipelineThere DEF Step, IsPipeline, ListsDistinct
  <2> HIDE DEF i, p
  <2>3. CASE i.deleting
    BY <2>1, <2>2, <2>3, RemovedFrees DEF Rebuilt, OwnBuildsHeld
  <2>4. CASE ~i.deleting
    BY <2>1, <2>2, <2>4, MergedCarries DEF Rebuilt, OwnBuildsHeld
  <2> QED
    BY <2>3, <2>4
<1>2. CASE ~ \E s \in Steps : Start(s)
  <2>1. UNCHANGED pass \/ pc' = "idle" \/ pc' = "writeStep"
    BY <1>2 DEF Next, Users, Reconcile, CreateStep, EditStep, Delete, CreatePipeline,
         EditPipeline, DeletePipeline, SyncStep, SyncPipe, Resync, TimerFires, Crash,
         NotFound, Refuse, UpdatePipeline, UpdatePipelineFails, PipelineError,
         UpdateStep, UpdateStepFails, Return, ReturnError, EndOfPass, vars
  <2> QED
    BY <2>1 DEF pass, OwnBuildsHeld
<1> QED
  BY <1>1, <1>2

-----------------------------------------------------------------------------
(* A copy of a pipeline that would still be accepted holds the list that   *)
(* the server has, with the step's builds merged into it or removed.       *)
BuildsAgree == plineCurrent => pline.builds = Rebuilt(pipe[inst.target].builds, inst)

LEMMA BuildsStayAgreed ==
  ASSUME Inv, BuildsAgree, [Next]_vars PROVE BuildsAgree'
<1>1. ASSUME NEW s \in Steps, Start(s) PROVE BuildsAgree'
  <2> DEFINE i == stepCache[s]
             p == pipeCache[i.target]
  <2>1. /\ i \in Step
        /\ inst'.target = i.target /\ inst'.deleting = i.deleting /\ inst'.builds = i.builds
        /\ pline'.builds = Rebuilt(p.builds, i)
    BY <1>1, PassBegins
  <2>2. plineCurrent' = (i.target \in pipeSynced) /\ pipe' = pipe
    BY <1>1 DEF Start
  <2>3. i.target \in Pipelines
    BY <2>1 DEF Step
  <2>4. plineCurrent' => pipe'[inst'.target] = p
    BY <2>1, <2>2, <2>3 DEF Inv, CachesAgree
  <2>5. Rebuilt(p.builds, inst') = Rebuilt(p.builds, i)
    BY <2>1 DEF Rebuilt
  <2> QED
    BY <2>1, <2>4, <2>5 DEF BuildsAgree, Rebuilt
<1>2. ASSUME NEW p \in Pipelines, NEW o, PipeStored(p, o), UNCHANGED pass
      PROVE  BuildsAgree'
  <2>1. plineCurrent' => plineCurrent /\ inst.target # p
    BY <1>2 DEF PipeStored
  <2>2. inst.target # p => pipe'[inst.target] = pipe[inst.target]
    <3>1. pipe = [q \in Pipelines |-> pipe[q]] /\ pipe' = [pipe EXCEPT ![p] = o]
      BY <1>2 DEF Inv, Shapes, PipeStored
    <3> QED
      BY <3>1
  <2>3. inst' = inst /\ pline' = pline
    BY <1>2 DEF pass
  <2> QED
    BY <2>1, <2>2, <2>3 DEF BuildsAgree, Rebuilt
<1>3. CASE Users
  <2>1. \/ \E p \in Pipelines : \E o : PipeStored(p, o) /\ UNCHANGED pass
        \/ UNCHANGED <<pipe, plineCurrent, inst, pline>>
    BY <1>3 DEF Users, CreateStep, EditStep, Delete, StepStored, CreatePipeline,
                EditPipeline, DeletePipeline, pass
  <2> QED
    BY <1>2, <2>1 DEF BuildsAgree, Rebuilt
<1>4. CASE UpdatePipeline \/ UpdatePipelineFails \/ UpdateStep \/ UpdateStepFails \/ Crash
  BY <1>4 DEF UpdatePipeline, UpdatePipelineFails, PipelineError, UpdateStep,
              UpdateStepFails, Crash, Return, ReturnError, EndOfPass, BuildsAgree
<1>5. ASSUME \/ \E s \in Steps : NotFound(s) \/ Refuse(s) \/ SyncStep(s)
                                 \/ Resync(s) \/ TimerFires(s)
             \/ \E p \in Pipelines : SyncPipe(p)
             \/ UNCHANGED vars
      PROVE  UNCHANGED <<pipe, plineCurrent, inst, pline>>
  BY <1>5 DEF NotFound, Refuse, SyncStep, SyncPipe, Resync, TimerFires, server, pass, vars
<1>6. UNCHANGED <<pipe, plineCurrent, inst, pline>> => BuildsAgree'
  BY DEF BuildsAgree, Rebuilt
<1> QED
  BY <1>1, <1>3, <1>4, <1>5, <1>6 DEF Next, Reconcile

LEMMA SpecBuildsAgree == Spec => [](Inv /\ BuildsAgree)
<1>1. Init => BuildsAgree
  BY DEF Init, BuildsAgree
<1> QED
  BY <1>1, InitInv, NextKeepsInv, BuildsStayAgreed, PTL DEF Spec

(* The first write of a pass keeps what others hold, if it is accepted. *)
OthersStay(p) ==
    /\ Exists(pipe[p])
    /\ IF Exists(pipe'[p])
       THEN /\ pipe'[p].uid = pipe[p].uid
            /\ pipe'[p].deleting = pipe[p].deleting
            /\ pipe'[p].finalizers \ {self} = pipe[p].finalizers \ {self}
            /\ LET own == Names(inst.builds)
               IN  OthersOf(pipe'[p].builds, own) = OthersOf(pipe[p].builds, own)
       ELSE pipe[p].deleting /\ pipe[p].finalizers \subseteq {self}

LEMMA PipelineWriteKeepsOthers ==
  ASSUME Inv, BuildsAgree, pc = "writePipeline", PipelineUpdated,
         NEW p \in Pipelines, pipe'[p] # pipe[p]
  PROVE  OthersStay(p)
<1> DEFINE gone == pline.deleting /\ pline.finalizers = {}
<1>1. pipe' = [pipe EXCEPT ![inst.target] = IF gone THEN NoObject ELSE pline]
  BY DEF PipelineUpdated
<1>2. p = inst.target
  BY <1>1 DEF Inv, Shapes
<1>3. /\ Exists(pipe[p])
      /\ pipe[p].uid = pline.uid
      /\ pipe[p].deleting = pline.deleting
      /\ pipe[p].finalizers \ {self} = pline.finalizers \ {self}
  BY <1>2 DEF PipelineUpdated, Accepts, Inv, CopiesAgree
<1>4. Exists(pline)
  BY PipelineThere DEF Inv, Shapes
<1>5. CASE gone
  <2>1. ~Exists(pipe'[p])
    BY <1>1, <1>2, <1>5 DEF Inv, Shapes, Exists
  <2> QED
    BY <1>3, <1>5, <2>1 DEF OthersStay
<1>6. CASE ~gone
  <2> DEFINE own == Names(inst.builds)
  <2>1. pipe'[p] = pline
    BY <1>1, <1>2, <1>6 DEF Inv, Shapes
  <2>2. pline.builds = Rebuilt(pipe[p].builds, inst)
    BY <1>2 DEF BuildsAgree, PipelineUpdated, Accepts
  <2>3. inst.builds \in Seq(Build) /\ pipe[p].builds \in Seq(Build)
    BY <1>3 DEF Inv, Shapes, Step, IsPipeline, Exists
  <2>4. OthersOf(pline.builds, own) = OthersOf(pipe[p].builds, own)
    BY <2>2, <2>3, MergedLeavesOthers, RemovedLeavesOthers DEF Rebuilt
  <2> QED
    BY <1>3, <1>4, <2>1, <2>4 DEF OthersStay
<1> QED
  BY <1>5, <1>6

(* Only an accepted write ends the first phase of a pass with a change. *)
LEMMA FirstWriteAccepted ==
  ASSUME Inv, [Next]_vars, pc = "writePipeline", pc' # pc,
         NEW p \in Pipelines, pipe'[p] # pipe[p]
  PROVE  PipelineUpdated
<1>1. pc' # pc /\ pipe' # pipe
  OBVIOUS
<1>2. UpdatePipeline \/ UpdatePipelineFails
  BY <1>1
  DEF Next, Users, Reconcile, CreateStep, EditStep, Delete, CreatePipeline,
      EditPipeline, DeletePipeline, pass, queue, SyncStep, SyncPipe, Resync,
      TimerFires, Crash, NotFound, Refuse, Start, Take, UpdateStep,
      UpdateStepFails, vars
<1> QED
  BY <1>1, <1>2 DEF UpdatePipeline, UpdatePipelineFails

(***************************************************************************)
(* A pass's write to a pipeline loses nothing that others wrote: it leaves *)
(* the builds of other names as they were and in their order, the other    *)
(* steps' finalizers and the deletion mark; it never replaces a pipeline   *)
(* by one of another incarnation, and lets go only a marked pipeline that  *)
(* nobody else holds.                                                      *)
(***************************************************************************)
THEOREM PassKeepsOthers == Spec => OthersKept
<1>1. Inv /\ BuildsAgree /\ [Next]_vars =>
         [\A p \in Pipelines :
            pc = "writePipeline" /\ pc' # pc /\ pipe'[p] # pipe[p] =>
               OthersStay(p)]_vars
  BY FirstWriteAccepted, PipelineWriteKeepsOthers
<1>2. Spec => [][\A p \in Pipelines :
                   pc = "writePipeline" /\ pc' # pc /\ pipe'[p] # pipe[p] =>
                      OthersStay(p)]_vars
  BY <1>1, SpecBuildsAgree, PTL DEF Spec
<1> QED
  BY <1>2, PTL DEF OthersKept, OthersStay

(***************************************************************************)
(* What a pass writes to a pipeline is the step's under the names of its   *)
(* builds, and all of it, or none of them for a step being deleted, for    *)
(* lists of any length and whatever names the steps share.                 *)
(***************************************************************************)
THEOREM PassWritesOwn == ASSUME UsersNameOnce PROVE Spec => OwnBuildsWritten
<1> DEFINE Strong == Inv /\ ListsDistinct /\ OwnBuildsHeld
<1>1. Init => Strong
  BY InitInv DEF Init, ListsDistinct, NoDuplicateBuilds, OwnBuildsHeld, Exists
<1>2. Strong /\ [Next]_vars => Strong'
  BY NextKeepsInv, ListsStayDistinct, OwnBuildsStayHeld
<1>3. ASSUME Strong, [Next]_vars, pc = "writePipeline", pc' # pc,
             NEW p \in Pipelines, pipe'[p] # pipe[p], Exists(pipe'[p])
      PROVE  IF inst.deleting THEN FreeOf(pipe'[p].builds, inst.builds)
                              ELSE Carrying(pipe'[p].builds, inst.builds)
  <2>1. PipelineUpdated
    BY <1>3, FirstWriteAccepted
  <2>2. p = inst.target
    BY <1>3, <2>1 DEF PipelineUpdated, Inv, Shapes
  <2>3. pipe'[p] = pline
    BY <1>3, <2>1, <2>2, PipelineWrite DEF Exists
  <2> QED
    BY <1>3, <2>3 DEF OwnBuildsHeld
<1>4. Strong /\ [Next]_vars =>
         [\A p \in Pipelines :
            pc = "writePipeline" /\ pc' # pc /\ pipe'[p] # pipe[p] /\ Exists(pipe'[p]) =>
               IF inst.deleting THEN FreeOf(pipe'[p].builds, inst.builds)
                                ELSE Carrying(pipe'[p].builds, inst.builds)]_vars
  BY <1>3
<1> QED
  BY <1>1, <1>2, <1>4, PTL DEF Spec, OwnBuildsWritten
-----------------------------------------------------------------------------
(* Steps and pipelines as Membership sees them. *)
StateView  == [s \in Steps |-> StateOf(step[s])]
TargetView == [s \in Steps |-> TargetOf(step[s])]
HomeView   == [s \in Steps |-> HomeOf(step[s])]
PipeView   == [p \in Pipelines |-> StateOf(pipe[p])]
MemberView == [p \in Pipelines |-> MembersOf(pipe[p])]

(* A pass that would still be accepted works on a step that is there and   *)
(* that no other pipeline owns.                                            *)
Undisputed ==
    instCurrent => Exists(step[self]) /\ (inst.deleting \/ ~OwnedByOther(step[self]))

LEMMA StaysUndisputed ==
  ASSUME Inv, Undisputed, [Next]_vars PROVE Undisputed'
<1>1. ASSUME NEW s \in Steps, Start(s) PROVE Undisputed'
  <2>1. instCurrent' => step'[s] = stepCache[s]
    BY <1>1 DEF Start, Inv, CachesAgree
  <2>2. inst'.deleting = stepCache[s].deleting
    BY <1>1, PassBegins
  <2>3. Exists(stepCache[s]) /\ (stepCache[s].deleting \/ ~OwnedByOther(stepCache[s]))
    BY <1>1 DEF Start, Refused
  <2>4. self' = s
    BY <1>1 DEF Start
  <2> QED
    BY <2>1, <2>2, <2>3, <2>4 DEF Undisputed, OwnedByOther, Exists
<1>2. ASSUME NEW s \in Steps, NEW o, StepStored(s, o), UNCHANGED pass PROVE Undisputed'
  BY <1>2 DEF StepStored, pass, Undisputed, OwnedByOther, Exists, Inv, Shapes, CopiesAgree
<1>3. CASE UNCHANGED <<step, instCurrent, self, inst>> \/ instCurrent' = FALSE
  BY <1>3 DEF Undisputed, OwnedByOther, Exists
<1>4. ASSUME NEW p \in Pipelines, NEW o, PipeStored(p, o), UNCHANGED pass PROVE Undisputed'
  BY <1>3, <1>4 DEF PipeStored, pass
<1>5. CASE Users
  BY <1>2, <1>4, <1>5 DEF Users, CreateStep, EditStep, Delete, CreatePipeline,
                          EditPipeline, DeletePipeline
<1>6. CASE \/ UpdatePipeline \/ UpdatePipelineFails \/ UpdateStep \/ UpdateStepFails
           \/ Crash \/ UNCHANGED vars
           \/ \E s \in Steps : NotFound(s) \/ Refuse(s) \/ SyncStep(s)
                               \/ Resync(s) \/ TimerFires(s)
           \/ \E p \in Pipelines : SyncPipe(p)
  <2>1. UNCHANGED <<step, instCurrent, self, inst>> \/ instCurrent' = FALSE
    BY <1>6 DEF UpdatePipeline, UpdatePipelineFails, PipelineError, UpdateStep,
       UpdateStepFails, Return, ReturnError, EndOfPass, Crash, NotFound, Refuse, SyncStep,
       Resync, TimerFires, SyncPipe, server, pass, vars
  <2> QED
    BY <1>3, <2>1
<1> QED
  BY <1>1, <1>5, <1>6 DEF Next, Reconcile

(* What a write of one object makes of the views. *)
LEMMA StepStores ==
  ASSUME Inv, NEW s \in Steps, NEW o, step' = [step EXCEPT ![s] = o], pipe' = pipe
  PROVE  /\ StateView' = [StateView EXCEPT ![s] = StateOf(o)]
         /\ TargetView' = [TargetView EXCEPT ![s] = TargetOf(o)]
         /\ HomeView' = [HomeView EXCEPT ![s] = HomeOf(o)]
         /\ PipeView' = PipeView /\ MemberView' = MemberView
  BY DEF Inv, Shapes, StateView, TargetView, HomeView, PipeView, MemberView

LEMMA PipeStores ==
  ASSUME Inv, NEW p \in Pipelines, NEW o, pipe' = [pipe EXCEPT ![p] = o], step' = step
  PROVE  /\ PipeView' = [PipeView EXCEPT ![p] = StateOf(o)]
         /\ MemberView' = [MemberView EXCEPT ![p] = MembersOf(o)]
         /\ StateView' = StateView /\ TargetView' = TargetView /\ HomeView' = HomeView
  BY DEF Inv, Shapes, StateView, TargetView, HomeView, PipeView, MemberView

LEMMA Views ==
    /\ \A s \in Steps : /\ StateView[s] = StateOf(step[s])
                        /\ TargetView[s] = TargetOf(step[s])
                        /\ HomeView[s] = HomeOf(step[s])
    /\ \A p \in Pipelines : PipeView[p] = StateOf(pipe[p]) /\ MemberView[p] = MembersOf(pipe[p])
  BY DEF StateView, TargetView, HomeView, PipeView, MemberView

(* A view stays what it is when an entry is replaced by itself. *)
LEMMA StepViewsStay ==
  ASSUME Inv, NEW s \in Steps, NEW o, step' = [step EXCEPT ![s] = o], pipe' = pipe
  PROVE  /\ StateOf(o) = StateOf(step[s]) => StateView' = StateView
         /\ TargetOf(o) = TargetOf(step[s]) => TargetView' = TargetView
         /\ HomeOf(o) = HomeOf(step[s]) => HomeView' = HomeView
  BY DEF Inv, Shapes, StateView, TargetView, HomeView

LEMMA PipeViewsStay ==
  ASSUME Inv, NEW p \in Pipelines, NEW o, pipe' = [pipe EXCEPT ![p] = o], step' = step
  PROVE  /\ StateOf(o) = StateOf(pipe[p]) => PipeView' = PipeView
         /\ MembersOf(o) = MembersOf(pipe[p]) => MemberView' = MemberView
  BY DEF Inv, Shapes, PipeView, MemberView

LEMMA SameView ==
  ASSUME UNCHANGED <<step, pipe>> PROVE UNCHANGED Ties!vars
  BY DEF Ties!vars, Ties!steps, Ties!pipelines

LEMMA TiesInit == Init => Ties!Init
<1> SUFFICES ASSUME Init PROVE Ties!Init
  OBVIOUS
<1>1. /\ \A s \in Steps : ~Exists(step[s])
      /\ \A p \in Pipelines : ~Exists(pipe[p])
  BY DEF Init, Exists
<1> QED
  BY <1>1 DEF Ties!Init, StateOf, TargetOf, HomeOf, MembersOf

(* A step that goes leaves nothing behind. *)
LEMMA TiesGone ==
  ASSUME Inv, NEW s \in Steps, step' = [step EXCEPT ![s] = NoObject], pipe' = pipe
  PROVE  Ties!Gone(s) /\ UNCHANGED Ties!pipelines
<1>1. /\ StateOf(NoObject) = "none" /\ TargetOf(NoObject) = NoOwner
      /\ HomeOf(NoObject) = NoOwner
  BY DEF StateOf, TargetOf, HomeOf, Exists
<1>2. /\ StateView' = [StateView EXCEPT ![s] = StateOf(NoObject)]
      /\ TargetView' = [TargetView EXCEPT ![s] = TargetOf(NoObject)]
      /\ HomeView' = [HomeView EXCEPT ![s] = HomeOf(NoObject)]
      /\ UNCHANGED <<PipeView, MemberView>>
  BY StepStores
<1> QED
  BY <1>1, <1>2
  DEF Ties!Gone, Ties!pipelines, StateView, TargetView, HomeView, PipeView, MemberView

(* A user's write of a step. *)
LEMMA TiesCreate ==
  ASSUME Inv, NEW s \in Steps, NEW p \in Pipelines, NEW bs \in SpecBuilds[s],
         CreateStep(s, p, bs)
  PROVE  Ties!Create(s, p)
<1> DEFINE o == [target |-> p, builds |-> bs, deleting |-> FALSE,
                 held |-> FALSE, owner |-> NoOwner]
<1>1. o \in Step
  BY ConstantsAssumption DEF Step, Owners
<1>2. step' = [step EXCEPT ![s] = o] /\ pipe' = pipe
  BY DEF CreateStep, StepStored
<1>3. StateOf(o) = "live" /\ TargetOf(o) = p /\ HomeOf(o) = NoOwner
  BY <1>1, StepThere DEF StateOf, TargetOf, HomeOf
<1>4. StateOf(step[s]) = "none" /\ HomeOf(step[s]) = NoOwner
  BY DEF CreateStep, StateOf, HomeOf
<1> HIDE DEF o
<1>5. /\ StateView[s] = "none" /\ HomeView' = HomeView
  BY <1>2, <1>3, <1>4, StepViewsStay, Views
<1>6. /\ StateView' = [StateView EXCEPT ![s] = "live"]
      /\ TargetView' = [TargetView EXCEPT ![s] = p]
      /\ UNCHANGED <<PipeView, MemberView>>
  <2>1. /\ StateView' = [StateView EXCEPT ![s] = StateOf(o)]
        /\ TargetView' = [TargetView EXCEPT ![s] = TargetOf(o)]
        /\ UNCHANGED <<PipeView, MemberView>>
    BY <1>2, StepStores
  <2> QED
    BY <1>3, <2>1
<1> QED
  BY <1>5, <1>6 DEF Ties!Create, Ties!pipelines, StateView, TargetView, HomeView, PipeView, MemberView

LEMMA TiesRetarget ==
  ASSUME Inv, NEW s \in Steps, NEW p \in Pipelines, NEW bs \in SpecBuilds[s],
         EditStep(s, p, bs)
  PROVE  Ties!Retarget(s, p)
<1> DEFINE o == [step[s] EXCEPT !.target = p, !.builds = bs]
<1>1. step[s] \in Step /\ bs \in Seq(Build)
  BY ConstantsAssumption DEF EditStep, Inv, Shapes, Exists
<1>2. step' = [step EXCEPT ![s] = o] /\ pipe' = pipe
  BY DEF EditStep, StepStored
<1>3. /\ o \in Step /\ o.target = p /\ o.deleting = step[s].deleting
      /\ o.held = step[s].held /\ o.owner = step[s].owner
  BY <1>1 DEF Step
<1> HIDE DEF o
<1>4. Exists(o) /\ Exists(step[s])
  BY <1>1, <1>3, StepThere
<1>5. /\ StateOf(o) = StateOf(step[s]) /\ StateOf(step[s]) # "none"
      /\ TargetOf(o) = p /\ HomeOf(o) = HomeOf(step[s])
  BY <1>3, <1>4 DEF StateOf, TargetOf, HomeOf
<1>6. StateView[s] # "none" /\ UNCHANGED <<StateView, HomeView>>
  BY <1>2, <1>5, StepViewsStay, Views
<1>7. TargetView' = [TargetView EXCEPT ![s] = TargetOf(o)] /\ UNCHANGED <<PipeView, MemberView>>
  BY <1>2, StepStores
<1> QED
  BY <1>5, <1>6, <1>7
  DEF Ties!Retarget, Ties!pipelines, StateView, TargetView, HomeView, PipeView, MemberView

(* A live step that is held has a home, so that a delete only marks it. *)
LEMMA TiesDelete ==
  ASSUME Inv, NEW s \in Steps, Delete(s) PROVE Ties!Delete(s)
<1>1. step[s] \in Step /\ Exists(step[s]) /\ ~step[s].deleting
  BY DEF Delete, Inv, Shapes, Exists
<1>2. StateView[s] = "live" /\ HomeView[s] = HomeOf(step[s])
  BY <1>1, Views DEF StateOf
<1>3. CASE step[s].held
  <2> DEFINE o == [step[s] EXCEPT !.deleting = TRUE]
  <2>1. step' = [step EXCEPT ![s] = o] /\ pipe' = pipe
    BY <1>3 DEF Delete, StepStored
  <2>2. /\ o \in Step /\ o.target = step[s].target /\ o.deleting
        /\ o.held = step[s].held /\ o.owner = step[s].owner
    BY <1>1 DEF Step
  <2> HIDE DEF o
  <2>3. HomeOf(step[s]) # NoOwner
    <3>1. step[s].owner # NoOwner
      BY <1>1, <1>3 DEF Inv, HeldStepHasPipeline
    <3>2. step[s].owner.name \in Pipelines
      BY <1>1, <3>1 DEF Step, Owners
    <3> QED
      BY <1>1, <1>3, <3>2, ConstantsAssumption DEF HomeOf
  <2>4. /\ StateOf(o) = "deleting" /\ TargetOf(o) = TargetOf(step[s])
        /\ HomeOf(o) = HomeOf(step[s])
    BY <1>1, <2>2, StepThere DEF StateOf, TargetOf, HomeOf
  <2>5. UNCHANGED <<TargetView, HomeView>>
    BY <2>1, <2>4, StepViewsStay
  <2>6. StateView' = [StateView EXCEPT ![s] = StateOf(o)] /\ UNCHANGED <<PipeView, MemberView>>
    BY <2>1, StepStores
  <2> QED
    BY <1>2, <2>3, <2>4, <2>5, <2>6
    DEF Ties!Delete, Ties!pipelines, StateView, TargetView, HomeView, PipeView, MemberView
<1>4. CASE ~step[s].held
  <2>1. step' = [step EXCEPT ![s] = NoObject] /\ pipe' = pipe
    BY <1>4 DEF Delete, StepStored
  <2>2. HomeOf(step[s]) = NoOwner
    BY <1>4 DEF HomeOf
  <2> QED
    BY <1>2, <2>1, <2>2, TiesGone
    DEF Ties!Delete, Ties!pipelines, HomeView, StateView, PipeView, MemberView
<1> QED
  BY <1>3, <1>4

(* A user's write of a pipeline. *)
LEMMA TiesOffer ==
  ASSUME Inv, NEW p \in Pipelines, NEW bs \in PipelineBuilds, CreatePipeline(p, bs)
  PROVE  Ties!Offer(p)
<1> DEFINE o == [uid |-> uids + 1, builds |-> bs, deleting |-> FALSE, finalizers |-> {}]
<1>1. IsPipeline(o) /\ ~o.deleting /\ o.finalizers = {}
  BY ConstantsAssumption DEF IsPipeline, CreatePipeline, Uids, Inv, Shapes
<1>2. pipe' = [pipe EXCEPT ![p] = o] /\ step' = step
  BY DEF CreatePipeline, PipeStored
<1> HIDE DEF o
<1>3. StateOf(o) = "live" /\ MembersOf(o) = {}
  BY <1>1, PipelineThere DEF StateOf, MembersOf
<1>4. StateOf(pipe[p]) = "none" /\ MembersOf(pipe[p]) = {}
  BY DEF CreatePipeline, StateOf, MembersOf
<1>5. PipeView[p] = "none" /\ MemberView' = MemberView
  BY <1>2, <1>3, <1>4, PipeViewsStay, Views
<1>6. PipeView' = [PipeView EXCEPT ![p] = StateOf(o)]
      /\ UNCHANGED <<StateView, TargetView, HomeView>>
  BY <1>2, PipeStores
<1> QED
  BY <1>3, <1>5, <1>6
  DEF Ties!Offer, Ties!steps, StateView, TargetView, HomeView, PipeView, MemberView

LEMMA TiesPipelineEdited ==
  ASSUME Inv, NEW p \in Pipelines, NEW bs \in PipelineBuilds, EditPipeline(p, bs)
  PROVE  UNCHANGED Ties!vars
<1> DEFINE o == [pipe[p] EXCEPT !.builds = bs]
<1>1. IsPipeline(pipe[p]) /\ Exists(pipe[p])
  BY DEF EditPipeline, Inv, Shapes, Exists
<1>2. IsPipeline(o) /\ o.deleting = pipe[p].deleting /\ o.finalizers = pipe[p].finalizers
  BY <1>1, ConstantsAssumption DEF IsPipeline
<1>3. pipe' = [pipe EXCEPT ![p] = o] /\ step' = step
  BY DEF EditPipeline, PipeStored
<1> HIDE DEF o
<1>4. StateOf(o) = StateOf(pipe[p]) /\ MembersOf(o) = MembersOf(pipe[p])
  BY <1>1, <1>2, PipelineThere DEF StateOf, MembersOf
<1>5. UNCHANGED <<PipeView, MemberView>>
  BY <1>3, <1>4, PipeViewsStay
<1>6. UNCHANGED <<StateView, TargetView, HomeView>>
  BY <1>3, PipeStores
<1> QED
  BY <1>5, <1>6 DEF Ties!vars, Ties!steps, Ties!pipelines,
                    StateView, TargetView, HomeView, PipeView, MemberView

LEMMA TiesWithdraw ==
  ASSUME Inv, NEW p \in Pipelines, DeletePipeline(p) PROVE Ties!Withdraw(p)
<1>1. IsPipeline(pipe[p]) /\ Exists(pipe[p]) /\ ~pipe[p].deleting
  BY DEF DeletePipeline, Inv, Shapes, Exists
<1>2. PipeView[p] = "live" /\ MemberView[p] = pipe[p].finalizers
  BY <1>1, Views DEF StateOf, MembersOf
<1>3. PICK o : /\ pipe' = [pipe EXCEPT ![p] = o] /\ step' = step
               /\ MembersOf(o) = MembersOf(pipe[p])
               /\ StateOf(o) = IF pipe[p].finalizers = {} THEN "none" ELSE "deleting"
  <2> DEFINE m == [pipe[p] EXCEPT !.deleting = TRUE]
             o == IF pipe[p].finalizers = {} THEN NoObject ELSE m
  <2>1. pipe' = [pipe EXCEPT ![p] = o] /\ step' = step
    BY DEF DeletePipeline, PipeStored
  <2>2. IsPipeline(m) /\ m.finalizers = pipe[p].finalizers
    BY <1>1, PipelineMarked
  <2>6. m.deleting
    BY <1>1 DEF IsPipeline
  <2>3. StateOf(m) = "deleting" /\ MembersOf(m) = pipe[p].finalizers
    BY <2>2, <2>6, PipelineThere DEF StateOf, MembersOf
  <2>4. StateOf(NoObject) = "none" /\ MembersOf(NoObject) = {}
    BY DEF StateOf, MembersOf, Exists
  <2>5. MembersOf(pipe[p]) = pipe[p].finalizers
    BY <1>1 DEF MembersOf
  <2> HIDE DEF m
  <2> QED
    BY <2>1, <2>3, <2>4, <2>5
<1>4. MemberView' = MemberView
  BY <1>3, PipeViewsStay
<1>5. PipeView' = [PipeView EXCEPT ![p] = StateOf(o)]
      /\ UNCHANGED <<StateView, TargetView, HomeView>>
  BY <1>3, PipeStores
<1> QED
  BY <1>2, <1>3, <1>4, <1>5
  DEF Ties!Withdraw, Ties!steps, StateView, TargetView, HomeView, PipeView, MemberView

(* The second write of a pass gives the step a home or lets it go. *)
LEMMA TiesStepWrite ==
  ASSUME Inv, Undisputed, pc = "writeStep", StepUpdated, pipe' = pipe
  PROVE  Ties!Settle(self) \/ Ties!Release(self)
<1> DEFINE p == inst.target
<1>1. self \in Steps /\ inst \in Step /\ p \in Pipelines
  BY DEF Inv, Shapes, Step
<1>2. /\ Exists(step[self])
      /\ inst.deleting \/ ~OwnedByOther(step[self])
      /\ step[self].target = p /\ step[self].deleting = inst.deleting
  BY DEF StepUpdated, Inv, CopiesAgree, Undisputed
<1>3. /\ TargetView[self] = p
      /\ MemberView[p] = MembersOf(pipe[p])
      /\ StateView[self] = IF inst.deleting THEN "deleting" ELSE "live"
      /\ HomeView[self] = HomeOf(step[self])
  BY <1>1, <1>2, Views DEF TargetOf, StateOf
<1>4. CASE inst.deleting
  <2>1. ~inst.held /\ Untied
    BY <1>4 DEF Inv, PassOrdered
  <2>2. step' = [step EXCEPT ![self] = NoObject]
    BY <1>4, <2>1 DEF StepUpdated
  <2>3. self \notin MembersOf(pipe[p])
    BY <2>1 DEF Untied, MembersOf
  <2>4. Ties!Gone(self) /\ UNCHANGED Ties!pipelines
    BY <1>1, <2>2, TiesGone
  <2>5. Ties!Release(self)
    BY <1>3, <1>4, <2>3, <2>4 DEF Ties!Release, StateView, TargetView, MemberView
  <2> QED
    BY <2>5
<1>5. CASE ~inst.deleting
  <2>1. inst.held /\ inst.owner = [name |-> p, uid |-> pline.uid] /\ Tied
    BY <1>5 DEF Inv, PassOrdered
  <2>2. step' = [step EXCEPT ![self] = inst]
    BY <1>5 DEF StepUpdated
  <2>3. self \in MembersOf(pipe[p])
    BY <2>1 DEF Tied, OwnerAlive, MembersOf
  <2>4. HomeView[self] \in {NoOwner, p}
    BY <1>1, <1>2, <1>3, <1>5 DEF HomeOf, OwnedByOther, Inv, HeldStepHasPipeline
  <2>5. /\ StateOf(inst) = StateOf(step[self]) /\ TargetOf(inst) = TargetOf(step[self])
        /\ HomeOf(inst) = p
    BY <1>1, <1>2, <1>5, <2>1, StepThere DEF StateOf, TargetOf, HomeOf
  <2>6. UNCHANGED <<StateView, TargetView>>
    BY <1>1, <2>2, <2>5, StepViewsStay
  <2>7. HomeView' = [HomeView EXCEPT ![self] = HomeOf(inst)]
        /\ UNCHANGED <<PipeView, MemberView>>
    BY <1>1, <2>2, StepStores
  <2>8. Ties!Settle(self)
    BY <1>3, <1>5, <2>3, <2>4, <2>5, <2>6, <2>7
    DEF Ties!Settle, Ties!pipelines, StateView, TargetView, HomeView, PipeView, MemberView
  <2> QED
    BY <2>8
<1> QED
  BY <1>4, <1>5

(* The first one makes the step a member, or takes its membership away:    *)
(* a mark the copy shows is one that the step has not lost, so that it has *)
(* no home to leave.                                                       *)
LEMMA TiesPipelineWrite ==
  ASSUME Inv, pc = "writePipeline", PipelineUpdated, step' = step
  PROVE  \/ Ties!Join(self, inst.target) \/ Ties!Leave(self, inst.target)
         \/ UNCHANGED Ties!vars
<1> DEFINE p == inst.target
           gone == pline.deleting /\ pline.finalizers = {}
           o == IF gone THEN NoObject ELSE pline
<1>1. self \in Steps /\ p \in Pipelines /\ IsPipeline(pline)
  BY DEF Inv, Shapes, Step
<1>2. /\ Exists(pipe[p])
      /\ pipe[p].deleting = pline.deleting
      /\ pipe[p].finalizers \ {self} = pline.finalizers \ {self}
      /\ pline.deleting => pline.finalizers \subseteq pipe[p].finalizers
      /\ self \in pline.finalizers <=> ~inst.deleting
      /\ pipe' = [pipe EXCEPT ![p] = o]
  BY DEF PipelineUpdated, Accepts, Inv, CopiesAgree, PassOrdered
<1>3. UNCHANGED <<StateView, TargetView, HomeView>>
  BY <1>1, <1>2, PipeStores
<1>4. MemberView[p] = pipe[p].finalizers
      /\ PipeView[p] = IF pline.deleting THEN "deleting" ELSE "live"
  BY <1>1, <1>2, Views DEF StateOf, MembersOf
<1>5. /\ MembersOf(o) = pline.finalizers
      /\ StateOf(o) = IF gone THEN "none" ELSE PipeView[p]
  BY <1>1, <1>4, PipelineThere DEF StateOf, MembersOf, Exists
<1>6. PipeView' = [PipeView EXCEPT ![p] = StateOf(o)]
      /\ MemberView' = [MemberView EXCEPT ![p] = MembersOf(o)]
  BY <1>1, <1>2, PipeStores
<1>7. StateOf(o) = StateOf(pipe[p]) => PipeView' = PipeView
  BY <1>1, <1>2, PipeViewsStay
<1>8. MembersOf(o) = MembersOf(pipe[p]) => MemberView' = MemberView
  BY <1>1, <1>2, PipeViewsStay
<1>9. PipeView[p] = StateOf(pipe[p]) /\ MemberView[p] = MembersOf(pipe[p])
  BY <1>1, Views
<1> HIDE DEF o
<1>10. CASE inst.deleting
  <2>1. pline.finalizers = MemberView[p] \ {self}
    BY <1>2, <1>4, <1>10
  <2>2. MemberView' = [MemberView EXCEPT ![p] = @ \ {self}] /\ MemberView'[p] = pline.finalizers
    BY <1>1, <1>5, <1>6, <2>1 DEF MemberView
  <2>3. PipeView' = IF PipeView[p] = "deleting" /\ MemberView'[p] = {}
                    THEN [PipeView EXCEPT ![p] = "none"] ELSE PipeView
    <3>1. gone <=> PipeView[p] = "deleting" /\ MemberView'[p] = {}
      BY <1>4, <2>2
    <3> QED
      BY <1>5, <1>6, <1>7, <1>9, <3>1
  <2>4. ~(StateView[self] = "live" /\ HomeView[self] = p)
    <3>1. ~LiveHeld(step[self])
      BY <1>10 DEF Inv, MarksStay
    <3>2. StateView[self] = StateOf(step[self]) /\ HomeView[self] = HomeOf(step[self])
      BY <1>1, Views
    <3>3. NoOwner # p
      BY <1>1, ConstantsAssumption
    <3> QED
      BY <3>1, <3>2, <3>3 DEF LiveHeld, StateOf, HomeOf
  <2>5. Ties!Leave(self, p)
    BY <1>3, <2>2, <2>3, <2>4
    DEF Ties!Leave, Ties!steps, StateView, TargetView, HomeView, PipeView, MemberView
  <2> QED
    BY <2>5
<1>11. CASE ~inst.deleting
  <2>1. pline.finalizers = MemberView[p] \cup {self} /\ ~gone
    BY <1>2, <1>4, <1>11
  <2>2. PipeView' = PipeView
    BY <1>5, <1>7, <1>9, <2>1
  <2>3. MemberView' = [MemberView EXCEPT ![p] = @ \cup {self}]
    BY <1>1, <1>5, <1>6, <2>1 DEF MemberView
  <2>4. CASE PipeView[p] = "live"
    <3>1. Ties!Join(self, p)
      BY <1>3, <2>2, <2>3, <2>4
      DEF Ties!Join, Ties!steps, StateView, TargetView, HomeView, PipeView, MemberView
    <3> QED
      BY <3>1
  <2>5. CASE PipeView[p] # "live"
    <3>1. MembersOf(o) = MembersOf(pipe[p])
      BY <1>2, <1>4, <1>5, <1>9, <2>1, <2>5
    <3>2. UNCHANGED Ties!vars
      BY <1>3, <1>8, <2>2, <3>1
      DEF Ties!vars, Ties!steps, Ties!pipelines, StateView, TargetView, HomeView, PipeView,
          MemberView
    <3> QED
      BY <3>2
  <2> QED
    BY <2>4, <2>5
<1> QED
  BY <1>10, <1>11

LEMMA TiesNext ==
  ASSUME Inv, Undisputed, [Next]_vars PROVE [Ties!Next]_(Ties!vars)
<1>1. ASSUME NEW s \in Steps, NEW p \in Pipelines, NEW bs \in SpecBuilds[s],
             CreateStep(s, p, bs) \/ EditStep(s, p, bs)
      PROVE  Ties!Next
  BY <1>1, TiesCreate, TiesRetarget DEF Ties!Next
<1>2. ASSUME NEW s \in Steps, Delete(s) PROVE Ties!Next
  BY <1>2, TiesDelete DEF Ties!Next
<1>3. ASSUME NEW p \in Pipelines, DeletePipeline(p) PROVE Ties!Next
  BY <1>3, TiesWithdraw DEF Ties!Next
<1>4. ASSUME NEW p \in Pipelines, NEW bs \in PipelineBuilds, CreatePipeline(p, bs)
      PROVE  Ties!Next
  BY <1>4, TiesOffer DEF Ties!Next
<1>5. CASE Users
  BY <1>1, <1>2, <1>3, <1>4, <1>5, TiesPipelineEdited DEF Users
<1>6. CASE UpdateStep \/ UpdateStepFails
  <2>1. self \in Steps /\ pipe' = pipe /\ pc = "writeStep" /\ (StepUpdated \/ step' = step)
    BY <1>6 DEF UpdateStep, UpdateStepFails, Inv, Shapes
  <2> QED
    BY <2>1, TiesStepWrite, SameView DEF Ties!Next
<1>7. CASE UpdatePipeline \/ UpdatePipelineFails
  <2>1. /\ self \in Steps /\ inst.target \in Pipelines
        /\ step' = step /\ pc = "writePipeline" /\ (PipelineUpdated \/ pipe' = pipe)
    BY <1>7 DEF UpdatePipeline, UpdatePipelineFails, Inv, Shapes, Step
  <2> QED
    BY <2>1, TiesPipelineWrite, SameView DEF Ties!Next
<1>8. CASE \/ \E s \in Steps : NotFound(s) \/ Refuse(s) \/ Start(s) \/ SyncStep(s)
                               \/ Resync(s) \/ TimerFires(s)
           \/ \E p \in Pipelines : SyncPipe(p)
           \/ Crash \/ UNCHANGED vars
  <2>1. UNCHANGED <<step, pipe>>
    BY <1>8 DEF NotFound, Refuse, Start, SyncStep, Resync, TimerFires, SyncPipe, Crash,
                server, vars
  <2> QED
    BY <2>1, SameView
<1> QED
  BY <1>5, <1>6, <1>7, <1>8 DEF Next, Reconcile

(***************************************************************************)
(* Whatever the caches show, however writes fail and the operator          *)
(* restarts, the two writes of the passes amount to steps of Membership:   *)
(* no deleted object comes back, a pipeline being deleted takes no new     *)
(* member and goes with its last one, a live step keeps the one home it    *)
(* has, and a step goes only when it is no member of the pipeline it names.*)
(***************************************************************************)
THEOREM StepsImplementMembership == Spec => StepsKeepMembership
<1>1. Init => Undisputed
  BY DEF Init, Undisputed
<1> QED
  BY <1>1, InitInv, NextKeepsInv, StaysUndisputed, TiesInit, TiesNext, PTL
  DEF Spec, StepsKeepMembership, Ties!Spec
=============================================================================
