--------------------------- MODULE DeliveryProofs ---------------------------
(* For every set of steps, and any number of objects, crashes and late     *)
(* passes: the chain of controllers never tears down the stack of a living *)
(* step, its last link keeps to GuardedStack, and its first to Membership. *)
EXTENDS Delivery, TLAPS

Inv == TypeOK /\ Coherent

-----------------------------------------------------------------------------
(* Objects and tables of them.                                             *)

LEMMA Names ==
    /\ "pipeline" \in Objects /\ "stack" \in Objects /\ Steps \subseteq Objects
    /\ "pipeline" # "stack" /\ "pipeline" \notin Steps /\ "stack" \notin Steps
    /\ ObjectOf("pipeline") = Pipeline /\ ObjectOf("stack") = Stack
    /\ \A s \in Steps : ObjectOf(s) = Step
  BY DeliveryAssumption DEF Objects, ObjectOf

LEMMA Real == \A o : o \in Step \cup Pipeline \cup Stack \cup CloudStack => Exists(o)
  BY DeliveryAssumption DEF Exists

LEMMA Entry ==
    ASSUME NEW t \in Tables, NEW n \in Objects
    PROVE  /\ t[n] = NoObject \/ t[n] \in ObjectOf(n)
           /\ Exists(t[n]) => t[n] \in ObjectOf(n)
  BY DEF Tables, Exists

LEMMA Entries ==
    ASSUME NEW t \in Tables
    PROVE  /\ Exists(t["pipeline"]) => t["pipeline"] \in Pipeline
           /\ Exists(t["stack"]) => t["stack"] \in Stack
           /\ \A s \in Steps : Exists(t[s]) => t[s] \in Step
  BY Entry, Names

LEMMA TableUpdate ==
    ASSUME NEW t \in Tables, NEW n \in Objects, NEW o,
           o = NoObject \/ o \in ObjectOf(n)
    PROVE  /\ [t EXCEPT ![n] = o] \in Tables
           /\ [t EXCEPT ![n] = o][n] = o
           /\ \A m \in Objects \ {n} : [t EXCEPT ![n] = o][m] = t[m]
<1>1. o \in Step \cup Pipeline \cup Stack \cup {NoObject}
  BY DEF ObjectOf, Objects
<1> QED
  BY <1>1 DEF Tables

(* What a write of one object changes.                                     *)
LEMMA PutChanges ==
    ASSUME TypeOK, NEW n \in Objects, NEW o, o = NoObject \/ o \in ObjectOf(n), Put(n, o)
    PROVE  /\ object' \in Tables
           /\ object'[n] = o
           /\ \A m \in Objects \ {n} : object'[m] = object[m]
           /\ fresh' \subseteq fresh
           /\ fresh' = IF o = object[n] THEN fresh ELSE fresh \ {n}
           /\ Outdated(n) = IF o = object[n] THEN current ELSE current \ {n}
<1>1. object \in Tables /\ object' = [object EXCEPT ![n] = o]
  BY DEF Put, TypeOK
<1> DEFINE t == object
<1>2. /\ [t EXCEPT ![n] = o] \in Tables
      /\ [t EXCEPT ![n] = o][n] = o
      /\ \A m \in Objects \ {n} : [t EXCEPT ![n] = o][m] = t[m]
  <2> HIDE DEF t
  <2>1. t \in Tables
    BY <1>1 DEF t
  <2> QED
    BY <2>1, TableUpdate
<1>3. fresh' = IF o = object[n] THEN fresh ELSE fresh \ {n}
  BY DEF Put
<1> QED
  BY <1>1, <1>2, <1>3 DEF Outdated

LEMMA StepRecord ==
    ASSUME NEW o \in Step, NEW b \in BOOLEAN
    PROVE  /\ [o EXCEPT !.held = b] \in Step
           /\ [o EXCEPT !.held = b].held = b
           /\ [o EXCEPT !.held = b].deleting = o.deleting
           /\ [o EXCEPT !.deleting = b] \in Step
           /\ [o EXCEPT !.deleting = b].deleting = b
  BY DEF Step

LEMMA StackRecord ==
    ASSUME NEW o \in Stack, NEW b \in BOOLEAN, NEW c \in BOOLEAN
    PROVE  LET n == [o EXCEPT !.guarded = b, !.buckets = c]
           IN  /\ n \in Stack /\ n.guarded = b /\ n.buckets = c
               /\ n.deleting = o.deleting /\ n.owner = o.owner
  BY DEF Stack

LEMMA PipelineRecord ==
    ASSUME NEW p \in Pipeline, NEW s \in Steps
    PROVE  /\ WithMember(p, s) \in Pipeline
           /\ WithMember(p, s).uid = p.uid
           /\ WithMember(p, s).finalizers = p.finalizers \cup {s}
           /\ WithoutMember(p, s) \in Pipeline
           /\ WithoutMember(p, s).uid = p.uid
           /\ WithoutMember(p, s).finalizers = p.finalizers \ {s}
           /\ [p EXCEPT !.deleting = TRUE] \in Pipeline
           /\ [p EXCEPT !.deleting = TRUE].uid = p.uid
           /\ [p EXCEPT !.deleting = TRUE].finalizers = p.finalizers
  BY DEF WithMember, WithoutMember, Pipeline
-----------------------------------------------------------------------------
(* Type correctness.                                                       *)

LEMMA NameCases == Objects = Steps \cup {"pipeline", "stack"}
  BY DEF Objects

LEMMA TemplateType == \A builds \in SUBSET Steps : formationTemplate(builds) \in Templates
  BY DEF Templates

LEMMA NewStack ==
    ASSUME NEW p \in Pipeline
    PROVE  [template |-> formationTemplate(p.builds), owner |-> p.uid,
            deleting |-> FALSE, guarded |-> FALSE, buckets |-> FALSE] \in Stack
  BY TemplateType DEF Pipeline, Stack

LEMMA NewTemplate ==
    ASSUME NEW o \in Stack, NEW p \in Pipeline
    PROVE  LET n == [o EXCEPT !.template = formationTemplate(p.builds)]
           IN  /\ n \in Stack /\ n.owner = o.owner
               /\ n.deleting = o.deleting /\ n.guarded = o.guarded
  BY TemplateType DEF Pipeline, Stack

(* The object that an action stores is one of its kind.                    *)
LEMMA StoredType ==
    ASSUME TypeOK, NEW n \in Objects, NEW o, o = NoObject \/ o \in ObjectOf(n), Put(n, o)
    PROVE  object' \in Tables /\ fresh' \subseteq Objects /\ Outdated(n) \subseteq Objects
  BY PutChanges DEF TypeOK

LEMMA TypeStored ==
    ASSUME TypeOK, NEW n \in Objects, NEW o, o = NoObject \/ o \in ObjectOf(n), Stored(n, o),
           created' \in 0..MaxCreated, deletes' \in 0..MaxFaults, faults' \in 0..MaxFaults
    PROVE  TypeOK'
  BY StoredType DEF Stored, TypeOK

LEMMA BoundsKept ==
    ASSUME TypeOK
    PROVE  /\ Created => created' \in 0..MaxCreated /\ deletes' = deletes /\ faults' = faults
           /\ deletes + faults < MaxFaults => deletes + 1 \in 0..MaxFaults
                                              /\ faults + 1 \in 0..MaxFaults
           /\ deletes + 1 # 0
  BY DeliveryAssumption DEF TypeOK, Created

(* A delete marks the object or removes it. *)
LEMMA DeletedStep ==
    ASSUME NEW o \in Step, NEW b \in BOOLEAN
    PROVE  /\ Deleted(o, b) = NoObject \/ Deleted(o, b) \in Step
           /\ Deleted(o, b) = NoObject \/ Deleted(o, b).deleting
  BY StepRecord DEF Deleted

LEMMA DeletedPipeline ==
    ASSUME NEW p \in Pipeline, NEW d, d = Deleted(p, p.finalizers # {})
    PROVE  /\ d = NoObject \/ (d \in Pipeline /\ d.uid = p.uid /\ d.finalizers = p.finalizers)
           /\ d = NoObject => p.finalizers = {}
<1>1. CASE p.finalizers = {}
  <2>1. d = NoObject
    BY <1>1 DEF Deleted
  <2> QED
    BY <1>1, <2>1
<1>2. CASE p.finalizers # {}
  <2>1. d = [p EXCEPT !.deleting = TRUE]
    BY <1>2 DEF Deleted
  <2>2. d \in Pipeline /\ d.uid = p.uid /\ d.finalizers = p.finalizers
    BY <2>1 DEF Pipeline
  <2> QED
    BY <2>2, Real DEF Exists
<1> QED
  BY <1>1, <1>2

LEMMA DeletedStack ==
    ASSUME NEW o \in Stack, NEW d, d = Deleted(o, Held("stack", o))
    PROVE  /\ d = NoObject \/ (d \in Stack /\ d.deleting /\ d.owner = o.owner /\ d.guarded = o.guarded)
           /\ d = NoObject => ~o.guarded
<1>1. CASE Held("stack", o)
  <2>1. d = [o EXCEPT !.deleting = TRUE]
    BY <1>1 DEF Deleted
  <2>2. d \in Stack /\ d.deleting /\ d.owner = o.owner /\ d.guarded = o.guarded
    BY <2>1 DEF Stack
  <2> QED
    BY <2>2, Real DEF Exists
<1>2. CASE ~Held("stack", o)
  <2>1. d = NoObject
    BY <1>2 DEF Deleted
  <2> QED
    BY <1>2, <2>1 DEF Held
<1> QED
  BY <1>1, <1>2

(* What the stack controller's passes and CloudFormation do to the stack.  *)
LEMMA CreateStackChanges ==
    ASSUME CreateStack, seen["stack"] \in Stack
    PROVE  /\ ~Exists(cf) /\ cf' \in CloudStack /\ Exists(cf') /\ Standing'
           /\ Begin("stack", [seen["stack"] EXCEPT !.guarded = TRUE, !.buckets = TRUE])
           /\ UNCHANGED <<due, faults>>
<1>1. cf' = [phase |-> "creating", template |-> {}, target |-> seen["stack"].template,
             bucket |-> "none"]
  BY DEF CreateStack
<1>2. cf' \in CloudStack /\ cf'.phase = "creating"
  BY <1>1 DEF Stack, CloudStack
<1>3. Exists(cf') /\ Standing'
  BY <1>2, Real DEF Standing
<1> QED
  BY <1>2, <1>3 DEF CreateStack

LEMMA UpdateStackChanges ==
    ASSUME TypeOK, UpdateStack, seen["stack"] \in Stack
    PROVE  /\ cf' \in CloudStack /\ Exists(cf) /\ Exists(cf') /\ Standing /\ Standing'
<1>1. cf \in CloudStack /\ Exists(cf) /\ cf.phase = "complete"
  BY DEF UpdateStack, TypeOK, Exists
<1>2. cf' = [cf EXCEPT !.phase = "updating", !.target = seen["stack"].template]
  BY DEF UpdateStack
<1>3. cf' \in CloudStack /\ cf'.phase = "updating"
  BY <1>1, <1>2 DEF Stack, CloudStack
<1> QED
  BY <1>1, <1>3, Real DEF Standing

LEMMA FaultBounded ==
    ASSUME TypeOK, Fault \/ UNCHANGED faults
    PROVE  faults' \in 0..MaxFaults
  BY BoundsKept DEF Fault, TypeOK

LEMMA DeleteStackChanges ==
    ASSUME TypeOK, DeleteStack, seen["stack"] \in Stack
    PROVE  /\ IF Exists(cf) THEN cf' \in CloudStack /\ cf'.phase = "deleting" ELSE cf' = cf
           /\ (Exists(cf') <=> Exists(cf)) /\ ~Standing'
           /\ \E c \in BOOLEAN :
                 Begin("stack", [seen["stack"] EXCEPT !.guarded = FALSE, !.buckets = c])
           /\ faults' \in 0..MaxFaults
<1>1. PICK done \in BOOLEAN :
         /\ CleansBucket(done)
         /\ cf' = IF ~Exists(cf) THEN cf
                  ELSE [cf EXCEPT !.phase = "deleting", !.template = {}, !.target = {},
                                  !.bucket = IF done THEN "cleaned" ELSE @]
         /\ Begin("stack", [seen["stack"] EXCEPT !.guarded = FALSE, !.buckets = @ /\ ~done])
  BY DEF DeleteStack
<1>2. Exists(cf) => cf \in CloudStack
  BY DEF TypeOK, Exists
<1>3. IF Exists(cf) THEN cf' \in CloudStack /\ cf'.phase = "deleting" ELSE cf' = cf
  BY <1>1, <1>2 DEF CloudStack
<1>4. (Exists(cf') <=> Exists(cf)) /\ ~Standing'
  <2>1. CASE Exists(cf)
    BY <1>3, <2>1, Real DEF Standing
  <2>2. CASE ~Exists(cf)
    BY <1>3, <2>2 DEF Standing
  <2> QED
    BY <2>1, <2>2
<1>5. seen["stack"].buckets \in BOOLEAN
  BY DEF Stack
<1>6. \E c \in BOOLEAN : Begin("stack", [seen["stack"] EXCEPT !.guarded = FALSE, !.buckets = c])
  BY <1>1, <1>5
<1>7. faults' \in 0..MaxFaults
  BY <1>1, FaultBounded DEF CleansBucket
<1> QED
  BY <1>3, <1>4, <1>6, <1>7

LEMMA DeleteStackFailsChanges ==
    ASSUME TypeOK, DeleteStackFails
    PROVE  /\ cf' \in CloudStack /\ Exists(cf) /\ Exists(cf') /\ Standing' = Standing
           /\ faults' \in 0..MaxFaults
<1>1. cf \in CloudStack /\ Exists(cf) /\ cf' = [cf EXCEPT !.bucket = "cleaned"]
  BY DEF DeleteStackFails, Cleanable, TypeOK, Exists
<1>2. cf' \in CloudStack /\ cf'.phase = cf.phase
  BY <1>1 DEF CloudStack
<1>3. faults' \in 0..MaxFaults
  BY FaultBounded DEF DeleteStackFails
<1> QED
  BY <1>1, <1>2, <1>3, Real DEF Standing

LEMMA CloudChanges ==
    ASSUME TypeOK, CloudFormation
    PROVE  /\ cf' = NoObject \/ cf' \in CloudStack
           /\ Exists(cf) /\ Standing' = Standing
           /\ UNCHANGED <<object, fresh, current, seen, due, pending, created, deletes, faults>>
<1>1. cf \in CloudStack /\ Exists(cf)
  BY DEF CloudFormation, CloudMakesBucket, CloudFinishes, CloudDeletes, TypeOK, Exists
<1>2. UNCHANGED <<object, fresh, current, seen, due, pending, created, deletes, faults>>
  BY DEF CloudFormation, CloudMakesBucket, CloudFinishes, CloudDeletes, server, bounded
<1>3. CASE CloudMakesBucket
  <2>1. cf.phase = "creating" /\ cf' = [cf EXCEPT !.bucket = "kept"]
    BY <1>3 DEF CloudMakesBucket
  <2>2. cf' \in CloudStack /\ cf'.phase = "creating"
    BY <1>1, <2>1 DEF CloudStack
  <2> QED
    BY <1>1, <1>2, <2>1, <2>2, Real DEF Standing
<1>4. CASE CloudFinishes
  <2>1. cf.phase \in {"creating", "updating"}
        /\ cf' = [cf EXCEPT !.phase = "complete", !.template = cf.target]
    BY <1>4 DEF CloudFinishes
  <2>2. cf' \in CloudStack /\ cf'.phase = "complete"
    BY <1>1, <2>1 DEF CloudStack
  <2> QED
    BY <1>1, <1>2, <2>1, <2>2, Real DEF Standing
<1>5. CASE CloudDeletes
  <2>1. cf.phase = "deleting" /\ (cf' = NoObject \/ cf' = [cf EXCEPT !.phase = "deleteFailed"])
    BY <1>5 DEF CloudDeletes
  <2>2. cf' = NoObject \/ (cf' \in CloudStack /\ cf'.phase = "deleteFailed")
    BY <1>1, <2>1 DEF CloudStack
  <2> QED
    BY <1>1, <1>2, <2>1, <2>2 DEF Standing, Exists
<1> QED
  BY <1>3, <1>4, <1>5 DEF CloudFormation

LEMMA TypeUsers == TypeOK /\ (Users \/ CollectGarbage) => TypeOK'
<1> SUFFICES ASSUME TypeOK, Users \/ CollectGarbage PROVE TypeOK'
  OBVIOUS
<1>0. object \in Tables /\ MaxFaults \in Nat /\ created \in 0..MaxCreated
      /\ deletes \in 0..MaxFaults /\ faults \in 0..MaxFaults
  BY DeliveryAssumption DEF TypeOK
<1>1. ASSUME NEW s \in Steps, CreateStep(s) PROVE TypeOK'
  <2>1. [deleting |-> FALSE, held |-> FALSE] \in Step
    BY DEF Step
  <2> QED
    BY <1>0, <1>1, <2>1, Names, BoundsKept, TypeStored DEF CreateStep
<1>2. ASSUME NEW s \in Steps, DeleteStep(s) PROVE TypeOK'
  <2>1. object[s] \in Step
    BY <1>0, <1>2, Entries DEF DeleteStep
  <2>2. object[s].held \in BOOLEAN
    BY <2>1 DEF Step
  <2> QED
    BY <1>0, <1>2, <2>1, <2>2, DeletedStep, Names, TypeStored DEF DeleteStep, bounded
<1>3. CASE CreatePipeline
  <2>1. PICK u \in Uids : Stored("pipeline", [uid |-> u, builds |-> {}, deleting |-> FALSE, finalizers |-> {}])
    BY <1>3 DEF CreatePipeline
  <2>2. [uid |-> u, builds |-> {}, deleting |-> FALSE, finalizers |-> {}] \in Pipeline
    BY DEF Pipeline
  <2> QED
    BY <1>0, <1>3, <2>1, <2>2, Names, BoundsKept, TypeStored DEF CreatePipeline
<1>4. CASE DeletePipeline
  <2>1. pipe \in Pipeline
    BY <1>0, <1>4, Entries DEF DeletePipeline, pipe
  <2> QED
    BY <1>0, <1>4, <2>1, DeletedPipeline, Names, TypeStored DEF DeletePipeline, bounded
<1>5. CASE DeleteStackObject \/ CollectGarbage
  <2>1. StackDeleted /\ deletes' \in 0..MaxFaults
    BY <1>0, <1>5, BoundsKept DEF DeleteStackObject, CollectGarbage
  <2>2. stack \in Stack
    BY <1>0, <2>1, Entries DEF StackDeleted, stack
  <2> QED
    BY <1>0, <2>1, <2>2, DeletedStack, Names, TypeStored DEF StackDeleted
<1> QED
  BY <1>1, <1>2, <1>3, <1>4, <1>5 DEF Users

LEMMA TypeWatches ==
    TypeOK /\ ((\E n \in Objects : Sync(n)) \/ Crash \/ CloudFormation) => TypeOK'
<1> SUFFICES ASSUME TypeOK, (\E n \in Objects : Sync(n)) \/ Crash \/ CloudFormation PROVE TypeOK'
  OBVIOUS
<1>1. ASSUME NEW n \in Objects, Sync(n) PROVE TypeOK'
  <2>1. seen' \in Tables
    BY <1>1, Entry, TableUpdate DEF TypeOK, Sync
  <2>2. due' \subseteq Objects /\ fresh' \subseteq Objects
    BY <1>1, Names DEF TypeOK, Sync, EventFor
  <2> QED
    BY <1>1, <2>1, <2>2 DEF TypeOK, Sync, bounded
<1>2. CASE Crash
  <2>1. pending' \in Tables /\ pending'["pipeline"] = NoObject
    BY <1>2, Names DEF Crash, Tables
  <2>2. faults' \in 0..MaxFaults
    BY <1>2, BoundsKept DEF Crash, Fault
  <2> QED
    BY <1>2, <2>1, <2>2 DEF TypeOK, Crash
<1>3. CASE CloudFormation
  BY <1>3, CloudChanges DEF TypeOK
<1> QED
  BY <1>1, <1>2, <1>3

LEMMA TypePasses ==
    TypeOK /\ CopiesAgree /\ (\/ \E s \in Steps : Join(s) \/ Part(s)
                             \/ Provide \/ StackController) => TypeOK'
<1> SUFFICES ASSUME TypeOK, CopiesAgree,
                    (\E s \in Steps : Join(s) \/ Part(s)) \/ Provide \/ StackController
             PROVE TypeOK'
  OBVIOUS
<1>0. object \in Tables /\ seen \in Tables /\ pending \in Tables
  BY DEF TypeOK
<1>1. ASSUME NEW n \in Steps \cup {"stack"}, NEW copy \in ObjectOf(n), Begin(n, copy),
             object' \in Tables, fresh' \subseteq fresh, due' \subseteq due,
             cf' = NoObject \/ cf' \in CloudStack, faults' \in 0..MaxFaults
      PROVE  TypeOK'
  <2>1. pending' \in Tables /\ pending'["pipeline"] = NoObject
    <3>1. n \in Objects /\ n # "pipeline" /\ pending' = [pending EXCEPT ![n] = copy]
      BY <1>1, Names DEF Begin
    <3>2. copy \in ObjectOf(n) /\ pending["pipeline"] = NoObject
      BY <1>1 DEF TypeOK
    <3>3. [pending EXCEPT ![n] = copy] \in Tables
      BY <1>0, <3>1, <3>2, TableUpdate
    <3> QED
      BY <1>0, <3>1, <3>2, <3>3, Names DEF Tables
  <2>2. current' \subseteq Objects
    BY <1>1, Names DEF TypeOK, Begin, Outdated
  <2> QED
    BY <1>1, <2>1, <2>2 DEF TypeOK, Begin, bounded
<1>2. ASSUME NEW s \in Steps, Join(s) PROVE TypeOK'
  <2>1. seen[s] \in Step /\ pipe \in Pipeline
    BY <1>0, <1>2, Entries DEF Join, StartStep, CopiesAgree, pipe
  <2>2. [seen[s] EXCEPT !.held = TRUE] \in ObjectOf(s)
    BY <2>1, StepRecord, Names
  <2>3. object' \in Tables /\ fresh' \subseteq fresh
    BY <1>2, <2>1, PipelineRecord, PutChanges, Names DEF Join
  <2> QED
    BY <1>1, <1>2, <2>2, <2>3 DEF Join, StartStep, TypeOK
<1>3. ASSUME NEW s \in Steps, Part(s) PROVE TypeOK'
  <2>1. seen[s] \in Step /\ pipe \in Pipeline
    BY <1>0, <1>3, Entries DEF Part, StartStep, CopiesAgree, pipe
  <2>2. [seen[s] EXCEPT !.held = FALSE] \in ObjectOf(s)
    BY <2>1, StepRecord, Names
  <2>3. object' \in Tables /\ fresh' \subseteq fresh
    BY <1>3, <2>1, PipelineRecord, PutChanges, Names DEF Part
  <2> QED
    BY <1>1, <1>3, <2>2, <2>3 DEF Part, StartStep, TypeOK
<1>4. CASE Provide
  <2>1. seen["pipeline"] \in Pipeline /\ (Exists(stack) => stack \in Stack)
    BY <1>0, <1>4, Entries DEF Provide, CopiesAgree, stack
  <2>2. PICK o : o \in Stack /\ Put("stack", o)
    BY <1>4, <2>1, NewStack, NewTemplate DEF Provide
  <2> QED
    BY <1>4, <2>2, StoredType, Names DEF Provide, TypeOK, bounded
<1>5. CASE StackController
  <2>1. seen["stack"] \in Stack
    BY <1>0, <1>5, Entries
    DEF StackController, CreateStack, UpdateStack, DeleteStack, DeleteStackFails, StartStack,
        CopiesAgree
  <2>2. \A b \in BOOLEAN, c \in BOOLEAN :
           [seen["stack"] EXCEPT !.guarded = b, !.buckets = c] \in ObjectOf("stack")
    BY <2>1, StackRecord, Names
  <2>3. CASE CreateStack
    BY <1>0, <1>1, <2>1, <2>2, <2>3, CreateStackChanges DEF CreateStack, StartStack, TypeOK
  <2>4. CASE DeleteStack
    <3>1. PICK c \in BOOLEAN :
             Begin("stack", [seen["stack"] EXCEPT !.guarded = FALSE, !.buckets = c])
      BY <2>1, <2>4, DeleteStackChanges
    <3>2. (cf' = NoObject \/ cf' \in CloudStack) /\ faults' \in 0..MaxFaults
      BY <2>1, <2>4, DeleteStackChanges DEF Exists
    <3>3. object' \in Tables /\ fresh' \subseteq fresh /\ due' \subseteq due
      BY <1>0, <2>4 DEF DeleteStack, StartStack
    <3> QED
      BY <1>1, <2>2, <3>1, <3>2, <3>3
  <2>5. CASE UpdateStack
    BY <2>1, <2>5, UpdateStackChanges DEF UpdateStack, StartStack, TypeOK, bounded
  <2>6. CASE DeleteStackFails
    BY <2>6, DeleteStackFailsChanges DEF DeleteStackFails, StartStack, TypeOK
  <2> QED
    BY <1>5, <2>3, <2>4, <2>5, <2>6 DEF StackController
<1> QED
  BY <1>2, <1>3, <1>4, <1>5

LEMMA TypeWrites ==
    ASSUME TypeOK, NEW n \in Steps \cup {"stack"}, Serve(n)
    PROVE  TypeOK'
<1>0. object \in Tables /\ pending \in Tables /\ n \in Objects /\ n # "pipeline"
  BY Names DEF TypeOK
<1>1. pending' \in Tables /\ pending'["pipeline"] = NoObject
  BY <1>0, Names, TableUpdate DEF Serve, Write, WriteFails, TypeOK
<1>2. CASE Write(n)
  <2>1. PICK o : Put(n, o) /\ (o = NoObject \/ o = pending[n])
    BY <1>2 DEF Write
  <2>2. o = NoObject \/ o \in ObjectOf(n)
    BY <1>0, <2>1, Entry
  <2> QED
    BY <1>0, <1>1, <1>2, <2>1, <2>2, StoredType DEF Write, TypeOK, bounded
<1>3. CASE WriteFails(n)
  <2>1. faults' \in 0..MaxFaults
    BY <1>3, BoundsKept DEF WriteFails, Fault, TypeOK
  <2> QED
    BY <1>1, <1>3, <2>1 DEF WriteFails, TypeOK
<1> QED
  BY <1>2, <1>3 DEF Serve

LEMMA TypeStep == TypeOK /\ CopiesAgree /\ [Next]_vars => TypeOK'
<1> SUFFICES ASSUME TypeOK, CopiesAgree, [Next]_vars PROVE TypeOK'
  OBVIOUS
<1>1. CASE UNCHANGED vars
  BY <1>1 DEF vars, server, bounded, TypeOK
<1> QED
  BY <1>1, TypeUsers, TypeWatches, TypePasses, TypeWrites DEF Next, StepWorker, StackWorker

-----------------------------------------------------------------------------
(* CopiesAgree.                                                            *)

LEMMA AgreeStored ==
    ASSUME TypeOK, CopiesAgree, NEW n \in Objects, NEW o, o = NoObject \/ o \in ObjectOf(n),
           Put(n, o), current' = Outdated(n), UNCHANGED <<seen, pending>>, due' \subseteq due
    PROVE  CopiesAgree'
<1>1. /\ \A m \in Objects : m # n \/ o = object[n] => object'[m] = object[m]
      /\ \A m \in fresh : m # n \/ o = object[n] => m \in fresh'
      /\ \A m \in fresh' : m \in fresh /\ (m # n \/ o = object[n])
      /\ \A m \in current' : m \in current /\ (m # n \/ o = object[n])
  BY PutChanges DEF TypeOK
<1>2. fresh \subseteq Objects /\ current \subseteq Objects
  BY DEF TypeOK
<1> QED
  BY <1>1, <1>2 DEF CopiesAgree

(* A pass begins with the copy that the cache has of its object. *)
LEMMA AgreeBegin ==
    ASSUME TypeOK, CopiesAgree, NEW n \in Steps \cup {"stack"}, NEW copy, Begin(n, copy),
           ~Exists(pending[n]), Exists(seen[n]), Exists(copy), due' \subseteq due,
           copy = IF n = "stack"
                  THEN [seen[n] EXCEPT !.guarded = copy.guarded, !.buckets = copy.buckets]
                  ELSE [seen[n] EXCEPT !.held = copy.held],
           \/ UNCHANGED <<object, fresh>>
           \/ \E o \in Pipeline \cup {NoObject} : Put("pipeline", o)
    PROVE  CopiesAgree'
<1>1. fresh \subseteq Objects /\ current \subseteq Objects /\ n \in Objects /\ n # "pipeline"
      /\ pending \in Tables /\ pending["pipeline"] = NoObject
  BY Names DEF TypeOK
<1>2. "pipeline" \notin current /\ n \notin current
  BY <1>1 DEF CopiesAgree, Exists
<1>3. /\ \A m \in Objects : m # "pipeline" => object'[m] = object[m]
      /\ fresh \ {"pipeline"} \subseteq fresh' /\ fresh' \subseteq fresh
      /\ \A m \in fresh' : object'[m] = object[m]
  <2>1. CASE UNCHANGED <<object, fresh>>
    BY <2>1
  <2>2. ASSUME NEW o \in Pipeline \cup {NoObject}, Put("pipeline", o) PROVE <1>3
    BY <1>1, <2>2, PutChanges, Names
  <2> QED
    BY <2>1, <2>2
<1>4. current' \subseteq current \cup (fresh \cap {n})
  BY DEF Begin, Outdated
<1>5. pending'[n] = copy /\ \A m \in Objects \ {n} : pending'[m] = pending[m]
  BY <1>1, TableUpdate DEF Begin, Tables
<1>6. ASSUME NEW m \in current'
      PROVE  /\ m \in fresh' /\ Exists(object'[m]) /\ Exists(pending'[m])
             /\ pending'[m] = IF m = "stack"
                              THEN [object'[m] EXCEPT !.guarded = pending'[m].guarded,
                                                      !.buckets = pending'[m].buckets]
                              ELSE [object'[m] EXCEPT !.held = pending'[m].held]
  <2>1. CASE m = n
    <3>1. m \in fresh /\ m \in fresh' /\ object'[m] = object[m] /\ seen[m] = object[m]
      BY <1>1, <1>2, <1>3, <1>4, <2>1 DEF CopiesAgree
    <3>2. pending'[m] = copy /\ object'[m] = seen[m] /\ Exists(seen[m])
      BY <1>5, <2>1, <3>1
    <3>3. copy = IF m = "stack"
                 THEN [seen[m] EXCEPT !.guarded = copy.guarded, !.buckets = copy.buckets]
                 ELSE [seen[m] EXCEPT !.held = copy.held]
      BY <2>1
    <3> QED
      BY <3>1, <3>2, <3>3
  <2>2. CASE m # n
    <3>1. m \in current /\ m # "pipeline" /\ m \in Objects
      BY <1>1, <1>2, <1>4, <2>2
    <3>2. object'[m] = object[m] /\ m \in fresh' /\ pending'[m] = pending[m]
      BY <1>3, <1>5, <2>2, <3>1 DEF CopiesAgree
    <3> QED
      BY <3>1, <3>2 DEF CopiesAgree
  <2> QED
    BY <2>1, <2>2
<1>7. seen' = seen
  BY DEF Begin
<1> QED
  BY <1>3, <1>6, <1>7 DEF CopiesAgree

LEMMA AgreeServe ==
    ASSUME TypeOK, CopiesAgree, NEW n \in Steps \cup {"stack"}, Serve(n)
    PROVE  CopiesAgree'
<1>1. /\ object \in Tables /\ pending \in Tables /\ n \in Objects
      /\ current \subseteq Objects /\ fresh \subseteq Objects
  BY Names DEF TypeOK
<1>2. current' = current \ {n} /\ seen' = seen
      /\ \A m \in Objects \ {n} : pending'[m] = pending[m]
  BY <1>1 DEF Serve, Write, WriteFails, Tables
<1>3. \A m \in due' : Exists(seen'[m])
  BY <1>2 DEF Serve, Write, WriteFails, CopiesAgree
<1>4. /\ \A m \in Objects \ {n} : object'[m] = object[m]
      /\ fresh \ {n} \subseteq fresh'
      /\ \A m \in fresh' : m \in fresh /\ object'[m] = object[m]
  <2>1. CASE Write(n)
    <3>1. PICK o : Put(n, o) /\ (o = NoObject \/ o = pending[n])
      BY <2>1 DEF Write
    <3>2. o = NoObject \/ o \in ObjectOf(n)
      BY <1>1, <3>1, Entry
    <3> QED
      BY <1>1, <3>1, <3>2, PutChanges
  <2>2. CASE WriteFails(n)
    BY <2>2 DEF WriteFails
  <2> QED
    BY <2>1, <2>2 DEF Serve
<1> QED
  BY <1>1, <1>2, <1>3, <1>4 DEF CopiesAgree

LEMMA AgreeWatches ==
    TypeOK /\ CopiesAgree /\ ((\E n \in Objects : Sync(n)) \/ Crash) => CopiesAgree'
<1> SUFFICES ASSUME TypeOK, CopiesAgree, (\E n \in Objects : Sync(n)) \/ Crash PROVE CopiesAgree'
  OBVIOUS
<1>1. ASSUME NEW n \in Objects, Sync(n) PROVE CopiesAgree'
  <2>1. seen'[n] = object[n] /\ \A m \in Objects \ {n} : seen'[m] = seen[m]
    BY <1>1 DEF Sync, TypeOK, Tables
  <2> QED
    BY <1>1, <2>1 DEF Sync, TypeOK, CopiesAgree
<1>2. CASE Crash
  BY <1>2 DEF Crash, CopiesAgree
<1> QED
  BY <1>1, <1>2

-----------------------------------------------------------------------------
(* What an action that leaves the rest alone preserves.                    *)

LEMMA MembersKept ==
    ASSUME MembersTied, UNCHANGED <<seen, pending>>, current' \cap Steps \subseteq current,
           \A s \in Steps : Tied(s) => Tied(s)',
           \A s \in Steps : object'[s] = object[s] \/ ~(Live(s)' /\ object'[s].held)
    PROVE  MembersTied'
  BY DEF MembersTied, Live, Marked

LEMMA MarksKept ==
    ASSUME MarksHarmless, seen'["stack"] = seen["stack"], pending'["stack"] = pending["stack"],
           object'["stack"] = object["stack"], UNCHANGED cf
    PROVE  MarksHarmless'
  BY DEF MarksHarmless, Marked, Standing, stack

LEMMA OwnedKept ==
    ASSUME OwnedStays, UNCHANGED deletes,
           object'["stack"] = object["stack"], object'["pipeline"] = object["pipeline"]
    PROVE  OwnedStays'
  BY DEF OwnedStays, Marked, OwnerAlive, stack, pipe

LEMMA TiesKept ==
    ASSUME object'["pipeline"] = object["pipeline"], NEW s, Tied(s)
    PROVE  Tied(s)'
  BY DEF Tied, pipe

-----------------------------------------------------------------------------
(* Coherent.                                                               *)

(* A write of something else than a step's controller about the step s. *)
LEMMA StepStored ==
    ASSUME Inv, NEW s \in Steps, NEW o, o = NoObject \/ o \in Step, Stored(s, o),
           UNCHANGED deletes, Exists(o) => o.deleting \/ ~o.held
    PROVE  Coherent'
<1>1. o = NoObject \/ o \in ObjectOf(s)
  BY Names
<1>2. CopiesAgree'
  BY <1>1, Names, AgreeStored DEF Inv, Coherent, Stored
<1>3. object'[s] = o /\ \A m \in Objects \ {s} : object'[m] = object[m]
  BY <1>1, Names, PutChanges DEF Inv, Stored
<1>4. object'["pipeline"] = object["pipeline"] /\ object'["stack"] = object["stack"]
  BY <1>3, Names
<1>5. current' \subseteq current
  BY DEF Stored, Outdated
<1>6. \A t \in Steps : object'[t] = object[t] \/ ~(Live(t)' /\ object'[t].held)
  BY <1>3, Names DEF Live
<1>7. MembersTied'
  BY <1>4, <1>5, <1>6, MembersKept, TiesKept DEF Inv, Coherent, Stored
<1> QED
  BY <1>2, <1>4, <1>7, MarksKept, OwnedKept DEF Inv, Coherent, Stored

LEMMA PipelineStored ==
    ASSUME Inv, NEW o, o = NoObject \/ o \in Pipeline, Stored("pipeline", o), UNCHANGED deletes,
           Exists(pipe) /\ pipe.finalizers # {}
             => Exists(o) /\ o.finalizers = pipe.finalizers,
           Exists(stack) /\ Exists(o) => OwnerAlive \/ o.uid # stack.owner
    PROVE  Coherent'
<1>1. o = NoObject \/ o \in ObjectOf("pipeline")
  BY Names
<1>2. CopiesAgree'
  BY <1>1, Names, AgreeStored DEF Inv, Coherent, Stored
<1>3. object'["pipeline"] = o /\ \A m \in Objects \ {"pipeline"} : object'[m] = object[m]
  BY <1>1, Names, PutChanges DEF Inv, Stored
<1>4. object'["stack"] = object["stack"] /\ \A s \in Steps : object'[s] = object[s]
  BY <1>3, Names
<1>5. current' \subseteq current
  BY DEF Stored, Outdated
<1>6. \A s \in Steps : Tied(s) => Tied(s)'
  BY <1>3 DEF Tied, pipe
<1>7. MembersTied'
  BY <1>4, <1>5, <1>6, MembersKept DEF Inv, Coherent, Stored
<1>8. OwnedStays'
  BY <1>3, <1>4 DEF Inv, Coherent, OwnedStays, Marked, OwnerAlive, stack, pipe
<1> QED
  BY <1>2, <1>4, <1>7, <1>8, MarksKept DEF Inv, Coherent, Stored

LEMMA StackStored ==
    ASSUME Inv, NEW o, o = NoObject \/ o \in Stack,
           Put("stack", o), current' = Outdated("stack"),
           UNCHANGED <<seen, pending, cf>>, due' \subseteq due,
           Marked(stack) => Exists(o) /\ o.deleting /\ o.owner = stack.owner,
           deletes' = 0 => deletes = 0 /\ (Exists(o) /\ o.deleting =>
               Exists(stack) /\ o.owner = stack.owner /\ (stack.deleting \/ ~OwnerAlive))
    PROVE  Coherent'
<1>1. o = NoObject \/ o \in ObjectOf("stack")
  BY Names
<1>2. CopiesAgree'
  BY <1>1, Names, AgreeStored DEF Inv, Coherent
<1>3. object'["stack"] = o /\ \A m \in Objects \ {"stack"} : object'[m] = object[m]
  BY <1>1, Names, PutChanges DEF Inv
<1>4. object'["pipeline"] = object["pipeline"] /\ \A s \in Steps : object'[s] = object[s]
  BY <1>3, Names
<1>5. current' \subseteq current
  BY DEF Outdated
<1>6. MembersTied'
  BY <1>4, <1>5, MembersKept, TiesKept DEF Inv, Coherent
<1>7. MarksHarmless'
  BY <1>3 DEF Inv, Coherent, MarksHarmless, Marked, Standing, stack
<1>8. OwnedStays'
  BY <1>3, <1>4 DEF Inv, Coherent, OwnedStays, Marked, OwnerAlive, stack, pipe
<1> QED
  BY <1>2, <1>6, <1>7, <1>8 DEF Coherent

LEMMA CoherentUsers == Inv /\ (Users \/ CollectGarbage) => Coherent'
<1> SUFFICES ASSUME Inv, Users \/ CollectGarbage PROVE Coherent'
  OBVIOUS
<1>0. TypeOK /\ object \in Tables
  BY DEF Inv, TypeOK
<1>1. ASSUME NEW s \in Steps, CreateStep(s) PROVE Coherent'
  <2> DEFINE o == [deleting |-> FALSE, held |-> FALSE]
  <2>1. o \in Step /\ ~o.held /\ Stored(s, o)
    BY <1>1 DEF Step, CreateStep
  <2>2. UNCHANGED deletes
    BY <1>1 DEF CreateStep, Created
  <2> QED
    BY <2>1, <2>2, StepStored
<1>2. ASSUME NEW s \in Steps, DeleteStep(s) PROVE Coherent'
  <2>1. object[s] \in Step
    BY <1>0, <1>2, Entries DEF DeleteStep
  <2>2. object[s].held \in BOOLEAN
    BY <2>1 DEF Step
  <2>3. PICK o : o = Deleted(object[s], object[s].held)
    OBVIOUS
  <2>4. (o = NoObject \/ o \in Step) /\ (o = NoObject \/ o.deleting)
    BY <2>1, <2>2, <2>3, DeletedStep
  <2>5. Stored(s, o) /\ UNCHANGED deletes
    BY <1>2, <2>3 DEF DeleteStep, bounded
  <2> QED
    BY <2>4, <2>5, StepStored DEF Exists
<1>3. CASE CreatePipeline
  <2>1. PICK u \in Uids \ InUse :
           Stored("pipeline", [uid |-> u, builds |-> {}, deleting |-> FALSE, finalizers |-> {}])
    BY <1>3 DEF CreatePipeline
  <2> DEFINE o == [uid |-> u, builds |-> {}, deleting |-> FALSE, finalizers |-> {}]
  <2>2. o \in Pipeline /\ o.uid = u /\ Stored("pipeline", o)
    BY <2>1 DEF Pipeline
  <2>3. Exists(stack) => u # stack.owner
    BY <2>1 DEF InUse, Exists
  <2>4. ~Exists(pipe) /\ UNCHANGED deletes
    BY <1>3 DEF CreatePipeline, Created
  <2> HIDE DEF o
  <2> QED
    BY <2>2, <2>3, <2>4, PipelineStored
<1>4. CASE DeletePipeline
  <2>1. pipe \in Pipeline /\ Exists(pipe)
    BY <1>0, <1>4, Entries DEF DeletePipeline, pipe
  <2>2. PICK o : o = Deleted(pipe, pipe.finalizers # {})
    OBVIOUS
  <2>3. /\ o = NoObject \/ (o \in Pipeline /\ o.uid = pipe.uid /\ o.finalizers = pipe.finalizers)
        /\ o = NoObject => pipe.finalizers = {}
    BY <2>1, <2>2, DeletedPipeline
  <2>4. Stored("pipeline", o) /\ UNCHANGED deletes
    BY <1>4, <2>2 DEF DeletePipeline, bounded
  <2>5. Exists(stack) /\ Exists(o) => OwnerAlive \/ o.uid # stack.owner
    BY <2>1, <2>3 DEF OwnerAlive, Exists
  <2> QED
    BY <2>3, <2>4, <2>5, PipelineStored DEF Exists
<1>5. CASE DeleteStackObject \/ CollectGarbage
  <2>1. StackDeleted
    BY <1>5 DEF DeleteStackObject, CollectGarbage
  <2>2. stack \in Stack /\ Exists(stack) /\ ~stack.deleting
    BY <1>0, <2>1, Entries DEF StackDeleted, stack
  <2>3. PICK o : o = Deleted(stack, Held("stack", stack))
    OBVIOUS
  <2>4. o = NoObject \/ (o \in Stack /\ o.deleting /\ o.owner = stack.owner)
    BY <2>2, <2>3, DeletedStack
  <2>5. Stored("stack", o)
    BY <2>1, <2>3 DEF StackDeleted
  <2>6. deletes' = 0 => deletes = 0 /\ ~OwnerAlive
    BY <1>0, <1>5, BoundsKept DEF DeleteStackObject, CollectGarbage
  <2>7. ~Marked(stack)
    BY <2>2 DEF Marked
  <2> QED
    BY <2>2, <2>4, <2>5, <2>6, <2>7, StackStored DEF Stored, Exists
<1> QED
  BY <1>1, <1>2, <1>3, <1>4, <1>5 DEF Users

LEMMA CoherentWatches ==
    Inv /\ ((\E n \in Objects : Sync(n)) \/ Crash \/ CloudFormation) => Coherent'
<1> SUFFICES ASSUME Inv, (\E n \in Objects : Sync(n)) \/ Crash \/ CloudFormation
             PROVE Coherent'
  OBVIOUS
<1>0. TypeOK /\ CopiesAgree /\ MembersTied /\ MarksHarmless /\ OwnedStays
  BY DEF Inv, Coherent
<1>1. ASSUME NEW n \in Objects, Sync(n) PROVE Coherent'
  <2>1. seen'[n] = object[n] /\ \A m \in Objects \ {n} : seen'[m] = seen[m]
    BY <1>0, <1>1 DEF Sync, TypeOK, Tables
  <2>2. UNCHANGED <<object, current, pending, cf, deletes>>
    BY <1>1 DEF Sync, bounded
  <2>3. CopiesAgree'
    BY <1>0, <1>1, AgreeWatches
  <2>4. MembersTied'
    <3>1. \A s \in Steps : seen'[s] = seen[s] \/ seen'[s] = object[s]
      BY <2>1, Names
    <3> QED
      BY <1>0, <2>2, <3>1 DEF MembersTied, Tied, Live, Marked, pipe
  <2>5. MarksHarmless'
    <3>1. seen'["stack"] = seen["stack"] \/ seen'["stack"] = object["stack"]
      BY <2>1, Names
    <3> QED
      BY <1>0, <2>2, <3>1 DEF MarksHarmless, Marked, Standing, stack
  <2> QED
    BY <1>0, <2>2, <2>3, <2>4, <2>5, OwnedKept DEF Coherent
<1>2. CASE Crash
  <2>1. seen' = object /\ current' = {} /\ UNCHANGED <<object, cf, deletes>>
        /\ \A n \in Objects : pending'[n] = NoObject
    BY <1>2 DEF Crash
  <2>2. CopiesAgree'
    BY <1>0, <1>2, AgreeWatches
  <2>3. MembersTied'
    BY <1>0, <2>1 DEF MembersTied, Tied, Live, Marked, pipe
  <2>4. MarksHarmless'
    BY <2>1, Names DEF MarksHarmless, Marked, Exists, stack
  <2> QED
    BY <1>0, <2>1, <2>2, <2>3, <2>4, OwnedKept DEF Coherent
<1>3. CASE CloudFormation
  <2>1. UNCHANGED <<object, fresh, current, seen, due, pending, deletes>> /\ Standing' = Standing
    BY <1>0, <1>3, CloudChanges
  <2>2. CopiesAgree' /\ MembersTied'
    BY <1>0, <2>1 DEF CopiesAgree, MembersTied, Tied, Live, Marked, pipe
  <2>4. MarksHarmless'
    BY <1>0, <2>1 DEF MarksHarmless, Marked, stack
  <2> QED
    BY <1>0, <2>1, <2>2, <2>4, OwnedKept DEF Coherent
<1> QED
  BY <1>1, <1>2, <1>3

LEMMA CoherentJoin ==
    ASSUME Inv, NEW s \in Steps, Join(s)
    PROVE  Coherent'
<1>0. TypeOK /\ CopiesAgree /\ MembersTied /\ object \in Tables /\ seen \in Tables
  BY DEF Inv, Coherent, TypeOK
<1>1. seen[s] \in Step /\ Exists(seen[s]) /\ pipe \in Pipeline /\ Exists(pipe)
  BY <1>0, Entries DEF Join, StartStep, CopiesAgree, pipe
<1> DEFINE copy == [seen[s] EXCEPT !.held = TRUE]
           p == WithMember(pipe, s)
<1>2. copy \in Step /\ copy.held = TRUE /\ Exists(copy)
  BY <1>1, StepRecord, Real
<1>3. p \in Pipeline /\ p.uid = pipe.uid /\ p.finalizers = pipe.finalizers \cup {s} /\ Exists(p)
  BY <1>1, PipelineRecord, Real
<1>4. Put("pipeline", p) /\ Begin(s, copy) /\ due' \subseteq due /\ ~Exists(pending[s])
      /\ \A t \in Steps : ~Exists(pending[t])
  BY DEF Join, StartStep
<1>5. copy = [seen[s] EXCEPT !.held = copy.held] /\ s # "stack"
  BY <1>2, Names
<1> HIDE DEF copy, p
<1>6. CopiesAgree'
  BY <1>0, <1>1, <1>2, <1>3, <1>4, <1>5, AgreeBegin
<1>7. object'["pipeline"] = p /\ \A m \in Objects \ {"pipeline"} : object'[m] = object[m]
  BY <1>0, <1>3, <1>4, Names, PutChanges
<1>8. object'["stack"] = object["stack"] /\ \A t \in Steps : object'[t] = object[t]
  BY <1>7, Names
<1>9. /\ pending'[s] = copy /\ \A m \in Objects \ {s} : pending'[m] = pending[m]
      /\ current' \subseteq current \cup {s} /\ UNCHANGED <<seen, deletes, cf>>
  BY <1>4, Names DEF Begin, Inv, TypeOK, Tables, Outdated, bounded, Join, StartStep
<1>10. \A t \in Steps : (Tied(t) \/ t = s) => Tied(t)'
  BY <1>3, <1>7 DEF Tied, pipe
<1>11. \A t \in current' : t \in Steps => t = s
  BY <1>0, <1>4, <1>9 DEF CopiesAgree
<1>12. MembersTied'
  BY <1>0, <1>8, <1>9, <1>10, <1>11 DEF MembersTied, Live, Marked
<1>13. OwnedStays'
  BY <1>1, <1>3, <1>7, <1>8, <1>9 DEF Inv, Coherent, OwnedStays, Marked, OwnerAlive, stack, pipe
<1>14. pending'["stack"] = pending["stack"]
  BY <1>9, Names
<1> QED
  BY <1>6, <1>8, <1>9, <1>12, <1>13, <1>14, MarksKept DEF Inv, Coherent

LEMMA CoherentPart ==
    ASSUME Inv, NEW s \in Steps, Part(s)
    PROVE  Coherent'
<1>0. TypeOK /\ CopiesAgree /\ MembersTied /\ object \in Tables /\ seen \in Tables
  BY DEF Inv, Coherent, TypeOK
<1>1. seen[s] \in Step /\ Exists(seen[s]) /\ pipe \in Pipeline /\ Exists(pipe) /\ seen[s].deleting
  BY <1>0, Entries DEF Part, StartStep, CopiesAgree, pipe
<1> DEFINE copy == [seen[s] EXCEPT !.held = FALSE]
           w == WithoutMember(pipe, s)
           p == IF w.deleting /\ w.finalizers = {} THEN NoObject ELSE w
<1>2. copy \in Step /\ copy.held = FALSE /\ Exists(copy) /\ copy.deleting
  BY <1>1, StepRecord, Real
<1>3. w \in Pipeline /\ w.uid = pipe.uid /\ w.finalizers = pipe.finalizers \ {s} /\ Exists(w)
  BY <1>1, PipelineRecord, Real
<1>4. Put("pipeline", p) /\ Begin(s, copy) /\ due' \subseteq due /\ ~Exists(pending[s])
      /\ \A t \in Steps : ~Exists(pending[t])
  BY DEF Part, StartStep
<1>5. copy = [seen[s] EXCEPT !.held = copy.held] /\ s # "stack"
  BY <1>2, Names
<1>6. p \in Pipeline \cup {NoObject} /\ (Exists(p) => p = w)
      /\ (w.finalizers # {} => p = w)
  BY <1>3 DEF Exists
<1> HIDE DEF copy, w, p
<1>7. CopiesAgree'
  BY <1>0, <1>1, <1>2, <1>4, <1>5, <1>6, AgreeBegin
<1>8. object'["pipeline"] = p /\ \A m \in Objects \ {"pipeline"} : object'[m] = object[m]
  BY <1>0, <1>4, <1>6, Names, PutChanges
<1>9. object'["stack"] = object["stack"] /\ \A t \in Steps : object'[t] = object[t]
  BY <1>8, Names
<1>10. /\ pending'[s] = copy /\ \A m \in Objects \ {s} : pending'[m] = pending[m]
       /\ current' \subseteq current \cup {s} /\ UNCHANGED <<seen, deletes, cf>>
  BY <1>4, Names DEF Begin, Inv, TypeOK, Tables, Outdated, bounded, Part, StartStep
<1>11. \A t \in Steps \ {s} : Tied(t) => Tied(t)'
  BY <1>3, <1>6, <1>8 DEF Tied, pipe
<1>12. \A t \in current' : t \in Steps => t = s
  BY <1>0, <1>4, <1>10 DEF CopiesAgree
<1>13. MembersTied'
  BY <1>0, <1>1, <1>2, <1>9, <1>10, <1>11, <1>12 DEF MembersTied, Live, Marked
<1>14. OwnedStays'
  BY <1>1, <1>3, <1>6, <1>8, <1>9, <1>10
  DEF Inv, Coherent, OwnedStays, Marked, OwnerAlive, stack, pipe
<1>15. pending'["stack"] = pending["stack"]
  BY <1>10, Names
<1> QED
  BY <1>7, <1>9, <1>10, <1>13, <1>14, <1>15, MarksKept DEF Inv, Coherent

LEMMA CoherentProvide == Inv /\ Provide => Coherent'
<1> SUFFICES ASSUME Inv, Provide PROVE Coherent'
  OBVIOUS
<1>0. TypeOK /\ CopiesAgree /\ object \in Tables /\ seen \in Tables
  BY DEF Inv, Coherent, TypeOK
<1>1. seen["pipeline"] \in Pipeline /\ (Exists(stack) => stack \in Stack)
  BY <1>0, Entries DEF Provide, CopiesAgree, stack
<1>2. PICK o : /\ Put("stack", o) /\ o \in Stack
               /\ Exists(stack) => o.deleting = stack.deleting /\ o.owner = stack.owner
               /\ ~Exists(stack) => ~o.deleting
  BY <1>1, NewStack, NewTemplate DEF Provide
<1>3. Exists(o)
  BY <1>2, Real
<1>4. /\ current' = Outdated("stack") /\ UNCHANGED <<seen, pending, cf, deletes>>
      /\ due' \subseteq due
  BY DEF Provide, bounded
<1>5. Marked(stack) => Exists(o) /\ o.deleting /\ o.owner = stack.owner
  BY <1>2, <1>3 DEF Marked
<1> QED
  BY <1>2, <1>3, <1>4, <1>5, StackStored

LEMMA CoherentStackPasses == Inv /\ StackController => Coherent'
<1> SUFFICES ASSUME Inv, StackController PROVE Coherent'
  OBVIOUS
<1>0. TypeOK /\ CopiesAgree /\ MembersTied /\ MarksHarmless /\ seen \in Tables
  BY DEF Inv, Coherent, TypeOK
<1>1. StartStack /\ UNCHANGED <<object, fresh, seen, deletes>> /\ ~Exists(pending["stack"])
  BY DEF StackController, CreateStack, UpdateStack, DeleteStack, DeleteStackFails, StartStack,
         Begin, bounded
<1>2. seen["stack"] \in Stack /\ Exists(seen["stack"])
  BY <1>0, <1>1, Entries DEF StartStack, CopiesAgree
<1>3. OwnedStays'
  BY <1>1, OwnedKept DEF Inv, Coherent
<1>4. Exists(cf) => cf \in CloudStack
  BY <1>0 DEF TypeOK, Exists
<1>5. ASSUME NEW b \in BOOLEAN, NEW c \in BOOLEAN,
             Begin("stack", [seen["stack"] EXCEPT !.guarded = b, !.buckets = c]),
             due' \subseteq due, Standing' = b, seen["stack"].deleting = ~b
      PROVE  Coherent'
  <2> DEFINE copy == [seen["stack"] EXCEPT !.guarded = b, !.buckets = c]
  <2>1. /\ copy \in Stack /\ copy.guarded = b /\ copy.buckets = c
        /\ copy.deleting = ~b /\ Exists(copy)
    <3>1. /\ copy \in Stack /\ copy.guarded = b /\ copy.buckets = c
          /\ copy.deleting = seen["stack"].deleting
      BY <1>2, <1>5 DEF Stack
    <3> QED
      BY <1>5, <3>1, Real
  <2>2. copy = [seen["stack"] EXCEPT !.guarded = copy.guarded, !.buckets = copy.buckets]
        /\ Begin("stack", copy)
    BY <1>5, <2>1
  <2> HIDE DEF copy
  <2>3. CopiesAgree'
    BY <1>0, <1>1, <1>2, <1>5, <2>1, <2>2, AgreeBegin
  <2>4. /\ pending'["stack"] = copy /\ \A s \in Steps : pending'[s] = pending[s]
        /\ current' \cap Steps \subseteq current
    BY <2>2, Names DEF Begin, Inv, TypeOK, Tables, Outdated
  <2>5. MembersTied'
    BY <1>0, <1>1, <2>4 DEF MembersTied, Tied, Live, Marked, pipe
  <2>6. Marked(seen["stack"]) = ~b
    BY <1>2, <1>5 DEF Marked
  <2>7. MarksHarmless'
    BY <1>1, <1>5, <2>1, <2>4, <2>6 DEF MarksHarmless, Marked
  <2> QED
    BY <1>3, <2>3, <2>5, <2>7 DEF Coherent
<1>6. CASE CreateStack
  <2>1. seen["stack"].deleting = FALSE
    BY <1>2, <1>6 DEF CreateStack, Stack
  <2>2. Standing' = TRUE /\ due' \subseteq due
        /\ Begin("stack", [seen["stack"] EXCEPT !.guarded = TRUE, !.buckets = TRUE])
    BY <1>2, <1>6, CreateStackChanges DEF Standing
  <2> QED
    BY <1>5, <2>1, <2>2
<1>7. CASE DeleteStack
  <2>1. PICK c \in BOOLEAN :
           Begin("stack", [seen["stack"] EXCEPT !.guarded = FALSE, !.buckets = c])
    BY <1>0, <1>2, <1>7, DeleteStackChanges
  <2>2. seen["stack"].deleting = TRUE /\ due' \subseteq due
    BY <1>2, <1>7 DEF DeleteStack, Stack
  <2>3. Standing' = FALSE
    BY <1>0, <1>2, <1>7, DeleteStackChanges DEF Standing
  <2> QED
    BY <1>5, <2>1, <2>2, <2>3
<1>8. CASE UpdateStack \/ DeleteStackFails
  <2>1. UNCHANGED <<object, fresh, seen, due, pending, current>>
    BY <1>1, <1>8 DEF UpdateStack, DeleteStackFails
  <2>2. CopiesAgree' /\ MembersTied'
    BY <1>0, <2>1 DEF CopiesAgree, MembersTied, Tied, Live, Marked, pipe
  <2>3. Standing' = Standing
    <3>1. CASE UpdateStack
      BY <1>0, <1>2, <3>1, UpdateStackChanges DEF Standing
    <3>2. CASE DeleteStackFails
      BY <1>0, <3>2, DeleteStackFailsChanges
    <3> QED
      BY <1>8, <3>1, <3>2
  <2>4. MarksHarmless'
    BY <1>0, <2>1, <2>3 DEF MarksHarmless, Marked, stack
  <2> QED
    BY <1>3, <2>2, <2>4 DEF Coherent
<1> QED
  BY <1>6, <1>7, <1>8 DEF StackController

(* What the write of a pass leaves of its object. *)
LEMMA WritesCopy ==
    ASSUME Inv, NEW n \in Steps \cup {"stack"}, Write(n)
    PROVE  /\ Exists(object[n]) /\ Exists(pending[n])
           /\ object'[n] = NoObject \/ object'[n] = pending[n]
           /\ \A m \in Objects \ {n} : object'[m] = object[m]
           /\ pending'[n] = NoObject /\ \A m \in Objects \ {n} : pending'[m] = pending[m]
           /\ n \in fresh /\ n \in Objects /\ n # "pipeline"
           /\ current' = current \ {n} /\ UNCHANGED <<seen, cf, deletes>>
<1>1. n \in Objects /\ n # "pipeline" /\ pending \in Tables
  BY Names DEF Inv, TypeOK
<1>2. PICK o : Put(n, o) /\ (o = NoObject \/ o = pending[n])
  BY DEF Write
<1>3. o = NoObject \/ o \in ObjectOf(n)
  BY <1>1, <1>2, Entry
<1>4. object'[n] = o /\ \A m \in Objects \ {n} : object'[m] = object[m]
  BY <1>1, <1>2, <1>3, PutChanges DEF Inv
<1>5. pending'[n] = NoObject /\ \A m \in Objects \ {n} : pending'[m] = pending[m]
  BY <1>1 DEF Write, Tables
<1> QED
  BY <1>1, <1>2, <1>4, <1>5 DEF Write, Inv, Coherent, CopiesAgree, bounded

LEMMA CoherentWriteStep ==
    ASSUME Inv, NEW s \in Steps, Write(s)
    PROVE  Coherent'
<1>1. CopiesAgree'
  BY AgreeServe DEF Inv, Coherent, Serve
<1>2. s \in current /\ s # "stack"
  BY Names DEF Write
<1>3. pending[s] \in Step /\ object[s] \in Step /\ seen[s] = object[s]
  BY WritesCopy, Entries DEF Inv, TypeOK, Coherent, CopiesAgree
<1>4. pending[s].deleting = object[s].deleting
  <2>1. pending[s] = [object[s] EXCEPT !.held = pending[s].held]
    BY <1>2 DEF Inv, Coherent, CopiesAgree
  <2> QED
    BY <1>3, <2>1 DEF Step
<1>5. object'["pipeline"] = object["pipeline"] /\ object'["stack"] = object["stack"]
      /\ pending'["stack"] = pending["stack"]
  BY WritesCopy, Names
<1>6. ~Marked(pending[s]) => Tied(s) /\ ~Marked(seen[s])
  BY <1>2, <1>3, <1>4, WritesCopy DEF Inv, Coherent, MembersTied, Marked
<1>7. Live(s)' => Tied(s) /\ ~Marked(seen[s])
  BY <1>6, WritesCopy DEF Live, Marked, Exists
<1>8. MembersTied'
  <2>1. ASSUME NEW t \in Steps \ {s}
        PROVE  object'[t] = object[t] /\ pending'[t] = pending[t]
    BY WritesCopy, Names
  <2>2. \A t \in Steps : Tied(t) => Tied(t)'
    BY <1>5, TiesKept
  <2> QED
    BY <1>7, <2>1, <2>2, WritesCopy DEF Inv, Coherent, MembersTied, Marked, Live
<1> QED
  BY <1>1, <1>5, <1>8, WritesCopy, MarksKept, OwnedKept DEF Inv, Coherent

LEMMA CoherentWriteStack ==
    ASSUME Inv, Write("stack")
    PROVE  Coherent'
<1>1. CopiesAgree'
  BY AgreeServe DEF Inv, Coherent, Serve
<1>2. "stack" \in current
  BY DEF Write
<1>3. pending["stack"] \in Stack /\ stack \in Stack /\ seen["stack"] = stack
  BY WritesCopy, Entries DEF Inv, TypeOK, Coherent, CopiesAgree, stack
<1>4. pending["stack"].deleting = stack.deleting /\ pending["stack"].owner = stack.owner
  <2>1. pending["stack"] = [stack EXCEPT !.guarded = pending["stack"].guarded,
                                         !.buckets = pending["stack"].buckets]
    BY <1>2 DEF Inv, Coherent, CopiesAgree, stack
  <2> QED
    BY <1>3, <2>1 DEF Stack
<1>5. object'["pipeline"] = object["pipeline"]
      /\ \A s \in Steps : object'[s] = object[s] /\ pending'[s] = pending[s]
  BY WritesCopy, Names
<1>6. MembersTied'
  <2>1. \A t \in Steps : Tied(t) => Tied(t)'
    BY <1>5, TiesKept
  <2> QED
    BY <1>5, <2>1, WritesCopy DEF Inv, Coherent, MembersTied, Marked, Live
<1>7. pending["stack"].deleting = ~Standing
  BY WritesCopy DEF Inv, Coherent, MarksHarmless
<1>8. MarksHarmless'
  <2>1. Marked(seen["stack"]) => ~Standing
    BY <1>3, <1>4, <1>7 DEF Marked
  <2> QED
    BY <2>1, WritesCopy DEF MarksHarmless, Marked, Standing, Exists
<1>9. OwnedStays'
  BY <1>4, <1>5, WritesCopy DEF Inv, Coherent, OwnedStays, Marked, OwnerAlive, Exists, stack, pipe
<1> QED
  BY <1>1, <1>6, <1>8, <1>9 DEF Coherent

LEMMA CoherentWriteFails ==
    ASSUME Inv, NEW n \in Steps \cup {"stack"}, WriteFails(n)
    PROVE  Coherent'
<1>1. CopiesAgree'
  BY AgreeServe DEF Inv, Coherent, Serve
<1>2. UNCHANGED <<object, seen, cf, deletes>> /\ current' \subseteq current
      /\ \A m \in Objects : pending'[m] = pending[m] \/ (pending'[m] = NoObject /\ m \notin current')
  BY DEF WriteFails, Inv, TypeOK, Tables
<1>3. MembersTied'
  BY <1>2, Names DEF Inv, Coherent, MembersTied, Tied, Live, Marked, pipe
<1>4. MarksHarmless'
  BY <1>2, Names DEF Inv, Coherent, MarksHarmless, Marked, Standing, Exists, stack
<1> QED
  BY <1>1, <1>2, <1>3, <1>4, OwnedKept DEF Inv, Coherent

LEMMA CoherentStep == Inv /\ [Next]_vars => Coherent'
<1> SUFFICES ASSUME Inv, [Next]_vars PROVE Coherent'
  OBVIOUS
<1>1. CASE UNCHANGED vars
  BY <1>1 DEF vars, server, bounded, Inv, Coherent, CopiesAgree, MembersTied, Tied, Live,
              Marked, MarksHarmless, Standing, OwnedStays, OwnerAlive, stack, pipe
<1>2. ASSUME NEW n \in Steps \cup {"stack"}, Serve(n) PROVE Coherent'
  BY <1>2, CoherentWriteStep, CoherentWriteStack, CoherentWriteFails DEF Serve
<1> QED
  BY <1>1, <1>2, CoherentUsers, CoherentWatches, CoherentJoin, CoherentPart,
     CoherentProvide, CoherentStackPasses DEF Next, StepWorker, StackWorker

LEMMA Initially == Init => Inv
<1> SUFFICES ASSUME Init PROVE Inv
  OBVIOUS
<1>1. \A n \in Objects : object[n] = NoObject /\ seen[n] = NoObject /\ pending[n] = NoObject
  BY DEF Init
<1>2. TypeOK
  BY <1>1, Names, DeliveryAssumption DEF Init, TypeOK, Tables
<1>3. Coherent
  BY <1>1, Names DEF Init, Coherent, CopiesAgree, MembersTied, MarksHarmless, OwnedStays,
                     Live, Marked, Exists, stack
<1> QED
  BY <1>2, <1>3 DEF Inv

LEMMA InvStep == Inv /\ [Next]_vars => Inv'
  BY TypeStep, CoherentStep DEF Inv, Coherent

(* The objects keep their types, and the copies that the controllers have  *)
(* of them agree with what the API server and CloudFormation hold.         *)
THEOREM ChainCoherent == Spec => [](TypeOK /\ Coherent)
  BY Initially, InvStep, PTL DEF Spec, Inv

(* The variables keep their types: what is stored, cached or about to be   *)
(* written under a name is an object of that name's kind.                  *)
THEOREM TypeCorrect == Spec => []TypeOK
  BY ChainCoherent, PTL

-----------------------------------------------------------------------------
(* The stack controller alone asks for a teardown.                         *)
LEMMA TeardownBegins ==
    ASSUME Inv, Next, Standing, Exists(cf'), ~Standing'
    PROVE  DeleteStack
<1>1. CASE Users \/ CollectGarbage \/ Crash \/ Provide
           \/ (\E n \in Objects : Sync(n)) \/ (\E s \in Steps : StepWorker(s))
           \/ Serve("stack")
  <2>1. UNCHANGED cf
    BY <1>1 DEF Users, CreateStep, DeleteStep, CreatePipeline, DeletePipeline, DeleteStackObject,
                StackDeleted, Stored, CollectGarbage, Crash, Provide, Sync, StepWorker, Join, Part,
                StartStep, Serve, Write, WriteFails
  <2> QED
    BY <2>1 DEF Standing
<1>2. CASE StackController
  <2>1. seen["stack"] \in Stack
    BY <1>2, Entries
    DEF StackController, CreateStack, UpdateStack, DeleteStack, DeleteStackFails, StartStack,
        Inv, TypeOK, Coherent, CopiesAgree
  <2> QED
    BY <1>2, <2>1, CreateStackChanges, UpdateStackChanges, DeleteStackFailsChanges
    DEF StackController, Inv
<1>3. CASE CloudFormation
  BY <1>3, CloudChanges DEF Inv
<1> QED
  BY <1>1, <1>2, <1>3 DEF Next, StackWorker

(* No chain of deletions, collections and late passes takes the stack of a *)
(* living step away.                                                       *)
THEOREM CloudKept == Spec => HeldStepKeepsCloud
<1>1. Inv /\ [Next]_vars => [\A s \in Steps : KeepsCloud(s)]_vars
  <2> SUFFICES ASSUME Inv, Next, NEW s \in Steps,
                      Live(s), object[s].held, deletes = 0, Standing, Exists(cf'), ~Standing'
               PROVE  Exists(pipe) /\ (Exists(stack) => ~OwnerAlive)
    BY DEF KeepsCloud
  <2>1. DeleteStack
    BY TeardownBegins
  <2>2. Exists(seen["stack"]) /\ seen["stack"].deleting
    BY <2>1 DEF DeleteStack, StartStack, Inv, Coherent, CopiesAgree
  <2>3. Marked(stack)
    BY <2>2 DEF Inv, Coherent, MarksHarmless, Marked
  <2> QED
    BY <2>3 DEF Inv, Coherent, OwnedStays, MembersTied, Tied
<1> QED
  BY <1>1, Initially, InvStep, PTL DEF Spec, HeldStepKeepsCloud

-----------------------------------------------------------------------------
(* The object and its stack, seen in GuardedStack.                         *)

LEMMA Unseen ==
    ASSUME object'["stack"] = object["stack"], UNCHANGED cf
    PROVE  UNCHANGED Abstract!vars
  BY DEF Abstract!vars, Claim, Guarded, StackPhase, Standing, stack

LEMMA SeenDelete ==
    ASSUME Inv, StackDeleted
    PROVE  Abstract!Abandon
<1>1. stack \in Stack /\ Exists(stack) /\ ~stack.deleting
  BY Entries DEF Inv, TypeOK, StackDeleted, stack
<1>2. PICK o : o = Deleted(stack, Held("stack", stack))
  OBVIOUS
<1>3. /\ o = NoObject \/ (o \in Stack /\ o.deleting /\ o.guarded = stack.guarded)
      /\ o = NoObject => ~stack.guarded
  BY <1>1, <1>2, DeletedStack
<1>4. Stored("stack", o)
  BY <1>2 DEF StackDeleted
<1>5. stack' = o /\ UNCHANGED cf
  BY <1>3, <1>4, PutChanges, Names DEF Inv, Stored, stack
<1>6. Claim = "wanted" /\ Claim' \in {"none", "deleting"} /\ (Guarded => Claim' = "deleting")
  BY <1>1, <1>3, <1>5 DEF Claim, Guarded, Exists
<1>7. Guarded' = Guarded
  BY <1>1, <1>3, <1>5, Real DEF Guarded, Exists
<1>8. StackPhase' = StackPhase
  BY <1>5 DEF StackPhase, Standing
<1> QED
  BY <1>6, <1>7, <1>8 DEF Abstract!Abandon

LEMMA SeenProvide ==
    ASSUME Inv, Provide
    PROVE  Abstract!Claim \/ UNCHANGED Abstract!vars
<1>1. seen["pipeline"] \in Pipeline /\ (Exists(stack) => stack \in Stack)
  BY Entries DEF Inv, TypeOK, Coherent, CopiesAgree, Provide, stack
<1>2. PICK o : /\ Put("stack", o) /\ o \in Stack
               /\ Exists(stack) => o.deleting = stack.deleting /\ o.guarded = stack.guarded
               /\ ~Exists(stack) => ~o.deleting /\ ~o.guarded
  BY <1>1, NewStack, NewTemplate DEF Provide
<1>3. stack' = o /\ Exists(o) /\ UNCHANGED cf
  BY <1>2, PutChanges, Names, Real DEF Inv, Provide, stack
<1>4. StackPhase' = StackPhase /\ Guarded' = Guarded
  BY <1>2, <1>3 DEF StackPhase, Standing, Guarded
<1>5. CASE Exists(stack)
  BY <1>2, <1>3, <1>4, <1>5 DEF Claim, Abstract!vars
<1>6. CASE ~Exists(stack)
  BY <1>2, <1>3, <1>4, <1>6 DEF Claim, Abstract!Claim
<1> QED
  BY <1>5, <1>6

LEMMA SeenController ==
    ASSUME Inv, StackController
    PROVE  Abstract!Build \/ Abstract!TearDown \/ UNCHANGED Abstract!vars
<1>1. stack' = stack /\ Claim' = Claim /\ Guarded' = Guarded
  BY DEF StackController, CreateStack, UpdateStack, DeleteStack, DeleteStackFails, StartStack,
         Claim, Guarded, stack
<1>2. seen["stack"] \in Stack /\ Exists(seen["stack"]) /\ TypeOK
  BY Entries
  DEF StackController, CreateStack, UpdateStack, DeleteStack, DeleteStackFails, StartStack,
      Inv, TypeOK, Coherent, CopiesAgree
<1>3. CASE CreateStack
  <2>1. StackPhase = "none" /\ StackPhase' = "standing"
    BY <1>2, <1>3, CreateStackChanges DEF StackPhase
  <2> QED
    BY <1>1, <2>1 DEF Abstract!Build
<1>4. CASE UpdateStack \/ DeleteStackFails
  <2>1. StackPhase' = StackPhase
    BY <1>2, <1>4, UpdateStackChanges, DeleteStackFailsChanges DEF StackPhase
  <2> QED
    BY <1>1, <2>1 DEF Abstract!vars
<1>5. CASE DeleteStack
  <2>1. (Exists(cf') <=> Exists(cf)) /\ ~Standing'
    BY <1>2, <1>5, DeleteStackChanges
  <2>2. CASE ~Standing
    BY <1>1, <2>1, <2>2 DEF Abstract!vars, StackPhase
  <2>3. CASE Standing
    <3>1. Marked(seen["stack"])
      BY <1>2, <1>5 DEF DeleteStack, Marked
    <3>2. Claim = "deleting"
      BY <2>3, <3>1 DEF Inv, Coherent, MarksHarmless, Marked, Claim
    <3>3. StackPhase = "standing" /\ StackPhase' = "going"
      BY <2>1, <2>3 DEF StackPhase, Standing
    <3> QED
      BY <1>1, <3>2, <3>3 DEF Abstract!TearDown
  <2> QED
    BY <2>2, <2>3
<1> QED
  BY <1>3, <1>4, <1>5 DEF StackController

LEMMA SeenCloud ==
    ASSUME Inv, CloudFormation
    PROVE  Abstract!Vanish \/ UNCHANGED Abstract!vars
<1>1. Exists(cf) /\ Standing' = Standing /\ UNCHANGED object
  BY CloudChanges DEF Inv
<1>2. Claim' = Claim /\ Guarded' = Guarded
  BY <1>1 DEF Claim, Guarded, stack
<1>3. CASE Exists(cf')
  BY <1>1, <1>2, <1>3 DEF Abstract!vars, StackPhase
<1>4. CASE ~Exists(cf')
  <2>1. StackPhase = "going" /\ StackPhase' = "none"
    BY <1>1, <1>4 DEF StackPhase, Standing
  <2> QED
    BY <1>2, <2>1 DEF Abstract!Vanish
<1> QED
  BY <1>3, <1>4

LEMMA SeenWrite ==
    ASSUME Inv, Write("stack")
    PROVE  Abstract!Guard \/ Abstract!Release \/ UNCHANGED Abstract!vars
<1> DEFINE o == pending["stack"]
<1>1. o \in Stack /\ stack \in Stack /\ Exists(stack) /\ Exists(o)
  BY WritesCopy, Entries DEF Inv, TypeOK, stack
<1>2. o.deleting = stack.deleting
  <2>1. o = [stack EXCEPT !.guarded = o.guarded, !.buckets = o.buckets]
    BY DEF Write, Inv, Coherent, CopiesAgree, stack
  <2> QED
    BY <1>1, <2>1 DEF Stack
<1>3. o.guarded = Standing /\ o.deleting = ~Standing
  BY <1>1 DEF Inv, Coherent, MarksHarmless
<1>4. stack' = IF o.deleting /\ ~Held("stack", o) THEN NoObject ELSE o
  <2>1. Put("stack", IF o.deleting /\ ~Held("stack", o) THEN NoObject ELSE o)
    BY DEF Write
  <2>2. object \in Tables
    BY DEF Inv, TypeOK
  <2> QED
    BY <2>1, <2>2, Names DEF Put, Tables, stack
<1>5. StackPhase' = StackPhase
  BY WritesCopy DEF StackPhase, Standing
<1> HIDE DEF o
<1>6. CASE Standing
  <2>1. stack' = o /\ o.guarded /\ ~o.deleting
    BY <1>3, <1>4, <1>6
  <2>2. Claim = "wanted" /\ Claim' = "wanted" /\ Guarded'
    BY <1>1, <1>2, <2>1 DEF Claim, Guarded
  <2>3. StackPhase = "standing"
    BY <1>6 DEF StackPhase, Standing
  <2> QED
    BY <1>5, <2>2, <2>3 DEF Abstract!Guard
<1>7. CASE ~Standing
  <2>1. stack' \in {NoObject, o} /\ stack.deleting /\ o.deleting /\ ~o.guarded
    BY <1>2, <1>3, <1>4, <1>7
  <2>2. Claim = "deleting" /\ Claim' \in {"deleting", "none"} /\ Guarded' = FALSE
    BY <1>1, <2>1 DEF Claim, Guarded, Exists
  <2>3. StackPhase \in {"none", "going"}
    BY <1>7 DEF StackPhase
  <2> QED
    BY <1>5, <2>2, <2>3 DEF Abstract!Release
<1> QED
  BY <1>6, <1>7

LEMMA SeenStep == Inv /\ [Next]_vars => [Abstract!Next]_(Abstract!vars)
<1> SUFFICES ASSUME Inv, [Next]_vars PROVE [Abstract!Next]_(Abstract!vars)
  OBVIOUS
<1>1. object \in Tables
  BY DEF Inv, TypeOK
<1>2. CASE (object'["stack"] = object["stack"] /\ UNCHANGED cf)
  BY <1>2, Unseen
<1>3. CASE \/ UNCHANGED vars
           \/ \E s \in Steps : CreateStep(s) \/ DeleteStep(s)
           \/ CreatePipeline \/ DeletePipeline
  <2>1. ASSUME NEW n \in Objects \ {"stack"}, NEW o, Stored(n, o)
        PROVE  object'["stack"] = object["stack"] /\ UNCHANGED cf
    BY <1>1, <2>1, Names DEF Stored, Put, Tables
  <2> QED
    BY <1>2, <1>3, <2>1, Names
    DEF vars, server, CreateStep, DeleteStep, CreatePipeline, DeletePipeline
<1>4. CASE \/ Crash
           \/ \E n \in Objects : Sync(n)
           \/ \E s \in Steps : StepWorker(s)
           \/ WriteFails("stack")
  <2>1. ASSUME NEW n \in Objects \ {"stack"}, NEW o, Put(n, o)
        PROVE  object'["stack"] = object["stack"]
    BY <1>1, <2>1, Names DEF Put, Tables
  <2>2. UNCHANGED cf
    BY <1>4 DEF Crash, Sync, StepWorker, Join, Part, StartStep, Serve, Write, WriteFails
  <2>3. object'["stack"] = object["stack"]
    BY <1>4, <2>1, Names DEF Crash, Sync, StepWorker, Join, Part, Serve, Write, WriteFails
  <2> QED
    BY <1>2, <2>2, <2>3
<1>5. CASE DeleteStackObject \/ CollectGarbage
  BY <1>5, SeenDelete DEF DeleteStackObject, CollectGarbage, Abstract!Next
<1>6. CASE Provide \/ StackController \/ CloudFormation \/ Write("stack")
  BY <1>6, SeenProvide, SeenController, SeenCloud, SeenWrite DEF Abstract!Next
<1> QED
  BY <1>3, <1>4, <1>5, <1>6 DEF Next, Users, StackWorker, Serve

(* The end of the chain implements GuardedStack: the guard is set for a    *)
(* stack that has been created, and dropped after its teardown was asked   *)
(* for; a stack somebody wants is left alone.                              *)
THEOREM ChainImplementsGuardedStack == Spec => ChainKeepsGuard
<1>1. Init => Abstract!Init
  BY Names DEF Init, Abstract!Init, Claim, Guarded, StackPhase, Exists, stack
<1> QED
  BY <1>1, Initially, InvStep, SeenStep, PTL DEF Spec, ChainKeepsGuard, Abstract!Spec

-----------------------------------------------------------------------------
(* A pass parts a step that is being deleted from its pipeline before it   *)
(* lets it go, and takes up one that is not.                               *)

PartedFirst ==
    \A s \in Steps :
       Exists(pending[s]) => /\ pending[s].held = ~pending[s].deleting
                             /\ pending[s].deleting => ~Tied(s)

LEMMA PartedKept ==
    ASSUME PartedFirst,
           \A s \in Steps : pending'[s] = pending[s] \/ pending'[s] = NoObject,
           \A s \in Steps : Tied(s)' => Tied(s) \/ ~Exists(pending[s])
    PROVE  PartedFirst'
  BY DEF PartedFirst, Exists

(* What a pass that begins for a step does to the objects. *)
LEMMA JoinChanges ==
    ASSUME Inv, NEW s \in Steps, Join(s)
    PROVE  /\ Exists(pipe) /\ Exists(pipe') /\ pipe \in Pipeline /\ pipe' \in Pipeline
           /\ pipe'.finalizers = pipe.finalizers \cup {s}
           /\ pipe'.deleting = pipe.deleting
           /\ \A t \in Steps : object'[t] = object[t]
           /\ Exists(pending'[s]) /\ pending'[s].held /\ pending'[s].held \in BOOLEAN
           /\ ~pending'[s].deleting
           /\ \A t \in Steps : ~Exists(pending[t]) /\ (t # s => pending'[t] = pending[t])
<1>1. /\ seen[s] \in Step /\ pipe \in Pipeline /\ Exists(pipe) /\ ~seen[s].deleting
      /\ pending \in Tables
  BY Entries DEF Inv, Coherent, TypeOK, Join, StartStep, CopiesAgree, pipe
<1> DEFINE copy == [seen[s] EXCEPT !.held = TRUE]
           p == WithMember(pipe, s)
<1>2. copy \in Step /\ copy.held = TRUE /\ copy.deleting = seen[s].deleting /\ Exists(copy)
  BY <1>1, StepRecord, Real
<1>3. p \in Pipeline /\ p.finalizers = pipe.finalizers \cup {s} /\ Exists(p)
  BY <1>1, PipelineRecord, Real
<1>4. p.deleting = pipe.deleting
  BY <1>1 DEF WithMember, Pipeline
<1>5. Put("pipeline", p) /\ Begin(s, copy) /\ \A t \in Steps : ~Exists(pending[t])
  BY DEF Join, StartStep
<1> HIDE DEF copy, p
<1>6. object'["pipeline"] = p /\ \A m \in Objects \ {"pipeline"} : object'[m] = object[m]
  BY <1>3, <1>5, Names, PutChanges DEF Inv
<1>7. pending'[s] = copy /\ \A t \in Steps : t # s => pending'[t] = pending[t]
  BY <1>1, <1>5, Names DEF Begin, Tables
<1> QED
  BY <1>1, <1>2, <1>3, <1>4, <1>5, <1>6, <1>7, Names DEF pipe

LEMMA PartChanges ==
    ASSUME Inv, NEW s \in Steps, Part(s)
    PROVE  /\ Exists(pipe) /\ pipe \in Pipeline
           /\ IF pipe.deleting /\ pipe.finalizers \ {s} = {}
              THEN pipe' = NoObject
              ELSE /\ pipe' \in Pipeline
                   /\ pipe'.finalizers = pipe.finalizers \ {s}
                   /\ pipe'.deleting = pipe.deleting
           /\ \A t \in Steps : object'[t] = object[t]
           /\ Exists(pending'[s]) /\ pending'[s].held = FALSE /\ pending'[s].deleting
           /\ pending'[s].deleting \in BOOLEAN
           /\ Marked(seen[s])
           /\ \A t \in Steps : ~Exists(pending[t]) /\ (t # s => pending'[t] = pending[t])
<1>1. /\ seen[s] \in Step /\ Exists(seen[s]) /\ pipe \in Pipeline /\ Exists(pipe)
      /\ seen[s].deleting /\ pending \in Tables
  BY Entries DEF Inv, Coherent, TypeOK, Part, StartStep, CopiesAgree, pipe
<1> DEFINE copy == [seen[s] EXCEPT !.held = FALSE]
           w == WithoutMember(pipe, s)
           p == IF w.deleting /\ w.finalizers = {} THEN NoObject ELSE w
<1>2. copy \in Step /\ copy.held = FALSE /\ copy.deleting = seen[s].deleting /\ Exists(copy)
  BY <1>1, StepRecord, Real
<1>3. w \in Pipeline /\ w.finalizers = pipe.finalizers \ {s}
  BY <1>1, PipelineRecord
<1>4. w.deleting = pipe.deleting
  BY <1>1 DEF WithoutMember, Pipeline
<1>5. Put("pipeline", p) /\ Begin(s, copy) /\ \A t \in Steps : ~Exists(pending[t])
  BY DEF Part, StartStep
<1>6. p = NoObject \/ p \in Pipeline
  BY <1>3
<1>7. IF pipe.deleting /\ pipe.finalizers \ {s} = {} THEN p = NoObject ELSE p = w
  BY <1>3, <1>4
<1> HIDE DEF copy, p, w
<1>8. object'["pipeline"] = p /\ \A m \in Objects \ {"pipeline"} : object'[m] = object[m]
  BY <1>5, <1>6, Names, PutChanges DEF Inv
<1>9. pending'[s] = copy /\ \A t \in Steps : t # s => pending'[t] = pending[t]
  BY <1>1, <1>5, Names DEF Begin, Tables
<1>10. copy.deleting \in BOOLEAN
  BY <1>2 DEF Step
<1> QED
  BY <1>1, <1>2, <1>3, <1>4, <1>5, <1>7, <1>8, <1>9, <1>10, Names DEF pipe, Marked

(* What a user's write of the pipeline does to it. *)
LEMMA CreateChanges ==
    ASSUME Inv, CreatePipeline
    PROVE  /\ ~Exists(pipe) /\ Exists(pipe')
           /\ pipe'.finalizers = {} /\ ~pipe'.deleting
           /\ \A s \in Steps : object'[s] = object[s]
           /\ pending' = pending
<1>1. PICK u \in Uids :
         Stored("pipeline", [uid |-> u, builds |-> {}, deleting |-> FALSE, finalizers |-> {}])
  BY DEF CreatePipeline
<1> DEFINE o == [uid |-> u, builds |-> {}, deleting |-> FALSE, finalizers |-> {}]
<1>2. o \in Pipeline /\ o.finalizers = {} /\ ~o.deleting /\ Stored("pipeline", o)
  BY <1>1 DEF Pipeline
<1> HIDE DEF o
<1>3. object'["pipeline"] = o /\ \A m \in Objects \ {"pipeline"} : object'[m] = object[m]
  BY <1>2, Names, PutChanges DEF Inv, Stored
<1> QED
  BY <1>2, <1>3, Names, Real DEF CreatePipeline, Stored, pipe

LEMMA DeleteChanges ==
    ASSUME Inv, DeletePipeline
    PROVE  /\ Exists(pipe) /\ ~pipe.deleting
           /\ IF pipe.finalizers = {} THEN pipe' = NoObject
              ELSE Exists(pipe') /\ pipe'.finalizers = pipe.finalizers /\ pipe'.deleting
           /\ \A s \in Steps : object'[s] = object[s]
           /\ pending' = pending
<1>1. pipe \in Pipeline /\ Exists(pipe) /\ ~pipe.deleting
  BY Entries DEF Inv, TypeOK, DeletePipeline, pipe
<1> DEFINE m == [pipe EXCEPT !.deleting = TRUE]
           o == Deleted(pipe, pipe.finalizers # {})
<1>2. m \in Pipeline /\ m.finalizers = pipe.finalizers
  BY <1>1 DEF Pipeline
<1>3. m.deleting
  BY <1>1 DEF Pipeline
<1>4. o = IF pipe.finalizers = {} THEN NoObject ELSE m
  BY DEF Deleted
<1>5. Stored("pipeline", o)
  BY DEF DeletePipeline
<1> HIDE DEF m, o
<1>6. o = NoObject \/ o \in ObjectOf("pipeline")
  BY <1>2, <1>4, Names
<1>7. object'["pipeline"] = o /\ \A n \in Objects \ {"pipeline"} : object'[n] = object[n]
  BY <1>5, <1>6, Names, PutChanges DEF Inv, Stored
<1> QED
  BY <1>1, <1>2, <1>3, <1>4, <1>5, <1>7, Names, Real DEF Stored, pipe

LEMMA PartedStep == Inv /\ PartedFirst /\ [Next]_vars => PartedFirst'
<1> SUFFICES ASSUME Inv, PartedFirst, [Next]_vars PROVE PartedFirst'
  OBVIOUS
<1>1. object \in Tables /\ pending \in Tables
  BY DEF Inv, TypeOK
<1>2. ASSUME NEW s \in Steps, Join(s) PROVE PartedFirst'
  BY <1>2, JoinChanges DEF PartedFirst, Exists
<1>3. ASSUME NEW s \in Steps, Part(s) PROVE PartedFirst'
  <2>1. ~Tied(s)'
    BY <1>3, PartChanges DEF Tied, Exists
  <2> QED
    BY <1>3, <2>1, PartChanges DEF PartedFirst, Exists
<1>4. CASE CreatePipeline \/ DeletePipeline
  <2>1. \A s \in Steps : Tied(s)' => Tied(s)
    BY <1>4, CreateChanges, DeleteChanges DEF Tied, Exists
  <2> QED
    BY <1>4, <2>1, PartedKept, CreateChanges, DeleteChanges
<1>5. ASSUME object'["pipeline"] = object["pipeline"],
             \A s \in Steps : pending'[s] = pending[s] \/ pending'[s] = NoObject
      PROVE  PartedFirst'
  BY <1>5, PartedKept DEF Tied, pipe
<1>6. CASE \/ UNCHANGED vars \/ Crash \/ CollectGarbage \/ DeleteStackObject
           \/ \E s \in Steps : CreateStep(s) \/ DeleteStep(s)
           \/ \E n \in Objects : Sync(n)
           \/ \E n \in Steps \cup {"stack"} : Serve(n)
           \/ Provide \/ StackController \/ CloudFormation
  <2>1. ASSUME NEW n \in Objects \ {"pipeline"}, NEW o, Put(n, o)
        PROVE  object'["pipeline"] = object["pipeline"]
    BY <1>1, <2>1, Names DEF Put, Tables
  <2>2. object'["pipeline"] = object["pipeline"]
    BY <1>6, <2>1, Names
    DEF vars, server, Crash, CollectGarbage, DeleteStackObject, StackDeleted, CreateStep,
        DeleteStep, Stored, Sync, Serve, Write, WriteFails, Provide, StackController,
        CreateStack, UpdateStack, DeleteStack, DeleteStackFails, StartStack, CloudFormation, CloudMakesBucket,
        CloudFinishes, CloudDeletes
  <2>3. \A s \in Steps : pending'[s] = pending[s] \/ pending'[s] = NoObject
    BY <1>1, <1>6, Names
    DEF vars, Crash, CollectGarbage, DeleteStackObject, StackDeleted, CreateStep,
        DeleteStep, Stored, Sync, Serve, Write, WriteFails, Provide, StackController,
        CreateStack, UpdateStack, DeleteStack, DeleteStackFails, StartStack, CloudFormation, CloudMakesBucket,
        CloudFinishes, CloudDeletes, Begin, Tables
  <2> QED
    BY <1>5, <2>2, <2>3
<1> QED
  BY <1>2, <1>3, <1>4, <1>6 DEF Next, Users, StepWorker, StackWorker

-----------------------------------------------------------------------------
(* The steps and the pipeline, seen in Membership.                         *)

StateView  == [s \in Steps |-> StateOf(object[s])]
TargetView == [s \in Steps |-> Named(s)]
HomeView   == [s \in Steps |-> Home(s)]
PipeView   == [p \in {"pipeline"} |-> StateOf(pipe)]
MemberView == [p \in {"pipeline"} |-> IF Exists(pipe) THEN pipe.finalizers ELSE {}]

LEMMA StepsUnseen ==
    ASSUME \A s \in Steps : object'[s] = object[s]
    PROVE  UNCHANGED <<StateView, TargetView, HomeView>>
  BY DEF StateView, TargetView, HomeView, StateOf, Named, Home, Exists

LEMMA PipelineUnseen ==
    ASSUME object'["pipeline"] = object["pipeline"]
    PROVE  UNCHANGED <<PipeView, MemberView>>
  BY DEF PipeView, MemberView, StateOf, Exists, pipe

LEMMA TiesUnseen ==
    ASSUME \A s \in Steps : object'[s] = object[s], object'["pipeline"] = object["pipeline"]
    PROVE  UNCHANGED Ties!vars
  BY StepsUnseen, PipelineUnseen
  DEF Ties!vars, Ties!steps, Ties!pipelines, StateView, TargetView, HomeView, PipeView,
      MemberView

(* A write of one step. *)
LEMMA StepSeen ==
    ASSUME NEW s \in Steps, \A m \in Objects \ {s} : object'[m] = object[m]
    PROVE  /\ StateView' = [StateView EXCEPT ![s] = StateOf(object'[s])]
           /\ TargetView' = [TargetView EXCEPT ![s] = Named(s)']
           /\ HomeView' = [HomeView EXCEPT ![s] = Home(s)']
           /\ Named(s)' = Named(s) => TargetView' = TargetView
           /\ Home(s)' = Home(s) => HomeView' = HomeView
           /\ StateOf(object'[s]) = StateOf(object[s]) => StateView' = StateView
           /\ UNCHANGED <<PipeView, MemberView>>
<1>1. \A t \in Steps \ {s} : object'[t] = object[t]
  BY Names
<1>2. UNCHANGED <<PipeView, MemberView>>
  BY Names, PipelineUnseen
<1>3. \A t \in Steps \ {s} : Named(t)' = Named(t) /\ Home(t)' = Home(t)
  BY <1>1 DEF Named, Home, Exists
<1>4. StateView' = [t \in Steps |-> StateOf(object'[t])]
  BY DEF StateView
<1>5. /\ TargetView' = [t \in Steps |-> Named(t)']
      /\ HomeView' = [t \in Steps |-> Home(t)']
  BY DEF TargetView, HomeView
<1>6. /\ StateView' = [StateView EXCEPT ![s] = StateOf(object'[s])]
      /\ StateOf(object'[s]) = StateOf(object[s]) => StateView' = StateView
  BY <1>1, <1>4 DEF StateView
<1>7. /\ TargetView' = [TargetView EXCEPT ![s] = Named(s)']
      /\ Named(s)' = Named(s) => TargetView' = TargetView
  BY <1>3, <1>5 DEF TargetView
<1>8. /\ HomeView' = [HomeView EXCEPT ![s] = Home(s)']
      /\ Home(s)' = Home(s) => HomeView' = HomeView
  BY <1>3, <1>5 DEF HomeView
<1> QED
  BY <1>2, <1>6, <1>7, <1>8

LEMMA TiesCreate ==
    ASSUME Inv, NEW s \in Steps, CreateStep(s)
    PROVE  Ties!Create(s, "pipeline")
<1> DEFINE o == [deleting |-> FALSE, held |-> FALSE]
<1>1. o \in Step /\ ~o.held /\ ~o.deleting /\ Stored(s, o)
  BY DEF Step, CreateStep
<1> HIDE DEF o
<1>2. object'[s] = o /\ \A m \in Objects \ {s} : object'[m] = object[m]
  BY <1>1, Names, PutChanges DEF Inv, Stored
<1>3. StateOf(object'[s]) = "live" /\ Named(s)' = "pipeline" /\ Home(s)' = "nobody"
  BY <1>1, <1>2, Real DEF StateOf, Named, Home, Exists
<1>4. StateView[s] = "none" /\ Home(s) = "nobody"
  BY DEF CreateStep, StateView, StateOf, Home
<1>5. /\ StateView' = [StateView EXCEPT ![s] = "live"]
      /\ TargetView' = [TargetView EXCEPT ![s] = "pipeline"]
      /\ UNCHANGED <<HomeView, PipeView, MemberView>>
  BY <1>2, <1>3, <1>4, StepSeen
<1> QED
  BY <1>4, <1>5
  DEF Ties!Create, Ties!pipelines, StateView, TargetView, HomeView, PipeView, MemberView

(* A step that goes leaves nothing behind. *)
LEMMA TiesGone ==
    ASSUME NEW s \in Steps, \A m \in Objects \ {s} : object'[m] = object[m],
           object'[s] = NoObject
    PROVE  Ties!Gone(s) /\ UNCHANGED Ties!pipelines
<1>1. StateOf(object'[s]) = "none" /\ Named(s)' = "nobody" /\ Home(s)' = "nobody"
  BY DEF StateOf, Named, Home, Exists
<1>2. /\ StateView' = [StateView EXCEPT ![s] = "none"]
      /\ TargetView' = [TargetView EXCEPT ![s] = "nobody"]
      /\ HomeView' = [HomeView EXCEPT ![s] = "nobody"]
      /\ UNCHANGED <<PipeView, MemberView>>
  BY <1>1, StepSeen
<1> QED
  BY <1>2
  DEF Ties!Gone, Ties!pipelines, StateView, TargetView, HomeView, PipeView, MemberView

LEMMA TiesDelete ==
    ASSUME Inv, NEW s \in Steps, DeleteStep(s)
    PROVE  Ties!Delete(s)
<1>1. object[s] \in Step /\ Exists(object[s]) /\ ~object[s].deleting
  BY Entries DEF Inv, TypeOK, DeleteStep
<1> DEFINE m == [object[s] EXCEPT !.deleting = TRUE]
           o == Deleted(object[s], object[s].held)
<1>2. m \in Step /\ m.deleting /\ m.held = object[s].held
  BY <1>1 DEF Step
<1>3. o = IF object[s].held THEN m ELSE NoObject
  BY DEF Deleted
<1>4. Stored(s, o)
  BY DEF DeleteStep
<1> HIDE DEF m, o
<1>5. object'[s] = o /\ \A n \in Objects \ {s} : object'[n] = object[n]
  BY <1>2, <1>3, <1>4, Names, PutChanges DEF Inv, Stored
<1>6. StateView[s] = "live" /\ HomeView[s] = Home(s)
  BY <1>1 DEF StateView, HomeView, StateOf
<1>7. CASE object[s].held
  <2>1. StateOf(object'[s]) = "deleting" /\ Named(s)' = Named(s) /\ Home(s)' = Home(s)
        /\ Home(s) = "pipeline"
    BY <1>1, <1>2, <1>3, <1>5, <1>7, Real DEF StateOf, Named, Home, Exists
  <2>2. /\ StateView' = [StateView EXCEPT ![s] = "deleting"]
        /\ UNCHANGED <<TargetView, HomeView, PipeView, MemberView>>
    BY <1>5, <2>1, StepSeen
  <2> QED
    BY <1>6, <2>1, <2>2
    DEF Ties!Delete, Ties!pipelines, StateView, TargetView, HomeView, PipeView, MemberView
<1>8. CASE ~object[s].held
  <2>1. Ties!Gone(s) /\ UNCHANGED Ties!pipelines
    BY <1>3, <1>5, <1>8, TiesGone
  <2>2. Home(s) = "nobody"
    BY <1>8 DEF Home
  <2> QED
    BY <1>6, <2>1, <2>2 DEF Ties!Delete, StateView, HomeView
<1> QED
  BY <1>7, <1>8

(* The write at the end of a step's pass. *)
LEMMA TiesWrite ==
    ASSUME Inv, PartedFirst, NEW s \in Steps, Write(s)
    PROVE  Ties!Settle(s) \/ Ties!Release(s)
<1> DEFINE o == pending[s]
<1>1. /\ object[s] \in Step /\ Exists(object[s])
      /\ o \in Step /\ Exists(o)
      /\ \A m \in Objects \ {s} : object'[m] = object[m]
  BY WritesCopy, Entries DEF Inv, TypeOK
<1>2. o.deleting = object[s].deleting
  <2>1. o = [object[s] EXCEPT !.held = o.held]
    BY Names DEF Write, Inv, Coherent, CopiesAgree
  <2> QED
    BY <1>1, <2>1 DEF Step
<1>3. o.held = ~o.deleting /\ (o.deleting => ~Tied(s)) /\ (~o.deleting => Tied(s))
  BY <1>1, Names DEF PartedFirst, Write, Inv, Coherent, MembersTied, Marked
<1>4. object'[s] = IF o.deleting THEN NoObject ELSE o
  <2>1. Put(s, IF o.deleting /\ ~o.held THEN NoObject ELSE o)
    BY Names DEF Write, Held
  <2>2. object \in Tables
    BY DEF Inv, TypeOK
  <2> QED
    BY <1>3, <2>1, <2>2, Names DEF Put, Tables
<1> HIDE DEF o
<1>5. /\ StateView[s] = IF o.deleting THEN "deleting" ELSE "live"
      /\ TargetView[s] = "pipeline" /\ HomeView[s] \in {"nobody", "pipeline"}
      /\ s \in MemberView["pipeline"] <=> Tied(s)
  BY <1>1, <1>2 DEF StateView, TargetView, HomeView, MemberView, StateOf, Named, Home, Tied
<1>6. CASE o.deleting
  <2>1. Ties!Gone(s) /\ UNCHANGED Ties!pipelines
    BY <1>1, <1>4, <1>6, TiesGone
  <2>2. Ties!Release(s)
    BY <1>3, <1>5, <1>6, <2>1 DEF Ties!Release, StateView, TargetView, MemberView
  <2> QED
    BY <2>2
<1>7. CASE ~o.deleting
  <2>1. /\ StateOf(object'[s]) = StateOf(object[s]) /\ Named(s)' = Named(s)
        /\ Home(s)' = "pipeline"
    BY <1>1, <1>2, <1>3, <1>4, <1>7 DEF StateOf, Named, Home, Exists
  <2>2. /\ HomeView' = [HomeView EXCEPT ![s] = "pipeline"]
        /\ UNCHANGED <<StateView, TargetView, PipeView, MemberView>>
    BY <1>1, <2>1, StepSeen
  <2>3. Ties!Settle(s)
    BY <1>3, <1>5, <1>7, <2>2
    DEF Ties!Settle, Ties!pipelines, StateView, TargetView, HomeView, PipeView, MemberView
  <2> QED
    BY <2>3
<1> QED
  BY <1>6, <1>7

(* What happens to the pipeline. *)
LEMMA TiesOffer ==
    ASSUME Inv, CreatePipeline
    PROVE  Ties!Offer("pipeline")
<1>1. UNCHANGED <<StateView, TargetView, HomeView>>
  BY CreateChanges, StepsUnseen
<1>2. /\ PipeView["pipeline"] = "none" /\ PipeView' = [PipeView EXCEPT !["pipeline"] = "live"]
      /\ MemberView' = MemberView
  BY CreateChanges DEF PipeView, MemberView, StateOf, Exists
<1> QED
  BY <1>1, <1>2
  DEF Ties!Offer, Ties!steps, StateView, TargetView, HomeView, PipeView, MemberView

LEMMA TiesWithdraw ==
    ASSUME Inv, DeletePipeline
    PROVE  Ties!Withdraw("pipeline")
<1>1. UNCHANGED <<StateView, TargetView, HomeView>>
  BY DeleteChanges, StepsUnseen
<1>2. /\ PipeView["pipeline"] = "live" /\ MemberView["pipeline"] = pipe.finalizers
      /\ PipeView' = [PipeView EXCEPT !["pipeline"] =
                        IF pipe.finalizers = {} THEN "none" ELSE "deleting"]
      /\ MemberView' = MemberView
  BY DeleteChanges DEF PipeView, MemberView, StateOf, Exists
<1> QED
  BY <1>1, <1>2
  DEF Ties!Withdraw, Ties!steps, StateView, TargetView, HomeView, PipeView, MemberView

LEMMA TiesJoin ==
    ASSUME Inv, NEW s \in Steps, Join(s)
    PROVE  Ties!Join(s, "pipeline") \/ UNCHANGED Ties!vars
<1>1. UNCHANGED <<StateView, TargetView, HomeView>>
  BY JoinChanges, StepsUnseen
<1>2. /\ PipeView' = PipeView
      /\ MemberView' = [MemberView EXCEPT !["pipeline"] = @ \cup {s}]
  BY JoinChanges DEF PipeView, MemberView, StateOf, Exists
<1>3. CASE ~pipe.deleting
  <2>1. PipeView["pipeline"] = "live"
    BY <1>3, JoinChanges DEF PipeView, StateOf
  <2> QED
    BY <1>1, <1>2, <2>1
    DEF Ties!Join, Ties!steps, StateView, TargetView, HomeView, PipeView, MemberView
<1>4. CASE pipe.deleting
  <2>1. s \in pipe.finalizers /\ MemberView["pipeline"] = pipe.finalizers
    BY <1>4, JoinChanges DEF Join, MemberView
  <2>2. MemberView' = MemberView
    BY <1>2, <2>1 DEF MemberView
  <2> QED
    BY <1>1, <1>2, <2>2
    DEF Ties!vars, Ties!steps, Ties!pipelines, StateView, TargetView, HomeView, PipeView,
        MemberView
<1> QED
  BY <1>3, <1>4

LEMMA TiesLeave ==
    ASSUME Inv, NEW s \in Steps, Part(s)
    PROVE  Ties!Leave(s, "pipeline")
<1>1. UNCHANGED <<StateView, TargetView, HomeView>>
  BY PartChanges, StepsUnseen
<1>2. ~(StateView[s] = "live" /\ HomeView[s] = "pipeline")
  BY PartChanges DEF Inv, Coherent, MembersTied, Live, StateView, HomeView, StateOf, Home
<1>3. MemberView["pipeline"] = pipe.finalizers
      /\ PipeView["pipeline"] = IF pipe.deleting THEN "deleting" ELSE "live"
  BY PartChanges DEF MemberView, PipeView, StateOf
<1>4. CASE pipe.deleting /\ pipe.finalizers \ {s} = {}
  <2>1. pipe' = NoObject
    BY <1>4, PartChanges
  <2>2. MemberView' = [MemberView EXCEPT !["pipeline"] = @ \ {s}]
        /\ MemberView'["pipeline"] = {}
    BY <1>3, <1>4, <2>1 DEF MemberView, Exists
  <2>3. PipeView' = [PipeView EXCEPT !["pipeline"] = "none"]
    BY <2>1 DEF PipeView, StateOf, Exists
  <2> QED
    BY <1>1, <1>2, <1>3, <1>4, <2>2, <2>3
    DEF Ties!Leave, Ties!steps, StateView, TargetView, HomeView, PipeView, MemberView
<1>5. CASE ~(pipe.deleting /\ pipe.finalizers \ {s} = {})
  <2>1. /\ Exists(pipe') /\ pipe'.finalizers = pipe.finalizers \ {s}
        /\ pipe'.deleting = pipe.deleting
    BY <1>5, PartChanges, Real
  <2>2. MemberView' = [MemberView EXCEPT !["pipeline"] = @ \ {s}]
        /\ MemberView'["pipeline"] = pipe.finalizers \ {s}
    BY <1>3, <2>1 DEF MemberView, Exists
  <2>3. PipeView' = PipeView
    BY <2>1, PartChanges DEF PipeView, StateOf, Exists
  <2> QED
    BY <1>1, <1>2, <1>3, <1>5, <2>2, <2>3
    DEF Ties!Leave, Ties!steps, StateView, TargetView, HomeView, PipeView, MemberView
<1> QED
  BY <1>4, <1>5

LEMMA TiesStep == Inv /\ PartedFirst /\ [Next]_vars => [Ties!Next]_(Ties!vars)
<1> SUFFICES ASSUME Inv, PartedFirst, [Next]_vars PROVE [Ties!Next]_(Ties!vars)
  OBVIOUS
<1>1. ASSUME NEW s \in Steps,
             CreateStep(s) \/ DeleteStep(s) \/ Join(s) \/ Part(s) \/ Write(s)
      PROVE  [Ties!Next]_(Ties!vars)
  BY <1>1, TiesCreate, TiesDelete, TiesJoin, TiesLeave, TiesWrite DEF Ties!Next
<1>2. CASE CreatePipeline \/ DeletePipeline
  BY <1>2, TiesOffer, TiesWithdraw DEF Ties!Next
<1>3. CASE \/ UNCHANGED vars \/ Crash \/ CollectGarbage \/ DeleteStackObject
           \/ \E n \in Objects : Sync(n)
           \/ \E n \in Steps \cup {"stack"} : WriteFails(n)
           \/ Write("stack") \/ Provide \/ StackController \/ CloudFormation
  <2>1. object \in Tables
    BY DEF Inv, TypeOK
  <2>2. ASSUME NEW o, Put("stack", o)
        PROVE  \A m \in Objects \ {"stack"} : object'[m] = object[m]
    BY <2>1, <2>2, Names DEF Put, Tables
  <2>3. \A m \in Objects \ {"stack"} : object'[m] = object[m]
    BY <1>3, <2>2
    DEF vars, server, Crash, CollectGarbage, DeleteStackObject, StackDeleted, Stored, Sync,
        Write, WriteFails, Provide, StackController, CreateStack, UpdateStack, DeleteStack,
        DeleteStackFails, StartStack, CloudFormation, CloudMakesBucket, CloudFinishes,
        CloudDeletes
  <2> QED
    BY <2>3, TiesUnseen, Names
<1> QED
  BY <1>1, <1>2, <1>3 DEF Next, Users, StepWorker, StackWorker, Serve

(* The chain's steps and pipeline implement Membership, as BuildSteps'     *)
(* do: the passes that are one step here promise the rest of the chain     *)
(* what the two writes of a pass promise.                                  *)
THEOREM ChainImplementsMembership == Spec => ChainKeepsMembership
<1>1. Init => PartedFirst
  BY Names DEF Init, PartedFirst, Exists
<1>2. Init => Ties!Init
  BY Names DEF Init, Ties!Init, StateOf, Named, Home, Exists, pipe
<1> QED
  BY <1>1, <1>2, Initially, InvStep, PartedStep, TiesStep, PTL
  DEF Spec, ChainKeepsMembership, Ties!Spec
=============================================================================
