--------------------------- MODULE OperatorProofs ---------------------------
(* For any number of operator processes, of which several may run at once: *)
(* a pass of the image resolver changes the pod that is stored, and        *)
(* nothing but its images, which it gives hosts of the operator's account. *)
EXTENDS Operator, LeaderProofs

Shapes ==
    /\ env = [q \in Processes |-> env[q]]
    /\ cache = [q \in Processes |-> cache[q]]
    /\ copy = [q \in Processes |-> copy[q]]

(* A cached copy that is the server's version shows the stored pod, and a  *)
(* copy about to be written, while it still is of that version, is the     *)
(* stored pod with its images resolved.  The environment it was resolved   *)
(* with is there before any copy.                                          *)
CopiesCurrent ==
    \A q \in Processes :
       /\ q \in synced => cache[q] = workload
       /\ q \in current => /\ Exists(workload)
                           /\ workload.labelled
                           /\ copy[q] = Fixed(env[q], workload)
                           /\ env[q] # Blank
       /\ q \in started \/ Exists(cache[q]) => env[q] # Blank

CopiesInv == Shapes /\ CopiesCurrent

LEMMA CopiesInit == OperatorInit => CopiesInv
  BY DEF OperatorInit, ImagesInit, CopiesInv, Shapes, CopiesCurrent, Exists

(* Others' writes leave no copy current. *)
LEMMA StoredOutdates ==
    ASSUME CopiesInv, synced' = {}, current' = {},
           UNCHANGED <<env, started, cache>>, copy' = [q \in Processes |-> copy'[q]]
    PROVE  CopiesInv'
  BY DEF CopiesInv, Shapes, CopiesCurrent, Exists

LEMMA ProcessSteps ==
    ASSUME CopiesInv, NEW p \in Processes,
           Populate(p) \/ StartManager(p) \/ ProcessLost(p)
    PROVE  CopiesInv'
<1> USE DEF CopiesInv, Shapes, CopiesCurrent, Exists
<1>1. CASE Populate(p)
  <2>1. env'[p] # Blank
    <3>1. PICK r : env' = [env EXCEPT ![p] = [account |-> Account, region |-> r]]
      BY <1>1 DEF Populate
    <3>2. env'[p].account = Account /\ Blank.account = NoAccount
      BY <3>1 DEF Blank
    <3> QED
      BY <3>2, ImagesAssumption
  <2>2. \A q \in Processes : q # p => env'[q] = env[q]
    BY <1>1 DEF Populate
  <2>3. Shapes'
    BY <1>1 DEF Populate
  <2>4. UNCHANGED <<workload, synced, current, started, cache, copy>> /\ env[p] = Blank
    BY <1>1 DEF Populate, server
  <2> QED
    BY <2>1, <2>2, <2>3, <2>4
<1>2. CASE StartManager(p)
  BY <1>2 DEF StartManager
<1>3. CASE ProcessLost(p)
  BY <1>3 DEF ProcessLost
<1> QED
  BY <1>1, <1>2, <1>3

LEMMA PassSteps ==
    ASSUME CopiesInv, NEW p \in Processes,
           SyncCache(p) \/ Resync(p) \/ Ignore(p) \/ Fix(p) \/ Update(p) \/ UpdateFails(p)
    PROVE  CopiesInv'
<1>1. CASE SyncCache(p)
  BY <1>1 DEF SyncCache, CopiesInv, Shapes, CopiesCurrent, Exists
<1>2. CASE Resync(p) \/ Ignore(p)
  <2>1. UNCHANGED <<workload, synced, current, env, started, cache, copy>>
    BY <1>2 DEF Resync, Ignore, Take, server
  <2> QED
    BY <2>1 DEF CopiesInv, Shapes, CopiesCurrent, Exists
<1>3. CASE Fix(p)
  <2>1. /\ UNCHANGED <<workload, synced, env, started, cache>>
        /\ Exists(cache[p]) /\ cache[p].labelled
        /\ copy' = [copy EXCEPT ![p] = Fixed(env[p], cache[p])]
        /\ ~Exists(copy[p])
        /\ current' = IF p \in synced THEN current \cup {p} ELSE current \ {p}
    BY <1>3 DEF Fix, Take, Interesting
  <2>2. copy'[p] = Fixed(env[p], cache[p])
    BY <2>1 DEF CopiesInv, Shapes
  <2> QED
    BY <2>1, <2>2 DEF CopiesInv, Shapes, CopiesCurrent, Exists
<1>4. CASE Update(p) \/ UpdateFails(p)
  <2>1. /\ UNCHANGED <<env, started, cache>>
        /\ copy' = [copy EXCEPT ![p] = NoWorkload]
    BY <1>4 DEF Update, UpdateFails, EndOfPass
  <2>2. CASE Stored(copy[p])
    <3>1. synced' = {} /\ current' = {} /\ copy' = [q \in Processes |-> copy'[q]]
      BY <2>1, <2>2 DEF Stored, CopiesInv, Shapes
    <3> QED
      BY <2>1, <3>1, StoredOutdates
  <2>3. CASE NotWritten(p)
    BY <2>1, <2>3 DEF NotWritten, CopiesInv, Shapes, CopiesCurrent, Exists
  <2> QED
    BY <1>4, <2>2, <2>3 DEF Update, UpdateFails, Written
<1> QED
  BY <1>1, <1>2, <1>3, <1>4

LEMMA CopiesStep == CopiesInv /\ [OperatorNext]_allVars => CopiesInv'
<1> SUFFICES ASSUME CopiesInv, [OperatorNext]_allVars PROVE CopiesInv'
  OBVIOUS
<1>1. ASSUME UNCHANGED imageVars PROVE CopiesInv'
  BY <1>1 DEF imageVars, server, resolver, CopiesInv, Shapes, CopiesCurrent, Exists
<1>2. ASSUME NEW p \in Pods, ProcessLost(p) PROVE CopiesInv'
  BY <1>2, ProcessSteps, PodsAssumption
<1>3. ASSUME NEW p \in Pods, Controller(p) PROVE CopiesInv'
  BY <1>3, ProcessSteps, PassSteps, PodsAssumption DEF Controller
<1>4. CASE Others
  <2>1. synced' = {} /\ current' = {} /\ UNCHANGED <<env, started, cache, copy>>
    BY <1>4 DEF Others, KubeletWrites, DeleteWorkload, UserWrites, OthersWrite,
                Stored, resolver
  <2> QED
    BY <2>1, StoredOutdates DEF CopiesInv, Shapes
<1>5. CASE UNCHANGED allVars
  BY <1>1, <1>5 DEF allVars
<1> QED
  BY <1>1, <1>2, <1>3, <1>4, <1>5 DEF OperatorNext

(* Only the end of a pass both drops a copy and changes the pod. *)
LEMMA OnlyPassWrites ==
    ASSUME CopiesInv, [OperatorNext]_allVars, NEW q \in Processes
    PROVE  ResolvesOnly(q)
<1> SUFFICES ASSUME copy[q] # copy'[q], workload' # workload
             PROVE  /\ Exists(workload) /\ workload.labelled
                    /\ workload' = Fixed(env[q], workload)
  BY DEF ResolvesOnly
<1>1. ~UNCHANGED imageVars /\ ~Others
  BY DEF imageVars, server, resolver, Others, KubeletWrites, DeleteWorkload,
         UserWrites, OthersWrite
<1>2. PICK p \in Processes : ProcessLost(p) \/ Controller(p)
  BY <1>1, PodsAssumption DEF OperatorNext, allVars
<1>3. Update(p) \/ UpdateFails(p)
  BY <1>2 DEF Controller, ProcessLost, Populate, StartManager, SyncCache, Resync,
              Ignore, Fix, Take, server
<1>4. p = q
  BY <1>3 DEF Update, UpdateFails, EndOfPass, CopiesInv, Shapes
<1>5. Accepts(q) /\ Stored(copy[q])
  BY <1>3, <1>4 DEF Update, UpdateFails, Written, NotWritten
<1> QED
  BY <1>5 DEF Accepts, Stored, CopiesInv, CopiesCurrent

(* Whatever was written since it read the pod, and by whichever process, a *)
(* pass replaces the images of the stored pod and leaves all else.         *)
THEOREM ResolverKeepsOthers == OperatorSpec => PassOnlyResolves
<1>1. CopiesInv /\ [OperatorNext]_allVars
        => [\A q \in Processes : ResolvesOnly(q)]_imageVars
  BY OnlyPassWrites
<1> QED
  BY <1>1, CopiesInit, CopiesStep, PTL DEF OperatorSpec, PassOnlyResolves

-----------------------------------------------------------------------------
(* What the images say.                                                    *)

(* A process knows all of its environment or none of it, and what is       *)
(* stored, cached or about to be written is a pod whose hosts are named.   *)
Sound(w) ==
    /\ w \in Workload
    /\ \A k \in DOMAIN w.images : \A i \in DOMAIN w.images[k] : w.images[k][i] \notin NoRegistry

AsksForAll == {Blank} \cup [account : {Account}, region : Regions]

LEMMA RegionKept ==
    /\ \A z \in Zones : RegionOf(z) \in Regions
    /\ DefaultRegion \in Regions
<1>1. ASSUME NEW z \in Zones PROVE RegionOf(z) \in Regions
  <2>1. Len(z) \in 0..Len(z)
    BY ImagesAssumption
  <2>2. RegionOf(z) \in Prefixes(z)
    BY <2>1 DEF RegionOf, Prefixes
  <2> QED
    BY <2>2 DEF Regions, Beginnings
<1>2. DefaultRegion \in Regions
  BY DEF Regions
<1> QED
  BY <1>1, <1>2

ImagesInv ==
    /\ env \in [Processes -> AsksForAll]
    /\ {started, synced, queued, current} \subseteq SUBSET Processes
    /\ Exists(workload) => Sound(workload)
    /\ \A q \in Processes : /\ Exists(cache[q]) => Sound(cache[q])
                            /\ Exists(copy[q]) => Sound(copy[q])
    /\ writes \in 0..MaxWrites
    /\ failures \in 0..MaxFailures

LEMMA SoundHosts ==
    ASSUME NEW e \in AsksForAll, e # Blank
    PROVE  e \in Environment /\ e \notin NoRegistry
<1>1. e \in [account : {Account}, region : Regions]
  BY DEF AsksForAll
<1>2. e.account = Account
  BY <1>1
<1>3. ASSUME e \in NoRegistry PROVE FALSE
  <2>1. e.account = NoAccount
    BY <1>3 DEF NoRegistry
  <2> QED
    BY <1>2, <2>1, ImagesAssumption
<1>4. e \in Environment
  BY <1>1 DEF Environment
<1> QED
  BY <1>3, <1>4

(* What a user's pod names is a user's word. *)
LEMMA UsersAreSound ==
    ASSUME NEW w \in Workloads
    PROVE  Sound(w)
<1>1. w \in Workload
  BY ImagesAssumption
<1>2. ASSUME NEW k \in DOMAIN w.images, NEW i \in DOMAIN w.images[k]
      PROVE  w.images[k][i] \in Text
  <2>1. w.images[k] \in ToSet(w.images)
    BY DEF ToSet
  <2>2. w.images[k] \in UNION {ToSet(v.images) : v \in Workloads}
    BY <2>1
  <2>3. w.images[k][i] \in ToSet(w.images[k])
    BY DEF ToSet
  <2> QED
    BY <2>2, <2>3 DEF Text
<1> QED
  BY <1>1, <1>2 DEF Sound, NoRegistry

(* Resolving puts the one host into an image and leaves its other parts.   *)
LEMMA ResolvedParts ==
    ASSUME NEW S, NEW image \in Seq(S), NEW host \in S
    PROVE  /\ Resolved(host, image) \in Seq(S)
           /\ DOMAIN Resolved(host, image) = DOMAIN image
           /\ \A i \in DOMAIN image : Resolved(host, image)[i] \in {host, image[i]}
<1> DEFINE r == Resolved(host, image)
<1>1. DOMAIN image = 1..Len(image) /\ Len(image) \in Nat
  OBVIOUS
<1>2. /\ r = [i \in 1..Len(image) |-> r[i]]
      /\ \A i \in 1..Len(image) : r[i] \in {host, image[i]}
  BY <1>1 DEF Resolved
<1>3. \A i \in 1..Len(image) : image[i] \in S
  OBVIOUS
<1> HIDE DEF r
<1>4. \A i \in 1..Len(image) : r[i] \in S
  BY <1>2, <1>3
<1>5. r \in [1..Len(image) -> S]
  BY <1>2, <1>4
<1>6. r \in Seq(S)
  BY <1>1, <1>5
<1> QED
  BY <1>1, <1>2, <1>6 DEF r

LEMMA FixedIsSound ==
    ASSUME NEW w, Sound(w), NEW host \in Environment, host \notin NoRegistry
    PROVE  Sound(Fixed(host, w))
<1> DEFINE S == Text \cup Environment
           new == [k \in DOMAIN w.images |-> Resolved(host, w.images[k])]
<1>1. w \in Workload /\ w.images \in Seq(Seq(S))
  BY DEF Sound, Workload
<1>2. \A k \in DOMAIN w.images : w.images[k] \in Seq(S)
  BY <1>1
<1>3. \A k \in DOMAIN w.images :
         /\ new[k] \in Seq(S)
         /\ DOMAIN new[k] = DOMAIN w.images[k]
         /\ \A i \in DOMAIN w.images[k] : new[k][i] \in {host, w.images[k][i]}
  <2>1. ASSUME NEW k \in DOMAIN w.images
        PROVE  LET r == Resolved(host, w.images[k])
               IN  /\ r \in Seq(S)
                   /\ DOMAIN r = DOMAIN w.images[k]
                   /\ \A i \in DOMAIN w.images[k] : r[i] \in {host, w.images[k][i]}
    <3>1. host \in S /\ w.images[k] \in Seq(S)
      BY <1>2
    <3> HIDE DEF S
    <3> QED
      BY <3>1, ResolvedParts
  <2> QED
    BY <2>1
<1>4. new \in Seq(Seq(S))
  <2>1. DOMAIN w.images = 1..Len(w.images) /\ Len(w.images) \in Nat
    BY <1>1
  <2>2. new \in [1..Len(w.images) -> Seq(S)]
    BY <1>3, <2>1
  <2> QED
    BY <2>1, <2>2
<1>5. DOMAIN new = DOMAIN w.images
  OBVIOUS
<1>6. Fixed(host, w) = [w EXCEPT !.images = new]
  BY DEF Fixed
<1>7. \A k \in DOMAIN w.images : \A i \in DOMAIN w.images[k] : w.images[k][i] \notin NoRegistry
  BY DEF Sound
<1> HIDE DEF new
<1>8. Fixed(host, w) \in Workload /\ Fixed(host, w).images = new
  BY <1>1, <1>4, <1>6 DEF Workload
<1>9. \A k \in DOMAIN new : \A i \in DOMAIN new[k] : new[k][i] \notin NoRegistry
  BY <1>3, <1>5, <1>7
<1> QED
  BY <1>8, <1>9 DEF Sound

LEMMA ImagesInitially == OperatorInit => ImagesInv
  BY ImagesAssumption DEF OperatorInit, ImagesInit, ImagesInv, AsksForAll, Exists

LEMMA ImagesProcess ==
    ASSUME ImagesInv, NEW p \in Processes,
           Populate(p) \/ StartManager(p) \/ ProcessLost(p) \/ SyncCache(p) \/ Resync(p)
    PROVE  ImagesInv'
<1> USE DEF ImagesInv
<1>1. CASE Populate(p)
  <2>1. PICK r \in Regions : env' = [env EXCEPT ![p] = [account |-> Account, region |-> r]]
    <3>1. {RegionOf(z) : z \in Zones} \cup {DefaultRegion} \subseteq Regions
      BY RegionKept
    <3> QED
      BY <1>1, <3>1 DEF Populate
  <2>2. [account |-> Account, region |-> r] \in AsksForAll
    BY DEF AsksForAll
  <2>3. env' \in [Processes -> AsksForAll]
    BY <2>1, <2>2
  <2> QED
    BY <1>1, <2>3 DEF Populate, server
<1>2. CASE StartManager(p)
  BY <1>2 DEF StartManager
<1>3. CASE ProcessLost(p)
  BY <1>3 DEF ProcessLost, Exists, AsksForAll
<1>4. CASE SyncCache(p)
  BY <1>4 DEF SyncCache
<1>5. CASE Resync(p)
  BY <1>5 DEF Resync, server
<1> QED
  BY <1>1, <1>2, <1>3, <1>4, <1>5

LEMMA ImagesPass ==
    ASSUME CopiesInv, ImagesInv, NEW p \in Processes,
           Ignore(p) \/ Fix(p) \/ Update(p) \/ UpdateFails(p)
    PROVE  ImagesInv'
<1>1. CASE Ignore(p)
  BY <1>1 DEF Ignore, Take, ImagesInv
<1>2. CASE Fix(p)
  <2>1. /\ UNCHANGED <<workload, synced, writes, env, started, cache, failures>>
        /\ Exists(cache[p])
        /\ copy' = [copy EXCEPT ![p] = Fixed(env[p], cache[p])]
        /\ queued' \subseteq Processes /\ current' \subseteq Processes
    BY <1>2 DEF Fix, Take, ImagesInv
  <2>2. env[p] \in AsksForAll /\ env[p] # Blank /\ Sound(cache[p])
    BY <2>1 DEF CopiesInv, CopiesCurrent, ImagesInv
  <2>3. Sound(Fixed(env[p], cache[p]))
    BY <2>2, SoundHosts, FixedIsSound
  <2>4. \A q \in Processes : copy'[q] = copy[q] \/ copy'[q] = Fixed(env[p], cache[p])
    BY <2>1 DEF CopiesInv, Shapes
  <2> QED
    BY <2>1, <2>3, <2>4 DEF ImagesInv, Exists
<1>3. CASE Update(p) \/ UpdateFails(p)
  <2>1. /\ UNCHANGED <<writes, env, started, cache>>
        /\ \A q \in Processes : copy'[q] = copy[q] \/ ~Exists(copy'[q])
        /\ Exists(copy[p])
    BY <1>3 DEF Update, UpdateFails, EndOfPass, CopiesInv, Shapes, Exists
  <2>2. /\ workload' \in {workload, copy[p]}
        /\ synced' \subseteq Processes /\ current' \subseteq Processes
    BY <1>3 DEF Update, UpdateFails, Written, NotWritten, Stored, ImagesInv
  <2>3. queued' \subseteq Processes /\ failures' \in 0..MaxFailures
    BY <1>3, ImagesAssumption DEF Update, UpdateFails, Failure, ImagesInv
  <2> QED
    BY <2>1, <2>2, <2>3 DEF ImagesInv, Exists
<1> QED
  BY <1>1, <1>2, <1>3

LEMMA ImagesOthers == ImagesInv /\ Others => ImagesInv'
<1> SUFFICES ASSUME ImagesInv, NEW v, OthersWrite(v), Exists(v) => Sound(v)
             PROVE  ImagesInv'
  <2>1. ASSUME ImagesInv, KubeletWrites
        PROVE  Sound([workload EXCEPT !.status = ~@])
    <3>1. Sound(workload)
      BY <2>1 DEF KubeletWrites, ImagesInv
    <3> QED
      BY <3>1 DEF Sound, Workload
  <2> QED
    BY <2>1, UsersAreSound DEF Others, KubeletWrites, DeleteWorkload, UserWrites, Exists
<1>1. writes' \in 0..MaxWrites
  BY ImagesAssumption DEF OthersWrite, ImagesInv
<1> QED
  BY <1>1 DEF OthersWrite, Stored, resolver, ImagesInv

LEMMA ImagesStep == CopiesInv /\ ImagesInv /\ [OperatorNext]_allVars => ImagesInv'
<1> SUFFICES ASSUME CopiesInv, ImagesInv, [OperatorNext]_allVars PROVE ImagesInv'
  OBVIOUS
<1>1. ASSUME UNCHANGED imageVars PROVE ImagesInv'
  BY <1>1 DEF imageVars, server, resolver, ImagesInv
<1>2. ASSUME NEW p \in Processes, ProcessLost(p) \/ Controller(p) PROVE ImagesInv'
  BY <1>2, ImagesProcess, ImagesPass DEF Controller
<1> QED
  BY <1>1, <1>2, ImagesOthers, PodsAssumption DEF OperatorNext, allVars

LEMMA ImagesAlways == OperatorSpec => [](CopiesInv /\ ImagesInv)
  BY CopiesInit, CopiesStep, ImagesInitially, ImagesStep, PTL DEF OperatorSpec

(* Whatever the processes read, resolve and write, and however often they  *)
(* start again, a pod stays a pod and an environment an environment.       *)
THEOREM ImagesTypeCorrect == OperatorSpec => []ImagesTypeOK
<1>1. ImagesInv => ImagesTypeOK
  <2>1. AsksForAll \subseteq Environment
    BY RegionKept DEF AsksForAll, Environment, Blank
  <2> QED
    BY <2>1 DEF ImagesInv, ImagesTypeOK, Sound, Exists
<1> QED
  BY <1>1, ImagesAlways, PTL

(* No process resolves an image before it knows the account, although the  *)
(* controllers are set up before main asks for it: no image that is stored *)
(* names a registry of no account, unless users wrote that themselves.     *)
THEOREM HostsNamed == OperatorSpec => []HostsAreNamed
<1>1. ImagesInv => HostsAreNamed
  BY DEF ImagesInv, Sound, HostsAreNamed, ToSet
<1> QED
  BY <1>1, ImagesAlways, PTL

-----------------------------------------------------------------------------
(* What the lock promises holds in the whole operator: the controllers run *)
(* without it only where a request of leader.Become failed.                *)
THEOREM OperatorKeepsLock == OperatorSpec => [](TypeOK /\ OnlyFaultsPass)
<1>1. OperatorInit => Init
  BY DEF OperatorInit
<1>2. [OperatorNext]_allVars => [Next]_vars
  BY DEF OperatorNext, Next, allVars
<1>3. OperatorSpec => Spec
  BY <1>1, <1>2, PTL DEF OperatorSpec, Spec
<1> QED
  BY <1>3, TypeCorrect, NoOthersPass, PTL
=============================================================================
