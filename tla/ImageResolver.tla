--------------------------- MODULE ImageResolver ---------------------------
(***************************************************************************)
(* The PolarisPodImageResolver controller and the AWS environment that it  *)
(* reads: a pass replaces the polaris:// scheme of a pod's images by the   *)
(* host of the container registry of the operator's account and region.    *)
(* Every operator process has its own environment, cache, queue and        *)
(* worker.  One pod is modelled, which users and the kubelet write to as   *)
(* well.                                                                   *)
(***************************************************************************)
EXTENDS Naturals, SequencesExt

CONSTANTS
    Processes,    \* processes of the operator
    Workloads,    \* values that users give the pod
    Scheme,       \* the text polaris:// in an image
    Account,      \* the AWS account
    NoAccount,    \* accountID as main starts with it
    Zones,        \* availability zones: sequences of a region's name and a letter
    DefaultRegion,\* region as main starts with it
    NoWorkload,   \* the API server, or the cache, has no such pod
    MaxWrites,    \* bound on writes of others to the pod
    MaxFailures   \* bound on failed or unanswered writes

(* What region may hold: the beginning of a zone's name, whether or not    *)
(* its last part was dropped (see RegionOf), or what main starts with.     *)
Beginnings == UNION {Prefixes(z) : z \in Zones}

Regions == Beginnings \cup {DefaultRegion}

Environment == [account : {Account, NoAccount}, region : Regions]

Text == UNION {ToSet(image) : image \in UNION {ToSet(w.images) : w \in Workloads}}

(* images: one for each container, as the sequence of its parts; labelled: *)
(* the pod has the labels polaris-project and polaris-component.           *)
Workload == [labelled : BOOLEAN, images : Seq(Seq(Text \cup Environment)), status : BOOLEAN]

ASSUME ImagesAssumption ==
    /\ Workloads \subseteq Workload
    /\ NoWorkload \notin Workload
    /\ Zones \subseteq Seq(STRING)
    /\ NoAccount # Account
    /\ {MaxWrites, MaxFailures} \subseteq Nat

VARIABLES
    env,        \* each process's accountID and region
    started,    \* processes whose manager has started
    workload,   \* the pod in the API server
    cache,      \* each process's cached copy
    synced,     \* processes whose cached copy is the server's version
    queued,     \* those whose work queue holds the pod
    copy,       \* each process's copy that it is about to write, if any
    current,    \* those whose copy has the server's resourceVersion
    writes, failures   \* how often each has happened

server    == <<workload, synced, current, writes>>
resolver  == <<env, started, cache, queued, copy, failures>>
imageVars == <<server, resolver>>

(* The variables of package utils before Populate. *)
Blank == [account |-> NoAccount, region |-> DefaultRegion]

ImagesTypeOK ==
    /\ env \in [Processes -> Environment]
    /\ {started, synced, queued, current} \subseteq SUBSET Processes
    /\ workload = NoWorkload \/ workload \in Workload
    /\ \A q \in Processes : /\ cache[q] = NoWorkload \/ cache[q] \in Workload
                            /\ copy[q] = NoWorkload \/ copy[q] \in Workload
    /\ writes \in 0..MaxWrites
    /\ failures \in 0..MaxFailures

ImagesInit ==
    /\ env = [q \in Processes |-> Blank]
    /\ workload = NoWorkload
    /\ cache = [q \in Processes |-> NoWorkload]
    /\ copy = cache
    /\ started = {} /\ synced = {} /\ queued = {} /\ current = {}
    /\ writes = 0 /\ failures = 0

Exists(o) == o # NoWorkload

(* A write outdates every older copy. *)
Stored(w) ==
    /\ workload' = w
    /\ synced' = {}
    /\ current' = {}

-----------------------------------------------------------------------------
(* A process's start, after leader.Become, and its end.                    *)

(* Faulty form: the first part is dropped in place of the last. *)
RegionOfTail(zone) == SubSeq(zone, 2, Len(zone))

(* environment.go:43: "Drop the last character of the AZ for the region";  *)
(* the slice of the line after it drops nothing.                           *)
RegionOf(zone) == SubSeq(zone, 1, Len(zone))

(* An STS call that fails ends the process; without metadata the default   *)
(* region stays.                                                           *)
Populate(q) ==
    /\ env[q] = Blank
    /\ \E r \in {RegionOf(z) : z \in Zones} \cup {DefaultRegion} :
          env' = [env EXCEPT ![q] = [account |-> Account, region |-> r]]
    /\ UNCHANGED <<server, started, cache, queued, copy, failures>>

(* Faulty form: the manager starts before utils.Populate. *)
StartManagerFirst(q) ==
    /\ q \notin started
    /\ started' = started \cup {q}
    /\ cache' = [cache EXCEPT ![q] = workload]
    /\ synced' = synced \cup {q}
    /\ queued' = IF Exists(workload) THEN queued \cup {q} ELSE queued
    /\ UNCHANGED <<workload, current, writes, env, copy, failures>>

(* The informer lists the pod. *)
StartManager(q) ==
    /\ env[q] # Blank
    /\ q \notin started
    /\ started' = started \cup {q}
    /\ cache' = [cache EXCEPT ![q] = workload]
    /\ synced' = synced \cup {q}
    /\ queued' = IF Exists(workload) THEN queued \cup {q} ELSE queued
    /\ UNCHANGED <<workload, current, writes, env, copy, failures>>

ProcessLost(q) ==
    /\ env' = [env EXCEPT ![q] = Blank]
    /\ cache' = [cache EXCEPT ![q] = NoWorkload]
    /\ copy' = [copy EXCEPT ![q] = NoWorkload]
    /\ started' = started \ {q}
    /\ synced' = synced \ {q}
    /\ queued' = queued \ {q}
    /\ current' = current \ {q}
    /\ UNCHANGED <<workload, writes, failures>>

-----------------------------------------------------------------------------
(* Other clients of the API server, and the informers.                     *)

OthersWrite(w) ==
    /\ writes < MaxWrites
    /\ writes' = writes + 1
    /\ Stored(w)
    /\ UNCHANGED resolver

UserWrites(w) == OthersWrite(w)

(* The kubelet writes the pod's status. *)
KubeletWrites ==
    /\ Exists(workload)
    /\ OthersWrite([workload EXCEPT !.status = ~@])

DeleteWorkload ==
    /\ Exists(workload)
    /\ OthersWrite(NoWorkload)

SyncCache(q) ==
    /\ q \in started \ synced
    /\ cache' = [cache EXCEPT ![q] = workload]
    /\ synced' = synced \cup {q}
    /\ queued' = queued \cup {q}
    /\ UNCHANGED <<workload, current, writes, env, started, copy, failures>>

Resync(q) ==
    /\ Exists(cache[q])
    /\ queued' = queued \cup {q}
    /\ UNCHANGED <<server, env, started, cache, copy, failures>>

-----------------------------------------------------------------------------
(* Reconcile.                                                              *)

Unresolved(image) == Scheme \in ToSet(image)

(* strings.Replace, once.  The environment stands for the registry's host. *)
Resolved(host, image) ==
    [i \in DOMAIN image |->
        IF image[i] = Scheme /\ \A j \in 1..(i - 1) : image[j] # Scheme
        THEN host ELSE image[i]]

Fixed(host, w) == [w EXCEPT !.images = [i \in DOMAIN @ |-> Resolved(host, @[i])]]

Interesting(w) == w.labelled /\ \E i \in DOMAIN w.images : Unresolved(w.images[i])

Take(q) ==
    /\ q \in queued
    /\ ~Exists(copy[q])
    /\ queued' = queued \ {q}
    /\ UNCHANGED <<workload, synced, writes, env, started, cache, failures>>

Ignore(q) ==
    /\ Take(q)
    /\ Exists(cache[q]) => ~Interesting(cache[q])
    /\ UNCHANGED <<copy, current>>

Fix(q) ==
    /\ Take(q)
    /\ Exists(cache[q])
    /\ Interesting(cache[q])
    /\ copy' = [copy EXCEPT ![q] = Fixed(env[q], cache[q])]
    /\ current' = IF q \in synced THEN current \cup {q} ELSE current \ {q}

(* Faulty form: the resourceVersion is refreshed before the write. *)
AcceptsUnversioned(q) == Exists(workload)

Accepts(q) == q \in current

Written(q) == Accepts(q) /\ Stored(copy[q])

NotWritten(q) == current' = current \ {q} /\ UNCHANGED <<workload, synced>>

EndOfPass(q) ==
    /\ Exists(copy[q])
    /\ copy' = [copy EXCEPT ![q] = NoWorkload]
    /\ UNCHANGED <<writes, env, started, cache>>

Update(q) ==
    /\ EndOfPass(q)
    /\ Written(q)
    /\ UNCHANGED <<queued, failures>>

Failure ==
    /\ failures < MaxFailures
    /\ failures' = failures + 1

(* Faulty form: the error is logged and nil returned. *)
UpdateFailsQuietly(q) ==
    /\ EndOfPass(q)
    /\ \/ ~Accepts(q) /\ NotWritten(q) /\ UNCHANGED failures
       \/ Failure /\ (NotWritten(q) \/ Written(q))
    /\ UNCHANGED queued

(* A conflict, a failed call or a lost answer: the request is queued again,*)
(* the delay only makes it late.                                           *)
UpdateFails(q) ==
    /\ EndOfPass(q)
    /\ \/ ~Accepts(q) /\ NotWritten(q) /\ UNCHANGED failures
       \/ Failure /\ (NotWritten(q) \/ Written(q))
    /\ queued' = queued \cup {q}

Others == KubeletWrites \/ DeleteWorkload \/ \E w \in Workloads : UserWrites(w)

Controller(q) ==
    \/ Populate(q) \/ StartManager(q)
    \/ SyncCache(q) \/ Resync(q)
    \/ Ignore(q) \/ Fix(q) \/ Update(q) \/ UpdateFails(q)

ImagesFairness ==
    \A q \in Processes : /\ WF_imageVars(StartManager(q))
                         /\ WF_imageVars(SyncCache(q))
                         /\ WF_imageVars(Ignore(q) \/ Fix(q) \/ Update(q) \/ UpdateFails(q))

-----------------------------------------------------------------------------
(* Line 107: a pass resolves what it read and no more: whatever users, the *)
(* kubelet or another process of the operator wrote since, it keeps, and a *)
(* pod that is gone or no longer labelled is left alone.                   *)
ResolvesOnly(q) ==
    copy[q] # copy'[q] /\ workload' # workload =>
       /\ Exists(workload)
       /\ workload.labelled
       /\ workload' = Fixed(env[q], workload)

PassOnlyResolves == [][\A q \in Processes : ResolvesOnly(q)]_imageVars

(* Hosts of a registry of no account, but what users write themselves. *)
NoRegistry == [account : {NoAccount}, region : Regions] \ Text

(* No image ever names a registry of no account that no user wrote into    *)
(* one, although the controllers are set up before main asks for the       *)
(* account.                                                                *)
HostsAreNamed ==
    Exists(workload) =>
       \A image \in ToSet(workload.images) : \A t \in ToSet(image) :
          t \notin NoRegistry
=============================================================================
