------------------------------- MODULE Leader -------------------------------
(***************************************************************************)
(* Several pods of the operator, of which one is to run the controllers:   *)
(* the call of leader.Become in main.go, and the lock it takes, a          *)
(* ConfigMap that names the pod as its owner and that the garbage          *)
(* collector removes once that pod is gone.                                *)
(***************************************************************************)
EXTENDS Naturals, FiniteSets

CONSTANTS
    Pods,      \* names of the operator's pods
    NoPod,     \* there is no ConfigMap
    MaxFaults  \* bound on requests that the API server does not answer

ASSUME ConstantsAssumption ==
    /\ IsFiniteSet(Pods)
    /\ NoPod \notin Pods
    /\ MaxFaults \in Nat

VARIABLES
    proc,   \* each pod's process: "none" (no pod), "get" and "create" (in
            \* Become, before its Get and its next Create) or "active"
    lock,   \* the owner of the ConfigMap, or NoPod
    faults  \* faults so far

vars == <<proc, lock, faults>>

TypeOK ==
    /\ proc \in [Pods -> {"none", "get", "create", "active"}]
    /\ lock \in Pods \cup {NoPod}
    /\ faults \in 0..MaxFaults

Init ==
    /\ proc = [p \in Pods |-> "none"]
    /\ lock = NoPod
    /\ faults = 0

(* The Deployment starts a pod under a name that no lock carries. *)
PodStarts(p) ==
    /\ proc[p] = "none"
    /\ lock # p
    /\ proc' = [proc EXCEPT ![p] = "get"]
    /\ UNCHANGED <<lock, faults>>

(* The process dies and its container is started again in the same pod. *)
ContainerRestarts(p) ==
    /\ proc[p] # "none"
    /\ proc' = [proc EXCEPT ![p] = "get"]
    /\ UNCHANGED <<lock, faults>>

PodEnds(p) ==
    /\ proc[p] # "none"
    /\ proc' = [proc EXCEPT ![p] = "none"]
    /\ UNCHANGED <<lock, faults>>

(* Faulty form: the ConfigMap is made without an owner reference. *)
CollectableNever == FALSE

Collectable == proc[lock] = "none"

CollectLock ==
    /\ lock # NoPod
    /\ Collectable
    /\ lock' = NoPod
    /\ UNCHANGED <<proc, faults>>

(* Faulty form: any lock that is found is taken for this pod's own. *)
AfterGetAnyLock(p) == IF lock # NoPod THEN "active" ELSE "create"

(* A lock with the pod's own name: it was restarted and still leads. *)
AfterGet(p) == IF lock = p THEN "active" ELSE "create"

GetLock(p) ==
    /\ proc[p] = "get"
    /\ proc' = [proc EXCEPT ![p] = AfterGet(p)]
    /\ UNCHANGED <<lock, faults>>

Creatable == lock = NoPod

(* Faulty form: a Create that finds the ConfigMap ends the process. *)
CreateLockOnce(p) ==
    /\ proc[p] = "create"
    /\ lock' = IF Creatable THEN p ELSE lock
    /\ proc' = [proc EXCEPT ![p] = IF Creatable THEN "active" ELSE "exited"]
    /\ UNCHANGED faults

(* A Create that finds the ConfigMap backs off and is tried again. *)
CreateLock(p) ==
    /\ proc[p] = "create"
    /\ Creatable
    /\ lock' = p
    /\ proc' = [proc EXCEPT ![p] = "active"]
    /\ UNCHANGED faults

(* Become returns any other error, and main goes on without looking at it. *)
BecomeFails(p) ==
    /\ proc[p] \in {"get", "create"}
    /\ faults < MaxFaults
    /\ faults' = faults + 1
    /\ proc' = [proc EXCEPT ![p] = "active"]
    /\ UNCHANGED lock

Become(p) == GetLock(p) \/ CreateLock(p) \/ BecomeFails(p)

Next ==
    \/ \E p \in Pods : \/ PodStarts(p) \/ ContainerRestarts(p) \/ PodEnds(p)
                       \/ Become(p)
    \/ CollectLock

Spec == Init /\ [][Next]_vars

(* A waiting process tries again for ever, and the lock of a pod that is   *)
(* gone is collected.  Pods need not start, restart or end.                *)
Fairness ==
    /\ \A p \in Pods : WF_vars(GetLock(p) \/ CreateLock(p))
    /\ WF_vars(CollectLock)

(* Line 58 of main.go: "Become the leader before proceeding": at most one  *)
(* process runs the controllers, however pods and containers come and go.  *)
SingleLeader ==
    \A p, q \in Pods : proc[p] = "active" /\ proc[q] = "active" => p = q

Unlocked == {p \in Pods : proc[p] = "active" /\ lock # p}

(* What the dropped error of line 59 costs: each process that runs the     *)
(* controllers without the lock got there by a failed request of its own,  *)
(* so that there are no more of them than requests that failed.  As long   *)
(* as none fails, whoever leads holds the lock, also after its container   *)
(* or its pod was replaced.                                                *)
OnlyFaultsPass == Cardinality(Unlocked) =< faults

(* Nobody waits for ever on the lock of a pod that is gone: where a        *)
(* process keeps waiting, some process leads.                              *)
SomebodyLeads ==
    \A p \in Pods :
       proc[p] = "create" ~> (proc[p] # "create" \/ \E q \in Pods : proc[q] = "active")
=============================================================================
