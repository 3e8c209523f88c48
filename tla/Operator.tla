------------------------------ MODULE Operator ------------------------------
(***************************************************************************)
(* The operator's processes from leader.Become to a controller at work: in *)
(* each pod main takes the lock, asks AWS for account and region, and then *)
(* starts the controllers, here that of the pods' images.  A pod that ends *)
(* and a container that restarts lose all of it.                           *)
(***************************************************************************)
EXTENDS Leader, ImageResolver

ASSUME PodsAssumption == Processes = Pods

allVars == <<vars, imageVars>>

OperatorInit == Init /\ ImagesInit

OperatorNext ==
    \/ \E p \in Pods :
          \/ PodStarts(p) /\ UNCHANGED imageVars
          \/ ContainerRestarts(p) /\ ProcessLost(p)
          \/ PodEnds(p) /\ ProcessLost(p)
          \/ Become(p) /\ UNCHANGED imageVars
          \/ proc[p] = "active" /\ Controller(p) /\ UNCHANGED vars
    \/ CollectLock /\ UNCHANGED imageVars
    \/ Others /\ UNCHANGED vars

OperatorSpec == OperatorInit /\ [][OperatorNext]_allVars

(* Beside what the lock and the controller need, only that a process whose *)
(* Become has returned asks for its environment.                           *)
OperatorFairSpec ==
    /\ OperatorSpec
    /\ Fairness
    /\ ImagesFairness
    /\ \A p \in Pods : WF_allVars(proc[p] = "active" /\ Populate(p) /\ UNCHANGED vars)

(* Pods and containers come and go only finitely often. *)
Steady ==
    <>[][~\E p \in Pods : PodStarts(p) \/ ContainerRestarts(p) \/ PodEnds(p)]_vars

(* What the lock, the start-up and the controller achieve together: once   *)
(* the Deployment has settled with a pod, every labelled pod gets its      *)
(* images resolved, whoever held the lock before and whatever pass was cut *)
(* short or lost its answer.                                               *)
ImagesResolved ==
    Steady /\ <>[](\E p \in Pods : proc[p] # "none")
       => []<>~(Exists(workload) /\ Interesting(workload))
=============================================================================
