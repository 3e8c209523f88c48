----------------------------- MODULE Membership -----------------------------
(***************************************************************************)
(* What the PolarisBuildStep controller promises about steps and the       *)
(* pipelines they name, without saying how: no queue, no cache, no worker  *)
(* and no failures.  A step is a member of a pipeline while the pipeline   *)
(* carries the finalizer polaris.cleanup.buildstep.<step>, and the         *)
(* pipeline is the home of the step while the step is held by a finalizer  *)
(* of its own and names the pipeline as its owner.                         *)
(***************************************************************************)
CONSTANTS
    Steps, Pipelines,
    Nobody            \* no pipeline

VARIABLES
    step,     \* "none", "live" or "deleting", for each step
    target,   \* the pipeline a step names
    home,     \* the pipeline that is its home, or Nobody
    pipe,     \* "none", "live" or "deleting", for each pipeline
    members   \* the steps that are members of a pipeline

steps     == <<step, target, home>>
pipelines == <<pipe, members>>
vars      == <<steps, pipelines>>

Init ==
    /\ step = [s \in Steps |-> "none"]
    /\ target = [s \in Steps |-> Nobody]
    /\ home = [s \in Steps |-> Nobody]
    /\ pipe = [p \in Pipelines |-> "none"]
    /\ members = [p \in Pipelines |-> {}]

(* Users make steps, have them name another pipeline, and delete them.     *)
Create(s, p) ==
    /\ step[s] = "none"
    /\ step' = [step EXCEPT ![s] = "live"]
    /\ target' = [target EXCEPT ![s] = p]
    /\ UNCHANGED <<home, pipelines>>

Retarget(s, p) ==
    /\ step[s] # "none"
    /\ target' = [target EXCEPT ![s] = p]
    /\ UNCHANGED <<step, home, pipelines>>

Gone(s) ==
    /\ step' = [step EXCEPT ![s] = "none"]
    /\ target' = [target EXCEPT ![s] = Nobody]
    /\ home' = [home EXCEPT ![s] = Nobody]

(* A step that has a home stays until it is released. *)
Delete(s) ==
    /\ step[s] = "live"
    /\ IF home[s] = Nobody
       THEN Gone(s)
       ELSE step' = [step EXCEPT ![s] = "deleting"] /\ UNCHANGED <<target, home>>
    /\ UNCHANGED pipelines

(* A live step that is a member of the pipeline it names gets it for its   *)
(* home, unless it has another one.                                        *)
Settle(s) ==
    /\ step[s] = "live"
    /\ home[s] \in {Nobody, target[s]}
    /\ s \in members[target[s]]
    /\ home' = [home EXCEPT ![s] = target[s]]
    /\ UNCHANGED <<step, target, pipelines>>

(* A step being deleted is let go once it is no member of the pipeline it  *)
(* names.                                                                  *)
Release(s) ==
    /\ step[s] = "deleting"
    /\ s \notin members[target[s]]
    /\ Gone(s)
    /\ UNCHANGED pipelines

(* A pipeline that is being deleted takes no new members.  The step may    *)
(* have been deleted since, or have come to name another pipeline.         *)
Join(s, p) ==
    /\ pipe[p] = "live"
    /\ members' = [members EXCEPT ![p] = @ \cup {s}]
    /\ UNCHANGED <<steps, pipe>>

(* No live step leaves its home.  The last member takes a pipeline that is *)
(* being deleted along.                                                    *)
Leave(s, p) ==
    /\ ~(step[s] = "live" /\ home[s] = p)
    /\ members' = [members EXCEPT ![p] = @ \ {s}]
    /\ pipe' = IF pipe[p] = "deleting" /\ members'[p] = {}
               THEN [pipe EXCEPT ![p] = "none"] ELSE pipe
    /\ UNCHANGED steps

Offer(p) ==
    /\ pipe[p] = "none"
    /\ pipe' = [pipe EXCEPT ![p] = "live"]
    /\ UNCHANGED <<steps, members>>

Withdraw(p) ==
    /\ pipe[p] = "live"
    /\ pipe' = [pipe EXCEPT ![p] = IF members[p] = {} THEN "none" ELSE "deleting"]
    /\ UNCHANGED <<steps, members>>

Next ==
    \/ \E s \in Steps : Delete(s) \/ Settle(s) \/ Release(s)
    \/ \E s \in Steps, p \in Pipelines :
          Create(s, p) \/ Retarget(s, p) \/ Join(s, p) \/ Leave(s, p)
    \/ \E p \in Pipelines : Offer(p) \/ Withdraw(p)

Spec == Init /\ [][Next]_vars
=============================================================================
