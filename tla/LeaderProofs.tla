---------------------------- MODULE LeaderProofs ----------------------------
(* For any number of pods: the controllers run in the process that holds   *)
(* the lock and in no other, except where a request of leader.Become has   *)
(* failed.                                                                 *)
EXTENDS Leader, FiniteSetTheorems, TLAPS

(* The variables of the lock protocol keep their types.                    *)
THEOREM TypeCorrect == Spec => []TypeOK
<1>1. Init => TypeOK
  BY ConstantsAssumption DEF Init, TypeOK
<1>2. TypeOK /\ [Next]_vars => TypeOK'
  <2> SUFFICES ASSUME TypeOK, [Next]_vars PROVE TypeOK'
    OBVIOUS
  <2> USE DEF TypeOK
  <2>1. ASSUME NEW p \in Pods, PodStarts(p) \/ ContainerRestarts(p) \/ PodEnds(p)
        PROVE  TypeOK'
    BY <2>1 DEF PodStarts, ContainerRestarts, PodEnds
  <2>2. ASSUME NEW p \in Pods, Become(p) PROVE TypeOK'
    BY <2>2, ConstantsAssumption DEF Become, GetLock, AfterGet, CreateLock, BecomeFails
  <2>3. CASE CollectLock
    BY <2>3 DEF CollectLock
  <2>4. CASE UNCHANGED vars
    BY <2>4 DEF vars
  <2> QED
    BY <2>1, <2>2, <2>3, <2>4 DEF Next
<1> QED
  BY <1>1, <1>2, PTL DEF Spec

LEMMA UnlockedFinite == IsFiniteSet(Unlocked) /\ Cardinality(Unlocked) \in Nat
<1>1. Unlocked \in SUBSET Pods
  BY DEF Unlocked
<1> QED
  BY <1>1, ConstantsAssumption, FS_Subset, FS_CardinalityType

(* A step without a fault adds no process that leads without the lock: the *)
(* lock is made only where there is none, and known again by its owner.    *)
LEMMA UnlockedShrinks ==
    ASSUME TypeOK,
           NEW p \in Pods,
           \/ PodStarts(p) \/ ContainerRestarts(p) \/ PodEnds(p)
           \/ GetLock(p) \/ CreateLock(p)
    PROVE  Unlocked' \subseteq Unlocked /\ faults' = faults
<1> USE DEF Unlocked, TypeOK
<1>1. CASE PodStarts(p) \/ ContainerRestarts(p) \/ PodEnds(p)
  BY <1>1 DEF PodStarts, ContainerRestarts, PodEnds
<1>2. CASE GetLock(p)
  BY <1>2 DEF GetLock, AfterGet
<1>3. CASE CreateLock(p)
  BY <1>3, ConstantsAssumption DEF CreateLock, Creatable
<1> QED
  BY <1>1, <1>2, <1>3

(* Processes that run the controllers without the lock are no more than    *)
(* the requests that failed.                                               *)
THEOREM NoOthersPass == Spec => []OnlyFaultsPass
<1>1. Init => OnlyFaultsPass
  <2>1. Init => Unlocked = {}
    BY DEF Init, Unlocked
  <2> QED
    BY <2>1, FS_EmptySet DEF Init, OnlyFaultsPass
<1>2. TypeOK /\ OnlyFaultsPass /\ [Next]_vars => OnlyFaultsPass'
  <2> SUFFICES ASSUME TypeOK, OnlyFaultsPass, [Next]_vars PROVE OnlyFaultsPass'
    OBVIOUS
  <2>1. CASE Unlocked' \subseteq Unlocked /\ faults' = faults
    <3>1. Cardinality(Unlocked') =< Cardinality(Unlocked)
      BY <2>1, UnlockedFinite, FS_Subset
    <3>2. Cardinality(Unlocked') \in Nat
      BY <2>1, UnlockedFinite, FS_Subset, FS_CardinalityType
    <3> QED
      BY <2>1, <3>1, <3>2, UnlockedFinite DEF OnlyFaultsPass, TypeOK
  <2>2. ASSUME NEW p \in Pods, BecomeFails(p) PROVE OnlyFaultsPass'
    <3>1. Unlocked' \in SUBSET (Unlocked \cup {p}) /\ faults' = faults + 1
      BY <2>2 DEF BecomeFails, Unlocked, TypeOK
    <3> DEFINE withP == Unlocked \cup {p}
    <3>2. /\ IsFiniteSet(withP)
          /\ Cardinality(withP) \in Nat
          /\ Cardinality(withP) =< Cardinality(Unlocked) + 1
      <4>1. /\ IsFiniteSet(withP)
            /\ Cardinality(withP) = IF p \in Unlocked THEN Cardinality(Unlocked)
                                                     ELSE Cardinality(Unlocked) + 1
        BY UnlockedFinite, FS_AddElement
      <4>2. Cardinality(withP) \in Nat
        BY <4>1, FS_CardinalityType
      <4> HIDE DEF withP
      <4> QED
        BY <4>1, <4>2, UnlockedFinite
    <3>3. Cardinality(Unlocked') \in Nat
      BY <3>1, <3>2, FS_Subset, FS_CardinalityType
    <3>4. Cardinality(Unlocked') =< Cardinality(withP)
      BY <3>1, <3>2, FS_Subset
    <3> HIDE DEF withP
    <3> QED
      BY <3>1, <3>2, <3>3, <3>4, UnlockedFinite DEF OnlyFaultsPass, TypeOK
  <2>3. CASE UNCHANGED vars
    BY <2>1, <2>3 DEF vars, Unlocked
  <2>4. CASE \E p \in Pods : BecomeFails(p)
    BY <2>2, <2>4
  <2>5. CASE \E p \in Pods : \/ PodStarts(p) \/ ContainerRestarts(p) \/ PodEnds(p)
                             \/ GetLock(p) \/ CreateLock(p)
    BY <2>1, <2>5, UnlockedShrinks
  <2>6. CASE CollectLock
    <3>1. Unlocked' \subseteq Unlocked /\ faults' = faults
      BY <2>6 DEF CollectLock, Collectable, Unlocked, TypeOK
    <3> QED
      BY <2>1, <3>1
  <2> QED
    BY <2>3, <2>4, <2>5, <2>6 DEF Next, Become
<1> QED
  BY <1>1, <1>2, TypeCorrect, PTL DEF Spec

(* Hence, as long as the API server answers, no two processes run the      *)
(* controllers at the same time.                                           *)
THEOREM OneLeader ==
    ASSUME MaxFaults = 0
    PROVE  Spec => []SingleLeader
<1>1. TypeOK /\ OnlyFaultsPass => SingleLeader
  <2> SUFFICES ASSUME TypeOK, OnlyFaultsPass PROVE SingleLeader
    OBVIOUS
  <2>1. Cardinality(Unlocked) = 0
    BY UnlockedFinite DEF TypeOK, OnlyFaultsPass
  <2>2. Unlocked = {}
    BY <2>1, UnlockedFinite, FS_EmptySet
  <2> QED
    BY <2>2 DEF Unlocked, SingleLeader
<1> QED
  BY <1>1, TypeCorrect, NoOthersPass, PTL
=============================================================================
