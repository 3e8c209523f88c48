----------------------------- MODULE BuildLists -----------------------------
(***************************************************************************)
(* What the PolarisBuildStep controller does to a pipeline's list of       *)
(* builds.  A build is known by its name: both loops take out the last     *)
(* entry that has the name of a build of the step, and the one that merges *)
(* appends the step's own entry instead.                                   *)
(***************************************************************************)
EXTENDS Naturals, SequencesExt

(* The last entry of that name removed, as the loop over them finds it. *)
Without(bs, name) ==
    LET foundAt == SelectLastInSeq(bs, LAMBDA b : b.name = name)
    IN  IF foundAt = 0 THEN bs ELSE RemoveAt(bs, foundAt)

(* Faulty form: an entry that is there already is appended once more. *)
MergedTwice(bs, new) == bs \o new

(* Faulty form: an entry that is there already is left as it is. *)
MergedIfAbsent(bs, new) ==
    bs \o SelectSeq(new, LAMBDA b : \A i \in DOMAIN bs : bs[i].name # b.name)

(* after[n]: the list once the loop has been through n builds. *)
Merged(bs, new) ==
    LET after[n \in 0..Len(new)] ==
          IF n = 0 THEN bs
          ELSE Append(Without(after[n - 1], new[n].name), new[n])
    IN  after[Len(new)]

Removed(bs, old) ==
    LET after[n \in 0..Len(old)] ==
          IF n = 0 THEN bs
          ELSE Without(after[n - 1], old[n].name)
    IN  after[Len(old)]

-----------------------------------------------------------------------------
(* What the properties say of a list. *)

Names(bs) == {bs[i].name : i \in DOMAIN bs}

NamesDistinct(bs) == \A i, j \in DOMAIN bs : bs[i].name = bs[j].name => i = j

(* The entries whose name is not among names, in their order. *)
OthersOf(bs, names) ==
    LET kept[n \in 0..Len(bs)] ==
          IF n = 0 THEN <<>>
          ELSE IF bs[n].name \in names THEN kept[n - 1]
          ELSE Append(kept[n - 1], bs[n])
    IN  kept[Len(bs)]

(* Only entries of own stand under own's names, and each of the names does. *)
Carrying(bs, own) ==
    /\ Names(own) \subseteq Names(bs)
    /\ \A i \in DOMAIN bs :
          bs[i].name \in Names(own) => \E k \in DOMAIN own : bs[i] = own[k]

FreeOf(bs, own) == Names(own) \cap Names(bs) = {}
=============================================================================
