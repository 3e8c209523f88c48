-------------------------- MODULE BuildListProofs ---------------------------
(***************************************************************************)
(* What the two loops over a list of builds compute, for lists of any      *)
(* length.  The loops are recursive functions; that such a function takes  *)
(* the values its definition gives, and what holds of all of them, is      *)
(* proved by induction on the number of builds gone through, in the form   *)
(* of a set of numbers that is closed under successor.                     *)
(***************************************************************************)
EXTENDS BuildLists, WellFoundedInduction, TLAPS

(* A set that has 0 and, with a number, the next one has all numbers. *)
LEMMA NatSetInduction ==
  ASSUME NEW U, 0 \in U, \A n \in Nat : n \in U => n + 1 \in U
  PROVE  Nat \subseteq U
<1> DEFINE T == Nat \ U
<1>1. SUFFICES ASSUME T # {} PROVE FALSE
  OBVIOUS
<1>2. PICK m \in T : \A k \in T : <<k, m>> \notin OpToRel(<, Nat)
  <2> HIDE DEF T
  <2>1. T \subseteq Nat
    BY DEF T
  <2> QED
    BY <1>1, <2>1, NatLessThanWellFounded, WFMin, Zenon
<1>3. m \in Nat /\ m # 0
  OBVIOUS
<1>4. m - 1 \in Nat /\ m - 1 + 1 = m /\ m - 1 < m
  BY <1>3
<1>5. m - 1 \in T
  BY <1>4
<1>6. <<m - 1, m>> \in OpToRel(<, Nat)
  BY <1>3, <1>4 DEF OpToRel
<1> QED
  BY <1>2, <1>5, <1>6

(* The same up to the last round of a loop. *)
LEMMA RoundInduction ==
  ASSUME NEW N \in Nat, NEW U, 0 \in U, \A n \in 1..N : n - 1 \in U => n \in U
  PROVE  0..N \subseteq U
<1> DEFINE W == {m \in Nat : m <= N => m \in U}
<1>1. 0 \in W
  OBVIOUS
<1>2. ASSUME NEW m \in Nat, m \in W PROVE m + 1 \in W
  <2>1. CASE m + 1 <= N
    <3>1. m + 1 \in 1..N /\ (m + 1) - 1 = m /\ m \in U
      BY <1>2, <2>1
    <3> QED
      BY <3>1
  <2>2. CASE ~(m + 1 <= N)
    BY <2>2
  <2> QED
    BY <2>1, <2>2
<1>3. Nat \subseteq W
  <2> HIDE DEF W
  <2> QED
    BY <1>1, <1>2, NatSetInduction
<1> QED
  BY <1>3

(* A loop over V: what each of its rounds makes of a value. *)
IsLoop(round, V, N) == N \in Nat /\ round \in [1..N -> [V -> V]]

(* What such a loop holds after each of its first m rounds. *)
IsHistory(f, round, V, first, m) ==
    /\ f \in [0..m -> V]
    /\ f[0] = first
    /\ \A n \in 1..m : f[n] = round[n][f[n - 1]]

(* There is such a history. *)
LEMMA LoopHasHistory ==
  ASSUME NEW V, NEW first, first \in V, NEW N, NEW round, IsLoop(round, V, N)
  PROVE  \E f : IsHistory(f, round, V, first, N)
<1> DEFINE History(f, m) == IsHistory(f, round, V, first, m)
           U == {m \in Nat : m <= N => \E f : History(f, m)}
<1> USE DEF IsLoop, IsHistory
<1>1. 0 \in U
  <2>1. History([n \in 0..0 |-> first], 0)
    OBVIOUS
  <2> QED
    BY <2>1
<1>2. ASSUME NEW m \in Nat, m \in U, m + 1 <= N
      PROVE  \E f : History(f, m + 1)
  <2>1. PICK f : History(f, m)
    BY <1>2
  <2> DEFINE g == [n \in 0..(m + 1) |-> IF n = m + 1 THEN round[m + 1][f[m]] ELSE f[n]]
  <2>2. f[m] \in V /\ m + 1 \in 1..N
    BY <1>2, <2>1
  <2>3. round[m + 1][f[m]] \in V
    BY <2>2
  <2>4. g \in [0..(m + 1) -> V]
    BY <2>1, <2>3
  <2>5. ASSUME NEW n \in 1..(m + 1) PROVE g[n] = round[n][g[n - 1]]
    <3>1. n - 1 \in 0..m /\ g[n - 1] = f[n - 1]
      OBVIOUS
    <3>2. CASE n = m + 1
      BY <3>1, <3>2
    <3>3. CASE n # m + 1
      <4>1. n \in 1..m /\ g[n] = f[n]
        BY <3>3
      <4> QED
        BY <2>1, <3>1, <4>1
    <3> QED
      BY <3>2, <3>3
  <2>6. g[0] = first
    BY <2>1
  <2>7. History(g, m + 1)
    BY <2>4, <2>5, <2>6
  <2> QED
    BY <2>7
<1>3. ASSUME NEW m \in Nat, m \in U PROVE m + 1 \in U
  <2>1. m + 1 <= N => \E f : History(f, m + 1)
    BY <1>2, <1>3
  <2> HIDE DEF History
  <2> QED
    BY <2>1
<1>4. N \in U
  <2> HIDE DEF U
  <2> QED
    BY <1>1, <1>3, NatSetInduction
<1> QED
  BY <1>4

-----------------------------------------------------------------------------
(* A set of positions that is not empty has a last one. *)
LEMMA LastPosition ==
  ASSUME NEW n \in Nat, NEW I \in SUBSET (1..n), I # {}
  PROVE  Max(I) \in I /\ \A i \in I : i <= Max(I)
<1> DEFINE U == {m \in Nat : \A J \in SUBSET (1..m) :
                   J # {} => \E x \in J : \A y \in J : x >= y}
<1>1. 0 \in U
  <2>1. 1..0 = {}
    OBVIOUS
  <2> QED
    BY <2>1
<1>2. ASSUME NEW m \in Nat, m \in U PROVE m + 1 \in U
  <2>1. ASSUME NEW J \in SUBSET (1..(m + 1)), J # {}
        PROVE  \E x \in J : \A y \in J : x >= y
    <3>1. CASE m + 1 \in J
      BY <3>1
    <3>2. CASE m + 1 \notin J
      <4>1. J \in SUBSET (1..m)
        BY <3>2
      <4> QED
        BY <1>2, <2>1, <4>1
    <3> QED
      BY <3>1, <3>2
  <2> QED
    BY <2>1
<1>3. n \in U
  <2> HIDE DEF U
  <2> QED
    BY <1>1, <1>2, NatSetInduction
<1>4. \E x \in I : \A y \in I : x >= y
  BY <1>3
<1>5. Max(I) \in I /\ \A y \in I : Max(I) >= y
  BY <1>4 DEF Max
<1> QED
  BY <1>5

(* s without its entry at k. *)
LEMMA RemovedAt ==
  ASSUME NEW B, NEW s \in Seq(B), NEW k \in 1..Len(s)
  PROVE  /\ RemoveAt(s, k) \in Seq(B)
         /\ Len(RemoveAt(s, k)) = Len(s) - 1
         /\ \A i \in 1..(Len(s) - 1) :
               RemoveAt(s, k)[i] = IF i < k THEN s[i] ELSE s[i + 1]
<1> DEFINE u == SubSeq(s, 1, k - 1)
           v == SubSeq(s, k + 1, Len(s))
<1>1. /\ u \in Seq(B) /\ Len(u) = k - 1
      /\ \A i \in 1..(k - 1) : u[i] = s[i]
  OBVIOUS
<1>2. /\ v \in Seq(B) /\ Len(v) = Len(s) - k
      /\ \A i \in 1..(Len(s) - k) : v[i] = s[k + i]
  OBVIOUS
<1> HIDE DEF u, v
<1>3. u \o v \in Seq(B) /\ Len(u \o v) = Len(s) - 1
  BY <1>1, <1>2
<1>4. ASSUME NEW i \in 1..(Len(s) - 1)
      PROVE  (u \o v)[i] = IF i < k THEN s[i] ELSE s[i + 1]
  <2>1. CASE i < k
    BY <1>1, <1>2, <2>1
  <2>2. CASE i >= k
    <3>1. (u \o v)[i] = v[i - (k - 1)] /\ i - (k - 1) \in 1..(Len(s) - k)
      BY <1>1, <1>2, <2>2
    <3>2. k + (i - (k - 1)) = i + 1
      OBVIOUS
    <3> QED
      BY <1>2, <2>2, <3>1, <3>2
  <2>3. i < k \/ i >= k
    OBVIOUS
  <2> QED
    BY <2>1, <2>2, <2>3
<1>5. RemoveAt(s, k) = u \o v
  BY DEF RemoveAt, u, v
<1> QED
  BY <1>3, <1>4, <1>5

(* Without takes out the last entry of the name, and that one only. *)
TakenOut(s, name, k, w) ==
    /\ k \in 1..Len(s)
    /\ s[k].name = name
    /\ \A i \in (k + 1)..Len(s) : s[i].name # name
    /\ Len(w) = Len(s) - 1
    /\ \A i \in 1..(Len(s) - 1) : w[i] = IF i < k THEN s[i] ELSE s[i + 1]

LEMMA WithoutTakesOut ==
  ASSUME NEW B, NEW s \in Seq(B), NEW name
  PROVE  /\ Without(s, name) \in Seq(B)
         /\ \/ name \notin Names(s) /\ Without(s, name) = s
            \/ \E k : TakenOut(s, name, k, Without(s, name))
<1> DEFINE I == {i \in 1..Len(s) : s[i].name = name}
<1>1. Without(s, name) =
         LET k == IF I # {} THEN Max(I) ELSE 0
         IN  IF k = 0 THEN s ELSE RemoveAt(s, k)
  BY DEF Without, SelectLastInSeq
<1>2. CASE I = {}
  BY <1>1, <1>2 DEF Names
<1>3. CASE I # {}
  <2> DEFINE k == Max(I)
  <2>1. k \in I /\ \A i \in I : i <= k
    <3>1. Len(s) \in Nat /\ I \in SUBSET (1..Len(s))
      OBVIOUS
    <3> HIDE DEF I
    <3> QED
      BY <1>3, <3>1, LastPosition
  <2>2. k \in 1..Len(s) /\ s[k].name = name /\ \A i \in (k + 1)..Len(s) : s[i].name # name
    <3> HIDE DEF k
    <3> QED
      BY <2>1
  <2>3. Without(s, name) = RemoveAt(s, k)
    BY <1>1, <1>3, <2>2
  <2> HIDE DEF k, I
  <2>4. TakenOut(s, name, k, Without(s, name)) /\ Without(s, name) \in Seq(B)
    BY <2>2, <2>3, RemovedAt DEF TakenOut
  <2> QED
    BY <2>4
<1> QED
  BY <1>2, <1>3

-----------------------------------------------------------------------------
(* The values of the loops, round by round: merging, removing, and the     *)
(* selection of the entries that are not the step's.                       *)
LEMMA MergeLoop ==
  ASSUME NEW B, NEW bs \in Seq(B), NEW new \in Seq(B)
  PROVE  \E after \in [0..Len(new) -> Seq(B)] :
            /\ after[0] = bs
            /\ \A n \in 1..Len(new) :
                  after[n] = Append(Without(after[n - 1], new[n].name), new[n])
            /\ Merged(bs, new) = after[Len(new)]
<1> DEFINE N == Len(new)
           Round(s, n) == Append(Without(s, new[n].name), new[n])
           round == [n \in 1..N |-> [s \in Seq(B) |-> Round(s, n)]]
           Loop(h) == [n \in 0..N |-> IF n = 0 THEN bs ELSE Round(h[n - 1], n)]
           after == CHOOSE h : h = Loop(h)
<1>1. N \in Nat
  OBVIOUS
<1>2. ASSUME NEW n \in 1..N, NEW s \in Seq(B) PROVE Round(s, n) \in Seq(B)
  <2>1. Without(s, new[n].name) \in Seq(B) /\ new[n] \in B
    BY WithoutTakesOut
  <2> QED
    BY <2>1
<1> HIDE DEF N, Round
<1>3. round \in [1..N -> [Seq(B) -> Seq(B)]]
  BY <1>2
<1>4. PICK f : IsHistory(f, round, Seq(B), bs, N)
  <2>1. IsLoop(round, Seq(B), N)
    BY <1>1, <1>3 DEF IsLoop
  <2> HIDE DEF round
  <2> QED
    BY <2>1, LoopHasHistory
<1>5. f = Loop(f)
  <2>1. ASSUME NEW n \in 1..N PROVE f[n] = Round(f[n - 1], n)
    <3>1. n - 1 \in 0..N
      BY <1>1
    <3> QED
      BY <1>4, <3>1 DEF IsHistory
  <2> QED
    BY <1>1, <1>4, <2>1 DEF IsHistory
<1>6. after = Loop(after)
  <2> HIDE DEF Loop
  <2> QED
    BY <1>5
<1>7. after[0] = bs /\ \A n \in 1..N : after[n] = Round(after[n - 1], n)
  <2> HIDE DEF after
  <2> QED
    BY <1>1, <1>6
<1> HIDE DEF after
<1>8. \A n \in 0..N : after[n] \in Seq(B)
  <2> DEFINE U == {n \in 0..N : after[n] \in Seq(B)}
  <2>1. 0 \in U
    BY <1>1, <1>7
  <2>2. ASSUME NEW n \in 1..N, n - 1 \in U PROVE n \in U
    BY <1>1, <1>2, <1>7, <2>2
  <2>3. 0..N \subseteq U
    <3> HIDE DEF U
    <3> QED
      BY <1>1, <2>1, <2>2, RoundInduction
  <2> QED
    BY <2>3
<1>9. after = [n \in 0..N |-> after[n]]
  BY <1>6
<1>10. Merged(bs, new) = after[N]
  BY DEF Merged, after, N, Round
<1> QED
  BY <1>7, <1>8, <1>9, <1>10 DEF N, Round

LEMMA RemoveLoop ==
  ASSUME NEW B, NEW bs \in Seq(B), NEW old \in Seq(B)
  PROVE  \E after \in [0..Len(old) -> Seq(B)] :
            /\ after[0] = bs
            /\ \A n \in 1..Len(old) :
                  after[n] = Without(after[n - 1], old[n].name)
            /\ Removed(bs, old) = after[Len(old)]
<1> DEFINE N == Len(old)
           Round(s, n) == Without(s, old[n].name)
           round == [n \in 1..N |-> [s \in Seq(B) |-> Round(s, n)]]
           Loop(h) == [n \in 0..N |-> IF n = 0 THEN bs ELSE Round(h[n - 1], n)]
           after == CHOOSE h : h = Loop(h)
<1>1. N \in Nat
  OBVIOUS
<1>2. ASSUME NEW n \in 1..N, NEW s \in Seq(B) PROVE Round(s, n) \in Seq(B)
  BY WithoutTakesOut
<1> HIDE DEF N, Round
<1>3. round \in [1..N -> [Seq(B) -> Seq(B)]]
  BY <1>2
<1>4. PICK f : IsHistory(f, round, Seq(B), bs, N)
  <2>1. IsLoop(round, Seq(B), N)
    BY <1>1, <1>3 DEF IsLoop
  <2> HIDE DEF round
  <2> QED
    BY <2>1, LoopHasHistory
<1>5. f = Loop(f)
  <2>1. ASSUME NEW n \in 1..N PROVE f[n] = Round(f[n - 1], n)
    <3>1. n - 1 \in 0..N
      BY <1>1
    <3> QED
      BY <1>4, <3>1 DEF IsHistory
  <2> QED
    BY <1>1, <1>4, <2>1 DEF IsHistory
<1>6. after = Loop(after)
  <2> HIDE DEF Loop
  <2> QED
    BY <1>5
<1>7. after[0] = bs /\ \A n \in 1..N : after[n] = Round(after[n - 1], n)
  <2> HIDE DEF after
  <2> QED
    BY <1>1, <1>6
<1> HIDE DEF after
<1>8. \A n \in 0..N : after[n] \in Seq(B)
  <2> DEFINE U == {n \in 0..N : after[n] \in Seq(B)}
  <2>1. 0 \in U
    BY <1>1, <1>7
  <2>2. ASSUME NEW n \in 1..N, n - 1 \in U PROVE n \in U
    BY <1>1, <1>2, <1>7, <2>2
  <2>3. 0..N \subseteq U
    <3> HIDE DEF U
    <3> QED
      BY <1>1, <2>1, <2>2, RoundInduction
  <2> QED
    BY <2>3
<1>9. after = [n \in 0..N |-> after[n]]
  BY <1>6
<1>10. Removed(bs, old) = after[N]
  BY DEF Removed, after, N, Round
<1> QED
  BY <1>7, <1>8, <1>9, <1>10 DEF N, Round

LEMMA KeptLoop ==
  ASSUME NEW B, NEW bs \in Seq(B), NEW names
  PROVE  \E kept \in [0..Len(bs) -> Seq(B)] :
            /\ kept[0] = <<>>
            /\ \A n \in 1..Len(bs) :
                  kept[n] = IF bs[n].name \in names THEN kept[n - 1]
                            ELSE Append(kept[n - 1], bs[n])
            /\ OthersOf(bs, names) = kept[Len(bs)]
<1> DEFINE N == Len(bs)
           Round(s, n) == IF bs[n].name \in names THEN s ELSE Append(s, bs[n])
           round == [n \in 1..N |-> [s \in Seq(B) |-> Round(s, n)]]
           Loop(h) == [n \in 0..N |-> IF n = 0 THEN <<>> ELSE Round(h[n - 1], n)]
           kept == CHOOSE h : h = Loop(h)
<1>1. N \in Nat /\ <<>> \in Seq(B)
  OBVIOUS
<1>2. ASSUME NEW n \in 1..N, NEW s \in Seq(B) PROVE Round(s, n) \in Seq(B)
  OBVIOUS
<1> HIDE DEF N, Round
<1>3. round \in [1..N -> [Seq(B) -> Seq(B)]]
  BY <1>2
<1>4. PICK f : IsHistory(f, round, Seq(B), <<>>, N)
  <2>1. IsLoop(round, Seq(B), N)
    BY <1>1, <1>3 DEF IsLoop
  <2> HIDE DEF round
  <2> QED
    BY <1>1, <2>1, LoopHasHistory
<1>5. f = Loop(f)
  <2>1. ASSUME NEW n \in 1..N PROVE f[n] = Round(f[n - 1], n)
    <3>1. n - 1 \in 0..N
      BY <1>1
    <3> QED
      BY <1>4, <3>1 DEF IsHistory
  <2> QED
    BY <1>1, <1>4, <2>1 DEF IsHistory
<1>6. kept = Loop(kept)
  <2> HIDE DEF Loop
  <2> QED
    BY <1>5
<1>7. kept[0] = <<>> /\ \A n \in 1..N : kept[n] = Round(kept[n - 1], n)
  <2> HIDE DEF kept
  <2> QED
    BY <1>1, <1>6
<1> HIDE DEF kept
<1>8. \A n \in 0..N : kept[n] \in Seq(B)
  <2> DEFINE U == {n \in 0..N : kept[n] \in Seq(B)}
  <2>1. 0 \in U
    <3>1. kept[0] \in Seq(B)
      BY <1>1, <1>7, Zenon
    <3> QED
      BY <1>1, <3>1
  <2>2. ASSUME NEW n \in 1..N, n - 1 \in U PROVE n \in U
    BY <1>1, <1>2, <1>7, <2>2
  <2>3. 0..N \subseteq U
    <3> HIDE DEF U
    <3> QED
      BY <1>1, <2>1, <2>2, RoundInduction
  <2> QED
    BY <2>3
<1>9. kept = [n \in 0..N |-> kept[n]]
  BY <1>6
<1>10. OthersOf(bs, names) = kept[N]
  BY DEF OthersOf, kept, N, Round
<1> QED
  BY <1>7, <1>8, <1>9, <1>10 DEF N, Round

-----------------------------------------------------------------------------
(* No loop leaves the builds. *)
LEMMA MergedType ==
  ASSUME NEW B, NEW bs \in Seq(B), NEW new \in Seq(B)
  PROVE  Merged(bs, new) \in Seq(B)
<1>1. Len(new) \in 0..Len(new)
  OBVIOUS
<1>2. PICK after \in [0..Len(new) -> Seq(B)] :
         /\ after[0] = bs
         /\ \A n \in 1..Len(new) :
               after[n] = Append(Without(after[n - 1], new[n].name), new[n])
         /\ Merged(bs, new) = after[Len(new)]
  BY MergeLoop
<1> QED
  BY <1>1, <1>2

LEMMA RemovedType ==
  ASSUME NEW B, NEW bs \in Seq(B), NEW old \in Seq(B)
  PROVE  Removed(bs, old) \in Seq(B)
<1>1. Len(old) \in 0..Len(old)
  OBVIOUS
<1>2. PICK after \in [0..Len(old) -> Seq(B)] :
         /\ after[0] = bs
         /\ \A n \in 1..Len(old) : after[n] = Without(after[n - 1], old[n].name)
         /\ Removed(bs, old) = after[Len(old)]
  BY RemoveLoop
<1> QED
  BY <1>1, <1>2

-----------------------------------------------------------------------------
(* A list whose names are distinct stays one when an entry is taken out,   *)
(* and then the name is free.                                              *)
LEMMA WithoutKeepsDistinct ==
  ASSUME NEW B, NEW s \in Seq(B), NEW name, NamesDistinct(s)
  PROVE  NamesDistinct(Without(s, name)) /\ name \notin Names(Without(s, name))
<1> DEFINE w == Without(s, name)
<1>0. w \in Seq(B)
  BY WithoutTakesOut
<1>1. CASE name \notin Names(s) /\ w = s
  BY <1>1
<1>2. ASSUME NEW k, TakenOut(s, name, k, w)
      PROVE  NamesDistinct(w) /\ name \notin Names(w)
  <2> DEFINE at(i) == IF i < k THEN i ELSE i + 1
  <2> HIDE DEF w
  <2>1. ASSUME NEW i \in DOMAIN w
        PROVE  /\ at(i) \in DOMAIN s /\ w[i] = s[at(i)] /\ at(i) # k
    BY <1>0, <1>2, <2>1 DEF TakenOut
  <2>2. \A i, j \in DOMAIN w : at(i) = at(j) => i = j
    BY <1>0, <1>2 DEF TakenOut
  <2> HIDE DEF at
  <2>3. NamesDistinct(w)
    BY <2>1, <2>2 DEF NamesDistinct
  <2>4. k \in DOMAIN s /\ s[k].name = name
    BY <1>2 DEF TakenOut
  <2>5. name \notin Names(w)
    BY <2>1, <2>4 DEF Names, NamesDistinct
  <2> QED
    BY <2>3, <2>5
<1> QED
  BY <1>1, <1>2, WithoutTakesOut

LEMMA AppendKeepsDistinct ==
  ASSUME NEW B, NEW s \in Seq(B), NEW b \in B, NamesDistinct(s), b.name \notin Names(s)
  PROVE  NamesDistinct(Append(s, b))
<1> DEFINE t == Append(s, b)
<1>1. /\ DOMAIN t = 1..(Len(s) + 1) /\ DOMAIN s = 1..Len(s)
      /\ t[Len(s) + 1] = b
      /\ \A i \in 1..Len(s) : t[i] = s[i]
  OBVIOUS
<1> HIDE DEF t
<1>2. \A i \in 1..Len(s) : t[i].name # b.name
  BY <1>1 DEF Names
<1>3. \A i \in 1..(Len(s) + 1) : i \in 1..Len(s) \/ i = Len(s) + 1
  OBVIOUS
<1>4. NamesDistinct(t)
  BY <1>1, <1>2, <1>3 DEF NamesDistinct
<1> QED
  BY <1>4 DEF t

(***************************************************************************)
(* However many builds of whatever names are merged into a list or taken   *)
(* out of it, names that were distinct stay distinct: what is merged again *)
(* replaces what was there.                                                *)
(***************************************************************************)
LEMMA MergedDistinct ==
  ASSUME NEW B, NEW bs \in Seq(B), NEW new \in Seq(B), NamesDistinct(bs)
  PROVE  NamesDistinct(Merged(bs, new))
<1>1. PICK after \in [0..Len(new) -> Seq(B)] :
         /\ after[0] = bs
         /\ \A n \in 1..Len(new) :
               after[n] = Append(Without(after[n - 1], new[n].name), new[n])
         /\ Merged(bs, new) = after[Len(new)]
  BY MergeLoop
<1> DEFINE U == {n \in 0..Len(new) : NamesDistinct(after[n])}
<1>2. Len(new) \in Nat /\ 0 \in U
  BY <1>1
<1>3. ASSUME NEW n \in 1..Len(new), n - 1 \in U PROVE n \in U
  <2> DEFINE s == after[n - 1]
             w == Without(s, new[n].name)
  <2>1. s \in Seq(B) /\ NamesDistinct(s) /\ new[n] \in B
    BY <1>3
  <2> HIDE DEF s
  <2>2. w \in Seq(B) /\ NamesDistinct(w) /\ new[n].name \notin Names(w)
    BY <2>1, WithoutTakesOut, WithoutKeepsDistinct
  <2> HIDE DEF w
  <2>3. NamesDistinct(Append(w, new[n]))
    BY <2>1, <2>2, AppendKeepsDistinct
  <2>4. after[n] = Append(w, new[n])
    BY <1>1 DEF s, w
  <2>5. NamesDistinct(after[n])
    BY <2>3, <2>4, Zenon
  <2> QED
    BY <2>5
<1>4. 0..Len(new) \subseteq U
  <2> HIDE DEF U
  <2> QED
    BY <1>2, <1>3, RoundInduction
<1> QED
  BY <1>1, <1>2, <1>4

LEMMA RemovedDistinct ==
  ASSUME NEW B, NEW bs \in Seq(B), NEW old \in Seq(B), NamesDistinct(bs)
  PROVE  NamesDistinct(Removed(bs, old))
<1>1. PICK after \in [0..Len(old) -> Seq(B)] :
         /\ after[0] = bs
         /\ \A n \in 1..Len(old) : after[n] = Without(after[n - 1], old[n].name)
         /\ Removed(bs, old) = after[Len(old)]
  BY RemoveLoop
<1> DEFINE U == {n \in 0..Len(old) : NamesDistinct(after[n])}
<1>2. Len(old) \in Nat /\ 0 \in U
  BY <1>1
<1>3. ASSUME NEW n \in 1..Len(old), n - 1 \in U PROVE n \in U
  <2>1. after[n - 1] \in Seq(B) /\ NamesDistinct(after[n - 1])
    BY <1>3
  <2>2. NamesDistinct(Without(after[n - 1], old[n].name))
    BY <2>1, WithoutKeepsDistinct
  <2> QED
    BY <1>1, <2>2
<1>4. 0..Len(old) \subseteq U
  <2> HIDE DEF U
  <2> QED
    BY <1>2, <1>3, RoundInduction
<1> QED
  BY <1>1, <1>2, <1>4

-----------------------------------------------------------------------------
(* kept, as OthersOf goes through the list s. *)
IsKept(kept, s, names) ==
    /\ kept[0] = <<>>
    /\ \A n \in 1..Len(s) :
          kept[n] = IF s[n].name \in names THEN kept[n - 1]
                    ELSE Append(kept[n - 1], s[n])

LEMMA OthersAreKept ==
  ASSUME NEW B, NEW s \in Seq(B), NEW names
  PROVE  \E kept : IsKept(kept, s, names) /\ OthersOf(s, names) = kept[Len(s)]
  BY KeptLoop DEF IsKept

(* What is taken out or appended under one of the names leaves the others. *)
LEMMA TakingOutLeavesOthers ==
  ASSUME NEW B, NEW s \in Seq(B), NEW w \in Seq(B), NEW names, NEW name \in names,
         NEW k, TakenOut(s, name, k, w)
  PROVE  OthersOf(w, names) = OthersOf(s, names)
<1>1. PICK f : IsKept(f, s, names) /\ OthersOf(s, names) = f[Len(s)]
  BY OthersAreKept
<1>2. PICK g : IsKept(g, w, names) /\ OthersOf(w, names) = g[Len(w)]
  BY OthersAreKept
<1> DEFINE Same(n) == IF n < k THEN f[n] = g[n] ELSE f[n] = g[n - 1]
           U == {n \in 0..Len(s) : Same(n)}
<1>3. Len(s) \in Nat /\ k \in 1..Len(s) /\ Len(w) = Len(s) - 1
  BY <1>2 DEF TakenOut
<1>4. 0 \in U
  BY <1>1, <1>2, <1>3 DEF IsKept
<1>5. ASSUME NEW n \in 1..Len(s), Same(n - 1) PROVE Same(n)
  <2>1. CASE n < k
    <3>1. n \in 1..Len(w) /\ w[n] = s[n]
      BY <1>3, <2>1 DEF TakenOut
    <3>2. f[n - 1] = g[n - 1]
      BY <1>3, <1>5, <2>1
    <3>3. f[n] = g[n]
      BY <1>1, <1>2, <3>1, <3>2 DEF IsKept
    <3> QED
      BY <2>1, <3>3
  <2>2. CASE n = k
    <3>1. f[n - 1] = g[n - 1]
      BY <1>3, <1>5, <2>2
    <3>2. f[n] = f[n - 1]
      BY <1>1, <2>2 DEF IsKept, TakenOut
    <3> QED
      BY <1>3, <2>2, <3>1, <3>2
  <2>3. CASE n > k
    <3>1. /\ n - 1 \in 1..Len(w) /\ w[n - 1] = s[n]
          /\ ~(n - 1 < k)
      BY <1>3, <2>3 DEF TakenOut
    <3>2. f[n - 1] = g[(n - 1) - 1]
      BY <1>5, <3>1
    <3>3. f[n] = g[n - 1]
      BY <1>1, <1>2, <3>1, <3>2 DEF IsKept
    <3> QED
      BY <1>3, <2>3, <3>3
  <2> QED
    BY <1>3, <2>1, <2>2, <2>3
<1>6. 0..Len(s) \subseteq U
  <2>1. ASSUME NEW n \in 1..Len(s), n - 1 \in U PROVE n \in U
    BY <1>5, <2>1
  <2> HIDE DEF U
  <2> QED
    BY <1>3, <1>4, <2>1, RoundInduction
<1>7. Same(Len(s))
  BY <1>3, <1>6
<1>8. f[Len(s)] = g[Len(w)]
  BY <1>3, <1>7
<1> QED
  BY <1>1, <1>2, <1>8

LEMMA WithoutLeavesOthers ==
  ASSUME NEW B, NEW s \in Seq(B), NEW names, NEW name \in names
  PROVE  OthersOf(Without(s, name), names) = OthersOf(s, names)
<1> DEFINE w == Without(s, name)
<1>1. w \in Seq(B) /\ (w = s \/ \E k : TakenOut(s, name, k, w))
  BY WithoutTakesOut
<1> HIDE DEF w
<1>2. OthersOf(w, names) = OthersOf(s, names)
  BY <1>1, TakingOutLeavesOthers
<1> QED
  BY <1>2 DEF w

LEMMA AppendLeavesOthers ==
  ASSUME NEW B, NEW s \in Seq(B), NEW b \in B, NEW names, b.name \in names
  PROVE  OthersOf(Append(s, b), names) = OthersOf(s, names)
<1> DEFINE t == Append(s, b)
<1>1. /\ t \in Seq(B) /\ Len(s) \in Nat /\ Len(t) = Len(s) + 1
      /\ t[Len(s) + 1] = b
      /\ \A i \in 1..Len(s) : t[i] = s[i]
  OBVIOUS
<1> HIDE DEF t
<1>2. PICK f : IsKept(f, s, names) /\ OthersOf(s, names) = f[Len(s)]
  BY OthersAreKept
<1>3. PICK g : IsKept(g, t, names) /\ OthersOf(t, names) = g[Len(t)]
  BY <1>1, OthersAreKept
<1> DEFINE U == {n \in 0..Len(s) : f[n] = g[n]}
<1>4. 0 \in U
  BY <1>1, <1>2, <1>3 DEF IsKept
<1>5. ASSUME NEW n \in 1..Len(s), n - 1 \in U PROVE n \in U
  <2>1. n \in 1..Len(t) /\ t[n] = s[n] /\ f[n - 1] = g[n - 1]
    BY <1>1, <1>5
  <2>2. f[n] = g[n]
    BY <1>2, <1>3, <2>1 DEF IsKept
  <2> QED
    BY <2>2
<1>6. 0..Len(s) \subseteq U
  <2> HIDE DEF U
  <2> QED
    BY <1>1, <1>4, <1>5, RoundInduction
<1>7. f[Len(s)] = g[Len(s)]
  BY <1>1, <1>6
<1>8. Len(t) \in 1..Len(t) /\ t[Len(t)] = b /\ Len(t) - 1 = Len(s)
  BY <1>1
<1>9. g[Len(t)] = g[Len(s)]
  BY <1>3, <1>8 DEF IsKept
<1> QED
  BY <1>2, <1>3, <1>7, <1>9 DEF t

(***************************************************************************)
(* Merging a step's builds into a list, and taking them out of it, leaves  *)
(* the entries of other names as they were and in the order they had,      *)
(* whatever the two lists are.                                             *)
(***************************************************************************)
LEMMA MergedLeavesOthers ==
  ASSUME NEW B, NEW bs \in Seq(B), NEW new \in Seq(B)
  PROVE  OthersOf(Merged(bs, new), Names(new)) = OthersOf(bs, Names(new))
<1>1. PICK after \in [0..Len(new) -> Seq(B)] :
         /\ after[0] = bs
         /\ \A n \in 1..Len(new) :
               after[n] = Append(Without(after[n - 1], new[n].name), new[n])
         /\ Merged(bs, new) = after[Len(new)]
  BY MergeLoop
<1> DEFINE names == Names(new)
           U == {n \in 0..Len(new) : OthersOf(after[n], names) = OthersOf(bs, names)}
<1>2. Len(new) \in Nat /\ 0 \in U
  BY <1>1
<1>3. \A n \in 1..Len(new) : new[n] \in B /\ new[n].name \in names
  BY DEF Names
<1>4. ASSUME NEW n \in 1..Len(new), n - 1 \in U PROVE n \in U
  <2> DEFINE w == Without(after[n - 1], new[n].name)
  <2> HIDE DEF names
  <2>1. after[n - 1] \in Seq(B) /\ OthersOf(after[n - 1], names) = OthersOf(bs, names)
    BY <1>4
  <2>2. w \in Seq(B) /\ OthersOf(w, names) = OthersOf(bs, names)
    BY <1>3, <2>1, WithoutTakesOut, WithoutLeavesOthers
  <2>3. after[n] = Append(w, new[n])
    BY <1>1
  <2> HIDE DEF w
  <2>4. OthersOf(Append(w, new[n]), names) = OthersOf(bs, names)
    BY <1>3, <2>2, AppendLeavesOthers
  <2>5. OthersOf(after[n], names) = OthersOf(bs, names)
    BY <2>3, <2>4, Zenon
  <2> QED
    BY <2>5
<1>5. 0..Len(new) \subseteq U
  <2> HIDE DEF U
  <2> QED
    BY <1>2, <1>4, RoundInduction
<1> QED
  BY <1>1, <1>2, <1>5

LEMMA RemovedLeavesOthers ==
  ASSUME NEW B, NEW bs \in Seq(B), NEW old \in Seq(B)
  PROVE  OthersOf(Removed(bs, old), Names(old)) = OthersOf(bs, Names(old))
<1>1. PICK after \in [0..Len(old) -> Seq(B)] :
         /\ after[0] = bs
         /\ \A n \in 1..Len(old) : after[n] = Without(after[n - 1], old[n].name)
         /\ Removed(bs, old) = after[Len(old)]
  BY RemoveLoop
<1> DEFINE names == Names(old)
           U == {n \in 0..Len(old) : OthersOf(after[n], names) = OthersOf(bs, names)}
<1>2. Len(old) \in Nat /\ 0 \in U
  BY <1>1
<1>3. \A n \in 1..Len(old) : old[n].name \in names
  BY DEF Names
<1>4. ASSUME NEW n \in 1..Len(old), n - 1 \in U PROVE n \in U
  <2> HIDE DEF names
  <2>1. after[n - 1] \in Seq(B) /\ OthersOf(after[n - 1], names) = OthersOf(bs, names)
    BY <1>4
  <2>2. OthersOf(Without(after[n - 1], old[n].name), names) = OthersOf(bs, names)
    BY <1>3, <2>1, WithoutLeavesOthers
  <2> QED
    BY <1>1, <2>2
<1>5. 0..Len(old) \subseteq U
  <2> HIDE DEF U
  <2> QED
    BY <1>2, <1>4, RoundInduction
<1> QED
  BY <1>1, <1>2, <1>5

-----------------------------------------------------------------------------
(* What is left of a list without a name, and what an entry appended adds. *)
Leaves(w, s, name) ==
    /\ \A j \in DOMAIN w : \E i \in DOMAIN s : w[j] = s[i]
    /\ \A i \in DOMAIN s : s[i].name # name => \E j \in DOMAIN w : w[j] = s[i]

Adds(t, s, b) ==
    /\ \A j \in DOMAIN t : t[j] = b \/ \E i \in DOMAIN s : t[j] = s[i]
    /\ \A i \in DOMAIN s : \E j \in DOMAIN t : t[j] = s[i]
    /\ \E j \in DOMAIN t : t[j] = b

LEMMA WithoutEntries ==
  ASSUME NEW B, NEW s \in Seq(B), NEW name
  PROVE  Leaves(Without(s, name), s, name)
<1> DEFINE w == Without(s, name)
<1>1. w \in Seq(B) /\ (w = s \/ \E k : TakenOut(s, name, k, w))
  BY WithoutTakesOut
<1> HIDE DEF w
<1>2. ASSUME NEW k, TakenOut(s, name, k, w)
      PROVE  /\ \A j \in DOMAIN w : \E i \in DOMAIN s : w[j] = s[i]
             /\ \A i \in DOMAIN s : s[i].name # name => \E j \in DOMAIN w : w[j] = s[i]
  <2>1. ASSUME NEW j \in DOMAIN w PROVE \E i \in DOMAIN s : w[j] = s[i]
    <3>1. \/ j \in DOMAIN s /\ w[j] = s[j]
          \/ j + 1 \in DOMAIN s /\ w[j] = s[j + 1]
      BY <1>1, <1>2 DEF TakenOut
    <3> QED
      BY <3>1
  <2>2. ASSUME NEW i \in DOMAIN s, s[i].name # name PROVE \E j \in DOMAIN w : w[j] = s[i]
    <3>1. i # k
      BY <1>2, <2>2 DEF TakenOut
    <3>2. \/ i \in DOMAIN w /\ w[i] = s[i]
          \/ i - 1 \in DOMAIN w /\ w[i - 1] = s[i]
      <4>1. CASE i < k
        BY <1>1, <1>2, <4>1 DEF TakenOut
      <4>2. CASE i > k
        <5>1. i - 1 \in 1..(Len(s) - 1) /\ ~(i - 1 < k) /\ (i - 1) + 1 = i
          BY <1>2, <4>2 DEF TakenOut
        <5> QED
          BY <1>1, <1>2, <5>1 DEF TakenOut
      <4> QED
        BY <1>2, <3>1, <4>1, <4>2 DEF TakenOut
    <3> QED
      BY <3>2
  <2> QED
    BY <2>1, <2>2
<1>3. /\ \A j \in DOMAIN w : \E i \in DOMAIN s : w[j] = s[i]
      /\ \A i \in DOMAIN s : s[i].name # name => \E j \in DOMAIN w : w[j] = s[i]
  BY <1>1, <1>2
<1>4. Leaves(w, s, name)
  BY <1>3 DEF Leaves
<1> QED
  BY <1>4 DEF w

LEMMA AppendEntries ==
  ASSUME NEW B, NEW s \in Seq(B), NEW b \in B
  PROVE  Adds(Append(s, b), s, b)
<1> DEFINE t == Append(s, b)
<1>1. /\ DOMAIN t = 1..(Len(s) + 1) /\ DOMAIN s = 1..Len(s)
      /\ t[Len(s) + 1] = b
      /\ \A i \in 1..Len(s) : t[i] = s[i]
  OBVIOUS
<1> HIDE DEF t
<1>2. \A i \in 1..(Len(s) + 1) : i \in 1..Len(s) \/ i = Len(s) + 1
  OBVIOUS
<1>3. 1..Len(s) \subseteq 1..(Len(s) + 1) /\ Len(s) + 1 \in 1..(Len(s) + 1)
  OBVIOUS
<1>4. Adds(t, s, b)
  BY <1>1, <1>2, <1>3 DEF Adds
<1> QED
  BY <1>4 DEF t

(* A list has m's name, and only entries of new under it. *)
Carries(s, new, m) ==
    /\ new[m].name \in Names(s)
    /\ \A i \in DOMAIN s :
          s[i].name = new[m].name => \E k \in DOMAIN new : s[i] = new[k]

(***************************************************************************)
(* Once a step's builds are merged into a list without duplicates, every   *)
(* name of theirs is in it and stands for an entry of the step.            *)
(***************************************************************************)
LEMMA MergedCarries ==
  ASSUME NEW B, NEW bs \in Seq(B), NEW new \in Seq(B), NamesDistinct(bs)
  PROVE  Carrying(Merged(bs, new), new)
<1>1. PICK after \in [0..Len(new) -> Seq(B)] :
         /\ after[0] = bs
         /\ \A n \in 1..Len(new) :
               after[n] = Append(Without(after[n - 1], new[n].name), new[n])
         /\ Merged(bs, new) = after[Len(new)]
  BY MergeLoop
<1> DEFINE Done(s, n) == NamesDistinct(s) /\ \A m \in 1..n : Carries(s, new, m)
           U == {n \in 0..Len(new) : Done(after[n], n)}
<1>2. Len(new) \in Nat /\ 0 \in U
  BY <1>1
<1>3. ASSUME NEW n \in 1..Len(new), NEW s \in Seq(B), Done(s, n - 1)
      PROVE  Done(Append(Without(s, new[n].name), new[n]), n)
  <2> DEFINE b == new[n]
             w == Without(s, b.name)
             t == Append(w, b)
  <2>1. b \in B /\ n \in DOMAIN new
    OBVIOUS
  <2>2. /\ w \in Seq(B) /\ NamesDistinct(w) /\ b.name \notin Names(w)
        /\ \A j \in DOMAIN w : \E i \in DOMAIN s : w[j] = s[i]
        /\ \A i \in DOMAIN s : s[i].name # b.name => \E j \in DOMAIN w : w[j] = s[i]
    <3>1. w \in Seq(B)
      BY WithoutTakesOut
    <3>2. NamesDistinct(w) /\ b.name \notin Names(w)
      BY <1>3, WithoutKeepsDistinct
    <3>3. Leaves(w, s, b.name)
      BY WithoutEntries
    <3> HIDE DEF w
    <3> QED
      BY <3>1, <3>2, <3>3 DEF Leaves
  <2> HIDE DEF w
  <2>3. /\ NamesDistinct(t)
        /\ \A j \in DOMAIN t : t[j] = b \/ \E i \in DOMAIN w : t[j] = w[i]
        /\ \A i \in DOMAIN w : \E j \in DOMAIN t : t[j] = w[i]
        /\ \E j \in DOMAIN t : t[j] = b
    <3> HIDE DEF b
    <3>1. NamesDistinct(t)
      BY <2>1, <2>2, AppendKeepsDistinct
    <3>2. Adds(t, w, b)
      BY <2>1, <2>2, AppendEntries
    <3> HIDE DEF t
    <3> QED
      BY <3>1, <3>2 DEF Adds
  <2> HIDE DEF t
  <2>4. ASSUME NEW m \in 1..n PROVE Carries(t, new, m)
    <3>1. CASE new[m].name = b.name
      <4>1. new[m].name \in Names(t)
        BY <2>3, <3>1 DEF Names
      <4>2. ASSUME NEW j \in DOMAIN t, t[j].name = new[m].name PROVE t[j] = new[n]
        BY <2>2, <2>3, <3>1, <4>2 DEF Names
      <4> QED
        BY <2>1, <4>1, <4>2 DEF Carries
    <3>2. CASE new[m].name # b.name
      <4>1. m \in 1..(n - 1)
        BY <3>2
      <4>2. Carries(s, new, m)
        BY <1>3, <4>1
      <4>3. new[m].name \in Names(t)
        <5>1. PICK i \in DOMAIN s : s[i].name = new[m].name
          BY <4>2 DEF Carries, Names
        <5>2. PICK j \in DOMAIN w : w[j] = s[i]
          BY <2>2, <3>2, <5>1
        <5>3. PICK l \in DOMAIN t : t[l] = w[j]
          BY <2>3
        <5> QED
          BY <5>1, <5>2, <5>3 DEF Names
      <4>4. ASSUME NEW j \in DOMAIN t, t[j].name = new[m].name
            PROVE  \E k \in DOMAIN new : t[j] = new[k]
        BY <2>2, <2>3, <3>2, <4>2, <4>4 DEF Carries
      <4> QED
        BY <4>3, <4>4 DEF Carries
    <3> QED
      BY <3>1, <3>2
  <2> QED
    BY <2>3, <2>4 DEF t, w
<1>4. ASSUME NEW n \in 1..Len(new), n - 1 \in U PROVE n \in U
  <2> HIDE DEF Done
  <2>1. after[n - 1] \in Seq(B) /\ Done(after[n - 1], n - 1)
    BY <1>4
  <2>2. Done(Append(Without(after[n - 1], new[n].name), new[n]), n)
    BY <1>3, <2>1
  <2>3. Done(after[n], n)
    BY <1>1, <2>2, Zenon
  <2> QED
    BY <2>3
<1>5. 0..Len(new) \subseteq U
  <2> HIDE DEF U
  <2> QED
    BY <1>2, <1>4, RoundInduction
<1>6. \A m \in DOMAIN new : Carries(Merged(bs, new), new, m)
  BY <1>1, <1>2, <1>5
<1> QED
  BY <1>6 DEF Carries, Carrying, Names

(* Once they are removed from one, none of their names is left in it. *)
LEMMA RemovedFrees ==
  ASSUME NEW B, NEW bs \in Seq(B), NEW old \in Seq(B), NamesDistinct(bs)
  PROVE  FreeOf(Removed(bs, old), old)
<1>1. PICK after \in [0..Len(old) -> Seq(B)] :
         /\ after[0] = bs
         /\ \A n \in 1..Len(old) : after[n] = Without(after[n - 1], old[n].name)
         /\ Removed(bs, old) = after[Len(old)]
  BY RemoveLoop
<1> DEFINE Done(s, n) == NamesDistinct(s) /\ \A m \in 1..n : old[m].name \notin Names(s)
           U == {n \in 0..Len(old) : Done(after[n], n)}
<1>2. Len(old) \in Nat /\ 0 \in U
  BY <1>1
<1>3. ASSUME NEW n \in 1..Len(old), NEW s \in Seq(B), Done(s, n - 1)
      PROVE  Done(Without(s, old[n].name), n)
  <2> DEFINE w == Without(s, old[n].name)
  <2>1. NamesDistinct(w) /\ old[n].name \notin Names(w) /\ Leaves(w, s, old[n].name)
    BY <1>3, WithoutKeepsDistinct, WithoutEntries
  <2> HIDE DEF w
  <2>2. Names(w) \subseteq Names(s)
    BY <2>1 DEF Names, Leaves
  <2>3. \A m \in 1..n : m = n \/ m \in 1..(n - 1)
    OBVIOUS
  <2> QED
    BY <1>3, <2>1, <2>2, <2>3 DEF w
<1>4. ASSUME NEW n \in 1..Len(old), n - 1 \in U PROVE n \in U
  <2> HIDE DEF Done
  <2>1. after[n - 1] \in Seq(B) /\ Done(after[n - 1], n - 1)
    BY <1>4
  <2>2. Done(after[n], n)
    BY <1>1, <1>3, <2>1
  <2> QED
    BY <2>2
<1>5. 0..Len(old) \subseteq U
  <2> HIDE DEF U
  <2> QED
    BY <1>2, <1>4, RoundInduction
<1>6. \A m \in DOMAIN old : old[m].name \notin Names(Removed(bs, old))
  BY <1>1, <1>2, <1>5
<1> QED
  BY <1>6 DEF FreeOf, Names
=============================================================================
