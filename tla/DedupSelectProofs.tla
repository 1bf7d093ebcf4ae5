------------------------- MODULE DedupSelectProofs --------------------------
(***************************************************************************)
(* count_phys_occurrences_sorted counts what it should, for every hash     *)
(* group: OccurrencesCounted. From it follow the choice of the senpai,     *)
(* SenpaiAtCommonPlace, and of its dups, OnePlaceAfterwards.               *)
(***************************************************************************)
EXTENDS DedupSelect, FiniteSetTheorems, SequenceTheorems, TLAPS

(* The number of equal values up to the next index of a sorted list: one   *)
(* more if the value stays the same, one otherwise.                        *)
LEMMA NextRun ==
  ASSUME NEW n \in Nat, NEW p \in [1..n -> Nat], NEW k \in 1..n, k > 1,
         \A j, l \in 1..n : j < l => p[j] <= p[l]
  PROVE  LET R(m) == {l \in 1..m : p[l] = p[m]} IN
         /\ Cardinality(R(k)) \in Nat
         /\ Cardinality(R(k - 1)) \in Nat
         /\ Cardinality(R(k)) = IF p[k - 1] = p[k] THEN Cardinality(R(k - 1)) + 1 ELSE 1
<1> DEFINE R(m) == {l \in 1..m : p[l] = p[m]}
<1>1. /\ IsFiniteSet(R(k - 1)) /\ Cardinality(R(k - 1)) \in Nat
      /\ IsFiniteSet(R(k)) /\ Cardinality(R(k)) \in Nat
  <2>1. k \in Nat /\ k - 1 \in Nat
    OBVIOUS
  <2>2. IsFiniteSet(1..k) /\ IsFiniteSet(1..(k - 1))
    BY <2>1, FS_Interval
  <2> QED BY <2>2, FS_Subset, FS_CardinalityType
<1>2. CASE p[k - 1] = p[k]
  <2>1. R(k) = R(k - 1) \cup {k}
    BY <1>2
  <2>2. k \notin R(k - 1)
    OBVIOUS
  <2>3. Cardinality(R(k)) = Cardinality(R(k - 1)) + 1
    BY <1>1, <2>1, <2>2, FS_AddElement
  <2> QED BY <1>1, <1>2, <2>3
<1>3. CASE p[k - 1] # p[k]
  <2>1. \A l \in 1..(k - 1) : p[l] < p[k]
    <3> SUFFICES ASSUME NEW l \in 1..(k - 1) PROVE p[l] < p[k]
      OBVIOUS
    <3>1. p[k - 1] < p[k]
      BY <1>3
    <3>2. p[l] <= p[k - 1]
      <4>1. CASE l = k - 1
        BY <4>1
      <4>2. CASE l # k - 1
        BY <4>2
      <4> QED BY <4>1, <4>2
    <3> QED BY <3>1, <3>2
  <2>2. R(k) = {k}
    BY <2>1
  <2>3. Cardinality(R(k)) = 1
    BY <2>2, FS_Singleton
  <2> QED BY <1>1, <1>3, <2>3
<1> QED BY <1>2, <1>3

(* All equal values of a sorted list: those of the next index if the value *)
(* stays the same, and none behind the index otherwise.                    *)
LEMMA WholeRun ==
  ASSUME NEW n \in Nat, NEW p \in [1..n -> Nat], NEW k \in 1..n,
         \A j, l \in 1..n : j < l => p[j] <= p[l]
  PROVE  LET R(m) == {l \in 1..m : p[l] = p[m]}
             W(m) == {l \in 1..n : p[l] = p[m]}
         IN
         /\ k = n => W(k) = R(k)
         /\ k < n => W(k) = IF p[k] = p[k + 1] THEN W(k + 1) ELSE R(k)
<1> DEFINE R(m) == {l \in 1..m : p[l] = p[m]}
           W(m) == {l \in 1..n : p[l] = p[m]}
<1>1. k = n => W(k) = R(k)
  OBVIOUS
<1>2. CASE k < n /\ p[k] = p[k + 1]
  <2>1. W(k) = W(k + 1)
    BY <1>2
  <2> QED BY <1>1, <1>2, <2>1
<1>3. CASE k < n /\ p[k] # p[k + 1]
  <2>1. \A l \in (k + 1)..n : p[k] < p[l]
    <3> SUFFICES ASSUME NEW l \in (k + 1)..n PROVE p[k] < p[l]
      OBVIOUS
    <3>1. k + 1 \in 1..n /\ l \in 1..n
      BY <1>3
    <3>2. p[k] < p[k + 1]
      BY <1>3, <3>1
    <3>3. CASE l = k + 1
      BY <3>2, <3>3
    <3>4. CASE l # k + 1
      BY <3>1, <3>2, <3>4
    <3> QED BY <3>3, <3>4
  <2>2. W(k) = R(k)
    BY <2>1
  <2> QED BY <1>1, <1>3, <2>2
<1> QED BY <1>1, <1>2, <1>3

-----------------------------------------------------------------------------
(* A place is a number.                                                    *)
LEMMA PhysType == \A e \in EntryProps : e.phys \in Nat
<1> SUFFICES ASSUME NEW e \in EntryProps PROVE e.phys \in Nat
  OBVIOUS
<1>1. CASE e = Unplaced
  BY <1>1 DEF Unplaced
<1>2. CASE e \in [phys : Places, n_extends : Extents, ctime : Ctimes]
  BY <1>2, ConstantsAssumption
<1> QED BY <1>1, <1>2 DEF EntryProps

(* The two lemmas for the list of candidates.                              *)
LEMMA Runs ==
  ASSUME ListInv, Looping, NEW k \in 1..Len(v)
  PROVE  /\ Phys(k) \in Nat
         /\ RunTo(1) = {1}
         /\ Cardinality(RunTo(k)) \in Nat
         /\ k > 1 => Cardinality(RunTo(k)) =
              IF Phys(k - 1) = Phys(k) THEN Cardinality(RunTo(k - 1)) + 1 ELSE 1
         /\ k = Len(v) => RunOf(k) = RunTo(k)
         /\ k < Len(v) => RunOf(k) = IF Phys(k) = Phys(k + 1) THEN RunOf(k + 1) ELSE RunTo(k)
<1> DEFINE n == Len(v)
           p == [j \in 1..n |-> Phys(j)]
<1>1. /\ n \in Nat /\ n > 0
      /\ DOMAIN v = 1..n
      /\ \A j \in 1..n : v[j] \in 1..N
  <2>1. v \in Seq(1..N) /\ Len(v) > 0
    BY DEF ListInv
  <2> QED BY <2>1, LenProperties, ElementOfSeq
<1>2. \A j \in 1..n : Phys(j) \in Nat
  <2>1. entries \in [1..N -> EntryProps]
    BY DEF ListInv
  <2>2. \A j \in 1..n : entries[v[j]] \in EntryProps
    BY <1>1, <2>1
  <2> QED BY <2>2, PhysType DEF Phys
<1>3. p \in [1..n -> Nat]
  BY <1>2
<1>4. \A j, l \in 1..n : j < l => p[j] <= p[l]
  BY DEF ListInv
<1>5. /\ \A m \in 1..n : {l \in 1..m : p[l] = p[m]} = RunTo(m)
      /\ \A m \in 1..n : {l \in 1..n : p[l] = p[m]} = RunOf(m)
  BY <1>1 DEF RunTo, RunOf
<1>6. RunTo(1) = {1}
  BY DEF RunTo
<1>7. k > 1 => /\ Cardinality(RunTo(k)) \in Nat
               /\ Cardinality(RunTo(k)) =
                    IF Phys(k - 1) = Phys(k) THEN Cardinality(RunTo(k - 1)) + 1 ELSE 1
  <2> SUFFICES ASSUME k > 1
               PROVE /\ Cardinality(RunTo(k)) \in Nat
                     /\ Cardinality(RunTo(k)) =
                          IF Phys(k - 1) = Phys(k) THEN Cardinality(RunTo(k - 1)) + 1 ELSE 1
    OBVIOUS
  <2> HIDE DEF p, n
  <2>1. /\ Cardinality({l \in 1..k : p[l] = p[k]}) \in Nat
        /\ Cardinality({l \in 1..k : p[l] = p[k]}) =
             IF p[k - 1] = p[k] THEN Cardinality({l \in 1..(k - 1) : p[l] = p[k - 1]}) + 1 ELSE 1
    BY <1>1, <1>3, <1>4, NextRun DEF n
  <2>2. k - 1 \in 1..n
    BY <1>1 DEF n
  <2>3. p[k] = Phys(k) /\ p[k - 1] = Phys(k - 1)
    BY <2>2 DEF p, n
  <2> QED BY <1>5, <2>1, <2>2, <2>3 DEF n
<1>8. Cardinality(RunTo(1)) \in Nat
  <2>1. Cardinality({1}) = 1
    BY FS_Singleton
  <2> QED BY <1>6, <2>1
<1>9. /\ k = n => RunOf(k) = RunTo(k)
      /\ k < n => RunOf(k) = IF Phys(k) = Phys(k + 1) THEN RunOf(k + 1) ELSE RunTo(k)
  <2> HIDE DEF p, n
  <2>0. n \in Nat /\ k \in 1..n
    BY <1>1 DEF n
  <2>1. /\ k = n => {l \in 1..n : p[l] = p[k]} = {l \in 1..k : p[l] = p[k]}
        /\ k < n => {l \in 1..n : p[l] = p[k]} =
             IF p[k] = p[k + 1] THEN {l \in 1..n : p[l] = p[k + 1]}
                                ELSE {l \in 1..k : p[l] = p[k]}
    BY <2>0, <1>3, <1>4, WholeRun
  <2>2. k < n => k + 1 \in 1..n
    BY <1>1 DEF n
  <2>3. p[k] = Phys(k) /\ (k < n => p[k + 1] = Phys(k + 1))
    BY <2>2 DEF p, n
  <2> QED BY <1>5, <2>1, <2>2, <2>3 DEF n
<1>10. Phys(k) \in Nat
  BY <1>2
<1>11. Cardinality(RunTo(k)) \in Nat
  <2>1. CASE k = 1
    BY <1>8, <2>1
  <2>2. CASE k > 1
    BY <1>7, <2>2
  <2> QED BY <1>1, <2>1, <2>2
<1> HIDE DEF p
<1> QED BY <1>6, <1>7, <1>9, <1>10, <1>11

(* A function on 1..n is a sequence of length n.                           *)
LEMMA ListIsSeq ==
  ASSUME NEW n \in Nat, NEW S, NEW f \in [1..n -> S]
  PROVE  f \in Seq(S) /\ Len(f) = n
OBVIOUS

(* Initially nothing is collected.                                         *)
LEMMA InitCount == Init => CountInv
BY DEF Init, CountInv, ListInv, Looping, ForwardInv, BackwardInv, OccurrencesCounted

(* Sorting the candidates starts the first loop.                           *)
LEMMA CollectStep == CountInv /\ Collect => CountInv'
<1> SUFFICES ASSUME CountInv, Collect PROVE CountInv'
  OBVIOUS
<1> DEFINE n == Cardinality(Usable)
<1>1. n \in Nat /\ n >= 2
  <2>1. IsFiniteSet(Usable)
    <3>1. IsFiniteSet(1..N)
      BY FS_Interval, ConstantsAssumption
    <3> QED BY <3>1, FS_Subset DEF Usable
  <2> QED BY <2>1, FS_CardinalityType DEF Collect
<1>2. v' \in [1..n -> 1..N]
  BY DEF Collect, Usable
<1>3. v' \in Seq(1..N) /\ Len(v') = n
  <2> HIDE DEF n
  <2> QED BY <1>1, <1>2, ListIsSeq
<1>4. \A j \in 1..n : entries[v'[j]].phys \in Nat
  <2>1. entries \in [1..N -> EntryProps]
    BY DEF CountInv, ListInv
  <2>2. \A j \in 1..n : entries[v'[j]] \in EntryProps
    BY <1>2, <2>1
  <2> QED BY <2>2, PhysType
<1>5. \A k, l \in 1..n : k < l => Phys(k)' <= Phys(l)'
  BY <1>2, <1>4 DEF Collect, InOrderOfPhys, Phys
<1>6. ListInv'
  BY <1>1, <1>3, <1>5 DEF ListInv, Looping, Collect, CountInv
<1>7. ForwardInv'
  BY DEF ForwardInv, Collect, CountInv, ListInv, Phys
<1>8. BackwardInv' /\ OccurrencesCounted'
  BY DEF BackwardInv, OccurrencesCounted, Collect
<1> QED BY <1>6, <1>7, <1>8 DEF CountInv

(* A round of the first loop.                                              *)
LEMMA ForwardStep == CountInv /\ Forward => CountInv'
<1> SUFFICES ASSUME CountInv, Forward PROVE CountInv'
  OBVIOUS
<1> USE DEF CountInv
<1>1. Looping /\ i \in 1..Len(v) /\ Len(v) \in Nat /\ current_count \in Nat
  BY DEF Forward, Looping, ForwardInv, ListInv
<1>2. \A k : /\ Phys(k)' = Phys(k)
             /\ RunTo(k)' = RunTo(k)
  BY DEF Forward, Phys, RunTo
<1>3. current_count' = Cardinality(RunTo(i)) /\ current_count' \in Nat
  <2>1. CASE i = 1
    <3>1. current_count' = 1
      BY <2>1 DEF Forward, ForwardInv
    <3>2. Cardinality({1}) = 1
      BY FS_Singleton
    <3>3. RunTo(1) = {1}
      BY <1>1, Runs
    <3> QED BY <2>1, <3>1, <3>2, <3>3
  <2>2. CASE i # 1
    <3>1. /\ current_phys = Phys(i - 1)
          /\ current_count = Cardinality(RunTo(i - 1))
      BY <1>1, <2>2 DEF Forward, ForwardInv
    <3>2. /\ Cardinality(RunTo(i)) =
               IF Phys(i - 1) = Phys(i) THEN Cardinality(RunTo(i - 1)) + 1 ELSE 1
          /\ Cardinality(RunTo(i)) \in Nat
      BY <1>1, <2>2, Runs
    <3> QED BY <3>1, <3>2 DEF Forward
  <2> QED BY <2>1, <2>2
<1>4. /\ phys_occurrences' \in [1..Len(v) -> Nat]
      /\ phys_occurrences'[i] = current_count'
      /\ \A k \in 1..Len(v) : k # i => phys_occurrences'[k] = phys_occurrences[k]
  BY <1>1, <1>3 DEF Forward, ListInv
<1>5. ListInv'
  BY <1>1, <1>2, <1>4 DEF Forward, ListInv, Looping
<1>6. ForwardInv'
  <2>1. \A k \in 1..(i' - 1) : phys_occurrences'[k] = Cardinality(RunTo(k))
    BY <1>1, <1>3, <1>4 DEF Forward, ForwardInv
  <2> QED BY <1>1, <1>2, <1>3, <1>4, <2>1 DEF Forward, ForwardInv
<1>7. BackwardInv' /\ OccurrencesCounted'
  BY DEF BackwardInv, OccurrencesCounted, Forward
<1> QED BY <1>5, <1>6, <1>7

(* The second loop starts behind the last candidate.                       *)
LEMMA EndForwardStep == CountInv /\ EndForward => CountInv'
<1> SUFFICES ASSUME CountInv, EndForward PROVE CountInv'
  OBVIOUS
<1> USE DEF CountInv
<1>1. Looping /\ i = Len(v) + 1 /\ Len(v) \in Nat /\ Len(v) > 0
  BY DEF EndForward, Looping, ListInv, ForwardInv
<1>2. \A k : Phys(k)' = Phys(k) /\ RunTo(k)' = RunTo(k)
  BY DEF EndForward, Phys, RunTo
<1>3. ListInv'
  BY <1>1, <1>2 DEF EndForward, ListInv, Looping
<1>4. BackwardInv'
  BY <1>1, <1>2 DEF EndForward, BackwardInv, ForwardInv
<1>5. ForwardInv' /\ OccurrencesCounted'
  BY DEF EndForward, ForwardInv, OccurrencesCounted
<1> QED BY <1>3, <1>4, <1>5

(* A round of the second loop.                                             *)
LEMMA BackwardStep == CountInv /\ Backward => CountInv'
<1> SUFFICES ASSUME CountInv, Backward PROVE CountInv'
  OBVIOUS
<1> USE DEF CountInv
<1>1. Looping /\ i \in 1..Len(v) /\ Len(v) \in Nat /\ current_count \in Nat
  BY DEF Backward, Looping, BackwardInv, ListInv
<1>2. \A k : Phys(k)' = Phys(k) /\ RunTo(k)' = RunTo(k) /\ RunOf(k)' = RunOf(k)
  BY DEF Backward, Phys, RunTo, RunOf
<1>3. current_count' = Cardinality(RunOf(i)) /\ current_count' \in Nat
  <2>0. phys_occurrences[i] = Cardinality(RunTo(i)) /\ phys_occurrences[i] \in Nat
    <3>1. phys_occurrences \in [1..Len(v) -> Nat]
      BY <1>1 DEF ListInv
    <3>2. i \in 1..i /\ \A k \in 1..i : phys_occurrences[k] = Cardinality(RunTo(k))
      BY <1>1 DEF Backward, BackwardInv
    <3> QED BY <1>1, <3>1, <3>2
  <2>1. CASE i = Len(v)
    <3>1. RunOf(i) = RunTo(i)
      BY <1>1, <2>1, Runs
    <3>2. current_count' = phys_occurrences[i] \/ current_count' = current_count
      BY DEF Backward
    <3>3. current_phys = Phys(i) => current_count = phys_occurrences[i]
      BY <1>1, <2>0, <2>1 DEF Backward, BackwardInv
    <3> QED BY <2>0, <3>1, <3>2, <3>3 DEF Backward
  <2>2. CASE i < Len(v)
    <3>1. /\ current_phys = Phys(i + 1)
          /\ current_count = Cardinality(RunOf(i + 1))
      BY <1>1, <2>2 DEF Backward, BackwardInv
    <3>2. RunOf(i) = IF Phys(i) = Phys(i + 1) THEN RunOf(i + 1) ELSE RunTo(i)
      BY <1>1, <2>2, Runs
    <3> QED BY <1>1, <2>0, <3>1, <3>2 DEF Backward
  <2> QED BY <1>1, <2>1, <2>2
<1>4. /\ phys_occurrences' \in [1..Len(v) -> Nat]
      /\ phys_occurrences'[i] = current_count'
      /\ \A k \in 1..Len(v) : k # i => phys_occurrences'[k] = phys_occurrences[k]
  BY <1>1, <1>3 DEF Backward, ListInv
<1>5. ListInv'
  BY <1>1, <1>2, <1>4 DEF Backward, ListInv, Looping
<1>6. BackwardInv'
  <2>1. \A k \in 1..i' : phys_occurrences'[k] = Cardinality(RunTo(k))
    BY <1>1, <1>4 DEF Backward, BackwardInv
  <2>2. \A k \in (i' + 1)..Len(v) : phys_occurrences'[k] = Cardinality(RunOf(k))
    BY <1>1, <1>3, <1>4 DEF Backward, BackwardInv
  <2> QED BY <1>1, <1>2, <1>3, <1>4, <2>1, <2>2 DEF Backward, BackwardInv
<1>7. ForwardInv' /\ OccurrencesCounted'
  BY DEF ForwardInv, OccurrencesCounted, Backward
<1> QED BY <1>5, <1>6, <1>7

(* After the second loop every candidate is counted.                       *)
LEMMA EndBackwardStep == CountInv /\ EndBackward => CountInv'
<1> SUFFICES ASSUME CountInv, EndBackward PROVE CountInv'
  OBVIOUS
<1> USE DEF CountInv
<1>1. Looping /\ Len(v) \in Nat /\ DOMAIN v = 1..Len(v)
  BY DEF EndBackward, Looping, ListInv
<1>2. \A k : Phys(k)' = Phys(k) /\ RunOf(k)' = RunOf(k)
  BY DEF EndBackward, Phys, RunOf
<1>3. ListInv'
  BY <1>1, <1>2 DEF EndBackward, ListInv, Looping
<1>4. OccurrencesCounted'
  <2>1. \A k \in DOMAIN v : phys_occurrences[k] = Cardinality(RunOf(k))
    BY <1>1 DEF EndBackward, BackwardInv
  <2> QED BY <1>2, <2>1 DEF EndBackward, OccurrencesCounted, RunOf
<1>5. ForwardInv' /\ BackwardInv'
  BY DEF EndBackward, ForwardInv, BackwardInv
<1> QED BY <1>3, <1>4, <1>5

(* The steps that end the work on a group.                                 *)
LEMMA OtherStep == CountInv /\ (PassOver \/ Select \/ Done) => CountInv'
<1> USE DEF CountInv, ListInv, Looping, ForwardInv, BackwardInv, OccurrencesCounted
<1>1. ASSUME CountInv, PassOver PROVE CountInv'
  BY <1>1 DEF PassOver
<1>2. ASSUME CountInv, Select PROVE CountInv'
  BY <1>2 DEF Select
<1>3. ASSUME CountInv, Done PROVE CountInv'
  BY <1>3 DEF Done, vars, Phys, RunTo, RunOf
<1> QED BY <1>1, <1>2, <1>3

(* No step destroys the counting.                                          *)
LEMMA NextCount == CountInv /\ [Next]_vars => CountInv'
<1> SUFFICES ASSUME CountInv, [Next]_vars PROVE CountInv'
  OBVIOUS
<1>1. CASE UNCHANGED vars
  BY <1>1 DEF vars, CountInv, ListInv, Looping, ForwardInv, BackwardInv,
              OccurrencesCounted, Phys, RunTo, RunOf
<1>2. CASE Next
  BY <1>2, CollectStep, ForwardStep, EndForwardStep, BackwardStep,
     EndBackwardStep, OtherStep DEF Next
<1> QED BY <1>1, <1>2

-----------------------------------------------------------------------------
(* The entries of a group are finitely many.                               *)
LEMMA UsableFinite == IsFiniteSet(Usable) /\ Cardinality(Usable) \in Nat
<1>1. IsFiniteSet(1..N)
  BY FS_Interval, ConstantsAssumption
<1>2. IsFiniteSet(Usable)
  BY <1>1, FS_Subset DEF Usable
<1> QED BY <1>2, FS_CardinalityType

(* Sorting neither drops nor repeats a candidate: a list as long as the    *)
(* set of candidates that holds none twice holds all of them.              *)
LEMMA CollectKeepsAll ==
  ASSUME CountInv, Collect
  PROVE  /\ DOMAIN v' = 1..Cardinality(Usable)
         /\ \A k \in DOMAIN v' : v'[k] \in Usable
         /\ \A k, l \in DOMAIN v' : v'[k] = v'[l] => k = l
         /\ \A e \in Usable : \E k \in DOMAIN v' : v'[k] = e
<1> DEFINE n == Cardinality(Usable)
<1>1. n \in Nat /\ IsFiniteSet(Usable)
  BY UsableFinite
<1>2. v' \in [1..n -> Usable]
  BY DEF Collect
<1>3. \A e \in Usable : entries[e].phys \in Nat /\ e \in Nat
  BY PhysType, ConstantsAssumption DEF CountInv, ListInv, Usable
<1>4. \A k, l \in 1..n : k < l => v'[k] # v'[l]
  BY <1>2, <1>3 DEF Collect, InOrderOfPhys
<1>5. \A k, l \in 1..n : v'[k] = v'[l] => k = l
  <2> SUFFICES ASSUME NEW k \in 1..n, NEW l \in 1..n, v'[k] = v'[l], k # l PROVE FALSE
    OBVIOUS
  <2>1. k < l \/ l < k
    BY <1>1
  <2> QED BY <1>4, <2>1
<1>6. v' \in Injection(1..n, Usable)
  BY <1>2, <1>5 DEF Injection, IsInjective
<1>7. IsFiniteSet(1..n) /\ Cardinality(1..n) = n
  <2> HIDE DEF n
  <2>1. 1 \in Int /\ n \in Int /\ (n = 0 \/ 1 <= n)
    BY <1>1
  <2> QED BY <1>1, <2>1, FS_Interval
<1>8. v' \in Surjection(1..n, Usable)
  <2> HIDE DEF n
  <2> QED BY <1>1, <1>6, <1>7, FS_Injection DEF n
<1>9. \A e \in Usable : \E k \in 1..n : v'[k] = e
  BY <1>8 DEF Surjection
<1> QED BY <1>2, <1>5, <1>9

(* No step before the last one touches the list or chooses anything.       *)
LEMMA NextChoice == CountInv /\ ChoiceInv /\ [Next]_vars => ChoiceInv'
<1> SUFFICES ASSUME CountInv, ChoiceInv, [Next]_vars PROVE ChoiceInv'
  OBVIOUS
<1>1. CASE Collect
  <2>1. Usable' = Usable
    BY <1>1 DEF Collect, Usable
  <2>2. senpai' = 0 /\ dups' = {}
    BY <1>1 DEF Collect, ChoiceInv
  <2> QED BY <1>1, <2>1, <2>2, CollectKeepsAll DEF ChoiceInv
<1>2. CASE Forward \/ EndForward \/ Backward \/ EndBackward \/ UNCHANGED vars
  <2>1. /\ entries' = entries /\ v' = v /\ senpai' = senpai /\ dups' = dups
        /\ (Looping' => Looping) /\ (pc' # "done" => pc # "done")
    BY <1>2 DEF Forward, EndForward, Backward, EndBackward, vars, Looping
  <2>2. Usable' = Usable
    BY <2>1 DEF Usable
  <2> QED BY <2>1, <2>2 DEF ChoiceInv
<1>3. CASE PassOver \/ Select \/ Done
  BY <1>3 DEF PassOver, Select, Done, vars, ChoiceInv, Looping
<1> QED BY <1>1, <1>2, <1>3 DEF Next

(* What is counted over the list is counted over the candidates.           *)
LEMMA CountAt ==
  ASSUME CountInv, ChoiceInv, pc = "select", NEW k \in DOMAIN v
  PROVE  phys_occurrences[k] = Cardinality(At(Phys(k)))
<1> DEFINE A == At(Phys(k))
           f == [l \in RunOf(k) |-> v[l]]
<1>1. Looping
  BY DEF Looping
<1>2. f \in [RunOf(k) -> A]
  BY <1>1 DEF ChoiceInv, RunOf, At, Phys
<1>3. \A a, b \in RunOf(k) : f[a] = f[b] => a = b
  BY <1>1 DEF ChoiceInv, RunOf
<1>4. \A e \in A : \E l \in RunOf(k) : f[l] = e
  BY <1>1 DEF ChoiceInv, RunOf, At, Phys
<1>5. IsFiniteSet(A)
  BY UsableFinite, FS_Subset DEF At
<1>6. f \in Injection(RunOf(k), A) /\ f \in Surjection(RunOf(k), A)
  BY <1>2, <1>3, <1>4 DEF Injection, IsInjective, Surjection
<1>7. Cardinality(RunOf(k)) = Cardinality(A)
  <2> HIDE DEF f, A
  <2> QED BY <1>5, <1>6, FS_Injection
<1>8. phys_occurrences[k] = Cardinality(RunOf(k))
  BY DEF CountInv, OccurrencesCounted, RunOf
<1> QED BY <1>7, <1>8

(* The properties of a candidate that the choice compares are numbers.     *)
LEMMA UsableTypes ==
  ASSUME CountInv, NEW e \in Usable
  PROVE  entries[e].n_extends \in Nat /\ e # 0
<1>1. entries[e] \in EntryProps /\ entries[e].phys # 0 /\ e \in 1..N
  BY DEF CountInv, ListInv, Usable
<1>2. entries[e] # Unplaced
  BY <1>1 DEF Unplaced
<1>3. entries[e] \in [phys : Places, n_extends : Extents, ctime : Ctimes]
  BY <1>1, <1>2 DEF EntryProps
<1>4. entries[e].n_extends \in Nat
  <2>1. entries[e].n_extends \in Extents
    BY <1>3
  <2>2. Extents \subseteq Nat
    BY ConstantsAssumption
  <2> QED BY <2>1, <2>2
<1>5. e # 0
  BY <1>1, ConstantsAssumption
<1> QED BY <1>4, <1>5

(* The choice: no candidate is better than the senpai, and the dups are    *)
(* the candidates elsewhere.                                               *)
LEMMA SelectRight ==
  ASSUME CountInv, ChoiceInv, Select
  PROVE  OnePlaceAfterwards' /\ SenpaiAtCommonPlace'
<1>1. PICK k \in DOMAIN v :
        /\ \A l \in DOMAIN v : l # k => Better(k, l)
        /\ senpai' = v[k]
        /\ dups' = {v[l] : l \in {m \in DOMAIN v :
                      m # k /\ (Aggressive \/ Phys(m) # Phys(k))}}
  BY DEF Select
<1>2. Looping /\ pc = "select" /\ entries' = entries
  BY DEF Looping, Select
<1>3. /\ \A l \in DOMAIN v : v[l] \in Usable
      /\ \A l, m \in DOMAIN v : v[l] = v[m] => l = m
      /\ \A e \in Usable : \E l \in DOMAIN v : v[l] = e
  BY <1>2 DEF ChoiceInv
<1>4. Usable' = Usable /\ \A p : At(p)' = At(p)
  BY <1>2 DEF Usable, At
<1>5. senpai' \in Usable /\ senpai' \notin dups'
  BY <1>1, <1>3
<1>6. ASSUME NEW e \in Usable
      PROVE  e \in dups' \/ entries[e].phys = entries[v[k]].phys
  <2>1. PICK l \in DOMAIN v : v[l] = e
    BY <1>3
  <2>2. CASE l = k \/ Phys(l) = Phys(k)
    BY <2>1, <2>2 DEF Phys
  <2>3. CASE l # k /\ Phys(l) # Phys(k)
    BY <1>1, <2>1, <2>3
  <2> QED BY <2>2, <2>3
<1>7. ASSUME NEW e \in Usable
      PROVE  /\ entries[v[k]].n_extends <= entries[e].n_extends
             /\ entries[v[k]].n_extends = entries[e].n_extends =>
                  Cardinality(At(entries[e].phys)) <= Cardinality(At(entries[v[k]].phys))
  <2>1. PICK l \in DOMAIN v : v[l] = e
    BY <1>3
  <2>2. /\ phys_occurrences[k] = Cardinality(At(entries[v[k]].phys))
        /\ phys_occurrences[l] = Cardinality(At(entries[e].phys))
    BY <1>2, <2>1, CountAt DEF Phys
  <2>3. entries[e].n_extends \in Nat /\ entries[v[k]].n_extends \in Nat
    BY <1>3, UsableTypes
  <2>4. phys_occurrences[k] \in Nat /\ phys_occurrences[l] \in Nat
    BY <1>2 DEF CountInv, ListInv
  <2>5. CASE l = k
    BY <2>1, <2>2, <2>3, <2>4, <2>5
  <2>6. CASE l # k
    <3>1. Better(k, l)
      BY <1>1, <2>6
    <3>2. \/ entries[v[k]].n_extends < entries[v[l]].n_extends
          \/ /\ entries[v[k]].n_extends = entries[v[l]].n_extends
             /\ \/ phys_occurrences[k] > phys_occurrences[l]
                \/ phys_occurrences[k] = phys_occurrences[l]
      BY <3>1 DEF Better
    <3> QED BY <2>1, <2>2, <2>3, <2>4, <3>2
  <2> QED BY <2>5, <2>6
<1>8. OnePlaceAfterwards'
  BY <1>1, <1>2, <1>4, <1>5, <1>6 DEF OnePlaceAfterwards
<1>9. SenpaiAtCommonPlace'
  BY <1>1, <1>2, <1>4, <1>7 DEF SenpaiAtCommonPlace
<1> QED BY <1>8, <1>9

(* The invariant holds in every behaviour of dedup().                      *)
THEOREM Invariance == Spec => []IInv
<1>1. Init => IInv
  <2> SUFFICES ASSUME Init PROVE IInv
    OBVIOUS
  <2>1. pc = "collect" /\ senpai = 0 /\ dups = {}
    BY DEF Init
  <2> QED BY <2>1, InitCount
         DEF IInv, ChoiceInv, Looping, OnePlaceAfterwards, SenpaiAtCommonPlace
<1>2. IInv /\ [Next]_vars => IInv'
  <2> SUFFICES ASSUME IInv, [Next]_vars PROVE IInv'
    OBVIOUS
  <2>1. CountInv' /\ ChoiceInv'
    BY NextCount, NextChoice DEF IInv
  <2>2. OnePlaceAfterwards' /\ SenpaiAtCommonPlace'
    <3>1. CASE Select
      BY <3>1, SelectRight DEF IInv
    <3>2. CASE Collect \/ Forward \/ EndForward \/ Backward \/ EndBackward
      BY <3>2 DEF Collect, Forward, EndForward, Backward, EndBackward,
                  OnePlaceAfterwards, SenpaiAtCommonPlace
    <3>3. CASE PassOver
      <4>1. /\ senpai' = 0 /\ dups' = {} /\ Usable' = Usable
            /\ Cardinality(Usable) \in Nat /\ Cardinality(Usable) < 2
        BY <3>3, UsableFinite DEF PassOver, IInv, ChoiceInv, Usable
      <4> QED BY <4>1 DEF OnePlaceAfterwards, SenpaiAtCommonPlace
    <3>4. CASE Done \/ UNCHANGED vars
      BY <3>4 DEF Done, vars, IInv, OnePlaceAfterwards, SenpaiAtCommonPlace, Usable, At
    <3> QED BY <3>1, <3>2, <3>3, <3>4 DEF Next
  <2> QED BY <2>1, <2>2 DEF IInv
<1> QED BY <1>1, <1>2, PTL DEF Spec

(* For every hash group, of any size and with any places, the number that  *)
(* decides between candidates is the number of candidates at their place.  *)
THEOREM CountsRight == Spec => []OccurrencesCounted
<1>1. IInv => OccurrencesCounted
  BY DEF IInv, CountInv
<1> QED BY <1>1, Invariance, PTL

(* When the dups of any hash group have been given the extents of the      *)
(* senpai, the candidates of the group lie at one place.                   *)
THEOREM OnePlace == Spec => []OnePlaceAfterwards
<1>1. IInv => OnePlaceAfterwards
  BY DEF IInv
<1> QED BY <1>1, Invariance, PTL

(* Among the candidates with the fewest extents the senpai of any hash     *)
(* group lies at the most common place.                                    *)
THEOREM CommonPlaceKept == Spec => []SenpaiAtCommonPlace
<1>1. IInv => SenpaiAtCommonPlace
  BY DEF IInv
<1> QED BY <1>1, Invariance, PTL
=============================================================================
