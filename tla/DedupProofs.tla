---------------------------- MODULE DedupProofs -----------------------------
(***************************************************************************)
(* Proofs about Dedup for every list of groups, every sequence of cache    *)
(* estimates, every limit on open files and everything that files and the  *)
(* kernel may do: the batches of dedup_groups cover the input once, each   *)
(* file of them is counted, and the marks agree with the kernel's answers. *)
(***************************************************************************)
EXTENDS Dedup, FiniteSetTheorems, SequenceTheorems, TLAPS

PairsOf(g) == {g.senpai} \X ToSet(g.dups)

(* The indices of a list of groups, and the elements of a list of dups.    *)
LEMMA Lists ==
  ASSUME NEW S, NEW s \in Seq(S)
  PROVE  /\ Len(s) \in Nat /\ DOMAIN s = 1..Len(s)
         /\ \A k \in DOMAIN s : s[k] \in S
         /\ ToSet(s) = {s[k] : k \in 1..Len(s)}
         /\ s # <<>> => Len(s) > 0
<1>1. Len(s) \in Nat /\ DOMAIN s = 1..Len(s) /\ s \in [1..Len(s) -> S]
  BY LenProperties
<1>2. s # <<>> => Len(s) > 0
  BY EmptySeq
<1>3. ToSet(s) = {s[k] : k \in 1..Len(s)}
  BY <1>1 DEF ToSet
<1> QED
  BY <1>1, <1>2, <1>3

(* Pairs and dups of a list, group by group.                               *)
LEMMA PairsAre ==
  ASSUME NEW gs
  PROVE  /\ \A p : p \in Pairs(gs) <=> \E k \in DOMAIN gs : p \in PairsOf(gs[k])
         /\ \A d : d \in DupsOf(gs) <=> \E k \in DOMAIN gs : d \in ToSet(gs[k].dups)
BY DEF Pairs, PairsOf, DupsOf

(* An empty list.                                                          *)
LEMMA NoGroups ==
  ASSUME NEW gs, gs = <<>>, NEW files
  PROVE  /\ gs \in Seq(Group) /\ Len(gs) = 0
         /\ Pairs(gs) = {} /\ DupsOf(gs) = {} /\ Separate(gs) /\ Outside(gs, files)
<1>1. gs \in Seq(Group) /\ Len(gs) = 0
  BY EmptySeq
<1>2. DOMAIN gs = {}
  BY <1>1, Lists
<1> QED
  BY <1>1, <1>2 DEF Pairs, DupsOf, Separate, Outside

(* The first group of a list is taken away.                                *)
LEMMA TailGroups ==
  ASSUME NEW gs \in Seq(Group), gs # <<>>, Separate(gs)
  PROVE  /\ Head(gs) \in Group /\ Tail(gs) \in Seq(Group)
         /\ Pairs(gs) = PairsOf(Head(gs)) \cup Pairs(Tail(gs))
         /\ Separate(Tail(gs)) /\ IsInjective(Head(gs).dups)
         /\ Outside(Tail(gs), ToSet(Head(gs).dups))
         /\ \A files : Outside(gs, files) =>
              Outside(Tail(gs), files) /\ ToSet(Head(gs).dups) \cap files = {}
<1> DEFINE t == Tail(gs)
<1>1. /\ Len(gs) \in Nat \ {0} /\ DOMAIN gs = 1..Len(gs) /\ 1 \in DOMAIN gs
      /\ \A k \in DOMAIN gs : gs[k] \in Group
  BY Lists
<1>2. Head(gs) = gs[1]
  OBVIOUS
<1>3. t \in Seq(Group) /\ Len(t) = Len(gs) - 1 /\ \A k \in 1..Len(t) : t[k] = gs[k + 1]
  BY HeadTailProperties
<1> HIDE DEF t
<1>4. DOMAIN t = 1..(Len(gs) - 1)
  BY <1>3, Lists
<1>5. \A k \in DOMAIN t : k + 1 \in DOMAIN gs /\ k + 1 # 1 /\ t[k] = gs[k + 1]
  BY <1>1, <1>3, <1>4
<1>6. \A k \in DOMAIN gs : k = 1 \/ (k - 1 \in DOMAIN t /\ t[k - 1] = gs[k])
  BY <1>1, <1>3, <1>4
<1>7. Pairs(gs) = PairsOf(gs[1]) \cup Pairs(t)
  <2>1. \A p : p \in Pairs(gs) <=> \E k \in DOMAIN gs : p \in PairsOf(gs[k])
    BY PairsAre
  <2>2. \A p : p \in Pairs(t) <=> \E k \in DOMAIN t : p \in PairsOf(t[k])
    BY PairsAre
  <2>3. ASSUME NEW p \in Pairs(gs) PROVE p \in PairsOf(gs[1]) \cup Pairs(t)
    BY <1>6, <2>1, <2>2
  <2>4. ASSUME NEW p \in PairsOf(gs[1]) \cup Pairs(t) PROVE p \in Pairs(gs)
    BY <1>1, <1>5, <2>1, <2>2
  <2> QED
    BY <2>3, <2>4
<1>8. Separate(t) /\ IsInjective(gs[1].dups)
  <2>1. \A k, l \in DOMAIN t : k # l => k + 1 # l + 1
    BY <1>4
  <2> QED
    BY <1>1, <1>5, <2>1 DEF Separate
<1>9. Outside(t, ToSet(gs[1].dups))
  BY <1>1, <1>5 DEF Outside, Separate
<1>10. \A files : Outside(gs, files) => Outside(t, files) /\ ToSet(gs[1].dups) \cap files = {}
  BY <1>1, <1>5 DEF Outside
<1> QED
  BY <1>1, <1>2, <1>3, <1>7, <1>8, <1>9, <1>10 DEF t

(* A group is added at the end of a list.                                  *)
LEMMA AppendGroup ==
  ASSUME NEW gs \in Seq(Group), NEW g \in Group, Separate(gs),
         IsInjective(g.dups), Outside(gs, ToSet(g.dups))
  PROVE  /\ Append(gs, g) \in Seq(Group)
         /\ Len(Append(gs, g)) = Len(gs) + 1
         /\ Pairs(Append(gs, g)) = Pairs(gs) \cup PairsOf(g)
         /\ DupsOf(Append(gs, g)) = DupsOf(gs) \cup ToSet(g.dups)
         /\ Separate(Append(gs, g))
         /\ \A k \in DOMAIN Append(gs, g) : Append(gs, g)[k] = g \/ \E l \in DOMAIN gs : Append(gs, g)[k] = gs[l]
<1> DEFINE a == Append(gs, g)
           n == Len(gs) + 1
<1>1. Len(gs) \in Nat /\ DOMAIN gs = 1..Len(gs)
  BY Lists
<1>2. /\ a \in Seq(Group) /\ Len(a) = n
      /\ \A k \in 1..Len(gs) : a[k] = gs[k]
      /\ a[n] = g
  BY AppendProperties
<1>3. DOMAIN a = 1..n
  BY <1>2, Lists
<1> HIDE DEF a
<1>4. DOMAIN a = DOMAIN gs \cup {n} /\ n \notin DOMAIN gs
  BY <1>1, <1>3
<1>5. \A k \in DOMAIN gs : a[k] = gs[k]
  BY <1>1, <1>2
<1> HIDE DEF n
<1>6. Pairs(a) = Pairs(gs) \cup PairsOf(g)
  <2>1. \A p : p \in Pairs(gs) <=> \E k \in DOMAIN gs : p \in PairsOf(gs[k])
    BY PairsAre
  <2>2. \A p : p \in Pairs(a) <=> \E k \in DOMAIN a : p \in PairsOf(a[k])
    BY PairsAre
  <2>3. \A p : p \in Pairs(a) <=> p \in Pairs(gs) \/ p \in PairsOf(g)
    BY <1>2, <1>4, <1>5, <2>1, <2>2
  <2> QED
    BY <2>3
<1>7. DupsOf(a) = DupsOf(gs) \cup ToSet(g.dups)
  <2>1. \A d : d \in DupsOf(gs) <=> \E k \in DOMAIN gs : d \in ToSet(gs[k].dups)
    BY PairsAre
  <2>2. \A d : d \in DupsOf(a) <=> \E k \in DOMAIN a : d \in ToSet(a[k].dups)
    BY PairsAre
  <2>3. \A d : d \in DupsOf(a) <=> d \in DupsOf(gs) \/ d \in ToSet(g.dups)
    BY <1>2, <1>4, <1>5, <2>1, <2>2
  <2> QED
    BY <2>3
<1>8. Separate(a)
  BY <1>2, <1>4, <1>5 DEF Separate, Outside
<1>9. \A k \in DOMAIN a : a[k] = g \/ \E l \in DOMAIN gs : a[k] = gs[l]
  BY <1>2, <1>4, <1>5
<1> QED
  BY <1>2, <1>6, <1>7, <1>8, <1>9 DEF a, n

(* A group is put back in front of a list.                                 *)
LEMMA PushGroup ==
  ASSUME NEW gs \in Seq(Group), NEW g \in Group, Separate(gs),
         IsInjective(g.dups), Outside(gs, ToSet(g.dups))
  PROVE  /\ <<g>> \o gs \in Seq(Group)
         /\ Pairs(<<g>> \o gs) = PairsOf(g) \cup Pairs(gs)
         /\ Separate(<<g>> \o gs)
         /\ \A files : Outside(gs, files) /\ ToSet(g.dups) \cap files = {}
              => Outside(<<g>> \o gs, files)
<1> DEFINE a == <<g>> \o gs
           n == Len(gs) + 1
<1>1. Len(gs) \in Nat /\ DOMAIN gs = 1..Len(gs)
  BY Lists
<1>2. <<g>> \in Seq(Group) /\ Len(<<g>>) = 1 /\ <<g>>[1] = g
  OBVIOUS
<1>3. /\ a \in Seq(Group) /\ Len(a) = n
      /\ \A k \in 1..n : a[k] = IF k <= 1 THEN <<g>>[k] ELSE gs[k - 1]
  BY <1>1, <1>2, ConcatProperties
<1>4. DOMAIN a = 1..n
  BY <1>3, Lists
<1> HIDE DEF a
<1>5. 1 \in DOMAIN a /\ a[1] = g
  BY <1>1, <1>2, <1>3, <1>4
<1>6. \A k \in DOMAIN a : k = 1 \/ (k - 1 \in DOMAIN gs /\ a[k] = gs[k - 1])
  BY <1>1, <1>3, <1>4
<1>7. \A k \in DOMAIN gs : k + 1 \in DOMAIN a /\ a[k + 1] = gs[k]
  BY <1>1, <1>3, <1>4
<1>8. Pairs(a) = PairsOf(g) \cup Pairs(gs)
  <2>1. \A p : p \in Pairs(gs) <=> \E k \in DOMAIN gs : p \in PairsOf(gs[k])
    BY PairsAre
  <2>2. \A p : p \in Pairs(a) <=> \E k \in DOMAIN a : p \in PairsOf(a[k])
    BY PairsAre
  <2>3. ASSUME NEW p \in Pairs(a) PROVE p \in PairsOf(g) \cup Pairs(gs)
    BY <1>5, <1>6, <2>1, <2>2
  <2>4. ASSUME NEW p \in PairsOf(g) \cup Pairs(gs) PROVE p \in Pairs(a)
    BY <1>5, <1>7, <2>1, <2>2
  <2> QED
    BY <2>3, <2>4
<1>9. Separate(a)
  <2>1. ASSUME NEW k \in DOMAIN a
        PROVE  /\ IsInjective(a[k].dups)
               /\ \A l \in DOMAIN a : k # l => ToSet(a[k].dups) \cap ToSet(a[l].dups) = {}
    <3>1. \A l \in DOMAIN a : k # l /\ k # 1 /\ l # 1 => k - 1 # l - 1
      BY <1>1, <1>3, <1>4
    <3>2. CASE k = 1
      BY <1>5, <1>6, <3>2 DEF Outside
    <3>3. CASE k # 1
      BY <1>5, <1>6, <3>1, <3>3 DEF Outside, Separate
    <3> QED
      BY <3>2, <3>3
  <2> QED
    BY <2>1 DEF Separate
<1>10. \A files : Outside(gs, files) /\ ToSet(g.dups) \cap files = {} => Outside(a, files)
  BY <1>5, <1>6 DEF Outside
<1> QED
  BY <1>3, <1>8, <1>9, <1>10 DEF a

(* A list of one group.                                                    *)
LEMMA OneGroup ==
  ASSUME NEW g \in Group, IsInjective(g.dups)
  PROVE  /\ <<g>> \in Seq(Group) /\ Len(<<g>>) = 1
         /\ Pairs(<<g>>) = PairsOf(g) /\ DupsOf(<<g>>) = ToSet(g.dups)
         /\ Separate(<<g>>)
         /\ \A files : Outside(<<g>>, files) <=> ToSet(g.dups) \cap files = {}
<1>1. <<g>> \in Seq(Group) /\ Len(<<g>>) = 1 /\ DOMAIN <<g>> = {1} /\ <<g>>[1] = g
  OBVIOUS
<1>2. Pairs(<<g>>) = PairsOf(g) /\ DupsOf(<<g>>) = ToSet(g.dups)
  BY <1>1 DEF Pairs, DupsOf, PairsOf
<1>3. Separate(<<g>>) /\ \A files : Outside(<<g>>, files) <=> ToSet(g.dups) \cap files = {}
  BY <1>1 DEF Separate, Outside
<1> QED
  BY <1>1, <1>2, <1>3

(* A list of dups is cut: no dup is lost, none is in both halves.          *)
LEMMA CutDups ==
  ASSUME NEW d \in Seq(Ids), IsInjective(d), NEW n \in Nat, 0 < n, n < Len(d)
  PROVE  LET a == SubSeq(d, 1, n)
             b == SubSeq(d, n + 1, Len(d))
         IN  /\ a \in Seq(Ids) /\ a # <<>> /\ IsInjective(a)
             /\ b \in Seq(Ids) /\ IsInjective(b)
             /\ ToSet(a) \cup ToSet(b) = ToSet(d) /\ ToSet(a) \cap ToSet(b) = {}
<1> DEFINE a == SubSeq(d, 1, n)
           b == SubSeq(d, n + 1, Len(d))
           L == Len(d)
<1>1. /\ L \in Nat /\ DOMAIN d = 1..L /\ \A k \in 1..L : d[k] \in Ids
      /\ ToSet(d) = {d[k] : k \in 1..L}
  BY Lists
<1>2. a \in Seq(Ids) /\ Len(a) = n /\ \A k \in 1..n : a[k] = d[k]
  <2>1. \A k \in 1..n : d[k] \in Ids
    BY <1>1
  <2>2. /\ a \in Seq(Ids) /\ Len(a) = IF 1 <= n THEN n - 1 + 1 ELSE 0
        /\ \A k \in 1..(n - 1 + 1) : a[k] = d[1 + k - 1]
    BY <2>1, SubSeqProperties
  <2> HIDE DEF a
  <2> QED
    BY <2>2
<1>3. b \in Seq(Ids) /\ Len(b) = L - n /\ \A k \in 1..(L - n) : b[k] = d[n + k]
  <2>1. \A k \in (n + 1)..L : d[k] \in Ids
    BY <1>1
  <2>2. /\ b \in Seq(Ids) /\ Len(b) = IF n + 1 <= L THEN L - (n + 1) + 1 ELSE 0
        /\ \A k \in 1..(L - (n + 1) + 1) : b[k] = d[n + 1 + k - 1]
    BY <1>1, <2>1, SubSeqProperties
  <2> HIDE DEF b
  <2>3. /\ n + 1 <= L /\ L - (n + 1) + 1 = L - n
        /\ \A k \in 1..(L - n) : n + 1 + k - 1 = n + k
    BY <1>1
  <2> HIDE DEF L
  <2>4. \A k \in 1..(L - n) : b[k] = d[n + 1 + k - 1]
    BY <2>2, <2>3
  <2> QED
    BY <2>2, <2>3, <2>4
<1> HIDE DEF a, b
<1> HIDE DEF L
<1>4. /\ DOMAIN a = 1..n /\ ToSet(a) = {a[k] : k \in 1..n}
      /\ DOMAIN b = 1..(L - n) /\ ToSet(b) = {b[k] : k \in 1..(L - n)}
  <2>1. a \in Seq(Ids) /\ b \in Seq(Ids)
    BY <1>2, <1>3
  <2>2. DOMAIN a = 1..Len(a) /\ ToSet(a) = {a[k] : k \in 1..Len(a)}
    BY <2>1, Lists
  <2>3. DOMAIN b = 1..Len(b) /\ ToSet(b) = {b[k] : k \in 1..Len(b)}
    BY <2>1, Lists
  <2> QED
    BY <1>2, <1>3, <2>2, <2>3
<1>5. a # <<>>
  BY <1>2
<1>6. IsInjective(a)
  BY <1>1, <1>2, <1>4 DEF IsInjective, L
<1>7. IsInjective(b)
  <2>1. ASSUME NEW k \in 1..(L - n), NEW l \in 1..(L - n), b[k] = b[l] PROVE k = l
    <3>1. n + k \in DOMAIN d /\ n + l \in DOMAIN d
      BY <1>1 DEF L
    <3>2. d[n + k] = d[n + l]
      BY <1>3, <2>1
    <3>3. n + k = n + l
      BY <3>1, <3>2 DEF IsInjective
    <3> QED
      BY <3>3
  <2> QED
    BY <1>4, <2>1 DEF IsInjective
<1>8. ToSet(a) = {d[k] : k \in 1..n}
  BY <1>2, <1>4
<1>9. ToSet(b) = {d[k] : k \in (n + 1)..L}
  <2>1. \A k \in (n + 1)..L : k - n \in 1..(L - n) /\ n + (k - n) = k
    BY <1>1
  <2>2. \A k \in 1..(L - n) : n + k \in (n + 1)..L
    BY <1>1
  <2> QED
    BY <1>3, <1>4, <2>1, <2>2
<1>10. 1..L = 1..n \cup (n + 1)..L /\ 1..n \cap (n + 1)..L = {}
  BY <1>1 DEF L
<1>11. ToSet(a) \cup ToSet(b) = ToSet(d)
  BY <1>1, <1>8, <1>9, <1>10
<1>12. ToSet(a) \cap ToSet(b) = {}
  BY <1>1, <1>8, <1>9, <1>10 DEF IsInjective
<1> QED
  BY <1>2, <1>3, <1>5, <1>6, <1>7, <1>11, <1>12 DEF a, b, L

(* 1..n has n elements.                                                    *)
LEMMA UpTo ==
  ASSUME NEW n \in Nat
  PROVE  IsFiniteSet(1..n) /\ Cardinality(1..n) = n
<1>1. IsFiniteSet(1..n) /\ Cardinality(1..n) = IF 1 > n THEN 0 ELSE n - 1 + 1
  BY FS_Interval
<1> QED
  BY <1>1

(* Copies of a set, told apart by the place of the group.                  *)
LEMMA OnePlace ==
  ASSUME NEW S, IsFiniteSet(S)
  PROVE  IsFiniteSet({1} \X S) /\ Cardinality({1} \X S) = Cardinality(S)
<1>1. IsFiniteSet({1}) /\ Cardinality({1}) = 1
  BY FS_Singleton
<1>2. IsFiniteSet({1} \X S) /\ Cardinality({1} \X S) = Cardinality({1}) * Cardinality(S)
  BY <1>1, FS_Product
<1>3. Cardinality(S) \in Nat
  BY FS_CardinalityType
<1>4. 1 * Cardinality(S) = Cardinality(S)
  BY <1>3
<1> QED
  BY <1>1, <1>2, <1>4

(* A batch of one group: its files are its dups and its senpai, all of one *)
(* length.                                                                 *)
LEMMA SumsOfOne ==
  ASSUME NEW g \in Group
  PROVE  /\ FileSum(<<g>>) = Len(g.dups) + 1
         /\ Usage(<<g>>) = (Len(g.dups) + 1) * g.len
<1> DEFINE S == 1..Sum(g)
           B == 1..g.len
<1>1. Len(g.dups) \in Nat /\ Sum(g) = Len(g.dups) + 1 /\ Sum(g) \in Nat /\ g.len \in Nat
  BY Lists DEF Group, Sum
<1>2. FilesOf(<<g>>) = {1} \X S /\ BytesOf(<<g>>) = {1} \X (S \X B)
  <2>1. DOMAIN <<g>> = {1} /\ <<g>>[1] = g
    OBVIOUS
  <2> QED
    BY <2>1 DEF FilesOf, BytesOf
<1>3. IsFiniteSet(S) /\ Cardinality(S) = Sum(g)
  BY <1>1, UpTo
<1>4. IsFiniteSet(B) /\ Cardinality(B) = g.len
  BY <1>1, UpTo
<1> HIDE DEF S, B
<1>5. IsFiniteSet(S \X B) /\ Cardinality(S \X B) = Cardinality(S) * Cardinality(B)
  BY <1>3, <1>4, FS_Product
<1>6. Cardinality({1} \X S) = Cardinality(S)
  BY <1>3, OnePlace
<1>7. Cardinality({1} \X (S \X B)) = Cardinality(S \X B)
  BY <1>5, OnePlace
<1>8. FileSum(<<g>>) = Sum(g)
  BY <1>2, <1>3, <1>6 DEF FileSum
<1>9. Usage(<<g>>) = Sum(g) * g.len
  BY <1>2, <1>3, <1>4, <1>5, <1>7 DEF Usage
<1> QED
  BY <1>1, <1>8, <1>9

(* As many files as the division gives fit.                                *)
LEMMA Quotient ==
  ASSUME NEW c \in Nat, NEW l \in Nat \ {0}, NEW f \in Nat, f <= c \div l
  PROVE  f * l <= c
<1> DEFINE q == c \div l
<1>1. q \in Nat
  OBVIOUS
<1>2. c = l * q + (c % l) /\ c % l \in Nat
  OBVIOUS
<1>3. q * l <= c
  BY <1>1, <1>2
<1>4. f <= q
  OBVIOUS
<1> HIDE DEF q
<1>5. q * l = f * l + (q - f) * l
  BY <1>1
<1>6. (q - f) * l >= 0
  BY <1>1, <1>4
<1> QED
  BY <1>1, <1>3, <1>5, <1>6

-----------------------------------------------------------------------------
(* One lemma for each action that moves groups.                            *)

(* dedup_groups starts with the groups that dedup() has built.             *)
LEMMA InitIInv == Init => IInv
<1> SUFFICES ASSUME Init PROVE IInv
  OBVIOUS
<1>1. work \in Workloads /\ work \in Workload
  BY ConstantsAssumption DEF Init
<1>2. Input \in Seq(Group) /\ cache_max \in Nat
  BY <1>1 DEF Init, Input, Workload
<1>3. Pairs(submit_buf) = {} /\ Separate(submit_buf) /\ DupsOf(submit_buf) = {}
  BY NoGroups DEF Init
<1>4. submit_buf \in Seq(Group) /\ Len(submit_buf) = 0 /\ DOMAIN submit_buf = {}
  <2>1. submit_buf \in Seq(Group) /\ Len(submit_buf) = 0
    BY NoGroups DEF Init
  <2> QED
    BY <2>1, Lists
<1>5. Submitted = {}
  BY DEF Init, Submitted
<1>6. Separate(groups)
  BY <1>1, InputAssumption DEF Init, Input, Separate
<1>7. Outside(groups, {})
  BY DEF Outside
<1>8. Outside(submit_buf, Submitted)
  BY <1>5 DEF Outside
<1>9. Pairs(groups) \cup Pairs(submit_buf) \cup submitted = Pairs(Input)
  BY <1>3 DEF Init
<1>10. DupsOf(submit_buf) \cup Submitted = {}
  BY <1>3, <1>5
<1>11. PlacesInv
  BY <1>3, <1>6, <1>7, <1>8, <1>9, <1>10 DEF PlacesInv
<1>12. FillTypes
  BY <1>1, <1>2, <1>4 DEF Init, FillTypes
<1>13. BatchInv
  BY <1>4 DEF Init, BatchInv
<1> QED
  BY <1>11, <1>12, <1>13 DEF IInv

(* A group moves from the list to the batch.                               *)
LEMMA TakeGroupIInv == IInv /\ TakeGroup => IInv'
<1> SUFFICES ASSUME IInv, TakeGroup PROVE IInv'
  OBVIOUS
<1> DEFINE g == Head(groups)
           rest == Tail(groups)
<1>1. /\ groups \in Seq(Group) /\ groups # <<>> /\ submit_buf \in Seq(Group)
      /\ Separate(groups) /\ Separate(submit_buf)
      /\ Outside(groups, DupsOf(submit_buf) \cup Submitted)
      /\ Outside(submit_buf, Submitted)
      /\ Pairs(groups) \cup Pairs(submit_buf) \cup submitted = Pairs(Input)
  BY DEF IInv, FillTypes, PlacesInv, TakeGroup, CanTake
<1>2. /\ work' = work /\ submitted' = submitted /\ cache_max' = cache_max /\ pc' = pc
      /\ pc = "fill" /\ groups' = rest /\ Input' = Input /\ Submitted' = Submitted
      /\ submit_buf' = IF g.dups = <<>> THEN submit_buf ELSE Append(submit_buf, g)
  BY DEF TakeGroup, Input, Submitted
<1>3. /\ g \in Group /\ rest \in Seq(Group)
      /\ Pairs(groups) = PairsOf(g) \cup Pairs(rest)
      /\ Separate(rest) /\ IsInjective(g.dups) /\ Outside(rest, ToSet(g.dups))
      /\ \A files : Outside(groups, files) =>
           Outside(rest, files) /\ ToSet(g.dups) \cap files = {}
  BY <1>1, TailGroups
<1>4. /\ Outside(rest, DupsOf(submit_buf) \cup Submitted)
      /\ ToSet(g.dups) \cap (DupsOf(submit_buf) \cup Submitted) = {}
  BY <1>1, <1>3
<1> HIDE DEF g, rest
<1>5. CASE g.dups = <<>>
  <2>1. ToSet(g.dups) = {}
    <3>1. g.dups \in Seq(Ids) /\ Len(g.dups) = 0
      BY <1>3, <1>5 DEF Group
    <3> QED
      BY <3>1, Lists
  <2>2. PairsOf(g) = {}
    BY <2>1 DEF PairsOf
  <2>3. submit_buf' = submit_buf
    BY <1>2, <1>5
  <2>4. Pairs(rest) \cup Pairs(submit_buf) \cup submitted = Pairs(Input)
    BY <1>1, <1>3, <2>2
  <2>5. PlacesInv'
    BY <1>1, <1>2, <1>3, <1>4, <2>3, <2>4 DEF PlacesInv
  <2>6. FillTypes' /\ BatchInv'
    BY <1>2, <1>3, <2>3 DEF IInv, FillTypes, BatchInv, Fits
  <2> QED
    BY <2>5, <2>6 DEF IInv
<1>6. CASE g.dups # <<>>
  <2> DEFINE a == Append(submit_buf, g)
  <2>1. Outside(submit_buf, ToSet(g.dups))
    BY <1>4 DEF Outside, DupsOf
  <2>2. /\ a \in Seq(Group) /\ Len(a) = Len(submit_buf) + 1
        /\ Pairs(a) = Pairs(submit_buf) \cup PairsOf(g)
        /\ DupsOf(a) = DupsOf(submit_buf) \cup ToSet(g.dups)
        /\ Separate(a)
        /\ \A k \in DOMAIN a : a[k] = g \/ \E l \in DOMAIN submit_buf : a[k] = submit_buf[l]
    BY <1>1, <1>3, <2>1, AppendGroup
  <2>3. Len(submit_buf) \in Nat /\ (submit_buf = <<>> => Len(submit_buf) = 0)
    BY <1>1, Lists
  <2>4. submit_buf # <<>> => Fits(a)
    BY <1>6 DEF TakeGroup, CanTake, g
  <2> HIDE DEF a
  <2>5. submit_buf' = a
    BY <1>2, <1>6 DEF a
  <2>6. Outside(rest, DupsOf(a) \cup Submitted)
    BY <1>3, <1>4, <2>2 DEF Outside
  <2>7. Outside(a, Submitted)
    BY <1>1, <1>4, <2>2 DEF Outside
  <2>8. Pairs(rest) \cup Pairs(a) \cup submitted = Pairs(Input)
    BY <1>1, <1>3, <2>2
  <2>9. PlacesInv'
    BY <1>2, <1>3, <2>2, <2>5, <2>6, <2>7, <2>8 DEF PlacesInv
  <2>10. FillTypes'
    BY <1>2, <1>3, <2>2, <2>5 DEF IInv, FillTypes
  <2>11. \A k \in DOMAIN a : a[k].dups # <<>>
    BY <1>6, <2>2 DEF IInv, BatchInv
  <2>12. Len(a) > 1 => Fits(a)
    BY <2>2, <2>3, <2>4
  <2>13. BatchInv'
    <3>1. pc' = "fill"
      BY <1>2
    <3> QED
      BY <1>2, <2>5, <2>11, <2>12, <3>1 DEF BatchInv, Fits
  <2> QED
    BY <2>9, <2>10, <2>13 DEF IInv
<1> QED
  BY <1>5, <1>6

(* The end of a group that is too large moves back to the list.            *)
LEMMA SplitEndIInv == IInv /\ SplitEnd => IInv'
<1> SUFFICES ASSUME IInv, SplitEnd PROVE IInv'
  OBVIOUS
<1> DEFINE g == submit_buf[1]
           n == max_group_files - 1
           a == SubSeq(g.dups, 1, n)
           b == SubSeq(g.dups, n + 1, Len(g.dups))
           ga == [g EXCEPT !.dups = a]
           gb == [g EXCEPT !.dups = b]
<1>1. /\ groups \in Seq(Group) /\ submit_buf \in Seq(Group) /\ cache_max \in Nat
      /\ Separate(groups) /\ Separate(submit_buf)
      /\ Outside(groups, DupsOf(submit_buf) \cup Submitted)
      /\ Outside(submit_buf, Submitted)
      /\ Pairs(groups) \cup Pairs(submit_buf) \cup submitted = Pairs(Input)
  BY DEF IInv, FillTypes, PlacesInv
<1>2. /\ work' = work /\ submitted' = submitted /\ cache_max' = cache_max /\ pc' = pc
      /\ Input' = Input /\ Submitted' = Submitted
  BY DEF SplitEnd, Input, Submitted
<1>3. submit_buf' = <<ga>> /\ groups' = <<gb>> \o groups
  BY DEF SplitEnd
<1>4. g \in Group /\ submit_buf = <<g>> /\ pc = "fill"
  <2>1. pc = "fill" /\ submit_buf # <<>> /\ ~(Len(submit_buf) > 1)
    BY DEF SplitEnd, TooLarge, IInv, BatchInv
  <2> HIDE DEF g
  <2>2. Len(submit_buf) \in Nat /\ Len(submit_buf) > 0
    BY <1>1, <2>1, Lists
  <2>3. \A m \in Nat : m > 0 /\ ~(m > 1) => m = 1
    OBVIOUS
  <2>4. Len(submit_buf) = 1
    BY <2>1, <2>2, <2>3
  <2> QED
    BY <1>1, <2>1, <2>4 DEF g
<1>5. g.senpai \in Ids /\ g.dups \in Seq(Ids) /\ g.len \in Nat \ {0} /\ Len(g.dups) \in Nat
  BY <1>4, Lists DEF Group
<1>6. n \in Nat /\ 0 < n /\ n < Len(g.dups)
  <2>1. max_group_files < Len(g.dups) + 1
    <3>1. FileSum(submit_buf) = Len(g.dups) + 1
      BY <1>4, SumsOfOne
    <3> QED
      BY <3>1 DEF SplitEnd
  <2>2. max_group_files \in Nat /\ max_group_files >= 2
    <3>1. cache_max \div g.len \in Nat
      BY <1>1, <1>5
    <3>2. MaxDups \in Nat
      BY ConstantsAssumption
    <3> QED
      BY <3>1, <3>2 DEF max_group_files, Maximum, Minimum
  <2> QED
    BY <1>5, <2>1, <2>2
<1>7. Separate(<<g>>) /\ Outside(<<g>>, Submitted)
  BY <1>1, <1>4
<1>8. IsInjective(g.dups)
  BY <1>7 DEF Separate
<1>9. /\ Pairs(submit_buf) = PairsOf(g) /\ DupsOf(submit_buf) = ToSet(g.dups)
      /\ ToSet(g.dups) \cap Submitted = {}
  <2>1. /\ Pairs(<<g>>) = PairsOf(g) /\ DupsOf(<<g>>) = ToSet(g.dups)
        /\ \A files : Outside(<<g>>, files) <=> ToSet(g.dups) \cap files = {}
    BY <1>4, <1>8, OneGroup
  <2> HIDE DEF g
  <2> QED
    BY <1>4, <1>7, <2>1
<1>10. /\ a \in Seq(Ids) /\ a # <<>> /\ IsInjective(a)
       /\ b \in Seq(Ids) /\ IsInjective(b)
       /\ ToSet(a) \cup ToSet(b) = ToSet(g.dups) /\ ToSet(a) \cap ToSet(b) = {}
  <2> HIDE DEF g, n
  <2> QED
    BY <1>5, <1>6, <1>8, CutDups
<1> HIDE DEF n, a, b
<1>11. /\ ga \in Group /\ ga.dups = a /\ ga.senpai = g.senpai
       /\ gb \in Group /\ gb.dups = b /\ gb.senpai = g.senpai
  <2> HIDE DEF g
  <2> QED
    BY <1>4, <1>5, <1>10 DEF Group
<1> HIDE DEF g, ga, gb
<1>12. PairsOf(g) = PairsOf(ga) \cup PairsOf(gb)
  BY <1>10, <1>11 DEF PairsOf
<1>13. Outside(groups, ToSet(a)) /\ Outside(groups, ToSet(b)) /\ Outside(groups, Submitted)
  BY <1>1, <1>9, <1>10 DEF Outside
<1>14. /\ <<ga>> \in Seq(Group) /\ Len(<<ga>>) = 1
       /\ Pairs(<<ga>>) = PairsOf(ga) /\ DupsOf(<<ga>>) = ToSet(a)
       /\ Separate(<<ga>>) /\ Outside(<<ga>>, Submitted)
  <2>1. ToSet(a) \cap Submitted = {}
    BY <1>9, <1>10
  <2>2. IsInjective(ga.dups)
    BY <1>10, <1>11
  <2> QED
    BY <1>11, <2>1, <2>2, OneGroup
<1>15. /\ <<gb>> \o groups \in Seq(Group)
       /\ Pairs(<<gb>> \o groups) = PairsOf(gb) \cup Pairs(groups)
       /\ Separate(<<gb>> \o groups)
       /\ Outside(<<gb>> \o groups, ToSet(a) \cup Submitted)
  <2>1. IsInjective(gb.dups) /\ Outside(groups, ToSet(gb.dups))
    BY <1>10, <1>11, <1>13
  <2>2. Outside(groups, ToSet(a) \cup Submitted)
    BY <1>13 DEF Outside
  <2>3. ToSet(gb.dups) \cap (ToSet(a) \cup Submitted) = {}
    BY <1>9, <1>10, <1>11
  <2> QED
    BY <1>1, <1>11, <2>1, <2>2, <2>3, PushGroup
<1>16. PlacesInv'
  <2> DEFINE s == <<ga>>
             r == <<gb>> \o groups
  <2>1. Pairs(r) \cup Pairs(s) \cup submitted = Pairs(Input)
    BY <1>1, <1>9, <1>12, <1>14, <1>15
  <2>2. /\ Separate(r) /\ Separate(s) /\ Outside(r, DupsOf(s) \cup Submitted)
        /\ Outside(s, Submitted)
    BY <1>14, <1>15
  <2>3. submit_buf' = s /\ groups' = r
    BY <1>3
  <2> HIDE DEF s, r
  <2> QED
    BY <1>2, <2>1, <2>2, <2>3 DEF PlacesInv
<1>17. FillTypes'
  BY <1>1, <1>2, <1>3, <1>14, <1>15 DEF IInv, FillTypes
<1>18. BatchInv'
  <2>1. Len(submit_buf') = 1 /\ submit_buf'[1].dups # <<>> /\ DOMAIN submit_buf' = {1}
    BY <1>3, <1>10, <1>11
  <2>2. pc' = "fill"
    BY <1>2, <1>4
  <2> QED
    BY <2>1, <2>2 DEF BatchInv
<1> QED
  BY <1>16, <1>17, <1>18 DEF IInv

(* A batch has been submitted.                                             *)
LEMMA EndBatchIInv ==
  ASSUME IInv, EndBatch, work' = work, groups' = groups
  PROVE  IInv'
<1>1. /\ groups \in Seq(Group) /\ submit_buf \in Seq(Group)
      /\ Separate(groups) /\ Outside(groups, DupsOf(submit_buf) \cup Submitted)
      /\ Pairs(groups) \cup Pairs(submit_buf) \cup submitted = Pairs(Input)
  BY DEF IInv, FillTypes, PlacesInv
<1>2. /\ submitted' = submitted \cup Pairs(submit_buf) /\ submit_buf' = <<>>
      /\ cache_max' \in work.cache_maxes /\ pc' = "fill" /\ Input' = Input
  BY DEF EndBatch, Input
<1>3. cache_max' \in Nat
  BY <1>2, ConstantsAssumption DEF IInv, FillTypes, Workload
<1>4. /\ submit_buf' \in Seq(Group) /\ Len(submit_buf') = 0
      /\ Pairs(submit_buf') = {} /\ DupsOf(submit_buf') = {} /\ Separate(submit_buf')
      /\ \A files : Outside(submit_buf', files)
  BY <1>2, NoGroups
<1>5. DOMAIN submit_buf' = {}
  BY <1>4, Lists
<1>6. Submitted' \subseteq Submitted \cup DupsOf(submit_buf)
  <2>1. ASSUME NEW p \in Pairs(submit_buf) PROVE p[2] \in DupsOf(submit_buf)
    BY PairsAre DEF PairsOf
  <2> QED
    BY <1>2, <2>1 DEF Submitted
<1>7. Outside(groups, {} \cup Submitted')
  BY <1>1, <1>6 DEF Outside
<1>8. Pairs(groups) \cup {} \cup submitted' = Pairs(Input)
  BY <1>1, <1>2
<1>9. PlacesInv'
  BY <1>1, <1>2, <1>4, <1>7, <1>8 DEF PlacesInv
<1>10. FillTypes' /\ BatchInv'
  BY <1>1, <1>2, <1>3, <1>4, <1>5 DEF IInv, FillTypes, BatchInv
<1> QED
  BY <1>9, <1>10 DEF IInv

(* The other steps leave the groups where they are; the loop ends when     *)
(* there are none.                                                         *)
LEMMA OtherIInv ==
  ASSUME IInv, UNCHANGED <<work, groups, submit_buf, cache_max, submitted>>,
         pc' = "fill" => pc = "fill",
         pc' = "done" => groups = <<>> /\ submit_buf = <<>>
  PROVE  IInv'
<1>1. FillTypes'
  BY DEF IInv, FillTypes
<1>2. PlacesInv'
  BY DEF IInv, PlacesInv, Submitted, Input
<1>3. BatchInv'
  BY DEF IInv, BatchInv, Fits
<1> QED
  BY <1>1, <1>2, <1>3 DEF IInv

-----------------------------------------------------------------------------
(* Every step of the program and of those who modify files preserves it.   *)
LEMMA NextIInv == IInv /\ [Next]_vars => IInv'
<1> SUFFICES ASSUME IInv, [Next]_vars PROVE IInv'
  OBVIOUS
<1> DEFINE kept == UNCHANGED <<work, groups, submit_buf, cache_max, submitted>>
           ends == pc' = "done" => groups = <<>> /\ submit_buf = <<>>
<1>1. CASE TakeGroup
  BY <1>1, TakeGroupIInv
<1>2. CASE SplitEnd
  BY <1>2, SplitEndIInv
<1>3. CASE Submit
  BY <1>3, OtherIInv DEF Submit
<1>4. CASE Return
  BY <1>4, OtherIInv DEF Return
<1>5. CASE SimulateBatch
  BY <1>5, EndBatchIInv DEF SimulateBatch
<1>6. CASE OpenGroup
  BY <1>6, OtherIInv DEF OpenGroup
<1>7. CASE OpenSenpaiFails
  BY <1>7, OtherIInv DEF OpenSenpaiFails
<1>8. CASE AllOpened
  BY <1>8, OtherIInv DEF AllOpened
<1>9. ASSUME NEW ok \in BOOLEAN, DedupGroup(ok) PROVE IInv'
  <2>1. kept /\ pc' \in {"account", "retry"}
    BY <1>9 DEF DedupGroup
  <2> QED
    BY <2>1, OtherIInv
<1>10. ASSUME NEW k \in {"error", "same", "differs"}, RetryDup(k) PROVE IInv'
  <2>1. kept /\ pc' = "retry"
    BY <1>10 DEF RetryDup
  <2> QED
    BY <2>1, OtherIInv
<1>11. CASE EndRetry
  BY <1>11, OtherIInv DEF EndRetry
<1>12. CASE Account
  BY <1>12, OtherIInv DEF Account
<1>13. CASE BatchDone
  BY <1>13, EndBatchIInv DEF BatchDone
<1>14. ASSUME NEW f \in Ids, NEW s \in {"changed", "resized", "gone"}, Change(f, s)
       PROVE  IInv'
  <2>1. kept /\ pc' = pc /\ pc # "done"
    BY <1>14 DEF Change
  <2> QED
    BY <2>1, OtherIInv
<1>15. CASE UNCHANGED vars
  <2>1. kept /\ pc' = pc
    BY <1>15 DEF vars
  <2>2. ends
    BY <2>1 DEF IInv, BatchInv
  <2> QED
    BY <2>1, <2>2, OtherIInv
<1> QED
  BY <1>1, <1>2, <1>3, <1>4, <1>5, <1>6, <1>7, <1>8, <1>9, <1>10, <1>11, <1>12, <1>13,
     <1>14, <1>15 DEF Next, Program, Done

(* No dup of a list is a dup of a set of files, nor a pair of one of the   *)
(* other.                                                                  *)
LEMMA PairsApart ==
  ASSUME NEW gs, NEW ps, Outside(gs, {p[2] : p \in ps})
  PROVE  Pairs(gs) \cap ps = {}
<1> SUFFICES ASSUME NEW p \in Pairs(gs), p \in ps PROVE FALSE
  OBVIOUS
<1>1. PICK k \in DOMAIN gs : p \in PairsOf(gs[k])
  BY PairsAre
<1>2. p[2] \in ToSet(gs[k].dups)
  BY <1>1 DEF PairsOf
<1> QED
  BY <1>2 DEF Outside

(* Places apart for the dups are apart for the pairs.                      *)
LEMMA PlacesApart == IInv => EachDupOnce
<1> SUFFICES ASSUME IInv PROVE EachDupOnce
  OBVIOUS
<1>1. /\ Outside(groups, DupsOf(submit_buf) \cup Submitted)
      /\ Outside(submit_buf, Submitted)
      /\ Pairs(groups) \cup Pairs(submit_buf) \cup submitted = Pairs(Input)
  BY DEF IInv, PlacesInv
<1>2. Pairs(submit_buf) \cap submitted = {}
  BY <1>1, PairsApart DEF Submitted
<1>3. Pairs(groups) \cap submitted = {}
  <2>1. Outside(groups, Submitted)
    BY <1>1 DEF Outside
  <2> QED
    BY <2>1, PairsApart DEF Submitted
<1>4. Pairs(groups) \cap Pairs(submit_buf) = {}
  <2>1. ASSUME NEW p \in Pairs(submit_buf) PROVE p[2] \in DupsOf(submit_buf)
    BY PairsAre DEF PairsOf
  <2>2. Outside(groups, {p[2] : p \in Pairs(submit_buf)})
    BY <1>1, <2>1 DEF Outside
  <2> QED
    BY <2>2, PairsApart
<1>5. ASSUME pc = "done" PROVE submitted = Pairs(Input)
  <2>1. groups = <<>> /\ submit_buf = <<>>
    BY <1>5 DEF IInv, BatchInv
  <2>2. Pairs(groups) = {} /\ Pairs(submit_buf) = {}
    BY <2>1, NoGroups
  <2> QED
    BY <1>1, <2>2
<1> QED
  BY <1>1, <1>2, <1>3, <1>4, <1>5 DEF EachDupOnce

-----------------------------------------------------------------------------
(* A batch that is too large is a single group; one that cannot be cut is  *)
(* a pair: as many files as the cache and the limit allow would fit.       *)
LEMMA AssertsHold == IInv => ChecklistAsserts
<1> SUFFICES ASSUME IInv, TooLarge
             PROVE  /\ Len(submit_buf) = 1
                    /\ max_group_files >= FileSum(submit_buf) =>
                         max_group_files = 2 /\ FileSum(submit_buf) = 2
  BY DEF ChecklistAsserts
<1> DEFINE g == submit_buf[1]
           q == cache_max \div g.len
<1>1. submit_buf \in Seq(Group) /\ cache_max \in Nat /\ MaxDups \in Nat
  BY ConstantsAssumption DEF IInv, FillTypes
<1>2. Len(submit_buf) = 1
  <2>1. submit_buf # <<>> /\ ~(Len(submit_buf) > 1)
    BY DEF TooLarge, IInv, BatchInv
  <2>2. Len(submit_buf) \in Nat /\ Len(submit_buf) > 0
    BY <1>1, <2>1, Lists
  <2>3. \A m \in Nat : m > 0 /\ ~(m > 1) => m = 1
    OBVIOUS
  <2> QED
    BY <2>1, <2>2, <2>3
<1>3. g \in Group /\ submit_buf = <<g>> /\ g.dups # <<>>
  <2>1. 1 \in DOMAIN submit_buf
    BY <1>1, <1>2
  <2> QED
    BY <1>1, <1>2, <2>1 DEF IInv, BatchInv
<1>4. /\ g.len \in Nat \ {0} /\ Len(g.dups) \in Nat /\ Len(g.dups) > 0
  <2>1. g.dups \in Seq(Ids) /\ g.len \in Nat \ {0}
    BY <1>3 DEF Group
  <2> HIDE DEF g
  <2> QED
    BY <1>3, <2>1, Lists
<1>5. q \in Nat
  BY <1>1, <1>4
<1>6. max_group_files = Maximum(2, Minimum(q, MaxDups))
  BY DEF max_group_files
<1> HIDE DEF g
<1>7. FileSum(submit_buf) = Len(g.dups) + 1 /\ Usage(submit_buf) = (Len(g.dups) + 1) * g.len
  BY <1>3, SumsOfOne
<1>8. ASSUME Len(g.dups) + 1 <= q, Len(g.dups) + 1 <= MaxDups PROVE FALSE
  <2>1. Len(g.dups) + 1 \in Nat
    BY <1>4
  <2>2. (Len(g.dups) + 1) * g.len <= cache_max
    BY <1>1, <1>4, <1>8, <2>1, Quotient
  <2>3. Fits(submit_buf)
    BY <1>7, <1>8, <2>2 DEF Fits
  <2> QED
    BY <2>3 DEF TooLarge
<1> HIDE DEF q
<1>9. ASSUME max_group_files >= Len(g.dups) + 1
      PROVE  max_group_files = 2 /\ Len(g.dups) + 1 = 2
  <2> DEFINE n == Len(g.dups) + 1
  <2>1. n \in Nat /\ n >= 2 /\ ~(n <= q /\ n <= MaxDups)
    BY <1>4, <1>8
  <2> HIDE DEF n
  <2>2. Maximum(2, Minimum(q, MaxDups)) >= n
    BY <1>6, <1>9 DEF n
  <2>3. Maximum(2, Minimum(q, MaxDups)) = 2 /\ n = 2
    BY <1>1, <1>5, <2>1, <2>2 DEF Maximum, Minimum
  <2> QED
    BY <1>6, <2>3 DEF n
<1> QED
  BY <1>2, <1>7, <1>9

Busy == {"batch", "ioctl", "retry", "account"}

(* A batch that is submitted fits or is a pair, and stays as it is.        *)
LEMMA NextFits == IInv /\ BatchFits /\ [Next]_vars => BatchFits'
<1> SUFFICES ASSUME IInv, BatchFits, [Next]_vars PROVE BatchFits'
  OBVIOUS
<1> USE DEF Busy
<1> DEFINE same == submit_buf' = submit_buf /\ cache_max' = cache_max
<1>1. ASSUME pc \in Busy, same PROVE BatchFits'
  BY <1>1 DEF BatchFits, FileSum, Usage, FilesOf, BytesOf
<1>2. ASSUME pc' \notin Busy PROVE BatchFits'
  BY <1>2 DEF BatchFits
<1>3. CASE TakeGroup
  BY <1>2, <1>3 DEF TakeGroup
<1>4. CASE SplitEnd
  BY <1>2, <1>4 DEF SplitEnd, TooLarge
<1>5. CASE Submit
  <2>1. same
    BY <1>5 DEF Submit
  <2>2. CASE Fits(submit_buf)
    BY <2>1, <2>2 DEF Fits, BatchFits, FileSum, Usage, FilesOf, BytesOf
  <2>3. CASE ~Fits(submit_buf)
    <3>1. TooLarge /\ max_group_files >= FileSum(submit_buf)
      BY <1>5, <2>3 DEF Submit, TooLarge
    <3>2. FileSum(submit_buf) = 2
      BY <3>1, AssertsHold DEF ChecklistAsserts
    <3>3. FileSum(submit_buf)' = 2
      BY <2>1, <3>2 DEF FileSum, FilesOf
    <3>4. 2 <= MaxDups
      BY ConstantsAssumption
    <3> QED
      BY <3>3, <3>4 DEF BatchFits
  <2> QED
    BY <2>2, <2>3
<1>6. CASE Return
  BY <1>2, <1>6 DEF Return
<1>7. CASE SimulateBatch
  BY <1>2, <1>7 DEF SimulateBatch, EndBatch
<1>8. CASE OpenGroup
  BY <1>1, <1>8 DEF OpenGroup
<1>9. CASE OpenSenpaiFails
  BY <1>1, <1>9 DEF OpenSenpaiFails
<1>10. CASE AllOpened
  BY <1>1, <1>10 DEF AllOpened
<1>11. ASSUME NEW ok \in BOOLEAN, DedupGroup(ok) PROVE BatchFits'
  BY <1>1, <1>11 DEF DedupGroup
<1>12. ASSUME NEW k \in {"error", "same", "differs"}, RetryDup(k) PROVE BatchFits'
  BY <1>1, <1>12 DEF RetryDup
<1>13. CASE EndRetry
  BY <1>1, <1>13 DEF EndRetry
<1>14. CASE Account
  BY <1>1, <1>14 DEF Account
<1>15. CASE BatchDone
  BY <1>2, <1>15 DEF BatchDone, EndBatch
<1>16. ASSUME same, pc' = pc PROVE BatchFits'
  BY <1>1, <1>2, <1>16
<1>17. ASSUME NEW f \in Ids, NEW s \in {"changed", "resized", "gone"}, Change(f, s)
       PROVE  BatchFits'
  BY <1>16, <1>17 DEF Change
<1>18. CASE UNCHANGED vars
  BY <1>16, <1>18 DEF vars
<1> QED
  BY <1>3, <1>4, <1>5, <1>6, <1>7, <1>8, <1>9, <1>10, <1>11, <1>12, <1>13, <1>14, <1>15,
     <1>17, <1>18 DEF Next, Program, Done

(* The loop of dedup_groups keeps every dup in one place.                  *)
THEOREM Invariance == Spec => []IInv
<1> QED
  BY InitIInv, NextIInv, PTL DEF Spec

(* Splitting and batching neither loses a dup nor submits one twice: each  *)
(* pair of the input is in the list, in the batch or submitted, in one of  *)
(* them, and all are submitted when dedup_groups returns.                  *)
THEOREM DupsSubmittedOnce == Spec => []EachDupOnce
<1> QED
  BY Invariance, PlacesApart, PTL

(* The assertions of the loop that splits groups hold, and a batch never   *)
(* has more files than max_dups_per_group or more bytes than the page      *)
(* cache, unless it is a pair.                                             *)
THEOREM BatchesFit == Spec => [](ChecklistAsserts /\ BatchFits)
<1>1. Init => BatchFits
  BY DEF Init, BatchFits
<1> QED
  BY <1>1, Invariance, NextFits, AssertsHold, PTL DEF Spec
-----------------------------------------------------------------------------
(* What happens to the files of the batches: first the lists of files.     *)

(* The dups of a list without repetitions, counted.                        *)
LEMMA CountDups ==
  ASSUME NEW d \in Seq(Ids), IsInjective(d)
  PROVE  IsFiniteSet(ToSet(d)) /\ Cardinality(ToSet(d)) = Len(d)
<1>1. /\ Len(d) \in Nat /\ DOMAIN d = 1..Len(d) /\ \A k \in DOMAIN d : d[k] \in Ids
      /\ ToSet(d) = {d[k] : k \in 1..Len(d)}
  BY Lists
<1>2. IsFiniteSet(1..Len(d)) /\ Cardinality(1..Len(d)) = Len(d)
  BY <1>1, UpTo
<1> DEFINE f == [k \in 1..Len(d) |-> d[k]]
<1>3. f \in Bijection(1..Len(d), ToSet(d))
  BY <1>1 DEF Bijection, Injection, Surjection, IsInjective
<1> HIDE DEF f
<1>4. ExistsBijection(1..Len(d), ToSet(d))
  BY <1>3 DEF ExistsBijection
<1> QED
  BY <1>2, <1>4, FS_Bijection

(* Sets without a common element are counted one after the other.          *)
LEMMA JoinCount ==
  ASSUME NEW S, IsFiniteSet(S), NEW T, IsFiniteSet(T), S \cap T = {}
  PROVE  /\ IsFiniteSet(S \cup T)
         /\ Cardinality(S \cup T) = Cardinality(S) + Cardinality(T)
<1>1. /\ IsFiniteSet(S \cup T)
      /\ Cardinality(S \cup T) = Cardinality(S) + Cardinality(T) - Cardinality(S \cap T)
  BY FS_Union
<1>2. Cardinality(S \cap T) = 0
  BY FS_EmptySet
<1>3. Cardinality(S) \in Nat /\ Cardinality(T) \in Nat
  BY FS_CardinalityType
<1> QED
  BY <1>1, <1>2, <1>3

(* What is left of a list of dups.                                         *)
LEMMA LeftDups ==
  ASSUME NEW d \in Seq(Ids), IsInjective(d), NEW bad, NEW e \in Left(d, bad)
  PROVE  e \in Seq(Ids) /\ IsInjective(e) /\ ToSet(e) = ToSet(d) \ bad
<1> DEFINE good == {k \in DOMAIN d : d[k] \notin bad}
           n == Cardinality(good)
<1>1. Len(d) \in Nat /\ DOMAIN d = 1..Len(d) /\ \A k \in DOMAIN d : d[k] \in Ids
  BY Lists
<1>2. n \in Nat
  <2>1. IsFiniteSet(1..Len(d)) /\ good \subseteq 1..Len(d)
    BY <1>1, UpTo
  <2> QED
    BY <2>1, FS_Subset, FS_CardinalityType
<1>3. PICK q \in [1..n -> good] :
        /\ ToSet(q) = good /\ \A k, l \in DOMAIN q : k < l => q[k] < q[l]
        /\ e = [k \in DOMAIN q |-> d[q[k]]]
  BY DEF Left
<1>4. DOMAIN q = 1..n /\ \A k \in 1..n : q[k] \in good /\ q[k] \in Nat
  BY <1>1, <1>3
<1> HIDE DEF n
<1>5. e \in [1..n -> Ids] /\ DOMAIN e = 1..n /\ \A k \in 1..n : e[k] = d[q[k]]
  BY <1>1, <1>3, <1>4
<1>6. e \in Seq(Ids)
  BY <1>2, <1>5, SeqDef
<1>7. ASSUME NEW k \in 1..n, NEW l \in 1..n, e[k] = e[l] PROVE k = l
  <2>1. q[k] = q[l]
    BY <1>4, <1>5, <1>7 DEF IsInjective
  <2>2. ~(k < l) /\ ~(l < k)
    BY <1>3, <1>4, <2>1
  <2> QED
    BY <1>2, <2>2
<1>8. ToSet(e) = {d[k] : k \in good}
  <2>1. ToSet(e) = {e[k] : k \in 1..n} /\ good = {q[k] : k \in 1..n}
    BY <1>3, <1>4, <1>5 DEF ToSet
  <2> HIDE DEF good
  <2> QED
    BY <1>5, <2>1
<1>9. {d[k] : k \in good} = ToSet(d) \ bad
  BY DEF ToSet
<1> QED
  BY <1>5, <1>6, <1>7, <1>8, <1>9 DEF IsInjective

(* Each dup of separate groups is in one pair.                             *)
LEMMA CountPairs ==
  ASSUME NEW gs \in Seq(Group), Separate(gs)
  PROVE  /\ IsFiniteSet(DupsOf(gs)) /\ IsFiniteSet(Pairs(gs))
         /\ Cardinality(Pairs(gs)) = Cardinality(DupsOf(gs))
         /\ DupsOf(gs) = {p[2] : p \in Pairs(gs)}
<1>1. Len(gs) \in Nat /\ DOMAIN gs = 1..Len(gs) /\ \A k \in DOMAIN gs : gs[k] \in Group
  BY Lists
<1>2. IsFiniteSet(DupsOf(gs))
  <2> DEFINE sets == {ToSet(gs[k].dups) : k \in DOMAIN gs}
  <2>1. IsFiniteSet(1..Len(gs))
    BY <1>1, UpTo
  <2>2. IsFiniteSet(sets)
    <3> DEFINE f == [k \in 1..Len(gs) |-> ToSet(gs[k].dups)]
    <3>1. f \in Surjection(1..Len(gs), sets)
      BY <1>1 DEF Surjection
    <3> HIDE DEF f
    <3> QED
      BY <2>1, <3>1, FS_Surjection
  <2>3. ASSUME NEW T \in sets PROVE IsFiniteSet(T)
    <3>1. PICK k \in DOMAIN gs : T = ToSet(gs[k].dups)
      OBVIOUS
    <3>2. gs[k].dups \in Seq(Ids) /\ IsInjective(gs[k].dups)
      BY <1>1 DEF Group, Separate
    <3> QED
      BY <3>1, <3>2, CountDups
  <2> HIDE DEF sets
  <2>4. IsFiniteSet(UNION sets)
    BY <2>2, <2>3, FS_UNION
  <2> QED
    BY <2>4 DEF sets, DupsOf
<1>3. \A p : p \in Pairs(gs) <=> \E k \in DOMAIN gs : p \in PairsOf(gs[k])
  BY PairsAre
<1>4. \A d : d \in DupsOf(gs) <=> \E k \in DOMAIN gs : d \in ToSet(gs[k].dups)
  BY PairsAre
<1>5. ASSUME NEW d \in DupsOf(gs) PROVE \E p \in Pairs(gs) : p[2] = d
  <2>1. PICK k \in DOMAIN gs : d \in ToSet(gs[k].dups)
    BY <1>4
  <2>2. <<gs[k].senpai, d>> \in PairsOf(gs[k])
    BY <2>1 DEF PairsOf
  <2> QED
    BY <1>3, <2>2
<1>6. \A p \in Pairs(gs) : p[2] \in DupsOf(gs)
  BY <1>3, <1>4 DEF PairsOf
<1>7. ASSUME NEW p \in Pairs(gs), NEW r \in Pairs(gs), p[2] = r[2] PROVE p = r
  <2>1. PICK k \in DOMAIN gs : p \in PairsOf(gs[k])
    BY <1>3
  <2>2. PICK l \in DOMAIN gs : r \in PairsOf(gs[l])
    BY <1>3
  <2>3. p[2] \in ToSet(gs[k].dups) /\ p[2] \in ToSet(gs[l].dups)
    BY <1>7, <2>1, <2>2 DEF PairsOf
  <2>4. k = l
    BY <2>3 DEF Separate
  <2> QED
    BY <1>7, <2>1, <2>2, <2>4 DEF PairsOf
<1> DEFINE f == [d \in DupsOf(gs) |-> CHOOSE p \in Pairs(gs) : p[2] = d]
<1>8. f \in Bijection(DupsOf(gs), Pairs(gs))
  <2>1. \A d \in DupsOf(gs) : f[d] \in Pairs(gs) /\ f[d][2] = d
    BY <1>5
  <2>2. f \in [DupsOf(gs) -> Pairs(gs)]
    BY <2>1
  <2> HIDE DEF f
  <2>3. \A p \in Pairs(gs) : f[p[2]] = p
    BY <1>6, <1>7, <2>1
  <2> QED
    BY <1>6, <2>1, <2>2, <2>3 DEF Bijection, Injection, Surjection, IsInjective
<1> HIDE DEF f
<1>9. ExistsBijection(DupsOf(gs), Pairs(gs))
  BY <1>8 DEF ExistsBijection
<1>10. IsFiniteSet(Pairs(gs)) /\ Cardinality(Pairs(gs)) = Cardinality(DupsOf(gs))
  BY <1>2, <1>9, FS_Bijection
<1> QED
  BY <1>2, <1>5, <1>6, <1>10

(* The dups of a group by their statuses.                                  *)
LEMMA Statuses ==
  ASSUME NEW g \in Group, IsInjective(g.dups), NEW r, DOMAIN r = DOMAIN g.dups
  PROVE  /\ \A s : With(g, r, s) \subseteq ToSet(g.dups)
         /\ \A s, t : s # t => With(g, r, s) \cap With(g, r, t) = {}
         /\ \A d \in ToSet(g.dups) : \E k \in DOMAIN r : d = g.dups[k] /\ d \in With(g, r, r[k])
         /\ \A s : With(g, r, s) # {} => \E k \in DOMAIN r : r[k] = s
BY DEF With, ToSet, IsInjective

-----------------------------------------------------------------------------
(* Which dups of the batch have been opened, phase by phase.               *)

(* The batch and what has been submitted have no dup in common.            *)
LEMMA BatchApart ==
  ASSUME IInv
  PROVE  /\ submit_buf \in Seq(Group) /\ Separate(submit_buf)
         /\ DupsOf(submit_buf) \cap Submitted = {}
         /\ Tried \subseteq DupsOf(submit_buf) /\ Tried \cap Submitted = {}
         /\ IsFiniteSet(Submitted) /\ IsFiniteSet(DupsOf(submit_buf))
<1>1. submit_buf \in Seq(Group) /\ Separate(submit_buf) /\ Outside(submit_buf, Submitted)
  BY DEF IInv, FillTypes, PlacesInv
<1>2. DupsOf(submit_buf) \cap Submitted = {}
  BY <1>1, PairsAre DEF Outside
<1>3. Tried \subseteq DupsOf(submit_buf)
  BY DEF Tried, TriedGroups, DupsOf
<1>4. IsFiniteSet(DupsOf(submit_buf))
  BY <1>1, CountPairs
<1>5. IsFiniteSet(Submitted)
  <2>1. work \in Workload
    BY ConstantsAssumption DEF IInv, FillTypes
  <2>2. Input \in Seq(Group) /\ Separate(Input)
    BY <2>1, InputAssumption DEF Input, Workload, Separate, IInv, FillTypes
  <2>3. IsFiniteSet(DupsOf(Input)) /\ DupsOf(Input) = {p[2] : p \in Pairs(Input)}
    BY <2>2, CountPairs
  <2>4. submitted \subseteq Pairs(Input)
    BY DEF IInv, PlacesInv
  <2>5. Submitted \subseteq DupsOf(Input)
    BY <2>3, <2>4 DEF Submitted
  <2> QED
    BY <2>3, <2>5, FS_Subset
<1> QED
  BY <1>1, <1>2, <1>3, <1>4, <1>5

(* The dups that are counted are finitely many.                            *)
LEMMA CountedFinite ==
  ASSUME IInv
  PROVE  IsFiniteSet(Counted) /\ Cardinality(Counted) \in Nat
<1>1. /\ IsFiniteSet(Submitted) /\ IsFiniteSet(DupsOf(submit_buf))
      /\ Tried \subseteq DupsOf(submit_buf)
  BY BatchApart
<1>2. IsFiniteSet(Submitted \cup DupsOf(submit_buf))
  BY <1>1, FS_Union
<1>3. Counted \subseteq Submitted \cup DupsOf(submit_buf)
  BY <1>1 DEF Counted
<1> QED
  BY <1>2, <1>3, FS_Subset, FS_CardinalityType

(* Outside of a batch nothing has been opened; once the files of a batch   *)
(* are open, all of it has.                                                *)
LEMMA TriedIs ==
  /\ pc \in {"fill", "done"} => Tried = {}
  /\ pc \in {"ioctl", "retry", "account"} => Tried = DupsOf(submit_buf)
<1>1. ASSUME pc \in {"fill", "done"} PROVE Tried = {}
  <2>1. TriedGroups = {}
    BY <1>1 DEF TriedGroups
  <2> QED
    BY <2>1 DEF Tried
<1>2. ASSUME pc \in {"ioctl", "retry", "account"} PROVE Tried = DupsOf(submit_buf)
  <2>1. TriedGroups = DOMAIN submit_buf
    BY <1>2 DEF TriedGroups
  <2> QED
    BY <2>1 DEF Tried, DupsOf
<1> QED
  BY <1>1, <1>2

(* The loop that fills a batch touches no file.                            *)
LEMMA FillFilesInv ==
  ASSUME IInv, IInv', FilesInv, pc = "fill", pc' \in {"fill", "batch", "done"},
         at' \in Nat \ {0}, pc' = "batch" => at' = 1,
         UNCHANGED <<work, cache_max, opened, answer, file, counters, skipped, submitted>>
  PROVE  FilesInv'
<1>1. Tried = {}
  BY TriedIs
<1>2. Tried' = {}
  <2>1. TriedGroups' = {}
    <3>1. submit_buf' \in Seq(Group)
      BY DEF IInv, FillTypes
    <3>2. Len(submit_buf') \in Nat /\ DOMAIN submit_buf' = 1..Len(submit_buf')
      BY <3>1, Lists
    <3>3. \A k \in DOMAIN submit_buf' : ~(k < 1)
      BY <3>2
    <3> QED
      BY <3>3 DEF TriedGroups
  <2> QED
    BY <2>1 DEF Tried
<1>3. opened = <<>> /\ opened' = <<>> /\ Submitted' = Submitted
  BY DEF FilesInv, OpenInv, Submitted
<1>4. Counted' = Counted
  BY <1>1, <1>2, <1>3 DEF Counted
<1>5. TypeOK'
  BY DEF FilesInv, TypeOK, counters, IInv, FillTypes
<1>6. OpenInv'
  BY <1>1, <1>2, <1>3 DEF FilesInv, OpenInv, counters, Asked
<1>7. MarkInv'
  BY <1>1, <1>2, <1>3 DEF FilesInv, MarkInv, counters, Asked, Waiting
<1>8. processed' = Cardinality(Counted)'
  BY <1>4 DEF FilesInv, counters
<1> QED
  BY <1>5, <1>6, <1>7, <1>8 DEF FilesInv

(* A batch is over: its dups have been submitted.                          *)
LEMMA EndBatchSubmitted ==
  ASSUME IInv, TypeOK, EndBatch
  PROVE  /\ Submitted' = Submitted \cup DupsOf(submit_buf) /\ Tried' = {}
         /\ submitted' \in SUBSET (Ids \X Ids) /\ submit_buf' \in Seq(Group)
<1>1. /\ submitted' = submitted \cup Pairs(submit_buf) /\ submit_buf' = <<>> /\ pc' = "fill"
  BY DEF EndBatch
<1>2. submit_buf \in Seq(Group) /\ DupsOf(submit_buf) = {p[2] : p \in Pairs(submit_buf)}
  BY BatchApart, CountPairs
<1>3. Submitted' = Submitted \cup DupsOf(submit_buf)
  BY <1>1, <1>2 DEF Submitted
<1>4. Tried' = {}
  <2>1. TriedGroups' = {}
    BY <1>1 DEF TriedGroups
  <2> QED
    BY <2>1 DEF Tried
<1>5. Pairs(submit_buf) \subseteq Ids \X Ids
  <2>1. ASSUME NEW p \in Pairs(submit_buf) PROVE p \in Ids \X Ids
    <3>1. PICK k \in DOMAIN submit_buf : p \in PairsOf(submit_buf[k])
      BY PairsAre
    <3>2. submit_buf[k] \in Group
      BY <1>2, Lists
    <3>3. submit_buf[k].dups \in Seq(Ids) /\ submit_buf[k].senpai \in Ids
      BY <3>2 DEF Group
    <3>4. ToSet(submit_buf[k].dups) \subseteq Ids
      BY <3>3, Lists
    <3> QED
      BY <3>1, <3>3, <3>4 DEF PairsOf
  <2> QED
    BY <2>1
<1>6. submit_buf' \in Seq(Group)
  BY <1>1, NoGroups
<1> QED
  BY <1>1, <1>3, <1>4, <1>5, <1>6 DEF TypeOK

(* A simulated batch is counted as a whole.                                *)
LEMMA SimulateFilesInv ==
  ASSUME IInv, FilesInv, SimulateBatch
  PROVE  FilesInv'
<1>1. /\ work.simulate /\ pc = "batch" /\ pc' = "fill" /\ at = 1 /\ at' = at
      /\ opened = <<>> /\ opened' = opened /\ skipped' = skipped
      /\ processed' = processed + Cardinality(Pairs(submit_buf))
  BY DEF SimulateBatch, EndBatch, FilesInv, OpenInv
<1>2. /\ Submitted' = Submitted \cup DupsOf(submit_buf) /\ Tried' = {}
      /\ submitted' \in SUBSET (Ids \X Ids) /\ submit_buf' \in Seq(Group)
  BY EndBatchSubmitted DEF SimulateBatch, FilesInv
<1>3. Tried = {}
  <2>1. submit_buf \in Seq(Group)
    BY BatchApart
  <2>2. Len(submit_buf) \in Nat /\ DOMAIN submit_buf = 1..Len(submit_buf)
    BY <2>1, Lists
  <2>3. TriedGroups = {}
    BY <1>1, <2>2 DEF TriedGroups
  <2> QED
    BY <2>3 DEF Tried
<1>4. DupsOf(opened) = {} /\ DupsOf(opened') = {} /\ Separate(opened')
  BY <1>1, NoGroups
<1>5. skipped \subseteq Submitted
  BY <1>3 DEF FilesInv, OpenInv
<1>6. /\ DupsOf(submit_buf) \cap Submitted = {} /\ IsFiniteSet(DupsOf(submit_buf))
      /\ IsFiniteSet(Submitted)
  BY BatchApart
<1>7. Counted = Submitted \ skipped
  BY <1>3, <1>4 DEF Counted
<1>8. Counted' = Counted \cup DupsOf(submit_buf) /\ Counted \cap DupsOf(submit_buf) = {}
  BY <1>1, <1>2, <1>4, <1>5, <1>6, <1>7 DEF Counted
<1>9. processed' = Cardinality(Counted)'
  <2>1. IsFiniteSet(Counted) /\ processed = Cardinality(Counted)
    BY CountedFinite DEF FilesInv
  <2>2. Cardinality(Pairs(submit_buf)) = Cardinality(DupsOf(submit_buf))
    BY BatchApart, CountPairs
  <2>3. Cardinality(Counted \cup DupsOf(submit_buf))
          = Cardinality(Counted) + Cardinality(DupsOf(submit_buf))
    BY <1>6, <1>8, <2>1, JoinCount
  <2> QED
    BY <1>1, <1>8, <2>1, <2>2, <2>3
<1>10. processed' \in Nat
  <2>1. IsFiniteSet(Counted')
    <3>1. IsFiniteSet(Counted)
      BY CountedFinite
    <3> QED
      BY <1>6, <1>8, <3>1, FS_Union
  <2> QED
    BY <1>9, <2>1, FS_CardinalityType
<1>11. TypeOK'
  BY <1>2, <1>10 DEF SimulateBatch, EndBatch, FilesInv, TypeOK
<1>12. OpenInv'
  BY <1>1, <1>2, <1>4, <1>5 DEF SimulateBatch, OpenInv, Asked
<1>13. MarkInv'
  BY <1>1, <1>2, <1>3, <1>4 DEF SimulateBatch, FilesInv, MarkInv, Asked, Waiting
<1> QED
  BY <1>9, <1>11, <1>12, <1>13 DEF FilesInv

(* The end of a batch whose groups have gone through the kernel.           *)
LEMMA BatchDoneFilesInv ==
  ASSUME IInv, FilesInv, BatchDone
  PROVE  FilesInv'
<1>1. pc = "ioctl" /\ pc' = "fill" /\ opened = <<>> /\ opened' = <<>> /\ skipped' = skipped
  BY DEF BatchDone, EndBatch
<1>2. /\ Submitted' = Submitted \cup DupsOf(submit_buf) /\ Tried' = {}
      /\ submitted' \in SUBSET (Ids \X Ids) /\ submit_buf' \in Seq(Group)
  BY EndBatchSubmitted DEF BatchDone, FilesInv
<1>3. Tried = DupsOf(submit_buf)
  BY <1>1, TriedIs
<1>4. DupsOf(opened') = {} /\ Separate(opened')
  BY <1>1, NoGroups
<1>5. Counted' = Counted
  BY <1>1, <1>2, <1>3 DEF Counted
<1>6. TypeOK'
  BY <1>2 DEF BatchDone, EndBatch, counters, FilesInv, TypeOK
<1>7. OpenInv'
  BY <1>1, <1>2, <1>3, <1>4 DEF BatchDone, FilesInv, OpenInv, Asked
<1>8. MarkInv'
  BY <1>1, <1>2, <1>3, <1>4 DEF BatchDone, counters, FilesInv, MarkInv, Asked, Waiting
<1>9. processed' = Cardinality(Counted)'
  BY <1>5 DEF BatchDone, counters, FilesInv
<1> QED
  BY <1>6, <1>7, <1>8, <1>9 DEF FilesInv

(* The next group of a batch: its dups come into play, all at once.        *)
LEMMA NextTried ==
  ASSUME IInv, FilesInv, pc = "batch", pc' = "batch", at <= Len(submit_buf), at' = at + 1,
         submit_buf' = submit_buf
  PROVE  /\ at \in DOMAIN submit_buf /\ submit_buf[at] \in Group
         /\ IsInjective(submit_buf[at].dups)
         /\ Tried' = Tried \cup ToSet(submit_buf[at].dups)
         /\ ToSet(submit_buf[at].dups) \cap (Tried \cup Submitted) = {}
<1>1. submit_buf \in Seq(Group) /\ Separate(submit_buf) /\ DupsOf(submit_buf) \cap Submitted = {}
  BY BatchApart
<1>2. /\ Len(submit_buf) \in Nat /\ DOMAIN submit_buf = 1..Len(submit_buf)
      /\ \A k \in DOMAIN submit_buf : submit_buf[k] \in Group
  BY <1>1, Lists
<1>3. at \in Nat \ {0}
  BY DEF FilesInv, TypeOK
<1>4. at \in DOMAIN submit_buf
  BY <1>2, <1>3
<1>5. TriedGroups' = TriedGroups \cup {at} /\ at \notin TriedGroups /\ TriedGroups \subseteq DOMAIN submit_buf
  <2>1. \A k \in DOMAIN submit_buf : k < at + 1 <=> k < at \/ k = at
    BY <1>2, <1>3
  <2> QED
    BY <1>3, <1>4, <2>1 DEF TriedGroups
<1>6. Tried' = Tried \cup ToSet(submit_buf[at].dups)
  BY <1>5 DEF Tried
<1>7. ToSet(submit_buf[at].dups) \cap Tried = {}
  BY <1>1, <1>4, <1>5 DEF Tried, Separate
<1>8. ToSet(submit_buf[at].dups) \cap Submitted = {}
  BY <1>1, <1>4, PairsAre
<1> QED
  BY <1>1, <1>2, <1>4, <1>6, <1>7, <1>8 DEF Separate

(* Some files of a group are opened, the others are left out.              *)
LEMMA OpenFilesInv ==
  ASSUME IInv, FilesInv, OpenGroup
  PROVE  FilesInv'
<1> DEFINE g == submit_buf[at]
<1>1. /\ ~work.simulate /\ pc = "batch" /\ pc' = pc /\ at <= Len(submit_buf) /\ at' = at + 1
      /\ UNCHANGED <<work, groups, submit_buf, cache_max, answer, file, counters, submitted>>
      /\ Submitted' = Submitted
  BY DEF OpenGroup, Submitted
<1>2. /\ g \in Group /\ IsInjective(g.dups) /\ Tried' = Tried \cup ToSet(g.dups)
      /\ ToSet(g.dups) \cap (Tried \cup Submitted) = {}
  BY <1>1, NextTried
<1>3. PICK bad \in SUBSET ToSet(g.dups) :
        /\ \E left \in Left(g.dups, bad) : opened' = Append(opened, [g EXCEPT !.dups = left])
        /\ skipped' = skipped \cup bad
  BY DEF OpenGroup
<1> PICK left \in Left(g.dups, bad) : opened' = Append(opened, [g EXCEPT !.dups = left])
  BY <1>3
<1> DEFINE h == [g EXCEPT !.dups = left]
<1> HIDE DEF g
<1>4. g.dups \in Seq(Ids) /\ ToSet(g.dups) \subseteq Ids
  BY <1>2, Lists DEF Group
<1>5. left \in Seq(Ids) /\ IsInjective(left) /\ ToSet(left) = ToSet(g.dups) \ bad
  BY <1>2, <1>4, LeftDups
<1>6. h \in Group /\ h.dups = left
  BY <1>2, <1>5 DEF Group
<1> HIDE DEF h
<1>7. /\ opened \in Seq(Group) /\ Separate(opened) /\ DupsOf(opened) \subseteq Tried
      /\ DupsOf(opened) \cap skipped = {} /\ skipped \subseteq Submitted \cup Tried
  BY DEF FilesInv, TypeOK, OpenInv
<1>8. Outside(opened, ToSet(h.dups))
  BY <1>2, <1>5, <1>6, <1>7, PairsAre DEF Outside
<1>9. /\ opened' \in Seq(Group) /\ DupsOf(opened') = DupsOf(opened) \cup ToSet(left)
      /\ Separate(opened')
  BY <1>3, <1>5, <1>6, <1>7, <1>8, AppendGroup DEF h
<1>10. DupsOf(opened') \cap skipped' = {} /\ skipped' \subseteq Submitted \cup Tried'
  BY <1>2, <1>3, <1>5, <1>7, <1>9
<1>11. Counted' = Counted
  BY <1>1, <1>2, <1>3, <1>5, <1>7, <1>9 DEF Counted
<1>12. TypeOK'
  BY <1>1, <1>3, <1>4, <1>9 DEF counters, FilesInv, TypeOK
<1>13. OpenInv'
  BY <1>1, <1>2, <1>5, <1>7, <1>9, <1>10 DEF OpenInv, Asked
<1>14. MarkInv'
  <2>1. /\ Waiting = opened /\ Waiting' = opened' /\ ~Asked /\ ~Asked'
    BY <1>1 DEF Waiting, Asked
  <2> QED
    BY <1>1, <1>2, <1>5, <1>9, <2>1 DEF counters, FilesInv, MarkInv
<1>15. processed' = Cardinality(Counted)'
  BY <1>1, <1>11 DEF counters, FilesInv
<1> QED
  BY <1>12, <1>13, <1>14, <1>15 DEF FilesInv

(* A group without its senpai is left out.                                 *)
LEMMA SkipFilesInv ==
  ASSUME IInv, FilesInv, OpenSenpaiFails
  PROVE  FilesInv'
<1> DEFINE d == submit_buf[at].dups
<1>1. /\ ~work.simulate /\ pc = "batch" /\ pc' = pc /\ at <= Len(submit_buf) /\ at' = at + 1
      /\ UNCHANGED <<work, groups, submit_buf, cache_max, answer, file, counters, submitted, opened>>
      /\ Submitted' = Submitted /\ skipped' = skipped \cup ToSet(d)
  BY DEF OpenSenpaiFails, Submitted
<1>2. /\ submit_buf[at] \in Group /\ Tried' = Tried \cup ToSet(d)
      /\ ToSet(d) \cap (Tried \cup Submitted) = {}
  BY <1>1, NextTried
<1>3. ToSet(d) \subseteq Ids
  BY <1>2, Lists DEF Group
<1> HIDE DEF d
<1>4. /\ opened \in Seq(Group) /\ Separate(opened) /\ DupsOf(opened) \subseteq Tried
      /\ DupsOf(opened) \cap skipped = {} /\ skipped \subseteq Submitted \cup Tried
  BY DEF FilesInv, TypeOK, OpenInv
<1>5. Counted' = Counted
  BY <1>1, <1>2, <1>4 DEF Counted
<1>6. TypeOK'
  BY <1>1, <1>3 DEF counters, FilesInv, TypeOK
<1>7. OpenInv'
  BY <1>1, <1>2, <1>4 DEF OpenInv, Asked
<1>8. MarkInv'
  BY <1>1, <1>2 DEF counters, FilesInv, MarkInv, Waiting, Asked
<1>9. processed' = Cardinality(Counted)'
  BY <1>1, <1>5 DEF counters, FilesInv
<1> QED
  BY <1>6, <1>7, <1>8, <1>9 DEF FilesInv

(* All files of the batch are open.                                        *)
LEMMA AllOpenedFilesInv ==
  ASSUME IInv, FilesInv, AllOpened
  PROVE  FilesInv'
<1>1. /\ ~work.simulate /\ pc = "batch" /\ pc' = "ioctl" /\ at > Len(submit_buf)
      /\ UNCHANGED <<work, groups, submit_buf, cache_max, at, opened, answer, file, counters,
                     skipped, submitted>>
      /\ Submitted' = Submitted
  BY DEF AllOpened, Submitted
<1>2. Tried' = Tried
  <2>1. submit_buf \in Seq(Group) /\ at \in Nat
    BY BatchApart DEF FilesInv, TypeOK
  <2>2. Len(submit_buf) \in Nat /\ DOMAIN submit_buf = 1..Len(submit_buf)
    BY <2>1, Lists
  <2>3. \A k \in DOMAIN submit_buf : k < at
    BY <1>1, <2>1, <2>2
  <2>4. TriedGroups' = TriedGroups
    BY <1>1, <2>3 DEF TriedGroups
  <2> QED
    BY <1>1, <2>4 DEF Tried
<1>3. TypeOK' /\ processed' = Cardinality(Counted)'
  BY <1>1, <1>2 DEF FilesInv, TypeOK, counters, Counted
<1>4. OpenInv'
  BY <1>1, <1>2 DEF FilesInv, OpenInv, Asked
<1>5. MarkInv'
  BY <1>1, <1>2 DEF FilesInv, MarkInv, counters, Waiting, Asked
<1> QED
  BY <1>3, <1>4, <1>5 DEF FilesInv

(* The first open group.                                                   *)
LEMMA FirstOpen ==
  ASSUME FilesInv, opened # <<>>
  PROVE  /\ Cur \in Group /\ IsInjective(Cur.dups) /\ Cur.dups \in Seq(Ids)
         /\ ToSet(Cur.dups) \subseteq Ids /\ Tail(opened) \in Seq(Group) /\ Separate(Tail(opened))
         /\ DupsOf(opened) = ToSet(Cur.dups) \cup DupsOf(Tail(opened))
         /\ ToSet(Cur.dups) \cap DupsOf(Tail(opened)) = {}
<1>1. opened \in Seq(Group) /\ Separate(opened)
  BY DEF FilesInv, TypeOK, OpenInv
<1>2. /\ Cur \in Group /\ Tail(opened) \in Seq(Group) /\ IsInjective(Cur.dups)
      /\ Separate(Tail(opened)) /\ Outside(Tail(opened), ToSet(Cur.dups))
      /\ Pairs(opened) = PairsOf(Cur) \cup Pairs(Tail(opened))
  BY <1>1, TailGroups DEF Cur
<1>3. Cur.dups \in Seq(Ids)
  BY <1>2 DEF Group
<1>4. ToSet(Cur.dups) \subseteq Ids
  BY <1>3, Lists
<1>5. ToSet(Cur.dups) \cap DupsOf(Tail(opened)) = {}
  BY <1>2, PairsAre DEF Outside
<1>6. /\ DupsOf(opened) = {p[2] : p \in Pairs(opened)}
      /\ DupsOf(Tail(opened)) = {p[2] : p \in Pairs(Tail(opened))}
  BY <1>1, <1>2, CountPairs
<1>7. {p[2] : p \in PairsOf(Cur)} = ToSet(Cur.dups)
  <2>1. ASSUME NEW d \in ToSet(Cur.dups) PROVE \E p \in PairsOf(Cur) : p[2] = d
    <3>1. <<Cur.senpai, d>> \in PairsOf(Cur) /\ <<Cur.senpai, d>>[2] = d
      BY DEF PairsOf
    <3> QED
      BY <3>1
  <2>2. \A p \in PairsOf(Cur) : p[2] \in ToSet(Cur.dups)
    BY DEF PairsOf
  <2> QED
    BY <2>1, <2>2
<1>8. DupsOf(opened) = ToSet(Cur.dups) \cup DupsOf(Tail(opened))
  BY <1>2, <1>6, <1>7
<1> QED
  BY <1>2, <1>3, <1>4, <1>5, <1>8

(* The kernel is asked about the whole group.                              *)
LEMMA DedupGroupFilesInv ==
  ASSUME IInv, FilesInv, NEW ok \in BOOLEAN, DedupGroup(ok)
  PROVE  FilesInv'
<1>1. /\ pc = "ioctl" /\ opened # <<>> /\ at' = 1
      /\ UNCHANGED <<work, groups, submit_buf, cache_max, opened, file, dedup_state, told,
                     processed, deduped, skipped, submitted>>
      /\ Submitted' = Submitted /\ Cur' = Cur
  BY DEF DedupGroup, Submitted, Cur
<1>2. PICK r \in Answers(Cur) :
        /\ linked' = IF ok THEN linked \cup With(Cur, r, "same") ELSE linked
        /\ answer' = Decoded(ok, r)
        /\ pc' = IF ok /\ With(Cur, r, "error") = {} THEN "account" ELSE "retry"
  BY DEF DedupGroup
<1>3. /\ Cur \in Group /\ IsInjective(Cur.dups) /\ Cur.dups \in Seq(Ids)
      /\ ToSet(Cur.dups) \subseteq Ids
      /\ DupsOf(opened) = ToSet(Cur.dups) \cup DupsOf(Tail(opened))
      /\ ToSet(Cur.dups) \cap DupsOf(Tail(opened)) = {}
  BY <1>1, FirstOpen
<1>4. /\ r \in [DOMAIN Cur.dups -> {"error", "same", "differs"}] /\ DOMAIN r = DOMAIN Cur.dups
  BY DEF Answers
<1>5. Tried = DupsOf(submit_buf) /\ Tried' = Tried
  <2>1. pc \in {"ioctl", "retry", "account"} /\ pc' \in {"ioctl", "retry", "account"}
    BY <1>1, <1>2
  <2>2. TriedGroups = DOMAIN submit_buf /\ TriedGroups' = DOMAIN submit_buf
    BY <1>1, <2>1 DEF TriedGroups
  <2> QED
    BY <1>1, <2>2 DEF Tried, DupsOf
<1>6. /\ Len(Cur.dups) \in Nat /\ DOMAIN Cur.dups = 1..Len(Cur.dups)
  BY <1>3, Lists
<1>7. /\ DOMAIN answer' = DOMAIN Cur.dups
      /\ \A j \in DOMAIN r : answer'[j] = IF ok /\ \A l \in 1..j : r[l] # "error" THEN r[j]
                                                                      ELSE "untouched"
  BY <1>2, <1>4 DEF Decoded
<1>8. \A j \in DOMAIN r : /\ answer'[j] \in {"same", "differs", "untouched"}
                          /\ answer'[j] # "untouched" => ok /\ answer'[j] = r[j]
  <2>1. \A j \in DOMAIN r : j \in 1..j
    BY <1>4, <1>6
  <2> QED
    BY <1>4, <1>7, <2>1
<1>9. answer' \in Seq({"same", "differs", "untouched"})
  <2>1. answer' \in [1..Len(Cur.dups) -> {"same", "differs", "untouched"}]
    BY <1>2, <1>4, <1>6, <1>7, <1>8 DEF Decoded
  <2> QED
    BY <1>6, <2>1, SeqDef
<1>10. /\ \A s : With(Cur, r, s) \subseteq ToSet(Cur.dups)
       /\ \A s, t : s # t => With(Cur, r, s) \cap With(Cur, r, t) = {}
  BY <1>3, <1>4, Statuses
<1>11. Asked' /\ ~Asked
  BY <1>1, <1>2 DEF Asked
<1>12. DupsOf(opened) \cap (linked \cup dedup_state) = {} /\ linked \cup dedup_state \subseteq Submitted \cup Tried
       /\ linked \subseteq dedup_state /\ DupsOf(opened) \subseteq Tried
  BY <1>11 DEF FilesInv, MarkInv, OpenInv, Waiting
<1>13. TypeOK'
  <2>1. linked' \in SUBSET Ids
    BY <1>2, <1>3, <1>10 DEF FilesInv, TypeOK
  <2>2. pc' \in {"retry", "account"}
    BY <1>2
  <2>3. at' \in Nat \ {0}
    BY <1>1
  <2> QED
    BY <1>1, <1>9, <2>1, <2>2, <2>3 DEF FilesInv, TypeOK
<1>14. OpenInv'
  <2>1. ~work.simulate /\ pc' \in {"retry", "account"}
    BY <1>1, <1>2 DEF FilesInv, OpenInv
  <2> QED
    BY <1>1, <1>5, <1>7, <2>1 DEF FilesInv, OpenInv
<1>15. Waiting' = Tail(opened)
  BY <1>1, <1>11 DEF Waiting
<1>16. linked' \subseteq linked \cup ToSet(Cur.dups)
  BY <1>2, <1>10
<1>17. linked' \cup dedup_state' \subseteq Submitted' \cup Tried'
  BY <1>1, <1>3, <1>5, <1>12, <1>16
<1>18. DupsOf(Waiting') \cap (linked' \cup dedup_state') = {}
  BY <1>1, <1>3, <1>12, <1>15, <1>16
<1>19. linked' \subseteq dedup_state' \cup (ToSet(Cur.dups) \ With(Cur, answer', "differs"))
  <2>1. With(Cur, answer', "differs") \subseteq With(Cur, r, "differs")
    BY <1>4, <1>7, <1>8 DEF With
  <2>2. With(Cur, r, "same") \subseteq ToSet(Cur.dups) \ With(Cur, r, "differs")
    BY <1>10
  <2>3. With(Cur, answer', "differs") \subseteq ToSet(Cur.dups)
    BY <1>10, <2>1
  <2>4. linked \subseteq dedup_state
    BY <1>12
  <2> QED
    BY <1>1, <1>2, <2>1, <2>2, <2>4
<1>20. ASSUME "untouched" \notin ToSet(answer')
       PROVE  /\ pc' = "retry" => Cur.dups = <<>>
              /\ linked' \cap ToSet(Cur.dups) = With(Cur, answer', "same")
              /\ dedup_state' \cap ToSet(Cur.dups) = {}
  <2>1. \A j \in DOMAIN r : ok /\ answer'[j] = r[j] /\ r[j] # "error"
    <3> TAKE j \in DOMAIN r
    <3>1. answer'[j] # "untouched"
      BY <1>4, <1>7, <1>20 DEF ToSet
    <3>2. ok /\ answer'[j] = r[j]
      BY <1>8, <3>1
    <3>3. answer'[j] \in {"same", "differs", "untouched"}
      BY <1>8
    <3>4. answer'[j] # "error"
      BY <3>3
    <3> QED
      BY <3>2, <3>4
  <2>2. With(Cur, answer', "same") = With(Cur, r, "same")
    BY <1>4, <1>7, <2>1 DEF With
  <2>3. linked \cap ToSet(Cur.dups) = {} /\ dedup_state' \cap ToSet(Cur.dups) = {}
    BY <1>1, <1>3, <1>12
  <2>4. With(Cur, r, "error") = {}
    BY <2>1 DEF With
  <2>5. ASSUME pc' = "retry" PROVE Cur.dups = <<>>
    <3>1. ~ok
      BY <1>2, <2>4, <2>5
    <3>2. DOMAIN Cur.dups = {}
      BY <1>4, <2>1, <3>1
    <3>3. 1 \notin 1..Len(Cur.dups)
      BY <1>6, <3>2
    <3>4. Len(Cur.dups) = 0
      BY <1>6, <3>3
    <3> QED
      BY <1>3, <3>4, EmptySeq
  <2>6. linked' \cap ToSet(Cur.dups) = With(Cur, r, "same")
    <3>1. CASE ok
      BY <1>2, <1>10, <2>3, <3>1
    <3>2. CASE ~ok
      <4>1. With(Cur, r, "same") = {}
        BY <2>1, <3>2 DEF With
      <4> QED
        BY <1>2, <2>3, <3>2, <4>1
    <3> QED
      BY <3>1, <3>2
  <2> QED
    BY <2>2, <2>3, <2>5, <2>6
<1>21. MarkInv'
  BY <1>1, <1>11, <1>17, <1>18, <1>19, <1>20 DEF MarkInv
<1>22. processed' = Cardinality(Counted)'
  BY <1>1, <1>5 DEF FilesInv, Counted
<1> QED
  BY <1>13, <1>14, <1>21, <1>22 DEF FilesInv

(* The kernel is asked about one file.                                     *)
LEMMA RetryFilesInv ==
  ASSUME IInv, FilesInv, NEW k \in {"error", "same", "differs"}, RetryDup(k)
  PROVE  FilesInv'
<1> DEFINE d == Cur.dups[at]
<1>1. /\ pc = "retry" /\ pc' = pc /\ at <= Len(Cur.dups) /\ at' = at + 1
      /\ linked' = IF k = "same" THEN linked \cup {d} ELSE linked
      /\ deduped' = IF k = "same" THEN deduped + Cur.len ELSE deduped
      /\ told' = IF k = "differs" THEN told \cup {d} ELSE told
      /\ dedup_state' = IF k = "differs" THEN dedup_state ELSE dedup_state \cup {d}
      /\ UNCHANGED <<work, groups, submit_buf, cache_max, opened, answer, file, processed,
                     skipped, submitted>>
      /\ Submitted' = Submitted /\ Cur' = Cur
  BY DEF RetryDup, Submitted, Cur
<1>2. Asked /\ Asked' /\ opened # <<>>
  BY <1>1 DEF Asked, FilesInv, OpenInv
<1>3. /\ Cur \in Group /\ Cur.dups \in Seq(Ids)
      /\ ToSet(Cur.dups) \subseteq Ids
      /\ DupsOf(opened) = ToSet(Cur.dups) \cup DupsOf(Tail(opened))
      /\ ToSet(Cur.dups) \cap DupsOf(Tail(opened)) = {}
  BY <1>2, FirstOpen
<1>4. at \in DOMAIN Cur.dups /\ d \in ToSet(Cur.dups) /\ Cur.dups # <<>>
  <2>1. /\ Len(Cur.dups) \in Nat /\ DOMAIN Cur.dups = 1..Len(Cur.dups) /\ at \in Nat \ {0}
    BY <1>3, Lists DEF FilesInv, TypeOK
  <2>2. at \in DOMAIN Cur.dups
    BY <1>1, <2>1
  <2>3. Cur.dups # <<>>
    <3>1. Len(Cur.dups) > 0
      BY <1>1, <2>1
    <3> QED
      BY <3>1
  <2> QED
    BY <2>2, <2>3 DEF ToSet
<1> HIDE DEF d
<1>5. Tried' = Tried /\ Waiting' = Waiting /\ Waiting = Tail(opened)
  BY <1>1, <1>2 DEF Tried, TriedGroups, Waiting
<1>6. TypeOK'
  <2>1. Cur.len \in Nat
    BY <1>3 DEF Group
  <2>2. at' \in Nat \ {0} /\ deduped' \in Nat
    BY <1>1, <2>1 DEF FilesInv, TypeOK
  <2>3. linked' \in SUBSET Ids /\ told' \in SUBSET Ids /\ dedup_state' \in SUBSET Ids
    BY <1>1, <1>3, <1>4 DEF FilesInv, TypeOK
  <2> QED
    BY <1>1, <2>2, <2>3 DEF FilesInv, TypeOK
<1>7. OpenInv'
  BY <1>1, <1>2, <1>5 DEF FilesInv, OpenInv
<1>8. MarkInv'
  <2>1. /\ linked \cup dedup_state \subseteq Submitted \cup Tried
        /\ DupsOf(Tail(opened)) \cap (linked \cup dedup_state) = {}
        /\ linked \subseteq dedup_state \cup (ToSet(Cur.dups) \ With(Cur, answer, "differs"))
        /\ "untouched" \in ToSet(answer)
    BY <1>1, <1>2, <1>4, <1>5 DEF FilesInv, MarkInv
  <2>2. d \in Tried /\ d \notin DupsOf(Tail(opened))
    BY <1>3, <1>4 DEF FilesInv, OpenInv
  <2>3. linked' \cup dedup_state' \subseteq linked \cup dedup_state \cup {d}
    BY <1>1
  <2>4. linked' \cup dedup_state' \subseteq Submitted' \cup Tried'
    BY <1>1, <1>5, <2>1, <2>2, <2>3
  <2>5. DupsOf(Waiting') \cap (linked' \cup dedup_state') = {}
    BY <1>5, <2>1, <2>2, <2>3
  <2>6. linked' \subseteq dedup_state' \cup (ToSet(Cur.dups) \ With(Cur, answer, "differs"))
    BY <1>1, <2>1
  <2> QED
    BY <1>1, <1>2, <2>1, <2>4, <2>5, <2>6 DEF MarkInv
<1>9. processed' = Cardinality(Counted)'
  BY <1>1, <1>5 DEF FilesInv, Counted
<1> QED
  BY <1>6, <1>7, <1>8, <1>9 DEF FilesInv

(* All files of the group have been asked about.                           *)
LEMMA EndRetryFilesInv ==
  ASSUME IInv, FilesInv, EndRetry
  PROVE  FilesInv'
<1>1. /\ pc = "retry" /\ pc' = "account" /\ Asked /\ Asked'
      /\ UNCHANGED <<work, groups, submit_buf, cache_max, at, opened, answer, file, counters,
                     skipped, submitted>>
      /\ Submitted' = Submitted /\ Cur' = Cur
  BY DEF EndRetry, Submitted, Cur, Asked
<1>2. Tried' = Tried /\ Waiting' = Waiting
  BY <1>1 DEF Tried, TriedGroups, Waiting
<1>3. TypeOK' /\ processed' = Cardinality(Counted)'
  BY <1>1, <1>2 DEF FilesInv, TypeOK, counters, Counted
<1>4. OpenInv'
  BY <1>1, <1>2 DEF FilesInv, OpenInv
<1>5. MarkInv'
  BY <1>1, <1>2 DEF FilesInv, MarkInv, counters
<1> QED
  BY <1>3, <1>4, <1>5 DEF FilesInv

(* The answers are evaluated: the group is counted and marked.             *)
LEMMA AccountFilesInv ==
  ASSUME IInv, FilesInv, Account
  PROVE  FilesInv'
<1>1. /\ pc = "account" /\ pc' = "ioctl" /\ at' = at /\ opened' = Tail(opened) /\ answer' = <<>>
      /\ processed' = processed + Len(Cur.dups)
      /\ deduped' = deduped + Cur.len * Cardinality(With(Cur, answer, "same"))
      /\ told' = told \cup With(Cur, answer, "differs")
      /\ dedup_state' = dedup_state \cup (ToSet(Cur.dups) \ With(Cur, answer, "differs"))
      /\ UNCHANGED <<work, groups, submit_buf, cache_max, file, linked, skipped, submitted>>
      /\ Submitted' = Submitted
  BY DEF Account, Submitted
<1>2. Asked /\ ~Asked' /\ opened # <<>> /\ DOMAIN answer = DOMAIN Cur.dups
  BY <1>1 DEF Asked, FilesInv, OpenInv
<1>3. /\ Cur \in Group /\ IsInjective(Cur.dups) /\ Cur.dups \in Seq(Ids)
      /\ ToSet(Cur.dups) \subseteq Ids /\ Tail(opened) \in Seq(Group) /\ Separate(Tail(opened))
      /\ DupsOf(opened) = ToSet(Cur.dups) \cup DupsOf(Tail(opened))
      /\ ToSet(Cur.dups) \cap DupsOf(Tail(opened)) = {}
  BY <1>2, FirstOpen
<1>4. \A s : With(Cur, answer, s) \subseteq ToSet(Cur.dups)
  BY <1>2, <1>3, Statuses
<1>5. Tried' = Tried /\ Waiting' = Tail(opened) /\ Waiting = Tail(opened)
  BY <1>1, <1>2 DEF Tried, TriedGroups, Waiting
<1>6. IsFiniteSet(ToSet(Cur.dups)) /\ Cardinality(ToSet(Cur.dups)) = Len(Cur.dups)
  BY <1>3, CountDups
<1>7. /\ DupsOf(opened) \subseteq Tried /\ DupsOf(opened) \cap skipped = {}
      /\ skipped \subseteq Submitted \cup Tried
  BY DEF FilesInv, OpenInv
<1>8. Counted' = Counted \cup ToSet(Cur.dups) /\ Counted \cap ToSet(Cur.dups) = {}
  BY <1>1, <1>3, <1>5, <1>7 DEF Counted
<1>9. processed' = Cardinality(Counted)' /\ processed' \in Nat
  <2>1. IsFiniteSet(Counted) /\ processed = Cardinality(Counted)
    BY CountedFinite DEF FilesInv
  <2>2. /\ IsFiniteSet(Counted \cup ToSet(Cur.dups))
        /\ Cardinality(Counted \cup ToSet(Cur.dups))
             = Cardinality(Counted) + Cardinality(ToSet(Cur.dups))
    BY <1>6, <1>8, <2>1, JoinCount
  <2> QED
    BY <1>1, <1>6, <1>8, <2>1, <2>2, FS_CardinalityType
<1>10. deduped' \in Nat
  <2>1. Cardinality(With(Cur, answer, "same")) \in Nat
    BY <1>4, <1>6, FS_Subset, FS_CardinalityType
  <2>2. Cur.len \in Nat /\ deduped \in Nat
    BY <1>3 DEF Group, FilesInv, TypeOK
  <2>3. Cur.len * Cardinality(With(Cur, answer, "same")) \in Nat
    BY <2>1, <2>2
  <2> QED
    BY <1>1, <2>2, <2>3
<1>11. TypeOK'
  <2>1. told' \in SUBSET Ids /\ dedup_state' \in SUBSET Ids
    BY <1>1, <1>3, <1>4 DEF FilesInv, TypeOK
  <2>2. answer' \in Seq({"same", "differs", "untouched"})
    BY <1>1, EmptySeq
  <2> QED
    BY <1>1, <1>3, <1>9, <1>10, <2>1, <2>2 DEF FilesInv, TypeOK
<1>12. OpenInv'
  <2>1. ~work.simulate
    BY <1>1 DEF FilesInv, OpenInv
  <2> QED
    BY <1>1, <1>2, <1>3, <1>5, <1>7, <2>1 DEF OpenInv
<1>13. MarkInv'
  <2>1. /\ linked \cup dedup_state \subseteq Submitted \cup Tried
        /\ DupsOf(Tail(opened)) \cap (linked \cup dedup_state) = {}
        /\ linked \subseteq dedup_state \cup (ToSet(Cur.dups) \ With(Cur, answer, "differs"))
    BY <1>2, <1>5 DEF FilesInv, MarkInv
  <2>2. linked' \subseteq dedup_state'
    BY <1>1, <2>1
  <2>3. linked' \cup dedup_state' \subseteq Submitted' \cup Tried'
    BY <1>1, <1>3, <1>5, <1>7, <2>1
  <2>4. DupsOf(Waiting') \cap (linked' \cup dedup_state') = {}
    BY <1>1, <1>3, <1>5, <2>1
  <2> QED
    BY <1>2, <2>2, <2>3, <2>4 DEF MarkInv
<1> QED
  BY <1>9, <1>11, <1>12, <1>13 DEF FilesInv

(* Files that other programs modify, and stuttering.                       *)
LEMMA ElseFilesInv ==
  ASSUME IInv, FilesInv,
         UNCHANGED <<work, groups, submit_buf, cache_max, pc, at, opened, answer, counters,
                     skipped, submitted>>,
         file' \in [Ids -> {"same", "changed", "resized", "gone"}]
  PROVE  FilesInv'
<1>1. Tried' = Tried /\ Waiting' = Waiting /\ Submitted' = Submitted /\ Cur' = Cur /\ Asked' = Asked
  BY DEF Tried, TriedGroups, Waiting, Submitted, Cur, Asked
<1>2. TypeOK' /\ processed' = Cardinality(Counted)'
  BY <1>1 DEF FilesInv, TypeOK, counters, Counted
<1>3. OpenInv'
  BY <1>1 DEF FilesInv, OpenInv
<1>4. MarkInv'
  BY <1>1 DEF FilesInv, MarkInv, counters
<1> QED
  BY <1>2, <1>3, <1>4 DEF FilesInv

(* Nothing is in a batch at first.                                         *)
LEMMA InitFilesInv == Init => FilesInv
<1> SUFFICES ASSUME Init PROVE FilesInv
  OBVIOUS
<1>1. IInv
  BY InitIInv
<1>2. Tried = {} /\ Submitted = {} /\ opened = <<>> /\ pc = "fill"
  BY TriedIs DEF Init, Submitted
<1>3. opened \in Seq(Group) /\ DupsOf(opened) = {} /\ Separate(opened)
  BY <1>2, NoGroups
<1>4. TypeOK
  <2>1. answer \in Seq({"same", "differs", "untouched"})
    BY EmptySeq DEF Init
  <2>2. file \in [Ids -> {"same", "changed", "resized", "gone"}]
    BY DEF Init
  <2> QED
    BY <1>1, <1>3, <2>1, <2>2 DEF Init, TypeOK, IInv, FillTypes
<1>5. OpenInv
  BY <1>2, <1>3 DEF Init, OpenInv, Asked
<1>6. MarkInv
  BY <1>2, <1>3 DEF Init, MarkInv, Asked, Waiting
<1>7. processed = Cardinality(Counted)
  <2>1. Counted = {} /\ processed = 0
    BY <1>2 DEF Counted, Init
  <2> QED
    BY <2>1, FS_EmptySet
<1> QED
  BY <1>4, <1>5, <1>6, <1>7 DEF FilesInv

(* Every step preserves it.                                                *)
LEMMA NextFilesInv == IInv /\ FilesInv /\ [Next]_vars => FilesInv'
<1> SUFFICES ASSUME IInv, FilesInv, [Next]_vars PROVE FilesInv'
  OBVIOUS
<1>1. IInv' /\ at \in Nat \ {0}
  BY NextIInv DEF FilesInv, TypeOK
<1>2. CASE TakeGroup
  <2>1. /\ pc = "fill" /\ pc' = pc /\ at' = at
        /\ UNCHANGED <<work, cache_max, opened, answer, file, counters, skipped, submitted>>
    BY <1>2 DEF TakeGroup
  <2> QED
    BY <1>1, <2>1, FillFilesInv
<1>3. CASE SplitEnd
  <2>1. /\ pc = "fill" /\ pc' = pc /\ at' = at
        /\ UNCHANGED <<work, cache_max, opened, answer, file, counters, skipped, submitted>>
    BY <1>3 DEF SplitEnd, TooLarge
  <2> QED
    BY <1>1, <2>1, FillFilesInv
<1>4. CASE Submit
  <2>1. /\ pc = "fill" /\ pc' = "batch" /\ at' = 1
        /\ UNCHANGED <<work, cache_max, opened, answer, file, counters, skipped, submitted>>
    BY <1>4 DEF Submit
  <2> QED
    BY <1>1, <2>1, FillFilesInv
<1>5. CASE Return
  <2>1. /\ pc = "fill" /\ pc' = "done" /\ at' = at
        /\ UNCHANGED <<work, cache_max, opened, answer, file, counters, skipped, submitted>>
    BY <1>5 DEF Return
  <2> QED
    BY <1>1, <2>1, FillFilesInv
<1>6. CASE SimulateBatch
  BY <1>6, SimulateFilesInv
<1>7. CASE OpenGroup
  BY <1>7, OpenFilesInv
<1>8. CASE OpenSenpaiFails
  BY <1>8, SkipFilesInv
<1>9. CASE AllOpened
  BY <1>9, AllOpenedFilesInv
<1>10. ASSUME NEW ok \in BOOLEAN, DedupGroup(ok) PROVE FilesInv'
  BY <1>10, DedupGroupFilesInv
<1>11. ASSUME NEW k \in {"error", "same", "differs"}, RetryDup(k) PROVE FilesInv'
  BY <1>11, RetryFilesInv
<1>12. CASE EndRetry
  BY <1>12, EndRetryFilesInv
<1>13. CASE Account
  BY <1>13, AccountFilesInv
<1>14. CASE BatchDone
  BY <1>14, BatchDoneFilesInv
<1>15. ASSUME NEW f \in Ids, NEW s \in {"changed", "resized", "gone"}, Change(f, s)
       PROVE  FilesInv'
  <2>1. file' \in [Ids -> {"same", "changed", "resized", "gone"}]
    BY <1>15 DEF Change, FilesInv, TypeOK
  <2> QED
    BY <1>15, <2>1, ElseFilesInv DEF Change
<1>16. CASE UNCHANGED vars
  <2>1. file' \in [Ids -> {"same", "changed", "resized", "gone"}]
    BY <1>16 DEF vars, FilesInv, TypeOK
  <2> QED
    BY <1>16, <2>1, ElseFilesInv DEF vars
<1> QED
  BY <1>2, <1>3, <1>4, <1>5, <1>6, <1>7, <1>8, <1>9, <1>10, <1>11, <1>12, <1>13, <1>14,
     <1>15, <1>16 DEF Next, Program, Done

(* When all batches are done, what was counted and what was skipped are    *)
(* the dups of the input.                                                  *)
LEMMA CountedAll == IInv /\ FilesInv => AllAccounted
<1> SUFFICES ASSUME IInv, FilesInv, pc = "done"
             PROVE  processed + Cardinality(skipped) = Cardinality(Pairs(Input))
  BY DEF AllAccounted
<1>1. submitted = Pairs(Input)
  BY PlacesApart DEF EachDupOnce
<1>2. Input \in Seq(Group) /\ Separate(Input)
  <2>1. work \in Workloads /\ work \in Workload
    BY ConstantsAssumption DEF IInv, FillTypes
  <2> QED
    BY <2>1, InputAssumption DEF Input, Workload, Separate
<1>3. /\ DupsOf(Input) = {p[2] : p \in Pairs(Input)} /\ IsFiniteSet(DupsOf(Input))
      /\ Cardinality(Pairs(Input)) = Cardinality(DupsOf(Input))
  BY <1>2, CountPairs
<1>4. Submitted = DupsOf(Input)
  BY <1>1, <1>3 DEF Submitted
<1>5. Tried = {} /\ DupsOf(opened) = {}
  BY TriedIs, NoGroups DEF FilesInv, OpenInv
<1>6. skipped \subseteq Submitted /\ Counted = Submitted \ skipped
  BY <1>5 DEF FilesInv, OpenInv, Counted
<1>7. IsFiniteSet(skipped) /\ IsFiniteSet(Counted)
  BY <1>3, <1>4, <1>6, FS_Subset
<1>8. Counted \cup skipped = DupsOf(Input) /\ Counted \cap skipped = {}
  BY <1>4, <1>6
<1>9. Cardinality(Counted \cup skipped) = Cardinality(Counted) + Cardinality(skipped)
  BY <1>7, <1>8, JoinCount
<1> QED
  BY <1>3, <1>8, <1>9 DEF FilesInv

(* What is evaluated after an answer for the whole group: the dups with    *)
(* the status Same are the linked ones.                                    *)
LEMMA AccountExact ==
  ASSUME FilesInv, Account, "untouched" \notin ToSet(answer)
  PROVE  dedup_state' \cap ToSet(Cur.dups) = linked' \cap ToSet(Cur.dups)
<1>1. Asked /\ opened # <<>> /\ DOMAIN answer = DOMAIN Cur.dups
  BY DEF Account, Asked, FilesInv, OpenInv
<1>2. Cur \in Group /\ IsInjective(Cur.dups)
  BY <1>1, FirstOpen
<1>3. /\ linked \cap ToSet(Cur.dups) = With(Cur, answer, "same")
      /\ dedup_state \cap ToSet(Cur.dups) = {}
  BY <1>1 DEF FilesInv, MarkInv
<1>4. \A k \in DOMAIN answer : answer[k] \in {"same", "differs"}
  <2>1. answer \in Seq({"same", "differs", "untouched"})
    BY DEF FilesInv, TypeOK
  <2>2. \A k \in DOMAIN answer : answer[k] \in {"same", "differs", "untouched"}
    BY <2>1, Lists
  <2>3. \A k \in DOMAIN answer : answer[k] # "untouched"
    BY DEF ToSet
  <2> QED
    BY <2>2, <2>3
<1>5. ToSet(Cur.dups) \ With(Cur, answer, "differs") = With(Cur, answer, "same")
  <2>1. /\ \A s : With(Cur, answer, s) \subseteq ToSet(Cur.dups)
        /\ \A s, t : s # t => With(Cur, answer, s) \cap With(Cur, answer, t) = {}
        /\ \A d \in ToSet(Cur.dups) : \E k \in DOMAIN answer :
              d = Cur.dups[k] /\ d \in With(Cur, answer, answer[k])
    BY <1>1, <1>2, Statuses
  <2>2. \A d \in ToSet(Cur.dups) : d \in With(Cur, answer, "same") \/ d \in With(Cur, answer, "differs")
    BY <1>4, <2>1
  <2>3. With(Cur, answer, "same") \cap With(Cur, answer, "differs") = {}
    BY <2>1
  <2> QED
    BY <2>1, <2>2, <2>3
<1>6. dedup_state' = dedup_state \cup (ToSet(Cur.dups) \ With(Cur, answer, "differs")) /\ linked' = linked
  BY DEF Account
<1> QED
  BY <1>3, <1>5, <1>6

(* Only the evaluation of the answers ends with a call for the next group. *)
LEMMA OnlyAccount ==
  ASSUME Next, pc = "account", pc' = "ioctl"
  PROVE  Account
BY DEF Next, Program, Done, vars, Change, TakeGroup, SplitEnd, TooLarge, Submit, Return,
       SimulateBatch, OpenGroup, OpenSenpaiFails, AllOpened, DedupGroup, RetryDup, EndRetry,
       BatchDone

-----------------------------------------------------------------------------
(* What happens to the files of the batches.                               *)
THEOREM FilesInvariance == Spec => []FilesInv
<1> QED
  BY InitFilesInv, NextFilesInv, Invariance, PTL DEF Spec

(* The state of dedup_groups and dedup_group_batch is well typed, and      *)
(* splitting keeps the batches within their bounds.                        *)
THEOREM BatchesBounded == Spec => []BatchBounded
<1>1. FilesInv => TypeOK
  BY DEF FilesInv
<1> QED
  BY <1>1, BatchesFit, FilesInvariance, PTL DEF BatchBounded

(* The progress display ends with every dup of the input processed, except *)
(* for the ones that could not be opened.                                  *)
THEOREM EveryDupAccounted == Spec => []AllAccounted
<1> QED
  BY Invariance, FilesInvariance, CountedAll, PTL

(* A file whose extents the kernel has shared is marked as deduplicated    *)
(* when its batch is over, whatever the kernel refused.                    *)
THEOREM LinkedFilesMarked == Spec => []LinkedMarked
<1>1. FilesInv => LinkedMarked
  BY DEF FilesInv, MarkInv, LinkedMarked, Asked
<1> QED
  BY <1>1, FilesInvariance, PTL

(* Where the kernel answered for every file of a group, exactly the files  *)
(* whose extents it shared are marked.                                     *)
THEOREM MarksAreExact == Spec => MarksExact
<1> DEFINE A == (pc = "account" /\ pc' = "ioctl" /\ "untouched" \notin ToSet(answer)) =>
                  dedup_state' \cap ToSet(Cur.dups) = linked' \cap ToSet(Cur.dups)
<1>1. FilesInv /\ [Next]_vars => [A]_vars
  BY OnlyAccount, AccountExact
<1> QED
  BY <1>1, FilesInvariance, PTL DEF Spec, MarksExact
=============================================================================
