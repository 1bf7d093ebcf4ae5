-------------------------- MODULE DirGroupsProofs ---------------------------
(***************************************************************************)
(* The hashes of directories, the groups and what is shown of them, for    *)
(* every tree the passes may leave.                                        *)
(***************************************************************************)
EXTENDS DirGroups, FiniteSetTheorems, SequenceTheorems, TLAPS

-----------------------------------------------------------------------------
(* Numbers and paths.                                                      *)

(* A set of natural numbers that is not empty has a least element; where a *)
(* proof says "by induction" it takes the least counterexample.            *)
LEMMA LeastNumber ==
  ASSUME NEW T, T \subseteq Nat, T # {}
  PROVE  \E x \in T : \A y \in T : x <= y
<1> DEFINE Q == {0..(n - 1) : n \in T}
<1>1. Q \subseteq FiniteSubsetsOf(Nat) /\ Q # {}
  <2>1. ASSUME NEW n \in T PROVE 0..(n - 1) \subseteq Nat /\ IsFiniteSet(0..(n - 1))
    <3>1. n \in Nat
      OBVIOUS
    <3>2. 0 \in Int /\ n - 1 \in Int
      BY <3>1
    <3> QED BY <3>1, <3>2, FS_Interval
  <2> QED BY <2>1 DEF FiniteSubsetsOf
<1>2. PICK q \in Q : \A r \in Q : <<r, q>> \notin StrictSubsetOrdering(Nat)
  BY <1>1, FS_StrictSubsetOrderingWellFounded, WFMin
<1>3. PICK x \in T : q = 0..(x - 1)
  OBVIOUS
<1>4. ASSUME NEW y \in T, y < x PROVE FALSE
  <2>1. 0..(y - 1) \in Q
    OBVIOUS
  <2>2. 0..(y - 1) \subseteq q /\ 0..(y - 1) # q
    <3>1. y \in q /\ y \notin 0..(y - 1)
      BY <1>3, <1>4
    <3>2. 0..(y - 1) \subseteq q
      BY <1>3, <1>4
    <3> QED BY <3>1, <3>2
  <2>3. 0..(y - 1) \in SUBSET Nat /\ q \in SUBSET Nat
    BY <1>3
  <2> QED BY <1>2, <2>1, <2>2, <2>3 DEF StrictSubsetOrdering
<1> QED BY <1>4

Prefix(path, k) == SubSeq(path, 1, k)

(* Prefix takes the first k components.                                    *)
LEMMA PrefixSeq ==
  ASSUME NEW N, NEW p \in Seq(N), NEW k \in 0..Len(p)
  PROVE  /\ Prefix(p, k) \in Seq(N)
         /\ Len(Prefix(p, k)) = k
         /\ \A i \in 1..k : Prefix(p, k)[i] = p[i]
<1>1. \A i \in 1..k : p[i] \in N
  BY ElementOfSeq, LenProperties
<1>2. 1 \in Int /\ k \in Int /\ Len(p) \in Nat
  BY LenProperties
<1> QED BY <1>1, <1>2, SubSeqProperties DEF Prefix

(* The whole path is a prefix, and so is the path of the root.             *)
LEMMA PrefixEnds ==
  ASSUME NEW N, NEW p \in Seq(N)
  PROVE  Prefix(p, Len(p)) = p /\ Prefix(p, 0) = <<>>
BY SubSeqFull, SubSeqEmpty DEF Prefix

(* A sequence is a prefix if it has these components.                      *)
LEMMA IsThePrefix ==
  ASSUME NEW N, NEW p \in Seq(N), NEW q \in Seq(N), Len(q) <= Len(p),
         \A i \in 1..Len(q) : q[i] = p[i]
  PROVE  q = Prefix(p, Len(q))
<1>1. Len(q) \in 0..Len(p)
  BY LenProperties
<1> DEFINE r == Prefix(p, Len(q))
<1>2. r \in Seq(N) /\ Len(r) = Len(q) /\ \A i \in 1..Len(q) : r[i] = p[i]
  BY <1>1, PrefixSeq
<1> QED BY <1>2, SeqEqual

(* Prefixes of prefixes.                                                   *)
LEMMA PrefixOfPrefix ==
  ASSUME NEW N, NEW p \in Seq(N), NEW k \in 0..Len(p), NEW j \in 0..k
  PROVE  Prefix(Prefix(p, k), j) = Prefix(p, j)
<1> DEFINE q == Prefix(p, k)
           r == Prefix(q, j)
<1>1. Len(p) \in Nat /\ j \in 0..Len(p)
  BY LenProperties
<1>2. q \in Seq(N) /\ Len(q) = k /\ \A i \in 1..k : q[i] = p[i]
  BY PrefixSeq
<1>3. r \in Seq(N) /\ Len(r) = j /\ \A i \in 1..j : r[i] = q[i]
  BY <1>2, PrefixSeq
<1>4. \A i \in 1..j : r[i] = p[i]
  BY <1>2, <1>3
<1> QED BY <1>1, <1>3, <1>4, IsThePrefix

(* Front, the path of the entry above, is the prefix without the last      *)
(* component.                                                              *)
LEMMA FrontIsPrefix ==
  ASSUME NEW N, NEW p \in Seq(N), p # <<>>
  PROVE  /\ Len(p) \in Nat \ {0}
         /\ Front(p) = Prefix(p, Len(p) - 1)
         /\ Len(Front(p)) = Len(p) - 1
         /\ Front(p) \in Seq(N)
<1>1. Len(p) \in Nat \ {0}
  BY EmptySeq
<1>2. Len(p) - 1 \in 0..Len(p)
  BY <1>1
<1>3. Front(p) = Prefix(p, Len(p) - 1)
  BY DEF Front, Prefix
<1> QED BY <1>1, <1>2, <1>3, PrefixSeq

(* A path is made of the path above it and its last component.             *)
LEMMA FrontAndLast ==
  ASSUME NEW N, NEW p \in Seq(N), NEW q \in Seq(N), NEW k \in 1..Len(p),
         q # <<>>, Front(q) = Prefix(p, k - 1), Last(q) = p[k]
  PROVE  q = Prefix(p, k)
<1>1. Len(p) \in Nat /\ k - 1 \in 0..Len(p)
  BY LenProperties
<1>2. Len(q) \in Nat \ {0} /\ Front(q) = Prefix(q, Len(q) - 1) /\ Len(Front(q)) = Len(q) - 1
  BY FrontIsPrefix
<1>3. Len(Prefix(p, k - 1)) = k - 1 /\ \A i \in 1..(k - 1) : Prefix(p, k - 1)[i] = p[i]
  BY <1>1, PrefixSeq
<1>4. Len(q) = k
  BY <1>1, <1>2, <1>3
<1>5. \A i \in 1..(k - 1) : Prefix(q, k - 1)[i] = q[i]
  <2>1. k - 1 \in 0..Len(q)
    BY <1>1, <1>4
  <2> QED BY <2>1, PrefixSeq
<1>6. \A i \in 1..(k - 1) : q[i] = p[i]
  BY <1>2, <1>3, <1>4, <1>5
<1>7. q[k] = p[k]
  BY <1>4 DEF Last
<1>8. \A i \in 1..Len(q) : q[i] = p[i]
  BY <1>1, <1>4, <1>6, <1>7
<1> QED BY <1>1, <1>4, <1>8, IsThePrefix

(* What it means to lie strictly below another path.                       *)
LEMMA StrictPrefix ==
  ASSUME NEW N, NEW p \in Seq(N), NEW q \in Seq(N)
  PROVE  IsStrictPrefix(q, p) <=> Len(q) < Len(p) /\ q = Prefix(p, Len(q))
<1>1. Len(p) \in Nat /\ Len(q) \in Nat
  BY LenProperties
<1>2. SubSeq(q, 1, Len(q)) = q
  BY SubSeqFull
<1>3. Len(q) = Len(p) => Prefix(p, Len(q)) = p
  BY PrefixEnds
<1> QED BY <1>1, <1>2, <1>3 DEF IsStrictPrefix, IsPrefix, Prefix

-----------------------------------------------------------------------------
(* Sorting by rank.                                                        *)

Before(D, R, i) == {j \in D : <<j, i>> \in R}

StrictOrder(D, R) ==
  /\ \A i \in D : <<i, i>> \notin R
  /\ \A i, j \in D : i # j => <<i, j>> \in R \/ <<j, i>> \in R
  /\ \A i, j, k \in D : <<i, j>> \in R /\ <<j, k>> \in R => <<i, k>> \in R

Ranked(D, R) ==
  /\ \A k \in 1..Cardinality(D) : \E i \in D : Cardinality(Before(D, R, i)) = k - 1
  /\ \A i, j \in D : <<i, j>> \in R =>
       Cardinality(Before(D, R, i)) < Cardinality(Before(D, R, j))
  /\ \A i \in D : Cardinality(Before(D, R, i)) \in Nat

(* In a finite set that is strictly ordered the element of rank k - 1      *)
(* exists for every k up to the size of the set, and ranks respect the     *)
(* order.                                                                  *)
LEMMA Ranks ==
  ASSUME NEW D, IsFiniteSet(D), NEW R, StrictOrder(D, R)
  PROVE  Ranked(D, R)
<1> DEFINE n == Cardinality(D)
           rank == [i \in D |-> Cardinality(Before(D, R, i))]
<1>1. n \in Nat
  BY FS_CardinalityType
<1>2. ASSUME NEW i \in D
      PROVE  /\ IsFiniteSet(Before(D, R, i)) /\ Cardinality(Before(D, R, i)) \in Nat
             /\ Cardinality(Before(D, R, i) \cup {i}) = Cardinality(Before(D, R, i)) + 1
  <2>1. Before(D, R, i) \in SUBSET D /\ i \notin Before(D, R, i)
    BY DEF Before, StrictOrder
  <2>2. IsFiniteSet(Before(D, R, i))
    BY <2>1, FS_Subset
  <2> QED BY <2>1, <2>2, FS_CardinalityType, FS_AddElement
<1>3. ASSUME NEW i \in D, NEW j \in D, <<i, j>> \in R
      PROVE  Cardinality(Before(D, R, i)) < Cardinality(Before(D, R, j))
  <2>1. Before(D, R, i) \cup {i} \subseteq Before(D, R, j)
    BY <1>3 DEF Before, StrictOrder
  <2>2. Cardinality(Before(D, R, i) \cup {i}) <= Cardinality(Before(D, R, j))
    BY <1>2, <2>1, FS_Subset
  <2> DEFINE a == Cardinality(Before(D, R, i))
             b == Cardinality(Before(D, R, j))
             c == Cardinality(Before(D, R, i) \cup {i})
  <2>3. a \in Nat /\ b \in Nat /\ c = a + 1 /\ c <= b
    BY <1>2, <2>2
  <2> HIDE DEF a, b, c
  <2>4. a < b
    BY <2>3
  <2> QED BY <2>4 DEF a, b
<1>4. ASSUME NEW i \in D PROVE rank[i] \in 0..(n - 1)
  <2>1. Before(D, R, i) \cup {i} \in SUBSET D
    BY DEF Before
  <2>2. Cardinality(Before(D, R, i) \cup {i}) <= n
    BY <2>1, FS_Subset
  <2> QED BY <1>1, <1>2, <2>2
<1>5. rank \in Injection(D, 0..(n - 1))
  <2>1. rank \in [D -> 0..(n - 1)]
    BY <1>4
  <2>2. ASSUME NEW i \in D, NEW j \in D, rank[i] = rank[j] PROVE i = j
    <3>1. ASSUME i # j PROVE FALSE
      <4>1. rank[i] < rank[j] \/ rank[j] < rank[i]
        BY <1>3, <3>1 DEF StrictOrder
      <4>2. rank[i] \in Nat /\ rank[j] \in Nat
        BY <1>2
      <4> HIDE DEF rank
      <4> QED BY <2>2, <4>1, <4>2
    <3> QED BY <3>1
  <2> HIDE DEF rank
  <2>3. DOMAIN rank = D
    BY <2>1
  <2> QED BY <2>1, <2>2, <2>3 DEF Injection, IsInjective
<1>6. IsFiniteSet(0..(n - 1)) /\ Cardinality(0..(n - 1)) = n
  <2>1. 0 \in Int /\ n - 1 \in Int
    BY <1>1
  <2> QED BY <1>1, <2>1, FS_Interval
<1>7. rank \in Surjection(D, 0..(n - 1))
  <2> HIDE DEF rank
  <2> QED BY <1>5, <1>6, FS_Injection
<1>8. ASSUME NEW k \in 1..n PROVE \E i \in D : Cardinality(Before(D, R, i)) = k - 1
  <2>1. k - 1 \in 0..(n - 1)
    BY <1>1
  <2>2. \E i \in D : rank[i] = k - 1
    <3> HIDE DEF rank
    <3> QED BY <1>7, <2>1 DEF Surjection
  <2> QED BY <2>2
<1> QED BY <1>2, <1>3, <1>8 DEF Ranked

-----------------------------------------------------------------------------
(* Entries and what is above them.                                         *)

(* A set of entries that is not empty has a last one; an induction from    *)
(* the leaves of the tree takes the last counterexample.                   *)
LEMMA LastEntry ==
  ASSUME NEW T, T \subseteq Ids, T # {}
  PROVE  \E x \in T : \A y \in T : y <= x
<1> DEFINE R == {x \in T \X T : x[1] > x[2]}
<1>1. T \subseteq Nat /\ IsFiniteSet(T)
  BY FS_Subset, PathsAssumption
<1>2. StrictOrder(T, R)
  BY <1>1 DEF StrictOrder
<1>3. Cardinality(T) \in Nat \ {0}
  BY <1>1, FS_CardinalityType, FS_EmptySet
<1>4. Ranked(T, R)
  <2> HIDE DEF R
  <2> QED BY <1>1, <1>2, Ranks
<1>5. PICK x \in T : Cardinality(Before(T, R, x)) = 0
  <2>1. 1 \in 1..Cardinality(T)
    BY <1>3
  <2>2. \E x \in T : Cardinality(Before(T, R, x)) = 1 - 1
    <3> HIDE DEF R
    <3> QED BY <1>4, <2>1 DEF Ranked
  <2> QED BY <2>2
<1>6. Before(T, R, x) = {}
  <2>1. IsFiniteSet(Before(T, R, x))
    BY <1>1, FS_Subset DEF Before
  <2> QED BY <1>5, <2>1, FS_EmptySet
<1>7. ASSUME NEW y \in T PROVE y <= x
  <2>1. <<y, x>> \notin R
    BY <1>6 DEF Before
  <2> QED BY <1>1, <2>1
<1> QED BY <1>7

(* What the assumptions say of one entry.                                  *)
LEMMA PathOf ==
  ASSUME NEW id \in Ids
  PROVE  /\ id \in Nat /\ Path[id] \in Seq(STRING) /\ Len(Path[id]) \in Nat
         /\ DOMAIN Path[id] = 1..Len(Path[id])
BY PathsAssumption, LenProperties

(* The parent of an entry has the path without the last name.              *)
LEMMA ParentOf ==
  ASSUME NEW id \in Below
  PROVE  /\ id \in Ids /\ Parent[id] \in Ids /\ Parent[id] < id
         /\ Path[id] # <<>> /\ Len(Path[id]) \in Nat \ {0}
         /\ Path[Parent[id]] = Front(Path[id])
         /\ Path[Parent[id]] = Prefix(Path[id], Len(Path[id]) - 1)
         /\ Len(Path[Parent[id]]) = Len(Path[id]) - 1
         /\ Name[id] = Path[id][Len(Path[id])]
         /\ Name[id] # NoName /\ Name[id] \in STRING
<1>1. id \in Ids /\ id # Root
  BY DEF Below
<1>2. Path[id] # <<>>
  BY <1>1, PathsAssumption
<1>3. PICK p \in Ids : Path[p] = Front(Path[id]) /\ p < id
  BY PathsAssumption
<1>4. Parent[id] \in Ids /\ Path[Parent[id]] = Front(Path[id])
  BY <1>3 DEF Parent
<1>5. Parent[id] = p
  BY <1>3, <1>4, PathsAssumption
<1>6. Path[id] \in Seq(STRING)
  BY <1>1, PathsAssumption
<1>7. /\ Len(Path[id]) \in Nat \ {0}
      /\ Front(Path[id]) = Prefix(Path[id], Len(Path[id]) - 1)
      /\ Len(Front(Path[id])) = Len(Path[id]) - 1
  BY <1>2, <1>6, FrontIsPrefix
<1>8. Name[id] = Path[id][Len(Path[id])]
  BY DEF Name, Last
<1>9. Len(Path[id]) \in 1..Len(Path[id])
  BY <1>7
<1>10. Path[id][Len(Path[id])] # NoName
  BY <1>1, <1>6, <1>9, LenProperties, PathsAssumption
<1>11. Path[id][Len(Path[id])] \in STRING
  BY <1>6, <1>9, ElementOfSeq
<1> QED BY <1>1, <1>2, <1>3, <1>4, <1>5, <1>7, <1>8, <1>10, <1>11

(* Under is about paths.                                                   *)
LEMMA UnderMeans ==
  ASSUME NEW f \in Ids, NEW id \in Ids
  PROVE  Under(f, id) <=> Len(Path[id]) < Len(Path[f]) /\ Path[id] = Prefix(Path[f], Len(Path[id]))
<1>1. Under(f, id) <=> IsStrictPrefix(Path[id], Path[f])
  BY DEF Under, Above
<1> QED BY <1>1, PathOf, StrictPrefix

(* Below an entry is what lies below it at any depth.                      *)
LEMMA UnderTransitive ==
  ASSUME NEW a \in Ids, NEW b \in Ids, NEW c \in Ids, Under(a, b), Under(b, c)
  PROVE  Under(a, c)
<1>1. Len(Path[b]) < Len(Path[a]) /\ Path[b] = Prefix(Path[a], Len(Path[b]))
  BY UnderMeans
<1>2. Len(Path[c]) < Len(Path[b]) /\ Path[c] = Prefix(Path[b], Len(Path[c]))
  BY UnderMeans
<1>3. Len(Path[b]) \in 0..Len(Path[a]) /\ Len(Path[c]) \in 0..Len(Path[b])
      /\ Len(Path[c]) < Len(Path[a])
  BY <1>1, <1>2, PathOf
<1>4. Prefix(Prefix(Path[a], Len(Path[b])), Len(Path[c])) = Prefix(Path[a], Len(Path[c]))
  BY <1>3, PathOf, PrefixOfPrefix
<1> QED BY <1>1, <1>2, <1>3, <1>4, UnderMeans

(* What is above an entry is its parent or above it.                       *)
LEMMA UnderParent ==
  ASSUME NEW f \in Below, NEW id \in Ids
  PROVE  Under(f, id) <=> id = Parent[f] \/ Under(Parent[f], id)
<1>1. /\ f \in Ids /\ Parent[f] \in Ids /\ Len(Path[f]) \in Nat \ {0}
      /\ Len(Path[Parent[f]]) = Len(Path[f]) - 1
      /\ Path[Parent[f]] = Prefix(Path[f], Len(Path[f]) - 1)
  BY ParentOf
<1>2. Under(f, Parent[f])
  BY <1>1, UnderMeans
<1>3. ASSUME Under(f, id), id # Parent[f] PROVE Under(Parent[f], id)
  <2>1. Len(Path[id]) < Len(Path[f]) /\ Path[id] = Prefix(Path[f], Len(Path[id])) /\ Len(Path[id]) \in Nat
    BY <1>1, <1>3, UnderMeans, PathOf
  <2>2. Len(Path[id]) # Len(Path[f]) - 1
    BY <1>1, <1>3, <2>1, PathsAssumption
  <2>3. Len(Path[id]) < Len(Path[f]) - 1 /\ Len(Path[f]) - 1 \in 0..Len(Path[f])
        /\ Len(Path[id]) \in 0..(Len(Path[f]) - 1)
    BY <1>1, <2>1, <2>2
  <2>4. Path[f] \in Seq(STRING)
    BY <1>1, PathOf
  <2>5. Prefix(Prefix(Path[f], Len(Path[f]) - 1), Len(Path[id])) = Prefix(Path[f], Len(Path[id]))
    BY <2>3, <2>4, PrefixOfPrefix
  <2> QED BY <1>1, <2>1, <2>3, <2>5, UnderMeans
<1> QED BY <1>1, <1>2, <1>3, UnderTransitive

(* Entries are numbered in the order of their paths.                       *)
LEMMA UnderOrder ==
  ASSUME NEW f \in Ids, NEW id \in Ids, Under(f, id)
  PROVE  id < f /\ f \in Below
<1> DEFINE bad == {g \in Ids : Under(g, id) /\ ~(id < g /\ g \in Below)}
<1>1. ASSUME bad # {} PROVE FALSE
  <2>1. bad \subseteq Nat
    BY PathOf
  <2>2. PICK g \in bad : \A h \in bad : g <= h
    BY <1>1, <2>1, LeastNumber
  <2>3. g \in Below
    <3>1. Len(Path[id]) < Len(Path[g]) /\ Len(Path[id]) \in Nat
      BY <2>2, UnderMeans, PathOf
    <3>2. Len(Path[Root]) = 0
      BY PathsAssumption, EmptySeq
    <3> QED BY <3>1, <3>2 DEF Below
  <2>4. Parent[g] \in Ids /\ Parent[g] < g /\ g \in Nat /\ Parent[g] \in Nat /\ id \in Nat
    BY <2>3, ParentOf, PathOf
  <2>5. id = Parent[g] \/ Under(Parent[g], id)
    BY <2>2, <2>3, UnderParent
  <2>6. Parent[g] \notin bad
    BY <2>2, <2>4
  <2>7. id < g
    BY <2>4, <2>5, <2>6
  <2> QED BY <2>2, <2>3, <2>7
<1> QED BY <1>1

(* f is the entry c or lies below it.                                      *)
Within(f, c) == f = c \/ Under(f, c)

(* What lies below an entry lies in exactly one of the entries that have   *)
(* it as their parent.                                                     *)
LEMMA ChildAbove ==
  ASSUME NEW f \in Ids, NEW id \in Ids
  PROVE  Under(f, id) <=> \E c \in Below : Parent[c] = id /\ Within(f, c)
<1>1. ASSUME NEW c \in Below, Parent[c] = id, Within(f, c) PROVE Under(f, id)
  <2>1. Under(c, id) /\ c \in Ids
    BY <1>1, UnderParent DEF Below
  <2> QED BY <1>1, <2>1, UnderTransitive DEF Within
<1> DEFINE bad == {g \in Ids : Under(g, id) /\ ~\E c \in Below : Parent[c] = id /\ Within(g, c)}
<1>2. ASSUME bad # {} PROVE FALSE
  <2>1. bad \subseteq Nat
    BY PathOf
  <2>2. PICK g \in bad : \A h \in bad : g <= h
    BY <1>2, <2>1, LeastNumber
  <2>3. g \in Below /\ g \in Nat
    BY <2>2, UnderOrder, PathOf
  <2>4. Parent[g] \in Ids /\ Parent[g] < g /\ Parent[g] \in Nat
    BY <2>3, ParentOf, PathOf
  <2>5. Parent[g] # id
    BY <2>2, <2>3 DEF Within
  <2>6. Under(Parent[g], id)
    BY <2>2, <2>3, <2>5, UnderParent
  <2>7. PICK c \in Below : Parent[c] = id /\ Within(Parent[g], c)
    <3>1. ~(g <= Parent[g])
      BY <2>3, <2>4
    <3>2. Parent[g] \notin bad
      BY <2>2, <3>1
    <3> QED BY <2>4, <2>6, <3>2
  <2>8. Under(g, c)
    BY <2>3, <2>7, UnderParent DEF Within, Below
  <2> QED BY <2>2, <2>7, <2>8 DEF Within
<1> QED BY <1>1, <1>2

(* There is only one such child.                                           *)
LEMMA OneChildAbove ==
  ASSUME NEW f \in Ids, NEW c \in Below, NEW d \in Below, Parent[c] = Parent[d],
         Within(f, c), Within(f, d)
  PROVE  c = d
<1>1. c \in Ids /\ d \in Ids
  BY DEF Below
<1>2. Len(Path[c]) = Len(Path[d])
  <2>1. /\ Len(Path[Parent[c]]) = Len(Path[c]) - 1 /\ Len(Path[c]) \in Nat
        /\ Len(Path[Parent[d]]) = Len(Path[d]) - 1 /\ Len(Path[d]) \in Nat
    BY ParentOf
  <2> QED BY <2>1
<1>3. Path[c] = Prefix(Path[f], Len(Path[c])) /\ Path[d] = Prefix(Path[f], Len(Path[d]))
  BY <1>1, UnderMeans, PathOf, PrefixEnds DEF Within
<1> QED BY <1>1, <1>2, <1>3, PathsAssumption

(* Two entries in one directory do not have one name.                      *)
LEMMA NamesDiffer ==
  ASSUME NEW c \in Below, NEW d \in Below, Parent[c] = Parent[d], Name[c] = Name[d]
  PROVE  c = d
<1>1. /\ c \in Ids /\ d \in Ids /\ Path[c] # <<>>
      /\ Front(Path[c]) = Front(Path[d])
      /\ Len(Path[c]) \in Nat \ {0} /\ Len(Path[d]) \in Nat \ {0}
      /\ Len(Path[Parent[c]]) = Len(Path[c]) - 1
      /\ Len(Path[Parent[d]]) = Len(Path[d]) - 1
      /\ Front(Path[c]) = Prefix(Path[d], Len(Path[d]) - 1)
      /\ Name[d] = Path[d][Len(Path[d])]
      /\ Name[c] = Path[c][Len(Path[c])]
  BY ParentOf
<1>2. Len(Path[d]) \in 1..Len(Path[d]) /\ Path[c] \in Seq(STRING) /\ Path[d] \in Seq(STRING)
  BY <1>1, PathOf
<1>3. Last(Path[c]) = Path[d][Len(Path[d])]
  BY <1>1 DEF Last
<1>4. Path[c] = Prefix(Path[d], Len(Path[d]))
  BY <1>1, <1>2, <1>3, FrontAndLast
<1>5. Path[c] = Path[d]
  BY <1>2, <1>4, PrefixEnds
<1> QED BY <1>1, <1>5, PathsAssumption

-----------------------------------------------------------------------------
(* The path of an entry from one that is above it.                         *)
Rel(f, id) == SubSeq(Path[f], Len(Path[id]) + 1, Len(Path[f]))

(* Seen from the parent, a path begins with the name of the child.         *)
LEMMA RelOfChild ==
  ASSUME NEW c \in Below, NEW f \in Ids, Within(f, c)
  PROVE  /\ Rel(f, c) \in Seq(STRING)
         /\ Rel(f, Parent[c]) = <<Name[c]>> \o Rel(f, c)
<1> DEFINE m == Len(Path[c])
           n == Len(Path[f])
<1>1. /\ c \in Ids /\ Parent[c] \in Ids /\ m \in Nat \ {0}
      /\ Len(Path[Parent[c]]) = m - 1 /\ Name[c] = Path[c][m]
  BY ParentOf
<1>2. n \in Nat /\ Path[f] \in Seq(STRING)
  BY PathOf
<1>3. m <= n /\ Path[c] = Prefix(Path[f], m)
  BY <1>1, <1>2, UnderMeans, PathOf, PrefixEnds DEF Within
<1>4. m \in 1..n /\ n \in m..n /\ m \in 0..n /\ m \in 1..m
  BY <1>1, <1>2, <1>3
<1>5. Path[c][m] = Path[f][m]
  BY <1>2, <1>3, <1>4, PrefixSeq
<1>6. SubSeq(Path[f], m, n) = <<Path[f][m]>> \o SubSeq(Path[f], m + 1, n)
  BY <1>2, <1>4, SubSeqRecursiveFirst
<1>7. (m - 1) + 1 = m
  BY <1>1
<1>8. SubSeq(Path[f], m + 1, n) \in Seq(STRING)
  <2>1. \A i \in (m + 1)..n : Path[f][i] \in STRING
    BY <1>1, <1>2, ElementOfSeq
  <2>2. m + 1 \in Int /\ n \in Int
    BY <1>1, <1>2
  <2> QED BY <2>1, <2>2, SubSeqProperties
<1> QED BY <1>1, <1>5, <1>6, <1>7, <1>8 DEF Rel

(* The path of an entry from itself is empty.                              *)
LEMMA RelOfSelf ==
  ASSUME NEW c \in Ids
  PROVE  Rel(c, c) = <<>>
<1>1. Len(Path[c]) \in Int /\ Len(Path[c]) + 1 \in Int /\ Len(Path[c]) < Len(Path[c]) + 1
  BY PathOf
<1> QED BY <1>1, SubSeqEmpty DEF Rel

(* A name in front of a path can be taken off again.                       *)
LEMMA NameInFront ==
  ASSUME NEW N, NEW x \in N, NEW y \in N, NEW s \in Seq(N), NEW t \in Seq(N),
         <<x>> \o s = <<y>> \o t
  PROVE  x = y /\ s = t
<1> DEFINE xs == <<x>>
           ys == <<y>>
<1>1. xs \in Seq(N) /\ ys \in Seq(N) /\ Len(xs) = 1 /\ Len(ys) = 1 /\ xs[1] = x /\ ys[1] = y
  OBVIOUS
<1>2. xs \o s = ys \o t
  OBVIOUS
<1> HIDE DEF xs, ys
<1>3. Len(s) \in Nat /\ Len(t) \in Nat
  BY LenProperties
<1>4. /\ Len(xs \o s) = 1 + Len(s)
      /\ \A i \in 1..(1 + Len(s)) : (xs \o s)[i] = IF i <= 1 THEN xs[i] ELSE s[i - 1]
  <2>1. /\ Len(xs \o s) = Len(xs) + Len(s)
        /\ \A i \in 1..(Len(xs) + Len(s)) :
             (xs \o s)[i] = IF i <= Len(xs) THEN xs[i] ELSE s[i - Len(xs)]
    BY <1>1, ConcatProperties
  <2> QED BY <1>1, <2>1
<1>5. /\ Len(ys \o t) = 1 + Len(t)
      /\ \A i \in 1..(1 + Len(t)) : (ys \o t)[i] = IF i <= 1 THEN ys[i] ELSE t[i - 1]
  <2>1. /\ Len(ys \o t) = Len(ys) + Len(t)
        /\ \A i \in 1..(Len(ys) + Len(t)) :
             (ys \o t)[i] = IF i <= Len(ys) THEN ys[i] ELSE t[i - Len(ys)]
    BY <1>1, ConcatProperties
  <2> QED BY <1>1, <2>1
<1>6. Len(s) = Len(t)
  BY <1>2, <1>3, <1>4, <1>5
<1>7. x = y
  <2>1. 1 \in 1..(1 + Len(s)) /\ 1 \in 1..(1 + Len(t))
    BY <1>3
  <2> QED BY <1>1, <1>2, <1>4, <1>5, <2>1
<1>8. ASSUME NEW i \in 1..Len(s) PROVE s[i] = t[i]
  <2>1. i + 1 \in 1..(1 + Len(s)) /\ i + 1 \in 1..(1 + Len(t)) /\ ~(i + 1 <= 1) /\ (i + 1) - 1 = i
    BY <1>3, <1>6
  <2> QED BY <1>2, <1>4, <1>5, <2>1
<1>9. s = t
  BY <1>6, <1>8, SeqEqual
<1> QED BY <1>7, <1>9

(* Such a path consists of names.                                          *)
LEMMA RelSeq ==
  ASSUME NEW f \in Ids, NEW id \in Ids
  PROVE  Rel(f, id) \in Seq(STRING)
<1>1. /\ Path[f] \in Seq(STRING) /\ Len(Path[f]) \in Nat /\ Len(Path[id]) \in Nat
  BY PathOf
<1>2. Len(Path[f]) \in Int /\ Len(Path[id]) + 1 \in Int
  BY <1>1
<1>3. \A i \in (Len(Path[id]) + 1)..Len(Path[f]) : Path[f][i] \in STRING
  BY <1>1, ElementOfSeq
<1> QED BY <1>2, <1>3, SubSeqProperties DEF Rel

-----------------------------------------------------------------------------
(* What a directory holds.                                                 *)

(* What a directory is calculated from: its children that exist.           *)
LEMMA CalcedMeans ==
  ASSUME PassesInv, NEW id \in Ids
  PROVE  /\ Calced(id) = {c \in Below : Parent[c] = id /\ Exists(c)}
         /\ IsFiniteSet(Calced(id))
         /\ Calced(id) \subseteq Ids
<1>1. Calced(id) = {c \in Below : Parent[c] = id /\ Exists(c)}
  BY DEF Calced, Childs, Exists, is_file, is_dir
<1>2. Calced(id) \subseteq Ids
  BY <1>1 DEF Below
<1> QED BY <1>1, <1>2, FS_Subset, PathsAssumption

(* What is above an entry that exists is a directory.                      *)
LEMMA AboveExists ==
  ASSUME PassesInv, NEW f \in Ids, NEW id \in Ids, Exists(f), Under(f, id)
  PROVE  is_dir(id)
<1> DEFINE bad == {g \in Ids : Exists(g) /\ Under(g, id) /\ ~is_dir(id)}
<1>1. ASSUME bad # {} PROVE FALSE
  <2>1. bad \subseteq Nat
    BY PathOf
  <2>2. PICK g \in bad : \A h \in bad : g <= h
    BY <1>1, <2>1, LeastNumber
  <2>3. g \in Below /\ g \in Nat
    BY <2>2, UnderOrder, PathOf
  <2>4. Parent[g] \in Ids /\ Parent[g] < g /\ Parent[g] \in Nat
    BY <2>3, ParentOf, PathOf
  <2>5. is_dir(Parent[g])
    BY <2>2, <2>3 DEF PassesInv
  <2>6. Under(Parent[g], id)
    BY <2>2, <2>3, <2>5, UnderParent
  <2>7. Parent[g] \in bad
    BY <2>2, <2>4, <2>5, <2>6 DEF Exists
  <2>8. ~(g <= Parent[g])
    BY <2>3, <2>4
  <2> QED BY <2>2, <2>7, <2>8
<1> QED BY <1>1

(* The files in a directory are in what lies directly in it.               *)
LEMMA FilesInChildren ==
  ASSUME PassesInv, NEW id \in Ids, NEW f
  PROVE  f \in FilesUnder(id) <=>
           f \in Ids /\ is_file(f) /\ \E c \in Calced(id) : Within(f, c)
<1>1. ASSUME f \in FilesUnder(id) PROVE f \in Ids /\ is_file(f) /\ \E c \in Calced(id) : Within(f, c)
  <2>1. f \in Ids /\ is_file(f) /\ Under(f, id)
    BY <1>1 DEF FilesUnder
  <2>2. PICK c \in Below : Parent[c] = id /\ Within(f, c)
    BY <2>1, ChildAbove
  <2>3. Exists(c)
    <3>1. CASE f = c
      BY <2>1, <3>1 DEF Exists
    <3>2. CASE Under(f, c)
      <4>1. c \in Ids /\ Exists(f)
        BY <2>1 DEF Below, Exists
      <4> QED BY <2>1, <3>2, <4>1, AboveExists DEF Exists
    <3> QED BY <2>2, <3>1, <3>2 DEF Within
  <2> QED BY <2>1, <2>2, <2>3, CalcedMeans
<1>2. ASSUME f \in Ids, is_file(f), NEW c \in Calced(id), Within(f, c) PROVE f \in FilesUnder(id)
  <2>1. c \in Below /\ Parent[c] = id
    BY CalcedMeans
  <2>2. Under(f, id)
    BY <1>2, <2>1, ChildAbove
  <2> QED BY <1>2, <2>2 DEF FilesUnder
<1> QED BY <1>1, <1>2

FullyHashed(c) == (is_file(c) => file_hash[c] # NoHash) /\ AllHashed(c)

(* A directory is hashed if all of its children are.                       *)
LEMMA HashedParts ==
  ASSUME PassesInv, NEW id \in Ids
  PROVE  AllHashed(id) <=> \A c \in Calced(id) : FullyHashed(c)
<1>1. \A f : f \in FilesUnder(id) <=> f \in Ids /\ is_file(f) /\ \E c \in Calced(id) : Within(f, c)
  BY FilesInChildren
<1>2. \A c \in Calced(id) : c \in Ids
  BY CalcedMeans
<1>3. ASSUME NEW c \in Calced(id)
      PROVE  FullyHashed(c) <=> \A f \in Ids : is_file(f) /\ Within(f, c) => file_hash[f] # NoHash
  BY <1>2 DEF FullyHashed, AllHashed, FilesUnder, Within
<1> QED BY <1>1, <1>3 DEF AllHashed

(* What an entry holds seen from itself, where an archive is a file, and   *)
(* seen from the directory it lies in.                                     *)
Inner(c) == IF is_file(c) THEN {<<<<>>, content[c]>>} ELSE Listing(c)
Lift(c, l) == <<<<Name[c]>> \o l[1], l[2]>>
Part(c) == {Lift(c, l) : l \in Inner(c)}

(* A file that is not in an archive.                                       *)
Counts(f, id) == f \in FilesUnder(id) /\ ~\E a \in FilesUnder(id) : Under(f, a)

(* A listing holds the files that count, with their relative paths.        *)
LEMMA ListingOf ==
  ASSUME NEW id \in Ids
  PROVE  Listing(id) = {<<Rel(f, id), content[f]>> : f \in {f \in Ids : Counts(f, id)}}
BY DEF Listing, Counts, FilesUnder, Rel

(* A file counts for a directory if it counts for the child it lies in.    *)
LEMMA CountsInPart ==
  ASSUME PassesInv, NEW id \in Ids, NEW c \in Calced(id), NEW f \in Ids, is_file(f), Within(f, c)
  PROVE  Counts(f, id) <=> IF is_file(c) THEN f = c ELSE Counts(f, c)
<1>1. c \in Below /\ c \in Ids /\ Parent[c] = id
  BY CalcedMeans
<1>2. Under(f, id) /\ Under(c, id)
  BY <1>1, ChildAbove DEF Within
<1>3. ASSUME NEW a \in Ids, Under(f, a), Under(a, id) PROVE Within(a, c)
  <2>1. PICK d \in Below : Parent[d] = id /\ Within(a, d)
    BY <1>3, ChildAbove
  <2>2. Within(f, d)
    <3>1. d \in Ids
      BY DEF Below
    <3> QED BY <1>3, <2>1, <3>1, UnderTransitive DEF Within
  <2>3. d = c
    BY <1>1, <2>1, <2>2, OneChildAbove
  <2> QED BY <2>1, <2>3
<1>4. CASE is_file(c)
  <2>1. CASE f = c
    <3>1. ASSUME NEW a \in Ids, Under(f, a), Under(a, id) PROVE FALSE
      <4>1. Within(a, c)
        BY <1>3, <3>1
      <4>2. a < c /\ (a = c \/ c < a) /\ a \in Nat /\ c \in Nat
        BY <1>1, <2>1, <3>1, <4>1, UnderOrder, PathOf DEF Within
      <4> QED BY <4>2
    <3> QED BY <1>2, <1>4, <2>1, <3>1 DEF Counts, FilesUnder
  <2>2. CASE f # c
    BY <1>1, <1>2, <1>4, <2>2 DEF Counts, FilesUnder, Within
  <2> QED BY <1>4, <2>1, <2>2
<1>5. CASE ~is_file(c)
  <2>1. f # c
    BY <1>5
  <2>2. ASSUME NEW a \in Ids, is_file(a), Under(f, a) PROVE Under(a, id) <=> Under(a, c)
    <3>1. Under(a, c) => Under(a, id)
      BY <1>1, <1>2, UnderTransitive
    <3>2. Under(a, id) => Under(a, c)
      BY <1>3, <1>5, <2>2 DEF Within
    <3> QED BY <3>1, <3>2
  <2> QED BY <1>2, <1>5, <2>1, <2>2 DEF Counts, FilesUnder, Within
<1> QED BY <1>4, <1>5

(* A listing is made of the listings of what lies directly in it.          *)
LEMMA ListingParts ==
  ASSUME PassesInv, NEW id \in Ids
  PROVE  Listing(id) = UNION {Part(c) : c \in Calced(id)}
<1>1. ASSUME NEW c \in Calced(id), NEW f \in Ids, is_file(f), Within(f, c)
      PROVE  Rel(f, id) = <<Name[c]>> \o Rel(f, c) /\ c \in Ids
  BY <1>1, RelOfChild, CalcedMeans
<1>2. ASSUME NEW c \in Calced(id), is_file(c)
      PROVE  c \in Ids /\ Part(c) = {<<Rel(c, id), content[c]>>}
  <2>1. c \in Ids
    BY CalcedMeans
  <2>2. Rel(c, id) = <<Name[c]>> \o <<>>
    BY <1>1, <1>2, <2>1, RelOfSelf DEF Within
  <2> DEFINE l == <<<<>>, content[c]>>
  <2>3. Lift(c, l) = <<Rel(c, id), content[c]>>
    BY <2>2 DEF Lift
  <2>4. Inner(c) = {l}
    BY <1>2 DEF Inner
  <2> HIDE DEF l
  <2> QED BY <2>1, <2>3, <2>4 DEF Part
<1>3. ASSUME NEW f \in Ids, Counts(f, id) PROVE \E c \in Calced(id) : <<Rel(f, id), content[f]>> \in Part(c)
  <2>1. is_file(f) /\ f \in FilesUnder(id)
    BY <1>3 DEF Counts, FilesUnder
  <2>2. PICK c \in Calced(id) : Within(f, c)
    BY <2>1, FilesInChildren
  <2>3. IF is_file(c) THEN f = c ELSE Counts(f, c)
    BY <1>3, <2>1, <2>2, CountsInPart
  <2>4. CASE is_file(c)
    BY <1>2, <2>3, <2>4
  <2>5. CASE ~is_file(c)
    <3>1. c \in Ids
      BY CalcedMeans
    <3>2. <<Rel(f, c), content[f]>> \in Listing(c)
      BY <2>3, <2>5, <3>1, ListingOf
    <3>3. Rel(f, id) = <<Name[c]>> \o Rel(f, c)
      BY <1>1, <2>1, <2>2
    <3> DEFINE l == <<Rel(f, c), content[f]>>
    <3>4. <<Rel(f, id), content[f]>> = Lift(c, l)
      BY <3>3 DEF Lift
    <3> HIDE DEF l
    <3> QED BY <2>5, <3>2, <3>4 DEF Part, Inner, l
  <2> QED BY <2>4, <2>5
<1>4. ASSUME NEW c \in Calced(id), NEW l \in Part(c) PROVE l \in Listing(id)
  <2>1. c \in Ids
    BY CalcedMeans
  <2>2. PICK f \in Ids : is_file(f) /\ Within(f, c) /\ (IF is_file(c) THEN f = c ELSE Counts(f, c))
                         /\ l = <<Rel(f, id), content[f]>>
    <3>1. CASE is_file(c)
      BY <1>2, <2>1, <3>1 DEF Within
    <3>2. CASE ~is_file(c)
      <4>1. PICK m \in Listing(c) : l = <<<<Name[c]>> \o m[1], m[2]>>
        BY <3>2 DEF Part, Inner, Lift
      <4>2. PICK f \in Ids : Counts(f, c) /\ m = <<Rel(f, c), content[f]>>
        BY <2>1, <4>1, ListingOf
      <4>3. is_file(f) /\ Within(f, c)
        BY <4>2 DEF Counts, FilesUnder, Within
      <4>4. l = <<Rel(f, id), content[f]>>
        BY <1>1, <4>1, <4>2, <4>3
      <4> QED BY <3>2, <4>2, <4>3, <4>4
    <3> QED BY <3>1, <3>2
  <2>3. Counts(f, id)
    BY <2>2, CountsInPart
  <2> QED BY <2>2, <2>3, ListingOf
<1> QED BY <1>3, <1>4, ListingOf

(* What an element of a listing consists of.                               *)
LEMMA ListingElement ==
  ASSUME PassesInv, NEW id \in Ids, NEW l \in Listing(id)
  PROVE  l = <<l[1], l[2]>> /\ l[1] \in Seq(STRING) /\ l[2] \in Contents
<1>1. PICK f \in Ids : Counts(f, id) /\ l = <<Rel(f, id), content[f]>>
  BY ListingOf
<1>2. content[f] \in Contents
  BY <1>1 DEF Counts, FilesUnder, PassesInv
<1> QED BY <1>1, <1>2, RelSeq

(* What an element of the part of a child consists of.                     *)
LEMMA InnerElement ==
  ASSUME PassesInv, NEW c \in Ids, NEW l \in Inner(c)
  PROVE  l = <<l[1], l[2]>> /\ l[1] \in Seq(STRING) /\ l[2] \in Contents
<1>1. CASE is_file(c)
  <2>1. l = <<<<>>, content[c]>> /\ content[c] \in Contents
    BY <1>1 DEF Inner, PassesInv
  <2>2. <<>> \in Seq(STRING)
    BY EmptySeq
  <2> QED BY <2>1, <2>2
<1>2. CASE ~is_file(c)
  BY <1>2, ListingElement DEF Inner
<1> QED BY <1>1, <1>2

(* An element of a listing tells the child it comes from.                  *)
LEMMA LiftInjective ==
  ASSUME PassesInv, NEW c \in Below, NEW d \in Below, NEW l \in Inner(c), NEW m \in Inner(d),
         Lift(c, l) = Lift(d, m)
  PROVE  Name[c] = Name[d] /\ l = m
<1>1. /\ l = <<l[1], l[2]>> /\ l[1] \in Seq(STRING)
      /\ m = <<m[1], m[2]>> /\ m[1] \in Seq(STRING)
  BY InnerElement DEF Below
<1>2. <<Name[c]>> \o l[1] = <<Name[d]>> \o m[1] /\ l[2] = m[2]
  BY DEF Lift
<1>3. Name[c] \in STRING /\ Name[d] \in STRING
  BY ParentOf
<1>4. Name[c] = Name[d] /\ l[1] = m[1]
  <2> DEFINE N == STRING
  <2>1. Name[c] \in N /\ Name[d] \in N /\ l[1] \in Seq(N) /\ m[1] \in Seq(N)
    BY <1>1, <1>3
  <2> HIDE DEF N
  <2> QED BY <1>2, <2>1, NameInFront
<1> QED BY <1>1, <1>2, <1>4

(* A directory that exists holds a file: directories are only made for     *)
(* files, and the members of an archive are files.                         *)
LEMMA DirsHoldFiles ==
  ASSUME PassesInv, NEW id \in Below, state[id] = "dir"
  PROVE  Listing(id) # {}
<1> DEFINE bad == {d \in Below : state[d] = "dir" /\ Listing(d) = {}}
<1>1. ASSUME bad # {} PROVE FALSE
  <2>1. bad \subseteq Ids
    BY DEF Below
  <2>2. PICK d \in bad : \A e \in bad : e <= d
    <3> HIDE DEF bad
    <3> QED BY <1>1, <2>1, LastEntry
  <2>3. PICK c \in Below : Parent[c] = d /\ Exists(c)
    BY <2>2 DEF PassesInv
  <2>4. c \in Ids /\ d \in Ids /\ d < c /\ c \in Nat /\ d \in Nat
    BY <2>1, <2>3, ParentOf, PathOf
  <2>5. c \in Calced(d)
    BY <2>3, <2>4, CalcedMeans
  <2>6. Inner(c) # {}
    <3>1. CASE is_file(c)
      BY <3>1 DEF Inner
    <3>2. CASE ~is_file(c)
      <4>1. state[c] = "dir"
        BY <2>3, <3>2 DEF Exists, is_file, is_dir
      <4>2. c \notin bad
        BY <2>2, <2>4
      <4> QED BY <2>3, <3>2, <4>1, <4>2 DEF Inner
    <3> QED BY <3>1, <3>2
  <2>7. Listing(d) # {}
    <3>1. Listing(d) = UNION {Part(e) : e \in Calced(d)}
      BY <2>4, ListingParts
    <3>2. PICK l : l \in Inner(c)
      BY <2>6
    <3>3. Lift(c, l) \in Part(c)
      BY <3>2 DEF Part
    <3> QED BY <2>5, <3>1, <3>3
  <2> QED BY <2>2, <2>7
<1> QED BY <1>1

-----------------------------------------------------------------------------
(* What calculate_dir_hash returns.                                        *)

Returned(id, result) ==
  IF ~is_dir(id) THEN IF file_hash[id] = NoHash THEN Err ELSE FileProps(id)
  ELSE IF OfChildren(id, result) = Err THEN Err
  ELSE IF is_file(id) THEN FileProps(id)
  ELSE OfChildren(id, result)

(* It depends on the results of what is in the directory.                  *)
LEMMA ReturnedSame ==
  ASSUME NEW id, NEW f, NEW g, \A c \in Calced(id) : f[c] = g[c]
  PROVE  OfChildren(id, f) = OfChildren(id, g) /\ Returned(id, f) = Returned(id, g)
<1>1. [c \in Calced(id) |-> f[c].size] = [c \in Calced(id) |-> g[c].size]
  OBVIOUS
<1>2. {<<Name[c], f[c].hash>> : c \in Calced(id)} = {<<Name[c], g[c].hash>> : c \in Calced(id)}
  OBVIOUS
<1>3. Combined(Calced(id), f) = Combined(Calced(id), g)
  BY <1>1, <1>2 DEF Combined
<1>4. (\E c \in Calced(id) : f[c] = Err) <=> (\E c \in Calced(id) : g[c] = Err)
  OBVIOUS
<1>5. OfChildren(id, f) = OfChildren(id, g)
  BY <1>3, <1>4 DEF OfChildren
<1> QED BY <1>5 DEF Returned

Later(n) == {id \in Ids : id >= n}

(* The results of the entries from n on.                                   *)
Results(f, n) == f = [id \in Later(n) |-> Returned(id, f)]

(* The recursion of calculate_dir_hash ends: there is a result for every   *)
(* entry.                                                                  *)
LEMMA ResultsExist == \E f : Results(f, 0)
<1> DEFINE T == {n \in Nat : \E f : Results(f, n)}
<1>1. T # {}
  <2>1. PICK x \in Ids : \A y \in Ids : y <= x
    BY LastEntry, PathsAssumption
  <2>2. x + 1 \in Nat /\ Later(x + 1) = {}
    BY <2>1, PathOf DEF Later
  <2> DEFINE e == [id \in {} |-> 0]
  <2>3. e = [id \in Later(x + 1) |-> Returned(id, e)]
    BY <2>2
  <2>4. Results(e, x + 1)
    BY <2>3 DEF Results
  <2> QED BY <2>2, <2>4
<1>2. PICK n \in T : \A m \in T : n <= m
  <2>1. T \subseteq Nat
    OBVIOUS
  <2> HIDE DEF T
  <2> QED BY <1>1, <2>1, LeastNumber
<1>3. PICK f : Results(f, n)
  OBVIOUS
<1>4. ASSUME n # 0 PROVE FALSE
  <2> DEFINE g == [id \in Later(n - 1) |-> Returned(id, f)]
  <2>1. n - 1 \in Nat /\ n \in Nat
    BY <1>4
  <2>2. ASSUME NEW id \in Later(n - 1) PROVE Returned(id, g) = Returned(id, f)
    <3>1. ASSUME NEW c \in Calced(id) PROVE g[c] = f[c]
      <4>1. c \in Below /\ Parent[c] = id
        BY DEF Calced, Childs
      <4>2. c \in Ids /\ id < c /\ c \in Nat /\ id \in Nat
        BY <4>1, ParentOf, PathOf
      <4>3. c \in Later(n) /\ c \in Later(n - 1)
        BY <2>1, <4>2 DEF Later
      <4> HIDE DEF g
      <4>4. f[c] = Returned(c, f)
        BY <1>3, <4>3 DEF Results
      <4>5. g[c] = Returned(c, f)
        BY <4>3 DEF g
      <4> QED BY <4>4, <4>5
    <3> HIDE DEF g
    <3> QED BY <3>1, ReturnedSame
  <2>3. g = [id \in Later(n - 1) |-> Returned(id, g)]
    <3>1. \A id \in Later(n - 1) : g[id] = Returned(id, g)
      <4> HIDE DEF g
      <4>1. \A id \in Later(n - 1) : g[id] = Returned(id, f)
        BY DEF g
      <4> QED BY <2>2, <4>1
    <3> QED BY <2>2
  <2>4. Results(g, n - 1)
    BY <2>3 DEF Results
  <2>5. n - 1 \in T
    BY <2>1, <2>4
  <2> HIDE DEF T
  <2> QED BY <1>2, <2>1, <2>5
<1> QED BY <1>3, <1>4

(* The result of an entry comes from the results of its children.          *)
LEMMA ResultMeans ==
  ASSUME NEW id \in Ids
  PROVE  Result[id] = Returned(id, Result)
<1> DEFINE Rec(f) == f = [i \in Ids |-> IF ~is_dir(i) THEN IF file_hash[i] = NoHash THEN Err ELSE FileProps(i)
                                        ELSE IF OfChildren(i, f) = Err THEN Err
                                        ELSE IF is_file(i) THEN FileProps(i)
                                        ELSE OfChildren(i, f)]
<1>1. \E f : Rec(f)
  <2>1. PICK f : Results(f, 0)
    BY ResultsExist
  <2>2. Later(0) = Ids
    BY PathOf DEF Later
  <2>3. f = [i \in Ids |-> Returned(i, f)]
    BY <2>1, <2>2 DEF Results
  <2> QED BY <2>3 DEF Returned
<1>2. Result = CHOOSE f : Rec(f)
  BY Zenon DEF Result
<1>3. Rec(Result)
  <2> HIDE DEF Rec
  <2> QED BY <1>1, <1>2
<1> QED BY <1>3 DEF Returned

-----------------------------------------------------------------------------
(* Sums.                                                                   *)

(* When a function is a bijection.                                         *)
LEMMA MakeBijection ==
  ASSUME NEW S, NEW T, NEW m \in [S -> T],
         \A x, y \in S : m[x] = m[y] => x = y,
         \A t \in T : \E x \in S : m[x] = t
  PROVE  ExistsBijection(S, T)
BY DEF ExistsBijection, Bijection, Injection, Surjection, IsInjective

(* The image of a finite set is finite.                                    *)
LEMMA ImageFinite ==
  ASSUME NEW S, IsFiniteSet(S), NEW T, NEW m \in [S -> T], \A t \in T : \E x \in S : m[x] = t
  PROVE  IsFiniteSet(T)
<1>1. m \in Surjection(S, T)
  BY DEF Surjection
<1> QED BY <1>1, FS_Surjection

Cells(S, f) == UNION {{<<x, k>> : k \in 1..f[x]} : x \in S}

(* A total is the number of cells.                                         *)
LEMMA TotalIs == \A S, f : Total(S, f) = Cardinality(Cells(S, f))
BY DEF Total, Cells

(* The elements of the sets Q[c], each with its c.                         *)
Glued(C, Q) == UNION {{<<c, y>> : y \in Q[c]} : c \in C}

(* Finitely many finite sets are finite together.                          *)
LEMMA GluedFinite ==
  ASSUME NEW C, IsFiniteSet(C), NEW Q, \A c \in C : IsFiniteSet(Q[c])
  PROVE  IsFiniteSet(Glued(C, Q))
<1> DEFINE piece(c) == {<<c, y>> : y \in Q[c]}
           pieces == {piece(c) : c \in C}
<1>1. ASSUME NEW c \in C PROVE IsFiniteSet(piece(c))
  <2> DEFINE m == [y \in Q[c] |-> <<c, y>>]
  <2>1. m \in [Q[c] -> piece(c)] /\ \A t \in piece(c) : \E y \in Q[c] : m[y] = t
    OBVIOUS
  <2> HIDE DEF m
  <2> QED BY <2>1, ImageFinite
<1>2. IsFiniteSet(pieces)
  <2> DEFINE m == [c \in C |-> piece(c)]
  <2>1. m \in [C -> pieces] /\ \A t \in pieces : \E c \in C : m[c] = t
    OBVIOUS
  <2> HIDE DEF m, pieces
  <2> QED BY <2>1, ImageFinite
<1>3. \A t \in pieces : IsFiniteSet(t)
  BY <1>1
<1>4. IsFiniteSet(UNION pieces)
  <2> HIDE DEF pieces
  <2> QED BY <1>2, <1>3, FS_UNION
<1> QED BY <1>4 DEF Glued

(* So are the cells of a total, which is a number.                         *)
LEMMA CellsFinite ==
  ASSUME NEW S, IsFiniteSet(S), NEW f, \A x \in S : f[x] \in Nat
  PROVE  IsFiniteSet(Cells(S, f)) /\ Total(S, f) \in Nat
<1> DEFINE Q == [x \in S |-> 1..f[x]]
<1>1. \A x \in S : IsFiniteSet(Q[x])
  <2>1. ASSUME NEW x \in S PROVE IsFiniteSet(1..f[x])
    <3>1. 1 \in Int /\ f[x] \in Int
      OBVIOUS
    <3> QED BY <3>1, FS_Interval
  <2> QED BY <2>1
<1>2. Cells(S, f) = Glued(S, Q)
  BY DEF Cells, Glued
<1> HIDE DEF Q
<1>3. IsFiniteSet(Glued(S, Q))
  BY <1>1, GluedFinite
<1> QED BY <1>2, <1>3, TotalIs, FS_CardinalityType

(* As many elements as the sum of the sizes of the sets.                   *)
LEMMA GluedTotal ==
  ASSUME NEW C, IsFiniteSet(C), NEW Q, NEW q,
         \A c \in C : IsFiniteSet(Q[c]) /\ Cardinality(Q[c]) = q[c]
  PROVE  Cardinality(Glued(C, Q)) = Total(C, q)
<1>1. \A c \in C : q[c] \in Nat /\ ExistsBijection(1..q[c], Q[c])
  BY FS_CardinalityType
<1> DEFINE b == [c \in C |-> CHOOSE g : g \in Bijection(1..q[c], Q[c])]
<1>2. ASSUME NEW c \in C
      PROVE  /\ \A k \in 1..q[c] : b[c][k] \in Q[c]
             /\ \A j, k \in 1..q[c] : b[c][j] = b[c][k] => j = k
             /\ \A y \in Q[c] : \E k \in 1..q[c] : b[c][k] = y
  <2>1. b[c] \in Bijection(1..q[c], Q[c])
    BY <1>1 DEF ExistsBijection
  <2> HIDE DEF b
  <2> QED BY <2>1 DEF Bijection, Injection, Surjection, IsInjective
<1> DEFINE m == [z \in Cells(C, q) |-> <<z[1], b[z[1]][z[2]]>>]
<1> HIDE DEF b
<1>3. m \in [Cells(C, q) -> Glued(C, Q)]
  BY <1>2 DEF Cells, Glued
<1>4. ASSUME NEW x \in Cells(C, q), NEW y \in Cells(C, q), m[x] = m[y] PROVE x = y
  <2>1. PICK c \in C : \E k \in 1..q[c] : x = <<c, k>>
    BY DEF Cells
  <2>2. PICK k \in 1..q[c] : x = <<c, k>>
    BY <2>1
  <2>3. PICK d \in C : \E j \in 1..q[d] : y = <<d, j>>
    BY DEF Cells
  <2>4. PICK j \in 1..q[d] : y = <<d, j>>
    BY <2>3
  <2>5. m[x] = <<c, b[c][k]>> /\ m[y] = <<d, b[d][j]>>
    BY <2>2, <2>4
  <2> HIDE DEF m
  <2> DEFINE u == b[c][k]
             v == b[d][j]
  <2>6. c = d /\ u = v
    <3>1. <<c, u>> = <<d, v>>
      BY <1>4, <2>5
    <3> HIDE DEF u, v
    <3> QED BY <3>1
  <2> QED BY <1>2, <2>2, <2>4, <2>6
<1>5. ASSUME NEW t \in Glued(C, Q) PROVE \E x \in Cells(C, q) : m[x] = t
  <2>1. PICK c \in C : \E y \in Q[c] : t = <<c, y>>
    BY DEF Glued
  <2>2. PICK y \in Q[c] : t = <<c, y>>
    BY <2>1
  <2>3. PICK k \in 1..q[c] : b[c][k] = y
    BY <1>2
  <2>4. <<c, k>> \in Cells(C, q)
    BY DEF Cells
  <2>5. m[<<c, k>>] = t
    BY <2>2, <2>3, <2>4
  <2> QED BY <2>4, <2>5
<1>6. ExistsBijection(Cells(C, q), Glued(C, Q))
  <2> HIDE DEF m
  <2> QED BY <1>3, <1>4, <1>5, MakeBijection
<1> QED BY <1>1, <1>6, CellsFinite, TotalIs, FS_Bijection

-----------------------------------------------------------------------------
(* The size of what a directory holds.                                     *)

LengthsOf(S) == [l \in S |-> Length[l[2]]]
SizeOf(S) == Total(S, LengthsOf(S))

(* A listing is finite.                                                    *)
LEMMA ListingFinite ==
  ASSUME NEW id \in Ids
  PROVE  IsFiniteSet(Listing(id))
<1> DEFINE S == {f \in Ids : Counts(f, id)}
           m == [f \in S |-> <<Rel(f, id), content[f]>>]
<1>1. IsFiniteSet(S)
  BY PathsAssumption, FS_Subset
<1>2. m \in [S -> Listing(id)] /\ \A l \in Listing(id) : \E f \in S : m[f] = l
  BY ListingOf
<1> HIDE DEF m, S
<1> QED BY <1>1, <1>2, ImageFinite

(* So is the part of a child.                                              *)
LEMMA InnerFinite ==
  ASSUME PassesInv, NEW c \in Ids
  PROVE  /\ IsFiniteSet(Inner(c))
         /\ \A l \in Inner(c) : LengthsOf(Inner(c))[l] \in Nat
         /\ SizeOf(Inner(c)) \in Nat
         /\ IsFiniteSet(Cells(Inner(c), LengthsOf(Inner(c))))
<1>1. IsFiniteSet(Inner(c))
  BY ListingFinite, FS_Singleton DEF Inner
<1>2. \A l \in Inner(c) : LengthsOf(Inner(c))[l] \in Nat
  BY InnerElement, ConstantsAssumption DEF LengthsOf
<1> DEFINE S == Inner(c)
           f == LengthsOf(S)
<1>3. IsFiniteSet(Cells(S, f)) /\ Total(S, f) \in Nat
  <2>1. IsFiniteSet(S) /\ \A x \in S : f[x] \in Nat
    BY <1>1, <1>2
  <2> HIDE DEF f, S
  <2> QED BY <2>1, CellsFinite
<1> QED BY <1>1, <1>2, <1>3 DEF SizeOf

(* The part of a file is of the size of its content.                       *)
LEMMA SizeOfFile ==
  ASSUME PassesInv, NEW c \in Ids, is_file(c)
  PROVE  SizeOf(Inner(c)) = Length[content[c]]
<1> DEFINE l == <<<<>>, content[c]>>
           n == Length[content[c]]
           S == Inner(c)
           f == LengthsOf(S)
           m == [k \in 1..n |-> <<l, k>>]
<1>1. S = {l} /\ n \in Nat
  BY ConstantsAssumption DEF Inner, PassesInv
<1>2. f[l] = n
  BY <1>1 DEF LengthsOf
<1> HIDE DEF l, n, S, f
<1>3. Cells(S, f) = {<<l, k>> : k \in 1..n}
  BY <1>1, <1>2 DEF Cells
<1>4. m \in [1..n -> Cells(S, f)]
  BY <1>3
<1>5. \A x, y \in 1..n : m[x] = m[y] => x = y
  OBVIOUS
<1>6. \A t \in Cells(S, f) : \E x \in 1..n : m[x] = t
  BY <1>3
<1>7. IsFiniteSet(1..n) /\ Cardinality(1..n) = n
  <2>1. 1 \in Int /\ n \in Int
    BY <1>1
  <2> QED BY <1>1, <2>1, FS_Interval
<1>8. ExistsBijection(1..n, Cells(S, f))
  <2> DEFINE A == 1..n
             B == Cells(S, f)
  <2>1. m \in [A -> B] /\ (\A x, y \in A : m[x] = m[y] => x = y) /\ (\A t \in B : \E x \in A : m[x] = t)
    BY <1>4, <1>5, <1>6
  <2> HIDE DEF m, A, B
  <2>2. ExistsBijection(A, B)
    BY <2>1, MakeBijection
  <2> QED BY <2>2 DEF A, B
<1>9. Total(S, f) = n
  BY <1>7, <1>8, FS_Bijection, TotalIs
<1> QED BY <1>9 DEF SizeOf, S, f, n

(* The size of a directory is the sum of the sizes of what is in it.       *)
LEMMA SizeOfParts ==
  ASSUME PassesInv, NEW id \in Ids, NEW q, \A c \in Calced(id) : q[c] = SizeOf(Inner(c))
  PROVE  SizeOf(Listing(id)) = Total(Calced(id), q)
<1> DEFINE C == Calced(id)
           Q == [c \in C |-> Cells(Inner(c), LengthsOf(Inner(c)))]
           L == Listing(id)
           f == LengthsOf(L)
           m == [z \in Glued(C, Q) |-> <<Lift(z[1], z[2][1]), z[2][2]>>]
<1>1. IsFiniteSet(C) /\ C \subseteq Ids /\ C = {c \in Below : Parent[c] = id /\ Exists(c)}
  BY CalcedMeans
<1>2. \A c \in C : IsFiniteSet(Q[c]) /\ Cardinality(Q[c]) = q[c]
  BY <1>1, InnerFinite, TotalIs DEF SizeOf
<1>3. Cardinality(Glued(C, Q)) = Total(C, q) /\ IsFiniteSet(Glued(C, Q))
  <2> HIDE DEF C, Q
  <2> QED BY <1>1, <1>2, GluedTotal, GluedFinite
<1>4. L = UNION {Part(c) : c \in C}
  BY ListingParts
<1>5. ASSUME NEW c \in C, NEW l \in Inner(c)
      PROVE  Lift(c, l) \in L /\ f[Lift(c, l)] = LengthsOf(Inner(c))[l]
  <2>1. Lift(c, l) \in L
    BY <1>4 DEF Part
  <2>2. Lift(c, l)[2] = l[2]
    BY DEF Lift
  <2> HIDE DEF L
  <2> QED BY <2>1, <2>2 DEF LengthsOf
<1>6. ASSUME NEW z \in Glued(C, Q)
      PROVE  \E c \in C : \E l \in Inner(c) : \E k \in 1..LengthsOf(Inner(c))[l] :
               z = <<c, <<l, k>>>> /\ m[z] = <<Lift(c, l), k>>
  <2>1. PICK c \in C : \E y \in Q[c] : z = <<c, y>>
    BY DEF Glued
  <2>2. PICK y \in Q[c] : z = <<c, y>>
    BY <2>1
  <2>3. y \in Cells(Inner(c), LengthsOf(Inner(c)))
    BY <2>2
  <2>4. PICK l \in Inner(c) : \E k \in 1..LengthsOf(Inner(c))[l] : y = <<l, k>>
    BY <2>3 DEF Cells
  <2>5. PICK k \in 1..LengthsOf(Inner(c))[l] : y = <<l, k>>
    BY <2>4
  <2>6. m[z] = <<Lift(z[1], z[2][1]), z[2][2]>>
    OBVIOUS
  <2>7. z = <<c, <<l, k>>>>
    BY <2>2, <2>5
  <2>8. z[1] = c /\ z[2][1] = l /\ z[2][2] = k
    BY <2>7
  <2>9. m[z] = <<Lift(c, l), k>>
    BY <2>6, <2>8
  <2> HIDE DEF m, Q
  <2> QED BY <2>4, <2>5, <2>7, <2>9
<1>7. m \in [Glued(C, Q) -> Cells(L, f)]
  <2>1. ASSUME NEW z \in Glued(C, Q) PROVE m[z] \in Cells(L, f)
    <3>1. PICK c \in C : \E l \in Inner(c) : \E k \in 1..LengthsOf(Inner(c))[l] :
             m[z] = <<Lift(c, l), k>>
      BY <1>6
    <3>2. PICK l \in Inner(c) : \E k \in 1..LengthsOf(Inner(c))[l] : m[z] = <<Lift(c, l), k>>
      BY <3>1
    <3>3. PICK k \in 1..LengthsOf(Inner(c))[l] : m[z] = <<Lift(c, l), k>>
      BY <3>2
    <3>4. Lift(c, l) \in L /\ k \in 1..f[Lift(c, l)]
      BY <1>5
    <3> HIDE DEF m, L, f
    <3> QED BY <3>3, <3>4 DEF Cells
  <2>2. m = [z \in Glued(C, Q) |-> m[z]]
    OBVIOUS
  <2> HIDE DEF m
  <2> QED BY <2>1, <2>2
<1>8. ASSUME NEW x \in Glued(C, Q), NEW y \in Glued(C, Q), m[x] = m[y] PROVE x = y
  <2>1. PICK c \in C : \E l \in Inner(c) : \E k \in 1..LengthsOf(Inner(c))[l] :
           x = <<c, <<l, k>>>> /\ m[x] = <<Lift(c, l), k>>
    BY <1>6
  <2>2. PICK l \in Inner(c) : \E k \in 1..LengthsOf(Inner(c))[l] :
           x = <<c, <<l, k>>>> /\ m[x] = <<Lift(c, l), k>>
    BY <2>1
  <2>3. PICK k \in 1..LengthsOf(Inner(c))[l] : x = <<c, <<l, k>>>> /\ m[x] = <<Lift(c, l), k>>
    BY <2>2
  <2>4. PICK d \in C : \E l2 \in Inner(d) : \E k2 \in 1..LengthsOf(Inner(d))[l2] :
           y = <<d, <<l2, k2>>>> /\ m[y] = <<Lift(d, l2), k2>>
    BY <1>6
  <2>5. PICK l2 \in Inner(d) : \E k2 \in 1..LengthsOf(Inner(d))[l2] :
           y = <<d, <<l2, k2>>>> /\ m[y] = <<Lift(d, l2), k2>>
    BY <2>4
  <2>6. PICK k2 \in 1..LengthsOf(Inner(d))[l2] : y = <<d, <<l2, k2>>>> /\ m[y] = <<Lift(d, l2), k2>>
    BY <2>5
  <2>7. Lift(c, l) = Lift(d, l2) /\ k = k2
    <3> DEFINE u == Lift(c, l)
               v == Lift(d, l2)
    <3>1. <<u, k>> = <<v, k2>>
      BY <1>8, <2>3, <2>6
    <3> HIDE DEF u, v
    <3>2. u = v /\ k = k2
      BY <3>1
    <3> QED BY <3>2 DEF u, v
  <2>8. c \in Below /\ d \in Below /\ Parent[c] = Parent[d]
    BY <1>1
  <2>9. Name[c] = Name[d] /\ l = l2
    BY <2>7, <2>8, LiftInjective
  <2>10. c = d
    BY <2>8, <2>9, NamesDiffer
  <2> QED BY <2>3, <2>6, <2>7, <2>9, <2>10
<1>9. ASSUME NEW t \in Cells(L, f) PROVE \E z \in Glued(C, Q) : m[z] = t
  <2>1. PICK j \in L : \E k \in 1..f[j] : t = <<j, k>>
    BY DEF Cells
  <2>2. PICK k \in 1..f[j] : t = <<j, k>>
    BY <2>1
  <2>3. PICK c \in C : j \in Part(c)
    BY <1>4
  <2>4. PICK l \in Inner(c) : j = Lift(c, l)
    BY <2>3 DEF Part
  <2>5. k \in 1..LengthsOf(Inner(c))[l]
    BY <1>5, <2>2, <2>4
  <2> DEFINE z == <<c, <<l, k>>>>
  <2>6. <<l, k>> \in Q[c]
    BY <2>5 DEF Cells
  <2>7. z \in Glued(C, Q)
    BY <2>6 DEF Glued
  <2>8. m[z] = <<Lift(z[1], z[2][1]), z[2][2]>>
    <3> HIDE DEF z
    <3> QED BY <2>7
  <2>9. m[z] = <<Lift(c, l), k>>
    BY <2>8
  <2> HIDE DEF z, m
  <2> QED BY <2>2, <2>4, <2>7, <2>9
<1>10. ExistsBijection(Glued(C, Q), Cells(L, f))
  <2> HIDE DEF m, Q, C, L, f
  <2> QED BY <1>7, <1>8, <1>9, MakeBijection
<1>11. Cardinality(Cells(L, f)) = Total(C, q)
  <2> HIDE DEF Q, C, L, f
  <2> QED BY <1>3, <1>10, FS_Bijection
<1> QED BY <1>11, TotalIs DEF SizeOf

-----------------------------------------------------------------------------
(* When a directory has a hash, and its size.                              *)

Clean(id) == \A d \in Ids : Under(d, id) => ~Unwraps(d)

OwnGood(id) ==
  /\ OwnHash(id) # Err <=> AllHashed(id)
  /\ OwnHash(id) # Err => OwnHash(id).size = SizeOf(Listing(id))

(* What an entry contributes to the hash of its directory.                 *)
ChildHash(c) == IF is_file(c) THEN file_hash[c] ELSE OwnHash(c).hash

(* What an entry returns, by the kind of the entry.                        *)
LEMMA ResultOf ==
  ASSUME NEW c \in Ids
  PROVE  Result[c] = IF ~is_dir(c) THEN IF file_hash[c] = NoHash THEN Err ELSE FileProps(c)
                     ELSE IF OwnHash(c) = Err THEN Err
                     ELSE IF is_file(c) THEN FileProps(c)
                     ELSE OwnHash(c)
BY ResultMeans DEF Returned, OwnHash

(* Hashed entries do not return an error.                                  *)
LEMMA NotErr ==
  /\ \A id : file_hash[id] # NoHash => FileProps(id) # Err
  /\ \A cs, result : Combined(cs, result) # Err /\ Combined(cs, result).hash # NoHash
BY DEF FileProps, Combined, Err, NoHash

(* What a child returns: its hash and the size of its part.                *)
LEMMA ResultOfChild ==
  ASSUME PassesInv, NEW c \in Ids, Exists(c), ~Unwraps(c), is_dir(c) => OwnGood(c)
  PROVE  /\ Result[c] # Err <=> FullyHashed(c)
         /\ Result[c] # Err => Result[c].size = SizeOf(Inner(c)) /\ Result[c].hash = ChildHash(c)
<1>1. CASE ~is_dir(c)
  <2>1. is_file(c)
    BY <1>1 DEF Exists
  <2>2. FilesUnder(c) = {}
    BY <1>1, AboveExists DEF FilesUnder, Exists
  <2>3. Result[c] = IF file_hash[c] = NoHash THEN Err ELSE FileProps(c)
    BY <1>1, ResultOf
  <2>4. FullyHashed(c) <=> file_hash[c] # NoHash
    BY <2>1, <2>2 DEF FullyHashed, AllHashed
  <2>5. FileProps(c).size = SizeOf(Inner(c)) /\ FileProps(c).hash = ChildHash(c)
    BY <2>1, SizeOfFile DEF FileProps, ChildHash
  <2> QED BY <2>3, <2>4, <2>5, NotErr
<1>2. CASE is_dir(c) /\ ~is_file(c)
  <2>1. Result[c] = OwnHash(c)
    BY <1>2, ResultOf
  <2>2. FullyHashed(c) <=> AllHashed(c)
    BY <1>2 DEF FullyHashed
  <2> QED BY <1>2, <2>1, <2>2 DEF OwnGood, Inner, ChildHash
<1>3. CASE is_dir(c) /\ is_file(c)
  <2>1. Result[c] = IF OwnHash(c) = Err THEN Err ELSE FileProps(c)
    BY <1>3, ResultOf
  <2>2. OwnHash(c) # Err => file_hash[c] # NoHash
    BY <1>3 DEF Unwraps
  <2>3. FileProps(c).size = SizeOf(Inner(c)) /\ FileProps(c).hash = ChildHash(c)
    BY <1>3, SizeOfFile DEF FileProps, ChildHash
  <2>4. FullyHashed(c) <=> OwnHash(c) # Err
    BY <1>3, <2>2 DEF FullyHashed, OwnGood
  <2> QED BY <2>1, <2>2, <2>3, <2>4, NotErr
<1> QED BY <1>1, <1>2, <1>3

(* Where nothing is unwrapped, nothing is further down.                    *)
LEMMA ChildOfClean ==
  ASSUME PassesInv, NEW id \in Ids, Clean(id), NEW c \in Calced(id)
  PROVE  c \in Below /\ c \in Ids /\ Exists(c) /\ Parent[c] = id /\ id < c /\ ~Unwraps(c) /\ Clean(c)
<1>1. c \in Below /\ c \in Ids /\ Exists(c) /\ Parent[c] = id /\ id < c
  BY CalcedMeans, ParentOf
<1>2. Under(c, id)
  BY <1>1, UnderParent
<1>3. \A d \in Ids : Under(d, c) => Under(d, id)
  BY <1>1, <1>2, UnderTransitive
<1> QED BY <1>1, <1>2, <1>3 DEF Clean

(* A directory has a hash exactly if everything in it has, and its size is *)
(* that of its files, unless an archive in it has to be unwrapped.         *)
LEMMA OwnHashGood ==
  ASSUME PassesInv, NEW id \in Ids, is_dir(id), Clean(id)
  PROVE  OwnGood(id)
<1> DEFINE bad == {d \in Ids : is_dir(d) /\ Clean(d) /\ ~OwnGood(d)}
<1>1. ASSUME bad # {} PROVE FALSE
  <2>1. PICK d \in bad : \A e \in bad : e <= d
    <3>1. bad \subseteq Ids
      OBVIOUS
    <3> HIDE DEF bad
    <3> QED BY <1>1, <3>1, LastEntry
  <2>2. d \in Ids /\ is_dir(d) /\ Clean(d) /\ ~OwnGood(d)
    OBVIOUS
  <2>3. ASSUME NEW c \in Calced(d)
        PROVE  /\ Result[c] # Err <=> FullyHashed(c)
               /\ Result[c] # Err => Result[c].size = SizeOf(Inner(c))
    <3>1. c \in Ids /\ Exists(c) /\ d < c /\ ~Unwraps(c) /\ Clean(c)
      BY <2>2, ChildOfClean
    <3>2. c \notin bad
      <4>1. ~(c <= d)
        BY <2>2, <3>1, PathOf
      <4> QED BY <2>1, <4>1
    <3> QED BY <3>1, <3>2, ResultOfChild
  <2> DEFINE C == Calced(d)
             q == [c \in C |-> Result[c].size]
  <2>4. OwnHash(d) = IF \E c \in C : Result[c] = Err THEN Err ELSE Combined(C, Result)
    BY <2>2 DEF OwnHash, OfChildren
  <2>5. OwnHash(d) # Err <=> \A c \in C : FullyHashed(c)
    <3> HIDE DEF C
    <3> QED BY <2>3, <2>4, NotErr DEF C
  <2>6. OwnHash(d) # Err <=> AllHashed(d)
    BY <2>2, <2>5, HashedParts
  <2>7. ASSUME OwnHash(d) # Err PROVE OwnHash(d).size = SizeOf(Listing(d))
    <3>1. OwnHash(d) = Combined(C, Result) /\ \A c \in C : Result[c] # Err
      BY <2>4, <2>7
    <3>2. OwnHash(d).size = Total(C, q)
      BY <3>1 DEF Combined
    <3>3. \A c \in Calced(d) : q[c] = SizeOf(Inner(c))
      BY <2>3, <3>1
    <3> HIDE DEF q
    <3>4. SizeOf(Listing(d)) = Total(Calced(d), q)
      BY <2>2, <3>3, SizeOfParts
    <3> QED BY <3>2, <3>4
  <2> QED BY <2>2, <2>6, <2>7 DEF OwnGood
<1> QED BY <1>1

(* What the hash of a directory is made of.                                *)
LEMMA OwnHashIs ==
  ASSUME PassesInv, NEW id \in Ids, is_dir(id), Clean(id), OwnHash(id) # Err
  PROVE  /\ OwnHash(id).hash = <<{<<Name[c], ChildHash(c)>> : c \in Calced(id)}>>
         /\ \A c \in Calced(id) : FullyHashed(c)
<1> DEFINE C == Calced(id)
<1>1. OwnHash(id) = IF \E c \in C : Result[c] = Err THEN Err ELSE Combined(C, Result)
  BY DEF OwnHash, OfChildren
<1>2. OwnHash(id) = Combined(C, Result) /\ \A c \in C : Result[c] # Err
  BY <1>1
<1>3. ASSUME NEW c \in C PROVE Result[c].hash = ChildHash(c) /\ FullyHashed(c)
  <2>1. c \in Ids /\ Exists(c) /\ ~Unwraps(c) /\ Clean(c)
    BY ChildOfClean
  <2>2. is_dir(c) => OwnGood(c)
    BY <2>1, OwnHashGood
  <2> QED BY <1>2, <2>1, <2>2, ResultOfChild
<1>4. {<<Name[c], Result[c].hash>> : c \in C} = {<<Name[c], ChildHash(c)>> : c \in C}
  BY <1>3
<1> QED BY <1>2, <1>3, <1>4 DEF Combined

-----------------------------------------------------------------------------
(* When two directories have the same hash.                                *)

(* The hash of a file tells its content.                                   *)
LEMMA HashTellsContent ==
  ASSUME NEW c \in Contents, NEW d \in Contents, HashOf(c) = HashOf(d)
  PROVE  c = d
<1>1. (IF Length[c] = 0 THEN {} ELSE {<<NoName, c>>}) = (IF Length[d] = 0 THEN {} ELSE {<<NoName, d>>})
  BY DEF HashOf
<1>2. Length[c] = 0 /\ Length[d] = 0 => c = d
  BY ConstantsAssumption
<1>3. Length[c] = 0 <=> Length[d] = 0
  BY <1>1
<1>4. CASE Length[c] # 0
  <2>1. {<<NoName, c>>} = {<<NoName, d>>}
    BY <1>1, <1>3, <1>4
  <2>2. <<NoName, c>> = <<NoName, d>>
    BY <2>1
  <2> QED BY <2>2
<1> QED BY <1>2, <1>3, <1>4

(* A file and a directory have the same hash only if both hold nothing.    *)
LEMMA FileAndDirectory ==
  ASSUME PassesInv, NEW f \in Ids, file_hash[f] # NoHash,
         NEW d \in Ids, is_dir(d), Clean(d), OwnHash(d) # Err,
         file_hash[f] = OwnHash(d).hash
  PROVE  Length[content[f]] = 0 /\ Calced(d) = {}
<1> DEFINE H == {<<Name[c], ChildHash(c)>> : c \in Calced(d)}
           F == IF Length[content[f]] = 0 THEN {} ELSE {<<NoName, content[f]>>}
<1>1. <<F>> = <<H>>
  BY OwnHashIs DEF PassesInv, HashOf
<1>2. F = H
  <2> HIDE DEF F, H
  <2> QED BY <1>1
<1>3. ASSUME NEW c \in Calced(d) PROVE FALSE
  <2>1. <<Name[c], ChildHash(c)>> \in F
    BY <1>2
  <2>2. <<Name[c], ChildHash(c)>> = <<NoName, content[f]>>
    BY <2>1
  <2>3. Name[c] = NoName
    BY <2>2
  <2>4. Name[c] # NoName
    BY CalcedMeans, ParentOf
  <2> QED BY <2>3, <2>4
<1>4. H = {}
  BY <1>3
<1> QED BY <1>2, <1>3, <1>4

(* What lies in a directory does not have the empty path.                  *)
LEMMA PathsNotEmpty ==
  ASSUME PassesInv, NEW id \in Ids, NEW l \in Listing(id)
  PROVE  l[1] # <<>>
<1>1. PICK c \in Calced(id) : l \in Part(c)
  BY ListingParts
<1>2. PICK m \in Inner(c) : l = Lift(c, m)
  BY <1>1 DEF Part
<1>3. c \in Below /\ c \in Ids
  BY CalcedMeans
<1> DEFINE N == STRING
           n == Name[c]
           r == m[1]
<1>4. n \in N /\ r \in Seq(N)
  BY <1>2, <1>3, ParentOf, InnerElement
<1>5. l[1] = <<n>> \o r
  BY <1>2 DEF Lift
<1> HIDE DEF N, n, r
<1>6. <<n>> \in Seq(N) /\ <<n>> # <<>>
  BY <1>4
<1>7. <<n>> \o r # <<>>
  <2> DEFINE ns == <<n>>
  <2>1. ns \in Seq(N) /\ ns # <<>>
    BY <1>6
  <2> HIDE DEF ns
  <2>2. ns \o r # <<>>
    BY <1>4, <2>1, ConcatEqualIffEmpty
  <2> QED BY <2>2 DEF ns
<1> QED BY <1>5, <1>7

HashGood(a) ==
  \A b \in Ids : is_dir(b) /\ Clean(b) /\ OwnHash(b) # Err =>
    (OwnHash(a).hash = OwnHash(b).hash <=> Listing(a) = Listing(b))

(* What can be part of a directory that has a hash.                        *)
Member(c) ==
  /\ c \in Below /\ c \in Ids /\ Exists(c) /\ Clean(c) /\ FullyHashed(c)
  /\ ~is_file(c) => is_dir(c) /\ state[c] = "dir" /\ OwnHash(c) # Err

(* All children of a directory that has a hash are hashed.                 *)
LEMMA MemberOf ==
  ASSUME PassesInv, NEW id \in Ids, is_dir(id), Clean(id), OwnHash(id) # Err, NEW c \in Calced(id)
  PROVE  Member(c)
<1>1. c \in Below /\ c \in Ids /\ Exists(c) /\ Clean(c)
  BY ChildOfClean
<1>2. FullyHashed(c)
  BY OwnHashIs
<1>3. ASSUME ~is_file(c) PROVE is_dir(c) /\ state[c] = "dir" /\ OwnHash(c) # Err
  <2>1. is_dir(c) /\ state[c] = "dir"
    BY <1>1, <1>3 DEF Exists, is_dir, is_file
  <2> QED BY <1>1, <1>2, <2>1, OwnHashGood DEF OwnGood, FullyHashed
<1> QED BY <1>1, <1>2, <1>3 DEF Member

(* A file in a directory never passes for a directory in it.               *)
LEMMA FileIsNoDirectory ==
  ASSUME PassesInv, NEW c, Member(c), is_file(c), NEW d, Member(d), ~is_file(d)
  PROVE  ChildHash(c) # ChildHash(d) /\ Inner(c) # Inner(d)
<1>1. Calced(d) # {}
  <2>1. PICK e \in Below : Parent[e] = d /\ Exists(e)
    BY DEF PassesInv, Member
  <2> QED BY <2>1, CalcedMeans DEF Member
<1>2. ChildHash(c) # ChildHash(d)
  <2>1. file_hash[c] # NoHash
    BY DEF Member, FullyHashed
  <2> QED BY <1>1, <2>1, FileAndDirectory DEF ChildHash, Member
<1>3. Inner(c) # Inner(d)
  <2> DEFINE l == <<<<>>, content[c]>>
  <2>1. l \in Inner(c) /\ l[1] = <<>>
    BY DEF Inner
  <2> HIDE DEF l
  <2>2. l \notin Inner(d)
    BY <2>1, PathsNotEmpty DEF Inner, Member
  <2> QED BY <2>1, <2>2
<1> QED BY <1>2, <1>3

(* Two children have the same hash exactly if they hold the same.          *)
LEMMA ChildHashes ==
  ASSUME PassesInv, NEW c, Member(c), ~is_file(c) => HashGood(c), NEW d, Member(d)
  PROVE  ChildHash(c) = ChildHash(d) <=> Inner(c) = Inner(d)
<1>1. CASE is_file(c) /\ is_file(d)
  <2>1. /\ content[c] \in Contents /\ content[d] \in Contents
        /\ file_hash[c] = HashOf(content[c]) /\ file_hash[d] = HashOf(content[d])
    BY <1>1 DEF Member, FullyHashed, PassesInv
  <2>2. ChildHash(c) = ChildHash(d) <=> content[c] = content[d]
    BY <1>1, <2>1, HashTellsContent DEF ChildHash
  <2> DEFINE k == content[c]
             j == content[d]
  <2>3. Inner(c) = {<<<<>>, k>>} /\ Inner(d) = {<<<<>>, j>>}
    BY <1>1 DEF Inner
  <2> HIDE DEF k, j
  <2>4. {<<<<>>, k>>} = {<<<<>>, j>>} => k = j
    <3>1. ASSUME {<<<<>>, k>>} = {<<<<>>, j>>} PROVE <<<<>>, k>> = <<<<>>, j>>
      BY <3>1
    <3> QED BY <3>1
  <2>5. Inner(c) = Inner(d) <=> k = j
    BY <2>3, <2>4
  <2> QED BY <2>2, <2>5 DEF k, j
<1>2. CASE is_file(c) /\ ~is_file(d)
  BY <1>2, FileIsNoDirectory
<1>3. CASE ~is_file(c) /\ is_file(d)
  BY <1>3, FileIsNoDirectory
<1>4. CASE ~is_file(c) /\ ~is_file(d)
  BY <1>4 DEF HashGood, Member, ChildHash, Inner
<1> QED BY <1>1, <1>2, <1>3, <1>4

(* Equal listings have equal parts under equal names.                      *)
LEMMA PartsOfEqual ==
  ASSUME PassesInv, NEW a \in Ids, NEW b \in Ids, Listing(a) = Listing(b),
         NEW c \in Calced(a), Inner(c) # {}
  PROVE  \E d \in Calced(b) : Name[c] = Name[d] /\ Inner(c) = Inner(d)
<1>1. c \in Below /\ c \in Ids /\ Parent[c] = a
  BY CalcedMeans
<1>2. ASSUME NEW x \in Ids, NEW y \in Ids, Listing(x) = Listing(y), NEW e \in Calced(x), NEW l \in Inner(e)
      PROVE  \E d \in Calced(y) : Name[e] = Name[d] /\ l \in Inner(d)
  <2>1. Lift(e, l) \in Listing(y)
    BY <1>2, ListingParts DEF Part
  <2>2. PICK d \in Calced(y) : Lift(e, l) \in Part(d)
    BY <2>1, ListingParts
  <2>3. PICK m \in Inner(d) : Lift(e, l) = Lift(d, m)
    BY <2>2 DEF Part
  <2>4. d \in Below /\ e \in Below
    BY CalcedMeans
  <2> QED BY <2>3, <2>4, LiftInjective
<1>3. PICK k : k \in Inner(c)
  OBVIOUS
<1>4. PICK d \in Calced(b) : Name[c] = Name[d] /\ k \in Inner(d)
  BY <1>2, <1>3
<1>5. d \in Below /\ d \in Ids /\ Parent[d] = b
  BY CalcedMeans
<1>6. ASSUME NEW l \in Inner(c) PROVE l \in Inner(d)
  <2>1. PICK e \in Calced(b) : Name[c] = Name[e] /\ l \in Inner(e)
    BY <1>2
  <2>2. e \in Below /\ Parent[e] = b
    BY CalcedMeans
  <2>3. e = d
    BY <1>4, <1>5, <2>1, <2>2, NamesDiffer
  <2> QED BY <2>1, <2>3
<1>7. ASSUME NEW l \in Inner(d) PROVE l \in Inner(c)
  <2>1. PICK e \in Calced(a) : Name[d] = Name[e] /\ l \in Inner(e)
    BY <1>2
  <2>2. e \in Below /\ Parent[e] = a
    BY CalcedMeans
  <2>3. e = c
    BY <1>1, <1>4, <2>1, <2>2, NamesDiffer
  <2> QED BY <2>1, <2>3
<1> QED BY <1>4, <1>6, <1>7

HashedDir(a) == a \in Ids /\ is_dir(a) /\ Clean(a) /\ OwnHash(a) # Err

(* Two directories have the same hash exactly if they hold the same.       *)
LEMMA EqualHashes ==
  ASSUME PassesInv, NEW a, HashedDir(a), NEW b, HashedDir(b),
         \A c \in Calced(a) : ~is_file(c) => HashGood(c)
  PROVE  OwnHash(a).hash = OwnHash(b).hash <=> Listing(a) = Listing(b)
<1> DEFINE H(x) == {<<Name[c], ChildHash(c)>> : c \in Calced(x)}
<1>1. OwnHash(a).hash = <<H(a)>> /\ OwnHash(b).hash = <<H(b)>>
  BY OwnHashIs DEF HashedDir
<1>2. OwnHash(a).hash = OwnHash(b).hash <=> H(a) = H(b)
  <2> HIDE DEF H
  <2> QED BY <1>1
<1>3. /\ \A c \in Calced(a) : Member(c)
      /\ \A c \in Calced(b) : Member(c)
  BY MemberOf DEF HashedDir
<1>4. \A c \in Calced(a) : \A d \in Calced(b) : ChildHash(c) = ChildHash(d) <=> Inner(c) = Inner(d)
  BY <1>3, ChildHashes
<1>5. ASSUME H(a) = H(b) PROVE Listing(a) = Listing(b)
  <2>1. ASSUME NEW c \in Calced(a) PROVE \E d \in Calced(b) : Part(c) = Part(d)
    <3>1. <<Name[c], ChildHash(c)>> \in H(b)
      BY <1>5
    <3>2. PICK d \in Calced(b) : <<Name[c], ChildHash(c)>> = <<Name[d], ChildHash(d)>>
      BY <3>1
    <3>3. Name[c] = Name[d] /\ ChildHash(c) = ChildHash(d)
      BY <3>2
    <3> QED BY <1>4, <3>3 DEF Part, Lift
  <2>2. ASSUME NEW d \in Calced(b) PROVE \E c \in Calced(a) : Part(c) = Part(d)
    <3>1. <<Name[d], ChildHash(d)>> \in H(a)
      BY <1>5
    <3>2. PICK c \in Calced(a) : <<Name[d], ChildHash(d)>> = <<Name[c], ChildHash(c)>>
      BY <3>1
    <3>3. Name[c] = Name[d] /\ ChildHash(c) = ChildHash(d)
      BY <3>2
    <3> QED BY <1>4, <3>3 DEF Part, Lift
  <2>3. /\ Listing(a) = UNION {Part(c) : c \in Calced(a)}
        /\ Listing(b) = UNION {Part(c) : c \in Calced(b)}
    BY ListingParts DEF HashedDir
  <2> QED BY <2>1, <2>2, <2>3
<1>6. ASSUME Listing(a) = Listing(b) PROVE H(a) = H(b)
  <2>1. ASSUME NEW c, Member(c) PROVE Inner(c) # {}
    BY <2>1, DirsHoldFiles DEF Member, Inner
  <2>2. ASSUME NEW c \in Calced(a) PROVE <<Name[c], ChildHash(c)>> \in H(b)
    <3>1. PICK d \in Calced(b) : Name[c] = Name[d] /\ Inner(c) = Inner(d)
      BY <1>3, <1>6, <2>1, PartsOfEqual DEF HashedDir
    <3>2. ChildHash(c) = ChildHash(d)
      BY <1>4, <3>1
    <3> QED BY <3>1, <3>2
  <2>3. ASSUME NEW d \in Calced(b) PROVE <<Name[d], ChildHash(d)>> \in H(a)
    <3>1. PICK c \in Calced(a) : Name[d] = Name[c] /\ Inner(d) = Inner(c)
      BY <1>3, <1>6, <2>1, PartsOfEqual DEF HashedDir
    <3>2. ChildHash(c) = ChildHash(d)
      BY <1>4, <3>1
    <3> QED BY <3>1, <3>2
  <2> QED BY <2>2, <2>3
<1> QED BY <1>2, <1>5, <1>6

(* Two directories have the same hash exactly if they hold the same.       *)
LEMMA HashesGood ==
  ASSUME PassesInv, NEW a, HashedDir(a)
  PROVE  HashGood(a)
<1> DEFINE bad == {d \in Ids : HashedDir(d) /\ ~HashGood(d)}
<1>1. ASSUME bad # {} PROVE FALSE
  <2>1. PICK d \in bad : \A e \in bad : e <= d
    <3>1. bad \subseteq Ids
      OBVIOUS
    <3> HIDE DEF bad
    <3> QED BY <1>1, <3>1, LastEntry
  <2>2. d \in Ids /\ HashedDir(d) /\ ~HashGood(d)
    OBVIOUS
  <2>3. ASSUME NEW c \in Calced(d), ~is_file(c) PROVE HashGood(c)
    <3>1. c \in Ids /\ d < c
      BY <2>2, ChildOfClean DEF HashedDir
    <3>2. ~(c <= d)
      BY <2>2, <3>1, PathOf
    <3>3. HashedDir(c)
      BY <2>2, <2>3, MemberOf DEF HashedDir, Member
    <3> QED BY <2>1, <3>1, <3>2, <3>3
  <2>4. HashGood(d)
    BY <2>2, <2>3, EqualHashes DEF HashGood, HashedDir
  <2> QED BY <2>2, <2>4
<1> QED BY <1>1 DEF HashedDir

-----------------------------------------------------------------------------
(* The hash groups.                                                        *)

(* What Push does to a group.                                              *)
Pushed(groups, typ, of) ==
  /\ DOMAIN Push(groups, typ, of) = DOMAIN groups \cup {of[id] : id \in DOMAIN of}
  /\ \A h \in DOMAIN Push(groups, typ, of) : \A e :
       e \in Push(groups, typ, of)[h] <=>
         \/ e \in Group(groups, h)
         \/ \E id \in DOMAIN of : /\ e = <<typ, id>> /\ of[id] = h
                                  /\ \A g \in Group(groups, h) : g[2] # id

(* Push does what Pushed says.                                             *)
LEMMA PushMeans == \A groups, typ, of : Pushed(groups, typ, of)
BY DEF Push, Pushed

Dirs == {id \in Ids : Exists(id) /\ OwnHash(id) # Err}
HashesOf == [id \in Dirs |-> OwnHash(id).hash]
AllGroups == Push(hashes, "Dir", HashesOf)

(* A group in which directories are entered.                               *)
Entered(h, e) ==
  \/ e[1] = "File" /\ is_file(e[2]) /\ file_hash[e[2]] = h /\ h # NoHash
  \/ e[1] = "Dir" /\ e[2] \in Dirs /\ OwnHash(e[2]).hash = h

GroupsGood(groups) ==
  /\ \A h \in DOMAIN groups : groups[h] # {}
  /\ \A h \in DOMAIN groups : \A e \in groups[h] : e \in {"File", "Dir"} \X Ids /\ Entered(h, e)
  /\ \A h \in DOMAIN groups : \A e, f \in groups[h] : e[2] = f[2] => e = f
  /\ \A id \in Ids : is_file(id) /\ file_hash[id] # NoHash =>
       file_hash[id] \in DOMAIN groups /\ <<"File", id>> \in groups[file_hash[id]]
  /\ \A id \in Dirs :
       OwnHash(id).hash \in DOMAIN groups /\ \E e \in groups[OwnHash(id).hash] : e[2] = id

(* The groups of calculate_dir_hash: each entry is in the group of its     *)
(* hash.                                                                   *)
LEMMA CalcGroups ==
  ASSUME TypeOK, PassesInv, GroupsInv, pc = "calculate_dir_hash"
  PROVE  GroupsGood(AllGroups)
<1> DEFINE A == AllGroups
<1>1. /\ DOMAIN HashesOf = Dirs /\ \A id \in Dirs : HashesOf[id] = OwnHash(id).hash
      /\ Dirs \subseteq Ids
  BY DEF HashesOf, Dirs
<1> DEFINE H == HashesOf
<1>0. Pushed(hashes, "Dir", H) /\ A = Push(hashes, "Dir", H)
  BY PushMeans DEF AllGroups
<1>2. DOMAIN A = DOMAIN hashes \cup {OwnHash(id).hash : id \in Dirs}
  BY <1>0, <1>1 DEF Pushed
<1>3. ASSUME NEW h \in DOMAIN A, NEW e
      PROVE  e \in A[h] <=> \/ e \in Group(hashes, h)
                            \/ \E id \in Dirs : /\ e = <<"Dir", id>> /\ OwnHash(id).hash = h
                                                 /\ \A g \in Group(hashes, h) : g[2] # id
  <2>1. DOMAIN H = Dirs /\ \A id \in Dirs : H[id] = OwnHash(id).hash
    BY <1>1
  <2> HIDE DEF H, A
  <2>2. e \in A[h] <=>
          \/ e \in Group(hashes, h)
          \/ \E id \in DOMAIN H : /\ e = <<"Dir", id>> /\ H[id] = h
                                   /\ \A g \in Group(hashes, h) : g[2] # id
    BY <1>0 DEF Pushed
  <2> QED BY <2>1, <2>2
<1>4. ASSUME NEW h, NEW e \in Group(hashes, h)
      PROVE  h \in DOMAIN hashes /\ e \in hashes[h] /\ e \in {"File", "Dir"} \X Ids
             /\ e[1] = "File" /\ Entered(h, e)
  <2>1. h \in DOMAIN hashes /\ e \in hashes[h]
    BY DEF Group
  <2>2. e \in {"File", "Dir"} \X Ids
    BY <2>1 DEF TypeOK
  <2>3. Has(e[2], e[1]) /\ h # NoHash /\ h = (IF e[1] = "File" THEN file_hash[e[2]] ELSE dir_hash[e[2]])
    BY <2>1 DEF GroupsInv
  <2>4. e[1] = "File"
    BY <2>2, <2>3 DEF GroupsInv
  <2> QED BY <2>1, <2>2, <2>3, <2>4 DEF Entered, Has
<1> HIDE DEF A
<1>5. ASSUME NEW h \in DOMAIN A PROVE A[h] # {}
  <2>1. CASE h \in DOMAIN hashes
    <3>1. PICK e : e \in hashes[h]
      BY <2>1 DEF TypeOK
    <3>2. e \in A[h]
      BY <1>3, <2>1, <3>1 DEF Group
    <3> QED BY <3>2
  <2>2. CASE h \notin DOMAIN hashes
    <3>1. PICK id \in Dirs : OwnHash(id).hash = h
      BY <1>2, <2>2
    <3>2. Group(hashes, h) = {}
      BY <2>2 DEF Group
    <3>3. <<"Dir", id>> \in A[h]
      BY <1>3, <3>1, <3>2
    <3> QED BY <3>3
  <2> QED BY <2>1, <2>2
<1>6. ASSUME NEW h \in DOMAIN A, NEW e \in A[h] PROVE e \in {"File", "Dir"} \X Ids /\ Entered(h, e)
  <2>1. CASE e \in Group(hashes, h)
    BY <1>4, <2>1
  <2>2. CASE e \notin Group(hashes, h)
    <3>1. PICK id \in Dirs : e = <<"Dir", id>> /\ OwnHash(id).hash = h
      BY <1>3, <2>2
    <3> QED BY <1>1, <3>1 DEF Entered
  <2> QED BY <2>1, <2>2
<1>7. ASSUME NEW h \in DOMAIN A, NEW e \in A[h], NEW f \in A[h], e[2] = f[2] PROVE e = f
  <2>1. CASE e \in Group(hashes, h) /\ f \in Group(hashes, h)
    BY <1>4, <1>7, <2>1 DEF GroupsInv
  <2>2. CASE e \in Group(hashes, h) /\ f \notin Group(hashes, h)
    <3>1. PICK id \in Dirs : f = <<"Dir", id>> /\ \A g \in Group(hashes, h) : g[2] # id
      BY <1>3, <2>2
    <3> QED BY <1>7, <2>2, <3>1
  <2>3. CASE e \notin Group(hashes, h) /\ f \in Group(hashes, h)
    <3>1. PICK id \in Dirs : e = <<"Dir", id>> /\ \A g \in Group(hashes, h) : g[2] # id
      BY <1>3, <2>3
    <3> QED BY <1>7, <2>3, <3>1
  <2>4. CASE e \notin Group(hashes, h) /\ f \notin Group(hashes, h)
    <3>1. PICK id \in Dirs : e = <<"Dir", id>>
      BY <1>3, <2>4
    <3>2. PICK jd \in Dirs : f = <<"Dir", jd>>
      BY <1>3, <2>4
    <3> QED BY <1>7, <3>1, <3>2
  <2> QED BY <2>1, <2>2, <2>3, <2>4
<1>8. ASSUME NEW id \in Ids, is_file(id), file_hash[id] # NoHash
      PROVE  file_hash[id] \in DOMAIN A /\ <<"File", id>> \in A[file_hash[id]]
  <2>1. file_hash[id] \in DOMAIN hashes /\ <<"File", id>> \in hashes[file_hash[id]]
    BY <1>8 DEF GroupsInv
  <2>2. file_hash[id] \in DOMAIN A
    BY <1>2, <2>1
  <2>3. <<"File", id>> \in Group(hashes, file_hash[id])
    BY <2>1 DEF Group
  <2> QED BY <1>3, <2>2, <2>3
<1>9. ASSUME NEW id \in Dirs
      PROVE  OwnHash(id).hash \in DOMAIN A /\ \E e \in A[OwnHash(id).hash] : e[2] = id
  <2> DEFINE h == OwnHash(id).hash
  <2>1. h \in DOMAIN A
    BY <1>2
  <2>2. CASE \E g \in Group(hashes, h) : g[2] = id
    BY <1>3, <2>1, <2>2
  <2>3. CASE \A g \in Group(hashes, h) : g[2] # id
    <3>1. <<"Dir", id>> \in A[h]
      <4> HIDE DEF h
      <4>1. OwnHash(id).hash = h
        BY DEF h
      <4> QED BY <1>3, <2>1, <2>3, <4>1
    <3> QED BY <2>1, <3>1
  <2> QED BY <2>1, <2>2, <2>3
<1> QED BY <1>5, <1>6, <1>7, <1>8, <1>9 DEF GroupsGood, A

(* What a scan hashes: unless something has to be unwrapped, the hashes of *)
(* directories mean what DirHashMeaning says.                              *)
LEMMA DirsMean ==
  ASSUME PassesInv, \A id \in Ids : ~Unwraps(id)
  PROVE  /\ \A id \in Ids : id \in Dirs <=> is_dir(id) /\ AllHashed(id)
         /\ \A id \in Dirs : /\ HashedDir(id) /\ OwnHash(id).size = SizeOf(Listing(id))
                              /\ SizeOf(Listing(id)) \in Nat
                              /\ OwnHash(id).hash # NoHash
         /\ \A a, b \in Dirs : OwnHash(a).hash = OwnHash(b).hash <=> Listing(a) = Listing(b)
         /\ \A f \in Ids : \A d \in Dirs : file_hash[f] # NoHash /\ file_hash[f] = OwnHash(d).hash
              => Length[content[f]] = 0 /\ OwnHash(d).size = 0
<1>1. \A id \in Ids : Clean(id)
  BY DEF Clean
<1>2. \A id \in Ids : OwnHash(id) # Err => is_dir(id)
  BY DEF OwnHash
<1>3. ASSUME NEW id \in Ids PROVE id \in Dirs <=> is_dir(id) /\ AllHashed(id)
  BY <1>1, <1>2, OwnHashGood DEF Dirs, OwnGood, Exists
<1>4. ASSUME NEW id \in Dirs PROVE HashedDir(id) /\ OwnHash(id).size = SizeOf(Listing(id))
                                  /\ OwnHash(id).hash # NoHash
  <2>1. HashedDir(id)
    BY <1>1, <1>2 DEF Dirs, HashedDir
  <2>2. OwnHash(id).hash # NoHash
    BY <2>1, OwnHashIs DEF HashedDir, NoHash
  <2> QED BY <2>1, <2>2, OwnHashGood DEF HashedDir, OwnGood
<1>5. ASSUME NEW a \in Dirs, NEW b \in Dirs
      PROVE  OwnHash(a).hash = OwnHash(b).hash <=> Listing(a) = Listing(b)
  BY <1>4, HashesGood DEF HashGood, HashedDir
<1>6. ASSUME NEW f \in Ids, NEW d \in Dirs, file_hash[f] # NoHash, file_hash[f] = OwnHash(d).hash
      PROVE  Length[content[f]] = 0 /\ OwnHash(d).size = 0
  <2>1. Length[content[f]] = 0 /\ Calced(d) = {}
    BY <1>4, <1>6, FileAndDirectory DEF HashedDir
  <2>2. Listing(d) = {}
    BY <1>4, <2>1, ListingParts DEF HashedDir
  <2>3. SizeOf({}) = 0
    <3>1. Cells({}, LengthsOf({})) = {}
      BY DEF Cells
    <3> QED BY <3>1, TotalIs, FS_EmptySet DEF SizeOf
  <2> QED BY <1>4, <2>1, <2>2, <2>3
<1>7. ASSUME NEW id \in Dirs PROVE SizeOf(Listing(id)) \in Nat
  <2>1. id \in Ids
    BY DEF Dirs
  <2> DEFINE S == Listing(id)
             f == LengthsOf(S)
  <2>2. IsFiniteSet(S)
    BY <2>1, ListingFinite
  <2>3. \A l \in S : f[l] \in Nat
    BY <2>1, ListingElement, ConstantsAssumption DEF LengthsOf
  <2> HIDE DEF S, f
  <2>4. Total(S, f) \in Nat
    BY <2>2, <2>3, CellsFinite
  <2> QED BY <2>4 DEF SizeOf, S, f
<1> QED BY <1>3, <1>4, <1>5, <1>6, <1>7

(* So the assertion on the size of a group holds.                          *)
LEMMA SizesAgree ==
  ASSUME TypeOK, PassesInv, GroupsInv, pc = "calculate_dir_hash", \A id \in Ids : ~Unwraps(id)
  PROVE  ~SizesDiffer(AllGroups)
<1> DEFINE size(x) == IF x[1] = "File" THEN Length[content[x[2]]] ELSE OwnHash(x[2]).size
<1>1. GroupsGood(AllGroups)
  BY CalcGroups
<1>2. ASSUME NEW h \in DOMAIN AllGroups, NEW e \in AllGroups[h], NEW f \in AllGroups[h]
      PROVE  size(e) = size(f)
  <2>1. Entered(h, e) /\ Entered(h, f) /\ e[2] \in Ids /\ f[2] \in Ids
    BY <1>1 DEF GroupsGood
  <2>2. CASE e[1] = "File" /\ f[1] = "File"
    <3>1. file_hash[e[2]] = h /\ file_hash[f[2]] = h /\ h # NoHash
      BY <2>1, <2>2 DEF Entered
    <3>2. content[e[2]] = content[f[2]]
      BY <2>1, <3>1, HashTellsContent DEF PassesInv
    <3> QED BY <2>2, <3>2
  <2>3. CASE e[1] = "File" /\ f[1] # "File"
    <3>1. file_hash[e[2]] = h /\ h # NoHash /\ f[2] \in Dirs /\ OwnHash(f[2]).hash = h
      BY <2>1, <2>3 DEF Entered
    <3> QED BY <2>1, <2>3, <3>1, DirsMean
  <2>4. CASE e[1] # "File" /\ f[1] = "File"
    <3>1. file_hash[f[2]] = h /\ h # NoHash /\ e[2] \in Dirs /\ OwnHash(e[2]).hash = h
      BY <2>1, <2>4 DEF Entered
    <3> QED BY <2>1, <2>4, <3>1, DirsMean
  <2>5. CASE e[1] # "File" /\ f[1] # "File"
    <3>1. e[2] \in Dirs /\ OwnHash(e[2]).hash = h /\ f[2] \in Dirs /\ OwnHash(f[2]).hash = h
      BY <2>1, <2>5 DEF Entered
    <3>2. Listing(e[2]) = Listing(f[2])
      BY <3>1, DirsMean
    <3>3. OwnHash(e[2]).size = OwnHash(f[2]).size
      BY <3>1, <3>2, DirsMean
    <3> QED BY <2>5, <3>3
  <2> QED BY <2>2, <2>3, <2>4, <2>5
<1> QED BY <1>2 DEF SizesDiffer

-----------------------------------------------------------------------------
(* Sorting.                                                                *)

(* A function on the first numbers is a sequence.                          *)
LEMMA NumbersToSeq ==
  ASSUME NEW S, NEW n \in Nat, NEW q \in [1..n -> S]
  PROVE  q \in Seq(S) /\ Len(q) = n
OBVIOUS

ByRank(S, R) ==
  [k \in 1..Cardinality(S) |-> CHOOSE x \in S : Cardinality(Before(S, R, x)) = k - 1]

(* A sequence in which each element comes at its rank holds them all.      *)
LEMMA SortedRanks ==
  ASSUME NEW S, IsFiniteSet(S), NEW R, StrictOrder(S, R)
  PROVE  ByRank(S, R) \in Seq(S) /\ Len(ByRank(S, R)) = Cardinality(S) /\ ToSet(ByRank(S, R)) = S
<1> DEFINE n == Cardinality(S)
           q == ByRank(S, R)
<1>0. q = [k \in 1..n |-> CHOOSE x \in S : Cardinality(Before(S, R, x)) = k - 1]
  BY DEF ByRank
<1> HIDE DEF q
<1>1. n \in Nat /\ Ranked(S, R)
  BY FS_CardinalityType, Ranks
<1>2. ASSUME NEW k \in 1..n PROVE q[k] \in S /\ Cardinality(Before(S, R, q[k])) = k - 1
  <2>1. \E x \in S : Cardinality(Before(S, R, x)) = k - 1
    BY <1>1 DEF Ranked
  <2> QED BY <1>0, <2>1
<1>3. q \in [1..n -> S] /\ DOMAIN q = 1..n
  BY <1>0, <1>2
<1>4. q \in Seq(S) /\ Len(q) = n
  BY <1>1, <1>3, NumbersToSeq
<1>5. ASSUME NEW x \in S PROVE \E k \in 1..n : q[k] = x
  <2> DEFINE r == Cardinality(Before(S, R, x))
  <2>1. Before(S, R, x) \in SUBSET (S \ {x})
    BY DEF Before, StrictOrder
  <2>2. IsFiniteSet(S \ {x}) /\ Cardinality(S \ {x}) = n - 1
    BY FS_RemoveElement
  <2>3. r \in Nat /\ r <= n - 1
    BY <2>1, <2>2, FS_Subset, FS_CardinalityType
  <2>4. r + 1 \in 1..n /\ (r + 1) - 1 = r
    <3> HIDE DEF r, n
    <3> QED BY <1>1, <2>3
  <2>5. q[r + 1] \in S /\ Cardinality(Before(S, R, q[r + 1])) = r
    BY <1>2, <2>4
  <2> DEFINE y == q[r + 1]
  <2>6. y = x
    <3> HIDE DEF y
    <3>1. y \in S /\ Cardinality(Before(S, R, y)) = Cardinality(Before(S, R, x))
      BY <2>5 DEF y
    <3>2. /\ <<x, y>> \in R => Cardinality(Before(S, R, x)) < Cardinality(Before(S, R, y))
          /\ <<y, x>> \in R => Cardinality(Before(S, R, y)) < Cardinality(Before(S, R, x))
      BY <1>1, <3>1 DEF Ranked
    <3>3. ~(r < r)
      <4> HIDE DEF r
      <4> QED BY <2>3
    <3>4. <<x, y>> \notin R /\ <<y, x>> \notin R
      BY <3>1, <3>2, <3>3
    <3> QED BY <3>1, <3>4 DEF StrictOrder
  <2> QED BY <2>4, <2>6
<1>6. ToSet(q) = S
  BY <1>2, <1>3, <1>5 DEF ToSet
<1> QED BY <1>4, <1>6 DEF q

AllEntries == {"File", "Dir"} \X Ids

(* There are finitely many entries to put into groups.                     *)
LEMMA EntriesFinite == IsFiniteSet(AllEntries)
<1>1. IsFiniteSet({"File"} \cup {"Dir"})
  BY FS_Singleton, FS_Union
<1>2. {"File"} \cup {"Dir"} = {"File", "Dir"}
  OBVIOUS
<1> QED BY <1>1, <1>2, PathsAssumption, FS_Product DEF AllEntries

SortedEntries(S) == SortedBy(S, EntryBefore)

(* The entries of a group, sorted.                                         *)
LEMMA EntriesSorted ==
  ASSUME NEW S, S \subseteq AllEntries
  PROVE  /\ IsFiniteSet(S)
         /\ SortedEntries(S) \in Seq(S)
         /\ Len(SortedEntries(S)) = Cardinality(S)
         /\ ToSet(SortedEntries(S)) = S
<1> DEFINE R == {x \in S \X S : EntryBefore(x[1], x[2])}
           q == SortedEntries(S)
<1>1. IsFiniteSet(S)
  BY EntriesFinite, FS_Subset
<1>2. ASSUME NEW x \in S, NEW y \in S PROVE <<x, y>> \in R <=> EntryBefore(x, y)
  OBVIOUS
<1>3. StrictOrder(S, R)
  <2>1. ASSUME NEW x \in S PROVE Order(x[1]) \in Nat /\ x[2] \in Nat /\ x = <<x[1], x[2]>>
    <3>1. x[1] \in {"File", "Dir"} /\ x[2] \in Ids /\ x = <<x[1], x[2]>>
      BY DEF AllEntries
    <3>2. Order(x[1]) \in Nat
      BY DEF Order
    <3> QED BY <3>1, <3>2, PathsAssumption
  <2>2. ASSUME NEW x \in S, NEW y \in S, Order(x[1]) = Order(y[1]), x[2] = y[2] PROVE x = y
    <3>1. x[1] \in {"File", "Dir"} /\ y[1] \in {"File", "Dir"}
      BY DEF AllEntries
    <3>2. x[1] = y[1]
      BY <2>2, <3>1 DEF Order
    <3> QED BY <2>1, <2>2, <3>2
  <2> DEFINE o(x) == Order(x[1])
             i(x) == x[2]
  <2>3. \A x, y \in S : <<x, y>> \in R <=> (o(x) < o(y) \/ (o(x) = o(y) /\ i(x) < i(y)))
    BY <1>2 DEF EntryBefore
  <2>4. \A x \in S : o(x) \in Nat /\ i(x) \in Nat
    BY <2>1
  <2>5. \A x, y \in S : o(x) = o(y) /\ i(x) = i(y) => x = y
    BY <2>2
  <2> HIDE DEF o, i, R
  <2>6. \A x \in S : <<x, x>> \notin R
    BY <2>3, <2>4
  <2>7. \A x, y \in S : x # y => <<x, y>> \in R \/ <<y, x>> \in R
    BY <2>3, <2>4, <2>5
  <2>8. \A x, y, z \in S : <<x, y>> \in R /\ <<y, z>> \in R => <<x, z>> \in R
    BY <2>3, <2>4
  <2> QED BY <2>6, <2>7, <2>8 DEF StrictOrder
<1>4. \A x \in S : {y \in S : EntryBefore(y, x)} = Before(S, R, x)
  BY <1>2 DEF Before
<1>5. q = [k \in 1..Cardinality(S) |-> CHOOSE x \in S : Cardinality({y \in S : EntryBefore(y, x)}) = k - 1]
  BY DEF SortedEntries, SortedBy
<1> HIDE DEF R
<1>6. q = ByRank(S, R)
  BY <1>4, <1>5 DEF ByRank
<1> HIDE DEF q
<1>7. q \in Seq(S) /\ Len(q) = Cardinality(S) /\ ToSet(q) = S
  BY <1>1, <1>3, <1>6, SortedRanks
<1> QED BY <1>1, <1>7 DEF q

(* What an entry of a group is.                                            *)
LEMMA GroupEntry ==
  ASSUME TypeOK, PassesInv, GroupsInv, NEW h \in DOMAIN hashes, NEW e \in hashes[h]
  PROVE  /\ e \in AllEntries /\ e[2] \in Ids /\ h # NoHash /\ Has(e[2], e[1])
         /\ \/ e[1] = "File" /\ is_file(e[2]) /\ file_hash[e[2]] = h
            \/ e[1] = "Dir" /\ is_dir(e[2]) /\ dir_hash[e[2]] = h
         /\ Size(e[2], e[1]) \in Nat
         /\ \A k \in DOMAIN hashes : e \in hashes[k] => k = h
<1>1. e \in {"File", "Dir"} \X Ids
  BY DEF TypeOK
<1>2. Has(e[2], e[1]) /\ h # NoHash /\ h = (IF e[1] = "File" THEN file_hash[e[2]] ELSE dir_hash[e[2]])
  BY DEF GroupsInv
<1>3. e[1] \in {"File", "Dir"} /\ e[2] \in Ids
  BY <1>1
<1>4. ASSUME NEW k \in DOMAIN hashes, e \in hashes[k] PROVE k = h
  BY <1>2, <1>4 DEF GroupsInv
<1>5. CASE e[1] = "File"
  <2>1. is_file(e[2]) /\ file_hash[e[2]] = h
    BY <1>2, <1>5 DEF Has
  <2>2. Length[content[e[2]]] \in Nat
    BY <1>3, <2>1, ConstantsAssumption DEF PassesInv
  <2> QED BY <1>1, <1>2, <1>3, <1>4, <1>5, <2>1, <2>2 DEF Size, AllEntries
<1>6. CASE e[1] = "Dir"
  <2>1. is_dir(e[2]) /\ dir_hash[e[2]] = h
    BY <1>2, <1>6 DEF Has
  <2>2. dir_size[e[2]] \in Nat
    BY <1>2, <1>3, <2>1 DEF TypeOK
  <2> QED BY <1>1, <1>2, <1>3, <1>4, <1>6, <2>1, <2>2 DEF Size, AllEntries
<1> QED BY <1>3, <1>5, <1>6

(* There are as many groups as entries at most.                            *)
LEMMA GroupsFinite ==
  ASSUME TypeOK, PassesInv, GroupsInv
  PROVE  IsFiniteSet(DOMAIN hashes)
<1> DEFINE D == DOMAIN hashes
           f == [h \in D |-> CHOOSE e : e \in hashes[h]]
<1>1. ASSUME NEW h \in D PROVE f[h] \in hashes[h]
  BY DEF TypeOK
<1>2. f \in [D -> AllEntries]
  BY <1>1, GroupEntry
<1>3. ASSUME NEW g \in D, NEW h \in D, f[g] = f[h] PROVE g = h
  BY <1>1, <1>3, GroupEntry
<1> HIDE DEF f
<1>4. f \in Injection(D, AllEntries)
  BY <1>2, <1>3 DEF Injection, IsInjective
<1> QED BY <1>4, EntriesFinite, FS_Injection

(* All entries of a group are of one size.                                 *)
LEMMA SameSize ==
  ASSUME TypeOK, PassesInv, GroupsInv, MeaningInv, pc \notin {"calculate_dir_hash", "panic"},
         NEW h \in DOMAIN hashes, NEW e \in hashes[h], NEW f \in hashes[h]
  PROVE  Size(e[2], e[1]) = Size(f[2], f[1]) /\ Same(e, f)
<1> DEFINE of_h(x) == \/ x[1] = "File" /\ is_file(x[2]) /\ file_hash[x[2]] = h
                      \/ x[1] = "Dir" /\ is_dir(x[2]) /\ dir_hash[x[2]] = h
<1>1. e[2] \in Ids /\ f[2] \in Ids /\ h # NoHash /\ of_h(e) /\ of_h(f)
  BY GroupEntry
<1>2. CASE e[1] = "File" /\ f[1] = "File"
  <2>1. content[e[2]] = content[f[2]]
    BY <1>1, <1>2, HashTellsContent DEF PassesInv
  <2> QED BY <1>2, <2>1 DEF Size, Same
<1>3. CASE e[1] = "File" /\ f[1] = "Dir"
  <2>1. Length[content[e[2]]] = 0 /\ dir_size[f[2]] = 0
    BY <1>1, <1>3 DEF MeaningInv
  <2> QED BY <1>3, <2>1 DEF Size, Same
<1>4. CASE e[1] = "Dir" /\ f[1] = "File"
  <2>1. Length[content[f[2]]] = 0 /\ dir_size[e[2]] = 0
    BY <1>1, <1>4 DEF MeaningInv
  <2> QED BY <1>4, <2>1 DEF Size, Same
<1>5. CASE e[1] = "Dir" /\ f[1] = "Dir"
  <2>1. dir_hash[e[2]] = h /\ dir_hash[f[2]] = h
    BY <1>1, <1>5
  <2> DEFINE x == e[2]
             y == f[2]
  <2>2. Listing(x) = Listing(y)
    <3>1. x \in {id \in Ids : dir_hash[id] # NoHash} /\ y \in {id \in Ids : dir_hash[id] # NoHash}
          /\ dir_hash[x] = dir_hash[y]
      BY <1>1, <2>1
    <3>2. \A a, b \in {id \in Ids : dir_hash[id] # NoHash} :
            (dir_hash[a] = dir_hash[b]) <=> (Listing(a) = Listing(b))
      BY DEF MeaningInv, DirHashMeaning
    <3> HIDE DEF x, y
    <3> QED BY <3>1, <3>2
  <2>3. dir_size[e[2]] = SizeOf(Listing(e[2])) /\ dir_size[f[2]] = SizeOf(Listing(f[2]))
    BY <1>1, <2>1 DEF MeaningInv, DirHashMeaning, SizeOf, LengthsOf
  <2>4. dir_size[e[2]] = dir_size[f[2]]
    BY <2>2, <2>3
  <2> QED BY <1>5, <2>2, <2>4 DEF Size, Same
<1> QED BY <1>1, <1>2, <1>3, <1>4, <1>5
GroupRecord(h) == [size |-> SizeOfGroup(h), hash |-> h, entries |-> SortedEntries(hashes[h])]
GroupRecords == {GroupRecord(h) : h \in DOMAIN hashes}
SortedGroups == SortedBy(GroupRecords, GroupBefore)

(* What export knows of a group.                                           *)
LEMMA RecordOf ==
  ASSUME TypeOK, PassesInv, GroupsInv, NEW h \in DOMAIN hashes, NEW g, g = GroupRecord(h)
  PROVE  /\ g.hash = h /\ g.size = SizeOfGroup(h) /\ g.size \in Nat
         /\ g.entries \in Seq(AllEntries) /\ ToSet(g.entries) = hashes[h]
         /\ g.entries[1] \in hashes[h]
<1>1. g.hash = h /\ g.size = SizeOfGroup(h) /\ g.entries = SortedEntries(hashes[h])
  BY DEF GroupRecord
<1>2. PICK e : e \in hashes[h]
  BY DEF TypeOK
<1>3. SizeOfGroup(h) \in Nat
  <2>1. (CHOOSE x \in hashes[h] : TRUE) \in hashes[h]
    BY <1>2
  <2> QED BY <2>1, GroupEntry DEF SizeOfGroup
<1> DEFINE S == hashes[h]
           q == SortedEntries(S)
<1>4. S \subseteq AllEntries
  BY GroupEntry
<1>5. IsFiniteSet(S) /\ q \in Seq(S) /\ Len(q) = Cardinality(S) /\ ToSet(q) = S
  <2> HIDE DEF S
  <2> QED BY <1>4, EntriesSorted
<1>6. q \in Seq(AllEntries)
  <2> HIDE DEF q, S
  <2> QED BY <1>4, <1>5, SeqMonotonic
<1>7. q[1] \in S
  <2>1. q # <<>>
    <3>1. e \in ToSet(q)
      BY <1>2, <1>5
    <3> HIDE DEF q
    <3>2. DOMAIN q # {}
      BY <3>1 DEF ToSet
    <3> QED BY <3>2
  <2> HIDE DEF q, S
  <2>2. Len(q) \in Nat \ {0}
    BY <1>5, <2>1, EmptySeq
  <2> QED BY <1>5, <2>2, ElementOfSeq
<1> QED BY <1>1, <1>3, <1>5, <1>6, <1>7

(* The groups are put in an order in which each has its place.             *)
LEMMA GroupsOrdered ==
  ASSUME TypeOK, PassesInv, GroupsInv
  PROVE  StrictOrder(GroupRecords, {x \in GroupRecords \X GroupRecords : GroupBefore(x[1], x[2])})
<1> DEFINE T == GroupRecords
           R == {x \in T \X T : GroupBefore(x[1], x[2])}
           a(g) == g.size
           o(g) == Order(g.entries[1][1])
           i(g) == g.entries[1][2]
<1>1. ASSUME NEW x \in T, NEW y \in T PROVE <<x, y>> \in R <=> GroupBefore(x, y)
  OBVIOUS
<1>2. ASSUME NEW x \in T
      PROVE \E h \in DOMAIN hashes : x = GroupRecord(h) /\ x.size \in Nat /\ x.entries[1] \in hashes[h]
  BY RecordOf DEF GroupRecords
<1>3. ASSUME NEW x \in T PROVE a(x) \in Nat /\ o(x) \in Nat /\ i(x) \in Nat
  <2>1. PICK h \in DOMAIN hashes : x.size \in Nat /\ x.entries[1] \in hashes[h]
    BY <1>2
  <2>2. i(x) \in Ids
    BY <2>1, GroupEntry
  <2>3. o(x) \in Nat
    BY DEF Order
  <2> QED BY <2>1, <2>2, <2>3, PathsAssumption
<1>4. ASSUME NEW x \in T, NEW y \in T, o(x) = o(y), i(x) = i(y) PROVE x = y
  <2>1. PICK g \in DOMAIN hashes : x = GroupRecord(g) /\ x.entries[1] \in hashes[g]
    BY <1>2
  <2>2. PICK h \in DOMAIN hashes : y = GroupRecord(h) /\ y.entries[1] \in hashes[h]
    BY <1>2
  <2> DEFINE e == x.entries[1]
             f == y.entries[1]
  <2>3. e \in hashes[g] /\ f \in hashes[h] /\ e[2] = f[2] /\ Order(e[1]) = Order(f[1])
    BY <1>4, <2>1, <2>2
  <2> HIDE DEF e, f
  <2>4. e \in AllEntries /\ f \in AllEntries
    BY <2>3, GroupEntry
  <2>5. e = <<e[1], e[2]>> /\ f = <<f[1], f[2]>> /\ e[1] \in {"File", "Dir"} /\ f[1] \in {"File", "Dir"}
    BY <2>4 DEF AllEntries
  <2>6. e[1] = f[1]
    BY <2>3, <2>5 DEF Order
  <2>7. e = f
    BY <2>3, <2>5, <2>6
  <2>8. g = h
    BY <2>3, <2>7, GroupEntry
  <2> QED BY <2>1, <2>2, <2>8
<1>5. \A x, y \in T : <<x, y>> \in R <=>
        (a(x) > a(y) \/ (a(x) = a(y) /\ (o(x) < o(y) \/ (o(x) = o(y) /\ i(x) < i(y)))))
  BY <1>1 DEF GroupBefore, EntryBefore
<1>6. \A x \in T : a(x) \in Nat /\ o(x) \in Nat /\ i(x) \in Nat
  BY <1>3
<1>7. \A x, y \in T : o(x) = o(y) /\ i(x) = i(y) => x = y
  BY <1>4
<1> HIDE DEF a, o, i
<1>8. StrictOrder(T, R)
  <2> HIDE DEF T, R
  <2>1. \A x \in T : <<x, x>> \notin R
    BY <1>5, <1>6
  <2>2. \A x, y \in T : x # y => <<x, y>> \in R \/ <<y, x>> \in R
    BY <1>5, <1>6, <1>7
  <2>3. \A x, y, z \in T : <<x, y>> \in R /\ <<y, z>> \in R => <<x, z>> \in R
    BY <1>5, <1>6
  <2> QED BY <2>1, <2>2, <2>3 DEF StrictOrder
<1> QED BY <1>8

(* export lists every group once.                                          *)
LEMMA GroupsSorted ==
  ASSUME TypeOK, PassesInv, GroupsInv
  PROVE  SortedGroups \in Seq(GroupRecords) /\ ToSet(SortedGroups) = GroupRecords
<1> DEFINE T == GroupRecords
           R == {x \in T \X T : GroupBefore(x[1], x[2])}
<1>1. IsFiniteSet(T)
  <2> DEFINE D == DOMAIN hashes
             m == [h \in D |-> GroupRecord(h)]
  <2>1. m \in [D -> T] /\ \A t \in T : \E h \in D : m[h] = t
    BY DEF GroupRecords
  <2> HIDE DEF m, T
  <2> QED BY <2>1, GroupsFinite, ImageFinite
<1>2. StrictOrder(T, R)
  BY GroupsOrdered
<1>3. \A x \in T : {y \in T : GroupBefore(y, x)} = Before(T, R, x)
  BY DEF Before
<1>4. SortedGroups = [k \in 1..Cardinality(T) |-> CHOOSE x \in T : Cardinality({y \in T : GroupBefore(y, x)}) = k - 1]
  BY DEF SortedGroups, SortedBy
<1>5. SortedGroups = ByRank(T, R)
  <2> DEFINE n == Cardinality(T)
             u(x) == Cardinality({y \in T : GroupBefore(y, x)})
             v(x) == Cardinality(Before(T, R, x))
  <2>1. \A x \in T : u(x) = v(x)
    BY <1>3
  <2>2. SortedGroups = [k \in 1..n |-> CHOOSE x \in T : u(x) = k - 1]
    BY <1>4
  <2>3. ByRank(T, R) = [k \in 1..n |-> CHOOSE x \in T : v(x) = k - 1]
    BY DEF ByRank
  <2> HIDE DEF n, u, v, T
  <2> QED BY <2>1, <2>2, <2>3
<1> HIDE DEF R, T
<1>6. SortedGroups \in Seq(T) /\ ToSet(SortedGroups) = T
  BY <1>1, <1>2, <1>5, SortedRanks
<1> QED BY <1>6 DEF T
-----------------------------------------------------------------------------
(* What a step leaves alone.                                               *)

(* The tree does not change after the passes, and what is said of it alone *)
(* stays.                                                                  *)
LEMMA TreeKept ==
  ASSUME state' = state, content' = content, file_hash' = file_hash
  PROVE  /\ \A id : is_file(id)' <=> is_file(id)
         /\ \A id : is_dir(id)' <=> is_dir(id)
         /\ \A id : Exists(id)' <=> Exists(id)
         /\ \A id : \A typ : Has(id, typ)' <=> Has(id, typ)
         /\ \A id : Listing(id)' = Listing(id)
         /\ \A id : AllHashed(id)' <=> AllHashed(id)
         /\ RootMissing' <=> RootMissing
         /\ PassesInv => PassesInv'
<1>1. /\ \A id : is_file(id)' <=> is_file(id)
      /\ \A id : is_dir(id)' <=> is_dir(id)
  BY DEF is_file, is_dir
<1>2. \A id : Exists(id)' <=> Exists(id)
  BY <1>1 DEF Exists
<1>3. \A id : \A typ : Has(id, typ)' <=> Has(id, typ)
  BY <1>1 DEF Has
<1>4. \A id : FilesUnder(id)' = FilesUnder(id)
  BY <1>1 DEF FilesUnder, Under
<1>5. \A id : AllHashed(id)' <=> AllHashed(id)
  BY <1>4 DEF AllHashed
<1>6. \A id : Listing(id)' = Listing(id)
  BY <1>4 DEF Listing, Under
<1>7. RootMissing' <=> RootMissing
  BY DEF RootMissing
<1>8. PassesInv => PassesInv'
  BY <1>1, <1>2 DEF PassesInv
<1> QED BY <1>1, <1>2, <1>3, <1>5, <1>6, <1>7, <1>8

(* Nor do the groups and the hashes of directories after                   *)
(* calculate_dir_hash.                                                     *)
LEMMA HashesKept ==
  ASSUME PassesInv, GroupsInv, MeaningInv,
         state' = state, content' = content, file_hash' = file_hash,
         dir_hash' = dir_hash, dir_size' = dir_size, hashes' = hashes,
         pc' = "calculate_dir_hash" => pc = "calculate_dir_hash",
         pc' # "panic" /\ pc' # "calculate_dir_hash" => pc # "panic" /\ pc # "calculate_dir_hash"
  PROVE  PassesInv' /\ GroupsInv' /\ MeaningInv'
<1>1. PassesInv'
  BY TreeKept
<1>2. GroupsInv'
  BY TreeKept DEF GroupsInv
<1>3. MeaningInv'
  <2>1. DirHashMeaning'
    BY TreeKept DEF MeaningInv, DirHashMeaning
  <2>2. pc' \notin {"calculate_dir_hash", "panic"} =>
          \A f, d \in Ids : is_file(f)' /\ file_hash'[f] # NoHash /\ file_hash'[f] = dir_hash'[d] =>
            Length[content'[f]] = 0 /\ dir_size'[d] = 0
    BY TreeKept DEF MeaningInv
  <2> QED BY <2>1, <2>2 DEF MeaningInv
<1> QED BY <1>1, <1>2, <1>3

(* Nor where find_shadowed stops.                                          *)
LEMMA StopsKept ==
  ASSUME state' = state, file_hash' = file_hash, dir_hash' = dir_hash, hashes' = hashes
  PROVE  /\ \A id : FileDup(id)' <=> FileDup(id)
         /\ \A id : DirDup(id)' <=> DirDup(id)
         /\ \A id : Stops(id)' <=> Stops(id)
         /\ \A id : Inside(id)' <=> Inside(id)
<1>1. \A id : Exists(id)' <=> Exists(id)
  BY DEF Exists, is_file, is_dir
<1>2. /\ \A id : FileDup(id)' <=> FileDup(id)
      /\ \A id : DirDup(id)' <=> DirDup(id)
  BY DEF FileDup, DirDup, more_than_one_hash, Group
<1>3. \A id : Searched(id)' <=> Searched(id)
  BY <1>1, <1>2 DEF Searched, Under
<1>4. \A id : Stops(id)' <=> Stops(id)
  BY <1>2, <1>3 DEF Stops
<1>5. \A id : Inside(id)' <=> Inside(id)
  BY <1>4 DEF Inside, Under
<1> QED BY <1>2, <1>4, <1>5

(* A panic that had a known reason still has it.                           *)
LEMMA PanicKept ==
  ASSUME OnlyKnownPanics, TypeOK', state' = state, content' = content, file_hash' = file_hash,
         pc' = "panic" => pc = "panic"
  PROVE  OnlyKnownPanics'
BY TreeKept DEF OnlyKnownPanics

-----------------------------------------------------------------------------
(* The invariant.                                                          *)

(* The passes establish the invariant.                                     *)
LEMMA InitIInv == Init => IInv
<1> SUFFICES ASSUME Init PROVE IInv
  OBVIOUS
<1>1. PICK label \in {tree \in Trees : Legal(tree)} :
    /\ state = [id \in Ids |->
         IF id # Root THEN label[id].state
         ELSE IF \E c \in Below : label[c].state \in {"file", "dir", "archive"} THEN "dir"
         ELSE "stale"]
    /\ content = [id \in Ids |-> IF id = Root THEN None ELSE label[id].content]
    /\ file_hash = [id \in Ids |->
         IF id # Root /\ label[id].hashed THEN HashOf(label[id].content) ELSE NoHash]
  BY DEF Init
<1>2. /\ dir_hash = [id \in Ids |-> NoHash] /\ dir_size = [id \in Ids |-> None]
      /\ file_shadowed = [id \in Ids |-> FALSE] /\ dir_shadowed = [id \in Ids |-> FALSE]
      /\ treediff_stat = [id \in Ids |-> 0]
      /\ pc = "calculate_dir_hash"
  BY DEF Init
<1>3. Root \in Ids /\ \A id \in Ids : id # Root <=> id \in Below
  BY PathsAssumption DEF Below
<1>4. ASSUME NEW id \in Below
      PROVE  /\ id \in Ids /\ id # Root /\ state[id] = label[id].state /\ content[id] = label[id].content
             /\ file_hash[id] # NoHash => label[id].hashed /\ file_hash[id] = HashOf(label[id].content)
             /\ label[id].state \in States
             /\ label[id].hashed \/ label[id].state \in {"file", "archive"} => label[id].content \in Contents
  BY <1>1, ConstantsAssumption DEF Below
<1>5. state[Root] \in {"dir", "stale"} /\ file_hash[Root] = NoHash
  BY <1>1, <1>3
<1>6. PassesInv
  <2>1. state \in [Ids -> States]
    BY <1>1, <1>3, <1>4 DEF States
  <2>2. DOMAIN file_hash = Ids
    BY <1>1
  <2>3. ASSUME NEW id \in Ids, is_file(id) PROVE id # Root /\ content[id] \in Contents
    BY <1>3, <1>4, <1>5, <2>3 DEF is_file
  <2>4. ASSUME NEW id \in Ids, file_hash[id] # NoHash
        PROVE  /\ content[id] \in Contents
               /\ file_hash[id] = HashOf(content[id])
    BY <1>3, <1>4, <1>5, <2>4
  <2>5. ASSUME NEW id \in Below, Exists(id) PROVE is_dir(Parent[id])
    <3>1. Parent[id] \in Ids
      BY ParentOf
    <3>2. label[id].state \in {"file", "dir", "archive"}
      BY <1>4, <2>5 DEF Exists, is_file, is_dir
    <3>3. CASE Parent[id] = Root
      <4>1. state[Root] = "dir"
        BY <1>1, <1>3, <3>2
      <4> QED BY <3>3, <4>1 DEF is_dir
    <3>4. CASE Parent[id] \in Below
      <4>1. label[Parent[id]].state \in {"dir", "archive"}
        BY <1>1, <3>2, <3>4 DEF Legal
      <4> QED BY <1>4, <3>4, <4>1 DEF is_dir
    <3> QED BY <1>3, <3>1, <3>3, <3>4
  <2>6. ASSUME NEW id \in Below, state[id] = "dir" PROVE \E c \in Below : Parent[c] = id /\ Exists(c)
    <3>1. label[id].state = "dir"
      BY <1>4, <2>6
    <3>2. PICK c \in Below : Parent[c] = id /\ label[c].state \in {"file", "dir", "archive"}
      BY <1>1, <3>1 DEF Legal
    <3>3. Exists(c)
      BY <1>4, <3>2 DEF Exists, is_file, is_dir
    <3> QED BY <3>2, <3>3
  <2> QED BY <2>1, <2>2, <2>3, <2>4, <2>5, <2>6 DEF PassesInv
<1> DEFINE F == {id \in Ids : is_file(id) /\ file_hash[id] # NoHash}
           of == [id \in F |-> file_hash[id]]
<1>7. /\ DOMAIN hashes = {file_hash[id] : id \in F}
      /\ \A h \in DOMAIN hashes : \A e :
           e \in hashes[h] <=> \E id \in F : e = <<"File", id>> /\ file_hash[id] = h
  <2>1. hashes = Push(<<>>, "File", of)
    BY DEF Init
  <2>2. Pushed(<<>>, "File", of)
    BY PushMeans
  <2>3. DOMAIN of = F /\ \A id \in F : of[id] = file_hash[id]
    OBVIOUS
  <2>4. \A h : Group(<<>>, h) = {}
    BY DEF Group
  <2> HIDE DEF of, F
  <2>5. DOMAIN hashes = DOMAIN <<>> \cup {of[id] : id \in DOMAIN of}
    BY <2>1, <2>2 DEF Pushed
  <2>6. {of[id] : id \in DOMAIN of} = {file_hash[id] : id \in F}
    BY <2>3
  <2>7. DOMAIN <<>> = {}
    OBVIOUS
  <2>8. ASSUME NEW h \in DOMAIN hashes, NEW e
        PROVE  e \in hashes[h] <=> \E id \in F : e = <<"File", id>> /\ file_hash[id] = h
    <3>1. e \in hashes[h] <=>
            \/ e \in Group(<<>>, h)
            \/ \E id \in DOMAIN of : /\ e = <<"File", id>> /\ of[id] = h
                                     /\ \A g \in Group(<<>>, h) : g[2] # id
      BY <2>1, <2>2 DEF Pushed
    <3> QED BY <2>3, <2>4, <3>1
  <2> QED BY <2>5, <2>6, <2>7, <2>8
<1>8. GroupsInv
  <2>1. ASSUME NEW h \in DOMAIN hashes, NEW e \in hashes[h]
        PROVE  /\ Has(e[2], e[1]) /\ h # NoHash
               /\ h = (IF e[1] = "File" THEN file_hash[e[2]] ELSE dir_hash[e[2]])
    <3>1. PICK id \in F : e = <<"File", id>> /\ file_hash[id] = h
      BY <1>7
    <3> QED BY <3>1 DEF Has
  <2>2. ASSUME NEW h \in DOMAIN hashes, NEW e \in hashes[h], NEW f \in hashes[h], e[2] = f[2] PROVE e = f
    <3>1. PICK id \in F : e = <<"File", id>>
      BY <1>7
    <3>2. PICK jd \in F : f = <<"File", jd>>
      BY <1>7
    <3> QED BY <2>2, <3>1, <3>2
  <2>3. ASSUME NEW id \in Ids, is_file(id), file_hash[id] # NoHash
        PROVE  file_hash[id] \in DOMAIN hashes /\ <<"File", id>> \in hashes[file_hash[id]]
    BY <1>7, <2>3
  <2> QED BY <1>2, <2>1, <2>2, <2>3 DEF GroupsInv
<1>9. TypeOK
  <2>1. ASSUME NEW h \in DOMAIN hashes PROVE hashes[h] # {} /\ hashes[h] \subseteq {"File", "Dir"} \X Ids
    <3>1. PICK id \in F : file_hash[id] = h
      BY <1>7
    <3>2. <<"File", id>> \in hashes[h]
      BY <1>7, <3>1
    <3>3. ASSUME NEW e \in hashes[h] PROVE e \in {"File", "Dir"} \X Ids
      <4>1. PICK jd \in F : e = <<"File", jd>>
        BY <1>7
      <4> QED BY <4>1
    <3> QED BY <3>2, <3>3
  <2> QED BY <1>2, <1>6, <2>1 DEF TypeOK, PassesInv
<1>10. MeaningInv /\ ShadowInv /\ SortedInv /\ OnlyKnownPanics
  BY <1>2, <1>9 DEF MeaningInv, DirHashMeaning, ShadowInv, SortedInv, OnlyKnownPanics
<1> QED BY <1>6, <1>8, <1>10 DEF IInv
(* Of the archives that make calculate_dir_hash panic the innermost last   *)
(* one has no hash, and everything in it has.                              *)
LEMMA KnownUnwrap ==
  ASSUME PassesInv, \E id \in Ids : Unwraps(id)
  PROVE  \E id \in Ids : state[id] = "archive" /\ file_hash[id] = NoHash /\ AllHashed(id)
<1> DEFINE bad == {id \in Ids : Unwraps(id)}
<1>1. PICK a \in bad : \A b \in bad : b <= a
  <2>1. bad \subseteq Ids /\ bad # {}
    OBVIOUS
  <2> HIDE DEF bad
  <2> QED BY <2>1, LastEntry
<1>2. Clean(a)
  <2>1. ASSUME NEW d \in Ids, Under(d, a), Unwraps(d) PROVE FALSE
    <3>1. a < d /\ a \in Nat /\ d \in Nat
      BY <2>1, UnderOrder, PathOf
    <3> QED BY <1>1, <2>1, <3>1
  <2> QED BY <2>1 DEF Clean
<1>3. is_file(a) /\ OwnHash(a) # Err /\ file_hash[a] = NoHash
  BY DEF Unwraps
<1>4. is_dir(a)
  BY <1>3 DEF OwnHash
<1>5. AllHashed(a)
  BY <1>2, <1>3, <1>4, OwnHashGood DEF OwnGood
<1>6. state[a] = "archive"
  BY <1>3, <1>4 DEF is_file, is_dir
<1> QED BY <1>3, <1>5, <1>6

(* calculate_dir_hash establishes the meaning of the hashes.               *)
LEMMA CalcKeeps == IInv /\ CalculateDirHash => IInv'
<1> SUFFICES ASSUME IInv, CalculateDirHash PROVE IInv'
  OBVIOUS
<1>1. /\ TypeOK /\ PassesInv /\ GroupsInv /\ OnlyKnownPanics /\ MeaningInv
      /\ pc = "calculate_dir_hash"
      /\ state' = state /\ content' = content /\ file_hash' = file_hash
      /\ file_shadowed' = file_shadowed /\ dir_shadowed' = dir_shadowed
      /\ treediff_stat' = treediff_stat
  BY DEF IInv, CalculateDirHash, OnlyKnownPanics
<1>2. PassesInv'
  BY <1>1, TreeKept
<1>3. ShadowInv' /\ SortedInv'
  <2>1. pc' \in {"panic", "find_shadowed"}
    BY DEF CalculateDirHash
  <2> QED BY <2>1 DEF ShadowInv, SortedInv
<1>4. IF (\E id \in Ids : Unwraps(id)) \/ SizesDiffer(AllGroups)
      THEN pc' = "panic" /\ UNCHANGED <<dir_hash, dir_size, hashes>>
      ELSE /\ dir_hash' = [id \in Ids |-> IF id \in Dirs THEN OwnHash(id).hash ELSE NoHash]
           /\ dir_size' = [id \in Ids |-> IF id \in Dirs THEN OwnHash(id).size ELSE None]
           /\ hashes' = AllGroups
           /\ pc' = "find_shadowed"
  BY DEF CalculateDirHash, AllGroups, HashesOf, Dirs
<1>5. CASE \E id \in Ids : Unwraps(id)
  <2>1. pc' = "panic" /\ UNCHANGED <<dir_hash, dir_size, hashes>>
    BY <1>4, <1>5
  <2>2. GroupsInv' /\ MeaningInv'
    BY <1>1, <2>1, HashesKept
  <2>3. TypeOK'
    BY <1>1, <2>1 DEF TypeOK
  <2>4. \E id \in Ids : state'[id] = "archive" /\ file_hash'[id] = NoHash /\ AllHashed(id)'
    BY <1>1, <1>5, KnownUnwrap, TreeKept
  <2>5. OnlyKnownPanics'
    BY <2>3, <2>4 DEF OnlyKnownPanics
  <2> QED BY <1>2, <1>3, <2>2, <2>5 DEF IInv
<1>6. CASE \A id \in Ids : ~Unwraps(id)
  <2> DEFINE A == AllGroups
  <2>1. /\ dir_hash' = [id \in Ids |-> IF id \in Dirs THEN OwnHash(id).hash ELSE NoHash]
        /\ dir_size' = [id \in Ids |-> IF id \in Dirs THEN OwnHash(id).size ELSE None]
        /\ hashes' = A
        /\ pc' = "find_shadowed"
    BY <1>1, <1>4, <1>6, SizesAgree
  <2>2. GroupsGood(A)
    BY <1>1, CalcGroups
  <2>3. /\ \A id \in Ids : id \in Dirs <=> is_dir(id) /\ AllHashed(id)
        /\ \A id \in Dirs : /\ id \in Ids /\ OwnHash(id).size = SizeOf(Listing(id))
                             /\ SizeOf(Listing(id)) \in Nat
                             /\ OwnHash(id).hash # NoHash
        /\ \A a, b \in Dirs : OwnHash(a).hash = OwnHash(b).hash <=> Listing(a) = Listing(b)
        /\ \A f \in Ids : \A d \in Dirs : file_hash[f] # NoHash /\ file_hash[f] = OwnHash(d).hash
             => Length[content[f]] = 0 /\ OwnHash(d).size = 0
    BY <1>1, <1>6, DirsMean DEF HashedDir
  <2>4. \A id \in Ids : /\ dir_hash'[id] # NoHash <=> id \in Dirs
                        /\ id \in Dirs => /\ dir_hash'[id] = OwnHash(id).hash
                                          /\ dir_size'[id] = OwnHash(id).size
                        /\ id \notin Dirs => dir_size'[id] = None
    BY <2>1, <2>3
  <2> HIDE DEF A
  <2>5. TypeOK'
    <3>1. dir_size' \in [Ids -> Nat \cup {None}]
      <4>1. \A id \in Ids : dir_size'[id] \in Nat \cup {None}
        BY <2>3, <2>4
      <4>2. dir_size' = [id \in Ids |-> dir_size'[id]]
        BY <2>1
      <4> QED BY <4>1, <4>2
    <3>2. \A id \in Ids : dir_size'[id] = None <=> dir_hash'[id] = NoHash
      <4>1. \A id \in Dirs : dir_size'[id] \in Nat
        BY <2>3, <2>4
      <4>2. None \notin Nat
        BY ConstantsAssumption
      <4> QED BY <2>4, <4>1, <4>2
    <3>3. \A h \in DOMAIN hashes' : hashes'[h] # {} /\ hashes'[h] \subseteq {"File", "Dir"} \X Ids
      BY <2>1, <2>2 DEF GroupsGood
    <3>4. DOMAIN dir_hash' = Ids
      BY <2>1
    <3> QED BY <1>1, <2>1, <3>1, <3>2, <3>3, <3>4 DEF TypeOK
  <2>6. GroupsInv'
    <3>1. ASSUME NEW h \in DOMAIN A, NEW e \in A[h]
          PROVE  /\ Has(e[2], e[1])' /\ h # NoHash
                 /\ h = (IF e[1] = "File" THEN file_hash'[e[2]] ELSE dir_hash'[e[2]])
      <4>1. Entered(h, e) /\ e[2] \in Ids
        BY <2>2 DEF GroupsGood
      <4>2. Has(e[2], e[1])' <=> Has(e[2], e[1])
        BY <1>1, TreeKept
      <4>3. CASE e[1] = "File"
        BY <1>1, <4>1, <4>2, <4>3 DEF Entered, Has
      <4>4. CASE e[1] # "File"
        <5>1. e[1] = "Dir" /\ e[2] \in Dirs /\ OwnHash(e[2]).hash = h
          BY <4>1, <4>4 DEF Entered
        <5>2. is_dir(e[2]) /\ h # NoHash /\ dir_hash'[e[2]] = h
          BY <2>3, <2>4, <4>1, <5>1
        <5> QED BY <4>2, <4>4, <5>2 DEF Has
      <4> QED BY <4>3, <4>4
    <3>2. ASSUME NEW id \in Ids, is_file(id)', file_hash'[id] # NoHash
          PROVE  file_hash'[id] \in DOMAIN A /\ <<"File", id>> \in A[file_hash'[id]]
      <4>1. is_file(id)
        BY <1>1, <3>2, TreeKept
      <4> QED BY <1>1, <2>2, <3>2, <4>1 DEF GroupsGood
    <3>3. ASSUME NEW id \in Ids, dir_hash'[id] # NoHash
          PROVE  dir_hash'[id] \in DOMAIN A /\ \E e \in A[dir_hash'[id]] : e[2] = id
      BY <2>2, <2>4, <3>3 DEF GroupsGood
    <3>4. \A h \in DOMAIN A : \A e, f \in A[h] : e[2] = f[2] => e = f
      BY <2>2 DEF GroupsGood
    <3> QED BY <2>1, <3>1, <3>2, <3>3, <3>4 DEF GroupsInv
  <2>7. MeaningInv'
    <3>1. ASSUME NEW id \in Ids PROVE (dir_hash'[id] # NoHash) <=> is_dir(id)' /\ AllHashed(id)'
      BY <1>1, <2>3, <2>4, TreeKept
    <3>2. ASSUME NEW a \in Ids, NEW b \in Ids, dir_hash'[a] # NoHash, dir_hash'[b] # NoHash
          PROVE  /\ (dir_hash'[a] = dir_hash'[b]) <=> (Listing(a)' = Listing(b)')
                 /\ dir_size'[a] = SizeOf(Listing(a)')
      <4>1. a \in Dirs /\ b \in Dirs
        BY <2>4, <3>2
      <4>2. dir_hash'[a] = OwnHash(a).hash /\ dir_hash'[b] = OwnHash(b).hash /\ dir_size'[a] = OwnHash(a).size
        BY <2>4, <4>1
      <4> QED BY <1>1, <2>3, <4>1, <4>2, TreeKept
    <3>3. DirHashMeaning'
      BY <3>1, <3>2 DEF DirHashMeaning, SizeOf, LengthsOf
    <3>4. ASSUME NEW f \in Ids, NEW d \in Ids, is_file(f)', file_hash'[f] # NoHash,
                 file_hash'[f] = dir_hash'[d]
          PROVE  Length[content'[f]] = 0 /\ dir_size'[d] = 0
      <4>1. d \in Dirs
        BY <2>4, <3>4
      <4> QED BY <1>1, <2>3, <2>4, <3>4, <4>1
    <3> QED BY <3>3, <3>4 DEF MeaningInv
  <2>8. OnlyKnownPanics'
    BY <2>1, <2>5 DEF OnlyKnownPanics
  <2> QED BY <1>2, <1>3, <2>6, <2>7, <2>8 DEF IInv
<1> QED BY <1>5, <1>6
(* The search does not go on below where it stops.                         *)
LEMMA StopsOnce ==
  ASSUME NEW id \in Ids, Stops(id)
  PROVE  ~Inside(id)
BY DEF Stops, Inside, Searched

(* find_shadowed establishes ShadowInv.                                    *)
LEMMA FindShadowedKeeps == IInv /\ FindShadowed => IInv'
<1> SUFFICES ASSUME IInv, FindShadowed PROVE IInv'
  OBVIOUS
<1>1. /\ TypeOK /\ PassesInv /\ GroupsInv /\ MeaningInv
      /\ pc = "find_shadowed" /\ pc' = "export"
      /\ state' = state /\ content' = content /\ file_hash' = file_hash
      /\ dir_hash' = dir_hash /\ dir_size' = dir_size /\ treediff_stat' = treediff_stat
      /\ hashes' = hashes
      /\ file_shadowed' = [id \in Ids |-> Inside(id)]
      /\ dir_shadowed' = [id \in Ids |-> Inside(id) \/ (Stops(id) /\ FileDup(id))]
  BY DEF IInv, FindShadowed, OnlyKnownPanics
<1>2. PassesInv' /\ GroupsInv' /\ MeaningInv'
  BY <1>1, HashesKept
<1>3. ShadowInv'
  <2>1. ASSUME NEW id \in Ids, Stops(id)'
        PROVE  ~file_shadowed'[id] /\ (~FileDup(id)' => ~dir_shadowed'[id])
    <3>1. Stops(id) /\ (FileDup(id)' <=> FileDup(id))
      BY <1>1, <2>1, StopsKept
    <3>2. ~Inside(id)
      BY <3>1, StopsOnce
    <3>3. file_shadowed'[id] <=> Inside(id)
      BY <1>1
    <3>4. dir_shadowed'[id] <=> Inside(id) \/ (Stops(id) /\ FileDup(id))
      BY <1>1
    <3> QED BY <3>1, <3>2, <3>3, <3>4
  <2> QED BY <2>1 DEF ShadowInv
<1>4. SortedInv'
  BY <1>1 DEF SortedInv
<1>5. TypeOK'
  <2>1. file_shadowed' \in [Ids -> BOOLEAN]
    BY <1>1 DEF Inside
  <2>2. dir_shadowed' \in [Ids -> BOOLEAN]
    BY <1>1 DEF Inside
  <2> QED BY <1>1, <2>1, <2>2 DEF TypeOK
<1>6. OnlyKnownPanics'
  BY <1>1, <1>5 DEF OnlyKnownPanics
<1> QED BY <1>2, <1>3, <1>4, <1>6 DEF IInv

(* The size of an entry is about its fields.                               *)
LEMMA SizeKept ==
  ASSUME content' = content, dir_size' = dir_size
  PROVE  \A id, typ : Size(id, typ)' = Size(id, typ)
BY DEF Size

(* export establishes SortedInv.                                           *)
LEMMA ExportKeeps == IInv /\ Export => IInv'
<1> SUFFICES ASSUME IInv, Export PROVE IInv'
  OBVIOUS
<1>1. /\ TypeOK /\ PassesInv /\ GroupsInv /\ MeaningInv /\ ShadowInv
      /\ pc = "export" /\ pc' = "print"
      /\ state' = state /\ content' = content /\ file_hash' = file_hash
      /\ dir_hash' = dir_hash /\ dir_size' = dir_size /\ treediff_stat' = treediff_stat
      /\ file_shadowed' = file_shadowed /\ dir_shadowed' = dir_shadowed
      /\ hashes' = hashes
  BY DEF IInv, Export, OnlyKnownPanics, entry
<1>2. sorted' = SortedGroups
  BY DEF Export, SortedGroups, GroupRecords, GroupRecord, SortedEntries
<1>3. PassesInv' /\ GroupsInv' /\ MeaningInv'
  BY <1>1, HashesKept
<1>4. ShadowInv'
  BY <1>1, StopsKept DEF ShadowInv
<1> DEFINE q == SortedGroups
<1>5. q \in Seq(GroupRecords) /\ ToSet(q) = GroupRecords
  BY <1>1, GroupsSorted
<1>6. SortedInv'
  <2> HIDE DEF q
  <2>1. ASSUME NEW h \in DOMAIN hashes PROVE \E k \in DOMAIN q : q[k].hash = h
    <3>1. GroupRecord(h) \in ToSet(q)
      BY <1>5 DEF GroupRecords
    <3>2. PICK k \in DOMAIN q : q[k] = GroupRecord(h)
      BY <3>1 DEF ToSet
    <3> QED BY <3>2 DEF GroupRecord
  <2>2. ASSUME NEW k \in DOMAIN q
        PROVE  /\ q[k].hash \in DOMAIN hashes
               /\ q[k].entries \in Seq(AllEntries)
               /\ ToSet(q[k].entries) = hashes[q[k].hash]
               /\ \A e \in hashes[q[k].hash] : Size(e[2], e[1]) = q[k].size
    <3>1. q[k] \in GroupRecords
      BY <1>5 DEF ToSet
    <3>2. PICK h \in DOMAIN hashes : q[k] = GroupRecord(h)
      BY <3>1 DEF GroupRecords
    <3>3. /\ q[k].hash = h /\ q[k].size = SizeOfGroup(h)
          /\ q[k].entries \in Seq(AllEntries) /\ ToSet(q[k].entries) = hashes[h]
      BY <1>1, <3>2, RecordOf
    <3>4. ASSUME NEW e \in hashes[h] PROVE Size(e[2], e[1]) = SizeOfGroup(h)
      <4>1. (CHOOSE x \in hashes[h] : TRUE) \in hashes[h]
        OBVIOUS
      <4> QED BY <1>1, <4>1, SameSize DEF SizeOfGroup
    <3> QED BY <3>3, <3>4
  <2>3. sorted' = q
    BY <1>2 DEF q
  <2> QED BY <1>1, <2>1, <2>2, <2>3, SizeKept DEF SortedInv, AllEntries
<1>7. TypeOK'
  BY <1>1 DEF TypeOK
<1>8. OnlyKnownPanics'
  BY <1>1, <1>7 DEF OnlyKnownPanics
<1> QED BY <1>3, <1>4, <1>6, <1>8 DEF IInv

(* What a step of the output leaves of the invariant.                      *)
LEMMA OutputKeeps ==
  ASSUME IInv, pc = "print", pc' \in {"done", "panic"},
         state' = state, content' = content, file_hash' = file_hash,
         dir_hash' = dir_hash, dir_size' = dir_size, hashes' = hashes,
         file_shadowed' = file_shadowed, dir_shadowed' = dir_shadowed,
         treediff_stat' \in [Ids -> 0..2],
         pc' = "panic" => RootMissing
  PROVE  IInv'
<1>1. PassesInv' /\ GroupsInv' /\ MeaningInv'
  BY HashesKept DEF IInv
<1>2. ShadowInv' /\ SortedInv'
  BY DEF ShadowInv, SortedInv
<1>3. TypeOK'
  BY DEF IInv, OnlyKnownPanics, TypeOK
<1>4. OnlyKnownPanics'
  BY <1>3, TreeKept DEF OnlyKnownPanics
<1> QED BY <1>1, <1>2, <1>4 DEF IInv

(* What is shown of a group is part of it, and at least two entries.       *)
LEMMA ShownOf ==
  ASSUME IInv, pc = "print", NEW k \in DOMAIN sorted, NEW rule, Shown(sorted[k], rule) # <<>>
  PROVE  \E W \in SUBSET hashes[sorted[k].hash] :
           /\ Shown(sorted[k], rule) = SortedEntries(W) /\ Cardinality(W) > 1
           /\ W \subseteq AllEntries
           /\ \A e \in W : Has(e[2], e[1])
           /\ \/ ToSet(sorted[k].entries) \subseteq W
              \/ \A e \in ToSet(sorted[k].entries) : ~Shadowed(e[2], e[1]) => e \in W
<1> DEFINE E == hashes[sorted[k].hash]
           entries == {e \in E : Has(e[2], e[1])}
           outside == {e \in entries : ~Shadowed(e[2], e[1])}
           hide == HideShadowed(rule, Cardinality(outside))
<1>1. sorted[k].hash \in DOMAIN hashes /\ ToSet(sorted[k].entries) = E
  BY DEF IInv, SortedInv
<1>2. E \subseteq AllEntries /\ \A e \in E : Has(e[2], e[1])
  BY <1>1, GroupEntry DEF IInv, OnlyKnownPanics
<1>3. Shown(sorted[k], rule) =
        IF Cardinality(entries) <= 1 \/ (hide /\ Cardinality(outside) <= 1) THEN <<>>
        ELSE SortedEntries(IF hide THEN outside ELSE entries)
  BY <1>1 DEF Shown, SortedEntries
<1>4. /\ IsFiniteSet(entries) /\ IsFiniteSet(outside)
      /\ Cardinality(entries) \in Nat /\ Cardinality(outside) \in Nat
  <2>1. IsFiniteSet(AllEntries) /\ entries \subseteq AllEntries /\ outside \subseteq AllEntries
    BY <1>2, EntriesFinite
  <2> QED BY <2>1, FS_Subset, FS_CardinalityType
<1> DEFINE W == IF hide THEN outside ELSE entries
           a == Cardinality(entries)
           b == Cardinality(outside)
<1>5. Shown(sorted[k], rule) = SortedEntries(W) /\ ~(a <= 1) /\ (hide => ~(b <= 1))
  <2> HIDE DEF entries, outside, hide
  <2> QED BY <1>3
<1>6. Cardinality(W) > 1
  <2>1. a \in Nat /\ b \in Nat /\ Cardinality(W) = IF hide THEN b ELSE a
    BY <1>4
  <2> HIDE DEF a, b, W, hide
  <2> QED BY <1>5, <2>1
<1>7. W \subseteq E
  OBVIOUS
<1>8. \/ E \subseteq W
      \/ \A e \in E : ~Shadowed(e[2], e[1]) => e \in W
  BY <1>2
<1> HIDE DEF W
<1> QED BY <1>1, <1>2, <1>5, <1>6, <1>7, <1>8

(* print_groups keeps the invariant, and its assertion holds.              *)
LEMMA PrintGroupsKeeps == \A rule : IInv /\ PrintGroups(rule) => IInv'
<1> SUFFICES ASSUME NEW rule, IInv, PrintGroups(rule) PROVE IInv'
  OBVIOUS
<1>1. /\ pc = "print" /\ pc' \in {"done", "panic"}
      /\ state' = state /\ content' = content /\ file_hash' = file_hash
      /\ dir_hash' = dir_hash /\ dir_size' = dir_size /\ treediff_stat' = treediff_stat
      /\ file_shadowed' = file_shadowed /\ dir_shadowed' = dir_shadowed
      /\ hashes' = hashes
  BY DEF PrintGroups, entry
<1> DEFINE K == {k \in DOMAIN sorted : Shown(sorted[k], rule) # <<>>}
           groups == [k \in K |-> [size |-> sorted[k].size, entries |-> Shown(sorted[k], rule)]]
<1>2. printed' = [mode |-> "groups", rule |-> rule, groups |-> groups]
  BY DEF PrintGroups
<1>3. pc' = IF \A k \in DOMAIN groups : \A e \in ToSet(groups[k].entries) :
                 Size(e[2], e[1]) = groups[k].size
            THEN "done" ELSE "panic"
  BY <1>2 DEF PrintGroups
<1>4. ASSUME NEW k \in DOMAIN groups, NEW e \in ToSet(groups[k].entries)
      PROVE  Size(e[2], e[1]) = groups[k].size
  <2>1. k \in DOMAIN sorted /\ Shown(sorted[k], rule) # <<>>
        /\ groups[k].size = sorted[k].size /\ groups[k].entries = Shown(sorted[k], rule)
    OBVIOUS
  <2>2. PICK W \in SUBSET hashes[sorted[k].hash] :
          Shown(sorted[k], rule) = SortedEntries(W) /\ W \subseteq AllEntries
    BY <1>1, <2>1, ShownOf
  <2>3. ToSet(SortedEntries(W)) = W
    BY <2>2, EntriesSorted
  <2>4. e \in W
    <3> HIDE DEF groups
    <3> QED BY <2>1, <2>2, <2>3
  <2>5. Size(e[2], e[1]) = sorted[k].size
    BY <1>1, <2>1, <2>4 DEF IInv, SortedInv
  <2> QED BY <2>1, <2>5
<1>5. pc' = "done"
  <2> HIDE DEF groups
  <2> QED BY <1>3, <1>4
<1>6. treediff_stat' \in [Ids -> 0..2]
  BY <1>1 DEF IInv, OnlyKnownPanics, TypeOK
<1> QED BY <1>1, <1>5, <1>6, OutputKeeps
(* An entry with a hash is in the group of the hash.                       *)
LEMMA DupsPositive ==
  ASSUME TypeOK, PassesInv, GroupsInv, NEW id \in Ids, Exists(id), Props(id) # NoHash
  PROVE  /\ Props(id) \in DOMAIN hashes
         /\ \E e \in hashes[Props(id)] : e[2] = id
         /\ Dups(id) = Cardinality(hashes[Props(id)])
         /\ Dups(id) \in Nat \ {0} /\ IsFiniteSet(hashes[Props(id)])
<1> DEFINE h == Props(id)
<1>1. h \in DOMAIN hashes /\ \E e \in hashes[h] : e[2] = id
  <2>1. CASE is_file(id)
    <3>1. h = file_hash[id] /\ file_hash[id] \in DOMAIN hashes /\ <<"File", id>> \in hashes[file_hash[id]]
      BY <2>1 DEF Props, GroupsInv
    <3> QED BY <3>1
  <2>2. CASE ~is_file(id)
    <3>1. h = dir_hash[id]
      BY <2>2 DEF Props
    <3> QED BY <3>1 DEF GroupsInv
  <2> QED BY <2>1, <2>2
<1>2. Dups(id) = Cardinality(hashes[h])
  BY <1>1 DEF Dups, Group
<1>3. IsFiniteSet(hashes[h]) /\ hashes[h] # {}
  <2>1. hashes[h] \subseteq AllEntries
    BY <1>1, GroupEntry
  <2> QED BY <1>1, <2>1, EntriesFinite, FS_Subset
<1>4. Cardinality(hashes[h]) \in Nat \ {0}
  BY <1>3, FS_CardinalityType, FS_EmptySet
<1> QED BY <1>1, <1>2, <1>3, <1>4

(* print_tree does, and its assertion about the groups holds.              *)
LEMMA PrintTreeKeeps == IInv /\ PrintTree => IInv'
<1> SUFFICES ASSUME IInv, PrintTree PROVE IInv'
  OBVIOUS
<1>1. /\ pc = "print" /\ pc' \in {"done", "panic"}
      /\ state' = state /\ content' = content /\ file_hash' = file_hash
      /\ dir_hash' = dir_hash /\ dir_size' = dir_size /\ treediff_stat' = treediff_stat
      /\ file_shadowed' = file_shadowed /\ dir_shadowed' = dir_shadowed
      /\ hashes' = hashes
  BY DEF PrintTree, entry
<1>2. ASSUME pc' = "panic" PROVE RootMissing
  <2>1. ASSUME ~RootMissing PROVE FALSE
    <3>1. ~\A line \in TreeListing : Props(line.id) # NoHash => Dups(line.id) # 0
      BY <1>2, <2>1 DEF PrintTree
    <3>2. PICK line \in TreeListing : Props(line.id) # NoHash /\ Dups(line.id) = 0
      BY <3>1
    <3>3. line.id \in Ids /\ Exists(line.id)
      BY DEF TreeListing, InTree
    <3> QED BY <3>2, <3>3, DupsPositive DEF IInv, OnlyKnownPanics
  <2> QED BY <2>1
<1>3. treediff_stat' \in [Ids -> 0..2]
  BY <1>1 DEF IInv, OnlyKnownPanics, TypeOK
<1> QED BY <1>1, <1>2, <1>3, OutputKeeps

-----------------------------------------------------------------------------
(* The marks of find_diff.                                                 *)

(* A recursion from the leaves that asks whether the children are marked.  *)
Marked(f, S, A, B) == f = [id \in S |-> IF \A c \in Childs(id) : f[c] # 0 THEN A[id] ELSE B[id]]

(* The recursion of find_diff ends.                                        *)
LEMMA MarksExist == \A A, B : \E f : Marked(f, Ids, A, B)
<1> SUFFICES ASSUME NEW A, NEW B PROVE \E f : Marked(f, Ids, A, B)
  OBVIOUS
<1> DEFINE T == {n \in Nat : \E f : Marked(f, Later(n), A, B)}
<1>1. T # {}
  <2>1. PICK x \in Ids : \A y \in Ids : y <= x
    BY LastEntry, PathsAssumption
  <2>2. x + 1 \in Nat /\ Later(x + 1) = {}
    BY <2>1, PathOf DEF Later
  <2> DEFINE e == [id \in {} |-> 0]
  <2>3. Marked(e, Later(x + 1), A, B)
    BY <2>2 DEF Marked
  <2> QED BY <2>2, <2>3
<1>2. PICK n \in T : \A m \in T : n <= m
  <2>1. T \subseteq Nat
    OBVIOUS
  <2> HIDE DEF T
  <2> QED BY <1>1, <2>1, LeastNumber
<1>3. PICK f : Marked(f, Later(n), A, B)
  OBVIOUS
<1>4. ASSUME n # 0 PROVE FALSE
  <2> DEFINE free(u, id) == \A c \in Childs(id) : u[c] # 0
             g == [id \in Later(n - 1) |-> IF free(f, id) THEN A[id] ELSE B[id]]
  <2>1. n - 1 \in Nat /\ n \in Nat
    BY <1>4
  <2>2. ASSUME NEW id \in Later(n - 1) PROVE free(g, id) <=> free(f, id)
    <3>1. ASSUME NEW c \in Childs(id) PROVE g[c] = f[c]
      <4>1. c \in Below /\ Parent[c] = id
        BY DEF Childs
      <4>2. c \in Ids /\ id < c /\ c \in Nat /\ id \in Nat
        BY <4>1, ParentOf, PathOf
      <4>3. c \in Later(n) /\ c \in Later(n - 1)
        BY <2>1, <4>2 DEF Later
      <4>4. f[c] = IF free(f, c) THEN A[c] ELSE B[c]
        BY <1>3, <4>3 DEF Marked
      <4>5. g[c] = IF free(f, c) THEN A[c] ELSE B[c]
        BY <4>3
      <4> QED BY <4>4, <4>5
    <3> HIDE DEF g
    <3> QED BY <3>1
  <2>3. g = [id \in Later(n - 1) |-> IF free(g, id) THEN A[id] ELSE B[id]]
    <3>1. \A id \in Later(n - 1) : g[id] = IF free(g, id) THEN A[id] ELSE B[id]
      <4>1. \A id \in Later(n - 1) : g[id] = IF free(f, id) THEN A[id] ELSE B[id]
        OBVIOUS
      <4> HIDE DEF g, free
      <4> QED BY <2>2, <4>1
    <3>2. g = [id \in Later(n - 1) |-> g[id]]
      OBVIOUS
    <3> HIDE DEF g, free
    <3> QED BY <3>1, <3>2
  <2>4. Marked(g, Later(n - 1), A, B)
    BY <2>3 DEF Marked
  <2>5. n - 1 \in T
    BY <2>1, <2>4
  <2> HIDE DEF T
  <2> QED BY <1>2, <2>1, <2>5
<1>5. Later(0) = Ids
  BY PathOf DEF Later
<1> QED BY <1>3, <1>4, <1>5

(* The same place below another root holds the same.                       *)
Eq(id, root, other) == \E f \in Montage(id, root, other) : SameAs(id, f)

Upgrade(up, id, root, other) ==
  IF Eq(id, root, other) THEN 2
  ELSE IF is_dir(id) /\ \A c \in Childs(id) : up[c] # 0 THEN 1 ELSE 0

(* find_diff gets to the place.                                            *)
Called(id, root, other) ==
  /\ Within(id, root)
  /\ \A a \in Ids : Under(id, a) /\ Within(a, root) => ~Eq(a, root, other)

(* The marks that find_diff makes.                                         *)
Ups(up, stat, root, other) ==
  /\ up \in [Ids -> 0..2]
  /\ \A id \in Ids : up[id] = IF stat[id] > Upgrade(up, id, root, other)
                               THEN stat[id] ELSE Upgrade(up, id, root, other)

(* find_diff leaves marks: each is the larger one of what it was and what  *)
(* is found at its place.                                                  *)
LEMMA UpgradedMeans ==
  ASSUME NEW stat \in [Ids -> 0..2], NEW root, NEW other
  PROVE  \E up : /\ Ups(up, stat, root, other)
                 /\ Upgraded(stat, root, other) =
                      [id \in Ids |-> IF Called(id, root, other) THEN up[id] ELSE stat[id]]
<1> DEFINE eq(id) == \E f \in Montage(id, root, other) : SameAs(id, f)
           uniqfree(u, id) == is_dir(id) /\ \A c \in Childs(id) : u[c] # 0
           upgrade(u, id) == IF eq(id) THEN 2 ELSE IF uniqfree(u, id) THEN 1 ELSE 0
           Rec(u) == u = [id \in Ids |-> IF stat[id] > upgrade(u, id) THEN stat[id] ELSE upgrade(u, id)]
           called(id) ==
             /\ id = root \/ Under(id, root)
             /\ \A a \in Ids : Under(id, a) /\ (a = root \/ Under(a, root)) => ~eq(a)
           up == CHOOSE u : Rec(u)
<1>1. Upgraded(stat, root, other) = [id \in Ids |-> IF called(id) THEN up[id] ELSE stat[id]]
  BY Zenon DEF Upgraded
<1>2. \E u : Rec(u)
  <2> DEFINE larger(a, b) == IF a > b THEN a ELSE b
             A == [id \in Ids |-> larger(stat[id], IF eq(id) THEN 2 ELSE IF is_dir(id) THEN 1 ELSE 0)]
             B == [id \in Ids |-> larger(stat[id], IF eq(id) THEN 2 ELSE 0)]
  <2>1. PICK u : Marked(u, Ids, A, B)
    BY MarksExist
  <2>2. ASSUME NEW id \in Ids
        PROVE  u[id] = IF stat[id] > upgrade(u, id) THEN stat[id] ELSE upgrade(u, id)
    <3>1. u[id] = IF \A c \in Childs(id) : u[c] # 0 THEN A[id] ELSE B[id]
      <4> HIDE DEF A, B
      <4> QED BY <2>1 DEF Marked
    <3>2. A[id] = larger(stat[id], IF eq(id) THEN 2 ELSE IF is_dir(id) THEN 1 ELSE 0)
          /\ B[id] = larger(stat[id], IF eq(id) THEN 2 ELSE 0)
      OBVIOUS
    <3> HIDE DEF A, B, eq
    <3> QED BY <3>1, <3>2
  <2>3. u = [id \in Ids |-> u[id]]
    <3> HIDE DEF A, B
    <3> QED BY <2>1 DEF Marked
  <2>4. Rec(u)
    <3> HIDE DEF upgrade
    <3> QED BY <2>2, <2>3
  <2> QED BY <2>4
<1>3. Rec(up)
  <2> HIDE DEF Rec
  <2> QED BY <1>2
<1> HIDE DEF up
<1>4. ASSUME NEW id \in Ids
      PROVE  /\ up[id] \in 0..2
             /\ up[id] = IF stat[id] > upgrade(up, id) THEN stat[id] ELSE upgrade(up, id)
  <2>1. up[id] = IF stat[id] > upgrade(up, id) THEN stat[id] ELSE upgrade(up, id)
    BY <1>3
  <2>2. upgrade(up, id) \in 0..2 /\ stat[id] \in 0..2
    OBVIOUS
  <2> HIDE DEF upgrade
  <2> QED BY <2>1, <2>2
<1>5. up \in [Ids -> 0..2]
  <2>1. DOMAIN up = Ids /\ up = [id \in Ids |-> up[id]]
    BY <1>3
  <2> QED BY <1>4, <2>1
<1>6. \A id \in Ids : upgrade(up, id) = Upgrade(up, id, root, other)
  BY Zenon DEF Upgrade, Eq
<1>7. \A id \in Ids : called(id) <=> Called(id, root, other)
  BY Zenon DEF Called, Eq, Within
<1> HIDE DEF called, upgrade
<1>8. Ups(up, stat, root, other)
  BY <1>4, <1>5, <1>6 DEF Ups
<1> QED BY <1>1, <1>7, <1>8

(* find_diffs, one pair of roots after the other.                          *)
Compared(f, n) ==
  f = [k \in 0..n |-> IF k = 0 THEN treediff_stat
                      ELSE Upgraded(f[k - 1], Roots[Pairs[k][1]], Roots[Pairs[k][2]])]

(* find_diffs compares any number of pairs of roots.                       *)
LEMMA ComparedExist == \A n \in Nat : \E f : Compared(f, n)
<1> DEFINE bad == {n \in Nat : ~\E f : Compared(f, n)}
<1>1. ASSUME bad # {} PROVE FALSE
  <2>1. bad \subseteq Nat
    OBVIOUS
  <2>2. PICK n \in bad : \A m \in bad : n <= m
    <3> HIDE DEF bad
    <3> QED BY <1>1, <2>1, LeastNumber
  <2>3. CASE n = 0
    <3> DEFINE f == [k \in 0..0 |-> treediff_stat]
    <3>1. \A k \in 0..0 : k = 0
      OBVIOUS
    <3>2. Compared(f, 0)
      BY <3>1 DEF Compared
    <3> QED BY <2>2, <2>3, <3>2
  <2>4. CASE n # 0
    <3>1. n \in Nat /\ n - 1 \in Nat
      BY <2>4
    <3>2. n - 1 \notin bad
      <4>1. ~(n <= n - 1)
        BY <3>1
      <4> QED BY <2>2, <4>1
    <3>3. PICK f : Compared(f, n - 1)
      BY <3>1, <3>2
    <3> DEFINE after(x, k) == Upgraded(x, Roots[Pairs[k][1]], Roots[Pairs[k][2]])
               g == [k \in 0..n |-> IF k = n THEN after(f[n - 1], n) ELSE f[k]]
    <3>4. ASSUME NEW k \in 0..n PROVE g[k] = IF k = 0 THEN treediff_stat ELSE after(g[k - 1], k)
      <4>1. CASE k = n
        <5>1. k # 0 /\ n - 1 \in 0..n /\ n - 1 # n
          BY <2>4, <3>1, <4>1
        <5>2. g[n - 1] = f[n - 1] /\ g[k] = after(f[n - 1], n)
          BY <4>1, <5>1
        <5> HIDE DEF g, after
        <5> QED BY <4>1, <5>1, <5>2
      <4>2. CASE k # n
        <5>1. k \in 0..(n - 1) /\ (k # 0 => k - 1 \in 0..n /\ k - 1 # n)
          BY <3>1, <4>2
        <5>2. f[k] = IF k = 0 THEN treediff_stat ELSE after(f[k - 1], k)
          BY <3>3, <5>1 DEF Compared
        <5>3. g[k] = f[k] /\ (k # 0 => g[k - 1] = f[k - 1])
          BY <4>2, <5>1
        <5> HIDE DEF g, after
        <5> QED BY <5>2, <5>3
      <4> QED BY <4>1, <4>2
    <3>5. g = [k \in 0..n |-> g[k]]
      OBVIOUS
    <3>6. Compared(g, n)
      <4> HIDE DEF g
      <4> QED BY <3>4, <3>5 DEF Compared
    <3> QED BY <2>2, <3>6
  <2> QED BY <2>3, <2>4
<1> QED BY <1>1

(* There are finitely many pairs of roots.                                 *)
LEMMA PairsLength == Len(Pairs) \in Nat
<1> DEFINE S == {p \in (DOMAIN Roots) \X (DOMAIN Roots) : p[1] # p[2]}
           n == Cardinality(S)
<1>1. IsFiniteSet(DOMAIN Roots)
  <2>1. DOMAIN Roots = 1..Len(Roots) /\ Len(Roots) \in Nat
    BY ConstantsAssumption, LenProperties
  <2>2. 1 \in Int /\ Len(Roots) \in Int
    BY <2>1
  <2> QED BY <2>1, <2>2, FS_Interval
<1>2. n \in Nat
  <2>1. S \subseteq (DOMAIN Roots) \X (DOMAIN Roots)
    OBVIOUS
  <2> QED BY <1>1, <2>1, FS_Product, FS_Subset, FS_CardinalityType
<1> DEFINE before(p, q) == p[1] < q[1] \/ (p[1] = q[1] /\ p[2] < q[2])
           place(k) == CHOOSE x \in S : Cardinality({y \in S : before(y, x)}) = k - 1
<1>3. Pairs = [k \in 1..n |-> place(k)]
  BY Zenon DEF Pairs, SortedBy
<1> HIDE DEF n, place
<1> QED BY <1>2, <1>3

(* The marks after each pair of roots.                                     *)
DiffMarks(marks) ==
  /\ \A k \in 0..Len(Pairs) : marks[k] \in [Ids -> 0..2]
  /\ marks[0] = treediff_stat
  /\ \A k \in 1..Len(Pairs) :
       marks[k] = Upgraded(marks[k - 1], Roots[Pairs[k][1]], Roots[Pairs[k][2]])
  /\ FindDiffs = marks[Len(Pairs)]

(* find_diffs leaves marks, and goes through the pairs for it.             *)
LEMMA FindDiffsMeans ==
  ASSUME treediff_stat \in [Ids -> 0..2]
  PROVE  \E marks : DiffMarks(marks)
<1> DEFINE N == Len(Pairs)
           Rec(f) == f = [k \in 0..N |-> IF k = 0 THEN treediff_stat
                                         ELSE Upgraded(f[k - 1], Roots[Pairs[k][1]], Roots[Pairs[k][2]])]
           marks == CHOOSE f : Rec(f)
<1>1. FindDiffs = marks[N]
  BY Zenon DEF FindDiffs
<1>2. Rec(marks) /\ N \in Nat
  <2>1. N \in Nat
    BY PairsLength
  <2>2. \E f : Rec(f)
    BY <2>1, ComparedExist DEF Compared
  <2> HIDE DEF Rec
  <2> QED BY <2>1, <2>2
<1> HIDE DEF marks
<1>3. marks[0] = treediff_stat
  <2>1. 0 \in 0..N
    BY <1>2
  <2> QED BY <1>2, <2>1
<1>4. \A k \in 1..N : marks[k] = Upgraded(marks[k - 1], Roots[Pairs[k][1]], Roots[Pairs[k][2]])
  <2>1. \A k \in 1..N : k \in 0..N /\ k # 0
    BY <1>2
  <2> QED BY <1>2, <2>1
<1> HIDE DEF Rec
<1> DEFINE M == [Ids -> 0..2]
           bad == {k \in 0..N : marks[k] \notin M}
<1>5. ASSUME bad # {} PROVE FALSE
  <2>1. bad \subseteq Nat
    OBVIOUS
  <2>2. PICK k \in bad : \A j \in bad : k <= j
    <3> HIDE DEF bad
    <3> QED BY <1>5, <2>1, LeastNumber
  <2>3. k \in 0..N /\ marks[k] \notin M /\ k \in Nat
    BY <1>2
  <2>4. k \in 1..N /\ k - 1 \in 0..N /\ ~(k <= k - 1)
    BY <1>2, <1>3, <2>3
  <2>5. marks[k - 1] \in M
    BY <2>2, <2>4
  <2>6. marks[k] = Upgraded(marks[k - 1], Roots[Pairs[k][1]], Roots[Pairs[k][2]])
    BY <1>4, <2>4
  <2> DEFINE root == Roots[Pairs[k][1]]
             other == Roots[Pairs[k][2]]
             stat == marks[k - 1]
  <2>7. Upgraded(stat, root, other) \in M
    <3> HIDE DEF root, other, stat
    <3>1. stat \in [Ids -> 0..2]
      BY <2>5 DEF stat
    <3>2. PICK up : /\ Ups(up, stat, root, other)
                    /\ Upgraded(stat, root, other) =
                         [id \in Ids |-> IF Called(id, root, other) THEN up[id] ELSE stat[id]]
      BY <3>1, UpgradedMeans
    <3>3. up \in [Ids -> 0..2]
      BY <3>2 DEF Ups
    <3> QED BY <3>1, <3>2, <3>3
  <2> QED BY <2>3, <2>6, <2>7
<1> QED BY <1>1, <1>3, <1>4, <1>5 DEF DiffMarks

(* print_treediff keeps the invariant.                                     *)
LEMMA PrintTreediffKeeps == IInv /\ PrintTreediff => IInv'
<1> SUFFICES ASSUME IInv, PrintTreediff PROVE IInv'
  OBVIOUS
<1>1. /\ pc = "print" /\ pc' \in {"done", "panic"}
      /\ state' = state /\ content' = content /\ file_hash' = file_hash
      /\ dir_hash' = dir_hash /\ dir_size' = dir_size
      /\ file_shadowed' = file_shadowed /\ dir_shadowed' = dir_shadowed
      /\ hashes' = hashes
      /\ pc' = "panic" => RootMissing
      /\ treediff_stat' = treediff_stat \/ treediff_stat' = FindDiffs
  BY DEF PrintTreediff
<1>2. treediff_stat \in [Ids -> 0..2]
  BY DEF IInv, OnlyKnownPanics, TypeOK
<1>3. treediff_stat' \in [Ids -> 0..2]
  <2>1. Len(Pairs) \in 0..Len(Pairs)
    BY PairsLength
  <2>2. FindDiffs \in [Ids -> 0..2]
    BY <1>2, <2>1, FindDiffsMeans DEF DiffMarks
  <2> QED BY <1>1, <1>2, <2>2
<1> QED BY <1>1, <1>3, OutputKeeps
-----------------------------------------------------------------------------
(* What is printed.                                                        *)

(* So does a step that changes nothing.                                    *)
LEMMA StutterKeeps == IInv /\ UNCHANGED vars => IInv'
<1> SUFFICES ASSUME IInv, UNCHANGED vars PROVE IInv'
  OBVIOUS
<1>1. /\ state' = state /\ content' = content /\ file_hash' = file_hash
      /\ dir_hash' = dir_hash /\ dir_size' = dir_size /\ treediff_stat' = treediff_stat
      /\ file_shadowed' = file_shadowed /\ dir_shadowed' = dir_shadowed
      /\ hashes' = hashes /\ sorted' = sorted /\ pc' = pc
  BY DEF vars, entry
<1>2. PassesInv' /\ GroupsInv' /\ MeaningInv'
  BY <1>1, HashesKept DEF IInv
<1>3. ShadowInv'
  BY <1>1, StopsKept DEF IInv, ShadowInv
<1>4. SortedInv'
  BY <1>1, SizeKept DEF IInv, SortedInv
<1>5. TypeOK'
  BY <1>1 DEF IInv, OnlyKnownPanics, TypeOK
<1>6. OnlyKnownPanics'
  BY <1>1, <1>5, PanicKept DEF IInv
<1> QED BY <1>2, <1>3, <1>4, <1>6 DEF IInv

(* Groups that are listed are of duplicates.                               *)
LEMMA GroupsListed ==
  ASSUME NEW rule, IInv, PrintGroups(rule)
  PROVE  GroupsAreDuplicates'
<1>1. /\ pc = "print" /\ state' = state /\ content' = content /\ file_hash' = file_hash
      /\ dir_size' = dir_size
  BY DEF PrintGroups, entry
<1> DEFINE K == {k \in DOMAIN sorted : Shown(sorted[k], rule) # <<>>}
           groups == [k \in K |-> [size |-> sorted[k].size, entries |-> Shown(sorted[k], rule)]]
<1>2. printed' = [mode |-> "groups", rule |-> rule, groups |-> groups]
  BY DEF PrintGroups
<1>3. \A e, f : Same(e, f)' <=> Same(e, f)
  BY <1>1, TreeKept, SizeKept DEF Same
<1>4. ASSUME NEW k \in DOMAIN groups, NEW q, q = groups[k].entries
      PROVE  /\ Cardinality({e[2] : e \in ToSet(q)}) = Len(q)
             /\ Cardinality(ToSet(q)) > 1
             /\ \A e, f \in ToSet(q) : Has(e[2], e[1])' /\ Same(e, f)'
  <2>1. k \in DOMAIN sorted /\ Shown(sorted[k], rule) # <<>> /\ q = Shown(sorted[k], rule)
    BY <1>4
  <2>2. PICK W \in SUBSET hashes[sorted[k].hash] :
           /\ Shown(sorted[k], rule) = SortedEntries(W) /\ Cardinality(W) > 1
           /\ W \subseteq AllEntries
           /\ \A e \in W : Has(e[2], e[1])
    BY <1>1, <2>1, ShownOf
  <2>3. ToSet(q) = W /\ Len(q) = Cardinality(W) /\ IsFiniteSet(W)
    BY <2>1, <2>2, EntriesSorted
  <2>4. sorted[k].hash \in DOMAIN hashes
    BY <1>1, <2>1 DEF IInv, SortedInv
  <2>5. ASSUME NEW e \in W, NEW f \in W PROVE Has(e[2], e[1])' /\ Same(e, f)'
    <3>1. Has(e[2], e[1])' <=> Has(e[2], e[1])
      BY <1>1, TreeKept
    <3>2. Same(e, f)
      BY <1>1, <2>4, SameSize DEF IInv, OnlyKnownPanics
    <3> QED BY <1>3, <2>2, <3>1, <3>2
  <2>6. Cardinality({e[2] : e \in W}) = Cardinality(W)
    <3> DEFINE ids == {e[2] : e \in W}
               m == [e \in W |-> e[2]]
    <3>1. ASSUME NEW e \in W, NEW f \in W, m[e] = m[f] PROVE e = f
      BY <2>4, <3>1 DEF IInv, GroupsInv
    <3>2. m \in [W -> ids] /\ \A x \in ids : \E e \in W : m[e] = x
      OBVIOUS
    <3> HIDE DEF m, ids
    <3>3. ExistsBijection(W, ids)
      BY <3>1, <3>2, MakeBijection
    <3> QED BY <2>3, <3>3, FS_Bijection DEF ids
  <2> QED BY <2>2, <2>3, <2>5, <2>6
<1>5. GroupsAreDuplicates'
  <2>1. /\ DOMAIN printed'.groups = DOMAIN groups
        /\ \A k \in DOMAIN groups : printed'.groups[k].entries = groups[k].entries
    BY <1>2
  <2> HIDE DEF groups
  <2> QED BY <1>4, <2>1 DEF GroupsAreDuplicates
<1> QED BY <1>5

(* Two elements are more than one.                                         *)
LEMMA TwoElements ==
  ASSUME NEW S, IsFiniteSet(S), NEW x \in S, NEW y \in S, x # y
  PROVE  Cardinality(S) > 1
<1>1. IsFiniteSet({x}) /\ Cardinality({x}) = 1
  BY FS_Singleton
<1>2. Cardinality({x} \cup {y}) = 2
  BY <1>1, FS_AddElement
<1>3. {x} \cup {y} \in SUBSET S
  OBVIOUS
<1>4. Cardinality({x} \cup {y}) <= Cardinality(S) /\ Cardinality(S) \in Nat
  BY <1>3, FS_Subset, FS_CardinalityType
<1> QED BY <1>2, <1>4

(* A file that has a duplicate is a duplicate to find_shadowed.            *)
LEMMA TwinsAreDups ==
  ASSUME IInv, NEW f \in Ids, NEW g \in Ids, f # g, is_file(f), is_file(g),
         file_hash[f] # NoHash, file_hash[f] = file_hash[g]
  PROVE  FileDup(f) /\ Dups(f) > 1
<1> DEFINE S == hashes[file_hash[f]]
           x == <<"File", f>>
           y == <<"File", g>>
<1>1. file_hash[f] \in DOMAIN hashes /\ x \in S /\ y \in S
  BY DEF IInv, GroupsInv
<1>2. x # y
  OBVIOUS
<1>3. Props(f) = file_hash[f] /\ Exists(f)
  BY DEF Props, Exists
<1>4. IsFiniteSet(S) /\ Dups(f) = Cardinality(S)
  BY <1>3, DupsPositive DEF IInv, OnlyKnownPanics
<1>5. Cardinality(S) > 1
  <2> HIDE DEF S, x, y
  <2> QED BY <1>1, <1>2, <1>4, TwoElements
<1>6. more_than_one_hash(file_hash[f])
  BY <1>1, <1>5 DEF more_than_one_hash, Group
<1> QED BY <1>4, <1>5, <1>6 DEF FileDup

(* What exists lies in what exists.                                        *)
LEMMA WithinExists ==
  ASSUME PassesInv, NEW f \in Ids, Exists(f), NEW a \in Ids, Within(f, a)
  PROVE  Exists(a) /\ (a # f => is_dir(a))
BY AboveExists DEF Within, Exists

(* On the way down to a file that has a duplicate the search stops.        *)
LEMMA SearchStops ==
  ASSUME IInv, NEW f \in Ids, is_file(f), FileDup(f)
  PROVE  \E a \in Ids : Within(f, a) /\ Stops(a)
<1> DEFINE A == {a \in Ids : Within(f, a) /\ (FileDup(a) \/ DirDup(a))}
<1>1. A # {} /\ A \subseteq Nat
  BY PathOf DEF Within
<1>2. PICK a \in A : \A b \in A : a <= b
  <2> HIDE DEF A
  <2> QED BY <1>1, LeastNumber
<1>3. PassesInv /\ Exists(f)
  BY DEF IInv, Exists
<1>4. ASSUME NEW x \in Ids, Under(a, x)
      PROVE  Within(f, x) /\ ~FileDup(x) /\ ~DirDup(x)
  <2>1. Within(f, x)
    BY <1>4, UnderTransitive DEF Within
  <2>2. x < a /\ x \in Nat /\ a \in Nat
    BY <1>4, UnderOrder, PathOf
  <2>3. x \notin A
    <3>1. ~(a <= x)
      BY <2>2
    <3> QED BY <1>2, <3>1
  <2> QED BY <2>1, <2>3
<1>5. ASSUME NEW x \in Below, x = a \/ Under(a, x) PROVE Exists(x)
  <2>1. x \in Ids /\ Within(f, x)
    BY <1>4, <1>5 DEF Below
  <2> QED BY <1>3, <2>1, WithinExists
<1>6. Stops(a)
  BY <1>4, <1>5 DEF Stops, Searched
<1> QED BY <1>6
(* A group of more than one entry is shown with those of its entries that  *)
(* are not shadowed, unless rule 3 is asked for, and with rule 0 with all. *)
LEMMA ShownIf ==
  ASSUME IInv, pc = "print", NEW k \in DOMAIN sorted, NEW rule \in 0..2,
         NEW e \in hashes[sorted[k].hash], rule = 0 \/ ~Shadowed(e[2], e[1]),
         Cardinality(hashes[sorted[k].hash]) > 1
  PROVE  Shown(sorted[k], rule) # <<>> /\ e \in ToSet(Shown(sorted[k], rule))
<1> DEFINE E == hashes[sorted[k].hash]
           outside == {x \in E : ~Shadowed(x[2], x[1])}
           a == Cardinality(E)
           b == Cardinality(outside)
           hide == HideShadowed(rule, b)
           W == IF hide THEN outside ELSE E
<1>1. sorted[k].hash \in DOMAIN hashes /\ ToSet(sorted[k].entries) = E
  BY DEF IInv, SortedInv
<1>2. E \subseteq AllEntries /\ \A x \in E : Has(x[2], x[1])
  BY <1>1, GroupEntry DEF IInv, OnlyKnownPanics
<1>3. Shown(sorted[k], rule) = IF a <= 1 \/ (hide /\ b <= 1) THEN <<>> ELSE SortedEntries(W)
  <2>1. {x \in ToSet(sorted[k].entries) : Has(x[2], x[1])} = E
    BY <1>1, <1>2
  <2> QED BY <2>1 DEF Shown, SortedEntries
<1>4. IsFiniteSet(outside) /\ a \in Nat /\ b \in Nat
  <2>1. IsFiniteSet(AllEntries) /\ outside \subseteq AllEntries
    BY <1>2, EntriesFinite
  <2> QED BY <1>2, <2>1, FS_Subset, FS_CardinalityType
<1>5. rule # 0 => b # 0 /\ e \in outside
  <2>1. rule # 0 => e \in outside
    OBVIOUS
  <2> HIDE DEF outside
  <2> QED BY <1>4, <2>1, FS_EmptySet
<1>6. hide => b # 0 /\ b # 1 /\ e \in outside
  <2>1. rule = 0 \/ rule = 1 \/ rule = 2
    OBVIOUS
  <2> HIDE DEF b, outside
  <2> QED BY <1>5, <2>1 DEF HideShadowed
<1>7. ~(a <= 1 \/ (hide /\ b <= 1))
  <2>1. a > 1
    OBVIOUS
  <2> HIDE DEF a, b, hide
  <2> QED BY <1>4, <1>6, <2>1
<1>8. Shown(sorted[k], rule) = SortedEntries(W)
  <2> HIDE DEF a, b, hide, W
  <2> QED BY <1>3, <1>7
<1>9. ToSet(SortedEntries(W)) = W
  <2>1. W \subseteq AllEntries
    BY <1>2
  <2> HIDE DEF W
  <2> QED BY <2>1, EntriesSorted
<1>10. e \in W
  BY <1>6
<1>11. ToSet(<<>>) = {}
  BY DEF ToSet
<1> HIDE DEF W
<1> QED BY <1>8, <1>9, <1>10, <1>11

(* At an entry where the search stops a group is shown, unless it is    *)
(* misled there.                                                           *)
LEMMA StopShown ==
  ASSUME IInv, pc = "print", NEW a \in Ids, Exists(a), Stops(a), ~Misled(a), NEW rule \in 0..2
  PROVE  \E k \in DOMAIN sorted : /\ Shown(sorted[k], rule) # <<>>
                                  /\ \E e \in ToSet(Shown(sorted[k], rule)) : e[2] = a
<1>1. ~file_shadowed[a] /\ (~FileDup(a) => ~dir_shadowed[a])
  BY DEF IInv, ShadowInv
<1>2. \E h \in DOMAIN hashes : \E e \in hashes[h] :
        e[2] = a /\ ~Shadowed(e[2], e[1]) /\ more_than_one_hash(h)
  <2>1. CASE FileDup(a)
    <3>1. file_hash[a] # NoHash /\ more_than_one_hash(file_hash[a])
      BY <2>1 DEF FileDup
    <3>2. is_file(a)
      BY <2>1 DEF Misled
    <3>3. file_hash[a] \in DOMAIN hashes /\ <<"File", a>> \in hashes[file_hash[a]]
      BY <3>1, <3>2 DEF IInv, GroupsInv
    <3>4. ~Shadowed(a, "File")
      BY <1>1 DEF Shadowed
    <3> DEFINE e == <<"File", a>>
    <3>5. e[1] = "File" /\ e[2] = a
      OBVIOUS
    <3> HIDE DEF e
    <3> QED BY <3>1, <3>3, <3>4, <3>5 DEF e
  <2>2. CASE ~FileDup(a)
    <3>1. dir_hash[a] # NoHash /\ more_than_one_hash(dir_hash[a])
      BY <2>2 DEF Stops, DirDup
    <3>2. dir_hash[a] \in DOMAIN hashes
      BY <3>1 DEF IInv, GroupsInv
    <3>3. PICK e \in hashes[dir_hash[a]] : e[2] = a
      BY <3>1 DEF IInv, GroupsInv
    <3>4. ~Shadowed(e[2], e[1])
      BY <1>1, <2>2, <3>3 DEF Shadowed
    <3> QED BY <3>1, <3>2, <3>3, <3>4
  <2> QED BY <2>1, <2>2
<1>3. PICK h \in DOMAIN hashes : \E e \in hashes[h] :
        e[2] = a /\ ~Shadowed(e[2], e[1]) /\ more_than_one_hash(h)
  BY <1>2
<1>4. PICK e \in hashes[h] : e[2] = a /\ ~Shadowed(e[2], e[1]) /\ more_than_one_hash(h)
  BY <1>3
<1>5. PICK k \in DOMAIN sorted : sorted[k].hash = h
  BY DEF IInv, SortedInv
<1>6. Cardinality(hashes[h]) > 1
  BY <1>4 DEF more_than_one_hash, Group
<1> QED BY <1>4, <1>5, <1>6, ShownIf

(* Printing does not change where find_shadowed is misled.                 *)
LEMMA MisledKept ==
  ASSUME state' = state, content' = content, file_hash' = file_hash, dir_hash' = dir_hash,
         hashes' = hashes
  PROVE  \A d \in Ids : Misled(d)' <=> Misled(d)
<1>1. \A d \in Ids : Stops(d)' <=> Stops(d)
  BY StopsKept
<1>2. \A d \in Ids : (FileDup(d)' <=> FileDup(d)) /\ (is_file(d)' <=> is_file(d))
  BY DEF FileDup, more_than_one_hash, Group, is_file
<1> QED BY <1>1, <1>2 DEF Misled

(* No file is left out of the groups.                                      *)
LEMMA GroupsVisible ==
  ASSUME NEW rule \in ShadowRules, IInv, PrintGroups(rule)
  PROVE  DuplicatesVisible'
<1>1. /\ pc = "print" /\ state' = state /\ content' = content /\ file_hash' = file_hash
  BY DEF PrintGroups, entry
<1> DEFINE K == {k \in DOMAIN sorted : Shown(sorted[k], rule) # <<>>}
           groups == [k \in K |-> [size |-> sorted[k].size, entries |-> Shown(sorted[k], rule)]]
<1>2. printed' = [mode |-> "groups", rule |-> rule, groups |-> groups]
  BY DEF PrintGroups
<1>3. printed'.mode = "groups" /\ printed'.rule = rule /\ printed'.groups = groups
  BY <1>2
<1>4. Listed' = {e[2] : e \in UNION {ToSet(groups[k].entries) : k \in DOMAIN groups}}
  <2> HIDE DEF groups
  <2> QED BY <1>3 DEF Listed
<1>5. ASSUME rule < 3, NEW f \in Ids, NEW g \in Ids, f # g, is_file(f)', is_file(g)',
             file_hash'[f] # NoHash, file_hash'[f] = file_hash'[g],
             rule # 0 => ~\E d \in Ids : Under(f, d) /\ Misled(d)
      PROVE  f \in Listed' \/ \E id \in Listed' : Under(f, id)
  <2>1. is_file(f) /\ is_file(g) /\ file_hash[f] # NoHash /\ file_hash[f] = file_hash[g]
    BY <1>1, <1>5, TreeKept
  <2>2. rule \in 0..2
    BY <1>5, ConstantsAssumption
  <2>3. \E a \in Ids : /\ Within(f, a)
                      /\ \E k \in DOMAIN sorted :
                           /\ Shown(sorted[k], rule) # <<>>
                           /\ \E e \in ToSet(Shown(sorted[k], rule)) : e[2] = a
    <3>1. CASE rule = 0
      <4> DEFINE e == <<"File", f>>
      <4>1. e[2] = f /\ file_hash[f] \in DOMAIN hashes /\ e \in hashes[file_hash[f]]
        BY <2>1 DEF IInv, GroupsInv
      <4>2. PICK k \in DOMAIN sorted : sorted[k].hash = file_hash[f]
        BY <1>1, <4>1 DEF IInv, SortedInv
      <4>3. Cardinality(hashes[sorted[k].hash]) > 1
        BY <1>5, <2>1, <4>1, <4>2, TwinsAreDups DEF FileDup, more_than_one_hash, Group
      <4> HIDE DEF e
      <4>4. Shown(sorted[k], rule) # <<>> /\ e \in ToSet(Shown(sorted[k], rule))
        BY <1>1, <2>2, <3>1, <4>1, <4>2, <4>3, ShownIf
      <4>5. Within(f, f)
        BY DEF Within
      <4> QED BY <4>1, <4>4, <4>5
    <3>2. CASE rule # 0
      <4>1. PICK a \in Ids : Within(f, a) /\ Stops(a)
        BY <1>5, <2>1, TwinsAreDups, SearchStops
      <4>2. Exists(a)
        BY <2>1, <4>1, WithinExists DEF IInv, Exists
      <4>3. ~Misled(a)
        BY <1>5, <2>1, <3>2, <4>1 DEF Within, Misled
      <4> QED BY <1>1, <2>2, <4>1, <4>2, <4>3, StopShown
    <3> QED BY <3>1, <3>2
  <2>4. PICK a \in Ids : /\ Within(f, a)
                        /\ \E k \in DOMAIN sorted :
                             /\ Shown(sorted[k], rule) # <<>>
                             /\ \E e \in ToSet(Shown(sorted[k], rule)) : e[2] = a
    BY <2>3
  <2>5. PICK k \in DOMAIN sorted : /\ Shown(sorted[k], rule) # <<>>
                                   /\ \E e \in ToSet(Shown(sorted[k], rule)) : e[2] = a
    BY <2>4
  <2>6. PICK e \in ToSet(Shown(sorted[k], rule)) : e[2] = a
    BY <2>5
  <2>7. k \in DOMAIN groups /\ groups[k].entries = Shown(sorted[k], rule)
    BY <2>5
  <2>8. a \in Listed'
    <3> HIDE DEF groups
    <3> QED BY <1>4, <2>6, <2>7
  <2> QED BY <2>4, <2>8 DEF Within
<1> HIDE DEF groups
<1>6. \A f, g \in Ids : Under(f, g)' <=> Under(f, g)
  BY DEF Under
<1>7. \A d \in Ids : Misled(d)' <=> Misled(d)
  BY MisledKept DEF PrintGroups, entry
<1> QED BY <1>3, <1>5, <1>6, <1>7 DEF DuplicatesVisible

(* Nor of the tree.                                                        *)
LEMMA TreeVisible ==
  ASSUME IInv, PrintTree
  PROVE  DuplicatesVisible'
<1>1. /\ pc = "print" /\ state' = state /\ content' = content /\ file_hash' = file_hash
  BY DEF PrintTree, entry
<1>2. CASE RootMissing
  <2>1. pc' = "panic"
    BY <1>2 DEF PrintTree
  <2> QED BY <2>1 DEF DuplicatesVisible
<1>3. CASE ~RootMissing
  <2>1. printed' = [mode |-> "tree", listing |-> TreeListing]
    BY <1>3 DEF PrintTree
  <2>2. printed'.mode = "tree" /\ printed'.listing = TreeListing
    BY <2>1
  <2>3. Listed' = {line.id : line \in {l \in TreeListing : l.dups # {}}}
    BY <2>2 DEF Listed
  <2>4. ASSUME NEW f \in Ids, NEW g \in Ids, f # g, is_file(f)', is_file(g)',
               file_hash'[f] # NoHash, file_hash'[f] = file_hash'[g],
               NEW r \in ToSet(Roots), Under(f, r)
        PROVE  f \in Listed' \/ \E id \in Listed' : Under(f, id)
    <3>1. is_file(f) /\ is_file(g) /\ file_hash[f] # NoHash /\ file_hash[f] = file_hash[g]
      BY <1>1, <2>4, TreeKept
    <3>2. TypeOK /\ PassesInv /\ GroupsInv /\ Dups(f) > 1 /\ Exists(f) /\ r \in Ids
      <4>1. r \in Ids
        BY ConstantsAssumption DEF ToSet, Below
      <4> QED BY <2>4, <3>1, <4>1, TwinsAreDups DEF IInv, OnlyKnownPanics, Exists
    <3> DEFINE A == {a \in Ids : Within(f, a) /\ Under(a, r) /\ Dups(a) > 1}
    <3>3. PICK a \in A : \A b \in A : a <= b
      <4>1. f \in A /\ A \subseteq Nat
        BY <2>4, <3>2, PathOf DEF Within
      <4> HIDE DEF A
      <4> QED BY <4>1, LeastNumber
    <3>4. ASSUME NEW x \in Ids, Under(a, x), Under(x, r)
          PROVE  Exists(x) /\ Dups(x) <= 1
      <4>1. Within(f, x)
        BY <3>4, UnderTransitive DEF Within
      <4>2. x < a /\ x \in Nat /\ a \in Nat
        BY <3>4, UnderOrder, PathOf
      <4>3. x \notin A
        <5>1. ~(a <= x)
          BY <4>2
        <5> QED BY <3>3, <5>1
      <4>4. Exists(x)
        BY <3>2, <4>1, WithinExists
      <4>5. Dups(x) \in Nat
        <5>1. CASE Props(x) = NoHash
          BY <5>1 DEF Dups
        <5>2. CASE Props(x) # NoHash
          BY <3>2, <4>4, <5>2, DupsPositive
        <5> QED BY <5>1, <5>2
      <4> QED BY <3>4, <4>1, <4>3, <4>4, <4>5
    <3>5. Exists(a) /\ a \in InTree(r)
      BY <3>2, <3>4, WithinExists DEF InTree
    <3>6. Exists(r)
      BY <2>4, <3>2, AboveExists DEF Exists
    <3>7. [id |-> a, dups |-> FirstFour(Props(a))] \in TreeListing
      <4>1. a \in UNION {InTree(x) : x \in {x \in ToSet(Roots) : Exists(x)}} /\ Dups(a) > 1
        BY <3>5, <3>6
      <4> QED BY <4>1 DEF TreeListing
    <3>8. FirstFour(Props(a)) # {}
      <4> DEFINE h == Props(a)
                 y == CHOOSE y \in ToSet(sorted) : y.hash = h
                 s == y.entries
                 m == IF Len(s) < 4 THEN Len(s) ELSE 4
      <4>1. h # NoHash
        BY DEF Dups
      <4>2. h \in DOMAIN hashes /\ \E e \in hashes[h] : e[2] = a
        BY <3>2, <3>5, <4>1, DupsPositive
      <4>3. \E k \in DOMAIN sorted : sorted[k].hash = h
        BY <1>1, <4>2 DEF IInv, SortedInv
      <4>4. y \in ToSet(sorted) /\ y.hash = h
        BY <4>3 DEF ToSet
      <4> HIDE DEF y, h
      <4>5. PICK k \in DOMAIN sorted : sorted[k] = y
        BY <4>4 DEF ToSet
      <4>6. s \in Seq(AllEntries) /\ ToSet(s) = hashes[h]
        BY <1>1, <4>4, <4>5 DEF IInv, SortedInv, AllEntries
      <4> HIDE DEF s
      <4>7. Len(s) \in Nat \ {0}
        <5>1. s # <<>>
          BY <4>2, <4>6 DEF ToSet
        <5> QED BY <4>6, <5>1, EmptySeq
      <4>8. m \in Int /\ 1 \in Int /\ 1 <= m /\ \A i \in 1..m : s[i] \in AllEntries
        <5>1. m \in 1..Len(s)
          BY <4>7
        <5>2. \A i \in 1..m : i \in 1..Len(s)
          BY <4>7, <5>1
        <5> HIDE DEF m
        <5> QED BY <4>6, <4>7, <5>1, <5>2, ElementOfSeq
      <4> HIDE DEF m
      <4>9. SubSeq(s, 1, m) \in Seq(AllEntries) /\ Len(SubSeq(s, 1, m)) = (m - 1) + 1
        BY <4>8, SubSeqProperties
      <4> DEFINE t == SubSeq(s, 1, m)
      <4>10. ToSet(t) # {}
        <5> HIDE DEF t
        <5>1. 1 \in DOMAIN t
          BY <4>8, <4>9, LenProperties DEF t
        <5> QED BY <5>1 DEF ToSet
      <4>11. FirstFour(h) = ToSet(t)
        BY DEF FirstFour, t, m, s, y
      <4> QED BY <4>10, <4>11 DEF h
    <3>9. a \in Listed'
      <4> DEFINE l == [id |-> a, dups |-> FirstFour(Props(a))]
      <4>1. l \in TreeListing /\ l.id = a /\ l.dups # {}
        BY <3>7, <3>8
      <4> HIDE DEF l
      <4> QED BY <2>3, <4>1
    <3> QED BY <3>9 DEF Within
  <2>5. \A f, g \in Ids : Under(f, g)' <=> Under(f, g)
    BY DEF Under
  <2> QED BY <2>2, <2>4, <2>5 DEF DuplicatesVisible
<1> QED BY <1>2, <1>3

-----------------------------------------------------------------------------
(* The differences of the roots.                                           *)

(* The path of an entry is that of one above it and the rest.              *)
LEMMA PathSplit ==
  ASSUME NEW f \in Ids, NEW g \in Ids, Within(f, g)
  PROVE  Path[f] = Path[g] \o Rel(f, g)
<1> DEFINE m == Len(Path[g])
           n == Len(Path[f])
<1>1. m \in Nat /\ n \in Nat /\ Path[f] \in Seq(STRING)
  BY PathOf
<1>2. m <= n /\ Path[g] = Prefix(Path[f], m)
  BY <1>1, UnderMeans, PathOf, PrefixEnds DEF Within
<1>3. 1 \in 1..(n + 1) /\ m \in (1 - 1)..n /\ n \in m..n
  BY <1>1, <1>2
<1>4. SubSeq(Path[f], 1, m) \o SubSeq(Path[f], m + 1, n) = SubSeq(Path[f], 1, n)
  BY <1>1, <1>3, ConcatAdjacentSubSeq
<1>5. SubSeq(Path[f], 1, n) = Path[f]
  BY <1>1, SubSeqFull
<1> QED BY <1>2, <1>4, <1>5 DEF Prefix, Rel

(* So is the part of it below another one.                                 *)
LEMMA RelSplit ==
  ASSUME NEW f \in Ids, NEW g \in Ids, NEW r \in Ids, Within(f, g), Within(g, r)
  PROVE  Rel(f, r) = Rel(g, r) \o Rel(f, g)
<1>1. Within(f, r)
  BY UnderTransitive DEF Within
<1> DEFINE s == Rel(g, r)
           t == Rel(f, g)
           u == Rel(f, r)
           p == Path[r]
<1>2. s \in Seq(STRING) /\ t \in Seq(STRING) /\ u \in Seq(STRING) /\ p \in Seq(STRING)
  BY RelSeq, PathOf
<1>3. Path[f] = p \o u /\ Path[f] = Path[g] \o t /\ Path[g] = p \o s
  BY <1>1, PathSplit
<1> HIDE DEF s, t, u, p
<1>4. p \o u = p \o (s \o t) /\ s \o t \in Seq(STRING)
  BY <1>2, <1>3, ConcatAssociative, ConcatProperties
<1>5. \A S : \A a, b, c \in Seq(S) : a \o b = a \o c => b = c
  BY ConcatSimplifications
<1>6. u = s \o t
  BY <1>2, <1>4, <1>5
<1> QED BY <1>6 DEF s, t, u

(* Of two entries above a third, one is above the other.                   *)
LEMMA OneAbove ==
  ASSUME NEW x \in Ids, NEW a \in Ids, NEW b \in Ids, Within(x, a), Within(x, b)
  PROVE  Within(a, b) \/ Under(b, a)
<1> DEFINE l == Len(Path[a])
           m == Len(Path[b])
           n == Len(Path[x])
<1>1. l \in Nat /\ m \in Nat /\ n \in Nat /\ Path[x] \in Seq(STRING)
  BY PathOf
<1>2. l <= n /\ m <= n /\ Path[a] = Prefix(Path[x], l) /\ Path[b] = Prefix(Path[x], m)
  BY <1>1, UnderMeans, PathOf, PrefixEnds DEF Within
<1>3. l \in 0..n /\ m \in 0..n
  BY <1>1, <1>2
<1>4. CASE l = m
  BY <1>2, <1>4, PathsAssumption DEF Within
<1>5. CASE l < m
  <2>1. l \in 0..m
    BY <1>1, <1>5
  <2>2. Path[a] = Prefix(Path[b], l)
    BY <1>1, <1>2, <1>3, <2>1, PrefixOfPrefix
  <2> QED BY <1>5, <2>2, UnderMeans
<1>6. CASE m < l
  <2>1. m \in 0..l
    BY <1>1, <1>6
  <2>2. Path[b] = Prefix(Path[a], m)
    BY <1>1, <1>2, <1>3, <2>1, PrefixOfPrefix
  <2> QED BY <1>6, <2>2, UnderMeans DEF Within
<1> QED BY <1>1, <1>4, <1>5, <1>6

(* The roots are entries.                                                  *)
LEMMA RootsInIds == ToSet(Roots) \subseteq Ids /\ DOMAIN Roots = 1..Len(Roots) /\ Len(Roots) \in Nat
<1>1. Roots \in Seq(Below)
  BY ConstantsAssumption
<1>2. \A k \in 1..Len(Roots) : Roots[k] \in Below
  BY <1>1, ElementOfSeq
<1> QED BY <1>1, <1>2, LenProperties DEF ToSet, Below

(* An entry lies in one root at most.                                      *)
LEMMA OneRoot ==
  ASSUME RootsApart, NEW r \in ToSet(Roots), NEW x \in Ids, Within(x, r)
  PROVE  RootOf(x) = r /\ \A o \in ToSet(Roots) : Within(x, o) => o = r
<1>1. ASSUME NEW o \in ToSet(Roots), Within(x, o) PROVE o = r
  <2>1. o \in Ids /\ r \in Ids
    BY RootsInIds
  <2>2. Within(o, r) \/ Under(r, o)
    BY <1>1, <2>1, OneAbove
  <2>3. PICK j \in DOMAIN Roots : Roots[j] = r
    BY DEF ToSet
  <2>4. PICK k \in DOMAIN Roots : Roots[k] = o
    BY DEF ToSet
  <2> QED BY <2>2, <2>3, <2>4 DEF RootsApart, Within
<1>2. RootOf(x) = CHOOSE o \in ToSet(Roots) : Within(x, o)
  BY DEF RootOf, Within
<1> QED BY <1>1, <1>2

(* The roots of a pair.                                                    *)
RootAt(k) == Roots[Pairs[k][1]]
OtherAt(k) == Roots[Pairs[k][2]]

(* find_diffs compares every root with every other one.                    *)
LEMMA PairsMean ==
  ASSUME RootsApart
  PROVE  /\ \A k \in 1..Len(Pairs) : /\ RootAt(k) \in ToSet(Roots)
                                     /\ OtherAt(k) \in ToSet(Roots) \ {RootAt(k)}
         /\ \A r \in ToSet(Roots) : \A o \in ToSet(Roots) \ {r} :
              \E k \in 1..Len(Pairs) : RootAt(k) = r /\ OtherAt(k) = o
<1> DEFINE D == DOMAIN Roots
           S == {p \in D \X D : p[1] # p[2]}
           before(p, q) == p[1] < q[1] \/ (p[1] = q[1] /\ p[2] < q[2])
           R == {x \in S \X S : before(x[1], x[2])}
<1>1. D = 1..Len(Roots) /\ D \subseteq Nat
  BY RootsInIds
<1>2. IsFiniteSet(S)
  <2>1. IsFiniteSet(D)
    <3>1. 1 \in Int /\ Len(Roots) \in Int
      BY RootsInIds
    <3> QED BY <1>1, <3>1, FS_Interval
  <2>2. S \subseteq D \X D
    OBVIOUS
  <2> HIDE DEF S, D
  <2> QED BY <2>1, <2>2, FS_Product, FS_Subset
<1>3. \A p \in S : p[1] \in D /\ p[2] \in D /\ p[1] # p[2] /\ p = <<p[1], p[2]>>
  OBVIOUS
<1>4. \A i, j \in D : i # j => <<i, j>> \in S
  OBVIOUS
<1>5. \A p, q \in S : <<p, q>> \in R <=> before(p, q)
  OBVIOUS
<1>6. StrictOrder(S, R)
  <2> HIDE DEF S, R, D
  <2>1. \A p \in S : p[1] \in Nat /\ p[2] \in Nat
    BY <1>1, <1>3
  <2>2. \A p \in S : <<p, p>> \notin R
    BY <1>5, <2>1
  <2>3. ASSUME NEW p \in S, NEW q \in S, p # q PROVE <<p, q>> \in R \/ <<q, p>> \in R
    <3>1. p[1] # q[1] \/ p[2] # q[2]
      BY <1>3, <2>3
    <3> QED BY <1>5, <2>1, <3>1
  <2>4. \A p, q, s \in S : <<p, q>> \in R /\ <<q, s>> \in R => <<p, s>> \in R
    BY <1>5, <2>1
  <2> QED BY <2>2, <2>3, <2>4 DEF StrictOrder
<1>7. Pairs = ByRank(S, R)
  <2> DEFINE P(x, k) == Cardinality({y \in S : before(y, x)}) = k - 1
             Q(x, k) == Cardinality(Before(S, R, x)) = k - 1
             chosen(k) == CHOOSE x \in S : P(x, k)
             ranked(k) == CHOOSE x \in S : Q(x, k)
  <2>1. Pairs = [k \in 1..Cardinality(S) |-> chosen(k)]
    BY Zenon DEF Pairs, SortedBy
  <2>2. ByRank(S, R) = [k \in 1..Cardinality(S) |-> ranked(k)]
    BY Zenon DEF ByRank
  <2>3. \A x \in S : {y \in S : before(y, x)} = Before(S, R, x)
    <3> HIDE DEF S, R, before
    <3> QED BY <1>5 DEF Before
  <2>4. ASSUME NEW k PROVE chosen(k) = ranked(k)
    <3>1. \A x \in S : P(x, k) <=> Q(x, k)
      BY <2>3
    <3> HIDE DEF P, Q, S
    <3> QED BY <3>1
  <2> HIDE DEF S, R, chosen, ranked
  <2> QED BY <2>1, <2>2, <2>4
<1> HIDE DEF S, R
<1>8. Pairs \in Seq(S) /\ ToSet(Pairs) = S
  BY <1>2, <1>6, <1>7, SortedRanks
<1>9. DOMAIN Pairs = 1..Len(Pairs) /\ \A k \in 1..Len(Pairs) : Pairs[k] \in S
  BY <1>8, LenProperties, ElementOfSeq
<1>10. ASSUME NEW k \in 1..Len(Pairs)
       PROVE  RootAt(k) \in ToSet(Roots) /\ OtherAt(k) \in ToSet(Roots) \ {RootAt(k)}
  <2>1. Pairs[k][1] \in D /\ Pairs[k][2] \in D /\ Pairs[k][1] # Pairs[k][2]
    BY <1>3, <1>9
  <2> QED BY <2>1 DEF RootAt, OtherAt, ToSet, RootsApart
<1>11. ASSUME NEW r \in ToSet(Roots), NEW o \in ToSet(Roots) \ {r}
       PROVE  \E k \in 1..Len(Pairs) : RootAt(k) = r /\ OtherAt(k) = o
  <2>1. PICK i \in D : Roots[i] = r
    BY DEF ToSet
  <2>2. PICK j \in D : Roots[j] = o
    BY DEF ToSet
  <2>3. <<i, j>> \in S
    BY <1>4, <2>1, <2>2
  <2>4. PICK k \in 1..Len(Pairs) : Pairs[k] = <<i, j>>
    BY <1>8, <1>9, <2>3 DEF ToSet
  <2> QED BY <2>1, <2>2, <2>4 DEF RootAt, OtherAt
<1> QED BY <1>10, <1>11

-----------------------------------------------------------------------------
(* What is the same in another root.                                       *)

(* The hashes of directories are final and mean what they hold.            *)
Hashed == PassesInv /\ DirHashMeaning /\ pc \notin {"calculate_dir_hash", "panic"}

SameFile(e, f) == is_file(e) /\ file_hash[e] # NoHash /\ is_file(f) /\ file_hash[f] = file_hash[e]

SameDir(e, f) ==
  /\ is_dir(e) /\ AllHashed(e) /\ is_dir(f) /\ AllHashed(f)
  /\ Listing(e) = Listing(f)
  /\ file_hash[e] = NoHash \/ file_hash[f] = NoHash

(* find_diff compares files or directories, where the hashes that it takes *)
(* for those of files are.                                                 *)
LEMMA SameMeans ==
  ASSUME Hashed, NEW e \in Ids, NEW f \in Ids,
         file_hash[e] # NoHash /\ file_hash[f] # NoHash => is_file(e) /\ is_file(f)
  PROVE  SameAs(e, f) <=> SameFile(e, f) \/ SameDir(e, f)
<1>1. file_hash[e] # NoHash /\ file_hash[f] # NoHash => is_file(e) /\ is_file(f)
  OBVIOUS
<1>2. \A id \in Ids : dir_hash[id] # NoHash <=> is_dir(id) /\ AllHashed(id)
  BY DEF Hashed, DirHashMeaning
<1>3. dir_hash[e] # NoHash /\ dir_hash[f] # NoHash =>
        (dir_hash[e] = dir_hash[f] <=> Listing(e) = Listing(f))
  BY DEF Hashed, DirHashMeaning
<1> QED BY <1>1, <1>2, <1>3 DEF SameAs, SameFile, SameDir

(* Another root has the same there.                                        *)
Elsewhere(id) == \E o \in ToSet(Roots) \ {RootOf(id)} : Eq(id, RootOf(id), o)

LEMMA CopiedElsewhere ==
  ASSUME NEW id \in Ids, Copied(id)
  PROVE  Elsewhere(id)
BY DEF Copied, Elsewhere, Eq, Places, SameAs

LEMMA ElsewhereMeans ==
  ASSUME Hashed, NEW id \in Ids, ~Misjudged(id)
  PROVE  Elsewhere(id) <=> Copied(id) \/ \E g \in Places(id) : SameDir(id, g)
<1>1. Places(id) \subseteq Ids
  BY DEF Places, Montage
<1>2. Elsewhere(id) <=> \E g \in Places(id) : SameAs(id, g)
  BY DEF Elsewhere, Eq, Places
<1>3. \A g \in Places(id) : SameAs(id, g) <=> SameFile(id, g) \/ SameDir(id, g)
  BY <1>1, SameMeans DEF Misjudged
<1>4. Copied(id) <=> \E g \in Places(id) : SameFile(id, g)
  BY DEF Copied, SameFile
<1> QED BY <1>2, <1>3, <1>4

(* A file in a directory lies in one that counts for it, or is it.         *)
LEMMA FileCounts ==
  ASSUME NEW id \in Ids, NEW f \in FilesUnder(id)
  PROVE  \E a \in Ids : Counts(a, id) /\ Within(f, a)
<1> DEFINE T == {a \in FilesUnder(id) : Within(f, a)}
<1>1. T \subseteq Nat /\ T # {}
  BY PathOf DEF FilesUnder, Within
<1>2. PICK a \in T : \A b \in T : a <= b
  <2> HIDE DEF T
  <2> QED BY <1>1, LeastNumber
<1>3. a \in FilesUnder(id) /\ Within(f, a) /\ a \in Ids /\ a \in Nat /\ f \in Ids
  BY <1>1 DEF FilesUnder
<1>4. ASSUME NEW b \in FilesUnder(id), Under(a, b) PROVE FALSE
  <2>1. b \in Ids /\ b \in Nat
    BY PathOf DEF FilesUnder
  <2>2. Within(f, b)
    BY <1>3, <1>4, <2>1, UnderTransitive DEF Within
  <2>3. b < a
    BY <1>3, <1>4, <2>1, UnderOrder
  <2> QED BY <1>2, <1>3, <2>1, <2>2, <2>3
<1> QED BY <1>3, <1>4 DEF Counts

(* What lies at the same place of a copy is at the same place of the root. *)
LEMMA PlaceBelow ==
  ASSUME NEW r \in Ids, NEW o \in Ids, NEW x \in Ids, Within(x, r), NEW g \in Montage(x, r, o),
         NEW a \in Ids, Within(a, x), NEW b \in Ids, Within(b, g), Rel(b, g) = Rel(a, x),
         state[b] # "none"
  PROVE  b \in Montage(a, r, o)
<1>1. g \in Ids /\ Path[g] = Path[o] \o Rel(x, r)
  BY DEF Montage, Rel
<1> DEFINE p == Path[o]
           s == Rel(x, r)
           t == Rel(a, x)
<1>2. p \in Seq(STRING) /\ s \in Seq(STRING) /\ t \in Seq(STRING)
  BY PathOf, RelSeq
<1>3. Path[b] = Path[g] \o t
  BY <1>1, PathSplit
<1>4. Rel(a, r) = s \o t
  BY RelSplit
<1> HIDE DEF p, s, t
<1>5. (p \o s) \o t = p \o (s \o t)
  BY <1>2, ConcatAssociative
<1>6. Path[b] = p \o Rel(a, r)
  BY <1>1, <1>3, <1>4, <1>5 DEF p, s
<1> QED BY <1>6 DEF Montage, Rel, p

(* Some file at or below the entry is at the same place of no other root.  *)
Unique(id) ==
  \E f \in Ids : /\ Within(f, id) /\ state[f] = "file"
                 /\ \A g \in Ids : Within(f, g) => ~Copied(g)

(* What another root has as well holds no such file.                       *)
LEMMA ElsewhereNotUnique ==
  ASSUME Hashed, RootsApart, NEW r \in ToSet(Roots), NEW x \in Ids, Within(x, r), Elsewhere(x),
         ~Misjudged(x)
  PROVE  ~Unique(x)
<1> SUFFICES ASSUME NEW f \in Ids, Within(f, x), state[f] = "file",
                    \A g \in Ids : Within(f, g) => ~Copied(g)
             PROVE  FALSE
  BY DEF Unique
<1>0. r \in Ids
  BY RootsInIds
<1>1. ~Copied(x)
  OBVIOUS
<1>2. PICK g \in Places(x) : SameDir(x, g)
  BY <1>1, ElsewhereMeans
<1>3. RootOf(x) = r
  BY OneRoot
<1>4. PICK o \in ToSet(Roots) \ {r} : g \in Montage(x, r, o)
  BY <1>3 DEF Places
<1>5. o \in Ids /\ g \in Ids
  BY <1>4, RootsInIds DEF Montage
<1>6. f # x
  BY <1>2 DEF SameDir, is_dir
<1>7. f \in FilesUnder(x)
  BY <1>6 DEF FilesUnder, Within, is_file
<1>8. PICK a \in Ids : Counts(a, x) /\ Within(f, a)
  BY <1>7, FileCounts
<1>9. <<Rel(a, x), content[a]>> \in Listing(g)
  BY <1>2, <1>8, ListingOf DEF SameDir
<1>10. PICK b \in Ids : Counts(b, g) /\ <<Rel(a, x), content[a]>> = <<Rel(b, g), content[b]>>
  BY <1>5, <1>9, ListingOf
<1>11. /\ is_file(a) /\ Under(a, x) /\ is_file(b) /\ Under(b, g)
       /\ a \in FilesUnder(x) /\ b \in FilesUnder(g)
  BY <1>8, <1>10 DEF Counts, FilesUnder
<1>12. Rel(b, g) = Rel(a, x) /\ content[b] = content[a]
  BY <1>10
<1>13. file_hash[a] # NoHash /\ file_hash[b] # NoHash
  BY <1>2, <1>11 DEF SameDir, AllHashed
<1>14. file_hash[a] = file_hash[b]
  BY <1>12, <1>13 DEF Hashed, PassesInv
<1>15. Within(a, x) /\ Within(b, g) /\ state[b] # "none"
  BY <1>11 DEF Within, is_file
<1>16. b \in Montage(a, r, o)
  BY <1>0, <1>4, <1>5, <1>12, <1>15, PlaceBelow
<1>17. Within(a, r)
  BY <1>0, <1>15, UnderTransitive DEF Within
<1>18. RootOf(a) = r
  BY <1>17, OneRoot
<1>19. b \in Places(a)
  BY <1>4, <1>16, <1>18 DEF Places
<1> QED BY <1>8, <1>11, <1>13, <1>14, <1>19 DEF Copied

(* Nothing above the entry is the same in another root; then find_diff     *)
(* gets to it whatever the other root is.                                  *)
Open(id, r) == Within(id, r) /\ \A a \in Ids : Under(id, a) /\ Within(a, r) => ~Elsewhere(a)

LEMMA OpenCalled ==
  ASSUME RootsApart, NEW r \in ToSet(Roots), NEW o \in ToSet(Roots) \ {r}, NEW x \in Ids, Open(x, r)
  PROVE  Called(x, r, o) /\ (~Elsewhere(x) => ~Eq(x, r, o))
<1>1. \A a \in Ids : Within(a, r) => RootOf(a) = r
  BY OneRoot
<1>2. \A a \in Ids : Within(a, r) /\ ~Elsewhere(a) => ~Eq(a, r, o)
  BY <1>1 DEF Elsewhere
<1> QED BY <1>2 DEF Open, Called

(* The children of such an entry, if it is not the same itself.            *)
LEMMA OpenChild ==
  ASSUME NEW r \in Ids, NEW x \in Ids, Open(x, r), ~Elsewhere(x), NEW c \in Childs(x)
  PROVE  c \in Ids /\ c \in Below /\ Open(c, r) /\ x < c
<1>1. c \in Below /\ Parent[c] = x /\ c \in Ids
  BY DEF Childs, Below
<1>2. x < c
  BY <1>1, ParentOf
<1>3. Under(c, x) /\ \A a \in Ids : Under(c, a) => a = x \/ Under(x, a)
  BY <1>1, UnderParent
<1>4. Within(c, r)
  BY <1>1, <1>3, UnderTransitive DEF Open, Within
<1> QED BY <1>1, <1>2, <1>3, <1>4 DEF Open

(* Where nothing is the same as elsewhere, a directory is UNIQ if what it  *)
(* holds is.                                                               *)
LEMMA UniqueParts ==
  ASSUME Hashed, RootsApart, NEW r \in ToSet(Roots), NEW x \in Ids, Open(x, r), Exists(x),
         ~Elsewhere(x)
  PROVE  Unique(x) <=> ~is_dir(x) \/ \E c \in Childs(x) : Unique(c)
<1>0. r \in Ids
  BY RootsInIds
<1>1. ASSUME ~is_dir(x) PROVE Unique(x)
  <2>1. state[x] = "file"
    BY <1>1 DEF Exists, is_file, is_dir
  <2>2. ASSUME NEW g \in Ids, Within(x, g) PROVE ~Copied(g)
    <3>1. CASE Within(g, r)
      <4>1. ~Elsewhere(g)
        BY <2>2, <3>1 DEF Open, Within
      <4> QED BY <4>1, CopiedElsewhere
    <3>2. CASE ~Within(g, r)
      <4>1. Under(r, g)
        BY <1>0, <2>2, <3>2, OneAbove DEF Open
      <4> QED BY <4>1 DEF RootsApart, Copied
    <3> QED BY <3>1, <3>2
  <2>3. Within(x, x)
    BY DEF Within
  <2> QED BY <2>1, <2>2, <2>3 DEF Unique
<1>2. ASSUME NEW c \in Childs(x), Unique(c) PROVE Unique(x)
  <2>1. c \in Ids /\ Under(c, x)
    BY UnderParent DEF Childs, Below
  <2>2. \A f \in Ids : Within(f, c) => Within(f, x)
    BY <2>1, UnderTransitive DEF Within
  <2> QED BY <1>2, <2>2 DEF Unique
<1>3. ASSUME is_dir(x), Unique(x) PROVE \E c \in Childs(x) : Unique(c)
  <2>1. PICK f \in Ids : /\ Within(f, x) /\ state[f] = "file"
                         /\ \A g \in Ids : Within(f, g) => ~Copied(g)
    BY <1>3 DEF Unique
  <2>2. f # x
    BY <1>3, <2>1 DEF is_dir
  <2>3. PICK c \in Below : Parent[c] = x /\ Within(f, c)
    BY <2>1, <2>2, ChildAbove DEF Within
  <2>4. c \in Ids /\ Exists(f) /\ PassesInv
    BY <2>1 DEF Below, Exists, is_file, Hashed
  <2>5. Exists(c)
    BY <2>3, <2>4, AboveExists DEF Within, Exists
  <2>6. c \in Childs(x)
    BY <2>3, <2>5 DEF Childs, Exists, is_file, is_dir
  <2> QED BY <2>1, <2>3, <2>6 DEF Unique
<1> QED BY <1>1, <1>2, <1>3

-----------------------------------------------------------------------------
(* The marks after each pair of roots.                                     *)

(* A pair marks what find_diff gets to.                                    *)
LEMMA MarksMade ==
  ASSUME NEW marks, DiffMarks(marks), NEW k \in 1..Len(Pairs)
  PROVE  /\ k - 1 \in 0..Len(Pairs) /\ k \in 0..Len(Pairs)
         /\ marks[k - 1] \in [Ids -> 0..2] /\ marks[k] \in [Ids -> 0..2]
         /\ \E up : /\ Ups(up, marks[k - 1], RootAt(k), OtherAt(k))
                    /\ \A id \in Ids : marks[k][id] = IF Called(id, RootAt(k), OtherAt(k))
                                                      THEN up[id] ELSE marks[k - 1][id]
<1>1. k - 1 \in 0..Len(Pairs) /\ k \in 0..Len(Pairs)
  BY PairsLength
<1>2. marks[k - 1] \in [Ids -> 0..2] /\ marks[k] \in [Ids -> 0..2]
  BY <1>1 DEF DiffMarks
<1> DEFINE root == RootAt(k)
           other == OtherAt(k)
           stat == marks[k - 1]
<1>3. marks[k] = Upgraded(stat, root, other)
  BY DEF DiffMarks, RootAt, OtherAt
<1>4. stat \in [Ids -> 0..2]
  BY <1>2
<1> HIDE DEF root, other, stat
<1>5. PICK up : /\ Ups(up, stat, root, other)
                /\ Upgraded(stat, root, other) =
                     [id \in Ids |-> IF Called(id, root, other) THEN up[id] ELSE stat[id]]
  BY <1>4, UpgradedMeans
<1>6. \A id \in Ids : marks[k][id] = IF Called(id, root, other) THEN up[id] ELSE stat[id]
  BY <1>3, <1>5
<1> QED BY <1>1, <1>2, <1>5, <1>6 DEF root, other, stat

(* A mark never gets smaller, and a pair does not mark the other roots.    *)
LEMMA MarksStep ==
  ASSUME NEW marks, DiffMarks(marks), NEW k \in 1..Len(Pairs), NEW x \in Ids
  PROVE  /\ marks[k - 1][x] \in 0..2 /\ marks[k][x] \in 0..2
         /\ marks[k - 1][x] <= marks[k][x]
         /\ ~Within(x, RootAt(k)) => marks[k][x] = marks[k - 1][x]
<1>1. PICK up : /\ Ups(up, marks[k - 1], RootAt(k), OtherAt(k))
                /\ \A id \in Ids : marks[k][id] = IF Called(id, RootAt(k), OtherAt(k))
                                                  THEN up[id] ELSE marks[k - 1][id]
  BY MarksMade
<1>2. marks[k - 1][x] \in 0..2 /\ marks[k][x] \in 0..2
  BY MarksMade
<1>3. ~Within(x, RootAt(k)) => ~Called(x, RootAt(k), OtherAt(k))
  BY DEF Called
<1>4. up[x] \in 0..2
  BY <1>1 DEF Ups
<1>5. marks[k - 1][x] <= up[x]
  <2> DEFINE u == Upgrade(up, x, RootAt(k), OtherAt(k))
             s == marks[k - 1][x]
  <2>1. up[x] = IF s > u THEN s ELSE u
    BY <1>1 DEF Ups
  <2>2. u \in 0..2 /\ s \in 0..2
    BY <1>2 DEF Upgrade
  <2> HIDE DEF u, s
  <2>3. s <= up[x]
    BY <2>1, <2>2
  <2> QED BY <2>3 DEF s
<1>6. marks[k][x] = up[x] \/ marks[k][x] = marks[k - 1][x]
  BY <1>1
<1>7. marks[k - 1][x] <= marks[k - 1][x]
  BY <1>2
<1> QED BY <1>1, <1>2, <1>3, <1>5, <1>6, <1>7

(* What a pair with its root makes of the mark of an entry it gets to.     *)
LEMMA MarksOpen ==
  ASSUME RootsApart, NEW marks, DiffMarks(marks), NEW k \in 1..Len(Pairs),
         NEW x \in Ids, Open(x, RootAt(k))
  PROVE  /\ Eq(x, RootAt(k), OtherAt(k)) => marks[k][x] = 2
         /\ ~Elsewhere(x) =>
              marks[k][x] = IF is_dir(x) /\ (\A c \in Childs(x) : marks[k][c] # 0)
                               /\ marks[k - 1][x] = 0
                            THEN 1 ELSE marks[k - 1][x]
<1> DEFINE r == RootAt(k)
           o == OtherAt(k)
<1>0. r \in ToSet(Roots) /\ o \in ToSet(Roots) \ {r} /\ r \in Ids /\ Open(x, r)
  BY PairsMean, RootsInIds
<1>1. PICK up : /\ Ups(up, marks[k - 1], r, o)
                /\ \A id \in Ids : marks[k][id] = IF Called(id, r, o)
                                                  THEN up[id] ELSE marks[k - 1][id]
  BY MarksMade
<1>2. marks[k - 1][x] \in 0..2
  BY MarksStep
<1> HIDE DEF r, o
<1>3. Called(x, r, o) /\ (~Elsewhere(x) => ~Eq(x, r, o))
  BY <1>0, OpenCalled
<1> DEFINE u == Upgrade(up, x, r, o)
           s == marks[k - 1][x]
<1>4. marks[k][x] = IF s > u THEN s ELSE u
  BY <1>1, <1>3 DEF Ups
<1>5. Eq(x, r, o) => u = 2
  BY DEF Upgrade
<1>6. ASSUME ~Elsewhere(x)
      PROVE  u = IF is_dir(x) /\ \A c \in Childs(x) : marks[k][c] # 0 THEN 1 ELSE 0
  <2>1. \A c \in Childs(x) : c \in Ids /\ Open(c, r)
    BY <1>0, <1>6, OpenChild
  <2>2. \A c \in Childs(x) : Called(c, r, o)
    BY <1>0, <2>1, OpenCalled
  <2>3. \A c \in Childs(x) : marks[k][c] = up[c]
    BY <1>1, <2>1, <2>2
  <2> QED BY <1>3, <1>6, <2>3 DEF Upgrade
<1> DEFINE free == is_dir(x) /\ \A c \in Childs(x) : marks[k][c] # 0
<1>7. s \in 0..2
  BY <1>2
<1>8. ~Elsewhere(x) => u = IF free THEN 1 ELSE 0
  BY <1>6
<1> HIDE DEF u, s, free
<1>9. /\ Eq(x, r, o) => marks[k][x] = 2
      /\ ~Elsewhere(x) => marks[k][x] = IF free /\ s = 0 THEN 1 ELSE s
  BY <1>4, <1>5, <1>7, <1>8
<1> QED BY <1>9 DEF r, o, s, free

(* Over several pairs.                                                     *)
LEMMA MarksGrow ==
  ASSUME NEW marks, DiffMarks(marks), NEW x \in Ids, NEW m \in 0..Len(Pairs)
  PROVE  \A n \in 0..Len(Pairs) : m <= n =>
           /\ marks[m][x] <= marks[n][x]
           /\ (\A k \in 1..Len(Pairs) : m < k => ~Within(x, RootAt(k))) => marks[n][x] = marks[m][x]
<1> DEFINE N == Len(Pairs)
           Good(n) == /\ marks[m][x] <= marks[n][x]
                      /\ (\A k \in 1..N : m < k => ~Within(x, RootAt(k))) => marks[n][x] = marks[m][x]
           bad == {n \in 0..N : m <= n /\ ~Good(n)}
<1>1. N \in Nat
  BY PairsLength
<1>2. \A n \in 0..N : marks[n][x] \in 0..2
  <2>1. \A n \in 0..N : marks[n] \in [Ids -> 0..2]
    BY DEF DiffMarks
  <2> QED BY <2>1
<1>3. ASSUME bad # {} PROVE FALSE
  <2>1. bad \subseteq Nat
    BY <1>1
  <2>2. PICK n \in bad : \A j \in bad : n <= j
    <3> HIDE DEF bad
    <3> QED BY <1>3, <2>1, LeastNumber
  <2>3. n \in 0..N /\ m <= n /\ ~Good(n)
    OBVIOUS
  <2>4. n # m
    <3>1. marks[m][x] \in 0..2
      BY <1>2
    <3>2. marks[m][x] <= marks[m][x]
      BY <3>1
    <3> QED BY <2>3, <3>2
  <2>5. n \in 1..N /\ n - 1 \in 0..N /\ m <= n - 1 /\ m < n /\ ~(n <= n - 1)
    BY <1>1, <2>3, <2>4
  <2>6. n - 1 \notin bad
    BY <2>2, <2>5
  <2>7. Good(n - 1)
    BY <2>5, <2>6
  <2>8. /\ marks[n - 1][x] <= marks[n][x]
        /\ ~Within(x, RootAt(n)) => marks[n][x] = marks[n - 1][x]
    BY <2>5, MarksStep
  <2>9. marks[m][x] \in 0..2 /\ marks[n - 1][x] \in 0..2 /\ marks[n][x] \in 0..2
    BY <1>2, <2>3, <2>5
  <2>10. Good(n)
    BY <2>5, <2>7, <2>8, <2>9
  <2> QED BY <2>3, <2>10
<1> HIDE DEF Good
<1>4. \A n \in 0..N : m <= n => Good(n)
  BY <1>3
<1> QED BY <1>4 DEF Good

-----------------------------------------------------------------------------
(* What is printed of the differences.                                     *)

(* find_diffs begins without marks.                                        *)
Unmarked == \A id \in Ids : treediff_stat[id] = 0

(* Pairs of another root do not mark the entry.                            *)
LEMMA OtherPairs ==
  ASSUME RootsApart, NEW marks, DiffMarks(marks), NEW r \in ToSet(Roots), NEW x \in Ids, Within(x, r),
         NEW k \in 1..Len(Pairs), RootAt(k) # r
  PROVE  ~Within(x, RootAt(k)) /\ marks[k][x] = marks[k - 1][x]
<1>1. RootAt(k) \in ToSet(Roots)
  BY PairsMean
<1>2. ~Within(x, RootAt(k))
  BY <1>1, OneRoot
<1> QED BY <1>2, MarksStep

(* What find_diff gets to is marked DUPS exactly if another root has the   *)
(* same there.                                                             *)
LEMMA MarkedDups ==
  ASSUME RootsApart, Unmarked, NEW marks, DiffMarks(marks), NEW r \in ToSet(Roots),
         NEW x \in Ids, Open(x, r)
  PROVE  marks[Len(Pairs)][x] = 2 <=> Elsewhere(x)
<1> DEFINE N == Len(Pairs)
<1>0. N \in Nat /\ N \in 0..N /\ Within(x, r)
  BY PairsLength DEF Open
<1>00. \A n \in 0..N : marks[n][x] \in 0..2
  <2>1. \A n \in 0..N : marks[n] \in [Ids -> 0..2]
    BY DEF DiffMarks
  <2> QED BY <2>1
<1>1. ASSUME Elsewhere(x) PROVE marks[N][x] = 2
  <2>1. RootOf(x) = r
    BY <1>0, OneRoot
  <2>2. PICK o \in ToSet(Roots) \ {r} : Eq(x, r, o)
    BY <1>1, <2>1 DEF Elsewhere
  <2>3. PICK k \in 1..N : RootAt(k) = r /\ OtherAt(k) = o
    BY PairsMean
  <2>4. marks[k][x] = 2
    BY <2>2, <2>3, MarksOpen
  <2>5. k \in 0..N /\ k <= N
    BY <1>0
  <2>6. marks[k][x] <= marks[N][x] /\ marks[N][x] \in 0..2
    BY <1>0, <1>00, <2>5, MarksGrow
  <2> QED BY <2>4, <2>6
<1>2. ASSUME ~Elsewhere(x), marks[N][x] = 2 PROVE FALSE
  <2> DEFINE T == {n \in 0..N : marks[n][x] = 2}
  <2>1. T \subseteq Nat /\ T # {}
    BY <1>0, <1>2
  <2>2. PICK n \in T : \A j \in T : n <= j
    <3> HIDE DEF T
    <3> QED BY <2>1, LeastNumber
  <2>3. n \in 0..N /\ marks[n][x] = 2
    OBVIOUS
  <2>4. n # 0
    <3>1. marks[0][x] = 0
      BY DEF DiffMarks, Unmarked
    <3> QED BY <2>3, <3>1
  <2>5. n \in 1..N /\ n - 1 \in 0..N /\ ~(n <= n - 1)
    BY <1>0, <2>3, <2>4
  <2>6. marks[n - 1][x] # 2
    BY <2>2, <2>5
  <2>7. RootAt(n) = r
    BY <1>0, <2>3, <2>5, <2>6, OtherPairs
  <2>8. marks[n][x] = 1 \/ marks[n][x] = marks[n - 1][x]
    BY <1>2, <2>5, <2>7, MarksOpen
  <2> QED BY <2>3, <2>6, <2>8
<1> QED BY <1>1, <1>2

(* The root is compared, and then not any more.                            *)
LEMMA LastPair ==
  ASSUME RootsApart, NEW r \in ToSet(Roots)
  PROVE  \E k \in 1..Len(Pairs) : RootAt(k) = r /\ \A j \in 1..Len(Pairs) : k < j => RootAt(j) # r
<1> DEFINE N == Len(Pairs)
           T == {n \in Nat : \E k \in 1..N : RootAt(k) = r /\ n = N - k}
<1>0. N \in Nat
  BY PairsLength
<1>1. PICK o \in ToSet(Roots) : o # r
  <2>1. PICK j \in DOMAIN Roots : Roots[j] = r
    BY DEF ToSet
  <2>2. 1 \in DOMAIN Roots /\ 2 \in DOMAIN Roots
    BY RootsInIds DEF RootsApart
  <2>3. j # 1 \/ j # 2
    OBVIOUS
  <2> QED BY <2>1, <2>2, <2>3 DEF RootsApart, ToSet
<1>2. PICK k \in 1..N : RootAt(k) = r
  BY <1>1, PairsMean
<1>3. N - k \in Nat
  BY <1>0
<1>4. T # {} /\ T \subseteq Nat
  BY <1>2, <1>3
<1>5. PICK n \in T : \A m \in T : n <= m
  <2> HIDE DEF T
  <2> QED BY <1>4, LeastNumber
<1>6. PICK l \in 1..N : RootAt(l) = r /\ n = N - l
  OBVIOUS
<1>7. ASSUME NEW j \in 1..N, l < j PROVE RootAt(j) # r
  <2>1. N - j \in Nat /\ ~(n <= N - j)
    BY <1>0, <1>6, <1>7
  <2>2. N - j \notin T
    <3> HIDE DEF T
    <3> QED BY <1>5, <2>1
  <2> QED BY <2>1, <2>2
<1> QED BY <1>6, <1>7

(* Where nothing is the same as elsewhere, a directory has a mark exactly  *)
(* if everything in it has one.                                            *)
LEMMA MarkedParts ==
  ASSUME RootsApart, Unmarked, NEW marks, DiffMarks(marks), NEW r \in ToSet(Roots),
         NEW x \in Ids, Open(x, r), ~Elsewhere(x)
  PROVE  marks[Len(Pairs)][x] # 0 <=>
           is_dir(x) /\ \A c \in Childs(x) : marks[Len(Pairs)][c] # 0
<1> DEFINE N == Len(Pairs)
<1>0. N \in Nat /\ N \in 0..N /\ Within(x, r) /\ r \in Ids
  BY PairsLength, RootsInIds DEF Open
<1>1. \A n \in 0..N : \A id \in Ids : marks[n][id] \in 0..2
  <2>1. \A n \in 0..N : marks[n] \in [Ids -> 0..2]
    BY DEF DiffMarks
  <2> QED BY <2>1
<1>2. \A c \in Childs(x) : c \in Ids /\ Within(c, r)
  BY <1>0, OpenChild DEF Open
<1>3. ASSUME marks[N][x] # 0 PROVE is_dir(x) /\ \A c \in Childs(x) : marks[N][c] # 0
  <2> DEFINE T == {n \in 0..N : marks[n][x] # 0}
  <2>1. T \subseteq Nat /\ T # {}
    BY <1>0, <1>3
  <2>2. PICK n \in T : \A j \in T : n <= j
    <3> HIDE DEF T
    <3> QED BY <2>1, LeastNumber
  <2>3. n \in 0..N /\ marks[n][x] # 0
    OBVIOUS
  <2>4. n # 0
    <3>1. marks[0][x] = 0
      BY DEF DiffMarks, Unmarked
    <3> QED BY <2>3, <3>1
  <2>5. n \in 1..N /\ n - 1 \in 0..N /\ ~(n <= n - 1) /\ n <= N
    BY <1>0, <2>3, <2>4
  <2>6. marks[n - 1][x] = 0
    BY <2>2, <2>5
  <2>7. RootAt(n) = r
    BY <1>0, <2>3, <2>5, <2>6, OtherPairs
  <2>8. is_dir(x) /\ \A c \in Childs(x) : marks[n][c] # 0
    BY <2>3, <2>5, <2>6, <2>7, MarksOpen
  <2>9. ASSUME NEW c \in Childs(x) PROVE marks[N][c] # 0
    <3>1. c \in Ids /\ marks[n][c] # 0
      BY <1>2, <2>8
    <3>2. marks[n][c] <= marks[N][c] /\ marks[n][c] \in 0..2 /\ marks[N][c] \in 0..2
      BY <1>0, <1>1, <2>3, <2>5, <3>1, MarksGrow
    <3> QED BY <3>1, <3>2
  <2> QED BY <2>8, <2>9
<1>4. ASSUME is_dir(x), \A c \in Childs(x) : marks[N][c] # 0 PROVE marks[N][x] # 0
  <2>1. PICK k \in 1..N : RootAt(k) = r /\ \A j \in 1..N : k < j => RootAt(j) # r
    BY LastPair
  <2>2. k \in 0..N /\ k <= N /\ k - 1 \in 0..N
    BY <1>0
  <2>3. ASSUME NEW c \in Childs(x) PROVE marks[k][c] # 0
    <3>1. c \in Ids /\ Within(c, r) /\ marks[N][c] # 0
      BY <1>2, <1>4
    <3>2. \A j \in 1..N : k < j => ~Within(c, RootAt(j))
      BY <2>1, <3>1, OtherPairs
    <3>3. marks[N][c] = marks[k][c]
      BY <1>0, <2>2, <3>1, <3>2, MarksGrow
    <3> QED BY <3>1, <3>3
  <2>4. marks[k][x] # 0
    BY <1>4, <2>1, <2>3, MarksOpen
  <2>5. marks[k][x] <= marks[N][x] /\ marks[k][x] \in 0..2 /\ marks[N][x] \in 0..2
    BY <1>0, <1>1, <2>2, MarksGrow
  <2> QED BY <2>4, <2>5
<1> QED BY <1>3, <1>4

(* What find_diff gets to is marked UNIQ exactly if a file in it is.       *)
LEMMA MarkedUnique ==
  ASSUME Hashed, RootsApart, Unmarked, NEW marks, DiffMarks(marks), NEW r \in ToSet(Roots)
  PROVE  \A x \in Ids : Open(x, r) /\ Exists(x) /\ Judged(x) =>
                          (marks[Len(Pairs)][x] = 0 <=> Unique(x))
<1> DEFINE stat == marks[Len(Pairs)]
           Good(x) == stat[x] = 0 <=> Unique(x)
           bad == {x \in Ids : Open(x, r) /\ Exists(x) /\ Judged(x) /\ ~Good(x)}
<1>0. r \in Ids
  BY RootsInIds
<1>1. ASSUME bad # {} PROVE FALSE
  <2>1. bad \subseteq Ids
    OBVIOUS
  <2>2. PICK x \in bad : \A y \in bad : y <= x
    <3> HIDE DEF bad
    <3> QED BY <1>1, <2>1, LastEntry
  <2>3. x \in Ids /\ x \in Nat /\ Open(x, r) /\ Exists(x) /\ Judged(x) /\ ~Good(x)
    BY PathOf
  <2>4. CASE Elsewhere(x)
    <3>1. stat[x] = 2
      BY <2>3, <2>4, MarkedDups
    <3>2. ~Unique(x)
      BY <2>3, <2>4, ElsewhereNotUnique DEF Open, Judged
    <3>3. Good(x)
      BY <3>1, <3>2
    <3> QED BY <2>3, <3>3
  <2>5. CASE ~Elsewhere(x)
    <3>1. ASSUME NEW c \in Childs(x) PROVE Good(c)
      <4>0. c \in Ids /\ Open(c, r) /\ x < c
        BY <1>0, <2>3, <2>5, OpenChild
      <4>1. c \in Ids /\ Open(c, r) /\ ~(c <= x)
        BY <2>3, <4>0, PathOf
      <4>2. Judged(c)
        <5>1. Under(c, x)
          BY UnderParent DEF Childs
        <5>2. \A y \in Ids : y = c \/ Under(y, c) => Under(y, x)
          BY <2>3, <4>1, <5>1, UnderTransitive
        <5> QED BY <2>3, <5>2 DEF Judged
      <4>3. Exists(c)
        <5>1. state[c] # "stale"
          BY <4>1, <4>2 DEF Judged, Misjudged
        <5>2. state[c] \in {"file", "dir", "archive"}
          BY <4>1, <5>1 DEF Childs, Hashed, PassesInv, States
        <5> QED BY <5>2 DEF Exists, is_file, is_dir
      <4>4. c \notin bad
        BY <2>2, <4>1
      <4> QED BY <4>1, <4>2, <4>3, <4>4
    <3>2. stat[x] # 0 <=> is_dir(x) /\ \A c \in Childs(x) : stat[c] # 0
      BY <2>3, <2>5, MarkedParts
    <3>3. Unique(x) <=> ~is_dir(x) \/ \E c \in Childs(x) : Unique(c)
      BY <2>3, <2>5, UniqueParts
    <3> HIDE DEF stat
    <3> QED BY <2>3, <3>1, <3>2, <3>3
  <2> QED BY <2>4, <2>5
<1> HIDE DEF stat
<1>2. \A x \in Ids : Open(x, r) /\ Exists(x) /\ Judged(x) => Good(x)
  BY <1>1
<1> QED BY <1>2 DEF stat

(* What has a line below a root that is not DUPS lies in nothing that is   *)
(* the same elsewhere.                                                     *)
LEMMA LineOpen ==
  ASSUME RootsApart, Unmarked, NEW marks, DiffMarks(marks), NEW r \in ToSet(Roots), NEW c \in Ids,
         Under(c, r), marks[Len(Pairs)][r] # 2,
         \A a \in Ids : Under(c, a) /\ Under(a, r) => marks[Len(Pairs)][a] # 2
  PROVE  Open(c, r)
<1> DEFINE T == {a \in Ids : Under(c, a) /\ Within(a, r) /\ Elsewhere(a)}
<1>1. ASSUME T # {} PROVE FALSE
  <2>1. T \subseteq Nat
    BY PathOf
  <2>2. PICK a \in T : \A b \in T : a <= b
    <3> HIDE DEF T
    <3> QED BY <1>1, <2>1, LeastNumber
  <2>3. a \in Ids /\ a \in Nat /\ Under(c, a) /\ Within(a, r) /\ Elsewhere(a)
    BY PathOf
  <2>4. ASSUME NEW b \in Ids, Under(a, b), Within(b, r) PROVE ~Elsewhere(b)
    <3>1. Under(c, b) /\ b < a /\ b \in Nat
      BY <2>3, <2>4, UnderTransitive, UnderOrder, PathOf
    <3>2. ~(a <= b)
      BY <2>3, <3>1
    <3>3. b \notin T
      <4> HIDE DEF T
      <4> QED BY <2>2, <3>2
    <3> QED BY <2>4, <3>1, <3>3
  <2>5. Open(a, r)
    BY <2>3, <2>4 DEF Open
  <2>6. marks[Len(Pairs)][a] = 2
    BY <2>3, <2>5, MarkedDups
  <2> QED BY <2>3, <2>6 DEF Within
<1> QED BY <1>1 DEF Open, Within

(* The lines are right.                                                    *)
LEMMA LinesExact ==
  ASSUME Hashed, RootsApart, Unmarked, treediff_stat \in [Ids -> 0..2]
  PROVE  DiffOf({line \in DiffListing(FindDiffs) :
                   FindDiffs[RootOf(line[1])] # 2 /\ Judged(line[1])})
<1>1. PICK marks : DiffMarks(marks)
  BY FindDiffsMeans
<1> DEFINE stat == marks[Len(Pairs)]
<1>2. FindDiffs = stat
  BY <1>1 DEF DiffMarks
<1>3. ASSUME NEW line \in DiffListing(stat), stat[RootOf(line[1])] # 2, Judged(line[1])
      PROVE  /\ line[1] \in Ids /\ ~Misjudged(line[1])
             /\ line[2] = 0 <=> Unique(line[1])
             /\ line[2] = 2 <=> Elsewhere(line[1])
  <2>1. PICK c \in Ids : /\ line = <<c, stat[c]>> /\ Exists(c)
                         /\ \E r \in ToSet(Roots) :
                              /\ Under(c, r)
                              /\ \A a \in Ids : Under(c, a) /\ Under(a, r) => stat[a] # 2
    <3> HIDE DEF stat
    <3> QED BY DEF DiffListing
  <2>2. PICK r \in ToSet(Roots) : /\ Under(c, r)
                                  /\ \A a \in Ids : Under(c, a) /\ Under(a, r) => stat[a] # 2
    BY <2>1
  <2>3. line[1] = c /\ line[2] = stat[c]
    BY <2>1
  <2>4. RootOf(c) = r
    BY <2>2, OneRoot DEF Within
  <2>5. Open(c, r)
    BY <1>1, <1>3, <2>2, <2>3, <2>4, LineOpen
  <2>6. stat[c] = 2 <=> Elsewhere(c)
    BY <1>1, <2>5, MarkedDups
  <2>7. stat[c] = 0 <=> Unique(c)
    BY <1>1, <1>3, <2>1, <2>3, <2>5, MarkedUnique
  <2>8. ~Misjudged(c)
    BY <1>3, <2>3 DEF Judged
  <2> QED BY <2>3, <2>6, <2>7, <2>8
<1> HIDE DEF stat
<1>4. ASSUME NEW id \in Ids, ~Misjudged(id)
      PROVE  /\ Unique(id) <=>
                  \E f \in FilesUnder(id) \cup {id} :
                    state[f] = "file" /\ \A g \in Ids : g = f \/ Under(f, g) => ~Copied(g)
             /\ Elsewhere(id) <=>
                  \/ Copied(id)
                  \/ \E g \in Places(id) :
                       /\ is_dir(id) /\ AllHashed(id) /\ is_dir(g) /\ AllHashed(g)
                       /\ Listing(id) = Listing(g)
                       /\ file_hash[id] = NoHash \/ file_hash[g] = NoHash
  <2>1. \A f \in Ids : state[f] = "file" =>
          (f \in FilesUnder(id) \cup {id} <=> Within(f, id))
    BY DEF FilesUnder, is_file, Within
  <2>2. FilesUnder(id) \cup {id} \subseteq Ids
    BY DEF FilesUnder
  <2> QED BY <1>4, <2>1, <2>2, ElsewhereMeans DEF Unique, Within, SameDir
<1> QED BY <1>2, <1>3, <1>4 DEF DiffOf

(* The lines are about the tree as the passes left it.                     *)
LEMMA DiffKept ==
  ASSUME state' = state, content' = content, file_hash' = file_hash
  PROVE  /\ \A lines : DiffOf(lines)' <=> DiffOf(lines)
         /\ \A id : Judged(id)' <=> Judged(id)
         /\ RootsApart' <=> RootsApart
         /\ \A id : RootOf(id)' = RootOf(id)
<1>1. /\ \A id : is_file(id)' <=> is_file(id)
      /\ \A id : is_dir(id)' <=> is_dir(id)
      /\ \A id : AllHashed(id)' <=> AllHashed(id)
      /\ \A id : Listing(id)' = Listing(id)
      /\ \A id : FilesUnder(id)' = FilesUnder(id)
  BY DEF is_file, is_dir, AllHashed, Listing, FilesUnder, Under
<1>2. \A id, r, o : Montage(id, r, o)' = Montage(id, r, o)
  BY DEF Montage
<1>3. \A id : RootOf(id)' = RootOf(id)
  BY DEF RootOf, Under
<1>4. \A id : Places(id)' = Places(id)
  BY <1>2, <1>3 DEF Places
<1>5. \A f : Copied(f)' <=> Copied(f)
  BY <1>1, <1>4 DEF Copied
<1>6. \A f, g : Under(f, g)' <=> Under(f, g)
  BY DEF Under
<1>7. \A lines : DiffOf(lines)' <=> DiffOf(lines)
  BY <1>1, <1>4, <1>5, <1>6 DEF DiffOf
<1>8. \A id : Judged(id)' <=> Judged(id)
  <2>1. \A id : Misjudged(id)' <=> Misjudged(id)
    BY <1>1, <1>4 DEF Misjudged
  <2> QED BY <1>6, <2>1 DEF Judged
<1>9. RootsApart' <=> RootsApart
  BY <1>1, <1>6 DEF RootsApart
<1> QED BY <1>3, <1>7, <1>8, <1>9

(* print_treediff prints what is right.                                    *)
LEMMA DiffRight ==
  ASSUME IInv, Unmarked, PrintTreediff
  PROVE  TreeDiffExact'
<1> SUFFICES ASSUME pc' = "done", RootsApart'
             PROVE  DiffOf({line \in printed.listing :
                              treediff_stat[RootOf(line[1])] # 2 /\ Judged(line[1])})'
  BY DEF TreeDiffExact
<1>1. /\ pc = "print" /\ state' = state /\ content' = content /\ file_hash' = file_hash
      /\ treediff_stat' = FindDiffs /\ printed'.listing = DiffListing(FindDiffs)
  BY DEF PrintTreediff
<1>2. Hashed /\ RootsApart /\ treediff_stat \in [Ids -> 0..2]
  BY <1>1, DiffKept DEF Hashed, IInv, MeaningInv, OnlyKnownPanics, TypeOK
<1>3. DiffOf({line \in DiffListing(FindDiffs) :
                FindDiffs[RootOf(line[1])] # 2 /\ Judged(line[1])})
  BY <1>2, LinesExact
<1>4. {line \in printed.listing : treediff_stat[RootOf(line[1])] # 2 /\ Judged(line[1])}' =
        {line \in DiffListing(FindDiffs) : FindDiffs[RootOf(line[1])] # 2 /\ Judged(line[1])}
  BY <1>1, DiffKept
<1> QED BY <1>1, <1>3, <1>4, DiffKept DEF DiffOf

-----------------------------------------------------------------------------
(* The theorems.                                                           *)

Printed ==
  /\ GroupsAreDuplicates
  /\ DuplicatesVisible
  /\ TreeDiffExact
  /\ pc \notin {"done", "panic"} => Unmarked

(* The steps before print nothing.                                         *)
LEMMA NothingPrinted ==
  ASSUME Printed, pc \notin {"done", "panic"}, pc' # "done", treediff_stat' = treediff_stat
  PROVE  Printed'
BY DEF Printed, GroupsAreDuplicates, DuplicatesVisible, TreeDiffExact, Unmarked

(* What is printed stays right.                                            *)
LEMMA PrintedKept ==
  ASSUME Printed, UNCHANGED vars
  PROVE  Printed'
<1>1. /\ state' = state /\ content' = content /\ file_hash' = file_hash
      /\ dir_size' = dir_size /\ printed' = printed /\ pc' = pc
      /\ treediff_stat' = treediff_stat
      /\ dir_hash' = dir_hash /\ hashes' = hashes
  BY DEF vars, entry
<1>2. GroupsAreDuplicates'
  <2>1. \A e, f : Same(e, f)' <=> Same(e, f)
    BY <1>1, TreeKept, SizeKept DEF Same
  <2>2. \A e : Has(e[2], e[1])' <=> Has(e[2], e[1])
    BY <1>1, TreeKept
  <2> QED BY <1>1, <2>1, <2>2 DEF Printed, GroupsAreDuplicates
<1>3. DuplicatesVisible'
  <2>1. Listed' = Listed
    BY <1>1 DEF Listed
  <2>2. \A f, g : Under(f, g)' <=> Under(f, g)
    BY DEF Under
  <2>3. \A d \in Ids : Misled(d)' <=> Misled(d)
    BY <1>1, MisledKept
  <2> QED BY <1>1, <2>1, <2>2, <2>3, TreeKept DEF Printed, DuplicatesVisible
<1>4. TreeDiffExact'
  <2>1. {line \in printed.listing : treediff_stat[RootOf(line[1])] # 2 /\ Judged(line[1])}' =
          {line \in printed.listing : treediff_stat[RootOf(line[1])] # 2 /\ Judged(line[1])}
    BY <1>1, DiffKept
  <2> QED BY <1>1, <2>1, DiffKept DEF Printed, TreeDiffExact, DiffOf
<1>5. (pc \notin {"done", "panic"} => Unmarked)'
  BY <1>1 DEF Printed, Unmarked
<1> QED BY <1>2, <1>3, <1>4, <1>5 DEF Printed

(* Every step keeps the invariant.                                         *)
LEMMA NextKeeps == IInv /\ Printed /\ [Next]_vars => IInv' /\ Printed'
<1> SUFFICES ASSUME IInv, Printed, [Next]_vars PROVE IInv' /\ Printed'
  OBVIOUS
<1>1. CASE CalculateDirHash
  <2>1. pc \notin {"done", "panic"} /\ pc' # "done" /\ treediff_stat' = treediff_stat
    BY <1>1 DEF CalculateDirHash
  <2> QED BY <1>1, <2>1, CalcKeeps, NothingPrinted
<1>2. CASE FindShadowed
  <2>1. pc \notin {"done", "panic"} /\ pc' # "done" /\ treediff_stat' = treediff_stat
    BY <1>2 DEF FindShadowed
  <2> QED BY <1>2, <2>1, FindShadowedKeeps, NothingPrinted
<1>3. CASE Export
  <2>1. pc \notin {"done", "panic"} /\ pc' # "done" /\ treediff_stat' = treediff_stat
    BY <1>3 DEF Export, entry
  <2> QED BY <1>3, <2>1, ExportKeeps, NothingPrinted
<1>4. CASE \E rule \in ShadowRules : PrintGroups(rule)
  <2>1. PICK rule \in ShadowRules : PrintGroups(rule)
    BY <1>4
  <2>2. pc' \in {"done", "panic"} /\ printed'.mode = "groups"
    BY <2>1 DEF PrintGroups
  <2>3. TreeDiffExact'
    BY <2>2 DEF TreeDiffExact
  <2> QED BY <2>1, <2>2, <2>3, PrintGroupsKeeps, GroupsListed, GroupsVisible DEF Printed
<1>5. CASE PrintTree
  <2>1. GroupsAreDuplicates'
    <3>1. pc' = "done" => printed'.mode # "groups"
      BY <1>5 DEF PrintTree
    <3> QED BY <3>1 DEF GroupsAreDuplicates
  <2>2. pc' \in {"done", "panic"} /\ (pc' = "done" => printed'.mode # "diff")
    BY <1>5 DEF PrintTree
  <2>3. TreeDiffExact'
    BY <2>2 DEF TreeDiffExact
  <2> QED BY <1>5, <2>1, <2>2, <2>3, PrintTreeKeeps, TreeVisible DEF Printed
<1>6. CASE PrintTreediff
  <2>1. pc = "print" /\ pc' \in {"done", "panic"} /\ (pc' = "done" => printed'.mode = "diff")
    BY <1>6 DEF PrintTreediff
  <2>2. GroupsAreDuplicates' /\ DuplicatesVisible'
    BY <2>1 DEF GroupsAreDuplicates, DuplicatesVisible
  <2>3. TreeDiffExact'
    BY <1>6, <2>1, DiffRight DEF Printed
  <2> QED BY <1>6, <2>1, <2>2, <2>3, PrintTreediffKeeps DEF Printed
<1>7. CASE UNCHANGED vars
  BY <1>7, StutterKeeps, PrintedKept
<1> QED BY <1>1, <1>2, <1>3, <1>4, <1>5, <1>6, <1>7 DEF Next, Finished

(* The invariant holds of every run of main after the passes.              *)
THEOREM Invariance == Spec => [](IInv /\ Printed)
<1>1. Init => IInv /\ Printed
  <2>1. Init => pc = "calculate_dir_hash" /\ Unmarked
    BY DEF Init, Unmarked
  <2> QED BY <2>1, InitIInv DEF Printed, GroupsAreDuplicates, DuplicatesVisible, TreeDiffExact
<1> QED BY <1>1, NextKeeps, PTL DEF Spec

(* The state is well typed, and the only panics are the two known unwraps: *)
(* that of an archive without a hash whose members all have one, and that  *)
(* of a root without an entry.  The assertions on the size of a group      *)
(* (push_to_hash_group) and on the groups of what is printed hold.         *)
THEOREM PanicsAreKnown == Spec => []OnlyKnownPanics
<1>1. IInv => OnlyKnownPanics
  BY DEF IInv
<1> QED BY <1>1, Invariance, PTL

(* calculate_dir_hash: a directory has a hash exactly if all files in it   *)
(* have, two have the same exactly if they hold the same contents under    *)
(* the same names at any depth, and the size is the sum of the files'.     *)
THEOREM HashesMeanListings == Spec => []DirHashMeaning
<1>1. IInv => DirHashMeaning
  BY DEF IInv, MeaningInv
<1> QED BY <1>1, Invariance, PTL

(* print_groups lists nothing as a duplicate that is not one.              *)
THEOREM ListedAreDuplicates == Spec => []GroupsAreDuplicates
<1>1. Printed => GroupsAreDuplicates
  BY DEF Printed
<1> QED BY <1>1, Invariance, PTL

(* find_shadowed, print_groups and print_tree hide no duplicate, but below *)
(* directories that find_shadowed takes for the file they replaced: what   *)
(* is not listed itself lies in something that is.                         *)
THEOREM NoDuplicateHidden == Spec => []DuplicatesVisible
<1>1. Printed => DuplicatesVisible
  BY DEF Printed
<1> QED BY <1>1, Invariance, PTL

(* print_treediff: of two roots or more that lie apart, a path is shown as *)
(* UNIQ exactly if some file at or below it is at the same place of no     *)
(* other root, and as DUPS exactly if another root has the same there,     *)
(* where no hash of the cache that is not that of a file is compared.      *)
THEOREM TreeDifferencesExact == Spec => []TreeDiffExact
<1>1. Printed => TreeDiffExact
  BY DEF Printed
<1> QED BY <1>1, Invariance, PTL
=============================================================================
