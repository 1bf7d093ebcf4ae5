---------------------------- MODULE Pass1Proofs -----------------------------
(***************************************************************************)
(* Pass 1 for every set of paths, every disk and every way it changes:     *)
(* what cid, cid_and_create and Loaded of VfsTree do for every tree and    *)
(* every path, the types, the bounds of the walk (Bounded), the tree of    *)
(* entries (OneEntryPerPath) and the list of files (ListedOncePerRoot).    *)
(***************************************************************************)
EXTENDS Pass1, FiniteSetTheorems, SequenceTheorems, TLAPS

-----------------------------------------------------------------------------
(* Numbers and paths.                                                      *)

(* A set of natural numbers that is not empty has a least element; where a *)
(* proof says "by induction" it takes the least counterexample.            *)
LEMMA LeastNumber ==
  ASSUME NEW T, T \subseteq Nat, T # {}
  PROVE  \E x \in T : \A y \in T : x <= y
<1> DEFINE Q == {0..(n - 1) : n \in T}
<1>1. Q \subseteq FiniteSubsetsOf(Nat) /\ Q # {}
  <2>1. ASSUME NEW n \in T PROVE 0..(n - 1) \subseteq Nat /\ IsFiniteSet(0..(n - 1))
    <3>1. n \in Nat
      OBVIOUS
    <3>2. 0 \in Int /\ n - 1 \in Int
      BY <3>1
    <3> QED BY <3>1, <3>2, FS_Interval
  <2> QED BY <2>1 DEF FiniteSubsetsOf
<1>2. PICK q \in Q : \A r \in Q : <<r, q>> \notin StrictSubsetOrdering(Nat)
  BY <1>1, FS_StrictSubsetOrderingWellFounded, WFMin
<1>3. PICK x \in T : q = 0..(x - 1)
  OBVIOUS
<1>4. ASSUME NEW y \in T, y < x PROVE FALSE
  <2>1. 0..(y - 1) \in Q
    OBVIOUS
  <2>2. 0..(y - 1) \subseteq q /\ 0..(y - 1) # q
    <3>1. y \in q /\ y \notin 0..(y - 1)
      BY <1>3, <1>4
    <3>2. 0..(y - 1) \subseteq q
      BY <1>3, <1>4
    <3> QED BY <3>1, <3>2
  <2>3. 0..(y - 1) \in SUBSET Nat /\ q \in SUBSET Nat
    BY <1>3
  <2> QED BY <1>2, <2>1, <2>2, <2>3 DEF StrictSubsetOrdering
<1> QED BY <1>4

(* Prefix takes the first k components.                                    *)
LEMMA PrefixSeq ==
  ASSUME NEW N, NEW p \in Seq(N), NEW k \in 0..Len(p)
  PROVE  /\ Prefix(p, k) \in Seq(N)
         /\ Len(Prefix(p, k)) = k
         /\ \A i \in 1..k : Prefix(p, k)[i] = p[i]
<1>1. \A i \in 1..k : p[i] \in N
  BY ElementOfSeq, LenProperties
<1>2. 1 \in Int /\ k \in Int /\ Len(p) \in Nat
  BY LenProperties
<1> QED BY <1>1, <1>2, SubSeqProperties DEF Prefix

(* The whole path is a prefix, and so is the path of the root.             *)
LEMMA PrefixEnds ==
  ASSUME NEW N, NEW p \in Seq(N)
  PROVE  Prefix(p, Len(p)) = p /\ Prefix(p, 0) = <<>>
BY SubSeqFull, SubSeqEmpty DEF Prefix

(* A sequence is a prefix if it has these components.                      *)
LEMMA IsThePrefix ==
  ASSUME NEW N, NEW p \in Seq(N), NEW q \in Seq(N), Len(q) <= Len(p),
         \A i \in 1..Len(q) : q[i] = p[i]
  PROVE  q = Prefix(p, Len(q))
<1>1. Len(q) \in 0..Len(p)
  BY LenProperties
<1> DEFINE r == Prefix(p, Len(q))
<1>2. r \in Seq(N) /\ Len(r) = Len(q) /\ \A i \in 1..Len(q) : r[i] = p[i]
  BY <1>1, PrefixSeq
<1> QED BY <1>2, SeqEqual

(* Prefixes of prefixes.                                                   *)
LEMMA PrefixOfPrefix ==
  ASSUME NEW N, NEW p \in Seq(N), NEW k \in 0..Len(p), NEW j \in 0..k
  PROVE  Prefix(Prefix(p, k), j) = Prefix(p, j)
<1> DEFINE q == Prefix(p, k)
           r == Prefix(q, j)
<1>1. Len(p) \in Nat /\ j \in 0..Len(p)
  BY LenProperties
<1>2. q \in Seq(N) /\ Len(q) = k /\ \A i \in 1..k : q[i] = p[i]
  BY PrefixSeq
<1>3. r \in Seq(N) /\ Len(r) = j /\ \A i \in 1..j : r[i] = q[i]
  BY <1>2, PrefixSeq
<1>4. \A i \in 1..j : r[i] = p[i]
  BY <1>2, <1>3
<1> QED BY <1>1, <1>3, <1>4, IsThePrefix

(* Front, the path of the entry above, is the prefix without the last      *)
(* component.                                                              *)
LEMMA FrontIsPrefix ==
  ASSUME NEW N, NEW p \in Seq(N), p # <<>>
  PROVE  /\ Len(p) \in Nat \ {0}
         /\ Front(p) = Prefix(p, Len(p) - 1)
         /\ Len(Front(p)) = Len(p) - 1
         /\ Front(p) \in Seq(N)
<1>1. Len(p) \in Nat \ {0}
  BY EmptySeq
<1>2. Len(p) - 1 \in 0..Len(p)
  BY <1>1
<1>3. Front(p) = Prefix(p, Len(p) - 1)
  BY DEF Front, Prefix
<1> QED BY <1>1, <1>2, <1>3, PrefixSeq

(* A path is made of the path above it and its last component.             *)
LEMMA FrontAndLast ==
  ASSUME NEW N, NEW p \in Seq(N), NEW q \in Seq(N), NEW k \in 1..Len(p),
         q # <<>>, Front(q) = Prefix(p, k - 1), Last(q) = p[k]
  PROVE  q = Prefix(p, k)
<1>1. Len(p) \in Nat /\ k - 1 \in 0..Len(p)
  BY LenProperties
<1>2. Len(q) \in Nat \ {0} /\ Front(q) = Prefix(q, Len(q) - 1) /\ Len(Front(q)) = Len(q) - 1
  BY FrontIsPrefix
<1>3. Len(Prefix(p, k - 1)) = k - 1 /\ \A i \in 1..(k - 1) : Prefix(p, k - 1)[i] = p[i]
  BY <1>1, PrefixSeq
<1>4. Len(q) = k
  BY <1>1, <1>2, <1>3
<1>5. \A i \in 1..(k - 1) : Prefix(q, k - 1)[i] = q[i]
  <2>1. k - 1 \in 0..Len(q)
    BY <1>1, <1>4
  <2> QED BY <2>1, PrefixSeq
<1>6. \A i \in 1..(k - 1) : q[i] = p[i]
  BY <1>2, <1>3, <1>4, <1>5
<1>7. q[k] = p[k]
  BY <1>4 DEF Last
<1>8. \A i \in 1..Len(q) : q[i] = p[i]
  BY <1>1, <1>4, <1>6, <1>7
<1> QED BY <1>1, <1>4, <1>8, IsThePrefix

(* The two parts of a prefix.                                              *)
LEMMA PrefixParts ==
  ASSUME NEW N, NEW p \in Seq(N), NEW k \in 1..Len(p)
  PROVE  /\ Prefix(p, k) # <<>>
         /\ Front(Prefix(p, k)) = Prefix(p, k - 1)
         /\ Last(Prefix(p, k)) = p[k]
<1>1. Len(p) \in Nat /\ k \in 0..Len(p) /\ k - 1 \in 0..k
  BY LenProperties
<1>2. Prefix(p, k) \in Seq(N) /\ Len(Prefix(p, k)) = k /\ Prefix(p, k)[k] = p[k]
  BY <1>1, PrefixSeq
<1>3. Prefix(p, k) # <<>>
  BY <1>1, <1>2, EmptySeq
<1>4. Front(Prefix(p, k)) = Prefix(Prefix(p, k), k - 1)
  BY <1>2, <1>3, FrontIsPrefix
<1> QED BY <1>1, <1>2, <1>3, <1>4, PrefixOfPrefix DEF Last

(* What it means to lie strictly below another path.                       *)
LEMMA StrictPrefix ==
  ASSUME NEW N, NEW p \in Seq(N), NEW q \in Seq(N)
  PROVE  IsStrictPrefix(q, p) <=> Len(q) < Len(p) /\ q = Prefix(p, Len(q))
<1>1. Len(p) \in Nat /\ Len(q) \in Nat
  BY LenProperties
<1>2. SubSeq(q, 1, Len(q)) = q
  BY SubSeqFull
<1>3. Len(q) = Len(p) => Prefix(p, Len(q)) = p
  BY PrefixEnds
<1> QED BY <1>1, <1>2, <1>3 DEF IsStrictPrefix, IsPrefix, Prefix

-----------------------------------------------------------------------------
(* Sorting by rank.                                                        *)

Before(D, R, i) == {j \in D : <<j, i>> \in R}

StrictOrder(D, R) ==
  /\ \A i \in D : <<i, i>> \notin R
  /\ \A i, j \in D : i # j => <<i, j>> \in R \/ <<j, i>> \in R
  /\ \A i, j, k \in D : <<i, j>> \in R /\ <<j, k>> \in R => <<i, k>> \in R

Ranked(D, R) ==
  /\ \A k \in 1..Cardinality(D) : \E i \in D : Cardinality(Before(D, R, i)) = k - 1
  /\ \A i, j \in D : <<i, j>> \in R =>
       Cardinality(Before(D, R, i)) < Cardinality(Before(D, R, j))
  /\ \A i \in D : Cardinality(Before(D, R, i)) \in Nat

(* In a finite set that is strictly ordered the element of rank k - 1      *)
(* exists for every k up to the size of the set, and ranks respect the     *)
(* order.                                                                  *)
LEMMA Ranks ==
  ASSUME NEW D, IsFiniteSet(D), NEW R, StrictOrder(D, R)
  PROVE  Ranked(D, R)
<1> DEFINE n == Cardinality(D)
           rank == [i \in D |-> Cardinality(Before(D, R, i))]
<1>1. n \in Nat
  BY FS_CardinalityType
<1>2. ASSUME NEW i \in D
      PROVE  /\ IsFiniteSet(Before(D, R, i)) /\ Cardinality(Before(D, R, i)) \in Nat
             /\ Cardinality(Before(D, R, i) \cup {i}) = Cardinality(Before(D, R, i)) + 1
  <2>1. Before(D, R, i) \in SUBSET D /\ i \notin Before(D, R, i)
    BY DEF Before, StrictOrder
  <2>2. IsFiniteSet(Before(D, R, i))
    BY <2>1, FS_Subset
  <2> QED BY <2>1, <2>2, FS_CardinalityType, FS_AddElement
<1>3. ASSUME NEW i \in D, NEW j \in D, <<i, j>> \in R
      PROVE  Cardinality(Before(D, R, i)) < Cardinality(Before(D, R, j))
  <2>1. Before(D, R, i) \cup {i} \subseteq Before(D, R, j)
    BY <1>3 DEF Before, StrictOrder
  <2>2. Cardinality(Before(D, R, i) \cup {i}) <= Cardinality(Before(D, R, j))
    BY <1>2, <2>1, FS_Subset
  <2> DEFINE a == Cardinality(Before(D, R, i))
             b == Cardinality(Before(D, R, j))
             c == Cardinality(Before(D, R, i) \cup {i})
  <2>3. a \in Nat /\ b \in Nat /\ c = a + 1 /\ c <= b
    BY <1>2, <2>2
  <2> HIDE DEF a, b, c
  <2>4. a < b
    BY <2>3
  <2> QED BY <2>4 DEF a, b
<1>4. ASSUME NEW i \in D PROVE rank[i] \in 0..(n - 1)
  <2>1. Before(D, R, i) \cup {i} \in SUBSET D
    BY DEF Before
  <2>2. Cardinality(Before(D, R, i) \cup {i}) <= n
    BY <2>1, FS_Subset
  <2> QED BY <1>1, <1>2, <2>2
<1>5. rank \in Injection(D, 0..(n - 1))
  <2>1. rank \in [D -> 0..(n - 1)]
    BY <1>4
  <2>2. ASSUME NEW i \in D, NEW j \in D, rank[i] = rank[j] PROVE i = j
    <3>1. ASSUME i # j PROVE FALSE
      <4>1. rank[i] < rank[j] \/ rank[j] < rank[i]
        BY <1>3, <3>1 DEF StrictOrder
      <4>2. rank[i] \in Nat /\ rank[j] \in Nat
        BY <1>2
      <4> HIDE DEF rank
      <4> QED BY <2>2, <4>1, <4>2
    <3> QED BY <3>1
  <2> HIDE DEF rank
  <2>3. DOMAIN rank = D
    BY <2>1
  <2> QED BY <2>1, <2>2, <2>3 DEF Injection, IsInjective
<1>6. IsFiniteSet(0..(n - 1)) /\ Cardinality(0..(n - 1)) = n
  <2>1. 0 \in Int /\ n - 1 \in Int
    BY <1>1
  <2> QED BY <1>1, <2>1, FS_Interval
<1>7. rank \in Surjection(D, 0..(n - 1))
  <2> HIDE DEF rank
  <2> QED BY <1>5, <1>6, FS_Injection
<1>8. ASSUME NEW k \in 1..n PROVE \E i \in D : Cardinality(Before(D, R, i)) = k - 1
  <2>1. k - 1 \in 0..(n - 1)
    BY <1>1
  <2>2. \E i \in D : rank[i] = k - 1
    <3> HIDE DEF rank
    <3> QED BY <1>7, <2>1 DEF Surjection
  <2> QED BY <2>2
<1> QED BY <1>2, <1>3, <1>8 DEF Ranked

-----------------------------------------------------------------------------
(* What Grown says of one entry.                                           *)
LEMMA GrownEntry ==
  ASSUME NEW N, NEW v, Grown(v, N)
  PROVE  /\ Len(v) \in Nat \ {0} /\ DOMAIN v = 1..Len(v) /\ ROOT \in DOMAIN v
         /\ \A id \in DOMAIN v :
              /\ v[id] \in Entries(N)
              /\ v[id].path \in Seq(N)
              /\ v[id].childs \in Seq(Nat)
              /\ Len(v[id].childs) \in Nat /\ DOMAIN v[id].childs = 1..Len(v[id].childs)
              /\ v[id].path = <<>> <=> id = ROOT
<1>1. v \in Seq(Entries(N)) /\ v # <<>>
  BY DEF Grown
<1>2. Len(v) \in Nat \ {0} /\ DOMAIN v = 1..Len(v) /\ ROOT \in DOMAIN v
  BY <1>1, LenProperties, EmptySeq DEF ROOT
<1>3. ASSUME NEW id \in DOMAIN v PROVE v[id] \in Entries(N)
  BY <1>1, <1>2, ElementOfSeq
<1>4. ASSUME NEW id \in DOMAIN v PROVE v[id].path \in Seq(N) /\ v[id].childs \in Seq(Nat)
  BY <1>3 DEF Entries
<1>5. ASSUME NEW id \in DOMAIN v PROVE v[id].path = <<>> <=> id = ROOT
  BY <1>2 DEF Grown
<1> QED BY <1>2, <1>3, <1>4, <1>5, LenProperties

(* child_of finds the one entry below an entry that has this path.         *)
LEMMA ChildOf ==
  ASSUME NEW N, NEW v, Grown(v, N), NEW p \in Seq(N), NEW k \in 1..Len(p),
         NEW id \in DOMAIN v, v[id].path = Prefix(p, k - 1)
  PROVE  {child_of(v, id, p[k])} \ {NoEntry} = {j \in DOMAIN v : v[j].path = Prefix(p, k)}
<1> DEFINE cs == v[id].childs
           named == {i \in DOMAIN cs : Last(v[cs[i]].path) = p[k]}
           first == CHOOSE i \in named : \A j \in named : i <= j
<1>1. ASSUME NEW i \in named PROVE cs[i] \in DOMAIN v \ {ROOT} /\ v[cs[i]].path = Prefix(p, k)
  <2>1. cs[i] \in DOMAIN v \ {ROOT} /\ Front(v[cs[i]].path) = Prefix(p, k - 1)
    BY DEF Grown
  <2>2. v[cs[i]].path \in Seq(N) /\ v[cs[i]].path # <<>>
    BY <2>1, GrownEntry
  <2> QED BY <2>1, <2>2, FrontAndLast
<1>2. ASSUME NEW j \in DOMAIN v, v[j].path = Prefix(p, k) PROVE \E i \in named : cs[i] = j
  <2>1. Prefix(p, k) # <<>> /\ Front(Prefix(p, k)) = Prefix(p, k - 1) /\ Last(Prefix(p, k)) = p[k]
    BY PrefixParts
  <2>2. j # ROOT
    BY <1>2, <2>1, GrownEntry
  <2>3. PICK above \in DOMAIN v : \E i \in DOMAIN v[above].childs : v[above].childs[i] = j
    BY <2>2 DEF Grown
  <2>4. PICK i \in DOMAIN v[above].childs : v[above].childs[i] = j
    BY <2>3
  <2>5. v[above].path = Prefix(p, k - 1)
    BY <1>2, <2>1, <2>4 DEF Grown
  <2>6. above = id
    BY <2>5 DEF Grown
  <2> QED BY <1>2, <2>1, <2>4, <2>6
<1>3. child_of(v, id, p[k]) = IF named = {} THEN NoEntry ELSE cs[first]
  BY DEF child_of
<1>4. CASE named = {}
  BY <1>2, <1>3, <1>4
<1>5. CASE named # {}
  <2>1. named \subseteq Nat
    BY GrownEntry
  <2>2. \E i \in named : \A j \in named : i <= j
    BY <1>5, <2>1, LeastNumber
  <2>3. first \in named
    BY <2>2
  <2>4. cs[first] \in DOMAIN v /\ v[cs[first]].path = Prefix(p, k)
    BY <1>1, <2>3
  <2>5. cs[first] # NoEntry
    BY <2>4, GrownEntry DEF NoEntry
  <2>6. \A j \in DOMAIN v : v[j].path = Prefix(p, k) => j = cs[first]
    BY <2>4 DEF Grown
  <2> QED BY <1>3, <1>5, <2>4, <2>5, <2>6
<1> QED BY <1>4, <1>5

(* What is there has what is above it there.                               *)
LEMMA EntryAbove ==
  ASSUME NEW N, NEW v, Grown(v, N), NEW p \in Seq(N), NEW k \in 1..Len(p),
         NEW j \in DOMAIN v, v[j].path = Prefix(p, k)
  PROVE  \E id \in DOMAIN v : v[id].path = Prefix(p, k - 1)
<1>1. Prefix(p, k) # <<>> /\ Front(Prefix(p, k)) = Prefix(p, k - 1)
  BY PrefixParts
<1>2. j # ROOT
  BY <1>1, GrownEntry
<1>3. PICK above \in DOMAIN v : \E i \in DOMAIN v[above].childs : v[above].childs[i] = j
  BY <1>2 DEF Grown
<1>4. PICK i \in DOMAIN v[above].childs : v[above].childs[i] = j
  BY <1>3
<1>5. v[above].path = Prefix(p, k - 1)
  BY <1>1, <1>4 DEF Grown
<1> QED BY <1>5

(* cid finds the entry of a path if there is one.                          *)
LEMMA CidMeans ==
  ASSUME NEW N, NEW v, Grown(v, N), NEW p \in Seq(N)
  PROVE  /\ \A id \in DOMAIN v : v[id].path = p => cid(v, p) = id
         /\ (\A id \in DOMAIN v : v[id].path # p) => cid(v, p) = NoEntry
<1> DEFINE there(k) == {j \in DOMAIN v : v[j].path = Prefix(p, k)}
           at == [k \in 0..Len(p) |-> there(k)]
           Rec(f) == f = [k \in 0..Len(p) |->
                            IF k = 0 THEN {ROOT}
                            ELSE {child_of(v, id, p[k]) : id \in f[k - 1]} \ {NoEntry}]
<1>1. Len(p) \in Nat
  BY LenProperties
<1>2. there(0) = {ROOT}
  BY PrefixEnds, GrownEntry
<1>3. ASSUME NEW k \in 1..Len(p)
      PROVE  there(k) = {child_of(v, id, p[k]) : id \in there(k - 1)} \ {NoEntry}
  <2>1. CASE there(k - 1) = {}
    <3>1. there(k) = {}
      BY <2>1, EntryAbove
    <3> QED BY <2>1, <3>1
  <2>2. CASE there(k - 1) # {}
    <3>1. PICK id \in DOMAIN v : v[id].path = Prefix(p, k - 1)
      BY <2>2
    <3>2. there(k - 1) = {id}
      BY <3>1 DEF Grown
    <3>3. {child_of(v, id, p[k])} \ {NoEntry} = there(k)
      BY <3>1, ChildOf
    <3> QED BY <3>2, <3>3
  <2> QED BY <2>1, <2>2
<1> HIDE DEF there
<1>4. Rec(at)
  <2>1. ASSUME NEW k \in 0..Len(p)
        PROVE  at[k] = IF k = 0 THEN {ROOT}
                       ELSE {child_of(v, id, p[k]) : id \in at[k - 1]} \ {NoEntry}
    <3>1. CASE k = 0
      BY <1>1, <1>2, <3>1
    <3>2. CASE k # 0
      <4>1. k \in 1..Len(p) /\ k - 1 \in 0..Len(p)
        BY <1>1, <3>2
      <4> QED BY <1>3, <3>2, <4>1
    <3> QED BY <3>1, <3>2
  <2> QED BY <2>1
<1>5. ASSUME NEW f, Rec(f) PROVE f = at
  <2> DEFINE bad == {k \in 0..Len(p) : f[k] # at[k]}
  <2>1. ASSUME bad # {} PROVE FALSE
    <3>1. bad \subseteq Nat
      BY <1>1
    <3>2. PICK k \in bad : \A j \in bad : k <= j
      BY <2>1, <3>1, LeastNumber
    <3>3. k # 0
      BY <1>4, <1>5, <1>1
    <3>4. k - 1 \in 0..Len(p) /\ k - 1 \notin bad
      BY <1>1, <3>2, <3>3
    <3>5. f[k - 1] = at[k - 1]
      BY <3>4
    <3>6. f[k] = at[k]
      BY <1>4, <1>5, <3>3, <3>5
    <3> QED BY <3>6
  <2> QED BY <1>5, <2>1
<1> DEFINE got == CHOOSE f : Rec(f)
<1>6. cid(v, p) = IF got[Len(p)] = {} THEN NoEntry ELSE CHOOSE id \in got[Len(p)] : TRUE
  BY Zenon DEF cid
<1> HIDE DEF Rec
<1>7. got = at
  BY <1>4, <1>5, Zenon
<1>8. at[Len(p)] = {j \in DOMAIN v : v[j].path = p}
  BY <1>1, PrefixEnds DEF there
<1>9. \A id \in DOMAIN v : v[id].path = p => {j \in DOMAIN v : v[j].path = p} = {id}
  BY DEF Grown
<1> QED BY <1>6, <1>7, <1>8, <1>9

-----------------------------------------------------------------------------
(* cid_and_create.                                                         *)

(* The first k components have an entry.                                   *)
There(v, p, k) == \E id \in DOMAIN v : v[id].path = Prefix(p, k)

(* What has an entry has everything above it in the tree.                  *)
LEMMA AllAbove ==
  ASSUME NEW N, NEW v, Grown(v, N), NEW p \in Seq(N), NEW k \in 0..Len(p), There(v, p, k),
         NEW j \in 0..k
  PROVE  There(v, p, j)
<1>1. Len(p) \in Nat
  BY LenProperties
<1> DEFINE bad == {m \in 0..k : ~There(v, p, k - m)}
<1>2. ASSUME bad # {} PROVE FALSE
  <2>0. bad \subseteq Nat
    BY <1>1
  <2>1. PICK m \in bad : \A i \in bad : m <= i
    BY <1>2, <2>0, LeastNumber
  <2>2. m # 0
    BY <1>1, <2>1
  <2>3. m - 1 \in 0..k /\ m - 1 \notin bad
    BY <1>1, <2>1, <2>2
  <2>4. There(v, p, k - (m - 1))
    BY <2>3
  <2>5. k - (m - 1) \in 1..Len(p) /\ k - (m - 1) - 1 = k - m
    BY <1>1, <2>1, <2>2
  <2>6. There(v, p, k - m)
    BY <2>4, <2>5, EntryAbove DEF There
  <2> QED BY <2>1, <2>6
<1>3. k - j \in 0..k /\ k - (k - j) = j
  BY <1>1
<1> QED BY <1>2, <1>3

(* cid of the first components.                                            *)
LEMMA CidOfPrefix ==
  ASSUME NEW N, NEW v, Grown(v, N), NEW p \in Seq(N), NEW k \in 0..Len(p)
  PROVE  /\ cid(v, Prefix(p, k)) # NoEntry <=> There(v, p, k)
         /\ There(v, p, k) => /\ cid(v, Prefix(p, k)) \in DOMAIN v
                              /\ v[cid(v, Prefix(p, k))].path = Prefix(p, k)
<1>1. Prefix(p, k) \in Seq(N)
  BY PrefixSeq
<1>2. \A id \in DOMAIN v : id # NoEntry
  BY GrownEntry DEF NoEntry
<1>3. CASE There(v, p, k)
  <2>1. PICK id \in DOMAIN v : v[id].path = Prefix(p, k)
    BY <1>3 DEF There
  <2>2. cid(v, Prefix(p, k)) = id
    BY <1>1, <2>1, CidMeans
  <2> QED BY <1>2, <1>3, <2>1, <2>2
<1>4. CASE ~There(v, p, k)
  <2>1. cid(v, Prefix(p, k)) = NoEntry
    BY <1>1, <1>4, CidMeans DEF There
  <2> QED BY <1>4, <2>1
<1> QED BY <1>3, <1>4

(* Known is where the entries end.                                         *)
LEMMA KnownMeans ==
  ASSUME NEW N, NEW v, Grown(v, N), NEW p \in Seq(N)
  PROVE  /\ Known(v, p) \in 0..Len(p)
         /\ \A k \in 0..Len(p) : There(v, p, k) <=> k <= Known(v, p)
<1>1. Len(p) \in Nat
  BY LenProperties
<1> DEFINE Fits(k) == There(v, p, k) /\ (k < Len(p) => ~There(v, p, k + 1))
           missing == {k \in 0..Len(p) : ~There(v, p, k)}
<1>2. There(v, p, 0)
  BY PrefixEnds, GrownEntry DEF There
<1>3. \E k \in 0..Len(p) : Fits(k)
  <2>1. CASE missing = {}
    BY <1>1, <2>1
  <2>2. CASE missing # {}
    <3>0. missing \subseteq Nat
      BY <1>1
    <3>1. PICK k \in missing : \A j \in missing : k <= j
      BY <2>2, <3>0, LeastNumber
    <3>2. k # 0
      BY <1>2, <3>1
    <3>3. k - 1 \in 0..Len(p) /\ k - 1 \notin missing /\ k - 1 + 1 = k
      BY <1>1, <3>1, <3>2
    <3> QED BY <3>1, <3>3
  <2> QED BY <2>1, <2>2
<1>4. ASSUME NEW k \in 0..Len(p)
      PROVE  (/\ cid(v, Prefix(p, k)) # NoEntry
              /\ k < Len(p) => cid(v, Prefix(p, k + 1)) = NoEntry) <=> Fits(k)
  <2>1. cid(v, Prefix(p, k)) # NoEntry <=> There(v, p, k)
    BY CidOfPrefix
  <2>2. k < Len(p) => (cid(v, Prefix(p, k + 1)) # NoEntry <=> There(v, p, k + 1))
    <3>1. k < Len(p) => k + 1 \in 0..Len(p)
      BY <1>1
    <3> QED BY <3>1, CidOfPrefix
  <2> QED BY <2>1, <2>2
<1>5. Known(v, p) \in 0..Len(p) /\ Fits(Known(v, p))
  BY <1>3, <1>4 DEF Known
<1>6. ASSUME NEW k \in 0..Len(p), There(v, p, k), k > Known(v, p) PROVE FALSE
  <2>1. Known(v, p) + 1 \in 0..k /\ Known(v, p) < Len(p)
    BY <1>1, <1>5, <1>6
  <2> QED BY <1>5, <1>6, <2>1, AllAbove
<1>7. ASSUME NEW k \in 0..Len(p), k <= Known(v, p) PROVE There(v, p, k)
  <2>1. k \in 0..Known(v, p)
    BY <1>5, <1>7
  <2> QED BY <1>5, <2>1, AllAbove
<1>8. \A k \in 0..Len(p) : k <= Known(v, p) \/ k > Known(v, p)
  BY <1>1, <1>5
<1> QED BY <1>5, <1>6, <1>7, <1>8

(* Along goes through the entries that are known and then through those    *)
(* that are appended.                                                      *)
LEMMA AlongMeans ==
  ASSUME NEW N, NEW v, Grown(v, N), NEW p \in Seq(N), NEW k \in 0..Len(p)
  PROVE  /\ k <= Known(v, p) => /\ Along(v, p, k) \in DOMAIN v
                                /\ v[Along(v, p, k)].path = Prefix(p, k)
         /\ k > Known(v, p) => Along(v, p, k) = Len(v) + k - Known(v, p)
<1>1. Known(v, p) \in 0..Len(p) /\ Len(p) \in Nat
  BY KnownMeans, LenProperties
<1>2. There(v, p, k) <=> k <= Known(v, p)
  BY KnownMeans
<1>3. ~(k <= Known(v, p)) <=> k > Known(v, p)
  BY <1>1
<1> QED BY <1>2, <1>3, CidOfPrefix DEF Along

(* Different prefixes have different lengths.                              *)
LEMMA PrefixesDiffer ==
  ASSUME NEW N, NEW p \in Seq(N), NEW j \in 0..Len(p), NEW k \in 0..Len(p),
         Prefix(p, j) = Prefix(p, k)
  PROVE  j = k
BY PrefixSeq

(* How a tree `w` comes from `v` when the path p is created, of which K    *)
(* components are known.                                                   *)
Appended(v, p, K, w, N) ==
  /\ w \in Seq(Entries(N)) /\ Len(w) = Len(v) + Len(p) - K
  /\ \A i \in DOMAIN v :
       /\ w[i].path = v[i].path
       /\ w[i].is_file = v[i].is_file
       /\ w[i].is_dir <=> (v[i].is_dir \/ \E d \in 0..(Len(p) - 1) : v[i].path = Prefix(p, d))
       /\ w[i].childs = IF K < Len(p) /\ v[i].path = Prefix(p, K)
                        THEN Append(v[i].childs, Len(v) + 1) ELSE v[i].childs
  /\ \A m \in 1..(Len(p) - K) :
       /\ w[Len(v) + m].path = Prefix(p, K + m)
       /\ w[Len(v) + m].is_file = FALSE
       /\ w[Len(v) + m].is_dir <=> (K + m < Len(p))
       /\ w[Len(v) + m].childs = IF K + m < Len(p) THEN <<Len(v) + m + 1>> ELSE <<>>

(* cid_and_create: the entries it appends, the one it appends them to, the *)
(* directories it marks and the entry it returns.                          *)
LEMMA CreateMeans ==
  ASSUME NEW N, NEW v, Grown(v, N), NEW p \in Seq(N)
  PROVE  /\ Appended(v, p, Known(v, p), cid_and_create(v, p).vfs, N)
         /\ cid_and_create(v, p).id = Along(v, p, Len(p))
<1> DEFINE K == Known(v, p)
           w == cid_and_create(v, p).vfs
<1> DEFINE n == Len(v)
           L == Len(p)
           new == [k \in 1..(L - K) |-> NewEntry(Prefix(p, K + k))]
           all == v \o new
           visited == {Along(v, p, k) : k \in 0..(L - 1)}
           depth(id) == CHOOSE k \in 0..(L - 1) : Along(v, p, k) = id
           child(id) == Along(v, p, 1 + depth(id))
<1>0. K = Known(v, p) /\ w = cid_and_create(v, p).vfs
  OBVIOUS
<1>1. w = [id \in DOMAIN all |->
             IF id \notin visited THEN all[id]
             ELSE [all[id] EXCEPT !.is_dir = TRUE,
                                  !.childs = IF child(id) > Len(v)
                                             THEN Append(@, child(id)) ELSE @]]
  BY DEF cid_and_create
<1>2. cid_and_create(v, p).id = Along(v, p, Len(p))
  BY DEF cid_and_create
<1>3. n \in Nat \ {0} /\ DOMAIN v = 1..n /\ L \in Nat /\ K \in 0..L
  BY GrownEntry, LenProperties, KnownMeans
<1> HIDE DEF K, w
<1>4. new \in Seq(Entries(N)) /\ Len(new) = L - K
  <2>1. \A k \in 1..(L - K) : K + k \in 0..L
    BY <1>3
  <2>2. \A k \in 1..(L - K) : Prefix(p, K + k) \in Seq(N)
    BY <2>1, PrefixSeq
  <2>3. <<>> \in Seq(Nat)
    BY EmptySeq
  <2>4. \A k \in 1..(L - K) : NewEntry(Prefix(p, K + k)) \in Entries(N)
    BY <2>2, <2>3 DEF NewEntry, Entries
  <2>5. L - K \in Nat
    BY <1>3
  <2>6. new \in [1..(L - K) -> Entries(N)]
    BY <2>4
  <2> HIDE DEF new
  <2> QED BY <2>5, <2>6
<1>5. v \in Seq(Entries(N))
  BY DEF Grown
<1>6. /\ all \in Seq(Entries(N)) /\ Len(all) = n + L - K /\ DOMAIN all = 1..(n + L - K)
      /\ \A i \in DOMAIN v : all[i] = v[i]
      /\ \A m \in 1..(L - K) : n + m \in DOMAIN all /\ all[n + m] = NewEntry(Prefix(p, K + m))
  <2>1. /\ all \in Seq(Entries(N)) /\ Len(all) = n + (L - K)
        /\ \A i \in 1..(n + (L - K)) : all[i] = IF i <= n THEN v[i] ELSE new[i - n]
    <3> HIDE DEF new
    <3>1. /\ v \o new \in Seq(Entries(N)) /\ Len(v \o new) = n + Len(new)
          /\ \A i \in 1..(n + Len(new)) : (v \o new)[i] = IF i <= n THEN v[i] ELSE new[i - n]
      BY <1>4, <1>5, ConcatProperties
    <3> QED BY <1>4, <3>1
  <2>2. Len(all) = n + L - K
    BY <1>3, <2>1
  <2>3. DOMAIN all = 1..(n + L - K)
    BY <2>1, <2>2, LenProperties
  <2>4. \A i \in DOMAIN v : all[i] = v[i]
    BY <1>3, <2>1
  <2>5. ASSUME NEW m \in 1..(L - K) PROVE n + m \in DOMAIN all /\ all[n + m] = NewEntry(Prefix(p, K + m))
    <3>1. n + m \in 1..(n + (L - K)) /\ ~(n + m <= n) /\ n + m - n = m
      BY <1>3
    <3>2. all[n + m] = new[m]
      <4> HIDE DEF new, all
      <4> QED BY <2>1, <3>1
    <3>3. new[m] = NewEntry(Prefix(p, K + m))
      OBVIOUS
    <3>4. n + m \in 1..(n + L - K)
      BY <1>3
    <3> HIDE DEF new, all
    <3> QED BY <2>3, <3>2, <3>3, <3>4
  <2> HIDE DEF all
  <2> QED BY <2>1, <2>2, <2>3, <2>4, <2>5
<1> HIDE DEF all, new
<1>10. \A m \in 1..(L - K) : /\ all[n + m].path = Prefix(p, K + m) /\ all[n + m].childs = <<>>
                               /\ all[n + m].is_file = FALSE /\ all[n + m].is_dir = FALSE
  <2> SUFFICES ASSUME NEW m \in 1..(L - K)
               PROVE  /\ all[n + m].path = Prefix(p, K + m) /\ all[n + m].childs = <<>>
                      /\ all[n + m].is_file = FALSE /\ all[n + m].is_dir = FALSE
    OBVIOUS
  <2>1. all[n + m] = [path |-> Prefix(p, K + m), childs |-> <<>>, is_file |-> FALSE, is_dir |-> FALSE]
    BY <1>6 DEF NewEntry
  <2> DEFINE e == all[n + m]
             q == Prefix(p, K + m)
  <2> HIDE DEF e, q
  <2>2. e = [path |-> q, childs |-> <<>>, is_file |-> FALSE, is_dir |-> FALSE]
    BY <2>1 DEF e, q
  <2>3. e.path = q /\ e.childs = <<>> /\ e.is_file = FALSE /\ e.is_dir = FALSE
    BY <2>2
  <2> QED BY <2>3 DEF e, q
<1>7. \A i \in DOMAIN all : (i \in DOMAIN v) \/ \E m \in 1..(L - K) : i = n + m
  <2> SUFFICES ASSUME NEW i \in DOMAIN all, i \notin DOMAIN v PROVE i - n \in 1..(L - K) /\ i = n + (i - n)
    OBVIOUS
  <2> QED BY <1>3, <1>6
<1>8. ASSUME NEW i \in DOMAIN all, NEW k \in 0..L
      PROVE  Along(v, p, k) = i <=> all[i].path = Prefix(p, k)
  <2>1. CASE k <= K
    <3>1. Along(v, p, k) \in DOMAIN v /\ v[Along(v, p, k)].path = Prefix(p, k)
      BY <1>0, <2>1, AlongMeans
    <3>2. CASE i \in DOMAIN v
      BY <1>6, <3>1, <3>2 DEF Grown
    <3>3. ASSUME NEW m \in 1..(L - K), i = n + m
          PROVE Along(v, p, k) # i /\ all[i].path # Prefix(p, k)
      <4>1. K + m \in 0..L /\ K + m # k /\ i \notin DOMAIN v
        BY <1>3, <2>1, <3>3
      <4>2. all[i].path = Prefix(p, K + m)
        BY <1>10, <3>3
      <4> QED BY <3>1, <4>1, <4>2, PrefixesDiffer
    <3> QED BY <1>7, <3>2, <3>3
  <2>2. CASE k > K
    <3>1. Along(v, p, k) = n + k - K
      BY <1>0, <2>2, AlongMeans
    <3>2. ASSUME i \in DOMAIN v PROVE Along(v, p, k) # i /\ all[i].path # Prefix(p, k)
      <4>1. ~There(v, p, k)
        BY <1>0, <1>3, <2>2, KnownMeans
      <4>2. all[i].path # Prefix(p, k)
        BY <1>6, <3>2, <4>1 DEF There
      <4>3. n + k - K # i
        BY <1>3, <2>2, <3>2
      <4> QED BY <3>1, <4>2, <4>3
    <3>3. ASSUME NEW m \in 1..(L - K), i = n + m
          PROVE Along(v, p, k) = i <=> all[i].path = Prefix(p, k)
      <4>1. K + m \in 0..L
        BY <1>3
      <4>5. n + k - K = n + m <=> k = K + m
        BY <1>3
      <4>2. all[i].path = Prefix(p, K + m)
        BY <1>10, <3>3
      <4>3. Prefix(p, K + m) = Prefix(p, k) <=> k = K + m
        BY <4>1, PrefixesDiffer
      <4> QED BY <3>1, <3>3, <4>1, <4>2, <4>3, <4>5
    <3> QED BY <1>7, <3>2, <3>3
  <2> QED BY <1>3, <2>1, <2>2
<1>9. ASSUME NEW i \in DOMAIN all
      PROVE  /\ (\A d \in 0..(L - 1) : all[i].path # Prefix(p, d)) => w[i] = all[i]
             /\ \A d \in 0..(L - 1) : all[i].path = Prefix(p, d) =>
                  w[i] = [all[i] EXCEPT !.is_dir = TRUE,
                                        !.childs = IF d >= K THEN Append(@, n + d + 1 - K) ELSE @]
  <2>1. \A d \in 0..(L - 1) : d \in 0..L /\ d + 1 \in 0..L
    BY <1>3
  <2>2. i \in visited <=> \E d \in 0..(L - 1) : all[i].path = Prefix(p, d)
    BY <1>8, <2>1
  <2>3. ASSUME NEW d \in 0..(L - 1), all[i].path = Prefix(p, d)
        PROVE  w[i] = [all[i] EXCEPT !.is_dir = TRUE,
                                     !.childs = IF d >= K THEN Append(@, n + d + 1 - K) ELSE @]
    <3>1. \A e \in 0..(L - 1) : Along(v, p, e) = i <=> e = d
      BY <1>8, <2>1, <2>3, PrefixesDiffer
    <3>2. depth(i) = d
      BY <3>1
    <3>3. child(i) = Along(v, p, d + 1)
      <4>1. 1 + d = d + 1
        BY <1>3
      <4> QED BY <3>2, <4>1
    <3>4. d >= K => child(i) = n + d + 1 - K /\ child(i) > n
      <4>1. d >= K => d + 1 > K
        BY <1>3
      <4>2. d >= K => Along(v, p, d + 1) = n + (d + 1) - K
        BY <1>0, <2>1, <4>1, AlongMeans
      <4>3. d >= K => n + (d + 1) - K = n + d + 1 - K /\ n + (d + 1) - K > n
        BY <1>3
      <4> QED BY <3>3, <4>2, <4>3
    <3>5. ~(d >= K) => ~(child(i) > n)
      <4>1. ~(d >= K) => d + 1 <= K
        BY <1>3
      <4>2. ~(d >= K) => Along(v, p, d + 1) \in 1..n
        BY <1>0, <1>3, <2>1, <4>1, AlongMeans
      <4> QED BY <1>3, <3>3, <4>2
    <3>6. i \in visited
      BY <2>2, <2>3
    <3> HIDE DEF visited, child
    <3> QED BY <1>1, <3>4, <3>5, <3>6
  <2> HIDE DEF visited, child
  <2> QED BY <1>1, <2>2, <2>3
<1>11. ASSUME NEW i \in DOMAIN v
       PROVE  /\ w[i].path = v[i].path
              /\ w[i].is_file = v[i].is_file
              /\ w[i].is_dir <=> (v[i].is_dir \/ \E d \in 0..(L - 1) : v[i].path = Prefix(p, d))
              /\ w[i].childs = IF K < L /\ v[i].path = Prefix(p, K)
                               THEN Append(v[i].childs, n + 1) ELSE v[i].childs
              /\ w[i] \in Entries(N)
  <2>1. i \in DOMAIN all /\ all[i] = v[i] /\ v[i] \in Entries(N)
    BY <1>3, <1>6, GrownEntry
  <2>2. CASE \A d \in 0..(L - 1) : v[i].path # Prefix(p, d)
    <3>1. w[i] = v[i]
      BY <1>9, <2>1, <2>2
    <3>2. ~(K < L /\ v[i].path = Prefix(p, K))
      BY <1>3, <2>2
    <3> QED BY <2>1, <2>2, <3>1, <3>2 DEF Entries
  <2>3. ASSUME NEW d \in 0..(L - 1), v[i].path = Prefix(p, d)
        PROVE  /\ w[i] = [v[i] EXCEPT !.is_dir = TRUE,
                                       !.childs = IF K < L /\ v[i].path = Prefix(p, K)
                                                  THEN Append(@, n + 1) ELSE @]
               /\ Append(v[i].childs, n + 1) \in Seq(Nat)
    <3>1. (d \in 0..L /\ K < L) \/ d < K
      BY <1>3
    <3>2. d <= K
      BY <1>0, <1>3, <2>3, KnownMeans DEF There
    <3>3. d >= K <=> d = K
      BY <1>3, <3>2
    <3>4. K < L /\ v[i].path = Prefix(p, K) <=> d = K
      <4>1. d < L /\ d \in 0..L
        BY <1>3
      <4> QED BY <1>3, <2>3, <4>1, PrefixesDiffer
    <3>5. w[i] = [v[i] EXCEPT !.is_dir = TRUE,
                              !.childs = IF d >= K THEN Append(@, n + d + 1 - K) ELSE @]
      BY <1>9, <2>1, <2>3
    <3>6. d = K => n + d + 1 - K = n + 1
      BY <1>3
    <3>7. Append(v[i].childs, n + 1) \in Seq(Nat)
      BY <1>3, <2>1, AppendProperties DEF Entries
    <3> QED BY <3>3, <3>4, <3>5, <3>6, <3>7
  <2>4. ASSUME NEW d \in 0..(L - 1), v[i].path = Prefix(p, d)
        PROVE  /\ w[i].path = v[i].path
               /\ w[i].is_file = v[i].is_file
               /\ w[i].is_dir = TRUE
               /\ w[i].childs = IF K < L /\ v[i].path = Prefix(p, K)
                                THEN Append(v[i].childs, n + 1) ELSE v[i].childs
               /\ w[i] \in Entries(N)
    BY <2>1, <2>3, <2>4 DEF Entries
  <2> QED BY <2>2, <2>4
<1>12. ASSUME NEW m \in 1..(L - K)
       PROVE  /\ w[n + m].path = Prefix(p, K + m)
              /\ w[n + m].is_file = FALSE
              /\ w[n + m].is_dir <=> (K + m < L)
              /\ w[n + m].childs = IF K + m < L THEN <<n + m + 1>> ELSE <<>>
              /\ w[n + m] \in Entries(N)
  <2>1. n + m \in DOMAIN all /\ all[n + m] \in Entries(N)
    BY <1>6, ElementOfSeq
  <2>2. K + m \in 0..L
    BY <1>3
  <2>3. CASE K + m < L
    <3>1. K + m \in 0..(L - 1) /\ K + m >= K /\ n + (K + m) + 1 - K = n + m + 1
      BY <1>3, <2>3
    <3>2. w[n + m] = [all[n + m] EXCEPT !.is_dir = TRUE, !.childs = Append(@, n + m + 1)]
      BY <1>9, <1>10, <2>1, <3>1
    <3>3. Append(<<>>, n + m + 1) = <<n + m + 1>> /\ <<n + m + 1>> \in Seq(Nat)
      BY <1>3
    <3> DEFINE e == all[n + m]
               x == w[n + m]
    <3>4. /\ e.path = Prefix(p, K + m) /\ e.childs = <<>> /\ e.is_file = FALSE
          /\ e \in Entries(N) /\ x = [e EXCEPT !.is_dir = TRUE, !.childs = Append(@, n + m + 1)]
      BY <1>10, <2>1, <3>2
    <3> HIDE DEF e, x
    <3>5. /\ x.path = Prefix(p, K + m) /\ x.is_file = FALSE /\ x.is_dir = TRUE
          /\ x.childs = Append(<<>>, n + m + 1)
      BY <3>4 DEF Entries
    <3>6. x \in Entries(N)
      BY <3>3, <3>4 DEF Entries
    <3> QED BY <2>3, <3>3, <3>5, <3>6 DEF x
  <2>4. CASE ~(K + m < L)
    <3>1. \A d \in 0..(L - 1) : d \in 0..L /\ d # K + m
      BY <1>3, <2>4
    <3>2. \A d \in 0..(L - 1) : all[n + m].path # Prefix(p, d)
      BY <1>10, <2>2, <3>1, PrefixesDiffer
    <3>3. w[n + m] = all[n + m]
      BY <1>9, <2>1, <3>2
    <3> DEFINE e == all[n + m]
    <3>4. /\ e.path = Prefix(p, K + m) /\ e.childs = <<>> /\ e.is_file = FALSE /\ e.is_dir = FALSE
          /\ e \in Entries(N) /\ w[n + m] = e
      BY <1>10, <2>1, <3>3
    <3> HIDE DEF e
    <3>5. w[n + m].is_dir <=> (K + m < L)
      BY <2>4, <3>4, Zenon
    <3>6. w[n + m].childs = IF K + m < L THEN <<n + m + 1>> ELSE <<>>
      BY <2>4, <3>4, Zenon
    <3> QED BY <3>4, <3>5, <3>6, Zenon
  <2> QED BY <2>3, <2>4
<1> HIDE DEF visited, child
<1>13. DOMAIN w = 1..(n + L - K) /\ n + L - K \in Nat
  <2>1. DOMAIN w = DOMAIN all
    BY <1>1
  <2> QED BY <1>3, <1>6, <2>1
<1>14. w \in Seq(Entries(N)) /\ Len(w) = n + L - K
  <2>1. ASSUME NEW i \in 1..(n + L - K) PROVE w[i] \in Entries(N)
    <3>1. i \in DOMAIN v \/ \E m \in 1..(L - K) : i = n + m
      BY <1>6, <1>7
    <3>2. CASE i \in DOMAIN v
      BY <1>11, <3>2
    <3>3. ASSUME NEW m \in 1..(L - K), i = n + m PROVE w[i] \in Entries(N)
      BY <1>12, <3>3
    <3> QED BY <3>1, <3>2, <3>3
  <2>2. w = [i \in 1..(n + L - K) |-> w[i]]
    BY <1>1, <1>6
  <2>3. w \in [1..(n + L - K) -> Entries(N)]
    BY <2>1, <2>2
  <2> QED BY <1>13, <2>3
<1> QED BY <1>0, <1>2, <1>11, <1>12, <1>14 DEF Appended

(* What comes of creating the path p in the tree v: a well-formed tree.    *)
(* The entries that were there keep their places, paths and files, the     *)
(* entry of the path is returned, and everything above it is a directory.  *)
Created(v, p, r, N) ==
  /\ Grown(r.vfs, N)
  /\ r.id \in DOMAIN r.vfs /\ r.vfs[r.id].path = p
  /\ DOMAIN v \subseteq DOMAIN r.vfs
  /\ \A i \in DOMAIN v : r.vfs[i].path = v[i].path /\ r.vfs[i].is_file = v[i].is_file
  /\ \A i \in DOMAIN r.vfs : i \notin DOMAIN v => r.vfs[i].is_file = FALSE
  /\ \A i \in DOMAIN r.vfs : IsStrictPrefix(r.vfs[i].path, p) => r.vfs[i].is_dir

(* cid_and_create keeps the tree well-formed.                              *)
THEOREM CreateGrown ==
  ASSUME NEW N, NEW v, Grown(v, N), NEW p \in Seq(N)
  PROVE  Created(v, p, cid_and_create(v, p), N)
<1> DEFINE r == cid_and_create(v, p)
<1> DEFINE w == r.vfs
           n == Len(v)
           L == Len(p)
           K == Known(v, p)
<1>1. n \in Nat \ {0} /\ DOMAIN v = 1..n /\ L \in Nat /\ K \in 0..L
  BY GrownEntry, LenProperties, KnownMeans
<1>0. Appended(v, p, K, w, N) /\ r.id = Along(v, p, L)
  BY CreateMeans
<1> HIDE DEF r, w, K
<1>2. w \in Seq(Entries(N)) /\ Len(w) = n + L - K /\ r.id = Along(v, p, L)
  BY <1>0 DEF Appended
<1>3. \A i \in DOMAIN v :
        /\ w[i].path = v[i].path
        /\ w[i].is_file = v[i].is_file
        /\ w[i].is_dir <=> (v[i].is_dir \/ \E d \in 0..(L - 1) : v[i].path = Prefix(p, d))
        /\ w[i].childs = IF K < L /\ v[i].path = Prefix(p, K)
                         THEN Append(v[i].childs, n + 1) ELSE v[i].childs
  BY <1>0 DEF Appended
<1>4. \A m \in 1..(L - K) :
        /\ w[n + m].path = Prefix(p, K + m)
        /\ w[n + m].is_file = FALSE
        /\ w[n + m].is_dir <=> (K + m < L)
        /\ w[n + m].childs = IF K + m < L THEN <<n + m + 1>> ELSE <<>>
  BY <1>0 DEF Appended
<1>5. /\ DOMAIN w = 1..(n + L - K) /\ n + L - K \in Nat
      /\ DOMAIN v \subseteq DOMAIN w
      /\ \A m \in 1..(L - K) : n + m \in DOMAIN w /\ n + m \notin DOMAIN v /\ K + m \in 0..L
  BY <1>1, <1>2, LenProperties
<1>6. ASSUME NEW i \in DOMAIN w, i \notin DOMAIN v PROVE \E m \in 1..(L - K) : i = n + m
  <2>1. i - n \in 1..(L - K) /\ i = n + (i - n)
    BY <1>1, <1>5, <1>6
  <2> QED BY <2>1
<1>7. \A i \in DOMAIN w : w[i] \in Entries(N) /\ w[i].path \in Seq(N)
  <2>1. \A i \in DOMAIN w : w[i] \in Entries(N)
    BY <1>2, ElementOfSeq, LenProperties
  <2> QED BY <2>1 DEF Entries
<1>8. \A i \in DOMAIN v : \A m \in 1..(L - K) : v[i].path # Prefix(p, K + m)
  <2>1. \A m \in 1..(L - K) : K + m \in 0..L /\ ~(K + m <= K)
    BY <1>1
  <2> QED BY <2>1, KnownMeans DEF There, K
<1>9. ASSUME NEW i \in DOMAIN w, NEW j \in DOMAIN w, w[i].path = w[j].path PROVE i = j
  <2>1. CASE i \in DOMAIN v /\ j \in DOMAIN v
    BY <1>3, <1>9, <2>1 DEF Grown
  <2>2. CASE i \in DOMAIN v /\ j \notin DOMAIN v
    <3>1. PICK m \in 1..(L - K) : j = n + m
      BY <1>6, <2>2
    <3>2. w[j].path = Prefix(p, K + m) /\ w[i].path = v[i].path
      BY <1>3, <1>4, <2>2, <3>1
    <3> QED BY <1>8, <1>9, <2>2, <3>2
  <2>3. CASE i \notin DOMAIN v /\ j \in DOMAIN v
    <3>1. PICK m \in 1..(L - K) : i = n + m
      BY <1>6, <2>3
    <3>2. w[i].path = Prefix(p, K + m) /\ w[j].path = v[j].path
      BY <1>3, <1>4, <2>3, <3>1
    <3> QED BY <1>8, <1>9, <2>3, <3>2
  <2>4. CASE i \notin DOMAIN v /\ j \notin DOMAIN v
    <3>1. PICK a \in 1..(L - K) : i = n + a
      BY <1>6, <2>4
    <3>2. PICK b \in 1..(L - K) : j = n + b
      BY <1>6, <2>4
    <3>3. K + a \in 0..L /\ K + b \in 0..L
      BY <1>5
    <3>4. K + a = K + b
      BY <1>4, <1>9, <3>1, <3>2, <3>3, PrefixesDiffer
    <3> QED BY <1>1, <3>1, <3>2, <3>4
  <2> QED BY <2>1, <2>2, <2>3, <2>4
<1>10. ASSUME NEW c \in DOMAIN w \ {ROOT}
       PROVE  \E id \in DOMAIN w : \E k \in DOMAIN w[id].childs : w[id].childs[k] = c
  <2>1. CASE c \in DOMAIN v
    <3>1. PICK id \in DOMAIN v : \E k \in DOMAIN v[id].childs : v[id].childs[k] = c
      BY <2>1 DEF Grown
    <3>2. PICK k \in DOMAIN v[id].childs : v[id].childs[k] = c
      BY <3>1
    <3>3. v[id].childs \in Seq(Nat)
      BY GrownEntry
    <3>4. k \in DOMAIN Append(v[id].childs, n + 1) /\ Append(v[id].childs, n + 1)[k] = c
      BY <1>1, <3>2, <3>3, AppendProperties, LenProperties
    <3>5. w[id].childs = Append(v[id].childs, n + 1) \/ w[id].childs = v[id].childs
      BY <1>3
    <3>6. k \in DOMAIN w[id].childs /\ w[id].childs[k] = c
      BY <3>2, <3>4, <3>5
    <3>7. id \in DOMAIN w
      BY <1>5
    <3> QED BY <3>6, <3>7
  <2>2. CASE c \notin DOMAIN v
    <3>1. PICK m \in 1..(L - K) : c = n + m
      BY <1>6, <2>2
    <3>2. CASE m = 1
      <4>1. K < L /\ K \in 0..L
        BY <1>1, <3>2
      <4>2. PICK id \in DOMAIN v : v[id].path = Prefix(p, K)
        <5>1. K \in 0..L /\ K <= K
          BY <1>1
        <5> QED BY <5>1, KnownMeans DEF There, K
      <4>3. w[id].childs = Append(v[id].childs, n + 1) /\ v[id].childs \in Seq(Nat)
        BY <1>3, <4>1, <4>2, GrownEntry
      <4>4. /\ Len(v[id].childs) + 1 \in DOMAIN w[id].childs
            /\ w[id].childs[Len(v[id].childs) + 1] = n + 1
        BY <1>1, <4>3, AppendProperties, LenProperties
      <4> QED BY <1>5, <3>1, <3>2, <4>4
    <3>3. CASE m # 1
      <4>1. m - 1 \in 1..(L - K) /\ K + (m - 1) < L /\ n + (m - 1) + 1 = c
        BY <1>1, <3>1, <3>3
      <4>2. w[n + (m - 1)].childs = <<c>>
        BY <1>4, <4>1
      <4>3. 1 \in DOMAIN w[n + (m - 1)].childs /\ w[n + (m - 1)].childs[1] = c
        BY <4>2
      <4> QED BY <1>5, <4>1, <4>3
    <3> QED BY <3>2, <3>3
  <2> QED BY <2>1, <2>2
<1>11. ASSUME NEW id \in DOMAIN w, NEW k \in DOMAIN w[id].childs
       PROVE  /\ w[id].childs[k] \in DOMAIN w \ {ROOT}
              /\ w[id].path = Front(w[w[id].childs[k]].path)
  <2>1. ASSUME NEW m \in 1..(L - K), w[id].childs[k] = n + m, w[id].path = Prefix(p, (K + m) - 1)
        PROVE  /\ w[id].childs[k] \in DOMAIN w \ {ROOT}
               /\ w[id].path = Front(w[w[id].childs[k]].path)
    <3>1. K + m \in 1..L /\ n + m # ROOT
      BY <1>1 DEF ROOT
    <3>2. Front(Prefix(p, K + m)) = Prefix(p, (K + m) - 1)
      <4>1. \A d \in 1..L : Front(Prefix(p, d)) = Prefix(p, d - 1)
        BY PrefixParts
      <4> HIDE DEF L
      <4> QED BY <3>1, <4>1, Zenon
    <3> QED BY <1>4, <1>5, <2>1, <3>1, <3>2
  <2>2. CASE id \in DOMAIN v
    <3>1. v[id].childs \in Seq(Nat) /\ DOMAIN v[id].childs = 1..Len(v[id].childs)
          /\ Len(v[id].childs) \in Nat
      BY <2>2, GrownEntry
    <3>2. CASE k \in DOMAIN v[id].childs
      <4>1. w[id].childs[k] = v[id].childs[k]
        <5>1. Append(v[id].childs, n + 1)[k] = v[id].childs[k]
          BY <1>1, <3>1, <3>2, AppendProperties
        <5> QED BY <1>3, <2>2, <5>1
      <4>2. v[id].childs[k] \in DOMAIN v \ {ROOT} /\ v[id].path = Front(v[v[id].childs[k]].path)
        BY <2>2, <3>2 DEF Grown
      <4> QED BY <1>3, <1>5, <2>2, <4>1, <4>2
    <3>3. CASE k \notin DOMAIN v[id].childs
      <4>1. K < L /\ v[id].path = Prefix(p, K) /\ w[id].childs = Append(v[id].childs, n + 1)
        BY <1>3, <2>2, <3>3
      <4>2. k = Len(v[id].childs) + 1 /\ w[id].childs[k] = n + 1
        BY <1>1, <3>1, <3>3, <4>1, AppendProperties, LenProperties
      <4>3. 1 \in 1..(L - K) /\ (K + 1) - 1 = K
        BY <1>1, <4>1
      <4> QED BY <1>3, <2>1, <2>2, <4>1, <4>2, <4>3
    <3> QED BY <3>2, <3>3
  <2>3. CASE id \notin DOMAIN v
    <3>1. PICK m \in 1..(L - K) : id = n + m
      BY <1>6, <2>3
    <3>2. CASE K + m < L
      <4>1. w[id].childs = <<n + m + 1>>
        BY <1>4, <3>1, <3>2
      <4>2. k = 1 /\ w[id].childs[k] = n + (m + 1)
        BY <1>1, <4>1
      <4>3. m + 1 \in 1..(L - K) /\ (K + (m + 1)) - 1 = K + m
        BY <1>1, <3>2
      <4> QED BY <1>4, <2>1, <3>1, <4>2, <4>3
    <3>3. CASE ~(K + m < L)
      <4>1. w[id].childs = <<>>
        BY <1>4, <3>1, <3>3
      <4> QED BY <4>1
    <3> QED BY <3>2, <3>3
  <2> QED BY <2>2, <2>3
<1>12. ASSUME NEW id \in DOMAIN w PROVE IsInjective(w[id].childs)
  <2>1. CASE id \in DOMAIN v
    <3>1. v[id].childs \in Seq(Nat) /\ DOMAIN v[id].childs = 1..Len(v[id].childs)
          /\ Len(v[id].childs) \in Nat /\ IsInjective(v[id].childs)
          /\ \A k \in DOMAIN v[id].childs : v[id].childs[k] \in 1..n
      BY <1>1, <2>1, GrownEntry DEF Grown
    <3> DEFINE cs == v[id].childs
               ds == Append(cs, n + 1)
    <3>2. /\ DOMAIN ds = 1..(Len(cs) + 1) /\ ds[Len(cs) + 1] = n + 1
          /\ \A k \in 1..Len(cs) : ds[k] = cs[k] /\ ds[k] \in 1..n
      BY <1>1, <3>1, AppendProperties, LenProperties
    <3> HIDE DEF ds
    <3>3. ASSUME NEW j \in DOMAIN ds, NEW k \in DOMAIN ds, ds[j] = ds[k] PROVE j = k
      <4>1. CASE j \in 1..Len(cs) /\ k \in 1..Len(cs)
        BY <3>1, <3>2, <3>3, <4>1 DEF IsInjective
      <4>2. CASE ~(j \in 1..Len(cs) /\ k \in 1..Len(cs))
        <5>0. \A a \in Nat : \A i \in 1..(a + 1) : i \in 1..a \/ i = a + 1
          OBVIOUS
        <5>1. \A i \in DOMAIN ds : i \in 1..Len(cs) \/ i = Len(cs) + 1
          BY <3>1, <3>2, <5>0
        <5>2. \A i \in 1..Len(cs) : ds[i] # ds[Len(cs) + 1]
          BY <1>1, <3>2
        <5> QED BY <3>3, <4>2, <5>1, <5>2
      <4> QED BY <4>1, <4>2
    <3>4. IsInjective(ds)
      BY <3>3 DEF IsInjective
    <3> QED BY <1>3, <2>1, <3>1, <3>4 DEF ds
  <2>2. CASE id \notin DOMAIN v
    <3>1. PICK m \in 1..(L - K) : id = n + m
      BY <1>6, <2>2
    <3>2. IsInjective(<<n + m + 1>>) /\ IsInjective(<<>>)
      BY DEF IsInjective
    <3> QED BY <1>4, <3>1, <3>2
  <2> QED BY <2>1, <2>2
<1>13. ASSUME NEW i \in DOMAIN w, NEW d \in 0..(L - 1), w[i].path = Prefix(p, d) PROVE w[i].is_dir
  <2>1. CASE i \in DOMAIN v
    BY <1>3, <1>13, <2>1
  <2>2. CASE i \notin DOMAIN v
    <3>1. PICK m \in 1..(L - K) : i = n + m
      BY <1>6, <2>2
    <3>2. d \in 0..L /\ d < L
      BY <1>1
    <3>3. d = K + m
      BY <1>4, <1>5, <1>13, <3>1, <3>2, PrefixesDiffer
    <3> QED BY <1>4, <3>1, <3>2, <3>3
  <2> QED BY <2>1, <2>2
<1>14. ASSUME NEW i \in DOMAIN w, NEW k \in 0..L, IsStrictPrefix(w[i].path, Prefix(p, k))
       PROVE  w[i].is_dir
  <2> DEFINE q == w[i].path
  <2>1. Prefix(p, k) \in Seq(N) /\ Len(Prefix(p, k)) = k
    BY PrefixSeq
  <2>2. q \in Seq(N) /\ Len(q) \in Nat
    BY <1>7, LenProperties
  <2>3. Len(q) < k /\ q = Prefix(Prefix(p, k), Len(q))
    BY <1>14, <2>1, <2>2, StrictPrefix
  <2>4. Len(q) \in 0..k /\ Len(q) \in 0..(L - 1)
    BY <1>1, <2>2, <2>3
  <2>5. q = Prefix(p, Len(q))
    BY <2>3, <2>4, PrefixOfPrefix
  <2> QED BY <1>13, <2>4, <2>5
<1>15. ASSUME NEW id \in DOMAIN w, NEW above \in DOMAIN w, IsStrictPrefix(w[above].path, w[id].path),
              w[id].is_file \/ w[id].is_dir
       PROVE  w[above].is_dir
  <2>1. ASSUME NEW k \in 0..L, w[id].path = Prefix(p, k) PROVE w[above].is_dir
    BY <1>14, <1>15, <2>1
  <2>2. CASE id \in DOMAIN v /\ (v[id].is_file \/ v[id].is_dir)
    <3>1. CASE above \in DOMAIN v
      BY <1>3, <1>15, <2>2, <3>1 DEF Grown
    <3>2. CASE above \notin DOMAIN v
      <4>1. PICK m \in 1..(L - K) : above = n + m
        BY <1>6, <3>2
      <4> DEFINE q == v[id].path
      <4>2. K + m \in 0..L /\ w[above].path = Prefix(p, K + m) /\ w[above].path \in Seq(N)
        BY <1>4, <1>5, <1>7, <4>1
      <4>3. q \in Seq(N) /\ Len(Prefix(p, K + m)) = K + m
        BY <2>2, <4>2, GrownEntry, PrefixSeq
      <4>4. K + m < Len(q) /\ Prefix(q, K + m) = Prefix(p, K + m)
        BY <1>3, <1>15, <2>2, <4>2, <4>3, StrictPrefix
      <4>5. K + m \in 0..Len(q) /\ Len(q) \in 0..Len(q)
        BY <1>1, <4>2, <4>3, <4>4, LenProperties
      <4>6. There(v, q, Len(q))
        BY <2>2, <4>3, PrefixEnds DEF There
      <4>7. There(v, q, K + m)
        BY <4>3, <4>5, <4>6, AllAbove
      <4> QED BY <1>8, <4>4, <4>7 DEF There
    <3> QED BY <3>1, <3>2
  <2>3. CASE id \in DOMAIN v /\ ~(v[id].is_file \/ v[id].is_dir)
    <3>1. PICK d \in 0..(L - 1) : v[id].path = Prefix(p, d)
      BY <1>3, <1>15, <2>3
    <3>2. d \in 0..L
      BY <1>1
    <3> QED BY <1>3, <2>1, <2>3, <3>1, <3>2
  <2>4. CASE id \notin DOMAIN v
    BY <1>4, <1>5, <1>6, <2>1, <2>4
  <2> QED BY <2>2, <2>3, <2>4
<1>16. Grown(w, N)
  <2>1. w # <<>> /\ w[ROOT].path = <<>>
    <3>1. ROOT \in DOMAIN v /\ v[ROOT].path = <<>>
      BY GrownEntry
    <3>2. w # <<>>
      BY <1>1, <1>2, EmptySeq
    <3> QED BY <1>3, <3>1, <3>2
  <2> QED BY <1>2, <1>9, <1>10, <1>11, <1>12, <1>15, <2>1 DEF Grown
<1>17. r.id \in DOMAIN w /\ w[r.id].path = p
  <2>1. L \in 0..L /\ Prefix(p, L) = p
    BY <1>1, PrefixEnds
  <2>2. CASE L <= K
    BY <1>2, <1>3, <1>5, <2>1, <2>2, AlongMeans DEF K
  <2>3. CASE L > K
    <3>1. r.id = n + L - K
      BY <1>2, <2>1, <2>3, AlongMeans DEF K
    <3>2. L - K \in 1..(L - K) /\ n + L - K = n + (L - K) /\ K + (L - K) = L
      BY <1>1, <2>3
    <3> QED BY <1>4, <1>5, <2>1, <3>1, <3>2
  <2> QED BY <1>1, <2>2, <2>3
<1>18. \A i \in DOMAIN w : IsStrictPrefix(w[i].path, p) => w[i].is_dir
  <2>1. L \in 0..L /\ Prefix(p, L) = p
    BY <1>1, PrefixEnds
  <2> QED BY <1>14, <2>1
<1>19. \A i \in DOMAIN w : i \notin DOMAIN v => w[i].is_file = FALSE
  BY <1>4, <1>6
<1> QED BY <1>3, <1>5, <1>16, <1>17, <1>18, <1>19 DEF Created, r, w

-----------------------------------------------------------------------------
(* The trees of pass 1.                                                    *)

(* size_file: the entry of a path becomes a file.                          *)
LEMMA MarkGrown ==
  ASSUME NEW N, NEW v, Grown(v, N), NEW id \in DOMAIN v,
         \A i \in DOMAIN v : IsStrictPrefix(v[i].path, v[id].path) => v[i].is_dir,
         NEW w, w = [v EXCEPT ![id].is_file = TRUE]
  PROVE  /\ Grown(w, N)
         /\ DOMAIN w = DOMAIN v
         /\ \A i \in DOMAIN v : w[i].path = v[i].path /\ (v[i].is_file => w[i].is_file)
         /\ w[id].is_file
<1>1. /\ v \in Seq(Entries(N)) /\ v # <<>> /\ Len(v) \in Nat \ {0} /\ DOMAIN v = 1..Len(v)
      /\ \A i \in DOMAIN v : v[i] \in Entries(N)
  BY GrownEntry DEF Grown
<1>2. DOMAIN w = DOMAIN v /\ \A i \in DOMAIN v : i # id => w[i] = v[i]
  BY <1>1
<1>3. w[id] = [v[id] EXCEPT !.is_file = TRUE]
  BY <1>1
<1>4. /\ w[id].path = v[id].path /\ w[id].childs = v[id].childs /\ w[id].is_dir = v[id].is_dir
      /\ w[id].is_file = TRUE /\ w[id] \in Entries(N)
  <2>1. v[id] \in Entries(N)
    BY <1>1
  <2> QED BY <1>3, <2>1 DEF Entries
<1>5. \A i \in DOMAIN v : /\ w[i].path = v[i].path /\ w[i].childs = v[i].childs
                          /\ w[i].is_dir = v[i].is_dir /\ w[i] \in Entries(N)
                          /\ i # id => w[i].is_file = v[i].is_file
  BY <1>1, <1>2, <1>4
<1>6. w \in Seq(Entries(N)) /\ w # <<>>
  <2>1. [v[id] EXCEPT !.is_file = TRUE] \in Entries(N)
    BY <1>3, <1>4
  <2>2. w = [v EXCEPT ![id] = [v[id] EXCEPT !.is_file = TRUE]]
    OBVIOUS
  <2>3. w \in Seq(Entries(N)) /\ Len(w) = Len(v)
    BY <1>1, <2>1, <2>2, ExceptSeq
  <2> QED BY <1>1, <2>3, EmptySeq
<1>7. ASSUME NEW i \in DOMAIN w, NEW above \in DOMAIN w, IsStrictPrefix(w[above].path, w[i].path),
             w[i].is_file \/ w[i].is_dir
      PROVE  w[above].is_dir
  <2>1. CASE i = id
    BY <1>2, <1>5, <1>7, <2>1
  <2>2. CASE i # id
    BY <1>2, <1>5, <1>7, <2>2 DEF Grown
  <2> QED BY <2>1, <2>2
<1>8. w[ROOT].path = <<>>
  BY <1>5, GrownEntry DEF Grown
<1>9. \A i, j \in DOMAIN w : w[i].path = w[j].path => i = j
  BY <1>2, <1>5 DEF Grown
<1>10. \A c \in DOMAIN w \ {ROOT} : \E i \in DOMAIN w : \E k \in DOMAIN w[i].childs : w[i].childs[k] = c
  BY <1>2, <1>5 DEF Grown
<1>11. \A i \in DOMAIN w : \A k \in DOMAIN w[i].childs :
         /\ w[i].childs[k] \in DOMAIN w \ {ROOT}
         /\ w[i].path = Front(w[w[i].childs[k]].path)
  BY <1>2, <1>5 DEF Grown
<1>12. \A i \in DOMAIN w : IsInjective(w[i].childs)
  BY <1>2, <1>5 DEF Grown
<1>15. \A i, above \in DOMAIN w :
         IsStrictPrefix(w[above].path, w[i].path) /\ (w[i].is_file \/ w[i].is_dir)
           => w[above].is_dir
  BY <1>7
<1>13. Grown(w, N)
  BY <1>6, <1>8, <1>9, <1>10, <1>11, <1>12, <1>15, Zenon DEF Grown
<1>14. \A i \in DOMAIN v : v[i].is_file => w[i].is_file
  BY <1>4, <1>5
<1> QED BY <1>2, <1>4, <1>5, <1>13, <1>14

(* The new tree has its root only.                                         *)
LEMMA NewGrown ==
  ASSUME NEW N
  PROVE  Grown(NewVfs, N) /\ \A id \in DOMAIN NewVfs : ~NewVfs[id].is_file
<1>1. NewVfs = <<[path |-> <<>>, childs |-> <<>>, is_file |-> FALSE, is_dir |-> FALSE]>>
  BY DEF NewVfs, NewEntry
<1>2. DOMAIN NewVfs = {1} /\ NewVfs # <<>>
  BY <1>1
<1> DEFINE e == NewVfs[1]
<1>3. e = [path |-> <<>>, childs |-> <<>>, is_file |-> FALSE, is_dir |-> FALSE]
  BY <1>1
<1>4. e.path = <<>> /\ e.childs = <<>> /\ e.is_file = FALSE /\ e.is_dir = FALSE
  BY <1>3
<1>5. e \in Entries(N)
  BY <1>3, EmptySeq DEF Entries
<1>6. NewVfs \in Seq(Entries(N))
  BY <1>1, <1>3, <1>5
<1>7. IsInjective(<<>>)
  BY DEF IsInjective
<1>8. DOMAIN e.childs = {}
  BY <1>4
<1>9. ~IsStrictPrefix(<<>>, <<>>)
  BY DEF IsStrictPrefix
<1> QED BY <1>2, <1>4, <1>6, <1>7, <1>8, <1>9 DEF Grown, ROOT

(* WellFormed is a consequence.                                            *)
THEOREM GrownIsWellFormed ==
  ASSUME NEW N, NEW v, Grown(v, N)
  PROVE  WellFormed(v)
<1>1. \A id \in DOMAIN v : cid(v, v[id].path) = id
  BY GrownEntry, CidMeans
<1>2. ASSUME NEW id \in DOMAIN v, NEW c \in DOMAIN v
      PROVE  (\E k \in DOMAIN v[id].childs : v[id].childs[k] = c)
               <=> (c # ROOT /\ v[id].path = Front(v[c].path))
  <2>1. ASSUME c # ROOT, v[id].path = Front(v[c].path)
        PROVE  \E k \in DOMAIN v[id].childs : v[id].childs[k] = c
    <3>1. PICK above \in DOMAIN v : \E k \in DOMAIN v[above].childs : v[above].childs[k] = c
      BY <2>1 DEF Grown
    <3>2. v[above].path = Front(v[c].path)
      BY <3>1 DEF Grown
    <3>3. above = id
      BY <2>1, <3>2 DEF Grown
    <3> QED BY <3>1, <3>3
  <2>2. ASSUME NEW k \in DOMAIN v[id].childs, v[id].childs[k] = c
        PROVE  c # ROOT /\ v[id].path = Front(v[c].path)
    BY <2>2 DEF Grown
  <2> QED BY <2>1, <2>2
<1>3. v[ROOT].path = <<>> /\ \A id \in DOMAIN v : IsInjective(v[id].childs)
  BY DEF Grown
<1>4. \A id \in DOMAIN v : (v[id].is_file \/ v[id].is_dir) =>
        \A above \in DOMAIN v : IsStrictPrefix(v[above].path, v[id].path) => v[above].is_dir
  BY DEF Grown
<1> QED BY <1>1, <1>2, <1>3, <1>4 DEF WellFormed

(* The trees that come out of the cache, a path at a time, exist ...       *)
LEMMA MadeExists ==
  ASSUME NEW paths, NEW n \in Nat
  PROVE  \E f : f = [k \in 0..n |->
                     IF k = 0 THEN NewVfs ELSE cid_and_create(f[k - 1], paths[k]).vfs]
<1> DEFINE Made(f, m) == f = [k \in 0..m |->
                                IF k = 0 THEN NewVfs ELSE cid_and_create(f[k - 1], paths[k]).vfs]
           bad == {m \in 0..n : ~\E f : Made(f, m)}
<1>1. ASSUME bad # {} PROVE FALSE
  <2>1. bad \subseteq Nat
    OBVIOUS
  <2>2. PICK m \in bad : \A j \in bad : m <= j
    BY <1>1, <2>1, LeastNumber
  <2>3. CASE m = 0
    <3>1. Made([k \in 0..0 |-> NewVfs], 0)
      OBVIOUS
    <3> QED BY <2>2, <2>3, <3>1
  <2>4. CASE m # 0
    <3>1. m - 1 \in 0..n /\ m - 1 \notin bad
      <4>1. m \in 0..n
        OBVIOUS
      <4> HIDE DEF bad
      <4> QED BY <2>2, <2>4, <4>1
    <3>2. PICK g : Made(g, m - 1)
      BY <3>1
    <3> DEFINE step(f, k) == IF k = 0 THEN NewVfs ELSE cid_and_create(f[k - 1], paths[k]).vfs
               h == [k \in 0..m |-> IF k = m THEN step(g, m) ELSE g[k]]
    <3>3. \A k \in 0..(m - 1) : g[k] = step(g, k)
      BY <3>2
    <3>4. \A k \in 0..m : k # 0 => k - 1 \in 0..(m - 1) /\ h[k - 1] = g[k - 1]
      BY <2>2
    <3>5. \A k \in 0..m : k # m => k \in 0..(m - 1)
      BY <2>2
    <3>6. \A k \in 0..m : h[k] = step(h, k)
      <4>1. \A k \in 0..m : step(h, k) = step(g, k)
        <5> HIDE DEF h
        <5> QED BY <3>4
      <4>2. \A k \in 0..m : h[k] = step(g, k)
        <5> HIDE DEF step
        <5> QED BY <3>3, <3>5
      <4> HIDE DEF h, step
      <4> QED BY <4>1, <4>2
    <3>7. h = [k \in 0..m |-> step(h, k)]
      <4>1. h = [k \in 0..m |-> h[k]]
        OBVIOUS
      <4> HIDE DEF h, step
      <4> QED BY <3>6, <4>1
    <3>8. Made(h, m)
      <4> HIDE DEF h
      <4> QED BY <3>7
    <3> QED BY <2>2, <3>8
  <2> QED BY <2>3, <2>4
<1>2. \E f : Made(f, n)
  <2>1. n \in 0..n
    OBVIOUS
  <2> HIDE DEF Made
  <2> QED BY <1>1, <2>1
<1> QED BY <1>2

(* ... and they are well-formed: what the cache leaves has an entry for    *)
(* each path and nothing that is known to be a file or a directory.        *)
LEMMA LoadedGrown ==
  ASSUME NEW N, NEW paths \in Seq(Seq(N))
  PROVE  Grown(Loaded(paths), N)
<1> DEFINE n == Len(paths)
           Made(f) == f = [k \in 0..n |->
                             IF k = 0 THEN NewVfs ELSE cid_and_create(f[k - 1], paths[k]).vfs]
           made == CHOOSE f : Made(f)
           v == made[n]
           Good(t) == Grown(t, N) /\ \A id \in DOMAIN t : ~t[id].is_file
<1>1. n \in Nat
  BY LenProperties
<1>2. \E f : Made(f)
  BY <1>1, MadeExists
<1>3. Made(made)
  <2> HIDE DEF Made
  <2> QED BY <1>2
<1>4. Loaded(paths) = [id \in DOMAIN v |-> [v[id] EXCEPT !.is_dir = FALSE]]
  BY Zenon DEF Loaded
<1> HIDE DEF made
<1>5. made[0] = NewVfs /\ \A k \in 1..n : made[k] = cid_and_create(made[k - 1], paths[k]).vfs
  <2>1. \A k \in 0..n : made[k] = IF k = 0 THEN NewVfs
                                   ELSE cid_and_create(made[k - 1], paths[k]).vfs
    BY <1>3
  <2>2. 0 \in 0..n /\ \A k \in 1..n : k \in 0..n /\ k # 0
    BY <1>1
  <2> QED BY <2>1, <2>2
<1> HIDE DEF Made
<1>6. ASSUME NEW k \in 1..n, Good(made[k - 1]) PROVE Good(made[k])
  <2>1. paths[k] \in Seq(N)
    BY ElementOfSeq
  <2> DEFINE u == made[k - 1]
             r == cid_and_create(u, paths[k])
  <2> HIDE DEF u, r
  <2>2. r = cid_and_create(u, paths[k])
    BY DEF r
  <2>3. /\ Grown(r.vfs, N)
        /\ \A i \in DOMAIN u : r.vfs[i].is_file = u[i].is_file
        /\ \A i \in DOMAIN r.vfs : i \notin DOMAIN u => r.vfs[i].is_file = FALSE
    <3>1. Grown(u, N)
      BY <1>6 DEF u
    <3>2. Created(u, paths[k], r, N)
      BY <2>1, <2>2, <3>1, CreateGrown
    <3> QED BY <3>2 DEF Created
  <2>4. \A i \in DOMAIN u : ~u[i].is_file
    BY <1>6 DEF u
  <2>5. Good(r.vfs)
    BY <2>3, <2>4
  <2> HIDE DEF Good
  <2> QED BY <1>5, <2>5 DEF u, r
<1>7. Good(made[0])
  BY <1>5, NewGrown
<1>8. Good(v)
  <2> DEFINE bad == {k \in 0..n : ~Good(made[k])}
  <2> HIDE DEF Good
  <2>1. ASSUME bad # {} PROVE FALSE
    <3>1. bad \subseteq Nat
      BY <1>1
    <3>2. PICK k \in bad : \A j \in bad : k <= j
      BY <2>1, <3>1, LeastNumber
    <3>3. k # 0
      BY <1>7, <3>2
    <3>4. k \in 1..n /\ k - 1 \in 0..n /\ k - 1 \notin bad
      BY <1>1, <3>2, <3>3
    <3> QED BY <1>6, <3>2, <3>4
  <2>2. n \in 0..n
    BY <1>1
  <2> QED BY <2>1, <2>2
<1> DEFINE w == Loaded(paths)
<1>9. /\ v \in Seq(Entries(N)) /\ v # <<>> /\ Len(v) \in Nat \ {0} /\ DOMAIN v = 1..Len(v)
      /\ \A i \in DOMAIN v : v[i] \in Entries(N)
  BY <1>8, GrownEntry DEF Grown
<1>10. Grown(v, N) /\ \A id \in DOMAIN v : ~v[id].is_file
  BY <1>8
<1> HIDE DEF v, w, Good
<1>11. DOMAIN w = DOMAIN v /\ \A i \in DOMAIN v : w[i] = [v[i] EXCEPT !.is_dir = FALSE]
  BY <1>4 DEF w
<1>12. ASSUME NEW i \in DOMAIN v
       PROVE  /\ w[i].path = v[i].path /\ w[i].childs = v[i].childs
              /\ w[i].is_file = v[i].is_file /\ w[i].is_dir = FALSE /\ w[i] \in Entries(N)
  <2>1. v[i] \in Entries(N) /\ w[i] = [v[i] EXCEPT !.is_dir = FALSE]
    BY <1>9, <1>11
  <2> QED BY <2>1 DEF Entries
<1>13. w \in Seq(Entries(N)) /\ w # <<>>
  <2>1. w = [i \in 1..Len(v) |-> w[i]]
    BY <1>4, <1>9 DEF w
  <2>2. w \in [1..Len(v) -> Entries(N)]
    BY <1>9, <1>12, <2>1
  <2>3. w \in Seq(Entries(N)) /\ Len(w) = Len(v)
    BY <1>9, <2>2
  <2> QED BY <1>9, <2>3, EmptySeq
<1>14. w[ROOT].path = <<>>
  BY <1>10, <1>12, GrownEntry DEF Grown
<1>20. /\ \A i, j \in DOMAIN v : v[i].path = v[j].path => i = j
       /\ \A c \in DOMAIN v \ {ROOT} :
            \E i \in DOMAIN v : \E k \in DOMAIN v[i].childs : v[i].childs[k] = c
       /\ \A i \in DOMAIN v : \A k \in DOMAIN v[i].childs :
            /\ v[i].childs[k] \in DOMAIN v \ {ROOT}
            /\ v[i].path = Front(v[v[i].childs[k]].path)
  BY <1>10 DEF Grown
<1>15. \A i, j \in DOMAIN w : w[i].path = w[j].path => i = j
  BY <1>11, <1>12, <1>20
<1>16. \A c \in DOMAIN w \ {ROOT} : \E i \in DOMAIN w : \E k \in DOMAIN w[i].childs : w[i].childs[k] = c
  <2> SUFFICES ASSUME NEW c \in DOMAIN v \ {ROOT}
               PROVE  \E i \in DOMAIN v : \E k \in DOMAIN w[i].childs : w[i].childs[k] = c
    BY <1>11
  <2>1. PICK i \in DOMAIN v : \E k \in DOMAIN v[i].childs : v[i].childs[k] = c
    BY <1>20
  <2> QED BY <1>12, <2>1
<1>17. \A i \in DOMAIN w : \A k \in DOMAIN w[i].childs :
         /\ w[i].childs[k] \in DOMAIN w \ {ROOT}
         /\ w[i].path = Front(w[w[i].childs[k]].path)
  <2> SUFFICES ASSUME NEW i \in DOMAIN v, NEW k \in DOMAIN w[i].childs
               PROVE  /\ w[i].childs[k] \in DOMAIN v \ {ROOT}
                      /\ w[i].path = Front(w[w[i].childs[k]].path)
    BY <1>11
  <2>1. w[i].childs = v[i].childs /\ w[i].path = v[i].path
    BY <1>12
  <2>2. v[i].childs[k] \in DOMAIN v \ {ROOT} /\ v[i].path = Front(v[v[i].childs[k]].path)
    BY <1>20, <2>1
  <2> QED BY <1>12, <2>1, <2>2
<1>18. \A i \in DOMAIN w : IsInjective(w[i].childs)
  BY <1>10, <1>11, <1>12 DEF Grown
<1>19. \A i \in DOMAIN w : ~(w[i].is_file \/ w[i].is_dir)
  BY <1>10, <1>11, <1>12
<1> QED BY <1>13, <1>14, <1>15, <1>16, <1>17, <1>18, <1>19 DEF Grown, w

-----------------------------------------------------------------------------
(* The sorts of a batch.                                                   *)

(* The places of s in the order of ByOffset.                               *)
OffsetOrder(s) == {x \in (DOMAIN s) \X (DOMAIN s) :
                     s[x[1]].pos < s[x[2]].pos \/ (s[x[1]].pos = s[x[2]].pos /\ x[1] < x[2])}

(* t holds the elements of s in some order.                                *)
Permuted(t, s) ==
  /\ Len(t) = Len(s)
  /\ \E g \in Injection(1..Len(s), 1..Len(s)) : \A k \in 1..Len(s) : t[k] = s[g[k]]

(* Permuted: each element of t is one of s.                                *)
LEMMA PermutedElements ==
  ASSUME NEW T, NEW s \in Seq(T), NEW t \in Seq(T), Permuted(t, s)
  PROVE  \A k \in DOMAIN t : \E i \in DOMAIN s : t[k] = s[i]
<1>1. DOMAIN t = 1..Len(s) /\ DOMAIN s = 1..Len(s)
  BY LenProperties DEF Permuted
<1> QED BY <1>1 DEF Permuted, Injection

(* ByOffset: as many files, the same files, in the order of their offsets. *)
LEMMA SortedByOffset ==
  ASSUME NEW S, \A x \in S : x.pos \in Nat, NEW s \in Seq(S)
  PROVE  /\ ByOffset(s) \in Seq(S) /\ Len(ByOffset(s)) = Len(s)
         /\ \A j, k \in DOMAIN ByOffset(s) : j < k => ByOffset(s)[j].pos <= ByOffset(s)[k].pos
         /\ Permuted(ByOffset(s), s)
<1> DEFINE D == DOMAIN s
           R == OffsetOrder(s)
           n == Len(s)
           rank(i) == Cardinality(Before(D, R, i))
           at(k) == CHOOSE i \in DOMAIN s :
                      Cardinality({j \in DOMAIN s : s[j].pos < s[i].pos
                                                    \/ (s[j].pos = s[i].pos /\ j < i)}) = k - 1
<1>1. n \in Nat /\ D = 1..n /\ IsFiniteSet(D) /\ Cardinality(D) = n
  <2>1. n \in Nat /\ D = 1..n
    BY LenProperties
  <2>2. 1 \in Int /\ n \in Int
    BY <2>1
  <2> QED BY <2>1, <2>2, FS_Interval
<1>2. \A i \in D : s[i] \in S /\ s[i].pos \in Nat
  BY <1>1, ElementOfSeq
<1>3. \A i, j \in D : <<j, i>> \in R <=> s[j].pos < s[i].pos \/ (s[j].pos = s[i].pos /\ j < i)
  BY DEF OffsetOrder
<1>4. /\ \A k \in 1..n : \E i \in D : rank(i) = k - 1
      /\ \A i, j \in D : <<i, j>> \in R => rank(i) < rank(j)
      /\ \A i \in D : rank(i) \in Nat
  <2>1. \A i \in D : <<i, i>> \notin R
    BY <1>1, <1>2, <1>3
  <2>2. \A i, j \in D : i # j => <<i, j>> \in R \/ <<j, i>> \in R
    BY <1>1, <1>2, <1>3
  <2>3. \A i, j, k \in D : <<i, j>> \in R /\ <<j, k>> \in R => <<i, k>> \in R
    BY <1>1, <1>2, <1>3
  <2>4. StrictOrder(D, R)
    BY <2>1, <2>2, <2>3, Zenon DEF StrictOrder
  <2> HIDE DEF D, R
  <2>5. Ranked(D, R)
    BY <1>1, <2>4, Ranks
  <2> QED BY <1>1, <2>5 DEF Ranked
<1>5. \A i \in D : rank(i) = Cardinality({j \in D : s[j].pos < s[i].pos
                                                    \/ (s[j].pos = s[i].pos /\ j < i)})
  <2> SUFFICES ASSUME NEW i \in D
               PROVE  Before(D, R, i) = {j \in D : s[j].pos < s[i].pos
                                                   \/ (s[j].pos = s[i].pos /\ j < i)}
    OBVIOUS
  <2> QED BY <1>3 DEF Before
<1>6. ByOffset(s) = [k \in 1..n |-> s[at(k)]]
  BY DEF ByOffset
<1> HIDE DEF rank
<1>7. ASSUME NEW k \in 1..n PROVE at(k) \in D /\ rank(at(k)) = k - 1
  <2>1. \E i \in DOMAIN s : Cardinality({j \in DOMAIN s : s[j].pos < s[i].pos
                                                    \/ (s[j].pos = s[i].pos /\ j < i)}) = k - 1
    BY <1>4, <1>5
  <2>2. at(k) \in D /\ Cardinality({j \in DOMAIN s : s[j].pos < s[at(k)].pos
                                       \/ (s[j].pos = s[at(k)].pos /\ j < at(k))}) = k - 1
    BY <2>1
  <2> HIDE DEF at
  <2> QED BY <1>5, <2>2
<1> HIDE DEF at, R
<1>8. \A k \in 1..n : ByOffset(s)[k] = s[at(k)] /\ s[at(k)] \in S
  BY <1>2, <1>6, <1>7
<1>9. ByOffset(s) \in [1..n -> S]
  BY <1>2, <1>6, <1>7
<1>10. ByOffset(s) \in Seq(S) /\ Len(ByOffset(s)) = n /\ DOMAIN ByOffset(s) = 1..n
  BY <1>1, <1>9
<1>11. ASSUME NEW j \in 1..n, NEW k \in 1..n, j < k PROVE s[at(j)].pos <= s[at(k)].pos
  <2>1. rank(at(j)) < rank(at(k))
    BY <1>1, <1>7, <1>11
  <2>2. <<at(k), at(j)>> \notin R
    <3>1. ~(rank(at(k)) < rank(at(j)))
      BY <1>4, <1>7, <2>1
    <3> QED BY <1>4, <1>7, <3>1
  <2> QED BY <1>2, <1>3, <1>7, <2>2
<1>12. Permuted(ByOffset(s), s)
  <2> DEFINE g == [k \in 1..n |-> at(k)]
  <2>1. g \in [1..n -> 1..n] /\ \A k \in 1..n : ByOffset(s)[k] = s[g[k]]
    BY <1>1, <1>7, <1>8
  <2>2. ASSUME NEW j \in 1..n, NEW k \in 1..n, g[j] = g[k] PROVE j = k
    BY <1>1, <1>7, <2>2
  <2> HIDE DEF g, n
  <2>3. g \in Injection(1..n, 1..n)
    BY <2>1, <2>2 DEF Injection, IsInjective
  <2> QED BY <1>10, <2>1, <2>3 DEF Permuted, n
<1> QED BY <1>8, <1>10, <1>11, <1>12

(* ByIno: as many files, and files of the batch.                           *)
LEMMA SortedByIno ==
  ASSUME NEW s \in Seq(Files)
  PROVE  ByIno(s) \in Seq(Files) /\ Len(ByIno(s)) = Len(s) /\ Permuted(ByIno(s), s)
<1> DEFINE D == DOMAIN s
           R == {x \in D \X D : Ino[s[x[1]]] > Ino[s[x[2]]]
                               \/ (Ino[s[x[1]]] = Ino[s[x[2]]] /\ x[1] < x[2])}
           n == Len(s)
           at(k) == CHOOSE i \in DOMAIN s :
                      Cardinality({j \in DOMAIN s : Ino[s[j]] > Ino[s[i]]
                                                 \/ (Ino[s[j]] = Ino[s[i]] /\ j < i)}) = k - 1
<1>1. n \in Nat /\ D = 1..n /\ IsFiniteSet(D) /\ Cardinality(D) = n
  <2>1. n \in Nat /\ D = 1..n
    BY LenProperties
  <2>2. 1 \in Int /\ n \in Int
    BY <2>1
  <2> QED BY <2>1, <2>2, FS_Interval
<1>2. \A i \in D : s[i] \in Files /\ Ino[s[i]] \in Nat
  <2>1. \A i \in D : s[i] \in Files
    BY <1>1, ElementOfSeq
  <2> QED BY <2>1, ConstantsAssumption
<1>3. \A i, j \in D : <<j, i>> \in R <=> Ino[s[j]] > Ino[s[i]] \/ (Ino[s[j]] = Ino[s[i]] /\ j < i)
  OBVIOUS
<1>4. Ranked(D, R)
  <2>1. \A i \in D : <<i, i>> \notin R
    BY <1>1, <1>2, <1>3
  <2>2. \A i, j \in D : i # j => <<i, j>> \in R \/ <<j, i>> \in R
    BY <1>1, <1>2, <1>3
  <2>3. \A i, j, k \in D : <<i, j>> \in R /\ <<j, k>> \in R => <<i, k>> \in R
    BY <1>1, <1>2, <1>3
  <2>4. StrictOrder(D, R)
    BY <2>1, <2>2, <2>3, Zenon DEF StrictOrder
  <2> HIDE DEF D, R
  <2> QED BY <1>1, <2>4, Ranks
<1> DEFINE rank(i) == Cardinality({j \in DOMAIN s : Ino[s[j]] > Ino[s[i]]
                                      \/ (Ino[s[j]] = Ino[s[i]] /\ j < i)})
<1>5. ASSUME NEW k \in 1..n PROVE at(k) \in D /\ rank(at(k)) = k - 1
  <2>1. PICK i \in D : Cardinality(Before(D, R, i)) = k - 1
    <3> HIDE DEF R
    <3> QED BY <1>1, <1>4 DEF Ranked
  <2>2. Before(D, R, i) = {j \in DOMAIN s : Ino[s[j]] > Ino[s[i]]
                                         \/ (Ino[s[j]] = Ino[s[i]] /\ j < i)}
    BY <1>3 DEF Before
  <2> HIDE DEF R
  <2>3. \E x \in DOMAIN s :
           Cardinality({j \in DOMAIN s : Ino[s[j]] > Ino[s[x]]
                                      \/ (Ino[s[j]] = Ino[s[x]] /\ j < x)}) = k - 1
    BY <2>1, <2>2
  <2> QED BY <2>3
<1>6. ByIno(s) = [k \in 1..n |-> s[at(k)]]
  BY DEF ByIno
<1> HIDE DEF at, rank
<1>7. ByIno(s) \in [1..n -> Files] /\ Len(ByIno(s)) = n
  BY <1>1, <1>2, <1>5, <1>6
<1>8. Permuted(ByIno(s), s)
  <2> DEFINE g == [k \in 1..n |-> at(k)]
  <2>1. g \in [1..n -> 1..n] /\ \A k \in 1..n : ByIno(s)[k] = s[g[k]]
    BY <1>1, <1>5, <1>6
  <2>2. ASSUME NEW j \in 1..n, NEW k \in 1..n, g[j] = g[k] PROVE j = k
    BY <1>1, <1>5, <2>2
  <2> HIDE DEF g, n
  <2>3. g \in Injection(1..n, 1..n)
    BY <2>1, <2>2 DEF Injection, IsInjective
  <2> QED BY <1>7, <2>1, <2>3 DEF Permuted, n
<1> QED BY <1>1, <1>7, <1>8

(* ByPos: the paths of the directories of a set in which no two have a     *)
(* place.                                                                  *)
LEMMA SortedByPos ==
  ASSUME NEW S, IsFiniteSet(S), \A e \in S : e.pos \in Nat,
         \A e, f \in S : e.pos = f.pos => e = f, NEW T, \A e \in S : e.path \in T
  PROVE  ByPos(S) \in Seq(T)
<1> DEFINE R == {x \in S \X S : x[1].pos < x[2].pos}
           n == Cardinality(S)
           at(k) == CHOOSE e \in S : Cardinality({f \in S : f.pos < e.pos}) = k - 1
<1>1. n \in Nat
  BY FS_CardinalityType
<1>2. \A i, j \in S : <<j, i>> \in R <=> j.pos < i.pos
  OBVIOUS
<1>3. Ranked(S, R)
  <2>1. \A i \in S : <<i, i>> \notin R
    BY <1>2
  <2>2. \A i, j \in S : i # j => <<i, j>> \in R \/ <<j, i>> \in R
    BY <1>2
  <2>3. \A i, j, k \in S : <<i, j>> \in R /\ <<j, k>> \in R => <<i, k>> \in R
    BY <1>2
  <2>4. StrictOrder(S, R)
    BY <2>1, <2>2, <2>3, Zenon DEF StrictOrder
  <2> HIDE DEF R
  <2> QED BY <2>4, Ranks
<1>4. ASSUME NEW k \in 1..n PROVE at(k) \in S
  <2>1. PICK i \in S : Cardinality(Before(S, R, i)) = k - 1
    <3> HIDE DEF R
    <3> QED BY <1>3 DEF Ranked
  <2>2. Before(S, R, i) = {f \in S : f.pos < i.pos}
    BY <1>2 DEF Before
  <2> HIDE DEF R
  <2>3. \E e \in S : Cardinality({f \in S : f.pos < e.pos}) = k - 1
    BY <2>1, <2>2
  <2> QED BY <2>3
<1>5. ByPos(S) = [k \in 1..n |-> at(k).path]
  BY DEF ByPos
<1> HIDE DEF at
<1>6. ByPos(S) \in [1..n -> T]
  BY <1>4, <1>5
<1> QED BY <1>1, <1>6

-----------------------------------------------------------------------------
(* prefetch().                                                             *)

(* The directories that are still to be visited.                           *)
ToVisit == ToSet(unordered) \cup {e.path : e \in phy_sorted}

(* Pending lists directories that are to be visited.                       *)
LEMMA PendingToVisit ==
  ASSUME QueueInv
  PROVE  Pending \in Seq(ToVisit)
<1> DEFINE ahead == {e \in phy_sorted : e.pos >= cursor}
           behind == {e \in phy_sorted : e.pos < cursor}
<1>1. /\ IsFiniteSet(phy_sorted) /\ \A e \in phy_sorted : e.pos \in Nat
      /\ \A e, f \in phy_sorted : e.pos = f.pos => e = f
      /\ \A e \in phy_sorted : e.path \in ToVisit
  BY DEF QueueInv, ToVisit
<1>2. IsFiniteSet(ahead) /\ IsFiniteSet(behind)
  BY <1>1, FS_Subset
<1>3. ByPos(ahead) \in Seq(ToVisit)
  <2>1. \A e \in ahead : e \in phy_sorted
    OBVIOUS
  <2> HIDE DEF ahead
  <2> QED BY <1>1, <1>2, <2>1, SortedByPos
<1>4. ByPos(behind) \in Seq(ToVisit)
  <2>1. \A e \in behind : e \in phy_sorted
    OBVIOUS
  <2> HIDE DEF behind
  <2> QED BY <1>1, <1>2, <2>1, SortedByPos
<1>5. unordered \in Seq(ToVisit)
  <2>1. unordered \in Seq(Dirs)
    BY DEF QueueInv
  <2>2. DOMAIN unordered = 1..Len(unordered) /\ Len(unordered) \in Nat
    BY <2>1, LenProperties
  <2>3. \A k \in 1..Len(unordered) : unordered[k] \in ToVisit
    BY <2>2 DEF ToVisit, ToSet
  <2>4. unordered \in [1..Len(unordered) -> ToVisit]
    BY <2>1, <2>2, <2>3
  <2> QED BY <2>2, <2>4
<1>6. unordered \o ByPos(ahead) \in Seq(ToVisit)
  BY <1>3, <1>5, ConcatProperties
<1>7. (unordered \o ByPos(ahead)) \o ByPos(behind) \in Seq(ToVisit)
  BY <1>4, <1>6, ConcatProperties
<1> QED BY <1>7 DEF Pending

(* What the loop of prefetch() has after each of n directories.            *)
Course(f, dirs, start, n) ==
  f = [k \in 0..n |-> IF k = 0 THEN start ELSE Window(f[k - 1], dirs[k])]

(* The loop of prefetch() has a course.                                    *)
LEMMA CourseExists ==
  ASSUME NEW dirs, NEW start, NEW n \in Nat
  PROVE  \E f : Course(f, dirs, start, n)
<1> DEFINE Taken(f, m) == f = [k \in 0..m |->
                                IF k = 0 THEN start ELSE Window(f[k - 1], dirs[k])]
           bad == {m \in 0..n : ~\E f : Taken(f, m)}
<1>1. ASSUME bad # {} PROVE FALSE
  <2>1. bad \subseteq Nat
    OBVIOUS
  <2>2. PICK m \in bad : \A j \in bad : m <= j
    BY <1>1, <2>1, LeastNumber
  <2>3. CASE m = 0
    <3>1. Taken([k \in 0..0 |-> start], 0)
      OBVIOUS
    <3> QED BY <2>2, <2>3, <3>1
  <2>4. CASE m # 0
    <3>1. m - 1 \in 0..n /\ m - 1 \notin bad
      <4>1. m \in 0..n
        OBVIOUS
      <4> HIDE DEF bad
      <4> QED BY <2>2, <2>4, <4>1
    <3>2. PICK g : Taken(g, m - 1)
      BY <3>1
    <3> DEFINE step(f, k) == IF k = 0 THEN start ELSE Window(f[k - 1], dirs[k])
               h == [k \in 0..m |-> IF k = m THEN step(g, m) ELSE g[k]]
    <3>3. \A k \in 0..(m - 1) : g[k] = step(g, k)
      BY <3>2
    <3>4. \A k \in 0..m : k # 0 => k - 1 \in 0..(m - 1) /\ h[k - 1] = g[k - 1]
      BY <2>2
    <3>5. \A k \in 0..m : k # m => k \in 0..(m - 1)
      BY <2>2
    <3>6. \A k \in 0..m : h[k] = step(h, k)
      <4>1. \A k \in 0..m : step(h, k) = step(g, k)
        <5> HIDE DEF h
        <5> QED BY <3>4
      <4>2. \A k \in 0..m : h[k] = step(g, k)
        <5> HIDE DEF step
        <5> QED BY <3>3, <3>5
      <4> HIDE DEF h, step
      <4> QED BY <4>1, <4>2
    <3>7. h = [k \in 0..m |-> step(h, k)]
      <4>1. h = [k \in 0..m |-> h[k]]
        OBVIOUS
      <4> HIDE DEF h, step
      <4> QED BY <3>6, <4>1
    <3>8. Taken(h, m)
      <4> HIDE DEF h
      <4> QED BY <3>7
    <3> QED BY <2>2, <3>8
  <2> QED BY <2>3, <2>4
<1>2. \E f : Taken(f, n)
  <2>1. n \in 0..n
    OBVIOUS
  <2> HIDE DEF Taken
  <2> QED BY <1>1, <2>1
<1>3. PICK f : Taken(f, n)
  BY <1>2
<1>4. Course(f, dirs, start, n)
  BY <1>3 DEF Course
<1> QED BY <1>4

(* What prefetch() has asked for is still to be visited, and is within the *)
(* cap.                                                                    *)
LEMMA PrefetchMeans ==
  ASSUME QueueInv, PrefetchInv
  PROVE  /\ Prefetch \subseteq ToVisit /\ IsFiniteSet(Prefetch)
         /\ Cardinality(Prefetch) <= prefetch_cap + 2
<1> DEFINE dirs == Pending
           n == Len(dirs)
           remaining == SatSub(Limit, Sum(prefetched))
           start == [remaining |-> remaining, set |-> prefetched]
           Taken(f) == f = [k \in 0..n |-> IF k = 0 THEN start ELSE Window(f[k - 1], dirs[k])]
           taken == CHOOSE f : Taken(f)
           Good(s) == s \subseteq ToVisit /\ IsFiniteSet(s) /\ Cardinality(s) <= prefetch_cap + 2
<1>1. Good(prefetched) /\ prefetch_cap \in Nat
  <2>1. prefetch_cap \in 0..CapMax /\ CapMax \in Nat
    BY ConstantsAssumption DEF PrefetchInv
  <2> QED BY <2>1 DEF PrefetchInv, WindowPending, ToVisit
<1>2. n \in Nat /\ \A k \in 1..n : dirs[k] \in ToVisit
  <2>1. dirs \in Seq(ToVisit)
    BY PendingToVisit
  <2> HIDE DEF dirs
  <2> QED BY <2>1, LenProperties, ElementOfSeq
<1>3. Prefetch = IF ~Mounted \/ remaining < Limit \div 2 THEN prefetched ELSE taken[n].set
  BY Zenon DEF Prefetch
<1> HIDE DEF dirs, remaining
<1>4. Taken(taken)
  <2>1. \E f : Taken(f)
    <3>1. n \in Nat
      BY <1>2
    <3>2. PICK f : Course(f, dirs, start, n)
      <4> HIDE DEF start, n
      <4> QED BY <3>1, CourseExists
    <3>3. Taken(f)
      BY <3>2, Zenon DEF Course
    <3> QED BY <3>3
  <2> HIDE DEF Taken
  <2> QED BY <2>1
<1> HIDE DEF taken
<1>5. taken[0] = start /\ \A k \in 1..n : taken[k] = Window(taken[k - 1], dirs[k])
  <2>1. \A k \in 0..n : taken[k] = IF k = 0 THEN start ELSE Window(taken[k - 1], dirs[k])
    BY <1>4
  <2>2. 0 \in 0..n /\ \A k \in 1..n : k \in 0..n /\ k # 0
    BY <1>2
  <2> QED BY <2>1, <2>2
<1> HIDE DEF Taken
<1>6. Good(taken[0].set)
  BY <1>1, <1>5
<1>7. ASSUME NEW k \in 1..n, Good(taken[k - 1].set) PROVE Good(taken[k].set)
  <2> DEFINE acc == taken[k - 1]
             d == dirs[k]
  <2>1. taken[k] = Window(acc, d) /\ d \in ToVisit
    BY <1>2, <1>5
  <2>2. Good(acc.set)
    BY <1>7
  <2> HIDE DEF acc, d
  <2>3. CASE acc.remaining = 0 \/ Cardinality(acc.set) > prefetch_cap + 1 \/ d \in acc.set
    <3>1. taken[k] = acc
      BY <2>1, <2>3 DEF Window
    <3> QED BY <2>2, <3>1
  <2>4. CASE ~(acc.remaining = 0 \/ Cardinality(acc.set) > prefetch_cap + 1 \/ d \in acc.set)
    <3>1. taken[k].set = acc.set \cup {d}
      BY <2>1, <2>4 DEF Window
    <3>2. /\ IsFiniteSet(acc.set) /\ Cardinality(acc.set) \in Nat
          /\ Cardinality(acc.set) <= prefetch_cap + 1
      BY <1>1, <2>2, <2>4, FS_CardinalityType
    <3>3. /\ IsFiniteSet(acc.set \cup {d})
          /\ Cardinality(acc.set \cup {d}) = Cardinality(acc.set) + 1
      BY <2>4, <3>2, FS_AddElement
    <3>4. Good(acc.set \cup {d})
      BY <1>1, <2>1, <2>2, <3>2, <3>3
    <3> HIDE DEF Good
    <3> QED BY <3>1, <3>4
  <2> QED BY <2>3, <2>4
<1>8. Good(taken[n].set)
  <2> DEFINE bad == {k \in 0..n : ~Good(taken[k].set)}
  <2> HIDE DEF Good
  <2>1. ASSUME bad # {} PROVE FALSE
    <3>1. bad \subseteq Nat
      BY <1>2
    <3>2. PICK k \in bad : \A j \in bad : k <= j
      BY <2>1, <3>1, LeastNumber
    <3>3. k # 0
      BY <1>6, <3>2
    <3>4. k \in 1..n /\ k - 1 \in 0..n /\ k - 1 \notin bad
      BY <1>2, <3>2, <3>3
    <3> QED BY <1>7, <3>2, <3>4
  <2>2. n \in 0..n
    BY <1>2
  <2> QED BY <2>1, <2>2
<1> QED BY <1>1, <1>3, <1>8

-----------------------------------------------------------------------------
(* The steps.                                                              *)

(* A step that leaves the queues alone.                                    *)
LEMMA QueueSame ==
  ASSUME QueueInv,
         UNCHANGED <<phy_sorted, unordered, cursor, current_dir, inode_ordered,
                     phy_sorted_leaves, left, phase, next, pc>>
  PROVE  QueueInv'
BY DEF QueueInv

(* A step that leaves the batch alone.                                     *)
LEMMA BatchSame ==
  ASSUME BatchInv, UNCHANGED <<inode_ordered, phy_sorted_leaves, phase, next>>
  PROVE  BatchInv'
BY DEF BatchInv

(* A step that leaves the window alone.                                    *)
LEMMA PrefetchSame ==
  ASSUME PrefetchInv, UNCHANGED <<prefetched, prefetch_cap, unordered, phy_sorted>>
  PROVE  PrefetchInv'
BY DEF PrefetchInv, WindowPending, ToSet

(* A step that leaves the tree of entries alone.                           *)
LEMMA TreeSame ==
  ASSUME TreeInv, UNCHANGED <<vfs, dest>>
  PROVE  TreeInv'
BY DEF TreeInv

(* SetToSeq lists the elements of a finite set.                            *)
LEMMA Listed ==
  ASSUME NEW S, IsFiniteSet(S)
  PROVE  /\ SetToSeq(S) \in Seq(S) /\ ToSet(SetToSeq(S)) = S
         /\ Len(SetToSeq(S)) = Cardinality(S)
<1> DEFINE n == Cardinality(S)
           f == SetToSeq(S)
<1>1. n \in Nat /\ ExistsBijection(1..n, S)
  BY FS_CardinalityType
<1>2. \E g \in [1..n -> S] : IsInjective(g)
  BY <1>1 DEF ExistsBijection, Bijection, Injection, IsInjective
<1>3. f \in [1..n -> S] /\ IsInjective(f)
  BY <1>2 DEF SetToSeq
<1> HIDE DEF f
<1>4. IsFiniteSet(1..n) /\ Cardinality(1..n) = n
  <2>1. 1 \in Int /\ n \in Int
    BY <1>1
  <2> QED BY <1>1, <2>1, FS_Interval
<1>5. f \in Injection(1..n, S)
  BY <1>3 DEF Injection, IsInjective
<1>6. f \in Surjection(1..n, S)
  BY <1>4, <1>5, FS_Injection
<1>7. f \in Seq(S) /\ DOMAIN f = 1..n /\ Len(f) = n
  BY <1>1, <1>3
<1>8. ToSet(f) = S
  BY <1>3, <1>6, <1>7 DEF ToSet, Surjection
<1> QED BY <1>7, <1>8 DEF f

(* The elements of sequences.                                              *)
LEMMA Elements ==
  ASSUME NEW T, NEW s \in Seq(T)
  PROVE  /\ ToSet(s) \subseteq T
         /\ \A x : ToSet(Append(s, x)) = ToSet(s) \cup {x}
         /\ s # <<>> => /\ Head(s) \in T /\ Tail(s) \in Seq(T)
                        /\ ToSet(s) \ {Head(s)} \subseteq ToSet(Tail(s))
         /\ \A t \in Seq(T) : s \o t \in Seq(T) /\ ToSet(s \o t) = ToSet(s) \cup ToSet(t)
<1>1. Len(s) \in Nat /\ DOMAIN s = 1..Len(s)
  BY LenProperties
<1>2. ToSet(s) \subseteq T
  BY <1>1, ElementOfSeq DEF ToSet
<1>3. ASSUME NEW x PROVE ToSet(Append(s, x)) = ToSet(s) \cup {x}
  <2>1. /\ DOMAIN Append(s, x) = 1..(Len(s) + 1)
        /\ \A k \in 1..Len(s) : Append(s, x)[k] = s[k]
        /\ Append(s, x)[Len(s) + 1] = x
    <3>1. s \in Seq(T \cup {x})
      BY SeqMonotonic
    <3> QED BY <1>1, <3>1, AppendProperties
  <2>2. ToSet(Append(s, x)) \subseteq ToSet(s) \cup {x}
    BY <1>1, <2>1 DEF ToSet
  <2>3. ToSet(s) \cup {x} \subseteq ToSet(Append(s, x))
    BY <1>1, <2>1 DEF ToSet
  <2> QED BY <2>2, <2>3
<1>4. ASSUME s # <<>>
      PROVE  /\ Head(s) \in T /\ Tail(s) \in Seq(T)
             /\ ToSet(s) \ {Head(s)} \subseteq ToSet(Tail(s))
  <2>1. /\ Head(s) \in T /\ Tail(s) \in Seq(T) /\ Head(s) = s[1]
        /\ DOMAIN Tail(s) = 1..(Len(s) - 1)
        /\ \A k \in 1..(Len(s) - 1) : Tail(s)[k] = s[k + 1]
    BY <1>1, <1>4, HeadTailProperties
  <2>2. ASSUME NEW k \in 1..Len(s), s[k] # Head(s) PROVE s[k] \in ToSet(Tail(s))
    <3>1. k - 1 \in 1..(Len(s) - 1) /\ Tail(s)[k - 1] = s[k]
      BY <1>1, <2>1, <2>2
    <3> QED BY <2>1, <3>1 DEF ToSet
  <2> QED BY <1>1, <2>1, <2>2 DEF ToSet
<1>5. ASSUME NEW t \in Seq(T)
      PROVE  s \o t \in Seq(T) /\ ToSet(s \o t) = ToSet(s) \cup ToSet(t)
  <2>1. /\ s \o t \in Seq(T) /\ Len(t) \in Nat /\ DOMAIN t = 1..Len(t)
        /\ DOMAIN (s \o t) = 1..(Len(s) + Len(t))
        /\ \A k \in 1..(Len(s) + Len(t)) :
             (s \o t)[k] = IF k <= Len(s) THEN s[k] ELSE t[k - Len(s)]
    BY <1>1, ConcatProperties, LenProperties
  <2>2. ToSet(s \o t) \subseteq ToSet(s) \cup ToSet(t)
    <3> SUFFICES ASSUME NEW k \in 1..(Len(s) + Len(t))
                 PROVE  (s \o t)[k] \in ToSet(s) \cup ToSet(t)
      BY <2>1 DEF ToSet
    <3>1. CASE k <= Len(s)
      BY <1>1, <2>1, <3>1 DEF ToSet
    <3>2. CASE k > Len(s)
      BY <1>1, <2>1, <3>2 DEF ToSet
    <3> QED BY <1>1, <3>1, <3>2
  <2>3. ToSet(s) \subseteq ToSet(s \o t)
    BY <1>1, <2>1 DEF ToSet
  <2>4. ToSet(t) \subseteq ToSet(s \o t)
    <3> SUFFICES ASSUME NEW k \in 1..Len(t) PROVE t[k] \in ToSet(s \o t)
      BY <2>1 DEF ToSet
    <3>1. Len(s) + k \in 1..(Len(s) + Len(t)) /\ (s \o t)[Len(s) + k] = t[k]
      BY <1>1, <2>1
    <3> QED BY <2>1, <3>1 DEF ToSet
  <2> QED BY <2>1, <2>2, <2>3, <2>4
<1> QED BY <1>2, <1>3, <1>4, <1>5

(* add() keeps the queues, and nothing that was to be visited is lost.     *)
LEMMA AddKeeps ==
  ASSUME QueueInv, NEW d \in Dirs, NEW pos, pos # None => pos = DirPos[d], Add(d, pos)
  PROVE  /\ IsFiniteSet(phy_sorted') /\ phy_sorted' \subseteq [pos : Nat, path : Dirs]
         /\ \A e \in phy_sorted' : e.pos = DirPos[e.path]
         /\ \A e, f \in phy_sorted' : e.pos = f.pos => e = f
         /\ unordered' \in Seq(Dirs)
         /\ ToVisit \subseteq ToVisit'
<1>1. /\ IsFiniteSet(phy_sorted) /\ phy_sorted \subseteq [pos : Nat, path : Dirs]
      /\ \A e \in phy_sorted : e.pos = DirPos[e.path]
      /\ \A e, f \in phy_sorted : e.pos = f.pos => e = f
      /\ unordered \in Seq(Dirs)
  BY DEF QueueInv
<1>2. CASE pos = None
  <2>1. unordered' = Append(unordered, d) /\ phy_sorted' = phy_sorted
    BY <1>2 DEF Add
  <2>2. unordered' \in Seq(Dirs)
    BY <1>1, <2>1, AppendProperties
  <2>3. ToSet(unordered) \subseteq ToSet(unordered')
    BY <1>1, <2>1, Elements
  <2> QED BY <1>1, <2>1, <2>2, <2>3 DEF ToVisit, ToSet
<1>3. CASE pos # None
  <2> DEFINE new == [pos |-> pos, path |-> d]
             taken == {e \in phy_sorted : e.pos = pos}
             moved == {e.path : e \in taken}
             kept == {e \in phy_sorted : e.pos # pos}
  <2>1. phy_sorted' = kept \cup {new} /\ unordered' = unordered \o SetToSeq(moved)
    BY <1>3 DEF Add
  <2>2. pos \in Nat /\ new \in [pos : Nat, path : Dirs] /\ new.pos = pos /\ new.path = d
    BY <1>3, ConstantsAssumption
  <2>3. IsFiniteSet(kept \cup {new})
    <3>1. IsFiniteSet(kept)
      BY <1>1, FS_Subset
    <3> HIDE DEF kept, new
    <3> QED BY <3>1, FS_AddElement
  <2>4. moved \subseteq Dirs /\ IsFiniteSet(moved)
    <3>1. moved \subseteq Dirs
      BY <1>1
    <3>2. moved = {} \/ \E e \in taken : moved = {e.path}
      BY <1>1
    <3>3. \A x : IsFiniteSet({x})
      BY FS_Singleton
    <3> HIDE DEF moved
    <3> QED BY <3>1, <3>2, <3>3, FS_EmptySet
  <2>5. SetToSeq(moved) \in Seq(Dirs) /\ ToSet(SetToSeq(moved)) = moved
    <3> HIDE DEF moved
    <3>1. SetToSeq(moved) \in Seq(moved) /\ ToSet(SetToSeq(moved)) = moved
      BY <2>4, Listed
    <3> QED BY <2>4, <3>1, SeqMonotonic
  <2>6. unordered' \in Seq(Dirs) /\ ToSet(unordered') = ToSet(unordered) \cup moved
    <3> HIDE DEF moved
    <3> QED BY <1>1, <2>1, <2>5, Elements
  <2> HIDE DEF new
  <2>7. /\ phy_sorted' \subseteq [pos : Nat, path : Dirs]
        /\ \A e \in phy_sorted' : e.pos = DirPos[e.path]
        /\ \A e, f \in phy_sorted' : e.pos = f.pos => e = f
    BY <1>1, <1>3, <2>1, <2>2
  <2>8. ToVisit' = ToSet(unordered') \cup {e.path : e \in phy_sorted'}
    BY DEF ToVisit, ToSet
  <2>9. {e.path : e \in phy_sorted} \subseteq moved \cup {e.path : e \in phy_sorted'}
    BY <2>1
  <2>10. ToVisit \subseteq ToVisit'
    <3> HIDE DEF moved
    <3> QED BY <2>6, <2>8, <2>9 DEF ToVisit
  <2> QED BY <2>1, <2>3, <2>6, <2>7, <2>10
<1> QED BY <1>2, <1>3

(* remove_prefetch() keeps the window within what is still to be visited   *)
(* after the directory d.                                                  *)
LEMMA RemoveKeeps ==
  ASSUME QueueInv, PrefetchInv, NEW d, RemovePrefetch(d, Prefetch), ToVisit \ {d} \subseteq ToVisit'
  PROVE  PrefetchInv'
<1> DEFINE got == Prefetch
<1>1. got \subseteq ToVisit /\ IsFiniteSet(got) /\ Cardinality(got) <= prefetch_cap + 2
  BY PrefetchMeans
<1>2. prefetch_cap \in 0..CapMax /\ CapMax \in Nat \ {0, 1}
  BY ConstantsAssumption DEF PrefetchInv
<1>3. /\ prefetched' = IF d \in got THEN got \ {d} ELSE {}
      /\ prefetch_cap' = IF d \in got THEN Min({CapMax, prefetch_cap * 2 + 1}) ELSE 2
  BY DEF RemovePrefetch
<1> HIDE DEF got
<1>4. Min({CapMax, prefetch_cap * 2 + 1}) \in prefetch_cap..CapMax
  <2> DEFINE c == prefetch_cap * 2 + 1
  <2>1. c \in Nat /\ c >= prefetch_cap
    BY <1>2
  <2> HIDE DEF c
  <2>2. \E x \in {CapMax, c} : \A y \in {CapMax, c} : x =< y
    BY <1>2, <2>1
  <2>3. /\ Min({CapMax, c}) \in {CapMax, c}
        /\ \A y \in {CapMax, c} : Min({CapMax, c}) =< y
    BY <2>2 DEF Min
  <2>4. Min({CapMax, c}) \in prefetch_cap..CapMax
    BY <1>2, <2>1, <2>3
  <2> QED BY <2>4 DEF c
<1>5. /\ prefetch_cap' \in 0..CapMax /\ IsFiniteSet(prefetched')
      /\ prefetched' \subseteq ToVisit' /\ Cardinality(prefetched') <= prefetch_cap' + 2
  <2>1. CASE d \in got
    <3>1. /\ IsFiniteSet(got \ {d}) /\ Cardinality(got \ {d}) = Cardinality(got) - 1
          /\ Cardinality(got) \in Nat
      BY <1>1, <2>1, FS_RemoveElement, FS_CardinalityType
    <3>2. prefetched' = got \ {d} /\ prefetch_cap' \in prefetch_cap..CapMax
      BY <1>3, <1>4, <2>1
    <3> QED BY <1>1, <1>2, <3>1, <3>2
  <2>2. CASE d \notin got
    <3>1. prefetched' = {} /\ prefetch_cap' = 2
      BY <1>3, <2>2
    <3> QED BY <1>2, <3>1, FS_EmptySet
  <2> QED BY <2>1, <2>2
<1>6. prefetched' \subseteq ToSet(unordered') \cup {e.path : e \in phy_sorted'}
  BY <1>5 DEF ToVisit, ToSet
<1>7. WindowPending'
  BY <1>5, <1>6 DEF WindowPending, ToSet
<1> QED BY <1>5, <1>7 DEF PrefetchInv

(* An add() outside of get_next() keeps the window.                        *)
LEMMA AddKeepsWindow ==
  ASSUME PrefetchInv, ToVisit \subseteq ToVisit', UNCHANGED <<prefetched, prefetch_cap>>
  PROVE  PrefetchInv'
<1>1. prefetched' \subseteq ToSet(unordered') \cup {e.path : e \in phy_sorted'}
  BY DEF PrefetchInv, WindowPending, ToVisit, ToSet
<1>2. WindowPending'
  BY <1>1 DEF PrefetchInv, WindowPending, ToSet
<1> QED BY <1>2 DEF PrefetchInv

(* size_file keeps the tree, and dest refers to files of it.               *)
LEMMA SizeFileKeeps ==
  ASSUME TreeInv, NEW leaf \in Leaves, SizeFile(leaf)
  PROVE  TreeInv'
<1> DEFINE r == cid_and_create(vfs, leaf.path)
<1>1. leaf.path \in Seq(Names) /\ leaf.pos \in Nat
  BY ConstantsAssumption DEF Leaves, Paths
<1>2. /\ vfs' = [r.vfs EXCEPT ![r.id].is_file = TRUE]
      /\ dest' = Append(dest, [pos |-> leaf.pos, id |-> r.id])
  BY DEF SizeFile
<1>3. Created(vfs, leaf.path, r, Names)
  BY <1>1, CreateGrown DEF TreeInv
<1> HIDE DEF r
<1>4. /\ Grown(r.vfs, Names) /\ r.id \in DOMAIN r.vfs
      /\ \A i \in DOMAIN r.vfs : IsStrictPrefix(r.vfs[i].path, r.vfs[r.id].path)
           => r.vfs[i].is_dir
      /\ DOMAIN vfs \subseteq DOMAIN r.vfs
      /\ \A i \in DOMAIN vfs : r.vfs[i].is_file = vfs[i].is_file
  BY <1>3 DEF Created
<1>5. /\ Grown(vfs', Names) /\ DOMAIN vfs' = DOMAIN r.vfs
      /\ \A i \in DOMAIN r.vfs : r.vfs[i].is_file => vfs'[i].is_file
      /\ vfs'[r.id].is_file
  BY <1>2, <1>4, MarkGrown
<1>6. /\ dest \in Seq([pos : Nat, id : Nat]) /\ Len(dest) \in Nat /\ DOMAIN dest = 1..Len(dest)
      /\ \A k \in DOMAIN dest : dest[k].id \in DOMAIN vfs /\ vfs[dest[k].id].is_file
  BY LenProperties DEF TreeInv
<1> DEFINE new == [pos |-> leaf.pos, id |-> r.id]
<1>7. new \in [pos : Nat, id : Nat] /\ new.id = r.id
  <2>1. r.id \in Nat
    BY <1>4, GrownEntry
  <2> QED BY <1>1, <2>1
<1> HIDE DEF new
<1>8. /\ dest' \in Seq([pos : Nat, id : Nat]) /\ DOMAIN dest' = 1..(Len(dest) + 1)
      /\ \A k \in 1..Len(dest) : dest'[k] = dest[k]
      /\ dest'[Len(dest) + 1] = new
  BY <1>2, <1>6, <1>7, AppendProperties DEF new
<1>9. \A k \in DOMAIN dest' : dest'[k].id \in DOMAIN vfs' /\ vfs'[dest'[k].id].is_file
  <2> SUFFICES ASSUME NEW k \in 1..(Len(dest) + 1)
               PROVE  dest'[k].id \in DOMAIN vfs' /\ vfs'[dest'[k].id].is_file
    BY <1>8
  <2>1. CASE k \in 1..Len(dest)
    <3>1. /\ dest'[k] = dest[k] /\ dest[k].id \in DOMAIN vfs /\ vfs[dest[k].id].is_file
          /\ dest[k].id \in DOMAIN r.vfs /\ r.vfs[dest[k].id].is_file
      BY <1>4, <1>6, <1>8, <2>1
    <3> QED BY <1>5, <3>1
  <2>2. CASE k = Len(dest) + 1
    BY <1>4, <1>5, <1>7, <1>8, <2>2
  <2> QED BY <1>6, <2>1, <2>2
<1> QED BY <1>5, <1>8, <1>9 DEF TreeInv

(* Initially.                                                              *)
LEMMA InitIInv ==
  ASSUME Init
  PROVE  IInv
<1>1. QueueInv
  <2>1. roots \in Seq(Dirs \cup Files)
    BY ConstantsAssumption DEF Init, WalkInit
  <2>2. \A T : <<>> \in Seq(T)
    BY EmptySeq
  <2> QED BY <2>1, <2>2, FS_EmptySet DEF Init, WalkInit, QueueInv
<1>2. BatchInv
  BY ConstantsAssumption DEF Init, WalkInit, BatchInv
<1>3. PrefetchInv
  BY ConstantsAssumption, FS_EmptySet DEF Init, WalkInit, PrefetchInv, WindowPending
<1>4. TreeInv
  <2>1. Grown(vfs, Names)
    BY CachesAssumption, LoadedGrown DEF Init
  <2> QED BY <2>1, EmptySeq DEF Init, TreeInv
<1> QED BY <1>1, <1>2, <1>3, <1>4 DEF IInv

(* The roots.                                                              *)
LEMMA RootsKeep ==
  ASSUME IInv, AddRootDir \/ AddRootFile \/ SkipRoot \/ RootFails \/ StartWalk
  PROVE  IInv'
<1>1. QueueInv /\ BatchInv /\ PrefetchInv /\ TreeInv
  BY DEF IInv
<1>2. left \in Seq(Dirs \cup Files)
  BY <1>1 DEF QueueInv
<1>3. CASE AddRootDir
  <2>1. Head(left) \in Dirs /\ left' \in Seq(Dirs \cup Files)
    BY <1>2, <1>3, Elements DEF AddRootDir
  <2>2. /\ IsFiniteSet(phy_sorted') /\ phy_sorted' \subseteq [pos : Nat, path : Dirs]
        /\ \A e \in phy_sorted' : e.pos = DirPos[e.path]
        /\ \A e, f \in phy_sorted' : e.pos = f.pos => e = f
        /\ unordered' \in Seq(Dirs)
        /\ ToVisit \subseteq ToVisit'
    <3>1. Add(Head(left), None)
      BY <1>3 DEF AddRootDir
    <3> QED BY <1>1, <2>1, <3>1, AddKeeps
  <2>3. QueueInv'
    BY <1>1, <1>3, <2>1, <2>2 DEF QueueInv, AddRootDir
  <2>4. PrefetchInv'
    BY <1>1, <1>3, <2>2, AddKeepsWindow DEF AddRootDir
  <2> QED BY <1>1, <1>3, <2>3, <2>4, BatchSame, TreeSame DEF AddRootDir, IInv
<1>4. CASE AddRootFile
  <2>1. Head(left) \in Files /\ left' \in Seq(Dirs \cup Files)
    BY <1>2, <1>4, Elements DEF AddRootFile
  <2>2. Leaf(Head(left), TRUE) \in Leaves
    BY <2>1, ConstantsAssumption DEF Leaf, Leaves
  <2>3. TreeInv'
    BY <1>1, <1>4, <2>2, SizeFileKeeps DEF AddRootFile
  <2>4. QueueInv'
    BY <1>1, <1>4, <2>1 DEF QueueInv, AddRootFile, walkVars, walk, fs
  <2> QED BY <1>1, <1>4, <2>3, <2>4, BatchSame, PrefetchSame DEF AddRootFile, walkVars, walk, fs, IInv
<1>5. CASE StartWalk
  <2>1. QueueInv'
    BY <1>1, <1>5 DEF QueueInv, StartWalk, walkVars, walk, fs
  <2> QED BY <1>1, <1>5, <2>1, BatchSame, PrefetchSame, TreeSame
          DEF StartWalk, walkVars, walk, fs, IInv
<1>6. CASE SkipRoot
  <2>1. left' \in Seq(Dirs \cup Files)
    BY <1>2, <1>6, Elements DEF SkipRoot
  <2>2. QueueInv'
    BY <1>1, <1>6, <2>1 DEF QueueInv, SkipRoot, walk, fs
  <2> QED BY <1>1, <1>6, <2>2, BatchSame, PrefetchSame, TreeSame DEF SkipRoot, walk, fs, IInv
<1>7. CASE RootFails
  <2>1. QueueInv'
    BY <1>1, <1>7 DEF QueueInv, RootFails, walkVars, walk, fs
  <2> QED BY <1>1, <1>7, <2>1, BatchSame, PrefetchSame, TreeSame
          DEF RootFails, walkVars, walk, fs, IInv
<1> QED BY <1>3, <1>4, <1>5, <1>6, <1>7

(* get_next(): a directory is taken, or the cursor goes back.              *)
LEMMA TakeKeeps ==
  ASSUME IInv, TakeUnordered \/ TakeOrdered \/ Rewind, UNCHANGED <<vfs, dest, left, pc>>
  PROVE  IInv'
<1>1. QueueInv /\ BatchInv /\ PrefetchInv /\ TreeInv /\ TreeInv'
  BY TreeSame DEF IInv
<1>2. ASSUME NEW d \in Dirs, ReadDir(d, Prefetch)
      PROVE  /\ current_dir' = None \/ current_dir' = current_dir
                  \/ current_dir' \in [path : Dirs, rest : SUBSET Paths]
             /\ next' = "err" \/ next' = next
             /\ RemovePrefetch(d, Prefetch)
  BY <1>2 DEF ReadDir, ChildrenOf
<1>3. CASE TakeUnordered
  <2>1. /\ unordered # <<>> /\ unordered \in Seq(Dirs)
        /\ unordered' = Tail(unordered) /\ ReadDir(Head(unordered), Prefetch)
    BY <1>1, <1>3 DEF TakeUnordered, QueueInv
  <2>2. /\ Head(unordered) \in Dirs /\ unordered' \in Seq(Dirs)
        /\ ToSet(unordered) \ {Head(unordered)} \subseteq ToSet(unordered')
    BY <2>1, Elements
  <2>3. QueueInv'
    BY <1>1, <1>2, <1>3, <2>1, <2>2 DEF QueueInv, TakeUnordered
  <2>4. ToVisit \ {Head(unordered)} \subseteq ToVisit'
    BY <1>3, <2>2 DEF ToVisit, ToSet, TakeUnordered
  <2>5. PrefetchInv'
    BY <1>1, <1>2, <2>1, <2>2, <2>4, RemoveKeeps
  <2>6. BatchInv'
    BY <1>1, <1>2, <1>3, <2>1, <2>2 DEF BatchInv, TakeUnordered, InLoop, Running
  <2> QED BY <1>1, <2>3, <2>5, <2>6 DEF IInv
<1>4. CASE TakeOrdered
  <2>1. PICK e \in phy_sorted :
          /\ cursor' = e.pos /\ phy_sorted' = phy_sorted \ {e} /\ ReadDir(e.path, Prefetch)
    BY <1>4 DEF TakeOrdered, Ahead
  <2>2. e.path \in Dirs /\ e.pos \in Nat
    BY <1>1 DEF QueueInv
  <2>3. IsFiniteSet(phy_sorted')
    BY <1>1, <2>1, FS_RemoveElement DEF QueueInv
  <2>4. QueueInv'
    BY <1>1, <1>2, <1>4, <2>1, <2>2, <2>3 DEF QueueInv, TakeOrdered
  <2>5. ToVisit \ {e.path} \subseteq ToVisit'
    BY <1>4, <2>1 DEF ToVisit, ToSet, TakeOrdered
  <2>6. PrefetchInv'
    BY <1>1, <1>2, <2>1, <2>2, <2>5, RemoveKeeps
  <2>7. BatchInv'
    BY <1>1, <1>2, <1>4, <2>1, <2>2 DEF BatchInv, TakeOrdered, InLoop, Running
  <2> QED BY <1>1, <2>4, <2>6, <2>7 DEF IInv
<1>5. CASE Rewind
  <2>1. QueueInv'
    BY <1>1, <1>5 DEF QueueInv, Rewind
  <2>2. /\ prefetched' \subseteq ToVisit /\ IsFiniteSet(prefetched')
        /\ Cardinality(prefetched') <= prefetch_cap + 2
    BY <1>1, <1>5, PrefetchMeans DEF Rewind
  <2>3. PrefetchInv'
    BY <1>1, <1>5, <2>2 DEF PrefetchInv, WindowPending, ToVisit, ToSet, Rewind
  <2>4. BatchInv'
    BY <1>1, <1>5, BatchSame DEF Rewind
  <2> QED BY <1>1, <2>1, <2>3, <2>4 DEF IInv
<1> QED BY <1>3, <1>4, <1>5

(* The loop goes through the entries of a directory.                       *)
LEMMA EntryKeeps ==
  ASSUME IInv, UNCHANGED <<vfs, dest, left, pc>>, NEW p \in Paths,
         TypeError(p) \/ EntrySkipped(p) \/ EntryDir(p) \/ EntryLink(p) \/ EntryFile(p)
  PROVE  IInv'
<1>1. QueueInv /\ BatchInv /\ PrefetchInv /\ TreeInv /\ TreeInv'
  BY TreeSame DEF IInv
<1>2. /\ next = "running" /\ phase = "DirWalk"
      /\ current_dir' = None \/ current_dir' \in [path : Dirs, rest : SUBSET Paths]
  <2>1. Took(p)
    BY DEF TypeError, EntrySkipped, EntryDir, EntryLink, EntryFile
  <2>2. current_dir \in [path : Dirs, rest : SUBSET Paths]
    BY <1>1, <2>1 DEF Took, Reading, QueueInv
  <2>3. current_dir' \in [path : Dirs, rest : SUBSET Paths]
    BY <2>1, <2>2 DEF Took
  <2> QED BY <2>1, <2>3 DEF Took, Reading, InLoop, Running
<1>3. CASE TypeError(p)
  <2>1. QueueInv'
    BY <1>1, <1>2, <1>3 DEF QueueInv, TypeError
  <2>2. BatchInv'
    BY <1>1, <1>2, <1>3 DEF BatchInv, TypeError
  <2> QED BY <1>1, <1>3, <2>1, <2>2, PrefetchSame DEF TypeError, IInv
<1>4. CASE EntrySkipped(p) \/ EntryLink(p)
  <2>1. QueueInv'
    BY <1>1, <1>2, <1>4 DEF QueueInv, EntrySkipped, EntryLink
  <2> QED BY <1>1, <1>4, <2>1, BatchSame, PrefetchSame DEF EntrySkipped, EntryLink, IInv
<1>5. CASE EntryDir(p)
  <2>1. PICK pos \in {DirPos[p], None} : Add(p, pos)
    BY <1>5 DEF EntryDir
  <2>2. p \in Dirs
    BY <1>5 DEF EntryDir
  <2>3. /\ IsFiniteSet(phy_sorted') /\ phy_sorted' \subseteq [pos : Nat, path : Dirs]
        /\ \A e \in phy_sorted' : e.pos = DirPos[e.path]
        /\ \A e, f \in phy_sorted' : e.pos = f.pos => e = f
        /\ unordered' \in Seq(Dirs)
        /\ ToVisit \subseteq ToVisit'
    BY <1>1, <2>1, <2>2, AddKeeps
  <2>4. QueueInv'
    BY <1>1, <1>2, <1>5, <2>3 DEF QueueInv, EntryDir
  <2>5. PrefetchInv'
    BY <1>1, <1>5, <2>3, AddKeepsWindow DEF EntryDir
  <2> QED BY <1>1, <1>5, <2>4, <2>5, BatchSame DEF EntryDir, IInv
<1>6. CASE EntryFile(p)
  <2> DEFINE files == Append(inode_ordered, p)
  <2>1. /\ p \in Files
        /\ Len(files) >= BatchSize => inode_ordered' = ByIno(files) /\ phase' = "InodePass"
        /\ Len(files) < BatchSize => inode_ordered' = files /\ phase' = phase
    <3>1. /\ p \in Files
          /\ IF Len(files) >= BatchSize THEN inode_ordered' = ByIno(files) /\ phase' = "InodePass"
                                        ELSE inode_ordered' = files /\ phase' = phase
      BY <1>6 DEF EntryFile
    <3>2. inode_ordered \in Seq(Files) /\ BatchSize \in Nat
      BY <1>1, ConstantsAssumption DEF QueueInv
    <3>3. Len(files) \in Nat
      BY <3>1, <3>2, AppendProperties
    <3> HIDE DEF files
    <3> QED BY <3>1, <3>2, <3>3
  <2>2. /\ files \in Seq(Files) /\ Len(files) = Len(inode_ordered) + 1
        /\ Len(inode_ordered) \in Nat /\ Len(inode_ordered) < BatchSize
        /\ BatchSize \in Nat
    <3>1. inode_ordered \in Seq(Files)
      BY <1>1 DEF QueueInv
    <3>2. Len(inode_ordered) \in Nat
      BY <3>1, LenProperties
    <3>3. files \in Seq(Files) /\ Len(files) = Len(inode_ordered) + 1
      BY <2>1, <3>1, AppendProperties
    <3>4. Len(inode_ordered) < BatchSize
      BY <1>1, <1>2 DEF BatchInv
    <3> QED BY <3>2, <3>3, <3>4, ConstantsAssumption
  <2> HIDE DEF files
  <2>3. ByIno(files) \in Seq(Files) /\ Len(ByIno(files)) = Len(files)
    BY <2>2, SortedByIno
  <2>4. /\ inode_ordered' \in Seq(Files) /\ phase' \in {"DirWalk", "InodePass"}
        /\ Len(inode_ordered') \in 1..BatchSize
        /\ phase' # "InodePass" => Len(inode_ordered') < BatchSize
    BY <1>2, <2>1, <2>2, <2>3
  <2>5. inode_ordered' # <<>>
    BY <2>4, EmptySeq
  <2>6. QueueInv'
    BY <1>1, <1>2, <1>6, <2>4 DEF QueueInv, EntryFile
  <2>7. BatchInv'
    BY <1>1, <1>2, <1>6, <2>2, <2>4, <2>5 DEF BatchInv, EntryFile
  <2> QED BY <1>1, <1>6, <2>6, <2>7, PrefetchSame DEF EntryFile, IInv
<1> QED BY <1>3, <1>4, <1>5, <1>6

(* A batch is made.                                                        *)
LEMMA InodePassKeeps ==
  ASSUME IInv, InodePass, UNCHANGED <<vfs, dest, left, pc>>
  PROVE  IInv'
<1>1. QueueInv /\ BatchInv /\ PrefetchInv /\ TreeInv /\ TreeInv'
  BY TreeSame DEF IInv
<1>2. PICK ok \in SUBSET ToSet(inode_ordered) :
        phy_sorted_leaves' = ByOffset([k \in DOMAIN inode_ordered |->
                               LET f == Reverse(inode_ordered)[k] IN Leaf(f, f \in ok)])
  BY DEF InodePass
<1> DEFINE n == Len(inode_ordered)
           s == [k \in DOMAIN inode_ordered |->
                   LET f == Reverse(inode_ordered)[k] IN Leaf(f, f \in ok)]
<1>3. /\ inode_ordered \in Seq(Files) /\ n \in Nat /\ DOMAIN inode_ordered = 1..n
      /\ n \in 1..BatchSize
  <2>1. inode_ordered \in Seq(Files) /\ n <= BatchSize
    BY <1>1 DEF QueueInv, BatchInv
  <2>2. inode_ordered # <<>>
    BY <1>1 DEF InodePass, BatchInv
  <2>3. n \in Nat \ {0} /\ DOMAIN inode_ordered = 1..n
    BY <2>1, <2>2, EmptySeq, LenProperties
  <2> QED BY <2>1, <2>3, ConstantsAssumption
<1>4. \A f \in Files : \A b \in BOOLEAN : Leaf(f, b) \in Leaves
  BY ConstantsAssumption DEF Leaf, Leaves
<1>5. \A k \in 1..n : Reverse(inode_ordered)[k] \in Files
  <2> SUFFICES ASSUME NEW k \in 1..n PROVE Reverse(inode_ordered)[k] \in Files
    OBVIOUS
  <2>1. (n - k) + 1 \in 1..n
    BY <1>3
  <2>2. Reverse(inode_ordered)[k] = inode_ordered[(n - k) + 1]
    BY DEF Reverse
  <2> QED BY <1>3, <2>1, <2>2, ElementOfSeq
<1>6. \A k \in 1..n : s[k] \in Leaves
  <2> SUFFICES ASSUME NEW k \in 1..n PROVE s[k] \in Leaves
    OBVIOUS
  <2> DEFINE f == Reverse(inode_ordered)[k]
  <2>1. f \in Files
    BY <1>5
  <2>2. s[k] = Leaf(f, f \in ok)
    BY <1>3
  <2>3. (f \in ok) \in BOOLEAN
    OBVIOUS
  <2> HIDE DEF f, s
  <2> QED BY <1>4, <2>1, <2>2, <2>3
<1>7. s \in Seq(Leaves) /\ Len(s) = n
  <2>1. DOMAIN s = 1..n /\ s = [k \in 1..n |-> s[k]]
    BY <1>3
  <2> HIDE DEF s
  <2>2. s \in [1..n -> Leaves]
    BY <1>6, <2>1
  <2> QED BY <1>3, <2>2
<1>8. phy_sorted_leaves' = ByOffset(s)
  BY <1>2
<1> HIDE DEF s
<1>9. /\ ByOffset(s) \in Seq(Leaves) /\ Len(ByOffset(s)) = n
      /\ \A j, k \in DOMAIN ByOffset(s) : j < k => ByOffset(s)[j].pos <= ByOffset(s)[k].pos
  <2>1. \A x \in Leaves : x.pos \in Nat
    BY DEF Leaves
  <2> HIDE DEF n
  <2> QED BY <1>7, <2>1, SortedByOffset
<1>10. \A T : <<>> \in Seq(T) /\ Len(<<>>) = 0
  BY EmptySeq
<1>11. QueueInv'
  BY <1>1, <1>8, <1>9, <1>10 DEF QueueInv, InodePass
<1>12. BatchInv'
  <2>1. /\ Len(phy_sorted_leaves') \in 1..BatchSize
        /\ \A j, k \in DOMAIN phy_sorted_leaves' :
             j < k => phy_sorted_leaves'[j].pos <= phy_sorted_leaves'[k].pos
    BY <1>3, <1>8, <1>9
  <2>2. inode_ordered' = <<>> /\ phase' = "ContentPass" /\ next' = next /\ next = "running"
    BY DEF InodePass, Running
  <2>3. Len(inode_ordered') < BatchSize /\ Len(inode_ordered') <= BatchSize
    BY <1>10, <2>2, ConstantsAssumption
  <2> QED BY <2>1, <2>2, <2>3 DEF BatchInv
<1> QED BY <1>1, <1>11, <1>12, PrefetchSame DEF InodePass, IInv

(* next() is called, closes or loses a directory, hands out a batch, or    *)
(* ends.                                                                   *)
LEMMA CallKeeps ==
  ASSUME IInv, UNCHANGED <<vfs, dest, left, pc>>,
         CallNext \/ EndOfDir \/ ReadError \/ ContentPass \/ NothingLeft
  PROVE  IInv'
<1>1. QueueInv /\ BatchInv /\ PrefetchInv /\ TreeInv /\ TreeInv'
  BY TreeSame DEF IInv
<1>2. CASE CallNext
  <2>1. QueueInv'
    BY <1>1, <1>2 DEF QueueInv, CallNext, walk, fs
  <2>2. BatchInv'
    BY <1>1, <1>2 DEF BatchInv, CallNext, walk, fs
  <2> QED BY <1>1, <1>2, <2>1, <2>2, PrefetchSame DEF CallNext, walk, fs, IInv
<1>3. CASE EndOfDir
  <2>1. QueueInv'
    BY <1>1, <1>3 DEF QueueInv, EndOfDir
  <2> QED BY <1>1, <1>3, <2>1, BatchSame, PrefetchSame DEF EndOfDir, IInv
<1>4. CASE ContentPass
  <2>1. QueueInv'
    BY <1>1, <1>4 DEF QueueInv, ContentPass
  <2>2. BatchInv'
    BY <1>1, <1>4 DEF BatchInv, ContentPass
  <2> QED BY <1>1, <1>4, <2>1, <2>2, PrefetchSame DEF ContentPass, IInv
<1>5. CASE NothingLeft
  <2>1. QueueInv'
    BY <1>1, <1>5 DEF QueueInv, NothingLeft, walk, fs
  <2>2. BatchInv'
    BY <1>1, <1>5 DEF BatchInv, NothingLeft, walk, fs
  <2> QED BY <1>1, <1>5, <2>1, <2>2, PrefetchSame DEF NothingLeft, walk, fs, IInv
<1>6. CASE ReadError
  <2>1. QueueInv'
    BY <1>1, <1>6 DEF QueueInv, ReadError
  <2>2. BatchInv'
    BY <1>1, <1>6 DEF BatchInv, ReadError, Reading, InLoop, Running
  <2> QED BY <1>1, <1>6, <2>1, <2>2, PrefetchSame DEF ReadError, IInv
<1> QED BY <1>2, <1>3, <1>4, <1>5, <1>6

(* A file of a batch is processed or left out.                             *)
LEMMA LeafKeeps ==
  ASSUME IInv, ProcessFile \/ SkipFile
  PROVE  IInv'
<1>1. QueueInv /\ BatchInv /\ PrefetchInv /\ TreeInv
  BY DEF IInv
<1>2. NextLeaf
  BY DEF ProcessFile, SkipFile
<1> DEFINE s == phy_sorted_leaves
<1>3. /\ s \in Seq(Leaves) /\ Len(s) \in 1..BatchSize /\ s # <<>> /\ BatchSize \in Nat
      /\ \A j, k \in DOMAIN s : j < k => s[j].pos <= s[k].pos
      /\ phase # "ContentPass"
  <2>1. s \in Seq(Leaves) /\ next = "ok"
    BY <1>1, <1>2 DEF QueueInv, NextLeaf
  <2>2. /\ Len(s) \in 1..BatchSize
        /\ \A j, k \in DOMAIN s : j < k => s[j].pos <= s[k].pos
        /\ phase # "ContentPass"
    BY <1>1, <2>1 DEF BatchInv
  <2>3. s # <<>>
    BY <2>1, <2>2, EmptySeq, ConstantsAssumption
  <2> QED BY <2>1, <2>2, <2>3, ConstantsAssumption
<1> DEFINE t == Tail(s)
<1>4. /\ Head(s) \in Leaves /\ t \in Seq(Leaves) /\ Len(t) = Len(s) - 1
      /\ DOMAIN s = 1..Len(s) /\ DOMAIN t = 1..(Len(s) - 1)
      /\ \A k \in 1..(Len(s) - 1) : t[k] = s[k + 1]
      /\ t # <<>> => Len(t) # 0
  <2>1. Len(s) \in Nat /\ DOMAIN s = 1..Len(s)
    BY <1>3, LenProperties
  <2>2. /\ Head(s) \in Leaves /\ t \in Seq(Leaves) /\ Len(t) = Len(s) - 1
        /\ DOMAIN t = 1..(Len(s) - 1)
        /\ \A k \in 1..(Len(s) - 1) : t[k] = s[k + 1]
    BY <1>3, <2>1, HeadTailProperties
  <2>3. t # <<>> => Len(t) # 0
    <3> HIDE DEF t
    <3> QED BY <2>2, EmptySeq
  <2> QED BY <2>1, <2>2, <2>3
<1>5. \A j, k \in DOMAIN t : j < k => t[j].pos <= t[k].pos
  <2> SUFFICES ASSUME NEW j \in 1..(Len(s) - 1), NEW k \in 1..(Len(s) - 1), j < k
               PROVE  s[j + 1].pos <= s[k + 1].pos
    BY <1>4
  <2>1. j + 1 \in DOMAIN s /\ k + 1 \in DOMAIN s /\ j + 1 < k + 1
    BY <1>3, <1>4
  <2> QED BY <1>3, <2>1
<1>6. /\ phy_sorted_leaves' = t
      /\ next' = IF t = <<>> THEN "idle" ELSE "ok"
      /\ UNCHANGED <<roots, fs, phy_sorted, unordered, cursor, current_dir, inode_ordered, phase,
                     prefetched, prefetch_cap, left, pc>>
  BY <1>2 DEF NextLeaf
<1> HIDE DEF t
<1>7. QueueInv'
  BY <1>1, <1>4, <1>6 DEF QueueInv
<1>8. BatchInv'
  <2>1. next' = "ok" => Len(t) \in 1..BatchSize
    BY <1>3, <1>4, <1>6
  <2>2. phase' # "ContentPass"
    BY <1>3, <1>6
  <2> QED BY <1>1, <1>5, <1>6, <2>1, <2>2 DEF BatchInv
<1>9. PrefetchInv'
  BY <1>1, <1>6, PrefetchSame
<1>10. TreeInv'
  <2>1. CASE ProcessFile
    <3>1. SizeFile(Head(s))
      BY <2>1 DEF ProcessFile
    <3> QED BY <1>1, <1>4, <3>1, SizeFileKeeps
  <2>2. CASE SkipFile
    BY <1>1, <2>2, TreeSame DEF SkipFile
  <2> QED BY <2>1, <2>2
<1> QED BY <1>7, <1>8, <1>9, <1>10 DEF IInv

(* An error is printed, or the list is sorted at the end.                  *)
LEMMA EndKeeps ==
  ASSUME IInv, ProcessError \/ Finish
  PROVE  IInv'
<1>1. QueueInv /\ BatchInv /\ PrefetchInv /\ TreeInv
  BY DEF IInv
<1>2. CASE ProcessError
  <2>1. QueueInv'
    BY <1>1, <1>2 DEF QueueInv, ProcessError, walk, fs
  <2>2. BatchInv'
    BY <1>1, <1>2 DEF BatchInv, ProcessError, walk, fs
  <2> QED BY <1>1, <1>2, <2>1, <2>2, PrefetchSame, TreeSame DEF ProcessError, walk, fs, IInv
<1>3. CASE Finish
  <2>1. QueueInv'
    BY <1>1, <1>3 DEF QueueInv, Finish, walkVars, walk, fs
  <2>2. dest \in Seq([pos : Nat, id : Nat]) /\ dest' = ByOffset(dest) /\ vfs' = vfs
    BY <1>1, <1>3 DEF TreeInv, Finish
  <2>3. /\ ByOffset(dest) \in Seq([pos : Nat, id : Nat])
        /\ \A k \in DOMAIN ByOffset(dest) : \E i \in DOMAIN dest : ByOffset(dest)[k] = dest[i]
    <3>1. \A x \in [pos : Nat, id : Nat] : x.pos \in Nat
      OBVIOUS
    <3>2. ByOffset(dest) \in Seq([pos : Nat, id : Nat]) /\ Permuted(ByOffset(dest), dest)
      BY <2>2, <3>1, SortedByOffset
    <3> QED BY <2>2, <3>2, PermutedElements
  <2>4. TreeInv'
    <3>1. \A k \in DOMAIN dest' : dest'[k].id \in DOMAIN vfs' /\ vfs'[dest'[k].id].is_file
      BY <1>1, <2>2, <2>3 DEF TreeInv
    <3> QED BY <1>1, <2>2, <2>3, <3>1 DEF TreeInv
  <2> QED BY <1>1, <1>3, <2>1, <2>4, BatchSame, PrefetchSame DEF Finish, walkVars, walk, fs, IInv
<1> QED BY <1>2, <1>3

(* Other programs change what a directory that is being read may yield.    *)
LEMMA EnvironmentKeeps ==
  ASSUME IInv, Environment, UNCHANGED <<vfs, dest, left, pc>>
  PROVE  IInv'
<1>1. QueueInv /\ BatchInv /\ PrefetchInv /\ TreeInv
  BY DEF IInv
<1>2. PICK p \in Changing : Appear(p) \/ Disappear(p)
  BY DEF Environment
<1>3. p \in Paths
  BY ConstantsAssumption
<1>4. CASE Appear(p)
  <2>1. QueueInv'
    <3>1. current_dir' = None \/ current_dir' \in [path : Dirs, rest : SUBSET Paths]
      BY <1>1, <1>3, <1>4 DEF QueueInv, Appear
    <3> QED BY <1>1, <1>4, <3>1 DEF QueueInv, Appear
  <2> QED BY <1>1, <1>4, <2>1, BatchSame, PrefetchSame, TreeSame DEF Appear, IInv
<1>5. CASE Disappear(p)
  <2>1. QueueInv'
    BY <1>1, <1>5, QueueSame DEF Disappear, walk
  <2> QED BY <1>1, <1>5, <2>1, BatchSame, PrefetchSame, TreeSame DEF Disappear, walk, IInv
<1> QED BY <1>2, <1>4, <1>5

-----------------------------------------------------------------------------
(* The theorems.                                                           *)

(* Every step keeps the inductive invariant.                               *)
LEMMA NextKeeps ==
  ASSUME IInv, [Next]_vars
  PROVE  IInv'
<1>1. CASE AddRootDir \/ AddRootFile \/ SkipRoot \/ RootFails \/ StartWalk
  BY <1>1, RootsKeep
<1>2. CASE pc = "walk" /\ (CallNext \/ WalkStep) /\ UNCHANGED <<vfs, dest, left, pc>>
  <2>1. CASE CallNext \/ EndOfDir \/ ReadError \/ ContentPass \/ NothingLeft
    BY <1>2, <2>1, CallKeeps
  <2>2. CASE TakeUnordered \/ TakeOrdered \/ Rewind
    BY <1>2, <2>2, TakeKeeps
  <2>3. CASE \E p \in Paths :
               TypeError(p) \/ EntrySkipped(p) \/ EntryDir(p) \/ EntryLink(p) \/ EntryFile(p)
    BY <1>2, <2>3, EntryKeeps
  <2>4. CASE InodePass
    BY <1>2, <2>4, InodePassKeeps
  <2> QED BY <1>2, <2>1, <2>2, <2>3, <2>4 DEF WalkStep
<1>3. CASE ProcessFile \/ SkipFile
  BY <1>3, LeafKeeps
<1>4. CASE ProcessError \/ Finish
  BY <1>4, EndKeeps
<1>5. CASE Environment /\ UNCHANGED <<vfs, dest, left, pc>>
  BY <1>5, EnvironmentKeeps
<1>6. CASE UNCHANGED vars
  BY <1>6, QueueSame, BatchSame, PrefetchSame, TreeSame DEF IInv, vars, walkVars, walk, fs
<1> QED BY <1>1, <1>2, <1>3, <1>4, <1>5, <1>6 DEF Next, Program

(* The inductive invariant holds in every reachable state.                 *)
THEOREM WalkInvariance == Spec => []IInv
<1>1. Init => IInv
  BY InitIInv
<1>2. IInv /\ [Next]_vars => IInv'
  BY NextKeeps
<1> QED BY <1>1, <1>2, PTL DEF Spec

(* The queues of the walk hold paths of the right kind, and dest refers to *)
(* entries of files.                                                       *)
THEOREM WalkTypes == Spec => []TypeOK
<1>1. IInv => TypeOK
  <2> SUFFICES ASSUME QueueInv, PrefetchInv, TreeInv PROVE TypeOK
    BY DEF IInv
  <2>1. ToSet(unordered) \subseteq Dirs /\ ToSet(inode_ordered) \subseteq Files
    BY Elements DEF QueueInv
  <2>2. prefetched \subseteq Dirs
    <3>1. {e.path : e \in phy_sorted} \subseteq Dirs
      BY DEF QueueInv
    <3> QED BY <2>1, <3>1 DEF PrefetchInv, WindowPending
  <2>3. \A e \in phy_sorted : e.path \in Dirs /\ e.pos = DirPos[e.path]
    BY DEF QueueInv
  <2>4. current_dir # None => current_dir.path \in Dirs /\ current_dir.rest \subseteq Paths
    BY DEF QueueInv
  <2> QED BY <2>1, <2>2, <2>3, <2>4 DEF TypeOK, QueueInv, PrefetchInv, TreeInv
<1> QED BY <1>1, WalkInvariance, PTL

(* However often a file is listed, and whatever the cache knew, it has one *)
(* entry, below its directories, and a path leads to it (cid, child_of,    *)
(* cid_and_create): passes 2 and 3 see the same id.                        *)
THEOREM EntriesAreUnique == Spec => []OneEntryPerPath
<1>1. IInv => OneEntryPerPath
  <2> SUFFICES ASSUME TreeInv PROVE OneEntryPerPath
    BY DEF IInv
  <2>1. WellFormed(vfs)
    BY GrownIsWellFormed DEF TreeInv
  <2>2. \A j, k \in DOMAIN dest : vfs[dest[j].id].path = vfs[dest[k].id].path
                                    => dest[j].id = dest[k].id
    BY DEF TreeInv, Grown
  <2> QED BY <2>1, <2>2 DEF OneEntryPerPath
<1> QED BY <1>1, WalkInvariance, PTL

(* A batch holds between one and batch_size files in the order of their    *)
(* offsets (next()), and what is prefetched is still to be visited and     *)
(* within the cap (prefetch(), remove_prefetch()).                         *)
THEOREM WalkIsBounded == Spec => []Bounded
<1>1. IInv => Bounded
  BY DEF IInv, BatchInv, PrefetchInv, Bounded, BatchBounded
<1> QED BY <1>1, WalkInvariance, PTL

-----------------------------------------------------------------------------
(* How often a sequence leads to a file.                                   *)

Leads(x, f) == IF IsPrefix(x, f) THEN 1 ELSE 0

(* Ways is a number, and 0 of the empty sequence.                          *)
LEMMA WaysType ==
  /\ \A T : \A s \in Seq(T) : \A f : Ways(s, f) \in Nat
  /\ \A f : Ways(<<>>, f) = 0
<1>1. ASSUME NEW T, NEW s \in Seq(T), NEW f PROVE Ways(s, f) \in Nat
  <2>1. DOMAIN s = 1..Len(s) /\ 1 \in Int /\ Len(s) \in Int
    BY LenProperties
  <2>2. IsFiniteSet(DOMAIN s)
    BY <2>1, FS_Interval
  <2>3. IsFiniteSet({k \in DOMAIN s : IsPrefix(s[k], f)})
    BY <2>2, FS_Subset
  <2> QED BY <2>3, FS_CardinalityType DEF Ways
<1>2. ASSUME NEW f PROVE Ways(<<>>, f) = 0
  <2>1. {k \in DOMAIN <<>> : IsPrefix(<<>>[k], f)} = {}
    OBVIOUS
  <2> QED BY <2>1, FS_EmptySet DEF Ways
<1> QED BY <1>1, <1>2

(* A bijection between two finite sets shows that they have one size.      *)
LEMMA SameNumber ==
  ASSUME NEW A, NEW B, IsFiniteSet(A), NEW g \in [A -> B],
         \A x, y \in A : g[x] = g[y] => x = y, \A y \in B : \E x \in A : g[x] = y
  PROVE  IsFiniteSet(B) /\ Cardinality(B) = Cardinality(A)
<1>1. g \in Surjection(A, B)
  BY DEF Surjection
<1>2. g \in Injection(A, B)
  BY DEF Injection, IsInjective
<1>3. g \in Bijection(A, B)
  BY <1>1, <1>2 DEF Bijection
<1>4. ExistsBijection(A, B)
  BY <1>3 DEF ExistsBijection
<1>5. IsFiniteSet(B)
  BY <1>1, FS_Surjection
<1> QED BY <1>4, <1>5, FS_Bijection

(* Ways of a longer sequence.                                              *)
LEMMA WaysAppend ==
  ASSUME NEW T, NEW s \in Seq(T), NEW x \in T, NEW f
  PROVE  Ways(Append(s, x), f) = Ways(s, f) + Leads(x, f)
<1> DEFINE n == Len(s)
           t == Append(s, x)
           A == {k \in DOMAIN s : IsPrefix(s[k], f)}
           B == {k \in DOMAIN t : IsPrefix(t[k], f)}
<1>1. /\ n \in Nat /\ DOMAIN s = 1..n
      /\ DOMAIN t = 1..(n + 1) /\ \A k \in 1..n : t[k] = s[k]
      /\ t[n + 1] = x
  <2>1. n \in Nat /\ DOMAIN s = 1..n
    BY LenProperties
  <2>2. /\ Len(t) = n + 1 /\ t \in Seq(T) /\ \A k \in 1..n : t[k] = s[k]
        /\ t[n + 1] = x
    BY <2>1, AppendProperties
  <2> HIDE DEF t
  <2>3. DOMAIN t = 1..(n + 1)
    BY <2>2, LenProperties
  <2> QED BY <2>1, <2>2, <2>3
<1>2. IsFiniteSet(A) /\ n + 1 \notin A
  <2>1. 1 \in Int /\ n \in Int
    BY <1>1
  <2>2. IsFiniteSet(1..n)
    BY <2>1, FS_Interval
  <2> QED BY <1>1, <2>2, FS_Subset
<1> HIDE DEF t
<1>3. B = IF IsPrefix(x, f) THEN A \cup {n + 1} ELSE A
  <2>1. \A k : k \in B <=> (k \in 1..n /\ IsPrefix(s[k], f)) \/ (k = n + 1 /\ IsPrefix(x, f))
    BY <1>1
  <2> QED BY <1>1, <2>1
<1>4. Ways(s, f) = Cardinality(A) /\ Ways(t, f) = Cardinality(B) /\ Cardinality(A) \in Nat
  BY <1>2, FS_CardinalityType DEF Ways
<1> HIDE DEF A, B
<1>5. Cardinality(A \cup {n + 1}) = Cardinality(A) + 1
  BY <1>2, FS_AddElement
<1> QED BY <1>3, <1>4, <1>5 DEF Leads, t

(* Ways of what is behind the first element.                               *)
LEMMA WaysTail ==
  ASSUME NEW T, NEW s \in Seq(T), s # <<>>, NEW f
  PROVE  Ways(s, f) = Ways(Tail(s), f) + Leads(Head(s), f)
<1> DEFINE n == Len(s)
           t == Tail(s)
           A == {k \in DOMAIN t : IsPrefix(t[k], f)}
           C == {k \in 2..n : IsPrefix(s[k], f)}
           B == {k \in DOMAIN s : IsPrefix(s[k], f)}
<1>1. /\ n \in Nat \ {0} /\ DOMAIN s = 1..n /\ s[1] = Head(s)
      /\ DOMAIN t = 1..(n - 1) /\ \A k \in 1..(n - 1) : t[k] = s[k + 1]
  <2>1. n \in Nat \ {0} /\ DOMAIN s = 1..n
    BY EmptySeq, LenProperties
  <2>2. t \in Seq(T) /\ Len(t) = n - 1 /\ Head(s) = s[1] /\ \A k \in 1..(n - 1) : t[k] = s[k + 1]
    BY <2>1, HeadTailProperties
  <2> HIDE DEF t
  <2>3. DOMAIN t = 1..(n - 1)
    BY <2>2, LenProperties
  <2> QED BY <2>1, <2>2, <2>3
<1> HIDE DEF t
<1>2. IsFiniteSet(A)
  <2>1. 1 \in Int /\ n - 1 \in Int
    BY <1>1
  <2>2. IsFiniteSet(1..(n - 1))
    BY <2>1, FS_Interval
  <2> QED BY <1>1, <2>2, FS_Subset
<1>3. IsFiniteSet(C) /\ Cardinality(C) = Cardinality(A)
  <2> DEFINE g == [k \in A |-> k + 1]
  <2>1. \A k \in A : k + 1 \in C /\ k \in Nat
    BY <1>1
  <2>2. \A c \in C : c - 1 \in A /\ c \in Nat
    BY <1>1
  <2> HIDE DEF A, C
  <2>3. g \in [A -> C] /\ \A x, y \in A : g[x] = g[y] => x = y
    BY <2>1
  <2>4. \A c \in C : \E x \in A : g[x] = c
    BY <2>2
  <2> HIDE DEF g
  <2> QED BY <1>2, <2>3, <2>4, SameNumber
<1>4. B = (IF IsPrefix(Head(s), f) THEN C \cup {1} ELSE C) /\ 1 \notin C
  <2>1. \A k : k \in B <=> (k \in 2..n /\ IsPrefix(s[k], f)) \/ (k = 1 /\ IsPrefix(Head(s), f))
    BY <1>1
  <2> QED BY <1>1, <2>1
<1>5. Ways(t, f) = Cardinality(A) /\ Ways(s, f) = Cardinality(B) /\ Cardinality(A) \in Nat
  BY <1>2, FS_CardinalityType DEF Ways
<1> HIDE DEF A, B, C
<1>6. Cardinality(C \cup {1}) = Cardinality(C) + 1
  BY <1>3, <1>4, FS_AddElement
<1> QED BY <1>3, <1>4, <1>5, <1>6 DEF Leads, t

(* Sorting keeps Ways.                                                     *)
LEMMA WaysPermuted ==
  ASSUME NEW T, NEW s \in Seq(T), NEW t \in Seq(T), Permuted(t, s), NEW f
  PROVE  Ways(t, f) = Ways(s, f)
<1> DEFINE n == Len(s)
           A == {k \in DOMAIN t : IsPrefix(t[k], f)}
           B == {k \in DOMAIN s : IsPrefix(s[k], f)}
<1>1. n \in Nat /\ DOMAIN s = 1..n /\ DOMAIN t = 1..n
  BY LenProperties DEF Permuted
<1>2. PICK g \in Injection(1..n, 1..n) : \A k \in 1..n : t[k] = s[g[k]]
  BY DEF Permuted
<1> HIDE DEF n
<1>3. IsFiniteSet(1..n)
  <2>1. 1 \in Int /\ n \in Int
    BY <1>1
  <2> QED BY <2>1, FS_Interval
<1>4. g \in Surjection(1..n, 1..n) /\ g \in [1..n -> 1..n]
  BY <1>2, <1>3, FS_Injection DEF Injection
<1> DEFINE h == [k \in A |-> g[k]]
<1>5. IsFiniteSet(A)
  BY <1>1, <1>3, FS_Subset
<1>6. \A k \in 1..n : k \in A <=> g[k] \in B
  BY <1>1, <1>2, <1>4
<1>7. A \subseteq 1..n /\ B \subseteq 1..n
  BY <1>1
<1>8. Ways(t, f) = Cardinality(A) /\ Ways(s, f) = Cardinality(B)
  BY DEF Ways
<1> HIDE DEF A, B
<1>9. h \in [A -> B] /\ \A k \in A : h[k] = g[k]
  BY <1>4, <1>6, <1>7
<1> HIDE DEF h
<1>10. \A x, y \in A : h[x] = h[y] => x = y
  BY <1>2, <1>7, <1>9 DEF Injection, IsInjective
<1>11. \A y \in B : \E x \in A : h[x] = y
  BY <1>4, <1>6, <1>7, <1>9 DEF Surjection
<1>12. Cardinality(B) = Cardinality(A)
  BY <1>5, <1>9, <1>10, <1>11, SameNumber
<1> QED BY <1>8, <1>12

-----------------------------------------------------------------------------
(* The way to a file.                                                      *)

(* A set of paths that holds what is above each of them holds the way.     *)
LEMMA WayUp ==
  ASSUME NEW S, S \subseteq Seq(Names), \A p \in S : Len(p) > 1 => Front(p) \in S,
         NEW f \in S, NEW k \in 1..Len(f)
  PROVE  Prefix(f, k) \in S
<1> DEFINE n == Len(f)
           bad == {m \in 0..(n - 1) : Prefix(f, n - m) \notin S}
<1>1. f \in Seq(Names) /\ n \in Nat
  BY LenProperties
<1>2. ASSUME bad # {} PROVE FALSE
  <2>1. bad \subseteq Nat
    BY <1>1
  <2>2. PICK m \in bad : \A j \in bad : m <= j
    BY <1>2, <2>1, LeastNumber
  <2>3. m # 0
    BY <1>1, <2>2, PrefixEnds
  <2>4. m \in 1..(n - 1) /\ m - 1 \in 0..(n - 1) /\ Prefix(f, n - m) \notin S
    BY <1>1, <2>2, <2>3
  <2>5. m - 1 \notin bad
    <3>1. m \in Nat /\ ~(m <= m - 1)
      BY <1>1, <2>4
    <3> HIDE DEF bad
    <3> QED BY <2>2, <3>1
  <2> DEFINE j == (n - m) + 1
  <2>6. j \in 2..n /\ n - (m - 1) = j /\ j - 1 = n - m
    BY <1>1, <2>4
  <2>7. Prefix(f, j) \in S
    BY <2>4, <2>5, <2>6
  <2> HIDE DEF j, n
  <2>8. j \in 1..n /\ j \in 0..n
    BY <2>6
  <2>9. Len(Prefix(f, j)) = j /\ Front(Prefix(f, j)) = Prefix(f, j - 1)
    BY <1>1, <2>8, PrefixSeq, PrefixParts DEF n
  <2>10. Prefix(f, j - 1) \in S
    BY <2>6, <2>7, <2>9
  <2> QED BY <2>4, <2>6, <2>10
<1>3. n - k \in 0..(n - 1) /\ n - (n - k) = k
  BY <1>1
<1>4. n - k \notin bad
  BY <1>2
<1> QED BY <1>3, <1>4

(* What IsPrefix means.                                                    *)
LEMMA LeadsTo ==
  ASSUME NEW p \in Seq(Names), NEW f \in Seq(Names)
  PROVE  /\ IsPrefix(p, f) <=> Len(p) <= Len(f) /\ p = Prefix(f, Len(p))
         /\ Len(p) \in Nat /\ Len(f) \in Nat
         /\ IsPrefix(p, f) /\ Len(p) = Len(f) => p = f
<1>1. Len(p) \in Nat /\ Len(f) \in Nat
  BY LenProperties
<1>2. SubSeq(p, 1, Len(p)) = p /\ Prefix(f, Len(f)) = f
  BY SubSeqFull, PrefixEnds
<1>3. IsPrefix(p, f) <=> Len(p) <= Len(f) /\ p = Prefix(f, Len(p))
  BY <1>1, <1>2 DEF IsPrefix, Prefix
<1> QED BY <1>1, <1>2, <1>3

(* Nothing but directories leads to a file, and it itself.                 *)
LEMMA OnlyDirsLead ==
  ASSUME NEW f \in Files, NEW p \in Paths, IsPrefix(p, f), p # f
  PROVE  p \in Dirs /\ Len(p) < Len(f)
<1>1. p \in Seq(Names) /\ f \in Seq(Names) /\ f \in Paths
  BY ConstantsAssumption DEF Paths
<1>2. Len(p) < Len(f) /\ p = Prefix(f, Len(p)) /\ Len(p) \in Nat /\ Len(f) \in Nat
  BY <1>1, LeadsTo
<1>3. CASE Len(p) = 0
  <2>1. p = <<>>
    BY <1>1, <1>3, EmptySeq
  <2> QED BY <1>2, <2>1, TypesAssumption DEF Paths
<1>4. CASE Len(p) # 0
  <2> DEFINE j == Len(p) + 1
  <2>1. j \in 1..Len(f) /\ j \in 0..Len(f) /\ j > 1 /\ j - 1 = Len(p)
    BY <1>2, <1>4
  <2>2. Paths \subseteq Seq(Names) /\ \A q \in Paths : Len(q) > 1 => Front(q) \in Paths
    BY ConstantsAssumption, TypesAssumption DEF Paths
  <2> HIDE DEF j
  <2>3. Prefix(f, j) \in Paths
    BY <1>1, <2>1, <2>2, WayUp
  <2>4. Len(Prefix(f, j)) = j /\ Front(Prefix(f, j)) = Prefix(f, j - 1)
    BY <1>1, <2>1, PrefixSeq, PrefixParts
  <2>5. Front(Prefix(f, j)) \in Dirs
    BY <2>1, <2>3, <2>4, TypesAssumption
  <2> QED BY <1>2, <2>1, <2>4, <2>5
<1> QED BY <1>3, <1>4

(* Among the entries of a directory one at most leads to a file, and then  *)
(* the directory does.                                                     *)
LEMMA EntryLeads ==
  ASSUME NEW f \in Files, NEW d \in Paths, NEW c \in ChildrenOf(d), IsPrefix(c, f)
  PROVE  /\ IsPrefix(d, f) /\ c = Prefix(f, Len(d) + 1)
         /\ Len(d) + 1 \in 1..Len(f)
<1>1. c \in Seq(Names) /\ f \in Seq(Names) /\ d \in Seq(Names) /\ c # <<>> /\ Front(c) = d
  BY ConstantsAssumption DEF Paths, ChildrenOf
<1>2. Len(c) <= Len(f) /\ c = Prefix(f, Len(c)) /\ Len(c) \in Nat /\ Len(f) \in Nat
  BY <1>1, LeadsTo
<1>3. Len(d) = Len(c) - 1 /\ Len(c) \in Nat \ {0}
  BY <1>1, FrontIsPrefix
<1>4. Len(c) \in 1..Len(f) /\ Len(d) + 1 = Len(c)
  BY <1>2, <1>3
<1>5. Front(Prefix(f, Len(c))) = Prefix(f, Len(c) - 1)
  BY <1>1, <1>4, PrefixParts
<1>6. d = Prefix(f, Len(d)) /\ Len(d) <= Len(f)
  BY <1>1, <1>2, <1>3, <1>4, <1>5
<1> QED BY <1>1, <1>2, <1>4, <1>6, LeadsTo

(* If a directory leads to a file that exists one of its entries does.     *)
LEMMA SomeEntryLeads ==
  ASSUME DiskInv, NEW f \in Files, f \in disk, NEW d \in Dirs, IsPrefix(d, f)
  PROVE  \E c \in ChildrenOf(d) \cap disk : IsPrefix(c, f)
<1>1. f \in Seq(Names) /\ d \in Seq(Names) /\ d \in Paths /\ d # f
  BY ConstantsAssumption, TypesAssumption DEF Paths
<1>2. d = Prefix(f, Len(d)) /\ Len(d) \in Nat /\ Len(f) \in Nat /\ Len(d) < Len(f)
  BY <1>1, LeadsTo
<1> DEFINE k == Len(d) + 1
           c == Prefix(f, k)
<1>3. k \in 1..Len(f) /\ k \in 0..Len(f) /\ k - 1 = Len(d)
  BY <1>2
<1> HIDE DEF k
<1>4. c \in disk
  <2>1. disk \subseteq Seq(Names) /\ \A p \in disk : Len(p) > 1 => Front(p) \in disk
    BY ConstantsAssumption DEF DiskInv
  <2> QED BY <1>3, <2>1, WayUp
<1>5. /\ c # <<>> /\ Front(c) = Prefix(f, k - 1)
      /\ c \in Seq(Names) /\ Len(c) = k
  BY <1>1, <1>3, PrefixSeq, PrefixParts
<1>6. c \in ChildrenOf(d)
  BY <1>2, <1>3, <1>4, <1>5 DEF ChildrenOf, DiskInv
<1>7. IsPrefix(c, f)
  BY <1>1, <1>3, <1>5, LeadsTo
<1> QED BY <1>4, <1>6, <1>7

(* A file that was left alone is there, and so is the way to it.           *)
LEMMA WayThere ==
  ASSUME DiskInv, NEW f \in Files, Undisturbed(f)
  PROVE  /\ f \in disk
         /\ \A p \in Paths : IsPrefix(p, f) /\ p # <<>> => p \in disk
<1>1. f \in disk /\ f \in Paths /\ f \in Seq(Names)
  BY ConstantsAssumption DEF Undisturbed, Paths
<1>2. ASSUME NEW p \in Paths, IsPrefix(p, f), p # <<>> PROVE p \in disk
  <2>1. p \in Seq(Names)
    BY ConstantsAssumption
  <2>2. Len(p) <= Len(f) /\ p = Prefix(f, Len(p)) /\ Len(p) \in Nat /\ Len(p) # 0 /\ Len(f) \in Nat
    BY <1>1, <1>2, <2>1, LeadsTo, EmptySeq
  <2>3. Len(p) \in 1..Len(f)
    BY <2>2
  <2>4. disk \subseteq Seq(Names) /\ \A q \in disk : Len(q) > 1 => Front(q) \in disk
    BY ConstantsAssumption DEF DiskInv
  <2>5. Prefix(f, Len(p)) \in disk
    BY <1>1, <2>3, <2>4, WayUp
  <2> QED BY <2>2, <2>5
<1> QED BY <1>1, <1>2

-----------------------------------------------------------------------------
(* The parts of Listings.                                                  *)

Parts(f) ==
  /\ Ways(left, f) \in Nat /\ Ways(unordered, f) \in Nat /\ Placed(f) \in Nat
  /\ InDir(f) \in {0, 1} /\ Ways(inode_ordered, f) \in Nat
  /\ Ways(LeafPaths, f) \in Nat /\ Ways(DestPaths, f) \in Nat

(* All parts are numbers.                                                  *)
LEMMA PartsType ==
  ASSUME QueueInv, TreeInv, NEW f
  PROVE  Parts(f) /\ LeafPaths \in Seq(Files) /\ DestPaths \in Seq(Seq(Names))
<1>1. /\ left \in Seq(Dirs \cup Files) /\ unordered \in Seq(Dirs)
      /\ inode_ordered \in Seq(Files) /\ phy_sorted_leaves \in Seq(Leaves)
      /\ IsFiniteSet(phy_sorted)
  BY DEF QueueInv
<1>2. LeafPaths \in Seq(Files)
  <2>1. /\ DOMAIN phy_sorted_leaves = 1..Len(phy_sorted_leaves) /\ Len(phy_sorted_leaves) \in Nat
        /\ \A k \in 1..Len(phy_sorted_leaves) : phy_sorted_leaves[k] \in Leaves
    BY <1>1, LenProperties, ElementOfSeq
  <2>2. LeafPaths \in [1..Len(phy_sorted_leaves) -> Files]
    BY <2>1 DEF LeafPaths, Leaves
  <2> QED BY <2>1, <2>2
<1>3. DestPaths \in Seq(Seq(Names))
  <2>1. /\ dest \in Seq([pos : Nat, id : Nat]) /\ Grown(vfs, Names)
        /\ \A k \in DOMAIN dest : dest[k].id \in DOMAIN vfs
    BY DEF TreeInv
  <2>2. DOMAIN dest = 1..Len(dest) /\ Len(dest) \in Nat
    BY <2>1, LenProperties
  <2>3. \A i \in DOMAIN vfs : vfs[i].path \in Seq(Names)
    <3>1. vfs \in Seq(Entries(Names))
      BY <2>1 DEF Grown
    <3>2. \A i \in DOMAIN vfs : vfs[i] \in Entries(Names)
      BY <3>1, LenProperties, ElementOfSeq
    <3> QED BY <3>2 DEF Entries
  <2>4. DestPaths \in [1..Len(dest) -> Seq(Names)]
    BY <2>1, <2>2, <2>3 DEF DestPaths
  <2> QED BY <2>2, <2>4
<1>4. Placed(f) \in Nat
  <2>1. IsFiniteSet({e \in phy_sorted : IsPrefix(e.path, f)})
    BY <1>1, FS_Subset
  <2> QED BY <2>1, FS_CardinalityType DEF Placed
<1>5. InDir(f) \in {0, 1}
  BY DEF InDir
<1>6. /\ Ways(left, f) \in Nat /\ Ways(unordered, f) \in Nat /\ Ways(inode_ordered, f) \in Nat
      /\ Ways(LeafPaths, f) \in Nat /\ Ways(DestPaths, f) \in Nat
  BY <1>1, <1>2, <1>3, WaysType
<1> QED BY <1>2, <1>3, <1>4, <1>5, <1>6 DEF Parts

(* Listings after a step.                                                  *)
LEMMA NextParts ==
  ASSUME NEW f
  PROVE  Listings(f)' = Ways(left', f) + Ways(unordered', f) + Placed(f)' + InDir(f)'
                          + Ways(inode_ordered', f) + Ways(LeafPaths', f) + Ways(DestPaths', f)
BY DEF Listings, Ways, LeafPaths, DestPaths

(* What a step has to do for a file: its listings do not grow, and they    *)
(* stay as many if it is left alone.                                       *)
Kept(f) ==
  /\ Listings(f)' <= Listings(f)
  /\ Undisturbed(f)' => Undisturbed(f) /\ Listings(f)' = Listings(f)

(* A step that does this keeps ListInv.                                    *)
LEMMA KeptIsEnough ==
  ASSUME ListInv, IInv, IInv', DiskInv, UNCHANGED roots, \A f \in Files : Kept(f),
         \A k \in DOMAIN dest' : vfs'[dest'[k].id].path \in Files
  PROVE  ListInv'
<1>1. ASSUME NEW f \in Files
      PROVE  Listings(f)' <= Covering(f)' /\ (Undisturbed(f)' => Listings(f)' = Covering(f)')
  <2>1. Covering(f)' = Covering(f)
    BY DEF Covering
  <2>2. Listings(f) <= Covering(f) /\ (Undisturbed(f) => Listings(f) = Covering(f))
    BY DEF ListInv
  <2>3. Listings(f) \in Nat
    <3>1. Parts(f)
      BY PartsType DEF IInv
    <3> QED BY <3>1 DEF Parts, Listings
  <2>4. Listings(f)' \in Nat
    <3>1. Parts(f)'
      BY PartsType, PTL DEF IInv
    <3> QED BY <3>1 DEF Parts, Listings
  <2>5. Covering(f) \in Nat
    <3>1. Ways(roots, f) \in Nat
      BY WaysType DEF DiskInv
    <3> QED BY <3>1 DEF Covering, Ways
  <2> QED BY <1>1, <2>1, <2>2, <2>3, <2>4, <2>5 DEF Kept
<1> QED BY <1>1 DEF ListInv

-----------------------------------------------------------------------------
(* What the operations of the walk do to the parts.                        *)

(* A directory more that leads to f, or not.                               *)
LEMMA OneMore ==
  ASSUME NEW S, IsFiniteSet(S), NEW e, e \notin S, NEW f
  PROVE  Cardinality({x \in S \cup {e} : IsPrefix(x.path, f)})
           = Cardinality({x \in S : IsPrefix(x.path, f)}) + Leads(e.path, f)
<1> DEFINE A == {x \in S : IsPrefix(x.path, f)}
           B == {x \in S \cup {e} : IsPrefix(x.path, f)}
<1>1. IsFiniteSet(A) /\ e \notin A
  BY FS_Subset
<1>2. B = IF IsPrefix(e.path, f) THEN A \cup {e} ELSE A
  OBVIOUS
<1> HIDE DEF A, B
<1>3. Cardinality(A) \in Nat /\ Cardinality(A \cup {e}) = Cardinality(A) + 1
  BY <1>1, FS_CardinalityType, FS_AddElement
<1>4. Cardinality(B) = Cardinality(A) + Leads(e.path, f)
  BY <1>2, <1>3 DEF Leads
<1> QED BY <1>4 DEF A, B

(* add(): the directory is to be visited, and who had its place still is.  *)
LEMMA AddWays ==
  ASSUME QueueInv, NEW d \in Dirs, NEW pos, pos # None => pos = DirPos[d], Add(d, pos), NEW f
  PROVE  Ways(unordered', f) + Placed(f)' = Ways(unordered, f) + Placed(f) + Leads(d, f)
<1>1. /\ IsFiniteSet(phy_sorted) /\ phy_sorted \subseteq [pos : Nat, path : Dirs]
      /\ \A e, g \in phy_sorted : e.pos = g.pos => e = g
      /\ unordered \in Seq(Dirs)
  BY DEF QueueInv
<1> DEFINE On(S) == Cardinality({x \in S : IsPrefix(x.path, f)})
<1>2. Placed(f) = On(phy_sorted) /\ Placed(f)' = On(phy_sorted')
  BY DEF Placed
<1>3. \A S : IsFiniteSet(S) => On(S) \in Nat
  <2> SUFFICES ASSUME NEW S, IsFiniteSet(S) PROVE On(S) \in Nat
    OBVIOUS
  <2>1. IsFiniteSet({x \in S : IsPrefix(x.path, f)})
    BY FS_Subset
  <2> QED BY <2>1, FS_CardinalityType
<1>4. \A S, e : IsFiniteSet(S) /\ e \notin S => On(S \cup {e}) = On(S) + Leads(e.path, f)
  BY OneMore
<1> HIDE DEF On
<1>5. /\ Ways(unordered, f) \in Nat
      /\ \A x \in Dirs : Ways(Append(unordered, x), f) = Ways(unordered, f) + Leads(x, f)
      /\ \A x : Leads(x, f) \in Nat
  BY <1>1, WaysType, WaysAppend DEF Leads
<1>6. CASE pos = None
  <2>1. unordered' = Append(unordered, d) /\ phy_sorted' = phy_sorted
    BY <1>6 DEF Add
  <2>2. Ways(unordered', f) = Ways(unordered, f) + Leads(d, f) /\ Placed(f)' = Placed(f)
    BY <1>2, <1>5, <2>1
  <2> QED BY <1>1, <1>2, <1>3, <1>5, <2>2
<1>7. CASE pos # None
  <2> DEFINE new == [pos |-> pos, path |-> d]
             taken == {e \in phy_sorted : e.pos = pos}
             moved == {e.path : e \in taken}
             kept == {e \in phy_sorted : e.pos # pos}
  <2>1. phy_sorted' = kept \cup {new} /\ unordered' = unordered \o SetToSeq(moved)
    BY <1>7 DEF Add
  <2>2. new.path = d /\ new \notin kept
    OBVIOUS
  <2>3. IsFiniteSet(kept)
    BY <1>1, FS_Subset
  <2> HIDE DEF new
  <2>4. On(phy_sorted') = On(kept) + Leads(d, f)
    <3> HIDE DEF kept
    <3> QED BY <1>4, <2>1, <2>2, <2>3
  <2>5. CASE taken = {}
    <3>1. kept = phy_sorted /\ moved = {}
      BY <2>5
    <3>2. SetToSeq({}) = <<>>
      <4>1. SetToSeq({}) \in Seq({}) /\ Len(SetToSeq({})) = 0
        BY FS_EmptySet, Listed
      <4> QED BY <4>1, EmptySeq
    <3>3. unordered' = unordered
      <4>1. unordered' = unordered \o <<>>
        BY <2>1, <3>1, <3>2
      <4> QED BY <1>1, <4>1, ConcatEmptySeq
    <3>4. Ways(unordered', f) = Ways(unordered, f) /\ On(kept) = On(phy_sorted)
      BY <3>1, <3>3
    <3>5. On(phy_sorted) \in Nat /\ Leads(d, f) \in Nat
      BY <1>1, <1>3, <1>5
    <3> HIDE DEF kept, moved, taken
    <3> QED BY <1>2, <1>5, <2>4, <3>4, <3>5
  <2>6. ASSUME NEW e \in taken
        PROVE  Ways(unordered', f) + Placed(f)' = Ways(unordered, f) + Placed(f) + Leads(d, f)
    <3>1. /\ e \in phy_sorted /\ e \notin kept /\ kept \cup {e} = phy_sorted
          /\ moved = {e.path} /\ e.path \in Dirs
      BY <1>1
    <3>2. SetToSeq({e.path}) = <<e.path>>
      <4> DEFINE s == SetToSeq({e.path})
      <4>1. IsFiniteSet({e.path}) /\ Cardinality({e.path}) = 1
        BY FS_Singleton
      <4>2. s \in Seq({e.path}) /\ Len(s) = 1
        BY <4>1, Listed
      <4> HIDE DEF s
      <4>3. s \in [1..1 -> {e.path}]
        BY <4>2
      <4>4. s = <<e.path>>
        BY <4>3
      <4> QED BY <4>4 DEF s
    <3>3. unordered' = Append(unordered, e.path)
      <4>1. unordered' = unordered \o <<e.path>>
        BY <2>1, <3>1, <3>2
      <4> QED BY <1>1, <3>1, <4>1, AppendIsConcat
    <3>4. On(phy_sorted) = On(kept) + Leads(e.path, f)
      <4> HIDE DEF kept, taken
      <4> QED BY <1>4, <2>3, <3>1
    <3>5. Ways(unordered', f) = Ways(unordered, f) + Leads(e.path, f)
      BY <1>5, <3>1, <3>3
    <3>6. On(kept) \in Nat /\ Leads(e.path, f) \in Nat /\ Leads(d, f) \in Nat
      BY <1>3, <1>5, <2>3
    <3> HIDE DEF kept, taken, moved
    <3> QED BY <1>2, <1>5, <2>4, <3>4, <3>5, <3>6
  <2> QED BY <2>5, <2>6
<1> QED BY <1>6, <1>7

(* A directory that is opened yields one way for the one it was.           *)
LEMMA ReadDirWays ==
  ASSUME DiskInv, current_dir = None, NEW d \in Dirs, NEW fetched, ReadDir(d, fetched),
         UNCHANGED fs, NEW f \in Files
  PROVE  /\ InDir(f) = 0 /\ InDir(f)' <= Leads(d, f)
         /\ Undisturbed(f)' => Undisturbed(f) /\ InDir(f)' = Leads(d, f)
         /\ lost \subseteq lost'
<1>1. InDir(f) = 0 /\ disk' = disk /\ touched' = touched /\ d \in Paths
  BY DEF InDir, fs, Paths
<1>2. lost \subseteq lost'
  BY DEF ReadDir
<1>3. Undisturbed(f)' => Undisturbed(f)
  BY <1>1, <1>2 DEF Undisturbed
<1>4. CASE d \in disk /\ current_dir' = [path |-> d, rest |-> ChildrenOf(d) \cap disk]
  <2>1. current_dir' # None
    <3>1. [path |-> d, rest |-> ChildrenOf(d) \cap disk] \in [path : Dirs, rest : SUBSET Paths]
      BY DEF ChildrenOf
    <3> QED BY <1>4, <3>1, ConstantsAssumption
  <2>2. Yield' = (ChildrenOf(d) \cap disk) \cup (ChildrenOf(d) \ (disk \cup touched))
    BY <1>1, <1>4 DEF Yield, ChildrenOf
  <2>3. InDir(f)' = IF \E c \in Yield' : IsPrefix(c, f) THEN 1 ELSE 0
    BY <2>1 DEF InDir
  <2>4. InDir(f)' <= Leads(d, f)
    <3>1. (\E c \in Yield' : IsPrefix(c, f)) => IsPrefix(d, f)
      BY <1>1, <2>2, EntryLeads
    <3> QED BY <2>3, <3>1 DEF Leads
  <2>5. ASSUME Undisturbed(f)', IsPrefix(d, f) PROVE InDir(f)' = 1
    <3>1. \E c \in ChildrenOf(d) \cap disk : IsPrefix(c, f)
      BY <1>3, <2>5, SomeEntryLeads, WayThere
    <3> QED BY <2>2, <2>3, <3>1
  <2>6. InDir(f)' \in {0, 1}
    BY <2>3
  <2> QED BY <1>1, <1>2, <1>3, <2>4, <2>5, <2>6 DEF Leads
<1>5. CASE lost' = lost \cup {d} /\ current_dir' = current_dir
  <2>1. InDir(f)' = 0
    BY <1>5 DEF InDir
  <2>2. Undisturbed(f)' => ~IsPrefix(d, f)
    BY <1>5 DEF Undisturbed
  <2> QED BY <1>1, <1>2, <1>3, <2>1, <2>2 DEF Leads
<1> QED BY <1>4, <1>5 DEF ReadDir

(* An entry that is taken is no way of its directory any more.             *)
LEMMA TookWays ==
  ASSUME QueueInv, DiskInv, NEW p \in Paths, Took(p), UNCHANGED fs, NEW f \in Files
  PROVE  /\ InDir(f) = InDir(f)' + Leads(p, f) /\ InDir(f)' \in {0, 1}
         /\ p # <<>>
<1> DEFINE d == current_dir.path
<1>1. /\ current_dir # None /\ p \in current_dir.rest
      /\ current_dir' = [current_dir EXCEPT !.rest = @ \ {p}]
      /\ disk' = disk /\ touched' = touched
  BY DEF Took, Reading, fs
<1>2. current_dir \in [path : Dirs, rest : SUBSET Paths]
  BY <1>1 DEF QueueInv
<1>3. /\ d \in Dirs /\ d \in Paths
      /\ current_dir' = [path |-> d, rest |-> current_dir.rest \ {p}]
      /\ current_dir.rest \subseteq ChildrenOf(d) \cap (disk \cup touched)
  BY <1>1, <1>2 DEF DiskInv, Paths
<1>4. current_dir' # None
  <2>1. [path |-> d, rest |-> current_dir.rest \ {p}] \in [path : Dirs, rest : SUBSET Paths]
    BY <1>2
  <2> QED BY <1>3, <2>1, ConstantsAssumption
<1>5. /\ Yield = current_dir.rest \cup (ChildrenOf(d) \ (disk \cup touched))
      /\ Yield' = (current_dir.rest \ {p}) \cup (ChildrenOf(d) \ (disk \cup touched))
  BY <1>1, <1>3 DEF Yield, ChildrenOf
<1>6. Yield' = Yield \ {p} /\ p \in Yield /\ Yield \subseteq ChildrenOf(d)
  BY <1>1, <1>3, <1>5
<1>7. /\ InDir(f) = IF \E c \in Yield : IsPrefix(c, f) THEN 1 ELSE 0
      /\ InDir(f)' = IF \E c \in Yield' : IsPrefix(c, f) THEN 1 ELSE 0
  BY <1>1, <1>4 DEF InDir
<1>8. \A c, e \in Yield : IsPrefix(c, f) /\ IsPrefix(e, f) => c = e
  <2> SUFFICES ASSUME NEW c \in Yield, NEW e \in Yield, IsPrefix(c, f), IsPrefix(e, f) PROVE c = e
    OBVIOUS
  <2>1. c = Prefix(f, Len(d) + 1) /\ e = Prefix(f, Len(d) + 1)
    BY <1>3, <1>6, EntryLeads
  <2> QED BY <2>1
<1>9. p # <<>>
  BY <1>6 DEF ChildrenOf
<1> HIDE DEF d
<1> QED BY <1>6, <1>7, <1>8, <1>9 DEF Leads

-----------------------------------------------------------------------------
(* The steps and the lists.                                                *)

(* What a step leaves alone.                                               *)
LEMMA Still ==
  ASSUME NEW f
  PROVE  /\ Listings(f) = Ways(left, f) + Ways(unordered, f) + Placed(f) + InDir(f)
                             + Ways(inode_ordered, f) + Ways(LeafPaths, f) + Ways(DestPaths, f)
         /\ UNCHANGED phy_sorted => Placed(f)' = Placed(f)
         /\ UNCHANGED <<current_dir, fs>> => InDir(f)' = InDir(f)
         /\ UNCHANGED phy_sorted_leaves => LeafPaths' = LeafPaths
         /\ UNCHANGED <<vfs, dest>> => DestPaths' = DestPaths
         /\ UNCHANGED fs /\ lost \subseteq lost' => (Undisturbed(f)' => Undisturbed(f))
<1>1. UNCHANGED phy_sorted => Placed(f)' = Placed(f)
  BY DEF Placed
<1>2. UNCHANGED <<current_dir, fs>> => InDir(f)' = InDir(f)
  BY DEF InDir, Yield, ChildrenOf, fs
<1>3. UNCHANGED phy_sorted_leaves => LeafPaths' = LeafPaths
  BY DEF LeafPaths
<1>4. UNCHANGED <<vfs, dest>> => DestPaths' = DestPaths
  BY DEF DestPaths
<1>5. UNCHANGED fs /\ lost \subseteq lost' => (Undisturbed(f)' => Undisturbed(f))
  BY DEF Undisturbed, fs
<1> QED BY <1>1, <1>2, <1>3, <1>4, <1>5 DEF Listings

(* get_next(): a directory is taken, or the cursor goes back.              *)
LEMMA TakeLists ==
  ASSUME ListedInv, TakeUnordered \/ TakeOrdered \/ Rewind, UNCHANGED <<vfs, dest, left, pc>>,
         NEW f \in Files
  PROVE  Kept(f)
<1>1. QueueInv /\ TreeInv /\ DiskInv /\ Parts(f)
  BY PartsType DEF ListedInv, IInv
<1>2. UNCHANGED fs
  BY DEF TakeUnordered, TakeOrdered, Rewind
<1>3. CASE TakeUnordered
  <2>1. /\ unordered # <<>> /\ unordered \in Seq(Dirs) /\ current_dir = None
        /\ unordered' = Tail(unordered)
        /\ \E fetched : ReadDir(Head(unordered), fetched)
        /\ UNCHANGED <<phy_sorted, inode_ordered, phy_sorted_leaves>>
    BY <1>1, <1>3 DEF TakeUnordered, QueueInv
  <2>2. /\ Ways(unordered, f) = Ways(unordered', f) + Leads(Head(unordered), f)
        /\ Head(unordered) \in Dirs /\ unordered' \in Seq(Dirs)
    BY <2>1, WaysTail, Elements
  <2>3. /\ InDir(f) = 0 /\ InDir(f)' <= Leads(Head(unordered), f)
        /\ Undisturbed(f)' => Undisturbed(f) /\ InDir(f)' = Leads(Head(unordered), f)
    BY <1>1, <1>2, <2>1, <2>2, ReadDirWays
  <2>4. InDir(f)' \in {0, 1} /\ Ways(unordered', f) \in Nat /\ Leads(Head(unordered), f) \in {0, 1}
    BY <2>2, WaysType DEF InDir, Leads
  <2>5. Placed(f)' = Placed(f) /\ LeafPaths' = LeafPaths /\ DestPaths' = DestPaths
    BY <2>1, Still
  <2>6. Listings(f)' = (Listings(f) - Leads(Head(unordered), f)) + InDir(f)'
    <3>1. Listings(f)' = Ways(left, f) + Ways(unordered', f) + Placed(f) + InDir(f)'
                           + Ways(inode_ordered, f) + Ways(LeafPaths, f) + Ways(DestPaths, f)
      BY <2>1, <2>5, NextParts
    <3>2. Listings(f) = Ways(left, f) + (Ways(unordered', f) + Leads(Head(unordered), f))
                          + Placed(f) + 0
                          + Ways(inode_ordered, f) + Ways(LeafPaths, f) + Ways(DestPaths, f)
      BY <2>2, <2>3, Still
    <3> QED BY <1>1, <2>4, <3>1, <3>2 DEF Parts
  <2>7. Listings(f) \in Nat
    BY <1>1, Still DEF Parts
  <2> QED BY <2>3, <2>4, <2>6, <2>7 DEF Kept
<1>4. CASE TakeOrdered
  <2>1. PICK e \in phy_sorted :
          phy_sorted' = phy_sorted \ {e} /\ \E fetched : ReadDir(e.path, fetched)
    BY <1>4 DEF TakeOrdered, Ahead
  <2>2. /\ e.path \in Dirs /\ current_dir = None
        /\ UNCHANGED <<unordered, inode_ordered, phy_sorted_leaves>>
    BY <1>1, <1>4 DEF TakeOrdered, QueueInv
  <2>3. Placed(f) = Placed(f)' + Leads(e.path, f) /\ Placed(f)' \in Nat
    <3> DEFINE S == phy_sorted \ {e}
    <3>1. IsFiniteSet(S) /\ e \notin S /\ S \cup {e} = phy_sorted
      BY <1>1, FS_Subset DEF QueueInv
    <3>2. Placed(f)' = Cardinality({x \in S : IsPrefix(x.path, f)})
      BY <2>1 DEF Placed
    <3>3. Placed(f) = Cardinality({x \in S \cup {e} : IsPrefix(x.path, f)})
      BY <3>1 DEF Placed
    <3>4. IsFiniteSet({x \in S : IsPrefix(x.path, f)})
      BY <3>1, FS_Subset
    <3>5. Placed(f)' \in Nat
      BY <3>2, <3>4, FS_CardinalityType
    <3> HIDE DEF S
    <3>6. Placed(f) = Placed(f)' + Leads(e.path, f)
      BY <3>1, <3>2, <3>3, OneMore
    <3> QED BY <3>5, <3>6
  <2>4. /\ InDir(f) = 0 /\ InDir(f)' <= Leads(e.path, f)
        /\ Undisturbed(f)' => Undisturbed(f) /\ InDir(f)' = Leads(e.path, f)
    BY <1>1, <1>2, <2>1, <2>2, ReadDirWays
  <2>5. InDir(f)' \in {0, 1} /\ Leads(e.path, f) \in {0, 1}
    BY DEF InDir, Leads
  <2> QED BY <1>1, <2>2, <2>3, <2>4, <2>5, NextParts, Still DEF Parts, Kept
<1>5. CASE Rewind
  <2>1. UNCHANGED <<phy_sorted, unordered, current_dir, inode_ordered, phy_sorted_leaves, lost>>
    BY <1>5 DEF Rewind
  <2> QED BY <1>1, <1>2, <2>1, NextParts, Still DEF Parts, Kept
<1> QED BY <1>3, <1>4, <1>5

(* The loop goes through the entries of a directory.                       *)
LEMMA EntryLists ==
  ASSUME ListedInv, UNCHANGED <<vfs, dest, left, pc>>, NEW p \in Paths,
         TypeError(p) \/ EntrySkipped(p) \/ EntryDir(p) \/ EntryLink(p) \/ EntryFile(p),
         NEW f \in Files
  PROVE  Kept(f)
<1>1. QueueInv /\ TreeInv /\ DiskInv /\ Parts(f)
  BY PartsType DEF ListedInv, IInv
<1>2. Took(p) /\ UNCHANGED fs /\ UNCHANGED phy_sorted_leaves
  BY DEF TypeError, EntrySkipped, EntryDir, EntryLink, EntryFile
<1>3. /\ InDir(f) = InDir(f)' + Leads(p, f) /\ InDir(f)' \in {0, 1}
      /\ p # <<>> /\ Leads(p, f) \in {0, 1}
  BY <1>1, <1>2, TookWays DEF Leads
<1>gone. ASSUME UNCHANGED <<phy_sorted, unordered, inode_ordered>>
         PROVE  Listings(f) = Listings(f)' + Leads(p, f) /\ Listings(f)' \in Nat
  <2>1. /\ Placed(f)' = Placed(f) /\ LeafPaths' = LeafPaths /\ DestPaths' = DestPaths
    BY <1>2, <1>gone, Still
  <2>2. Listings(f)' = Ways(left, f) + Ways(unordered, f) + Placed(f) + InDir(f)'
                         + Ways(inode_ordered, f) + Ways(LeafPaths, f) + Ways(DestPaths, f)
    BY <1>gone, <2>1, NextParts
  <2>3. Listings(f) = Ways(left, f) + Ways(unordered, f) + Placed(f) + (InDir(f)' + Leads(p, f))
                        + Ways(inode_ordered, f) + Ways(LeafPaths, f) + Ways(DestPaths, f)
    BY <1>3, Still
  <2>4. Parts(f)
    BY <1>1
  <2>5. InDir(f)' \in Nat /\ Leads(p, f) \in Nat
    BY <1>3
  <2> QED BY <2>2, <2>3, <2>4, <2>5 DEF Parts
<1>4. CASE TypeError(p)
  <2>1. UNCHANGED <<phy_sorted, unordered, inode_ordered>> /\ lost' = lost \cup {p}
    BY <1>4 DEF TypeError
  <2>2. Undisturbed(f)' => Leads(p, f) = 0
    BY <2>1 DEF Undisturbed, Leads
  <2>3. Undisturbed(f)' => Undisturbed(f)
    BY <1>2, <2>1, Still
  <2> QED BY <1>3, <1>gone, <2>1, <2>2, <2>3 DEF Kept
<1>5. CASE EntrySkipped(p)
  <2>1. UNCHANGED <<phy_sorted, unordered, inode_ordered, lost>> /\ p \notin disk
    BY <1>5 DEF EntrySkipped
  <2>2. Undisturbed(f) => Leads(p, f) = 0
    BY <1>1, <1>3, <2>1, WayThere DEF Leads
  <2>3. Undisturbed(f)' => Undisturbed(f)
    BY <1>2, <2>1, Still
  <2> QED BY <1>3, <1>gone, <2>1, <2>2, <2>3 DEF Kept
<1>6. CASE EntryDir(p)
  <2>1. PICK pos \in {DirPos[p], None} : Add(p, pos)
    BY <1>6 DEF EntryDir
  <2>2. p \in Dirs /\ UNCHANGED <<inode_ordered, lost>>
    BY <1>6 DEF EntryDir
  <2>3. Ways(unordered', f) + Placed(f)' = Ways(unordered, f) + Placed(f) + Leads(p, f)
    BY <1>1, <2>1, <2>2, AddWays
  <2>4. Undisturbed(f)' => Undisturbed(f)
    BY <1>2, <2>2, Still
  <2>5. Ways(unordered', f) \in Nat /\ Placed(f)' \in Nat
    <3>1. /\ IsFiniteSet(phy_sorted') /\ unordered' \in Seq(Dirs)
      BY <1>1, <2>1, <2>2, AddKeeps
    <3>2. IsFiniteSet({e \in phy_sorted' : IsPrefix(e.path, f)})
      BY <3>1, FS_Subset
    <3> QED BY <3>1, <3>2, FS_CardinalityType, WaysType DEF Placed
  <2>6. LeafPaths' = LeafPaths /\ DestPaths' = DestPaths
    BY <1>2, Still
  <2>7. Listings(f)' = Listings(f) /\ Listings(f) \in Nat
    <3>1. Listings(f)' = Ways(left, f) + Ways(unordered', f) + Placed(f)' + InDir(f)'
                           + Ways(inode_ordered, f) + Ways(LeafPaths, f) + Ways(DestPaths, f)
      BY <2>2, <2>6, NextParts
    <3>2. Listings(f) = Ways(left, f) + Ways(unordered, f) + Placed(f) + (InDir(f)' + Leads(p, f))
                          + Ways(inode_ordered, f) + Ways(LeafPaths, f) + Ways(DestPaths, f)
      BY <1>3, Still
    <3>3. InDir(f)' \in Nat /\ Leads(p, f) \in Nat
      BY <1>3
    <3> QED BY <1>1, <2>3, <2>5, <3>1, <3>2, <3>3 DEF Parts
  <2> QED BY <2>4, <2>7 DEF Kept
<1>7. CASE EntryLink(p)
  <2>1. UNCHANGED <<phy_sorted, unordered, inode_ordered, lost>> /\ p \in Links
    BY <1>7 DEF EntryLink
  <2>2. Leads(p, f) = 0
    BY <2>1, OnlyDirsLead, TypesAssumption DEF Leads
  <2>3. Undisturbed(f)' => Undisturbed(f)
    BY <1>2, <2>1, Still
  <2> QED BY <1>3, <1>gone, <2>1, <2>2, <2>3 DEF Kept
<1>8. CASE EntryFile(p)
  <2> DEFINE files == Append(inode_ordered, p)
  <2>1. /\ UNCHANGED <<phy_sorted, unordered, lost>> /\ p \in Files
        /\ inode_ordered' = files \/ inode_ordered' = ByIno(files)
        /\ inode_ordered \in Seq(Files)
    BY <1>1, <1>8 DEF EntryFile, QueueInv
  <2>2. files \in Seq(Files) /\ Ways(files, f) = Ways(inode_ordered, f) + Leads(p, f)
    BY <2>1, AppendProperties, WaysAppend
  <2> HIDE DEF files
  <2>3. ByIno(files) \in Seq(Files) /\ Ways(ByIno(files), f) = Ways(files, f)
    BY <2>2, SortedByIno, WaysPermuted
  <2>4. Ways(inode_ordered', f) = Ways(inode_ordered, f) + Leads(p, f)
    BY <2>1, <2>2, <2>3
  <2>5. Undisturbed(f)' => Undisturbed(f)
    BY <1>2, <2>1, Still
  <2>6. LeafPaths' = LeafPaths /\ DestPaths' = DestPaths /\ Placed(f)' = Placed(f)
    BY <1>2, <2>1, Still
  <2>7. Listings(f)' = Listings(f) /\ Listings(f) \in Nat
    <3>1. Listings(f)' = Ways(left, f) + Ways(unordered, f) + Placed(f) + InDir(f)'
                           + (Ways(inode_ordered, f) + Leads(p, f))
                           + Ways(LeafPaths, f) + Ways(DestPaths, f)
      BY <2>1, <2>4, <2>6, NextParts
    <3>2. Listings(f) = Ways(left, f) + Ways(unordered, f) + Placed(f) + (InDir(f)' + Leads(p, f))
                          + Ways(inode_ordered, f) + Ways(LeafPaths, f) + Ways(DestPaths, f)
      BY <1>3, Still
    <3>3. InDir(f)' \in Nat /\ Leads(p, f) \in Nat
      BY <1>3
    <3> QED BY <1>1, <3>1, <3>2, <3>3 DEF Parts
  <2> QED BY <2>5, <2>7 DEF Kept
<1> QED BY <1>4, <1>5, <1>6, <1>7, <1>8

(* A batch is made.                                                        *)
LEMMA InodePassLists ==
  ASSUME ListedInv, InodePass, UNCHANGED <<vfs, dest, left, pc>>, NEW f \in Files
  PROVE  Kept(f)
<1>1. QueueInv /\ TreeInv /\ BatchInv /\ EndInv /\ Parts(f)
  BY PartsType DEF ListedInv, IInv
<1>2. PICK ok \in SUBSET ToSet(inode_ordered) :
        phy_sorted_leaves' = ByOffset([k \in DOMAIN inode_ordered |->
                               LET g == Reverse(inode_ordered)[k] IN Leaf(g, g \in ok)])
  BY DEF InodePass
<1> DEFINE n == Len(inode_ordered)
           s == [k \in DOMAIN inode_ordered |->
                   LET g == Reverse(inode_ordered)[k] IN Leaf(g, g \in ok)]
           t == [k \in 1..n |-> inode_ordered[(n - k) + 1]]
           u == [k \in DOMAIN s |-> s[k].path]
<1>3. /\ UNCHANGED <<fs, phy_sorted, unordered, current_dir, lost>>
      /\ inode_ordered' = <<>> /\ phy_sorted_leaves' = ByOffset(s)
  BY <1>2 DEF InodePass
<1>4. phy_sorted_leaves = <<>>
  <2>1. next = "running" /\ (phase = "InodePass" \/ inode_ordered # <<>>)
    BY DEF InodePass, Running
  <2>2. phase # "ContentPass" \/ inode_ordered = <<>>
    BY <1>1 DEF EndInv
  <2> QED BY <1>1, <2>1, <2>2 DEF EndInv
<1>5. inode_ordered \in Seq(Files) /\ n \in Nat /\ DOMAIN inode_ordered = 1..n
  BY <1>1, LenProperties DEF QueueInv
<1>6. t \in Seq(Files) /\ Len(t) = n /\ Permuted(t, inode_ordered)
  <2>1. \A k \in 1..n : (n - k) + 1 \in 1..n /\ inode_ordered[(n - k) + 1] \in Files
    <3>1. \A k \in 1..n : (n - k) + 1 \in 1..n
      BY <1>5
    <3> QED BY <1>5, <3>1, ElementOfSeq
  <2>2. t \in [1..n -> Files]
    BY <2>1
  <2>3. t \in Seq(Files) /\ Len(t) = n
    BY <1>5, <2>2
  <2> DEFINE g == [k \in 1..n |-> (n - k) + 1]
  <2>4. g \in [1..n -> 1..n] /\ \A k \in 1..n : t[k] = inode_ordered[g[k]]
    BY <2>1
  <2>5. \A j, k \in 1..n : g[j] = g[k] => j = k
    BY <1>5
  <2> HIDE DEF g, t
  <2>6. g \in Injection(1..n, 1..n)
    BY <2>4, <2>5 DEF Injection, IsInjective
  <2> QED BY <2>3, <2>4, <2>6 DEF Permuted
<1>7. s \in Seq(Leaves) /\ Len(s) = n /\ \A k \in 1..n : s[k].path = t[k]
  <2>1. \A k \in 1..n : s[k] = Leaf(t[k], t[k] \in ok)
    <3>1. \A k \in 1..n : Reverse(inode_ordered)[k] = t[k]
      BY DEF Reverse
    <3> HIDE DEF t
    <3> QED BY <1>5, <3>1
  <2>2. \A k \in 1..n : t[k] \in Files
    BY <1>6, ElementOfSeq
  <2>3. \A x \in Files : \A b \in BOOLEAN : Leaf(x, b) \in Leaves /\ Leaf(x, b).path = x
    BY ConstantsAssumption DEF Leaf, Leaves
  <2>4. DOMAIN s = 1..n /\ s = [k \in 1..n |-> s[k]]
    BY <1>5
  <2> HIDE DEF s, t
  <2>5. \A k \in 1..n : s[k] \in Leaves /\ s[k].path = t[k]
    <3> SUFFICES ASSUME NEW k \in 1..n PROVE s[k] \in Leaves /\ s[k].path = t[k]
      OBVIOUS
    <3>1. (t[k] \in ok) \in BOOLEAN
      OBVIOUS
    <3> QED BY <2>1, <2>2, <2>3, <3>1
  <2>6. s \in [1..n -> Leaves]
    BY <2>4, <2>5
  <2> QED BY <1>5, <2>5, <2>6
<1> HIDE DEF s, t
<1>8. u \in Seq(Files) /\ u = t
  <2>1. DOMAIN s = 1..n /\ DOMAIN t = 1..n /\ t = [k \in 1..n |-> t[k]]
    <3>1. t \in Seq(Files) /\ s \in Seq(Leaves)
      BY <1>6, <1>7
    <3>2. t = [k \in 1..Len(t) |-> t[k]] /\ DOMAIN t = 1..Len(t) /\ DOMAIN s = 1..Len(s)
      BY <3>1, LenProperties
    <3> QED BY <1>6, <1>7, <3>2
  <2>2. u = t
    BY <1>7, <2>1
  <2> HIDE DEF u
  <2> QED BY <1>6, <2>2
<1>9. ByOffset(s) \in Seq(Leaves) /\ Permuted(ByOffset(s), s)
  <2>1. \A x \in Leaves : x.pos \in Nat
    BY DEF Leaves
  <2> QED BY <1>7, <2>1, SortedByOffset
<1>10. LeafPaths' \in Seq(Files) /\ Permuted(LeafPaths', t)
  <2>1. LeafPaths' = [k \in DOMAIN ByOffset(s) |-> ByOffset(s)[k].path]
    BY <1>3 DEF LeafPaths
  <2>2. Len(ByOffset(s)) = n /\ DOMAIN ByOffset(s) = 1..n
    BY <1>7, <1>9, LenProperties DEF Permuted
  <2>3. PICK g \in Injection(1..n, 1..n) : \A k \in 1..n : ByOffset(s)[k] = s[g[k]]
    BY <1>7, <1>9 DEF Permuted
  <2> HIDE DEF n
  <2>4. \A k \in 1..n : g[k] \in 1..n
    BY <2>3 DEF Injection
  <2>5. \A k \in 1..n : LeafPaths'[k] = t[g[k]]
    BY <1>7, <2>1, <2>2, <2>3, <2>4
  <2>6. \A k \in 1..n : t[g[k]] \in Files
    BY <1>6, <2>4, ElementOfSeq
  <2>7. LeafPaths' \in [1..n -> Files]
    BY <2>1, <2>2, <2>5, <2>6
  <2>8. LeafPaths' \in Seq(Files) /\ Len(LeafPaths') = n
    BY <1>5, <2>7 DEF n
  <2> QED BY <1>6, <2>3, <2>5, <2>8 DEF Permuted
<1>11. Ways(LeafPaths', f) = Ways(inode_ordered, f)
  BY <1>5, <1>6, <1>10, WaysPermuted
<1>12. Ways(inode_ordered', f) = 0 /\ Ways(LeafPaths, f) = 0
  <2>1. LeafPaths = <<>>
    BY <1>4 DEF LeafPaths
  <2> QED BY <1>3, <2>1, WaysType
<1>13. /\ Placed(f)' = Placed(f) /\ DestPaths' = DestPaths /\ InDir(f)' = InDir(f)
       /\ Undisturbed(f)' => Undisturbed(f)
  BY <1>3, Still
<1>14. Listings(f)' = Listings(f) /\ Listings(f) \in Nat
  <2>1. Listings(f)' = Ways(left, f) + Ways(unordered, f) + Placed(f) + InDir(f)
                         + 0 + Ways(inode_ordered, f) + Ways(DestPaths, f)
    BY <1>3, <1>11, <1>12, <1>13, NextParts
  <2>2. Listings(f) = Ways(left, f) + Ways(unordered, f) + Placed(f) + InDir(f)
                        + Ways(inode_ordered, f) + 0 + Ways(DestPaths, f)
    BY <1>12, Still
  <2> QED BY <1>1, <2>1, <2>2 DEF Parts
<1> QED BY <1>13, <1>14 DEF Kept

(* next() is called, closes or loses a directory, hands out a batch, or    *)
(* ends.                                                                   *)
LEMMA CallLists ==
  ASSUME ListedInv, UNCHANGED <<vfs, dest, left, pc>>,
         CallNext \/ EndOfDir \/ ReadError \/ ContentPass \/ NothingLeft, NEW f \in Files
  PROVE  Kept(f)
<1>1. QueueInv /\ TreeInv /\ DiskInv /\ Parts(f)
  BY PartsType DEF ListedInv, IInv
<1>2. /\ UNCHANGED <<fs, phy_sorted, unordered, inode_ordered, phy_sorted_leaves>>
      /\ lost \subseteq lost'
  BY DEF CallNext, EndOfDir, ReadError, ContentPass, NothingLeft, walk
<1>3. /\ Placed(f)' = Placed(f) /\ DestPaths' = DestPaths /\ LeafPaths' = LeafPaths
      /\ Undisturbed(f)' => Undisturbed(f)
  BY <1>2, Still
<1>4. InDir(f)' <= InDir(f) /\ (Undisturbed(f)' => InDir(f)' = InDir(f)) /\ InDir(f)' \in {0, 1}
  <2>1. CASE EndOfDir \/ ReadError
    <3>1. current_dir # None /\ current_dir.rest \subseteq lost' /\ current_dir' = None
      BY <2>1 DEF EndOfDir, ReadError, Reading
    <3>2. InDir(f)' = 0 /\ InDir(f) \in {0, 1}
      BY <3>1 DEF InDir
    <3>3. ASSUME Undisturbed(f)', NEW c \in Yield, IsPrefix(c, f) PROVE FALSE
      <4>1. c \notin current_dir.rest
        BY <3>1, <3>3 DEF Undisturbed
      <4>2. c \in ChildrenOf(current_dir.path) /\ c \notin disk
        BY <4>1 DEF Yield
      <4> QED BY <1>1, <1>3, <3>3, <4>2, WayThere DEF ChildrenOf
    <3>4. Undisturbed(f)' => InDir(f) = 0
      BY <3>3 DEF InDir
    <3> QED BY <3>2, <3>4
  <2>2. CASE CallNext \/ ContentPass \/ NothingLeft
    <3>1. UNCHANGED <<current_dir, fs>>
      BY <2>2 DEF CallNext, ContentPass, NothingLeft, walk
    <3>2. InDir(f)' = InDir(f)
      BY <3>1, Still
    <3> QED BY <1>1, <3>2 DEF Parts
  <2> QED BY <2>1, <2>2
<1>5. Listings(f)' = (Listings(f) - InDir(f)) + InDir(f)' /\ Listings(f) \in Nat
  <2>1. Listings(f)' = Ways(left, f) + Ways(unordered, f) + Placed(f) + InDir(f)'
                         + Ways(inode_ordered, f) + Ways(LeafPaths, f) + Ways(DestPaths, f)
    BY <1>2, <1>3, NextParts
  <2> QED BY <1>1, <1>4, <2>1, Still DEF Parts
<1>6. InDir(f) \in {0, 1}
  BY <1>1 DEF Parts
<1> QED BY <1>3, <1>4, <1>5, <1>6 DEF Kept

(* size_file: dest has one file more.                                      *)
LEMMA SizeFilePaths ==
  ASSUME TreeInv, NEW leaf \in Leaves, SizeFile(leaf)
  PROVE  DestPaths' = Append(DestPaths, leaf.path)
<1> DEFINE r == cid_and_create(vfs, leaf.path)
           n == Len(dest)
<1>1. leaf.path \in Seq(Names)
  BY ConstantsAssumption DEF Leaves, Paths
<1>2. /\ vfs' = [r.vfs EXCEPT ![r.id].is_file = TRUE]
      /\ dest' = Append(dest, [pos |-> leaf.pos, id |-> r.id])
  BY DEF SizeFile
<1>3. Created(vfs, leaf.path, r, Names)
  BY <1>1, CreateGrown DEF TreeInv
<1> HIDE DEF r
<1>4. /\ Grown(r.vfs, Names) /\ r.id \in DOMAIN r.vfs /\ r.vfs[r.id].path = leaf.path
      /\ \A i \in DOMAIN r.vfs : IsStrictPrefix(r.vfs[i].path, r.vfs[r.id].path)
           => r.vfs[i].is_dir
      /\ DOMAIN vfs \subseteq DOMAIN r.vfs
      /\ \A i \in DOMAIN vfs : r.vfs[i].path = vfs[i].path
  BY <1>3 DEF Created
<1>5. \A i \in DOMAIN r.vfs : vfs'[i].path = r.vfs[i].path
  BY <1>2, <1>4, MarkGrown
<1>6. /\ dest \in Seq([pos : Nat, id : Nat]) /\ n \in Nat /\ DOMAIN dest = 1..n
      /\ \A k \in 1..n : dest[k].id \in DOMAIN vfs
  BY LenProperties DEF TreeInv
<1> DEFINE new == [pos |-> leaf.pos, id |-> r.id]
<1>7. new \in [pos : Nat, id : Nat] /\ new.id = r.id
  <2>1. r.id \in Nat /\ leaf.pos \in Nat
    BY <1>4, GrownEntry DEF Leaves
  <2> QED BY <2>1
<1> HIDE DEF new
<1>8. /\ DOMAIN dest' = 1..(n + 1)
      /\ \A k \in 1..n : dest'[k] = dest[k]
      /\ dest'[n + 1] = new
  <2>1. dest' = Append(dest, new)
    BY <1>2 DEF new
  <2> QED BY <1>6, <1>7, <2>1, AppendProperties
<1>9. DestPaths \in Seq(Seq(Names)) /\ Len(DestPaths) = n /\ DOMAIN DestPaths = 1..n
  <2>1. DOMAIN DestPaths = 1..n
    BY <1>6 DEF DestPaths
  <2>2. \A k \in 1..n : DestPaths[k] \in Seq(Names)
    <3>1. vfs \in Seq(Entries(Names))
      BY DEF TreeInv, Grown
    <3>2. \A i \in DOMAIN vfs : vfs[i] \in Entries(Names)
      BY <3>1, LenProperties, ElementOfSeq
    <3>3. \A i \in DOMAIN vfs : vfs[i].path \in Seq(Names)
      BY <3>2 DEF Entries
    <3> QED BY <1>6, <3>3 DEF DestPaths
  <2>3. DestPaths \in [1..n -> Seq(Names)]
    BY <2>1, <2>2 DEF DestPaths
  <2> QED BY <1>6, <2>1, <2>3
<1>10. DestPaths' = [k \in 1..(n + 1) |-> vfs'[dest'[k].id].path]
  BY <1>8 DEF DestPaths
<1>11. \A k \in 1..n : vfs'[dest'[k].id].path = DestPaths[k]
  BY <1>4, <1>5, <1>6, <1>8 DEF DestPaths
<1>12. vfs'[dest'[n + 1].id].path = leaf.path
  BY <1>4, <1>5, <1>7, <1>8
<1>13. /\ DOMAIN Append(DestPaths, leaf.path) = 1..(n + 1)
       /\ \A k \in 1..n : Append(DestPaths, leaf.path)[k] = DestPaths[k]
       /\ Append(DestPaths, leaf.path)[n + 1] = leaf.path
       /\ Append(DestPaths, leaf.path) \in Seq(Seq(Names))
       /\ Len(Append(DestPaths, leaf.path)) = n + 1
  BY <1>1, <1>9, AppendProperties
<1> DEFINE t == Append(DestPaths, leaf.path)
<1> HIDE DEF t, n
<1>14. t = [k \in 1..(n + 1) |-> t[k]]
  BY <1>13, LenProperties DEF t
<1>15. \A k \in 1..(n + 1) : vfs'[dest'[k].id].path = t[k]
  <2> SUFFICES ASSUME NEW k \in 1..(n + 1) PROVE vfs'[dest'[k].id].path = t[k]
    OBVIOUS
  <2>1. k \in 1..n \/ k = n + 1
    BY <1>6
  <2> QED BY <1>11, <1>12, <1>13, <2>1 DEF t
<1>16. DestPaths' = t
  BY <1>10, <1>14, <1>15
<1> QED BY <1>16 DEF t

(* The paths of dest are files.                                            *)
LEMMA DestFiles ==
  ASSUME TreeInv
  PROVE  (\A k \in DOMAIN dest : vfs[dest[k].id].path \in Files) <=> DestPaths \in Seq(Files)
<1>1. Len(dest) \in Nat /\ DOMAIN dest = 1..Len(dest)
  BY LenProperties DEF TreeInv
<1>2. ASSUME \A k \in DOMAIN dest : vfs[dest[k].id].path \in Files PROVE DestPaths \in Seq(Files)
  <2>1. DestPaths \in [1..Len(dest) -> Files]
    BY <1>1, <1>2 DEF DestPaths
  <2> QED BY <1>1, <2>1
<1>3. ASSUME DestPaths \in Seq(Files), NEW k \in DOMAIN dest PROVE vfs[dest[k].id].path \in Files
  <2>1. DOMAIN DestPaths = 1..Len(dest) /\ DestPaths[k] = vfs[dest[k].id].path
    BY <1>1 DEF DestPaths
  <2>2. DOMAIN DestPaths = 1..Len(DestPaths) /\ \A j \in 1..Len(DestPaths) : DestPaths[j] \in Files
    BY <1>3, LenProperties, ElementOfSeq
  <2> QED BY <1>1, <2>1, <2>2
<1> QED BY <1>2, <1>3

(* Intervals that begin at 1 are told apart by their ends.                 *)
LEMMA SameInterval ==
  ASSUME NEW m \in Nat, NEW n \in Nat, n > 0, 1..m = 1..n
  PROVE  m = n
<1>1. n \in 1..m
  OBVIOUS
<1>2. m \in 1..n
  BY <1>1
<1> QED BY <1>1, <1>2

(* A file of a batch is processed or left out.                             *)
LEMMA LeafLists ==
  ASSUME ListedInv, ProcessFile \/ SkipFile, NEW f \in Files
  PROVE  Kept(f) /\ (DestPaths \in Seq(Files) => DestPaths' \in Seq(Files))
<1>1. QueueInv /\ TreeInv /\ BatchInv /\ Parts(f) /\ LeafPaths \in Seq(Files)
      /\ DestPaths \in Seq(Seq(Names))
  BY PartsType DEF ListedInv, IInv
<1>2. NextLeaf
  BY DEF ProcessFile, SkipFile
<1> DEFINE s == phy_sorted_leaves
           leaf == Head(s)
<1>3. /\ UNCHANGED <<fs, phy_sorted, unordered, current_dir, inode_ordered, left>>
      /\ phy_sorted_leaves' = Tail(s) /\ next = "ok"
  BY <1>2 DEF NextLeaf
<1>4. s \in Seq(Leaves) /\ s # <<>> /\ Len(s) \in Nat \ {0} /\ DOMAIN s = 1..Len(s)
  <2>1. s \in Seq(Leaves) /\ Len(s) \in 1..BatchSize
    BY <1>1, <1>3 DEF QueueInv, BatchInv
  <2> QED BY <2>1, ConstantsAssumption, EmptySeq, LenProperties
<1>5. /\ leaf \in Leaves /\ leaf = s[1] /\ DOMAIN Tail(s) = 1..(Len(s) - 1)
      /\ \A k \in 1..(Len(s) - 1) : Tail(s)[k] = s[k + 1]
  BY <1>4, HeadTailProperties
<1>6. leaf.path \in Files
  BY <1>5 DEF Leaves
<1>7. LeafPaths # <<>> /\ Head(LeafPaths) = leaf.path /\ LeafPaths' = Tail(LeafPaths)
  <2> DEFINE u == LeafPaths
  <2>1. DOMAIN u = 1..Len(s) /\ \A k \in 1..Len(s) : u[k] = s[k].path
    BY <1>4 DEF LeafPaths
  <2>2. u \in Seq(Files)
    BY <1>1
  <2>3. LeafPaths' = [k \in 1..(Len(s) - 1) |-> Tail(s)[k].path]
    BY <1>3, <1>5 DEF LeafPaths
  <2> HIDE DEF u, s, leaf
  <2>4. DOMAIN u = 1..Len(u) /\ Len(u) \in Nat
    BY <2>2, LenProperties
  <2>5. Len(u) = Len(s)
    <3>1. 1..Len(u) = 1..Len(s)
      BY <2>1, <2>4
    <3>2. Len(s) \in Nat /\ Len(u) \in Nat
      BY <1>4, <2>4
    <3>3. Len(s) > 0
      BY <1>4
    <3> QED BY <3>1, <3>2, <3>3, SameInterval
  <2>6. u # <<>>
    BY <1>4, <2>2, <2>5, EmptySeq
  <2>7. /\ Head(u) = u[1] /\ Tail(u) \in Seq(Files) /\ Len(Tail(u)) = Len(s) - 1
        /\ \A k \in 1..(Len(s) - 1) : Tail(u)[k] = u[k + 1]
    BY <2>2, <2>5, <2>6, HeadTailProperties
  <2>8. Head(u) = leaf.path
    BY <1>4, <1>5, <2>1, <2>7
  <2>9. \A k \in 1..(Len(s) - 1) : Tail(u)[k] = Tail(s)[k].path
    <3>1. \A k \in 1..(Len(s) - 1) : k + 1 \in 1..Len(s)
      BY <1>4
    <3> QED BY <1>5, <2>1, <2>7, <3>1
  <2> DEFINE w == Tail(u)
  <2>10. w = [k \in 1..(Len(s) - 1) |-> w[k]]
    BY <2>7, LenProperties
  <2>11. LeafPaths' = w
    BY <2>3, <2>9, <2>10
  <2> QED BY <2>6, <2>8, <2>11 DEF u
<1> HIDE DEF leaf, s
<1>8. Ways(LeafPaths, f) = Ways(LeafPaths', f) + Leads(leaf.path, f)
  BY <1>1, <1>7, WaysTail
<1>9. Ways(LeafPaths', f) \in Nat
  <2>1. LeafPaths' \in Seq(Files)
    BY <1>1, <1>7, Elements
  <2> QED BY <2>1, WaysType
<1>10. Placed(f)' = Placed(f) /\ InDir(f)' = InDir(f) /\ Leads(leaf.path, f) \in Nat
  BY <1>3, Still DEF Leads
<1>11. Listings(f)' = Ways(left, f) + Ways(unordered, f) + Placed(f) + InDir(f)
                        + Ways(inode_ordered, f) + Ways(LeafPaths', f) + Ways(DestPaths', f)
  BY <1>3, <1>10, NextParts
<1>12. Listings(f) = Ways(left, f) + Ways(unordered, f) + Placed(f) + InDir(f)
                       + Ways(inode_ordered, f) + (Ways(LeafPaths', f) + Leads(leaf.path, f))
                       + Ways(DestPaths, f)
  BY <1>8, Still
<1>13. CASE ProcessFile
  <2>1. SizeFile(leaf) /\ lost' = lost
    BY <1>13 DEF ProcessFile, leaf, s
  <2>2. DestPaths' = Append(DestPaths, leaf.path)
    BY <1>1, <1>5, <2>1, SizeFilePaths
  <2>3. leaf.path \in Seq(Names)
    BY <1>6, ConstantsAssumption DEF Paths
  <2>4. Ways(DestPaths', f) = Ways(DestPaths, f) + Leads(leaf.path, f)
    BY <1>1, <2>2, <2>3, WaysAppend
  <2>5. Listings(f)' = Listings(f) /\ Listings(f) \in Nat
    <3>1. Parts(f)
      BY <1>1
    <3> QED BY <1>9, <1>10, <1>11, <1>12, <2>4, <3>1 DEF Parts
  <2>6. Undisturbed(f)' => Undisturbed(f)
    BY <1>3, <2>1, Still
  <2>7. DestPaths \in Seq(Files) => DestPaths' \in Seq(Files)
    BY <1>6, <2>2, AppendProperties
  <2> QED BY <2>5, <2>6, <2>7 DEF Kept
<1>14. CASE SkipFile
  <2>1. lost' = lost \cup {leaf.path} /\ UNCHANGED <<vfs, dest>>
    BY <1>14 DEF SkipFile, leaf, s
  <2>2. DestPaths' = DestPaths /\ (Undisturbed(f)' => Undisturbed(f))
    BY <1>3, <2>1, Still
  <2>3. Undisturbed(f)' => Leads(leaf.path, f) = 0
    BY <2>1 DEF Undisturbed, Leads
  <2>4. Listings(f) = Listings(f)' + Leads(leaf.path, f) /\ Listings(f)' \in Nat
    <3>1. Parts(f)
      BY <1>1
    <3>2. Leads(leaf.path, f) \in Nat /\ DestPaths' = DestPaths
      BY <1>10, <2>2
    <3> QED BY <1>9, <1>11, <1>12, <3>1, <3>2 DEF Parts
  <2> QED BY <1>10, <2>2, <2>3, <2>4 DEF Kept
<1> QED BY <1>13, <1>14

(* The sort at the end of pass 1 moves the paths of dest.                  *)
LEMMA SortedPaths ==
  ASSUME TreeInv, UNCHANGED vfs, dest' = ByOffset(dest), DestPaths \in Seq(Seq(Names)), NEW f
  PROVE  /\ Ways(DestPaths', f) = Ways(DestPaths, f)
         /\ DestPaths \in Seq(Files) => DestPaths' \in Seq(Files)
<1> DEFINE n == Len(dest)
           u == DestPaths
           v == [k \in 1..n |-> vfs[ByOffset(dest)[k].id].path]
<1>1. dest \in Seq([pos : Nat, id : Nat]) /\ n \in Nat /\ DOMAIN dest = 1..n
  BY LenProperties DEF TreeInv
<1>2. /\ ByOffset(dest) \in Seq([pos : Nat, id : Nat]) /\ Len(ByOffset(dest)) = n
      /\ Permuted(ByOffset(dest), dest)
  <2>1. \A x \in [pos : Nat, id : Nat] : x.pos \in Nat
    OBVIOUS
  <2> QED BY <1>1, <2>1, SortedByOffset
<1>3. DestPaths' = v
  <2>1. DOMAIN ByOffset(dest) = 1..n
    BY <1>2, LenProperties
  <2> QED BY <2>1 DEF DestPaths
<1>4. DOMAIN u = 1..n /\ \A k \in 1..n : u[k] = vfs[dest[k].id].path
  BY <1>1 DEF DestPaths
<1>5. PICK g \in Injection(1..n, 1..n) : \A k \in 1..n : ByOffset(dest)[k] = dest[g[k]]
  BY <1>2 DEF Permuted
<1>6. \A k \in 1..n : g[k] \in 1..n
  BY <1>5 DEF Injection
<1>7. \A k \in 1..n : v[k] = u[g[k]]
  BY <1>4, <1>5, <1>6
<1>8. DOMAIN v = 1..n
  OBVIOUS
<1> HIDE DEF u, v, n
<1>9. Len(u) = n
  <2>1. u \in Seq(Seq(Names))
    BY DEF u
  <2>2. DOMAIN u = 1..Len(u)
    BY <2>1, LenProperties
  <2>3. u \in [1..Len(u) -> Seq(Names)] /\ Len(u) \in Nat
    BY <2>1, LenProperties
  <2>4. u \in [1..n -> Seq(Names)]
    BY <1>4, <2>2, <2>3
  <2> QED BY <1>1, <2>4
<1>10. ASSUME NEW T, u \in Seq(T) PROVE v \in Seq(T) /\ Ways(v, f) = Ways(u, f)
  <2>1. \A k \in 1..n : u[k] \in T
    BY <1>9, <1>10, ElementOfSeq
  <2>2. \A k \in 1..n : v[k] \in T
    BY <1>6, <1>7, <2>1
  <2>3. v \in [1..n -> T]
    <3>1. v = [k \in 1..n |-> v[k]]
      BY DEF v
    <3> QED BY <2>2, <3>1
  <2>4. v \in Seq(T) /\ Len(v) = n
    BY <1>1, <2>3
  <2>5. Permuted(v, u)
    BY <1>5, <1>7, <1>9, <2>4 DEF Permuted
  <2> QED BY <1>10, <2>4, <2>5, WaysPermuted
<1>11. Ways(v, f) = Ways(u, f)
  <2>1. u \in Seq(Seq(Names))
    BY DEF u
  <2> QED BY <1>10, <2>1
<1> QED BY <1>3, <1>10, <1>11 DEF u

(* The roots.                                                              *)
LEMMA RootsLists ==
  ASSUME ListedInv, AddRootDir \/ AddRootFile \/ SkipRoot \/ RootFails \/ StartWalk,
         NEW f \in Files
  PROVE  Kept(f) /\ (DestPaths \in Seq(Files) => DestPaths' \in Seq(Files))
<1>1. QueueInv /\ TreeInv /\ Parts(f) /\ DestPaths \in Seq(Seq(Names))
  BY PartsType DEF ListedInv, IInv
<1>2. UNCHANGED <<fs, current_dir, inode_ordered, phy_sorted_leaves>> /\ lost \subseteq lost'
  BY DEF AddRootDir, AddRootFile, SkipRoot, RootFails, StartWalk, walkVars, walk
<1>3. /\ InDir(f)' = InDir(f) /\ LeafPaths' = LeafPaths
      /\ Undisturbed(f)' => Undisturbed(f)
  BY <1>2, Still
<1>4. left \in Seq(Dirs \cup Files)
  BY <1>1 DEF QueueInv
<1>5. ASSUME left # <<>>, left' = Tail(left)
      PROVE  /\ Ways(left, f) = Ways(left', f) + Leads(Head(left), f)
             /\ Ways(left', f) \in Nat /\ Leads(Head(left), f) \in Nat
  <2>1. Tail(left) \in Seq(Dirs \cup Files)
    BY <1>4, <1>5, Elements
  <2> QED BY <1>4, <1>5, <2>1, WaysTail, WaysType DEF Leads
<1>6. CASE AddRootDir
  <2>1. /\ left # <<>> /\ left' = Tail(left) /\ Head(left) \in Dirs /\ Add(Head(left), None)
        /\ UNCHANGED <<vfs, dest>>
    BY <1>6 DEF AddRootDir
  <2>2. Ways(unordered', f) + Placed(f)' = Ways(unordered, f) + Placed(f) + Leads(Head(left), f)
    BY <1>1, <2>1, AddWays
  <2>3. Ways(unordered', f) \in Nat /\ Placed(f)' \in Nat
    <3>1. /\ IsFiniteSet(phy_sorted') /\ unordered' \in Seq(Dirs)
      BY <1>1, <2>1, AddKeeps
    <3>2. IsFiniteSet({e \in phy_sorted' : IsPrefix(e.path, f)})
      BY <3>1, FS_Subset
    <3> QED BY <3>1, <3>2, FS_CardinalityType, WaysType DEF Placed
  <2>4. DestPaths' = DestPaths
    BY <2>1, Still
  <2>5. Listings(f)' = Listings(f) /\ Listings(f) \in Nat
    <3>1. Listings(f)' = Ways(left', f) + Ways(unordered', f) + Placed(f)' + InDir(f)
                           + Ways(inode_ordered, f) + Ways(LeafPaths, f) + Ways(DestPaths, f)
      BY <1>2, <1>3, <2>4, NextParts
    <3>2. Listings(f) = (Ways(left', f) + Leads(Head(left), f)) + Ways(unordered, f) + Placed(f)
                          + InDir(f)
                          + Ways(inode_ordered, f) + Ways(LeafPaths, f) + Ways(DestPaths, f)
      BY <1>5, <2>1, Still
    <3>3. Ways(left', f) \in Nat /\ Leads(Head(left), f) \in Nat
      BY <1>5, <2>1
    <3>4. Parts(f)
      BY <1>1
    <3> QED BY <2>2, <2>3, <3>1, <3>2, <3>3, <3>4 DEF Parts
  <2> QED BY <1>3, <2>4, <2>5 DEF Kept
<1>7. CASE AddRootFile
  <2> DEFINE leaf == Leaf(Head(left), TRUE)
  <2>1. /\ left # <<>> /\ left' = Tail(left) /\ Head(left) \in Files /\ SizeFile(leaf)
        /\ UNCHANGED <<phy_sorted, unordered>>
    BY <1>7 DEF AddRootFile, walkVars, walk
  <2>2. leaf \in Leaves /\ leaf.path = Head(left)
    BY <2>1, ConstantsAssumption DEF Leaf, Leaves
  <2> HIDE DEF leaf
  <2>3. DestPaths' = Append(DestPaths, Head(left))
    BY <1>1, <2>1, <2>2, SizeFilePaths
  <2>4. Head(left) \in Seq(Names)
    BY <2>1, ConstantsAssumption DEF Paths
  <2>5. Ways(DestPaths', f) = Ways(DestPaths, f) + Leads(Head(left), f)
    BY <1>1, <2>3, <2>4, WaysAppend
  <2>6. Listings(f)' = Listings(f) /\ Listings(f) \in Nat
    <3>1. Placed(f)' = Placed(f)
      BY <2>1, Still
    <3>2. Listings(f)' = Ways(left', f) + Ways(unordered, f) + Placed(f) + InDir(f)
                           + Ways(inode_ordered, f) + Ways(LeafPaths, f)
                           + (Ways(DestPaths, f) + Leads(Head(left), f))
      BY <1>2, <1>3, <2>1, <2>5, <3>1, NextParts
    <3>3. Listings(f) = (Ways(left', f) + Leads(Head(left), f)) + Ways(unordered, f) + Placed(f)
                          + InDir(f)
                          + Ways(inode_ordered, f) + Ways(LeafPaths, f) + Ways(DestPaths, f)
      BY <1>5, <2>1, Still
    <3>4. Ways(left', f) \in Nat /\ Leads(Head(left), f) \in Nat
      BY <1>5, <2>1
    <3>5. Parts(f)
      BY <1>1
    <3> QED BY <3>2, <3>3, <3>4, <3>5 DEF Parts
  <2>7. DestPaths \in Seq(Files) => DestPaths' \in Seq(Files)
    BY <2>1, <2>3, AppendProperties
  <2> QED BY <1>3, <2>6, <2>7 DEF Kept
<1>8. CASE StartWalk \/ RootFails
  <2>1. UNCHANGED <<left, phy_sorted, unordered, vfs, dest>>
    BY <1>8 DEF StartWalk, RootFails, walkVars, walk
  <2>2. Placed(f)' = Placed(f) /\ DestPaths' = DestPaths
    BY <2>1, Still
  <2>3. Listings(f)' = Listings(f)
    BY <1>2, <1>3, <2>1, <2>2, NextParts, Still
  <2>4. Listings(f) \in Nat
    BY <1>1, Still DEF Parts
  <2> QED BY <1>3, <2>2, <2>3, <2>4 DEF Kept
<1>9. CASE SkipRoot
  <2>1. /\ left # <<>> /\ left' = Tail(left) /\ lost' = lost \cup {Head(left)}
        /\ UNCHANGED <<phy_sorted, unordered, vfs, dest>>
    BY <1>9 DEF SkipRoot, walk
  <2>2. Placed(f)' = Placed(f) /\ DestPaths' = DestPaths
    BY <2>1, Still
  <2>3. Listings(f) = Listings(f)' + Leads(Head(left), f) /\ Listings(f)' \in Nat
    <3>1. Listings(f)' = Ways(left', f) + Ways(unordered, f) + Placed(f) + InDir(f)
                           + Ways(inode_ordered, f) + Ways(LeafPaths, f) + Ways(DestPaths, f)
      BY <1>2, <1>3, <2>1, <2>2, NextParts
    <3>2. Listings(f) = (Ways(left', f) + Leads(Head(left), f)) + Ways(unordered, f) + Placed(f)
                          + InDir(f)
                          + Ways(inode_ordered, f) + Ways(LeafPaths, f) + Ways(DestPaths, f)
      BY <1>5, <2>1, Still
    <3>3. Ways(left', f) \in Nat /\ Leads(Head(left), f) \in Nat
      BY <1>5, <2>1
    <3>4. Parts(f)
      BY <1>1
    <3> QED BY <3>1, <3>2, <3>3, <3>4 DEF Parts
  <2>4. Undisturbed(f)' => Leads(Head(left), f) = 0
    BY <2>1 DEF Undisturbed, Leads
  <2>5. Leads(Head(left), f) \in Nat
    BY DEF Leads
  <2> QED BY <1>3, <2>2, <2>3, <2>4, <2>5 DEF Kept
<1> QED BY <1>6, <1>7, <1>8, <1>9
(* An error is printed, or the list is sorted at the end.                  *)
LEMMA EndLists ==
  ASSUME ListedInv, ProcessError \/ Finish, NEW f \in Files
  PROVE  Kept(f) /\ (DestPaths \in Seq(Files) => DestPaths' \in Seq(Files))
<1>1. QueueInv /\ TreeInv /\ Parts(f) /\ DestPaths \in Seq(Seq(Names))
  BY PartsType DEF ListedInv, IInv
<1>2. UNCHANGED <<fs, phy_sorted, unordered, current_dir, inode_ordered, phy_sorted_leaves, lost,
                  vfs, left>>
  BY DEF ProcessError, Finish, walkVars, walk
<1>3. /\ Placed(f)' = Placed(f) /\ InDir(f)' = InDir(f) /\ LeafPaths' = LeafPaths
      /\ Undisturbed(f)' => Undisturbed(f)
  BY <1>2, Still
<1>4. /\ Ways(DestPaths', f) = Ways(DestPaths, f)
      /\ DestPaths \in Seq(Files) => DestPaths' \in Seq(Files)
  <2>1. CASE ProcessError
    <3>1. DestPaths' = DestPaths
      BY <2>1, Still DEF ProcessError
    <3> QED BY <3>1
  <2>2. CASE Finish
    <3>1. dest' = ByOffset(dest)
      BY <2>2 DEF Finish
    <3> QED BY <1>1, <1>2, <3>1, SortedPaths
  <2> QED BY <2>1, <2>2
<1>5. Listings(f)' = Listings(f)
  BY <1>2, <1>3, <1>4, NextParts, Still
<1>6. Listings(f) \in Nat
  BY <1>1, Still DEF Parts
<1> QED BY <1>3, <1>4, <1>5, <1>6 DEF Kept
-----------------------------------------------------------------------------
(* Other programs.                                                         *)

(* They do not make a directory that is read yield more, nor less of a     *)
(* file that they leave alone.                                             *)
LEMMA EnvironmentLists ==
  ASSUME ListedInv, Environment, UNCHANGED <<vfs, dest, left, pc>>, NEW f \in Files
  PROVE  Kept(f)
<1>1. QueueInv /\ TreeInv /\ DiskInv /\ Parts(f)
  BY PartsType DEF ListedInv, IInv
<1>2. /\ UNCHANGED <<phy_sorted, unordered, inode_ordered, phy_sorted_leaves, lost>>
      /\ touched \subseteq touched'
  BY DEF Environment, Appear, Disappear, walk
<1>3. Placed(f)' = Placed(f) /\ LeafPaths' = LeafPaths /\ DestPaths' = DestPaths
  BY <1>2, Still
<1>4. PICK p \in Changing : Appear(p) \/ Disappear(p)
  BY DEF Environment
<1>5. /\ p \in Paths /\ p # <<>> /\ touched' = touched \cup {p}
      /\ disk' = disk \cup {p} \/ disk' = disk \ {p}
  BY <1>4, ConstantsAssumption, TypesAssumption DEF Appear, Disappear
<1>6. Undisturbed(f)' => Undisturbed(f) /\ p # f
  BY <1>2, <1>5 DEF Undisturbed
<1>7. Undisturbed(f)' => ~IsPrefix(p, f)
  <2> SUFFICES ASSUME Undisturbed(f)', IsPrefix(p, f) PROVE FALSE
    OBVIOUS
  <2>1. p \in disk /\ p # f
    BY <1>1, <1>5, <1>6, WayThere
  <2>2. Disappear(p)
    BY <1>4, <2>1 DEF Appear
  <2>3. f \in disk /\ f # p /\ IsStrictPrefix(p, f)
    BY <1>6, <2>1 DEF Undisturbed, IsStrictPrefix
  <2> QED BY <2>2, <2>3 DEF Disappear
<1>8. InDir(f)' <= InDir(f) /\ (Undisturbed(f)' => InDir(f)' = InDir(f)) /\ InDir(f)' \in {0, 1}
  <2>1. CASE current_dir = None
    <3>1. current_dir' = None
      BY <1>4, <2>1 DEF Appear, Disappear, walk
    <3> QED BY <2>1, <3>1 DEF InDir
  <2>2. CASE current_dir # None
    <3> DEFINE d == current_dir.path
    <3>1. /\ current_dir \in [path : Dirs, rest : SUBSET Paths]
          /\ current_dir.rest \subseteq ChildrenOf(d) \cap (disk \cup touched)
      BY <1>1, <2>2 DEF QueueInv, DiskInv
    <3>2. \/ current_dir' = current_dir
          \/ /\ Appear(p) /\ d = Front(p)
             /\ current_dir' = [path |-> d, rest |-> current_dir.rest \cup {p}]
      BY <1>4, <3>1 DEF Appear, Disappear, walk
    <3>3. current_dir' # None /\ current_dir'.path = d
      <4>1. [path |-> d, rest |-> current_dir.rest \cup {p}] \in [path : Dirs, rest : SUBSET Paths]
        BY <1>5, <3>1
      <4> QED BY <2>2, <3>2, <4>1, ConstantsAssumption
    <3>4. Yield' = current_dir'.rest \cup (ChildrenOf(d) \ (disk' \cup touched'))
      BY <3>3 DEF Yield, ChildrenOf
    <3>5. Yield = current_dir.rest \cup (ChildrenOf(d) \ (disk \cup touched))
      BY DEF Yield
    <3>6. /\ disk \cup touched \subseteq disk' \cup touched'
          /\ disk' \cup touched' = disk \cup touched \cup {p}
      BY <1>5
    <3>7. Yield' \subseteq Yield /\ Yield \subseteq Yield' \cup {p}
      <4>1. CASE current_dir' = current_dir
        BY <3>4, <3>5, <3>6, <4>1
      <4>2. CASE /\ Appear(p) /\ d = Front(p)
                 /\ current_dir' = [path |-> d, rest |-> current_dir.rest \cup {p}]
        <5>1. p \in ChildrenOf(d) /\ p \notin disk \cup touched
          BY <1>5, <4>2 DEF Appear, ChildrenOf
        <5>2. current_dir'.rest = current_dir.rest \cup {p}
          BY <4>2
        <5> QED BY <3>4, <3>5, <3>6, <5>1, <5>2
      <4> QED BY <3>2, <4>1, <4>2
    <3>8. /\ InDir(f) = IF \E c \in Yield : IsPrefix(c, f) THEN 1 ELSE 0
          /\ InDir(f)' = IF \E c \in Yield' : IsPrefix(c, f) THEN 1 ELSE 0
      BY <2>2, <3>3 DEF InDir
    <3> QED BY <1>7, <3>7, <3>8
  <2> QED BY <2>1, <2>2
<1>9. Listings(f)' = (Listings(f) - InDir(f)) + InDir(f)' /\ Listings(f) \in Nat
  <2>1. Listings(f)' = Ways(left, f) + Ways(unordered, f) + Placed(f) + InDir(f)'
                         + Ways(inode_ordered, f) + Ways(LeafPaths, f) + Ways(DestPaths, f)
    BY <1>2, <1>3, NextParts
  <2> QED BY <1>1, <1>8, <2>1, Still DEF Parts
<1>10. InDir(f) \in {0, 1}
  BY <1>1 DEF Parts
<1> QED BY <1>6, <1>8, <1>9, <1>10 DEF Kept
-----------------------------------------------------------------------------
(* The invariant as a whole.                                               *)

(* A step keeps what the answers of next() say of the queues.              *)
LEMMA EndStays ==
  ASSUME ListedInv, [Next]_vars
  PROVE  EndInv'
<1>1. /\ EndInv
      /\ phase = "ContentPass" => next = "running"
      /\ phase \in {"DirWalk", "InodePass", "ContentPass"}
      /\ pc \in {"roots", "walk", "done", "failed"}
  BY DEF ListedInv, IInv, BatchInv, QueueInv
<1>2. CASE AddRootDir \/ AddRootFile \/ SkipRoot \/ RootFails \/ StartWalk
  <2>1. /\ pc = "roots"
        /\ pc' \in {"roots", "failed"} \/ (pc' = "walk" /\ left' = <<>>)
        /\ UNCHANGED <<inode_ordered, phy_sorted_leaves, phase, next>>
    BY <1>2 DEF AddRootDir, AddRootFile, SkipRoot, RootFails, StartWalk, walkVars, walk
  <2> QED BY <1>1, <2>1 DEF EndInv
<1>3. CASE pc = "walk" /\ (CallNext \/ WalkStep) /\ UNCHANGED <<vfs, dest, left, pc>>
  <2>1. pc = "walk" /\ UNCHANGED <<left, pc>>
    BY <1>3
  <2>2. CASE CallNext
    <3>1. /\ next = "idle" /\ next' = "running"
          /\ UNCHANGED <<inode_ordered, phy_sorted_leaves, phase>>
      BY <2>2 DEF CallNext, walk
    <3> QED BY <1>1, <2>1, <3>1 DEF EndInv
  <2>3. CASE \/ TakeUnordered \/ TakeOrdered \/ Rewind \/ EndOfDir \/ ReadError
             \/ \E p \in Paths : TypeError(p) \/ EntrySkipped(p) \/ EntryDir(p) \/ EntryLink(p)
    <3>1. /\ next = "running" /\ phase = "DirWalk" /\ next' \in {"running", "err"}
          /\ UNCHANGED <<inode_ordered, phy_sorted_leaves, phase>>
      BY <2>3 DEF TakeUnordered, TakeOrdered, Rewind, EndOfDir, ReadError, TypeError, EntrySkipped, EntryDir,
                  EntryLink, Took, Reading, InLoop, Running, ReadDir
    <3> QED BY <1>1, <2>1, <3>1 DEF EndInv
  <2>4. CASE \E p \in Paths : EntryFile(p)
    <3>1. /\ next = "running" /\ phase = "DirWalk" /\ phase' \in {"DirWalk", "InodePass"}
          /\ UNCHANGED <<phy_sorted_leaves, next>>
      BY <2>4 DEF EntryFile, Took, Reading, InLoop, Running
    <3> QED BY <1>1, <2>1, <3>1 DEF EndInv
  <2>5. CASE InodePass
    <3>1. next = "running" /\ next' = next /\ phase' = "ContentPass" /\ inode_ordered' = <<>>
      BY <2>5 DEF InodePass, Running
    <3> QED BY <1>1, <2>1, <3>1 DEF EndInv
  <2>6. CASE ContentPass
    <3>1. phase' = "DirWalk" /\ next' = "ok"
      BY <2>6 DEF ContentPass
    <3> QED BY <1>1, <2>1, <3>1 DEF EndInv
  <2>7. CASE NothingLeft
    <3>1. /\ next = "running" /\ next' = "none" /\ phase = "DirWalk" /\ is_empty
          /\ inode_ordered = <<>>
          /\ UNCHANGED <<inode_ordered, phy_sorted_leaves, phase>> /\ is_empty' = is_empty
      BY <2>7 DEF NothingLeft, Running, walk, is_empty
    <3> QED BY <1>1, <2>1, <3>1 DEF EndInv
  <2> QED BY <1>3, <2>2, <2>3, <2>4, <2>5, <2>6, <2>7 DEF WalkStep
<1>4. CASE ProcessFile \/ SkipFile
  <2>1. /\ pc = "walk" /\ next = "ok" /\ UNCHANGED <<inode_ordered, phase, left, pc>>
        /\ next' = IF phy_sorted_leaves' = <<>> THEN "idle" ELSE "ok"
    BY <1>4 DEF ProcessFile, SkipFile, NextLeaf
  <2> QED BY <1>1, <2>1 DEF EndInv
<1>5. CASE ProcessError
  <2>1. /\ pc = "walk" /\ next = "err" /\ next' = "idle"
        /\ UNCHANGED <<inode_ordered, phy_sorted_leaves, phase, left, pc>>
    BY <1>5 DEF ProcessError, walk
  <2> QED BY <1>1, <2>1 DEF EndInv
<1>6. CASE Finish
  <2>1. /\ pc = "walk" /\ next = "none" /\ pc' = "done"
        /\ UNCHANGED <<inode_ordered, phy_sorted_leaves, phase, left, next>> /\ is_empty' = is_empty
    BY <1>6 DEF Finish, walkVars, walk, is_empty
  <2> QED BY <1>1, <2>1 DEF EndInv
<1>7. CASE Environment /\ UNCHANGED <<vfs, dest, left, pc>>
  <2>1. /\ UNCHANGED <<inode_ordered, phy_sorted_leaves, phase, left, next, pc>>
        /\ current_dir = None => current_dir' = None
        /\ UNCHANGED <<phy_sorted, unordered>>
    BY <1>7 DEF Environment, Appear, Disappear, walk
  <2>2. is_empty => is_empty'
    BY <2>1 DEF is_empty
  <2> QED BY <1>1, <2>1, <2>2 DEF EndInv
<1>8. CASE UNCHANGED vars
  <2>1. /\ UNCHANGED <<inode_ordered, phy_sorted_leaves, phase, left, next, pc>>
        /\ is_empty' = is_empty
    BY <1>8 DEF vars, walkVars, walk, is_empty
  <2> QED BY <1>1, <2>1 DEF EndInv
<1> QED BY <1>2, <1>3, <1>4, <1>5, <1>6, <1>7, <1>8 DEF Next, Program

(* A step keeps the directories above what exists, and what a directory    *)
(* that is read may yield.                                                 *)
LEMMA DiskStays ==
  ASSUME ListedInv, [Next]_vars
  PROVE  DiskInv' /\ UNCHANGED roots
<1>1. DiskInv /\ QueueInv
  BY DEF ListedInv, IInv
<1> DEFINE Sound == current_dir # None =>
                      current_dir.rest \subseteq
                        ChildrenOf(current_dir.path) \cap (disk \cup touched)
<1>2. ASSUME UNCHANGED <<roots, fs>>, Sound' PROVE DiskInv' /\ UNCHANGED roots
  BY <1>1, <1>2 DEF DiskInv, fs
<1>3. ASSUME UNCHANGED <<roots, fs, current_dir>> PROVE DiskInv' /\ UNCHANGED roots
  BY <1>1, <1>3 DEF DiskInv, fs, ChildrenOf
<1>4. CASE \/ AddRootDir \/ AddRootFile \/ SkipRoot \/ RootFails \/ StartWalk \/ ProcessFile \/ SkipFile \/ ProcessError
           \/ Finish \/ CallNext \/ Rewind \/ InodePass \/ ContentPass \/ NothingLeft
           \/ UNCHANGED vars
  <2>1. UNCHANGED <<roots, fs, current_dir>>
    BY <1>4 DEF AddRootDir, AddRootFile, SkipRoot, RootFails, StartWalk, ProcessFile, SkipFile, NextLeaf, ProcessError,
                Finish, CallNext, Rewind, InodePass, ContentPass, NothingLeft, vars, walkVars, walk
  <2> QED BY <1>3, <2>1
<1>5. CASE EndOfDir \/ ReadError
  <2>1. UNCHANGED <<roots, fs>> /\ current_dir' = None
    BY <1>5 DEF EndOfDir, ReadError
  <2> QED BY <1>2, <2>1
<1>6. CASE TakeUnordered \/ TakeOrdered
  <2>1. UNCHANGED <<roots, fs>> /\ current_dir = None /\ \E d, fetched : ReadDir(d, fetched)
    BY <1>6 DEF TakeUnordered, TakeOrdered
  <2>2. PICK d, fetched : ReadDir(d, fetched)
    BY <2>1
  <2>3. \/ current_dir' = [path |-> d, rest |-> ChildrenOf(d) \cap disk]
        \/ current_dir' = current_dir
    BY <2>2 DEF ReadDir
  <2>4. Sound'
    BY <2>1, <2>3 DEF fs, ChildrenOf
  <2> QED BY <1>2, <2>1, <2>4
<1>7. CASE \E p \in Paths :
             TypeError(p) \/ EntrySkipped(p) \/ EntryDir(p) \/ EntryLink(p) \/ EntryFile(p)
  <2>1. PICK p \in Paths : Took(p) /\ UNCHANGED <<roots, fs>>
    BY <1>7 DEF TypeError, EntrySkipped, EntryDir, EntryLink, EntryFile
  <2>2. /\ current_dir # None
        /\ current_dir' = [current_dir EXCEPT !.rest = @ \ {p}]
        /\ current_dir \in [path : Dirs, rest : SUBSET Paths]
    BY <1>1, <2>1 DEF Took, Reading, QueueInv
  <2>3. current_dir'.path = current_dir.path /\ current_dir'.rest \subseteq current_dir.rest
    BY <2>2
  <2>4. Sound'
    BY <1>1, <2>1, <2>2, <2>3 DEF DiskInv, fs, ChildrenOf
  <2> QED BY <1>2, <2>1, <2>4
<1>8. CASE Environment
  <2>1. PICK p \in Changing : Appear(p) \/ Disappear(p)
    BY <1>8 DEF Environment
  <2>2. UNCHANGED roots /\ p \in Paths /\ p # <<>>
    BY <2>1, ConstantsAssumption, TypesAssumption DEF Appear, Disappear
  <2>3. disk' \subseteq Paths
    BY <1>1, <2>1, <2>2 DEF Appear, Disappear, DiskInv
  <2>4. ASSUME NEW q \in disk', Len(q) > 1 PROVE Front(q) \in disk'
    <3>1. CASE Appear(p)
      <4>1. disk' = disk \cup {p} /\ (Len(p) > 1 => Front(p) \in disk)
        BY <3>1 DEF Appear
      <4>2. q = p => Front(q) \in disk
        BY <2>4, <4>1
      <4>3. q \in disk => Front(q) \in disk
        BY <1>1, <2>4 DEF DiskInv
      <4> QED BY <2>4, <4>1, <4>2, <4>3
    <3>2. CASE Disappear(p)
      <4>1. disk' = disk \ {p} /\ q \in disk /\ ~IsStrictPrefix(p, q)
        BY <2>4, <3>2 DEF Disappear
      <4>2. Front(q) \in disk
        BY <1>1, <2>4, <4>1 DEF DiskInv
      <4>3. Front(q) # p
        <5> SUFFICES ASSUME Front(q) = p PROVE FALSE
          OBVIOUS
        <5>1. q \in Seq(Names) /\ p \in Seq(Names) /\ q # <<>>
          BY <1>1, <2>2, <2>4, <4>1, ConstantsAssumption DEF DiskInv
        <5>2. Len(q) \in Nat /\ Len(p) = Len(q) - 1 /\ p = Prefix(q, Len(p))
          <6>1. /\ Len(q) \in Nat \ {0} /\ Front(q) = Prefix(q, Len(q) - 1)
                /\ Len(Front(q)) = Len(q) - 1
            BY <5>1, FrontIsPrefix
          <6> QED BY <6>1
        <5>3. IsPrefix(p, q) /\ p # q
          <6>1. Len(p) <= Len(q) /\ Len(p) # Len(q)
            BY <5>2
          <6> QED BY <5>1, <5>2, <6>1, LeadsTo
        <5>4. IsStrictPrefix(p, q)
          BY <5>3 DEF IsStrictPrefix
        <5> QED BY <4>1, <5>4
      <4> QED BY <4>1, <4>2, <4>3
    <3> QED BY <2>1, <3>1, <3>2
  <2>5. Sound'
    <3>1. CASE current_dir' = current_dir
      <4>1. disk \cup touched \subseteq disk' \cup touched'
        BY <2>1 DEF Appear, Disappear
      <4> QED BY <1>1, <3>1, <4>1 DEF DiskInv, ChildrenOf
    <3>2. CASE /\ Appear(p) /\ current_dir # None /\ current_dir.path = Front(p)
               /\ current_dir' = [current_dir EXCEPT !.rest = @ \cup {p}]
      <4>1. disk' = disk \cup {p} /\ touched' = touched \cup {p}
        BY <3>2 DEF Appear
      <4>2. current_dir \in [path : Dirs, rest : SUBSET Paths]
        BY <1>1, <3>2 DEF QueueInv
      <4>3. current_dir'.path = current_dir.path /\ current_dir'.rest = current_dir.rest \cup {p}
        BY <3>2, <4>2
      <4>4. p \in ChildrenOf(current_dir.path)
        BY <2>2, <3>2 DEF ChildrenOf
      <4> QED BY <1>1, <3>2, <4>1, <4>3, <4>4 DEF DiskInv, ChildrenOf
    <3> QED BY <2>1, <3>1, <3>2 DEF Appear, Disappear, walk
  <2> QED BY <2>2, <2>3, <2>4, <2>5, <1>1 DEF DiskInv
<1> QED BY <1>4, <1>5, <1>6, <1>7, <1>8 DEF Next, Program, WalkStep
(* A walk begins with as many ways to a file as there are roots above it.  *)
LEMMA InitLists == Init => ListedInv
<1> SUFFICES ASSUME Init PROVE ListedInv
  OBVIOUS
<1>1. IInv
  BY InitIInv
<1>2. PICK list \in RootLists : WalkInit(list)
  BY DEF Init
<1>3. /\ phy_sorted = {} /\ unordered = <<>> /\ current_dir = None /\ inode_ordered = <<>>
      /\ phy_sorted_leaves = <<>> /\ phase = "DirWalk" /\ next = "idle"
      /\ roots = list /\ dest = <<>> /\ left = roots /\ pc = "roots"
  BY <1>2 DEF WalkInit, Init
<1>4. EndInv
  BY <1>3 DEF EndInv
<1>5. DiskInv
  <2>1. roots \in Seq(Dirs \cup Files)
    BY <1>2, <1>3, ConstantsAssumption
  <2>2. disk \subseteq Paths /\ \A p \in disk : Len(p) > 1 => Front(p) \in disk
    BY <1>2, ConstantsAssumption DEF WalkInit
  <2> QED BY <1>3, <2>1, <2>2 DEF DiskInv
<1>6. ASSUME NEW f PROVE Listings(f) = Covering(f) /\ Covering(f) \in Nat
  <2>1. Ways(left, f) = Covering(f)
    BY <1>3 DEF Ways, Covering
  <2>2. Ways(left, f) \in Nat
    <3>1. left \in Seq(Dirs \cup Files)
      BY <1>3, <1>5 DEF DiskInv
    <3> QED BY <3>1, WaysType
  <2>3. Placed(f) = 0 /\ InDir(f) = 0
    <3>1. {e \in phy_sorted : IsPrefix(e.path, f)} = {}
      BY <1>3
    <3> QED BY <1>3, <3>1, FS_EmptySet DEF Placed, InDir
  <2>4. LeafPaths = <<>> /\ DestPaths = <<>>
    BY <1>3 DEF LeafPaths, DestPaths
  <2>5. Ways(<<>>, f) = 0
    BY WaysType
  <2>6. /\ Ways(unordered, f) = 0 /\ Ways(inode_ordered, f) = 0
        /\ Ways(LeafPaths, f) = 0 /\ Ways(DestPaths, f) = 0
    BY <1>3, <2>4, <2>5
  <2>7. Listings(f) = Ways(left, f) + 0 + 0 + 0 + 0 + 0 + 0
    BY <2>3, <2>6 DEF Listings
  <2> QED BY <2>1, <2>2, <2>7
<1>7. ListInv
  BY <1>3, <1>6 DEF ListInv
<1> QED BY <1>1, <1>4, <1>5, <1>7 DEF ListedInv

(* Every step does for each file what it has to.                           *)
LEMMA EveryStepLists ==
  ASSUME ListedInv, [Next]_vars, NEW f \in Files
  PROVE  Kept(f) /\ (DestPaths \in Seq(Files) => DestPaths' \in Seq(Files))
<1>1. CASE AddRootDir \/ AddRootFile \/ SkipRoot \/ RootFails \/ StartWalk
  BY <1>1, RootsLists
<1>2. CASE pc = "walk" /\ (CallNext \/ WalkStep) /\ UNCHANGED <<vfs, dest, left, pc>>
  <2>1. DestPaths' = DestPaths
    BY <1>2, Still
  <2>2. CASE CallNext \/ EndOfDir \/ ReadError \/ ContentPass \/ NothingLeft
    BY <1>2, <2>1, <2>2, CallLists
  <2>3. CASE TakeUnordered \/ TakeOrdered \/ Rewind
    BY <1>2, <2>1, <2>3, TakeLists
  <2>4. CASE \E p \in Paths :
               TypeError(p) \/ EntrySkipped(p) \/ EntryDir(p) \/ EntryLink(p) \/ EntryFile(p)
    BY <1>2, <2>1, <2>4, EntryLists
  <2>5. CASE InodePass
    BY <1>2, <2>1, <2>5, InodePassLists
  <2> QED BY <1>2, <2>2, <2>3, <2>4, <2>5 DEF WalkStep
<1>3. CASE ProcessFile \/ SkipFile
  BY <1>3, LeafLists
<1>4. CASE ProcessError \/ Finish
  BY <1>4, EndLists
<1>5. CASE Environment /\ UNCHANGED <<vfs, dest, left, pc>>
  <2>1. DestPaths' = DestPaths
    BY <1>5, Still
  <2> QED BY <1>5, <2>1, EnvironmentLists
<1>6. CASE UNCHANGED vars
  <2>1. UNCHANGED <<fs, lost, phy_sorted, unordered, current_dir, inode_ordered, phy_sorted_leaves,
                    vfs, dest, left>>
    BY <1>6 DEF vars, walkVars, walk
  <2>2. Listings(f)' = Listings(f) /\ DestPaths' = DestPaths /\ (Undisturbed(f)' => Undisturbed(f))
    BY <2>1, NextParts, Still
  <2>3. Listings(f) \in Nat
    <3>1. Parts(f)
      BY PartsType DEF ListedInv, IInv
    <3> QED BY <3>1, Still DEF Parts
  <2> QED BY <2>2, <2>3 DEF Kept
<1> QED BY <1>1, <1>2, <1>3, <1>4, <1>5, <1>6 DEF Next, Program

(* Where there are no files nothing is listed.                             *)
LEMMA NoFilesNoList ==
  ASSUME ListedInv, [Next]_vars, Files = {}, dest = <<>>
  PROVE  dest' = <<>>
<1>1. CASE ProcessFile \/ SkipFile
  <2>1. next = "ok" /\ phy_sorted_leaves \in Seq(Leaves) /\ Len(phy_sorted_leaves) \in 1..BatchSize
    BY <1>1 DEF ProcessFile, SkipFile, NextLeaf, ListedInv, IInv, QueueInv, BatchInv
  <2>2. phy_sorted_leaves # <<>>
    BY <2>1, ConstantsAssumption, EmptySeq
  <2>3. Head(phy_sorted_leaves) \in Leaves
    BY <2>1, <2>2, HeadTailProperties
  <2> QED BY <2>3 DEF Leaves
<1>2. CASE AddRootFile
  BY <1>2 DEF AddRootFile
<1>3. CASE Finish
  <2>1. dest' = ByOffset(<<>>)
    BY <1>3 DEF Finish
  <2>2. ByOffset(<<>>) \in Seq({}) /\ Len(ByOffset(<<>>)) = 0
    <3>1. <<>> \in Seq({}) /\ Len(<<>>) = 0
      OBVIOUS
    <3>2. \A x \in {} : x.pos \in Nat
      OBVIOUS
    <3> QED BY <3>1, <3>2, SortedByOffset
  <2> QED BY <2>1, <2>2, EmptySeq
<1>4. CASE \/ AddRootDir \/ SkipRoot \/ RootFails \/ StartWalk \/ ProcessError
           \/ UNCHANGED <<vfs, dest, left, pc>> \/ UNCHANGED vars
  BY <1>4 DEF AddRootDir, SkipRoot, RootFails, StartWalk, ProcessError, vars
<1> QED BY <1>1, <1>2, <1>3, <1>4 DEF Next, Program

(* The inductive invariant of the lists holds in every reachable state.    *)
THEOREM ListedInvariance == Spec => []ListedInv
<1>1. Init => ListedInv
  BY InitLists
<1>2. TreeInv => ((\A k \in DOMAIN dest : vfs[dest[k].id].path \in Files)
                    <=> DestPaths \in Seq(Files))
  BY DestFiles
<1>3. (TreeInv => ((\A k \in DOMAIN dest : vfs[dest[k].id].path \in Files)
                     <=> DestPaths \in Seq(Files)))'
  BY <1>2, PTL
<1>4. ListedInv /\ [Next]_vars => ListedInv'
  <2> SUFFICES ASSUME ListedInv, [Next]_vars PROVE ListedInv'
    OBVIOUS
  <2>1. IInv'
    BY NextKeeps DEF ListedInv
  <2>2. EndInv' /\ DiskInv' /\ UNCHANGED roots
    BY EndStays, DiskStays
  <2>3. \A f \in Files : Kept(f)
    BY EveryStepLists
  <2>4. \A k \in DOMAIN dest' : vfs'[dest'[k].id].path \in Files
    <3>1. CASE Files = {}
      <4>1. dest = <<>>
        <5>1. DOMAIN dest = 1..Len(dest) /\ Len(dest) \in Nat /\ dest \in Seq([pos : Nat, id : Nat])
          BY LenProperties DEF ListedInv, IInv, TreeInv
        <5>2. 1 \notin DOMAIN dest
          BY <3>1 DEF ListedInv, ListInv
        <5>3. Len(dest) = 0
          BY <5>1, <5>2
        <5> QED BY <5>1, <5>3, EmptySeq
      <4>2. dest' = <<>>
        BY <3>1, <4>1, NoFilesNoList
      <4> QED BY <4>2
    <3>2. CASE Files # {}
      <4>1. DestPaths \in Seq(Files)
        BY DestFiles DEF ListedInv, IInv, ListInv
      <4>2. DestPaths' \in Seq(Files)
        BY <3>2, <4>1, EveryStepLists
      <4>3. TreeInv'
        BY <2>1 DEF IInv
      <4> QED BY <4>2, <4>3, <1>3
    <3> QED BY <3>1, <3>2
  <2>5. ListInv'
    BY <2>1, <2>2, <2>3, <2>4, KeptIsEnough DEF ListedInv
  <2> QED BY <2>1, <2>2, <2>5 DEF ListedInv
<1> QED BY <1>1, <1>4, PTL DEF Spec

(* The walk lists a file at most once for each root it lies under, however *)
(* directories appear, disappear, or share a place on the disk, and a file *)
(* that was not disturbed exactly once for each; symbolic links are not    *)
(* listed (ToScan::next, add, get_next, size_file).                        *)
THEOREM FilesListedOnce == Spec => []ListedOncePerRoot
<1>1. ListedInv => ListedOncePerRoot
  <2> SUFFICES ASSUME ListedInv PROVE ListedOncePerRoot
    OBVIOUS
  <2>1. QueueInv /\ TreeInv /\ EndInv /\ DiskInv /\ ListInv
    BY DEF ListedInv, IInv
  <2>2. ASSUME NEW f \in Files
        PROVE  /\ Times(f) = Ways(DestPaths, f) /\ Parts(f)
               /\ Listings(f) <= Covering(f) /\ (Undisturbed(f) => Listings(f) = Covering(f))
               /\ Covering(f) \in Nat
    <3>1. DOMAIN DestPaths = DOMAIN dest
      BY DEF DestPaths
    <3>2. ASSUME NEW k \in DOMAIN dest
          PROVE  vfs[dest[k].id].path = f <=> IsPrefix(DestPaths[k], f)
      <4> DEFINE p == vfs[dest[k].id].path
      <4>1. p \in Files /\ p \in Paths /\ DestPaths[k] = p
        BY <2>1 DEF ListInv, DestPaths, Paths
      <4>2. f \in Seq(Names)
        BY ConstantsAssumption DEF Paths
      <4>3. IsPrefix(f, f)
        <5>1. Len(f) \in Nat /\ Prefix(f, Len(f)) = f
          BY <4>2, LenProperties, PrefixEnds
        <5> QED BY <4>2, <5>1, LeadsTo
      <4> HIDE DEF p
      <4>4. IsPrefix(p, f) => p = f
        BY <4>1, OnlyDirsLead, TypesAssumption
      <4> QED BY <4>1, <4>3, <4>4 DEF p
    <3>3. Times(f) = Ways(DestPaths, f)
      BY <3>1, <3>2 DEF Times, Ways
    <3>4. Parts(f)
      BY <2>1, PartsType
    <3>5. Covering(f) \in Nat
      <4>1. Ways(roots, f) \in Nat
        BY <2>1, WaysType DEF DiskInv
      <4> QED BY <4>1 DEF Covering, Ways
    <3> QED BY <2>1, <3>3, <3>4, <3>5 DEF ListInv
  <2>3. ASSUME NEW f \in Files PROVE Times(f) <= Covering(f)
    BY <2>2, Still DEF Parts
  <2>4. ASSUME pc = "done", NEW f \in Files, Undisturbed(f) PROVE Times(f) = Covering(f)
    <3>1. /\ left = <<>> /\ unordered = <<>> /\ phy_sorted = {} /\ current_dir = None
          /\ inode_ordered = <<>> /\ phy_sorted_leaves = <<>>
      <4>1. next = "none" /\ left = <<>>
        BY <2>1, <2>4 DEF EndInv
      <4>2. is_empty /\ inode_ordered = <<>>
        BY <2>1, <4>1 DEF EndInv
      <4>3. phase # "ContentPass"
        BY <4>1 DEF ListedInv, IInv, BatchInv
      <4> QED BY <2>1, <4>1, <4>2, <4>3 DEF EndInv, is_empty
    <3>2. Placed(f) = 0 /\ InDir(f) = 0
      <4>1. {e \in phy_sorted : IsPrefix(e.path, f)} = {}
        BY <3>1
      <4> QED BY <3>1, <4>1, FS_EmptySet DEF Placed, InDir
    <3>3. LeafPaths = <<>>
      BY <3>1 DEF LeafPaths
    <3>4. Ways(<<>>, f) = 0
      BY WaysType
    <3>5. /\ Ways(left, f) = 0 /\ Ways(unordered, f) = 0
          /\ Ways(inode_ordered, f) = 0 /\ Ways(LeafPaths, f) = 0
      BY <3>1, <3>3, <3>4
    <3>6. Listings(f) = 0 + 0 + 0 + 0 + 0 + 0 + Ways(DestPaths, f)
      BY <3>2, <3>5, Still
    <3>7. Ways(DestPaths, f) \in Nat
      BY <2>2 DEF Parts
    <3>8. Times(f) = Ways(DestPaths, f) /\ Listings(f) = Covering(f)
      BY <2>2, <2>4
    <3> QED BY <3>6, <3>7, <3>8
  <2>5. ASSUME NEW l \in Links PROVE Times(l) = 0
    <3>1. {k \in DOMAIN dest : vfs[dest[k].id].path = l} = {}
      BY <2>1, TypesAssumption DEF ListInv
    <3> QED BY <3>1, FS_EmptySet DEF Times
  <2> QED BY <2>3, <2>4, <2>5 DEF ListedOncePerRoot
<1> QED BY <1>1, ListedInvariance, PTL
=============================================================================
