-------------------------- MODULE BtrfsOpenProofs ---------------------------
(***************************************************************************)
(* Opening a file system and naming its subvolumes, for every file system, *)
(* every course of its commits, every loss and every list of devices.      *)
(*                                                                         *)
(* IInv is inductive.  Its parts are the file system and its devices       *)
(* (FsInv), the devices that were given (DevicesOK, ChosenOK), what was    *)
(* tried before (Tried) and what has been read (ChunksOK, TreeOK,          *)
(* OpenedOK, ReadOK).  NamedOK rests on it.                                *)
(***************************************************************************)
EXTENDS BtrfsOpen, FiniteSetTheorems, SequenceTheorems, TLAPS

-----------------------------------------------------------------------------
(* The file system and its devices.                                        *)

Newest == Len(history)

(* What a node holds that has been written with node and may be lost.      *)
AsWritten(a, node) ==
  disk[Physical(a)] = node \/ (damage > 0 /\ disk[Physical(a)] \in {Garbage, None})

Written(g) == \A a \in {history[g].root, history[g].fs} : AsWritten(a, NodeOf(g, history[g], a))

(* All nodes that are ever on a device.                                    *)
Nodes ==
  Range(Fixed) \cup {Garbage, None} \cup {FsNode[g] : g \in 1..MaxGeneration}
    \cup UNION {{RootNode[g][fs] : fs \in Pool} : g \in 1..MaxGeneration}

HistoryOK ==
  /\ history \in Seq([root : Pool, fs : Pool]) /\ Newest \in 1..MaxGeneration
  /\ \A g \in 1..Newest : history[g].root # history[g].fs
  /\ \A g \in 2..Newest :
       {history[g].root, history[g].fs} \cap {history[g - 1].root, history[g - 1].fs} = {}
  /\ damage \in 0..MaxDamage

CommitOK ==
  /\ commit \in [nodes : SUBSET {history[Newest].root, history[Newest].fs}, supers : SUBSET AllSupers]
  /\ commit.nodes # {} => commit.supers = AllSupers
  /\ commit # Nothing => Newest >= 2

(* The generation of which superblock k of device d is.                    *)
SuperGeneration(d, k) == IF <<d, k>> \in commit.supers THEN Newest - 1 ELSE Newest

SupersOK ==
  /\ DOMAIN supers = Devices /\ \A d \in Devices : DOMAIN supers[d] = Places[d]
  /\ \A d \in Devices : \A k \in Places[d] :
       \/ supers[d][k] = Superblock(SuperGeneration(d, k), history)
       \/ damage > 0 /\ supers[d][k] = None

(* The places of all copies of all nodes.                                  *)
AllPlaces == UNION {Copies(a) : a \in Addresses}

DiskOK ==
  /\ DOMAIN disk = AllPlaces
  /\ \A p \in DOMAIN disk : disk[p] \in Nodes
  /\ \A a \in DOMAIN Fixed : AsWritten(a, Fixed[a])
  /\ \A a \in {history[Newest].root, history[Newest].fs} \ commit.nodes :
       AsWritten(a, NodeOf(Newest, history[Newest], a))
  /\ commit.supers # {} => Written(Newest - 1)

FsInv == HistoryOK /\ CommitOK /\ SupersOK /\ DiskOK

-----------------------------------------------------------------------------
(* The devices that have been given.                                       *)

DevicesOK ==
  /\ given \in Seq(Devices)
  /\ IsFiniteSet(DOMAIN devices) /\ Added <= Len(given)
  /\ DOMAIN devices = {given[n] : n \in 1..Added}
  /\ \A d \in DOMAIN devices :
       /\ devices[d] \in Places[d] /\ supers[d][devices[d]] # None
       /\ \A k \in Places[d] :
            supers[d][k] # None => supers[d][k].generation <= SuperblockOf(d).generation
  /\ pc = "off" => devices = <<>>

ChosenOK ==
  /\ superblock \in DOMAIN devices \cup {None}
  /\ superblock # None =>
       \A d \in DOMAIN devices : SuperblockOf(d).generation <= SuperblockOf(superblock).generation
  /\ pc \in {"off", "devices"} => superblock = None
  /\ pc \notin {"off", "devices", "failed"} => superblock # None

-----------------------------------------------------------------------------
(* What is read.                                                           *)

(* The devices of the chunk tree.                                          *)
ChunkDevices == \A a \in FixedNodes(ChunkRoot) : Physical(a).device_id \in DOMAIN devices

Hopeless(n) == ~Readable(Attempted(n)) \/ ~ChunkDevices

Tried ==
  /\ attempt \in 0..4
  /\ superblock # None => \A n \in 0..attempt - 1 : Hopeless(n)
  /\ pc = "failed" /\ superblock # None => \A n \in 0..4 : Hopeless(n)
  /\ pc \in {"off", "devices"} => attempt = 0
  /\ pc = "tree" \/ Opened => ChunkDevices
  /\ pc = "panic" => ~AllGiven

(* A fixed tree of which the first n nodes below the root have been read.  *)
HalfRead(root, n) ==
  /\ ~IsLeaf(Fixed[root])
  /\ todo = SubSeq(Children(Fixed[root]), n + 1, Fixed[root].num_items)
  /\ tree_items = UNION {LeafItems(Fixed[Children(Fixed[root])[m]]) : m \in 1..n}

FixedRead(root) ==
  \/ todo = <<root>> /\ tree_items = {}
  \/ IsLeaf(Fixed[root]) /\ todo = <<>> /\ tree_items = LeafItems(Fixed[root])
  \/ \E n \in 0..Fixed[root].num_items : HalfRead(root, n)

LeafRead(a, items) == (todo = <<a>> /\ tree_items = {}) \/ (todo = <<>> /\ tree_items = items)

(* The nodes of the chunk tree that are no longer to be read.              *)
ChunksSeen(root) ==
  \A a \in FixedNodes(root) \ Range(todo) :
    todo = <<root>> \/ Physical(a).device_id \in DOMAIN devices

ChunksOK ==
  pc = "chunks" =>
    /\ \A root \in {ChunkRoot} : FixedRead(root) /\ ChunksSeen(root)
    /\ errors = 0 /\ reading = None /\ chunk_tree = {} /\ root_tree = {} /\ filesystem_trees = <<>>

(* The generation attempted is there, or what is there is no other.        *)
Sound(g) ==
  /\ g \in 1..Newest
  /\ \A a \in {history[g].root, history[g].fs} :
       disk[Physical(a)] \in {NodeOf(g, history[g], a), Garbage, None}

RootsOf(g) ==
  {i \in RootItems(g, history[g].fs) :
     i.key.item_type = RootItem /\ (i.key.object_id = FsTree \/ i.key.object_id >= 256)}

RootOf(g, t) == (CHOOSE i \in RootsOf(g) : i.key.object_id = t).data[1].root_node_block_number

PartlyRead(g) ==
  /\ root_tree = RootItems(g, history[g].fs)
  /\ DOMAIN filesystem_trees \subseteq DOMAIN TreesOf(g)
  /\ \A t \in DOMAIN filesystem_trees : filesystem_trees[t] = TreesOf(g)[t]

(* The tree that is read, and those before it, for generation g.           *)
RootReading(g) == LeafRead(history[g].root, RootItems(g, history[g].fs))

TreeReading(g, t) ==
  IF t = FsTree THEN LeafRead(history[g].fs, FsItems[g]) ELSE FixedRead(RootOf(g, t))

Reading(g) ==
  /\ errors > 0 => ~Readable(g)
  /\ reading = None => errors > 0 \/ RootReading(g)
  /\ reading # None =>
       /\ PartlyRead(g) /\ reading \in DOMAIN TreesOf(g)
       /\ \A t \in {reading} : errors > 0 \/ TreeReading(g, t)

TreeOK ==
  pc = "tree" =>
    /\ chunk_tree = AllChunks
    /\ \A g \in 1..MaxGeneration : g = Attempted(attempt) /\ Sound(g) => Reading(g)

OpenedOK ==
  Opened => \A g \in 1..MaxGeneration : g = Attempted(attempt) /\ Sound(g) =>
    root_tree = RootItems(g, history[g].fs) /\ filesystem_trees = TreesOf(g)

(* Types of what is read, which hold of any nodes.                         *)
ReadOK ==
  /\ pc \in {"off", "devices", "chunks", "tree", "opened", "climb", "named", "unnamed", "failed", "panic"}
  /\ errors \in Nat /\ todo \in Seq(Nat)
  /\ TreeItems(tree_items) /\ TreeItems(root_tree)
  /\ reading = None \/ reading \in Int \ DOMAIN filesystem_trees
  /\ reading = None /\ pc \in {"off", "devices", "chunks", "tree"} => root_tree = {} /\ filesystem_trees = <<>>
  /\ pc \in {"off", "devices"} => tree_items = {} /\ errors = 0 /\ reading = None /\ chunk_tree = {}

-----------------------------------------------------------------------------
(* The path of a subvolume: its parts lead down to the subvolume from the  *)
(* directory that has been reached.                                        *)
OnTheWay(g) ==
  /\ backref \in Backrefs[g] /\ pc # "unnamed"
  /\ object_id \in DOMAIN Directories[g][backref.key.offset].links
  /\ pc = "named" => object_id = 256
  /\ path_parts \in Seq(Range(path_parts))
  /\ Lookup(TreesOf(g)[backref.key.offset], object_id, path_parts) = backref.key.object_id

NamedOK ==
  pc \in {"climb", "named", "unnamed"} =>
    \A g \in 1..MaxGeneration : g = Attempted(attempt) /\ Sound(g) => OnTheWay(g)

IInv == FsInv /\ DevicesOK /\ ChosenOK /\ Tried /\ ChunksOK /\ TreeOK /\ OpenedOK /\ ReadOK

-----------------------------------------------------------------------------
(* Numbers and sequences.                                                  *)

(* A set of natural numbers that is not empty has a least element; where a *)
(* proof says "by induction" it takes the least counterexample.            *)
LEMMA LeastNumber ==
  ASSUME NEW T, T \subseteq Nat, T # {}
  PROVE  \E x \in T : \A y \in T : x <= y
<1> DEFINE Q == {0..(n - 1) : n \in T}
<1>1. Q \subseteq FiniteSubsetsOf(Nat) /\ Q # {}
  <2>1. ASSUME NEW n \in T PROVE 0..(n - 1) \subseteq Nat /\ IsFiniteSet(0..(n - 1))
    <3>1. n \in Nat
      OBVIOUS
    <3>2. 0 \in Int /\ n - 1 \in Int
      BY <3>1
    <3> QED BY <3>1, <3>2, FS_Interval
  <2> QED BY <2>1 DEF FiniteSubsetsOf
<1>2. PICK q \in Q : \A r \in Q : <<r, q>> \notin StrictSubsetOrdering(Nat)
  BY <1>1, FS_StrictSubsetOrderingWellFounded, WFMin
<1>3. PICK x \in T : q = 0..(x - 1)
  OBVIOUS
<1>4. ASSUME NEW y \in T, y < x PROVE FALSE
  <2>1. 0..(y - 1) \in Q
    OBVIOUS
  <2>2. 0..(y - 1) \subseteq q /\ 0..(y - 1) # q
    <3>1. y \in q /\ y \notin 0..(y - 1)
      BY <1>3, <1>4
    <3>2. 0..(y - 1) \subseteq q
      BY <1>3, <1>4
    <3> QED BY <3>1, <3>2
  <2>3. 0..(y - 1) \in SUBSET Nat /\ q \in SUBSET Nat
    BY <1>3
  <2> QED BY <1>2, <2>1, <2>2, <2>3 DEF StrictSubsetOrdering
<1> QED BY <1>4

(* A prefix of a sequence of at least one element ends with an element     *)
(* behind a shorter prefix.                                                *)
LEMMA PrefixStep ==
  ASSUME NEW S, NEW s \in Seq(S), NEW i \in 1..Len(s)
  PROVE  /\ SubSeq(s, 1, i - 1) \in Seq(S) /\ Len(SubSeq(s, 1, i - 1)) = i - 1
         /\ SubSeq(s, 1, i) = Append(SubSeq(s, 1, i - 1), s[i])
         /\ s[i] \in S
<1>1. Len(s) \in Nat /\ s[i] \in S /\ \A j \in 1..Len(s) : s[j] \in S
  BY LenProperties, ElementOfSeq
<1>2. i - 1 \in Int /\ 1 \in Int /\ 1..(i - 1) \subseteq 1..Len(s)
  BY <1>1
<1>3. SubSeq(s, 1, i - 1) \in Seq(S)
      /\ Len(SubSeq(s, 1, i - 1)) = IF 1 <= i - 1 THEN i - 1 - 1 + 1 ELSE 0
  BY <1>1, <1>2, SubSeqProperties
<1>4. Len(SubSeq(s, 1, i - 1)) = i - 1
  BY <1>1, <1>3
<1>5. 1 \in 1..Len(s) /\ i \in 1..Len(s)
  BY <1>1
<1>6. SubSeq(s, 1, i) = SubSeq(s, 1, i - 1) \o <<s[i]>>
  BY <1>5, SubSeqRecursiveSecond
<1>7. Append(SubSeq(s, 1, i - 1), s[i]) = SubSeq(s, 1, i - 1) \o <<s[i]>>
  BY <1>1, <1>3, AppendIsConcat
<1> QED BY <1>1, <1>3, <1>4, <1>6, <1>7

-----------------------------------------------------------------------------
(* FlattenSeq.                                                             *)

Flattens(s, f) == f = [i \in 1..Len(s) |-> IF i = 1 THEN s[i] ELSE f[i - 1] \o s[i]]

(* The function in the definition of FlattenSeq exists,                    *)
LEMMA FlattensExists ==
  ASSUME NEW s, Len(s) \in Nat
  PROVE  \E f : Flattens(s, f)
<1> DEFINE Def(f, n) == f = [i \in 1..n |-> IF i = 1 THEN s[i] ELSE f[i - 1] \o s[i]]
           Bad == {n \in Nat : ~\E f : Def(f, n)}
<1>1. Len(s) \in Nat
  OBVIOUS
<1>2. ASSUME Bad # {} PROVE FALSE
  <2>1. PICK n \in Bad : \A m \in Bad : n <= m
    BY <1>2, LeastNumber
  <2>2. n \in Nat /\ ~\E f : Def(f, n)
    BY <2>1
  <2>3. CASE n = 0
    <3> DEFINE f == [i \in 1..0 |-> s[i]]
    <3>1. f = [i \in 1..0 |-> IF i = 1 THEN s[i] ELSE f[i - 1] \o s[i]]
      OBVIOUS
    <3>2. Def(f, n)
      BY <2>3, <3>1
    <3> QED BY <2>2, <3>2
  <2>4. CASE n # 0
    <3>1. n - 1 \in Nat /\ ~(n <= n - 1)
      BY <2>2, <2>4
    <3>a. n - 1 \notin Bad
      BY <2>1, <3>1, Zenon
    <3>2. PICK f : Def(f, n - 1)
      BY <3>1, <3>a, Zenon
    <3> DEFINE g == [i \in 1..n |-> IF i < n THEN f[i]
                                    ELSE IF i = 1 THEN s[i] ELSE f[i - 1] \o s[i]]
    <3>3. ASSUME NEW i \in 1..n PROVE g[i] = IF i = 1 THEN s[i] ELSE g[i - 1] \o s[i]
      <4>1. CASE i < n
        <5>1. i \in 1..(n - 1) /\ g[i] = f[i]
          BY <2>2, <4>1
        <5>2. f[i] = IF i = 1 THEN s[i] ELSE f[i - 1] \o s[i]
          BY <3>2, <5>1
        <5>3. i # 1 => i - 1 \in 1..n /\ i - 1 < n
          BY <2>2
        <5>4. i # 1 => g[i - 1] = f[i - 1]
          BY <5>3
        <5> QED BY <5>1, <5>2, <5>4
      <4>2. CASE ~(i < n)
        <5>1. g[i] = IF i = 1 THEN s[i] ELSE f[i - 1] \o s[i]
          BY <4>2
        <5>2. i # 1 => i - 1 \in 1..n /\ i - 1 < n
          BY <2>2
        <5>3. i # 1 => g[i - 1] = f[i - 1]
          BY <5>2
        <5> QED BY <5>1, <5>3
      <4> QED BY <4>1, <4>2
    <3>4. g = [i \in 1..n |-> g[i]]
      OBVIOUS
    <3> HIDE DEF g
    <3>5. Def(g, n)
      BY <3>3, <3>4
    <3> QED BY <2>2, <3>5
  <2> QED BY <2>3, <2>4
<1> QED BY <1>1, <1>2 DEF Flattens

(* and what it is on a prefix does not depend on what follows.             *)
LEMMA FlattensAgree ==
  ASSUME NEW s, NEW t, Len(s) \in Nat, Len(t) \in Nat,
         NEW f, NEW g, Flattens(s, f), Flattens(t, g),
         NEW n \in 0..Len(s), n <= Len(t), \A i \in 1..n : s[i] = t[i]
  PROVE  \A i \in 1..n : f[i] = g[i]
<1> DEFINE Bad == {i \in 1..n : f[i] # g[i]}
<1>1. Len(s) \in Nat /\ Len(t) \in Nat /\ n \in Nat
  OBVIOUS
<1>2. ASSUME Bad # {} PROVE FALSE
  <2>1. Bad \subseteq Nat
    BY <1>1
  <2>2. PICK i \in Bad : \A j \in Bad : i <= j
    BY <1>2, <2>1, LeastNumber
  <2>3. i \in 1..n /\ f[i] # g[i] /\ i \in 1..Len(s) /\ i \in 1..Len(t)
    BY <1>1, <2>2
  <2>4. i # 1 => i - 1 \in 1..n /\ i - 1 \notin Bad
    BY <1>1, <2>2, <2>3
  <2>5. i # 1 => f[i - 1] = g[i - 1]
    BY <2>4
  <2>6. f[i] = (IF i = 1 THEN s[i] ELSE f[i - 1] \o s[i]) /\ g[i] = (IF i = 1 THEN t[i] ELSE g[i - 1] \o t[i])
    BY <2>3 DEF Flattens
  <2>7. s[i] = t[i]
    BY <2>3
  <2> QED BY <2>3, <2>5, <2>6, <2>7
<1> QED BY <1>2

(* FlattenSeq is the last value of that function,                          *)
LEMMA FlattenIs ==
  ASSUME NEW s, Len(s) \in Nat, NEW f, Flattens(s, f)
  PROVE  FlattenSeq(s) = IF Len(s) = 0 THEN s ELSE f[Len(s)]
<1>1. CASE Len(s) = 0
  BY <1>1 DEF FlattenSeq
<1>2. CASE Len(s) # 0
  <2> DEFINE F == CHOOSE g : g = [i \in 1..Len(s) |-> IF i = 1 THEN s[i] ELSE g[i - 1] \o s[i]]
  <2>1. FlattenSeq(s) = F[Len(s)]
    BY <1>2, Zenon DEF FlattenSeq
  <2>2. \E g : g = [i \in 1..Len(s) |-> IF i = 1 THEN s[i] ELSE g[i - 1] \o s[i]]
    BY FlattensExists DEF Flattens
  <2>3. F = [i \in 1..Len(s) |-> IF i = 1 THEN s[i] ELSE F[i - 1] \o s[i]]
    BY <2>2, Zenon
  <2> HIDE DEF F
  <2>4. Flattens(s, F)
    BY <2>3 DEF Flattens
  <2>5. Len(s) \in 0..Len(s) /\ Len(s) <= Len(s) /\ Len(s) \in 1..Len(s)
    BY <1>2
  <2>6. \A i \in 1..Len(s) : f[i] = F[i]
    BY <2>4, <2>5, FlattensAgree
  <2> QED BY <1>2, <2>1, <2>5, <2>6
<1> QED BY <1>1, <1>2

(* The last of the sequences comes behind the others.                      *)
LEMMA FlattenLast ==
  ASSUME NEW s, Len(s) \in Nat \ {0}, NEW t, Len(t) = Len(s) + 1,
         \A i \in 1..Len(s) : s[i] = t[i]
  PROVE  FlattenSeq(t) = FlattenSeq(s) \o t[Len(t)]
<1>1. Len(s) \in Nat /\ Len(t) \in Nat /\ Len(s) # 0 /\ Len(t) # 0
  OBVIOUS
<1>2. PICK f : Flattens(s, f)
  BY <1>1, FlattensExists
<1>3. PICK g : Flattens(t, g)
  BY <1>1, FlattensExists
<1>4. FlattenSeq(s) = f[Len(s)] /\ FlattenSeq(t) = g[Len(t)]
  BY <1>1, <1>2, <1>3, FlattenIs
<1>5. Len(s) \in 0..Len(s) /\ Len(s) \in 1..Len(s) /\ Len(s) <= Len(t)
  OBVIOUS
<1>6. f[Len(s)] = g[Len(s)]
  BY <1>1, <1>2, <1>3, <1>5, FlattensAgree
<1> DEFINE n == Len(t)
<1>7. n \in 1..Len(t) /\ n # 1 /\ n - 1 = Len(s)
  BY <1>1
<1> HIDE DEF n
<1>8. g[n] = g[n - 1] \o t[n]
  BY <1>3, <1>7 DEF Flattens
<1> QED BY <1>4, <1>6, <1>7, <1>8 DEF n

(* One sequence flattened is itself.                                       *)
LEMMA FlattenOne ==
  ASSUME NEW t, Len(t) = 1
  PROVE  FlattenSeq(t) = t[1]
<1>1. PICK g : Flattens(t, g)
  BY FlattensExists
<1>2. FlattenSeq(t) = g[1]
  BY <1>1, FlattenIs
<1> QED BY <1>1, <1>2 DEF Flattens

(* Flattened, the n-th of the sequences lies behind those before it.       *)
LEMMA FlattenStep ==
  ASSUME NEW S, NEW s \in Seq(Seq(S)), NEW i \in 1..Len(s), FlattenSeq(SubSeq(s, 1, i - 1)) \in Seq(S)
  PROVE  FlattenSeq(SubSeq(s, 1, i)) = FlattenSeq(SubSeq(s, 1, i - 1)) \o s[i]
<1> DEFINE u == SubSeq(s, 1, i - 1)
           t == SubSeq(s, 1, i)
<1>1. u \in Seq(Seq(S)) /\ Len(u) = i - 1 /\ t = Append(u, s[i]) /\ s[i] \in Seq(S) /\ i \in Nat \ {0}
  <2>1. Len(s) \in Nat
    BY LenProperties
  <2> QED BY <2>1, PrefixStep
<1> HIDE DEF u, t
<1>2. Len(t) = i /\ t[i] = s[i] /\ \A j \in 1..Len(u) : t[j] = u[j]
  BY <1>1, AppendProperties
<1>3. CASE i = 1
  <2>1. u = <<>>
    BY <1>1, <1>3, EmptySeq
  <2>2. FlattenSeq(u) = <<>>
    BY <2>1 DEF FlattenSeq
  <2>3. FlattenSeq(t) = s[i]
    BY <1>2, <1>3, FlattenOne
  <2>4. <<>> \o s[i] = s[i]
    BY <1>1, ConcatEmptySeq
  <2> QED BY <2>2, <2>3, <2>4 DEF u, t
<1>4. CASE i # 1
  <2>1. Len(u) \in Nat \ {0} /\ Len(t) = Len(u) + 1 /\ \A j \in 1..Len(u) : u[j] = t[j]
    BY <1>1, <1>2, <1>4
  <2>2. FlattenSeq(t) = FlattenSeq(u) \o t[Len(t)]
    BY <2>1, FlattenLast
  <2> QED BY <1>2, <2>2 DEF u, t
<1> QED BY <1>3, <1>4

Upto(s, i) == FlattenSeq(SubSeq(s, 1, i))

(* The parts of a flattened sequence before the first and up to the last.  *)
LEMMA UptoEnds ==
  ASSUME NEW S, NEW s \in Seq(Seq(S))
  PROVE  /\ Upto(s, 0) = <<>> /\ Upto(s, 0) \in Seq(S) /\ Len(Upto(s, 0)) = 0
         /\ Upto(s, Len(s)) = FlattenSeq(s)
<1>1. SubSeq(s, 1, 0) = <<>>
  BY SubSeqEmpty
<1>2. FlattenSeq(<<>>) = <<>>
  BY DEF FlattenSeq
<1>3. SubSeq(s, 1, Len(s)) = s
  BY SubSeqFull
<1> QED BY <1>1, <1>2, <1>3, EmptySeq DEF Upto

(* Each is a sequence of the same elements,                                *)
LEMMA UptoType ==
  ASSUME NEW S, NEW s \in Seq(Seq(S))
  PROVE  \A i \in 0..Len(s) : Upto(s, i) \in Seq(S) /\ Len(Upto(s, i)) \in Nat
<1> DEFINE Bad == {i \in 0..Len(s) : Upto(s, i) \notin Seq(S)}
<1>1. Len(s) \in Nat
  BY LenProperties
<1>2. ASSUME Bad # {} PROVE FALSE
  <2>1. Bad \subseteq Nat
    BY <1>1
  <2>2. PICK i \in Bad : \A j \in Bad : i <= j
    BY <1>2, <2>1, LeastNumber
  <2>3. i \in 0..Len(s) /\ Upto(s, i) \notin Seq(S)
    BY <2>2
  <2>4. i # 0
    BY <2>3, UptoEnds
  <2>5. i \in 1..Len(s) /\ i - 1 \in 0..Len(s) /\ ~(i <= i - 1)
    BY <1>1, <2>3, <2>4
  <2>6. Upto(s, i - 1) \in Seq(S)
    BY <2>2, <2>5
  <2>7. Upto(s, i) = Upto(s, i - 1) \o s[i]
    BY <2>5, <2>6, FlattenStep DEF Upto
  <2>8. s[i] \in Seq(S)
    BY <2>5, ElementOfSeq
  <2>9. Upto(s, i) \in Seq(S)
    BY <2>6, <2>7, <2>8, ConcatProperties
  <2> QED BY <2>3, <2>9
<1>3. \A i \in 0..Len(s) : Upto(s, i) \in Seq(S)
  BY <1>2
<1> QED BY <1>3, LenProperties

(* each is the one before with one more part,                              *)
LEMMA UptoStep ==
  ASSUME NEW S, NEW s \in Seq(Seq(S)), NEW i \in 1..Len(s)
  PROVE  /\ Upto(s, i) = Upto(s, i - 1) \o s[i]
         /\ s[i] \in Seq(S) /\ Len(s[i]) \in Nat
         /\ Upto(s, i - 1) \in Seq(S) /\ Len(Upto(s, i - 1)) \in Nat
         /\ Len(Upto(s, i)) = Len(Upto(s, i - 1)) + Len(s[i])
<1>1. Len(s) \in Nat
  BY LenProperties
<1>2. i - 1 \in 0..Len(s)
  BY <1>1
<1>3. Upto(s, i - 1) \in Seq(S)
  BY <1>2, UptoType
<1>4. s[i] \in Seq(S)
  BY ElementOfSeq
<1>5. Upto(s, i) = Upto(s, i - 1) \o s[i]
  BY <1>3, FlattenStep DEF Upto
<1>6. Len(Upto(s, i - 1) \o s[i]) = Len(Upto(s, i - 1)) + Len(s[i])
  BY <1>3, <1>4, ConcatProperties
<1> QED BY <1>3, <1>4, <1>5, <1>6, LenProperties

(* and each begins all that are longer.                                    *)
LEMMA UptoPrefix ==
  ASSUME NEW S, NEW s \in Seq(Seq(S)), NEW i \in 0..Len(s)
  PROVE  \A j \in i..Len(s) :
           /\ Len(Upto(s, i)) <= Len(Upto(s, j))
           /\ \A k \in 1..Len(Upto(s, i)) : Upto(s, j)[k] = Upto(s, i)[k]
<1> DEFINE Good(j) == /\ Len(Upto(s, i)) <= Len(Upto(s, j))
                      /\ \A k \in 1..Len(Upto(s, i)) : Upto(s, j)[k] = Upto(s, i)[k]
           Bad == {j \in i..Len(s) : ~Good(j)}
<1>1. Len(s) \in Nat /\ i \in Nat
  BY LenProperties
<1>2. ASSUME Bad # {} PROVE FALSE
  <2>1. Bad \subseteq Nat
    BY <1>1
  <2>2. PICK j \in Bad : \A m \in Bad : j <= m
    BY <1>2, <2>1, LeastNumber
  <2>3. j \in i..Len(s) /\ ~Good(j)
    BY <2>2
  <2>a. Len(Upto(s, i)) \in Nat
    BY UptoType
  <2>4. j # i
    BY <2>3, <2>a
  <2>5. j \in 1..Len(s) /\ j - 1 \in i..Len(s) /\ ~(j <= j - 1)
    BY <1>1, <2>3, <2>4
  <2>6. j - 1 \notin Bad
    BY <2>2, <2>5, Zenon
  <2>7. Good(j - 1)
    BY <2>5, <2>6
  <2> DEFINE t == Upto(s, j - 1)
             u == Upto(s, j)
             b == Upto(s, i)
  <2>8. u = t \o s[j] /\ t \in Seq(S) /\ s[j] \in Seq(S) /\ Len(t) \in Nat /\ Len(s[j]) \in Nat
        /\ Len(u) = Len(t) + Len(s[j])
    BY <2>5, UptoStep
  <2>9. Len(b) <= Len(t) /\ \A k \in 1..Len(b) : t[k] = b[k]
    BY <2>7
  <2>b. Len(b) \in Nat
    BY <2>a
  <2> HIDE DEF t, u, b
  <2>10. Len(b) <= Len(u)
    BY <2>8, <2>9, <2>b
  <2>11. ASSUME NEW k \in 1..Len(b) PROVE u[k] = b[k]
    <3>1. k \in 1..Len(t) + Len(s[j]) /\ k <= Len(t)
      BY <2>8, <2>9, <2>b
    <3>2. u[k] = t[k]
      BY <2>8, <3>1, ConcatProperties
    <3> QED BY <2>9, <3>2
  <2>12. Good(j)
    BY <2>10, <2>11 DEF u, b
  <2> QED BY <2>3, <2>12
<1> QED BY <1>2

(* Where a part lies in the flattened sequence.                            *)
LEMMA FlattenBlock ==
  ASSUME NEW S, NEW s \in Seq(Seq(S)), NEW i \in 1..Len(s)
  PROVE  /\ FlattenSeq(s) \in Seq(S)
         /\ Len(Upto(s, i)) <= Len(FlattenSeq(s))
         /\ \A k \in 1..Len(s[i]) : FlattenSeq(s)[Len(Upto(s, i - 1)) + k] = s[i][k]
<1> DEFINE t == Upto(s, i - 1)
           u == Upto(s, i)
           f == FlattenSeq(s)
<1>1. Len(s) \in Nat /\ i \in 0..Len(s) /\ Len(s) \in 0..Len(s) /\ Len(s) \in i..Len(s)
  BY LenProperties
<1>2. f = Upto(s, Len(s)) /\ f \in Seq(S) /\ Len(f) \in Nat
  BY <1>1, UptoEnds, UptoType
<1>3. Len(u) <= Len(f) /\ \A k \in 1..Len(u) : f[k] = u[k]
  BY <1>1, <1>2, UptoPrefix
<1>4. u = t \o s[i] /\ t \in Seq(S) /\ s[i] \in Seq(S) /\ Len(t) \in Nat /\ Len(s[i]) \in Nat
      /\ Len(u) = Len(t) + Len(s[i])
  BY UptoStep
<1> HIDE DEF t, u, f
<1>5. ASSUME NEW k \in 1..Len(s[i]) PROVE f[Len(t) + k] = s[i][k]
  <2> DEFINE m == Len(t) + k
  <2>1. m \in 1..Len(t) + Len(s[i]) /\ ~(m <= Len(t)) /\ m - Len(t) = k /\ m \in 1..Len(u)
    BY <1>4
  <2> HIDE DEF m
  <2>2. u[m] = s[i][m - Len(t)]
    BY <1>4, <2>1, ConcatProperties
  <2> QED BY <1>3, <2>1, <2>2 DEF m
<1> QED BY <1>2, <1>3, <1>5 DEF t, u, f

(* The function that Positions iterates exists.                            *)
LEMMA IterationExists ==
  ASSUME NEW next, NEW n \in Nat
  PROVE  \E f : f = [i \in 0..n |-> IF i = 0 THEN 0 ELSE next[f[i - 1]]]
<1> DEFINE Def(f, m) == f = [i \in 0..m |-> IF i = 0 THEN 0 ELSE next[f[i - 1]]]
           Bad == {m \in Nat : ~\E f : Def(f, m)}
<1>1. ASSUME Bad # {} PROVE FALSE
  <2>1. PICK m \in Bad : \A k \in Bad : m <= k
    BY <1>1, LeastNumber
  <2>2. m \in Nat /\ ~\E f : Def(f, m)
    BY <2>1
  <2>3. CASE m = 0
    <3> DEFINE f == [i \in 0..0 |-> 0]
    <3>1. \A i \in 0..0 : f[i] = IF i = 0 THEN 0 ELSE next[f[i - 1]]
      OBVIOUS
    <3>2. f = [i \in 0..0 |-> f[i]]
      OBVIOUS
    <3> HIDE DEF f
    <3>3. Def(f, 0)
      BY <3>1, <3>2
    <3> QED BY <2>2, <2>3, <3>3
  <2>4. CASE m # 0
    <3>1. m - 1 \in Nat /\ ~(m <= m - 1)
      BY <2>2, <2>4
    <3>2. m - 1 \notin Bad
      BY <2>1, <3>1, Zenon
    <3>3. PICK f : Def(f, m - 1)
      BY <3>1, <3>2, Zenon
    <3> DEFINE g == [i \in 0..m |-> IF i < m THEN f[i] ELSE next[f[i - 1]]]
    <3>4. ASSUME NEW i \in 0..m PROVE g[i] = IF i = 0 THEN 0 ELSE next[g[i - 1]]
      <4>1. i # 0 => g[i - 1] = f[i - 1]
        BY <2>2
      <4>2. CASE i < m
        <5>1. i \in 0..(m - 1) /\ g[i] = f[i]
          BY <2>2, <4>2
        <5>2. f[i] = IF i = 0 THEN 0 ELSE next[f[i - 1]]
          BY <3>3, <5>1
        <5> QED BY <4>1, <5>1, <5>2
      <4>3. CASE ~(i < m)
        <5>1. i # 0 /\ g[i] = next[f[i - 1]]
          BY <2>2, <2>4, <4>3
        <5> QED BY <4>1, <5>1
      <4> QED BY <4>2, <4>3
    <3>5. g = [i \in 0..m |-> g[i]]
      OBVIOUS
    <3> HIDE DEF g
    <3>6. Def(g, m)
      BY <3>4, <3>5
    <3> QED BY <2>2, <3>6
  <2> QED BY <2>3, <2>4
<1> QED BY <1>1

(* Parts that are not empty: the n-th ends behind the n-th cell or later.  *)
LEMMA UptoGrows ==
  ASSUME NEW S, NEW s \in Seq(Seq(S)), \A i \in 1..Len(s) : s[i] # <<>>
  PROVE  \A i \in 0..Len(s) :
           /\ i <= Len(Upto(s, i)) /\ Len(Upto(s, i)) <= Len(FlattenSeq(s))
           /\ i < Len(s) => Len(Upto(s, i)) < Len(FlattenSeq(s))
<1>1. Len(s) \in Nat /\ Upto(s, 0) = <<>> /\ Len(Upto(s, 0)) = 0
  BY LenProperties, UptoEnds
<1>2. \A i \in 1..Len(s) :
        /\ Len(Upto(s, i)) = Len(Upto(s, i - 1)) + Len(s[i]) /\ Len(Upto(s, i - 1)) \in Nat
        /\ Len(s[i]) \in Nat \ {0}
  <2> TAKE i \in 1..Len(s)
  <2>1. s[i] \in Seq(S) /\ s[i] # <<>>
    BY ElementOfSeq
  <2>2. Len(s[i]) \in Nat \ {0}
    BY <2>1, EmptySeq
  <2> QED BY <2>2, UptoStep
<1> DEFINE Bad == {i \in 0..Len(s) : ~(i <= Len(Upto(s, i)))}
<1>3. ASSUME Bad # {} PROVE FALSE
  <2>1. Bad \subseteq Nat
    BY <1>1
  <2>2. PICK i \in Bad : \A j \in Bad : i <= j
    BY <1>3, <2>1, LeastNumber
  <2>3. i \in 0..Len(s) /\ ~(i <= Len(Upto(s, i)))
    BY <2>2
  <2>4. i # 0
    BY <1>1, <2>3
  <2>5. i \in 1..Len(s) /\ i - 1 \in 0..Len(s) /\ ~(i <= i - 1)
    BY <1>1, <2>3, <2>4
  <2>6. i - 1 \notin Bad
    BY <2>2, <2>5, Zenon
  <2>7. i - 1 <= Len(Upto(s, i - 1))
    BY <2>5, <2>6
  <2> DEFINE a == Len(Upto(s, i))
             b == Len(Upto(s, i - 1))
             c == Len(s[i])
             l == Len(s)
  <2>8. a = b + c /\ b \in Nat /\ c \in Nat \ {0}
    BY <1>2, <2>5
  <2>9. i \in 1..l /\ l \in Nat /\ ~(i <= a) /\ i - 1 <= b
    BY <1>1, <2>3, <2>5, <2>7
  <2> HIDE DEF a, b, c, l
  <2> QED BY <2>8, <2>9
<1>4. \A i \in 0..Len(s) : i <= Len(Upto(s, i))
  BY <1>3
<1>5. ASSUME NEW i \in 0..Len(s) PROVE Len(Upto(s, i)) <= Len(FlattenSeq(s))
  <2>1. Len(s) \in i..Len(s)
    BY <1>1
  <2> QED BY <2>1, UptoPrefix, UptoEnds
<1>6. ASSUME NEW i \in 0..Len(s), i < Len(s) PROVE Len(Upto(s, i)) < Len(FlattenSeq(s))
  <2> DEFINE j == i + 1
  <2>1. j \in 1..Len(s) /\ j \in 0..Len(s) /\ j - 1 = i
    BY <1>1, <1>6
  <2>2. Len(Upto(s, j)) <= Len(FlattenSeq(s))
    BY <1>5, <2>1
  <2>3. Len(Upto(s, j)) \in Nat /\ Len(FlattenSeq(s)) \in Nat
    <3>1. Len(s) \in 0..Len(s)
      BY <1>1
    <3> QED BY <2>1, <3>1, UptoType, UptoEnds
  <2> DEFINE a == Len(Upto(s, j))
             b == Len(Upto(s, j - 1))
             c == Len(s[j])
             f == Len(FlattenSeq(s))
  <2> HIDE DEF j
  <2>4. a = b + c /\ b \in Nat /\ c \in Nat \ {0}
    BY <1>2, <2>1
  <2>5. a <= f /\ f \in Nat
    BY <2>2, <2>3
  <2> HIDE DEF a, b, c, f
  <2>6. b < f
    BY <2>4, <2>5
  <2> QED BY <2>1, <2>6 DEF b, f
<1> QED BY <1>4, <1>5, <1>6

(* `at' iterates a step from 0, and an iterator visits what it reaches.    *)
IterationOf(at, step, size) ==
  at = [n \in 0..size |-> IF n = 0 THEN 0 ELSE step[at[n - 1]]]

VisitedBy(at, after, size) ==
  Positions(after, size) = {at[n] : n \in 0..size} \ {size}

(* The positions are what an iteration of the iterator's step from 0       *)
(* visits.                                                                 *)
LEMMA PositionsForm ==
  ASSUME NEW after, NEW size \in Nat, NEW step,
         step = [p \in 0..size |-> IF p < size THEN after[p] ELSE size]
  PROVE  \E at : IterationOf(at, step, size) /\ VisitedBy(at, after, size)
<1> DEFINE next == [p \in 0..size |-> IF p < size THEN after[p] ELSE size]
           at == CHOOSE f : f = [n \in 0..size |-> IF n = 0 THEN 0 ELSE next[f[n - 1]]]
<1>1. Positions(after, size) = {at[n] : n \in 0..size} \ {size}
  BY DEF Positions
<1>2. next = step
  OBVIOUS
<1> HIDE DEF next
<1>3. \E f : f = [n \in 0..size |-> IF n = 0 THEN 0 ELSE next[f[n - 1]]]
  BY IterationExists
<1>4. at = [n \in 0..size |-> IF n = 0 THEN 0 ELSE next[at[n - 1]]]
  BY <1>3, Zenon
<1> HIDE DEF at
<1>5. VisitedBy(at, after, size)
  BY <1>1, Zenon DEF VisitedBy
<1>6. IterationOf(at, next, size)
  BY <1>4, Zenon DEF IterationOf
<1> QED BY <1>2, <1>5, <1>6, Zenon

(* The iterator visits the beginning of each part, and nothing else.       *)
LEMMA PositionsAre ==
  ASSUME NEW S, NEW s \in Seq(Seq(S)), \A i \in 1..Len(s) : s[i] # <<>>,
         NEW after, \A i \in 1..Len(s) : after[Len(Upto(s, i - 1))] = Len(Upto(s, i))
  PROVE  Positions(after, Len(FlattenSeq(s))) = {Len(Upto(s, i - 1)) : i \in 1..Len(s)}
<1> DEFINE size == Len(FlattenSeq(s))
           start == [i \in 0..Len(s) |-> Len(Upto(s, i))]
           next == [p \in 0..size |-> IF p < size THEN after[p] ELSE size]
<1>1. Len(s) \in Nat /\ size \in Nat
  <2>1. Len(s) \in Nat
    BY LenProperties
  <2>2. Len(s) \in 0..Len(s)
    BY <2>1
  <2> QED BY <2>1, <2>2, UptoType, UptoEnds
<1>2. \A i \in 0..Len(s) : /\ start[i] \in 0..size /\ i <= start[i]
                           /\ i < Len(s) => start[i] < size
                           /\ i = Len(s) => start[i] = size
                           /\ i = 0 => start[i] = 0
  <2> TAKE i \in 0..Len(s)
  <2>1. start[i] \in Nat
    BY UptoType
  <2>2. i <= start[i] /\ start[i] <= size /\ (i < Len(s) => start[i] < size)
    BY UptoGrows
  <2>3. i = Len(s) => start[i] = size
    BY UptoEnds
  <2>4. i = 0 => start[i] = 0
    BY UptoEnds
  <2> HIDE DEF start, size
  <2> QED BY <1>1, <2>1, <2>2, <2>3, <2>4
<1>3. \A i \in 1..Len(s) : i - 1 \in 0..Len(s) /\ i \in 0..Len(s)
  BY <1>1
<1>4. \A i \in 1..Len(s) : after[start[i - 1]] = start[i]
  BY <1>3
<1>5. PICK at : IterationOf(at, next, size) /\ VisitedBy(at, after, size)
  <2>1. next = [p \in 0..size |-> IF p < size THEN after[p] ELSE size]
    OBVIOUS
  <2> HIDE DEF next, size, start
  <2> QED BY <1>1, <2>1, PositionsForm
<1>6. /\ at = [n \in 0..size |-> IF n = 0 THEN 0 ELSE next[at[n - 1]]]
      /\ Positions(after, size) = {at[n] : n \in 0..size} \ {size}
  <2> HIDE DEF next, size, start
  <2> QED BY <1>5, Zenon DEF IterationOf, VisitedBy
<1>7. \A p \in 0..size : next[p] = IF p < size THEN after[p] ELSE size
  OBVIOUS
<1>8. {Len(Upto(s, i - 1)) : i \in 1..Len(s)} = {start[i - 1] : i \in 1..Len(s)}
  BY <1>3
<1> HIDE DEF size, start, next
<1> DEFINE least(n) == IF n <= Len(s) THEN n ELSE Len(s)
           Bad == {n \in 0..size : at[n] # start[least(n)]}
<1>9. ASSUME Bad # {} PROVE FALSE
  <2>1. Bad \subseteq Nat
    BY <1>1
  <2>2. PICK n \in Bad : \A m \in Bad : n <= m
    BY <1>9, <2>1, LeastNumber
  <2>3. n \in 0..size /\ n \in Nat /\ at[n] # start[least(n)]
    BY <1>1, <2>2
  <2>4. CASE n = 0
    <3>1. at[n] = 0
      BY <1>6, <2>3, <2>4
    <3>2. least(n) = 0 /\ 0 \in 0..Len(s)
      BY <1>1, <2>4
    <3>3. start[0] = 0
      BY <1>2, <3>2
    <3> QED BY <2>3, <3>1, <3>2, <3>3
  <2>5. CASE n # 0
    <3>1. n - 1 \in 0..size /\ ~(n <= n - 1)
      BY <1>1, <2>3, <2>5
    <3>2. n - 1 \notin Bad
      BY <2>2, <3>1, Zenon
    <3>3. at[n - 1] = start[least(n - 1)]
      BY <3>1, <3>2
    <3>4. at[n] = next[at[n - 1]]
      BY <1>6, <2>3, <2>5
    <3>5. CASE n <= Len(s)
      <4>1. least(n) = n /\ least(n - 1) = n - 1 /\ n \in 1..Len(s) /\ n - 1 \in 0..Len(s) /\ n - 1 < Len(s)
        BY <1>1, <2>3, <2>5, <3>5
      <4>2. start[n - 1] < size /\ start[n - 1] \in 0..size
        BY <1>2, <4>1
      <4>3. next[start[n - 1]] = after[start[n - 1]]
        BY <1>7, <4>2
      <4> QED BY <1>4, <2>3, <3>3, <3>4, <4>1, <4>3
    <3>6. CASE ~(n <= Len(s))
      <4>1. least(n) = Len(s) /\ least(n - 1) = Len(s) /\ Len(s) \in 0..Len(s)
        BY <1>1, <2>3, <2>5, <3>6
      <4>2. start[Len(s)] = size
        BY <1>2, <4>1
      <4>3. next[size] = size
        BY <1>1, <1>7
      <4> QED BY <2>3, <3>3, <3>4, <4>1, <4>2, <4>3
    <3> QED BY <3>5, <3>6
  <2> QED BY <2>4, <2>5
<1>10. \A n \in 0..size : at[n] = start[least(n)]
  BY <1>9
<1>11. ASSUME NEW n \in 0..size, at[n] # size PROVE \E i \in 1..Len(s) : at[n] = start[i - 1]
  <2>1. at[n] = start[least(n)]
    BY <1>10
  <2>2. Len(s) \in 0..Len(s) /\ start[Len(s)] = size
    BY <1>1, <1>2
  <2>3. n < Len(s)
    <3>1. ASSUME ~(n < Len(s)) PROVE FALSE
      <4>1. least(n) = Len(s)
        BY <1>1, <3>1
      <4> QED BY <1>11, <2>1, <2>2, <4>1
    <3> QED BY <3>1
  <2>4. n + 1 \in 1..Len(s) /\ (n + 1) - 1 = n /\ least(n) = n
    BY <1>1, <2>3
  <2> QED BY <2>1, <2>4
<1>12. ASSUME NEW i \in 1..Len(s) PROVE start[i - 1] # size /\ \E n \in 0..size : at[n] = start[i - 1]
  <2>1. i - 1 \in 0..Len(s) /\ i - 1 < Len(s)
    BY <1>1
  <2>2. start[i - 1] \in 0..size /\ i - 1 <= start[i - 1] /\ start[i - 1] < size
    BY <1>2, <2>1
  <2>3. i - 1 \in 0..size /\ least(i - 1) = i - 1
    BY <1>1, <2>1, <2>2
  <2>4. at[i - 1] = start[i - 1]
    BY <1>10, <2>3
  <2> QED BY <1>1, <2>2, <2>3, <2>4
<1>13. {at[n] : n \in 0..size} \ {size} = {start[i - 1] : i \in 1..Len(s)}
  <2>1. ASSUME NEW x \in {at[n] : n \in 0..size}, x # size PROVE \E i \in 1..Len(s) : x = start[i - 1]
    BY <1>11, <2>1
  <2>2. ASSUME NEW i \in 1..Len(s) PROVE start[i - 1] \in {at[n] : n \in 0..size} /\ start[i - 1] # size
    BY <1>12
  <2> QED BY <2>1, <2>2
<1> QED BY <1>6, <1>8, <1>13 DEF size

-----------------------------------------------------------------------------
(* Sorting by rank.                                                        *)

Lower(D, R, i) == {j \in D : <<j, i>> \in R}

StrictOrder(D, R) ==
  /\ \A i \in D : <<i, i>> \notin R
  /\ \A i, j \in D : i # j => <<i, j>> \in R \/ <<j, i>> \in R
  /\ \A i, j, k \in D : <<i, j>> \in R /\ <<j, k>> \in R => <<i, k>> \in R

Ranked(D, R) ==
  /\ \A k \in 1..Cardinality(D) : \E i \in D : Cardinality(Lower(D, R, i)) = k - 1
  /\ \A i, j \in D : <<i, j>> \in R =>
       Cardinality(Lower(D, R, i)) < Cardinality(Lower(D, R, j))
  /\ \A i \in D : Cardinality(Lower(D, R, i)) \in Nat

(* In a finite set that is strictly ordered the element of rank k - 1      *)
(* exists for every k up to the size of the set, and ranks respect the     *)
(* order.                                                                  *)
LEMMA Ranks ==
  ASSUME NEW D, IsFiniteSet(D), NEW R, StrictOrder(D, R)
  PROVE  Ranked(D, R)
<1> DEFINE n == Cardinality(D)
           rank == [i \in D |-> Cardinality(Lower(D, R, i))]
<1>1. n \in Nat
  BY FS_CardinalityType
<1>2. ASSUME NEW i \in D
      PROVE  /\ IsFiniteSet(Lower(D, R, i)) /\ Cardinality(Lower(D, R, i)) \in Nat
             /\ Cardinality(Lower(D, R, i) \cup {i}) = Cardinality(Lower(D, R, i)) + 1
  <2>1. Lower(D, R, i) \in SUBSET D /\ i \notin Lower(D, R, i)
    BY DEF Lower, StrictOrder
  <2>2. IsFiniteSet(Lower(D, R, i))
    BY <2>1, FS_Subset
  <2> QED BY <2>1, <2>2, FS_CardinalityType, FS_AddElement
<1>3. ASSUME NEW i \in D, NEW j \in D, <<i, j>> \in R
      PROVE  Cardinality(Lower(D, R, i)) < Cardinality(Lower(D, R, j))
  <2>1. Lower(D, R, i) \cup {i} \subseteq Lower(D, R, j)
    BY <1>3 DEF Lower, StrictOrder
  <2>2. Cardinality(Lower(D, R, i) \cup {i}) <= Cardinality(Lower(D, R, j))
    BY <1>2, <2>1, FS_Subset
  <2> DEFINE a == Cardinality(Lower(D, R, i))
             b == Cardinality(Lower(D, R, j))
             c == Cardinality(Lower(D, R, i) \cup {i})
  <2>3. a \in Nat /\ b \in Nat /\ c = a + 1 /\ c <= b
    BY <1>2, <2>2
  <2> HIDE DEF a, b, c
  <2>4. a < b
    BY <2>3
  <2> QED BY <2>4 DEF a, b
<1>4. ASSUME NEW i \in D PROVE rank[i] \in 0..(n - 1)
  <2>1. Lower(D, R, i) \cup {i} \in SUBSET D
    BY DEF Lower
  <2>2. Cardinality(Lower(D, R, i) \cup {i}) <= n
    BY <2>1, FS_Subset
  <2> QED BY <1>1, <1>2, <2>2
<1>5. rank \in Injection(D, 0..(n - 1))
  <2>1. rank \in [D -> 0..(n - 1)]
    BY <1>4
  <2>2. ASSUME NEW i \in D, NEW j \in D, rank[i] = rank[j] PROVE i = j
    <3>1. ASSUME i # j PROVE FALSE
      <4>1. rank[i] < rank[j] \/ rank[j] < rank[i]
        BY <1>3, <3>1 DEF StrictOrder
      <4>2. rank[i] \in Nat /\ rank[j] \in Nat
        BY <1>2
      <4> HIDE DEF rank
      <4> QED BY <2>2, <4>1, <4>2
    <3> QED BY <3>1
  <2> HIDE DEF rank
  <2>3. DOMAIN rank = D
    BY <2>1
  <2> QED BY <2>1, <2>2, <2>3 DEF Injection, IsInjective
<1>6. IsFiniteSet(0..(n - 1)) /\ Cardinality(0..(n - 1)) = n
  <2>1. 0 \in Int /\ n - 1 \in Int
    BY <1>1
  <2> QED BY <1>1, <2>1, FS_Interval
<1>7. rank \in Surjection(D, 0..(n - 1))
  <2> HIDE DEF rank
  <2> QED BY <1>5, <1>6, FS_Injection
<1>8. ASSUME NEW k \in 1..n PROVE \E i \in D : Cardinality(Lower(D, R, i)) = k - 1
  <2>1. k - 1 \in 0..(n - 1)
    BY <1>1
  <2>2. \E i \in D : rank[i] = k - 1
    <3> HIDE DEF rank
    <3> QED BY <1>7, <2>1 DEF Surjection
  <2> QED BY <2>2
<1> QED BY <1>2, <1>3, <1>8 DEF Ranked

-----------------------------------------------------------------------------
(* Items in the order of their keys.                                       *)

Keys == [object_id : Int, item_type : Int, offset : Int]

(* Ord of BtrfsKey is a total order.                                       *)
LEMMA KeyOrder ==
  /\ \A j \in Keys : ~Before(j, j)
  /\ \A j, k \in Keys : j # k => Before(j, k) \/ Before(k, j)
  /\ \A j, k, l \in Keys : Before(j, k) /\ Before(k, l) => Before(j, l)
<1>1. ASSUME NEW j \in Keys PROVE j.object_id \in Int /\ j.item_type \in Int /\ j.offset \in Int
  BY DEF Keys
<1>2. ASSUME NEW j \in Keys, NEW k \in Keys, j # k
      PROVE  j.object_id # k.object_id \/ j.item_type # k.item_type \/ j.offset # k.offset
  BY <1>2 DEF Keys
<1> HIDE DEF Keys
<1>3. ASSUME NEW j \in Keys PROVE ~Before(j, j)
  BY <1>1 DEF Before
<1>4. ASSUME NEW j \in Keys, NEW k \in Keys, j # k PROVE Before(j, k) \/ Before(k, j)
  BY <1>1, <1>2, <1>4 DEF Before
<1>5. ASSUME NEW j \in Keys, NEW k \in Keys, NEW l \in Keys, Before(j, k), Before(k, l)
      PROVE  Before(j, l)
  <2>1. /\ j.object_id \in Int /\ k.object_id \in Int /\ l.object_id \in Int
        /\ j.item_type \in Int /\ k.item_type \in Int /\ l.item_type \in Int
        /\ j.offset \in Int /\ k.offset \in Int /\ l.offset \in Int
    BY <1>1
  <2> QED BY <1>5, <2>1 DEF Before
<1> QED BY <1>3, <1>4, <1>5

(* InOrder lists each item once.                                           *)
LEMMA InOrderIs ==
  ASSUME NEW items, TreeItems(items)
  PROVE  /\ Cardinality(items) \in Nat
         /\ InOrder(items) \in Seq(items) /\ Len(InOrder(items)) = Cardinality(items)
         /\ {InOrder(items)[n] : n \in 1..Cardinality(items)} = items
<1> DEFINE R == {x \in items \X items : Before(x[1].key, x[2].key)}
           N == Cardinality(items)
           rank(i) == Cardinality({j \in items : Before(j.key, i.key)})
           s == InOrder(items)
<1>1. IsFiniteSet(items) /\ N \in Nat
  BY FS_CardinalityType DEF TreeItems
<1>2. \A i \in items : i.key \in Keys
  BY DEF TreeItems, Keys
<1>3. \A i, j \in items : i # j => i.key # j.key
  BY DEF TreeItems
<1>4. \A i, j \in items : <<i, j>> \in R <=> Before(i.key, j.key)
  OBVIOUS
<1>5. StrictOrder(items, R)
  <2> HIDE DEF R
  <2>1. \A i \in items : <<i, i>> \notin R
    BY <1>2, <1>4, KeyOrder
  <2>2. \A i, j \in items : i # j => <<i, j>> \in R \/ <<j, i>> \in R
    BY <1>2, <1>3, <1>4, KeyOrder
  <2>3. \A i, j, k \in items : <<i, j>> \in R /\ <<j, k>> \in R => <<i, k>> \in R
    BY <1>2, <1>4, KeyOrder
  <2> QED BY <2>1, <2>2, <2>3 DEF StrictOrder
<1>6. Ranked(items, R)
  BY <1>1, <1>5, Ranks
<1>7. \A i \in items : Lower(items, R, i) = {j \in items : Before(j.key, i.key)}
  BY DEF Lower
<1>8. \A n \in 1..N : \E i \in items : rank(i) = n - 1
  <2> TAKE n \in 1..N
  <2>1. PICK i \in items : Cardinality(Lower(items, R, i)) = n - 1
    BY <1>6 DEF Ranked
  <2> QED BY <1>7, <2>1
<1>9. \A i, j \in items : <<i, j>> \in R => rank(i) < rank(j)
  BY <1>6, <1>7 DEF Ranked
<1>10. \A i \in items : rank(i) \in Nat
  BY <1>6, <1>7 DEF Ranked
<1>11. ASSUME NEW i \in items, NEW j \in items, i # j PROVE rank(i) # rank(j)
  <2>1. <<i, j>> \in R \/ <<j, i>> \in R
    BY <1>5, <1>11 DEF StrictOrder
  <2>2. rank(i) < rank(j) \/ rank(j) < rank(i)
    BY <1>9, <2>1
  <2> DEFINE a == rank(i)
             b == rank(j)
  <2>3. a \in Nat /\ b \in Nat /\ (a < b \/ b < a)
    BY <1>10, <2>2
  <2> HIDE DEF a, b
  <2>4. a # b
    BY <2>3
  <2> QED BY <2>4 DEF a, b
<1>12. s = [n \in 1..N |-> CHOOSE i \in items : rank(i) = n - 1]
  BY DEF InOrder
<1> HIDE DEF s, R, rank
<1>13. \A n \in 1..N : s[n] \in items /\ rank(s[n]) = n - 1
  <2> TAKE n \in 1..N
  <2>1. s[n] = CHOOSE i \in items : rank(i) = n - 1
    BY <1>12
  <2> QED BY <1>8, <2>1
<1>14. s \in Seq(items) /\ Len(s) = N
  <2>1. s \in [1..N -> items]
    BY <1>12, <1>13
  <2> HIDE DEF N
  <2> QED BY <1>1, <2>1
<1>15. ASSUME NEW i \in items PROVE \E n \in 1..N : s[n] = i
  <2>1. i \in items /\ Lower(items, R, i) \in SUBSET items /\ i \notin Lower(items, R, i)
    BY <1>5 DEF Lower, StrictOrder
  <2>2. IsFiniteSet(Lower(items, R, i))
    BY <1>1, <2>1, FS_Subset
  <2>3. Cardinality(Lower(items, R, i)) \in Nat /\ Cardinality(Lower(items, R, i) \cup {i}) = Cardinality(Lower(items, R, i)) + 1
    BY <2>1, <2>2, FS_CardinalityType, FS_AddElement
  <2>4. Cardinality(Lower(items, R, i) \cup {i}) <= N
    BY <1>1, <2>1, FS_Subset
  <2>5. rank(i) = Cardinality(Lower(items, R, i))
    BY <1>7 DEF rank
  <2>6. rank(i) + 1 \in 1..N
    BY <1>1, <2>3, <2>4, <2>5
  <2>7. rank(s[rank(i) + 1]) = rank(i) /\ s[rank(i) + 1] \in items
    BY <1>10, <1>13, <2>6
  <2> QED BY <1>11, <2>6, <2>7
<1> QED BY <1>1, <1>13, <1>14, <1>15 DEF s

-----------------------------------------------------------------------------
(* What is written to a leaf is read from it.                              *)

(* A slice of cells that hold a part is the part.                          *)
LEMMA SliceIs ==
  ASSUME NEW S, NEW cells \in Seq(S), NEW T, NEW part \in Seq(T), NEW offset \in Nat,
         offset + Len(part) <= Len(cells), \A k \in 1..Len(part) : cells[offset + k] = part[k]
  PROVE  Slice(cells, offset, Len(part)) = part
<1> DEFINE n == Len(part)
           slice == SubSeq(cells, offset + 1, offset + n)
<1>1. n \in Nat /\ part \in [1..n -> T] /\ Len(cells) \in Nat
  BY LenProperties
<1>2. \A k \in (offset + 1)..(offset + n) : cells[k] \in S
  <2> TAKE k \in (offset + 1)..(offset + n)
  <2>1. k \in 1..Len(cells)
    BY <1>1
  <2> QED BY <2>1, ElementOfSeq
<1>3. /\ slice \in Seq(S) /\ Len(slice) = IF offset + 1 <= offset + n THEN offset + n - (offset + 1) + 1 ELSE 0
      /\ \A k \in 1..(offset + n - (offset + 1) + 1) : slice[k] = cells[offset + 1 + k - 1]
  <2>1. offset + 1 \in Int /\ offset + n \in Int
    BY <1>1
  <2> DEFINE lo == offset + 1
             hi == offset + n
  <2>2. lo \in Int /\ hi \in Int /\ \A k \in lo..hi : cells[k] \in S
    BY <1>2, <2>1
  <2> HIDE DEF lo, hi
  <2>3. /\ SubSeq(cells, lo, hi) \in Seq(S) /\ Len(SubSeq(cells, lo, hi)) = IF lo <= hi THEN hi - lo + 1 ELSE 0
        /\ \A k \in 1..(hi - lo + 1) : SubSeq(cells, lo, hi)[k] = cells[lo + k - 1]
    BY <2>2, SubSeqProperties
  <2> QED BY <2>3 DEF lo, hi
<1>4. Len(slice) = n /\ \A k \in 1..n : slice[k] = cells[offset + k]
  <2> HIDE DEF slice
  <2>1. Len(slice) = n
    BY <1>1, <1>3
  <2>2. \A k \in 1..n : k \in 1..(offset + n - (offset + 1) + 1) /\ offset + 1 + k - 1 = offset + k
    BY <1>1
  <2> QED BY <1>3, <2>1, <2>2
<1>5. slice \in [1..n -> S]
  <2> HIDE DEF slice, n
  <2> QED BY <1>3, <1>4, LenProperties
<1>6. \A k \in 1..n : slice[k] = part[k]
  BY <1>4
<1>7. slice = part
  <2> HIDE DEF slice, n
  <2> QED BY <1>1, <1>5, <1>6
<1> QED BY <1>7 DEF Slice

(* The data of the items behind the n-th.                                  *)
Behind(d, n) == FlattenSeq(Reverse([m \in 1..(Len(d) - n) |-> d[n + m]]))

(* The data of an item lie behind those of the items after it.             *)
LEMMA Layout ==
  ASSUME NEW S, NEW d \in Seq(Seq(S))
  PROVE  /\ Behind(d, 0) \in Seq(S)
         /\ \A n \in 1..Len(d) :
              /\ Len(Behind(d, n)) \in Nat /\ d[n] \in Seq(S)
              /\ Len(Behind(d, n)) + Len(d[n]) <= Len(Behind(d, 0))
              /\ \A k \in 1..Len(d[n]) : Behind(d, 0)[Len(Behind(d, n)) + k] = d[n][k]
<1> DEFINE N == Len(d)
           r == [i \in 1..N |-> d[N - i + 1]]
<1>1. N \in Nat
  BY LenProperties
<1>2. \A i \in 1..N : N - i + 1 \in 1..N /\ d[N - i + 1] \in Seq(S)
  <2> TAKE i \in 1..N
  <2>1. N - i + 1 \in 1..N
    BY <1>1
  <2> HIDE DEF N
  <2> QED BY <2>1, ElementOfSeq DEF N
<1>3. r \in Seq(Seq(S)) /\ Len(r) = N /\ \A i \in 1..N : r[i] = d[N - i + 1]
  <2>1. r \in [1..N -> Seq(S)] /\ \A i \in 1..N : r[i] = d[N - i + 1]
    BY <1>2
  <2> HIDE DEF N, r
  <2>2. r \in Seq(Seq(S))
    BY <1>1, <2>1, SeqDef
  <2>5. Len(r) = N
    BY <1>1, <2>1
  <2> QED BY <2>1, <2>2, <2>5
<1> HIDE DEF r
<1>4. ASSUME NEW n \in 0..N PROVE Behind(d, n) = Upto(r, N - n)
  <2> DEFINE part == [m \in 1..(N - n) |-> d[n + m]]
             back == Reverse(part)
             sub == SubSeq(r, 1, N - n)
  <2>1. N - n \in Nat /\ N - n <= N
    BY <1>1
  <2>2. Len(part) = N - n
    <3> HIDE DEF N
    <3> QED BY <2>1
  <2>3. back = [i \in 1..(N - n) |-> part[N - n - i + 1]]
    <3>1. back = [i \in 1..Len(part) |-> part[(Len(part) - i) + 1]]
      BY DEF Reverse
    <3> HIDE DEF part, N
    <3> QED BY <2>2, <3>1
  <2>4. \A i \in 1..(N - n) : back[i] = d[N - i + 1]
    <3> TAKE i \in 1..(N - n)
    <3>1. N - n - i + 1 \in 1..(N - n) /\ n + (N - n - i + 1) = N - i + 1
      BY <1>1
    <3>2. back[i] = part[N - n - i + 1]
      <4> HIDE DEF back, part
      <4> QED BY <2>3
    <3>3. part[N - n - i + 1] = d[n + (N - n - i + 1)]
      BY <3>1
    <3> QED BY <3>1, <3>2, <3>3
  <2>5. /\ sub \in Seq(Seq(S)) /\ Len(sub) = N - n
        /\ \A i \in 1..(N - n) : sub[i] = r[i]
    <3>1. \A i \in 1..(N - n) : r[i] \in Seq(S) /\ i \in 1..N
      BY <1>1, <1>2, <1>3
    <3> DEFINE k == N - n
    <3>2. k \in Int /\ 1 \in Int /\ k \in Nat /\ \A i \in 1..k : r[i] \in Seq(S)
      BY <2>1, <3>1
    <3> HIDE DEF k
    <3>3. /\ SubSeq(r, 1, k) \in Seq(Seq(S)) /\ Len(SubSeq(r, 1, k)) = IF 1 <= k THEN k - 1 + 1 ELSE 0
          /\ \A i \in 1..(k - 1 + 1) : SubSeq(r, 1, k)[i] = r[1 + i - 1]
      BY <3>2, SubSeqProperties
    <3>4. Len(SubSeq(r, 1, k)) = k
      BY <3>2, <3>3
    <3>5. \A i \in 1..k : i \in 1..(k - 1 + 1) /\ 1 + i - 1 = i
      BY <3>2
    <3>6. \A i \in 1..k : SubSeq(r, 1, k)[i] = r[i]
      BY <3>3, <3>5
    <3> QED BY <3>3, <3>4, <3>6 DEF k
  <2>6. sub \in [1..(N - n) -> Seq(S)]
    <3> HIDE DEF sub
    <3> QED BY <2>5, LenProperties
  <2>7. \A i \in 1..(N - n) : sub[i] = d[N - i + 1]
    <3> TAKE i \in 1..(N - n)
    <3>1. i \in 1..N
      BY <1>1
    <3> QED BY <1>3, <2>5, <3>1
  <2>8. back = sub
    <3> DEFINE I == 1..(N - n)
    <3>1. back = [i \in I |-> back[i]]
      <4> HIDE DEF part
      <4> QED BY <2>3
    <3>2. sub = [i \in I |-> sub[i]]
      <4> HIDE DEF sub
      <4> QED BY <2>6
    <3>3. \A i \in I : back[i] = sub[i]
      <4> HIDE DEF back, sub
      <4> QED BY <2>4, <2>7
    <3> HIDE DEF back, sub, I
    <3> QED BY <3>1, <3>2, <3>3
  <2> QED BY <2>8, Zenon DEF Behind, Upto
<1>5. Behind(d, 0) = FlattenSeq(r)
  <2>1. 0 \in 0..N /\ N - 0 = N
    BY <1>1
  <2> HIDE DEF N
  <2>2. Behind(d, 0) = Upto(r, N)
    BY <1>4, <2>1
  <2> QED BY <1>3, <2>2, UptoEnds
<1>6. Behind(d, 0) \in Seq(S)
  <2>1. Len(r) \in 0..Len(r)
    BY <1>1, <1>3
  <2> HIDE DEF N
  <2> QED BY <1>3, <1>5, <2>1, UptoType, UptoEnds
<1>7. ASSUME NEW n \in 1..N
      PROVE  /\ Len(Behind(d, n)) \in Nat /\ d[n] \in Seq(S)
             /\ Len(Behind(d, n)) + Len(d[n]) <= Len(Behind(d, 0))
             /\ \A k \in 1..Len(d[n]) : Behind(d, 0)[Len(Behind(d, n)) + k] = d[n][k]
  <2> DEFINE i == N - n + 1
  <2>1. i \in 1..N /\ i - 1 = N - n /\ N - i + 1 = n /\ n \in 0..N
    BY <1>1
  <2> HIDE DEF N, i
  <2>2. r[i] = d[n] /\ Behind(d, n) = Upto(r, i - 1)
    BY <1>3, <1>4, <2>1
  <2>3. i \in 1..Len(r)
    BY <1>3, <2>1
  <2>4. /\ Len(Upto(r, i)) = Len(Upto(r, i - 1)) + Len(r[i]) /\ Len(Upto(r, i - 1)) \in Nat /\ r[i] \in Seq(S)
    BY <1>3, <2>3, UptoStep
  <2>5. Len(Upto(r, i)) <= Len(FlattenSeq(r))
    BY <1>3, <2>3, FlattenBlock
  <2>6. \A k \in 1..Len(r[i]) : FlattenSeq(r)[Len(Upto(r, i - 1)) + k] = r[i][k]
    <3>1. r \in Seq(Seq(S))
      BY <1>3
    <3> QED BY <2>3, <3>1, FlattenBlock, Zenon
  <2> QED BY <1>5, <2>2, <2>4, <2>5, <2>6
<1> QED BY <1>6, <1>7

(* BtrfsLeafNodeItems reads the items that btrfs has written to a leaf.    *)
LEMMA LeafDecode ==
  ASSUME NEW items, Writable(items)
  PROVE  /\ LeafItems(Leaf(items)) = items
         /\ IsLeaf(Leaf(items)) /\ Leaf(items).checksum_ok
<1> DEFINE sorted == InOrder(items)
           N == Len(sorted)
           d == [m \in 1..N |-> sorted[m].data]
           D == UNION {Range(i.data) : i \in items}
           header(n) == LeafItemHeader(sorted[n].key, N + Len(Behind(d, n)), Len(sorted[n].data))
           headers == [n \in 1..N |-> header(n)]
           H == {header(n) : n \in 1..N}
           cells == headers \o Behind(d, 0)
<1>1. /\ TreeItems(items)
      /\ \A i \in items : /\ i = [key |-> i.key, data |-> i.data] /\ i.data \in Seq(Range(i.data))
                          /\ RightSize(i.key.item_type, i.data)
  BY DEF Writable
<1>2. N \in Nat /\ \A n \in 1..N : sorted[n] \in items
  <2>1. sorted \in Seq(items) /\ Len(sorted) \in Nat
    BY <1>1, InOrderIs
  <2> HIDE DEF sorted
  <2> QED BY <2>1, ElementOfSeq
<1>3. items = {sorted[n] : n \in 1..N}
  <2>1. {sorted[n] : n \in 1..Cardinality(items)} = items /\ N = Cardinality(items)
    BY <1>1, InOrderIs
  <2> HIDE DEF sorted, N
  <2> QED BY <2>1
<1> HIDE DEF sorted, N
<1>4. \A n \in 1..N : d[n] = sorted[n].data /\ d[n] \in Seq(D)
  <2> TAKE n \in 1..N
  <2>1. sorted[n].data \in Seq(Range(sorted[n].data)) /\ Range(sorted[n].data) \subseteq D
    BY <1>1, <1>2
  <2> HIDE DEF D
  <2> QED BY <2>1, SeqMonotonic
<1> HIDE DEF D
<1>5. d \in Seq(Seq(D)) /\ Len(d) = N
  <2>1. d \in [1..N -> Seq(D)]
    BY <1>4
  <2> HIDE DEF d
  <2> QED BY <1>2, <2>1
<1>6. \A n \in 0..N : FlattenSeq(Reverse([m \in 1..N - n |-> sorted[n + m].data])) = Behind(d, n)
  <2> TAKE n \in 0..N
  <2>1. \A m \in 1..(N - n) : n + m \in 1..N
    BY <1>2
  <2>2. [m \in 1..N - n |-> sorted[n + m].data] = [m \in 1..(N - n) |-> d[n + m]]
    BY <1>4, <2>1
  <2>3. [m \in 1..N - n |-> sorted[n + m].data] = [m \in 1..(Len(d) - n) |-> d[n + m]]
    <3> HIDE DEF d
    <3> QED BY <1>5, <2>2
  <2> QED BY <2>3, Zenon DEF Behind
<1>7. Leaf(items) = Node(0, N, cells)
  <2>1. \A n \in 1..N : n \in 0..N /\ 0 \in 0..N
    BY <1>2
  <2>2. 0 \in 0..N
    BY <1>2
  <2> DEFINE after(n) == FlattenSeq(Reverse([m \in 1..N - n |-> sorted[n + m].data]))
             hs == [n \in 1..N |-> LeafItemHeader(sorted[n].key, N + Len(after(n)), Len(sorted[n].data))]
  <2>3. Leaf(items) = Node(0, N, hs \o after(0))
    BY Zenon DEF Leaf, sorted, N
  <2>4. after(0) = Behind(d, 0) /\ \A n \in 1..N : after(n) = Behind(d, n)
    <3> HIDE DEF d
    <3> QED BY <1>6, <2>1, <2>2
  <2> HIDE DEF after, d
  <2>5. hs = headers
    BY <2>4
  <2> HIDE DEF hs, headers
  <2> QED BY <2>3, <2>4, <2>5
<1> HIDE DEF d
<1>8. /\ Behind(d, 0) \in Seq(D)
      /\ \A n \in 1..N : /\ Len(Behind(d, n)) \in Nat /\ d[n] \in Seq(D)
                         /\ Len(Behind(d, n)) + Len(d[n]) <= Len(Behind(d, 0))
                         /\ \A k \in 1..Len(d[n]) : Behind(d, 0)[Len(Behind(d, n)) + k] = d[n][k]
  <2>1. /\ Behind(d, 0) \in Seq(D)
        /\ \A n \in 1..Len(d) : /\ Len(Behind(d, n)) \in Nat /\ d[n] \in Seq(D)
                           /\ Len(Behind(d, n)) + Len(d[n]) <= Len(Behind(d, 0))
                           /\ \A k \in 1..Len(d[n]) : Behind(d, 0)[Len(Behind(d, n)) + k] = d[n][k]
    BY <1>5, Layout
  <2> QED BY <1>5, <2>1
<1>9. /\ headers \in Seq(D \cup H) /\ Len(headers) = N /\ \A n \in 1..N : headers[n] = header(n)
      /\ headers \in [1..N -> D \cup H]
  <2>1. headers \in [1..N -> D \cup H] /\ \A n \in 1..N : headers[n] = header(n)
    <3> HIDE DEF header
    <3> QED OBVIOUS
  <2> HIDE DEF headers, header, H
  <2> QED BY <1>2, <2>1
<1>10. Behind(d, 0) \in Seq(D \cup H)
  <2> HIDE DEF H
  <2> QED BY <1>8, SeqMonotonic
<1>11. /\ cells \in Seq(D \cup H) /\ Len(cells) = N + Len(Behind(d, 0))
       /\ \A k \in 1..N + Len(Behind(d, 0)) : cells[k] = IF k <= N THEN headers[k] ELSE Behind(d, 0)[k - N]
  <2> HIDE DEF headers, H
  <2> QED BY <1>9, <1>10, ConcatProperties
<1>12. Len(Behind(d, 0)) \in Nat
  BY <1>8, LenProperties
<1> HIDE DEF cells, headers, H
<1>13. Slice(cells, 0, N) = headers
  <2>1. 0 + Len(headers) <= Len(cells) /\ \A k \in 1..Len(headers) : cells[0 + k] = headers[k]
    <3>1. \A k \in 1..N : k \in 1..N + Len(Behind(d, 0)) /\ k <= N /\ 0 + k = k
      BY <1>2, <1>12
    <3>2. 0 + N <= N + Len(Behind(d, 0))
      BY <1>2, <1>12
    <3> QED BY <1>9, <1>11, <3>1, <3>2
  <2> QED BY <1>9, <1>11, <2>1, SliceIs
<1>14. ASSUME NEW n \in 1..N PROVE Slice(cells, header(n).data_offset, header(n).data_size) = sorted[n].data
  <2> DEFINE offset == N + Len(Behind(d, n))
             size == Len(d[n])
  <2>1. header(n).data_offset = offset /\ header(n).data_size = size
    BY <1>4 DEF LeafItemHeader
  <2>2. Len(Behind(d, n)) \in Nat /\ size \in Nat /\ offset \in Nat
    BY <1>2, <1>8, LenProperties
  <2>3. offset + size <= Len(cells)
    <3>1. Len(Behind(d, n)) + size <= Len(Behind(d, 0))
      BY <1>8
    <3> DEFINE a == Len(Behind(d, n))
               b == Len(Behind(d, 0))
               c == size
    <3>2. a \in Nat /\ b \in Nat /\ c \in Nat /\ a + c <= b
      BY <1>12, <2>2, <3>1
    <3> HIDE DEF a, b, c
    <3>3. N + a + c <= N + b
      BY <1>2, <3>2
    <3> QED BY <1>11, <3>3 DEF a, b, c
  <2>4. \A k \in 1..size : cells[offset + k] = d[n][k]
    <3> TAKE k \in 1..size
    <3>1. k \in Nat /\ k >= 1
      BY <2>2
    <3> DEFINE a == Len(Behind(d, n))
               b == Len(Behind(d, 0))
               c == size
    <3>2. a \in Nat /\ b \in Nat /\ c \in Nat /\ N + a + c <= N + b /\ k <= c
      <4>1. offset + size <= Len(cells) /\ Len(cells) = N + Len(Behind(d, 0)) /\ k <= size
        BY <1>11, <2>2, <2>3
      <4> QED BY <1>12, <2>2, <4>1
    <3>3. N + a + k \in 1..N + b /\ ~(N + a + k <= N) /\ N + a + k - N = a + k
      <4> HIDE DEF a, b, c
      <4> QED BY <1>2, <3>1, <3>2
    <3> DEFINE p == N + a + k
    <3>4. cells[N + a + k] = Behind(d, 0)[a + k]
      <4>1. p \in 1..N + Len(Behind(d, 0)) /\ ~(p <= N) /\ p - N = a + k
        <5>1. p \in 1..N + b /\ ~(p <= N) /\ p - N = a + k
          <6> HIDE DEF a, b
          <6> QED BY <1>2, <3>1, <3>2, <3>3
        <5> QED BY <5>1, Zenon DEF b
      <4> HIDE DEF p, a
      <4>2. cells[p] = Behind(d, 0)[p - N]
        BY <1>11, <4>1
      <4>3. cells[p] = Behind(d, 0)[a + k]
        BY <4>1, <4>2
      <4> QED BY <4>3 DEF p
    <3>5. Behind(d, 0)[a + k] = d[n][k]
      BY <1>8
    <3> QED BY <3>4, <3>5
  <2>5. d[n] \in Seq(D)
    BY <1>8
  <2> HIDE DEF offset, header
  <2>6. Slice(cells, offset, Len(d[n])) = d[n]
    BY <1>11, <2>2, <2>3, <2>4, <2>5, SliceIs
  <2> QED BY <1>4, <2>1, <2>6
<1>15. \A n \in 1..N : LeafItem(header(n), Slice(cells, header(n).data_offset, header(n).data_size)) = sorted[n]
  <2> TAKE n \in 1..N
  <2>1. /\ sorted[n] = [key |-> sorted[n].key, data |-> sorted[n].data]
        /\ RightSize(sorted[n].key.item_type, sorted[n].data)
    BY <1>1, <1>2
  <2>2. header(n).key = sorted[n].key
    BY DEF LeafItemHeader
  <2> HIDE DEF header
  <2> QED BY <1>14, <2>1, <2>2 DEF LeafItem
<1>16. LeafItems(Leaf(items)) = {LeafItem(h, Slice(cells, h.data_offset, h.data_size)) : h \in Range(headers)}
  <2>1. Leaf(items).cells = cells /\ Leaf(items).num_items = N
    BY <1>7 DEF Node
  <2> QED BY <1>13, <2>1 DEF LeafItems
<1>17. Range(headers) = {header(n) : n \in 1..N}
  <2>1. DOMAIN headers = 1..N
    BY <1>9
  <2> QED BY <1>9, <2>1 DEF Range
<1>18. LeafItems(Leaf(items)) = {sorted[n] : n \in 1..N}
  <2> HIDE DEF header
  <2> QED BY <1>15, <1>16, <1>17
<1>19. IsLeaf(Leaf(items)) /\ Leaf(items).checksum_ok
  BY <1>7 DEF IsLeaf, Node
<1> QED BY <1>3, <1>18, <1>19

-----------------------------------------------------------------------------
(* Chunks.                                                                 *)

(* What the assumptions say of one chunk.                                  *)
LEMMA ChunkIs ==
  ASSUME NEW c \in AllChunks
  PROVE  /\ c = [offset |-> c.offset, chunk_size |-> c.chunk_size, stripes |-> c.stripes]
         /\ c.offset \in Nat /\ c.chunk_size \in Nat
         /\ c.stripes \in Seq(Range(c.stripes)) /\ c.stripes # <<>> /\ Len(c.stripes) \in Nat \ {0}
         /\ Head(c.stripes).offset \in Nat
<1>1. /\ c = [offset |-> c.offset, chunk_size |-> c.chunk_size, stripes |-> c.stripes]
      /\ c.offset \in Nat /\ c.chunk_size \in Nat
      /\ c.stripes \in Seq(Range(c.stripes)) /\ c.stripes # <<>>
      /\ \A stripe \in Range(c.stripes) : stripe.offset \in Nat
  BY ChunksAssumption
<1>2. Len(c.stripes) \in Nat \ {0}
  BY <1>1, EmptySeq
<1>3. Head(c.stripes) \in Range(c.stripes)
  BY <1>1, HeadTailProperties
<1> QED BY <1>1, <1>2, <1>3

(* The data of a chunk: what is known of each cell.                        *)
LEMMA ChunkCells ==
  ASSUME NEW size, NEW S, NEW stripes \in Seq(S), [chunk_size |-> size, num_stripes |-> Len(stripes)] \in S
  PROVE  /\ ChunkItemData(size, stripes) \in Seq(S)
         /\ Len(ChunkItemData(size, stripes)) = 1 + Len(stripes)
         /\ ChunkItemData(size, stripes)[1] = [chunk_size |-> size, num_stripes |-> Len(stripes)]
         /\ \A k \in 1..Len(stripes) : ChunkItemData(size, stripes)[1 + k] = stripes[k]
<1> DEFINE first == [chunk_size |-> size, num_stripes |-> Len(stripes)]
<1>0. first \in S
  OBVIOUS
<1> HIDE DEF first
<1>1. <<first>> \in Seq(S) /\ Len(<<first>>) = 1 /\ Len(stripes) \in Nat
  BY <1>0, LenProperties
<1>2. <<first>>[1] = first
  OBVIOUS
<1>3. /\ <<first>> \o stripes \in Seq(S) /\ Len(<<first>> \o stripes) = 1 + Len(stripes)
      /\ \A k \in 1..1 + Len(stripes) : (<<first>> \o stripes)[k] = IF k <= 1 THEN <<first>>[k] ELSE stripes[k - 1]
  BY <1>1, ConcatProperties
<1>4. (<<first>> \o stripes)[1] = first
  <2>1. 1 \in 1..1 + Len(stripes) /\ 1 <= 1
    BY <1>1
  <2> QED BY <1>2, <1>3, <2>1
<1>5. \A k \in 1..Len(stripes) : (<<first>> \o stripes)[1 + k] = stripes[k]
  <2> TAKE k \in 1..Len(stripes)
  <2>1. 1 + k \in 1..1 + Len(stripes) /\ ~(1 + k <= 1) /\ 1 + k - 1 = k
    BY <1>1
  <2> QED BY <1>3, <2>1
<1>6. ChunkItemData(size, stripes) = <<first>> \o stripes
  BY DEF ChunkItemData, first
<1> QED BY <1>3, <1>4, <1>5, <1>6 DEF first

(* BtrfsChunkTree::new finds in an item the chunk that was written.        *)
LEMMA ChunkDecode ==
  ASSUME NEW c \in AllChunks
  PROVE  Chunk(ChunkItemOf(c).key, ChunkItemOf(c).data) = c
<1> DEFINE data == ChunkItemData(c.chunk_size, c.stripes)
           first == [chunk_size |-> c.chunk_size, num_stripes |-> Len(c.stripes)]
           S == Range(c.stripes) \cup {first}
<1>1. /\ c = [offset |-> c.offset, chunk_size |-> c.chunk_size, stripes |-> c.stripes]
      /\ c.stripes \in Seq(Range(c.stripes)) /\ Len(c.stripes) \in Nat
  BY ChunkIs
<1>2. /\ data \in Seq(S) /\ c.stripes \in Seq(S) /\ Len(data) = 1 + Len(c.stripes)
      /\ data[1] = first /\ \A k \in 1..Len(c.stripes) : data[1 + k] = c.stripes[k]
  <2>1. Range(c.stripes) \subseteq S /\ first \in S
    OBVIOUS
  <2> HIDE DEF S
  <2>2. c.stripes \in Seq(S)
    BY <1>1, <2>1, SeqMonotonic
  <2> QED BY <2>1, <2>2, ChunkCells
<1> HIDE DEF S, data, first
<1>3. Slice(data, 1, Len(c.stripes)) = c.stripes
  <2>1. 1 + Len(c.stripes) <= Len(data) /\ 1 \in Nat
    BY <1>1, <1>2
  <2> QED BY <1>1, <1>2, <2>1, SliceIs
<1>4. data[1].chunk_size = c.chunk_size /\ data[1].num_stripes = Len(c.stripes)
  BY <1>2 DEF first
<1>5. ChunkItemOf(c).data = data /\ ChunkItemOf(c).key.offset = c.offset
  BY DEF ChunkItemOf, ChunkKey, Key, data
<1> QED BY <1>1, <1>3, <1>4, <1>5 DEF Chunk

(* What the chunk tree says when it has been read.                         *)
LEMMA ChunkTreeDecode ==
  ASSUME NEW g \in 1..MaxGeneration
  PROVE  Chunks(FixedItems(ChunkRoots[g])) = AllChunks
<1>1. {i \in FixedItems(ChunkRoots[g]) : i.key.item_type = ChunkItem} = {ChunkItemOf(c) : c \in AllChunks}
  BY ChunkTreeAssumption
<1>2. Chunks(FixedItems(ChunkRoots[g])) = {Chunk(i.key, i.data) : i \in {ChunkItemOf(c) : c \in AllChunks}}
  BY <1>1, Zenon DEF Chunks
<1>3. \A c \in AllChunks : Chunk(ChunkItemOf(c).key, ChunkItemOf(c).data) = c
  BY ChunkDecode
<1> QED BY <1>2, <1>3

(* Every address of a node lies in a chunk.                                *)
LEMMA AddressesAre ==
  \A a \in Addresses : a \in Nat /\ \E c \in AllChunks : Covers(c, a)
BY ConstantsAssumption, FixedAssumption, ChunksAssumption DEF Addresses

(* Wherever an address is found in a chunk, it is found at the one place.  *)
LEMMA PlaceIs ==
  ASSUME NEW a \in Addresses, NEW c \in AllChunks, Covers(c, a)
  PROVE  /\ AtStripe(c, a) = Physical(a) /\ \A d \in AllChunks : Covers(d, a) => d = c
         /\ ChunkOf(a) = c
<1>1. \A d \in AllChunks : d.offset \in Nat /\ d.chunk_size \in Nat
  BY ChunkIs
<1>2. a \in Nat
  BY AddressesAre
<1>3. \A d \in AllChunks : Covers(d, a) => d = c
  <2> SUFFICES ASSUME NEW d \in AllChunks, Covers(d, a), d # c PROVE FALSE
    OBVIOUS
  <2>1. d.offset + d.chunk_size <= c.offset \/ c.offset + c.chunk_size <= d.offset
    BY ChunksAssumption
  <2> QED BY <1>1, <1>2, <2>1 DEF Covers
<1>4. \A d \in AllChunks : a - d.offset \in 0..d.chunk_size - 1 <=> Covers(d, a)
  BY <1>1, <1>2 DEF Covers
<1>5. c = ChunkOf(a)
  <2>1. c = CHOOSE d \in AllChunks : a - d.offset \in 0..d.chunk_size - 1
    BY <1>3, <1>4
  <2> QED BY <2>1, Zenon DEF ChunkOf
<1>6. Physical(a) = [device_id |-> Head(c.stripes).device_id, offset |-> Head(c.stripes).offset + a - c.offset]
  BY <1>5, Zenon DEF Physical, PlaceIn
<1>7. Head(c.stripes).offset + a - c.offset = a - c.offset + Head(c.stripes).offset
  BY <1>1, <1>2, ChunkIs
<1> QED BY <1>3, <1>5, <1>6, <1>7 DEF AtStripe

(* What is read is one of the copies.                                      *)
LEMMA PhysicalIsCopy ==
  ASSUME NEW a \in Addresses
  PROVE  Physical(a) \in Copies(a)
<1>1. PICK c \in AllChunks : Covers(c, a)
  BY AddressesAre
<1>2. ChunkOf(a) = c
  BY <1>1, PlaceIs
<1>3. Head(c.stripes) \in Range(c.stripes)
  BY ChunkIs, HeadTailProperties
<1> QED BY <1>2, <1>3 DEF Physical, Copies

(* The chunk tree that was written leads to every node.                    *)
LEMMA LogicalToPhysical ==
  ASSUME NEW a \in Addresses
  PROVE  logical_to_physical_address(AllChunks, a) = Physical(a)
<1>1. PICK c \in AllChunks : Covers(c, a)
  BY AddressesAre
<1>2. AtStripe(c, a) = Physical(a) /\ \A d \in AllChunks : Covers(d, a) => d = c
  BY <1>1, PlaceIs
<1> DEFINE found == {d \in AllChunks : Covers(d, a)}
<1>3. found = {c}
  BY <1>1, <1>2
<1>4. c.offset <= c.offset
  BY ChunkIs
<1>5. c = CHOOSE e \in found : \A d \in found : e.offset <= d.offset
  <2> HIDE DEF found
  <2> QED BY <1>3, <1>4
<1>6. logical_to_physical_address(AllChunks, a) =
        IF found = {} THEN None
        ELSE AtStripe(CHOOSE e \in found : \A d \in found : e.offset <= d.offset, a)
  BY Zenon DEF logical_to_physical_address
<1> HIDE DEF found
<1> QED BY <1>2, <1>3, <1>5, <1>6

-----------------------------------------------------------------------------
(* The chunks that a superblock lists.                                     *)

(* The entries that are written to the array of system chunks.             *)
ChunkEntries == [n \in 1..Len(SystemList) |-> SystemEntry(SystemList[n])]

SystemCells ==
  UNION {{ChunkKey(c), [chunk_size |-> c.chunk_size, num_stripes |-> Len(c.stripes)]} \cup Range(c.stripes) :
           c \in AllChunks}

(* What an entry of the array of system chunks is made of.                 *)
LEMMA SystemEntryIs ==
  ASSUME NEW c \in AllChunks
  PROVE  /\ SystemEntry(c) \in Seq(SystemCells) /\ Len(SystemEntry(c)) = 2 + Len(c.stripes)
         /\ SystemEntry(c)[1] = ChunkKey(c)
         /\ SystemEntry(c)[2].chunk_size = c.chunk_size
         /\ SystemEntry(c)[2].num_stripes = Len(c.stripes)
         /\ \A k \in 1..Len(c.stripes) : SystemEntry(c)[2 + k] = c.stripes[k]
<1> DEFINE data == ChunkItemData(c.chunk_size, c.stripes)
           first == [chunk_size |-> c.chunk_size, num_stripes |-> Len(c.stripes)]
           entry == <<ChunkKey(c)>> \o data
           N == Len(c.stripes)
<1>1. c.stripes \in Seq(Range(c.stripes)) /\ N \in Nat
  BY ChunkIs
<1>2. Range(c.stripes) \subseteq SystemCells /\ first \in SystemCells /\ ChunkKey(c) \in SystemCells
  BY DEF SystemCells
<1>3. /\ data \in Seq(SystemCells) /\ Len(data) = 1 + N
      /\ data[1] = first /\ \A k \in 1..N : data[1 + k] = c.stripes[k]
  <2>1. c.stripes \in Seq(SystemCells)
    BY <1>1, <1>2, SeqMonotonic
  <2> QED BY <1>2, <2>1, ChunkCells
<1>4. <<ChunkKey(c)>> \in Seq(SystemCells) /\ Len(<<ChunkKey(c)>>) = 1
  BY <1>2
<1> HIDE DEF data, N, first
<1>5. /\ entry \in Seq(SystemCells) /\ Len(entry) = 1 + (1 + N)
      /\ \A k \in 1..1 + (1 + N) : entry[k] = IF k <= 1 THEN <<ChunkKey(c)>>[k] ELSE data[k - 1]
  BY <1>3, <1>4, ConcatProperties
<1>6. <<ChunkKey(c)>>[1] = ChunkKey(c)
  OBVIOUS
<1> HIDE DEF entry
<1>7. entry[1] = ChunkKey(c) /\ entry[2] = data[1]
  <2>1. 1 \in 1..1 + (1 + N) /\ 1 <= 1 /\ 2 \in 1..1 + (1 + N) /\ ~(2 <= 1) /\ 2 - 1 = 1
    BY <1>1
  <2> QED BY <1>5, <1>6, <2>1
<1>8. \A k \in 1..N : entry[2 + k] = data[1 + k]
  <2> TAKE k \in 1..N
  <2>1. 2 + k \in 1..1 + (1 + N) /\ ~(2 + k <= 1) /\ 2 + k - 1 = 1 + k
    BY <1>1
  <2> QED BY <1>5, <2>1
<1>9. data[1].chunk_size = c.chunk_size /\ data[1].num_stripes = N
  BY <1>3 DEF N, first
<1>10. SystemEntry(c) = entry
  BY DEF SystemEntry, entry, data
<1>11. Len(entry) = 2 + N /\ \A k \in 1..N : entry[2 + k] = c.stripes[k]
  BY <1>1, <1>3, <1>5, <1>8
<1> QED BY <1>5, <1>7, <1>9, <1>10, <1>11 DEF N

(* The array of system chunks is made of entries.                          *)
LEMMA ChunkEntriesAre ==
  /\ ChunkEntries \in Seq(Seq(SystemCells)) /\ Len(ChunkEntries) = Len(SystemList) /\ Len(SystemList) \in Nat
  /\ \A n \in 1..Len(SystemList) :
       SystemList[n] \in AllChunks /\ ChunkEntries[n] = SystemEntry(SystemList[n]) /\ ChunkEntries[n] # <<>>
<1> DEFINE N == Len(SystemList)
<1>1. N \in Nat /\ \A n \in 1..N : SystemList[n] \in AllChunks
  BY ChunkTreeAssumption, ElementOfSeq, LenProperties
<1>2. \A n \in 1..N : ChunkEntries[n] = SystemEntry(SystemList[n])
  BY DEF ChunkEntries
<1> HIDE DEF N
<1>3. \A n \in 1..N : ChunkEntries[n] \in Seq(SystemCells) /\ ChunkEntries[n] # <<>>
  <2> TAKE n \in 1..N
  <2>1. ChunkEntries[n] \in Seq(SystemCells) /\ Len(ChunkEntries[n]) = 2 + Len(SystemList[n].stripes)
    BY <1>1, <1>2, SystemEntryIs
  <2>2. Len(SystemList[n].stripes) \in Nat
    BY <1>1, ChunkIs
  <2>3. Len(ChunkEntries[n]) # 0
    BY <2>1, <2>2
  <2> QED BY <2>1, <2>3, EmptySeq
<1>4. ChunkEntries = [n \in 1..N |-> ChunkEntries[n]]
  BY DEF ChunkEntries, N
<1>5. ChunkEntries \in [1..N -> Seq(SystemCells)]
  BY <1>3, <1>4
<1>6. ChunkEntries \in Seq(Seq(SystemCells)) /\ Len(ChunkEntries) = N
  BY <1>1, <1>5
<1> QED BY <1>1, <1>2, <1>3, <1>6 DEF N

(* BtrfsSuperblockSystemChunks finds the chunks that were written.         *)
LEMMA SystemChunksDecode ==
  ASSUME NEW sb, sb.system_chunks = SystemEntries \o Unused, sb.system_chunks_size = Len(SystemEntries)
  PROVE  SystemChunks(sb) =
           {[at |-> Len(Upto(ChunkEntries, n - 1)), chunk |-> SystemList[n]] : n \in 1..Len(SystemList)}
<1> DEFINE e == ChunkEntries
           N == Len(SystemList)
           T == SystemCells \cup Range(Unused)
           cells == SystemEntries \o Unused
           size == Len(SystemEntries)
           after == [p \in 0..Len(cells) |-> p + 2 + cells[p + 2].num_stripes]
           at(n) == Len(Upto(e, n - 1))
<1>1. /\ e \in Seq(Seq(SystemCells)) /\ Len(e) = N /\ N \in Nat
      /\ \A n \in 1..N : SystemList[n] \in AllChunks /\ e[n] = SystemEntry(SystemList[n]) /\ e[n] # <<>>
  BY ChunkEntriesAre
<1>2. SystemEntries = FlattenSeq(e)
  BY Zenon DEF SystemEntries, ChunkEntries
<1> HIDE DEF e, N
<1>3. SystemEntries \in Seq(SystemCells) /\ size \in Nat
  <2>1. Len(e) \in 0..Len(e)
    BY <1>1
  <2>2. SystemEntries \in Seq(SystemCells)
    BY <1>1, <1>2, <2>1, UptoType, UptoEnds
  <2> QED BY <2>2, LenProperties
<1>4. /\ cells \in Seq(T) /\ Len(cells) = size + Len(Unused) /\ Len(Unused) \in Nat
      /\ \A k \in 1..size : cells[k] = SystemEntries[k]
  <2>1. SystemEntries \in Seq(T) /\ Unused \in Seq(T)
    <3>1. SystemCells \subseteq T /\ Range(Unused) \subseteq T /\ Unused \in Seq(Range(Unused))
      BY ChunkTreeAssumption
    <3> HIDE DEF T
    <3> QED BY <1>3, <3>1, SeqMonotonic
  <2> HIDE DEF T
  <2>2. /\ cells \in Seq(T) /\ Len(cells) = size + Len(Unused)
        /\ \A k \in 1..size + Len(Unused) : cells[k] = IF k <= size THEN SystemEntries[k] ELSE Unused[k - size]
    BY <2>1, ConcatProperties
  <2>3. Len(Unused) \in Nat
    BY <2>1, LenProperties
  <2>4. \A k \in 1..size : k \in 1..size + Len(Unused) /\ k <= size
    BY <1>3, <2>3
  <2> HIDE DEF size, cells
  <2> QED BY <2>2, <2>3, <2>4
<1> HIDE DEF cells
<1>5. \A n \in 1..N : /\ at(n) \in Nat /\ Len(e[n]) \in Nat /\ Len(Upto(e, n)) = at(n) + Len(e[n])
                      /\ Len(Upto(e, n)) <= size
  <2> TAKE n \in 1..N
  <2>1. n \in 1..Len(e)
    BY <1>1
  <2>2. at(n) \in Nat /\ Len(e[n]) \in Nat /\ Len(Upto(e, n)) = at(n) + Len(e[n])
    BY <1>1, <2>1, UptoStep
  <2>3. Len(Upto(e, n)) <= Len(FlattenSeq(e))
    BY <1>1, <2>1, FlattenBlock
  <2> QED BY <1>2, <2>2, <2>3
<1>6. \A n \in 1..N : \A k \in 1..Len(e[n]) : cells[at(n) + k] = e[n][k]
  <2> TAKE n \in 1..N
  <2> TAKE k \in 1..Len(e[n])
  <2>1. n \in 1..Len(e)
    BY <1>1
  <2>2. SystemEntries[at(n) + k] = e[n][k]
    <3>1. e \in Seq(Seq(SystemCells))
      BY <1>1
    <3> QED BY <1>2, <2>1, <3>1, FlattenBlock, Zenon
  <2> DEFINE a == at(n)
             l == Len(e[n])
  <2>3. a \in Nat /\ l \in Nat /\ a + l <= size /\ k \in 1..l
    BY <1>5
  <2> HIDE DEF a, l, size
  <2>4. a + k \in 1..size
    BY <1>3, <2>3
  <2>5. cells[a + k] = SystemEntries[a + k]
    BY <1>4, <2>4
  <2> QED BY <2>2, <2>5 DEF a
<1>7. ASSUME NEW n \in 1..N
      PROVE  /\ after[at(n)] = Len(Upto(e, n))
             /\ Chunk(cells[at(n) + 1], SubSeq(cells, at(n) + 2, Len(cells))) = SystemList[n]
  <2> DEFINE c == SystemList[n]
             a == at(n)
             l == Len(c.stripes)
             M == Len(cells)
             rest == SubSeq(cells, a + 2, M)
  <2>1. c \in AllChunks /\ e[n] = SystemEntry(c)
    BY <1>1
  <2>2. /\ c = [offset |-> c.offset, chunk_size |-> c.chunk_size, stripes |-> c.stripes]
        /\ c.stripes \in Seq(Range(c.stripes)) /\ l \in Nat
    BY <2>1, ChunkIs
  <2>3. /\ Len(e[n]) = 2 + l
        /\ e[n][1] = ChunkKey(c) /\ e[n][2].chunk_size = c.chunk_size /\ e[n][2].num_stripes = l
        /\ \A k \in 1..l : e[n][2 + k] = c.stripes[k]
    BY <2>1, SystemEntryIs
  <2>4. a \in Nat /\ Len(Upto(e, n)) = a + (2 + l) /\ a + (2 + l) <= M /\ M \in Nat
    <3>1. a \in Nat /\ Len(Upto(e, n)) = a + Len(e[n]) /\ Len(Upto(e, n)) <= size
      BY <1>5
    <3>2. M = size + Len(Unused) /\ Len(Unused) \in Nat
      BY <1>4
    <3> HIDE DEF a, l, size, M
    <3> QED BY <1>3, <2>2, <2>3, <3>1, <3>2
  <2> HIDE DEF l, M
  <2>5. cells[a + 1] = ChunkKey(c) /\ cells[a + 2] = e[n][2] /\ \A k \in 1..l : cells[a + (2 + k)] = c.stripes[k]
    <3>1. 1 \in 1..Len(e[n]) /\ 2 \in 1..Len(e[n]) /\ \A k \in 1..l : 2 + k \in 1..Len(e[n])
      BY <2>2, <2>3
    <3> HIDE DEF c
    <3> QED BY <1>6, <2>3, <3>1
  <2> HIDE DEF a, c
  <2>6. after[a] = a + 2 + l
    <3>1. a \in 0..Len(cells)
      BY <2>2, <2>4 DEF M
    <3>2. after[a] = a + 2 + cells[a + 2].num_stripes
      BY <3>1
    <3> QED BY <2>3, <2>5, <3>2
  <2>7. /\ rest \in Seq(T) /\ Len(rest) = M - (a + 2) + 1
        /\ \A k \in 1..M - (a + 2) + 1 : rest[k] = cells[a + 2 + k - 1]
    <3> DEFINE lo == a + 2
    <3>1. lo \in Int /\ M \in Int /\ lo <= M
      BY <2>2, <2>4
    <3>2. \A k \in lo..M : cells[k] \in T
      <4> TAKE k \in lo..M
      <4>1. k \in 1..Len(cells)
        BY <2>4 DEF M
      <4> HIDE DEF T
      <4> QED BY <1>4, <4>1, ElementOfSeq
    <3> HIDE DEF lo, T
    <3>3. /\ SubSeq(cells, lo, M) \in Seq(T) /\ Len(SubSeq(cells, lo, M)) = M - lo + 1
          /\ \A k \in 1..M - lo + 1 : SubSeq(cells, lo, M)[k] = cells[lo + k - 1]
      BY <3>1, <3>2, SubSeqProperties
    <3> QED BY <3>3, Zenon DEF lo
  <2> HIDE DEF rest
  <2>8. rest[1] = cells[a + 2]
    <3>1. 1 \in 1..M - (a + 2) + 1 /\ a + 2 + 1 - 1 = a + 2
      BY <2>2, <2>4
    <3> HIDE DEF T
    <3> QED BY <2>7, <3>1
  <2>9. Slice(rest, 1, l) = c.stripes
    <3>1. 1 + l <= Len(rest)
      BY <2>2, <2>4, <2>7
    <3>2. \A k \in 1..l : rest[1 + k] = c.stripes[k]
      <4> TAKE k \in 1..l
      <4>0. a \in Nat /\ l \in Nat /\ M \in Nat /\ a + (2 + l) <= M /\ k \in Nat /\ 1 <= k /\ k <= l
        BY <2>2, <2>4
      <4>1. 1 + k \in 1..M - (a + 2) + 1 /\ a + 2 + (1 + k) - 1 = a + (2 + k)
        BY <4>0
      <4> HIDE DEF T
      <4> QED BY <2>5, <2>7, <4>1
    <3> HIDE DEF T
    <3>3. 1 \in Nat /\ l = Len(c.stripes)
      BY DEF l
    <3> QED BY <2>2, <2>7, <3>1, <3>2, <3>3, SliceIs
  <2>10. Chunk(cells[a + 1], rest) = c
    <3>1. ChunkKey(c).offset = c.offset
      BY DEF ChunkKey, Key
    <3>2. Chunk(cells[a + 1], rest) = [offset |-> c.offset, chunk_size |-> c.chunk_size, stripes |-> c.stripes]
      BY <2>3, <2>5, <2>8, <2>9, <3>1 DEF Chunk
    <3> QED BY <2>2, <3>2
  <2>11. after[a] = Len(Upto(e, n))
    <3> HIDE DEF after
    <3> QED BY <2>2, <2>4, <2>6
  <2> HIDE DEF after
  <2> QED BY <2>10, <2>11, Zenon DEF a, rest, c, M
<1> HIDE DEF after
<1>8. Positions(after, size) = {at(n) : n \in 1..N}
  <2>1. \A n \in 1..Len(e) : e[n] # <<>> /\ after[Len(Upto(e, n - 1))] = Len(Upto(e, n))
    BY <1>1, <1>7
  <2>2. Positions(after, Len(FlattenSeq(e))) = {Len(Upto(e, n - 1)) : n \in 1..Len(e)}
    <3>1. e \in Seq(Seq(SystemCells))
      BY <1>1
    <3> QED BY <2>1, <3>1, PositionsAre
  <2> QED BY <1>1, <1>2, <2>2
<1>9. SystemChunks(sb) = {[at |-> p, chunk |-> Chunk(cells[p + 1], SubSeq(cells, p + 2, Len(cells)))] :
                            p \in Positions(after, size)}
  BY Zenon DEF SystemChunks, after, cells
<1> HIDE DEF at, size
<1>10. SystemChunks(sb) = {[at |-> at(n), chunk |-> SystemList[n]] : n \in 1..N}
  BY <1>7, <1>8, <1>9
<1> QED BY <1>10, Zenon DEF N, at, e

(* Fixed nodes and those of commits have addresses, as has the chunk tree. *)
LEMMA FixedAddresses ==
  /\ DOMAIN Fixed \subseteq Addresses /\ Pool \subseteq Addresses
  /\ \A g \in 1..MaxGeneration :
       FixedNodes(ChunkRoots[g]) \subseteq DOMAIN Fixed /\ ChunkRoots[g] \in FixedNodes(ChunkRoots[g])
BY FixedAssumption DEF Addresses, FixedTree, FixedNodes

(* system_logical_to_physical leads to the nodes of the chunk tree.        *)
LEMMA SystemToPhysical ==
  ASSUME NEW sb, sb.system_chunks = SystemEntries \o Unused, sb.system_chunks_size = Len(SystemEntries),
         NEW g \in 1..MaxGeneration, NEW a \in FixedNodes(ChunkRoots[g])
  PROVE  system_logical_to_physical(sb, a) = Physical(a)
<1> DEFINE at(n) == Len(Upto(ChunkEntries, n - 1))
           N == Len(SystemList)
           found == {c \in SystemChunks(sb) : Covers(c.chunk, a)}
           Ats == {c.at : c \in found}
           first == CHOOSE c \in found : \A d \in found : c.at <= d.at
<1>1. SystemChunks(sb) = {[at |-> at(n), chunk |-> SystemList[n]] : n \in 1..N}
  BY SystemChunksDecode
<1>2. \A n \in 1..N : SystemList[n] \in AllChunks
  BY ChunkEntriesAre
<1>3. \A n \in 1..N : at(n) \in Nat
  <2> TAKE n \in 1..N
  <2>1. n \in 1..Len(ChunkEntries) /\ ChunkEntries \in Seq(Seq(SystemCells))
    BY ChunkEntriesAre
  <2> QED BY <2>1, UptoStep
<1>4. PICK n \in DOMAIN SystemList : Covers(SystemList[n], a)
  BY ChunkTreeAssumption
<1>5. n \in 1..N
  BY ChunkTreeAssumption, LenProperties
<1> HIDE DEF at, N
<1>6. [at |-> at(n), chunk |-> SystemList[n]] \in found
  BY <1>1, <1>4, <1>5
<1>7. \A c \in found : c.chunk \in AllChunks /\ Covers(c.chunk, a) /\ c.at \in Nat
  BY <1>1, <1>2, <1>3
<1> HIDE DEF found
<1>8. \E c \in found : \A d \in found : c.at <= d.at
  <2>1. Ats \subseteq Nat /\ Ats # {}
    BY <1>6, <1>7
  <2>2. PICK x \in Ats : \A y \in Ats : x <= y
    <3> HIDE DEF Ats
    <3> QED BY <2>1, LeastNumber
  <2> QED BY <2>2
<1>9. first \in found
  BY <1>8
<1> HIDE DEF first
<1>10. a \in Addresses
  BY FixedAddresses
<1>11. AtStripe(first.chunk, a) = Physical(a)
  BY <1>7, <1>9, <1>10, PlaceIs
<1>12. system_logical_to_physical(sb, a) = IF found = {} THEN None ELSE AtStripe(first.chunk, a)
  BY Zenon DEF system_logical_to_physical, found, first
<1> QED BY <1>6, <1>11, <1>12

-----------------------------------------------------------------------------
(* Sets of items.                                                          *)

(* Some items of a tree have what TreeItems says of all of them,           *)
LEMMA TreeItemsSubset ==
  ASSUME NEW items, TreeItems(items), NEW some \in SUBSET items
  PROVE  TreeItems(some)
BY FS_Subset DEF TreeItems

(* and so has none.                                                        *)
LEMMA NoItems == TreeItems({})
BY FS_EmptySet DEF TreeItems

(* BTreeMap::insert keeps one item of a key.                               *)
LEMMA InsertItems ==
  ASSUME NEW a, TreeItems(a), NEW b, TreeItems(b)
  PROVE  TreeItems(Insert(a, b))
<1> DEFINE kept == {i \in a : \A j \in b : j.key # i.key}
<1>1. IsFiniteSet(kept)
  BY FS_Subset DEF TreeItems
<1>2. IsFiniteSet(kept \cup b)
  BY <1>1, FS_Union DEF TreeItems
<1> QED BY <1>2 DEF Insert, TreeItems

(* Items of different nodes of one tree replace none.                      *)
LEMMA InsertUnion ==
  ASSUME NEW all, TreeItems(all), NEW a \in SUBSET all, NEW b \in SUBSET all
  PROVE  Insert(a, b) = a \cup b
<1>1. \A i \in a, j \in b : j.key = i.key => i \in b
  BY DEF TreeItems
<1> QED BY <1>1 DEF Insert

(* What is in order is what is ordered.                                    *)
LEMMA OrderedItems ==
  ASSUME NEW items, TreeItems(items)
  PROVE  /\ DOMAIN InOrder(items) = 1..Cardinality(items) /\ Cardinality(items) \in Nat
         /\ \A n \in DOMAIN InOrder(items) : InOrder(items)[n] \in items
         /\ \A i \in items : \E n \in DOMAIN InOrder(items) : InOrder(items)[n] = i
<1> DEFINE s == InOrder(items)
           N == Cardinality(items)
<1>1. N \in Nat /\ s \in Seq(items) /\ Len(s) = N /\ {s[n] : n \in 1..N} = items
  BY InOrderIs
<1> HIDE DEF s, N
<1>2. DOMAIN s = 1..N
  BY <1>1, LenProperties
<1> QED BY <1>1, <1>2 DEF s, N

(* The first of the trees that are not read yet.                           *)
LEMMA MinOfNumbers ==
  ASSUME NEW T, T \subseteq Nat, T # {}
  PROVE  Min(T) \in T
<1>1. \E x \in T : \A y \in T : x <= y
  BY LeastNumber
<1> QED BY <1>1 DEF Min

-----------------------------------------------------------------------------
(* The file system.                                                        *)

(* A superblock is about the generations up to its own.                    *)
LEMMA SuperblockSame ==
  ASSUME NEW g \in Nat \ {0}, NEW old, NEW new, \A b \in 1..g : old[b] = new[b]
  PROVE  Superblock(g, old) = Superblock(g, new)
<1> DEFINE of(slot) == {b \in 1..g : b % 4 = slot /\ b > g - 4}
           backup(written, slot) ==
             LET b == CHOOSE b \in of(slot) : TRUE
             IN  IF of(slot) = {} THEN RootBackup(0, 0) ELSE RootBackup(written[b].root, ChunkRoots[b])
<1>1. g \in 1..g
  OBVIOUS
<1>2. \A slot \in 0..3 : backup(old, slot) = backup(new, slot)
  <2> TAKE slot \in 0..3
  <2>1. of(slot) \subseteq 1..g
    OBVIOUS
  <2> HIDE DEF of
  <2>2. of(slot) # {} => (CHOOSE b \in of(slot) : TRUE) \in 1..g
    BY <2>1
  <2> QED BY <2>2
<1>3. \A w : Superblock(g, w) =
        [generation |-> g, root_tree |-> w[g].root, chunk_root |-> ChunkRoots[g],
         system_chunks |-> SystemEntries \o Unused, system_chunks_size |-> Len(SystemEntries), root_backups |-> [slot \in 0..3 |-> backup(w, slot)]]
  BY Zenon DEF Superblock
<1> HIDE DEF backup
<1>4. [slot \in 0..3 |-> backup(old, slot)] = [slot \in 0..3 |-> backup(new, slot)]
  BY <1>2
<1> QED BY <1>1, <1>3, <1>4

(* A place is that of one node.                                            *)
LEMMA OnePlace ==
  ASSUME NEW a \in Addresses, NEW b \in Addresses, NEW p \in Copies(a), p \in Copies(b)
  PROVE  a = b
BY ChunksAssumption

(* What is read is one of the places.                                      *)
LEMMA PhysicalPlaces ==
  ASSUME NEW a \in Addresses
  PROVE  Physical(a) \in AllPlaces
BY PhysicalIsCopy DEF AllPlaces

(* Two nodes for a generation.                                             *)
LEMMA FirstGeneration ==
  LET first == Generation(Min(Pool), Min(Pool \ {Min(Pool)}))
  IN  first \in [root : Pool, fs : Pool] /\ first.root # first.fs
<1>1. Pool \subseteq Nat /\ Pool # {} /\ \A a : Pool \ {a} # {} /\ Pool \ {a} \subseteq Nat
  <2>1. PICK a, b \in Pool : a # b
    BY ConstantsAssumption
  <2>2. Pool \subseteq Nat
    BY ConstantsAssumption
  <2>3. \A c : a \in Pool \ {c} \/ b \in Pool \ {c}
    BY <2>1
  <2> QED BY <2>1, <2>2, <2>3
<1>2. Min(Pool) \in Pool
  BY <1>1, MinOfNumbers
<1>3. Min(Pool \ {Min(Pool)}) \in Pool \ {Min(Pool)}
  BY <1>1, MinOfNumbers
<1> QED BY <1>2, <1>3 DEF Generation

(* What a generation writes is a node.                                     *)
LEMMA NodeOfNodes ==
  ASSUME NEW g \in 1..MaxGeneration, NEW h \in [root : Pool, fs : Pool], NEW a
  PROVE  NodeOf(g, h, a) \in Nodes
BY DEF NodeOf, Nodes

(* The invariant of the file system holds at first,                        *)
LEMMA FsInit == Init => FsInv
<1> DEFINE first == Generation(Min(Pool), Min(Pool \ {Min(Pool)}))
           node(a) == IF a \in DOMAIN Fixed THEN Fixed[a]
                      ELSE IF a \in {first.root, first.fs} THEN NodeOf(1, first, a)
                      ELSE Garbage
<1> SUFFICES ASSUME Init PROVE FsInv
  OBVIOUS
<1>1. /\ disk = [p \in AllPlaces |-> node(CHOOSE a \in Addresses : p \in Copies(a))]
      /\ supers = [d \in Devices |-> [k \in Places[d] |-> Superblock(1, <<first>>)]]
      /\ history = <<first>> /\ commit = Nothing /\ damage = 0
  BY Zenon DEF Init, Addresses, AllPlaces
<1>2. first \in [root : Pool, fs : Pool] /\ first.root # first.fs
  BY FirstGeneration
<1>3. 1 \in 1..MaxGeneration /\ MaxDamage \in Nat /\ Pool \cap DOMAIN Fixed = {}
  BY ConstantsAssumption
<1> HIDE DEF first
<1>4. Newest = 1 /\ history[1] = first /\ history \in Seq([root : Pool, fs : Pool])
  BY <1>1, <1>2 DEF Newest
<1>5. HistoryOK
  BY <1>1, <1>2, <1>3, <1>4 DEF HistoryOK
<1>6. CommitOK
  BY <1>1 DEF CommitOK, Nothing
<1>7. SupersOK
  <2>1. \A d \in Devices : \A k \in Places[d] : SuperGeneration(d, k) = 1
    BY <1>1, <1>4 DEF SuperGeneration, Nothing
  <2>2. \A d \in Devices : DOMAIN supers[d] = Places[d] /\ \A k \in Places[d] : supers[d][k] = Superblock(1, history)
    BY <1>1
  <2>3. DOMAIN supers = Devices
    BY <1>1
  <2> QED BY <2>1, <2>2, <2>3 DEF SupersOK
<1>8. DiskOK
  <2>1. \A a \in Addresses : \A p \in Copies(a) :
          (CHOOSE b \in Addresses : p \in Copies(b)) = a /\ p \in AllPlaces
    BY OnePlace DEF AllPlaces
  <2>2. \A a \in Addresses : disk[Physical(a)] = node(a) /\ \A p \in Copies(a) : disk[p] = node(a)
    <3> HIDE DEF node
    <3> QED BY <1>1, <2>1, PhysicalIsCopy
  <2>3. \A a \in Addresses : node(a) \in Nodes
    <3> TAKE a \in Addresses
    <3>1. NodeOf(1, first, a) \in Nodes
      BY <1>2, <1>3, NodeOfNodes
    <3>2. Garbage \in Nodes /\ (a \in DOMAIN Fixed => Fixed[a] \in Nodes)
      BY DEF Nodes, Range
    <3> QED BY <3>1, <3>2
  <2>4. DOMAIN disk = AllPlaces
    BY <1>1
  <2>5. \A p \in DOMAIN disk : disk[p] \in Nodes
    <3> HIDE DEF node
    <3> QED BY <2>2, <2>3, <2>4 DEF AllPlaces
  <2>6. \A a \in DOMAIN Fixed : AsWritten(a, Fixed[a])
    BY <2>2, FixedAddresses DEF AsWritten
  <2>7. \A a \in {first.root, first.fs} : AsWritten(a, NodeOf(1, first, a))
    <3> TAKE a \in {first.root, first.fs}
    <3>1. a \in Pool
      BY <1>2
    <3>2. a \in Addresses /\ a \notin DOMAIN Fixed
      BY <1>3, <3>1, FixedAddresses
    <3> QED BY <2>2, <3>2 DEF AsWritten
  <2> QED BY <1>1, <1>4, <2>4, <2>5, <2>6, <2>7 DEF DiskOK, Nothing
<1> QED BY <1>5, <1>6, <1>7, <1>8 DEF FsInv

(* What FsInv says of the generations.                                     *)
LEMMA HistoryIs ==
  ASSUME FsInv
  PROVE  /\ Newest \in Nat \ {0} /\ Newest \in 1..Newest /\ Newest <= MaxGeneration
         /\ \A g \in 1..Newest :
              /\ g \in 1..MaxGeneration /\ history[g] \in [root : Pool, fs : Pool]
              /\ history[g].root \in Pool /\ history[g].fs \in Pool /\ history[g].root # history[g].fs
         /\ damage \in Nat
<1>1. Newest \in 1..MaxGeneration /\ MaxGeneration \in Nat /\ MaxDamage \in Nat /\ damage \in 0..MaxDamage
  BY ConstantsAssumption DEF FsInv, HistoryOK
<1>2. ASSUME NEW g \in 1..Newest PROVE g \in 1..MaxGeneration /\ history[g] \in [root : Pool, fs : Pool]
  <2>1. history[g] \in [root : Pool, fs : Pool]
    BY ElementOfSeq DEF FsInv, HistoryOK, Newest
  <2> QED BY <1>1, <2>1
<1>3. \A g \in 1..Newest : history[g].root # history[g].fs
  BY DEF FsInv, HistoryOK
<1> QED BY <1>1, <1>2, <1>3

(* A node in the next state.                                               *)
Held(a, node) ==
  disk'[Physical(a)] = node \/ (damage' > 0 /\ disk'[Physical(a)] \in {Garbage, None})

AllHeld(g, h) == \A a \in {h[g].root, h[g].fs} : Held(a, NodeOf(g, h[g], a))

(* What a step leaves on the disk is enough for DiskOK, stated of rigid    *)
(* terms.                                                                  *)
LEMMA DiskNext ==
  ASSUME NEW n, Newest' = n, NEW h, history' = h,
         DOMAIN disk' = AllPlaces, \A p \in DOMAIN disk' : disk'[p] \in Nodes,
         \A a \in DOMAIN Fixed : Held(a, Fixed[a]),
         \A a \in {h[n].root, h[n].fs} \ commit'.nodes : Held(a, NodeOf(n, h[n], a)),
         commit'.supers # {} => AllHeld(n - 1, h)
  PROVE  DiskOK'
<1>1. \A a, node : Held(a, node) <=> AsWritten(a, node)'
  BY DEF Held, AsWritten
<1>2. ASSUME NEW g PROVE AllHeld(g, h) => Written(g)'
  BY DEF AllHeld, Held, Written, AsWritten
<1>3. commit'.supers # {} => Written(Newest - 1)'
  BY DEF AllHeld, Held, Written, AsWritten
<1>4. \A a \in DOMAIN Fixed : AsWritten(a, Fixed[a])'
  BY DEF Held, AsWritten
<1>5. \A a \in {history'[Newest'].root, history'[Newest'].fs} \ commit'.nodes :
        AsWritten(a, NodeOf(Newest, history[Newest], a))'
  BY DEF Held, AsWritten
<1> QED BY <1>3, <1>4, <1>5 DEF DiskOK

(* it is kept by the start of a commit,                                    *)
LEMMA FsBegin == FsInv /\ BeginCommit => FsInv'
<1> SUFFICES ASSUME FsInv, BeginCommit PROVE FsInv'
  OBVIOUS
<1>1. PICK root, fs \in Pool \ {Last(history).root, Last(history).fs} :
        /\ root # fs
        /\ history' = Append(history, Generation(root, fs))
        /\ commit' = [nodes |-> {root, fs}, supers |-> AllSupers]
  BY DEF BeginCommit
<1>2. /\ UNCHANGED <<disk, supers, damage>> /\ commit = Nothing /\ damage = 0
      /\ Len(history) < MaxGeneration
  BY DEF BeginCommit
<1> DEFINE n == Newest
           H == [root : Pool, fs : Pool]
           new == Generation(root, fs)
<1>3. /\ n \in Nat \ {0} /\ n \in 1..n /\ n + 1 \in 1..MaxGeneration
      /\ \A g \in 1..n : history[g] \in H /\ history[g].root # history[g].fs
  <2>1. n \in Nat \ {0} /\ n < MaxGeneration /\ MaxGeneration \in Nat
    BY <1>2, HistoryIs, ConstantsAssumption DEF Newest
  <2>2. n \in 1..n /\ n + 1 \in 1..MaxGeneration
    <3> HIDE DEF n
    <3> QED BY <2>1
  <2> QED BY <2>1, <2>2, HistoryIs
<1>4. new \in H /\ new.root = root /\ new.fs = fs
  BY DEF Generation
<1> HIDE DEF new
<1>5. /\ history' \in Seq(H) /\ Newest' = n + 1
      /\ \A g \in 1..n : history'[g] = history[g]
      /\ history'[n + 1] = new
  <2>1. history \in Seq(H) /\ n = Len(history)
    BY DEF FsInv, HistoryOK, Newest
  <2> HIDE DEF n, H
  <2>2. /\ Append(history, new) \in Seq(H) /\ Len(Append(history, new)) = Len(history) + 1
        /\ \A g \in 1..Len(history) : Append(history, new)[g] = history[g]
        /\ Append(history, new)[Len(history) + 1] = new
    BY <1>4, <2>1, AppendProperties
  <2>3. history' = Append(history, new)
    BY <1>1 DEF new
  <2> QED BY <2>1, <2>2, <2>3 DEF Newest
<1>6. Last(history) = history[n]
  BY DEF Last, Newest
<1> HIDE DEF n
<1>7. \A g \in 1..Newest' : g = n + 1 \/ g \in 1..n
  BY <1>3, <1>5
<1>8. HistoryOK'
  <2>1. \A g \in 1..Newest' : history'[g].root # history'[g].fs
    BY <1>1, <1>3, <1>4, <1>5, <1>7
  <2>2. \A g \in 2..Newest' : {history'[g].root, history'[g].fs} \cap {history'[g - 1].root, history'[g - 1].fs} = {}
    <3> TAKE g \in 2..Newest'
    <3>1. (g = n + 1 /\ g - 1 = n) \/ (g \in 2..n /\ g - 1 \in 1..n /\ g \in 1..n)
      BY <1>3, <1>5
    <3>2. CASE g = n + 1 /\ g - 1 = n
      BY <1>1, <1>3, <1>4, <1>5, <1>6, <3>2
    <3>3. CASE g \in 2..n /\ g - 1 \in 1..n /\ g \in 1..n
      <4>1. {history[g].root, history[g].fs} \cap {history[g - 1].root, history[g - 1].fs} = {}
        BY <3>3 DEF FsInv, HistoryOK, n
      <4> QED BY <1>5, <3>3, <4>1
    <3> QED BY <3>1, <3>2, <3>3
  <2>3. damage' \in 0..MaxDamage
    BY <1>2 DEF FsInv, HistoryOK
  <2> HIDE DEF H
  <2>4. history' \in Seq(H) /\ Newest' \in 1..MaxGeneration
    BY <1>3, <1>5
  <2> QED BY <2>1, <2>2, <2>3, <2>4 DEF HistoryOK, H
<1>9. CommitOK'
  <2>1. commit' \in [nodes : SUBSET {history'[Newest'].root, history'[Newest'].fs}, supers : SUBSET AllSupers]
    BY <1>1, <1>4, <1>5
  <2>2. Newest' >= 2
    BY <1>3, <1>5
  <2> QED BY <1>1, <2>1, <2>2 DEF CommitOK
<1>10. SupersOK'
  <2>1. \A d \in Devices : \A k \in Places[d] : SuperGeneration(d, k) = n /\ SuperGeneration(d, k)' = n
    <3> TAKE d \in Devices
    <3> TAKE k \in Places[d]
    <3>1. <<d, k>> \in AllSupers
      BY DEF AllSupers
    <3>2. Newest' - 1 = n
      BY <1>3, <1>5
    <3> QED BY <1>1, <1>2, <3>1, <3>2 DEF SuperGeneration, Nothing, n
  <2>2. Superblock(n, history') = Superblock(n, history)
    BY <1>3, <1>5, SuperblockSame
  <2>3. SupersOK
    BY DEF FsInv
  <2> QED BY <1>2, <2>1, <2>2, <2>3 DEF SupersOK
<1>11. DiskOK'
  <2>1. DiskOK
    BY DEF FsInv
  <2>2. \A a, node : AsWritten(a, node) => Held(a, node)
    BY <1>2 DEF AsWritten, Held
  <2>3. {history'[Newest'].root, history'[Newest'].fs} \ commit'.nodes = {}
    BY <1>1, <1>4, <1>5
  <2>4. \A a \in {history[n].root, history[n].fs} : AsWritten(a, NodeOf(n, history[n], a))
    BY <1>2, <2>1 DEF DiskOK, Nothing, n
  <2>5. AllHeld(n, history')
    BY <1>3, <1>5, <2>2, <2>4 DEF AllHeld
  <2>6. Newest' - 1 = n
    BY <1>3, <1>5
  <2>7. DOMAIN disk' = AllPlaces /\ \A p \in DOMAIN disk' : disk'[p] \in Nodes
    BY <1>2, <2>1 DEF DiskOK
  <2>8. \A a \in DOMAIN Fixed : Held(a, Fixed[a])
    BY <2>1, <2>2 DEF DiskOK
  <2>9. PICK m, h : m = Newest' /\ h = history'
    OBVIOUS
  <2>10. {h[m].root, h[m].fs} \ commit'.nodes = {} /\ AllHeld(m - 1, h)
    BY <2>3, <2>5, <2>6, <2>9
  <2> QED BY <2>7, <2>8, <2>9, <2>10, DiskNext
<1> QED BY <1>8, <1>9, <1>10, <1>11 DEF FsInv

(* by each node that the commit writes,                                    *)
LEMMA FsWriteNode ==
  ASSUME FsInv, NEW a \in Pool, WriteNode(a)
  PROVE  FsInv'
<1> DEFINE n == Newest
           node == NodeOf(n, history[n], a)
<1>1. /\ a \in commit.nodes /\ damage = 0
      /\ disk' = [p \in DOMAIN disk |->
                    IF p \in Copies(a) THEN NodeOf(Len(history), Last(history), a) ELSE disk[p]]
      /\ commit' = [commit EXCEPT !.nodes = @ \ {a}]
      /\ UNCHANGED <<supers, history, damage>>
  BY DEF WriteNode
<1>2. /\ commit \in [nodes : SUBSET {history[n].root, history[n].fs}, supers : SUBSET AllSupers]
      /\ commit.supers = AllSupers /\ n >= 2
  BY <1>1 DEF FsInv, CommitOK, Nothing
<1>3. /\ disk' = [p \in DOMAIN disk |-> IF p \in Copies(a) THEN node ELSE disk[p]]
      /\ Newest' = n
  BY <1>1 DEF Last, Newest
<1>4. n \in Nat \ {0} /\ n \in 1..n /\ n \in 1..MaxGeneration /\ history[n] \in [root : Pool, fs : Pool]
  BY HistoryIs
<1> HIDE DEF n
<1>5. a \in Addresses /\ Physical(a) \in DOMAIN disk /\ DOMAIN disk = AllPlaces
  BY FixedAddresses, PhysicalPlaces DEF FsInv, DiskOK
<1>6. disk'[Physical(a)] = node
  BY <1>3, <1>5, PhysicalIsCopy
<1>7. \A b \in Addresses : b # a => disk'[Physical(b)] = disk[Physical(b)]
  <2> HIDE DEF node
  <2> TAKE b \in Addresses
  <2> HAVE b # a
  <2>1. Physical(b) \notin Copies(a) /\ Physical(b) \in DOMAIN disk
    BY <1>5, OnePlace, PhysicalIsCopy, PhysicalPlaces
  <2> QED BY <1>3, <2>1
<1>8. \A b \in Addresses \ {a} : \A m : AsWritten(b, m) => Held(b, m)
  BY <1>1, <1>7 DEF AsWritten, Held
<1>9. HistoryOK'
  BY <1>1 DEF FsInv, HistoryOK, Newest
<1>10. CommitOK'
  <2>1. commit'.nodes = commit.nodes \ {a} /\ commit'.supers = commit.supers
    BY <1>1, <1>2
  <2>2. commit' \in [nodes : SUBSET {history[n].root, history[n].fs}, supers : SUBSET AllSupers]
    BY <1>1, <1>2
  <2> QED BY <1>1, <1>2, <1>3, <2>1, <2>2 DEF CommitOK
<1>11. SupersOK'
  <2>1. commit'.supers = commit.supers
    BY <1>1, <1>2
  <2>2. \A d, k : SuperGeneration(d, k)' = SuperGeneration(d, k)
    BY <1>3, <2>1 DEF SuperGeneration, n
  <2> QED BY <1>1, <2>2 DEF FsInv, SupersOK
<1>12. DiskOK'
  <2>1. DiskOK
    BY DEF FsInv
  <2>2. DOMAIN disk' = AllPlaces
    BY <1>3, <1>5
  <2>3. \A p \in DOMAIN disk' : disk'[p] \in Nodes
    <3>1. node \in Nodes
      BY <1>4, NodeOfNodes
    <3> HIDE DEF node
    <3> QED BY <1>3, <2>1, <3>1 DEF DiskOK
  <2>4. \A b \in DOMAIN Fixed : Held(b, Fixed[b])
    <3> TAKE b \in DOMAIN Fixed
    <3>1. b \in Addresses \ {a}
      BY FixedAddresses, ConstantsAssumption
    <3> QED BY <1>8, <2>1, <3>1 DEF DiskOK
  <2>5. ASSUME NEW b \in {history[n].root, history[n].fs} \ commit'.nodes
        PROVE  Held(b, NodeOf(n, history[n], b))
    <3>1. b \in Addresses
      BY <1>4, FixedAddresses
    <3>2. CASE b = a
      BY <1>6, <3>2 DEF Held, node
    <3>3. CASE b # a
      <4>1. b \in {history[n].root, history[n].fs} \ commit.nodes
        BY <1>1, <1>2, <3>3
      <4>2. AsWritten(b, NodeOf(n, history[n], b))
        BY <2>1, <4>1 DEF DiskOK, n
      <4> QED BY <1>1, <1>8, <3>1, <3>3, <4>2
    <3> QED BY <3>2, <3>3
  <2>6. ASSUME commit'.supers # {} PROVE AllHeld(n - 1, history)
    <3>1. commit.supers # {}
      BY <1>1, <1>2, <2>6
    <3>2. Written(n - 1)
      BY <2>1, <3>1 DEF DiskOK, n
    <3>3. n - 1 \in 1..n /\ n \in 2..n
      BY <1>2, <1>4
    <3>4. history[n - 1].root \in Pool /\ history[n - 1].fs \in Pool
      BY <3>3, HistoryIs DEF n
    <3>5. {history[n].root, history[n].fs} \cap {history[n - 1].root, history[n - 1].fs} = {}
      BY <3>3 DEF FsInv, HistoryOK, n
    <3>6. a \notin {history[n - 1].root, history[n - 1].fs}
      BY <1>1, <1>2, <3>5
    <3>7. \A b \in {history[n - 1].root, history[n - 1].fs} : b \in Addresses \ {a}
      BY <3>4, <3>6, FixedAddresses
    <3> QED BY <1>8, <3>2, <3>7 DEF Written, AllHeld
  <2>7. PICK m, h : m = Newest' /\ h = history'
    OBVIOUS
  <2>8. m = n /\ h = history
    BY <1>1, <1>3, <2>7
  <2> QED BY <2>2, <2>3, <2>4, <2>5, <2>6, <2>7, <2>8, DiskNext
<1> QED BY <1>9, <1>10, <1>11, <1>12 DEF FsInv

(* Nodes that are written again or lost.                                   *)
LEMMA DiskLost ==
  ASSUME FsInv, history' = history, commit' = commit,
         DOMAIN disk' = DOMAIN disk, \A p \in DOMAIN disk' : disk'[p] \in Nodes,
         \A a, node : AsWritten(a, node) => Held(a, node)
  PROVE  DiskOK'
<1>1. DiskOK
  BY DEF FsInv
<1>2. PICK m, h : m = Newest' /\ h = history'
  OBVIOUS
<1>3. m = Newest /\ h = history
  BY <1>2 DEF Newest
<1>4. \A a \in DOMAIN Fixed : Held(a, Fixed[a])
  BY <1>1 DEF DiskOK
<1>5. \A a \in {h[m].root, h[m].fs} \ commit'.nodes : Held(a, NodeOf(m, h[m], a))
  BY <1>1, <1>3 DEF DiskOK
<1>6. commit'.supers # {} => AllHeld(m - 1, h)
  BY <1>1, <1>3 DEF DiskOK, Written, AllHeld
<1>7. DOMAIN disk' = AllPlaces
  BY <1>1 DEF DiskOK
<1> QED BY <1>2, <1>4, <1>5, <1>6, <1>7, DiskNext

(* by each superblock,                                                     *)
LEMMA FsWriteSuper ==
  ASSUME FsInv, NEW d \in Devices, NEW k \in Places[d], WriteSuper(d, k)
  PROVE  FsInv'
<1> DEFINE n == Newest
<1>1. /\ commit.nodes = {} /\ <<d, k>> \in commit.supers
      /\ supers' = [supers EXCEPT ![d][k] = Superblock(Len(history), history)]
      /\ commit' = [commit EXCEPT !.supers = @ \ {<<d, k>>}]
      /\ UNCHANGED <<disk, history, damage>>
  BY DEF WriteSuper
<1>2. /\ commit \in [nodes : SUBSET {history[n].root, history[n].fs}, supers : SUBSET AllSupers]
      /\ n >= 2
  BY <1>1 DEF FsInv, CommitOK, Nothing
<1>3. Newest' = n /\ Len(history) = n
  BY <1>1 DEF Newest
<1> HIDE DEF n
<1>4. commit'.nodes = {} /\ commit'.supers = commit.supers \ {<<d, k>>}
  BY <1>1, <1>2
<1>5. HistoryOK'
  BY <1>1 DEF FsInv, HistoryOK, Newest
<1>6. CommitOK'
  <2>1. commit' \in [nodes : SUBSET {history[n].root, history[n].fs}, supers : SUBSET AllSupers]
    BY <1>1, <1>2
  <2> QED BY <1>1, <1>2, <1>3, <1>4, <2>1 DEF CommitOK
<1>7. SupersOK'
  <2>1. SupersOK
    BY DEF FsInv
  <2>2. DOMAIN supers = Devices /\ \A e \in Devices : DOMAIN supers[e] = Places[e]
    BY <2>1 DEF SupersOK
  <2>3. DOMAIN supers' = Devices /\ \A e \in Devices : DOMAIN supers'[e] = Places[e]
    BY <1>1, <2>2
  <2>4. supers'[d][k] = Superblock(n, history) /\ SuperGeneration(d, k)' = n
    <3>1. supers'[d][k] = Superblock(n, history)
      BY <1>1, <1>3, <2>2
    <3> QED BY <1>3, <1>4, <3>1 DEF SuperGeneration
  <2>5. \A e \in Devices : \A j \in Places[e] : <<e, j>> # <<d, k>> =>
          supers'[e][j] = supers[e][j] /\ SuperGeneration(e, j)' = SuperGeneration(e, j)
    <3> TAKE e \in Devices
    <3> TAKE j \in Places[e]
    <3> HAVE <<e, j>> # <<d, k>>
    <3>1. e # d \/ j # k
      OBVIOUS
    <3>2. supers'[e][j] = supers[e][j]
      BY <1>1, <2>2, <3>1
    <3>3. SuperGeneration(e, j)' = SuperGeneration(e, j)
      BY <1>3, <1>4, <3>1 DEF SuperGeneration, n
    <3> QED BY <3>2, <3>3
  <2>6. \A e \in Devices : \A j \in Places[e] :
          \/ supers'[e][j] = Superblock(SuperGeneration(e, j)', history')
          \/ damage' > 0 /\ supers'[e][j] = None
    <3> TAKE e \in Devices
    <3> TAKE j \in Places[e]
    <3>1. CASE <<e, j>> = <<d, k>>
      BY <1>1, <2>4, <3>1
    <3>2. CASE <<e, j>> # <<d, k>>
      BY <1>1, <2>1, <2>5, <3>2 DEF SupersOK
    <3> QED BY <3>1, <3>2
  <2> QED BY <2>3, <2>6 DEF SupersOK
<1>8. DiskOK'
  <2>1. DiskOK
    BY DEF FsInv
  <2>2. PICK m, h : m = Newest' /\ h = history'
    OBVIOUS
  <2>3. m = n /\ h = history
    BY <1>1, <1>3, <2>2
  <2>4. \A a, node : AsWritten(a, node) => Held(a, node)
    BY <1>1 DEF AsWritten, Held
  <2>5. \A a \in DOMAIN Fixed : Held(a, Fixed[a])
    BY <2>1, <2>4 DEF DiskOK
  <2>6. \A a \in {h[m].root, h[m].fs} \ commit'.nodes : Held(a, NodeOf(m, h[m], a))
    BY <1>1, <1>4, <2>1, <2>3, <2>4 DEF DiskOK, n
  <2>7. commit'.supers # {} => AllHeld(m - 1, h)
    BY <1>1, <2>1, <2>3, <2>4 DEF DiskOK, Written, AllHeld, n
  <2>8. DOMAIN disk' = AllPlaces /\ \A p \in DOMAIN disk' : disk'[p] \in Nodes
    BY <1>1, <2>1 DEF DiskOK
  <2> QED BY <2>2, <2>5, <2>6, <2>7, <2>8, DiskNext
<1> QED BY <1>5, <1>6, <1>7, <1>8 DEF FsInv

(* by the loss of a node                                                   *)
LEMMA FsLoseNode ==
  ASSUME FsInv, NEW p \in DOMAIN disk, LoseNode(p)
  PROVE  FsInv'
<1>1. PICK lost \in {Garbage, None} : disk' = [disk EXCEPT ![p] = lost]
  BY DEF LoseNode
<1>2. damage < MaxDamage /\ damage' = damage + 1 /\ UNCHANGED <<supers, history, commit>>
  BY DEF LoseNode
<1>3. damage \in 0..MaxDamage /\ MaxDamage \in Nat
  BY ConstantsAssumption DEF FsInv, HistoryOK
<1>4. damage' \in 0..MaxDamage /\ damage' > 0
  BY <1>2, <1>3
<1>5. HistoryOK'
  BY <1>2, <1>4 DEF FsInv, HistoryOK, Newest
<1>6. CommitOK'
  BY <1>2 DEF FsInv, CommitOK, Newest
<1>7. SupersOK'
  BY <1>2, <1>4 DEF FsInv, SupersOK, SuperGeneration, Newest
<1>8. DiskOK'
  <2>1. DOMAIN disk' = DOMAIN disk
    BY <1>1
  <2>2. \A q \in DOMAIN disk' : disk'[q] \in Nodes
    BY <1>1 DEF FsInv, DiskOK, Nodes
  <2>3. \A a, node : AsWritten(a, node) => Held(a, node)
    <3> TAKE a, node
    <3> HAVE AsWritten(a, node)
    <3>1. CASE Physical(a) = p
      BY <1>1, <1>4, <3>1 DEF Held
    <3>2. CASE Physical(a) # p
      BY <1>1, <1>4, <3>2 DEF Held, AsWritten
    <3> QED BY <3>1, <3>2
  <2> QED BY <1>2, <2>1, <2>2, <2>3, DiskLost
<1> QED BY <1>5, <1>6, <1>7, <1>8 DEF FsInv

(* and of a superblock,                                                    *)
LEMMA FsLoseSuper ==
  ASSUME FsInv, NEW d \in Devices, NEW k \in Places[d], LoseSuper(d, k)
  PROVE  FsInv'
<1>1. /\ damage < MaxDamage /\ damage' = damage + 1 /\ UNCHANGED <<disk, history, commit>>
      /\ supers' = [supers EXCEPT ![d][k] = None]
  BY DEF LoseSuper
<1>2. damage \in 0..MaxDamage /\ MaxDamage \in Nat
  BY ConstantsAssumption DEF FsInv, HistoryOK
<1>3. damage' \in 0..MaxDamage /\ damage' > 0
  BY <1>1, <1>2
<1>4. HistoryOK'
  BY <1>1, <1>3 DEF FsInv, HistoryOK, Newest
<1>5. CommitOK'
  BY <1>1 DEF FsInv, CommitOK, Newest
<1>6. SupersOK'
  <2>1. SupersOK
    BY DEF FsInv
  <2>2. DOMAIN supers = Devices /\ \A e \in Devices : DOMAIN supers[e] = Places[e]
    BY <2>1 DEF SupersOK
  <2>3. DOMAIN supers' = Devices /\ \A e \in Devices : DOMAIN supers'[e] = Places[e]
    BY <1>1, <2>2
  <2>4. \A e, j : SuperGeneration(e, j)' = SuperGeneration(e, j)
    BY <1>1 DEF SuperGeneration, Newest
  <2>5. \A e \in Devices : \A j \in Places[e] :
          \/ supers'[e][j] = Superblock(SuperGeneration(e, j)', history')
          \/ damage' > 0 /\ supers'[e][j] = None
    <3> TAKE e \in Devices
    <3> TAKE j \in Places[e]
    <3>1. CASE e = d /\ j = k
      BY <1>1, <1>3, <2>2, <3>1
    <3>2. CASE ~(e = d /\ j = k)
      <4>1. supers'[e][j] = supers[e][j]
        BY <1>1, <2>2, <3>2
      <4> QED BY <1>1, <1>3, <2>1, <2>4, <4>1 DEF SupersOK
    <3> QED BY <3>1, <3>2
  <2> QED BY <2>3, <2>5 DEF SupersOK
<1>7. DiskOK'
  <2>1. DOMAIN disk' = DOMAIN disk /\ \A p \in DOMAIN disk' : disk'[p] \in Nodes
    BY <1>1 DEF FsInv, DiskOK
  <2>2. \A a, node : AsWritten(a, node) => Held(a, node)
    BY <1>1, <1>3 DEF Held, AsWritten
  <2> QED BY <1>1, <2>1, <2>2, DiskLost
<1> QED BY <1>4, <1>5, <1>6, <1>7 DEF FsInv

(* by all that leaves the devices alone,                                   *)
LEMMA FsSame == FsInv /\ UNCHANGED fsVars => FsInv'
<1> SUFFICES ASSUME FsInv, UNCHANGED fsVars PROVE FsInv'
  OBVIOUS
<1>1. UNCHANGED <<disk, supers, history, commit, damage>>
  BY DEF fsVars
<1>2. HistoryOK'
  BY <1>1 DEF FsInv, HistoryOK, Newest
<1>3. CommitOK'
  BY <1>1 DEF FsInv, CommitOK, Newest
<1>4. SupersOK'
  BY <1>1 DEF FsInv, SupersOK, SuperGeneration, Newest
<1>5. DiskOK'
  <2>1. \A a, node : AsWritten(a, node) => Held(a, node)
    BY <1>1 DEF Held, AsWritten
  <2>2. DOMAIN disk' = DOMAIN disk /\ \A p \in DOMAIN disk' : disk'[p] \in Nodes
    BY <1>1 DEF FsInv, DiskOK
  <2> QED BY <1>1, <2>1, <2>2, DiskLost
<1> QED BY <1>2, <1>3, <1>4, <1>5 DEF FsInv

(* The program changes nothing of the file system.                         *)
LEMMA ProgramReads ==
  ASSUME \/ \E list \in Given : Open(list)
         \/ Program
         \/ \E of \in subvolume_root_backrefs(root_tree) : SubvolumePath(of)
         \/ Done \/ UNCHANGED vars
  PROVE  UNCHANGED fsVars
BY Zenon DEF Open, Program, AddDevice, EndDevices, ReadChunkNode, ChunkTreeRead, ReadTreeNode, TreeRead,
  Climb, SubvolumePath, Done, vars

(* and so by every step.                                                   *)
LEMMA FsStep == FsInv /\ [Next]_vars => FsInv'
<1> SUFFICES ASSUME FsInv, [Next]_vars PROVE FsInv'
  OBVIOUS
<1>1. CASE FileSystem
  <2>1. CASE BeginCommit
    BY <2>1, FsBegin
  <2>2. CASE \E a \in Pool : WriteNode(a)
    BY <2>2, FsWriteNode
  <2>3. CASE \E d \in Devices : \E k \in Places[d] : WriteSuper(d, k) \/ LoseSuper(d, k)
    BY <2>3, FsWriteSuper, FsLoseSuper
  <2>4. CASE \E p \in DOMAIN disk : LoseNode(p)
    BY <2>4, FsLoseNode
  <2> QED BY <1>1, <2>1, <2>2, <2>3, <2>4 DEF FileSystem
<1>2. CASE ~FileSystem
  <2>1. UNCHANGED fsVars
    BY <1>2, ProgramReads DEF Next
  <2> QED BY <2>1, FsSame
<1> QED BY <1>1, <1>2

-----------------------------------------------------------------------------
(* What the superblocks say.                                               *)

(* A superblock that is there is that of a generation.                     *)
LEMMA SuperIs ==
  ASSUME FsInv, NEW d \in Devices, NEW k \in Places[d], supers[d][k] # None
  PROVE  /\ SuperGeneration(d, k) \in 1..Newest /\ SuperGeneration(d, k) \in Newest - 1..Newest
         /\ supers[d][k] = Superblock(SuperGeneration(d, k), history)
         /\ supers[d][k].generation = SuperGeneration(d, k)
<1>1. Newest \in Nat \ {0}
  BY HistoryIs
<1>2. <<d, k>> \in commit.supers => Newest >= 2
  BY DEF FsInv, CommitOK, Nothing
<1>3. SuperGeneration(d, k) \in 1..Newest /\ SuperGeneration(d, k) \in Newest - 1..Newest
  BY <1>1, <1>2 DEF SuperGeneration
<1>4. supers[d][k] = Superblock(SuperGeneration(d, k), history)
  BY DEF FsInv, SupersOK
<1>5. supers[d][k].generation = SuperGeneration(d, k)
  BY <1>4 DEF Superblock
<1> QED BY <1>3, <1>4, <1>5

(* The nodes that a superblock leads to are there, or they are lost.       *)
LEMMA SuperLeads ==
  ASSUME FsInv, NEW d \in Devices, NEW k \in Places[d], supers[d][k] # None
  PROVE  Written(SuperGeneration(d, k))
<1>1. CASE <<d, k>> \in commit.supers
  BY <1>1 DEF FsInv, DiskOK, SuperGeneration
<1>2. CASE <<d, k>> \notin commit.supers
  <2>1. <<d, k>> \in AllSupers
    BY DEF AllSupers
  <2>2. commit.nodes = {}
    BY <1>2, <2>1 DEF FsInv, CommitOK
  <2> QED BY <1>2, <2>2 DEF FsInv, DiskOK, SuperGeneration, Written
<1> QED BY <1>1, <1>2

(* The superblock that is used, and the generations that it names.         *)
Chosen == SuperblockOf(superblock).generation

(* The superblock that is used: of the last generation or the one before   *)
(* it.                                                                     *)
LEMMA ChosenIs ==
  ASSUME FsInv, DevicesOK, ChosenOK, superblock # None
  PROVE  /\ superblock \in Devices /\ devices[superblock] \in Places[superblock]
         /\ Chosen \in 1..Newest /\ Chosen \in Newest - 1..Newest /\ Chosen \in Nat
         /\ SuperblockOf(superblock) = Superblock(Chosen, history)
         /\ Written(Chosen) /\ Attempted(0) = Chosen
         /\ commit = Nothing => Chosen = Newest
<1> DEFINE d == superblock
           k == devices[d]
<1>1. d \in DOMAIN devices /\ k \in Places[d] /\ supers[d][k] # None
  BY DEF ChosenOK, DevicesOK
<1>2. DOMAIN devices \subseteq Devices
  <2>1. \A n \in 1..Added : n \in 1..Len(given)
    BY FS_CardinalityType, LenProperties DEF DevicesOK, Added
  <2>2. \A n \in 1..Added : given[n] \in Devices
    BY <2>1, ElementOfSeq DEF DevicesOK
  <2> QED BY <2>2 DEF DevicesOK
<1>3. d \in Devices
  BY <1>1, <1>2
<1>4. SuperblockOf(d) = supers[d][k]
  BY DEF SuperblockOf
<1> HIDE DEF d, k
<1>5. /\ SuperGeneration(d, k) \in 1..Newest /\ SuperGeneration(d, k) \in Newest - 1..Newest
      /\ supers[d][k] = Superblock(SuperGeneration(d, k), history)
      /\ supers[d][k].generation = SuperGeneration(d, k)
  BY <1>1, <1>3, SuperIs
<1>6. Written(SuperGeneration(d, k))
  BY <1>1, <1>3, SuperLeads
<1>7. Chosen = SuperGeneration(d, k)
  BY <1>4, <1>5 DEF Chosen, d
<1>8. Chosen \in Nat
  BY <1>5, <1>7, HistoryIs
<1>9. Attempted(0) = Chosen
  BY Zenon DEF Attempted, Chosen
<1>10. commit = Nothing => Chosen = Newest
  BY <1>7 DEF SuperGeneration, Nothing
<1> QED BY <1>1, <1>3, <1>4, <1>5, <1>6, <1>7, <1>8, <1>9, <1>10 DEF d, k

(* The chunk tree of the superblock that is used.                          *)
LEMMA ChunkRootIs ==
  ASSUME FsInv, DevicesOK, ChosenOK, superblock # None, NEW root, root = ChunkRoot
  PROVE  /\ FixedTree(root) /\ FixedNodes(root) \subseteq DOMAIN Fixed /\ root \in FixedNodes(root)
         /\ root \in Nat /\ root \in Addresses
         /\ Chunks(FixedItems(root)) = AllChunks
         /\ \A a \in FixedNodes(root) :
              system_logical_to_physical(SuperblockOf(superblock), a) = Physical(a)
<1> DEFINE sb == SuperblockOf(superblock)
<1>1. PICK g \in 1..MaxGeneration : g = Chosen
  BY ChosenIs, HistoryIs
<1>2. sb = Superblock(g, history)
  BY <1>1, ChosenIs
<1>3. root = ChunkRoots[g]
  BY <1>2 DEF ChunkRoot, Superblock
<1>4. sb.system_chunks = SystemEntries \o Unused /\ sb.system_chunks_size = Len(SystemEntries)
  BY <1>2 DEF Superblock
<1>5. FixedTree(root) /\ FixedNodes(root) \subseteq DOMAIN Fixed /\ root \in FixedNodes(root)
  BY <1>3, FixedAssumption, FixedAddresses
<1>6. root \in Nat /\ root \in Addresses
  BY <1>5, FixedAssumption, FixedAddresses
<1>7. Chunks(FixedItems(root)) = AllChunks
  BY <1>3, ChunkTreeDecode
<1> HIDE DEF sb
<1>8. \A a \in FixedNodes(root) : system_logical_to_physical(sb, a) = Physical(a)
  BY <1>3, <1>4, SystemToPhysical
<1> QED BY <1>5, <1>6, <1>7, <1>8 DEF sb

(* The fixed nodes that are read are among the fixed nodes.                *)
LEMMA SharedAre ==
  ASSUME FsInv, DevicesOK, ChosenOK, superblock # None
  PROVE  SharedNodes \subseteq DOMAIN Fixed
<1>1. FixedNodes(ChunkRoot) \subseteq DOMAIN Fixed
  BY ChunkRootIs
<1>2. \A i \in OtherRoots : i.key.item_type = RootItem /\ i.key.object_id >= 256 =>
        FixedNodes(i.data[1].root_node_block_number) \subseteq DOMAIN Fixed
  BY RootsAssumption DEF FixedTree
<1> QED BY <1>1, <1>2 DEF SharedNodes

(* A backup is of one of the three generations before that of the          *)
(* superblock.                                                             *)
LEMMA AttemptedIs ==
  ASSUME FsInv, DevicesOK, ChosenOK, superblock # None, NEW n \in 0..4
  PROVE  /\ Attempted(n) \in 0..Newest /\ Attempted(n) \in Nat
         /\ Attempted(n) > 0 =>
              (IF n = 0 THEN SuperblockOf(superblock).root_tree
               ELSE SuperblockOf(superblock).root_backups[n - 1].tree_root) = history[Attempted(n)].root
         /\ (IF n = 0 THEN SuperblockOf(superblock).root_tree
             ELSE SuperblockOf(superblock).root_backups[n - 1].tree_root) \in Nat
<1> DEFINE g == Chosen
           of == {b \in 1..g : b % 4 = n - 1 /\ b > g - 4}
           of_(slot) == {b \in 1..g : b % 4 = slot /\ b > g - 4}
           backup_(slot) ==
             LET b == CHOOSE b \in of_(slot) : TRUE
             IN  IF of_(slot) = {} THEN RootBackup(0, 0) ELSE RootBackup(history[b].root, ChunkRoots[b])
           sb == SuperblockOf(superblock)
<1>1. g \in 1..Newest /\ g \in Nat /\ sb = Superblock(g, history) /\ Newest \in Nat
  BY ChosenIs, HistoryIs
<1>2. Attempted(n) = IF n = 0 THEN g ELSE IF of = {} THEN 0 ELSE CHOOSE b \in of : TRUE
  BY Zenon DEF Attempted, Chosen
<1> HIDE DEF g, sb
<1>3. \A b \in 1..g : b \in 1..Newest /\ history[b].root \in Nat
  <2> TAKE b \in 1..g
  <2>1. b \in 1..Newest
    BY <1>1
  <2> QED BY <2>1, HistoryIs, ConstantsAssumption
<1>4. sb = [generation |-> g, root_tree |-> history[g].root, chunk_root |-> ChunkRoots[g],
            system_chunks |-> SystemEntries \o Unused, system_chunks_size |-> Len(SystemEntries),
            root_backups |-> [slot \in 0..3 |-> backup_(slot)]]
  BY <1>1, Zenon DEF Superblock
<1>5. CASE n = 0
  <2>1. sb.root_tree = history[g].root /\ g \in 1..g
    BY <1>1, <1>4
  <2> QED BY <1>1, <1>2, <1>3, <1>5, <2>1 DEF sb
<1>6. CASE n # 0
  <2>1. n - 1 \in 0..3
    BY <1>6
  <2>2. sb.root_backups[n - 1] = backup_(n - 1)
    <3> HIDE DEF backup_
    <3> QED BY <1>4, <2>1
  <2>3. sb.root_backups[n - 1] =
          LET b == CHOOSE b \in of : TRUE
          IN  IF of = {} THEN RootBackup(0, 0) ELSE RootBackup(history[b].root, ChunkRoots[b])
    BY <2>2, Zenon
  <2>4. of \subseteq 1..g
    OBVIOUS
  <2> HIDE DEF of, of_
  <2>5. sb.root_backups[n - 1].tree_root = IF of = {} THEN 0 ELSE history[CHOOSE b \in of : TRUE].root
    BY <2>3 DEF RootBackup
  <2>6. CASE of = {}
    BY <1>1, <1>2, <1>6, <2>5, <2>6 DEF sb
  <2>7. CASE of # {}
    <3>1. PICK b : b = CHOOSE c \in of : TRUE
      OBVIOUS
    <3>2. b \in 1..g
      BY <2>4, <2>7, <3>1
    <3>3. Attempted(n) = b /\ sb.root_backups[n - 1].tree_root = history[b].root
      BY <1>2, <1>6, <2>5, <2>7, <3>1
    <3>4. b \in 0..Newest /\ b \in Nat
      BY <1>1, <3>2
    <3> QED BY <1>3, <1>6, <3>2, <3>3, <3>4 DEF sb
  <2> QED BY <2>6, <2>7
<1> QED BY <1>5, <1>6

(* A generation that can be read is sound, and so is that of the           *)
(* superblock itself.                                                      *)
LEMMA WholeIsSound ==
  ASSUME FsInv, DevicesOK, ChosenOK, superblock # None, NEW n \in 0..4, n = 0 \/ Readable(Attempted(n))
  PROVE  Sound(Attempted(n))
<1> DEFINE g == Attempted(n)
<1>1. CASE n = 0
  <2>1. g \in 1..Newest /\ Written(g)
    BY <1>1, ChosenIs
  <2> QED BY <2>1 DEF Sound, Written, AsWritten
<1>2. CASE Readable(g)
  <2>1. g \in 0..Newest /\ g > 0 /\ g \in Nat /\ Newest \in Nat
    BY <1>2, AttemptedIs, HistoryIs DEF Readable
  <2>2. g \in 1..Newest
    BY <2>1
  <2> QED BY <1>2, <2>2 DEF Sound, Readable
<1> QED BY <1>1, <1>2

(* When nothing was lost the generation of the superblock can be read.     *)
LEMMA NothingLost ==
  ASSUME FsInv, DevicesOK, ChosenOK, superblock # None, damage = 0
  PROVE  Readable(Attempted(0))
<1>1. Attempted(0) \in 1..Newest /\ Written(Attempted(0)) /\ Newest \in Nat
  BY ChosenIs, HistoryIs
<1>2. Attempted(0) > 0
  BY <1>1
<1>3. \A a \in SharedNodes : disk[Physical(a)] = Fixed[a]
  BY SharedAre DEF FsInv, DiskOK, AsWritten
<1> QED BY <1>1, <1>2, <1>3 DEF Readable, Written, AsWritten

-----------------------------------------------------------------------------
(* The devices.                                                            *)

(* A function with one more entry.                                         *)
LEMMA Extended ==
  ASSUME NEW f, NEW x, NEW v
  PROVE  /\ DOMAIN WithEntry(f, x, v) = DOMAIN f \cup {x}
         /\ \A y \in DOMAIN f : y # x => WithEntry(f, x, v)[y] = f[y]
         /\ WithEntry(f, x, v)[x] = v
BY DEF WithEntry

(* max_by_key finds the largest.                                           *)
LEMMA MaxByKeyIs ==
  ASSUME NEW b \in Nat, NEW m \in Nat, NEW f, DOMAIN f \subseteq 0..b, DOMAIN f # {},
         \A n \in DOMAIN f : f[n] \in 0..m
  PROVE  MaxByKey(f) \in DOMAIN f /\ \A n \in DOMAIN f : f[n] <= f[MaxByKey(f)]
<1> DEFINE T == {m - f[n] : n \in DOMAIN f}
           best(n) == \A j \in DOMAIN f : IF j > n THEN f[j] < f[n] ELSE f[j] <= f[n]
<1>1. T \subseteq Nat /\ T # {}
  OBVIOUS
<1>2. PICK x \in T : \A y \in T : x <= y
  <2> HIDE DEF T
  <2> QED BY <1>1, LeastNumber
<1>3. PICK l \in DOMAIN f : x = m - f[l]
  BY <1>2
<1>4. \A n \in DOMAIN f : f[n] <= f[l]
  <2> TAKE n \in DOMAIN f
  <2>1. m - f[n] \in T
    OBVIOUS
  <2>2. m - f[l] <= m - f[n]
    <3> HIDE DEF T
    <3> QED BY <1>2, <1>3, <2>1
  <2>3. f[n] \in 0..m /\ f[l] \in 0..m
    OBVIOUS
  <2> QED BY <2>2, <2>3
<1> DEFINE U == {b - n : n \in {n \in DOMAIN f : f[n] = f[l]}}
<1>5. U \subseteq Nat /\ U # {}
  BY <1>3
<1>6. PICK u \in U : \A y \in U : u <= y
  <2> HIDE DEF U
  <2> QED BY <1>5, LeastNumber
<1>7. PICK k \in DOMAIN f : u = b - k /\ f[k] = f[l]
  BY <1>6
<1>8. best(k)
  <2> SUFFICES ASSUME NEW j \in DOMAIN f PROVE IF j > k THEN f[j] < f[k] ELSE f[j] <= f[k]
    OBVIOUS
  <2>1. f[j] <= f[k] /\ f[j] \in 0..m /\ f[k] \in 0..m /\ j \in 0..b /\ k \in 0..b
    BY <1>4, <1>7
  <2>2. CASE f[j] = f[l]
    <3>1. b - j \in U
      BY <2>2
    <3>2. b - k <= b - j
      <4> HIDE DEF U
      <4> QED BY <1>6, <1>7, <3>1
    <3>3. ~(j > k)
      BY <2>1, <3>2
    <3> QED BY <2>1, <3>3
  <2>3. CASE f[j] # f[l]
    BY <1>7, <2>1, <2>3
  <2> QED BY <2>2, <2>3
<1>9. \E n \in DOMAIN f : best(n)
  BY <1>8
<1>10. MaxByKey(f) = CHOOSE n \in DOMAIN f : best(n)
  BY Zenon DEF MaxByKey
<1> HIDE DEF best
<1>11. MaxByKey(f) \in DOMAIN f /\ best(MaxByKey(f))
  BY <1>9, <1>10
<1>12. \A n \in DOMAIN f : f[n] <= f[MaxByKey(f)]
  <2> TAKE n \in DOMAIN f
  <2>1. f[n] \in 0..m /\ f[MaxByKey(f)] \in 0..m
    BY <1>11
  <2> QED BY <1>11, <2>1 DEF best
<1> QED BY <1>11, <1>12

(* The devices that were added are devices.                                *)
LEMMA DevicesAre ==
  ASSUME DevicesOK
  PROVE  DOMAIN devices \subseteq Devices /\ Added \in Nat /\ Len(given) \in Nat
<1>1. Added \in Nat /\ Len(given) \in Nat /\ Added <= Len(given)
  BY FS_CardinalityType, LenProperties DEF DevicesOK, Added
<1>2. \A n \in 1..Added : given[n] \in Devices
  <2> TAKE n \in 1..Added
  <2>1. n \in 1..Len(given)
    BY <1>1
  <2> QED BY <2>1, ElementOfSeq DEF DevicesOK
<1> QED BY <1>1, <1>2 DEF DevicesOK

(* DevicesOK and ChosenOK are kept when a device is added                  *)
LEMMA DevicesAdd ==
  ASSUME FsInv, DevicesOK, ChosenOK, AddDevice
  PROVE  DevicesOK' /\ ChosenOK'
<1>1. /\ pc = "devices" /\ Added < Len(given)
      /\ UNCHANGED <<given, superblock>> /\ UNCHANGED fsVars
  BY DEF AddDevice
<1>2. UNCHANGED <<disk, supers, history, commit, damage>>
  BY <1>1 DEF fsVars
<1>3. superblock = None
  BY <1>1 DEF ChosenOK
<1> DEFINE d == given[Added + 1]
           found == {k \in Places[d] : supers[d][k] # None}
           gen == [k \in found |-> supers[d][k].generation]
<1>4. Added \in Nat /\ Len(given) \in Nat /\ d \in Devices
  <2>1. Added \in Nat /\ Len(given) \in Nat
    BY DevicesAre
  <2>2. Added + 1 \in 1..Len(given)
    BY <1>1, <2>1
  <2> QED BY <2>1, <2>2, ElementOfSeq DEF DevicesOK
<1>5. CASE pc' = "failed" /\ devices' = devices
  <2>1. \A e : SuperblockOf(e)' = SuperblockOf(e)
    BY <1>2, <1>5 DEF SuperblockOf
  <2>2. Added' = Added
    BY <1>5 DEF Added
  <2>3. DevicesOK'
    BY <1>1, <1>2, <1>5, <2>1, <2>2 DEF DevicesOK
  <2>4. ChosenOK'
    BY <1>1, <1>3, <1>5 DEF ChosenOK
  <2> QED BY <2>3, <2>4
<1>6. CASE /\ found # {} /\ d \notin DOMAIN devices /\ pc' = pc
           /\ devices' = WithEntry(devices, d, MaxByKey(gen))
  <2>1. DOMAIN gen = found /\ found \subseteq 0..3 /\ 3 \in Nat /\ Newest \in Nat
    BY <1>4, ConstantsAssumption, HistoryIs
  <2>2. \A k \in found : gen[k] = supers[d][k].generation /\ gen[k] \in 0..Newest
    <3> TAKE k \in found
    <3>1. gen[k] = supers[d][k].generation
      OBVIOUS
    <3>2. supers[d][k].generation \in 1..Newest
      <4> HIDE DEF d
      <4> QED BY <1>4, SuperIs
    <3> HIDE DEF gen, found
    <3> QED BY <2>1, <3>1, <3>2
  <2> HIDE DEF gen
  <2>3. MaxByKey(gen) \in found /\ \A k \in found : gen[k] <= gen[MaxByKey(gen)]
    <3> HIDE DEF found
    <3> QED BY <1>6, <2>1, <2>2, MaxByKeyIs
  <2> DEFINE m == MaxByKey(gen)
  <2> HIDE DEF m
  <2>4. m \in Places[d] /\ supers[d][m] # None
        /\ \A k \in Places[d] : supers[d][k] # None => supers[d][k].generation <= supers[d][m].generation
    BY <2>2, <2>3 DEF m
  <2> HIDE DEF found, d
  <2>5. /\ DOMAIN devices' = DOMAIN devices \cup {d}
        /\ \A e \in DOMAIN devices : devices'[e] = devices[e]
        /\ devices'[d] = m
    <3>1. devices' = WithEntry(devices, d, m)
      BY <1>6 DEF m
    <3>2. d \notin DOMAIN devices
      BY <1>6
    <3>3. /\ DOMAIN WithEntry(devices, d, m) = DOMAIN devices \cup {d}
          /\ \A e \in DOMAIN devices : e # d => WithEntry(devices, d, m)[e] = devices[e]
          /\ WithEntry(devices, d, m)[d] = m
      BY DEF WithEntry
    <3> QED BY <3>1, <3>2, <3>3
  <2>6. IsFiniteSet(DOMAIN devices') /\ Added' = Added + 1
    BY <1>6, <2>5, FS_AddElement DEF DevicesOK, Added
  <2>7. Added' <= Len(given')
    BY <1>1, <1>4, <2>6
  <2>8. DOMAIN devices' = {given'[n] : n \in 1..Added'}
    <3>1. 1..Added' = 1..Added \cup {Added + 1}
      BY <1>4, <2>6
    <3>2. DOMAIN devices = {given[n] : n \in 1..Added}
      BY DEF DevicesOK
    <3>3. {given'[n] : n \in 1..Added'} = {given[n] : n \in 1..Added} \cup {given[Added + 1]}
      BY <1>1, <3>1
    <3> QED BY <2>5, <3>2, <3>3 DEF d
  <2>9. \A e \in DOMAIN devices' :
          /\ devices'[e] \in Places[e] /\ supers'[e][devices'[e]] # None
          /\ \A k \in Places[e] :
               supers'[e][k] # None => supers'[e][k].generation <= supers'[e][devices'[e]].generation
    <3> TAKE e \in DOMAIN devices'
    <3>1. CASE e \in DOMAIN devices
      BY <1>2, <2>5, <3>1 DEF DevicesOK, SuperblockOf
    <3>2. CASE e = d
      BY <1>2, <2>4, <2>5, <3>2
    <3> QED BY <2>5, <3>1, <3>2
  <2>10. DevicesOK'
    BY <1>1, <1>6, <2>6, <2>7, <2>8, <2>9 DEF DevicesOK, SuperblockOf
  <2>11. ChosenOK'
    BY <1>1, <1>3, <1>6 DEF ChosenOK
  <2> QED BY <2>10, <2>11
<1>7. \/ pc' = "failed" /\ devices' = devices
      \/ /\ found # {} /\ d \notin DOMAIN devices /\ pc' = pc
         /\ devices' = WithEntry(devices, d, MaxByKey(gen))
  BY Zenon DEF AddDevice
<1> QED BY <1>5, <1>6, <1>7

(* and when the superblock is chosen among them.                           *)
LEMMA DevicesEnd ==
  ASSUME FsInv, DevicesOK, ChosenOK, EndDevices
  PROVE  DevicesOK' /\ ChosenOK'
<1>1. /\ pc = "devices" /\ Added = Len(given)
      /\ UNCHANGED <<given, devices>> /\ UNCHANGED fsVars
  BY DEF EndDevices
<1>2. UNCHANGED <<disk, supers, history, commit, damage>>
  BY <1>1 DEF fsVars
<1>3. /\ given = <<>> => pc' = "failed" /\ superblock' = superblock
      /\ given # <<>> =>
           /\ superblock' = given[MaxByKey([n \in DOMAIN given |-> SuperblockOf(given[n]).generation])]
           /\ pc' = "chunks"
  BY DEF EndDevices
<1>4. superblock = None
  BY <1>1 DEF ChosenOK
<1>5. \A e : SuperblockOf(e)' = SuperblockOf(e)
  BY <1>1, <1>2 DEF SuperblockOf
<1>6. DevicesOK'
  <2>1. Added' = Added
    BY <1>1 DEF Added
  <2>2. pc' # "off"
    BY <1>3
  <2> QED BY <1>1, <1>2, <1>5, <2>1, <2>2 DEF DevicesOK
<1>7. CASE given = <<>>
  BY <1>3, <1>4, <1>6, <1>7 DEF ChosenOK
<1>8. CASE given # <<>>
  <2> DEFINE gen == [n \in DOMAIN given |-> SuperblockOf(given[n]).generation]
             m == MaxByKey(gen)
             L == Len(given)
  <2>1. L \in Nat /\ DOMAIN given = 1..L /\ L # 0
    BY <1>8, LenProperties, EmptySeq DEF DevicesOK
  <2>2. DOMAIN devices = {given[n] : n \in 1..L} /\ DOMAIN devices \subseteq Devices
    BY <1>1, DevicesAre DEF DevicesOK
  <2> HIDE DEF L
  <2>3. \A n \in 1..L : SuperblockOf(given[n]).generation \in 0..Newest /\ given[n] \in DOMAIN devices
    <3> TAKE n \in 1..L
    <3>1. given[n] \in DOMAIN devices
      BY <2>2
    <3>2. devices[given[n]] \in Places[given[n]] /\ supers[given[n]][devices[given[n]]] # None
      BY <3>1 DEF DevicesOK
    <3>3. SuperblockOf(given[n]).generation \in 1..Newest
      BY <2>2, <3>1, <3>2, SuperIs DEF SuperblockOf
    <3>4. Newest \in Nat
      BY HistoryIs
    <3> QED BY <3>1, <3>3, <3>4
  <2>4. DOMAIN gen = 1..L /\ \A n \in 1..L : gen[n] = SuperblockOf(given[n]).generation
    BY <2>1
  <2> HIDE DEF gen
  <2>5. m \in 1..L /\ \A n \in 1..L : gen[n] <= gen[m]
    <3>1. DOMAIN gen \subseteq 0..L /\ DOMAIN gen # {}
      <4>1. 1 \in 1..L /\ 1..L \subseteq 0..L
        BY <2>1
      <4>2. DOMAIN gen = 1..L
        BY <2>4
      <4> QED BY <4>1, <4>2, Zenon
    <3>2. Newest \in Nat /\ \A n \in DOMAIN gen : gen[n] \in 0..Newest
      BY <2>3, <2>4, HistoryIs
    <3>3. L \in Nat
      BY <2>1
    <3>4. MaxByKey(gen) \in DOMAIN gen /\ \A n \in DOMAIN gen : gen[n] <= gen[MaxByKey(gen)]
      BY <3>1, <3>2, <3>3, MaxByKeyIs
    <3> QED BY <2>4, <3>4
  <2>6. superblock' = given[m]
    BY <1>3, <1>8 DEF gen
  <2>14. PICK best : best = given[m]
    OBVIOUS
  <2> HIDE DEF m
  <2>7. superblock' \in DOMAIN devices
    BY <2>3, <2>5, <2>6
  <2>8. \A d \in DOMAIN devices : SuperblockOf(d).generation <= SuperblockOf(given[m]).generation
    BY <2>2, <2>4, <2>5
  <2>9. \A d \in DOMAIN devices' : SuperblockOf(d)'.generation <= SuperblockOf(best)'.generation
    BY <1>1, <1>5, <2>8, <2>14
  <2>10. superblock' # None
    BY <2>2, <2>7, NoneAssumption
  <2>11. \A d \in DOMAIN devices' : (SuperblockOf(d).generation <= SuperblockOf(superblock).generation)'
    BY <2>6, <2>9, <2>14 DEF SuperblockOf
  <2>12. ChosenOK'
    BY <1>1, <1>3, <1>8, <2>7, <2>10, <2>11 DEF ChosenOK
  <2> QED BY <1>6, <2>12
<1> QED BY <1>7, <1>8

-----------------------------------------------------------------------------
(* Nodes and trees.                                                        *)

(* What from_bytes makes of the nodes that may be on a device.             *)
LEMMA Bytes ==
  /\ from_bytes(None) = None /\ from_bytes(Garbage) = None
  /\ \A a \in DOMAIN Fixed : from_bytes(Fixed[a]) = Fixed[a] /\ Fixed[a] # None
  /\ \A g \in 1..MaxGeneration : from_bytes(FsNode[g]) = FsNode[g] /\ FsNode[g] # None
  /\ \A g \in 1..MaxGeneration : \A fs \in Pool :
       from_bytes(RootNode[g][fs]) = RootNode[g][fs] /\ RootNode[g][fs] # None
<1>1. Garbage.checksum_ok = FALSE
  BY DEF Garbage, Node
<1>2. \A a \in DOMAIN Fixed : Fixed[a].checksum_ok /\ Fixed[a] # None
  BY FixedAssumption, NoneAssumption DEF Range
<1>3. \A g \in 1..MaxGeneration : FsNode[g] # None /\ FsNode[g].checksum_ok
  <2> TAKE g \in 1..MaxGeneration
  <2>1. FsNode[g] = Leaf(FsItems[g]) /\ Writable(FsItems[g])
    BY RootsAssumption DEF FsNode
  <2>2. FsNode[g].checksum_ok
    BY <2>1, LeafDecode
  <2> QED BY <2>2, NoneAssumption
<1>4. \A g \in 1..MaxGeneration : \A fs \in Pool : RootNode[g][fs] # None /\ RootNode[g][fs].checksum_ok
  <2> TAKE g \in 1..MaxGeneration
  <2> TAKE fs \in Pool
  <2>1. RootNode[g][fs] = Leaf(RootItems(g, fs)) /\ Writable(RootItems(g, fs))
    BY RootsAssumption DEF RootNode
  <2>2. RootNode[g][fs].checksum_ok
    BY <2>1, LeafDecode
  <2> QED BY <2>2, NoneAssumption
<1> QED BY <1>1, <1>2, <1>3, <1>4 DEF from_bytes

(* The nodes that a commit writes are leaves with these items.             *)
LEMMA CommitLeaves ==
  ASSUME NEW g \in 1..MaxGeneration
  PROVE  /\ IsLeaf(FsNode[g]) /\ LeafItems(FsNode[g]) = FsItems[g] /\ TreeItems(FsItems[g])
         /\ \A fs \in Pool : /\ IsLeaf(RootNode[g][fs]) /\ LeafItems(RootNode[g][fs]) = RootItems(g, fs)
                             /\ TreeItems(RootItems(g, fs))
<1>1. FsNode[g] = Leaf(FsItems[g]) /\ Writable(FsItems[g])
  BY RootsAssumption DEF FsNode
<1>2. \A fs \in Pool : RootNode[g][fs] = Leaf(RootItems(g, fs)) /\ Writable(RootItems(g, fs))
  BY RootsAssumption DEF RootNode
<1>3. \A items : Writable(items) => TreeItems(items)
  BY DEF Writable
<1> QED BY <1>1, <1>2, <1>3, LeafDecode

(* Whatever node is read, there are items in it or nodes below it.         *)
LEMMA AnyNode ==
  ASSUME FsInv, NEW place, NEW node, node = from_bytes(NodeAt(place)), node # None
  PROVE  IF IsLeaf(node) THEN TreeItems(LeafItems(node)) ELSE Children(node) \in Seq(Nat)
<1>1. NodeAt(place) \in Nodes /\ node = NodeAt(place)
  BY DEF FsInv, DiskOK, NodeAt, Nodes, from_bytes
<1>2. node # Garbage
  BY <1>1, Bytes
<1>3. \/ node \in Range(Fixed)
      \/ \E g \in 1..MaxGeneration : node = FsNode[g]
      \/ \E g \in 1..MaxGeneration : \E fs \in Pool : node = RootNode[g][fs]
  BY <1>1, <1>2 DEF Nodes
<1>4. CASE node \in Range(Fixed)
  <2>1. PICK a \in DOMAIN Fixed : node = Fixed[a]
    BY <1>4 DEF Range
  <2> QED BY <2>1, FixedAssumption
<1>5. CASE \E g \in 1..MaxGeneration : node = FsNode[g]
  BY <1>5, CommitLeaves
<1>6. CASE \E g \in 1..MaxGeneration : \E fs \in Pool : node = RootNode[g][fs]
  BY <1>6, CommitLeaves
<1> QED BY <1>3, <1>4, <1>5, <1>6

(* The children of an internal node.                                       *)
LEMMA ChildrenAre ==
  ASSUME NEW root \in DOMAIN Fixed, ~IsLeaf(Fixed[root])
  PROVE  /\ Fixed[root].num_items \in Nat /\ Children(Fixed[root]) \in Seq(Nat)
         /\ Len(Children(Fixed[root])) = Fixed[root].num_items
         /\ Range(Children(Fixed[root])) = {Children(Fixed[root])[m] : m \in 1..Fixed[root].num_items}
         /\ FixedNodes(root) = {root} \cup Range(Children(Fixed[root]))
<1> DEFINE c == Children(Fixed[root])
           N == Fixed[root].num_items
<1>1. N \in Nat /\ c \in Seq(Nat)
  BY FixedAssumption
<1>2. DOMAIN c = 1..N
  BY DEF Children
<1> HIDE DEF c, N
<1>3. DOMAIN c = 1..Len(c) /\ Len(c) \in Nat
  BY <1>1, LenProperties
<1>4. Len(c) = N
  <2>1. 1..N = 1..Len(c)
    BY <1>2, <1>3
  <2> DEFINE L == Len(c)
  <2>2. 1..N = 1..L /\ L \in Nat /\ N \in Nat
    BY <1>1, <1>3, <2>1
  <2> HIDE DEF L
  <2>3. (L # 0 => L \in 1..N) /\ (N # 0 => N \in 1..L)
    BY <2>2
  <2>4. L = N
    BY <2>2, <2>3
  <2> QED BY <2>4 DEF L
<1>5. Range(c) = {c[m] : m \in 1..N}
  BY <1>2 DEF Range
<1>6. FixedNodes(root) = {root} \cup Range(c)
  BY DEF FixedNodes, c
<1> QED BY <1>1, <1>4, <1>5, <1>6 DEF c, N

(* The next node of a fixed tree to be read.                               *)
LEMMA FixedNext ==
  ASSUME NEW root, FixedTree(root), FixedRead(root), todo # <<>>
  PROVE  /\ Head(todo) \in FixedNodes(root) /\ Head(todo) \in DOMAIN Fixed
         /\ (todo = <<root>> /\ tree_items = {}) \/ (Head(todo) # root /\ \E n \in 1..Fixed[root].num_items :
              /\ HalfRead(root, n - 1) /\ Head(todo) = Children(Fixed[root])[n] /\ IsLeaf(Fixed[Head(todo)])
              /\ Tail(todo) = SubSeq(Children(Fixed[root]), n + 1, Fixed[root].num_items))
<1>1. root \in FixedNodes(root) /\ FixedNodes(root) \subseteq DOMAIN Fixed
  BY DEF FixedTree, FixedNodes
<1>2. CASE todo = <<root>> /\ tree_items = {}
  BY <1>1, <1>2
<1>3. ASSUME NEW n \in 0..Fixed[root].num_items, HalfRead(root, n)
      PROVE  /\ Head(todo) \in FixedNodes(root) /\ Head(todo) # root
             /\ n + 1 \in 1..Fixed[root].num_items
             /\ Head(todo) = Children(Fixed[root])[n + 1] /\ IsLeaf(Fixed[Head(todo)])
             /\ Tail(todo) = SubSeq(Children(Fixed[root]), n + 2, Fixed[root].num_items)
  <2> DEFINE c == Children(Fixed[root])
             N == Fixed[root].num_items
  <2>1. ~IsLeaf(Fixed[root]) /\ todo = SubSeq(c, n + 1, N)
    BY <1>3 DEF HalfRead
  <2>2. /\ N \in Nat /\ c \in Seq(Nat) /\ Len(c) = N /\ Range(c) = {c[m] : m \in 1..N}
        /\ FixedNodes(root) = {root} \cup Range(c)
    BY <1>1, <2>1, ChildrenAre
  <2>3. \A a \in Range(c) : IsLeaf(Fixed[a])
    BY <2>1 DEF FixedTree
  <2> HIDE DEF c, N
  <2>4. n < N
    <3>1. ASSUME ~(n < N) PROVE FALSE
      <4>1. n + 1 \in Int /\ N \in Int /\ N < n + 1
        BY <2>2, <3>1
      <4>2. SubSeq(c, n + 1, N) = <<>>
        BY <4>1, SubSeqEmpty
      <4> QED BY <2>1, <4>2
    <3> QED BY <3>1
  <2>5. n + 1 \in 1..Len(c) /\ N \in (n + 1)..Len(c)
    BY <2>2, <2>4
  <2>6. Head(SubSeq(c, n + 1, N)) = c[n + 1] /\ Tail(SubSeq(c, n + 1, N)) = SubSeq(c, n + 1 + 1, N)
    BY <2>2, <2>5, HeadTailOfSubSeq
  <2>7. n + 1 + 1 = n + 2 /\ n + 1 \in 1..N
    BY <2>2, <2>5
  <2>8. c[n + 1] \in Range(c)
    BY <2>2, <2>7
  <2>9. IsLeaf(Fixed[c[n + 1]]) /\ c[n + 1] # root /\ c[n + 1] \in FixedNodes(root)
    BY <2>1, <2>2, <2>3, <2>8
  <2>10. Head(todo) = c[n + 1] /\ Tail(todo) = SubSeq(c, n + 2, N)
    BY <2>1, <2>6, <2>7
  <2> QED BY <2>7, <2>9, <2>10 DEF c, N
<1>4. CASE \E n \in 0..Fixed[root].num_items : HalfRead(root, n)
  <2>1. PICK n \in 0..Fixed[root].num_items : HalfRead(root, n)
    BY <1>4
  <2> DEFINE m == n + 1
  <2>2. m - 1 = n /\ m + 1 = n + 2
    OBVIOUS
  <2>3. HalfRead(root, m - 1)
    BY <2>1, <2>2
  <2>4. /\ Head(todo) \in FixedNodes(root) /\ Head(todo) # root
        /\ m \in 1..Fixed[root].num_items
        /\ Head(todo) = Children(Fixed[root])[m] /\ IsLeaf(Fixed[Head(todo)])
        /\ Tail(todo) = SubSeq(Children(Fixed[root]), m + 1, Fixed[root].num_items)
    BY <1>3, <2>1, <2>2
  <2> HIDE DEF m
  <2> QED BY <1>1, <2>3, <2>4
<1> QED BY <1>2, <1>4 DEF FixedRead

(* A fixed tree is read node by node, and when all are read so are all of  *)
(* its items.                                                              *)
LEMMA FixedVisit ==
  ASSUME NEW root, FixedTree(root), FixedRead(root), todo # <<>>, Visit(Fixed[Head(todo)])
  PROVE  FixedRead(root)'
<1> DEFINE c == Children(Fixed[root])
           N == Fixed[root].num_items
           a == Head(todo)
           all == FixedItems(root)
<1>1. root \in DOMAIN Fixed /\ TreeItems(all)
  BY DEF FixedTree, FixedNodes
<1>2. \A b \in FixedNodes(root) : IsLeaf(Fixed[b]) => LeafItems(Fixed[b]) \subseteq all
  BY DEF FixedItems
<1>3. \/ todo = <<root>> /\ tree_items = {}
      \/ \E n \in 1..N :
           /\ HalfRead(root, n - 1) /\ a = c[n] /\ IsLeaf(Fixed[a]) /\ Tail(todo) = SubSeq(c, n + 1, N)
  BY FixedNext
<1>4. CASE todo = <<root>> /\ tree_items = {}
  <2>1. a = root /\ Tail(todo) = <<>>
    BY <1>4
  <2>2. CASE IsLeaf(Fixed[root])
    <3>1. todo' = <<>> /\ tree_items' = Insert({}, LeafItems(Fixed[root]))
      BY <1>4, <2>1, <2>2 DEF Visit
    <3>2. tree_items' = LeafItems(Fixed[root])
      BY <3>1 DEF Insert
    <3> QED BY <2>2, <3>1, <3>2 DEF FixedRead
  <2>3. CASE ~IsLeaf(Fixed[root])
    <3>1. todo' = c \o <<>> /\ tree_items' = {}
      BY <1>4, <2>1, <2>3 DEF Visit
    <3>2. N \in Nat /\ c \in Seq(Nat) /\ Len(c) = N
      BY <1>1, <2>3, ChildrenAre
    <3> HIDE DEF c, N
    <3>3. todo' = c /\ c = SubSeq(c, 0 + 1, N)
      BY <3>1, <3>2, ConcatEmptySeq, SubSeqFull
    <3>4. tree_items' = UNION {LeafItems(Fixed[c[m]]) : m \in 1..0}
      <4>1. 1..0 = {}
        OBVIOUS
      <4> QED BY <3>1, <4>1
    <3>5. 0 \in 0..N
      BY <3>2
    <3>6. HalfRead(root, 0)'
      BY <2>3, <3>3, <3>4 DEF HalfRead, c, N
    <3> QED BY <3>5, <3>6 DEF FixedRead, N
  <2> QED BY <2>2, <2>3
<1>5. ASSUME NEW n \in 1..N, HalfRead(root, n - 1), a = c[n], IsLeaf(Fixed[a]), Tail(todo) = SubSeq(c, n + 1, N)
      PROVE  FixedRead(root)'
  <2>1. ~IsLeaf(Fixed[root]) /\ tree_items = UNION {LeafItems(Fixed[c[m]]) : m \in 1..(n - 1)}
    BY <1>5 DEF HalfRead
  <2>2. N \in Nat /\ Range(c) = {c[m] : m \in 1..N} /\ FixedNodes(root) = {root} \cup Range(c)
    BY <1>1, <2>1, ChildrenAre
  <2>3. \A b \in Range(c) : IsLeaf(Fixed[b])
    BY <2>1 DEF FixedTree
  <2> HIDE DEF c, N
  <2>4. n \in Nat /\ 1..n = 1..(n - 1) \cup {n} /\ 1..n \subseteq 1..N /\ n \in 0..N
    BY <2>2
  <2>5. \A m \in 1..n : c[m] \in FixedNodes(root) /\ IsLeaf(Fixed[c[m]])
    BY <2>2, <2>3, <2>4
  <2> DEFINE part(m) == LeafItems(Fixed[c[m]])
  <2>6. \A m \in 1..n : part(m) \subseteq all
    BY <1>2, <2>5
  <2>7. todo' = Tail(todo) /\ tree_items' = Insert(tree_items, part(n))
    BY <1>5 DEF Visit
  <2> HIDE DEF part, all, a
  <2>8. tree_items = UNION {part(m) : m \in 1..(n - 1)}
    BY <2>1 DEF part
  <2>9. tree_items \subseteq all /\ part(n) \subseteq all
    BY <2>4, <2>6, <2>8
  <2>10. tree_items' = tree_items \cup part(n)
    BY <1>1, <2>7, <2>9, InsertUnion
  <2>11. tree_items' = UNION {part(m) : m \in 1..n}
    BY <2>4, <2>8, <2>10
  <2>12. HalfRead(root, n)'
    BY <1>5, <2>1, <2>7, <2>11 DEF HalfRead, c, N, part
  <2> QED BY <2>4, <2>12 DEF FixedRead, N
<1> QED BY <1>3, <1>4, <1>5

(* When no node is left to read, all items of a fixed tree were read.      *)
LEMMA FixedDone ==
  ASSUME NEW root, FixedTree(root), FixedRead(root), todo = <<>>
  PROVE  tree_items = FixedItems(root)
<1> DEFINE c == Children(Fixed[root])
           N == Fixed[root].num_items
<1>1. root \in DOMAIN Fixed
  BY DEF FixedTree, FixedNodes
<1>2. todo # <<root>>
  OBVIOUS
<1>3. CASE IsLeaf(Fixed[root]) /\ tree_items = LeafItems(Fixed[root])
  <2>1. FixedNodes(root) = {root}
    BY <1>3 DEF FixedNodes
  <2>2. {a \in FixedNodes(root) : IsLeaf(Fixed[a])} = {root}
    BY <1>3, <2>1
  <2>3. FixedItems(root) = UNION {LeafItems(Fixed[a]) : a \in {root}}
    BY <2>2, Zenon DEF FixedItems
  <2> QED BY <1>3, <2>3
<1>4. ASSUME NEW n \in 0..N, HalfRead(root, n) PROVE tree_items = FixedItems(root)
  <2>1. /\ ~IsLeaf(Fixed[root]) /\ todo = SubSeq(c, n + 1, N)
        /\ tree_items = UNION {LeafItems(Fixed[c[m]]) : m \in 1..n}
    BY <1>4 DEF HalfRead
  <2>2. /\ N \in Nat /\ c \in Seq(Nat) /\ Len(c) = N /\ Range(c) = {c[m] : m \in 1..N}
        /\ FixedNodes(root) = {root} \cup Range(c)
    BY <1>1, <2>1, ChildrenAre
  <2>3. \A b \in Range(c) : IsLeaf(Fixed[b])
    BY <2>1 DEF FixedTree
  <2> HIDE DEF c, N
  <2>4. n = N
    <3>1. ASSUME n < N PROVE FALSE
      <4>1. n + 1 \in Int /\ N \in Int /\ n + 1 <= N
        BY <2>2, <3>1
      <4>2. \A i \in (n + 1)..N : c[i] \in Nat
        <5> TAKE i \in (n + 1)..N
        <5>1. i \in 1..Len(c)
          BY <2>2
        <5> QED BY <2>2, <5>1, ElementOfSeq
      <4> DEFINE lo == n + 1
      <4>3. lo \in Int /\ lo <= N /\ \A i \in lo..N : c[i] \in Nat
        BY <4>1, <4>2
      <4> HIDE DEF lo
      <4>4. Len(SubSeq(c, lo, N)) = N - lo + 1
        BY <4>1, <4>3, SubSeqProperties
      <4>5. SubSeq(c, lo, N) = <<>>
        BY <2>1 DEF lo
      <4>6. Len(SubSeq(c, lo, N)) = 0
        BY <4>5
      <4> QED BY <4>1, <4>3, <4>4, <4>6
    <3> QED BY <2>2, <3>1
  <2>5. {a \in FixedNodes(root) : IsLeaf(Fixed[a])} = {c[m] : m \in 1..N}
    BY <2>1, <2>2, <2>3
  <2>6. FixedItems(root) = UNION {LeafItems(Fixed[a]) : a \in {c[m] : m \in 1..N}}
    BY <2>5, Zenon DEF FixedItems
  <2> QED BY <2>1, <2>4, <2>6
<1> QED BY <1>2, <1>3, <1>4 DEF FixedRead

(* A leaf that a commit has written.                                       *)
LEMMA LeafVisit ==
  ASSUME NEW a, NEW items, NEW node, IsLeaf(node), LeafItems(node) = items,
         LeafRead(a, items), todo # <<>>, Visit(node)
  PROVE  LeafRead(a, items)' /\ Head(todo) = a
<1>1. todo = <<a>> /\ tree_items = {}
  BY DEF LeafRead
<1>2. Tail(todo) = <<>> /\ Head(todo) = a
  BY <1>1
<1>3. todo' = <<>> /\ tree_items' = Insert({}, items)
  BY <1>1, <1>2 DEF Visit
<1>4. tree_items' = items
  BY <1>3 DEF Insert
<1> QED BY <1>2, <1>3, <1>4 DEF LeafRead

-----------------------------------------------------------------------------
(* Steps that read.                                                        *)

(* What depends on the file system and the devices only stays with them.   *)
LEMMA Same ==
  ASSUME UNCHANGED fsVars, UNCHANGED deviceVars
  PROVE  /\ \A n : Attempted(n)' = Attempted(n) /\ (Hopeless(n)' <=> Hopeless(n))
         /\ \A g : /\ Readable(g)' <=> Readable(g)
                   /\ Sound(g)' <=> Sound(g)
                   /\ TreesOf(g)' = TreesOf(g)
                   /\ \A t : RootOf(g, t)' = RootOf(g, t)
         /\ (ChunkDevices' <=> ChunkDevices) /\ (AllGiven' <=> AllGiven)
         /\ history' = history /\ ChunkRoot' = ChunkRoot
<1>1. UNCHANGED <<disk, supers, history, commit, damage>> /\ UNCHANGED <<given, devices, superblock>>
  BY DEF fsVars, deviceVars
<1>2. Chosen' = Chosen
  BY <1>1 DEF Chosen, SuperblockOf
<1>3. ASSUME NEW n PROVE Attempted(n)' = Attempted(n)
  BY <1>1 DEF Attempted, SuperblockOf
<1>4. ASSUME NEW g PROVE (Readable(g)' <=> Readable(g)) /\ (Sound(g)' <=> Sound(g))
  <2>1. SharedNodes' = SharedNodes
    BY <1>1 DEF SharedNodes, ChunkRoot, SuperblockOf
  <2> QED BY <1>1, <2>1 DEF Readable, Sound, Newest
<1>5. ASSUME NEW g PROVE TreesOf(g)' = TreesOf(g) /\ \A t : RootOf(g, t)' = RootOf(g, t)
  BY <1>1 DEF TreesOf, RootOf, RootsOf
<1>6. (ChunkDevices' <=> ChunkDevices) /\ (AllGiven' <=> AllGiven)
  BY <1>1 DEF ChunkDevices, ChunkRoot, SuperblockOf, AllGiven
<1>7. ASSUME NEW n PROVE Hopeless(n)' <=> Hopeless(n)
  BY <1>3, <1>4, <1>6 DEF Hopeless
<1>8. ChunkRoot' = ChunkRoot
  BY <1>1 DEF ChunkRoot, SuperblockOf
<1> QED BY <1>1, <1>3, <1>4, <1>5, <1>6, <1>7, <1>8

(* The same of DevicesOK and ChosenOK.                                     *)
LEMMA DevicesKept ==
  ASSUME DevicesOK, ChosenOK, UNCHANGED fsVars, UNCHANGED deviceVars,
         pc \notin {"off", "devices", "failed"}, pc' \notin {"off", "devices"}
  PROVE  DevicesOK' /\ ChosenOK'
<1>1. UNCHANGED <<disk, supers, history, commit, damage>> /\ UNCHANGED <<given, devices, superblock>>
  BY DEF fsVars, deviceVars
<1>2. \A e : SuperblockOf(e)' = SuperblockOf(e)
  BY <1>1 DEF SuperblockOf
<1>3. Added' = Added
  BY <1>1 DEF Added
<1>4. DevicesOK'
  BY <1>1, <1>2, <1>3 DEF DevicesOK
<1>5. ChosenOK'
  <2>1. superblock # None
    BY DEF ChosenOK
  <2>2. \A d \in DOMAIN devices : SuperblockOf(d).generation <= SuperblockOf(superblock).generation
    BY <2>1 DEF ChosenOK
  <2>3. \A d \in DOMAIN devices' : (SuperblockOf(d).generation <= SuperblockOf(superblock).generation)'
    BY <1>1, <2>2 DEF SuperblockOf
  <2>4. superblock' \in DOMAIN devices' \cup {None} /\ superblock' # None
    BY <1>1, <2>1 DEF ChosenOK
  <2> QED BY <2>3, <2>4 DEF ChosenOK
<1> QED BY <1>4, <1>5

(* What a sequence made of two others holds.                               *)
LEMMA RangeOfBoth ==
  ASSUME NEW s \in Seq(Nat), NEW t \in Seq(Nat)
  PROVE  Range(s \o t) = Range(s) \cup Range(t)
<1>1. s \o t \in Seq(Nat) /\ Len(s \o t) = Len(s) + Len(t)
  BY ConcatProperties
<1>2. DOMAIN s = 1..Len(s) /\ DOMAIN t = 1..Len(t) /\ DOMAIN (s \o t) = 1..Len(s) + Len(t)
  BY <1>1, LenProperties
<1>3. \A i \in 1..Len(s) + Len(t) : (s \o t)[i] = IF i <= Len(s) THEN s[i] ELSE t[i - Len(s)]
  BY ConcatProperties
<1>4. Len(s) \in Nat /\ Len(t) \in Nat
  BY LenProperties
<1>5. ASSUME NEW i \in 1..Len(s) + Len(t) PROVE (s \o t)[i] \in Range(s) \cup Range(t)
  <2>1. CASE i <= Len(s)
    <3>1. i \in DOMAIN s
      BY <1>2, <1>4, <2>1
    <3>2. (s \o t)[i] = s[i]
      BY <1>3, <2>1
    <3> QED BY <3>1, <3>2 DEF Range
  <2>2. CASE ~(i <= Len(s))
    <3>1. i - Len(s) \in DOMAIN t
      BY <1>2, <1>4, <2>2
    <3> QED BY <1>3, <2>2, <3>1 DEF Range
  <2> QED BY <2>1, <2>2
<1>6. ASSUME NEW i \in DOMAIN s PROVE s[i] \in Range(s \o t)
  <2>1. i \in 1..Len(s) + Len(t) /\ i <= Len(s)
    BY <1>2, <1>4
  <2> QED BY <1>2, <1>3, <2>1 DEF Range
<1>7. ASSUME NEW i \in DOMAIN t PROVE t[i] \in Range(s \o t)
  <2>1. i + Len(s) \in 1..Len(s) + Len(t) /\ ~(i + Len(s) <= Len(s)) /\ i + Len(s) - Len(s) = i
    BY <1>2, <1>4
  <2>2. (s \o t)[i + Len(s)] = t[i]
    BY <1>3, <2>1
  <2> QED BY <1>2, <2>1, <2>2 DEF Range
<1> QED BY <1>2, <1>5, <1>6, <1>7 DEF Range

(* Whatever is read, items are items and addresses are numbers.            *)
LEMMA VisitTypes ==
  ASSUME todo \in Seq(Nat), todo # <<>>, TreeItems(tree_items), NEW node, Visit(node),
         IF IsLeaf(node) THEN TreeItems(LeafItems(node)) ELSE Children(node) \in Seq(Nat)
  PROVE  todo' \in Seq(Nat) /\ TreeItems(tree_items')
<1>1. Tail(todo) \in Seq(Nat)
  BY HeadTailProperties
<1>2. CASE IsLeaf(node)
  BY <1>1, <1>2, InsertItems DEF Visit
<1>3. CASE ~IsLeaf(node)
  BY <1>1, <1>3, ConcatProperties DEF Visit
<1> QED BY <1>2, <1>3

(* An attempt that fails has read something that is damaged or is without  *)
(* a device that it needs.                                                 *)
LEMMA FailStep ==
  ASSUME IInv, UNCHANGED fsVars, UNCHANGED deviceVars, pc \in {"chunks", "tree"}, FailOpen, Hopeless(attempt)
  PROVE  Tried' /\ ChunksOK' /\ TreeOK' /\ OpenedOK' /\ ReadOK' /\ pc' \in {"chunks", "failed"}
<1>0. PICK root : root = ChunkRoot /\ root = ChunkRoot'
  BY Same
<1>1. /\ \/ attempt < 4 /\ pc' = "chunks" /\ attempt' = attempt + 1 /\ todo' = <<root>>
         \/ ~(attempt < 4) /\ pc' = "failed" /\ attempt' = attempt /\ todo' = <<>>
      /\ tree_items' = {} /\ errors' = 0 /\ reading' = None
      /\ chunk_tree' = {} /\ root_tree' = {} /\ filesystem_trees' = <<>>
  BY <1>0 DEF FailOpen, NextAttempt
<1>2. superblock # None /\ superblock' = superblock /\ attempt \in 0..4
  BY DEF IInv, ChosenOK, Tried, deviceVars
<1>3. \A n \in 0..attempt : Hopeless(n)
  <2> TAKE n \in 0..attempt
  <2>1. n = attempt \/ n \in 0..attempt - 1
    BY <1>2
  <2> QED BY <1>2, <2>1 DEF IInv, Tried
<1>4. \A n : Hopeless(n)' <=> Hopeless(n)
  BY Same
<1>5. Tried'
  <2>1. CASE attempt < 4 /\ pc' = "chunks" /\ attempt' = attempt + 1
    <3>1. attempt' \in 0..4 /\ attempt' - 1 = attempt
      BY <1>2, <2>1
    <3>2. \A n \in 0..attempt' - 1 : Hopeless(n)'
      BY <1>3, <1>4, <3>1
    <3> QED BY <2>1, <3>1, <3>2 DEF Tried, Opened
  <2>2. CASE ~(attempt < 4) /\ pc' = "failed" /\ attempt' = attempt
    <3>1. attempt = 4
      BY <1>2, <2>2
    <3>2. \A n \in 0..4 : Hopeless(n)'
      BY <1>3, <1>4, <3>1
    <3>3. \A n \in 0..attempt' - 1 : n \in 0..4
      BY <2>2, <3>1
    <3> QED BY <1>2, <2>2, <3>2, <3>3 DEF Tried, Opened
  <2> QED BY <1>1, <2>1, <2>2
<1>6. ChunksOK'
  <2>1. pc' = "chunks" => todo' = <<root>> /\ tree_items' = {}
    BY <1>1
  <2>2. pc' = "chunks" => FixedRead(root)'
    BY <2>1 DEF FixedRead
  <2>3. pc' = "chunks" => ChunksSeen(root)'
    BY <2>1 DEF ChunksSeen
  <2> QED BY <1>0, <1>1, <2>2, <2>3 DEF ChunksOK
<1>7. TreeOK' /\ OpenedOK'
  BY <1>1 DEF TreeOK, OpenedOK, Opened
<1>8. ReadOK'
  <2>1. root \in Nat
    BY <1>0, <1>2, ChunkRootIs DEF IInv
  <2>2. todo' \in Seq(Nat)
    <3>1. <<root>> \in Seq(Nat) /\ <<>> \in Seq(Nat)
      BY <2>1
    <3>2. todo' = <<root>> \/ todo' = <<>>
      BY <1>1
    <3> QED BY <3>1, <3>2
  <2>3. TreeItems(tree_items') /\ TreeItems(root_tree')
    BY <1>1, NoItems
  <2> QED BY <1>1, <2>2, <2>3 DEF ReadOK
<1> QED BY <1>1, <1>5, <1>6, <1>7, <1>8

(* What is read at the place of a fixed node.                              *)
LEMMA FixedThere ==
  ASSUME FsInv, NEW a \in DOMAIN Fixed
  PROVE  /\ NodeAt(Physical(a)) = disk[Physical(a)]
         /\ from_bytes(disk[Physical(a)]) \in {Fixed[a], None}
         /\ from_bytes(disk[Physical(a)]) = None => disk[Physical(a)] # Fixed[a]
<1>1. Physical(a) \in DOMAIN disk
  BY FixedAddresses, PhysicalPlaces DEF FsInv, DiskOK
<1>2. disk[Physical(a)] \in {Fixed[a], Garbage, None}
  BY DEF FsInv, DiskOK, AsWritten
<1> QED BY <1>1, <1>2, Bytes DEF NodeAt

(* A node of the chunk tree is read.                                       *)
LEMMA StepReadChunk ==
  ASSUME IInv, ReadChunkNode
  PROVE  IInv'
<1> DEFINE a == Head(todo)
<1>1. pc = "chunks" /\ todo # <<>> /\ UNCHANGED fsVars /\ UNCHANGED deviceVars
  BY DEF ReadChunkNode
<1>2. PICK node : /\ node = from_bytes(SystemSlice(system_logical_to_physical(SuperblockOf(superblock), a)))
                  /\ IF node = None THEN FailOpen
                     ELSE Visit(node) /\ UNCHANGED <<pc, attempt, errors, reading, treeVars>>
  BY DEF ReadChunkNode
<1>3. /\ FsInv /\ DevicesOK /\ ChosenOK /\ Tried /\ ChunksOK /\ TreeOK /\ OpenedOK /\ ReadOK
      /\ superblock # None
  BY <1>1 DEF IInv, ChosenOK
<1>0. PICK root : root = ChunkRoot /\ root = ChunkRoot'
  BY <1>1, Same
<1>4. FixedTree(root) /\ FixedRead(root) /\ ChunksSeen(root) /\ FixedNodes(root) \subseteq DOMAIN Fixed
  BY <1>0, <1>1, <1>3, ChunkRootIs DEF ChunksOK
<1>5. a \in FixedNodes(root) /\ a \in DOMAIN Fixed
  BY <1>1, <1>4, FixedNext
<1>6. system_logical_to_physical(SuperblockOf(superblock), a) = Physical(a)
  BY <1>0, <1>3, <1>5, ChunkRootIs
<1>7. Physical(a) # None
  BY <1>5, FixedAddresses, NoneAssumption
<1> HIDE DEF a
<1>8. FsInv'
  BY <1>1, <1>3, FsSame
<1>9. CASE node = None
  <2>1. Hopeless(attempt)
    <3>1. CASE Physical(a).device_id \notin DOMAIN devices
      BY <1>0, <1>5, <3>1 DEF Hopeless, ChunkDevices
    <3>2. CASE Physical(a).device_id \in DOMAIN devices
      <4>1. from_bytes(disk[Physical(a)]) = None
        BY <1>2, <1>3, <1>5, <1>6, <1>7, <1>9, <3>2, FixedThere DEF SystemSlice
      <4>2. disk[Physical(a)] # Fixed[a]
        BY <1>3, <1>5, <4>1, FixedThere
      <4> QED BY <1>0, <1>5, <4>2 DEF Hopeless, Readable, SharedNodes
    <3> QED BY <3>1, <3>2
  <2>2. FailOpen
    BY <1>2, <1>9
  <2>3. Tried' /\ ChunksOK' /\ TreeOK' /\ OpenedOK' /\ ReadOK' /\ pc' \in {"chunks", "failed"}
    BY <1>1, <2>1, <2>2, FailStep
  <2>4. DevicesOK' /\ ChosenOK'
    BY <1>1, <1>3, <2>3, DevicesKept
  <2> QED BY <1>8, <2>3, <2>4 DEF IInv
<1>10. CASE node # None
  <2>1. Physical(a).device_id \in DOMAIN devices
    BY <1>2, <1>6, <1>10, Bytes DEF SystemSlice
  <2>2. node = from_bytes(NodeAt(Physical(a)))
    BY <1>2, <1>6, <1>7, <2>1 DEF SystemSlice
  <2>3. node = Fixed[a]
    BY <1>3, <1>5, <1>10, <2>2, FixedThere
  <2>4. Visit(node) /\ UNCHANGED <<pc, attempt, errors, reading, treeVars>>
    BY <1>2, <1>10
  <2>5. FixedRead(root)'
    BY <1>1, <1>4, <2>3, <2>4, FixedVisit DEF a
  <2>6. todo' \in Seq(Nat) /\ TreeItems(tree_items')
    <3>1. IF IsLeaf(node) THEN TreeItems(LeafItems(node)) ELSE Children(node) \in Seq(Nat)
      BY <1>3, <1>10, <2>2, AnyNode
    <3> QED BY <1>1, <1>3, <2>4, <3>1, VisitTypes DEF ReadOK
  <2>7. UNCHANGED <<given, devices, superblock, pc, attempt, errors, reading, chunk_tree, root_tree, filesystem_trees>>
    BY <1>1, <2>4 DEF deviceVars, treeVars
  <2>8. ChunksSeen(root)'
    <3> SUFFICES ASSUME NEW b \in FixedNodes(root), b \notin Range(todo')
                 PROVE  Physical(b).device_id \in DOMAIN devices
      BY <2>7 DEF ChunksSeen
    <3>1. CASE b = a
      BY <2>1, <3>1
    <3>2. CASE b # a
      <4>1. todo \in Seq(Nat) /\ Tail(todo) \in Seq(Nat)
        BY <1>1, <1>3, HeadTailProperties DEF ReadOK
      <4>2. Range(Tail(todo)) \subseteq Range(todo')
        <5>1. CASE IsLeaf(node)
          BY <2>4, <5>1 DEF Visit
        <5>2. CASE ~IsLeaf(node)
          <6>1. Children(node) \in Seq(Nat)
            BY <1>3, <1>10, <2>2, <5>2, AnyNode
          <6>2. todo' = Children(node) \o Tail(todo)
            BY <2>4, <5>2 DEF Visit
          <6>3. PICK c \in Seq(Nat), t \in Seq(Nat) : c = Children(node) /\ t = Tail(todo)
            BY <4>1, <6>1
          <6>4. Range(c \o t) = Range(c) \cup Range(t)
            BY RangeOfBoth
          <6> QED BY <6>2, <6>3, <6>4
        <5> QED BY <5>1, <5>2
      <4>3. Range(todo) \subseteq Range(Tail(todo)) \cup {a}
        <5> SUFFICES ASSUME NEW n \in DOMAIN todo PROVE todo[n] \in Range(Tail(todo)) \cup {a}
          BY DEF Range
        <5>1. n \in 1..Len(todo) /\ Len(todo) \in Nat
          BY <4>1, LenProperties
        <5>2. Len(Tail(todo)) = Len(todo) - 1 /\ \A i \in 1..Len(Tail(todo)) : Tail(todo)[i] = todo[i + 1]
          BY <1>1, <4>1, HeadTailProperties
        <5>3. CASE n = 1
          BY <5>3 DEF a
        <5>4. CASE n # 1
          <6>1. n - 1 \in 1..Len(Tail(todo)) /\ n - 1 + 1 = n
            BY <5>1, <5>2, <5>4
          <6>2. Tail(todo)[n - 1] = todo[n]
            BY <5>2, <6>1
          <6>3. n - 1 \in DOMAIN Tail(todo)
            BY <4>1, <6>1, LenProperties
          <6> QED BY <6>2, <6>3 DEF Range
        <5> QED BY <5>3, <5>4
      <4>4. b \notin Range(todo)
        BY <3>2, <4>2, <4>3
      <4>5. CASE todo = <<root>>
        <5>1. a = root
          BY <4>5 DEF a
        <5>2. b \in Range(Children(Fixed[a])) /\ ~IsLeaf(Fixed[a])
          BY <3>2, <5>1 DEF FixedNodes
        <5>3. todo' = Children(Fixed[a]) \o Tail(todo) /\ Children(Fixed[a]) \in Seq(Nat)
          BY <1>5, <2>3, <2>4, <5>2, FixedAssumption DEF Visit
        <5>4. Range(todo') = Range(Children(Fixed[a])) \cup Range(Tail(todo))
          <6>1. PICK c \in Seq(Nat), t \in Seq(Nat) : c = Children(Fixed[a]) /\ t = Tail(todo)
            BY <4>1, <5>3
          <6>2. Range(c \o t) = Range(c) \cup Range(t)
            BY RangeOfBoth
          <6> QED BY <5>3, <6>1, <6>2
        <5> QED BY <5>2, <5>4
      <4>6. CASE todo # <<root>>
        BY <1>4, <4>4, <4>6 DEF ChunksSeen
      <4> QED BY <4>5, <4>6
    <3> QED BY <3>1, <3>2
  <2>9. ChunksOK'
    BY <1>0, <1>1, <1>3, <2>5, <2>7, <2>8 DEF ChunksOK
  <2>10. TreeOK' /\ OpenedOK'
    BY <1>1, <2>7 DEF TreeOK, OpenedOK, Opened
  <2>11. ReadOK'
    BY <1>1, <1>3, <2>6, <2>7 DEF ReadOK
  <2>12. Tried'
    <3>1. \A n : Hopeless(n)' <=> Hopeless(n)
      BY <1>1, Same
    <3> QED BY <1>1, <1>3, <2>7, <3>1 DEF Tried, Opened
  <2>13. DevicesOK' /\ ChosenOK'
    BY <1>1, <1>3, <2>7, DevicesKept
  <2> QED BY <1>8, <2>9, <2>10, <2>11, <2>12, <2>13 DEF IInv
<1> QED BY <1>9, <1>10

(* The chunk tree is read.                                                 *)
LEMMA StepChunkTreeRead ==
  ASSUME IInv, ChunkTreeRead
  PROVE  IInv'
<1>1. /\ pc = "chunks" /\ todo = <<>> /\ UNCHANGED fsVars /\ UNCHANGED deviceVars
      /\ chunk_tree' = Chunks(tree_items)
      /\ UNCHANGED <<attempt, errors, root_tree, reading, filesystem_trees>>
  BY DEF ChunkTreeRead
<1>2. /\ FsInv /\ DevicesOK /\ ChosenOK /\ Tried /\ ChunksOK /\ TreeOK /\ OpenedOK /\ ReadOK
      /\ superblock # None
  BY <1>1 DEF IInv, ChosenOK
<1>0. PICK root_ : root_ = ChunkRoot /\ root_ = ChunkRoot'
  BY <1>1, Same
<1>3. /\ FixedTree(root_) /\ FixedRead(root_) /\ ChunksSeen(root_)
      /\ root_ \in Addresses /\ Chunks(FixedItems(root_)) = AllChunks
      /\ errors = 0 /\ reading = None /\ root_tree = {} /\ filesystem_trees = <<>>
  BY <1>0, <1>1, <1>2, ChunkRootIs DEF ChunksOK
<1>4. chunk_tree' = AllChunks
  <2>1. tree_items = FixedItems(root_)
    BY <1>1, <1>3, FixedDone
  <2> QED BY <1>1, <1>3, <2>1
<1>5. logical_to_physical_address(chunk_tree', root_) # None
  BY <1>3, <1>4, LogicalToPhysical, NoneAssumption
<1>6. pc' = "tree" /\ tree_items' = {}
  BY <1>0, <1>5 DEF ChunkTreeRead
<1> DEFINE root == IF attempt = 0 THEN SuperblockOf(superblock).root_tree
                   ELSE SuperblockOf(superblock).root_backups[attempt - 1].tree_root
<1>7. todo' = <<root>>
  BY <1>0, <1>5 DEF ChunkTreeRead
<1>8. attempt \in 0..4
  BY <1>2 DEF Tried
<1>9. root \in Nat /\ (Attempted(attempt) > 0 => root = history[Attempted(attempt)].root)
  BY <1>2, <1>8, AttemptedIs
<1> HIDE DEF root
<1>10. ChunkDevices
  <2> SUFFICES ASSUME NEW a \in FixedNodes(root_) PROVE Physical(a).device_id \in DOMAIN devices
    BY <1>0 DEF ChunkDevices
  <2>1. Range(todo) = {} /\ todo # <<root_>>
    BY <1>1 DEF Range
  <2> QED BY <1>3, <2>1 DEF ChunksSeen
<1>11. /\ \A n : Attempted(n)' = Attempted(n) /\ (Hopeless(n)' <=> Hopeless(n))
       /\ \A g : Sound(g)' <=> Sound(g)
       /\ (ChunkDevices' <=> ChunkDevices) /\ history' = history
  BY <1>1, Same
<1>12. FsInv'
  BY <1>1, <1>2, FsSame
<1>13. DevicesOK' /\ ChosenOK'
  BY <1>1, <1>2, <1>6, DevicesKept
<1>14. Tried'
  <2>1. superblock' = superblock
    BY <1>1 DEF deviceVars
  <2> QED BY <1>1, <1>2, <1>6, <1>10, <1>11, <2>1 DEF Tried, Opened
<1>15. ChunksOK' /\ OpenedOK'
  BY <1>6 DEF ChunksOK, OpenedOK, Opened
<1>16. TreeOK'
  <2>1. attempt' = attempt /\ errors' = 0 /\ reading' = None
    BY <1>1, <1>3
  <2> SUFFICES ASSUME NEW g \in 1..MaxGeneration, g = Attempted(attempt)', Sound(g)'
               PROVE  Reading(g)'
    BY <1>4 DEF TreeOK
  <2>2. g = Attempted(attempt)
    BY <1>11, <2>1
  <2>3. todo' = <<history[g].root>>
    <3>1. g > 0
      OBVIOUS
    <3> QED BY <1>7, <1>9, <2>2, <3>1
  <2>4. RootReading(g)'
    BY <1>6, <1>11, <2>3 DEF LeafRead, RootReading
  <2> QED BY <2>1, <2>4 DEF Reading
<1>17. ReadOK'
  <2>1. todo' \in Seq(Nat)
    BY <1>7, <1>9
  <2> QED BY <1>1, <1>2, <1>3, <1>6, <2>1, NoItems DEF ReadOK
<1> QED BY <1>12, <1>13, <1>14, <1>15, <1>16, <1>17 DEF IInv

-----------------------------------------------------------------------------
(* The trees of a generation.                                              *)

(* The trees of a generation and where their roots lie.                    *)
LEMMA RootsAre ==
  ASSUME FsInv, NEW g \in 1..Newest
  PROVE  /\ DOMAIN TreesOf(g) = {i.key.object_id : i \in RootsOf(g)}
         /\ \A i \in RootsOf(g) :
              /\ i.key.object_id \in Int /\ i.data[1].root_node_block_number \in Nat
              /\ i.key.object_id = FsTree => i.data[1].root_node_block_number = history[g].fs
              /\ i.key.object_id # FsTree =>
                   /\ i.data[1].root_node_block_number = RootOf(g, i.key.object_id)
                   /\ FixedTree(RootOf(g, i.key.object_id))
                   /\ FixedNodes(RootOf(g, i.key.object_id)) \subseteq SharedNodes
                   /\ TreesOf(g)[i.key.object_id] = FixedItems(RootOf(g, i.key.object_id))
         /\ FsTree \in DOMAIN TreesOf(g) /\ TreesOf(g)[FsTree] = FsItems[g]
         /\ TreeItems(RootItems(g, history[g].fs))
<1> DEFINE fs == history[g].fs
           own == [key |-> Key(FsTree, RootItem, 0), data |-> RootItemData(fs)]
<1>1. g \in 1..MaxGeneration /\ fs \in Pool
  BY HistoryIs
<1>2. TreeItems(RootItems(g, fs))
  BY <1>1, CommitLeaves
<1>3. own.key.item_type = RootItem /\ own.key.object_id = FsTree /\ own.data[1].root_node_block_number = fs
  BY DEF Key, RootItemData
<1>4. RootItems(g, fs) = OtherRoots \cup Backrefs[g] \cup {own}
  BY DEF RootItems
<1> HIDE DEF own
<1>5. own \in RootsOf(g)
  BY <1>3, <1>4 DEF RootsOf
<1>6. ASSUME NEW i \in RootsOf(g)
      PROVE  /\ i \in RootItems(g, fs) /\ i.key.item_type = RootItem /\ i.key.object_id \in Int
             /\ i.data[1].root_node_block_number \in Nat
             /\ i = own \/ (i \in OtherRoots /\ i.key.object_id # FsTree /\ i.key.object_id >= 256)
  <2>1. i \in RootItems(g, fs) /\ i.key.item_type = RootItem /\ (i.key.object_id = FsTree \/ i.key.object_id >= 256)
    BY DEF RootsOf
  <2>2. i.key.object_id \in Int /\ i.data[1].root_node_block_number \in Nat
    BY <1>2, <2>1 DEF TreeItems
  <2>3. i \notin Backrefs[g]
    BY <1>1, <2>1, RootsAssumption DEF RootItem, RootBackref
  <2>4. i \in OtherRoots => i.key.object_id # FsTree
    <3>1. ASSUME i \in OtherRoots
          PROVE  i.key.object_id \in -127..127 \ {FsTree} \/ i.key.object_id >= 256
      BY <2>1, <3>1, RootsAssumption
    <3> QED BY <3>1 DEF FsTree
  <2> QED BY <1>4, <2>1, <2>2, <2>3, <2>4
<1>7. \A i, j \in RootsOf(g) : i.key.object_id = j.key.object_id => i = j
  <2> SUFFICES ASSUME NEW i \in RootsOf(g), NEW j \in RootsOf(g), i.key.object_id = j.key.object_id
               PROVE  i = j
    OBVIOUS
  <2>1. CASE i.key.object_id = FsTree
    BY <1>6, <2>1
  <2>2. CASE i.key.object_id # FsTree
    <3>1. i \in OtherRoots /\ j \in OtherRoots
      BY <1>3, <1>6, <2>2
    <3> QED BY <1>6, <3>1, RootsAssumption
  <2> QED BY <2>1, <2>2
<1>8. \A i \in RootsOf(g) : RootOf(g, i.key.object_id) = i.data[1].root_node_block_number
  BY <1>7 DEF RootOf
<1>9. TreesOf(g) = [t \in {i.key.object_id : i \in RootsOf(g)} |->
                      IF t = FsTree THEN FsItems[g] ELSE FixedItems(RootOf(g, t))]
  BY Zenon DEF TreesOf, RootOf, RootsOf
<1>10. DOMAIN TreesOf(g) = {i.key.object_id : i \in RootsOf(g)}
  BY <1>9
<1>11. ASSUME NEW i \in RootsOf(g), i.key.object_id # FsTree
       PROVE  /\ FixedTree(RootOf(g, i.key.object_id))
              /\ FixedNodes(RootOf(g, i.key.object_id)) \subseteq SharedNodes
              /\ TreesOf(g)[i.key.object_id] = FixedItems(RootOf(g, i.key.object_id))
  <2>1. i \in OtherRoots /\ i.key.object_id >= 256 /\ i.key.item_type = RootItem
    BY <1>3, <1>6, <1>11
  <2>2. FixedTree(i.data[1].root_node_block_number)
    BY <2>1, RootsAssumption
  <2>3. RootOf(g, i.key.object_id) = i.data[1].root_node_block_number
    BY <1>8
  <2>4. TreesOf(g)[i.key.object_id] = FixedItems(RootOf(g, i.key.object_id))
    BY <1>9, <1>11
  <2>5. FixedNodes(i.data[1].root_node_block_number) \subseteq SharedNodes
    BY <2>1 DEF SharedNodes
  <2> QED BY <2>2, <2>3, <2>4, <2>5
<1>12. FsTree \in DOMAIN TreesOf(g) /\ TreesOf(g)[FsTree] = FsItems[g]
  BY <1>3, <1>5, <1>9
<1>13. \A i \in RootsOf(g) : i.key.object_id = FsTree => i.data[1].root_node_block_number = fs
  BY <1>3, <1>6
<1> QED BY <1>2, <1>6, <1>8, <1>10, <1>11, <1>12, <1>13

(* Wherever the program reads, the place is on the device of a chunk.      *)
LEMMA FirstChunk ==
  ASSUME NEW a \in Nat, logical_to_physical_address(AllChunks, a) # None
  PROVE  \E c \in AllChunks : logical_to_physical_address(AllChunks, a).device_id = Head(c.stripes).device_id
<1> DEFINE found == {c \in AllChunks : Covers(c, a)}
           first == CHOOSE c \in found : \A d \in found : c.offset <= d.offset
<1>1. found # {} /\ logical_to_physical_address(AllChunks, a) = AtStripe(first, a)
  BY Zenon DEF logical_to_physical_address
<1>2. \A c \in found : c.offset \in Nat
  BY ChunkIs
<1>3. PICK c \in found : \A d \in found : c.offset <= d.offset
  <2> DEFINE offsets == {c.offset : c \in found}
  <2>1. offsets \subseteq Nat /\ offsets # {}
    BY <1>1, <1>2
  <2> HIDE DEF offsets
  <2>2. PICK o \in offsets : \A p \in offsets : o <= p
    BY <2>1, LeastNumber
  <2> QED BY <2>2 DEF offsets
<1>4. first \in found
  BY <1>3
<1>5. AtStripe(first, a).device_id = Head(first.stripes).device_id
  BY DEF AtStripe
<1> QED BY <1>1, <1>4, <1>5

-----------------------------------------------------------------------------
(* A node of the root tree or of another tree is read.                     *)

(* What is read of a node that a commit has written.                       *)
LEMMA CommitThere ==
  ASSUME FsInv, NEW g \in 1..Newest, Sound(g), NEW a \in {history[g].root, history[g].fs}
  PROVE  /\ NodeAt(Physical(a)) = disk[Physical(a)] /\ a \in Addresses
         /\ from_bytes(disk[Physical(a)]) \in {NodeOf(g, history[g], a), None}
         /\ from_bytes(disk[Physical(a)]) = None => disk[Physical(a)] # NodeOf(g, history[g], a)
         /\ IsLeaf(NodeOf(g, history[g], a))
         /\ LeafItems(NodeOf(g, history[g], a)) =
              IF a = history[g].root THEN RootItems(g, history[g].fs) ELSE FsItems[g]
<1>1. g \in 1..MaxGeneration /\ history[g].root \in Pool /\ history[g].fs \in Pool
  BY HistoryIs
<1>2. a \in Addresses /\ Physical(a) \in DOMAIN disk
  BY <1>1, FixedAddresses, PhysicalPlaces DEF FsInv, DiskOK
<1>3. disk[Physical(a)] \in {NodeOf(g, history[g], a), Garbage, None}
  BY DEF Sound
<1>4. /\ from_bytes(NodeOf(g, history[g], a)) = NodeOf(g, history[g], a) /\ NodeOf(g, history[g], a) # None
      /\ IsLeaf(NodeOf(g, history[g], a))
      /\ LeafItems(NodeOf(g, history[g], a)) =
           IF a = history[g].root THEN RootItems(g, history[g].fs) ELSE FsItems[g]
  <2>1. CASE a = history[g].root
    <3>1. NodeOf(g, history[g], a) = RootNode[g][history[g].fs]
      BY <2>1 DEF NodeOf
    <3> QED BY <1>1, <2>1, <3>1, Bytes, CommitLeaves
  <2>2. CASE a # history[g].root
    <3>1. NodeOf(g, history[g], a) = FsNode[g]
      BY <2>2 DEF NodeOf
    <3> QED BY <1>1, <2>2, <3>1, Bytes, CommitLeaves
  <2> QED BY <2>1, <2>2
<1>5. from_bytes(Garbage) = None /\ from_bytes(None) = None
  BY Bytes
<1> QED BY <1>2, <1>3, <1>4, <1>5 DEF NodeAt

(* What the program finds where it reads next, when all it has read of a   *)
(* generation is right.                                                    *)
LEMMA TreeNode ==
  ASSUME FsInv, NEW g \in 1..Newest, Sound(g), Reading(g), errors = 0, todo # <<>>, todo \in Seq(Nat),
         NEW node, node = from_bytes(NodeAt(Physical(Head(todo))))
  PROVE  /\ Head(todo) \in Addresses
         /\ node = None => ~Readable(g)
         /\ node # None /\ Visit(node) /\ reading' = reading /\ UNCHANGED fsVars =>
              /\ reading = None => RootReading(g)'
              /\ \A t \in {reading} : reading # None => TreeReading(g, t)'
<1> DEFINE a == Head(todo)
<1>1. UNCHANGED fsVars => history' = history /\ disk' = disk
  BY DEF fsVars
<1>2. history[g].root # history[g].fs
  BY HistoryIs
<1>3. CASE reading = None
  <2>1. LeafRead(history[g].root, RootItems(g, history[g].fs))
    BY <1>3 DEF Reading, RootReading
  <2>2. a = history[g].root
    BY <2>1 DEF LeafRead
  <2>3. /\ NodeAt(Physical(a)) = disk[Physical(a)] /\ a \in Addresses
        /\ from_bytes(disk[Physical(a)]) \in {NodeOf(g, history[g], a), None}
        /\ from_bytes(disk[Physical(a)]) = None => disk[Physical(a)] # NodeOf(g, history[g], a)
        /\ IsLeaf(NodeOf(g, history[g], a))
        /\ LeafItems(NodeOf(g, history[g], a)) = RootItems(g, history[g].fs)
    BY <2>2, CommitThere
  <2>4. node = None => ~Readable(g)
    BY <2>2, <2>3 DEF Readable
  <2>5. ASSUME node # None, Visit(node), UNCHANGED fsVars PROVE RootReading(g)'
    <3>1. node = NodeOf(g, history[g], a)
      BY <2>3, <2>5
    <3>2. PICK b, items : b = history[g].root /\ items = RootItems(g, history[g].fs)
      OBVIOUS
    <3>3. LeafRead(b, items)'
      BY <2>1, <2>3, <2>5, <3>1, <3>2, LeafVisit
    <3> QED BY <1>1, <2>5, <3>2, <3>3 DEF RootReading, LeafRead
  <2> QED BY <1>3, <2>3, <2>4, <2>5
<1>4. CASE reading = FsTree /\ reading # None
  <2>1. LeafRead(history[g].fs, FsItems[g])
    BY <1>4 DEF Reading, TreeReading
  <2>2. a = history[g].fs
    BY <2>1 DEF LeafRead
  <2>3. /\ NodeAt(Physical(a)) = disk[Physical(a)] /\ a \in Addresses
        /\ from_bytes(disk[Physical(a)]) \in {NodeOf(g, history[g], a), None}
        /\ from_bytes(disk[Physical(a)]) = None => disk[Physical(a)] # NodeOf(g, history[g], a)
        /\ IsLeaf(NodeOf(g, history[g], a))
        /\ LeafItems(NodeOf(g, history[g], a)) = FsItems[g]
    BY <1>2, <2>2, CommitThere
  <2>4. node = None => ~Readable(g)
    BY <2>2, <2>3 DEF Readable
  <2>5. ASSUME node # None, Visit(node), UNCHANGED fsVars PROVE TreeReading(g, FsTree)'
    <3>1. node = NodeOf(g, history[g], a)
      BY <2>3, <2>5
    <3>2. PICK b, items : b = history[g].fs /\ items = FsItems[g]
      OBVIOUS
    <3>3. LeafRead(b, items)'
      BY <2>1, <2>3, <2>5, <3>1, <3>2, LeafVisit
    <3> QED BY <1>1, <2>5, <3>2, <3>3 DEF TreeReading, LeafRead
  <2> QED BY <1>4, <2>3, <2>4, <2>5
<1>5. CASE reading \notin {None, FsTree}
  <2>1. reading \in DOMAIN TreesOf(g) /\ FixedRead(RootOf(g, reading))
    BY <1>5 DEF Reading, TreeReading
  <2>2. PICK root : root = RootOf(g, reading)
    OBVIOUS
  <2>3. FixedTree(root) /\ FixedRead(root) /\ FixedNodes(root) \subseteq SharedNodes
    <3>1. PICK i \in RootsOf(g) : reading = i.key.object_id
      <4>1. DOMAIN TreesOf(g) = {i.key.object_id : i \in RootsOf(g)}
        BY RootsAre
      <4> QED BY <2>1, <4>1
    <3>2. /\ FixedTree(RootOf(g, i.key.object_id))
          /\ FixedNodes(RootOf(g, i.key.object_id)) \subseteq SharedNodes
      BY <1>5, <3>1, RootsAre
    <3> QED BY <2>1, <2>2, <3>1, <3>2
  <2>4. a \in DOMAIN Fixed /\ a \in SharedNodes
    BY <2>3, FixedNext
  <2>5. node = None => ~Readable(g)
    BY <2>4, FixedThere DEF Readable
  <2>6. ASSUME node # None, Visit(node), reading' = reading, UNCHANGED fsVars
        PROVE  \A t \in {reading} : TreeReading(g, t)'
    <3>1. node = Fixed[a]
      BY <2>4, <2>6, FixedThere
    <3>2. FixedRead(root)'
      BY <2>3, <2>6, <3>1, FixedVisit DEF a
    <3>3. PICK t : t = reading
      OBVIOUS
    <3>4. RootOf(g, t)' = root
      BY <1>1, <2>2, <2>6, <3>3 DEF RootOf, RootsOf
    <3>5. TreeReading(g, t)'
      BY <1>5, <3>2, <3>3, <3>4 DEF TreeReading, FixedRead, HalfRead
    <3> QED BY <3>3, <3>5
  <2>7. a \in Addresses
    BY <2>4, FixedAddresses
  <2> QED BY <1>5, <2>5, <2>6, <2>7
<1> QED BY <1>3, <1>4, <1>5

(* A node of the root tree or of a file system tree is read.               *)
LEMMA StepReadTreeNode ==
  ASSUME IInv, ReadTreeNode
  PROVE  IInv'
<1> DEFINE a == Head(todo)
           place == logical_to_physical_address(chunk_tree, a)
           missing == place # None /\ place.device_id \notin DOMAIN devices
           node == IF place = None \/ missing THEN None ELSE from_bytes(NodeAt(place))
<1>1. /\ pc = "tree" /\ todo # <<>>
      /\ UNCHANGED fsVars /\ UNCHANGED deviceVars
      /\ UNCHANGED <<attempt, reading, chunk_tree, root_tree, filesystem_trees>>
  BY DEF ReadTreeNode, treeVars
<1>2. /\ pc' = IF missing THEN "panic" ELSE pc
      /\ errors' = IF node = None THEN errors + 1 ELSE errors
      /\ IF node = None THEN todo' = Tail(todo) /\ UNCHANGED tree_items ELSE Visit(node)
  BY Zenon DEF ReadTreeNode
<1>3. /\ FsInv /\ DevicesOK /\ ChosenOK /\ Tried /\ ChunksOK /\ TreeOK /\ OpenedOK /\ ReadOK
      /\ superblock # None /\ ChunkDevices /\ chunk_tree = AllChunks
  BY <1>1 DEF IInv, ChosenOK, Tried, TreeOK
<1>4. errors \in Nat /\ todo \in Seq(Nat) /\ a \in Nat /\ Tail(todo) \in Seq(Nat)
  BY <1>1, <1>3, HeadTailProperties DEF ReadOK
<1>5. missing => ~AllGiven
  <2> SUFFICES ASSUME missing PROVE ~AllGiven
    OBVIOUS
  <2>1. PICK c \in AllChunks : place.device_id = Head(c.stripes).device_id
    <3>1. place = logical_to_physical_address(AllChunks, a) /\ place # None
      BY <1>3
    <3> HIDE DEF a, place
    <3> QED BY <1>4, <3>1, FirstChunk
  <2> QED BY <2>1 DEF AllGiven
<1>6. node # None => ~missing /\ place # None /\ node = from_bytes(NodeAt(place))
  OBVIOUS
<1>7. place # None /\ ~missing => node = from_bytes(NodeAt(place))
  OBVIOUS
<1>8. a \in Addresses => place = Physical(a) /\ place # None
  <2> SUFFICES ASSUME a \in Addresses PROVE place = Physical(a) /\ place # None
    OBVIOUS
  <2> HIDE DEF a
  <2> QED BY <1>3, LogicalToPhysical, NoneAssumption
<1> HIDE DEF a, place, missing, node
<1>9. FsInv'
  BY <1>1, <1>3, FsSame
<1>10. pc' \in {"panic", "tree"} /\ (pc' = "panic" <=> missing)
  BY <1>1, <1>2
<1>11. DevicesOK' /\ ChosenOK'
  BY <1>1, <1>3, <1>10, DevicesKept
<1>12. /\ \A n : Attempted(n)' = Attempted(n) /\ (Hopeless(n)' <=> Hopeless(n))
       /\ \A g : /\ Readable(g)' <=> Readable(g)
                 /\ Sound(g)' <=> Sound(g)
                 /\ TreesOf(g)' = TreesOf(g)
       /\ (ChunkDevices' <=> ChunkDevices) /\ (AllGiven' <=> AllGiven)
       /\ history' = history
  BY <1>1, Same
<1>13. Tried'
  <2>1. superblock' = superblock
    BY <1>1 DEF deviceVars
  <2> QED BY <1>1, <1>3, <1>5, <1>10, <1>12, <2>1 DEF Tried, Opened
<1>14. ChunksOK' /\ OpenedOK'
  BY <1>10 DEF ChunksOK, OpenedOK, Opened
<1>15. todo' \in Seq(Nat) /\ TreeItems(tree_items') /\ errors' \in Nat
  <2>1. errors' \in Nat
    BY <1>2, <1>4
  <2>2. CASE node = None
    BY <1>2, <1>3, <1>4, <2>1, <2>2 DEF ReadOK
  <2>3. CASE node # None
    <3>1. IF IsLeaf(node) THEN TreeItems(LeafItems(node)) ELSE Children(node) \in Seq(Nat)
      BY <1>3, <1>6, <2>3, AnyNode
    <3> QED BY <1>1, <1>2, <1>3, <2>1, <2>3, <3>1, VisitTypes DEF ReadOK
  <2> QED BY <2>2, <2>3
<1>16. ReadOK'
  BY <1>1, <1>3, <1>10, <1>15 DEF ReadOK
<1>17. TreeOK'
  <2>1. CASE missing
    BY <1>10, <2>1 DEF TreeOK
  <2>2. CASE ~missing
    <3> SUFFICES ASSUME NEW g \in 1..MaxGeneration, g = Attempted(attempt)', Sound(g)'
                 PROVE  Reading(g)'
      BY <1>1, <1>3 DEF TreeOK
    <3>1. g = Attempted(attempt) /\ Sound(g) /\ g \in 1..Newest
      BY <1>1, <1>12 DEF Sound
    <3>2. Reading(g)
      BY <1>1, <1>3, <3>1 DEF TreeOK
    <3>3. reading # None => PartlyRead(g) /\ reading \in DOMAIN TreesOf(g)
      BY <3>2 DEF Reading
    <3>4. reading' # None => PartlyRead(g)' /\ (reading \in DOMAIN TreesOf(g))'
      BY <1>1, <1>12, <3>3 DEF PartlyRead
    <3>5. CASE errors > 0
      <4>1. ~Readable(g)' /\ errors' > 0
        BY <1>2, <1>4, <1>12, <3>2, <3>5 DEF Reading
      <4> QED BY <3>4, <4>1 DEF Reading
    <3>6. CASE errors = 0 /\ ~(a \in Addresses)
      BY <1>1, <1>3, <1>4, <3>1, <3>2, <3>6, TreeNode DEF a
    <3>7. CASE errors = 0 /\ a \in Addresses /\ node = None
      <4>1. node = from_bytes(NodeAt(Physical(Head(todo))))
        BY <1>7, <1>8, <2>2, <3>7 DEF a
      <4>2. ~Readable(g)
        BY <1>1, <1>3, <1>4, <3>1, <3>2, <3>7, <4>1, TreeNode
      <4>3. ~Readable(g)' /\ errors' > 0
        BY <1>2, <1>12, <3>7, <4>2
      <4> QED BY <3>4, <4>3 DEF Reading
    <3>8. CASE errors = 0 /\ a \in Addresses /\ node # None
      <4>1. node = from_bytes(NodeAt(Physical(Head(todo))))
        BY <1>7, <1>8, <2>2, <3>8 DEF a
      <4>2. Visit(node) /\ errors' = 0
        BY <1>2, <3>8
      <4>3. /\ reading = None => RootReading(g)'
            /\ \A t \in {reading} : reading # None => TreeReading(g, t)'
        BY <1>1, <1>3, <1>4, <3>1, <3>2, <3>8, <4>1, <4>2, TreeNode
      <4>4. reading' = reading
        BY <1>1
      <4>5. reading' = None => RootReading(g)'
        BY <4>3, <4>4
      <4>6. reading' # None => \A t \in {reading'} : TreeReading(g, t)'
        BY <4>3, <4>4
      <4> QED BY <3>4, <4>2, <4>5, <4>6 DEF Reading
    <3> QED BY <1>4, <3>5, <3>6, <3>7, <3>8
  <2> QED BY <2>1, <2>2
<1> QED BY <1>9, <1>11, <1>13, <1>14, <1>16, <1>17 DEF IInv

-----------------------------------------------------------------------------
(* A tree is read.                                                         *)

(* The trees that the program goes on to read are those of the generation. *)
LEMMA RootsFound ==
  ASSUME FsInv, NEW g \in 1..Newest, NEW items, items = RootItems(g, history[g].fs)
  PROVE  /\ \A n \in DOMAIN subvolume_root_items(items) : subvolume_root_items(items)[n] \in RootsOf(g)
         /\ \A i \in RootsOf(g) : \E n \in DOMAIN subvolume_root_items(items) : subvolume_root_items(items)[n] = i
<1> DEFINE found == {i \in items :
                       /\ i.key.item_type = RootItem
                       /\ i.key.object_id >= 128 \/ i.key.object_id <= -128 \/ i.key.object_id = FsTree}
<1>1. TreeItems(items)
  BY RootsAre
<1>2. g \in 1..MaxGeneration
  BY HistoryIs
<1>3. \A i \in items : i.key.object_id \in Int
  BY <1>1 DEF TreeItems
<1>4. \A i \in items : i.key.item_type = RootItem =>
         i.key.object_id = FsTree \/ (i \in OtherRoots)
  BY <1>2, RootsAssumption DEF RootItems, Key, RootItem, RootBackref
<1>5. \A i \in items : i.key.item_type = RootItem =>
         i.key.object_id = FsTree \/ i.key.object_id \in -127..127 \/ i.key.object_id >= 256
  <2>1. \A i \in OtherRoots : i.key.item_type = RootItem =>
          i.key.object_id \in -127..127 \/ i.key.object_id >= 256
    <3>1. \A i \in OtherRoots : i.key.item_type = RootItem =>
            /\ i.key.object_id \in -127..127 \ {FsTree} \/ i.key.object_id >= 256
            /\ i.key.object_id >= 256 => FixedTree(i.data[1].root_node_block_number)
      BY RootsAssumption, Zenon
    <3> QED BY <3>1
  <2> QED BY <1>4, <2>1
<1>6. found = RootsOf(g)
  <2>1. ASSUME NEW i \in items, i.key.item_type = RootItem
        PROVE  (i.key.object_id >= 128 \/ i.key.object_id <= -128 \/ i.key.object_id = FsTree)
                 <=> (i.key.object_id = FsTree \/ i.key.object_id >= 256)
    BY <1>3, <1>5, <2>1
  <2> QED BY <2>1 DEF RootsOf
<1>7. subvolume_root_items(items) = InOrder(found)
  BY Zenon DEF subvolume_root_items
<1>8. TreeItems(found)
  BY <1>1, TreeItemsSubset
<1> HIDE DEF found
<1> QED BY <1>6, <1>7, <1>8, OrderedItems

(* Whatever has been read, the roots are numbered and lead to a tree.      *)
LEMMA AnyRoots ==
  ASSUME NEW items, TreeItems(items)
  PROVE  /\ DOMAIN subvolume_root_items(items) \subseteq Nat
         /\ \A n \in DOMAIN subvolume_root_items(items) :
              /\ subvolume_root_items(items)[n].key.object_id \in Int
              /\ subvolume_root_items(items)[n].data[1].root_node_block_number \in Nat
<1> DEFINE found == {i \in items :
                       /\ i.key.item_type = RootItem
                       /\ i.key.object_id >= 128 \/ i.key.object_id <= -128 \/ i.key.object_id = FsTree}
<1>1. TreeItems(found)
  BY TreeItemsSubset
<1>2. \A i \in found : i.key.object_id \in Int /\ i.data[1].root_node_block_number \in Nat
  BY DEF TreeItems
<1>3. subvolume_root_items(items) = InOrder(found)
  BY Zenon DEF subvolume_root_items
<1> HIDE DEF found
<1>4. /\ DOMAIN InOrder(found) = 1..Cardinality(found) /\ Cardinality(found) \in Nat
      /\ \A n \in DOMAIN InOrder(found) : InOrder(found)[n] \in found
  BY <1>1, OrderedItems
<1> QED BY <1>2, <1>3, <1>4

(* What has been read of a tree of a generation when nothing is to read.   *)
LEMMA TreeDone ==
  ASSUME FsInv, NEW g \in 1..Newest, Reading(g), ReadOK, pc = "tree", errors = 0, todo = <<>>,
         NEW root_items, root_items = IF reading = None THEN tree_items ELSE root_tree,
         NEW trees, trees = IF reading = None THEN filesystem_trees
                            ELSE WithEntry(filesystem_trees, reading, tree_items)
  PROVE  /\ root_items = RootItems(g, history[g].fs)
         /\ DOMAIN trees \subseteq DOMAIN TreesOf(g)
         /\ \A t \in DOMAIN trees : trees[t] = TreesOf(g)[t]
         /\ DOMAIN trees = DOMAIN TreesOf(g) => trees = TreesOf(g)
<1>1. CASE reading = None
  <2>1. RootReading(g)
    BY <1>1 DEF Reading
  <2>2. root_items = RootItems(g, history[g].fs)
    BY <1>1, <2>1 DEF RootReading, LeafRead
  <2>3. trees = <<>> /\ DOMAIN trees = {}
    BY <1>1 DEF ReadOK
  <2>4. DOMAIN TreesOf(g) # {}
    BY RootsAre
  <2> QED BY <2>2, <2>3, <2>4
<1>2. CASE reading # None
  <2>1. PartlyRead(g) /\ reading \in DOMAIN TreesOf(g) /\ TreeReading(g, reading)
    BY <1>2 DEF Reading
  <2>2. tree_items = TreesOf(g)[reading]
    <3>1. CASE reading = FsTree
      BY <2>1, <3>1, RootsAre DEF TreeReading, LeafRead
    <3>2. CASE reading # FsTree
      <4>1. DOMAIN TreesOf(g) = {i.key.object_id : i \in RootsOf(g)}
        BY RootsAre
      <4>2. PICK i \in RootsOf(g) : reading = i.key.object_id
        BY <2>1, <4>1
      <4>3. FixedTree(RootOf(g, i.key.object_id)) /\ TreesOf(g)[i.key.object_id] = FixedItems(RootOf(g, i.key.object_id))
        BY <3>2, <4>2, RootsAre
      <4>4. PICK root : root = RootOf(g, reading)
        OBVIOUS
      <4>5. FixedRead(root) /\ FixedTree(root) /\ TreesOf(g)[reading] = FixedItems(root)
        BY <2>1, <3>2, <4>2, <4>3, <4>4 DEF TreeReading
      <4> QED BY <4>5, FixedDone
    <3> QED BY <3>1, <3>2
  <2>3. /\ DOMAIN trees = DOMAIN filesystem_trees \cup {reading}
        /\ \A y \in DOMAIN filesystem_trees : y # reading => trees[y] = filesystem_trees[y]
        /\ trees[reading] = tree_items
    <3>1. trees = WithEntry(filesystem_trees, reading, tree_items)
      BY <1>2
    <3> QED BY <3>1 DEF WithEntry
  <2>4. /\ root_tree = RootItems(g, history[g].fs) /\ DOMAIN filesystem_trees \subseteq DOMAIN TreesOf(g)
        /\ \A t \in DOMAIN filesystem_trees : filesystem_trees[t] = TreesOf(g)[t]
    BY <2>1 DEF PartlyRead
  <2>5. \A t \in DOMAIN trees : trees[t] = TreesOf(g)[t]
    BY <2>2, <2>3, <2>4
  <2>6. trees = [t \in DOMAIN trees |-> trees[t]]
    BY <1>2 DEF WithEntry
  <2>7. TreesOf(g) = [t \in DOMAIN TreesOf(g) |-> TreesOf(g)[t]]
    <3>1. TreesOf(g) = [t \in {i.key.object_id : i \in RootsOf(g)} |->
                          IF t = FsTree THEN FsItems[g] ELSE FixedItems(RootOf(g, t))]
      BY Zenon DEF TreesOf, RootOf, RootsOf
    <3> QED BY <3>1
  <2>8. DOMAIN trees \subseteq DOMAIN TreesOf(g)
    BY <2>1, <2>3, <2>4
  <2>9. root_items = RootItems(g, history[g].fs)
    BY <1>2, <2>4
  <2>10. ASSUME DOMAIN trees = DOMAIN TreesOf(g) PROVE trees = TreesOf(g)
    <3> HIDE DEF TreesOf
    <3> QED BY <2>5, <2>6, <2>7, <2>10
  <2> QED BY <2>5, <2>8, <2>9, <2>10
<1> QED BY <1>1, <1>2

(* An error of the tree that is read: what is attempted cannot be read.    *)
LEMMA ErrorHopeless ==
  ASSUME IInv, pc = "tree", errors > 0
  PROVE  Hopeless(attempt)
<1>1. /\ FsInv /\ DevicesOK /\ ChosenOK /\ superblock # None /\ attempt \in 0..4
      /\ \A g \in 1..MaxGeneration : g = Attempted(attempt) /\ Sound(g) => Reading(g)
  BY DEF IInv, ChosenOK, Tried, TreeOK
<1>2. CASE Sound(Attempted(attempt))
  <2>1. Attempted(attempt) \in 1..MaxGeneration
    BY <1>1, <1>2, HistoryIs DEF Sound
  <2>2. PICK g \in 1..MaxGeneration : g = Attempted(attempt)
    BY <2>1
  <2>3. Reading(g)
    BY <1>1, <1>2, <2>2
  <2> QED BY <2>2, <2>3 DEF Reading, Hopeless
<1>3. CASE ~Sound(Attempted(attempt))
  <2>1. ~Readable(Attempted(attempt))
    BY <1>1, <1>3, WholeIsSound
  <2> QED BY <2>1 DEF Hopeless
<1> QED BY <1>2, <1>3

(* A tree has been read, and the next is begun.                            *)
LEMMA StepTreeRead ==
  ASSUME IInv, TreeRead
  PROVE  IInv'
<1>1. pc = "tree" /\ todo = <<>> /\ UNCHANGED fsVars /\ UNCHANGED deviceVars
  BY DEF TreeRead
<1>2. /\ FsInv /\ DevicesOK /\ ChosenOK /\ Tried /\ ChunksOK /\ TreeOK /\ OpenedOK /\ ReadOK
      /\ superblock # None /\ ChunkDevices /\ chunk_tree = AllChunks /\ errors \in Nat
  BY <1>1 DEF IInv, ChosenOK, Tried, TreeOK, ReadOK
<1>3. FsInv'
  BY <1>1, <1>2, FsSame
<1>4. CASE errors > 0
  <2>1. FailOpen
    BY <1>4 DEF TreeRead
  <2>2. Hopeless(attempt)
    BY <1>1, <1>4, ErrorHopeless
  <2>3. Tried' /\ ChunksOK' /\ TreeOK' /\ OpenedOK' /\ ReadOK' /\ pc' \in {"chunks", "failed"}
    BY <1>1, <2>1, <2>2, FailStep
  <2>4. DevicesOK' /\ ChosenOK'
    BY <1>1, <1>2, <2>3, DevicesKept
  <2> QED BY <1>3, <2>3, <2>4 DEF IInv
<1>5. CASE ~(errors > 0)
  <2>1. PICK items, trees :
          /\ items = IF reading = None THEN tree_items ELSE root_tree
          /\ trees = IF reading = None THEN filesystem_trees
                     ELSE WithEntry(filesystem_trees, reading, tree_items)
    OBVIOUS
  <2> DEFINE roots == subvolume_root_items(items)
             unread == Unread(roots, trees)
             next == roots[Min(unread)]
  <2>2. /\ root_tree' = items /\ filesystem_trees' = trees /\ tree_items' = {}
        /\ UNCHANGED <<attempt, errors, chunk_tree>>
        /\ IF unread = {}
           THEN pc' = "opened" /\ reading' = None /\ UNCHANGED todo
           ELSE /\ reading' = next.key.object_id
                /\ todo' = <<next.data[1].root_node_block_number>>
                /\ UNCHANGED pc
    BY <1>5, <2>1, Zenon DEF TreeRead
  <2>3. TreeItems(items)
    BY <1>2, <2>1 DEF ReadOK
  <2>4. /\ DOMAIN roots \subseteq Nat
        /\ \A n \in DOMAIN roots :
             roots[n].key.object_id \in Int /\ roots[n].data[1].root_node_block_number \in Nat
    BY <2>3, AnyRoots
  <2> HIDE DEF roots
  <2>5. unread # {} => /\ Min(unread) \in DOMAIN roots /\ next.key.object_id \notin DOMAIN trees
                       /\ next.key.object_id \in Int /\ next.data[1].root_node_block_number \in Nat
    <3> SUFFICES ASSUME unread # {}
                 PROVE  Min(unread) \in DOMAIN roots /\ next.key.object_id \notin DOMAIN trees
      BY <2>4
    <3>1. unread \subseteq Nat
      BY <2>4 DEF Unread
    <3> HIDE DEF unread
    <3>2. Min(unread) \in unread
      BY <3>1, MinOfNumbers
    <3> QED BY <3>2 DEF unread, Unread
  <2> HIDE DEF unread, next
  <2>6. pc' \in {"tree", "opened"} /\ (pc' = "opened" <=> unread = {})
    BY <1>1, <2>2
  <2>7. DevicesOK' /\ ChosenOK'
    BY <1>1, <1>2, <2>6, DevicesKept
  <2>8. /\ \A n : Attempted(n)' = Attempted(n) /\ (Hopeless(n)' <=> Hopeless(n))
        /\ \A g : /\ Readable(g)' <=> Readable(g)
                  /\ Sound(g)' <=> Sound(g)
                  /\ TreesOf(g)' = TreesOf(g)
                  /\ \A t : RootOf(g, t)' = RootOf(g, t)
        /\ (ChunkDevices' <=> ChunkDevices) /\ history' = history
    BY <1>1, Same
  <2>9. Tried'
    <3>1. superblock' = superblock
      BY <1>1 DEF deviceVars
    <3> QED BY <1>2, <2>2, <2>6, <2>8, <3>1 DEF Tried, Opened
  <2>10. ChunksOK'
    BY <2>6 DEF ChunksOK
  <2>11. ReadOK'
    <3>1. TreeItems(tree_items') /\ TreeItems(root_tree')
      BY <2>2, <2>3, NoItems
    <3>2. todo' \in Seq(Nat) /\ errors' \in Nat
      <4>1. unread # {} => <<next.data[1].root_node_block_number>> \in Seq(Nat)
        BY <2>5
      <4>2. <<>> \in Seq(Nat)
        OBVIOUS
      <4> QED BY <1>1, <1>2, <2>2, <4>1, <4>2
    <3>3. unread = {} => reading' = None /\ pc' = "opened"
      BY <2>2
    <3>4. unread # {} => reading' \in Int \ DOMAIN filesystem_trees' /\ reading' # None
      BY <2>2, <2>5, NoneAssumption
    <3> QED BY <2>6, <3>1, <3>2, <3>3, <3>4 DEF ReadOK
  <2>12. ASSUME NEW g \in 1..MaxGeneration, g = Attempted(attempt)', Sound(g)'
         PROVE  /\ g \in 1..Newest
                /\ items = RootItems(g, history[g].fs)
                /\ DOMAIN trees \subseteq DOMAIN TreesOf(g)
                /\ \A t \in DOMAIN trees : trees[t] = TreesOf(g)[t]
                /\ DOMAIN trees = DOMAIN TreesOf(g) => trees = TreesOf(g)
                /\ DOMAIN TreesOf(g) = {i.key.object_id : i \in RootsOf(g)}
                /\ \A n \in DOMAIN roots : roots[n] \in RootsOf(g)
                /\ \A i \in RootsOf(g) : \E n \in DOMAIN roots : roots[n] = i
    <3>1. g = Attempted(attempt) /\ Sound(g) /\ g \in 1..Newest
      BY <2>2, <2>8, <2>12 DEF Sound
    <3>2. Reading(g)
      BY <1>1, <1>2, <3>1 DEF TreeOK
    <3>3. errors = 0
      BY <1>2, <1>5
    <3>4. /\ items = RootItems(g, history[g].fs)
          /\ DOMAIN trees \subseteq DOMAIN TreesOf(g)
          /\ \A t \in DOMAIN trees : trees[t] = TreesOf(g)[t]
          /\ DOMAIN trees = DOMAIN TreesOf(g) => trees = TreesOf(g)
      BY <1>1, <1>2, <2>1, <3>1, <3>2, <3>3, TreeDone
    <3>5. /\ \A n \in DOMAIN roots : roots[n] \in RootsOf(g)
          /\ \A i \in RootsOf(g) : \E n \in DOMAIN roots : roots[n] = i
      BY <1>2, <3>1, <3>4, RootsFound DEF roots
    <3>6. DOMAIN TreesOf(g) = {i.key.object_id : i \in RootsOf(g)}
      BY <1>2, <3>1, RootsAre
    <3> QED BY <3>1, <3>4, <3>5, <3>6
  <2>13. TreeOK'
    <3> SUFFICES ASSUME pc' = "tree", NEW g \in 1..MaxGeneration, g = Attempted(attempt)', Sound(g)'
                 PROVE  Reading(g)'
      BY <1>2, <2>2 DEF TreeOK
    <3>1. /\ items = RootItems(g, history[g].fs) /\ g \in 1..Newest
          /\ DOMAIN trees \subseteq DOMAIN TreesOf(g)
          /\ \A t \in DOMAIN trees : trees[t] = TreesOf(g)[t]
          /\ DOMAIN TreesOf(g) = {i.key.object_id : i \in RootsOf(g)}
          /\ \A n \in DOMAIN roots : roots[n] \in RootsOf(g)
      BY <2>12
    <3>2. PartlyRead(g)'
      BY <2>2, <2>8, <3>1 DEF PartlyRead
    <3>3. unread # {}
      BY <2>6
    <3>4. next \in RootsOf(g)
      BY <2>5, <3>1, <3>3 DEF next
    <3>5. PICK t : t = next.key.object_id
      OBVIOUS
    <3>6. reading' = t /\ t # None /\ t \in DOMAIN TreesOf(g) /\ todo' = <<next.data[1].root_node_block_number>>
      BY <2>2, <2>5, <3>1, <3>3, <3>4, <3>5, NoneAssumption
    <3>7. TreeReading(g, t)'
      <4>1. CASE t = FsTree
        <5>1. todo' = <<history[g].fs>>
          BY <1>2, <3>1, <3>4, <3>5, <3>6, <4>1, RootsAre
        <5>2. history'[g].fs = history[g].fs
          BY <2>8
        <5> QED BY <2>2, <4>1, <5>1, <5>2 DEF TreeReading, LeafRead
      <4>2. CASE t # FsTree
        <5>1. todo' = <<RootOf(g, t)>>
          BY <1>2, <3>1, <3>4, <3>5, <3>6, <4>2, RootsAre
        <5>2. PICK root : root = RootOf(g, t)
          OBVIOUS
        <5>3. RootOf(g, t)' = root /\ todo' = <<root>> /\ tree_items' = {}
          BY <2>2, <2>8, <5>1, <5>2
        <5> QED BY <4>2, <5>3 DEF TreeReading, FixedRead
      <4> QED BY <4>1, <4>2
    <3>8. errors' = 0
      BY <1>2, <1>5, <2>2
    <3>9. (reading \in DOMAIN TreesOf(g))'
      BY <2>8, <3>6
    <3> QED BY <3>2, <3>6, <3>7, <3>8, <3>9 DEF Reading
  <2>14. OpenedOK'
    <3> SUFFICES ASSUME pc' = "opened", NEW g \in 1..MaxGeneration, g = Attempted(attempt)', Sound(g)'
                 PROVE  (root_tree = RootItems(g, history[g].fs) /\ filesystem_trees = TreesOf(g))'
      BY <2>6 DEF OpenedOK, Opened
    <3>1. /\ items = RootItems(g, history[g].fs) /\ g \in 1..Newest
          /\ DOMAIN trees \subseteq DOMAIN TreesOf(g)
          /\ DOMAIN trees = DOMAIN TreesOf(g) => trees = TreesOf(g)
          /\ DOMAIN TreesOf(g) = {i.key.object_id : i \in RootsOf(g)}
          /\ \A i \in RootsOf(g) : \E n \in DOMAIN roots : roots[n] = i
      BY <2>12
    <3>2. \A n \in DOMAIN roots : roots[n].key.object_id \in DOMAIN trees
      <4>1. unread = {}
        BY <2>6
      <4> QED BY <4>1 DEF unread, Unread
    <3>3. trees = TreesOf(g)
      <4>1. ASSUME NEW i \in RootsOf(g) PROVE i.key.object_id \in DOMAIN trees
        <5>1. PICK n \in DOMAIN roots : roots[n] = i
          BY <3>1
        <5> QED BY <3>2, <5>1
      <4>2. DOMAIN trees = DOMAIN TreesOf(g)
        BY <3>1, <4>1
      <4> QED BY <3>1, <4>2
    <3> QED BY <2>2, <2>8, <3>1, <3>3
  <2> QED BY <1>3, <2>7, <2>9, <2>10, <2>11, <2>13, <2>14 DEF IInv
<1> QED BY <1>4, <1>5

-----------------------------------------------------------------------------
(* The other steps.                                                        *)

(* The invariant holds at first,                                           *)
LEMMA IInvInit == Init => IInv
<1> SUFFICES ASSUME Init PROVE IInv
  OBVIOUS
<1>1. /\ pc = "off" /\ given = <<>> /\ devices = <<>> /\ superblock = None
      /\ attempt = 0 /\ todo = <<>> /\ tree_items = {} /\ errors = 0 /\ reading = None
      /\ chunk_tree = {} /\ root_tree = {} /\ filesystem_trees = <<>>
  BY Zenon DEF Init
<1>2. FsInv
  BY FsInit
<1>3. DevicesOK
  <2>1. DOMAIN devices = {} /\ Added = 0
    BY <1>1, FS_EmptySet DEF Added
  <2>2. given \in Seq(Devices) /\ Len(given) = 0
    BY <1>1
  <2> QED BY <1>1, <2>1, <2>2, FS_EmptySet DEF DevicesOK
<1>4. ChosenOK /\ Tried
  BY <1>1 DEF ChosenOK, Tried, Opened
<1>5. ChunksOK /\ TreeOK /\ OpenedOK
  BY <1>1 DEF ChunksOK, TreeOK, OpenedOK, Opened
<1>6. ReadOK
  BY <1>1, NoItems DEF ReadOK
<1> QED BY <1>2, <1>3, <1>4, <1>5, <1>6 DEF IInv

(* it is kept by the file system, which is not mounted once it is opened,  *)
LEMMA StepFileSystem ==
  ASSUME IInv, FileSystem
  PROVE  IInv'
<1>1. pc = "off" /\ UNCHANGED progVars
  BY Zenon DEF FileSystem, BeginCommit, WriteNode, WriteSuper, LoseNode, LoseSuper
<1>2. /\ pc' = pc /\ given' = given /\ devices' = devices /\ superblock' = superblock
      /\ attempt' = attempt /\ todo' = todo /\ tree_items' = tree_items /\ errors' = errors /\ reading' = reading
      /\ chunk_tree' = chunk_tree /\ root_tree' = root_tree /\ filesystem_trees' = filesystem_trees
  BY <1>1 DEF progVars, deviceVars, readVars, treeVars
<1>3. FsInv'
  BY FsStep DEF IInv, Next
<1>4. DevicesOK'
  <2>1. devices = <<>>
    BY <1>1 DEF IInv, DevicesOK
  <2>2. DOMAIN devices = {} /\ Added' = Added
    BY <1>2, <2>1 DEF Added
  <2> QED BY <1>2, <2>1, <2>2 DEF IInv, DevicesOK
<1>5. ChosenOK' /\ Tried'
  <2>1. superblock = None /\ attempt = 0
    BY <1>1 DEF IInv, ChosenOK, Tried
  <2> QED BY <1>1, <1>2, <2>1 DEF ChosenOK, Tried, Opened
<1>6. ChunksOK' /\ TreeOK' /\ OpenedOK'
  BY <1>1, <1>2 DEF ChunksOK, TreeOK, OpenedOK, Opened
<1>7. ReadOK'
  BY <1>2 DEF IInv, ReadOK
<1> QED BY <1>3, <1>4, <1>5, <1>6, <1>7 DEF IInv

(* when devices are given,                                                 *)
LEMMA StepOpen ==
  ASSUME IInv, NEW list \in Given, Open(list)
  PROVE  IInv'
<1>1. /\ pc = "off" /\ pc' = "devices" /\ given' = list
      /\ UNCHANGED fsVars
      /\ devices' = devices /\ superblock' = superblock
      /\ attempt' = attempt /\ todo' = todo /\ tree_items' = tree_items /\ errors' = errors /\ reading' = reading
      /\ chunk_tree' = chunk_tree /\ root_tree' = root_tree /\ filesystem_trees' = filesystem_trees
  BY DEF Open, readVars, treeVars
<1>2. FsInv'
  BY <1>1, FsSame DEF IInv
<1>3. DevicesOK'
  <2>1. devices' = <<>> /\ DOMAIN devices' = {}
    BY <1>1 DEF IInv, DevicesOK
  <2>2. Added' = 0
    BY <2>1, FS_EmptySet DEF Added
  <2>3. list \in Seq(Devices) /\ Len(list) \in Nat
    BY ConstantsAssumption, LenProperties
  <2> QED BY <1>1, <2>1, <2>2, <2>3, FS_EmptySet DEF DevicesOK
<1>4. ChosenOK' /\ Tried'
  <2>1. superblock = None /\ attempt = 0
    BY <1>1 DEF IInv, ChosenOK, Tried
  <2> QED BY <1>1, <2>1 DEF ChosenOK, Tried, Opened
<1>5. ChunksOK' /\ TreeOK' /\ OpenedOK'
  BY <1>1 DEF ChunksOK, TreeOK, OpenedOK, Opened
<1>6. ReadOK'
  BY <1>1 DEF IInv, ReadOK
<1> QED BY <1>2, <1>3, <1>4, <1>5, <1>6 DEF IInv

(* when one is added,                                                      *)
LEMMA StepAddDevice ==
  ASSUME IInv, AddDevice
  PROVE  IInv'
<1>1. /\ pc = "devices" /\ UNCHANGED fsVars /\ superblock' = superblock
      /\ attempt' = attempt /\ todo' = todo /\ tree_items' = tree_items /\ errors' = errors /\ reading' = reading
      /\ chunk_tree' = chunk_tree /\ root_tree' = root_tree /\ filesystem_trees' = filesystem_trees
  BY DEF AddDevice, readVars, treeVars
<1>2. pc' \in {"devices", "failed"}
  BY <1>1, Zenon DEF AddDevice
<1>3. FsInv'
  BY <1>1, FsSame DEF IInv
<1>4. DevicesOK' /\ ChosenOK'
  BY DevicesAdd DEF IInv
<1>5. Tried'
  <2>1. superblock = None /\ attempt = 0
    BY <1>1 DEF IInv, ChosenOK, Tried
  <2> QED BY <1>1, <1>2, <2>1 DEF Tried, Opened
<1>6. ChunksOK' /\ TreeOK' /\ OpenedOK'
  BY <1>2 DEF ChunksOK, TreeOK, OpenedOK, Opened
<1>7. ReadOK'
  BY <1>1, <1>2 DEF IInv, ReadOK
<1> QED BY <1>3, <1>4, <1>5, <1>6, <1>7 DEF IInv

(* when the superblock is chosen,                                          *)
LEMMA StepEndDevices ==
  ASSUME IInv, EndDevices
  PROVE  IInv'
<1>1. /\ pc = "devices" /\ UNCHANGED fsVars
      /\ attempt' = attempt /\ tree_items' = tree_items /\ errors' = errors /\ reading' = reading
      /\ chunk_tree' = chunk_tree /\ root_tree' = root_tree /\ filesystem_trees' = filesystem_trees
      /\ \/ pc' = "failed" /\ superblock' = superblock /\ todo' = todo
         \/ pc' = "chunks" /\ todo' = <<SuperblockOf(superblock').chunk_root>>
  BY DEF EndDevices, treeVars
<1>2. FsInv'
  BY <1>1, FsSame DEF IInv
<1>3. DevicesOK' /\ ChosenOK'
  BY DevicesEnd DEF IInv
<1>0. ASSUME pc' = "chunks"
      PROVE  \E root \in Nat : todo' = <<root>> /\ ChunkRoot' = root
  <2>1. UNCHANGED <<supers, devices>>
    BY DEF EndDevices, fsVars
  <2>2. PICK d \in DOMAIN devices : d = superblock'
    BY <1>0, <1>3, <2>1 DEF ChosenOK
  <2>3. d \in Devices /\ devices[d] \in Places[d] /\ supers[d][devices[d]] # None
    BY DevicesAre DEF IInv, DevicesOK
  <2>4. PICK g \in 1..MaxGeneration : SuperblockOf(d) = Superblock(g, history)
    BY <2>3, SuperIs, HistoryIs DEF IInv, SuperblockOf
  <2>5. SuperblockOf(d).chunk_root = ChunkRoots[g] /\ ChunkRoots[g] \in Nat
    BY <2>4, FixedAddresses, FixedAssumption DEF Superblock
  <2>6. ChunkRoot' = SuperblockOf(d).chunk_root
    BY <2>1, <2>2 DEF ChunkRoot, SuperblockOf
  <2> QED BY <1>0, <1>1, <2>2, <2>5, <2>6
<1>4. /\ superblock = None /\ attempt = 0 /\ ReadOK /\ TreeItems(tree_items)
      /\ tree_items = {} /\ errors = 0 /\ reading = None /\ chunk_tree = {} /\ root_tree = {} /\ filesystem_trees = <<>>
  BY <1>1 DEF IInv, ChosenOK, Tried, ReadOK
<1>5. Tried'
  BY <1>1, <1>4 DEF Tried, Opened
<1>6. ChunksOK'
  <2> SUFFICES ASSUME pc' = "chunks", NEW root, root = ChunkRoot' PROVE FixedRead(root)' /\ ChunksSeen(root)'
    BY <1>1, <1>4 DEF ChunksOK
  <2> QED BY <1>0, <1>1, <1>4 DEF FixedRead, ChunksSeen
<1>7. TreeOK' /\ OpenedOK'
  BY <1>1 DEF TreeOK, OpenedOK, Opened
<1>8. ReadOK'
  <2>1. \A root \in Nat : <<root>> \in Seq(Nat)
    OBVIOUS
  <2>2. todo' \in Seq(Nat)
    BY <1>0, <1>1, <1>4, <2>1 DEF ReadOK
  <2> QED BY <1>1, <1>4, <2>2 DEF ReadOK
<1> QED BY <1>2, <1>3, <1>5, <1>6, <1>7, <1>8 DEF IInv

(* Naming a subvolume changes nothing of what has been opened.             *)
LEMMA StepNaming ==
  ASSUME IInv, \/ Climb
               \/ \E of \in subvolume_root_backrefs(root_tree) : SubvolumePath(of)
  PROVE  IInv'
<1>1. /\ UNCHANGED fsVars /\ UNCHANGED deviceVars /\ UNCHANGED readVars /\ UNCHANGED treeVars
      /\ pc \in {"opened", "climb"} /\ pc' \in {"climb", "named", "unnamed"}
  BY Zenon DEF Climb, SubvolumePath
<1>2. /\ attempt' = attempt /\ todo' = todo /\ tree_items' = tree_items /\ errors' = errors /\ reading' = reading
      /\ root_tree' = root_tree /\ filesystem_trees' = filesystem_trees
      /\ superblock' = superblock
  BY <1>1 DEF readVars, treeVars, deviceVars
<1>3. FsInv'
  BY <1>1, FsSame DEF IInv
<1>4. DevicesOK' /\ ChosenOK'
  BY <1>1, DevicesKept DEF IInv
<1>5. /\ \A n : Attempted(n)' = Attempted(n) /\ (Hopeless(n)' <=> Hopeless(n))
      /\ \A g : (Sound(g)' <=> Sound(g)) /\ TreesOf(g)' = TreesOf(g)
      /\ (ChunkDevices' <=> ChunkDevices) /\ history' = history
  BY <1>1, Same
<1>6. Tried'
  BY <1>1, <1>2, <1>5 DEF IInv, Tried, Opened
<1>7. ChunksOK' /\ TreeOK'
  BY <1>1 DEF ChunksOK, TreeOK
<1>8. OpenedOK'
  <2> SUFFICES ASSUME NEW g \in 1..MaxGeneration, g = Attempted(attempt)', Sound(g)'
               PROVE  (root_tree = RootItems(g, history[g].fs) /\ filesystem_trees = TreesOf(g))'
    BY DEF OpenedOK
  <2>1. g = Attempted(attempt) /\ Sound(g)
    BY <1>2, <1>5
  <2>2. root_tree = RootItems(g, history[g].fs) /\ filesystem_trees = TreesOf(g)
    BY <1>1, <2>1 DEF IInv, OpenedOK, Opened
  <2> QED BY <1>2, <1>5, <2>2
<1>9. ReadOK'
  BY <1>1, <1>2 DEF IInv, ReadOK
<1> QED BY <1>3, <1>4, <1>6, <1>7, <1>8, <1>9 DEF IInv

(* and when nothing happens.                                               *)
LEMMA StepNothing ==
  ASSUME IInv, UNCHANGED vars
  PROVE  IInv'
<1>1. /\ UNCHANGED fsVars /\ UNCHANGED deviceVars
      /\ pc' = pc /\ given' = given /\ devices' = devices /\ superblock' = superblock
      /\ attempt' = attempt /\ todo' = todo /\ tree_items' = tree_items /\ errors' = errors /\ reading' = reading
      /\ chunk_tree' = chunk_tree /\ root_tree' = root_tree /\ filesystem_trees' = filesystem_trees
  BY DEF vars, progVars, deviceVars, readVars, treeVars
<1>2. FsInv'
  BY <1>1, FsSame DEF IInv
<1>3. supers' = supers /\ Added' = Added /\ \A d : SuperblockOf(d)' = SuperblockOf(d)
  BY <1>1 DEF fsVars, Added, SuperblockOf
<1>4. DevicesOK'
  BY <1>1, <1>3 DEF IInv, DevicesOK
<1>5. ChosenOK'
  <2>1. Chosen' = Chosen
    BY <1>1, <1>3 DEF Chosen, SuperblockOf
  <2> QED BY <1>1, <1>3, <2>1 DEF IInv, ChosenOK, Chosen
<1>6. /\ \A n : Attempted(n)' = Attempted(n) /\ (Hopeless(n)' <=> Hopeless(n))
      /\ \A g : /\ Readable(g)' <=> Readable(g)
                /\ Sound(g)' <=> Sound(g)
                /\ TreesOf(g)' = TreesOf(g)
                /\ \A t : RootOf(g, t)' = RootOf(g, t)
      /\ (ChunkDevices' <=> ChunkDevices) /\ (AllGiven' <=> AllGiven)
      /\ history' = history
  BY <1>1, Same
<1>7. Tried'
  BY <1>1, <1>6 DEF IInv, Tried, Opened
<1>8. ChunksOK'
  <2>1. PICK root : root = ChunkRoot /\ root = ChunkRoot'
    BY <1>1, Same
  <2>2. FixedRead(root)' <=> FixedRead(root)
    BY <1>1 DEF FixedRead, HalfRead
  <2>3. ChunksSeen(root)' <=> ChunksSeen(root)
    BY <1>1 DEF ChunksSeen
  <2> QED BY <1>1, <2>1, <2>2, <2>3 DEF IInv, ChunksOK
<1>9. TreeOK'
  <2> SUFFICES ASSUME pc = "tree", NEW g \in 1..MaxGeneration, g = Attempted(attempt)', Sound(g)'
               PROVE  Reading(g)'
    BY <1>1 DEF IInv, TreeOK
  <2>1. Reading(g)
    BY <1>1, <1>6 DEF IInv, TreeOK
  <2>2. RootReading(g)' <=> RootReading(g)
    BY <1>1, <1>6 DEF RootReading, LeafRead
  <2>3. ASSUME NEW t PROVE TreeReading(g, t)' <=> TreeReading(g, t)
    <3>1. PICK root : root = RootOf(g, t)
      OBVIOUS
    <3>2. RootOf(g, t)' = root
      BY <1>6, <3>1
    <3> QED BY <1>1, <1>6, <3>1, <3>2 DEF TreeReading, LeafRead, FixedRead, HalfRead
  <2>4. PartlyRead(g)' <=> PartlyRead(g)
    BY <1>1, <1>6 DEF PartlyRead
  <2>5. PICK t : t = reading
    OBVIOUS
  <2>6. t # None => errors > 0 \/ TreeReading(g, t)'
    BY <2>1, <2>3, <2>5 DEF Reading
  <2>7. (reading \in DOMAIN TreesOf(g))' <=> reading \in DOMAIN TreesOf(g)
    BY <1>1, <1>6
  <2>8. reading' = t
    BY <1>1, <2>5
  <2> QED BY <1>1, <1>6, <2>1, <2>2, <2>4, <2>5, <2>6, <2>7, <2>8 DEF Reading
<1>10. OpenedOK'
  <2> SUFFICES ASSUME Opened, NEW g \in 1..MaxGeneration, g = Attempted(attempt)', Sound(g)'
               PROVE  (root_tree = RootItems(g, history[g].fs) /\ filesystem_trees = TreesOf(g))'
    BY <1>1 DEF OpenedOK, Opened
  <2>1. g = Attempted(attempt) /\ Sound(g)
    BY <1>1, <1>6
  <2>2. root_tree = RootItems(g, history[g].fs) /\ filesystem_trees = TreesOf(g)
    BY <2>1 DEF IInv, OpenedOK
  <2> QED BY <1>1, <1>6, <2>2
<1>11. ReadOK'
  BY <1>1 DEF IInv, ReadOK
<1> QED BY <1>2, <1>4, <1>5, <1>7, <1>8, <1>9, <1>10, <1>11 DEF IInv

(* Every step keeps the invariant.                                         *)
LEMMA IInvStep == IInv /\ [Next]_vars => IInv'
<1> SUFFICES ASSUME IInv, [Next]_vars PROVE IInv'
  OBVIOUS
<1>1. CASE FileSystem
  BY <1>1, StepFileSystem
<1>2. ASSUME NEW list \in Given, Open(list) PROVE IInv'
  BY <1>2, StepOpen
<1>3. CASE Program
  BY <1>3, StepAddDevice, StepEndDevices, StepReadChunk, StepChunkTreeRead, StepReadTreeNode, StepTreeRead,
     StepNaming DEF Program
<1>4. CASE \E of \in subvolume_root_backrefs(root_tree) : SubvolumePath(of)
  BY <1>4, StepNaming
<1>5. CASE UNCHANGED vars
  BY <1>5, StepNothing
<1> QED BY <1>1, <1>2, <1>3, <1>4, <1>5 DEF Next, Done

(* Whatever the file system commits, loses and gives to open, the          *)
(* inductive invariant of the file system, of the devices and of what is   *)
(* read of them holds (all actions of BtrfsOpen).                          *)
THEOREM Invariant == Spec => []IInv
BY IInvInit, IInvStep, PTL DEF Spec

-----------------------------------------------------------------------------
(* The properties.                                                         *)

(* With the devices of all chunks, those of the chunk tree are given.      *)
LEMMA AllIsEnough ==
  ASSUME FsInv, DevicesOK, ChosenOK, superblock # None, AllGiven
  PROVE  ChunkDevices
<1> SUFFICES ASSUME NEW a \in FixedNodes(ChunkRoot) PROVE Physical(a).device_id \in DOMAIN devices
  BY DEF ChunkDevices
<1>1. a \in Addresses
  BY ChunkRootIs, FixedAddresses
<1>2. PICK c \in AllChunks : Covers(c, a)
  BY <1>1, AddressesAre
<1>3. AtStripe(c, a) = Physical(a)
  BY <1>1, <1>2, PlaceIs
<1>4. AtStripe(c, a).device_id = Head(c.stripes).device_id
  BY DEF AtStripe
<1> QED BY <1>3, <1>4 DEF AllGiven

(* The types follow from the invariant,                                    *)
LEMMA TypesHold == IInv => TypeOK
<1> SUFFICES ASSUME IInv PROVE TypeOK
  OBVIOUS
<1>1. FsInv /\ DevicesOK /\ ChosenOK /\ Tried /\ ReadOK
  BY DEF IInv
<1>2. ASSUME NEW d \in Devices, NEW k \in Places[d]
      PROVE  supers[d][k] = None \/ supers[d][k].generation \in 1..Len(history)
  BY <1>1, SuperIs DEF Newest
<1>3. Len(history) <= MaxGeneration /\ damage <= MaxDamage
  <2>1. damage \in 0..MaxDamage /\ Newest \in 1..MaxGeneration
    BY <1>1 DEF FsInv, HistoryOK
  <2> QED BY <2>1, ConstantsAssumption DEF Newest
<1>4. commit.nodes \subseteq Pool /\ commit.supers \subseteq AllSupers
  <2>1. commit.nodes \subseteq {history[Newest].root, history[Newest].fs} /\ commit.supers \subseteq AllSupers
    BY <1>1 DEF FsInv, CommitOK
  <2>2. history[Newest].root \in Pool /\ history[Newest].fs \in Pool
    BY <1>1, HistoryIs
  <2> QED BY <2>1, <2>2
<1>5. \A d \in DOMAIN devices : d \in Devices /\ devices[d] \in Places[d]
  BY <1>1, DevicesAre DEF DevicesOK
<1>6. superblock \in DOMAIN devices \cup {None} /\ attempt \in 0..4 /\ errors \in Nat
  BY <1>1 DEF ChosenOK, Tried, ReadOK
<1>7. \A n \in DOMAIN todo : todo[n] \in Nat
  BY <1>1 DEF ReadOK
<1>8. reading # None => reading \notin DOMAIN filesystem_trees
  BY <1>1 DEF ReadOK
<1>9. pc \in {"off", "devices", "chunks", "tree", "opened", "climb", "named", "unnamed", "failed", "panic"}
  BY <1>1 DEF ReadOK
<1> QED BY <1>2, <1>3, <1>4, <1>5, <1>6, <1>7, <1>8, <1>9 DEF TypeOK

(* OpenedExact follows from what was read of a sound generation,           *)
LEMMA ExactHolds == IInv => OpenedExact
<1> SUFFICES ASSUME IInv PROVE OpenedExact
  OBVIOUS
<1>1. TypeOK
  BY TypesHold
<1>2. ASSUME Opened, attempt = 0 \/ Readable(Attempted(attempt)), NEW g, g = Attempted(attempt)
      PROVE  root_tree = RootItems(g, history[g].fs) /\ filesystem_trees = TreesOf(g)
  <2>1. FsInv /\ DevicesOK /\ ChosenOK /\ superblock # None /\ attempt \in 0..4
    BY <1>2 DEF IInv, ChosenOK, Opened, Tried
  <2>2. Sound(g)
    BY <1>2, <2>1, WholeIsSound
  <2>3. g \in 1..MaxGeneration
    BY <2>1, <2>2, HistoryIs DEF Sound
  <2> QED BY <1>2, <2>2, <2>3 DEF IInv, OpenedOK
<1> QED BY <1>1, <1>2 DEF OpenedExact

(* BestEffort from what was tried and given up as hopeless,                *)
LEMMA BestHolds == IInv => BestEffort
<1> SUFFICES ASSUME IInv, superblock # None
             PROVE  /\ \A d \in DOMAIN devices : \A k \in Places[d] :
                         supers[d][k] # None => supers[d][k].generation <= Attempted(0)
                    /\ Opened => \A n \in 0..attempt - 1 : ~Readable(Attempted(n))
                    /\ pc = "failed" /\ AllGiven => \A n \in 0..4 : ~Readable(Attempted(n))
  BY DEF BestEffort
<1>1. FsInv /\ DevicesOK /\ ChosenOK /\ Tried
  BY DEF IInv
<1>2. Attempted(0) = SuperblockOf(superblock).generation /\ Attempted(0) \in Nat
  BY <1>1, ChosenIs DEF Chosen
<1>3. ASSUME NEW d \in DOMAIN devices, NEW k \in Places[d], supers[d][k] # None
      PROVE  supers[d][k].generation <= Attempted(0)
  <2>1. d \in Devices /\ devices[d] \in Places[d] /\ supers[d][devices[d]] # None
    BY <1>1, DevicesAre DEF DevicesOK
  <2>2. supers[d][k].generation \in Nat /\ SuperblockOf(d).generation \in Nat
    <3>1. supers[d][k].generation \in 1..Newest
      BY <1>1, <1>3, <2>1, SuperIs
    <3>2. supers[d][devices[d]].generation \in 1..Newest
      BY <1>1, <2>1, SuperIs
    <3>3. Newest \in Nat
      BY <1>1, HistoryIs
    <3> QED BY <3>1, <3>2, <3>3 DEF SuperblockOf
  <2>3. supers[d][k].generation <= SuperblockOf(d).generation
    BY <1>1, <1>3 DEF DevicesOK
  <2>4. SuperblockOf(d).generation <= Attempted(0)
    BY <1>1, <1>2 DEF ChosenOK
  <2> QED BY <1>2, <2>2, <2>3, <2>4
<1>4. ASSUME Opened, NEW n \in 0..attempt - 1 PROVE ~Readable(Attempted(n))
  BY <1>1, <1>4 DEF Tried, Hopeless
<1>5. ASSUME pc = "failed", AllGiven, NEW n \in 0..4 PROVE ~Readable(Attempted(n))
  BY <1>1, <1>5, AllIsEnough DEF Tried, Hopeless
<1> QED BY <1>3, <1>4, <1>5

(* SurvivesPowerLoss from the first attempt, which is not hopeless.        *)
LEMMA SurvivesHolds == IInv => SurvivesPowerLoss
<1> SUFFICES ASSUME IInv, damage = 0, AllGiven, superblock # None
             PROVE  /\ pc \notin {"failed", "panic"} /\ attempt = 0
                    /\ Attempted(0) \in Len(history) - 1..Len(history)
                    /\ commit = Nothing => Attempted(0) = Len(history)
  BY DEF SurvivesPowerLoss
<1>1. FsInv /\ DevicesOK /\ ChosenOK /\ Tried
  BY DEF IInv
<1>2. Attempted(0) \in Newest - 1..Newest /\ (commit = Nothing => Attempted(0) = Newest)
  BY <1>1, ChosenIs
<1>3. ~Hopeless(0)
  BY <1>1, NothingLost, AllIsEnough DEF Hopeless
<1>4. attempt = 0
  <2>1. attempt \in 0..4 /\ \A n \in 0..attempt - 1 : Hopeless(n)
    BY <1>1 DEF Tried
  <2>2. attempt # 0 => 0 \in 0..attempt - 1
    BY <2>1
  <2> QED BY <1>3, <2>1, <2>2
<1>5. pc # "failed" /\ pc # "panic"
  BY <1>1, <1>3 DEF Tried
<1> QED BY <1>2, <1>4, <1>5 DEF Newest

(* What has been opened is exactly one generation with all items of all    *)
(* its trees (BtrfsFilesystem::open, open_backup).                         *)
THEOREM OpeningIsExact == Spec => []OpenedExact
BY Invariant, ExactHolds, PTL

(* The newest superblock is used, a backup only when what comes before it  *)
(* cannot be read, and opening fails only when of every generation that    *)
(* the superblock names the first copy of a node is lost or reused, or one *)
(* of the superblock's own chunk tree (BtrfsDeviceSet::new,                *)
(* open_try_backups).  Neither another copy nor the chunk tree that a      *)
(* backup names is a way out.                                              *)
THEOREM OpeningIsBestEffort == Spec => []BestEffort
BY Invariant, BestHolds, PTL

(* A loss of power anywhere in a commit leaves a file system that opens    *)
(* without a backup as it is before or after the commit (BtrfsDevice::new, *)
(* BtrfsDeviceSet::new).                                                   *)
THEOREM PowerLossIsSurvived == Spec => []SurvivesPowerLoss
BY Invariant, SurvivesHolds, PTL

-----------------------------------------------------------------------------
(* Entries of items.                                                       *)

EntrySize(type, first) == IF type = InodeRef THEN InodeRefSize(first) ELSE DirItemSize(first)

(* A list of entries whose cells are in S.                                 *)
EntryList(type, S, e) ==
  e \in Seq(Seq(S)) /\ \A n \in 1..Len(e) : e[n] # <<>> /\ Len(e[n]) = EntrySize(type, e[n][1])

(* What an iterator over the entries e of an item finds.                   *)
Decoded(type, e) ==
  /\ DOMAIN Entries(FlattenSeq(e), type) = {Len(Upto(e, n - 1)) : n \in 1..Len(e)}
  /\ \A n \in 1..Len(e) : Entries(FlattenSeq(e), type)[Len(Upto(e, n - 1))] = e[n]

(* An iterator over the entries of an item finds those that were written.  *)
LEMMA EntriesDecode ==
  ASSUME NEW type, NEW S, NEW e, EntryList(type, S, e)
  PROVE  Decoded(type, e)
<1> DEFINE N == Len(e)
           cells == FlattenSeq(e)
           size == Len(cells)
           after == [p \in 0..size |-> p + EntrySize(type, cells[p + 1])]
           at(n) == Len(Upto(e, n - 1))
<1>0. e \in Seq(Seq(S)) /\ \A n \in 1..Len(e) : e[n] # <<>> /\ Len(e[n]) = EntrySize(type, e[n][1])
  BY DEF EntryList
<1>1. N \in Nat /\ cells \in Seq(S) /\ size \in Nat
  <2>1. Len(e) \in 0..Len(e) /\ Len(e) \in Nat
    BY <1>0, LenProperties
  <2>2. cells \in Seq(S)
    BY <1>0, <2>1, UptoType, UptoEnds
  <2> QED BY <2>1, <2>2, LenProperties
<1>2. ASSUME NEW n \in 1..N
      PROVE  /\ at(n) \in Nat /\ Len(e[n]) \in Nat /\ Len(Upto(e, n)) = at(n) + Len(e[n]) /\ Len(e[n]) # 0
             /\ Len(Upto(e, n)) <= size /\ e[n] \in Seq(S)
             /\ \A k \in 1..Len(e[n]) : cells[at(n) + k] = e[n][k]
  <2>1. at(n) \in Nat /\ Len(e[n]) \in Nat /\ Len(Upto(e, n)) = at(n) + Len(e[n]) /\ e[n] \in Seq(S)
    BY <1>0, UptoStep
  <2>2. Len(Upto(e, n)) <= size
    BY <1>0, FlattenBlock
  <2>3. \A k \in 1..Len(e[n]) : cells[at(n) + k] = e[n][k]
    <3>1. e \in Seq(Seq(S))
      BY <1>0
    <3> QED BY <3>1, FlattenBlock, Zenon
  <2>4. Len(e[n]) # 0
    BY <1>0, <2>1, EmptySeq
  <2> QED BY <2>1, <2>2, <2>3, <2>4
<1> HIDE DEF cells, at
<1>3. ASSUME NEW n \in 1..N
      PROVE  /\ after[at(n)] = Len(Upto(e, n))
             /\ Slice(cells, at(n), EntrySize(type, cells[at(n) + 1])) = e[n]
  <2> DEFINE a == at(n)
             l == Len(e[n])
  <2>1. a \in Nat /\ l \in Nat \ {0} /\ Len(Upto(e, n)) = a + l /\ a + l <= size
    BY <1>2
  <2>2. e[n] \in Seq(S) /\ \A k \in 1..l : cells[a + k] = e[n][k]
    BY <1>2
  <2>3. cells[a + 1] = e[n][1]
    <3>1. 1 \in 1..l
      BY <2>1
    <3> QED BY <2>2, <3>1
  <2>4. EntrySize(type, cells[a + 1]) = l
    BY <1>0, <2>3
  <2>5. Slice(cells, a, l) = e[n]
    <3>1. a \in Nat /\ a + Len(e[n]) <= Len(cells)
      BY <2>1
    <3> HIDE DEF a
    <3> QED BY <1>1, <2>2, <3>1, SliceIs
  <2>6. a \in 0..size
    <3> HIDE DEF a, l, size
    <3> QED BY <1>1, <2>1
  <2>7. after[a] = a + EntrySize(type, cells[a + 1])
    BY <2>6
  <2> HIDE DEF after, a
  <2>8. after[a] = Len(Upto(e, n))
    BY <2>1, <2>4, <2>7
  <2> QED BY <2>4, <2>5, <2>8 DEF a
<1> HIDE DEF after
<1>4. Positions(after, size) = {at(n) : n \in 1..N}
  <2>1. \A n \in 1..Len(e) : e[n] # <<>> /\ after[Len(Upto(e, n - 1))] = Len(Upto(e, n))
    BY <1>0, <1>3 DEF at
  <2>2. Positions(after, Len(FlattenSeq(e))) = {Len(Upto(e, n - 1)) : n \in 1..Len(e)}
    <3>1. e \in Seq(Seq(S))
      BY <1>0
    <3> QED BY <2>1, <3>1, PositionsAre
  <2> QED BY <2>2 DEF cells, at
<1>5. Entries(cells, type) = [p \in Positions(after, size) |-> Slice(cells, p, EntrySize(type, cells[p + 1]))]
  BY Zenon DEF Entries, EntrySize, after
<1>6. DOMAIN Entries(cells, type) = {at(n) : n \in 1..N}
  BY <1>4, <1>5
<1>7. \A n \in 1..N : Entries(cells, type)[at(n)] = e[n]
  BY <1>3, <1>4, <1>5
<1> QED BY <1>6, <1>7, Zenon DEF Decoded, cells, at

(* What is written of a name and how it is read.                           *)
LEMMA NameBehind ==
  ASSUME NEW head, NEW S, NEW name \in Seq(S)
  PROVE  /\ <<head>> \o name \in Seq({head} \cup S) /\ Len(<<head>> \o name) = 1 + Len(name)
         /\ (<<head>> \o name)[1] = head /\ <<head>> \o name # <<>>
         /\ Slice(<<head>> \o name, 1, Len(name)) = name
<1> DEFINE T == {head} \cup S
           cells == <<head>> \o name
<1>1. Len(name) \in Nat /\ name \in Seq(T)
  BY LenProperties, SeqMonotonic
<1>2. <<head>> \in Seq(T) /\ Len(<<head>>) = 1 /\ <<head>>[1] = head
  OBVIOUS
<1> HIDE DEF T
<1>3. /\ cells \in Seq(T) /\ Len(cells) = 1 + Len(name)
      /\ \A i \in 1..1 + Len(name) : cells[i] = IF i <= 1 THEN <<head>>[i] ELSE name[i - 1]
  BY <1>1, <1>2, ConcatProperties
<1> HIDE DEF cells
<1>4. cells[1] = head
  BY <1>1, <1>2, <1>3
<1>5. \A k \in 1..Len(name) : cells[1 + k] = name[k]
  <2> TAKE k \in 1..Len(name)
  <2>1. 1 + k \in 1..1 + Len(name) /\ ~(1 + k <= 1) /\ 1 + k - 1 = k
    BY <1>1
  <2> QED BY <1>3, <2>1
<1>6. Slice(cells, 1, Len(name)) = name
  <2>1. 1 \in Nat /\ 1 + Len(name) <= Len(cells)
    BY <1>1, <1>3
  <2> QED BY <1>3, <1>5, <2>1, SliceIs
<1>7. cells # <<>>
  BY <1>1, <1>3
<1> QED BY <1>3, <1>4, <1>6, <1>7 DEF T, cells

(* The entries for a link and for a name of a directory hold that name.    *)
LEMMA EntryNames ==
  ASSUME NEW S, NEW name \in Seq(S), NEW key
  PROVE  /\ InodeRefName(InodeRefEntry(name)) = name
         /\ InodeRefEntry(name) \in Seq({[name_length |-> Len(name)]} \cup S) /\ InodeRefEntry(name) # <<>>
         /\ Len(InodeRefEntry(name)) = EntrySize(InodeRef, InodeRefEntry(name)[1])
         /\ DirItemName(DirItemEntry(key, name)) = name
         /\ DirItemEntry(key, name) \in
              Seq({[child_key |-> key, data_size |-> 0, name_size |-> Len(name)]} \cup S)
         /\ DirItemEntry(key, name) # <<>>
         /\ Len(DirItemEntry(key, name)) = EntrySize(DirItem, DirItemEntry(key, name)[1])
         /\ DirItemEntry(key, name)[1].child_key = key
<1>1. Len(name) \in Nat
  BY LenProperties
<1> DEFINE h == [name_length |-> Len(name)]
           k == [child_key |-> key, data_size |-> 0, name_size |-> Len(name)]
<1>2. h.name_length = Len(name) /\ k.data_size = 0 /\ k.name_size = Len(name) /\ k.child_key = key
  OBVIOUS
<1>3. InodeRefEntry(name) = <<h>> \o name /\ DirItemEntry(key, name) = <<k>> \o name
  BY DEF InodeRefEntry, DirItemEntry
<1> HIDE DEF h, k
<1>4. /\ InodeRefEntry(name) \in Seq({h} \cup S) /\ Len(InodeRefEntry(name)) = 1 + Len(name)
      /\ InodeRefEntry(name)[1] = h /\ InodeRefEntry(name) # <<>>
      /\ Slice(InodeRefEntry(name), 1, Len(name)) = name
  <2>1. /\ <<h>> \o name \in Seq({h} \cup S) /\ Len(<<h>> \o name) = 1 + Len(name)
        /\ (<<h>> \o name)[1] = h /\ <<h>> \o name # <<>>
        /\ Slice(<<h>> \o name, 1, Len(name)) = name
    BY NameBehind
  <2> QED BY <1>3, <2>1
<1>5. /\ DirItemEntry(key, name) \in Seq({k} \cup S) /\ Len(DirItemEntry(key, name)) = 1 + Len(name)
      /\ DirItemEntry(key, name)[1] = k /\ DirItemEntry(key, name) # <<>>
      /\ Slice(DirItemEntry(key, name), 1, Len(name)) = name
  <2>1. /\ <<k>> \o name \in Seq({k} \cup S) /\ Len(<<k>> \o name) = 1 + Len(name)
        /\ (<<k>> \o name)[1] = k /\ <<k>> \o name # <<>>
        /\ Slice(<<k>> \o name, 1, Len(name)) = name
    BY NameBehind
  <2> QED BY <1>3, <2>1
<1>6. InodeRefName(InodeRefEntry(name)) = name /\ DirItemName(DirItemEntry(key, name)) = name
  BY <1>2, <1>4, <1>5 DEF InodeRefName, DirItemName
<1>7. Len(InodeRefEntry(name)) = EntrySize(InodeRef, InodeRefEntry(name)[1])
  BY <1>2, <1>4 DEF EntrySize, InodeRefSize
<1>8. Len(DirItemEntry(key, name)) = EntrySize(DirItem, DirItemEntry(key, name)[1])
  BY <1>1, <1>2, <1>5 DEF EntrySize, DirItemSize, DirItem, InodeRef
<1> QED BY <1>2, <1>4, <1>5, <1>6, <1>7, <1>8 DEF h, k

-----------------------------------------------------------------------------
(* Directories.                                                            *)

(* What is listed in a directory is found there by its name, whatever      *)
(* other names have its hash.                                              *)
LEMMA ListedFound ==
  ASSUME NEW items, TreeItems(items), NEW tree, DirectoryTree(items, tree),
         NEW directory, NEW name, NEW child, Listed(tree, directory, name, child)
  PROVE  ChildOf(items, directory, name) = child /\ name \in Seq(Range(name))
<1> DEFINE at == <<directory, Hash[name]>>
           listed == tree.names[at]
           e == [n \in 1..Len(listed) |-> DirItemEntry(listed[n].child_key, listed[n].name)]
           item == NamesItem(at, listed)
           key == Key(directory, DirItem, Hash[name])
           N == Len(listed)
           C == UNION {Range(DirItemEntry(l.child_key, l.name)) : l \in Range(listed)}
           entries == Entries(item.data, DirItem)
           found == {p \in DOMAIN entries : DirItemName(entries[p]) = name}
<1>1. at \in DOMAIN tree.names
  BY DEF Listed
<1>2. /\ item \in items /\ None \notin items /\ listed \in Seq(Range(listed))
      /\ \A l \in Range(listed) : l.name \in Seq(Range(l.name)) /\ None # DirItemEntry(l.child_key, l.name)
      /\ \A m, n \in 1..N : listed[m].name = listed[n].name => m = n
  BY <1>1 DEF DirectoryTree
<1>3. PICK l \in Range(listed) : l.name = name /\ l.child_key.object_id = child
  BY DEF Listed
<1>4. at[1] = directory /\ at[2] = Hash[name]
  OBVIOUS
<1>5. item.key = key /\ item.data = FlattenSeq(e)
  BY <1>4 DEF NamesItem
<1>6. N \in Nat /\ DOMAIN listed = 1..N /\ \A n \in 1..N : listed[n] \in Range(listed)
  BY <1>2, LenProperties DEF Range
<1>7. PICK m \in 1..N : listed[m] = l
  BY <1>6 DEF Range
<1> HIDE DEF item, listed, at
<1>8. \A n \in 1..N : /\ e[n] = DirItemEntry(listed[n].child_key, listed[n].name)
                      /\ e[n] \in Seq(C) /\ e[n] # <<>> /\ Len(e[n]) = EntrySize(DirItem, e[n][1])
                      /\ DirItemName(e[n]) = listed[n].name
                      /\ e[n][1].child_key = listed[n].child_key
  <2> TAKE n \in 1..N
  <2> DEFINE c == DirItemEntry(listed[n].child_key, listed[n].name)
  <2>1. listed[n] \in Range(listed) /\ listed[n].name \in Seq(Range(listed[n].name))
    BY <1>2, <1>6
  <2>2. PICK S : c \in Seq(S)
    <3>1. PICK k, nm : k = listed[n].child_key /\ nm = listed[n].name
      OBVIOUS
    <3>2. nm \in Seq(Range(nm))
      BY <2>1, <3>1
    <3>3. DirItemEntry(k, nm) \in Seq({[child_key |-> k, data_size |-> 0, name_size |-> Len(nm)]} \cup Range(nm))
      BY <3>2, EntryNames
    <3> QED BY <3>1, <3>3
  <2>3. c \in Seq(Range(c))
    BY <2>2, SeqOfRange
  <2>4. Range(c) \subseteq C
    BY <2>1
  <2>5. c \in Seq(C)
    <3> HIDE DEF C, c
    <3> QED BY <2>3, <2>4, SeqMonotonic
  <2>6. /\ c # <<>> /\ Len(c) = EntrySize(DirItem, c[1]) /\ DirItemName(c) = listed[n].name
        /\ c[1].child_key = listed[n].child_key
    BY <2>1, EntryNames
  <2>7. e[n] = c
    OBVIOUS
  <2> HIDE DEF c, C, e
  <2> QED BY <2>5, <2>6, <2>7 DEF c
<1>9. e \in Seq(Seq(C)) /\ Len(e) = N
  <2>1. e = [n \in 1..N |-> e[n]]
    OBVIOUS
  <2> HIDE DEF e, C, N
  <2>2. e \in [1..N -> Seq(C)]
    BY <1>8, <2>1
  <2> QED BY <1>6, <2>2
<1> HIDE DEF e, C, N
<1>10. /\ DOMAIN entries = {Len(Upto(e, n - 1)) : n \in 1..N}
       /\ \A n \in 1..N : entries[Len(Upto(e, n - 1))] = e[n]
  <2>1. /\ DOMAIN Entries(FlattenSeq(e), DirItem) = {Len(Upto(e, n - 1)) : n \in 1..Len(e)}
        /\ \A n \in 1..Len(e) : Entries(FlattenSeq(e), DirItem)[Len(Upto(e, n - 1))] = e[n]
    <3>1. e \in Seq(Seq(C))
      BY <1>9
    <3>2. \A n \in 1..Len(e) : e[n] # <<>> /\ Len(e[n]) = EntrySize(DirItem, e[n][1])
      BY <1>8, <1>9
    <3>3. EntryList(DirItem, C, e)
      BY <3>1, <3>2 DEF EntryList
    <3>4. Decoded(DirItem, e)
      BY <3>3, EntriesDecode
    <3> QED BY <3>4, Zenon DEF Decoded
  <2> QED BY <1>5, <1>9, <2>1
<1> HIDE DEF entries
<1>11. \A p \in found : \E n \in 1..N : entries[p] = e[n] /\ listed[n].name = name
  <2> TAKE p \in found
  <2>1. p \in DOMAIN entries /\ DirItemName(entries[p]) = name
    OBVIOUS
  <2>2. PICK n \in 1..N : p = Len(Upto(e, n - 1))
    BY <1>10, <2>1
  <2>3. entries[p] = e[n]
    BY <1>10, <2>2
  <2> QED BY <1>8, <2>1, <2>3
<1>12. found # {} /\ found \subseteq Nat
  <2>1. Len(Upto(e, m - 1)) \in DOMAIN entries /\ entries[Len(Upto(e, m - 1))] = e[m]
    BY <1>10
  <2>2. DirItemName(e[m]) = name
    BY <1>3, <1>7, <1>8
  <2>3. ASSUME NEW n \in 1..N PROVE Len(Upto(e, n - 1)) \in Nat
    <3>1. e \in Seq(Seq(C)) /\ n \in 1..Len(e)
      BY <1>9
    <3> QED BY <3>1, UptoStep
  <2> QED BY <1>10, <2>1, <2>2, <2>3
<1> HIDE DEF found
<1>13. entries[Min(found)] = e[m]
  <2>1. Min(found) \in found
    BY <1>12, MinOfNumbers
  <2>2. PICK n \in 1..N : entries[Min(found)] = e[n] /\ listed[n].name = name
    BY <1>11, <2>1
  <2>3. n = m
    BY <1>2, <1>3, <1>7, <2>2
  <2> QED BY <2>2, <2>3
<1>14. GetByKey(items, key) = item
  <2>1. {i \in items : i.key = key} = {item}
    BY <1>2, <1>5 DEF TreeItems
  <2> QED BY <2>1 DEF GetByKey
<1>15. item # None
  BY <1>2
<1>16. dir_item_entry(items, directory, name) = e[m]
  <2> HIDE DEF key
  <2>1. dir_item_entry(items, directory, name) =
          LET dir_item == GetByKey(items, key)
              entries_ == IF dir_item = None THEN <<>> ELSE Entries(dir_item.data, DirItem)
              found_ == {p \in DOMAIN entries_ : DirItemName(entries_[p]) = name}
          IN  IF found_ = {} THEN None ELSE entries_[Min(found_)]
    BY Zenon DEF dir_item_entry, key
  <2>2. dir_item_entry(items, directory, name) = IF found = {} THEN None ELSE entries[Min(found)]
    BY <1>14, <1>15, <2>1, Zenon DEF found, entries
  <2> QED BY <1>12, <1>13, <2>2
<1>17. e[m] # None /\ e[m][1].child_key.object_id = child
  BY <1>2, <1>3, <1>7, <1>8
<1>18. name \in Seq(Range(name))
  BY <1>2, <1>3
<1> QED BY <1>16, <1>17, <1>18 DEF ChildOf

(* The link of a directory is the first of its links.                      *)
LEMMA LinkFound ==
  ASSUME NEW items, TreeItems(items), NEW tree, DirectoryTree(items, tree), NEW d \in DOMAIN tree.links
  PROVE  LET refs == inode_refs(items, d)
             link == tree.links[d]
         IN  /\ refs # <<>> /\ refs[1].key.offset = link.parent
             /\ InodeRefName(Entries(refs[1].data, InodeRef)[0]) = link.name
             /\ link.name \in Seq(Range(link.name))
             /\ IF link.parent = d THEN d = 256
                ELSE link.parent \in DOMAIN tree.links /\ Listed(tree, link.parent, link.name, d)
<1> DEFINE link == tree.links[d]
           item == LinkItem(d, link)
           found == {i \in items : i.key.object_id = d /\ i.key.item_type = InodeRef}
           refs == InOrder(found)
           entry == InodeRefEntry(link.name)
<1>1. /\ link.name \in Seq(Range(link.name)) /\ found = {item}
      /\ IF link.parent = d THEN d = 256
         ELSE link.parent \in DOMAIN tree.links /\ Listed(tree, link.parent, link.name, d)
  BY DEF DirectoryTree
<1>2. inode_refs(items, d) = refs
  BY Zenon DEF inode_refs, OfObject
<1>3. item.key.offset = link.parent /\ item.data = entry
  BY DEF LinkItem, Key
<1>4. TreeItems(found)
  BY TreeItemsSubset
<1> HIDE DEF link, item, found
<1>5. refs # <<>> /\ refs[1] = item
  <2>1. /\ DOMAIN refs = 1..Cardinality(found) /\ \A n \in DOMAIN refs : refs[n] \in found
    BY <1>4, OrderedItems
  <2>2. Cardinality(found) = 1
    BY <1>1, FS_Singleton
  <2> HIDE DEF refs
  <2>3. 1 \in DOMAIN refs /\ refs[1] \in found
    BY <2>1, <2>2
  <2> QED BY <1>1, <2>3
<1> HIDE DEF refs
<1>6. InodeRefName(Entries(entry, InodeRef)[0]) = link.name
  <2>1. PICK S : link.name \in Seq(S)
    BY <1>1
  <2> DEFINE T == {[name_length |-> Len(link.name)]} \cup S
             e == <<entry>>
  <2>2. /\ InodeRefName(entry) = link.name /\ entry \in Seq(T) /\ entry # <<>>
        /\ Len(entry) = EntrySize(InodeRef, entry[1])
    BY <2>1, EntryNames
  <2> HIDE DEF T, entry
  <2>3. e \in Seq(Seq(T)) /\ Len(e) = 1 /\ e[1] = entry
    BY <2>2
  <2> HIDE DEF e
  <2>4. FlattenSeq(e) = entry /\ Len(Upto(e, 0)) = 0
    <3>1. Upto(e, 0) = <<>> /\ Len(Upto(e, 0)) = 0 /\ Upto(e, 1) = FlattenSeq(e)
      BY <2>3, UptoEnds
    <3>2. Upto(e, 1) = Upto(e, 1 - 1) \o e[1]
      <4>1. 1 \in 1..Len(e)
        BY <2>3
      <4> QED BY <2>3, <4>1, UptoStep
    <3>3. Upto(e, 1) = <<>> \o entry
      <4>1. 1 - 1 = 0
        OBVIOUS
      <4> QED BY <2>3, <3>1, <3>2, <4>1
    <3> QED BY <2>2, <3>1, <3>3, ConcatEmptySeq
  <2>5. Entries(FlattenSeq(e), InodeRef)[Len(Upto(e, 1 - 1))] = e[1]
    <3>1. /\ e \in Seq(Seq(T)) /\ 1 \in 1..Len(e)
          /\ \A n \in 1..Len(e) : e[n] # <<>> /\ Len(e[n]) = EntrySize(InodeRef, e[n][1])
      <4>1. \A n \in 1..Len(e) : n = 1
        BY <2>3
      <4> QED BY <2>2, <2>3, <4>1
    <3>2. EntryList(InodeRef, T, e)
      BY <3>1 DEF EntryList
    <3>3. Decoded(InodeRef, e)
      BY <3>2, EntriesDecode
    <3> QED BY <3>1, <3>3, Zenon DEF Decoded
  <2>6. Entries(entry, InodeRef)[0] = entry
    <3>1. 1 - 1 = 0
      OBVIOUS
    <3> QED BY <2>3, <2>4, <2>5, <3>1
  <2> QED BY <2>2, <2>6
<1>7. refs[1].key.offset = link.parent /\ refs[1].data = entry
  BY <1>3, <1>5
<1> HIDE DEF entry
<1> QED BY <1>1, <1>2, <1>5, <1>6, <1>7 DEF link

-----------------------------------------------------------------------------
(* Lookup.                                                                 *)

(* f[n] is where the first n parts of the path lead from the directory.    *)
Leads(items, directory, path, f) ==
  f = [n \in 0..Len(path) |-> IF n = 0 THEN directory ELSE ChildOf(items, f[n - 1], path[n])]

(* The function in the definition of Lookup exists,                        *)
LEMMA LeadsExists ==
  ASSUME NEW items, NEW directory, NEW path, Len(path) \in Nat
  PROVE  \E f : Leads(items, directory, path, f)
<1> DEFINE Def(f, m) == f = [n \in 0..m |-> IF n = 0 THEN directory ELSE ChildOf(items, f[n - 1], path[n])]
           Bad == {m \in Nat : ~\E f : Def(f, m)}
<1>1. ASSUME Bad # {} PROVE FALSE
  <2>1. PICK m \in Bad : \A k \in Bad : m <= k
    BY <1>1, LeastNumber
  <2>2. m \in Nat /\ ~\E f : Def(f, m)
    BY <2>1
  <2>3. CASE m = 0
    <3> DEFINE f == [n \in 0..0 |-> directory]
    <3>1. \A n \in 0..0 : f[n] = IF n = 0 THEN directory ELSE ChildOf(items, f[n - 1], path[n])
      OBVIOUS
    <3>2. f = [n \in 0..0 |-> f[n]]
      OBVIOUS
    <3> HIDE DEF f
    <3>3. Def(f, 0)
      BY <3>1, <3>2
    <3> QED BY <2>2, <2>3, <3>3
  <2>4. CASE m # 0
    <3>1. m - 1 \in Nat /\ ~(m <= m - 1)
      BY <2>2, <2>4
    <3>2. m - 1 \notin Bad
      BY <2>1, <3>1, Zenon
    <3>3. PICK f : Def(f, m - 1)
      BY <3>1, <3>2, Zenon
    <3> DEFINE g == [n \in 0..m |-> IF n < m THEN f[n] ELSE ChildOf(items, f[n - 1], path[n])]
    <3>4. ASSUME NEW n \in 0..m
          PROVE  g[n] = IF n = 0 THEN directory ELSE ChildOf(items, g[n - 1], path[n])
      <4>1. n # 0 => g[n - 1] = f[n - 1]
        BY <2>2
      <4>2. CASE n < m
        <5>1. n \in 0..(m - 1) /\ g[n] = f[n]
          BY <2>2, <4>2
        <5>2. f[n] = IF n = 0 THEN directory ELSE ChildOf(items, f[n - 1], path[n])
          BY <3>3, <5>1
        <5> QED BY <4>1, <5>1, <5>2
      <4>3. CASE ~(n < m)
        <5>1. n # 0 /\ g[n] = ChildOf(items, f[n - 1], path[n])
          BY <2>2, <2>4, <4>3
        <5> QED BY <4>1, <5>1
      <4> QED BY <4>2, <4>3
    <3>5. g = [n \in 0..m |-> g[n]]
      OBVIOUS
    <3> HIDE DEF g
    <3>6. Def(g, m)
      BY <3>4, <3>5
    <3> QED BY <2>2, <3>6
  <2> QED BY <2>3, <2>4
<1>2. \E f : Def(f, Len(path))
  BY <1>1
<1> QED BY <1>2 DEF Leads

(* The path q ends the path p, behind k parts.                             *)
Ends(p, k, q) == Len(p) = k + Len(q) /\ \A n \in 1..Len(q) : p[k + n] = q[n]

(* and where it leads from a part on does not depend on what comes before. *)
LEMMA LeadsAgree ==
  ASSUME NEW items, NEW d, NEW e, NEW p, NEW q, Len(q) \in Nat, NEW k \in Nat, Ends(p, k, q),
         NEW f, NEW g, Leads(items, d, p, f), Leads(items, e, q, g), f[k] = e
  PROVE  f[k + Len(q)] = g[Len(q)]
<1>0. Len(p) = k + Len(q) /\ \A n \in 1..Len(q) : p[k + n] = q[n]
  BY DEF Ends
<1> DEFINE Bad == {n \in 0..Len(q) : f[k + n] # g[n]}
<1>1. ASSUME Bad # {} PROVE FALSE
  <2>1. Bad \subseteq Nat
    OBVIOUS
  <2>2. PICK n \in Bad : \A m \in Bad : n <= m
    BY <1>1, <2>1, LeastNumber
  <2>3. n \in 0..Len(q) /\ f[k + n] # g[n]
    BY <2>2
  <2>4. n # 0
    <3>1. g[0] = e /\ k + 0 = k
      BY DEF Leads
    <3> QED BY <2>3, <3>1
  <2>5. n - 1 \in 0..Len(q) /\ n - 1 \notin Bad
    BY <2>2, <2>3, <2>4
  <2>6. f[k + (n - 1)] = g[n - 1] /\ k + (n - 1) = (k + n) - 1
    BY <2>5
  <2>7. g[n] = ChildOf(items, g[n - 1], q[n])
    BY <2>3, <2>4 DEF Leads
  <2>8. f[k + n] = ChildOf(items, f[(k + n) - 1], p[k + n])
    <3>1. k + n \in 0..Len(p) /\ k + n # 0
      BY <1>0, <2>3, <2>4
    <3> QED BY <3>1 DEF Leads
  <2>9. p[k + n] = q[n]
    BY <1>0, <2>3, <2>4
  <2> QED BY <2>3, <2>6, <2>7, <2>8, <2>9
<1>2. Len(q) \in 0..Len(q)
  OBVIOUS
<1> QED BY <1>1, <1>2

(* Lookup takes the last value of such a function.                         *)
LEMMA LookupIs ==
  ASSUME NEW items, NEW directory, NEW path, Len(path) \in Nat
  PROVE  \E f : Leads(items, directory, path, f) /\ Lookup(items, directory, path) = f[Len(path)]
<1> DEFINE F == CHOOSE g : g = [n \in 0..Len(path) |->
                                  IF n = 0 THEN directory ELSE ChildOf(items, g[n - 1], path[n])]
<1>1. Lookup(items, directory, path) = F[Len(path)]
  BY Zenon DEF Lookup
<1>2. \E g : g = [n \in 0..Len(path) |-> IF n = 0 THEN directory ELSE ChildOf(items, g[n - 1], path[n])]
  <2>1. PICK g : Leads(items, directory, path, g)
    BY LeadsExists
  <2>2. g = [n \in 0..Len(path) |-> IF n = 0 THEN directory ELSE ChildOf(items, g[n - 1], path[n])]
    BY <2>1 DEF Leads
  <2> QED BY <2>2, Zenon
<1>3. F = [n \in 0..Len(path) |-> IF n = 0 THEN directory ELSE ChildOf(items, F[n - 1], path[n])]
  BY <1>2, Zenon
<1> HIDE DEF F
<1>4. Leads(items, directory, path, F)
  BY <1>3 DEF Leads
<1> QED BY <1>1, <1>4

(* The first part of a path leads to where the others start.               *)
LeadsDown(items, directory, name, path) ==
  Lookup(items, directory, <<name>> \o path) = Lookup(items, ChildOf(items, directory, name), path)

(* The empty path leads nowhere else, another first by its first part.     *)
LEMMA LookupFirst ==
  ASSUME NEW items, NEW directory, NEW S, NEW path \in Seq(S), NEW name
  PROVE  Lookup(items, directory, <<>>) = directory /\ LeadsDown(items, directory, name, path)
<1>1. Lookup(items, directory, <<>>) = directory
  <2>1. PICK f : Leads(items, directory, <<>>, f) /\ Lookup(items, directory, <<>>) = f[Len(<<>>)]
    <3>1. Len(<<>>) \in Nat
      OBVIOUS
    <3> QED BY <3>1, LookupIs
  <2>2. Len(<<>>) = 0 /\ 0 \in 0..0
    OBVIOUS
  <2>3. f[0] = directory
    BY <2>1, <2>2 DEF Leads
  <2> QED BY <2>1, <2>2, <2>3
<1> DEFINE T == {name} \cup S
           p == <<name>> \o path
           e == ChildOf(items, directory, name)
           N == Len(path)
<1>2. N \in Nat /\ path \in Seq(T) /\ <<name>> \in Seq(T) /\ Len(<<name>>) = 1 /\ <<name>>[1] = name
  BY LenProperties, SeqMonotonic
<1> HIDE DEF T
<1>3. p \in Seq(T) /\ Len(p) = 1 + N /\ \A i \in 1..1 + N : p[i] = IF i <= 1 THEN <<name>>[i] ELSE path[i - 1]
  BY <1>2, ConcatProperties
<1> HIDE DEF p
<1>4. p[1] = name /\ \A n \in 1..N : p[1 + n] = path[n]
  <2>1. p[1] = name
    BY <1>2, <1>3
  <2>2. ASSUME NEW n \in 1..N PROVE p[1 + n] = path[n]
    <3>1. 1 + n \in 1..1 + N /\ ~(1 + n <= 1) /\ 1 + n - 1 = n
      BY <1>2
    <3> QED BY <1>3, <3>1
  <2> QED BY <2>1, <2>2
<1>5. PICK f : Leads(items, directory, p, f) /\ Lookup(items, directory, p) = f[Len(p)]
  <2>1. Len(p) \in Nat
    BY <1>2, <1>3
  <2> QED BY <2>1, LookupIs
<1> HIDE DEF e
<1>6. PICK g : Leads(items, e, path, g) /\ Lookup(items, e, path) = g[N]
  BY <1>2, LookupIs
<1>7. f[1] = e
  <2>1. 0 \in 0..Len(p) /\ 1 \in 0..Len(p) /\ 1 - 1 = 0
    BY <1>2, <1>3
  <2>2. f[0] = directory /\ f[1] = ChildOf(items, f[1 - 1], p[1])
    BY <1>5, <2>1 DEF Leads
  <2> QED BY <1>4, <2>1, <2>2 DEF e
<1>8. f[1 + N] = g[N]
  <2>1. Ends(p, 1, path)
    BY <1>3, <1>4 DEF Ends
  <2>2. Len(path) \in Nat /\ 1 \in Nat /\ Leads(items, directory, p, f) /\ Leads(items, e, path, g)
    BY <1>2, <1>5, <1>6
  <2> HIDE DEF N
  <2>3. f[1 + Len(path)] = g[Len(path)]
    BY <1>7, <2>1, <2>2, LeadsAgree
  <2> QED BY <2>3 DEF N
<1>9. Lookup(items, directory, p) = Lookup(items, e, path)
  BY <1>3, <1>5, <1>6, <1>8
<1> QED BY <1>1, <1>9 DEF LeadsDown, p, e

-----------------------------------------------------------------------------
(* The way of a subvolume.                                                 *)

(* The trees with directories are among those of a generation.             *)
LEMMA DirectoryIs ==
  ASSUME FsInv, NEW g \in 1..Newest, NEW t \in DOMAIN Directories[g]
  PROVE  /\ t \in DOMAIN TreesOf(g) /\ TreeItems(TreesOf(g)[t])
         /\ DirectoryTree(TreesOf(g)[t], Directories[g][t])
<1>1. g \in 1..MaxGeneration
  BY HistoryIs
<1>2. CASE t = FsTree
  <2>1. DirectoryTree(FsItems[g], Directories[g][t])
    BY <1>1, <1>2, DirectoriesAssumption
  <2>2. TreeItems(FsItems[g])
    BY <1>1, CommitLeaves
  <2>3. FsTree \in DOMAIN TreesOf(g) /\ TreesOf(g)[FsTree] = FsItems[g]
    BY RootsAre
  <2> QED BY <1>2, <2>1, <2>2, <2>3
<1>3. CASE t # FsTree
  <2>1. PICK i \in OtherRoots :
          /\ i.key.item_type = RootItem /\ i.key.object_id = t /\ t >= 256
          /\ DirectoryTree(FixedItems(i.data[1].root_node_block_number), Directories[g][t])
    BY <1>1, <1>3, DirectoriesAssumption
  <2>2. i \in RootsOf(g)
    BY <2>1 DEF RootsOf, RootItems
  <2>3. i.data[1].root_node_block_number = RootOf(g, t) /\ FixedTree(RootOf(g, t))
        /\ TreesOf(g)[t] = FixedItems(RootOf(g, t))
    BY <1>3, <2>1, <2>2, RootsAre
  <2>4. t \in DOMAIN TreesOf(g)
    BY <2>1, <2>2, RootsAre
  <2>5. TreeItems(TreesOf(g)[t])
    BY <2>3 DEF FixedTree
  <2>6. DirectoryTree(TreesOf(g)[t], Directories[g][t])
    BY <2>1, <2>3
  <2> QED BY <2>4, <2>5, <2>6
<1> QED BY <1>2, <1>3

(* A back reference leads to a directory and by a name to its subvolume.   *)
LEMMA BackrefLeads ==
  ASSUME FsInv, NEW g \in 1..Newest, NEW b \in Backrefs[g]
  PROVE  /\ b.key.offset \in DOMAIN TreesOf(g)
         /\ b.data[1].directory_id \in DOMAIN Directories[g][b.key.offset].links
         /\ <<RootBackrefName(b.data)>> \in Seq(Range(<<RootBackrefName(b.data)>>))
         /\ Lookup(TreesOf(g)[b.key.offset], b.data[1].directory_id, <<RootBackrefName(b.data)>>)
              = b.key.object_id
<1> DEFINE t == b.key.offset
           tree == Directories[g][t]
           items == TreesOf(g)[t]
<1>1. g \in 1..MaxGeneration
  BY HistoryIs
<1>2. t \in DOMAIN Directories[g]
  BY <1>1, DirectoriesAssumption
<1>3. PICK at \in DOMAIN tree.names : \E e \in Range(tree.names[at]) :
        /\ at[1] \in DOMAIN tree.links /\ at = <<at[1], Hash[e.name]>>
        /\ b.data = RootRefData(at[1], e.name) /\ e.child_key.object_id = b.key.object_id
  BY <1>1, DirectoriesAssumption
<1>4. PICK e \in Range(tree.names[at]) :
        /\ at[1] \in DOMAIN tree.links /\ at = <<at[1], Hash[e.name]>>
        /\ b.data = RootRefData(at[1], e.name) /\ e.child_key.object_id = b.key.object_id
  BY <1>3
<1>5. PICK d, name : d = at[1] /\ name = e.name
  OBVIOUS
<1>6. t \in DOMAIN TreesOf(g) /\ TreeItems(items) /\ DirectoryTree(items, tree)
  BY <1>2, DirectoryIs
<1> HIDE DEF t, tree, items
<1>7. Listed(tree, d, name, b.key.object_id)
  BY <1>3, <1>4, <1>5 DEF Listed
<1>8. ChildOf(items, d, name) = b.key.object_id /\ name \in Seq(Range(name))
  BY <1>6, <1>7, ListedFound
<1>9. b.data[1].directory_id = d /\ RootBackrefName(b.data) = name
  <2> DEFINE head == [directory_id |-> d, name_length |-> Len(name)]
  <2>1. b.data = <<head>> \o name
    BY <1>4, <1>5 DEF RootRefData
  <2>2. head.directory_id = d /\ head.name_length = Len(name)
    OBVIOUS
  <2> HIDE DEF head
  <2>3. (<<head>> \o name)[1] = head /\ Slice(<<head>> \o name, 1, Len(name)) = name
    BY <1>8, NameBehind
  <2> QED BY <2>1, <2>2, <2>3 DEF RootBackrefName
<1>10. Lookup(items, d, <<name>>) = b.key.object_id
  <2>1. <<>> \in Seq({}) /\ <<name>> \o <<>> = <<name>>
    OBVIOUS
  <2>2. Lookup(items, d, <<name>> \o <<>>) = Lookup(items, ChildOf(items, d, name), <<>>)
    <3>1. LeadsDown(items, d, name, <<>>)
      BY <2>1, LookupFirst
    <3> QED BY <3>1 DEF LeadsDown
  <2>3. Lookup(items, ChildOf(items, d, name), <<>>) = ChildOf(items, d, name)
    BY <2>1, LookupFirst
  <2> QED BY <1>8, <2>1, <2>2, <2>3
<1>11. <<name>> \in Seq(Range(<<name>>))
  BY DEF Range
<1>12. d \in DOMAIN tree.links
  BY <1>4, <1>5
<1> QED BY <1>6, <1>9, <1>10, <1>11, <1>12 DEF t, tree, items

(* From a directory the link leads up, and its name back down.             *)
LEMMA LinkLeads ==
  ASSUME FsInv, NEW g \in 1..Newest, NEW t \in DOMAIN Directories[g],
         NEW d \in DOMAIN Directories[g][t].links, NEW S, NEW path \in Seq(S)
  PROVE  LET refs == inode_refs(TreesOf(g)[t], d)
             name == InodeRefName(Entries(refs[1].data, InodeRef)[0])
             up == refs[1].key.offset
         IN  /\ refs # <<>>
             /\ up = d => d = 256
             /\ up # d => /\ up \in DOMAIN Directories[g][t].links
                          /\ PushFront(name, path) \in Seq(Range(PushFront(name, path)))
                          /\ Lookup(TreesOf(g)[t], up, PushFront(name, path)) = Lookup(TreesOf(g)[t], d, path)
<1> DEFINE items == TreesOf(g)[t]
           tree == Directories[g][t]
           refs == inode_refs(items, d)
           name == InodeRefName(Entries(refs[1].data, InodeRef)[0])
           up == refs[1].key.offset
           link == tree.links[d]
<1>1. TreeItems(items) /\ DirectoryTree(items, tree)
  BY DirectoryIs
<1>2. d \in DOMAIN tree.links
  OBVIOUS
<1> HIDE DEF items, tree
<1>3. /\ refs # <<>> /\ up = link.parent /\ name = link.name
      /\ link.name \in Seq(Range(link.name))
      /\ IF link.parent = d THEN d = 256
         ELSE link.parent \in DOMAIN tree.links /\ Listed(tree, link.parent, link.name, d)
  BY <1>1, <1>2, LinkFound
<1> HIDE DEF refs, up, name, link
<1>4. ASSUME up # d
      PROVE  /\ up \in DOMAIN tree.links
             /\ PushFront(name, path) \in Seq(Range(PushFront(name, path)))
             /\ Lookup(items, up, PushFront(name, path)) = Lookup(items, d, path)
  <2>1. up \in DOMAIN tree.links /\ Listed(tree, up, name, d)
    BY <1>3, <1>4
  <2>2. ChildOf(items, up, name) = d
    BY <1>1, <2>1, ListedFound
  <2>3. Lookup(items, up, <<name>> \o path) = Lookup(items, ChildOf(items, up, name), path)
    <3>1. LeadsDown(items, up, name, path)
      BY LookupFirst
    <3> QED BY <3>1 DEF LeadsDown
  <2>4. <<name>> \o path \in Seq({name} \cup S)
    BY NameBehind
  <2>5. <<name>> \o path \in Seq(Range(<<name>> \o path))
    BY <2>4, SeqOfRange
  <2> QED BY <2>1, <2>2, <2>3, <2>5 DEF PushFront
<1> QED BY <1>3, <1>4, Zenon DEF items, tree, refs, up, name

-----------------------------------------------------------------------------
(* Naming a subvolume.                                                     *)

(* Of an opened generation the program starts on a way,                    *)
LEMMA WayStarts ==
  ASSUME IInv, NEW of \in subvolume_root_backrefs(root_tree), SubvolumePath(of),
         NEW g \in 1..MaxGeneration, g = Attempted(attempt), Sound(g)
  PROVE  OnTheWay(g)'
<1>1. /\ pc = "opened" /\ backref' = of /\ path_parts' = <<RootBackrefName(of.data)>>
      /\ object_id' = of.data[1].directory_id
      /\ pc' = IF of.key.offset \in DOMAIN filesystem_trees THEN "climb" ELSE "unnamed"
      /\ UNCHANGED fsVars /\ UNCHANGED deviceVars
  BY DEF SubvolumePath
<1>2. FsInv /\ g \in 1..Newest
  BY DEF IInv, Sound
<1>3. root_tree = RootItems(g, history[g].fs) /\ filesystem_trees = TreesOf(g)
  BY <1>1 DEF IInv, OpenedOK, Opened
<1>4. of \in Backrefs[g]
  <2> DEFINE own == [key |-> Key(FsTree, RootItem, 0), data |-> RootItemData(history[g].fs)]
  <2>1. own.key.item_type = RootItem
    BY DEF Key
  <2>2. RootItems(g, history[g].fs) = OtherRoots \cup Backrefs[g] \cup {own}
    BY DEF RootItems
  <2> HIDE DEF own
  <2>3. of \in OtherRoots \cup Backrefs[g] \cup {own} /\ of.key.item_type = RootBackref
    BY <1>3, <2>2 DEF subvolume_root_backrefs
  <2>4. of \notin OtherRoots
    BY <2>3, RootsAssumption
  <2>5. of # own
    BY <2>1, <2>3 DEF RootItem, RootBackref
  <2> QED BY <2>3, <2>4, <2>5
<1>5. /\ of.key.offset \in DOMAIN TreesOf(g)
      /\ of.data[1].directory_id \in DOMAIN Directories[g][of.key.offset].links
      /\ <<RootBackrefName(of.data)>> \in Seq(Range(<<RootBackrefName(of.data)>>))
      /\ Lookup(TreesOf(g)[of.key.offset], of.data[1].directory_id, <<RootBackrefName(of.data)>>)
           = of.key.object_id
  BY <1>2, <1>4, BackrefLeads
<1>6. pc' = "climb"
  BY <1>1, <1>3, <1>5
<1>7. TreesOf(g)' = TreesOf(g)
  BY <1>1, Same
<1>8. PICK parts : parts = <<RootBackrefName(of.data)>>
  OBVIOUS
<1>9. path_parts' = parts /\ parts \in Seq(Range(parts))
  BY <1>1, <1>5, <1>8
<1>10. PICK items : items = TreesOf(g)[of.key.offset]
  OBVIOUS
<1>11. PICK d : d = of.data[1].directory_id
  OBVIOUS
<1>12. Lookup(items, d, parts) = of.key.object_id /\ d \in DOMAIN Directories[g][of.key.offset].links
  BY <1>5, <1>8, <1>10, <1>11
<1>13. (TreesOf(g)[backref.key.offset])' = items /\ backref' = of /\ object_id' = d
  BY <1>1, <1>7, <1>10, <1>11
<1> QED BY <1>4, <1>6, <1>9, <1>12, <1>13 DEF OnTheWay

(* and stays on it as it climbs.                                           *)
LEMMA WayClimbs ==
  ASSUME IInv, Climb, NEW g \in 1..MaxGeneration, g = Attempted(attempt), Sound(g), OnTheWay(g)
  PROVE  OnTheWay(g)'
<1> DEFINE t == backref.key.offset
           tree == Directories[g][t]
           items == TreesOf(g)[t]
           refs == inode_refs(items, object_id)
           name == InodeRefName(Entries(refs[1].data, InodeRef)[0])
           up == refs[1].key.offset
<1>1. pc = "climb" /\ UNCHANGED fsVars /\ UNCHANGED deviceVars /\ backref' = backref
  BY DEF Climb
<1>2. FsInv /\ g \in 1..Newest /\ g \in 1..MaxGeneration
  BY DEF IInv, Sound
<1>3. filesystem_trees = TreesOf(g)
  BY <1>1 DEF IInv, OpenedOK, Opened
<1>4. /\ backref \in Backrefs[g] /\ object_id \in DOMAIN tree.links
      /\ path_parts \in Seq(Range(path_parts))
      /\ Lookup(items, object_id, path_parts) = backref.key.object_id
  BY DEF OnTheWay
<1>5. t \in DOMAIN Directories[g]
  BY <1>2, <1>4, DirectoriesAssumption
<1>6. \/ refs = <<>>
      \/ refs # <<>> /\ up = object_id /\ pc' = "named" /\ UNCHANGED <<object_id, path_parts>>
      \/ refs # <<>> /\ up # object_id /\ pc' = pc /\ object_id' = up /\ path_parts' = PushFront(name, path_parts)
  <2>1. \E r \in {refs} :
          IF r = <<>>
          THEN pc' = "unnamed" /\ UNCHANGED <<object_id, path_parts>>
          ELSE IF r[1].key.offset = object_id
          THEN pc' = "named" /\ UNCHANGED <<object_id, path_parts>>
          ELSE /\ path_parts' = PushFront(InodeRefName(Entries(r[1].data, InodeRef)[0]), path_parts)
               /\ object_id' = r[1].key.offset
               /\ UNCHANGED pc
    BY <1>3, Zenon DEF Climb
  <2> HIDE DEF refs
  <2> QED BY <2>1
<1>7. /\ refs # <<>>
      /\ up = object_id => object_id = 256
      /\ up # object_id =>
           /\ up \in DOMAIN tree.links
           /\ PushFront(name, path_parts) \in Seq(Range(PushFront(name, path_parts)))
           /\ Lookup(items, up, PushFront(name, path_parts)) = Lookup(items, object_id, path_parts)
  <2>1. PICK d, path : d = object_id /\ path = path_parts
    OBVIOUS
  <2>2. d \in DOMAIN Directories[g][t].links /\ path \in Seq(Range(path_parts))
    BY <1>4, <2>1
  <2>3. LET r == inode_refs(TreesOf(g)[t], d)
            n == InodeRefName(Entries(r[1].data, InodeRef)[0])
            u == r[1].key.offset
        IN  /\ r # <<>>
            /\ u = d => d = 256
            /\ u # d => /\ u \in DOMAIN Directories[g][t].links
                        /\ PushFront(n, path) \in Seq(Range(PushFront(n, path)))
                        /\ Lookup(TreesOf(g)[t], u, PushFront(n, path)) = Lookup(TreesOf(g)[t], d, path)
    <3> HIDE DEF t
    <3> QED BY <1>2, <1>5, <2>2, LinkLeads, SMTT(60)
  <2> QED BY <2>1, <2>3
<1>8. TreesOf(g)' = TreesOf(g)
  BY <1>1, Same
<1> HIDE DEF tree, items, refs, name, up
<1>9. PICK r : r = tree
  OBVIOUS
<1>10. PICK i : i = items
  OBVIOUS
<1>11. (TreesOf(g)[backref.key.offset])' = i /\ Directories[g][backref'.key.offset] = r
  BY <1>1, <1>8, <1>9, <1>10 DEF items, tree
<1>12. CASE up = object_id
  <2>1. pc' = "named" /\ object_id' = object_id /\ path_parts' = path_parts /\ object_id = 256
    BY <1>6, <1>7, <1>12
  <2>2. PICK d, path : d = object_id /\ path = path_parts
    OBVIOUS
  <2>3. Lookup(i, d, path) = backref.key.object_id /\ object_id' = d /\ path_parts' = path
    BY <1>4, <1>10, <2>1, <2>2
  <2> QED BY <1>1, <1>4, <1>9, <1>11, <2>1, <2>3 DEF OnTheWay
<1>13. CASE up # object_id
  <2>1. pc' = "climb" /\ object_id' = up /\ path_parts' = PushFront(name, path_parts)
    BY <1>1, <1>6, <1>7, <1>13
  <2>2. PICK path : path = PushFront(name, path_parts)
    OBVIOUS
  <2>3. PICK u : u = up
    OBVIOUS
  <2>4. /\ u \in DOMAIN r.links /\ path \in Seq(Range(path)) /\ Lookup(i, u, path) = backref.key.object_id
        /\ object_id' = u /\ path_parts' = path
    BY <1>4, <1>7, <1>9, <1>10, <1>13, <2>1, <2>2, <2>3
  <2> QED BY <1>1, <1>4, <1>11, <2>1, <2>4 DEF OnTheWay
<1> QED BY <1>12, <1>13

(* A way is changed by nothing else.                                       *)
LEMMA WayStays ==
  ASSUME UNCHANGED vars, NEW g, OnTheWay(g)
  PROVE  OnTheWay(g)'
<1>1. /\ UNCHANGED fsVars /\ UNCHANGED deviceVars
      /\ pc' = pc /\ backref' = backref /\ object_id' = object_id /\ path_parts' = path_parts
  BY DEF vars, progVars, pathVars
<1>2. TreesOf(g)' = TreesOf(g)
  BY <1>1, Same
<1>3. PICK items, d, path : items = TreesOf(g)[backref.key.offset] /\ d = object_id /\ path = path_parts
  OBVIOUS
<1>4. (TreesOf(g)[backref.key.offset])' = items /\ object_id' = d /\ path_parts' = path
  BY <1>1, <1>2, <1>3
<1>5. Lookup(items, d, path) = backref.key.object_id
  BY <1>3 DEF OnTheWay
<1> QED BY <1>1, <1>3, <1>4, <1>5 DEF OnTheWay

(* NamedOK is kept by every step, given the invariant.                     *)
LEMMA NamedStep == IInv /\ NamedOK /\ [Next]_vars => NamedOK'
<1> SUFFICES ASSUME IInv, NamedOK, [Next]_vars, pc' \in {"climb", "named", "unnamed"},
                    NEW g \in 1..MaxGeneration, g = Attempted(attempt)', Sound(g)'
             PROVE  OnTheWay(g)'
  BY DEF NamedOK
<1>1. \/ Climb
      \/ \E of \in subvolume_root_backrefs(root_tree) : SubvolumePath(of)
      \/ UNCHANGED vars
  <2>1. CASE FileSystem
    <3>1. pc = "off" /\ UNCHANGED progVars
      BY <2>1, Zenon DEF FileSystem, BeginCommit, WriteNode, WriteSuper, LoseNode, LoseSuper
    <3> QED BY <3>1 DEF progVars
  <2>2. ASSUME NEW list \in Given, Open(list) PROVE FALSE
    BY <2>2 DEF Open
  <2>3. CASE AddDevice
    <3>1. pc' \in {"devices", "failed"}
      BY <2>3, Zenon DEF AddDevice
    <3> QED BY <3>1
  <2>4. CASE EndDevices
    <3>1. pc' = "failed" \/ pc' = "chunks"
      BY <2>4 DEF EndDevices
    <3> QED BY <3>1
  <2>5. CASE ReadChunkNode \/ ChunkTreeRead \/ ReadTreeNode \/ TreeRead
    <3>1. FailOpen => pc' = "failed" \/ pc' = "chunks"
      BY DEF FailOpen
    <3>2. ReadChunkNode => FailOpen \/ (pc' = pc /\ pc = "chunks")
      BY Zenon DEF ReadChunkNode
    <3>3. ChunkTreeRead => pc' = "panic" \/ pc' = "tree"
      BY DEF ChunkTreeRead
    <3>4. ReadTreeNode => pc = "tree" /\ (pc' = pc \/ pc' = "panic")
      BY DEF ReadTreeNode
    <3>5. TreeRead => FailOpen \/ pc' = "opened" \/ (pc' = pc /\ pc = "tree")
      BY Zenon DEF TreeRead
    <3> QED BY <2>5, <3>1, <3>2, <3>3, <3>4, <3>5
  <2> QED BY <2>1, <2>2, <2>3, <2>4, <2>5 DEF Next, Program, Done
<1>2. /\ UNCHANGED fsVars /\ UNCHANGED deviceVars /\ attempt' = attempt
      /\ Climb \/ UNCHANGED vars => pc \in {"climb", "named", "unnamed"}
  <2>1. CASE Climb
    BY <2>1 DEF Climb, readVars
  <2>2. ASSUME NEW of \in subvolume_root_backrefs(root_tree), SubvolumePath(of)
        PROVE  UNCHANGED fsVars /\ UNCHANGED deviceVars /\ attempt' = attempt
    BY <2>2 DEF SubvolumePath, readVars
  <2>3. CASE UNCHANGED vars
    BY <2>3 DEF vars, progVars, readVars
  <2>4. UNCHANGED vars => pc' = pc
    BY DEF vars, progVars
  <2>5. Climb => pc = "climb"
    BY DEF Climb
  <2> QED BY <1>1, <2>1, <2>2, <2>3, <2>4, <2>5
<1>3. g = Attempted(attempt) /\ Sound(g)
  <2>1. Sound(g)' <=> Sound(g)
    BY <1>2, Same
  <2>2. PICK n : n = attempt
    OBVIOUS
  <2>3. Attempted(n)' = Attempted(n)
    BY <1>2, Same
  <2> QED BY <1>2, <2>1, <2>2, <2>3
<1>4. CASE Climb
  <2>1. OnTheWay(g)
    BY <1>2, <1>3, <1>4 DEF NamedOK
  <2> QED BY <1>3, <1>4, <2>1, WayClimbs
<1>5. CASE \E of \in subvolume_root_backrefs(root_tree) : SubvolumePath(of)
  BY <1>3, <1>5, WayStarts
<1>6. CASE UNCHANGED vars
  <2>1. OnTheWay(g)
    BY <1>2, <1>3, <1>6 DEF NamedOK
  <2> QED BY <1>6, <2>1, WayStays
<1> QED BY <1>1, <1>4, <1>5, <1>6

(* PathRoundTrip follows from where the way ends.                          *)
LEMMA PathHolds == IInv /\ NamedOK => PathRoundTrip
<1> SUFFICES ASSUME IInv, NamedOK, pc \in {"named", "unnamed"}, attempt = 0 \/ Readable(Attempted(attempt))
             PROVE  /\ pc = "named"
                    /\ Lookup(filesystem_trees[backref.key.offset], 256, path_parts) = backref.key.object_id
  BY DEF PathRoundTrip
<1>1. FsInv /\ DevicesOK /\ ChosenOK /\ superblock # None /\ attempt \in 0..4 /\ Opened
  BY DEF IInv, ChosenOK, Opened, Tried
<1>2. PICK g : g = Attempted(attempt)
  OBVIOUS
<1>3. Sound(g)
  BY <1>1, <1>2, WholeIsSound
<1>4. g \in 1..MaxGeneration
  BY <1>1, <1>3, HistoryIs DEF Sound
<1>5. OnTheWay(g)
  BY <1>2, <1>3, <1>4 DEF NamedOK
<1>6. filesystem_trees = TreesOf(g)
  BY <1>1, <1>2, <1>3, <1>4 DEF IInv, OpenedOK
<1>7. pc = "named" /\ object_id = 256
  BY <1>5 DEF OnTheWay
<1>8. PICK items, d : items = TreesOf(g)[backref.key.offset] /\ d = object_id
  OBVIOUS
<1>9. Lookup(items, d, path_parts) = backref.key.object_id
  BY <1>5, <1>8 DEF OnTheWay
<1> QED BY <1>6, <1>7, <1>8, <1>9

(* The path that is found for a subvolume leads from the top of its parent *)
(* tree back to the subvolume (subvolume_path against dir_item_entry).     *)
THEOREM PathsLeadBack == Spec => []PathRoundTrip
<1>1. Init => NamedOK
  <2>1. Init => pc = "off"
    BY DEF Init
  <2> QED BY <2>1 DEF NamedOK
<1>2. IInv /\ NamedOK /\ [Next]_vars => NamedOK'
  BY NamedStep
<1>3. IInv /\ NamedOK => PathRoundTrip
  BY PathHolds
<1> QED BY <1>1, <1>2, <1>3, Invariant, PTL DEF Spec
=============================================================================
