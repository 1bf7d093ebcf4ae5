-------------------------- MODULE ScanCacheProofs ---------------------------
(***************************************************************************)
(* For any set of files, archives and contents, any number of runs,        *)
(* crashes and modifications: a hash that dupion has recorded, in memory   *)
(* or in the cache file, is the hash of the file as long as the recorded   *)
(* ctime is the file's.                                                    *)
(***************************************************************************)
EXTENDS ScanCache, FiniteSetTheorems, TLAPS

Tree == [Nodes -> Entry]

USE ConstantsAssumption DEF ahead

(* VfsEntry::new makes an entry: no ctime, no hash.                        *)
LEMMA NewEntryType == NewEntry \in Entry
  BY DEF NewEntry, Entry

(* What is stored keeps hash, ctime and size of every entry.               *)
LEMMA SerializedKeeps ==
  ASSUME NEW t \in Tree
  PROVE  /\ Serialized(t) \in Tree
         /\ \A n \in Nodes : /\ Serialized(t)[n].hash = t[n].hash
                             /\ Serialized(t)[n].ctime = t[n].ctime
                             /\ Serialized(t)[n].size = t[n].size
<1>1. ASSUME NEW n \in Nodes PROVE Stored(t[n]) \in Entry
  <2>1. t[n] \in Entry
    BY DEF Tree
  <2> QED
    BY <2>1 DEF Stored, Entry
<1> QED
  BY <1>1 DEF Serialized, Tree, Stored

(* Everything that can be in the cache after a store of a tree with the    *)
(* invariant has it too.                                                   *)
LEMMA StoreSound ==
  ASSUME NEW t \in Tree, NEW d, NEW n, FreshIn(d, t), NotLater(n, t),
         NEW c \in StoreOutcomes(t)
  PROVE  c \in Tree /\ FreshIn(d, c) /\ NotLater(n, c)
<1>1. Files \subseteq Nodes
  BY DEF Nodes
<1>2. CASE c = Serialized(t)
  BY <1>1, <1>2, SerializedKeeps DEF FreshIn, NotLater
<1>3. CASE c = NoTree
  BY <1>1, <1>3, NewEntryType DEF FreshIn, NotLater, NoTree, NewEntry, Tree
<1> QED
  BY <1>2, <1>3 DEF StoreOutcomes

(* A tree of fresh entries, as a first run or a lost cache has it, records *)
(* no hash that could be stale.                                            *)
LEMMA NoTreeSound ==
  ASSUME NEW d, NEW n
  PROVE  NoTree \in Tree /\ FreshIn(d, NoTree) /\ NotLater(n, NoTree)
<1>1. Files \subseteq Nodes
  BY DEF Nodes
<1> QED
  BY <1>1, NewEntryType DEF FreshIn, NotLater, NoTree, NewEntry, Tree

(* set_valid keeps hash, ctime and size.                                   *)
LEMMA SetValidKeeps ==
  ASSUME NEW t \in Tree, NEW S
  PROVE  /\ SetValid(t, S) \in Tree
         /\ \A n \in Nodes : /\ SetValid(t, S)[n].hash = t[n].hash
                             /\ SetValid(t, S)[n].ctime = t[n].ctime
                             /\ SetValid(t, S)[n].size = t[n].size
<1>1. ASSUME NEW n \in Nodes
      PROVE  /\ SetValid(t, S)[n] \in Entry
             /\ SetValid(t, S)[n].hash = t[n].hash
             /\ SetValid(t, S)[n].ctime = t[n].ctime
             /\ SetValid(t, S)[n].size = t[n].size
  <2>1. t[n] \in Entry
    BY DEF Tree
  <2>2. CASE n \in S
    <3>1. SetValid(t, S)[n] = [t[n] EXCEPT !.valid = TRUE,
                                           !.is_file = @ \/ t[n].was_file,
                                           !.is_dir = @ \/ t[n].was_dir]
      BY <2>2 DEF SetValid
    <3> HIDE DEF SetValid
    <3> QED
      BY <2>1, <3>1 DEF Entry
  <2>3. CASE n \notin S
    <3>1. SetValid(t, S)[n] = t[n]
      BY <2>3 DEF SetValid
    <3> QED
      BY <2>1, <3>1
  <2> QED
    BY <2>2, <2>3
<1> QED
  BY <1>1 DEF SetValid, Tree

(* The groups stay well typed.                                             *)
LEMMA PushTypes ==
  ASSUME NEW t \in Tree, NEW S \in SUBSET Nodes,
         sizes \in [SizeValues -> SUBSET Nodes],
         hashes \in [Contents -> SUBSET Nodes],
         group_size \in [Contents -> Nat \cup {None}]
  PROVE  /\ PushSizes(t, S) \in [SizeValues -> SUBSET Nodes]
         /\ PushHashes(t, S) \in [Contents -> SUBSET Nodes]
         /\ PushGroupSize(t, S) \in [Contents -> Nat \cup {None}]
<1>1. HashedIn(t, S) \in SUBSET Nodes
  BY DEF HashedIn
<1>2. PushSizes(t, S) \in [SizeValues -> SUBSET Nodes]
  BY DEF PushSizes
<1>3. PushHashes(t, S) \in [Contents -> SUBSET Nodes]
  BY <1>1 DEF PushHashes
<1>4. ASSUME NEW h \in Contents, \E n \in HashedIn(t, S) : t[n].hash = h
      PROVE  t[CHOOSE n \in HashedIn(t, S) : t[n].hash = h].size \in Nat \cup {None}
  <2>1. (CHOOSE n \in HashedIn(t, S) : t[n].hash = h) \in HashedIn(t, S)
    BY <1>4
  <2>2. (CHOOSE n \in HashedIn(t, S) : t[n].hash = h) \in Nodes
    BY <1>1, <2>1
  <2> QED
    BY <2>2 DEF Tree, Entry
<1>5. PushGroupSize(t, S) \in [Contents -> Nat \cup {None}]
  BY <1>4 DEF PushGroupSize
<1> QED
  BY <1>2, <1>3, <1>5

-----------------------------------------------------------------------------
(* The initial state satisfies the inductive invariant.                    *)
LEMMA InitIInv == Init => IInv
<1> SUFFICES ASSUME Init PROVE IInv
  OBVIOUS
<1>1. NoTree \in Tree /\ FreshIn(disk, NoTree) /\ NotLater(now, NoTree)
  BY NoTreeSound
<1>2. TypeOK
  <2>1. [data : Contents, ctime : {0}] \subseteq [data : Contents, ctime : Nat]
    OBVIOUS
  <2>2. disk \in [Files -> [data : Contents, ctime : Nat] \cup {None}]
    BY <2>1 DEF Init
  <2> QED
    BY <1>1, <2>2 DEF Init, TypeOK, Tree, Meta, DecodeTask
<1>3. TimesInv
  BY <1>1 DEF Init, TimesInv
<1>4. ReadInv /\ DecodeInv
  BY DEF Init, ReadInv, DecodeInv
<1>5. HashFresh
  BY <1>1 DEF Init, HashFresh
<1> QED
  BY <1>2, <1>3, <1>4, <1>5 DEF IInv

(* Other programs change a file: its new ctime is later than any recorded. *)
LEMMA EnvironmentStep ==
  ASSUME IInv, Environment PROVE IInv'
<1> USE DEF IInv
<1>1. ASSUME NEW f \in Files, NEW c \in Possible[f], Modify(f, c) PROVE IInv'
  <2> USE <1>1 DEF Modify, scan
  <2>1. c \in Contents
    OBVIOUS
  <2>2. TypeOK'
    BY <2>1 DEF TypeOK
  <2>3. TimesInv'
    BY DEF TypeOK, TimesInv, NotLater, Entry, Meta, Nodes
  <2>4. ReadInv'
    BY DEF TypeOK, ReadInv, TimesInv, NotLater, Entry, Nodes
  <2>5. DecodeInv'
    BY DEF DecodeInv
  <2>6. HashFresh'
    BY DEF TypeOK, HashFresh, FreshIn, TimesInv, NotLater, Entry, Nodes
  <2> QED
    BY <2>2, <2>3, <2>4, <2>5, <2>6
<1>2. ASSUME NEW f \in Files, Delete(f) PROVE IInv'
  <2> USE <1>2 DEF Delete, scan
  <2>1. TypeOK'
    BY DEF TypeOK
  <2>2. TimesInv' /\ ReadInv' /\ DecodeInv' /\ HashFresh'
    BY DEF TypeOK, TimesInv, ReadInv, DecodeInv, HashFresh, FreshIn, NotLater
  <2> QED
    BY <2>1, <2>2
<1> QED
  BY <1>1, <1>2 DEF Environment

(* The process starts, ends, or is killed.                                 *)
LEMMA GoneStep ==
  ASSUME IInv, Gone, cache' \in {cache, NoTree} PROVE IInv'
<1> USE DEF IInv, Gone, ClearScan
<1>1. /\ NoTree \in Tree
      /\ FreshIn(disk, NoTree) /\ NotLater(now, NoTree)
  BY NoTreeSound
<1>2. cache' \in Tree /\ FreshIn(disk, cache') /\ NotLater(now, cache')
  BY <1>1 DEF TypeOK, Tree, HashFresh, TimesInv
<1>3. TypeOK'
  BY <1>1, <1>2 DEF TypeOK, Tree, Meta, DecodeTask
<1>4. TimesInv' /\ ReadInv' /\ DecodeInv' /\ HashFresh'
  BY <1>1, <1>2 DEF TypeOK, TimesInv, ReadInv, DecodeInv, HashFresh
<1> QED
  BY <1>3, <1>4

(* What is loaded from the cache is sound.                                 *)
LEMMA LoadSound ==
  ASSUME IInv, NEW c \in LoadOutcomes
  PROVE  c \in Tree /\ FreshIn(disk, c) /\ NotLater(now, c)
<1>1. CASE c = cache
  BY <1>1 DEF IInv, TypeOK, Tree, HashFresh, TimesInv
<1>2. CASE c = NoTree
  BY <1>2, NoTreeSound
<1> QED
  BY <1>1, <1>2 DEF LoadOutcomes

(* The steps of the process as a whole: its start, the load of the cache,  *)
(* its exit, crash and panics.                                             *)
LEMMA ProcessStep ==
  ASSUME IInv, Process PROVE IInv'
<1> USE DEF IInv
<1>1. ASSUME NEW ra \in BOOLEAN, Start(ra) PROVE IInv'
  <2> USE <1>1 DEF Start, ClearScan
  <2>0. tree' \in Tree /\ FreshIn(disk, tree') /\ NotLater(now, tree')
    BY LoadSound
  <2>1. TypeOK'
    <3>1. read_archives' \in BOOLEAN /\ panicked' \in BOOLEAN
      OBVIOUS
    <3>2. /\ sizes' \in [SizeValues -> SUBSET Nodes]
          /\ hashes' \in [Contents -> SUBSET Nodes]
          /\ group_size' \in [Contents -> Nat \cup {None}]
      OBVIOUS
    <3>3. meta' \in [Files -> Meta] /\ decode' \in [Files -> DecodeTask]
      BY DEF Meta, DecodeTask
    <3>4. tree' \in [Nodes -> Entry] /\ cache' \in [Nodes -> Entry]
      BY <2>0 DEF TypeOK, Tree
    <3>5. runs' \in Nat /\ disturbed' \in SUBSET Files /\ todo' \in SUBSET Files
      BY DEF TypeOK
    <3>6. /\ failed' \in SUBSET Files /\ behind' \in Files \cup {None}
          /\ lost' \in [Files -> Files \cup {None}]
      OBVIOUS
    <3> QED
      BY <3>1, <3>2, <3>3, <3>4, <3>5, <3>6 DEF TypeOK
  <2>2. TimesInv' /\ ReadInv' /\ DecodeInv' /\ HashFresh'
    BY <2>0 DEF TypeOK, TimesInv, ReadInv, DecodeInv, HashFresh
  <2> QED
    BY <2>1, <2>2
<1>2. ASSUME NEW c \in LoadOutcomes, DirtyLoad(c) PROVE IInv'
  <2> DEFINE S == {n \in Nodes : c[n] # NewEntry}
             t == SetValid(c, S)
  <2>1. /\ c \in Tree /\ FreshIn(disk, c) /\ NotLater(now, c)
        /\ S \in SUBSET Nodes /\ Files \subseteq Nodes
    BY LoadSound DEF Nodes
  <2>2. /\ t \in Tree
        /\ \A n \in Nodes : t[n].hash = c[n].hash /\ t[n].ctime = c[n].ctime
    BY <2>1, SetValidKeeps
  <2>3. /\ PushSizes(t, S) \in [SizeValues -> SUBSET Nodes]
        /\ PushHashes(t, S) \in [Contents -> SUBSET Nodes]
        /\ PushGroupSize(t, S) \in [Contents -> Nat \cup {None}]
    BY <2>1, <2>2, PushTypes DEF TypeOK
  <2>4. FreshIn(disk, t) /\ NotLater(now, t)
    BY <2>1, <2>2 DEF FreshIn, NotLater
  <2>5. PushPanics(t, S) \in BOOLEAN
    BY DEF PushPanics
  <2> HIDE DEF t
  <2>6. CASE PushPanics(t, S)
    <3>1. UNCHANGED scan /\ UNCHANGED <<disk, now, cache, read_archives, phase>>
      BY <1>2, <2>6 DEF DirtyLoad, t
    <3>2. runs' \in Nat /\ panicked' \in BOOLEAN /\ disturbed' \in SUBSET Files
      BY <1>2, <2>5 DEF DirtyLoad, t, TypeOK
    <3>3. TypeOK'
      BY <3>1, <3>2 DEF TypeOK, scan
    <3> QED
      BY <3>1, <3>3 DEF scan, TimesInv, ReadInv, DecodeInv, HashFresh
  <2>7. CASE ~PushPanics(t, S)
    <3>1. /\ tree' = t
          /\ sizes' = PushSizes(t, S)
          /\ hashes' = PushHashes(t, S)
          /\ group_size' = PushGroupSize(t, S)
          /\ phase' = "done"
          /\ UNCHANGED <<disk, now, cache, read_archives, todo, entries, meta, ahead,
                         reading, data, decode>>
      BY <1>2, <2>7 DEF DirtyLoad, t
    <3>2. runs' \in Nat /\ panicked' \in BOOLEAN /\ disturbed' \in SUBSET Files
      BY <1>2, <2>5 DEF DirtyLoad, t, TypeOK
    <3>3. TypeOK'
      BY <2>2, <2>3, <3>1, <3>2 DEF TypeOK, Tree
    <3>4. phase = "off" /\ reading = None /\ data = None
      BY <1>2 DEF DirtyLoad, ReadInv
    <3>5. TimesInv' /\ ReadInv' /\ DecodeInv' /\ HashFresh'
      BY <2>4, <3>1, <3>4 DEF TimesInv, ReadInv, DecodeInv, HashFresh
    <3> QED
      BY <3>3, <3>5
  <2> QED
    BY <2>6, <2>7
<1>3. CASE Exit
  BY <1>3, GoneStep DEF Exit
<1>4. CASE Crash
  BY <1>4, GoneStep DEF Crash
<1>5. CASE Unwind
  BY <1>5, GoneStep DEF Unwind
<1> QED
  BY <1>1, <1>2, <1>3, <1>4, <1>5 DEF Process

(* Pass 1.                                                                 *)
LEMMA PanicStep ==
  ASSUME IInv, PanicInLoop, tree' \in Tree, decode' = decode,
         FreshIn(disk, tree'), NotLater(now, tree')
  PROVE  IInv'
<1> USE DEF IInv, PanicInLoop
<1>1. TypeOK'
  BY DEF TypeOK, Tree, Meta
<1>2. TimesInv' /\ ReadInv' /\ DecodeInv' /\ HashFresh'
  BY DEF TypeOK, TimesInv, ReadInv, DecodeInv, HashFresh
<1> QED
  BY <1>1, <1>2

(* validate keeps a hash only together with its ctime.                     *)
LEMMA ValidatedSound ==
  ASSUME IInv, NEW f \in Files, meta[f] # None
  PROVE  LET t == [Validated(f) EXCEPT ![f].is_file = TRUE, ![f].size = meta[f].size]
         IN  t \in Tree /\ FreshIn(disk, t) /\ NotLater(now, t)
<1> DEFINE v == Validated(f)
           t == [v EXCEPT ![f].is_file = TRUE, ![f].size = meta[f].size]
<1>1. /\ tree \in Tree /\ f \in Nodes /\ Files \subseteq Nodes
      /\ meta[f].size \in Nat /\ meta[f].ctime \in Nat /\ meta[f].ctime <= now
  BY DEF IInv, TypeOK, Tree, Meta, Nodes, TimesInv
<1>2. v \in Tree /\ FreshIn(disk, v) /\ NotLater(now, v)
  <2>1. CASE IsValid(f)
    <3>1. v = SetValid(tree, {f} \cup Childs(tree, f))
      BY <2>1 DEF Validated
    <3> QED
      BY <1>1, <3>1, SetValidKeeps DEF IInv, HashFresh, FreshIn, TimesInv, NotLater
  <2>2. CASE ~IsValid(f)
    <3>1. v = [tree EXCEPT ![f].size = None, ![f].hash = None,
                           ![f].ctime = meta[f].ctime, ![f].valid = TRUE]
      BY <2>2 DEF Validated
    <3>2. tree[f] \in Entry
      BY <1>1 DEF Tree
    <3>3. v = [tree EXCEPT ![f] = [tree[f] EXCEPT !.size = None, !.hash = None,
                           !.ctime = meta[f].ctime, !.valid = TRUE]]
      BY <1>1, <3>1, <3>2 DEF Tree, Entry
    <3> DEFINE e == [tree[f] EXCEPT !.size = None, !.hash = None,
                                    !.ctime = meta[f].ctime, !.valid = TRUE]
    <3>4. e \in Entry /\ e.hash = None /\ e.ctime = meta[f].ctime
      BY <1>1, <3>2 DEF Entry
    <3> HIDE DEF e
    <3>5. v = [tree EXCEPT ![f] = e]
      BY <3>3 DEF e
    <3>6. v \in Tree /\ v[f].hash = None /\ v[f].ctime = meta[f].ctime
          /\ \A n \in Nodes \ {f} : v[n] = tree[n]
      BY <1>1, <3>4, <3>5 DEF Tree
    <3> QED
      BY <1>1, <3>6 DEF IInv, HashFresh, FreshIn, TimesInv, NotLater
  <2> QED
    BY <2>1, <2>2
<1> HIDE DEF v
<1>3. /\ t \in Tree
      /\ \A n \in Nodes : t[n].hash = v[n].hash /\ t[n].ctime = v[n].ctime
  <2>1. v[f] \in Entry
    BY <1>1, <1>2 DEF Tree
  <2> QED
    BY <1>1, <1>2, <2>1 DEF Tree, Entry
<1> QED
  BY <1>1, <1>2, <1>3 DEF v, FreshIn, NotLater

(* size_file keeps a cached hash only if validate found the same ctime.    *)
LEMMA SizeFileStep ==
  ASSUME IInv, NEW f \in Files, SizeFile(f) PROVE IInv'
<1> DEFINE t == [Validated(f) EXCEPT ![f].is_file = TRUE, ![f].size = meta[f].size]
           S == {f} \cup (IF IsValid(f) THEN Childs(tree, f) ELSE {})
<1>1. phase = "size" /\ meta[f] # None /\ tree' = t
  BY DEF SizeFile
<1>2. t \in Tree /\ FreshIn(disk, t) /\ NotLater(now, t)
  BY <1>1, ValidatedSound
<1>3. S \in SUBSET Nodes
  BY DEF Childs, Nodes
<1>4. reading = None /\ data = None
  BY <1>1 DEF IInv, ReadInv
<1>5. CASE PushPanics(t, S)
  <2>1. PanicInLoop /\ decode' = decode
    BY <1>5 DEF SizeFile
  <2> HIDE DEF t
  <2> QED
    BY <1>1, <1>2, <2>1, PanicStep
<1>6. CASE ~PushPanics(t, S)
  <2>1. /\ sizes' = PushSizes(t, S)
        /\ hashes' = PushHashes(t, S)
        /\ group_size' = PushGroupSize(t, S)
        /\ entries' = entries \cup {f}
        /\ meta' = [meta EXCEPT ![f] = None]
        /\ UNCHANGED <<disk, now, cache, runs, phase, read_archives,
                       todo, ahead, reading, data, decode, panicked, disturbed>>
    BY <1>6 DEF SizeFile
  <2> HIDE DEF t, S
  <2>2. /\ sizes' \in [SizeValues -> SUBSET Nodes]
        /\ hashes' \in [Contents -> SUBSET Nodes]
        /\ group_size' \in [Contents -> Nat \cup {None}]
    BY <1>2, <1>3, <2>1, PushTypes DEF IInv, TypeOK
  <2>3. meta' \in [Files -> Meta] /\ entries' \in SUBSET Files
    BY <2>1 DEF IInv, TypeOK, Meta
  <2>4. TypeOK'
    BY <1>1, <1>2, <2>1, <2>2, <2>3 DEF IInv, TypeOK, Tree
  <2>5. TimesInv'
    BY <1>1, <1>2, <2>1 DEF IInv, TypeOK, TimesInv
  <2>6. ReadInv' /\ DecodeInv' /\ HashFresh'
    BY <1>1, <1>2, <1>4, <2>1 DEF IInv, ReadInv, DecodeInv, HashFresh
  <2> QED
    BY <2>4, <2>5, <2>6 DEF IInv
<1> QED
  BY <1>5, <1>6

(* The hash that is recorded after a read is the file's unless the file    *)
(* has another ctime by now.                                               *)
LEMMA CommitStep ==
  ASSUME IInv, Commit PROVE IInv'
<1> DEFINE f == reading
           t == [tree EXCEPT ![f].hash = data, ![f].is_dir = @ \/ IsZip(f)]
<1>1. f \in Files /\ data \in Contents /\ tree' = t /\ tree \in Tree /\ f \in Nodes
  BY DEF Commit, IInv, TypeOK, ReadInv, Tree, Nodes
<1>2. /\ t \in Tree
      /\ t[f].hash = data /\ t[f].ctime = tree[f].ctime
      /\ \A n \in Nodes \ {f} : t[n] = tree[n]
  <2> DEFINE e == [tree[f] EXCEPT !.hash = data, !.is_dir = tree[f].is_dir \/ IsZip(f)]
  <2>1. tree[f] \in Entry
    BY <1>1 DEF Tree
  <2>2. t = [tree EXCEPT ![f] = e]
    BY <1>1, <2>1 DEF Tree, Entry
  <2>3. e \in Entry /\ e.hash = data /\ e.ctime = tree[f].ctime
    <3>1. (tree[f].is_dir \/ IsZip(f)) \in BOOLEAN
      OBVIOUS
    <3> QED
      BY <1>1, <2>1, <3>1 DEF Entry
  <2> HIDE DEF e
  <2> QED
    BY <1>1, <2>2, <2>3 DEF Tree
<1> HIDE DEF t
<1>3. Files \subseteq Nodes
  BY DEF Nodes
<1>4. FreshIn(disk, t)
  BY <1>1, <1>2, <1>3 DEF IInv, ReadInv, HashFresh, FreshIn
<1>5. NotLater(now, t)
  BY <1>1, <1>2, <1>3 DEF IInv, TimesInv, NotLater
<1>6. CASE PushPanics(t, {f})
  <2>1. PanicInLoop /\ decode' = decode
    BY <1>6 DEF Commit, t
  <2> QED
    BY <1>1, <1>2, <1>4, <1>5, <2>1, PanicStep
<1>7. CASE ~PushPanics(t, {f})
  <2>1. /\ hashes' = PushHashes(t, {f})
        /\ group_size' = PushGroupSize(t, {f})
        /\ cache' \in NotifOutcomes(t)
        /\ meta' = [meta EXCEPT ![f] = None]
        /\ reading' = None
        /\ data' = None
        /\ UNCHANGED <<disk, now, runs, phase, read_archives, sizes, todo, entries, ahead,
                       decode, panicked, disturbed>>
    BY <1>7 DEF Commit, t
  <2>2. /\ hashes' \in [Contents -> SUBSET Nodes]
        /\ group_size' \in [Contents -> Nat \cup {None}]
    BY <1>1, <1>2, <2>1, PushTypes DEF IInv, TypeOK
  <2>3. cache' \in Tree /\ FreshIn(disk, cache') /\ NotLater(now, cache')
    BY <1>2, <1>4, <1>5, <2>1, StoreSound DEF NotifOutcomes, IInv, TypeOK, Tree, HashFresh, TimesInv
  <2>4. meta' \in [Files -> Meta]
    BY <2>1 DEF IInv, TypeOK, Meta
  <2>5. TypeOK'
    BY <1>1, <1>2, <2>1, <2>2, <2>3, <2>4 DEF IInv, TypeOK, Tree
  <2>6. TimesInv'
    BY <1>1, <1>5, <2>1, <2>3 DEF IInv, TypeOK, TimesInv
  <2>7. ReadInv' /\ DecodeInv' /\ HashFresh'
    BY <1>1, <1>4, <2>1, <2>3 DEF IInv, ReadInv, DecodeInv, HashFresh
  <2> QED
    BY <2>5, <2>6, <2>7 DEF IInv
<1> QED
  BY <1>6, <1>7

(* The end of a read: the digest is that of the file unless it was         *)
(* modified since the read began.                                          *)
LEMMA FinishReadStep ==
  ASSUME IInv, NEW c \in Contents, FinishRead(c) PROVE IInv'
<1> USE DEF IInv, FinishRead
<1>1. reading \in Files /\ meta[reading] # None
  BY DEF TypeOK, ReadInv
<1>2. [data |-> c, left |-> MembersOf(c)] \in DecodeTask
  BY DEF MembersOf, DecodeTask
<1>3. decode' \in [Files -> DecodeTask]
  BY <1>1, <1>2 DEF TypeOK
<1>4. TypeOK'
  BY <1>3 DEF TypeOK
<1>5. TimesInv' /\ HashFresh'
  BY DEF TimesInv, HashFresh
<1>6. ReadInv'
  BY <1>1 DEF ReadInv, ReadOutcomes
<1>7. DecodeInv'
  <2>1. ASSUME NEW f \in Files, decode'[f] # None, decode'[f].left # {}
        PROVE  /\ decode'[f].data # None
               /\ decode'[f].left \subseteq MembersOf(decode'[f].data)
    <3>1. CASE decode'[f] = decode[f]
      BY <2>1, <3>1 DEF DecodeInv
    <3>2. CASE decode'[f] = [data |-> c, left |-> MembersOf(c)]
      BY <3>2
    <3> QED
      BY <1>1, <2>1, <3>1, <3>2 DEF TypeOK
  <2> QED
    BY <2>1 DEF DecodeInv
<1> QED
  BY <1>4, <1>5, <1>6, <1>7

(* The remaining steps of passes 2 and 3 that change no hash.              *)
LEMMA PassesStep ==
  ASSUME IInv, Passes PROVE IInv'
<1> USE DEF IInv
<1>1. ASSUME NEW f \in Files, Stat(f) \/ Open(f) PROVE IInv'
  <2> USE <1>1 DEF Stat, Open, StatOf, Queueing
  <2>1. /\ StatOf(f) \in [size : Nat, ctime : Nat]
        /\ StatOf(f).ctime <= now
    BY DEF TypeOK, TimesInv
  <2>2. meta' = [meta EXCEPT ![f] = StatOf(f)]
    OBVIOUS
  <2>3. TypeOK'
    BY <2>1, <2>2 DEF TypeOK, Meta
  <2>4. TimesInv'
    BY <2>1, <2>2 DEF TypeOK, TimesInv
  <2>5. ReadInv'
    <3>1. reading # None => reading # f /\ reading \in Files
      BY DEF TypeOK, ReadInv
    <3>2. /\ \A x \in Files \ {f} : meta'[x] = meta[x]
          /\ todo' = todo \ {f}
          /\ UNCHANGED <<disk, phase, tree, reading, data>>
      BY <2>1, <2>2 DEF TypeOK
    <3>3. \A x \in Files : meta'[x] # None => x \notin todo'
      BY <3>2 DEF ReadInv
    <3> QED
      BY <3>1, <3>2, <3>3 DEF ReadInv
  <2>6. DecodeInv' /\ HashFresh'
    BY DEF DecodeInv, HashFresh
  <2> QED
    BY <2>3, <2>4, <2>5, <2>6
<1>2. ASSUME NEW f \in Files, Miss(f) \/ Filter(f) \/ OpenError(f) PROVE IInv'
  <2> USE <1>2 DEF Miss, Filter, OpenError, Queueing
  <2>1. TypeOK'
    BY DEF TypeOK
  <2>2. TimesInv' /\ ReadInv' /\ DecodeInv' /\ HashFresh'
    BY DEF TimesInv, ReadInv, DecodeInv, HashFresh
  <2> QED
    BY <2>1, <2>2
<1>3. ASSUME NEW f \in Files, SizeFile(f) PROVE IInv'
  BY <1>3, SizeFileStep
<1>4. ASSUME NEW f \in Files, SkipComodified(f) PROVE IInv'
  <2> USE <1>4 DEF SkipComodified, Queueing
  <2>1. TypeOK'
    BY DEF TypeOK, Meta
  <2>2. TimesInv'
    BY DEF TypeOK, TimesInv
  <2>3. ReadInv' /\ DecodeInv' /\ HashFresh'
    BY DEF ReadInv, DecodeInv, HashFresh
  <2> QED
    BY <2>1, <2>2, <2>3
<1>5. ASSUME NEW f \in Files, StartRead(f) PROVE IInv'
  <2> USE <1>5 DEF StartRead
  <2>1. [data |-> None, left |-> {}] \in DecodeTask
    BY DEF DecodeTask
  <2>2. TypeOK'
    BY <2>1 DEF TypeOK
  <2>3. TimesInv' /\ HashFresh'
    BY DEF TimesInv, HashFresh
  <2>4. ReadInv'
    BY DEF ReadInv, Queueing, Hashing
  <2>5. DecodeInv'
    BY DEF TypeOK, DecodeInv
  <2> QED
    BY <2>2, <2>3, <2>4, <2>5
<1>6. CASE EndSize \/ EndHash
  <2> USE <1>6 DEF EndSize, EndHash, Idle
  <2>1. TypeOK'
    BY DEF TypeOK
  <2>2. TimesInv' /\ ReadInv' /\ DecodeInv' /\ HashFresh'
    BY DEF TimesInv, ReadInv, DecodeInv, HashFresh
  <2> QED
    BY <2>1, <2>2
<1>7. ASSUME NEW c \in Contents, FinishRead(c) PROVE IInv'
  BY <1>7, FinishReadStep
<1>8. ASSUME NEW c \in Contents, ShortRead(c) PROVE IInv'
  <2>1. PanicInLoop /\ tree' = tree /\ decode' = decode
    BY <1>8 DEF ShortRead
  <2>2. tree' \in Tree /\ FreshIn(disk, tree') /\ NotLater(now, tree')
    BY <2>1 DEF TypeOK, Tree, HashFresh, TimesInv
  <2> QED
    BY <2>1, <2>2, PanicStep
<1>9. CASE ReadError
  <2> USE <1>9 DEF ReadError
  <2>1. reading \in Files
    BY DEF TypeOK
  <2>2. TypeOK'
    BY <2>1 DEF TypeOK, Meta
  <2>3. TimesInv'
    BY <2>1 DEF TypeOK, TimesInv
  <2>4. ReadInv' /\ DecodeInv' /\ HashFresh'
    BY DEF ReadInv, DecodeInv, HashFresh
  <2> QED
    BY <2>2, <2>3, <2>4
<1>10. CASE Commit
  BY <1>10, CommitStep
<1>11. CASE EndPost
  <2> USE <1>11 DEF EndPost, scan, Idle
  <2>1. cache' \in Tree /\ FreshIn(disk, cache') /\ NotLater(now, cache')
    BY StoreSound DEF TypeOK, Tree, HashFresh, TimesInv
  <2>2. TypeOK'
    BY <2>1 DEF TypeOK, Tree
  <2>3. TimesInv' /\ ReadInv' /\ DecodeInv' /\ HashFresh'
    BY <2>1 DEF TimesInv, ReadInv, DecodeInv, HashFresh
  <2> QED
    BY <2>2, <2>3
<1>12. CASE (\E f \in Files : ReportError(f) \/ DiscardError(f)) \/ DiscardNothing
  <2>1. /\ UNCHANGED <<disk, now, cache, runs, phase, read_archives, tree, sizes, hashes,
                       group_size, todo, entries, meta, lost, reading, data, decode,
                       panicked, disturbed>>
        /\ failed' \in SUBSET Files /\ behind' \in Files \cup {None}
        /\ reading # None => behind' = None
    BY <1>12 DEF ReportError, DiscardError, DiscardNothing, TypeOK
  <2>2. TypeOK'
    BY <2>1 DEF TypeOK
  <2> QED
    BY <2>1, <2>2 DEF TimesInv, ReadInv, DecodeInv, HashFresh
<1>13. ASSUME NEW f \in Files, DiscardFile(f) PROVE IInv'
  <2> USE <1>13 DEF DiscardFile
  <2>1. behind # None /\ reading = None
    BY DEF ReadInv
  <2>2. meta' \in [Files -> Meta] /\ \A x \in Files : meta'[x] \in {meta[x], None}
    BY DEF TypeOK, Meta
  <2>3. lost' \in [Files -> Files \cup {None}]
    BY <2>1 DEF TypeOK
  <2>4. TypeOK'
    BY <2>2, <2>3 DEF TypeOK
  <2> HIDE <1>13 DEF DiscardFile
  <2>5. UNCHANGED <<disk, now, cache, phase, tree, todo, reading, data, decode>>
    BY <1>13 DEF DiscardFile
  <2>6. TimesInv' /\ DecodeInv' /\ HashFresh'
    BY <2>2, <2>5 DEF TimesInv, DecodeInv, HashFresh
  <2>7. ReadInv'
    BY <2>1, <2>2, <2>5 DEF ReadInv
  <2> QED
    BY <2>4, <2>6, <2>7
<1> QED
  BY <1>1, <1>2, <1>3, <1>4, <1>5, <1>6, <1>7, <1>8, <1>9, <1>10, <1>11, <1>12, <1>13
     DEF Passes

(* The task of an archive has one member less to decode.                   *)
LEMMA MemberDropped ==
  ASSUME IInv, NEW f \in Archives, NEW m \in Members,
         decode[f] # None, m \in decode[f].left,
         decode' = [decode EXCEPT ![f].left = @ \ {m}]
  PROVE  decode' \in [Files -> DecodeTask] /\ DecodeInv'
<1> DEFINE d == [decode[f] EXCEPT !.left = decode[f].left \ {m}]
<1>1. f \in Files
  OBVIOUS
<1>2. decode[f] \in [data : Contents \cup {None}, left : SUBSET Members]
  BY <1>1 DEF IInv, TypeOK, DecodeTask
<1>3. decode' = [decode EXCEPT ![f] = d]
  OBVIOUS
<1>4. d \in DecodeTask /\ d.data = decode[f].data /\ d.left = decode[f].left \ {m}
  BY <1>2 DEF DecodeTask
<1> HIDE DEF d
<1>5. decode' \in [Files -> DecodeTask]
  BY <1>3, <1>4 DEF IInv, TypeOK
<1>6. d.left \subseteq MembersOf(d.data) /\ d.data # None
  BY <1>1, <1>2, <1>4 DEF IInv, DecodeInv
<1> QED
  BY <1>1, <1>3, <1>5, <1>6 DEF IInv, TypeOK, DecodeInv

(* Decoding a member changes no hash and no ctime of a file.               *)
LEMMA DecodeMemberStep ==
  ASSUME IInv, NEW f \in Archives, NEW m \in Members, DecodeMember(f, m) PROVE IInv'
<1> DEFINE n == <<f, m>>
           c == Holds[decode[f].data][m]
           e == [tree[n] EXCEPT !.is_dir = FALSE, !.is_file = TRUE, !.valid = TRUE,
                                !.size = SizeOf[c], !.hash = c]
           a == [tree[f] EXCEPT !.is_dir = TRUE]
           t == [tree EXCEPT ![n].is_dir = FALSE, ![n].is_file = TRUE, ![n].valid = TRUE,
                             ![n].size = SizeOf[c], ![n].hash = c,
                             ![f].is_dir = TRUE]
<1>1. /\ f \in Files /\ n \in Nodes /\ n \notin Files /\ Files \subseteq Nodes
      /\ tree \in Tree /\ tree[n] \in Entry /\ tree[f] \in Entry
  BY DEF IInv, TypeOK, Tree, Nodes
<1>2. decode[f] \in [data : Contents \cup {None}, left : SUBSET Members]
  BY <1>1 DEF DecodeMember, IInv, TypeOK, DecodeTask
<1>3. decode[f].data \in Contents /\ m \in MembersOf(decode[f].data)
  BY <1>1, <1>2 DEF DecodeMember, IInv, DecodeInv
<1>4. c \in Contents /\ SizeOf[c] \in Nat
  BY <1>3 DEF MembersOf
<1> HIDE DEF c
<1>5. e \in Entry
  BY <1>1, <1>4 DEF Entry
<1>6. a \in Entry /\ a.ctime = tree[f].ctime /\ a.hash = tree[f].hash /\ a.size = tree[f].size
  BY <1>1 DEF Entry
<1>t. t = [tree EXCEPT ![n] = e, ![f] = a]
  BY <1>1 DEF Tree, Entry
<1> HIDE DEF e, n, a
<1>7. /\ t \in Tree
      /\ \A x \in Files : t[x].ctime = tree[x].ctime /\ t[x].hash = tree[x].hash
  <2>1. t \in Tree
    <3> HIDE DEF t
    <3> QED
      BY <1>1, <1>5, <1>6, <1>t DEF Tree
  <2>2. ASSUME NEW x \in Files PROVE t[x] = IF x = f THEN a ELSE tree[x]
    <3> HIDE DEF t
    <3>1. x \in Nodes /\ x # n
      BY <1>1
    <3> QED
      BY <1>1, <1>t, <3>1 DEF Tree
  <2> QED
    BY <1>6, <2>1, <2>2
<1>8. FreshIn(disk, t) /\ NotLater(now, t)
  BY <1>7 DEF IInv, HashFresh, FreshIn, TimesInv, NotLater
<1>9. /\ tree' = t
      /\ sizes' = PushSizes(t, {n})
      /\ UNCHANGED <<disk, now, cache, runs, phase, read_archives, todo, entries,
                     meta, ahead, reading, data, disturbed>>
  BY DEF DecodeMember, n, c
<1>10. \/ /\ panicked' = TRUE
          /\ decode' = [decode EXCEPT ![f] = None]
          /\ UNCHANGED <<hashes, group_size>>
       \/ /\ hashes' = PushHashes(t, {n})
          /\ group_size' = PushGroupSize(t, {n})
          /\ decode' = [decode EXCEPT ![f].left = @ \ {m}]
          /\ UNCHANGED panicked
  BY DEF DecodeMember, n, c
<1> HIDE DEF t
<1>11. /\ sizes' \in [SizeValues -> SUBSET Nodes]
       /\ hashes' \in [Contents -> SUBSET Nodes]
       /\ group_size' \in [Contents -> Nat \cup {None}]
  <2>1. /\ sizes \in [SizeValues -> SUBSET Nodes]
        /\ hashes \in [Contents -> SUBSET Nodes]
        /\ group_size \in [Contents -> Nat \cup {None}]
    BY DEF IInv, TypeOK
  <2>2. {n} \in SUBSET Nodes
    BY <1>1
  <2>3. /\ PushSizes(t, {n}) \in [SizeValues -> SUBSET Nodes]
        /\ PushHashes(t, {n}) \in [Contents -> SUBSET Nodes]
        /\ PushGroupSize(t, {n}) \in [Contents -> Nat \cup {None}]
    BY <1>7, <2>1, <2>2, PushTypes
  <2> QED
    BY <1>9, <1>10, <2>1, <2>3
<1>12. decode' \in [Files -> DecodeTask] /\ DecodeInv'
  <2>1. CASE decode' = [decode EXCEPT ![f] = None]
    BY <1>1, <2>1 DEF IInv, TypeOK, DecodeTask, DecodeInv
  <2>2. CASE decode' = [decode EXCEPT ![f].left = @ \ {m}]
    BY <2>2, MemberDropped DEF DecodeMember
  <2> QED
    BY <1>10, <2>1, <2>2
<1>13. panicked' \in BOOLEAN
  BY <1>10 DEF IInv, TypeOK
<1>14. TypeOK'
  BY <1>7, <1>9, <1>11, <1>12, <1>13 DEF IInv, TypeOK, Tree
<1>15. TimesInv' /\ HashFresh'
  BY <1>8, <1>9 DEF IInv, TimesInv, HashFresh
<1>16. ReadInv'
  BY <1>7, <1>9 DEF IInv, TypeOK, ReadInv
<1> QED
  BY <1>12, <1>14, <1>15, <1>16 DEF IInv

(* The decoding tasks open, decode, end and fail without changing a file.  *)
LEMMA TasksStep ==
  ASSUME IInv, Tasks PROVE IInv'
<1> USE DEF IInv
<1>1. ASSUME NEW f \in Archives, TaskOpen(f) PROVE IInv'
  <2> USE <1>1 DEF TaskOpen
  <2> DEFINE d == IF disk[f] = None THEN None
                  ELSE [data |-> disk[f].data, left |-> MembersOf(disk[f].data)]
  <2>1. f \in Files
    OBVIOUS
  <2>2. d \in DecodeTask
    BY <2>1 DEF TypeOK, DecodeTask, MembersOf
  <2>3. decode' = [decode EXCEPT ![f] = d]
    OBVIOUS
  <2>4. d # None => d.data # None /\ d.left \subseteq MembersOf(d.data)
    BY <2>1 DEF TypeOK
  <2>5. cache' \in Tree /\ FreshIn(disk, cache') /\ NotLater(now, cache')
    BY StoreSound DEF NotifOutcomes, TypeOK, Tree, HashFresh, TimesInv
  <2> HIDE DEF d
  <2>6. TypeOK'
    BY <2>2, <2>3, <2>5 DEF TypeOK, Tree
  <2>7. TimesInv' /\ ReadInv' /\ HashFresh'
    BY <2>5 DEF TimesInv, ReadInv, HashFresh
  <2>8. DecodeInv'
    BY <2>1, <2>3, <2>4 DEF TypeOK, DecodeInv
  <2> QED
    BY <2>6, <2>7, <2>8
<1>2. ASSUME NEW f \in Archives, TaskEnd(f) \/ TaskFail(f) PROVE IInv'
  <2> USE <1>2 DEF TaskEnd, TaskFail
  <2>1. TypeOK'
    BY DEF TypeOK, DecodeTask
  <2>2. TimesInv' /\ ReadInv' /\ HashFresh'
    BY DEF TimesInv, ReadInv, HashFresh
  <2>3. DecodeInv'
    BY DEF TypeOK, DecodeInv
  <2> QED
    BY <2>1, <2>2, <2>3
<1>3. ASSUME NEW f \in Archives, NEW m \in Members, DecodeMember(f, m) PROVE IInv'
  BY <1>3, DecodeMemberStep
<1>4. ASSUME NEW f \in Archives, NEW m \in Members, MemberError(f, m) PROVE IInv'
  <2> USE <1>4 DEF MemberError
  <2>1. decode' \in [Files -> DecodeTask] /\ DecodeInv'
    BY MemberDropped
  <2>2. TypeOK'
    BY <2>1 DEF TypeOK
  <2>3. TimesInv' /\ ReadInv' /\ HashFresh'
    BY DEF TimesInv, ReadInv, HashFresh
  <2> QED
    BY <2>1, <2>2, <2>3
<1> QED
  BY <1>1, <1>2, <1>3, <1>4 DEF Tasks

-----------------------------------------------------------------------------
(* Every step preserves the inductive invariant.                           *)
LEMMA NextIInv == IInv /\ [Next]_vars => IInv'
<1> SUFFICES ASSUME IInv, [Next]_vars PROVE IInv'
  OBVIOUS
<1>1. CASE Next
  BY <1>1, EnvironmentStep, ProcessStep, PassesStep, TasksStep DEF Next
<1>2. CASE UNCHANGED vars
  BY <1>2 DEF vars, scan, IInv, TypeOK, TimesInv, ReadInv, DecodeInv, HashFresh
<1> QED
  BY <1>1, <1>2

(* The reachable states satisfy the inductive invariant.                   *)
THEOREM Invariance == Spec => []IInv
<1> QED
  BY InitIInv, NextIInv, PTL DEF Spec

(* Type correctness.                                                       *)
THEOREM TypeCorrect == Spec => []TypeOK
<1>1. IInv => TypeOK
  BY DEF IInv
<1> QED
  BY <1>1, Invariance, PTL

(* A recorded hash, in memory or in the cache file, is the file's as long  *)
(* as the recorded ctime is, through crashes, failed stores, reads torn by *)
(* a concurrent write, and any number of runs.                             *)
THEOREM HashesFresh == Spec => []HashFresh
<1>1. IInv => HashFresh
  BY DEF IInv
<1> QED
  BY <1>1, Invariance, PTL

-----------------------------------------------------------------------------
(* A hash that is still right is kept.                                     *)

Kept ==
  \A f \in Files :
    (phase # "off" /\ phase' # "off" /\ Known(f)) => tree'[f].hash = tree[f].hash

(* The ctime and the size of the files' entries are as before.             *)
SameRecords(t) ==
  \A f \in Files : t[f].ctime = tree[f].ctime /\ t[f].size = tree[f].size

(* Fresh entries record nothing, stored ones what the tree recorded.       *)
LEMMA StoreSizes ==
  ASSUME IInv, NEW t \in Tree, SizesIn(disk, t), NEW c \in StoreOutcomes(t)
  PROVE  SizesIn(disk, c)
<1>1. Files \subseteq Nodes
  BY DEF Nodes
<1>2. CASE c = Serialized(t)
  <2>1. \A f \in Files : c[f].ctime = t[f].ctime /\ c[f].size = t[f].size
    BY <1>1, <1>2, SerializedKeeps
  <2> QED
    BY <2>1 DEF SizesIn
<1>3. CASE c = NoTree
  <2>1. \A f \in Files : c[f].ctime = None
    BY <1>1, <1>3 DEF NoTree, NewEntry
  <2>2. \A f \in Files : disk[f] # None => disk[f].ctime \in Nat
    BY DEF IInv, TypeOK
  <2> QED
    BY <2>1, <2>2 DEF SizesIn
<1> QED
  BY <1>2, <1>3 DEF StoreOutcomes

(* A step that changes neither the disk nor what is recorded of files.     *)
LEMMA SizesKept ==
  ASSUME SizesInv, disk' = disk, SameRecords(tree'), SizesIn(disk, cache'),
         \A f \in Files : meta'[f] \in {meta[f], None},
         phase' = "off" => phase = "off"
  PROVE  SizesInv'
<1>1. SizesIn(disk, tree')
  BY DEF SizesInv, SizesIn, SameRecords
<1>2. MetaIn(disk, tree', meta')
  BY DEF SizesInv, MetaIn, SameRecords
<1> QED
  BY <1>1, <1>2 DEF SizesInv

(* A modification gives a file a ctime that nothing has recorded.          *)
LEMMA EnvironmentKeeps ==
  ASSUME IInv, SizesInv, Environment PROVE SizesInv' /\ Kept
<1>1. ASSUME NEW f \in Files, NEW c \in Possible[f], Modify(f, c) PROVE SizesInv' /\ Kept
  <2>1. /\ tree' = tree /\ cache' = cache /\ meta' = meta
        /\ \A x \in Files \ {f} : disk'[x] = disk[x]
        /\ disk'[f].ctime = now + 1 /\ phase' = phase
    BY <1>1 DEF Modify, scan, IInv, TypeOK
  <2>2. /\ tree[f].ctime # now + 1 /\ cache[f].ctime # now + 1
        /\ meta[f] # None => meta[f].ctime # now + 1
    <3>1. now \in Nat /\ now + 1 # None
      BY DEF IInv, TypeOK
    <3>2. /\ tree[f].ctime # None => tree[f].ctime \in Nat /\ tree[f].ctime <= now
          /\ cache[f].ctime # None => cache[f].ctime \in Nat /\ cache[f].ctime <= now
          /\ meta[f] # None => meta[f].ctime \in Nat /\ meta[f].ctime <= now
      BY DEF IInv, TypeOK, TimesInv, NotLater, Entry, Meta, Nodes
    <3> QED
      BY <3>1, <3>2
  <2>3. /\ SizesIn(disk, tree) /\ SizesIn(disk, cache) /\ MetaIn(disk, tree, meta)
        /\ phase = "off" => \A x \in Files : meta[x] = None
    BY DEF SizesInv
  <2>4. SizesIn(disk', tree)
    BY <2>1, <2>2, <2>3 DEF SizesIn
  <2>5. SizesIn(disk', cache)
    BY <2>1, <2>2, <2>3 DEF SizesIn
  <2>6. MetaIn(disk', tree, meta)
    <3>1. ASSUME NEW x \in Files, disk'[x] # None, meta[x] # None
          PROVE  /\ meta[x].ctime = disk'[x].ctime => meta[x].size = SizeOf[disk'[x].data]
                 /\ tree[x].ctime = disk'[x].ctime => meta[x].ctime = disk'[x].ctime
      <4>1. CASE x = f
        BY <2>1, <2>2, <3>1, <4>1
      <4>2. CASE x # f
        BY <2>1, <2>3, <3>1, <4>2 DEF MetaIn
      <4> QED
        BY <4>1, <4>2
    <3> QED
      BY <3>1 DEF MetaIn
  <2>7. SizesInv'
    BY <2>1, <2>3, <2>4, <2>5, <2>6 DEF SizesInv
  <2> QED
    BY <2>1, <2>7 DEF Kept
<1>2. ASSUME NEW f \in Files, Delete(f) PROVE SizesInv' /\ Kept
  <2>1. /\ tree' = tree /\ cache' = cache /\ meta' = meta
        /\ \A x \in Files \ {f} : disk'[x] = disk[x]
        /\ disk'[f] = None /\ phase' = phase
    BY <1>2 DEF Delete, scan, IInv, TypeOK
  <2>2. SizesIn(disk', tree) /\ SizesIn(disk', cache)
    BY <2>1 DEF SizesInv, SizesIn
  <2>3. MetaIn(disk', tree, meta)
    BY <2>1 DEF SizesInv, MetaIn
  <2> QED
    BY <2>1, <2>2, <2>3 DEF SizesInv, Kept
<1> QED
  BY <1>1, <1>2 DEF Environment

(* The process starts or ends.                                             *)
LEMMA ProcessKeeps ==
  ASSUME IInv, SizesInv, Process PROVE SizesInv' /\ Kept
<1>1. NoTree \in Tree /\ Files \subseteq Nodes
  BY NoTreeSound DEF Nodes
<1>2. SizesIn(disk, NoTree) /\ \A c \in LoadOutcomes : SizesIn(disk, c)
  <2>1. NoTree \in StoreOutcomes(tree) /\ tree \in Tree
    BY DEF StoreOutcomes, IInv, TypeOK, Tree
  <2>2. SizesIn(disk, NoTree)
    BY <2>1, StoreSizes DEF SizesInv
  <2> QED
    BY <2>2 DEF LoadOutcomes, SizesInv
<1>3. ASSUME \A f \in Files : meta'[f] = None, disk' = disk,
             SizesIn(disk, tree'), SizesIn(disk, cache')
      PROVE  SizesInv'
  BY <1>3 DEF SizesInv, MetaIn
<1>4. ASSUME NEW ra \in BOOLEAN, Start(ra) PROVE SizesInv' /\ Kept
  BY <1>2, <1>3, <1>4 DEF Start, ClearScan, Kept, SizesInv
<1>5. ASSUME Gone, cache' \in {cache, NoTree} PROVE SizesInv' /\ Kept
  BY <1>2, <1>3, <1>5 DEF Gone, ClearScan, Kept, SizesInv
<1>6. ASSUME NEW c \in LoadOutcomes, DirtyLoad(c) PROVE SizesInv' /\ Kept
  <2> DEFINE S == {n \in Nodes : c[n] # NewEntry}
             t == SetValid(c, S)
  <2>1. c \in Tree
    BY LoadSound
  <2>2. \A f \in Files : t[f].ctime = c[f].ctime /\ t[f].size = c[f].size
    BY <1>1, <2>1, SetValidKeeps
  <2>3. /\ phase = "off" /\ disk' = disk /\ cache' = cache /\ meta' = meta
        /\ tree' = tree \/ tree' = t
    BY <1>6 DEF DirtyLoad, scan
  <2>4. SizesIn(disk, t)
    BY <1>2, <2>2 DEF SizesIn
  <2>5. SizesIn(disk, tree')
    BY <2>3, <2>4 DEF SizesInv
  <2>6. \A f \in Files : meta[f] = None
    BY <2>3 DEF SizesInv
  <2> QED
    BY <1>3, <2>3, <2>5, <2>6 DEF Kept, SizesInv
<1> QED
  BY <1>4, <1>5, <1>6 DEF Process, Exit, Crash, Unwind

(* validate keeps the hash of an entry with the ctime of the file: the     *)
(* metadata have this ctime, too, and then both have the file's size.      *)
LEMMA SizeFileKeeps ==
  ASSUME IInv, SizesInv, NEW f \in Files, SizeFile(f) PROVE SizesInv' /\ Kept
<1> DEFINE v == Validated(f)
           t == [v EXCEPT ![f].is_file = TRUE, ![f].size = meta[f].size]
<1>1. /\ phase = "size" /\ meta[f] # None /\ tree' = t
      /\ tree \in Tree /\ f \in Nodes /\ Files \subseteq Nodes
  BY DEF SizeFile, IInv, TypeOK, Tree, Nodes
<1>2. /\ disk' = disk /\ cache' = cache /\ phase' = phase
      /\ \A x \in Files : meta'[x] \in {meta[x], None}
      /\ meta'[f] = None
  <2>1. CASE PanicInLoop
    BY <2>1 DEF PanicInLoop
  <2>2. CASE meta' = [meta EXCEPT ![f] = None] /\ UNCHANGED <<disk, cache, phase>>
    BY <2>2 DEF IInv, TypeOK
  <2> QED
    BY <2>1, <2>2 DEF SizeFile
<1>3. /\ v \in Tree /\ v[f].ctime = meta[f].ctime
      /\ IsValid(f) => v[f].hash = tree[f].hash
      /\ \A x \in Files \ {f} :
           v[x].ctime = tree[x].ctime /\ v[x].size = tree[x].size /\ v[x].hash = tree[x].hash
  <2>1. CASE IsValid(f)
    <3>1. v = SetValid(tree, {f} \cup Childs(tree, f))
      BY <2>1 DEF Validated
    <3>2. tree[f].ctime = meta[f].ctime
      BY <2>1 DEF IsValid
    <3> QED
      BY <1>1, <3>1, <3>2, SetValidKeeps
  <2>2. CASE ~IsValid(f)
    <3> DEFINE e == [tree[f] EXCEPT !.size = None, !.hash = None,
                                    !.ctime = meta[f].ctime, !.valid = TRUE]
    <3>1. tree[f] \in Entry /\ meta[f].ctime \in Nat
      BY <1>1 DEF Tree, IInv, TypeOK, Meta
    <3>2. v = [tree EXCEPT ![f] = e]
      BY <1>1, <2>2, <3>1 DEF Validated, Tree, Entry
    <3>3. e \in Entry /\ e.ctime = meta[f].ctime
      BY <3>1 DEF Entry
    <3> HIDE DEF e
    <3>4. v \in Tree /\ v[f] = e /\ \A x \in Nodes \ {f} : v[x] = tree[x]
      BY <1>1, <3>2, <3>3 DEF Tree
    <3> QED
      BY <1>1, <2>2, <3>3, <3>4
  <2> QED
    BY <2>1, <2>2
<1> HIDE DEF v
<1>4. /\ t[f].ctime = meta[f].ctime /\ t[f].size = meta[f].size /\ t[f].hash = v[f].hash
      /\ \A x \in Files \ {f} :
           t[x].ctime = tree[x].ctime /\ t[x].size = tree[x].size /\ t[x].hash = tree[x].hash
  <2>1. v[f] \in Entry
    BY <1>1, <1>3 DEF Tree
  <2> QED
    BY <1>1, <1>3, <2>1 DEF Tree, Entry
<1> HIDE DEF t
<1>5. SizesIn(disk, t)
  BY <1>1, <1>4 DEF SizesInv, SizesIn, MetaIn
<1>6. MetaIn(disk, t, meta')
  BY <1>2, <1>4 DEF SizesInv, MetaIn
<1>7. SizesInv'
  BY <1>1, <1>2, <1>5, <1>6 DEF SizesInv
<1>8. Known(f) => IsValid(f)
  BY <1>1 DEF Known, IsValid, SizesInv, SizesIn, MetaIn
<1>9. Kept
  BY <1>1, <1>3, <1>4, <1>8 DEF Kept
<1> QED
  BY <1>7, <1>9

(* The metadata of a file are taken.                                       *)
LEMMA StatKeeps ==
  ASSUME IInv, SizesInv, NEW f \in Files, Stat(f) \/ Open(f) PROVE SizesInv' /\ Kept
<1>1. /\ disk' = disk /\ tree' = tree /\ cache' = cache /\ phase' = phase
      /\ disk[f] # None /\ phase # "off"
      /\ meta' = [meta EXCEPT ![f] = StatOf(f)]
  BY DEF Stat, Open, Queueing, Hashing
<1>2. meta'[f] = StatOf(f) /\ \A x \in Files \ {f} : meta'[x] = meta[x]
  BY <1>1 DEF IInv, TypeOK
<1>3. StatOf(f).ctime = disk[f].ctime /\ StatOf(f).size = SizeOf[disk[f].data]
  BY DEF StatOf
<1>4. MetaIn(disk, tree, meta')
  BY <1>2, <1>3 DEF SizesInv, MetaIn
<1> QED
  BY <1>1, <1>4 DEF SizesInv, Kept

(* The hash of what was read is the one that was recorded, if that was     *)
(* still right: an archive may be read again.                              *)
LEMMA CommitKeeps ==
  ASSUME IInv, SizesInv, Commit PROVE SizesInv' /\ Kept
<1> DEFINE f == reading
           t == [tree EXCEPT ![f].hash = data, ![f].is_dir = @ \/ IsZip(f)]
<1>1. /\ f \in Files /\ f \in Nodes /\ Files \subseteq Nodes /\ data # None
      /\ tree \in Tree /\ tree' = t /\ phase # "off"
  BY DEF Commit, IInv, TypeOK, ReadInv, Tree, Nodes
<1>2. /\ t \in Tree
      /\ t[f].hash = data /\ t[f].ctime = tree[f].ctime /\ t[f].size = tree[f].size
      /\ \A n \in Nodes \ {f} : t[n] = tree[n]
  <2> DEFINE e == [tree[f] EXCEPT !.hash = data, !.is_dir = tree[f].is_dir \/ IsZip(f)]
  <2>1. tree[f] \in Entry /\ data \in Contents
    BY <1>1 DEF Tree, IInv, TypeOK
  <2>2. t = [tree EXCEPT ![f] = e]
    BY <1>1, <2>1 DEF Tree, Entry
  <2>3. e \in Entry /\ e.hash = data /\ e.ctime = tree[f].ctime /\ e.size = tree[f].size
    <3>1. (tree[f].is_dir \/ IsZip(f)) \in BOOLEAN
      OBVIOUS
    <3> QED
      BY <2>1, <3>1 DEF Entry
  <2> HIDE DEF e
  <2> QED
    BY <1>1, <2>2, <2>3 DEF Tree
<1>3. /\ disk' = disk /\ phase' = phase
      /\ cache' = cache \/ cache' \in NotifOutcomes(t)
      /\ \A x \in Files : meta'[x] \in {meta[x], None}
  <2>1. CASE PanicInLoop
    BY <2>1 DEF PanicInLoop
  <2>2. CASE /\ meta' = [meta EXCEPT ![f] = None] /\ UNCHANGED <<disk, phase>>
             /\ cache' \in NotifOutcomes(t)
    BY <1>1, <2>2 DEF IInv, TypeOK
  <2> QED
    BY <2>1, <2>2 DEF Commit
<1> HIDE DEF t
<1>4. SameRecords(t)
  BY <1>1, <1>2 DEF SameRecords
<1>5. SizesIn(disk, t)
  BY <1>4 DEF SizesInv, SizesIn, SameRecords
<1>6. SizesIn(disk, cache')
  BY <1>2, <1>3, <1>5, StoreSizes DEF NotifOutcomes, SizesInv
<1>7. SizesInv'
  BY <1>1, <1>3, <1>4, <1>6, SizesKept
<1>8. Known(f) => data = tree[f].hash
  BY <1>1 DEF Known, IInv, ReadInv, HashFresh, FreshIn
<1>9. Kept
  BY <1>1, <1>2, <1>8 DEF Kept
<1> QED
  BY <1>7, <1>9

(* The other steps of the passes.                                          *)
LEMMA PassesKeep ==
  ASSUME IInv, SizesInv, Passes PROVE SizesInv' /\ Kept
<1> DEFINE metaLess == \A x \in Files : meta'[x] \in {meta[x], None}
           rest == /\ disk' = disk /\ tree' = tree
                   /\ SizesIn(disk, cache') /\ metaLess /\ phase' # "off"
<1>1. SizesIn(disk, cache) /\ SameRecords(tree)
  BY DEF SizesInv, SameRecords
<1>2. ASSUME rest PROVE SizesInv' /\ Kept
  BY <1>1, <1>2, SizesKept DEF Kept
<1>3. ASSUME NEW f \in Files, Stat(f) \/ Open(f) PROVE SizesInv' /\ Kept
  BY <1>3, StatKeeps
<1>4. ASSUME NEW f \in Files, SizeFile(f) PROVE SizesInv' /\ Kept
  BY <1>4, SizeFileKeeps
<1>5. ASSUME NEW f \in Files,
             Miss(f) \/ Filter(f) \/ OpenError(f) \/ SkipComodified(f) \/ StartRead(f)
      PROVE  SizesInv' /\ Kept
  <2>1. metaLess
    BY <1>5 DEF Miss, Filter, OpenError, SkipComodified, StartRead, IInv, TypeOK
  <2>2. /\ disk' = disk /\ tree' = tree /\ cache' = cache /\ phase' = phase /\ phase # "off"
    BY <1>5 DEF Miss, Filter, OpenError, SkipComodified, StartRead, Queueing, Hashing
  <2> QED
    BY <1>1, <1>2, <2>1, <2>2
<1>6. CASE EndSize \/ EndHash
  <2>1. /\ disk' = disk /\ tree' = tree /\ cache' = cache /\ meta' = meta /\ phase' # "off"
    BY <1>6 DEF EndSize, EndHash
  <2> QED
    BY <1>1, <1>2, <2>1
<1>7. ASSUME NEW c \in Contents, FinishRead(c) \/ ShortRead(c) PROVE SizesInv' /\ Kept
  <2>1. /\ disk' = disk /\ tree' = tree /\ cache' = cache /\ phase' = phase
        /\ reading # None /\ metaLess
    BY <1>7 DEF FinishRead, ShortRead, PanicInLoop
  <2>2. phase' # "off"
    BY <2>1 DEF IInv, ReadInv
  <2> QED
    BY <1>1, <1>2, <2>1, <2>2
<1>8. CASE ReadError
  <2>1. /\ disk' = disk /\ tree' = tree /\ cache' = cache /\ phase' = phase
        /\ reading # None /\ meta' = [meta EXCEPT ![reading] = None]
    BY <1>8 DEF ReadError
  <2>2. phase' # "off" /\ metaLess
    BY <2>1 DEF IInv, ReadInv, TypeOK
  <2> QED
    BY <1>1, <1>2, <2>1, <2>2
<1>9. CASE Commit
  BY <1>9, CommitKeeps
<1>10. CASE EndPost
  <2>1. /\ disk' = disk /\ tree' = tree /\ meta' = meta /\ phase' = "done"
        /\ cache' \in StoreOutcomes(tree)
    BY <1>10 DEF EndPost, scan
  <2>2. SizesIn(disk, cache')
    BY <2>1, StoreSizes DEF SizesInv, IInv, TypeOK, Tree
  <2> QED
    BY <1>2, <2>1, <2>2
<1>11. CASE \/ \E f \in Files : ReportError(f) \/ DiscardFile(f) \/ DiscardError(f)
            \/ DiscardNothing
  <2>1. /\ disk' = disk /\ tree' = tree /\ cache' = cache /\ phase' = phase /\ phase # "off"
        /\ meta' = meta \/ \E f \in Files : meta' = [meta EXCEPT ![f] = None]
    BY <1>11 DEF ReportError, DiscardFile, DiscardError, DiscardNothing, Queueing, Hashing
  <2>2. metaLess
    BY <2>1 DEF IInv, TypeOK
  <2> QED
    BY <1>1, <1>2, <2>1, <2>2
<1> QED
  BY <1>3, <1>4, <1>5, <1>6, <1>7, <1>8, <1>9, <1>10, <1>11 DEF Passes

(* A task touches what is recorded of members, not of files.               *)
LEMMA TasksKeep ==
  ASSUME IInv, SizesInv, Tasks PROVE SizesInv' /\ Kept
<1> DEFINE rest == /\ disk' = disk /\ meta' = meta /\ phase' = phase
                   /\ SizesIn(disk, cache')
                   /\ SameRecords(tree') /\ \A x \in Files : tree'[x].hash = tree[x].hash
<1>1. SizesIn(disk, cache) /\ SameRecords(tree)
  BY DEF SizesInv, SameRecords
<1>2. ASSUME rest PROVE SizesInv' /\ Kept
  BY <1>2, SizesKept DEF Kept
<1>3. ASSUME NEW f \in Archives, TaskOpen(f) PROVE SizesInv' /\ Kept
  <2>1. SizesIn(disk, cache')
    <3>1. cache' \in StoreOutcomes(tree) \/ cache' = cache
      BY <1>3 DEF TaskOpen, NotifOutcomes
    <3> QED
      BY <3>1, StoreSizes DEF SizesInv, IInv, TypeOK, Tree
  <2> QED
    BY <1>1, <1>2, <1>3, <2>1 DEF TaskOpen
<1>4. ASSUME NEW f \in Archives, TaskEnd(f) \/ TaskFail(f) PROVE SizesInv' /\ Kept
  BY <1>1, <1>2, <1>4 DEF TaskEnd, TaskFail
<1>5. ASSUME NEW f \in Archives, NEW m \in Members, MemberError(f, m)
      PROVE  SizesInv' /\ Kept
  BY <1>1, <1>2, <1>5 DEF MemberError
<1>6. ASSUME NEW f \in Archives, NEW m \in Members, DecodeMember(f, m)
      PROVE  SizesInv' /\ Kept
  <2> DEFINE n == <<f, m>>
             c == Holds[decode[f].data][m]
             e == [tree[n] EXCEPT !.is_dir = FALSE, !.is_file = TRUE, !.valid = TRUE,
                                  !.size = SizeOf[c], !.hash = c]
             a == [tree[f] EXCEPT !.is_dir = TRUE]
             t == [tree EXCEPT ![n].is_dir = FALSE, ![n].is_file = TRUE, ![n].valid = TRUE,
                               ![n].size = SizeOf[c], ![n].hash = c,
                               ![f].is_dir = TRUE]
  <2>1. /\ f \in Files /\ n \in Nodes /\ n \notin Files /\ Files \subseteq Nodes
        /\ tree \in Tree /\ tree[n] \in Entry /\ tree[f] \in Entry
    BY DEF IInv, TypeOK, Tree, Nodes
  <2>2. tree' = t /\ UNCHANGED <<disk, meta, phase, cache>>
    BY <1>6 DEF DecodeMember
  <2> HIDE DEF c
  <2>3. a.ctime = tree[f].ctime /\ a.hash = tree[f].hash /\ a.size = tree[f].size
    BY <2>1 DEF Entry
  <2>4. t = [tree EXCEPT ![n] = e, ![f] = a]
    BY <2>1 DEF Tree, Entry
  <2> HIDE DEF e, n, a, t
  <2>5. ASSUME NEW x \in Files PROVE t[x] = IF x = f THEN a ELSE tree[x]
    <3>1. x \in Nodes /\ x # n
      BY <2>1
    <3> QED
      BY <2>1, <2>4, <3>1 DEF Tree
  <2>6. SameRecords(t) /\ \A x \in Files : t[x].hash = tree[x].hash
    BY <2>3, <2>5 DEF SameRecords
  <2> QED
    BY <1>1, <1>2, <2>2, <2>6
<1> QED
  BY <1>3, <1>4, <1>5, <1>6 DEF Tasks

(* The sizes are right in every reachable state, and every step from one   *)
(* keeps the hashes that are right.                                        *)
LEMMA NextKeeps == IInv /\ SizesInv /\ [Next]_vars => SizesInv' /\ Kept
<1> SUFFICES ASSUME IInv, SizesInv, [Next]_vars PROVE SizesInv' /\ Kept
  OBVIOUS
<1>1. CASE Next
  BY <1>1, EnvironmentKeeps, ProcessKeeps, PassesKeep, TasksKeep DEF Next
<1>2. CASE UNCHANGED vars
  BY <1>2 DEF vars, scan, SizesInv, Kept
<1> QED
  BY <1>1, <1>2

(* Nothing is recorded in the initial state.                               *)
LEMMA InitSizes == Init => SizesInv
<1> SUFFICES ASSUME Init PROVE SizesInv
  OBVIOUS
<1>1. \A f \in Files : tree[f].ctime = None /\ cache[f].ctime = None /\ meta[f] = None
  BY DEF Init, NoTree, NewEntry, Nodes
<1>2. \A f \in Files : disk[f] # None => disk[f].ctime \in Nat
  BY InitIInv DEF IInv, TypeOK
<1> QED
  BY <1>1, <1>2 DEF SizesInv, SizesIn, MetaIn

(* While the program runs it never throws away, nor replaces, a hash whose *)
(* ctime is still the file's: not in validate, not after a crash of an     *)
(* earlier run or a change of another file.                                *)
THEOREM RightHashesKept == Spec => HashKept
<1>1. Kept => [\A f \in Files :
        (phase # "off" /\ phase' # "off" /\ Known(f)) => tree'[f].hash = tree[f].hash]_vars
  BY DEF Kept
<1> QED
  BY <1>1, InitSizes, Invariance, NextKeeps, PTL DEF Spec, HashKept

-----------------------------------------------------------------------------
(* What a run finds out of the files that are left alone.                  *)

(* The size of an entry that is up to date is the size of a group.         *)
LEMMA RecordedSize ==
  ASSUME IInv, SizesInv, NEW f \in Files, disk[f] # None, tree[f].ctime = disk[f].ctime
  PROVE  /\ tree[f].size = SizeOf[disk[f].data] /\ tree[f].size \in SizeValues
         /\ tree[f].size \in Nat /\ tree[f].size # None
<1>1. disk[f].data \in Contents
  BY DEF IInv, TypeOK
<1>2. tree[f].size = SizeOf[disk[f].data]
  BY DEF SizesInv, SizesIn
<1> QED
  BY <1>1, <1>2 DEF SizeValues

(* A step disturbs every file it changes, and none becomes undisturbed.    *)
Unmoved == \A f \in Files : f \notin disturbed' => f \notin disturbed /\ disk'[f] = disk[f]

(* What is recorded of a file is as before.                                *)
SameEntry(f) ==
  /\ tree'[f].ctime = tree[f].ctime /\ tree'[f].size = tree[f].size
  /\ tree'[f].hash = tree[f].hash /\ tree'[f].is_file = tree[f].is_file

(* A file whose entry the step does not change and that it does not enter. *)
LEMMA AloneKept ==
  ASSUME IInv, SizesInv, AloneInv, Unmoved, NEW f \in Files, Undisturbed(f)', SameEntry(f),
         meta'[f] \in {meta[f], None, StatOf(f)},
         \A h \in Contents : f \in hashes'[h] <=> f \in hashes[h],
         \A h \in Contents : group_size[h] # None => group_size'[h] = group_size[h],
         \A s \in SizeValues : sizes[s] \subseteq sizes'[s],
         f \in entries' => f \in entries, panicked => panicked'
  PROVE  Alone(f)'
<1>1. Undisturbed(f) /\ disk'[f] = disk[f] /\ disk[f] # None
  BY DEF Undisturbed, Unmoved
<1>2. Alone(f)
  BY <1>1 DEF AloneInv
<1>3. StatOf(f)' = StatOf(f)
  BY <1>1 DEF StatOf
<1>4. ASSUME NEW h \in Contents, f \in hashes'[h]
      PROVE  /\ tree'[f].ctime = disk'[f].ctime
             /\ tree'[f].hash = h
             /\ group_size'[h] = tree'[f].size
  <2>1. f \in hashes[h]
    BY <1>4
  <2>2. tree[f].ctime = disk[f].ctime /\ tree[f].hash = h /\ group_size[h] = tree[f].size
    BY <1>2, <2>1 DEF Alone
  <2>3. tree[f].size # None
    BY <1>1, <2>2, RecordedSize
  <2> QED
    BY <1>1, <2>2, <2>3 DEF SameEntry
<1>5. ASSUME f \in entries', ~panicked' PROVE Entered(f)'
  <2>1. Entered(f)
    BY <1>2, <1>5 DEF Alone
  <2>2. tree[f].size \in SizeValues
    BY <1>1, <2>1, RecordedSize DEF Entered
  <2>3. tree[f].hash # None => tree[f].hash \in Contents
    BY DEF IInv, TypeOK, Entry, Nodes
  <2> QED
    BY <1>1, <2>1, <2>2, <2>3 DEF Entered, SameEntry
<1>6. meta'[f] # None => meta'[f] = StatOf(f)'
  BY <1>2, <1>3 DEF Alone
<1> QED
  BY <1>4, <1>5, <1>6 DEF Alone

(* A step within a pass that loses no file.                                *)
LEMMA PassFrame ==
  ASSUME PassInv, Unmoved, phase' = phase, entries \subseteq entries',
         panicked => panicked', phase = "done" => panicked' = panicked,
         phase # "hash" => \A f \in Files : decode'[f] = None,
         phase = "size" => lost' = lost,
         \A f \in Files : lost[f] # None => lost'[f] # None,
         \A f \in Files : (Undisturbed(f) /\ Undisturbed(f)' /\ ~panicked /\ ~panicked') =>
           /\ phase = "size" /\ (f \in todo \/ meta[f] # None) =>
                f \in todo' \/ meta'[f] # None \/ f \in entries'
           /\ phase = "post" /\ (f \in todo \/ meta[f] # None) =>
                f \in todo' \/ meta'[f] # None \/ lost'[f] # None \/ ~Unhashed(f)'
           /\ phase \in {"post", "done"} /\ ~Unhashed(f) => ~Unhashed(f)'
  PROVE  PassInv'
<1>1. \A f \in Files : Undisturbed(f)' => Undisturbed(f)
  BY DEF Unmoved, Undisturbed
<1>2. ASSUME ~panicked', NEW f \in Files, Undisturbed(f)'
      PROVE  /\ phase' = "size" => f \in todo' \/ meta'[f] # None \/ f \in entries'
             /\ phase' \in {"hash", "post", "done"} => f \in entries'
             /\ phase' = "post" =>
                  f \in todo' \/ meta'[f] # None \/ lost'[f] # None \/ ~Unhashed(f)'
             /\ phase' = "done" => lost'[f] # None \/ ~Unhashed(f)'
  BY <1>1, <1>2 DEF PassInv
<1>3. /\ phase' # "hash" => \A f \in Files : decode'[f] = None
      /\ phase' = "done" => ~panicked'
      /\ phase' = "size" => \A f \in Files : lost'[f] = None
  BY DEF PassInv
<1> QED
  BY <1>2, <1>3 DEF PassInv

(* The entries of files and the size groups are as before.                 *)
LEMMA UnhashedSame ==
  ASSUME sizes' = sizes, NEW f \in Files, SameEntry(f)
  PROVE  Unhashed(f)' <=> Unhashed(f)
BY DEF Unhashed, more_than_one_size, SameEntry

(* A step that changes neither entries nor groups.                         *)
LEMMA QuietAlone ==
  ASSUME IInv, SizesInv, AloneInv, Unmoved,
         UNCHANGED <<tree, hashes, group_size, sizes, entries>>, panicked => panicked',
         \A f \in Files : meta'[f] \in {meta[f], None, StatOf(f)}
  PROVE  AloneInv'
<1> SUFFICES ASSUME NEW f \in Files, Undisturbed(f)' PROVE Alone(f)'
  BY DEF AloneInv
<1>1. SameEntry(f)
  BY DEF SameEntry
<1> QED
  BY <1>1, AloneKept

(* Other programs.                                                         *)
LEMMA EnvironmentScan ==
  ASSUME IInv, SizesInv, ScanInv, Environment PROVE ScanInv'
<1>1. /\ UNCHANGED <<scan, phase, panicked>> /\ Unmoved
  <2>1. ASSUME NEW f \in Files, NEW c \in Possible[f], Modify(f, c)
        PROVE  UNCHANGED <<scan, phase, panicked>> /\ Unmoved
    BY <2>1 DEF Modify, Unmoved, IInv, TypeOK
  <2>2. ASSUME NEW f \in Files, Delete(f)
        PROVE  UNCHANGED <<scan, phase, panicked>> /\ Unmoved
    BY <2>2 DEF Delete, Unmoved, IInv, TypeOK
  <2> QED
    BY <2>1, <2>2 DEF Environment
<1>2. AloneInv'
  BY <1>1, QuietAlone DEF ScanInv, scan
<1>3. PassInv'
  <2>1. \A f \in Files : SameEntry(f)
    BY <1>1 DEF scan, SameEntry
  <2>2. \A f \in Files : Unhashed(f)' <=> Unhashed(f)
    BY <1>1, <2>1, UnhashedSame DEF scan
  <2> QED
    BY <1>1, <2>2, PassFrame DEF ScanInv, PassInv, scan
<1> QED
  BY <1>2, <1>3 DEF ScanInv

(* A run starts with empty groups; one that does not scan knows nothing    *)
(* of the files.                                                           *)
LEMMA ProcessScan ==
  ASSUME IInv, SizesInv, ScanInv, Process PROVE ScanInv'
<1>1. ASSUME ClearScan, \A f \in Files : phase' = "size" => f \in todo',
             phase' \in {"size", "off"}
      PROVE  ScanInv'
  <2>1. AloneInv'
    BY <1>1 DEF ClearScan, AloneInv, Alone
  <2>2. PassInv'
    BY <1>1 DEF ClearScan, PassInv
  <2> QED
    BY <2>1, <2>2 DEF ScanInv
<1>2. ASSUME NEW ra \in BOOLEAN, Start(ra) PROVE ScanInv'
  BY <1>1, <1>2 DEF Start
<1>3. ASSUME NEW c \in LoadOutcomes, DirtyLoad(c) PROVE ScanInv'
  <2>1. /\ disturbed' = Files /\ decode' = decode /\ phase = "off" /\ phase' \in {"off", "done"}
        /\ phase' = "done" => ~panicked'
    BY <1>3 DEF DirtyLoad, scan
  <2>2. \A f \in Files : ~Undisturbed(f)'
    BY <2>1 DEF Undisturbed
  <2> QED
    BY <2>1, <2>2 DEF ScanInv, AloneInv, PassInv
<1>4. CASE Exit \/ Crash \/ Unwind
  BY <1>1, <1>4 DEF Exit, Crash, Unwind, Gone
<1> QED
  BY <1>2, <1>3, <1>4 DEF Process

(* What push_to_hash_group does with the entries S of a tree.              *)
LEMMA PushedHashes ==
  ASSUME IInv, NEW t \in Tree, NEW S \in SUBSET Nodes
  PROVE  /\ \A h \in Contents : group_size[h] # None => PushGroupSize(t, S)[h] = group_size[h]
         /\ \A h \in Contents, n \in Nodes \ S : n \in PushHashes(t, S)[h] <=> n \in hashes[h]
         /\ \A h \in Contents : \A n \in PushHashes(t, S)[h] \ hashes[h] :
              n \in S /\ t[n].is_file /\ t[n].hash = h
         /\ \A n \in S : t[n].is_file /\ t[n].hash # None => n \in PushHashes(t, S)[t[n].hash]
         /\ ~PushPanics(t, S) =>
              \A n \in S : t[n].is_file /\ t[n].hash # None =>
                PushGroupSize(t, S)[t[n].hash] = t[n].size
<1>1. \A n \in S : t[n].hash # None => t[n].hash \in Contents
  BY DEF Tree, Entry
<1>2. \A h \in Contents : PushHashes(t, S)[h] = hashes[h] \cup {n \in HashedIn(t, S) : t[n].hash = h}
  BY DEF PushHashes
<1>3. \A h \in Contents : group_size[h] # None => PushGroupSize(t, S)[h] = group_size[h]
  BY DEF PushGroupSize
<1>4. ASSUME ~PushPanics(t, S), NEW n \in S, t[n].is_file, t[n].hash # None
      PROVE  PushGroupSize(t, S)[t[n].hash] = t[n].size
  BY <1>4 DEF PushPanics, HashedIn
<1>5. \A h \in Contents, n \in Nodes \ S : n \in PushHashes(t, S)[h] <=> n \in hashes[h]
  BY <1>2 DEF HashedIn
<1>6. \A h \in Contents : \A n \in PushHashes(t, S)[h] \ hashes[h] :
        n \in S /\ t[n].is_file /\ t[n].hash = h
  BY <1>2 DEF HashedIn
<1>7. \A n \in S : t[n].is_file /\ t[n].hash # None => n \in PushHashes(t, S)[t[n].hash]
  BY <1>1, <1>2 DEF HashedIn
<1> QED
  BY <1>3, <1>4, <1>5, <1>6, <1>7

(* An assertion has failed: the run will not be completed.                 *)
LEMMA PanicScan ==
  ASSUME ScanInv, PanicInLoop, decode' = decode, phase # "done",
         \A f \in Files : Undisturbed(f) => \A h \in Contents : f \in hashes[h] =>
           /\ tree'[f].ctime = tree[f].ctime
           /\ tree'[f].hash = tree[f].hash
           /\ tree'[f].size = tree[f].size
  PROVE  ScanInv'
<1>1. /\ panicked' /\ \A f \in Files : meta'[f] = None
      /\ UNCHANGED <<disk, phase, hashes, group_size, lost, disturbed>>
  BY DEF PanicInLoop
<1>2. \A f \in Files : Undisturbed(f)' => Undisturbed(f) /\ disk'[f] = disk[f]
  BY <1>1 DEF Undisturbed
<1>3. AloneInv'
  <2>1. ASSUME NEW f \in Files, Undisturbed(f)', NEW h \in Contents, f \in hashes'[h]
        PROVE  tree'[f].ctime = disk'[f].ctime /\ tree'[f].hash = h /\ group_size'[h] = tree'[f].size
    <3>1. tree[f].ctime = disk[f].ctime /\ tree[f].hash = h /\ group_size[h] = tree[f].size
      BY <1>1, <1>2, <2>1 DEF ScanInv, AloneInv, Alone
    <3> QED
      BY <1>1, <1>2, <2>1, <3>1
  <2> QED
    BY <1>1, <2>1 DEF AloneInv, Alone
<1>4. PassInv'
  BY <1>1 DEF ScanInv, PassInv
<1> QED
  BY <1>3, <1>4 DEF ScanInv

(* The entry of a file after size_file; a file that was left alone keeps   *)
(* a hash that was recorded under its ctime.                               *)
LEMMA SizedEntry ==
  ASSUME IInv, NEW f \in Files, meta[f] # None
  PROVE  LET t == [Validated(f) EXCEPT ![f].is_file = TRUE, ![f].size = meta[f].size]
         IN  /\ t[f].ctime = meta[f].ctime /\ t[f].size = meta[f].size /\ t[f].is_file
             /\ IsValid(f) => t[f].hash = tree[f].hash
             /\ \A x \in Files \ {f} : t[x] = tree[x]
<1> DEFINE v == Validated(f)
           t == [v EXCEPT ![f].is_file = TRUE, ![f].size = meta[f].size]
<1>1. tree \in Tree /\ f \in Nodes /\ Files \subseteq Nodes /\ Files \cap (Archives \X Members) = {}
  BY DEF IInv, TypeOK, Tree, Nodes
<1>2. CASE IsValid(f)
  <2> DEFINE S == {f} \cup Childs(tree, f)
  <2>1. v = SetValid(tree, S)
    BY <1>2 DEF Validated
  <2>2. /\ v \in Tree
        /\ \A n \in Nodes : v[n].hash = tree[n].hash /\ v[n].ctime = tree[n].ctime /\ v[n].size = tree[n].size
    BY <1>1, <2>1, SetValidKeeps
  <2>3. \A x \in Files \ {f} : x \notin S
    BY <1>1 DEF Childs
  <2>4. \A x \in Files \ {f} : v[x] = tree[x]
    BY <1>1, <2>1, <2>3 DEF SetValid
  <2>5. tree[f].ctime = meta[f].ctime
    BY <1>2 DEF IsValid
  <2> HIDE DEF v, S
  <2>6. v[f] \in Entry
    BY <1>1, <2>2 DEF Tree
  <2>7. /\ t[f].is_file /\ t[f].size = meta[f].size /\ t[f].ctime = v[f].ctime /\ t[f].hash = v[f].hash
        /\ \A x \in Files \ {f} : t[x] = v[x]
    BY <1>1, <2>2, <2>6 DEF Tree, Entry
  <2> HIDE DEF t
  <2> QED
    BY <1>1, <2>2, <2>4, <2>5, <2>7 DEF t, v
<1>3. CASE ~IsValid(f)
  <2>1. v = [tree EXCEPT ![f].size = None, ![f].hash = None,
                         ![f].ctime = meta[f].ctime, ![f].valid = TRUE]
    BY <1>3 DEF Validated
  <2>2. tree[f] \in Entry
    BY <1>1 DEF Tree
  <2> DEFINE e == [tree[f] EXCEPT !.size = None, !.hash = None, !.ctime = meta[f].ctime, !.valid = TRUE]
             g == [e EXCEPT !.is_file = TRUE, !.size = meta[f].size]
  <2>3. v = [tree EXCEPT ![f] = e]
    BY <1>1, <2>1, <2>2 DEF Tree, Entry
  <2>4. t = [tree EXCEPT ![f] = g]
    BY <1>1, <2>2, <2>3 DEF Tree, Entry
  <2>5. g.ctime = meta[f].ctime /\ g.size = meta[f].size /\ g.is_file
    BY <2>2 DEF Entry
  <2> HIDE DEF g, t
  <2> QED
    BY <1>1, <1>3, <2>4, <2>5 DEF Tree, t
<1> QED
  BY <1>2, <1>3

(* A file that was left alone and entered under its ctime is valid.        *)
LEMMA StillValid ==
  ASSUME IInv, SizesInv, AloneInv, NEW f \in Files, Undisturbed(f), meta[f] # None
  PROVE  /\ meta[f].ctime = disk[f].ctime /\ meta[f].size = SizeOf[disk[f].data]
         /\ tree[f].ctime = disk[f].ctime => IsValid(f)
<1>1. meta[f] = StatOf(f)
  BY DEF AloneInv, Alone
<1>2. meta[f].ctime = disk[f].ctime /\ meta[f].size = SizeOf[disk[f].data]
  BY <1>1 DEF StatOf
<1>3. tree[f].ctime = disk[f].ctime => tree[f].size = SizeOf[disk[f].data]
  BY RecordedSize DEF Undisturbed
<1> QED
  BY <1>2, <1>3 DEF IsValid

(* size_file enters a file.                                                *)
LEMMA SizeFileScan ==
  ASSUME IInv, SizesInv, ScanInv, NEW f \in Files, SizeFile(f) PROVE ScanInv'
<1> DEFINE t == [Validated(f) EXCEPT ![f].is_file = TRUE, ![f].size = meta[f].size]
           S == {f} \cup (IF IsValid(f) THEN Childs(tree, f) ELSE {})
<1>1. phase = "size" /\ meta[f] # None /\ tree' = t
  BY DEF SizeFile
<1>2. /\ t[f].ctime = meta[f].ctime /\ t[f].size = meta[f].size /\ t[f].is_file
      /\ IsValid(f) => t[f].hash = tree[f].hash
      /\ \A x \in Files \ {f} : t[x] = tree[x]
  BY <1>1, SizedEntry
<1>3. t \in Tree /\ S \in SUBSET Nodes /\ Files \subseteq Nodes
      /\ (Files \ {f}) \cap S = {} /\ f \in S
  <2>1. t \in Tree
    BY <1>1, ValidatedSound
  <2>2. S \in SUBSET Nodes /\ Files \subseteq Nodes
    BY DEF Childs, Nodes
  <2>3. Files \cap (Archives \X Members) = {}
    OBVIOUS
  <2>4. (Files \ {f}) \cap S = {} /\ f \in S
    BY <2>3 DEF Childs
  <2> HIDE DEF t, S
  <2> QED
    BY <2>1, <2>2, <2>4
<1>4. AloneInv
  BY DEF ScanInv
<1>5. ASSUME Undisturbed(f), NEW h \in Contents, f \in hashes[h]
      PROVE  /\ IsValid(f) /\ tree[f].ctime = disk[f].ctime /\ tree[f].hash = h
             /\ group_size[h] = tree[f].size /\ tree[f].size # None
  <2>1. tree[f].ctime = disk[f].ctime /\ tree[f].hash = h /\ group_size[h] = tree[f].size
    BY <1>4, <1>5 DEF AloneInv, Alone
  <2> QED
    BY <1>1, <1>4, <1>5, <2>1, StillValid, RecordedSize DEF Undisturbed
<1>6. CASE PushPanics(t, S)
  <2>1. PanicInLoop /\ decode' = decode
    BY <1>6 DEF SizeFile
  <2>2. ASSUME NEW x \in Files, Undisturbed(x), NEW h \in Contents, x \in hashes[h]
        PROVE  t[x].ctime = tree[x].ctime /\ t[x].hash = tree[x].hash /\ t[x].size = tree[x].size
    BY <1>2, <1>5, <2>2 DEF IsValid
  <2> HIDE DEF t
  <2> QED
    BY <1>1, <2>1, <2>2, PanicScan
<1>7. CASE ~PushPanics(t, S)
  <2>1. /\ sizes' = PushSizes(t, S)
        /\ hashes' = PushHashes(t, S)
        /\ group_size' = PushGroupSize(t, S)
        /\ entries' = entries \cup {f}
        /\ meta' = [meta EXCEPT ![f] = None]
        /\ UNCHANGED <<disk, now, cache, runs, phase, read_archives,
                       todo, ahead, reading, data, decode, panicked, disturbed>>
    BY <1>7 DEF SizeFile
  <2> HIDE DEF t, S
  <2>2. Unmoved
    BY <2>1 DEF Unmoved
  <2>3. /\ \A h \in Contents : group_size[h] # None => group_size'[h] = group_size[h]
        /\ \A h \in Contents, n \in Nodes \ S : n \in hashes'[h] <=> n \in hashes[h]
        /\ \A h \in Contents : \A n \in hashes'[h] \ hashes[h] : n \in S /\ t[n].is_file /\ t[n].hash = h
        /\ \A n \in S : t[n].is_file /\ t[n].hash # None =>
             n \in hashes'[t[n].hash] /\ group_size'[t[n].hash] = t[n].size
    BY <1>3, <1>7, <2>1, PushedHashes
  <2>4. \A s \in SizeValues : sizes[s] \subseteq sizes'[s]
    BY <2>1 DEF PushSizes
  <2>5. ASSUME NEW x \in Files \ {f}, Undisturbed(x)' PROVE Alone(x)'
    <3>1. SameEntry(x)
      BY <1>1, <1>2 DEF SameEntry
    <3>2. x \in Nodes \ S
      BY <1>3
    <3>3. meta'[x] \in {meta[x], None, StatOf(x)} /\ (x \in entries' => x \in entries)
      BY <2>1 DEF IInv, TypeOK
    <3>4. \A h \in Contents : x \in hashes'[h] <=> x \in hashes[h]
      BY <2>3, <3>2
    <3>5. panicked => panicked'
      BY <2>1
    <3> QED
      BY <1>4, <2>2, <2>3, <2>4, <2>5, <3>1, <3>3, <3>4, <3>5, AloneKept
  <2>6. ASSUME Undisturbed(f)' PROVE Alone(f)'
    <3>1. Undisturbed(f) /\ disk' = disk
      BY <2>1, <2>6 DEF Undisturbed
    <3>2. /\ t[f].ctime = disk[f].ctime /\ t[f].size = SizeOf[disk[f].data]
          /\ SizeOf[disk[f].data] \in SizeValues
      <4>1. disk[f].data \in Contents
        BY <3>1 DEF Undisturbed, IInv, TypeOK
      <4> QED
        BY <1>1, <1>2, <1>4, <3>1, <4>1, StillValid DEF SizeValues
    <3>3. meta'[f] = None
      BY <2>1 DEF IInv, TypeOK
    <3>4. ASSUME NEW h \in Contents, f \in hashes'[h]
          PROVE  t[f].hash = h /\ group_size'[h] = t[f].size
      <4>1. CASE f \in hashes[h]
        BY <1>2, <1>5, <2>3, <3>1, <4>1 DEF IsValid
      <4>2. CASE f \notin hashes[h]
        <5>1. f \in S /\ t[f].is_file /\ t[f].hash = h
          BY <2>3, <3>4, <4>2
        <5> QED
          BY <2>3, <5>1
      <4> QED
        BY <4>1, <4>2
    <3>5. f \in sizes'[t[f].size]
      BY <1>2, <1>3, <2>1, <3>2 DEF PushSizes
    <3>6. t[f].hash # None => f \in hashes'[t[f].hash]
      BY <1>2, <1>3, <2>3
    <3>7. Entered(f)'
      BY <1>1, <1>2, <3>1, <3>2, <3>5, <3>6 DEF Entered
    <3> QED
      BY <1>1, <3>1, <3>2, <3>3, <3>4, <3>7 DEF Alone
  <2>7. AloneInv'
    BY <2>5, <2>6 DEF AloneInv
  <2>8. PassInv'
    <3>1. \A x \in Files : meta'[x] = meta[x] \/ x \in entries'
      BY <2>1 DEF IInv, TypeOK
    <3> QED
      BY <1>1, <2>1, <2>2, <3>1, PassFrame DEF ScanInv, PassInv
  <2> QED
    BY <2>7, <2>8 DEF ScanInv
<1> QED
  BY <1>6, <1>7

(* The hash of a file is recorded.                                         *)
LEMMA CommitScan ==
  ASSUME IInv, SizesInv, ScanInv, Commit PROVE ScanInv'
<1>0. PICK f \in Files : f = reading
  BY DEF Commit, IInv, TypeOK, ReadInv
<1> DEFINE t == [tree EXCEPT ![f].hash = data, ![f].is_dir = @ \/ IsZip(f)]
<1>1. /\ f \in Files /\ data \in Contents /\ tree' = t /\ tree \in Tree /\ f \in Nodes
      /\ Files \subseteq Nodes /\ meta[f] # None /\ tree[f].ctime = meta[f].ctime
      /\ phase \in {"hash", "post"}
  BY <1>0 DEF Commit, IInv, TypeOK, ReadInv, Tree, Nodes
<1>2. /\ t \in Tree
      /\ t[f].hash = data /\ t[f].ctime = tree[f].ctime /\ t[f].size = tree[f].size
      /\ t[f].is_file = tree[f].is_file
      /\ \A x \in Files \ {f} : t[x] = tree[x]
  <2> DEFINE e == [tree[f] EXCEPT !.hash = data, !.is_dir = tree[f].is_dir \/ IsZip(f)]
  <2>1. tree[f] \in Entry
    BY <1>1 DEF Tree
  <2>2. t = [tree EXCEPT ![f] = e]
    BY <1>1, <2>1 DEF Tree, Entry
  <2>3. /\ e \in Entry /\ e.hash = data /\ e.ctime = tree[f].ctime /\ e.size = tree[f].size
        /\ e.is_file = tree[f].is_file
    <3>1. (tree[f].is_dir \/ IsZip(f)) \in BOOLEAN
      OBVIOUS
    <3> QED
      BY <1>1, <2>1, <3>1 DEF Entry
  <2> HIDE DEF e
  <2> QED
    BY <1>1, <2>2, <2>3 DEF Tree
<1> HIDE DEF t
<1>3. AloneInv
  BY DEF ScanInv
<1>4. ASSUME Undisturbed(f) PROVE tree[f].ctime = disk[f].ctime /\ data = disk[f].data
  <2>1. tree[f].ctime = disk[f].ctime
    BY <1>1, <1>3, <1>4, StillValid
  <2> QED
    BY <1>0, <1>4, <2>1 DEF Commit, IInv, ReadInv, Undisturbed
<1>5. ASSUME Undisturbed(f), NEW h \in Contents, f \in hashes[h]
      PROVE  tree[f].hash = h /\ h = data /\ group_size[h] = tree[f].size /\ tree[f].size # None
  <2>1. tree[f].hash = h /\ group_size[h] = tree[f].size
    BY <1>1, <1>3, <1>5 DEF AloneInv, Alone
  <2>2. tree[f].hash = disk[f].data
    BY <1>1, <1>4, <1>5, <2>1 DEF IInv, HashFresh, FreshIn, Undisturbed
  <2> QED
    BY <1>1, <1>4, <1>5, <2>1, <2>2, RecordedSize DEF Undisturbed
<1>6. CASE PushPanics(t, {f})
  <2>1. PanicInLoop /\ decode' = decode
    BY <1>0, <1>6 DEF Commit, t
  <2>2. ASSUME NEW x \in Files, Undisturbed(x), NEW h \in Contents, x \in hashes[h]
        PROVE  t[x].ctime = tree[x].ctime /\ t[x].hash = tree[x].hash /\ t[x].size = tree[x].size
    BY <1>2, <1>5, <2>2
  <2> QED
    BY <1>1, <2>1, <2>2, PanicScan
<1>7. CASE ~PushPanics(t, {f})
  <2>1. /\ hashes' = PushHashes(t, {f})
        /\ group_size' = PushGroupSize(t, {f})
        /\ meta' = [meta EXCEPT ![f] = None]
        /\ UNCHANGED <<disk, now, runs, phase, read_archives, sizes, todo, entries, ahead,
                       decode, panicked, disturbed>>
    BY <1>0, <1>7 DEF Commit, t
  <2>2. Unmoved
    BY <2>1 DEF Unmoved
  <2>3. /\ \A h \in Contents : group_size[h] # None => group_size'[h] = group_size[h]
        /\ \A h \in Contents, n \in Nodes \ {f} : n \in hashes'[h] <=> n \in hashes[h]
        /\ \A h \in Contents : \A n \in hashes'[h] \ hashes[h] : t[n].is_file /\ n = f /\ t[n].hash = h
        /\ t[f].is_file => f \in hashes'[data] /\ group_size'[data] = t[f].size
    BY <1>1, <1>2, <1>7, <2>1, PushedHashes
  <2>4. ASSUME NEW x \in Files \ {f}, Undisturbed(x)' PROVE Alone(x)'
    <3>1. SameEntry(x)
      BY <1>1, <1>2 DEF SameEntry
    <3>2. x \in Nodes \ {f}
      BY <1>1
    <3>3. meta'[x] \in {meta[x], None, StatOf(x)} /\ (x \in entries' => x \in entries)
      BY <2>1 DEF IInv, TypeOK
    <3>4. \A h \in Contents : x \in hashes'[h] <=> x \in hashes[h]
      BY <2>3, <3>2
    <3>5. (panicked => panicked') /\ \A s \in SizeValues : sizes[s] \subseteq sizes'[s]
      BY <2>1
    <3> QED
      BY <1>3, <2>2, <2>3, <2>4, <3>1, <3>3, <3>4, <3>5, AloneKept
  <2>5. ASSUME Undisturbed(f)' PROVE Alone(f)'
    <3>1. Undisturbed(f) /\ disk' = disk
      BY <2>1, <2>5 DEF Undisturbed
    <3>2. meta'[f] = None
      BY <1>1, <2>1 DEF IInv, TypeOK
    <3>3. ASSUME NEW h \in Contents, f \in hashes'[h]
          PROVE  t[f].hash = h /\ group_size'[h] = t[f].size
      <4>1. CASE f \in hashes[h]
        BY <1>2, <1>5, <2>3, <3>1, <4>1
      <4>2. CASE f \notin hashes[h]
        BY <1>2, <2>3, <3>3, <4>2
      <4> QED
        BY <4>1, <4>2
    <3>4. ASSUME f \in entries, ~panicked PROVE Entered(f)'
      <4>1. Entered(f)
        BY <1>1, <1>3, <3>1, <3>4 DEF AloneInv, Alone
      <4>2. f \in hashes'[data]
        BY <1>2, <2>3, <4>1 DEF Entered
      <4> QED
        BY <1>1, <1>2, <2>1, <3>1, <4>1, <4>2 DEF Entered
    <3>5. t[f].ctime = disk[f].ctime
      BY <1>2, <1>4, <3>1
    <3>6. \A h \in Contents : f \in hashes'[h] =>
            tree'[f].ctime = disk'[f].ctime /\ tree'[f].hash = h /\ group_size'[h] = tree'[f].size
      BY <1>1, <3>1, <3>3, <3>5
    <3> QED
      BY <2>1, <3>2, <3>4, <3>6 DEF Alone
  <2>6. AloneInv'
    BY <2>4, <2>5 DEF AloneInv
  <2>7. PassInv'
    <3>1. ~Unhashed(f)'
      BY <1>1, <1>2 DEF Unhashed
    <3>2. \A x \in Files \ {f} : meta'[x] = meta[x]
      BY <2>1 DEF IInv, TypeOK
    <3>3. ASSUME NEW x \in Files \ {f}, ~Unhashed(x) PROVE ~Unhashed(x)'
      <4>1. SameEntry(x)
        BY <1>1, <1>2 DEF SameEntry
      <4> QED
        BY <2>1, <3>3, <4>1, UnhashedSame
    <3> QED
      BY <1>1, <2>1, <2>2, <3>1, <3>2, <3>3, PassFrame DEF ScanInv, PassInv
  <2> QED
    BY <2>6, <2>7 DEF ScanInv
<1> QED
  BY <1>6, <1>7

(* A step that changes neither entries nor groups and drops no file.       *)
LEMMA QuietScan ==
  ASSUME IInv, SizesInv, ScanInv, Unmoved,
         UNCHANGED <<tree, hashes, group_size, sizes, entries, phase, panicked>>,
         \A f \in Files : meta'[f] \in {meta[f], None, StatOf(f)},
         phase # "hash" => \A f \in Files : decode'[f] = None,
         phase = "size" => lost' = lost,
         \A f \in Files : lost[f] # None => lost'[f] # None,
         \A f \in Files :
           (Undisturbed(f) /\ Undisturbed(f)' /\ ~panicked /\ phase \in {"size", "post"}
              /\ (f \in todo \/ meta[f] # None))
           => f \in todo' \/ meta'[f] # None \/ (phase = "post" /\ (lost'[f] # None \/ ~Unhashed(f)))
  PROVE  ScanInv'
<1>1. AloneInv'
  BY QuietAlone DEF ScanInv
<1>2. \A f \in Files : Unhashed(f)' <=> Unhashed(f)
  <2>1. \A f \in Files : SameEntry(f)
    BY DEF SameEntry
  <2> QED
    BY <2>1, UnhashedSame
<1>3. PassInv'
  BY <1>2, PassFrame DEF ScanInv
<1> QED
  BY <1>1, <1>3 DEF ScanInv

(* Metadata are taken of a file, or the file is passed over: it cannot be  *)
(* opened, or it is not a candidate, or it is not the file pass 1 saw.     *)
LEMMA TurnScan ==
  ASSUME IInv, SizesInv, ScanInv, NEW f \in Files,
         \/ Stat(f) \/ Miss(f) \/ Filter(f) \/ Open(f) \/ OpenError(f)
         \/ SkipComodified(f) \/ StartRead(f)
  PROVE  ScanInv'
<1>1. /\ UNCHANGED <<disk, tree, hashes, group_size, sizes, entries, phase, panicked, lost>>
      /\ disturbed \subseteq disturbed'
  BY DEF Stat, Miss, Filter, Open, OpenError, SkipComodified, StartRead
<1>2. Unmoved
  BY <1>1 DEF Unmoved
<1>3. phase # "hash" => \A x \in Files : decode'[x] = None
  <2>1. phase # "hash" => decode' = decode
    BY DEF Stat, Miss, Filter, Open, OpenError, SkipComodified, StartRead, HugeZip, DoZips
  <2> QED
    BY <2>1 DEF ScanInv, PassInv
<1>4. CASE Stat(f) \/ Open(f)
  <2>1. meta'[f] = StatOf(f) /\ \A x \in Files \ {f} : meta'[x] = meta[x]
    BY <1>4 DEF Stat, Open, IInv, TypeOK
  <2>2. todo' = todo \ {f}
    BY <1>4 DEF Stat, Open
  <2>3. StatOf(f) # None
    <3>1. disk[f] \in [data : Contents, ctime : Nat]
      BY <1>4 DEF Stat, Open, IInv, TypeOK
    <3>2. StatOf(f) \in [size : Nat, ctime : Nat]
      BY <3>1 DEF StatOf
    <3> QED
      BY <3>2
  <2> QED
    BY <1>1, <1>2, <1>3, <2>1, <2>2, <2>3, QuietScan
<1>5. CASE Miss(f) \/ OpenError(f)
  <2>1. /\ meta' = meta /\ todo' = todo \ {f} /\ ~Undisturbed(f)'
    BY <1>5 DEF Miss, OpenError, Undisturbed
  <2> QED
    BY <1>1, <1>2, <1>3, <2>1, QuietScan
<1>6. CASE Filter(f)
  <2>1. meta' = meta /\ todo' = todo \ {f} /\ phase # "size"
    BY <1>6 DEF Filter, Queueing, Hashing
  <2>2. ~Unhashed(f)
    BY <1>6 DEF Filter, is_file_read_candidate, Unhashed
  <2> QED
    BY <1>1, <1>2, <1>3, <2>1, <2>2, QuietScan
<1>7. CASE SkipComodified(f)
  <2>1. /\ meta'[f] = None /\ \A x \in Files \ {f} : meta'[x] = meta[x]
        /\ todo' = todo /\ phase # "size"
    BY <1>7 DEF SkipComodified, Queueing, Hashing, IInv, TypeOK
  <2>2. ASSUME Undisturbed(f), ~panicked, phase = "post" PROVE FALSE
    <3>1. AloneInv /\ Entered(f)
      BY <2>2 DEF ScanInv, PassInv, AloneInv, Alone
    <3>2. meta[f] # None /\ ~IsValid(f)
      BY <1>7 DEF SkipComodified, IsValid
    <3> QED
      BY <2>2, <3>1, <3>2, StillValid DEF Entered
  <2> QED
    BY <1>1, <1>2, <1>3, <2>1, <2>2, QuietScan
<1>8. CASE StartRead(f)
  <2>1. meta' = meta /\ todo' = todo
    BY <1>8 DEF StartRead
  <2> QED
    BY <1>1, <1>2, <1>3, <2>1, QuietScan
<1> QED
  BY <1>4, <1>5, <1>6, <1>7, <1>8

(* A file is read to its end, or the read fails.                           *)
LEMMA ReadScan ==
  ASSUME IInv, SizesInv, ScanInv,
         (\E c \in Contents : FinishRead(c) \/ ShortRead(c)) \/ ReadError
  PROVE  ScanInv'
<1>1. ASSUME NEW c \in Contents, FinishRead(c) PROVE ScanInv'
  <2>1. /\ UNCHANGED <<disk, tree, hashes, group_size, sizes, entries, phase, panicked,
                       todo, meta, lost, disturbed>>
        /\ phase # "hash" => decode' = decode
    BY <1>1 DEF FinishRead, InMemoryZip, DoZips
  <2>2. Unmoved
    BY <2>1 DEF Unmoved
  <2>3. phase # "hash" => \A x \in Files : decode'[x] = None
    BY <2>1 DEF ScanInv, PassInv
  <2> QED
    BY <2>1, <2>2, <2>3, QuietScan
<1>2. ASSUME NEW c \in Contents, ShortRead(c) PROVE ScanInv'
  BY <1>2, PanicScan DEF ShortRead, IInv, ReadInv
<1>3. CASE ReadError
  <2>1. /\ UNCHANGED <<disk, tree, hashes, group_size, sizes, entries, phase, panicked,
                       todo, lost, decode>>
        /\ reading \in Files /\ disturbed' = disturbed \cup {reading}
        /\ meta' = [meta EXCEPT ![reading] = None]
    BY <1>3 DEF ReadError, IInv, TypeOK
  <2>2. Unmoved
    BY <2>1 DEF Unmoved
  <2>3. \A x \in Files : /\ meta'[x] \in {meta[x], None}
                         /\ Undisturbed(x)' => meta'[x] = meta[x]
    BY <2>1 DEF IInv, TypeOK, Undisturbed
  <2>4. phase # "hash" => \A x \in Files : decode'[x] = None
    BY <2>1 DEF ScanInv, PassInv
  <2> QED
    BY <2>1, <2>2, <2>3, <2>4, QuietScan
<1> QED
  BY <1>1, <1>2, <1>3

(* The readahead reports an error, and discards what is behind it.         *)
LEMMA ErrorScan ==
  ASSUME IInv, SizesInv, ScanInv,
         \/ \E f \in Files : ReportError(f) \/ DiscardFile(f) \/ DiscardError(f)
         \/ DiscardNothing
  PROVE  ScanInv'
<1>1. UNCHANGED <<disk, tree, hashes, group_size, sizes, entries, phase, panicked, todo,
                  decode, disturbed>>
  BY DEF ReportError, DiscardFile, DiscardError, DiscardNothing
<1>2. Unmoved
  BY <1>1 DEF Unmoved
<1>3. phase # "hash" => \A x \in Files : decode'[x] = None
  BY <1>1 DEF ScanInv, PassInv
<1>4. ASSUME NEW f \in Files, DiscardFile(f) PROVE ScanInv'
  <2>1. behind # None /\ phase # "size"
    BY <1>4 DEF DiscardFile, Hashing
  <2>2. /\ lost'[f] # None /\ \A x \in Files \ {f} : lost'[x] = lost[x]
        /\ meta'[f] = None /\ \A x \in Files \ {f} : meta'[x] = meta[x]
    BY <1>4 DEF DiscardFile, IInv, TypeOK
  <2> QED
    BY <1>1, <1>2, <1>3, <2>1, <2>2, QuietScan
<1>5. CASE (\E f \in Files : ReportError(f) \/ DiscardError(f)) \/ DiscardNothing
  <2>1. meta' = meta /\ lost' = lost
    BY <1>5 DEF ReportError, DiscardError, DiscardNothing
  <2> QED
    BY <1>1, <1>2, <1>3, <2>1, QuietScan
<1> QED
  BY <1>4, <1>5

(* A pass ends when it has come to every file and every task has returned. *)
LEMMA EndScan ==
  ASSUME IInv, SizesInv, ScanInv, EndSize \/ EndHash \/ EndPost
  PROVE  ScanInv'
<1>1. /\ UNCHANGED <<disk, tree, hashes, group_size, sizes, entries, panicked, meta,
                     decode, disturbed>>
      /\ Idle /\ ~panicked
  BY DEF EndSize, EndHash, EndPost, scan
<1>2. Unmoved
  BY <1>1 DEF Unmoved
<1>3. AloneInv'
  BY <1>1, <1>2, QuietAlone DEF ScanInv
<1>4. \A f \in Files : (Undisturbed(f)' <=> Undisturbed(f)) /\ (Unhashed(f)' <=> Unhashed(f))
  BY <1>1 DEF Undisturbed, Unhashed, more_than_one_size
<1>5. /\ \/ phase = "size" /\ phase' = "hash"
         \/ phase = "hash" /\ phase' = "post" /\ todo' = entries
         \/ phase = "post" /\ phase' = "done" /\ lost' = lost
      /\ \A f \in Files : f \notin todo /\ meta[f] = None /\ decode[f] = None
  BY <1>1 DEF EndSize, EndHash, EndPost, Idle, scan
<1>6. PassInv'
  BY <1>1, <1>4, <1>5 DEF ScanInv, PassInv
<1> QED
  BY <1>3, <1>6 DEF ScanInv

(* The steps of the three passes.                                          *)
LEMMA PassesScan ==
  ASSUME IInv, SizesInv, ScanInv, Passes PROVE ScanInv'
BY SizeFileScan, TurnScan, ReadScan, CommitScan, ErrorScan, EndScan DEF Passes

(* A task enters members of archives; a file keeps its entry and groups.   *)
LEMMA DecodeScan ==
  ASSUME IInv, SizesInv, ScanInv, NEW f \in Archives, NEW m \in Members, DecodeMember(f, m)
  PROVE  ScanInv'
<1> DEFINE n == <<f, m>>
           c == Holds[decode[f].data][m]
           e == [tree[n] EXCEPT !.is_dir = FALSE, !.is_file = TRUE, !.valid = TRUE,
                                !.size = SizeOf[c], !.hash = c]
           a == [tree[f] EXCEPT !.is_dir = TRUE]
           t == [tree EXCEPT ![n].is_dir = FALSE, ![n].is_file = TRUE, ![n].valid = TRUE,
                             ![n].size = SizeOf[c], ![n].hash = c,
                             ![f].is_dir = TRUE]
<1>1. /\ f \in Files /\ n \in Nodes /\ n \notin Files /\ Files \subseteq Nodes
      /\ tree \in Tree /\ tree[n] \in Entry /\ tree[f] \in Entry
  BY DEF IInv, TypeOK, Tree, Nodes
<1>2. /\ tree' = t
      /\ sizes' = PushSizes(t, {n})
      /\ UNCHANGED <<disk, phase, todo, entries, meta, lost, disturbed>>
      /\ panicked => panicked'
      /\ \/ UNCHANGED <<hashes, group_size>>
         \/ hashes' = PushHashes(t, {n}) /\ group_size' = PushGroupSize(t, {n})
  BY DEF DecodeMember
<1>3. tree' \in Tree
  BY DecodeMemberStep DEF IInv, TypeOK, Tree
<1>4. phase = "hash"
  BY <1>1 DEF DecodeMember, ScanInv, PassInv
<1> HIDE DEF c
<1>5. /\ a.ctime = tree[f].ctime /\ a.hash = tree[f].hash /\ a.size = tree[f].size
      /\ a.is_file = tree[f].is_file
  BY <1>1 DEF Entry
<1>6. t = [tree EXCEPT ![n] = e, ![f] = a]
  BY <1>1 DEF Tree, Entry
<1> HIDE DEF e, n, a, t
<1>7. ASSUME NEW x \in Files PROVE SameEntry(x)
  <2>1. x \in Nodes /\ x # n
    BY <1>1
  <2>2. t[x] = IF x = f THEN a ELSE tree[x]
    BY <1>1, <1>6, <2>1 DEF Tree
  <2> QED
    BY <1>2, <1>5, <2>2 DEF SameEntry
<1>8. Unmoved
  BY <1>2 DEF Unmoved
<1>9. \A s \in SizeValues : sizes[s] \subseteq sizes'[s]
  BY <1>2 DEF PushSizes
<1>10. /\ \A h \in Contents : group_size[h] # None => group_size'[h] = group_size[h]
       /\ \A h \in Contents : \A x \in Files : x \in hashes'[h] <=> x \in hashes[h]
  <2>1. CASE UNCHANGED <<hashes, group_size>>
    BY <2>1
  <2>2. CASE hashes' = PushHashes(t, {n}) /\ group_size' = PushGroupSize(t, {n})
    <3>1. t \in Tree /\ {n} \in SUBSET Nodes /\ \A x \in Files : x \in Nodes \ {n}
      BY <1>1, <1>2, <1>3
    <3> QED
      BY <2>2, <3>1, PushedHashes
  <2> QED
    BY <1>2, <2>1, <2>2
<1>11. AloneInv'
  <2> SUFFICES ASSUME NEW x \in Files, Undisturbed(x)' PROVE Alone(x)'
    BY DEF AloneInv
  <2> QED
    BY <1>2, <1>7, <1>8, <1>9, <1>10, AloneKept DEF ScanInv
<1>12. PassInv'
  BY <1>2, <1>4, <1>8, PassFrame DEF ScanInv
<1> QED
  BY <1>11, <1>12 DEF ScanInv

(* The other steps of a task.                                              *)
LEMMA TasksScan ==
  ASSUME IInv, SizesInv, ScanInv, Tasks PROVE ScanInv'
<1>1. ASSUME NEW f \in Archives,
             \/ TaskOpen(f) \/ TaskEnd(f) \/ TaskFail(f)
             \/ \E m \in Members : MemberError(f, m)
      PROVE  ScanInv'
  <2>1. /\ UNCHANGED <<disk, tree, hashes, group_size, sizes, entries, phase, panicked,
                       todo, meta, lost>>
        /\ disturbed \subseteq disturbed' /\ decode[f] # None
    BY <1>1 DEF TaskOpen, TaskEnd, TaskFail, MemberError
  <2>2. Unmoved
    BY <2>1 DEF Unmoved
  <2>3. phase = "hash"
    BY <2>1 DEF ScanInv, PassInv
  <2> QED
    BY <2>1, <2>2, <2>3, QuietScan
<1>2. ASSUME NEW f \in Archives, NEW m \in Members, DecodeMember(f, m) PROVE ScanInv'
  BY <1>2, DecodeScan
<1> QED
  BY <1>1, <1>2 DEF Tasks

(* Every step preserves what is known of the files that were left alone.   *)
LEMMA NextScan == IInv /\ SizesInv /\ ScanInv /\ [Next]_vars => ScanInv'
<1> SUFFICES ASSUME IInv, SizesInv, ScanInv, [Next]_vars PROVE ScanInv'
  OBVIOUS
<1>1. CASE Next
  BY <1>1, EnvironmentScan, ProcessScan, PassesScan, TasksScan DEF Next
<1>2. CASE UNCHANGED vars
  <2>1. UNCHANGED <<tree, hashes, group_size, sizes, entries, phase, panicked, todo,
                    meta, lost, decode>> /\ Unmoved
    BY <1>2 DEF vars, scan, Unmoved
  <2>2. phase # "hash" => \A f \in Files : decode'[f] = None
    BY <2>1 DEF ScanInv, PassInv
  <2> QED
    BY <2>1, <2>2, QuietScan
<1> QED
  BY <1>1, <1>2

-----------------------------------------------------------------------------
(* What the readahead loses behind errors.                                 *)

(* A step that neither queues nor discards anything.                       *)
LEMMA ErrorFrame ==
  ASSUME ErrorInv, todo' \subseteq todo, failed' = failed, behind' = behind, lost' = lost,
         disturbed \subseteq disturbed'
  PROVE  ErrorInv'
BY DEF ErrorInv

(* The queue is gone with its pass.                                        *)
LEMMA ErrorGone ==
  ASSUME failed' = {}, behind' = None, None \notin todo', \A f \in Files : lost'[f] = None
  PROVE  ErrorInv'
BY DEF ErrorInv

(* An error enters the queue, is returned, and discards a file.            *)
LEMMA ErrorPassed ==
  ASSUME IInv, ErrorInv, NEW f \in Files,
         OpenError(f) \/ ReportError(f) \/ DiscardFile(f) \/ DiscardError(f)
  PROVE  ErrorInv'
<1>1. None \notin Files /\ todo \subseteq Files /\ behind \in Files \cup {None}
  BY DEF IInv, TypeOK
<1>2. CASE OpenError(f)
  <2>1. /\ todo' = todo \ {f} /\ failed' = failed \cup {f} /\ behind' = behind /\ lost' = lost
        /\ disturbed' = disturbed \cup {f} /\ f \in todo
    BY <1>2 DEF OpenError
  <2> QED
    BY <1>1, <2>1 DEF ErrorInv
<1>3. CASE ReportError(f)
  <2>1. /\ todo' = todo /\ failed' = failed \ {f} /\ behind' = f /\ lost' = lost
        /\ disturbed' = disturbed /\ f \in failed
    BY <1>3 DEF ReportError
  <2> QED
    BY <1>1, <2>1 DEF ErrorInv
<1>4. CASE DiscardFile(f)
  <2>1. /\ todo' = todo /\ failed' = failed /\ behind' = None /\ disturbed' = disturbed
        /\ behind # None /\ lost' = [lost EXCEPT ![f] = behind]
    BY <1>4 DEF DiscardFile
  <2>2. lost'[f] = behind /\ \A x \in Files \ {f} : lost'[x] = lost[x]
    BY <2>1 DEF IInv, TypeOK
  <2>3. \A x \in Files \ {f} : lost[x] # behind
    BY <2>1 DEF ErrorInv
  <2>4. failed \cap todo = {} /\ None \notin todo \cup failed /\ failed \subseteq disturbed
    BY <1>1 DEF IInv, TypeOK, ErrorInv
  <2>5. behind \in disturbed \ (todo \cup failed)
    BY <2>1 DEF ErrorInv
  <2>6. ASSUME NEW x \in Files, lost'[x] # None
        PROVE  /\ lost'[x] \in disturbed \ (todo \cup failed \cup {None})
               /\ \A g \in Files \ {x} : lost'[g] # lost'[x]
    <3>1. CASE x = f
      BY <2>1, <2>2, <2>3, <2>5, <3>1
    <3>2. CASE x # f
      <4>1. /\ lost'[x] = lost[x] /\ lost[x] # behind
            /\ lost[x] \in disturbed \ (todo \cup failed)
            /\ \A g \in Files \ {x} : lost[g] # lost[x]
        BY <2>2, <2>3, <2>6, <3>2 DEF ErrorInv
      <4> QED
        BY <2>2, <2>6, <4>1
    <3> QED
      BY <3>1, <3>2
  <2> QED
    BY <2>1, <2>4, <2>6 DEF ErrorInv
<1>5. CASE DiscardError(f)
  <2>1. /\ todo' = todo /\ failed' = failed \ {f} /\ behind' = None /\ lost' = lost
        /\ disturbed' = disturbed
    BY <1>5 DEF DiscardError
  <2>2. None \notin todo \cup failed /\ \A x \in Files : lost[x] # None => lost[x] # None
    BY <1>1 DEF IInv, TypeOK
  <2> QED
    BY <2>1, <2>2 DEF ErrorInv
<1> QED
  BY <1>2, <1>3, <1>4, <1>5

(* Every step keeps errors, and what they discarded, apart.                *)
LEMMA NextErrors == IInv /\ ScanInv /\ ErrorInv /\ [Next]_vars => ErrorInv'
<1> SUFFICES ASSUME IInv, ScanInv, ErrorInv, [Next]_vars PROVE ErrorInv'
  OBVIOUS
<1>0. None \notin Files /\ todo \subseteq Files /\ entries \subseteq Files /\ failed \subseteq Files
  BY DEF IInv, TypeOK
<1>1. CASE UNCHANGED vars
  BY <1>1, ErrorFrame DEF vars, scan
<1>2. CASE Environment
  BY <1>2, ErrorFrame DEF Environment, Modify, Delete, scan
<1>3. CASE Process
  <2>1. ASSUME NEW ra \in BOOLEAN, Start(ra) PROVE ErrorInv'
    BY <1>0, <2>1, ErrorGone DEF Start, ClearScan
  <2>2. ASSUME NEW c \in LoadOutcomes, DirtyLoad(c) PROVE ErrorInv'
    <3>1. UNCHANGED <<todo, failed, behind, lost>> /\ disturbed' = Files
      BY <2>2 DEF DirtyLoad, scan
    <3>2. disturbed \subseteq Files
      BY DEF IInv, TypeOK
    <3> QED
      BY <3>1, <3>2, ErrorFrame
  <2>3. CASE Exit \/ Crash \/ Unwind
    BY <2>3, ErrorGone DEF Exit, Crash, Unwind, Gone, ClearScan
  <2> QED
    BY <1>3, <2>1, <2>2, <2>3 DEF Process
<1>4. ASSUME PanicInLoop PROVE ErrorInv'
  <2>1. /\ todo' = {} /\ failed' = {} /\ behind' = None /\ lost' = lost
        /\ disturbed' = disturbed
    BY <1>4 DEF PanicInLoop
  <2> QED
    BY <2>1 DEF ErrorInv
<1>5. CASE Passes
  <2>1. ASSUME NEW f \in Files,
               OpenError(f) \/ ReportError(f) \/ DiscardFile(f) \/ DiscardError(f)
        PROVE  ErrorInv'
    BY <2>1, ErrorPassed
  <2>2. ASSUME NEW f \in Files,
               Stat(f) \/ Miss(f) \/ Filter(f) \/ Open(f) \/ SkipComodified(f) \/ StartRead(f)
        PROVE  ErrorInv'
    BY <2>2, ErrorFrame DEF Stat, Miss, Filter, Open, SkipComodified, StartRead
  <2>3. ASSUME NEW f \in Files, SizeFile(f) PROVE ErrorInv'
    BY <1>4, <2>3, ErrorFrame DEF SizeFile
  <2>4. CASE EndSize \/ EndHash
    <3>1. failed' = {} /\ behind' = None /\ todo' = entries
      BY <2>4 DEF EndSize, EndHash, Idle
    <3>2. \A f \in Files : lost'[f] = None
      BY <2>4 DEF EndSize, EndHash, ScanInv, PassInv
    <3> QED
      BY <1>0, <3>1, <3>2, ErrorGone
  <2>5. CASE EndPost
    BY <2>5, ErrorFrame DEF EndPost, scan
  <2>6. ASSUME NEW c \in Contents, FinishRead(c) \/ ShortRead(c) PROVE ErrorInv'
    BY <1>4, <2>6, ErrorFrame DEF FinishRead, ShortRead
  <2>7. CASE ReadError
    BY <2>7, ErrorFrame DEF ReadError
  <2>8. CASE Commit
    BY <1>4, <2>8, ErrorFrame DEF Commit
  <2>9. CASE DiscardNothing
    BY <1>0, <2>9 DEF DiscardNothing, ErrorInv
  <2> QED
    BY <1>5, <2>1, <2>2, <2>3, <2>4, <2>5, <2>6, <2>7, <2>8, <2>9 DEF Passes
<1>6. CASE Tasks
  <2>1. UNCHANGED <<todo, failed, behind, lost>> /\ disturbed \subseteq disturbed'
    <3>1. ASSUME NEW f \in Archives, TaskOpen(f) \/ TaskEnd(f) \/ TaskFail(f)
          PROVE  UNCHANGED <<todo, failed, behind, lost>> /\ disturbed \subseteq disturbed'
      BY <3>1 DEF TaskOpen, TaskEnd, TaskFail
    <3>2. ASSUME NEW f \in Archives, NEW m \in Members, DecodeMember(f, m) \/ MemberError(f, m)
          PROVE  UNCHANGED <<todo, failed, behind, lost>> /\ disturbed \subseteq disturbed'
      BY <3>2 DEF DecodeMember, MemberError
    <3> QED
      BY <1>6, <3>1, <3>2 DEF Tasks
  <2> QED
    BY <2>1, ErrorFrame
<1> QED
  BY <1>1, <1>2, <1>3, <1>5, <1>6 DEF Next

-----------------------------------------------------------------------------
(* In the reachable states a run knows of a file that was left alone only  *)
(* what is true of it, and no pass has lost it.                            *)
THEOREM ScanInvariance == Spec => [](IInv /\ SizesInv /\ ScanInv /\ ErrorInv)
<1>1. Init => ScanInv /\ ErrorInv
  <2> SUFFICES ASSUME Init PROVE ScanInv /\ ErrorInv
    OBVIOUS
  <2> QED
    BY DEF Init, ScanInv, AloneInv, Alone, PassInv, ErrorInv
<1> QED
  BY <1>1, InitSizes, Invariance, NextKeeps, NextScan, NextErrors, PTL DEF Spec

(* After a scan a hash group holds, of the files that were left alone,     *)
(* those with its content only, and has their size.                        *)
THEOREM GroupedByContent == Spec => []GroupsByContent
<1>1. IInv /\ SizesInv /\ ScanInv => GroupsByContent
  <2> SUFFICES ASSUME IInv, SizesInv, ScanInv, NEW h \in Contents,
                      NEW f \in hashes[h] \cap Files, Undisturbed(f)
               PROVE  disk[f].data = h /\ group_size[h] = SizeOf[h]
    BY DEF GroupsByContent
  <2>1. tree[f].ctime = disk[f].ctime /\ tree[f].hash = h /\ group_size[h] = tree[f].size
    BY DEF ScanInv, AloneInv, Alone
  <2>2. disk[f].data = h
    BY <2>1 DEF Undisturbed, IInv, HashFresh, FreshIn
  <2>3. tree[f].size = SizeOf[disk[f].data]
    BY <2>1, RecordedSize DEF Undisturbed
  <2> QED
    BY <2>1, <2>2, <2>3
<1> QED
  BY <1>1, ScanInvariance, PTL

(* The entries of the tree are finitely many.                              *)
LEMMA NodesFinite == IsFiniteSet(Nodes)
<1>1. IsFiniteSet(Archives)
  BY FS_Subset
<1>2. IsFiniteSet(Archives \X Members)
  BY <1>1, FS_Product
<1> QED
  BY <1>2, FS_Union DEF Nodes

(* A group with two different entries has more than one.                   *)
LEMMA TwoEntries ==
  ASSUME IInv, NEW s \in SizeValues, NEW f \in sizes[s], NEW n \in sizes[s], n # f
  PROVE  more_than_one_size(s)
<1>1. sizes[s] \subseteq Nodes
  BY DEF IInv, TypeOK
<1>2. IsFiniteSet(sizes[s])
  BY <1>1, NodesFinite, FS_Subset
<1>3. IsFiniteSet({f, n}) /\ Cardinality({f, n}) = 2
  <2>1. IsFiniteSet({f}) /\ Cardinality({f}) = 1
    BY FS_Singleton
  <2>2. n \notin {f}
    OBVIOUS
  <2> DEFINE S == {f}
  <2> HIDE DEF S
  <2>3. IsFiniteSet(S \cup {n}) /\ Cardinality(S \cup {n}) = Cardinality(S) + 1
    BY <2>1, <2>2, FS_AddElement DEF S
  <2>4. {f, n} = S \cup {n}
    BY DEF S
  <2>5. IsFiniteSet({f, n}) /\ Cardinality({f, n}) = Cardinality(S) + 1
    BY <2>3, <2>4
  <2>6. Cardinality(S) = 1
    BY <2>1 DEF S
  <2> QED
    BY <2>5, <2>6
<1>4. Cardinality({f, n}) <= Cardinality(sizes[s])
  BY <1>2, FS_Subset
<1>5. Cardinality(sizes[s]) \in Nat
  BY <1>2, FS_CardinalityType
<1> QED
  BY <1>3, <1>4, <1>5 DEF more_than_one_size

(* After a scan every file that was left alone, could be read and shares   *)
(* its size with another entry is hashed, in whatever order files were     *)
(* entered, opened and read and archives decoded, unless the readahead of  *)
(* pass 3 has discarded it behind the error of a file that could not be    *)
(* opened, of which there is another one for each file lost.               *)
THEOREM CandidatesAreHashed == Spec => []CandidatesHashed
<1>1. IInv /\ SizesInv /\ ScanInv /\ ErrorInv => CandidatesHashed
  <2> SUFFICES ASSUME IInv, SizesInv, ScanInv, ErrorInv, phase = "done", NEW f \in Files,
                      Undisturbed(f), lost[f] = None,
                      NEW n \in sizes[SizeOf[disk[f].data]], n # f,
                      SizeOf[disk[f].data] \in ScanMin..ScanMax
               PROVE  f \in hashes[disk[f].data]
    BY DEF CandidatesHashed, ErrorInv
  <2>1. ~panicked
    BY DEF ScanInv, PassInv
  <2>2. Entered(f) /\ ~Unhashed(f)
    BY <2>1 DEF ScanInv, AloneInv, Alone, PassInv
  <2>3. tree[f].size = SizeOf[disk[f].data] /\ tree[f].size \in SizeValues
    BY <2>2, RecordedSize DEF Entered, Undisturbed
  <2>4. more_than_one_size(tree[f].size)
    BY <2>2, <2>3, TwoEntries DEF Entered
  <2>5. tree[f].hash # None
    BY <2>2, <2>3, <2>4 DEF Unhashed, Entered
  <2>6. tree[f].hash = disk[f].data
    BY <2>2, <2>5 DEF Entered, Undisturbed, IInv, HashFresh, FreshIn
  <2> QED
    BY <2>2, <2>5, <2>6 DEF Entered
<1> QED
  BY <1>1, ScanInvariance, PTL
=============================================================================
