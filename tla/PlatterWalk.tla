---------------------------- MODULE PlatterWalk -----------------------------
(***************************************************************************)
(* ToScan (platter-walk/src/lib.rs), the walk through the directories in   *)
(* the order of their places on the disk.  next() hands out the files it   *)
(* finds in batches sorted by the place of their contents.                 *)
(*                                                                         *)
(* next() is cut into the rounds of its loop, since other programs change  *)
(* directories between them.  A directory that is being read has a buffer  *)
(* of entries; an entry that is deleted while it is in there may still     *)
(* come out, an entry that is created then may or may not get in.          *)
(***************************************************************************)
EXTENDS Naturals, Sequences, FiniteSets, SequencesExt, FiniteSetsExt

CONSTANTS
  Names,         \* names of directory entries
  Dirs, Files, Links,  \* paths (sequences of names) by their type
  DirPos,        \* DirPos[d]: physical offset of the first extent of d, or None
  FilePos,       \* FilePos[f]: of file f
  Ino,           \* Ino[f]: inode number of file f
  ExtentSum,     \* ExtentSum[d]: bytes of the extents of directory d
  Changing,      \* paths that may appear or disappear during the walk
  RootLists,     \* the sequences of roots to walk
  BatchSize,     \* batch_size
  Limit,         \* LIMIT of prefetch()
  CapMax,        \* the largest prefetch_cap
  Mounted,       \* whether mountpoints is not empty (--dir-prefetch)
  MaxErrors,     \* bound: no more errors of system calls when so many paths are lost
  None

Paths == Dirs \cup Files \cup Links

ASSUME ConstantsAssumption ==
  /\ Paths \subseteq Seq(Names)
  /\ RootLists \subseteq Seq(Dirs \cup Files)
  /\ DirPos \in [Dirs -> Nat \cup {None}]
  /\ FilePos \in [Files -> Nat]
  /\ Ino \in [Files -> Nat]
  /\ ExtentSum \in [Dirs -> Nat]
  /\ Changing \subseteq Paths
  /\ BatchSize \in Nat \ {0}
  /\ Limit \in Nat /\ CapMax \in Nat \ {0, 1}
  /\ Mounted \in BOOLEAN
  /\ MaxErrors \in Nat
  /\ None \notin [path : Dirs, rest : SUBSET Paths]

(* A path is of one type, what lies in something lies in a directory, and  *)
(* "/" is a directory that stays.                                          *)
ASSUME TypesAssumption ==
  /\ Dirs \cap Files = {} /\ Dirs \cap Links = {} /\ Files \cap Links = {}
  /\ \A p \in Paths : Len(p) > 1 => Front(p) \in Dirs
  /\ <<>> \notin Files \cup Links \cup Changing

VARIABLES
  roots,           \* the roots of this walk
  disk,            \* the paths that exist
  touched,         \* the paths that have appeared or disappeared
  phy_sorted,      \* directories to visit: a set of [pos, path], one per pos
  unordered,       \* directories without a place or with one that is taken
  cursor,
  current_dir,     \* the directory that is being read and what is left of its
                   \* entries, or None
  inode_ordered,   \* files for the next batch
  phy_sorted_leaves,  \* the batch
  phase,
  prefetched,
  prefetch_cap,
  next,            \* "idle", "running" while next() runs, or its answer: "ok",
                   \* "err", "none"
  lost             \* the paths lost to an error

walk == <<phy_sorted, unordered, cursor, current_dir, inode_ordered, phy_sorted_leaves, phase,
          prefetched, prefetch_cap>>
fs == <<disk, touched>>
walkVars == <<roots, fs, walk, next, lost>>

ChildrenOf(d) == {p \in Paths : p # <<>> /\ Front(p) = d}

(* Mutant of Add: the one who had the place is forgotten.                  *)
AddForget(d, pos) ==
  IF pos = None
  THEN /\ unordered' = Append(unordered, d)
       /\ UNCHANGED phy_sorted
  ELSE /\ phy_sorted' = {e \in phy_sorted : e.pos # pos} \cup {[pos |-> pos, path |-> d]}
       /\ UNCHANGED unordered

(* add(): who comes to a place that is taken takes it.                     *)
Add(d, pos) ==
  IF pos = None
  THEN /\ unordered' = Append(unordered, d)
       /\ UNCHANGED phy_sorted
  ELSE /\ phy_sorted' = {e \in phy_sorted : e.pos # pos} \cup {[pos |-> pos, path |-> d]}
       /\ unordered' = unordered \o SetToSeq({e.path : e \in {e \in phy_sorted : e.pos = pos}})

(* ToScan::new; add_root adds the roots later, without a place.            *)
WalkInit(list) ==
  /\ roots = list
  /\ \E there \in SUBSET Changing : disk = (Paths \ Changing) \cup there
  /\ \A p \in disk : Len(p) > 1 => Front(p) \in disk
  /\ touched = {}
  /\ phy_sorted = {}
  /\ unordered = <<>>
  /\ cursor = 0
  /\ current_dir = None
  /\ inode_ordered = <<>>
  /\ phy_sorted_leaves = <<>>
  /\ phase = "DirWalk"
  /\ prefetched = {}
  /\ prefetch_cap = 0
  /\ next = "idle"
  /\ lost = {}

is_empty == phy_sorted = {} /\ unordered = <<>> /\ current_dir = None

-----------------------------------------------------------------------------
(* prefetch(): as many of the next directories as fit into the window.     *)

ByPos(S) == [k \in 1..Cardinality(S) |->
               (CHOOSE e \in S : Cardinality({f \in S : f.pos < e.pos}) = k - 1).path]

(* unordered_iter, ordered_iter_front and ordered_iter_tail                *)
Pending == unordered \o ByPos({e \in phy_sorted : e.pos >= cursor})
                     \o ByPos({e \in phy_sorted : e.pos < cursor})

SatSub(x, y) == IF x > y THEN x - y ELSE 0

Sum(S) == MapThenSumSet(LAMBDA d : ExtentSum[d], S)

Window(acc, d) ==
  IF acc.remaining = 0 \/ Cardinality(acc.set) > prefetch_cap + 1 \/ d \in acc.set THEN acc
  ELSE [remaining |-> SatSub(acc.remaining, ExtentSum[d]), set |-> acc.set \cup {d}]

Prefetch ==
  LET remaining == SatSub(Limit, Sum(prefetched))
      dirs == Pending
      taken[k \in 0..Len(dirs)] ==
        IF k = 0 THEN [remaining |-> remaining, set |-> prefetched]
        ELSE Window(taken[k - 1], dirs[k])
  IN  IF ~Mounted \/ remaining < Limit \div 2 THEN prefetched ELSE taken[Len(dirs)].set

(* remove_prefetch: the window grows while the guess was right.            *)
RemovePrefetch(d, fetched) ==
  /\ prefetched' = IF d \in fetched THEN fetched \ {d} ELSE {}
  /\ prefetch_cap' = IF d \in fetched THEN Min({CapMax, prefetch_cap * 2 + 1}) ELSE 2

-----------------------------------------------------------------------------
(* next()                                                                  *)

CallNext ==
  /\ next = "idle"
  /\ next' = "running"
  /\ UNCHANGED <<roots, fs, walk, lost>>

Running == next = "running"
InLoop == Running /\ phase = "DirWalk" /\ ~is_empty

(* read_dir of the directory that get_next() has found.                    *)
ReadDir(d, fetched) ==
  /\ RemovePrefetch(d, fetched)
  /\ \/ /\ d \in disk
        /\ current_dir' = [path |-> d, rest |-> ChildrenOf(d) \cap disk]
        /\ UNCHANGED <<next, lost>>
     \/ /\ d \notin disk \/ Cardinality(lost) < MaxErrors
        /\ next' = "err"
        /\ lost' = lost \cup {d}
        /\ UNCHANGED current_dir

(* get_next() prefers the directories without a place, ...                 *)
TakeUnordered ==
  /\ InLoop
  /\ current_dir = None
  /\ unordered # <<>>
  /\ unordered' = Tail(unordered)
  /\ \E fetched \in {Prefetch} : ReadDir(Head(unordered), fetched)
  /\ UNCHANGED <<roots, fs, phy_sorted, cursor, inode_ordered, phy_sorted_leaves, phase>>

Ahead == {e \in phy_sorted : e.pos >= cursor}

(* ... takes the next place behind the cursor, ...                         *)
TakeOrdered ==
  /\ InLoop
  /\ current_dir = None
  /\ unordered = <<>>
  /\ Ahead # {}
  /\ \E e \in Ahead, fetched \in {Prefetch} :
       /\ \A f \in Ahead : e.pos <= f.pos
       /\ cursor' = e.pos
       /\ phy_sorted' = phy_sorted \ {e}
       /\ ReadDir(e.path, fetched)
  /\ UNCHANGED <<roots, fs, unordered, inode_ordered, phy_sorted_leaves, phase>>

(* Mutant of Rewind: the cursor stays behind the last directory.           *)
RewindNot ==
  /\ InLoop
  /\ current_dir = None
  /\ unordered = <<>>
  /\ Ahead = {}
  /\ UNCHANGED walkVars

(* ... or starts again from the beginning of the disk.                     *)
Rewind ==
  /\ InLoop
  /\ current_dir = None
  /\ unordered = <<>>
  /\ Ahead = {}
  /\ cursor' = 0
  /\ prefetched' = Prefetch
  /\ UNCHANGED <<roots, fs, phy_sorted, unordered, current_dir, inode_ordered,
                 phy_sorted_leaves, phase, prefetch_cap, next, lost>>

Reading == InLoop /\ current_dir # None

(* The iterator of the directory is at its end.                            *)
EndOfDir ==
  /\ Reading
  /\ current_dir.rest = {}
  /\ current_dir' = None
  /\ UNCHANGED <<roots, fs, phy_sorted, unordered, cursor, inode_ordered, phy_sorted_leaves,
                 phase, prefetched, prefetch_cap, next, lost>>

Took(p) ==
  /\ Reading
  /\ p \in current_dir.rest
  /\ current_dir' = [current_dir EXCEPT !.rest = @ \ {p}]

(* The listing fails: the iterator of the standard library is at its end   *)
(* after an error, so that what is left of the directory is lost.          *)
ReadError ==
  /\ Reading
  /\ Cardinality(lost) < MaxErrors
  /\ lost' = lost \cup current_dir.rest
  /\ current_dir' = None
  /\ next' = "err"
  /\ UNCHANGED <<roots, fs, phy_sorted, unordered, cursor, inode_ordered, phy_sorted_leaves,
                 phase, prefetched, prefetch_cap>>

(* The type of an entry cannot be read: the entry is lost.                 *)
TypeError(p) ==
  /\ Took(p)
  /\ Cardinality(lost) < MaxErrors
  /\ lost' = lost \cup {p}
  /\ next' = "err"
  /\ UNCHANGED <<roots, fs, phy_sorted, unordered, cursor, inode_ordered, phy_sorted_leaves,
                 phase, prefetched, prefetch_cap>>

(* An entry that is gone by now may not come out.                          *)
EntrySkipped(p) ==
  /\ Took(p)
  /\ p \notin disk
  /\ UNCHANGED <<roots, fs, phy_sorted, unordered, cursor, inode_ordered, phy_sorted_leaves,
                 phase, prefetched, prefetch_cap, next, lost>>

(* A directory is added at its place, if its extents can be had; the       *)
(* filter of pass 1 wants files only.                                      *)
EntryDir(p) ==
  /\ Took(p)
  /\ p \in Dirs
  /\ \E pos \in {DirPos[p]} \cup (IF p \in disk THEN {} ELSE {None}) : Add(p, pos)
  /\ UNCHANGED <<roots, fs, cursor, inode_ordered, phy_sorted_leaves, phase, prefetched,
                 prefetch_cap, next, lost>>

EntryLink(p) ==
  /\ Took(p)
  /\ p \in Links
  /\ UNCHANGED <<roots, fs, phy_sorted, unordered, cursor, inode_ordered, phy_sorted_leaves,
                 phase, prefetched, prefetch_cap, next, lost>>

(* The files of a full batch are sorted by their inodes (in reverse, since *)
(* they are taken from the end).                                           *)
ByIno(s) == [k \in 1..Len(s) |->
               s[CHOOSE i \in DOMAIN s :
                   Cardinality({j \in DOMAIN s : Ino[s[j]] > Ino[s[i]]
                                                 \/ (Ino[s[j]] = Ino[s[i]] /\ j < i)}) = k - 1]]

(* Mutant of EntryFile: the batch is not closed.                           *)
EntryFileOn(p) ==
  /\ Took(p)
  /\ p \in Files
  /\ inode_ordered' = Append(inode_ordered, p)
  /\ UNCHANGED <<roots, fs, phy_sorted, unordered, cursor, phy_sorted_leaves, phase, prefetched,
                 prefetch_cap, next, lost>>

EntryFile(p) ==
  /\ Took(p)
  /\ p \in Files
  /\ LET files == Append(inode_ordered, p)
     IN  IF Len(files) >= BatchSize
         THEN inode_ordered' = ByIno(files) /\ phase' = "InodePass"
         ELSE inode_ordered' = files /\ UNCHANGED phase
  /\ UNCHANGED <<roots, fs, phy_sorted, unordered, cursor, phy_sorted_leaves, prefetched,
                 prefetch_cap, next, lost>>

(* A stable sort by offset.                                                *)
ByOffset(s) == [k \in 1..Len(s) |->
                  s[CHOOSE i \in DOMAIN s :
                      Cardinality({j \in DOMAIN s : s[j].pos < s[i].pos
                                                    \/ (s[j].pos = s[i].pos /\ j < i)}) = k - 1]]

(* file_meta_and_extents: where it fails the file has no metadata and the  *)
(* offset is 0.                                                            *)
Leaf(f, ok) == [path |-> f, pos |-> IF ok THEN FilePos[f] ELSE 0, metadata |-> ok]

(* The batch is made when it is full, or with what is left at the end, and *)
(* sorted by the place of the contents.                                    *)
InodePass ==
  /\ Running
  /\ phase = "InodePass" \/ (is_empty /\ inode_ordered # <<>>)
  /\ \E ok \in SUBSET ToSet(inode_ordered) :
       /\ ok \subseteq disk
       /\ phy_sorted_leaves' = ByOffset([k \in DOMAIN inode_ordered |->
                                 LET f == Reverse(inode_ordered)[k] IN Leaf(f, f \in ok)])
  /\ inode_ordered' = <<>>
  /\ phase' = "ContentPass"
  /\ UNCHANGED <<roots, fs, phy_sorted, unordered, cursor, current_dir, prefetched, prefetch_cap,
                 next, lost>>

(* It is handed out.                                                       *)
ContentPass ==
  /\ Running
  /\ phase = "ContentPass"
  /\ phase' = "DirWalk"
  /\ next' = "ok"
  /\ UNCHANGED <<roots, fs, phy_sorted, unordered, cursor, current_dir, inode_ordered,
                 phy_sorted_leaves, prefetched, prefetch_cap, lost>>

NothingLeft ==
  /\ Running
  /\ phase = "DirWalk"
  /\ is_empty
  /\ inode_ordered = <<>>
  /\ next' = "none"
  /\ UNCHANGED <<roots, fs, walk, lost>>

WalkStep ==
  \/ TakeUnordered
  \/ TakeOrdered
  \/ Rewind
  \/ EndOfDir
  \/ ReadError
  \/ \E p \in Paths :
       TypeError(p) \/ EntrySkipped(p) \/ EntryDir(p) \/ EntryLink(p) \/ EntryFile(p)
  \/ InodePass
  \/ ContentPass
  \/ NothingLeft

-----------------------------------------------------------------------------
(* Other programs.                                                         *)

Appear(p) ==
  /\ p \in Changing \ (disk \cup touched)
  /\ Len(p) > 1 => Front(p) \in disk
  /\ disk' = disk \cup {p}
  /\ touched' = touched \cup {p}
  /\ \/ UNCHANGED current_dir
     \/ /\ current_dir # None /\ current_dir.path = Front(p)
        /\ current_dir' = [current_dir EXCEPT !.rest = @ \cup {p}]
  /\ UNCHANGED <<roots, phy_sorted, unordered, cursor, inode_ordered, phy_sorted_leaves, phase,
                 prefetched, prefetch_cap, next, lost>>

Disappear(p) ==
  /\ p \in disk \cap Changing
  /\ \A q \in disk : ~IsStrictPrefix(p, q)
  /\ disk' = disk \ {p}
  /\ touched' = touched \cup {p}
  /\ UNCHANGED <<roots, walk, next, lost>>

Environment == \E p \in Changing : Appear(p) \/ Disappear(p)
=============================================================================
