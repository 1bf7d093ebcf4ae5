------------------------------- MODULE Pass1 --------------------------------
(***************************************************************************)
(* Pass 1 (Phase::Size of driver/platterwalker.rs): the walk through the   *)
(* roots and the tree of entries together.  Every file of a batch gets an  *)
(* entry (size_file) and a place in dest, the list that passes 2 and 3 go  *)
(* through.  What validate makes of the entry is the matter of ScanCache.  *)
(***************************************************************************)
EXTENDS PlatterWalk, VfsTree

CONSTANT Caches    \* the sequences of paths an earlier run may have left

ASSUME CachesAssumption == Caches \subseteq Seq(Seq(Names))

VARIABLES
  vfs,          \* State::tree
  dest,         \* a sequence of [pos, id]
  left,         \* the roots that are still to be added
  pc            \* "roots", "walk", "done", or "failed" for a pass that gave up

vars == <<walkVars, vfs, dest, left, pc>>

Init ==
  /\ \E list \in RootLists : WalkInit(list)
  /\ \E paths \in Caches : vfs = Loaded(paths)
  /\ dest = <<>>
  /\ left = roots
  /\ pc = "roots"

(* Mutant of SizeFile: the entry is not marked.                            *)
SizeFileUnmarked(leaf) ==
  \E e \in {cid_and_create(vfs, leaf.path)} :
    /\ vfs' = e.vfs
    /\ dest' = Append(dest, [pos |-> leaf.pos, id |-> e.id])

(* size_file                                                               *)
SizeFile(leaf) ==
  \E e \in {cid_and_create(vfs, leaf.path)} :
    /\ vfs' = [e.vfs EXCEPT ![e.id].is_file = TRUE]
    /\ dest' = Append(dest, [pos |-> leaf.pos, id |-> e.id])

(* A root that is a directory is left to the walk, ...                     *)
AddRootDir ==
  /\ pc = "roots"
  /\ left # <<>> /\ Head(left) \in Dirs \cap disk
  /\ Add(Head(left), None)
  /\ left' = Tail(left)
  /\ UNCHANGED <<roots, fs, cursor, current_dir, inode_ordered, phy_sorted_leaves, phase,
                 prefetched, prefetch_cap, next, lost, vfs, dest, pc>>

(* ... and one that is a file is taken at once.                            *)
AddRootFile ==
  /\ pc = "roots"
  /\ left # <<>> /\ Head(left) \in Files \cap disk
  /\ SizeFile(Leaf(Head(left), TRUE))
  /\ left' = Tail(left)
  /\ UNCHANGED <<walkVars, pc>>

(* is_dir() and is_file() answer no where metadata cannot be had: the root *)
(* is passed over.                                                         *)
SkipRoot ==
  /\ pc = "roots"
  /\ left # <<>>
  /\ Head(left) \in disk => Cardinality(lost) < MaxErrors
  /\ lost' = lost \cup {Head(left)}
  /\ left' = Tail(left)
  /\ UNCHANGED <<roots, fs, walk, next, vfs, dest, pc>>

(* add_root, the extents or the metadata of a root fail after that: the    *)
(* pass is given up, with an error or a panic.                             *)
RootFails ==
  /\ pc = "roots"
  /\ left # <<>>
  /\ Head(left) \in disk => Cardinality(lost) < MaxErrors
  /\ pc' = "failed"
  /\ UNCHANGED <<walkVars, vfs, dest, left>>

StartWalk ==
  /\ pc = "roots"
  /\ left = <<>>
  /\ pc' = "walk"
  /\ UNCHANGED <<walkVars, vfs, dest, left>>

(* The next file of a batch.                                               *)
NextLeaf ==
  /\ pc = "walk"
  /\ next = "ok"
  /\ phy_sorted_leaves' = Tail(phy_sorted_leaves)
  /\ next' = IF Tail(phy_sorted_leaves) = <<>> THEN "idle" ELSE "ok"
  /\ UNCHANGED <<roots, fs, phy_sorted, unordered, cursor, current_dir, inode_ordered, phase,
                 prefetched, prefetch_cap, left, pc>>

(* A file without metadata is asked for it once more.                      *)
ProcessFile ==
  /\ NextLeaf
  /\ LET leaf == Head(phy_sorted_leaves)
     IN  (leaf.metadata \/ leaf.path \in disk) /\ SizeFile(leaf)
  /\ UNCHANGED lost

(* If that fails too it is left out.                                       *)
SkipFile ==
  /\ NextLeaf
  /\ LET leaf == Head(phy_sorted_leaves)
     IN  /\ ~leaf.metadata
         /\ leaf.path \in disk => Cardinality(lost) < MaxErrors
         /\ lost' = lost \cup {leaf.path}
  /\ UNCHANGED <<vfs, dest>>

(* soft_error!: an error is printed and the walk goes on.                  *)
ProcessError ==
  /\ pc = "walk"
  /\ next = "err"
  /\ next' = "idle"
  /\ UNCHANGED <<roots, fs, walk, lost, vfs, dest, left, pc>>

(* The list is sorted by the place of the contents.                        *)
Finish ==
  /\ pc = "walk"
  /\ next = "none"
  /\ dest' = ByOffset(dest)
  /\ pc' = "done"
  /\ UNCHANGED <<walkVars, vfs, left>>

Program ==
  \/ AddRootDir
  \/ AddRootFile
  \/ SkipRoot
  \/ RootFails
  \/ StartWalk
  \/ pc = "walk" /\ (CallNext \/ WalkStep) /\ UNCHANGED <<vfs, dest, left, pc>>
  \/ ProcessFile
  \/ SkipFile
  \/ ProcessError
  \/ Finish

Ended == pc \in {"done", "failed"}

Next ==
  \/ Program
  \/ ~Ended /\ Environment /\ UNCHANGED <<vfs, dest, left, pc>>
  \/ Ended /\ UNCHANGED vars

(* The thread of the walk goes on and its system calls return.             *)
Spec == Init /\ [][Next]_vars /\ WF_vars(Program)

-----------------------------------------------------------------------------
(* Properties.                                                             *)

(* The queues of the walk hold paths of the right kind, the batches and    *)
(* dest refer to files.                                                    *)
TypeOK ==
  /\ \A e \in phy_sorted : e.path \in Dirs /\ e.pos = DirPos[e.path]
  /\ ToSet(unordered) \subseteq Dirs
  /\ cursor \in Nat
  /\ current_dir # None => current_dir.path \in Dirs /\ current_dir.rest \subseteq Paths
  /\ ToSet(inode_ordered) \subseteq Files
  /\ phase \in {"DirWalk", "InodePass", "ContentPass"}
  /\ prefetched \subseteq Dirs
  /\ prefetch_cap \in 0..CapMax
  /\ next \in {"idle", "running", "ok", "err", "none"}
  /\ \A k \in DOMAIN dest : dest[k].id \in DOMAIN vfs /\ vfs[dest[k].id].is_file
  /\ pc \in {"roots", "walk", "done", "failed"}

Times(f) == Cardinality({k \in DOMAIN dest : vfs[dest[k].id].path = f})
Covering(f) == Cardinality({k \in DOMAIN roots : IsPrefix(roots[k], f)})

(* A file that was there all the time and met no error, nor did a          *)
(* directory above it: neither was lost itself, nor was it among the       *)
(* entries that were still to come when the listing of its directory       *)
(* failed.                                                                 *)
Undisturbed(f) == f \in disk \ touched /\ \A p \in lost : ~IsPrefix(p, f)

(* The walk lists a file at most once for each root it lies under, however *)
(* directories appear, disappear, or share a place on the disk, and a file *)
(* that was not disturbed exactly once; symbolic links are not listed.     *)
(* Several roots above a file list it several times.  An error loses what  *)
(* it is about, and one of a listing the rest of that directory.           *)
ListedOncePerRoot ==
  /\ \A f \in Files : Times(f) <= Covering(f)
  /\ pc = "done" => \A f \in Files : Undisturbed(f) => Times(f) = Covering(f)
  /\ \A l \in Links : Times(l) = 0

(* However often a file is listed, and whatever the cache knew, it has one *)
(* entry, below its directories; passes 2 and 3 see the same id.           *)
OneEntryPerPath ==
  /\ WellFormed(vfs)
  /\ \A j, k \in DOMAIN dest : vfs[dest[j].id].path = vfs[dest[k].id].path => dest[j].id = dest[k].id

(* A batch holds between one and batch_size files in the order of their    *)
(* offsets: it bounds the memory of the walk and keeps the reads forward.  *)
BatchBounded ==
  /\ Len(inode_ordered) <= BatchSize
  /\ next = "ok" =>
       /\ Len(phy_sorted_leaves) \in 1..BatchSize
       /\ \A j, k \in DOMAIN phy_sorted_leaves :
            j < k => phy_sorted_leaves[j].pos <= phy_sorted_leaves[k].pos

(* What counts as prefetched is still to be visited, so that its bytes are *)
(* taken from the window again, and the window holds no more than the cap  *)
(* that its success has earned (and the slack of two in prefetch()).       *)
WindowPending ==
  /\ prefetched \subseteq ToSet(unordered) \cup {e.path : e \in phy_sorted}
  /\ Cardinality(prefetched) <= prefetch_cap + 2

(* Both at once: what the walk holds in memory and asks of the kernel      *)
(* stays bounded (ToScan::next, prefetch, remove_prefetch).                *)
Bounded == BatchBounded /\ WindowPending

(* The walk ends: with the list, or given up for a root.                   *)
WalkEnds == <>Ended

-----------------------------------------------------------------------------
(* The inductive invariant of TypeOK, OneEntryPerPath and Bounded.         *)

Leaves == [path : Files, pos : Nat, metadata : BOOLEAN]

(* The queues of the walk.  A place on the disk has one directory, so that *)
(* Add moves at most one to `unordered`.                                   *)
QueueInv ==
  /\ IsFiniteSet(phy_sorted) /\ phy_sorted \subseteq [pos : Nat, path : Dirs]
  /\ \A e \in phy_sorted : e.pos = DirPos[e.path]
  /\ \A e, f \in phy_sorted : e.pos = f.pos => e = f
  /\ unordered \in Seq(Dirs)
  /\ cursor \in Nat
  /\ current_dir = None \/ current_dir \in [path : Dirs, rest : SUBSET Paths]
  /\ inode_ordered \in Seq(Files)
  /\ phy_sorted_leaves \in Seq(Leaves)
  /\ left \in Seq(Dirs \cup Files)
  /\ phase \in {"DirWalk", "InodePass", "ContentPass"}
  /\ next \in {"idle", "running", "ok", "err", "none"}
  /\ pc \in {"roots", "walk", "done", "failed"}

(* A batch that is not full is open, and one that is made is in order      *)
(* until its last file has been handed out; it is made and handed out by   *)
(* the same call.                                                          *)
BatchInv ==
  /\ phase = "ContentPass" => next = "running"
  /\ Len(inode_ordered) <= BatchSize
  /\ phase # "InodePass" => Len(inode_ordered) < BatchSize
  /\ phase = "InodePass" => inode_ordered # <<>>
  /\ (phase = "ContentPass" \/ next = "ok") =>
       /\ Len(phy_sorted_leaves) \in 1..BatchSize
       /\ \A j, k \in DOMAIN phy_sorted_leaves :
            j < k => phy_sorted_leaves[j].pos <= phy_sorted_leaves[k].pos

PrefetchInv ==
  /\ prefetch_cap \in 0..CapMax
  /\ IsFiniteSet(prefetched)
  /\ WindowPending

TreeInv ==
  /\ Grown(vfs, Names)
  /\ dest \in Seq([pos : Nat, id : Nat])
  /\ \A k \in DOMAIN dest : dest[k].id \in DOMAIN vfs /\ vfs[dest[k].id].is_file

IInv == QueueInv /\ BatchInv /\ PrefetchInv /\ TreeInv

-----------------------------------------------------------------------------
(* The inductive invariant of ListedOncePerRoot.                           *)

(* What `next` says of the queues, and when they are empty.                *)
EndInv ==
  /\ pc = "roots" => next = "idle"
  /\ pc \in {"walk", "done"} => left = <<>>
  /\ phase = "ContentPass" => inode_ordered = <<>>
  /\ phase # "ContentPass" /\ next # "ok" => phy_sorted_leaves = <<>>
  /\ next = "none" => is_empty /\ inode_ordered = <<>>
  /\ pc = "done" => next = "none"

(* The directory that is read yields entries of its own, which exist or    *)
(* have existed.                                                           *)
DiskInv ==
  /\ roots \in Seq(Dirs \cup Files)
  /\ disk \subseteq Paths
  /\ \A p \in disk : Len(p) > 1 => Front(p) \in disk
  /\ current_dir # None =>
       current_dir.rest \subseteq ChildrenOf(current_dir.path) \cap (disk \cup touched)

(* How often s leads to the file f.                                        *)
Ways(s, f) == Cardinality({k \in DOMAIN s : IsPrefix(s[k], f)})

LeafPaths == [k \in DOMAIN phy_sorted_leaves |-> phy_sorted_leaves[k].path]
DestPaths == [k \in DOMAIN dest |-> vfs[dest[k].id].path]

Placed(f) == Cardinality({e \in phy_sorted : IsPrefix(e.path, f)})

(* What the directory that is read may still yield: an entry that has not  *)
(* been there yet may appear.                                              *)
Yield == current_dir.rest \cup (ChildrenOf(current_dir.path) \ (disk \cup touched))
InDir(f) == IF current_dir # None /\ \E c \in Yield : IsPrefix(c, f) THEN 1 ELSE 0

(* How often f has been listed or may still be, by whatever the walk holds *)
(* that leads to it.                                                       *)
Listings(f) ==
  Ways(left, f) + Ways(unordered, f) + Placed(f) + InDir(f)
    + Ways(inode_ordered, f) + Ways(LeafPaths, f) + Ways(DestPaths, f)

ListInv ==
  /\ \A k \in DOMAIN dest : vfs[dest[k].id].path \in Files
  /\ \A f \in Files :
       Listings(f) <= Covering(f) /\ (Undisturbed(f) => Listings(f) = Covering(f))

ListedInv == IInv /\ EndInv /\ DiskInv /\ ListInv
=============================================================================
