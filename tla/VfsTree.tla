------------------------------ MODULE VfsTree -------------------------------
(***************************************************************************)
(* The tree of entries (vfs/mod.rs).  It is a sequence of entries in which *)
(* an entry is found by its place (VfsId) and refers to its children by    *)
(* theirs.  A path is the sequence of its components, the empty one for    *)
(* VfsId::ROOT.                                                            *)
(***************************************************************************)
EXTENDS Naturals, Sequences, FiniteSets, SequencesExt

ROOT == 1

NewEntry(path) == [path |-> path, childs |-> <<>>, is_file |-> FALSE, is_dir |-> FALSE]

(* Vfs::new                                                                *)
NewVfs == <<NewEntry(<<>>)>>

NoEntry == 0

(* child_of: the first child whose last component is `c`.                  *)
child_of(vfs, id, c) ==
  LET childs == vfs[id].childs
      named == {k \in DOMAIN childs : Last(vfs[childs[k]].path) = c}
  IN  IF named = {} THEN NoEntry
      ELSE childs[CHOOSE k \in named : \A j \in named : k <= j]

(* cid: goes down the path from the root; `at` is the entry it is at, or   *)
(* nothing if a component was missing.                                     *)
cid(vfs, path) ==
  LET at[k \in 0..Len(path)] ==
        IF k = 0 THEN {ROOT} ELSE {child_of(vfs, id, path[k]) : id \in at[k - 1]} \ {NoEntry}
  IN  IF at[Len(path)] = {} THEN NoEntry ELSE CHOOSE id \in at[Len(path)] : TRUE

Prefix(path, k) == SubSeq(path, 1, k)

(* How much of a path has entries.                                         *)
Known(vfs, path) ==
  CHOOSE k \in 0..Len(path) : /\ cid(vfs, Prefix(path, k)) # NoEntry
                              /\ k < Len(path) => cid(vfs, Prefix(path, k + 1)) = NoEntry

(* Mutant of Along: the path is looked up from where its last component is *)
(* known, as if entries were found by their names alone.                   *)
AlongName(vfs, path, k) ==
  LET named == {id \in DOMAIN vfs : k > 0 /\ id # ROOT /\ Last(vfs[id].path) = path[k]}
  IN  IF k <= Known(vfs, path) THEN cid(vfs, Prefix(path, k))
      ELSE IF named # {} THEN CHOOSE id \in named : TRUE
      ELSE Len(vfs) + k - Known(vfs, path)

(* The entry of the first k components, which may have to be made.         *)
Along(vfs, path, k) ==
  LET id == cid(vfs, Prefix(path, k))
  IN  IF id # NoEntry THEN id ELSE Len(vfs) + k - Known(vfs, path)

(* cid_and_create: goes down the path, makes each entry it comes through a *)
(* directory, and appends the entries that are missing, each as the last   *)
(* child of the one before.                                                *)
cid_and_create(vfs, path) ==
  LET known == Known(vfs, path)
      all == vfs \o [k \in 1..(Len(path) - known) |-> NewEntry(Prefix(path, known + k))]
      visited == {Along(vfs, path, k) : k \in 0..(Len(path) - 1)}
      child(id) == Along(vfs, path, 1 + CHOOSE k \in 0..(Len(path) - 1) : Along(vfs, path, k) = id)
  IN  [vfs |-> [id \in DOMAIN all |->
                  IF id \notin visited THEN all[id]
                  ELSE [all[id] EXCEPT !.is_dir = TRUE,
                                       !.childs = IF child(id) > Len(vfs)
                                                  THEN Append(@, child(id)) ELSE @]],
       id |-> Along(vfs, path, Len(path))]

(* What a run finds in the tree when it has loaded the cache: the entries  *)
(* of `paths`, none of which is known to exist.                            *)
Loaded(paths) ==
  LET made[k \in 0..Len(paths)] ==
        IF k = 0 THEN NewVfs ELSE cid_and_create(made[k - 1], paths[k]).vfs
      vfs == made[Len(paths)]
  IN  [id \in DOMAIN vfs |-> [vfs[id] EXCEPT !.is_dir = FALSE]]

-----------------------------------------------------------------------------
(* What the tree is: one entry for each path and for everything above it,  *)
(* each found by its path, each but the root the child of one entry, its   *)
(* parent, which is a directory if anything in it exists.                  *)
WellFormed(vfs) ==
  /\ vfs[ROOT].path = <<>>
  /\ \A id \in DOMAIN vfs : cid(vfs, vfs[id].path) = id
  /\ \A id, c \in DOMAIN vfs :
       (\E k \in DOMAIN vfs[id].childs : vfs[id].childs[k] = c)
         <=> (c # ROOT /\ vfs[id].path = Front(vfs[c].path))
  /\ \A id \in DOMAIN vfs : IsInjective(vfs[id].childs)
  /\ \A id \in DOMAIN vfs : (vfs[id].is_file \/ vfs[id].is_dir) =>
       \A above \in DOMAIN vfs : IsStrictPrefix(vfs[above].path, vfs[id].path) => vfs[above].is_dir

-----------------------------------------------------------------------------
(* The inductive invariant of WellFormed.  It says of parents and children *)
(* what WellFormed says of looking a path up: no two entries have a path,  *)
(* and every entry but the root is listed once, by the one above it.       *)

Entries(Names) ==
  [path : Seq(Names), childs : Seq(Nat), is_file : BOOLEAN, is_dir : BOOLEAN]

Grown(vfs, Names) ==
  /\ vfs \in Seq(Entries(Names)) /\ vfs # <<>>
  /\ vfs[ROOT].path = <<>>
  /\ \A i, j \in DOMAIN vfs : vfs[i].path = vfs[j].path => i = j
  /\ \A c \in DOMAIN vfs \ {ROOT} : \E id \in DOMAIN vfs : \E k \in DOMAIN vfs[id].childs :
       vfs[id].childs[k] = c
  /\ \A id \in DOMAIN vfs : \A k \in DOMAIN vfs[id].childs :
       /\ vfs[id].childs[k] \in DOMAIN vfs \ {ROOT}
       /\ vfs[id].path = Front(vfs[vfs[id].childs[k]].path)
  /\ \A id \in DOMAIN vfs : IsInjective(vfs[id].childs)
  /\ \A id, above \in DOMAIN vfs :
       IsStrictPrefix(vfs[above].path, vfs[id].path) /\ (vfs[id].is_file \/ vfs[id].is_dir)
         => vfs[above].is_dir
=============================================================================
