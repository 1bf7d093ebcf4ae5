----------------------------- MODULE DirGroups ------------------------------
(***************************************************************************)
(* What main does with the tree after the passes: calculate_dir_hash gives *)
(* directories a hash made of the hashes of what they hold, find_shadowed  *)
(* marks what lies inside of duplicates, export sorts the hash groups, and *)
(* the groups, the tree or the differences of the roots are printed        *)
(* (process/mod.rs, output/).                                              *)
(*                                                                         *)
(* A hash stands for what was fed to the hasher: a set of pairs, of names  *)
(* and hashes for a directory, of the content alone for a file.  Hashing   *)
(* nothing gives the same hash in both cases.  An Option<Hash> is a        *)
(* sequence of at most one hash.                                           *)
(***************************************************************************)
EXTENDS Naturals, Sequences, FiniteSets, SequencesExt, FiniteSetsExt

CONSTANTS
  Ids,          \* entries, numbered in the order of Path
  Root,         \* VfsId::ROOT
  Path,         \* Path[id]: the names from the root down to the entry
  Roots,        \* opts.paths, the sequence of entries to scan
  Length,       \* Length[c]: size of content c
  Trees,        \* what the passes may leave: functions from entries to records
                \* of their state, their content and whether they are hashed
  ShadowRules,  \* the values of --shadow-rule
  None

Below == Ids \ {Root}
Contents == DOMAIN Length
States == {"none", "stale", "file", "dir", "archive"}

NoName == ""

ASSUME PathsAssumption ==
  /\ Ids \subseteq Nat /\ IsFiniteSet(Ids) /\ Root \in Ids
  /\ Path \in [Ids -> Seq(STRING)] /\ Path[Root] = <<>>
  /\ \A a, b \in Ids : Path[a] = Path[b] => a = b
  /\ \A id \in Below : \E p \in Ids : Path[p] = Front(Path[id]) /\ p < id
  /\ \A id \in Ids : \A k \in DOMAIN Path[id] : Path[id][k] # NoName

(* Any entry may have a hash: what the cache knows of a path stays when    *)
(* the file is gone, and when there is a directory in its place.           *)
ASSUME ConstantsAssumption ==
  /\ Roots \in Seq(Below)
  /\ Length \in [Contents -> Nat]
  /\ \A c, d \in Contents : Length[c] = 0 /\ Length[d] = 0 => c = d
  /\ \A tree \in Trees : \A id \in Below :
       /\ tree[id].state \in States /\ tree[id].hashed \in BOOLEAN
       /\ tree[id].hashed => tree[id].state # "none"
       /\ tree[id].hashed \/ tree[id].state \in {"file", "archive"} => tree[id].content \in Contents
  /\ ShadowRules \subseteq 0..3
  /\ None \notin Nat

Parent == [id \in Below |-> CHOOSE p \in Ids : Path[p] = Front(Path[id])]
Name == [id \in Below |-> Last(Path[id])]

(* The entries above, the root included.                                   *)
Above == [id \in Ids |-> {a \in Ids : IsStrictPrefix(Path[a], Path[id])}]
Under(f, id) == id \in Above[f]

VARIABLES
  state,        \* the kind of every path: "none" (not in the tree), "stale"
                \* (only in the cache), "file", "dir", "archive"
  content,      \* the content of files and archives, or what the cache knew
  file_hash,    \* the fields of VfsEntry, for every path
  dir_hash,
  dir_size,
  file_shadowed,
  dir_shadowed,
  treediff_stat,
  hashes,       \* the hash groups: a function from hashes to sets of entries
  sorted,       \* what export returns
  printed,      \* what is printed
  pc            \* the step of main, "done" or "panic"

entry == <<file_hash, dir_hash, dir_size, file_shadowed, dir_shadowed, treediff_stat>>
vars == <<state, content, entry, hashes, sorted, printed, pc>>

NoHash == <<>>

(* What the hasher returns for a file.                                     *)
HashOf(c) == <<IF Length[c] = 0 THEN {} ELSE {<<NoName, c>>}>>

is_file(id) == state[id] \in {"file", "archive"}
is_dir(id) == state[id] \in {"dir", "archive"}
Exists(id) == is_file(id) \/ is_dir(id)

(* The children in the tree, those that do not exist any more included.    *)
Childs(id) == {c \in Below : Parent[c] = id /\ state[c] # "none"}

Has(id, typ) == IF typ = "File" THEN is_file(id) ELSE is_dir(id)
Size(id, typ) == IF typ = "File" THEN Length[content[id]] ELSE dir_size[id]
Shadowed(id, typ) == IF typ = "File" THEN file_shadowed[id] ELSE dir_shadowed[id]
Order(typ) == IF typ = "Dir" THEN 1 ELSE 2

Group(groups, h) == IF h \in DOMAIN groups THEN groups[h] ELSE {}

(* Mutant of Push: entries of the other type do not count as the same path.*)
PushByType(groups, typ, of) ==
  [h \in DOMAIN groups \cup {of[id] : id \in DOMAIN of} |->
     Group(groups, h) \cup {<<typ, id>> : id \in {id \in DOMAIN of : of[id] = h}}]

(* push_to_hash_group for each entry of `of` and its hash; a path is in a  *)
(* group once, whatever its type.                                          *)
Push(groups, typ, of) ==
  [h \in DOMAIN groups \cup {of[id] : id \in DOMAIN of} |->
     Group(groups, h) \cup
       {<<typ, id>> : id \in {id \in DOMAIN of :
                                of[id] = h /\ \A e \in Group(groups, h) : e[2] # id}}]

more_than_one_hash(h) == Cardinality(Group(hashes, h)) > 1

(* What the passes leave behind: a directory holds something, since        *)
(* directories are made for the files found in them, and an archive        *)
(* without a hash is a directory only because a member was decoded.        *)
Legal(tree) ==
  \A id \in Below :
    LET e == tree[id]
        within == {c \in Below : Parent[c] = id /\ tree[c].state \in {"file", "dir", "archive"}}
    IN  /\ e.state = "none" => \A c \in Below : Parent[c] = id => tree[c].state = "none"
        /\ within # {} => e.state \in {"dir", "archive"}
        /\ e.state = "dir" \/ (e.state = "archive" /\ ~e.hashed) => within # {}

Init ==
  \E label \in {tree \in Trees : Legal(tree)} :
    /\ state = [id \in Ids |->
         IF id # Root THEN label[id].state
         ELSE IF \E c \in Below : label[c].state \in {"file", "dir", "archive"} THEN "dir"
         ELSE "stale"]
    /\ content = [id \in Ids |-> IF id = Root THEN None ELSE label[id].content]
    /\ file_hash = [id \in Ids |->
         IF id # Root /\ label[id].hashed THEN HashOf(label[id].content) ELSE NoHash]
    /\ dir_hash = [id \in Ids |-> NoHash]
    /\ dir_size = [id \in Ids |-> None]
    /\ file_shadowed = [id \in Ids |-> FALSE]
    /\ dir_shadowed = [id \in Ids |-> FALSE]
    /\ treediff_stat = [id \in Ids |-> 0]
    /\ hashes = Push(<<>>, "File", [id \in {id \in Ids : is_file(id) /\ file_hash[id] # NoHash} |->
                                     file_hash[id]])
    /\ sorted = <<>>
    /\ printed = <<>>
    /\ pc = "calculate_dir_hash"

-----------------------------------------------------------------------------
(* calculate_dir_hash                                                      *)

Err == [size |-> 0, hash |-> NoHash]

(* The sum of f over S, as the size of a set that has f[x] elements for x. *)
Total(S, f) == Cardinality(UNION {{<<x, k>> : k \in 1..f[x]} : x \in S})

Calced(id) == {c \in Childs(id) : Exists(c)}

Combined(cs, result) ==
  [size |-> Total(cs, [c \in cs |-> result[c].size]),
   hash |-> <<{<<Name[c], result[c].hash>> : c \in cs}>>]

(* Mutant of OfChildren: what cannot be hashed is left out.                *)
OfChildrenPartial(id, result) == Combined({c \in Calced(id) : result[c] # Err}, result)

(* A directory needs the result of everything that exists in it.           *)
OfChildren(id, result) ==
  IF \E c \in Calced(id) : result[c] = Err THEN Err ELSE Combined(Calced(id), result)

FileProps(id) == [size |-> Length[content[id]], hash |-> file_hash[id]]

(* What the call for a path returns: an archive is a directory of its own, *)
(* but for the directory it lies in it is a file.                          *)
Result[id \in Ids] ==
  IF ~is_dir(id) THEN IF file_hash[id] = NoHash THEN Err ELSE FileProps(id)
  ELSE IF OfChildren(id, Result) = Err THEN Err
  ELSE IF is_file(id) THEN FileProps(id)
  ELSE OfChildren(id, Result)

OwnHash(id) == IF is_dir(id) THEN OfChildren(id, Result) ELSE Err

(* Mutant of Unwraps: the hash is unwrapped before the members are seen.   *)
UnwrapsFirst(id) == is_file(id) /\ is_dir(id) /\ file_hash[id] = NoHash

(* hash.unwrap(): the members of an archive have hashes, it has none.      *)
Unwraps(id) == is_file(id) /\ OwnHash(id) # Err /\ file_hash[id] = NoHash

(* The assertion of push_to_hash_group: a group has one size.              *)
SizesDiffer(groups) ==
  \E h \in DOMAIN groups : \E e, f \in groups[h] :
    LET size(x) == IF x[1] = "File" THEN Length[content[x[2]]] ELSE OwnHash(x[2]).size
    IN  size(e) # size(f)

CalculateDirHash ==
  /\ pc = "calculate_dir_hash"
  /\ LET dirs == {id \in Ids : Exists(id) /\ OwnHash(id) # Err}
         groups == Push(hashes, "Dir", [id \in dirs |-> OwnHash(id).hash])
     IN  IF (\E id \in Ids : Unwraps(id)) \/ SizesDiffer(groups)
         THEN pc' = "panic" /\ UNCHANGED <<dir_hash, dir_size, hashes>>
         ELSE /\ dir_hash' = [id \in Ids |-> IF id \in dirs THEN OwnHash(id).hash ELSE NoHash]
              /\ dir_size' = [id \in Ids |-> IF id \in dirs THEN OwnHash(id).size ELSE None]
              /\ hashes' = groups
              /\ pc' = "find_shadowed"
  /\ UNCHANGED <<state, content, file_hash, file_shadowed, dir_shadowed, treediff_stat,
                 sorted, printed>>

-----------------------------------------------------------------------------
(* find_shadowed                                                           *)

FileDup(id) == file_hash[id] # NoHash /\ more_than_one_hash(file_hash[id])
DirDup(id) == dir_hash[id] # NoHash /\ more_than_one_hash(dir_hash[id])

(* The search goes down through what exists and stops at duplicates.       *)
Searched(id) ==
  /\ \A a \in Below : a = id \/ Under(id, a) => Exists(a)
  /\ \A a \in Ids : Under(id, a) => ~FileDup(a) /\ ~DirDup(a)

Stops(id) == Searched(id) /\ (FileDup(id) \/ DirDup(id))

(* Everything below such a duplicate is shadowed.                          *)
Inside(id) == \E a \in Ids : Under(id, a) /\ Stops(a)

(* Mutant of FindShadowed: the duplicate itself is shadowed too.           *)
FindShadowedItself ==
  /\ pc = "find_shadowed"
  /\ file_shadowed' = [id \in Ids |-> Inside(id) \/ Stops(id)]
  /\ dir_shadowed' = [id \in Ids |-> Inside(id) \/ Stops(id)]
  /\ pc' = "export"
  /\ UNCHANGED <<state, content, file_hash, dir_hash, dir_size, treediff_stat, hashes,
                 sorted, printed>>

(* A duplicate archive is shadowed as a directory by itself as a file.     *)
FindShadowed ==
  /\ pc = "find_shadowed"
  /\ file_shadowed' = [id \in Ids |-> Inside(id)]
  /\ dir_shadowed' = [id \in Ids |-> Inside(id) \/ (Stops(id) /\ FileDup(id))]
  /\ pc' = "export"
  /\ UNCHANGED <<state, content, file_hash, dir_hash, dir_size, treediff_stat, hashes,
                 sorted, printed>>

-----------------------------------------------------------------------------
(* The elements of a set in the order of a total order.                    *)
SortedBy(S, Before(_, _)) ==
  [k \in 1..Cardinality(S) |-> CHOOSE x \in S : Cardinality({y \in S : Before(y, x)}) = k - 1]

(* export: each group is sorted by type and path, and the groups by size   *)
(* (the largest first) and by their first entry.                           *)

EntryBefore(e, f) ==
  Order(e[1]) < Order(f[1]) \/ (Order(e[1]) = Order(f[1]) /\ e[2] < f[2])

GroupBefore(g, h) ==
  g.size > h.size \/ (g.size = h.size /\ EntryBefore(g.entries[1], h.entries[1]))

(* The size of a group is that of the entry it was made for.               *)
SizeOfGroup(h) == LET e == CHOOSE e \in hashes[h] : TRUE IN Size(e[2], e[1])

Export ==
  /\ pc = "export"
  /\ sorted' = SortedBy({[size |-> SizeOfGroup(h), hash |-> h,
                              entries |-> SortedBy(hashes[h], EntryBefore)] :
                             h \in DOMAIN hashes}, GroupBefore)
  /\ pc' = "print"
  /\ UNCHANGED <<state, content, entry, hashes, printed>>

-----------------------------------------------------------------------------
(* print_groups                                                            *)

HideShadowed(rule, outside) ==
  CASE rule = 0 -> FALSE
    [] rule = 1 -> outside = 0
    [] rule = 2 -> outside # 1
    [] OTHER -> TRUE

(* The entries of a group that are printed, in the order of export.        *)
Shown(g, rule) ==
  LET entries == {e \in ToSet(g.entries) : Has(e[2], e[1])}
      outside == {e \in entries : ~Shadowed(e[2], e[1])}
      hide == HideShadowed(rule, Cardinality(outside))
  IN  IF Cardinality(entries) <= 1 \/ (hide /\ Cardinality(outside) <= 1) THEN <<>>
      ELSE SortedBy(IF hide THEN outside ELSE entries, EntryBefore)

(* The groups of which something is printed, by their places in `sorted`.  *)
PrintGroups(rule) ==
  /\ pc = "print"
  /\ printed' = [mode |-> "groups", rule |-> rule,
                 groups |-> [k \in {k \in DOMAIN sorted : Shown(sorted[k], rule) # <<>>} |->
                               [size |-> sorted[k].size, entries |-> Shown(sorted[k], rule)]]]
  /\ pc' = IF \A k \in DOMAIN printed'.groups : \A e \in ToSet(printed'.groups[k].entries) :
                Size(e[2], e[1]) = printed'.groups[k].size
           THEN "done" ELSE "panic"
  /\ UNCHANGED <<state, content, entry, hashes, sorted>>

(* cid(p).unwrap() of print_tree and print_treediff: a root in which no    *)
(* file was found has no entry.                                            *)
RootMissing == \E k \in DOMAIN Roots : state[Roots[k]] = "none"

(* print_tree: an entry that has a duplicate is shown with the first four  *)
(* entries of its group, others with what they hold.                       *)
Props(id) == IF is_file(id) THEN file_hash[id] ELSE dir_hash[id]
Dups(id) == IF Props(id) = NoHash THEN 0 ELSE Cardinality(Group(hashes, Props(id)))

FirstFour(h) ==
  LET g == CHOOSE g \in ToSet(sorted) : g.hash = h
  IN  ToSet(SubSeq(g.entries, 1, IF Len(g.entries) < 4 THEN Len(g.entries) ELSE 4))

(* The entries that are shown below the root r.                            *)
InTree(r) ==
  {c \in Ids : /\ Under(c, r) /\ Exists(c)
               /\ \A a \in Ids : Under(c, a) /\ Under(a, r) => Exists(a) /\ Dups(a) <= 1}

(* Everything the tree shows; its assert!(dups != 0) is about hashed files.*)
TreeListing ==
  {[id |-> c, dups |-> IF Dups(c) > 1 THEN FirstFour(Props(c)) ELSE {}] :
     c \in UNION {InTree(r) : r \in {r \in ToSet(Roots) : Exists(r)}}}

PrintTree ==
  /\ pc = "print"
  /\ IF RootMissing
     THEN pc' = "panic" /\ UNCHANGED printed
     ELSE /\ printed' = [mode |-> "tree", listing |-> TreeListing]
          /\ pc' = IF \A line \in TreeListing : Props(line.id) # NoHash => Dups(line.id) # 0
                   THEN "done" ELSE "panic"
  /\ UNCHANGED <<state, content, entry, hashes, sorted>>

-----------------------------------------------------------------------------
(* print_treediff                                                          *)

(* The entry at the place of `id` when `root` is replaced by `other`.      *)
Montage(id, root, other) ==
  {f \in Ids : state[f] # "none"
     /\ Path[f] = Path[other] \o SubSeq(Path[id], Len(Path[root]) + 1, Len(Path[id]))}

SameAs(e, f) ==
  IF file_hash[e] # NoHash /\ file_hash[f] # NoHash THEN file_hash[e] = file_hash[f]
  ELSE dir_hash[e] # NoHash /\ dir_hash[f] # NoHash /\ dir_hash[e] = dir_hash[f]

(* find_diff(inner, root, other) with the marks `stat` of earlier calls:   *)
(* the marks it returns, for every place it would be called at.            *)
Upgraded(stat, root, other) ==
  LET eq(id) == \E f \in Montage(id, root, other) : SameAs(id, f)
      up[id \in Ids] ==
        LET uniqfree == is_dir(id) /\ \A c \in Childs(id) : up[c] # 0
            upgrade == IF eq(id) THEN 2 ELSE IF uniqfree THEN 1 ELSE 0
        IN  IF stat[id] > upgrade THEN stat[id] ELSE upgrade
      called(id) ==
        /\ id = root \/ Under(id, root)
        /\ \A a \in Ids : Under(id, a) /\ (a = root \/ Under(a, root)) => ~eq(a)
  IN  [id \in Ids |-> IF called(id) THEN up[id] ELSE stat[id]]

(* find_diffs: every root against every other one.                         *)
Pairs == SortedBy({p \in (DOMAIN Roots) \X (DOMAIN Roots) : p[1] # p[2]},
                      LAMBDA p, q : p[1] < q[1] \/ (p[1] = q[1] /\ p[2] < q[2]))

(* Mutant of FindDiffs: only the first root is compared with the others.   *)
FindDiffsFirst ==
  FoldLeft(LAMBDA stat, p : Upgraded(stat, Roots[p[1]], Roots[p[2]]), treediff_stat,
           SelectSeq(Pairs, LAMBDA p : p[1] = 1))

FindDiffs ==
  LET marks[k \in 0..Len(Pairs)] ==
        IF k = 0 THEN treediff_stat
        ELSE Upgraded(marks[k - 1], Roots[Pairs[k][1]], Roots[Pairs[k][2]])
  IN  marks[Len(Pairs)]

(* The listing shows 2 as DUPS, 1 as SUPR and 0 as UNIQ, and what a        *)
(* directory holds unless it is DUPS.                                      *)
DiffListing(stat) ==
  {<<c, stat[c]>> : c \in {c \in Ids : Exists(c) /\ \E r \in ToSet(Roots) :
     /\ Exists(r) /\ Under(c, r)
     /\ \A a \in Ids : Under(c, a) /\ Under(a, r) => Exists(a) /\ stat[a] # 2}}

PrintTreediff ==
  /\ pc = "print"
  /\ IF RootMissing
     THEN pc' = "panic" /\ UNCHANGED <<treediff_stat, printed>>
     ELSE /\ treediff_stat' = FindDiffs
          /\ printed' = [mode |-> "diff", listing |-> DiffListing(FindDiffs)]
          /\ pc' = "done"
  /\ UNCHANGED <<state, content, file_hash, dir_hash, dir_size, file_shadowed, dir_shadowed,
                 hashes, sorted>>

-----------------------------------------------------------------------------
Finished == pc \in {"done", "panic"} /\ UNCHANGED vars

Next ==
  \/ CalculateDirHash
  \/ FindShadowed
  \/ Export
  \/ \E rule \in ShadowRules : PrintGroups(rule)
  \/ PrintTree
  \/ PrintTreediff
  \/ Finished

Spec == Init /\ [][Next]_vars

-----------------------------------------------------------------------------
(* Properties.                                                             *)

(* The fields of the entries of the tree and the hash groups.              *)
TypeOK ==
  /\ state \in [Ids -> States]
  /\ DOMAIN file_hash = Ids /\ DOMAIN dir_hash = Ids
  /\ dir_size \in [Ids -> Nat \cup {None}]
  /\ \A id \in Ids : dir_size[id] = None <=> dir_hash[id] = NoHash
  /\ file_shadowed \in [Ids -> BOOLEAN]
  /\ dir_shadowed \in [Ids -> BOOLEAN]
  /\ treediff_stat \in [Ids -> 0..2]
  /\ \A h \in DOMAIN hashes : hashes[h] # {} /\ hashes[h] \subseteq {"File", "Dir"} \X Ids
  /\ pc \in {"calculate_dir_hash", "find_shadowed", "export", "print", "done", "panic"}

FilesUnder(id) == {f \in Ids : is_file(f) /\ Under(f, id)}

(* What a directory holds: the contents of its files by relative path.  An *)
(* archive inside of it counts as the file it is.                          *)
Listing(id) ==
  {<<SubSeq(Path[f], Len(Path[id]) + 1, Len(Path[f])), content[f]>> :
     f \in {f \in FilesUnder(id) : ~\E a \in FilesUnder(id) : Under(f, a)}}

AllHashed(id) == \A f \in FilesUnder(id) : file_hash[f] # NoHash

(* README: "Directory hash is calculated by filename and hash of the child *)
(* entries".  A directory has a hash exactly if all files in it have, two  *)
(* directories have the same hash exactly if they hold the same contents   *)
(* under the same names, at any depth, and the size is that of the files.  *)
DirHashMeaning ==
  pc \notin {"calculate_dir_hash", "panic"} =>
    /\ \A id \in Ids : (dir_hash[id] # NoHash) <=> is_dir(id) /\ AllHashed(id)
    /\ \A a, b \in {id \in Ids : dir_hash[id] # NoHash} :
         /\ (dir_hash[a] = dir_hash[b]) <=> (Listing(a) = Listing(b))
         /\ dir_size[a] = Total(Listing(a), [l \in Listing(a) |-> Length[l[2]]])

(* The state is well typed, and the assertions on the way hold: those on   *)
(* the size of the entries of a group and on the groups of hashed entries  *)
(* (push_to_hash_group, calculate_dir_hash, find_shadowed).  What remains  *)
(* is the unwrap for an archive without a hash whose members all have one, *)
(* and the unwrap for a root without an entry.                             *)
OnlyKnownPanics ==
  /\ TypeOK
  /\ pc = "panic" =>
       \/ \E id \in Ids : state[id] = "archive" /\ file_hash[id] = NoHash /\ AllHashed(id)
       \/ RootMissing

Same(e, f) ==
  IF e[1] = "File" /\ f[1] = "File" THEN content[e[2]] = content[f[2]]
  ELSE IF e[1] = "Dir" /\ f[1] = "Dir" THEN Listing(e[2]) = Listing(f[2])
  ELSE Size(e[2], e[1]) = 0 /\ Size(f[2], f[1]) = 0

(* What is listed as one group exists, is at least two paths, and is equal *)
(* (a directory or archive that holds nothing equals an empty file).       *)
GroupsAreDuplicates ==
  (pc = "done" /\ printed.mode = "groups") =>
    \A k \in DOMAIN printed.groups :
      LET es == ToSet(printed.groups[k].entries)
      IN  /\ Cardinality({e[2] : e \in es}) = Len(printed.groups[k].entries)
          /\ Cardinality(es) > 1
          /\ \A e, f \in es : Has(e[2], e[1]) /\ Same(e, f)

Listed == IF printed.mode = "groups"
          THEN {e[2] : e \in UNION {ToSet(printed.groups[k].entries) : k \in DOMAIN printed.groups}}
          ELSE {line.id : line \in {l \in printed.listing : l.dups # {}}}

(* find_shadowed does not ask whether the hash is that of a file: where    *)
(* the cache knew one under the name of a directory, the directory counts  *)
(* as its duplicate.                                                       *)
Misled(d) == Stops(d) /\ FileDup(d) /\ ~is_file(d)

(* Hiding what is shadowed hides no duplicate but below directories that   *)
(* are taken for the file they replaced: unless rule 3 is asked for, every *)
(* other file that has a duplicate is listed itself or lies in a directory *)
(* or archive that is listed.  In the tree and with rule 0 every file is.  *)
(* (The tree has no line for a root itself, so none for a root that is a   *)
(* file.)                                                                  *)
DuplicatesVisible ==
  (pc = "done" /\ (printed.mode = "tree" \/ (printed.mode = "groups" /\ printed.rule < 3))) =>
    \A f, g \in Ids :
      (/\ f # g /\ is_file(f) /\ is_file(g) /\ file_hash[f] # NoHash /\ file_hash[f] = file_hash[g]
       /\ printed.mode = "tree" => \E r \in ToSet(Roots) : Under(f, r)
       /\ printed.mode = "groups" /\ printed.rule # 0 => ~\E d \in Ids : Under(f, d) /\ Misled(d))
        => f \in Listed \/ \E id \in Listed : Under(f, id)

RootOf(id) == CHOOSE r \in ToSet(Roots) : id = r \/ Under(id, r)

Places(id) == UNION {Montage(id, RootOf(id), o) : o \in ToSet(Roots) \ {RootOf(id)}}

Copied(f) == /\ is_file(f) /\ file_hash[f] # NoHash
             /\ \E g \in Places(f) : is_file(g) /\ file_hash[g] = file_hash[f]

(* --output diff: "exact dir comparision, reveals diffs and supersets".  A *)
(* path is UNIQ exactly if some file at or below it is at the same place   *)
(* of no other root (not even as a member of an archive that is there),    *)
(* and DUPS exactly if another root has the same file or directory there.  *)
DiffOf(lines) ==
    \A line \in lines :
      LET id == line[1]
      IN  /\ (line[2] = 0) <=>
               \E f \in FilesUnder(id) \cup {id} :
                 state[f] = "file" /\ \A g \in Ids : g = f \/ Under(f, g) => ~Copied(g)
          /\ (line[2] = 2) <=>
               \/ Copied(id)
               \/ \E g \in Places(id) :
                    /\ is_dir(id) /\ AllHashed(id) /\ is_dir(g) /\ AllHashed(g)
                    /\ Listing(id) = Listing(g)
                    /\ file_hash[id] = NoHash \/ file_hash[g] = NoHash

(* Two roots or more that lie apart, none of them in an archive.           *)
RootsApart ==
  /\ Len(Roots) > 1
  /\ \A j, k \in DOMAIN Roots : j # k => Roots[j] # Roots[k] /\ ~Under(Roots[j], Roots[k])
  /\ \A r \in ToSet(Roots), a \in Ids : Under(r, a) => ~is_file(a)

(* find_diff looks at entries of the cache that do not exist any more, and *)
(* prefers the hashes of files wherever both sides have one, even where    *)
(* one side is a directory and keeps the hash of a file it replaced.       *)
Misjudged(x) ==
  \/ state[x] = "stale"
  \/ \E y \in Places(x) : file_hash[x] # NoHash /\ file_hash[y] # NoHash /\ ~(is_file(x) /\ is_file(y))

Judged(id) == \A x \in Ids : x = id \/ Under(x, id) => ~Misjudged(x)

(* What --output diff prints of roots that lie apart is right (DiffOf) for *)
(* every line at and below which nothing is misjudged, whatever the cache  *)
(* has left elsewhere, and in roots that are not the same as a whole       *)
(* (find_diff does not go into those, so what they hold keeps the mark     *)
(* UNIQ).                                                                  *)
TreeDiffExact ==
  (pc = "done" /\ printed.mode = "diff" /\ RootsApart) =>
    DiffOf({line \in printed.listing : treediff_stat[RootOf(line[1])] # 2 /\ Judged(line[1])})

-----------------------------------------------------------------------------
(* The inductive invariant of the properties but those of what is printed. *)

(* What the passes leave; it does not change afterwards.                   *)
PassesInv ==
  /\ state \in [Ids -> States]
  /\ DOMAIN file_hash = Ids
  /\ \A id \in Ids : is_file(id) => id # Root /\ content[id] \in Contents
  /\ \A id \in Ids : file_hash[id] # NoHash =>
       /\ content[id] \in Contents
       /\ file_hash[id] = HashOf(content[id])
  /\ \A id \in Below : Exists(id) => is_dir(Parent[id])
  /\ \A id \in Below : state[id] = "dir" => \E c \in Below : Parent[c] = id /\ Exists(c)

(* A group holds exactly what has its hash, each path once.  Before        *)
(* calculate_dir_hash no directory has one.                                *)
GroupsInv ==
  /\ \A h \in DOMAIN hashes : \A e \in hashes[h] :
       Has(e[2], e[1]) /\ h # NoHash /\ h = (IF e[1] = "File" THEN file_hash[e[2]] ELSE dir_hash[e[2]])
  /\ \A h \in DOMAIN hashes : \A e, f \in hashes[h] : e[2] = f[2] => e = f
  /\ \A id \in Ids : is_file(id) /\ file_hash[id] # NoHash =>
       file_hash[id] \in DOMAIN hashes /\ <<"File", id>> \in hashes[file_hash[id]]
  /\ \A id \in Ids : dir_hash[id] # NoHash =>
       dir_hash[id] \in DOMAIN hashes /\ \E e \in hashes[dir_hash[id]] : e[2] = id
  /\ pc = "calculate_dir_hash" => \A id \in Ids : dir_hash[id] = NoHash

(* A directory and a file have the same hash only if both hold nothing.    *)
MeaningInv ==
  /\ DirHashMeaning
  /\ pc \notin {"calculate_dir_hash", "panic"} =>
       \A f, d \in Ids : is_file(f) /\ file_hash[f] # NoHash /\ file_hash[f] = dir_hash[d] =>
         Length[content[f]] = 0 /\ dir_size[d] = 0

(* The duplicates at which find_shadowed stops are not shadowed.           *)
ShadowInv ==
  pc \in {"export", "print"} =>
    \A id \in Ids : Stops(id) => ~file_shadowed[id] /\ (~FileDup(id) => ~dir_shadowed[id])

(* The sorted groups are the groups.                                       *)
SortedInv ==
  pc = "print" =>
    /\ \A h \in DOMAIN hashes : \E k \in DOMAIN sorted : sorted[k].hash = h
    /\ \A k \in DOMAIN sorted :
         /\ sorted[k].hash \in DOMAIN hashes
         /\ sorted[k].entries \in Seq({"File", "Dir"} \X Ids)
         /\ ToSet(sorted[k].entries) = hashes[sorted[k].hash]
         /\ \A e \in hashes[sorted[k].hash] : Size(e[2], e[1]) = sorted[k].size

IInv == PassesInv /\ GroupsInv /\ MeaningInv /\ ShadowInv /\ SortedInv /\ OnlyKnownPanics
=============================================================================
