----------------------------- MODULE BtrfsOpen ------------------------------
(***************************************************************************)
(* Opening a btrfs file system from its devices (BtrfsDeviceSet::new,      *)
(* BtrfsFilesystem::open_try_backups) and naming its subvolumes            *)
(* (subvolume_path).                                                       *)
(*                                                                         *)
(* The file system is not mounted when it is opened.  Before, it has made  *)
(* some commits, the last of which a loss of power may have cut short.  A  *)
(* commit never overwrites a node of the generation before it, but reuses  *)
(* the places of older ones, which the backups of the superblock still     *)
(* name.  The devices may lose nodes or superblocks.                       *)
(*                                                                         *)
(* The stripes of a chunk are copies (profiles single, DUP and RAID1), of  *)
(* which the program reads the first.  A generation may have a chunk tree  *)
(* of its own; all of them say the same of the chunks.                     *)
(***************************************************************************)
EXTENDS BtrfsTrees

CONSTANTS
  Places,        \* Places[d]: which of the four superblocks lie on device d
  SystemList,    \* the chunks that the superblocks list, in their order
  Unused,        \* the cells of the array of system chunks behind them
  ChunkRoots,    \* ChunkRoots[g]: logical address of the chunk tree of generation g
  Fixed,         \* the nodes that are never overwritten, by logical address
  Pool,          \* logical addresses of the nodes that commits write
  AllChunks,     \* where the file system has its chunks
  OtherRoots,    \* the items of the root tree that stay as they are
  Backrefs,      \* Backrefs[g]: the back references in generation g
  FsItems,       \* FsItems[g]: the items of the top tree of generation g
  Directories,   \* Directories[g][t]: the directories of tree t in generation g
  Given,         \* the lists of devices to open
  MaxGeneration, \* bound: commits
  MaxDamage      \* bound: nodes and superblocks that are lost

Devices == DOMAIN Places

VARIABLES
  \* the file system and its devices
  disk,          \* disk[p]: the node at p, None if the device is cut short
  supers,        \* supers[d][k]: superblock k of device d, None without magic
  history,       \* history[g]: what generation g has written
  commit,        \* what the commit of the last generation has still to write
  damage,        \* how often something was lost
  \* the program
  pc,            \* "off", "devices", "chunks", "tree", "opened", "climb",
                 \* "named", "unnamed", "failed", "panic"
  given,         \* the devices to open
  devices,       \* devices[d]: which superblock was found on device d
  superblock,    \* the device whose superblock is used
  attempt,       \* 0, or 1 + backup_index
  todo,          \* logical addresses of the nodes to read, a stack
  tree_items, errors,
  reading,       \* the tree that is read, None for the root tree
  chunk_tree, root_tree,
  filesystem_trees,
  backref, object_id, path_parts   \* of subvolume_path

fsVars == <<disk, supers, history, commit, damage>>
deviceVars == <<given, devices, superblock>>
readVars == <<attempt, todo, tree_items, errors, reading>>
treeVars == <<chunk_tree, root_tree, filesystem_trees>>
pathVars == <<backref, object_id, path_parts>>
progVars == <<pc, deviceVars, readVars, treeVars, pathVars>>
vars == <<fsVars, progVars>>

-----------------------------------------------------------------------------
(* The file system.                                                        *)

ChunkOf(address) == CHOOSE c \in AllChunks : address - c.offset \in 0..c.chunk_size - 1

PlaceIn(stripe, address) ==
  [device_id |-> stripe.device_id, offset |-> stripe.offset + address - ChunkOf(address).offset]

(* The places of a node, and the one that is read.                         *)
Copies(address) == {PlaceIn(stripe, address) : stripe \in Range(ChunkOf(address).stripes)}

Physical(address) == PlaceIn(Head(ChunkOf(address).stripes), address)

Node(level, num_items, cells) ==
  [checksum_ok |-> TRUE, level |-> level, num_items |-> num_items, cells |-> cells]

(* btrfs fills a leaf from both ends: the data of the first item is last.  *)
Leaf(items) ==
  LET sorted == InOrder(items)
      num_items == Len(sorted)
      DataAfter(n) == FlattenSeq(Reverse([m \in 1..num_items - n |-> sorted[n + m].data]))
      header(n) == LeafItemHeader(sorted[n].key, num_items + Len(DataAfter(n)), Len(sorted[n].data))
  IN  Node(0, num_items, [n \in 1..num_items |-> header(n)] \o DataAfter(0))

(* A chunk as an item of the chunk tree, and as an entry of the array of   *)
(* system chunks.                                                          *)
ChunkKey(chunk) == Key(256, ChunkItem, chunk.offset)

ChunkItemOf(chunk) ==
  [key |-> ChunkKey(chunk), data |-> ChunkItemData(chunk.chunk_size, chunk.stripes)]

SystemEntry(chunk) == <<ChunkKey(chunk)>> \o ChunkItemData(chunk.chunk_size, chunk.stripes)

SystemEntries == FlattenSeq([n \in 1..Len(SystemList) |-> SystemEntry(SystemList[n])])

(* The link of a directory to its parent, and the names in a directory     *)
(* that have one hash, as items.                                           *)
LinkItem(directory, link) ==
  [key |-> Key(directory, InodeRef, link.parent), data |-> InodeRefEntry(link.name)]

NamesItem(at, entries) ==
  [key |-> Key(at[1], DirItem, at[2]),
   data |-> FlattenSeq([n \in 1..Len(entries) |-> DirItemEntry(entries[n].child_key, entries[n].name)])]

Garbage == [Node(0, 0, <<>>) EXCEPT !.checksum_ok = FALSE]

RootItems(g, fs) ==
  OtherRoots \cup Backrefs[g] \cup {[key |-> Key(FsTree, RootItem, 0), data |-> RootItemData(fs)]}

(* The nodes of the root tree and of the top tree of a generation.         *)
RootNode == [g \in 1..MaxGeneration |-> [fs \in Pool |-> Leaf(RootItems(g, fs))]]

FsNode == [g \in 1..MaxGeneration |-> Leaf(FsItems[g])]

Generation(root, fs) == [root |-> root, fs |-> fs]

RootBackup(tree_root, chunk_root) == [tree_root |-> tree_root, chunk_root |-> chunk_root]

(* A superblock keeps the roots of the last four generations.              *)
Superblock(g, written) ==
  [generation |-> g, root_tree |-> written[g].root, chunk_root |-> ChunkRoots[g],
   system_chunks |-> SystemEntries \o Unused, system_chunks_size |-> Len(SystemEntries),
   root_backups |-> [slot \in 0..3 |->
     LET of == {b \in 1..g : b % 4 = slot /\ b > g - 4}
         backup == CHOOSE b \in of : TRUE
     IN  IF of = {} THEN RootBackup(0, 0) ELSE RootBackup(written[backup].root, ChunkRoots[backup])]]

NodeOf(g, written, address) ==
  IF address = written.root THEN RootNode[g][written.fs] ELSE FsNode[g]

(* The nodes of a fixed tree, whose root may be an internal node, and its  *)
(* contents.                                                               *)
FixedNodes(root) ==
  {root} \cup IF IsLeaf(Fixed[root]) THEN {} ELSE Range(Children(Fixed[root]))

FixedItems(root) == UNION {LeafItems(Fixed[a]) : a \in {a \in FixedNodes(root) : IsLeaf(Fixed[a])}}

-----------------------------------------------------------------------------
(* What is assumed of the constants: that they are a file system.          *)

Addresses == DOMAIN Fixed \cup Pool

(* Items as they are found in a tree: no two have one key.                 *)
TreeItems(items) ==
  /\ IsFiniteSet(items)
  /\ \A i \in items : i.key \in [object_id : Int, item_type : Int, offset : Int]
  /\ \A i, j \in items : i.key = j.key => i = j
  /\ \A i \in items : i.key.item_type = RootItem => i.data[1].root_node_block_number \in Nat

(* Items that btrfs writes to a leaf.                                      *)
Writable(items) ==
  /\ TreeItems(items)
  /\ \A i \in items :
       i = [key |-> i.key, data |-> i.data] /\ i.data \in Seq(Range(i.data)) /\ RightSize(i.key.item_type, i.data)

ASSUME ConstantsAssumption ==
  /\ Places \in [Devices -> SUBSET (0..3)]
  /\ Pool \subseteq Nat \ {0} /\ Pool \cap DOMAIN Fixed = {} /\ \E a, b \in Pool : a # b
  /\ \A list \in Given : list \in Seq(Devices)
  /\ MaxGeneration \in Nat \ {0} /\ MaxDamage \in Nat

(* Chunks do not overlap, every node lies in one, and no copies of two     *)
(* nodes lie at one place.                                                 *)
ASSUME ChunksAssumption ==
  /\ \A c \in AllChunks :
       /\ c = [offset |-> c.offset, chunk_size |-> c.chunk_size, stripes |-> c.stripes]
       /\ c.offset \in Nat /\ c.chunk_size \in Nat
       /\ c.stripes \in Seq(Range(c.stripes)) /\ c.stripes # <<>>
       /\ \A stripe \in Range(c.stripes) : stripe.offset \in Nat
  /\ \A c, d \in AllChunks :
       c # d => c.offset + c.chunk_size <= d.offset \/ d.offset + d.chunk_size <= c.offset
  /\ \A a \in Addresses : \E c \in AllChunks : Covers(c, a)
  /\ \A a, b \in Addresses : Copies(a) \cap Copies(b) # {} => a = b

(* Where the chunk trees lie is listed in the superblocks, where anything  *)
(* lies in each chunk tree.                                                *)
ASSUME ChunkTreeAssumption ==
  /\ SystemList \in Seq(AllChunks) /\ Unused \in Seq(Range(Unused))
  /\ \A g \in 1..MaxGeneration :
       /\ \A a \in FixedNodes(ChunkRoots[g]) : \E n \in DOMAIN SystemList : Covers(SystemList[n], a)
       /\ {i \in FixedItems(ChunkRoots[g]) : i.key.item_type = ChunkItem}
            = {ChunkItemOf(c) : c \in AllChunks}

(* A fixed tree is a leaf or an internal node with leaves below it.        *)
FixedTree(root) ==
  /\ FixedNodes(root) \subseteq DOMAIN Fixed
  /\ IsLeaf(Fixed[root]) \/ \A a \in Range(Children(Fixed[root])) : IsLeaf(Fixed[a])
  /\ TreeItems(FixedItems(root))

ASSUME FixedAssumption ==
  /\ DOMAIN Fixed \subseteq Nat
  /\ \A a \in DOMAIN Fixed :
       /\ Fixed[a].checksum_ok
       /\ IF IsLeaf(Fixed[a]) THEN TreeItems(LeafItems(Fixed[a]))
          ELSE Fixed[a].num_items \in Nat /\ Children(Fixed[a]) \in Seq(Nat)
  /\ \A g \in 1..MaxGeneration : FixedTree(ChunkRoots[g])

(* The trees of the file system have one item each in the root tree; those *)
(* of subvolumes are fixed.                                                *)
ASSUME RootsAssumption ==
  /\ \A g \in 1..MaxGeneration : Writable(FsItems[g]) /\ \A fs \in Pool : Writable(RootItems(g, fs))
  /\ \A g \in 1..MaxGeneration : \A i \in Backrefs[g] : i.key.item_type = RootBackref
  /\ \A i \in OtherRoots : i.key.item_type # RootBackref
  /\ \A i \in OtherRoots : i.key.item_type = RootItem =>
       /\ i.key.object_id \in -127..127 \ {FsTree} \/ i.key.object_id >= 256
       /\ i.key.object_id >= 256 => FixedTree(i.data[1].root_node_block_number)
  /\ \A i, j \in OtherRoots :
       i.key.item_type = RootItem /\ j.key.item_type = RootItem /\ i.key.object_id = j.key.object_id => i = j

(* links[d] is the parent and the name of directory d, names[<<d, h>>] are *)
(* the entries of directory d whose names have hash h.                     *)
Listed(tree, directory, name, child) ==
  /\ <<directory, Hash[name]>> \in DOMAIN tree.names
  /\ \E e \in Range(tree.names[<<directory, Hash[name]>>]) :
       e.name = name /\ e.child_key.object_id = child

(* A directory has one link, and only the uppermost leads to itself.  The  *)
(* names in a directory differ.                                            *)
DirectoryTree(items, tree) ==
  /\ None \notin items
  /\ \A d \in DOMAIN tree.links :
       LET link == tree.links[d]
       IN  /\ link.name \in Seq(Range(link.name))
           /\ {i \in items : i.key.object_id = d /\ i.key.item_type = InodeRef} = {LinkItem(d, link)}
           /\ IF link.parent = d THEN d = 256
              ELSE link.parent \in DOMAIN tree.links /\ Listed(tree, link.parent, link.name, d)
  /\ \A at \in DOMAIN tree.names :
       LET entries == tree.names[at]
       IN  /\ NamesItem(at, entries) \in items
           /\ entries \in Seq(Range(entries))
           /\ \A e \in Range(entries) :
                e.name \in Seq(Range(e.name)) /\ None # DirItemEntry(e.child_key, e.name)
           /\ \A m, n \in 1..Len(entries) : entries[m].name = entries[n].name => m = n

(* A back reference says in which directory and by which name a subvolume  *)
(* is in another tree.                                                     *)
ASSUME DirectoriesAssumption ==
  \A g \in 1..MaxGeneration :
    /\ \A t \in DOMAIN Directories[g] :
         IF t = FsTree THEN DirectoryTree(FsItems[g], Directories[g][t])
         ELSE \E i \in OtherRoots :
                /\ i.key.item_type = RootItem /\ i.key.object_id = t /\ t >= 256
                /\ DirectoryTree(FixedItems(i.data[1].root_node_block_number), Directories[g][t])
    /\ \A b \in Backrefs[g] :
         /\ b.key.offset \in DOMAIN Directories[g]
         /\ LET tree == Directories[g][b.key.offset]
            IN  \E at \in DOMAIN tree.names : \E e \in Range(tree.names[at]) :
                  /\ at[1] \in DOMAIN tree.links /\ at = <<at[1], Hash[e.name]>>
                  /\ b.data = RootRefData(at[1], e.name) /\ e.child_key.object_id = b.key.object_id

(* None is none of what it stands for the lack of.                         *)
ASSUME NoneAssumption ==
  /\ None \notin Int \cup Devices \cup Range(Fixed) \cup {Garbage}
  /\ \A g \in 1..MaxGeneration : None # FsNode[g] /\ \A fs \in Pool : None # RootNode[g][fs]
  /\ \A a \in Addresses : None # Physical(a)

-----------------------------------------------------------------------------
(* slice_at: None beyond the end of a device.                              *)
NodeAt(place) == IF place \in DOMAIN disk THEN disk[place] ELSE None

AllSupers == UNION {{<<d, k>> : k \in Places[d]} : d \in Devices}

Nothing == [nodes |-> {}, supers |-> {}]

Init ==
  LET first == Generation(Min(Pool), Min(Pool \ {Min(Pool)}))
      node(a) == IF a \in DOMAIN Fixed THEN Fixed[a]
                 ELSE IF a \in {first.root, first.fs} THEN NodeOf(1, first, a)
                 ELSE Garbage
      addresses == DOMAIN Fixed \cup Pool
  IN  /\ disk = [p \in UNION {Copies(a) : a \in addresses} |->
                   node(CHOOSE a \in addresses : p \in Copies(a))]
      /\ supers = [d \in Devices |-> [k \in Places[d] |-> Superblock(1, <<first>>)]]
      /\ history = <<first>>
      /\ commit = Nothing
      /\ damage = 0
      /\ pc = "off"
      /\ given = <<>> /\ devices = <<>> /\ superblock = None
      /\ attempt = 0 /\ todo = <<>> /\ tree_items = {} /\ errors = 0 /\ reading = None
      /\ chunk_tree = {} /\ root_tree = {} /\ filesystem_trees = <<>>
      /\ backref = None /\ object_id = None /\ path_parts = <<>>

NeverUsed == Pool \ UNION {{g.root, g.fs} : g \in Range(history)}

(* A commit writes the nodes that have changed to places that the          *)
(* generation before does not use, and then all superblocks.  Which of two *)
(* places that were never used is which makes no difference.               *)
BeginCommit ==
  /\ pc = "off" /\ commit = Nothing /\ damage = 0
  /\ Len(history) < MaxGeneration
  /\ \E root, fs \in Pool \ {Last(history).root, Last(history).fs} :
       /\ root # fs
       /\ {root, fs} \subseteq NeverUsed => root < fs
       /\ history' = Append(history, Generation(root, fs))
       /\ commit' = [nodes |-> {root, fs}, supers |-> AllSupers]
  /\ UNCHANGED <<disk, supers, damage, progVars>>

WriteNode(a) ==
  /\ pc = "off" /\ a \in commit.nodes /\ damage = 0
  /\ disk' = [p \in DOMAIN disk |->
                IF p \in Copies(a) THEN NodeOf(Len(history), Last(history), a) ELSE disk[p]]
  /\ commit' = [commit EXCEPT !.nodes = @ \ {a}]
  /\ UNCHANGED <<supers, history, damage, progVars>>

WriteSuper(d, k) ==
  /\ pc = "off" /\ commit.nodes = {} /\ <<d, k>> \in commit.supers /\ damage = 0
  /\ supers' = [supers EXCEPT ![d][k] = Superblock(Len(history), history)]
  /\ commit' = [commit EXCEPT !.supers = @ \ {<<d, k>>}]
  /\ UNCHANGED <<disk, history, damage, progVars>>

(* What is lost is lost after the last write: what is written again is not *)
(* lost, and what is not is as well lost later.                            *)
LoseNode(p) ==
  /\ pc = "off" /\ damage < MaxDamage
  /\ \E n \in {Garbage, None} : disk' = [disk EXCEPT ![p] = n]
  /\ damage' = damage + 1
  /\ UNCHANGED <<supers, history, commit, progVars>>

LoseSuper(d, k) ==
  /\ pc = "off" /\ damage < MaxDamage
  /\ supers' = [supers EXCEPT ![d][k] = None]
  /\ damage' = damage + 1
  /\ UNCHANGED <<disk, history, commit, progVars>>

-----------------------------------------------------------------------------
(* BtrfsDeviceSet::new.                                                    *)

Open(list) ==
  /\ pc = "off"
  /\ pc' = "devices"
  /\ given' = list
  /\ UNCHANGED <<fsVars, devices, superblock, readVars, treeVars, pathVars>>

(* Mutant of MaxByKey: the oldest is taken.                                *)
MinByKey(generations) ==
  CHOOSE n \in DOMAIN generations : \A m \in DOMAIN generations : generations[n] <= generations[m]

(* A map with one more entry.                                              *)
WithEntry(map, key, value) ==
  [k \in DOMAIN map \cup {key} |-> IF k = key THEN value ELSE map[k]]

(* max_by_key returns the last of those that are the largest.              *)
MaxByKey(generations) ==
  CHOOSE n \in DOMAIN generations : \A m \in DOMAIN generations :
    IF m > n THEN generations[m] < generations[n] ELSE generations[m] <= generations[n]

Added == Cardinality(DOMAIN devices)

(* BtrfsDevice::new looks at every place for a superblock.                 *)
AddDevice ==
  /\ pc = "devices" /\ Added < Len(given)
  /\ \E d \in {given[Added + 1]} :
       LET found == {k \in Places[d] : supers[d][k] # None}
       IN  IF found = {} \/ d \in DOMAIN devices
           THEN pc' = "failed" /\ UNCHANGED devices
           ELSE /\ devices' =
                     WithEntry(devices, d, MaxByKey([k \in found |-> supers[d][k].generation]))
                /\ UNCHANGED pc
  /\ UNCHANGED <<fsVars, given, superblock, readVars, treeVars, pathVars>>

SuperblockOf(d) == supers[d][devices[d]]

(* chunk_tree_logical_address, of the superblock also for a backup.        *)
ChunkRoot == SuperblockOf(superblock).chunk_root

EndDevices ==
  /\ pc = "devices" /\ Added = Len(given)
  /\ IF given = <<>>
     THEN pc' = "failed" /\ UNCHANGED <<superblock, todo>>
     ELSE \E newest \in
               {given[MaxByKey([n \in DOMAIN given |-> SuperblockOf(given[n]).generation])]} :
            /\ superblock' = newest
            /\ pc' = "chunks" /\ todo' = <<SuperblockOf(newest).chunk_root>>
  /\ UNCHANGED <<fsVars, given, devices, attempt, tree_items, errors, reading, treeVars, pathVars>>

-----------------------------------------------------------------------------
(* BtrfsFilesystem::open_try_backups: open and then open_backup, which     *)
(* differ in the root tree they read.                                      *)

(* Mutant of NextAttempt: the backup is tried again.                       *)
NextAttemptSame(n) == IF n = 0 THEN 1 ELSE n

NextAttempt(n) == n + 1

(* open or open_backup returns an error.                                   *)
FailOpen ==
  /\ IF attempt < 4
     THEN pc' = "chunks" /\ attempt' = NextAttempt(attempt) /\ todo' = <<ChunkRoot>>
     ELSE pc' = "failed" /\ UNCHANGED attempt /\ todo' = <<>>
  /\ tree_items' = {} /\ errors' = 0 /\ reading' = None
  /\ chunk_tree' = {} /\ root_tree' = {} /\ filesystem_trees' = <<>>

(* system_slice_at_logical_address: an error without a chunk, without the  *)
(* device or beyond its end.                                               *)
SystemSlice(place) ==
  IF place = None \/ place.device_id \notin DOMAIN devices THEN None ELSE NodeAt(place)

(* A node that has been read: on with those below, or its items are added. *)
Visit(node) ==
  IF IsLeaf(node)
  THEN todo' = Tail(todo) /\ tree_items' = Insert(tree_items, LeafItems(node))
  ELSE todo' = Children(node) \o Tail(todo) /\ UNCHANGED tree_items

(* read_system_extent_tree_recurse: the first node that cannot be read     *)
(* ends it.                                                                *)
ReadChunkNode ==
  /\ pc = "chunks" /\ todo # <<>>
  /\ \E place \in {system_logical_to_physical(SuperblockOf(superblock), Head(todo))} :
     \E node \in {from_bytes(SystemSlice(place))} :
       IF node = None THEN FailOpen
       ELSE Visit(node) /\ UNCHANGED <<pc, attempt, errors, reading, treeVars>>
  /\ UNCHANGED <<fsVars, deviceVars, pathVars>>

(* open unwraps the place of the chunk tree and goes on with the root tree.*)
ChunkTreeRead ==
  /\ pc = "chunks" /\ todo = <<>>
  /\ chunk_tree' = Chunks(tree_items)
  /\ IF logical_to_physical_address(chunk_tree', ChunkRoot) = None
     THEN pc' = "panic" /\ UNCHANGED <<todo, tree_items>>
     ELSE /\ pc' = "tree"
          /\ todo' = <<IF attempt = 0 THEN SuperblockOf(superblock).root_tree
                       ELSE SuperblockOf(superblock).root_backups[attempt - 1].tree_root>>
          /\ tree_items' = {}
  /\ UNCHANGED <<fsVars, deviceVars, attempt, errors, reading, root_tree, filesystem_trees, pathVars>>

(* btrfs_read_tree_recurse_logical_address: a node that cannot be read is  *)
(* noted, a device that was not given is a panic.                          *)
ReadTreeNode ==
  /\ pc = "tree" /\ todo # <<>>
  /\ \E place \in {logical_to_physical_address(chunk_tree, Head(todo))} :
       LET missing == place # None /\ place.device_id \notin DOMAIN devices
           node == IF place = None \/ missing THEN None ELSE from_bytes(NodeAt(place))
       IN  /\ pc' = IF missing THEN "panic" ELSE pc
           /\ errors' = IF node = None THEN errors + 1 ELSE errors
           /\ IF node = None THEN todo' = Tail(todo) /\ UNCHANGED tree_items ELSE Visit(node)
  /\ UNCHANGED <<fsVars, deviceVars, attempt, reading, treeVars, pathVars>>

Unread(roots, trees) == {n \in DOMAIN roots : roots[n].key.object_id \notin DOMAIN trees}

(* A tree with an error fails; else the next of read_filesystem_trees.     *)
TreeRead ==
  /\ pc = "tree" /\ todo = <<>>
  /\ IF errors > 0 THEN FailOpen
     ELSE /\ root_tree' = IF reading = None THEN tree_items ELSE root_tree
          /\ filesystem_trees' = IF reading = None THEN filesystem_trees
                                 ELSE WithEntry(filesystem_trees, reading, tree_items)
          /\ \E roots \in {subvolume_root_items(root_tree')} :
               LET unread == Unread(roots, filesystem_trees')
               IN  IF unread = {}
                   THEN pc' = "opened" /\ reading' = None /\ UNCHANGED todo
                   ELSE /\ reading' = roots[Min(unread)].key.object_id
                        /\ todo' = <<roots[Min(unread)].data[1].root_node_block_number>>
                        /\ UNCHANGED pc
          /\ tree_items' = {}
          /\ UNCHANGED <<attempt, errors, chunk_tree>>
  /\ UNCHANGED <<fsVars, deviceVars, pathVars>>

-----------------------------------------------------------------------------
(* BtrfsFilesystem::subvolume_path.                                        *)

SubvolumePath(of) ==
  /\ pc = "opened"
  /\ backref' = of
  /\ path_parts' = <<RootBackrefName(of.data)>>
  /\ object_id' = of.data[1].directory_id
  /\ pc' = IF of.key.offset \in DOMAIN filesystem_trees THEN "climb" ELSE "unnamed"
  /\ UNCHANGED <<fsVars, deviceVars, readVars, treeVars>>

(* Mutant of PushFront: the parts are in the wrong order.                  *)
PushBack(name, parts) == Append(parts, name)

PushFront(name, parts) == <<name>> \o parts

(* Up from a directory, by its first link, until a directory is its own    *)
(* parent.                                                                 *)
Climb ==
  /\ pc = "climb"
  /\ \E refs \in {inode_refs(filesystem_trees[backref.key.offset], object_id)} :
       IF refs = <<>>
       THEN pc' = "unnamed" /\ UNCHANGED <<object_id, path_parts>>
       ELSE IF refs[1].key.offset = object_id
       THEN pc' = "named" /\ UNCHANGED <<object_id, path_parts>>
       ELSE /\ path_parts' = PushFront(InodeRefName(Entries(refs[1].data, InodeRef)[0]), path_parts)
            /\ object_id' = refs[1].key.offset
            /\ UNCHANGED pc
  /\ UNCHANGED <<fsVars, deviceVars, readVars, treeVars, backref>>

-----------------------------------------------------------------------------
Done == pc \in {"named", "unnamed", "failed", "panic", "opened"} /\ UNCHANGED vars

Program ==
  AddDevice \/ EndDevices \/ ReadChunkNode \/ ChunkTreeRead \/ ReadTreeNode \/ TreeRead \/ Climb

FileSystem ==
  \/ BeginCommit
  \/ \E a \in Pool : WriteNode(a)
  \/ \E d \in Devices : \E k \in Places[d] : WriteSuper(d, k) \/ LoseSuper(d, k)
  \/ \E p \in DOMAIN disk : LoseNode(p)

Next ==
  \/ FileSystem
  \/ \E list \in Given : Open(list)
  \/ Program
  \/ \E of \in subvolume_root_backrefs(root_tree) : SubvolumePath(of)
  \/ Done

(* The program calls nothing that waits for another.                       *)
Spec == Init /\ [][Next]_vars /\ WF_vars(Program)

-----------------------------------------------------------------------------
(* Properties.                                                             *)

Opened == pc \in {"opened", "climb", "named", "unnamed"}

(* The generation that an attempt to open is about, 0 for an empty backup. *)
Attempted(n) ==
  LET g == SuperblockOf(superblock).generation
      of == {b \in 1..g : b % 4 = n - 1 /\ b > g - 4}
  IN  IF n = 0 THEN g ELSE IF of = {} THEN 0 ELSE CHOOSE b \in of : TRUE

(* The fixed nodes that a generation is read with: of the chunk tree of    *)
(* the superblock and of the trees of the subvolumes.                      *)
SharedNodes ==
  FixedNodes(ChunkRoot) \cup
    UNION {FixedNodes(i.data[1].root_node_block_number) :
             i \in {i \in OtherRoots : i.key.item_type = RootItem /\ i.key.object_id >= 256}}

(* What the program can read of generation g is as it was written: of each *)
(* node the first copy.                                                    *)
Readable(g) ==
  /\ g > 0
  /\ \A a \in {history[g].root, history[g].fs} : disk[Physical(a)] = NodeOf(g, history[g], a)
  /\ \A a \in SharedNodes : disk[Physical(a)] = Fixed[a]

AllGiven == \A c \in AllChunks : Head(c.stripes).device_id \in DOMAIN devices

TreesOf(g) ==
  LET roots == {i \in RootItems(g, history[g].fs) :
                  i.key.item_type = RootItem /\ (i.key.object_id = FsTree \/ i.key.object_id >= 256)}
      root(t) == (CHOOSE i \in roots : i.key.object_id = t).data[1].root_node_block_number
  IN  [t \in {i.key.object_id : i \in roots} |->
         IF t = FsTree THEN FsItems[g] ELSE FixedItems(root(t))]

(* The types of the state of the devices and of the program.               *)
TypeOK ==
  /\ \A d \in Devices : \A k \in Places[d] :
       supers[d][k] = None \/ supers[d][k].generation \in 1..Len(history)
  /\ Len(history) <= MaxGeneration /\ damage <= MaxDamage
  /\ commit.nodes \subseteq Pool /\ commit.supers \subseteq AllSupers
  /\ pc \in {"off", "devices", "chunks", "tree", "opened", "climb", "named", "unnamed", "failed",
             "panic"}
  /\ \A d \in DOMAIN devices : d \in Devices /\ devices[d] \in Places[d]
  /\ superblock \in DOMAIN devices \cup {None}
  /\ attempt \in 0..4 /\ errors \in Nat
  /\ \A n \in DOMAIN todo : todo[n] \in Nat
  /\ reading # None => reading \notin DOMAIN filesystem_trees

(* What has been opened is exactly one generation, every item of each of   *)
(* its trees and no other: that of the newest superblock or, from a backup *)
(* whose nodes have not been reused, that of the backup (open, open_backup,*)
(* from_bytes).  The rest of the state is well typed.                      *)
OpenedExact ==
  /\ TypeOK
  /\ Opened /\ (attempt = 0 \/ Readable(Attempted(attempt)))
       => LET g == Attempted(attempt)
          IN  root_tree = RootItems(g, history[g].fs) /\ filesystem_trees = TreesOf(g)

(* The superblock is the newest of all copies on all devices, a backup is  *)
(* opened only when what comes before it cannot be read, and opening fails *)
(* only when of every generation that the superblock names the first copy  *)
(* of a node is lost or reused, or one of the superblock's own chunk tree  *)
(* (BtrfsDevice::new, BtrfsDeviceSet::new, open_try_backups).  It may fail *)
(* while another copy of that node is whole, or the chunk tree that the    *)
(* backup names: the program reads neither.                                *)
BestEffort ==
  superblock # None =>
    /\ \A d \in DOMAIN devices : \A k \in Places[d] :
         supers[d][k] # None => supers[d][k].generation <= Attempted(0)
    /\ Opened => \A n \in 0..attempt - 1 : ~Readable(Attempted(n))
    /\ pc = "failed" /\ AllGiven => \A n \in 0..4 : ~Readable(Attempted(n))

(* Wherever a loss of power interrupts a commit, when nothing else is lost *)
(* and all devices are given the file system opens without a backup, as it *)
(* is after the commit or before it, and as it is after it when it is      *)
(* complete (the order of max_by_key and of the writes of a commit).       *)
SurvivesPowerLoss ==
  damage = 0 /\ AllGiven /\ superblock # None =>
    /\ pc \notin {"failed", "panic"}
    /\ attempt = 0
    /\ Attempted(0) \in Len(history) - 1..Len(history)
    /\ commit = Nothing => Attempted(0) = Len(history)

(* Where a name and a path lead from a directory.                          *)
ChildOf(items, directory, name) ==
  LET entry == dir_item_entry(items, directory, name)
  IN  IF entry = None THEN None ELSE entry[1].child_key.object_id

Lookup(items, directory, path) ==
  LET at[n \in 0..Len(path)] ==
        IF n = 0 THEN directory ELSE ChildOf(items, at[n - 1], path[n])
  IN  at[Len(path)]

(* The path of a subvolume leads from the root directory of its parent     *)
(* tree down to the subvolume, also past names that share a hash           *)
(* (subvolume_path against dir_item_entry).                                *)
PathRoundTrip ==
  pc \in {"named", "unnamed"} /\ (attempt = 0 \/ Readable(Attempted(attempt))) =>
    /\ pc = "named"
    /\ Lookup(filesystem_trees[backref.key.offset], 256, path_parts) = backref.key.object_id

(* Whatever is damaged, opening ends, and so does naming a subvolume       *)
(* (open_try_backups, subvolume_path).                                     *)
OpenReturns ==
  /\ pc = "devices" ~> pc \in {"opened", "failed", "panic"}
  /\ pc = "climb" ~> pc \in {"named", "unnamed"}
=============================================================================
