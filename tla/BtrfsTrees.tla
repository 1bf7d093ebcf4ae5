----------------------------- MODULE BtrfsTrees -----------------------------
(***************************************************************************)
(* The trees of btrfs (rust-btrfs/src/diskformat/tree): sets of the items  *)
(* of their leaves.  The chunk tree maps logical addresses to places on    *)
(* the devices; addresses count nodes.  Object ids are read as i64.        *)
(***************************************************************************)
EXTENDS BtrfsItems

CONSTANT Hash     \* Hash[name]: btrfs_crc32_linux, on which names may collide

FsTree == 5

-----------------------------------------------------------------------------
(* Ord of BtrfsKey: object ids are compared as u64.                        *)
Before(j, k) ==
  \/ IF j.object_id < 0 <=> k.object_id < 0 THEN j.object_id < k.object_id ELSE k.object_id < 0
  \/ j.object_id = k.object_id /\ j.item_type < k.item_type
  \/ j.object_id = k.object_id /\ j.item_type = k.item_type /\ j.offset < k.offset

(* The order of a BTreeMap.                                                *)
InOrder(items) ==
  [n \in 1..Cardinality(items) |->
     CHOOSE i \in items : Cardinality({j \in items : Before(j.key, i.key)}) = n - 1]

(* BTreeMap::insert of the items of a leaf.                                *)
Insert(tree_items, items) ==
  {i \in tree_items : \A j \in items : j.key # i.key} \cup items

(* tree_item_accessor! and tree_item_range_accessor!                       *)
GetByKey(tree_items, key) ==
  LET found == {i \in tree_items : i.key = key}
  IN  IF found = {} THEN None ELSE CHOOSE i \in found : TRUE

OfObject(tree_items, object_id, item_type) ==
  InOrder({i \in tree_items : i.key.object_id = object_id /\ i.key.item_type = item_type})

(* The trees of a file system and of its subvolumes, in their order; the   *)
(* other trees have object ids of their own.                               *)
subvolume_root_items(tree_items) ==
  InOrder({i \in tree_items :
             /\ i.key.item_type = RootItem
             /\ i.key.object_id >= 128 \/ i.key.object_id <= -128 \/ i.key.object_id = FsTree})

subvolume_root_backrefs(tree_items) == {i \in tree_items : i.key.item_type = RootBackref}

inode_refs(tree_items, object_id) == OfObject(tree_items, object_id, InodeRef)

(* Entries whose names have one hash share an item; the first with the     *)
(* name is found.                                                          *)
dir_item_entry(tree_items, object_id, name) ==
  LET dir_item == GetByKey(tree_items, Key(object_id, DirItem, Hash[name]))
      entries == IF dir_item = None THEN <<>> ELSE Entries(dir_item.data, DirItem)
      found == {p \in DOMAIN entries : DirItemName(entries[p]) = name}
  IN  IF found = {} THEN None ELSE entries[Min(found)]

-----------------------------------------------------------------------------
(* Mutant of Covers: the end is off by one.                                *)
CoversEnd(chunk, address) ==
  address >= chunk.offset /\ address <= chunk.offset + chunk.chunk_size

Covers(chunk, address) ==
  address >= chunk.offset /\ address < chunk.offset + chunk.chunk_size

(* The first stripe is read, other copies never.                           *)
AtStripe(chunk, address) ==
  LET stripe == Head(chunk.stripes)
  IN  [device_id |-> stripe.device_id, offset |-> address - chunk.offset + stripe.offset]

(* The system chunks of the superblock, in which the chunk tree lies.      *)
system_logical_to_physical(superblock, address) ==
  LET found == {c \in SystemChunks(superblock) : Covers(c.chunk, address)}
      first == CHOOSE c \in found : \A d \in found : c.at <= d.at
  IN  IF found = {} THEN None ELSE AtStripe(first.chunk, address)

(* BtrfsChunkTree::new: the chunks of the items of the chunk tree.         *)
Chunks(tree_items) ==
  {Chunk(i.key, i.data) : i \in {i \in tree_items : i.key.item_type = ChunkItem}}

(* The first chunk that has the address.                                   *)
logical_to_physical_address(chunk_tree, address) ==
  LET found == {c \in chunk_tree : Covers(c, address)}
  IN  IF found = {} THEN None
      ELSE AtStripe(CHOOSE c \in found : \A d \in found : c.offset <= d.offset, address)
=============================================================================
