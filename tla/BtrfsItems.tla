----------------------------- MODULE BtrfsItems -----------------------------
(***************************************************************************)
(* The blocks of btrfs and what they hold (rust-btrfs/src/diskformat/core, *)
(* node and item).  A block is read in place: what a struct is cast from   *)
(* are its bytes.  Here a cell is a struct of a fixed size or one byte of  *)
(* a name, so that sizes and offsets, in cells, are still what tells where *)
(* an item, an entry of an item or a chunk ends and the next one begins.   *)
(***************************************************************************)
EXTENDS Integers, Sequences, SequencesExt, FiniteSets

CONSTANT None

InodeRef == 12
DirItem == 84
RootItem == 132
RootBackref == 144
ChunkItem == 228

Slice(cells, offset, size) == SubSeq(cells, offset + 1, offset + size)

(* Where an iterator over parts of different sizes stops, when after[p] is *)
(* the end of the part at p and size is that of all parts.                 *)
Positions(after, size) ==
  LET next == [p \in 0..size |-> IF p < size THEN after[p] ELSE size]
      at[n \in 0..size] == IF n = 0 THEN 0 ELSE next[at[n - 1]]
  IN  {at[n] : n \in 0..size} \ {size}

Key(object_id, item_type, offset) ==
  [object_id |-> object_id, item_type |-> item_type, offset |-> offset]

-----------------------------------------------------------------------------
(* Items that are lists of entries: the links of an inode, the names in a  *)
(* directory that have one hash.                                           *)

InodeRefEntry(name) == <<[name_length |-> Len(name)]>> \o name

DirItemEntry(child_key, name) ==
  <<[child_key |-> child_key, data_size |-> 0, name_size |-> Len(name)]>> \o name

(* The sizes that from_bytes of the entries requires.                      *)
InodeRefSize(data) == 1 + data.name_length

DirItemSize(data) == 1 + data.data_size + data.name_size

(* leaf_item_composite_type_iterator!: an entry says how long it is, so    *)
(* that its slice has the size from_bytes requires.  The entries by where  *)
(* they are.                                                               *)
Entries(cells, item_type) ==
  LET entry_size(p) == IF item_type = InodeRef THEN InodeRefSize(cells[p + 1])
                       ELSE DirItemSize(cells[p + 1])
      after == [p \in 0..Len(cells) |-> p + entry_size(p)]
  IN  [p \in Positions(after, Len(cells)) |-> Slice(cells, p, entry_size(p))]

InodeRefName(entry) == Slice(entry, 1, entry[1].name_length)

DirItemName(entry) == Slice(entry, 1, entry[1].name_size)

(* Where a tree is, and the directory and name of a subvolume.             *)
RootItemData(root_node_block_number) == <<[root_node_block_number |-> root_node_block_number]>>

RootRefData(directory_id, name) ==
  <<[directory_id |-> directory_id, name_length |-> Len(name)]>> \o name

RootBackrefName(data) == Slice(data, 1, data[1].name_length)

-----------------------------------------------------------------------------
(* Chunks: a range of logical addresses and the places of its copies.      *)

Stripe(device_id, offset) == [device_id |-> device_id, offset |-> offset]

ChunkItemData(chunk_size, stripes) ==
  <<[chunk_size |-> chunk_size, num_stripes |-> Len(stripes)]>> \o stripes

(* A chunk as its key and its data say; the stripes follow the data.       *)
Chunk(key, cells) ==
  [offset |-> key.offset, chunk_size |-> cells[1].chunk_size,
   stripes |-> Slice(cells, 1, cells[1].num_stripes)]

(* BtrfsSuperblockSystemChunks: keys, each followed by its chunk, in the   *)
(* first cells of an array.                                                *)
SystemChunks(superblock) ==
  LET cells == superblock.system_chunks
      size == superblock.system_chunks_size
      after == [p \in 0..Len(cells) |-> p + 2 + cells[p + 2].num_stripes]
  IN  {[at |-> p, chunk |-> Chunk(cells[p + 1], SubSeq(cells, p + 2, Len(cells)))] :
         p \in Positions(after, size)}

-----------------------------------------------------------------------------
(* Nodes.                                                                  *)

LeafItemHeader(key, data_offset, data_size) ==
  [key |-> key, data_offset |-> data_offset, data_size |-> data_size]

(* from_bytes of the items: what they require of the size.                 *)
RightSize(item_type, data) ==
  /\ Len(data) >= 1
  /\ item_type = RootItem => Len(data) = 1
  /\ item_type = RootBackref => Len(data) = 1 + data[1].name_length

(* BtrfsLeafItem::from_bytes: an item of a wrong size is invalid.          *)
LeafItem(header, data) ==
  [key |-> header.key, data |-> IF RightSize(header.key.item_type, data) THEN data ELSE None]

(* BtrfsLeafNodeItems: the headers, one after the other; each says where   *)
(* its data lie.                                                           *)
LeafItems(node) ==
  {LeafItem(h, Slice(node.cells, h.data_offset, h.data_size)) :
     h \in Range(Slice(node.cells, 0, node.num_items))}

InternalItem(key, block_number) == [key |-> key, block_number |-> block_number]

(* The nodes below an internal node, in order.                             *)
Children(node) == [n \in 1..node.num_items |-> node.cells[n].block_number]

IsLeaf(node) == node.level = 0

(* Mutant of from_bytes: the checksum is not compared.                     *)
FromBytesUnchecked(node) == node

(* slice_at and BtrfsNode::from_bytes: beyond the end of a device there is *)
(* no node; of what there is, only the checksum is verified.               *)
from_bytes(node) == IF node # None /\ node.checksum_ok THEN node ELSE None
=============================================================================
