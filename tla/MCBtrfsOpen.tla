---------------------------- MODULE MCBtrfsOpen -----------------------------
EXTENDS BtrfsOpen

CONSTANTS x, y, s

(* Device 1 has two superblocks, device 2 has one.                         *)
MCPlaces == <<{0, 1}, {0}>>

(* The second chunk begins where the first one ends, and so on.  The nodes *)
(* of the first chunk have a second copy.                                  *)
Stripes1 == <<Stripe(1, 10), Stripe(2, 10)>>
Stripes2 == <<Stripe(1, 15)>>
Stripes3 == <<Stripe(1, 20)>>
Stripes4 == <<Stripe(2, 30)>>
Stripes5 == <<Stripe(1, 40)>>

MCChunk(offset, size, stripes) == [offset |-> offset, chunk_size |-> size, stripes |-> stripes]

(* Three system chunks, then cells that are not in use.                    *)
MCSystemList == <<MCChunk(1, 2, Stripes1), MCChunk(3, 1, Stripes2), MCChunk(11, 2, Stripes5)>>
MCUnused == <<None, None>>

MCAllChunks == Range(MCSystemList) \cup {MCChunk(4, 3, Stripes3), MCChunk(7, 4, Stripes4)}

Internal(children) ==
  Node(1, Len(children), [n \in DOMAIN children |-> InternalItem(Key(n, 0, 0), children[n])])

Inode(object) == Key(object, 1, 0)

(* Names; x and yx share a hash.                                           *)
X == <<x>>
YX == <<y, x>>
S == <<s>>
Up == <<y, y>>

MCHash == X :> 3 @@ YX :> 3 @@ S :> 7

Link(parent, name) == [parent |-> parent, name |-> name]

Entry(child_key, name) == [child_key |-> child_key, name |-> name]

(* The subvolume is in yx/x, then in x, then in yx/x again.                *)
Home(g) == IF g = 2 THEN 257 ELSE 259

(* The top tree, and the tree of subvolume 256.                            *)
TopTree(g) ==
  [links |-> 256 :> Link(256, Up) @@ 257 :> Link(256, X) @@ 258 :> Link(256, YX) @@ 259 :> Link(258, X),
   names |-> <<256, 3>> :> <<Entry(Inode(258), YX), Entry(Inode(257), X)>>
               @@ <<258, 3>> :> <<Entry(Inode(259), X)>>
               @@ <<Home(g), 7>> :> <<Entry(Key(256, RootItem, 0), S)>>]

SubTree == [links |-> 256 :> Link(256, Up), names |-> <<256, 7>> :> <<Entry(Key(257, RootItem, 1), S)>>]

MCDirectories == [g \in 1..4 |-> FsTree :> TopTree(g) @@ 256 :> SubTree]

LinkItems(tree) == {LinkItem(d, tree.links[d]) : d \in DOMAIN tree.links}

NamesItems(tree) == {NamesItem(at, tree.names[at]) : at \in DOMAIN tree.names}

MCFsItems == [g \in 1..4 |-> LinkItems(TopTree(g)) \cup NamesItems(TopTree(g))]

(* Nodes 1-3: the first chunk tree; 11, 2, 12: the one that generation 3   *)
(* has written anew; 4-6: the tree of subvolume 256.                       *)
MCChunkRoots == <<1, 1, 11, 11>>

MCFixed ==
  1 :> Internal(<<2, 3>>)
    @@ 2 :> Leaf({ChunkItemOf(c) : c \in Range(MCSystemList)})
    @@ 3 :> Leaf({ChunkItemOf(c) : c \in MCAllChunks \ Range(MCSystemList)})
    @@ 4 :> Internal(<<5, 6>>)
    @@ 5 :> Leaf(LinkItems(SubTree))
    @@ 6 :> Leaf(NamesItems(SubTree))
    @@ 11 :> Internal(<<2, 12>>)
    @@ 12 :> Leaf({ChunkItemOf(c) : c \in MCAllChunks \ Range(MCSystemList)})

MCPool == {7, 8, 9, 10}

RootItemOf(tree, offset, address) ==
  [key |-> Key(tree, RootItem, offset), data |-> RootItemData(address)]

(* The extent tree and the data relocation tree are not read; 257 is a     *)
(* snapshot in 256.                                                        *)
MCOtherRoots ==
  {RootItemOf(2, 0, 99), RootItemOf(-9, 0, 99), RootItemOf(256, 0, 4), RootItemOf(257, 1, 6)}

BackrefOf(tree, parent, directory, name) ==
  [key |-> Key(tree, RootBackref, parent), data |-> RootRefData(directory, name)]

MCBackrefs == [g \in 1..4 |-> {BackrefOf(257, 256, 256, S), BackrefOf(256, 5, Home(g), S)}]

MCGiven == {<<>>, <<1>>, <<2>>, <<2, 1>>, <<1, 2, 1>>}
=============================================================================
