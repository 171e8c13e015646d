-------------------------------- MODULE Ext2 --------------------------------
(***************************************************************************)
(* The Ext2 volume: bitmaps, counts and inodes on disk, the nodes of the   *)
(* inode cache, and the operations of Ext2Node, each one step (it has the  *)
(* lock of its file).  One block group, whose block 0 has the superblock;  *)
(* inode 1 is the root directory.  A size counts halves of blocks; what a  *)
(* data block holds is left out, a directory block holds entries and an    *)
(* indirect block holds pointers.                                          *)
(***************************************************************************)
EXTENDS Integers, Sequences, SequencesExt, FiniteSets

CONSTANTS
    BlockCount, InodeCount,   \* super.blockCount, super.inodeCount
    Names,                    \* names in directories
    Direct,                   \* EXT2_DIRECT_BLOCK_COUNT, 12 in the code
    Pointers,                 \* pointers in a block
    PerBlock,                 \* entries of a directory in a block
    Sectors,                  \* blocksize / 512
    MaxSize, MaxHandles, MaxLinks,   \* bounds on sizes, handles and links
    Erasing                   \* whether the last link of a file is removed

VARIABLES
    disk,   \* bitmaps, free counts, inode table and blocks
    node    \* the inode cache; the root's node is kept for ever

Block == 0 .. BlockCount - 1
Inode == 1 .. InodeCount
Root == 1
Table == Direct + 1                   \* index of the doubly indirect pointer
Doubly == Direct + Pointers          \* first block that is doubly indirect

NoInode == [kind |-> "none", links |-> 0, size |-> 0, count |-> 0, map |-> [i \in 0 .. Table |-> 0]]
NoNode == [e |-> NoInode, handles |-> -1, names |-> [n \in Names |-> 0]]
NodeOf(e) == [NoNode EXCEPT !.e = e, !.handles = 0]
Cached(n) == node[n].handles >= 0
Lowest(S) == CHOOSE x \in S : \A y \in S : x <= y
-----------------------------------------------------------------------------
(* Blocks.  An operation on inode e is a function of a volume v with the   *)
(* inode in it: v.e is the copy in the node, v.d the disk.                 *)

PointersIn(d, b) ==
    IF DOMAIN d.block[b] = 0 .. Pointers - 1 THEN d.block[b] ELSE [i \in 0 .. Pointers - 1 |-> 0]

GetInodeBlock(d, e, i) ==
    IF i < Direct THEN e.map[i]
    ELSE IF i < Doubly THEN PointersIn(d, e.map[Direct])[i - Direct]
    ELSE PointersIn(d, PointersIn(d, e.map[Table])[(i - Doubly) \div Pointers])[(i - Doubly) % Pointers]

GetInodeBlocks(d, e, i, n) == {GetInodeBlock(d, e, k) : k \in i .. i + n - 1}

\* The block AllocateBlock finds, 0 when the volume is full: the caller does not ask.
FreshBlock(d) ==
    IF d.free <= 0 \/ Block \ (d.bits \cup {0}) = {} THEN 0 ELSE Lowest(Block \ (d.bits \cup {0}))

AllocateBlockUnmarked(d) == IF FreshBlock(d) = 0 THEN d ELSE [d EXCEPT !.free = @ - 1]
AllocateBlock(d) ==
    IF FreshBlock(d) = 0 THEN d ELSE [d EXCEPT !.bits = @ \cup {FreshBlock(d)}, !.free = @ - 1]

FreeBlock(d, b) == [d EXCEPT !.bits = @ \ {b}, !.free = @ + 1]

PointTo(d, b, i, to) == [d EXCEPT !.block[b] = [PointersIn(d, b) EXCEPT ![i] = to]]

SetInodeBlock(v, i, b) ==
    IF i < Direct THEN [v EXCEPT !.e.map[i] = b]
    ELSE IF i < Doubly
         THEN LET u == IF v.e.map[Direct] # 0 THEN v
                       ELSE [d |-> AllocateBlock(v.d), e |-> [v.e EXCEPT !.map[Direct] = FreshBlock(v.d)]]
              IN  [u EXCEPT !.d = PointTo(u.d, u.e.map[Direct], i - Direct, b)]
         ELSE LET table == PointersIn(v.d, v.e.map[Table])[(i - Doubly) \div Pointers]
              IN  [v EXCEPT !.d = PointTo(v.d, table, (i - Doubly) % Pointers, b)]

\* Blocks from .. to, one after the other: AllocateBlock, then SetInodeBlock.
Extend(v, from, to) ==
    LET grown[i \in from - 1 .. to] ==
            IF i < from THEN v
            ELSE SetInodeBlock([grown[i - 1] EXCEPT !.d = AllocateBlock(@)], i, FreshBlock(grown[i - 1].d))
    IN  grown[to]

SyncInode(d, n, e) == [d EXCEPT !.inode[n] = e]
-----------------------------------------------------------------------------
(* Inodes *)

CreateNode(d, kind, links) ==
    LET n == Lowest(Inode \ d.ibits)
        e == [NoInode EXCEPT !.kind = kind, !.links = links, !.count = 1, !.map[0] = FreshBlock(d)]
    IN  [d |-> SyncInode([AllocateBlock(d) EXCEPT !.ibits = @ \cup {n}, !.ifree = @ - 1], n, e), n |-> n, e |-> e]

CanCreate(d) == d.ifree > 0 /\ d.ibits # Inode

\* The loop runs over blockCount * (blocksize / 512) where blockCount counts sectors
\* already; the bit cleared is that of the next inode, and the bitmap of inodes is
\* written over the bitmap of blocks.
EraseInode(d, n, e) ==
    LET limit == e.count * Sectors * Sectors
        freed[i \in -1 .. limit - 1] ==
            IF i < 0 THEN d ELSE FreeBlock(freed[i - 1], GetInodeBlock(freed[i - 1], e, i))
        singly == IF e.map[Direct] = 0 THEN freed[limit - 1] ELSE FreeBlock(freed[limit - 1], e.map[Direct])
        bitmap == d.ibits \ {n + 1}
    IN  [singly EXCEPT !.bits = {b \in Block : b + 1 \in bitmap}, !.ifree = @ + 1]

\* CleanNode, of a node nobody has open.
CleanNode(d, n, e) == IF e.links = 0 THEN EraseInode(d, n, e) ELSE d
-----------------------------------------------------------------------------
(* Directories *)

Entry(name, n) == [name |-> name, inode |-> n]
EntriesIn(d, b) == IF d.block[b] = <<>> \/ 1 \notin DOMAIN d.block[b] \/ 0 \in DOMAIN d.block[b]
                   THEN <<>> ELSE d.block[b]

\* ListDir reads one block more than the directory has, ReadDir and FindDir do not.
Listing(d, e, upto) == FlattenSeq([k \in 1 .. upto |-> EntriesIn(d, GetInodeBlock(d, e, k - 1))])
ListDir(d, e) == Listing(d, e, e.count + 1)
ReadDir(d, e) == Listing(d, e, e.count)

WriteDir(v, n, ents) ==
    LET chunks == (Len(ents) + PerBlock - 1) \div PerBlock
        Part(k) == SubSeq(ents, (k - 1) * PerBlock + 1, IF k = chunks THEN Len(ents) ELSE k * PerBlock)
        Grown(u, k) == IF k > u.e.count THEN [Extend(u, k, k) EXCEPT !.e.count = @ + 1] ELSE u
        wrote[k \in 0 .. chunks] ==
            IF k = 0 THEN v
            ELSE Grown([wrote[k - 1] EXCEPT !.d.block[GetInodeBlock(wrote[k - 1].d, wrote[k - 1].e, k - 1)] = Part(k)], k)
        done == [wrote[chunks] EXCEPT !.e.size = 2 * chunks]
    IN  [done EXCEPT !.d = SyncInode(@, n, done.e)]

Holds(ents, name) == \E i \in DOMAIN ents : ents[i].name = name
InodeIn(ents, name) == ents[CHOOSE i \in DOMAIN ents : ents[i].name = name].inode

\* The inode a name stands for, 0 when it is not found: from the cache of the directory,
\* or from its blocks.
Lookup(n, name) ==
    LET ents == ReadDir(disk, node[n].e)
    IN  IF node[n].names[name] # 0 THEN node[n].names[name]
        ELSE IF Holds(ents, name) THEN InodeIn(ents, name) ELSE 0

IsDirectory(n) == Cached(n) /\ node[n].e.kind = "dir"
-----------------------------------------------------------------------------
\* A volume just mounted: the constructor reads the superblock, the descriptors and the
\* root inode; its feature checks refuse a volume and change nothing.
Init ==
    LET root == [NoInode EXCEPT !.kind = "dir", !.links = 2, !.size = 2, !.count = 1, !.map[0] = 1]
    IN  /\ disk = [bits |-> {0, 1}, free |-> BlockCount - 2, ibits |-> {Root}, ifree |-> InodeCount - 1,
                   inode |-> [[n \in Inode |-> NoInode] EXCEPT ![Root] = root],
                   block |-> [b \in Block |-> IF b = 1 THEN <<Entry(".", Root), Entry("..", Root)>> ELSE <<>>]]
        /\ node = [[n \in Inode |-> NoNode] EXCEPT ![Root] = [NodeOf(root) EXCEPT !.handles = 1]]

\* Look a name up; the node is read from the disk unless it is in the inode cache.
FindDir(n, name) ==
    LET m == Lookup(n, name)
    IN  /\ IsDirectory(n) /\ m # 0
        /\ node' = [node EXCEPT ![n].names[name] = m, ![m] = IF Cached(m) THEN @ ELSE NodeOf(disk.inode[m])]
        /\ UNCHANGED disk

\* Reading a directory puts the entry it returns into the cache of the directory.
ReadEntry(n, name) ==
    /\ IsDirectory(n) /\ Holds(ReadDir(disk, node[n].e), name)
    /\ node' = [node EXCEPT ![n].names[name] = InodeIn(ReadDir(disk, node[n].e), name)]
    /\ UNCHANGED disk

Create(n, name) ==
    LET new == CreateNode(disk, "file", 1)
        dir == WriteDir([d |-> new.d, e |-> node[n].e], n, Append(ListDir(new.d, node[n].e), Entry(name, new.n)))
    IN  /\ IsDirectory(n) /\ Lookup(n, name) = 0 /\ CanCreate(disk)
        /\ ~Holds(ListDir(new.d, node[n].e), name)
        /\ disk' = dir.d
        /\ node' = [node EXCEPT ![new.n] = NodeOf(new.e), ![n].e = dir.e]

CreateDirectory(n, name) ==
    LET new == CreateNode(disk, "dir", 2)
        own == WriteDir([d |-> new.d, e |-> new.e], new.n,
                        ListDir(new.d, new.e) \o <<Entry(".", new.n), Entry("..", n)>>)
        parent == [node[n].e EXCEPT !.links = @ + 1]
        dir == WriteDir([d |-> own.d, e |-> parent], n, Append(ListDir(own.d, parent), Entry(name, new.n)))
    IN  /\ IsDirectory(n) /\ Lookup(n, name) = 0 /\ CanCreate(disk)
        /\ ~Holds(ListDir(own.d, parent), name)
        /\ disk' = dir.d
        /\ node' = [node EXCEPT ![new.n] = NodeOf(own.e), ![n].e = dir.e]

Link(n, m, name) ==
    LET e == [node[m].e EXCEPT !.links = @ + 1]
        ents == ListDir(disk, node[n].e)
        dir == WriteDir([d |-> SyncInode(disk, m, e), e |-> node[n].e], n, Append(ents, Entry(name, m)))
    IN  /\ IsDirectory(n) /\ Cached(m) /\ node[m].e.kind = "file" /\ node[m].e.links < MaxLinks
        /\ ~Holds(ents, name)
        /\ disk' = dir.d
        /\ node' = [node EXCEPT ![m].e = e, ![n].e = dir.e]

\* What removing a link does to a file: to its node if it is cached, else to the disk. A
\* node with no handle is dropped, and what only it knew is lost.
Unlinked(m) ==
    LET e == [node[m].e EXCEPT !.links = @ - 1]
        old == [disk.inode[m] EXCEPT !.links = @ - 1]
    IN  IF Cached(m)
        THEN IF node[m].handles = 0 THEN [d |-> CleanNode(disk, m, e), node |-> NoNode]
             ELSE [d |-> disk, node |-> [node[m] EXCEPT !.e = e]]
        ELSE [d |-> IF old.links # 0 THEN SyncInode(disk, m, old) ELSE EraseInode(disk, m, old), node |-> NoNode]

Kind(m) == IF Cached(m) THEN node[m].e.kind ELSE disk.inode[m].kind
LinksOf(m) == IF Cached(m) THEN node[m].e.links ELSE disk.inode[m].links

Unlink(n, name, directories) ==
    LET ents == ListDir(disk, node[n].e)
        m == InodeIn(ents, name)
        dir == WriteDir([d |-> Unlinked(m).d, e |-> node[n].e], n, SelectSeq(ents, LAMBDA x : x.name # name))
    IN  /\ IsDirectory(n) /\ Holds(ents, name)
        /\ ~Erasing => LinksOf(m) > 1
        /\ IF Kind(m) = "dir" /\ ~directories
           THEN node' = [node EXCEPT ![n].names[name] = 0] /\ UNCHANGED disk
           ELSE /\ disk' = dir.d
                /\ node' = [node EXCEPT ![m] = Unlinked(m).node, ![n].names[name] = 0, ![n].e = dir.e]

Open(n) ==
    /\ Cached(n) /\ n # Root /\ node[n].handles < MaxHandles
    /\ node' = [node EXCEPT ![n].handles = @ + 1]
    /\ UNCHANGED disk

\* The last handle: the node leaves the cache, and the disk if it has no name.
Close(n) ==
    /\ n # Root /\ Cached(n) /\ node[n].handles > 0
    /\ node' = [node EXCEPT ![n] = IF @.handles = 1 THEN NoNode ELSE [@ EXCEPT !.handles = @ - 1]]
    /\ disk' = IF node[n].handles = 1 THEN CleanNode(disk, n, node[n].e) ELSE disk

\* The blocks a write needs: as many as its end, one more if the end is a boundary. The
\* data goes to them one by one; block 0 stands for one that could not be allocated.
Write(n, offset, size) ==
    LET limit == (offset + size) \div 2
        old == node[n].e
        v == [d |-> disk, e |-> old]
        grown == IF limit < old.count THEN v ELSE [Extend(v, old.count, limit) EXCEPT !.e.count = limit + 1]
        e == [grown.e EXCEPT !.size = IF offset + size > @ THEN offset + size ELSE @]
        into == GetInodeBlocks(grown.d, e, offset \div 2, limit - offset \div 2 + 1)
        data == [grown.d EXCEPT !.block = [b \in Block |-> IF b \in into THEN <<>> ELSE @[b]]]
    IN  /\ Cached(n) /\ node[n].e.kind = "file" /\ node[n].handles > 0
        /\ disk' = IF e # old THEN SyncInode(data, n, e) ELSE data
        /\ node' = [node EXCEPT ![n].e = e]

Truncate(n, length) ==
    LET old == node[n].e
        needed == (length + 1) \div 2
        v == [d |-> disk, e |-> old]
        grown == IF length <= 2 * old.count THEN v
                 ELSE [Extend(v, old.count, needed - 1) EXCEPT !.e.count = needed]
        e == [grown.e EXCEPT !.size = length]
    IN  /\ Cached(n) /\ node[n].e.kind = "file" /\ node[n].handles > 0
        /\ disk' = SyncInode(grown.d, n, e)
        /\ node' = [node EXCEPT ![n].e = e]

Next ==
    \/ \E n \in Inode, name \in Names :
          \/ FindDir(n, name) \/ ReadEntry(n, name) \/ Create(n, name) \/ CreateDirectory(n, name)
          \/ \E m \in Inode : Link(n, m, name)
          \/ \E directories \in BOOLEAN : Unlink(n, name, directories)
    \/ \E n \in Inode : Open(n) \/ Close(n)
    \/ \E n \in Inode, offset, size \in 1 .. MaxSize : offset + size <= MaxSize /\ Write(n, offset - 1, size)
    \/ \E n \in Inode, length \in 0 .. MaxSize : Truncate(n, length)

vars == <<disk, node>>
Spec == Init /\ [][Next]_vars
-----------------------------------------------------------------------------
Current(n) == IF Cached(n) THEN node[n].e ELSE disk.inode[n]
Living == {n \in Inode : LinksOf(n) > 0 \/ Cached(n)}

\* Every place that holds a block of inode n, and the block.
Holdings(n) ==
    LET e == Current(n)
    IN  {<<n, i, GetInodeBlock(disk, e, i)>> : i \in 0 .. e.count - 1} \cup {<<n, -1, e.map[Direct]>>}

Held == UNION {Holdings(n) : n \in Living}

\* No block has two owners, a block that has one is marked in the bitmap, and the counts
\* of the superblock agree with the bitmaps. Block 0 is what a full volume gives: several
\* files may then have it.
NoBlockShared ==
    /\ \A x, y \in Held : x[3] = y[3] /\ x[3] # 0 => x = y
    /\ {x[3] : x \in Held} \subseteq disk.bits
    /\ disk.free = BlockCount - Cardinality(disk.bits)
    /\ disk.ifree = InodeCount - Cardinality(disk.ibits)
    /\ Living \subseteq disk.ibits

\* freeBlockCount and freeInodeCount are what the bitmaps say.
CountsTrue ==
    /\ disk.free = BlockCount - Cardinality(disk.bits)
    /\ disk.ifree = InodeCount - Cardinality(disk.ibits)

\* The names of inode m, over all directories that live.
NamesOf(m) ==
    {at \in Living \X Names : LET n == at[1]  x == at[2]
                              IN  Current(n).kind = "dir" /\ Holds(ReadDir(disk, Current(n)), x)
                                  /\ InodeIn(ReadDir(disk, Current(n)), x) = m}

\* An inode has at least as many links, in memory and on the disk, as names, so what is
\* named is not erased; and the cache of a directory never says anything its blocks do not.
LinksCoverNames ==
    /\ \A m \in Inode : Cardinality(NamesOf(m)) <= LinksOf(m) /\ Cardinality(NamesOf(m)) <= disk.inode[m].links
    /\ \A n \in Inode, x \in Names :
          node[n].names[x] # 0 => /\ Holds(ReadDir(disk, node[n].e), x)
                                  /\ InodeIn(ReadDir(disk, node[n].e), x) = node[n].names[x]
=============================================================================
