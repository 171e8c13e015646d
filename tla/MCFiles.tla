------------------------------- MODULE MCFiles -------------------------------
(* The parts of the file system side by side: a behaviour is one of one of them, the one   *)
(* that "part" names; the variables of the others are Off.                                  *)
EXTENDS Naturals, FiniteSets, TLC

CONSTANTS
    None, Off, x1, x2, f1, f2, p1, p2, t1, t2, t3,
    Blocks, Data, Slots,                               \* BlockCache
    Processes, Callers, Own, OpenFiles, Inodes,        \* FileTable
    MaxHandles, MaxPos, MaxCalls,
    Users, LinkNames, Chunk, MaxSize, MaxOpen          \* TempNode

\* A cache has a slot; a process starts with two handles; a buffer grows by some bytes.
ASSUME CacheAssumption == IsFiniteSet(Slots) /\ Slots # {}
ASSUME TableAssumption ==
    /\ IsFiniteSet(Processes) /\ IsFiniteSet(Callers) /\ IsFiniteSet(OpenFiles)
    /\ Processes # {} /\ OpenFiles # {} /\ Inodes # {} /\ None \notin OpenFiles \cup Inodes \cup Callers
    /\ Own \in [Callers -> Processes] /\ MaxHandles \in Nat /\ MaxHandles >= 2 /\ MaxPos \in Nat
ASSUME TempAssumption ==
    /\ IsFiniteSet(Users) /\ IsFiniteSet(LinkNames) /\ Data # {} /\ None \notin Data
    /\ Chunk \in Nat \ {0} /\ MaxSize \in Nat

VARIABLES
    part,
    disk, node,                                        \* Ext2
    map, list, slot, device, failed, halted,           \* BlockCache
    tree, proc, removed, contended,                    \* Namespace
    table, file, opens, thr, taken, again, calls,      \* FileTable
    temp, links, user, told                            \* TempNode

volume == <<disk, node>>
cache == <<map, list, slot, device, failed, halted>>
names == <<tree, proc, removed, contended>>
handles == <<table, file, opens, thr, taken, again, calls>>
memory == <<temp, links, user, told>>
files == <<part, volume, cache, names, handles, memory>>

V == INSTANCE Ext2 WITH
        BlockCount <- 6, InodeCount <- 3, Names <- {x1, x2}, Direct <- 1, Pointers <- 2, PerBlock <- 4,
        Sectors <- 2, MaxSize <- 3, MaxHandles <- 1, MaxLinks <- 2, Erasing <- FALSE

B == INSTANCE BlockCache WITH disk <- device

Path(absolute, comps) == [absolute |-> absolute, comps |-> comps]

\* Two volumes, "a" and "b" of the root; a link that leads from either to the first.
N == INSTANCE Namespace WITH
        Dirs <- {"root", "a", "b", "dir"}, Files <- {f1, f2}, Links <- {"link"}, Names <- {"a", "b"},
        Root <- "root", Target <- [l \in {"link"} |-> Path(FALSE, <<"..", "a">>)],
        Mounts <- [n \in {"a", "b"} |-> n], MaxSymlinks <- 2, MaxDepth <- 2, Procs <- {p1, p2},
        MaxCalls <- 2,
        Paths <- {Path(TRUE, <<"a", ".", "a">>), Path(TRUE, <<"a", "b">>), Path(TRUE, <<"b", "..", "b", "b">>),
                  Path(FALSE, <<"..">>)},
        Tried <- {Path(FALSE, <<"a", ".", "..">>), Path(FALSE, <<"..", "..", "b">>), Path(FALSE, <<"..">>),
                  Path(FALSE, <<".", "..", "a">>), Path(TRUE, <<"a", "a", "..", "..", "b">>)}

T == INSTANCE FileTable WITH Procs <- Processes, Threads <- Callers, Files <- OpenFiles, Nodes <- Inodes
\* A process with two threads and one with one.
Owner == [t \in {t1, t2, t3} |-> IF t = t3 THEN "p2" ELSE "p1"]

M == INSTANCE TempNode WITH
        Threads <- Users, Names <- LinkNames, MaxHandles <- MaxOpen, node <- temp, names <- links, thr <- user

NoVolume == disk = Off /\ node = Off
NoCache == map = Off /\ list = Off /\ slot = Off /\ device = Off /\ failed = Off /\ halted = Off
NoNames == tree = Off /\ proc = Off /\ removed = Off /\ contended = Off
NoHandles == table = Off /\ file = Off /\ opens = Off /\ thr = Off /\ taken = Off /\ again = Off /\ calls = Off
NoMemory == temp = Off /\ links = Off /\ user = Off /\ told = Off

FilesInit ==
    \/ part = "ext2" /\ V!Init /\ NoCache /\ NoNames /\ NoHandles /\ NoMemory
    \/ part = "cache" /\ B!Init /\ NoVolume /\ NoNames /\ NoHandles /\ NoMemory
    \/ part = "names" /\ N!Init /\ NoVolume /\ NoCache /\ NoHandles /\ NoMemory
    \/ part = "table" /\ T!Init /\ NoVolume /\ NoCache /\ NoNames /\ NoMemory
    \/ part = "memory" /\ M!Init /\ NoVolume /\ NoCache /\ NoNames /\ NoHandles

FilesNext ==
    \/ part = "ext2" /\ V!Next /\ UNCHANGED <<part, cache, names, handles, memory>>
    \/ part = "cache" /\ B!Next /\ UNCHANGED <<part, volume, names, handles, memory>>
    \/ part = "names" /\ N!Next /\ UNCHANGED <<part, volume, cache, handles, memory>>
    \/ part = "table" /\ T!Next /\ UNCHANGED <<part, volume, cache, names, memory>>
    \/ part = "memory" /\ M!Next /\ UNCHANGED <<part, volume, cache, names, handles>>

FilesSpec == FilesInit /\ [][FilesNext]_files

Symmetry == Permutations({x1, x2}) \cup Permutations({f1, f2}) \cup Permutations({p1, p2}) \cup Permutations({t1, t2})
-----------------------------------------------------------------------------
\* Ext2: no block of the volume has two owners, and an inode has a link for every name.
VolumeConsistent == part = "ext2" => V!NoBlockShared /\ V!LinksCoverNames
\* BlockCache: what the cache finds is what the disk holds.
Coherent == part = "cache" => B!Coherent
\* Namespace: a rename never takes the last name of a file away.
FileKept == [][part = "names" => N!KeepsFiles]_files
\* Namespace: chdir ends where its path leads.
ChdirAgrees == part = "names" => N!ChdirAgrees
\* FileTable: sharers of an open file share its position, and it lives as long as one of them.
OpenFileShared == part = "table" => T!PositionShared /\ T!Referenced
\* TempNode: what was written can be read, until the last name or handle goes, and no longer.
FileLives == part = "memory" => M!KeepsBytes /\ M!LastOneDeletes
=============================================================================
