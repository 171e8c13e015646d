----------------------------- MODULE BlockCache -----------------------------
(***************************************************************************)
(* The block cache of an Ext2 volume: a map from block numbers to cached   *)
(* blocks, and a list of all of them with the least recently used first.   *)
(* The disk may fail; ReadBlockCached and WriteBlockCached hold            *)
(* m_blocksLock and are one step each.                                     *)
(***************************************************************************)
EXTENDS Naturals, Sequences, SequencesExt, FiniteSets

CONSTANTS
    Blocks, Data,
    Slots,          \* cached blocks that fit below EXT2_BLOCKCACHE_LIMIT
    None

VARIABLES
    map,      \* blockCache
    list,     \* cachedBlockList
    slot,     \* block and data of each cached block
    disk,     \* what the device holds
    failed,   \* blocks whose last write failed
    halted    \* the assertion about the block to evict failed

vars == <<map, list, slot, disk, failed, halted>>

Init ==
    /\ disk \in [Blocks -> Data]
    /\ map = [b \in Blocks |-> None]
    /\ slot = [s \in Slots |-> [block |-> None, data |-> None]]
    /\ list = <<>> /\ failed = {} /\ halted = FALSE

\* A cached block goes to the end of the list.
Without(s) == RemoveAt(list, CHOOSE i \in DOMAIN list : list[i] = s)
ReadHit(b) ==
    /\ ~halted /\ map[b] # None
    /\ list' = Append(Without(map[b]), map[b])
    /\ UNCHANGED <<map, slot, disk, failed, halted>>

Full == Len(list) = Cardinality(Slots)
Victim == Head(list)
Slot == IF Full THEN Victim ELSE CHOOSE s \in Slots : s \notin ToSet(list)

\* A miss reuses the least recent block when the cache is full; the block that the disk
\* fails to fill goes to the front, named after a block it does not hold.
ReadMiss(b, ok) ==
    LET kept == IF Full THEN Tail(list) ELSE list
        left == IF Full THEN [map EXCEPT ![slot[Victim].block] = None] ELSE map
    IN  /\ ~halted /\ map[b] = None
        /\ Full => map[slot[Victim].block] # None
        /\ slot' = [slot EXCEPT ![Slot] = [block |-> b, data |-> IF ok THEN disk[b] ELSE None]]
        /\ list' = IF ok THEN Append(kept, Slot) ELSE <<Slot>> \o kept
        /\ map' = IF ok THEN [left EXCEPT ![b] = Slot] ELSE left
        /\ UNCHANGED <<disk, failed, halted>>

\* The assertion: the block to evict is in the map.
ReadAsserts(b) ==
    /\ ~halted /\ map[b] = None /\ Full /\ map[slot[Victim].block] = None
    /\ halted' = TRUE
    /\ UNCHANGED <<map, list, slot, disk, failed>>

WriteAroundCache(b, v, ok) ==
    /\ ~halted
    /\ disk' = IF ok THEN [disk EXCEPT ![b] = v] ELSE disk
    /\ failed' = IF ok THEN failed \ {b} ELSE failed \cup {b}
    /\ UNCHANGED <<map, list, slot, halted>>
Write(b, v, ok) ==
    /\ ~halted
    /\ slot' = IF map[b] = None THEN slot ELSE [slot EXCEPT ![map[b]].data = v]
    /\ disk' = IF ok THEN [disk EXCEPT ![b] = v] ELSE disk
    /\ failed' = IF ok THEN failed \ {b} ELSE failed \cup {b}
    /\ UNCHANGED <<map, list, halted>>

\* EraseInode takes a block it frees out of the map and leaves it in the list.
Forget(b) ==
    /\ ~halted /\ map[b] # None
    /\ map' = [map EXCEPT ![b] = None]
    /\ UNCHANGED <<list, slot, disk, failed, halted>>

Next ==
    \E b \in Blocks :
       \/ ReadHit(b) \/ ReadAsserts(b) \/ Forget(b)
       \/ \E ok \in BOOLEAN : ReadMiss(b, ok) \/ \E v \in Data : Write(b, v, ok)

Spec == Init /\ [][Next]_vars
-----------------------------------------------------------------------------
\* What the map finds is in the list, is named after its block, is found under no other
\* number, and agrees with the disk unless the last write of the block failed; whatever
\* was evicted, forgotten or not filled before.
Coherent ==
    /\ \A b \in Blocks : map[b] # None =>
          /\ map[b] \in ToSet(list) /\ slot[map[b]].block = b
          /\ b \notin failed => slot[map[b]].data = disk[b]
    /\ IsInjective(list)
=============================================================================
