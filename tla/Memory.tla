------------------------------- MODULE Memory --------------------------------
(***************************************************************************)
(* Address spaces, the memory objects their regions map, page faults and   *)
(* shared memory.  A page, a frame and a key are numbers; a frame holds    *)
(* "zero" or the name of the address space that wrote it last.  The lock   *)
(* of an address space makes an operation on its regions one step; a page  *)
(* fault holds only the read lock of its region and is several.            *)
(***************************************************************************)
EXTENDS Naturals, Sequences, SequencesExt, FiniteSetsExt

CONSTANTS
    Spaces,      \* the address spaces: Parent, and those it forks
    Parent,
    Space,       \* the address space of each thread
    EndRegion,   \* pages are below it
    Sizes, Hints,   \* of what is mapped, in pages, and where
    MaxKeys, MaxObjects, MaxFrames, MaxCalls   \* bounds

VARIABLES
    space,   \* of each address space: its regions in order, its page table, whether it is in use
    obj,     \* the memory objects that live
    mem,     \* what the frames hold
    table,   \* the shared memory objects by key
    thr,     \* page faults and calls that have begun
    calls,
    wrote    \* what each address space expects its pages to hold

vars == <<space, obj, mem, table, thr, calls, wrote>>

Threads == DOMAIN Space
Pages == 1..EndRegion - 1
Frames == 1..MaxFrames
Objects == 1..MaxObjects
Absent == [frame |-> 0, writable |-> FALSE]
Idle == [pc |-> "idle"]
Unused == [live |-> FALSE]

End(r) == r.base + r.size
Covers(r, page) == page >= r.base /\ page < End(r)
Regions(s) == Range(space[s].regions)
AllRegions == UNION {Regions(s) : s \in Spaces}
Backing(sp) == {r.obj : r \in UNION {Range(sp[s].regions) : s \in Spaces}}
BlocksOf(ob) == (UNION {Range(ob[o].blocks) : o \in {x \in Objects : ob[x].live}}) \ {0}

New(n, blocks, refs, more) ==
    more @@ [live |-> TRUE, blocks |-> blocks, refCount |-> refs, copyOnWrite |-> FALSE,
             shared |-> FALSE, owner |-> Parent, key |-> 0, tainted |-> FALSE]
FreshObject == CHOOSE o \in Objects : ~obj[o].live
\* A block that a second allocation has replaced in its object stays mapped, and is never freed.
MappedFrames == {space[s].pages[p].frame : s \in Spaces, p \in Pages}
FreeFrames == SetToSortSeq(Frames \ (BlocksOf(obj) \cup MappedFrames), <)
HasRoom(n) == (\E o \in Objects : ~obj[o].live) /\ Len(FreeFrames) >= n

Init ==
    /\ space = [s \in Spaces |->
                 [regions |-> IF s = Parent THEN <<[base |-> 1, size |-> 1, obj |-> 1]>> ELSE <<>>,
                  pages |-> [p \in Pages |-> IF s = Parent /\ p = 1 THEN [frame |-> 1, writable |-> TRUE]
                                            ELSE Absent],
                  used |-> s = Parent]]
    /\ obj = [o \in Objects |-> IF o = 1 THEN New(1, <<1>>, 1, <<>>) ELSE Unused]
    /\ mem = [f \in Frames |-> "zero"]
    /\ table = <<>> /\ calls = 0
    /\ thr = [t \in Threads |-> Idle]
    /\ wrote = [s \in Spaces |-> [p \in Pages |-> "zero"]]
-----------------------------------------------------------------------------
(* Regions *)

\* The first region that an address lies in.
AddressToRegion(s, page) == SelectInSeq(space[s].regions, LAMBDA r : Covers(r, page))
\* A writer of a region's lock waits for the page faults in it.
Faulting(s) == {t \in Threads : Space[t] = s /\ thr[t].pc \in {"alloc", "last", "clone", "set"}}
Locked(s, r) == \E t \in Faulting(s) : thr[t].base = r.base

\* Whether pages base..end-1 are all mapped, looking at the regions from the i-th on.
RangeInRegion(s, base, size) ==
    LET reach == FoldLeft(LAMBDA at, r : IF at >= r.base /\ at < End(r) THEN End(r) ELSE at,
                          base, space[s].regions)
    IN  reach >= base + size

\* Where a size fits: a base moves up behind every region that it would meet.
Fit(s, size) ==
    FoldLeft(LAMBDA a, r :
               IF a.done \/ r.base >= a.base + size THEN [a EXCEPT !.done = TRUE]
               ELSE IF Covers(r, a.base) \/ (a.base + size > r.base /\ a.base + size <= End(r))
                       \/ (a.base < r.base /\ a.base + size > End(r))
                    THEN [a EXCEPT !.base = End(r)] ELSE a,
             [base |-> 1, done |-> FALSE], space[s].regions)
FindAvailableRegion(s, size) ==
    LET a == Fit(s, size)
    IN  IF a.done \/ a.base + size < EndRegion THEN a.base ELSE 0

AllocateRegionAtFirst(s, base, size) == base # 0 /\ size > 0 /\ \A r \in Regions(s) : ~Covers(r, base)   \* mutant
\* Where the caller wants it, if the regions leave the room.
AllocateRegionAt(s, base, size) ==
    base # 0 /\ \A r \in Regions(s) : End(r) <= base \/ r.base >= base + size

\* A hint that cannot be met is a failure only of a fixed mapping.
Chosen(s, hint, fixed, size) ==
    IF AllocateRegionAt(s, hint, size) THEN hint
    ELSE IF fixed THEN 0 ELSE FindAvailableRegion(s, size)

Insert(s, r) ==
    LET before == SelectSeq(space[s].regions, LAMBDA x : x.base < r.base)
        after == SelectSeq(space[s].regions, LAMBDA x : x.base >= r.base)
    IN  before \o <<r>> \o after

MapAllocatedBlocksWritable(pages, r, ob) ==   \* mutant
    [p \in Pages |-> IF ~Covers(r, p) THEN pages[p]
                     ELSE LET f == ob.blocks[p - r.base + 1]
                          IN  IF f = 0 THEN Absent ELSE [frame |-> f, writable |-> TRUE]]
\* The blocks an object has are mapped, writable unless it is copied on write; the others are not.
MapAllocatedBlocks(pages, r, ob) ==
    [p \in Pages |-> IF ~Covers(r, p) THEN pages[p]
                     ELSE LET f == ob.blocks[p - r.base + 1]
                          IN  IF f = 0 THEN Absent ELSE [frame |-> f, writable |-> ~ob.copyOnWrite]]

\* Objects that no region, no key and no page fault refers to are destroyed with their blocks.
Held(sp, tb, th) ==
    Backing(sp) \cup (Range(tb) \ {0})
        \cup {th[t].obj : t \in {x \in Threads : th[x].pc \in {"alloc", "last", "clone", "set"}}}
Kept(ob, sp, tb, th) == [o \in Objects |-> IF o \in Held(sp, tb, th) THEN ob[o] ELSE Unused]

Calls == calls < MaxCalls /\ calls' = calls + 1
Live(t) == thr[t] = Idle /\ space[Space[t]].used

MapRegion(s, base, o, ob) ==
    LET r == [base |-> base, size |-> Len(ob.blocks), obj |-> o]
    IN  space' = [space EXCEPT ![s].regions = Insert(s, r), ![s].pages = MapAllocatedBlocks(@, r, ob)]

\* SysMmap: anonymous memory, whose blocks are allocated by the faults.
Mmap(t, hint, fixed, size) ==
    LET s == Space[t]
        base == Chosen(s, hint, fixed, size)
        ob == New(size, [i \in 1..size |-> 0], 1, <<>>)
    IN  /\ Live(t) /\ Calls /\ HasRoom(0) /\ base # 0 /\ base + size <= EndRegion
        /\ obj' = [obj EXCEPT ![FreshObject] = ob]
        /\ MapRegion(s, base, FreshObject, ob)
        /\ UNCHANGED <<mem, table, thr, wrote>>

\* SysMunmap: only regions that lie inside the range; then the whole range is unmapped.
Inside(s, base, size) == {r \in Regions(s) : r.base >= base /\ End(r) <= base + size}
UnmapMemory(t, base, size) ==
    LET s == Space[t]
        gone == Inside(s, base, size)
        sp == [space EXCEPT ![s].regions = SelectSeq(@, LAMBDA r : r \notin gone),
                            ![s].pages = [p \in Pages |-> IF p \in base..base + size - 1 THEN Absent ELSE @[p]]]
        ob == [o \in Objects |-> IF obj[o].live
                                 THEN [obj[o] EXCEPT !.refCount = @ - Cardinality({r \in gone : r.obj = o})]
                                 ELSE obj[o]]
    IN  /\ Live(t) /\ Calls /\ gone # {} /\ \A r \in Regions(s) : ~Locked(s, r)
        /\ space' = sp
        /\ obj' = Kept(ob, sp, table, thr)
        /\ wrote' = [wrote EXCEPT ![s] = [p \in Pages |-> IF \E r \in gone : Covers(r, p) THEN "zero" ELSE @[p]]]
        /\ UNCHANGED <<mem, table, thr>>
-----------------------------------------------------------------------------
(* fork and exit *)

ForkedUncounted(ob, rs) ==   \* mutant
    [o \in Objects |-> IF \E r \in rs : r.obj = o THEN [ob[o] EXCEPT !.copyOnWrite = @ \/ ~ob[o].shared] ELSE ob[o]]
\* What is shared by more than one address space is copied on write, unless it is shared memory;
\* the parent's pages are mapped again, without the write flag.
Forked(ob, rs) ==
    [o \in Objects |->
       LET n == Cardinality({r \in rs : r.obj = o})
       IN  IF n = 0 THEN ob[o] ELSE [ob[o] EXCEPT !.refCount = @ + n, !.copyOnWrite = @ \/ ~ob[o].shared]]
Mapped(pages, rs, ob) == FoldLeft(LAMBDA pg, r : MapAllocatedBlocks(pg, r, ob[r.obj]), pages, rs)

Fork(t, child) ==
    LET s == Space[t]
        ob == Forked(obj, Regions(s))
        tainted == {thr[u].obj : u \in Faulting(s)}
    IN  /\ Live(t) /\ Calls /\ ~space[child].used
        /\ obj' = [o \in Objects |-> IF o \in tainted THEN [ob[o] EXCEPT !.tainted = TRUE] ELSE ob[o]]
        /\ space' = [space EXCEPT
             ![s].pages = Mapped(@, SelectSeq(space[s].regions, LAMBDA r : ~obj[r.obj].shared), ob),
             ![child] = [regions |-> space[s].regions, used |-> TRUE,
                         pages |-> Mapped([p \in Pages |-> Absent], space[s].regions, ob)]]
        /\ wrote' = [wrote EXCEPT ![child] = wrote[s]]
        /\ UNCHANGED <<mem, table, thr>>

\* ~AddressSpace, of a process whose threads are gone.
Destroy(s) ==
    LET sp == [space EXCEPT ![s] = [regions |-> <<>>, pages |-> [p \in Pages |-> Absent], used |-> FALSE]]
        ob == [o \in Objects |-> IF obj[o].live
                   THEN [obj[o] EXCEPT !.refCount = @ - Cardinality({r \in Regions(s) : r.obj = o})] ELSE obj[o]]
    IN  /\ space[s].used /\ Calls /\ \A t \in Threads : Space[t] = s => thr[t] = Idle
        /\ space' = sp
        /\ obj' = Kept(ob, sp, table, thr)
        /\ wrote' = [wrote EXCEPT ![s] = [p \in Pages |-> "zero"]]
        /\ UNCHANGED <<mem, table, thr>>
-----------------------------------------------------------------------------
(* Page faults *)

Write(t, page) ==
    LET s == Space[t]
        e == space[s].pages[page]
    IN  /\ Live(t) /\ e.frame # 0 /\ e.writable
        /\ \A r \in Regions(s) : Covers(r, page) => ~obj[r.obj].tainted
        /\ mem' = [mem EXCEPT ![e.frame] = s]
        /\ wrote' = IF obj[space[s].regions[AddressToRegion(s, page)].obj].shared THEN wrote
                    ELSE [wrote EXCEPT ![s][page] = s]
        /\ UNCHANGED <<space, obj, table, thr, calls>>

\* Faults on one object at once: of one address space, or both to allocate, disturb each other.
Disturbs(t, o, pc) ==
    \E u \in Threads \ {t} : thr[u].pc \in {"alloc", "last", "clone", "set"} /\ thr[u].obj = o
                             /\ (Space[u] = Space[t] \/ (pc = "alloc" /\ thr[u].pc = "alloc"))
Tainting(t, o, pc, ob) == IF Disturbs(t, o, pc) THEN [ob EXCEPT ![o].tainted = TRUE] ELSE ob

\* Hit: a block that is there is mapped, writable even if the object is copied on write.
HitBlock(s, r, page, ob) ==
    LET i == page - r.base + 1
    IN  /\ space' = [space EXCEPT ![s].pages[page] = [frame |-> ob[r.obj].blocks[i], writable |-> TRUE]]
        /\ obj' = [ob EXCEPT ![r.obj].tainted = @ \/ ob[r.obj].copyOnWrite]

FaultBegin(t, page, rw) ==
    LET s == Space[t]
        e == space[s].pages[page]
        i == AddressToRegion(s, page)
        r == space[s].regions[i]
        o == obj[r.obj]
        cow == o.copyOnWrite /\ rw
        block == o.blocks[page - r.base + 1]
        pc == IF cow THEN IF o.refCount <= 1 THEN "last" ELSE "clone" ELSE "alloc"
    IN  /\ Live(t) /\ i # 0 /\ ~o.tainted
        /\ IF rw THEN e.frame = 0 \/ ~e.writable ELSE e.frame = 0
        /\ IF ~cow /\ block # 0
           THEN HitBlock(s, r, page, obj) /\ UNCHANGED thr
           ELSE /\ thr' = [thr EXCEPT ![t] = [pc |-> pc, base |-> r.base, obj |-> r.obj, page |-> page]]
                /\ obj' = Tainting(t, r.obj, pc, obj)
                /\ UNCHANGED space
        /\ UNCHANGED <<mem, table, calls, wrote>>

RegionOf(t) == space[Space[t]].regions[AddressToRegion(Space[t], thr[t].page)]
Ends(t) == thr' = [thr EXCEPT ![t] = Idle]

\* Hit: a block is allocated, stored in the object, mapped and zeroed.
HitAlloc(t) ==
    LET f == FreeFrames[1]
        o == thr[t].obj
        s == Space[t]
        i == thr[t].page - thr[t].base + 1
    IN  /\ thr[t].pc = "alloc" /\ HasRoom(1)
        /\ mem' = [mem EXCEPT ![f] = "zero"]
        /\ space' = [space EXCEPT ![s].pages[thr[t].page] = [frame |-> f, writable |-> TRUE]]
        /\ Ends(t)
        /\ obj' = Kept([obj EXCEPT ![o].blocks[i] = f, ![o].tainted = @ \/ obj[o].copyOnWrite],
                       space', table, thr')
        /\ UNCHANGED <<table, calls, wrote>>

\* A fault on a page that has no block goes on to allocate one.
ThenHit(t, r, sp, ob) ==
    LET i == thr[t].page - r.base + 1
    IN  IF ob[r.obj].blocks[i] # 0
        THEN Ends(t) /\ space' = [sp EXCEPT ![Space[t]].pages[thr[t].page] =
                                    [frame |-> ob[r.obj].blocks[i], writable |-> TRUE]]
        ELSE thr' = [thr EXCEPT ![t].pc = "alloc", ![t].obj = r.obj] /\ space' = sp

\* The last reference: no copy, and all its blocks are writable again.
LastReference(t) ==
    LET s == Space[t]
        o == thr[t].obj
        ob == [obj EXCEPT ![o].copyOnWrite = FALSE]
        r == [RegionOf(t) EXCEPT !.obj = o]
    IN  /\ thr[t].pc = "last"
        /\ ThenHit(t, r, [space EXCEPT ![s].pages = MapAllocatedBlocks(@, r, ob[o])], ob)
        /\ obj' = Kept(ob, space', table, thr')
        /\ UNCHANGED <<mem, table, calls, wrote>>

\* Clone copies the blocks there are; the region then has the copy, and the object a reference less.
Clone(t) ==
    LET o == obj[thr[t].obj]
        n == Cardinality(Range(o.blocks) \ {0})
        new == CHOOSE g \in [DOMAIN o.blocks -> 0..MaxFrames] :
                 /\ \A i \in DOMAIN g : g[i] = 0 <=> o.blocks[i] = 0
                 /\ Range(g) \ {0} = {FreeFrames[k] : k \in 1..n}
        c == FreshObject
        s == Space[t]
        i == AddressToRegion(s, thr[t].page)
    IN  /\ thr[t].pc = "clone" /\ HasRoom(n)
        /\ mem' = [f \in Frames |-> IF \E k \in DOMAIN new : new[k] = f
                                    THEN mem[o.blocks[CHOOSE k \in DOMAIN new : new[k] = f]] ELSE mem[f]]
        /\ space' = [space EXCEPT ![s].regions[i].obj = c]
        /\ thr' = [thr EXCEPT ![t].pc = "set", ![t].obj = c]
        /\ obj' = Kept([obj EXCEPT ![c] = New(Len(new), new, 1, [tainted |-> o.tainted]),
                                   ![thr[t].obj].refCount = @ - 1], space', table, thr')
        /\ UNCHANGED <<table, calls, wrote>>

CloneMapped(t) ==
    LET s == Space[t]
        o == thr[t].obj
        r == [RegionOf(t) EXCEPT !.obj = o]
    IN  /\ thr[t].pc = "set"
        /\ ThenHit(t, r, [space EXCEPT ![s].pages = MapAllocatedBlocks(@, r, obj[o])], obj)
        /\ obj' = Kept(obj, space', table, thr')
        /\ UNCHANGED <<mem, table, calls, wrote>>
-----------------------------------------------------------------------------
(* Shared memory: its blocks are allocated with it. *)

Key(tb) == IF 0 \in Range(tb) THEN SelectInSeq(tb, LAMBDA o : o = 0) ELSE Len(tb) + 1
GetSharedMemory(k) == IF k \in DOMAIN table THEN table[k] ELSE 0

CreateSharedMemory(t) ==
    LET k == Key(table)
        f == FreeFrames[1]
        o == FreshObject
    IN  /\ Live(t) /\ Calls /\ HasRoom(1) /\ k <= MaxKeys
        /\ obj' = [obj EXCEPT ![o] = New(1, <<f>>, 0, [shared |-> TRUE, owner |-> Space[t], key |-> k])]
        /\ mem' = [mem EXCEPT ![f] = "zero"]
        /\ table' = IF k > Len(table) THEN Append(table, o) ELSE [table EXCEPT ![k] = o]
        /\ UNCHANGED <<space, thr, wrote>>

MapSharedMemory(t, k, hint) ==
    LET s == Space[t]
        o == GetSharedMemory(k)
        ob == [obj[o] EXCEPT !.refCount = @ + 1]
        base == Chosen(s, hint, FALSE, 1)
    IN  /\ Live(t) /\ Calls /\ o # 0 /\ base # 0
        /\ obj' = [obj EXCEPT ![o] = ob]
        /\ MapRegion(s, base, o, ob)
        /\ UNCHANGED <<mem, table, thr, wrote>>

UnmapRegion(s, r) ==
    /\ ~Locked(s, r)
    /\ space' = [space EXCEPT ![s].regions = SelectSeq(@, LAMBDA x : x.base # r.base),
                              ![s].pages = [p \in Pages |-> IF Covers(r, p) THEN Absent ELSE @[p]]]
\* SysUnmapSharedMemory, of a region of that object; the key is looked up again to destroy it.
UnmapSharedMemory(t, k, r) ==
    /\ Live(t) /\ Calls /\ r \in Regions(Space[t]) /\ GetSharedMemory(k) # 0 /\ r.obj = GetSharedMemory(k)
    /\ UnmapRegion(Space[t], r)
    /\ thr' = [thr EXCEPT ![t] = [pc |-> "destroy", key |-> k]]
    /\ obj' = [obj EXCEPT ![r.obj].refCount = @ - 1]
    /\ UNCHANGED <<mem, table, wrote>>

\* SysDestroySharedMemory: the owner is tested without the lock.
DestroyTest(t, k) ==
    /\ Live(t) /\ Calls /\ GetSharedMemory(k) # 0 /\ obj[GetSharedMemory(k)].owner = Space[t]
    /\ thr' = [thr EXCEPT ![t] = [pc |-> "destroy", key |-> k]]
    /\ UNCHANGED <<space, obj, mem, table, wrote>>

Destroyable(k) == GetSharedMemory(k) # 0 /\ obj[GetSharedMemory(k)].refCount = 0
DestroySharedMemory(t) ==
    /\ thr[t].pc = "destroy"
    /\ table' = IF Destroyable(thr[t].key) THEN [table EXCEPT ![thr[t].key] = 0] ELSE table
    /\ Ends(t)
    /\ obj' = Kept(obj, space, table', thr')
    /\ UNCHANGED <<space, mem, calls, wrote>>

Next ==
    \/ \E t \in Threads :
        \/ HitAlloc(t) \/ LastReference(t) \/ Clone(t) \/ CloneMapped(t)
        \/ CreateSharedMemory(t) \/ DestroySharedMemory(t)
        \/ \E page \in Pages, rw \in BOOLEAN : FaultBegin(t, page, rw)
        \/ \E page \in Pages : Write(t, page)
        \/ \E hint \in Hints, fixed \in BOOLEAN, size \in Sizes : Mmap(t, hint, fixed, size)
        \/ \E base \in Pages, size \in Sizes : UnmapMemory(t, base, size)
        \/ \E child \in Spaces : Fork(t, child)
        \/ \E k \in DOMAIN table : MapSharedMemory(t, k, 0) \/ DestroyTest(t, k)
        \/ \E k \in DOMAIN table, r \in Regions(Space[t]) : UnmapSharedMemory(t, k, r)
    \/ \E s \in Spaces : Destroy(s)

Spec == Init /\ [][Next]_vars
-----------------------------------------------------------------------------
Sound(s, r) == ~obj[r.obj].tainted /\ ~Locked(s, r)

\* The regions of an address space are in order and apart, whatever hints they were mapped with,
\* and a range is found mapped exactly when every page of it lies in a region.
RegionsApart ==
    \A s \in Spaces :
        /\ \A i, j \in DOMAIN space[s].regions : i < j => End(space[s].regions[i]) <= space[s].regions[j].base
        /\ \A r \in Regions(s) : r.base >= 1 /\ End(r) <= EndRegion
        /\ \A b \in Pages, n \in Sizes :
              RangeInRegion(s, b, n) <=> \A p \in b..b + n - 1 : \E r \in Regions(s) : Covers(r, p)

\* The count that decides whether a fault copies, and whether shared memory may go, is the number
\* of regions that map the object.
CountExact ==
    \A o \in Objects : obj[o].live /\ ~obj[o].tainted =>
        obj[o].refCount = Cardinality({<<s, r>> \in Spaces \X AllRegions : r \in Regions(s) /\ r.obj = o})

\* A page that is mapped is the block of the object in its region, and no block has two objects.
PagesBacked ==
    /\ \A s \in Spaces, p \in Pages :
          space[s].pages[p].frame # 0 =>
              \E r \in Regions(s) : /\ Covers(r, p)
                                    /\ Sound(s, r) => space[s].pages[p].frame = obj[r.obj].blocks[p - r.base + 1]
    /\ \A a, b \in Objects : a # b /\ obj[a].live /\ obj[b].live =>
          Range(obj[a].blocks) \cap Range(obj[b].blocks) \subseteq {0}

\* Private memory holds what its own process, or its parent before the fork, wrote to it last.
MemoryPrivate ==
    \A s \in Spaces : \A r \in Regions(s) : ~obj[r.obj].shared /\ Sound(s, r) =>
        \A p \in r.base..End(r) - 1 :
            LET f == obj[r.obj].blocks[p - r.base + 1]
            IN  wrote[s][p] = IF f = 0 THEN "zero" ELSE mem[f]

\* Shared memory that is mapped anywhere is still found by its key.
KeysKept ==
    \A s \in Spaces : \A r \in Regions(s) : obj[r.obj].shared => GetSharedMemory(obj[r.obj].key) = r.obj
=============================================================================
