------------------------------- MODULE Frames --------------------------------
(***************************************************************************)
(* The physical memory allocator, the kernel's heap of pages, and the page *)
(* maps of processes, which are made of both.  A frame and a page of the   *)
(* heap are numbers; a frame is allocated under the allocator's lock, but  *)
(* freed without it: the word of the bitmap is read, and stored later.     *)
(***************************************************************************)
EXTENDS Naturals, Sequences, SequencesExt, FiniteSetsExt

CONSTANTS
    CPUs, Maps,
    ChunkSize, Chunks,   \* the frames of a word of the bitmap, and its words
    BlockSize,           \* of a frame, in bytes (scaled)
    TableSize, Tables,   \* the pages of a table of the kernel's heap, and its tables
    Dirs, TablesPerDir,  \* of a page map
    Reserved,            \* frames of the kernel's image and below
    MaxPages, MaxCalls   \* bounds

VARIABLES
    used, next, count,   \* physicalMemoryBitmap, nextChunk, usedPhysicalBlocks
    heap,                \* kernelHeapDirTables: the frame of each page that is present
    tabled,              \* kernelHeapDir: the tables that are present
    own,                 \* who has which frame, at which page of the heap
    maps,                \* of each page map: the tables in its directories
    cpu, calls,
    raced,               \* a frame was allocated while a word of the bitmap was held
    misfreed             \* frames that were freed in the place of another

bitmap == <<used, next, count>>
vars == <<used, next, count, heap, tabled, own, maps, cpu, calls, raced, misfreed>>

AllFrames == 0..ChunkSize * Chunks - 1
Chunk(f) == f \div ChunkSize
Pages == 0..TableSize * Tables - 1
Table(v) == v \div TableSize
Absent == [present |-> FALSE, frame |-> 0]
Fresh == [present |-> TRUE, frame |-> 0]   \* reserved, not mapped yet
Idle == [pc |-> "idle"]
Outside == [live |-> FALSE]

\* MarkMemoryRegionFree and MarkMemoryRegionUsed at boot.
Init ==
    /\ used = Reserved /\ count = Cardinality(Reserved) /\ next = 1
    /\ heap = [v \in Pages |-> Absent]
    /\ tabled = {} /\ own = {}
    /\ maps = [m \in Maps |-> Outside]
    /\ cpu = [c \in CPUs |-> Idle]
    /\ calls = 0 /\ raced = FALSE /\ misfreed = {}
-----------------------------------------------------------------------------
(* Frames *)

\* From the chunk that a frame was found in last, then from the first; chunk 0 is never used.
Free(u, from) == {f \in AllFrames \ u : Chunk(f) >= from}
GetFirstFreeMemoryBlock(u, from) ==
    IF Free(u, from) # {} THEN Min(Free(u, from)) ELSE IF Free(u, 1) # {} THEN Min(Free(u, 1)) ELSE 0

\* n allocations in a row.
Taken(n) ==
    FoldLeft(LAMBDA a, i : LET f == GetFirstFreeMemoryBlock(a.used, a.next)
                           IN  [used |-> a.used \cup {f}, next |-> Chunk(f), got |-> Append(a.got, f)],
             [used |-> used, next |-> IF next = 0 THEN 1 ELSE next, got |-> <<>>], [i \in 1..n |-> i])
Enough(n) == Cardinality(Free(used, 1)) >= n
AllocatePhysicalMemoryBlocksOnce(n) ==   \* mutant
    /\ used' = Taken(n).used /\ next' = Taken(n).next /\ count' = count + 1
    /\ raced' = (raced \/ \E c \in CPUs : cpu[c].pc = "store" /\ \E f \in Range(Taken(n).got) : Chunk(f) = cpu[c].chunk)
AllocatePhysicalMemoryBlocks(n) ==
    /\ used' = Taken(n).used /\ next' = Taken(n).next /\ count' = count + n
    /\ raced' = (raced \/ \E c \in CPUs : cpu[c].pc = "store" /\ \E f \in Range(Taken(n).got) : Chunk(f) = cpu[c].chunk)
-----------------------------------------------------------------------------
(* Pages of the kernel's heap *)

IsRunFirst(h, tb, v, n) == v + n - 1 \in Pages /\ Table(v) \in tb /\ ~h[v].present   \* mutant
IsRun(h, tb, v, n) == \A w \in v..v + n - 1 : w \in Pages /\ Table(w) \in tb /\ ~h[w].present
Runs(h, tb, n) == {v \in Pages : IsRun(h, tb, v, n)}
NewRuns(tb, n) == {i \in 0..Tables - 1 : \A j \in i..i + (n + TableSize - 1) \div TableSize - 1 : j < Tables /\ j \notin tb}

\* First in the tables there are, then in tables of its own.
KernelAllocate4KPages(h, tb, n) ==
    IF Runs(h, tb, n) # {} THEN [base |-> Min(Runs(h, tb, n)), tabled |-> tb]
    ELSE LET i == Min(NewRuns(tb, n))
         IN  [base |-> i * TableSize, tabled |-> tb \cup i..i + (n + TableSize - 1) \div TableSize - 1]
HasPages(h, tb, n) == Runs(h, tb, n) # {} \/ NewRuns(tb, n) # {}

\* One page after another, n times: a frame is allocated for each, and mapped.
Placed(n, got) ==
    FoldLeft(LAMBDA a, i :
               LET k == KernelAllocate4KPages(a.heap, a.tabled, 1)
               IN  [heap |-> [a.heap EXCEPT ![k.base] = [present |-> TRUE, frame |-> got[i]]],
                    tabled |-> k.tabled, at |-> Append(a.at, k.base)],
             [heap |-> heap, tabled |-> tabled, at |-> <<>>], [i \in 1..n |-> i])
Places(n) == Cardinality({v \in Pages : ~heap[v].present}) >= n

Holding(holder, parts, n) ==
    {[holder |-> holder, part |-> parts[i], frame |-> Taken(n).got[i], page |-> Placed(n, Taken(n).got).at[i]] : i \in 1..n}
Goes(c, to) == cpu' = [cpu EXCEPT ![c] = to]
Calls(c) == cpu[c] = Idle /\ calls < MaxCalls /\ calls' = calls + 1

\* KernelAllocator::map reserves the pages, then allocates and maps a frame for each.
Map(c, n) ==
    /\ Calls(c) /\ HasPages(heap, tabled, n)
    /\ LET k == KernelAllocate4KPages(heap, tabled, n)
       IN  /\ heap' = [v \in Pages |-> IF v \in k.base..k.base + n - 1 THEN Fresh ELSE heap[v]]
           /\ tabled' = k.tabled
           /\ Goes(c, [pc |-> "map", base |-> k.base, n |-> n, at |-> 0])
    /\ UNCHANGED <<bitmap, own, maps, raced, misfreed>>

MapPage(c) ==
    LET k == cpu[c]
        v == k.base + k.at
    IN  /\ k.pc = "map" /\ Enough(1)
        /\ AllocatePhysicalMemoryBlocks(1)
        /\ heap' = [heap EXCEPT ![v] = [present |-> TRUE, frame |-> Taken(1).got[1]]]
        /\ own' = own \cup {[holder |-> "kernel", part |-> <<"block", k.base, k.n>>, frame |-> Taken(1).got[1], page |-> v]}
        /\ Goes(c, IF k.at + 1 = k.n THEN Idle ELSE [k EXCEPT !.at = @ + 1])
        /\ UNCHANGED <<tabled, maps, calls, misfreed>>

\* The steps of a call that frees: frames, by their number, and pages.
Frame(r) == [op |-> "frame", frame |-> r.frame, owner |-> r]
Page(r) == [op |-> "page", page |-> r.page]

\* KernelAllocator::unmap frees the frames that its pages have, then the pages.
Unmap(c, base, n) ==
    LET mine == {r \in own : r.holder = "kernel" /\ r.part = <<"block", base, n>>}
        at(v) == CHOOSE r \in mine : r.page = v
        block == [i \in 1..n |-> at(base + i - 1)]
    IN  /\ Calls(c) /\ Cardinality(mine) = n
        /\ \A d \in CPUs : cpu[d].pc \in {"free", "store"} => cpu[d].what # <<"block", base, n>>
        /\ Goes(c, [pc |-> "free", what |-> <<"block", base, n>>,
                    todo |-> [i \in 1..n |-> Frame(block[i])] \o [i \in 1..n |-> Page(block[i])]])
        /\ UNCHANGED <<bitmap, heap, tabled, own, maps, raced, misfreed>>

Done(k) == IF Len(k.todo) = 1 THEN Idle ELSE [pc |-> "free", what |-> k.what, todo |-> Tail(k.todo)]

\* FreePhysicalMemoryBlock: the chunk is read ...
FreeFrame(c) ==
    LET k == cpu[c]
        f == k.todo[1].frame
    IN  /\ k.pc = "free" /\ k.todo[1].op = "frame"
        /\ Goes(c, [pc |-> "store", what |-> k.what, todo |-> k.todo, chunk |-> Chunk(f),
                    word |-> {u \in used : Chunk(u) = Chunk(f)} \ {f}])
        /\ raced' = (raced \/ \E d \in CPUs : cpu[d].pc = "store" /\ cpu[d].chunk = Chunk(f))
        /\ UNCHANGED <<bitmap, heap, tabled, own, maps, calls, misfreed>>

\* ... and stored, without the bit.
FreeStore(c) ==
    LET k == cpu[c]
        o == k.todo[1]
    IN  /\ k.pc = "store"
        /\ used' = {u \in used : Chunk(u) # k.chunk} \cup k.word
        /\ count' = count - 1
        /\ next' = IF k.chunk < next THEN k.chunk ELSE next
        /\ own' = IF o.owner.frame = o.frame THEN own \ {o.owner} ELSE own
        /\ misfreed' = IF o.owner.frame = o.frame THEN misfreed ELSE misfreed \cup {o.frame}
        /\ Goes(c, Done(k))
        /\ UNCHANGED <<heap, tabled, maps, calls, raced>>

KernelFree4KPages(c) ==
    LET k == cpu[c]
    IN  /\ k.pc = "free" /\ k.todo[1].op = "page"
        /\ heap' = [heap EXCEPT ![k.todo[1].page] = Absent]
        /\ Goes(c, Done(k))
        /\ UNCHANGED <<bitmap, tabled, own, maps, calls, raced, misfreed>>
-----------------------------------------------------------------------------
(* Page maps *)

Parts == <<<<"pdpt">>, <<"pageDirs">>, <<"pageDirsPhys">>, <<"pageTables">>, <<"pml4">>>>
             \o [d \in 1..Dirs |-> <<"dir", d>>]
Slots == (1..Dirs) \X (1..TablesPerDir)
TablePart(s) == <<"table", s[1], s[2]>>
TableOf(m, s) == CHOOSE r \in own : r.holder = m /\ r.part = TablePart(s)

Build(m, parts, tables) ==
    LET n == Len(parts)
    IN  /\ Enough(n) /\ Places(n)
        /\ AllocatePhysicalMemoryBlocks(n)
        /\ heap' = Placed(n, Taken(n).got).heap /\ tabled' = Placed(n, Taken(n).got).tabled
        /\ own' = own \cup Holding(m, parts, n)
        /\ maps' = [maps EXCEPT ![m] = [live |-> TRUE, tables |-> tables]]

CreatePageMap(c, m) ==
    /\ Calls(c) /\ ~maps[m].live /\ \A r \in own : r.holder # m
    /\ Build(m, Parts, {})
    /\ UNCHANGED <<cpu, misfreed>>

\* The tables of the original are copied.
ClonePageMap(c, from, m) ==
    /\ Calls(c) /\ maps[from].live /\ ~maps[m].live /\ \A r \in own : r.holder # m
    /\ Build(m, Parts \o SetToSeq({TablePart(s) : s \in maps[from].tables}), maps[from].tables)
    /\ UNCHANGED <<cpu, misfreed>>

\* MapVirtualMemory4K makes a table that a directory lacks: two threads may both find it lacking.
MapVirtualMemory4K(c, m, s) ==
    /\ Calls(c) /\ maps[m].live /\ s \notin maps[m].tables
    /\ Goes(c, [pc |-> "table", map |-> m, slot |-> s])
    /\ UNCHANGED <<bitmap, heap, tabled, own, maps, raced, misfreed>>

\* A table that is replaced is lost, with what was mapped in it.
CreatePageTable(c) ==
    LET k == cpu[c]
        lost == {r \in own : r.holder = k.map /\ r.part = TablePart(k.slot)}
    IN  /\ k.pc = "table" /\ Enough(1) /\ Places(1)
        /\ AllocatePhysicalMemoryBlocks(1)
        /\ heap' = Placed(1, Taken(1).got).heap /\ tabled' = Placed(1, Taken(1).got).tabled
        /\ own' = (own \ lost) \cup {[r EXCEPT !.holder = "lost"] : r \in lost}
                      \cup Holding(k.map, <<TablePart(k.slot)>>, 1)
        /\ maps' = [maps EXCEPT ![k.map].tables = @ \cup {k.slot}]
        /\ Goes(c, Idle)
        /\ UNCHANGED <<calls, misfreed>>

\* The number of a table's frame is taken for its address, and a small one is skipped; four of
\* the five pages of the map itself are never freed.
Part(m, p) == CHOOSE r \in own : r.holder = m /\ r.part = p
FreeTable(r) ==
    IF r.frame < BlockSize THEN <<>>
    ELSE <<[Frame(r) EXCEPT !.frame = r.frame \div BlockSize], Page(r)>>
DestroyPageMap(c, m) ==
    LET freeDir(d) ==
          FoldLeft(LAMBDA a, t : IF <<d, t>> \in maps[m].tables THEN a \o FreeTable(TableOf(m, <<d, t>>)) ELSE a,
                   <<>>, [t \in 1..TablesPerDir |-> t])
            \o <<Page(Part(m, <<"dir", d>>)), Frame(Part(m, <<"dir", d>>))>>
    IN  /\ Calls(c) /\ maps[m].live
        /\ \A d \in CPUs : cpu[d].pc = "table" => cpu[d].map # m
        /\ Goes(c, [pc |-> "free", what |-> m,
                    todo |-> FlattenSeq([d \in 1..Dirs |-> freeDir(d)]) \o <<Frame(Part(m, <<"pdpt">>))>>])
        /\ maps' = [maps EXCEPT ![m] = Outside]
        /\ UNCHANGED <<bitmap, heap, tabled, own, raced, misfreed>>

Next ==
    \E c \in CPUs :
        \/ MapPage(c) \/ FreeFrame(c) \/ FreeStore(c) \/ KernelFree4KPages(c) \/ CreatePageTable(c)
        \/ \E n \in 1..MaxPages : Map(c, n) \/ \E base \in Pages : Unmap(c, base, n)
        \/ \E m \in Maps :
            \/ CreatePageMap(c, m) \/ DestroyPageMap(c, m)
            \/ \E from \in Maps : ClonePageMap(c, from, m)
            \/ \E s \in Slots : MapVirtualMemory4K(c, m, s)

Spec == Init /\ [][Next]_vars
-----------------------------------------------------------------------------
\* What is known to break the bitmap: an unlocked store, and DestroyPageMap's wrong number.
Intact == ~raced /\ misfreed = {}

\* A frame has one owner, and is marked as used exactly while it has one; the count agrees.
FramesAccounted ==
    Intact => /\ \A r, q \in own : r.frame = q.frame => r = q
              /\ used = Reserved \cup {r.frame : r \in own}
              /\ count = Cardinality(used)

\* What is in use stays mapped, to its own frame, at a page of its own.
InUse == {r \in own : \/ r.holder \in Maps /\ maps[r.holder].live
                      \/ r.holder = "kernel" /\ \A c \in CPUs : cpu[c].pc \in {"free", "store"} => cpu[c].what # r.part}
HeapBacked ==
    /\ \A r \in InUse : Table(r.page) \in tabled /\ heap[r.page] = [present |-> TRUE, frame |-> r.frame]
    /\ \A r, q \in InUse : r.page = q.page => r = q

\* Chunks below the hint are full, so that the search from it finds the first free frame.
HintSound == Intact => \A f \in AllFrames : Chunk(f) \in 1..next - 1 => f \in used
=============================================================================
