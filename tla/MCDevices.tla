------------------------------ MODULE MCDevices ------------------------------
(* Memory, disks and the network below TCP, side by side: a behaviour is one of the part that *)
(* "part" names; the variables that it does not have are Off.                                 *)
EXTENDS Naturals, TLC

CONSTANTS Off, a1, a2, c1, c2

VARIABLES
    part, calls,
    boot, call, permits, locks, buffer, errors, untrue, lost, raced, next,   \* of several parts
    space, obj, mem, table, thr, wrote,                                      \* Memory
    used, count, heap, tabled, own, maps, cpu, misfreed,                     \* Frames
    partitions, port, ci, epoch, hung,                                       \* AHCI
    q, allocated, ioQueues, available, late,                                 \* NVMe
    drives, lock, head, lba, prdt, command, shared,                          \* ATA
    config, ring, cache, queue, packets, net, known, tx, sock, ports,        \* Datagrams
    frames, crowded, missed, usurped, panic

memory == <<space, obj, mem, table, thr, wrote>>
physical == <<used, count, heap, tabled, own, maps, cpu, misfreed>>
ahci == <<partitions, port, ci, epoch, hung>>
nvme == <<q, allocated, ioQueues, available, late>>
ata == <<drives, lock, head, lba, prdt, command, shared>>
datagrams == <<config, ring, cache, queue, packets, net, known, tx, sock, ports, frames,
               crowded, missed, usurped, panic>>
vars == <<part, calls, boot, call, permits, locks, buffer, errors, untrue, lost, raced, next,
          memory, physical, ahci, nvme, ata, datagrams>>

\* Two threads of one process, and one of its child.
M == INSTANCE Memory WITH
        Spaces <- {"p", "q"}, Parent <- "p", Space <- [t \in {a1, a2, "u"} |-> IF t = "u" THEN "q" ELSE "p"],
        EndRegion <- 3, Sizes <- {1}, Hints <- {2}, MaxKeys <- 1, MaxObjects <- 4, MaxFrames <- 3, MaxCalls <- 3
\* One thread, with regions of two sizes and hints that meet others.
R == INSTANCE Memory WITH
        Spaces <- {"p"}, Parent <- "p", Space <- [t \in {"t"} |-> "p"],
        EndRegion <- 6, Sizes <- {1, 2}, Hints <- {0, 3}, MaxKeys <- 0, MaxObjects <- 5, MaxFrames <- 1, MaxCalls <- 5
F == INSTANCE Frames WITH
        CPUs <- {a1, a2}, Maps <- {c1, c2}, ChunkSize <- 4, Chunks <- 6, BlockSize <- 9, TableSize <- 4, Tables <- 5,
        Dirs <- 1, TablesPerDir <- 1, Reserved <- 0..4, MaxPages <- 2, MaxCalls <- 4

\* A run of two sectors and single ones; a partition of three, read and written as blocks and as a file.
A == INSTANCE AHCI WITH
        Boot <- "boot", Threads <- {a1, a2}, Buffers <- 2, Slots <- 2, Runs <- <<2, 1>>, Table <- {{<<3, 6>>}},
        Requests <- {<<"disk", FALSE, 0, 3>>, <<"block", FALSE, 1, 2>>, <<"block", TRUE, 0, 2>>, <<"file", TRUE, 3, 1>>},
        MaxErrors <- 1, MaxCalls <- 2
V == INSTANCE NVMe WITH
        Boot <- "boot", Threads <- {a1, a2}, MaxQueues <- 2, SQ <- 2, CQ <- 3, IDs <- 3, Buffers <- 2, DiskSize <- 20,
        Unit <- 2, Requests <- {<<TRUE, 1, 2>>, <<FALSE, 2, 1>>}, MaxErrors <- 1, MaxCalls <- 2
T == INSTANCE ATA WITH
        Boot <- "boot", Threads <- {a1, a2}, Order <- <<<<0, 0>>, <<0, 1>>, <<1, 0>>>>,
        Requests <- {<<TRUE, 1, 1>>, <<FALSE, 2, 2>>}, MaxErrors <- 1, MaxCalls <- 2

\* Hosts "me", "x" and "y" of the local net, and of another.
NoAddress == <<"0", "0">>
Addresses == {NoAddress, <<"b", "b">>, <<"l", "me">>, <<"l", "x">>, <<"w", "y">>}
Udp(p) == [kind |-> "udp", port |-> p]
Arp == [kind |-> "arp", from |-> <<"l", "x">>, to |-> <<"l", "me">>]
N == INSTANCE Datagrams WITH
        Threads <- {a1, a2}, Sockets <- {c1, c2}, Adapters <- <<"n1">>,
        Config <- [a \in {"n1"} |-> [ip |-> <<"l", "me">>, mask |-> 1, gateway |-> NoAddress]],
        Ring <- 3, Cache <- 2, TxRing <- 3, Frames <- {Udp(1), Udp(2), Arp, [kind |-> "short"], [kind |-> "other"]},
        Broadcast <- <<"b", "b">>, Ports <- {1}, FirstEphemeral <- 2, PortMax <- 4,
        Commands <- {<<"n1", "gateway", <<"l", "x">>, TRUE>>, <<"n1", "mask", 2, FALSE>>}, MaxFrames <- 2, MaxCalls <- 2
\* Two adapters, of which one knows a way out, and more calls.
D == INSTANCE Datagrams WITH
        Threads <- {a1, a2}, Sockets <- {c1, c2}, Adapters <- <<"n1", "n2">>,
        Config <- [a \in {"n1", "n2"} |-> IF a = "n1" THEN [ip |-> <<"l", "me">>, mask |-> 1, gateway |-> NoAddress]
                                          ELSE [ip |-> <<"m", "me">>, mask |-> 1, gateway |-> <<"m", "x">>]],
        Ring <- 3, Cache <- 1, TxRing <- 2, Frames <- {Udp(2)},
        Broadcast <- <<"b", "b">>, Ports <- {2}, FirstEphemeral <- 2, PortMax <- 4,
        Commands <- {<<"n1", "mask", 0, TRUE>>}, MaxFrames <- 1, MaxCalls <- 3

NoMemory == space = Off /\ obj = Off /\ mem = Off /\ table = Off /\ thr = Off /\ wrote = Off
NoFrames ==
    /\ used = Off /\ count = Off /\ heap = Off /\ tabled = Off /\ own = Off /\ maps = Off
    /\ cpu = Off /\ misfreed = Off
NoAHCI == partitions = Off /\ port = Off /\ ci = Off /\ epoch = Off /\ hung = Off
NoNVMe == q = Off /\ allocated = Off /\ ioQueues = Off /\ available = Off /\ late = Off
NoATA ==
    /\ drives = Off /\ lock = Off /\ head = Off /\ lba = Off /\ prdt = Off /\ command = Off
    /\ shared = Off
NoDatagrams ==
    /\ config = Off /\ ring = Off /\ cache = Off /\ queue = Off /\ packets = Off /\ net = Off
    /\ known = Off /\ tx = Off /\ sock = Off /\ ports = Off /\ frames = Off /\ crowded = Off
    /\ missed = Off /\ usurped = Off /\ panic = Off
\* What the drivers of disks share, and what two of them do.
disk == <<boot, call, buffer, errors, untrue>>
slots == <<permits, locks, lost>>
NoDisk == boot = Off /\ buffer = Off /\ errors = Off /\ untrue = Off
NoSlots == permits = Off /\ locks = Off /\ lost = Off

Init ==
    \/ /\ part = "memory" /\ M!Init /\ NoDisk /\ NoSlots /\ call = Off /\ raced = Off /\ next = Off
       /\ NoFrames /\ NoAHCI /\ NoNVMe /\ NoATA /\ NoDatagrams
    \/ /\ part = "regions" /\ R!Init /\ NoDisk /\ NoSlots /\ call = Off /\ raced = Off /\ next = Off
       /\ NoFrames /\ NoAHCI /\ NoNVMe /\ NoATA /\ NoDatagrams
    \/ /\ part = "frames" /\ F!Init /\ NoDisk /\ NoSlots /\ call = Off
       /\ NoMemory /\ NoAHCI /\ NoNVMe /\ NoATA /\ NoDatagrams
    \/ /\ part = "ahci" /\ A!Init /\ raced = Off /\ next = Off
       /\ NoMemory /\ NoFrames /\ NoNVMe /\ NoATA /\ NoDatagrams
    \/ /\ part = "nvme" /\ V!Init /\ next = Off
       /\ NoMemory /\ NoFrames /\ NoAHCI /\ NoATA /\ NoDatagrams
    \/ /\ part = "ata" /\ T!Init /\ NoSlots /\ raced = Off /\ next = Off
       /\ NoMemory /\ NoFrames /\ NoAHCI /\ NoNVMe /\ NoDatagrams
    \/ /\ part = "datagrams" /\ N!Init /\ NoDisk /\ NoSlots
       /\ NoMemory /\ NoFrames /\ NoAHCI /\ NoNVMe /\ NoATA
    \/ /\ part = "routes" /\ D!Init /\ NoDisk /\ NoSlots
       /\ NoMemory /\ NoFrames /\ NoAHCI /\ NoNVMe /\ NoATA

Next ==
    /\ UNCHANGED part
    /\ \/ /\ part = "memory" /\ M!Next
          /\ UNCHANGED <<disk, slots, raced, next, physical, ahci, nvme, ata, datagrams>>
       \/ /\ part = "regions" /\ R!Next
          /\ UNCHANGED <<disk, slots, raced, next, physical, ahci, nvme, ata, datagrams>>
       \/ /\ part = "frames" /\ F!Next
          /\ UNCHANGED <<disk, slots, memory, ahci, nvme, ata, datagrams>>
       \/ /\ part = "ahci" /\ A!Next
          /\ UNCHANGED <<raced, next, memory, physical, nvme, ata, datagrams>>
       \/ /\ part = "nvme" /\ V!Next
          /\ UNCHANGED <<next, memory, physical, ahci, ata, datagrams>>
       \/ /\ part = "ata" /\ T!Next
          /\ UNCHANGED <<slots, raced, next, memory, physical, ahci, nvme, datagrams>>
       \/ /\ part = "datagrams" /\ N!Next
          /\ UNCHANGED <<boot, buffer, errors, untrue, slots, memory, physical, ahci, nvme, ata>>
       \/ /\ part = "routes" /\ D!Next
          /\ UNCHANGED <<boot, buffer, errors, untrue, slots, memory, physical, ahci, nvme, ata>>

Spec == Init /\ [][Next]_vars

Symmetry == Permutations({a1, a2}) \cup Permutations({c1, c2})
-----------------------------------------------------------------------------
\* References, frames, permits, queues and packets are counted exactly: none is lost, none is
\* given out twice, but for the errors and the races that the parts name.
Accounted ==
    /\ part = "memory" => M!CountExact
    /\ part = "frames" => F!FramesAccounted /\ F!HintSound
    /\ part = "ahci" => A!PermitsAccounted
    /\ part = "nvme" => V!QueuesCounted
    /\ part = "datagrams" => N!PacketsKept
    /\ part = "routes" => D!PacketsKept
\* Regions, pages, buffers, queues, drives, partitions and ports have one user each.
KeptApart ==
    /\ part = "memory" => M!RegionsApart /\ M!PagesBacked
    /\ part = "regions" => R!RegionsApart /\ R!CountExact
    /\ part = "frames" => F!HeapBacked
    /\ part = "ahci" => A!BuffersApart /\ A!PortAlone /\ A!BlocksInside
    /\ part = "nvme" => V!QueuesApart /\ V!BuffersApart
    /\ part = "ata" => T!DrivesAlone
    /\ part = "datagrams" => N!PortsKept
    /\ part = "routes" => D!PortsKept
\* What a process reads is what it wrote, and what a call copies is what a disk transferred for it.
DataTrue ==
    /\ part = "memory" => M!MemoryPrivate /\ M!KeysKept
    /\ part = "ahci" => A!TransfersTrue
    /\ part = "nvme" => V!TransfersTrue
    /\ part = "ata" => T!TransfersTrue
\* A packet in a queue comes to the interface thread, and a datagram to its receiver.
ReceiversServed ==
    /\ part = "datagrams" => N!QueuedServed /\ N!ReceiversWoken
    /\ part = "routes" => D!QueuedServed /\ D!ReceiversWoken
=============================================================================
