------------------------------ MODULE TempNode ------------------------------
(***************************************************************************)
(* A file of the memory file system (Tmp.cpp): its buffer, which grows and *)
(* shrinks in chunks, and its life, which ends when its last name and its  *)
(* last handle are gone.  bufferLock (see ReadWriteLock) makes a copy, a   *)
(* write and a truncation one step each; the counts and the directory have *)
(* no lock.                                                                *)
(***************************************************************************)
EXTENDS Integers, Sequences, FiniteSets

CONSTANTS
    Threads, Names, Data,
    Chunk,       \* TEMP_BUFFER_CHUNK_SIZE
    MaxSize,     \* bound on sizes
    MaxHandles,  \* bound on handles
    None

VARIABLES
    node,    \* size, buffer, nlink, handleCount, and how often it was deleted
    names,   \* the entries of the directory that refer to it
    thr,     \* the call of each thread
    told      \* what the writes have put at each position; None where nothing did

vars == <<node, names, thr, told>>

Idle == [pc |-> "idle"]
Positions == 0 .. MaxSize - 1
Garbage == CHOOSE d \in Data : TRUE   \* what the allocator leaves in a block

Create ==
    /\ node = [size |-> 0, buffer |-> <<>>, nlink |-> 1, handleCount |-> 0, deleted |-> 0]
    /\ \E c \in Names : names = {c}

Init ==
    /\ Create
    /\ thr = [t \in Threads |-> Idle]
    /\ told = [i \in Positions |-> None]
-----------------------------------------------------------------------------
(* Contents.  Byte i of the file is buffer[i + 1]. *)

RoundUpShort(n) == (n \div Chunk) * Chunk
RoundUp(n) == ((n + Chunk - 1) \div Chunk) * Chunk

\* ReallocateNode: a block of another size, with the first "kept" bytes of the old one.
Block(old, length, kept) == [i \in 1 .. length |-> IF i <= kept THEN old[i] ELSE Garbage]
Reallocated(buffer, size, oldSize) ==
    LET length == RoundUp(size)
    IN  CASE length > Len(buffer) -> Block(buffer, length, IF buffer = <<>> THEN 0 ELSE oldSize)
          [] length < Len(buffer) -> Block(buffer, length, size)
          [] OTHER -> buffer

Alive(t) == thr[t] = Idle /\ node.handleCount > 0 /\ node.deleted = 0
Goes(t, do) == thr' = [thr EXCEPT ![t] = do]

\* The bounds of a read are computed from the size before bufferLock is taken.
ReadBounds(t, off, n) ==
    /\ Alive(t) /\ off <= node.size
    /\ Goes(t, [pc |-> "copy", off |-> off, n |-> IF off + n > node.size THEN node.size - off ELSE n,
                cut |-> FALSE, fault |-> FALSE])
    /\ UNCHANGED <<node, names, told>>

ReadCopy(t) ==
    /\ thr[t].pc = "copy"
    /\ Goes(t, [thr[t] EXCEPT !.pc = "read",
                              !.fault = thr[t].n > 0 /\ thr[t].off + thr[t].n > Len(node.buffer)])
    /\ UNCHANGED <<node, names, told>>

ReadReturn(t) == thr[t].pc = "read" /\ Goes(t, Idle) /\ UNCHANGED <<node, names, told>>

\* A read that has its bounds and has not copied yet sees the truncation.
Overtaken == [t \in Threads |-> IF thr[t].pc = "copy" THEN [thr[t] EXCEPT !.cut = TRUE] ELSE thr[t]]

\* Whether the buffer must grow is asked only when the file does.
Write(t, off, n, d) ==
    LET grows == node.buffer = <<>> \/ off + n > node.size
        size == IF grows THEN off + n ELSE node.size
        buffer == IF grows /\ size >= Len(node.buffer) THEN Reallocated(node.buffer, size, node.size)
                  ELSE node.buffer
    IN  /\ Alive(t) /\ n > 0 /\ off + n <= MaxSize
        /\ node' = [node EXCEPT !.size = size,
                       !.buffer = [i \in 1 .. Len(buffer) |-> IF i \in off + 1 .. off + n THEN d ELSE buffer[i]]]
        /\ told' = [i \in Positions |-> IF i \in off .. off + n - 1 THEN d ELSE told[i]]
        /\ UNCHANGED <<names, thr>>

Truncate(t, length) ==
    /\ Alive(t)
    /\ node' = [node EXCEPT !.size = length, !.buffer = Reallocated(@, length, node.size)]
    /\ thr' = Overtaken
    /\ told' = [i \in Positions |-> IF i < length /\ i < node.size THEN told[i] ELSE None]
    /\ UNCHANGED names
-----------------------------------------------------------------------------
(* Names and handles *)

Link(t, c) ==
    /\ thr[t] = Idle /\ names # {} /\ c \notin names
    /\ node' = [node EXCEPT !.nlink = @ + 1]
    /\ names' = names \cup {c}
    /\ UNCHANGED <<thr, told>>

Open(t) ==
    /\ thr[t] = Idle /\ names # {} /\ node.deleted = 0 /\ node.handleCount < MaxHandles
    /\ node' = [node EXCEPT !.handleCount = @ + 1]
    /\ UNCHANGED <<names, thr, told>>

\* Unlink and Close count down first and look at both counts afterwards.
Unlink(t, c) ==
    /\ thr[t] = Idle /\ c \in names
    /\ node' = [node EXCEPT !.nlink = @ - 1]
    /\ names' = names \ {c}
    /\ Goes(t, [pc |-> "last"])
    /\ UNCHANGED told

Close(t) ==
    /\ thr[t] = Idle /\ node.handleCount > Cardinality({s \in Threads : thr[s].pc \in {"copy", "read"}})
    /\ node' = [node EXCEPT !.handleCount = @ - 1]
    /\ Goes(t, [pc |-> "last"])
    /\ UNCHANGED <<names, told>>

DeleteIfLast(t) ==
    /\ thr[t].pc = "last"
    /\ node' = IF node.nlink <= 0 /\ node.handleCount <= 0
               THEN [node EXCEPT !.deleted = @ + 1, !.buffer = <<>>, !.size = 0] ELSE node
    /\ Goes(t, Idle)
    /\ UNCHANGED <<names, told>>

Next ==
    \E t \in Threads :
       \/ ReadCopy(t) \/ ReadReturn(t) \/ Open(t) \/ Close(t) \/ DeleteIfLast(t)
       \/ \E c \in Names : Link(t, c) \/ Unlink(t, c)
       \/ \E n \in 0 .. MaxSize :
             \/ Truncate(t, n)
             \/ \E off \in Positions : ReadBounds(t, off, n) \/ \E d \in Data : Write(t, off, n, d)

Spec == Init /\ [][Next]_vars
-----------------------------------------------------------------------------
\* What was written stays where it was written through every change of the buffer's size,
\* until it is cut off; and a read stays inside the buffer unless a truncation overtakes it.
KeepsBytes ==
    /\ node.deleted = 0 => /\ node.size <= Len(node.buffer)
                           /\ \A i \in Positions : i < node.size /\ told[i] # None => node.buffer[i + 1] = told[i]
    /\ \A t \in Threads : thr[t].pc = "read" /\ thr[t].fault => thr[t].cut

\* A file without names and handles is gone once the calls that took the last ones away are
\* over, whichever came first, and a file that can still be found is there.
LastOneDeletes ==
    /\ names = {} /\ node.handleCount = 0 /\ (\A t \in Threads : thr[t] = Idle) => node.deleted > 0
    /\ names # {} => node.deleted = 0
=============================================================================
