-------------------------------- MODULE NVMe ---------------------------------
(***************************************************************************)
(* An NVMe controller from its start-up to the reads and writes of a       *)
(* namespace.  A queue is two rings: the driver stores a command and rings *)
(* a doorbell; the device runs it, some time, and stores a completion that *)
(* the driver knows by its phase and takes for the one it waits for.       *)
(***************************************************************************)
EXTENDS Naturals, Sequences, SequencesExt, FiniteSets, FiniteSetsExt

CONSTANTS
    Boot, Threads,        \* the thread that starts the controller, and its users
    MaxQueues,            \* the queues it asks for
    SQ, CQ, IDs,          \* sqCount and cqCount, and where the command numbers start again
    Buffers,              \* of the namespace
    DiskSize, Unit,       \* its blocks, and what a block counts for in a size
    Requests,             \* <<write, lba, blocks>>
    MaxErrors, MaxCalls   \* bounds

VARIABLES
    boot,                 \* the step the start-up is at, "ready", or "failed"
    q,                    \* the queues: 0 is the admin queue
    allocated,            \* MIN(completionQueuesAllocated, submissionQueuesAllocated)
    ioQueues, available,  \* the list, and queueAvailability
    permits, locks, buffer,
    call, calls, errors,
    late,                 \* commands that timed out
    raced,                \* the list was changed by two threads at once
    lost,                 \* buffers that are never released
    untrue                \* calls that took another command's completion, or other data

device == <<q, buffer>>
lists == <<ioQueues, available, raced>>
buffers == <<permits, locks, lost>>
vars == <<boot, device, allocated, lists, buffers, call, calls, errors, late, untrue>>

Users == Threads \cup {Boot}
Idle == [pc |-> "idle"]
NoCompletion == [phase |-> FALSE, id |-> 0, for |-> <<>>, ok |-> TRUE]
NoCommand == [id |-> 0, for |-> <<>>, buf |-> Buffers]

\* The rings are cleared; the first completions have the phase TRUE.
NewQueue ==
    [sq |-> [i \in 0..SQ - 1 |-> NoCommand], sqTail |-> 0, sqHead |-> 0, nextCommandID |-> 0, lock |-> FALSE,
     cq |-> [i \in 0..CQ - 1 |-> NoCompletion], cqHead |-> 0, cycle |-> TRUE, cqTail |-> 0, phase |-> TRUE]

Init ==
    /\ boot = "disable" /\ q = [i \in 0..MaxQueues |-> NewQueue] /\ allocated = 0
    /\ ioQueues = <<>> /\ available = 0 /\ raced = FALSE
    /\ permits = Buffers /\ locks = {} /\ lost = 0 /\ buffer = [b \in 0..Buffers - 1 |-> <<>>]
    /\ call = [t \in Users |-> Idle] /\ calls = 0 /\ errors = 0 /\ late = 0 /\ untrue = {}

Goes(t, to) == call' = [call EXCEPT ![t] = to]
At(t, pc) == call[t].pc = pc
CanErr == errors < MaxErrors /\ errors' = errors + 1
-----------------------------------------------------------------------------
(* A queue *)

After(i, n) == (i + 1) % n
NextID(i) == IF i + 1 = IDs THEN 0 ELSE i + 1
Stamp(t) == <<t, call[t].id, call[t].lba>>

\* The lock of the queue is held until the completion is there.
Submit(t) ==
    LET i == call[t].queue
        k == q[i]
    IN  /\ At(t, "submit") /\ ~k.lock
        /\ q' = [q EXCEPT ![i] = [k EXCEPT !.lock = TRUE, !.nextCommandID = NextID(@), !.sqTail = After(@, SQ),
                                    !.sq[k.sqTail] = [id |-> k.nextCommandID, for |-> Stamp(t), buf |-> call[t].buf]]]
        /\ Goes(t, [call[t] EXCEPT !.pc = "wait"])
        /\ UNCHANGED <<boot, buffer, allocated, lists, buffers, calls, errors, late, untrue>>

IsNewFirst(k) == k.cq[k.cqHead].phase   \* mutant
\* The completion at the head is new when it has the phase of this round.
IsNew(k) == k.cq[k.cqHead].phase = k.cycle
Consume(t) ==
    LET i == call[t].queue
        k == q[i]
        c == k.cq[k.cqHead]
        wraps == k.cqHead + 1 = CQ
    IN  /\ At(t, "wait") /\ IsNew(k)
        /\ q' = [q EXCEPT ![i].lock = FALSE, ![i].cqHead = After(@, CQ), ![i].cycle = IF wraps THEN ~@ ELSE @]
        /\ Goes(t, [call[t] EXCEPT !.pc = "completed", !.ok = c.ok])
        /\ untrue' = IF c.for = Stamp(t) THEN untrue ELSE untrue \cup {call[t].id}
        /\ UNCHANGED <<boot, buffer, allocated, lists, buffers, calls, errors, late>>
\* After half a second: the completion may still come, and nobody waits for it.
TimesOut(t) ==
    /\ At(t, "wait") /\ ~IsNew(q[call[t].queue]) /\ CanErr /\ late' = late + 1
    /\ q' = [q EXCEPT ![call[t].queue].lock = FALSE]
    /\ Goes(t, [call[t] EXCEPT !.pc = "completed", !.ok = FALSE])
    /\ UNCHANGED <<boot, buffer, allocated, lists, buffers, calls, untrue>>

\* The device runs the next command of a queue that has room for a completion: with the data first.
DeviceRuns(i) ==
    LET k == q[i]
        c == k.sq[k.sqHead]
    IN  /\ k.sqHead # k.sqTail /\ After(k.cqTail, CQ) # k.cqHead
        /\ \E ok \in BOOLEAN :
             /\ ok \/ errors < MaxErrors
             /\ errors' = IF ok THEN errors ELSE errors + 1
             /\ buffer' = IF ok /\ c.buf # Buffers THEN [buffer EXCEPT ![c.buf] = c.for] ELSE buffer
             /\ q' = [q EXCEPT ![i] = [k EXCEPT !.sqHead = After(@, SQ), !.cqTail = After(@, CQ),
                          !.phase = IF k.cqTail + 1 = CQ THEN ~@ ELSE @,
                          !.cq[k.cqTail] = [phase |-> k.phase, id |-> c.id, for |-> c.for, ok |-> ok]]]
        /\ UNCHANGED <<boot, allocated, lists, buffers, call, calls, late, untrue>>
-----------------------------------------------------------------------------
(* The buffers of a namespace, and the list of queues *)

AcquireBuffer(t) ==
    /\ At(t, "buffer") /\ permits > 0 /\ permits' = permits - 1
    /\ LET b == Min((0..Buffers - 1) \ locks)
       IN  locks' = locks \cup {b} /\ Goes(t, [call[t] EXCEPT !.pc = "queue", !.buf = b])
    /\ UNCHANGED <<boot, device, allocated, lists, lost, calls, errors, late, untrue>>
BufferInterrupted(t) ==
    /\ At(t, "buffer") /\ t # Boot /\ CanErr /\ Goes(t, [call[t] EXCEPT !.pc = "return", !.ok = FALSE])
    /\ UNCHANGED <<boot, device, allocated, lists, buffers, calls, late, untrue>>
ReleaseBuffer(t) == locks' = locks \ {call[t].buf} /\ permits' = permits + 1 /\ UNCHANGED lost

\* The list has no lock: whoever changes it while another does, races.
Changing == {t \in Users : call[t].pc \in {"take", "give"}}
AcquireIOQueue(t) ==
    /\ At(t, "queue") /\ available > 0 /\ available' = available - 1
    /\ raced' = (raced \/ Changing # {}) /\ Goes(t, [call[t] EXCEPT !.pc = "take"])
    /\ UNCHANGED <<boot, device, allocated, ioQueues, buffers, calls, errors, late, untrue>>
TakeIOQueue(t) ==
    /\ At(t, "take") /\ ioQueues # <<>> /\ ioQueues' = Tail(ioQueues)
    /\ Goes(t, [call[t] EXCEPT !.pc = "run", !.queue = Head(ioQueues)])
    /\ UNCHANGED <<boot, device, allocated, available, raced, buffers, calls, errors, late, untrue>>
\* The call returns with its buffer.
QueueInterrupted(t) ==
    /\ At(t, "queue") /\ t # Boot /\ CanErr /\ lost' = lost + 1
    /\ Goes(t, [call[t] EXCEPT !.pc = "return", !.ok = FALSE])
    /\ UNCHANGED <<boot, device, allocated, lists, permits, locks, calls, late, untrue>>

ReleaseIOQueue(t) ==
    /\ At(t, "release") /\ raced' = (raced \/ Changing # {})
    /\ ReleaseBuffer(t) /\ Goes(t, [call[t] EXCEPT !.pc = "give"])
    /\ UNCHANGED <<boot, device, allocated, ioQueues, available, calls, errors, late, untrue>>
GiveIOQueue(t) ==
    /\ At(t, "give") /\ ioQueues' = Append(ioQueues, call[t].queue) /\ available' = available + 1
    /\ Goes(t, [call[t] EXCEPT !.pc = "return"])
    /\ UNCHANGED <<boot, device, allocated, raced, buffers, calls, errors, late, untrue>>
-----------------------------------------------------------------------------
(* Reads and writes *)

Begin(t, write, lba, n) ==
    Goes(t, [pc |-> "buffer", id |-> calls, write |-> write, lba |-> lba, left |-> n,
             buf |-> Buffers, queue |-> 0, ok |-> TRUE])
\* The block and the bytes together may not be more than the blocks of the disk.
InRange(lba, n) == lba + n * Unit <= DiskSize

Call(t) ==
    /\ boot = "ready" /\ t \in Threads /\ call[t] = Idle /\ calls < MaxCalls /\ calls' = calls + 1
    /\ \E r \in Requests : InRange(r[2], r[3]) /\ Begin(t, r[1], r[2], r[3])
    /\ UNCHANGED <<boot, device, allocated, lists, buffers, errors, late, untrue>>

\* Block by block; a block that is written is copied to the buffer before it is submitted.
ReadDiskBlock(t) ==
    /\ At(t, "run") /\ ~call[t].write
    /\ Goes(t, [call[t] EXCEPT !.pc = IF call[t].left = 0 THEN "release" ELSE "submit"])
    /\ UNCHANGED <<boot, device, allocated, lists, buffers, calls, errors, late, untrue>>
WriteDiskBlock(t) ==
    /\ At(t, "run") /\ call[t].write
    /\ Goes(t, [call[t] EXCEPT !.pc = IF call[t].left = 0 THEN "release" ELSE "submit"])
    /\ buffer' = IF call[t].left = 0 THEN buffer ELSE [buffer EXCEPT ![call[t].buf] = <<t, call[t].id, call[t].lba>>]
    /\ UNCHANGED <<boot, q, allocated, lists, buffers, calls, errors, late, untrue>>

\* An error ends the call; a block that was read is copied from the buffer.
Completed(t) ==
    /\ At(t, "completed") /\ call[t].queue # 0
    /\ IF call[t].ok
       THEN /\ Goes(t, [call[t] EXCEPT !.pc = "run", !.lba = @ + 1, !.left = @ - 1])
            /\ untrue' = IF buffer[call[t].buf] = Stamp(t) THEN untrue ELSE untrue \cup {call[t].id}
       ELSE Goes(t, [call[t] EXCEPT !.pc = "release"]) /\ UNCHANGED untrue
    /\ UNCHANGED <<boot, device, allocated, lists, buffers, calls, errors, late>>
Return(t) ==
    /\ At(t, "return") /\ t # Boot /\ Goes(t, Idle)
    /\ UNCHANGED <<boot, device, allocated, lists, buffers, calls, errors, late, untrue>>
-----------------------------------------------------------------------------
(* Start-up *)

Boots(to) == boot' = to
Admin(k) ==
    Goes(Boot, [pc |-> "submit", id |-> k, write |-> FALSE, lba |-> 0, left |-> 0, buf |-> Buffers, queue |-> 0, ok |-> TRUE])
AdminDone == At(Boot, "completed") /\ call[Boot].queue = 0

\* The controller is stopped, its admin queue is set up, and it is started: that its waits are
\* over is never noticed (an unsigned counter that has passed zero), except for a fatal state.
Disable ==
    /\ boot = "disable"
    /\ \/ Boots("identify") /\ Admin("identify") /\ UNCHANGED errors
       \/ Boots("failed") /\ CanErr /\ UNCHANGED call
    /\ UNCHANGED <<device, allocated, lists, buffers, calls, late, untrue>>

\* The kind of the controller may not be the right one.
IdentifyController ==
    /\ boot = "identify" /\ AdminDone
    /\ \/ call[Boot].ok /\ Boots("queues") /\ Admin("queues") /\ UNCHANGED errors
       \/ ~call[Boot].ok /\ Boots("failed") /\ Goes(Boot, Idle) /\ UNCHANGED errors
       \/ call[Boot].ok /\ CanErr /\ Boots("failed") /\ Goes(Boot, Idle)
    /\ UNCHANGED <<device, allocated, lists, buffers, calls, late, untrue>>

SetNumberOfQueues ==
    /\ boot = "queues" /\ AdminDone
    /\ IF call[Boot].ok
       THEN \E n \in 0..MaxQueues :
              allocated' = n /\ IF n = 0 THEN Boots("failed") /\ Goes(Boot, Idle) ELSE Boots("cq") /\ Admin("cq")
       ELSE Boots("failed") /\ Goes(Boot, Idle) /\ UNCHANGED allocated
    /\ UNCHANGED <<device, lists, buffers, calls, errors, late, untrue>>

\* The completion queue, then the submission queue; the first that fails ends the loop.
CreateCompletionQueue ==
    /\ boot = "cq" /\ AdminDone /\ call[Boot].ok /\ Boots("sq") /\ Admin("sq")
    /\ UNCHANGED <<device, allocated, lists, buffers, calls, errors, late, untrue>>
CreateIOQueue ==
    /\ boot = "sq" /\ AdminDone /\ call[Boot].ok
    /\ ioQueues' = Append(ioQueues, Len(ioQueues) + 1)
    /\ IF Len(ioQueues) + 1 < allocated
       THEN Boots("cq") /\ Admin("cq") /\ UNCHANGED available
       ELSE Boots("namespace") /\ Admin("namespace") /\ available' = Len(ioQueues) + 1
    /\ UNCHANGED <<device, allocated, raced, buffers, calls, errors, late, untrue>>
QueueFails ==
    /\ boot \in {"cq", "sq"} /\ AdminDone /\ ~call[Boot].ok
    /\ IF ioQueues = <<>>
       THEN Boots("failed") /\ Goes(Boot, Idle) /\ UNCHANGED available
       ELSE Boots("namespace") /\ Admin("namespace") /\ available' = Len(ioQueues)
    /\ UNCHANGED <<device, allocated, ioQueues, raced, buffers, calls, errors, late, untrue>>

\* A namespace that is identified, and has blocks that are large enough, reads its table of partitions.
FindNamespace ==
    /\ boot = "namespace" /\ AdminDone
    /\ \/ call[Boot].ok /\ Boots("parse") /\ Begin(Boot, FALSE, 1, 1) /\ UNCHANGED errors
       \/ ~call[Boot].ok /\ Boots("failed") /\ Goes(Boot, Idle) /\ UNCHANGED errors
       \/ call[Boot].ok /\ CanErr /\ Boots("failed") /\ Goes(Boot, Idle)
    /\ UNCHANGED <<device, allocated, lists, buffers, calls, late, untrue>>
\* With or without partitions.
Parsed ==
    /\ boot = "parse" /\ At(Boot, "return") /\ Boots("ready") /\ Goes(Boot, Idle)
    /\ UNCHANGED <<device, allocated, lists, buffers, calls, errors, late, untrue>>

Next ==
    \/ \E t \in Users :
         \/ Submit(t) \/ Consume(t) \/ TimesOut(t)
         \/ AcquireBuffer(t) \/ BufferInterrupted(t)
         \/ AcquireIOQueue(t) \/ TakeIOQueue(t) \/ QueueInterrupted(t) \/ ReleaseIOQueue(t) \/ GiveIOQueue(t)
         \/ Call(t) \/ ReadDiskBlock(t) \/ WriteDiskBlock(t) \/ Completed(t) \/ Return(t)
    \/ \E i \in 0..MaxQueues : DeviceRuns(i)
    \/ Disable \/ IdentifyController \/ SetNumberOfQueues
    \/ CreateCompletionQueue \/ CreateIOQueue \/ QueueFails \/ FindNamespace \/ Parsed

Spec == Init /\ [][Next]_vars
-----------------------------------------------------------------------------
(* Properties *)

HasQueue(t) == call[t].pc \in {"run", "submit", "wait", "completed", "release", "give"} /\ call[t].queue # 0
HasBuffer(t) ==
    call[t].pc \in {"queue", "take", "run", "submit", "wait", "completed", "release"} /\ call[t].buf # Buffers

\* Until a command times out, what a call takes is the completion and the data of its own command.
TransfersTrue == late = 0 /\ ~raced => untrue = {}

\* A queue is on the list once, or has one user.
QueuesApart ==
    ~raced =>
        /\ IsInjective(ioQueues)
        /\ \A t \in Users : HasQueue(t) =>
             /\ ~Contains(ioQueues, call[t].queue)
             /\ \A u \in Users : HasQueue(u) /\ call[u].queue = call[t].queue => u = t

\* Every permit is a queue of the list, which no thread that has one finds empty.
QueuesCounted == ~raced => available + Cardinality({t \in Users : At(t, "take")}) = (IF boot \in {"cq", "sq"} THEN 0 ELSE Len(ioQueues))

\* A buffer is free, used by one call, or kept by a call that was interrupted.
BuffersApart ==
    /\ \A t, u \in Users : t # u /\ HasBuffer(t) /\ HasBuffer(u) => call[t].buf # call[u].buf
    /\ permits + Cardinality({t \in Users : HasBuffer(t)}) + lost = Buffers
    /\ Cardinality(locks) = Buffers - permits
=============================================================================
