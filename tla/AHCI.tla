-------------------------------- MODULE AHCI ---------------------------------
(***************************************************************************)
(* A SATA disk behind an AHCI port, from its start-up to the calls of its  *)
(* partitions: threads share a few buffers under a semaphore and the port  *)
(* under another, and poll the device.  The limits of the polls are sums   *)
(* of the microseconds since boot, kept in an int: they are right while    *)
(* the sum fits ("int"), then negative, and then in the past ("wrapped").  *)
(***************************************************************************)
EXTENDS Naturals, Sequences, FiniteSets, FiniteSetsExt

CONSTANTS
    Boot, Threads,        \* the thread that starts the port, and its users
    Buffers, Slots,       \* 0..Buffers-1, 0..Slots-1
    Runs,                 \* the sectors of one command, in the order they are tried (8, 2, 1)
    Table,                \* the partitions that the disk may have: sets of <<first, last>>
    Requests,             \* <<through, write, lba, sectors>>
    MaxErrors, MaxCalls   \* bounds

VARIABLES
    boot,                 \* of the start-up: the step it is at, "ready", or "gone"
    partitions,
    permits, locks,       \* bufferSemaphore, bufferLocks
    port,                 \* portLock
    ci,                   \* the command in each slot of the port
    buffer,               \* the transfer that each buffer had last
    epoch,
    call,                 \* of each thread
    calls, errors,
    hung,                 \* StopCMD has left a command running
    untrue,               \* calls to which other data was copied than the device transferred for them
    lost                  \* permits that an error has kept

vars == <<boot, partitions, permits, locks, port, ci, buffer, epoch, call, calls, errors, hung, untrue, lost>>

Users == Threads \cup {Boot}
None == [state |-> "none"]
Idle == [pc |-> "idle"]
InFlight == {s \in 0..Slots - 1 : ci[s] # None}
Busy == \E s \in InFlight : ci[s].state = "started"      \* BUSY or DRQ of tfd
TaskFileError == \E s \in InFlight : ci[s].state = "error"
CanErr == errors < MaxErrors /\ errors' = errors + 1

\* The locks of the buffers are never initialised: a lock may be found taken.
Init ==
    /\ boot = "probe" /\ partitions = {}
    /\ permits = Buffers
    /\ locks \in {u \in SUBSET (0..Buffers - 1) : Cardinality(u) <= 1}
    /\ port = 1 /\ ci = [s \in 0..Slots - 1 |-> None]
    /\ buffer = [b \in 0..Buffers - 1 |-> <<>>]
    /\ epoch = "int" /\ call = [t \in Users |-> Idle]
    /\ calls = 0 /\ errors = 0 /\ hung = FALSE /\ untrue = {} /\ lost = 0
-----------------------------------------------------------------------------
(* The device, and the time *)

Tick ==
    /\ epoch # "wrapped" /\ epoch' = IF epoch = "int" THEN "negative" ELSE "wrapped"
    /\ UNCHANGED <<boot, partitions, permits, locks, port, ci, buffer, call, calls, errors, hung, untrue, lost>>

Becomes(s, to) == ci' = [ci EXCEPT ![s] = to]

\* The device starts a command, and transfers its data before the bit in ci is cleared.
DeviceStarts(s) ==
    /\ ci[s] # None /\ ci[s].state = "issued" /\ ~Busy
    /\ Becomes(s, [ci[s] EXCEPT !.state = "started"])
    /\ UNCHANGED <<boot, partitions, permits, locks, port, buffer, epoch, call, calls, errors, hung, untrue, lost>>
DeviceEnds(s) ==
    /\ ci[s] # None /\ ci[s].state = "started"
    /\ Becomes(s, None) /\ buffer' = [buffer EXCEPT ![ci[s].buf] = ci[s].for]
    /\ UNCHANGED <<boot, partitions, permits, locks, port, epoch, call, calls, errors, hung, untrue, lost>>
DeviceErrs(s) ==
    /\ ci[s] # None /\ ci[s].state = "started" /\ CanErr
    /\ Becomes(s, [ci[s] EXCEPT !.state = "error"])
    /\ UNCHANGED <<boot, partitions, permits, locks, port, buffer, epoch, call, calls, hung, untrue, lost>>

\* The first slot of which neither bit is set.
FindCmdSlot == IF \E s \in 0..Slots - 1 : ci[s] = None THEN Min({s \in 0..Slots - 1 : ci[s] = None}) ELSE Slots
\* A wait for tfd passes when the device is idle, and ends as hung when its limit is zero or less.
Passes == ~Busy /\ epoch # "negative"
Hangs == IF epoch = "negative" THEN ~Busy ELSE Busy
\* The engine stops and drops its commands, or is left running after 100 ms; it is started all the same.
StopCMD ==
    \/ ci' = [s \in 0..Slots - 1 |-> None] /\ UNCHANGED <<hung, errors>>
    \/ Busy /\ CanErr /\ hung' = TRUE /\ UNCHANGED ci
StartCMD(s, b, what) == Becomes(s, [state |-> "issued", buf |-> b, for |-> what])
-----------------------------------------------------------------------------
(* A transfer *)

Goes(t, to) == call' = [call EXCEPT ![t] = to]
At(t, pc) == call[t].pc = pc
Stamp(t) == <<t, call[t].id, call[t].lba>>

\* The permit, then the first buffer that is not locked; with none, the permit goes back.
AcquireBuffer(t) ==
    /\ At(t, "buffer") /\ permits > 0
    /\ \/ /\ locks # 0..Buffers - 1
          /\ LET b == Min((0..Buffers - 1) \ locks)
             IN  locks' = locks \cup {b} /\ Goes(t, [call[t] EXCEPT !.pc = "run", !.buf = b])
          /\ permits' = permits - 1
       \/ /\ locks = 0..Buffers - 1
          /\ Goes(t, [call[t] EXCEPT !.pc = "return", !.e = "none"]) /\ UNCHANGED <<locks, permits>>
    /\ UNCHANGED <<boot, partitions, port, ci, buffer, epoch, calls, errors, hung, untrue, lost>>
\* A signal ends the wait: nothing is taken, and the error is positive.
BufferInterrupted(t) ==
    /\ At(t, "buffer") /\ t # Boot /\ CanErr
    /\ Goes(t, [call[t] EXCEPT !.pc = "return", !.e = "EINTR"])
    /\ UNCHANGED <<boot, partitions, permits, locks, port, ci, buffer, epoch, calls, hung, untrue, lost>>

ReleaseBuffer(t) == locks' = locks \ {call[t].buf} /\ permits' = permits + 1

\* As many sectors as the first run that still fits; a write takes one after another.
Piece(t) ==
    IF call[t].write THEN 1 ELSE Runs[Min({i \in DOMAIN Runs : Runs[i] <= call[t].left})]
Run(t) ==
    /\ At(t, "run")
    /\ IF call[t].left = 0
       THEN ReleaseBuffer(t) /\ Goes(t, [call[t] EXCEPT !.pc = "return", !.e = "ok"])
       ELSE Goes(t, [call[t] EXCEPT !.pc = "port", !.n = Piece(t)]) /\ UNCHANGED <<locks, permits>>
    /\ UNCHANGED <<boot, partitions, port, ci, buffer, epoch, calls, errors, hung, untrue, lost>>

\* Access returns an error: in the loop of the longest runs the buffer is not released.
Fails(t, e) ==
    /\ Goes(t, [call[t] EXCEPT !.pc = "return", !.e = e])
    /\ IF ~call[t].write /\ call[t].n = Head(Runs) THEN lost' = lost + 1 /\ UNCHANGED <<locks, permits>>
       ELSE ReleaseBuffer(t) /\ UNCHANGED lost

PortInterrupted(t) ==
    /\ At(t, "port") /\ t # Boot /\ CanErr /\ Fails(t, "EINTR")
    /\ UNCHANGED <<boot, partitions, port, ci, buffer, epoch, calls, hung, untrue>>

\* The port, and a slot of it.
Access(t) ==
    /\ At(t, "port") /\ port = 1
    /\ IF FindCmdSlot = Slots
       THEN Fails(t, "EIO") /\ UNCHANGED port
       ELSE /\ port' = 0 /\ Goes(t, [call[t] EXCEPT !.pc = "ready", !.slot = FindCmdSlot])
            /\ UNCHANGED <<locks, permits, lost>>
    /\ UNCHANGED <<boot, partitions, ci, buffer, epoch, calls, errors, hung, untrue>>

Issue(t) ==
    /\ At(t, "ready") /\ Passes
    /\ StartCMD(call[t].slot, call[t].buf, Stamp(t))
    /\ Goes(t, [call[t] EXCEPT !.pc = "poll"])
    /\ UNCHANGED <<boot, partitions, permits, locks, port, buffer, epoch, calls, errors, hung, untrue, lost>>
NotReady(t) ==
    /\ At(t, "ready") /\ Hangs /\ Fails(t, "EIO") /\ port' = 1
    /\ UNCHANGED <<boot, partitions, ci, buffer, epoch, calls, errors, hung, untrue>>

PollOverIdle(t) ==   \* mutant
    \/ ci[call[t].slot] = None
    \/ epoch = "wrapped"
    \/ epoch = "int" /\ ~Busy
\* Until the bit of the slot is clear; 200 ms after it has been started, or at once, the poll is over.
PollOver(t) ==
    \/ ci[call[t].slot] = None
    \/ epoch = "wrapped"
    \/ epoch = "int" /\ Busy
Poll(t) ==
    /\ At(t, "poll") /\ PollOver(t) /\ Goes(t, [call[t] EXCEPT !.pc = "settle"])
    /\ UNCHANGED <<boot, partitions, permits, locks, port, ci, buffer, epoch, calls, errors, hung, untrue, lost>>
PollError(t) ==
    /\ At(t, "poll") /\ ci[call[t].slot] # None /\ TaskFileError
    /\ ci' = [s \in 0..Slots - 1 |-> None] /\ port' = 1 /\ Fails(t, "EIO")
    /\ UNCHANGED <<boot, partitions, buffer, epoch, calls, errors, hung, untrue>>

\* A last wait for the device; then the engine is stopped, and what was transferred is copied.
Settle(t) ==
    /\ At(t, "settle") /\ (Passes \/ Hangs)
    /\ StopCMD /\ port' = 1
    /\ IF Hangs \/ TaskFileError
       THEN Fails(t, "EIO") /\ UNCHANGED untrue
       ELSE /\ Goes(t, [call[t] EXCEPT !.pc = "run", !.lba = @ + call[t].n, !.left = @ - call[t].n])
            /\ untrue' = IF buffer[call[t].buf] = Stamp(t) THEN untrue ELSE untrue \cup {call[t].id}
            /\ UNCHANGED <<locks, permits, lost>>
    /\ UNCHANGED <<boot, partitions, buffer, epoch, calls>>

-----------------------------------------------------------------------------
(* Calls *)

Begin(t, inside, write, lba, n) ==
    Goes(t, [pc |-> "buffer", id |-> calls, inside |-> inside, write |-> write, lba |-> lba, left |-> n, n |-> 0,
             buf |-> Buffers, slot |-> Slots, e |-> "ok"])

\* DiskDevice::Read tests nothing but the alignment.
DiskRead(t, lba, n) == Begin(t, {}, FALSE, lba, n)
\* ReadBlock and WriteBlock of a partition test the range, in bytes.
InRange(p, lba, n) == lba + n <= p[2] - p[1]
PartitionBlock(t, p, write, lba, n) == InRange(p, lba, n) /\ Begin(t, {p}, write, p[1] + lba, n)
\* Read and Write of a partition do not.
PartitionFile(t, p, write, lba, n) == Begin(t, {}, write, p[1] + lba, n)

Call(t) ==
    /\ boot = "ready" /\ t \in Threads /\ call[t] = Idle /\ calls < MaxCalls /\ calls' = calls + 1
    /\ \E r \in Requests :
         \/ r[1] = "disk" /\ ~r[2] /\ DiskRead(t, r[3], r[4])
         \/ r[1] = "block" /\ \E p \in partitions : PartitionBlock(t, p, r[2], r[3], r[4])
         \/ r[1] = "file" /\ \E p \in partitions : PartitionFile(t, p, r[2], r[3], r[4])
    /\ UNCHANGED <<boot, partitions, permits, locks, port, ci, buffer, epoch, errors, hung, untrue, lost>>
Return(t) ==
    /\ At(t, "return") /\ t \in Threads /\ Goes(t, Idle)
    /\ UNCHANGED <<boot, partitions, permits, locks, port, ci, buffer, epoch, calls, errors, hung, untrue, lost>>
-----------------------------------------------------------------------------
(* Start-up *)

Boots(from, to) == boot = from /\ boot' = to

\* The engine is stopped, and given its structures; a device is waited for.
Probe ==
    /\ \/ Boots("probe", "reset") /\ UNCHANGED errors
       \/ Boots("probe", "gone") /\ CanErr
    /\ UNCHANGED <<partitions, permits, locks, port, ci, buffer, epoch, call, calls, hung, untrue, lost>>
\* A port that hangs is reset and used all the same, if there still is a device.
ResetPort ==
    /\ \/ Boots("reset", "identify") /\ UNCHANGED errors
       \/ Boots("reset", "gone") /\ CanErr
    /\ UNCHANGED <<partitions, permits, locks, port, ci, buffer, epoch, call, calls, hung, untrue, lost>>
\* A command on the first buffer, without the locks; its answer is waited for without a limit, and not used.
Identify ==
    /\ Boots("identify", "identified")
    /\ ci[FindCmdSlot] = None /\ StartCMD(FindCmdSlot, 0, <<"identify">>)
    /\ UNCHANGED <<partitions, permits, locks, port, buffer, epoch, call, calls, errors, hung, untrue, lost>>
Identified ==
    /\ Boots("identified", "header") /\ (InFlight = {} \/ TaskFileError)
    /\ StopCMD
    /\ UNCHANGED <<partitions, permits, locks, port, buffer, epoch, call, calls, untrue, lost>>

\* GPT::Parse: the header is read, then the table; the semaphores get their values after it.
Parse(from, to) ==
    /\ Boots(from, to) /\ call[Boot] = Idle /\ DiskRead(Boot, 1, 1)
    /\ UNCHANGED <<partitions, permits, locks, port, ci, buffer, epoch, calls, errors, hung, untrue, lost>>
SetValues == permits' = Buffers /\ port' = 1
ParseHeader == Parse("header", "headed")
ParseTable ==
    /\ At(Boot, "return") /\ boot = "headed" /\ call[Boot].e = "ok"
    /\ boot' = "table" /\ DiskRead(Boot, 2, 1)
    /\ UNCHANGED <<partitions, permits, locks, port, ci, buffer, epoch, calls, errors, hung, untrue, lost>>
\* No header, or an error: a disk without partitions.
ParseEnds ==
    /\ At(Boot, "return") /\ boot \in {"headed", "table"} /\ boot' = "ready"
    /\ \E ps \in Table : partitions' = IF boot = "table" /\ call[Boot].e = "ok" THEN ps ELSE {}
    /\ SetValues /\ Goes(Boot, Idle)
    /\ UNCHANGED <<locks, ci, buffer, epoch, calls, errors, hung, untrue, lost>>

Next ==
    \/ Tick
    \/ \E s \in 0..Slots - 1 : DeviceStarts(s) \/ DeviceEnds(s) \/ DeviceErrs(s)
    \/ \E t \in Users :
         \/ AcquireBuffer(t) \/ BufferInterrupted(t) \/ Run(t) \/ PortInterrupted(t) \/ Access(t)
         \/ Issue(t) \/ NotReady(t) \/ Poll(t) \/ PollError(t) \/ Settle(t)
         \/ Call(t) \/ Return(t)
    \/ Probe \/ ResetPort \/ Identify \/ Identified \/ ParseHeader \/ ParseTable \/ ParseEnds

Spec == Init /\ [][Next]_vars
-----------------------------------------------------------------------------
(* Properties *)

Using(t) == call[t].pc \in {"run", "port", "ready", "poll", "settle"}
InAccess(t) == call[t].pc \in {"ready", "poll", "settle"}
Started == boot = "ready"

\* What a call has copied is what the device transferred for it, as long as the uptime fits in an int.
TransfersTrue == epoch = "int" /\ ~hung => untrue = {}

\* No two calls use one buffer, and the device writes to none that is not in use.
BuffersApart ==
    /\ \A t, u \in Users : t # u /\ Using(t) /\ Using(u) => call[t].buf # call[u].buf
    /\ \A t \in Users : Using(t) => call[t].buf \in locks
    /\ Started /\ epoch = "int" /\ ~hung =>
         \A s \in InFlight : \E t \in Users : InAccess(t) /\ call[t].slot = s /\ call[t].buf = ci[s].buf

\* Every permit of the buffers is free, used, or lost by an error of a longest run.
PermitsAccounted == permits + Cardinality({t \in Users : Using(t)}) + lost = Buffers

\* The port has one user, and no command is left when it is free.
PortAlone ==
    /\ port + Cardinality({t \in Users : InAccess(t)}) = 1
    /\ Started /\ port = 1 /\ ~hung => InFlight = {}

\* The sectors of a block of a partition are the partition's.
BlocksInside ==
    \A t \in Users : InAccess(t) =>
        \A p \in call[t].inside : call[t].lba >= p[1] /\ call[t].lba + call[t].n <= p[2]
=============================================================================
