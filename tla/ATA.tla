--------------------------------- MODULE ATA ---------------------------------
(***************************************************************************)
(* IDE drives: a drive has a lock and a buffer of its own, but the         *)
(* registers of a port are shared by its two drives, and the bus master,   *)
(* of which only the first port's registers are used, by all of them.      *)
(***************************************************************************)
EXTENDS Naturals, Sequences, FiniteSets

CONSTANTS
    Boot, Threads,
    Order,               \* the drives in the order they are looked for: <<port, drive>>
    Requests,            \* <<write, lba, sectors>>
    MaxErrors, MaxCalls  \* bounds

VARIABLES
    boot,                \* how many drives were looked for
    drives, lock,        \* those that were found, and driveLock
    head, lba,           \* of a port: the drive that is selected, and the address
    prdt,                \* of the bus master: the drive whose buffer it uses
    command,             \* of a port: what runs, or what it ended with
    buffer,              \* the transfer that each drive's buffer had last
    call, calls, errors,
    shared,              \* two accesses were made at once
    untrue               \* ports of calls that returned other data than they asked for

registers == <<head, lba, prdt, command>>
vars == <<boot, drives, lock, registers, buffer, call, calls, errors, shared, untrue>>

Users == Threads \cup {Boot}
Drives == {Order[i] : i \in DOMAIN Order}
Ports == {d[1] : d \in Drives}
NoCommand == [state |-> "none"]
Idle == [pc |-> "idle"]

Init ==
    /\ boot = 0 /\ drives = {} /\ lock = [d \in Drives |-> 1]
    /\ head = [p \in Ports |-> 0] /\ lba = [p \in Ports |-> 0] /\ prdt = Order[1]
    /\ command = [p \in Ports |-> NoCommand] /\ buffer = [d \in Drives |-> <<>>]
    /\ call = [t \in Users |-> Idle] /\ calls = 0 /\ errors = 0 /\ shared = FALSE /\ untrue = {}

At(t, pc) == call[t].pc = pc
Goes(t, to) == call' = [call EXCEPT ![t] = to]
Step(t, from, to) == At(t, from) /\ Goes(t, [call[t] EXCEPT !.pc = to])
Port(t) == call[t].drive[1]
CanErr == errors < MaxErrors /\ errors' = errors + 1
InAccess(t) == call[t].pc \in {"prdt", "select", "address", "command", "poll"}
-----------------------------------------------------------------------------
(* Access *)

\* Waits for the drive's own lock, sector by sector; a write fills the buffer under it.
ReadDiskBlock(t) ==
    /\ At(t, "next") /\ call[t].left > 0 /\ ~call[t].write /\ lock[call[t].drive] = 1
    /\ lock' = [lock EXCEPT ![call[t].drive] = 0] /\ Step(t, "next", "prdt")
    /\ shared' = (shared \/ \E u \in Users : InAccess(u))
    /\ UNCHANGED <<boot, drives, registers, buffer, calls, errors, untrue>>
WriteDiskBlock(t) ==
    /\ At(t, "next") /\ call[t].left > 0 /\ call[t].write /\ lock[call[t].drive] = 1
    /\ lock' = [lock EXCEPT ![call[t].drive] = 0] /\ Step(t, "next", "prdt")
    /\ shared' = (shared \/ \E u \in Users : InAccess(u))
    /\ buffer' = [buffer EXCEPT ![call[t].drive] = <<"from", call[t].id, call[t].lba>>]
    /\ UNCHANGED <<boot, drives, registers, calls, errors, untrue>>
Interrupted(t) ==
    /\ t # Boot /\ At(t, "next") /\ call[t].left > 0 /\ CanErr /\ Goes(t, [call[t] EXCEPT !.pc = "return", !.ok = FALSE])
    /\ UNCHANGED <<boot, drives, lock, registers, buffer, calls, shared, untrue>>

Quiet(t) == command[Port(t)].state # "runs"
BusMaster(t) ==
    /\ Step(t, "prdt", "select") /\ prdt' = call[t].drive
    /\ UNCHANGED <<boot, drives, lock, head, lba, command, buffer, calls, errors, shared, untrue>>
SelectFirst(t) ==   \* mutant
    /\ Step(t, "select", "address") /\ head' = [head EXCEPT ![Port(t)] = 0]
    /\ UNCHANGED <<boot, drives, lock, lba, prdt, command, buffer, calls, errors, shared, untrue>>
Select(t) ==
    /\ Step(t, "select", "address") /\ head' = [head EXCEPT ![Port(t)] = call[t].drive[2]]
    /\ UNCHANGED <<boot, drives, lock, lba, prdt, command, buffer, calls, errors, shared, untrue>>
Address(t) ==
    /\ Step(t, "address", "command") /\ Quiet(t) /\ lba' = [lba EXCEPT ![Port(t)] = call[t].lba]
    /\ UNCHANGED <<boot, drives, lock, head, prdt, command, buffer, calls, errors, shared, untrue>>
Command(t) ==
    /\ Step(t, "command", "poll") /\ Quiet(t)
    /\ command' = [command EXCEPT ![Port(t)] = [state |-> "runs", write |-> call[t].write, on |-> <<Port(t), head[Port(t)]>>]]
    /\ UNCHANGED <<boot, drives, lock, head, lba, prdt, buffer, calls, errors, shared, untrue>>

\* The drive that is selected transfers the sector that is addressed, through the bus master's buffer
\* if it is on the first port.
Transfer(p) ==
    /\ command[p].state = "runs" /\ command' = [command EXCEPT ![p].state = "done"]
    /\ buffer' = IF p = 0 THEN [buffer EXCEPT ![prdt] = <<command[p].on, command[p].write, lba[p], buffer[prdt]>>] ELSE buffer
    /\ UNCHANGED <<boot, drives, lock, head, lba, prdt, call, calls, errors, shared, untrue>>
DeviceErrs(p) ==
    /\ command[p].state = "runs" /\ CanErr /\ command' = [command EXCEPT ![p].state = "error"]
    /\ UNCHANGED <<boot, drives, lock, head, lba, prdt, buffer, call, calls, shared, untrue>>

\* The buffer holds the sector that was asked for; or went to it, as the caller filled it.
IsTrue(t) ==
    LET b == buffer[call[t].drive]
    IN  /\ Len(b) = 4 /\ b[1] = call[t].drive /\ b[2] = call[t].write /\ b[3] = call[t].lba
        /\ call[t].write => b[4] = <<"from", call[t].id, call[t].lba>>
Finish(t) ==
    /\ At(t, "poll") /\ Quiet(t) /\ lock' = [lock EXCEPT ![call[t].drive] = 1]
    /\ IF command[Port(t)].state = "error"
       THEN Goes(t, [call[t] EXCEPT !.pc = "return", !.ok = FALSE]) /\ UNCHANGED <<untrue, buffer>>
       ELSE /\ Goes(t, [call[t] EXCEPT !.pc = "next", !.lba = @ + 1, !.left = @ - 1])
            /\ untrue' = IF IsTrue(t) THEN untrue ELSE untrue \cup {Port(t)}
            /\ buffer' = [buffer EXCEPT ![call[t].drive] = <<>>]   \* what it held matters no more
    /\ UNCHANGED <<boot, drives, registers, calls, errors, shared>>

Begin(t, d, write, at, n) ==
    Goes(t, [pc |-> "next", id |-> calls, drive |-> d, write |-> write, lba |-> at, left |-> n, ok |-> TRUE])
Call(t) ==
    /\ boot = Len(Order) /\ t \in Threads /\ call[Boot] = Idle /\ call[t] = Idle
    /\ calls < MaxCalls /\ calls' = calls + 1
    /\ \E d \in drives, r \in Requests : Begin(t, d, r[1], r[2], r[3])
    /\ UNCHANGED <<boot, drives, lock, registers, buffer, errors, shared, untrue>>
Ends(t) == At(t, "return") \/ (At(t, "next") /\ call[t].left = 0)
Return(t) ==
    /\ Ends(t) /\ Goes(t, Idle)
    /\ UNCHANGED <<boot, drives, lock, registers, buffer, calls, errors, shared, untrue>>

\* Both ports are reset, and their drives asked to identify themselves; one that does has its
\* partitions read at once.
DetectDrive ==
    /\ boot < Len(Order) /\ call[Boot] = Idle /\ boot' = boot + 1
    /\ LET d == Order[boot + 1]
       IN  /\ head' = [head EXCEPT ![d[1]] = d[2]] /\ lba' = [lba EXCEPT ![d[1]] = 0]
           /\ \/ drives' = drives \cup {d} /\ Begin(Boot, d, FALSE, 1, 1)
              \/ UNCHANGED <<drives, call>>
    /\ UNCHANGED <<lock, prdt, command, buffer, calls, errors, shared, untrue>>

Next ==
    \/ \E t \in Users :
         \/ ReadDiskBlock(t) \/ WriteDiskBlock(t) \/ Interrupted(t) \/ BusMaster(t) \/ Select(t)
         \/ Address(t) \/ Command(t) \/ Finish(t) \/ Call(t) \/ Return(t)
    \/ \E p \in Ports : Transfer(p) \/ DeviceErrs(p)
    \/ DetectDrive

Spec == Init /\ [][Next]_vars
-----------------------------------------------------------------------------
(* Properties *)

\* With the drives of the first port, used one at a time, a call gets the data that it asked for.
TransfersTrue == ~shared => 0 \notin untrue
DrivesAlone ==
    /\ \A d \in Drives : lock[d] + Cardinality({t \in Users : InAccess(t) /\ call[t].drive = d}) = 1
    /\ \A p \in Ports : command[p].state = "runs" => \E t \in Users : At(t, "poll") /\ Port(t) = p
=============================================================================
