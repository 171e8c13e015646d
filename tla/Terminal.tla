------------------------------ MODULE Terminal ------------------------------
(***************************************************************************)
(* A pseudo terminal (PTY.cpp, PTMX.cpp): two CharacterBuffers, the one    *)
(* that the slave reads and the one that the master reads, readers that    *)
(* block on the slave, watchers of both, and the handles that keep it.     *)
(* The buffers have a lock; the lists of watchers and the modes have none. *)
(***************************************************************************)
EXTENDS Integers, Sequences, FiniteSets

CONSTANTS
    Readers,    \* threads that read or watch the slave
    Masters,    \* threads of the terminal emulator
    Slaves,     \* threads that write to the slave
    Inputs,     \* what one call writes: sequences of "c", "newline", "null" and "backspace"
    Capacity,   \* maxBufferSize
    MaxCalls    \* bound on calls

Threads == Readers \cup Masters \cup Slaves

VARIABLES
    master, slave,      \* the buffers: data, lines, ignoreBackspace, and whether a line was erased
    mode,               \* canonical or not, and whether TCSETS has changed it
    blocked, watching,  \* the blockers of slaveFile and the watchers of the slave
    thr,                \* the call of each thread
    open,               \* who has a handle, and who has found the slave without opening it yet
    destroyed, stale,   \* DestroyPTY has run; history: a slave was opened after that
    raced,              \* history: a buffer was filled between a writer's test and its write
    calls

vars == <<master, slave, mode, blocked, watching, thr, open, destroyed, stale, raced, calls>>
buffers == <<master, slave, raced>>
life == <<open, destroyed, stale>>

Idle == [pc |-> "idle"]
Terminator(c) == c \in {"newline", "null"}
Terminators(s) == Cardinality({i \in DOMAIN s : Terminator(s[i])})
Device(t) == IF t \in Masters THEN "master" ELSE "slave"
Handles(d) == Cardinality({t \in open.has : Device(t) = d})
Starts(t) == t \in open.has /\ thr[t] = Idle /\ calls < MaxCalls /\ calls' = calls + 1
At(t, pc) == thr[t].pc = pc
Goes(t, do) == thr' = [thr EXCEPT ![t] = do]
Moves(t, pc) == thr' = [thr EXCEPT ![t].pc = pc]

\* PTMultiplexor::Open: one handle, of the master.
Init ==
    /\ master = [data |-> <<>>, lines |-> 0, ignore |-> TRUE, erased |-> 0]
    /\ slave = [data |-> <<>>, lines |-> 0, ignore |-> FALSE, erased |-> 0]
    /\ mode = [canonical |-> TRUE, changed |-> FALSE]
    /\ blocked = {} /\ watching = {} /\ thr = [t \in Threads |-> Idle]
    /\ open = [has |-> Masters, found |-> {}]
    /\ destroyed = FALSE /\ stale = FALSE /\ raced = FALSE /\ calls = 0
-----------------------------------------------------------------------------
(* CharacterBuffer. *)

\* Write, before it takes the lock: how much fits; a buffer that is too full wraps to everything.
Fits(b, s) == IF Len(b.data) + Len(s) <= Capacity \/ Len(b.data) > Capacity THEN Len(s) ELSE Capacity - Len(b.data)

\* Write, under the lock: a backspace takes back the last character, be it a terminator.
Put(b, c) ==
    IF c = "backspace" /\ ~b.ignore
    THEN IF b.data = <<>> THEN b
         ELSE [b EXCEPT !.data = SubSeq(@, 1, Len(@) - 1),
                        !.erased = IF Terminator(b.data[Len(b.data)]) THEN @ + 1 ELSE @]
    ELSE [b EXCEPT !.data = Append(@, c), !.lines = IF Terminator(c) THEN @ + 1 ELSE @]
\* The buffer after each character; an echo leaves out what has no room.
Puts(b, s, echo) ==
    LET after[i \in 0 .. Len(s)] ==
            IF i = 0 THEN b
            ELSE IF echo /\ Fits(after[i - 1], <<s[i]>>) = 0 THEN after[i - 1] ELSE Put(after[i - 1], s[i])
    IN  after
Written(b, s) == Puts(b, s, FALSE)[Len(s)]
Echoed(b, s) == Puts(b, s, TRUE)[Len(s)]
\* What Write returns: not the backspaces that found nothing.
Count(b, s) ==
    LET after == Puts(b, s, FALSE)
    IN  Cardinality({i \in 1 .. Len(s) : ~(s[i] = "backspace" /\ ~b.ignore /\ after[i - 1].data = <<>>)})

\* Read: nulls are left out, and up to n characters are returned.
Taken(b, n) == Cardinality({k \in 1 .. Len(b.data) : Cardinality({i \in 1 .. k - 1 : b.data[i] # "null"}) < n})
LinesAfterNewlines(b, k) == b.lines - Cardinality({i \in 1 .. k : b.data[i] = "newline"})   \* mutant
LinesAfter(b, k) == b.lines - Terminators(SubSeq(b.data, 1, k))
Drained(b, n) == LET k == Taken(b, n) IN [b EXCEPT !.data = SubSeq(@, k + 1, Len(@)), !.lines = LinesAfter(b, k)]
-----------------------------------------------------------------------------
(* PTYDevice::CanRead, PTY::SlaveRead, MasterRead. *)

CanReadSlave == IF mode.canonical THEN slave.lines # 0 ELSE slave.data # <<>>

\* The first loop of SlaveRead, which the second follows.
ReadTest(t, n) ==
    /\ t \in Readers /\ Starts(t)
    /\ Goes(t, [pc |-> IF CanReadSlave THEN "take" ELSE "block", n |-> n, loop |-> mode.canonical, missed |-> FALSE])
    /\ UNCHANGED <<buffers, life, mode, blocked, watching>>

ReadBlock(t) ==
    /\ At(t, "block")
    /\ blocked' = blocked \cup {t}
    /\ thr' = [thr EXCEPT ![t].pc = "blocked", ![t].missed = CanReadSlave]
    /\ UNCHANGED <<buffers, life, mode, watching, calls>>

ReadInterrupted(t) ==
    /\ At(t, "blocked")
    /\ blocked' = blocked \ {t} /\ Goes(t, Idle)
    /\ UNCHANGED <<buffers, life, mode, watching, calls>>

\* A woken reader is in the loop it blocked in: the second one never goes back to the first.
ReadAgain(t) ==
    /\ At(t, "woken")
    /\ thr' = [thr EXCEPT ![t].pc = IF CanReadSlave \/ (~thr[t].loop /\ mode.canonical) THEN "take" ELSE "block",
                          ![t].loop = @ /\ mode.canonical]
    /\ UNCHANGED <<buffers, life, mode, blocked, watching, calls>>

ReadTake(t) ==
    /\ At(t, "take")
    /\ slave' = Drained(slave, thr[t].n) /\ Goes(t, Idle)
    /\ UNCHANGED <<master, raced, life, mode, blocked, watching, calls>>

MasterRead(t, n) ==
    /\ t \in Masters /\ Starts(t)
    /\ master' = Drained(master, n)
    /\ UNCHANGED <<slave, raced, life, mode, blocked, watching, thr>>
-----------------------------------------------------------------------------
(* PTY::MasterWrite and SlaveWrite, called by PTYDevice::Write until all   *)
(* is written.                                                             *)

WriteFits(t, s) ==
    /\ t \in Masters \cup Slaves /\ Starts(t)
    /\ Goes(t, [pc |-> "put", s |-> s, k |-> Fits(IF t \in Masters THEN slave ELSE master, s), n |-> 0])
    /\ UNCHANGED <<buffers, life, mode, blocked, watching>>

\* What PTYDevice::Write calls with when not all was counted.
Rest(t) == SubSeq(thr[t].s, thr[t].n + 1, Len(thr[t].s))
WriteRest(t) ==
    /\ At(t, "rest")
    /\ Goes(t, IF Rest(t) = <<>> THEN Idle
               ELSE [pc |-> "put", s |-> Rest(t), k |-> Fits(IF t \in Masters THEN slave ELSE master, Rest(t)), n |-> 0])
    /\ UNCHANGED <<buffers, life, mode, blocked, watching, calls>>

Store(t, b) ==
    LET s == SubSeq(thr[t].s, 1, thr[t].k)
    IN  /\ raced' = (raced \/ Len(b.data) + thr[t].k > Capacity)
        /\ thr' = [thr EXCEPT ![t].pc = IF t \in Masters THEN "wake" ELSE "rest", ![t].n = Count(b, s)]
        /\ UNCHANGED <<life, mode, blocked, watching, calls>>

MasterPut(t) ==
    /\ t \in Masters /\ At(t, "put") /\ Store(t, slave)
    /\ slave' = Written(slave, SubSeq(thr[t].s, 1, thr[t].k)) /\ UNCHANGED master
SlavePut(t) ==
    /\ t \in Slaves /\ At(t, "put") /\ Store(t, master)
    /\ master' = Written(master, SubSeq(thr[t].s, 1, thr[t].k)) /\ UNCHANGED slave

\* All blockers, one after the other, while there is something to read.
Awoken == IF CanReadSlave THEN blocked ELSE {}
MasterWake(t) ==
    /\ At(t, "wake")
    /\ blocked' = blocked \ Awoken
    /\ thr' = [u \in Threads |-> IF u \in Awoken THEN [thr[u] EXCEPT !.pc = "woken"]
                                 ELSE IF u = t THEN [thr[u] EXCEPT !.pc = "echo"] ELSE thr[u]]
    /\ UNCHANGED <<buffers, life, mode, watching, calls>>

\* Echo of the whole call, as far as there is room; with the mode it is in, and if anything was written.
MasterEcho(t) ==
    /\ At(t, "echo")
    /\ master' = IF thr[t].n = 0 THEN master ELSE Echoed(master, thr[t].s)
    /\ Moves(t, "signal")
    /\ UNCHANGED <<slave, raced, life, mode, blocked, watching, calls>>

MasterSignal(t) ==
    /\ At(t, "signal")
    /\ LET told == IF CanReadSlave THEN watching ELSE {}
       IN  /\ watching' = watching \ told
           /\ thr' = [u \in Threads |-> IF u \in told THEN Idle ELSE IF u = t THEN [thr[u] EXCEPT !.pc = "rest"] ELSE thr[u]]
    /\ UNCHANGED <<buffers, life, mode, blocked, calls>>

\* WatchSlave: signalled at once, or listed.
WatchTest(t) ==
    /\ t \in Readers /\ Starts(t) /\ ~CanReadSlave
    /\ Goes(t, [pc |-> "watch"])
    /\ UNCHANGED <<buffers, life, mode, blocked, watching>>
WatchSlave(t) ==
    /\ At(t, "watch")
    /\ watching' = watching \cup {t} /\ Goes(t, [pc |-> "watching", missed |-> CanReadSlave])
    /\ UNCHANGED <<buffers, life, mode, blocked, calls>>
UnwatchSlave(t) ==
    /\ At(t, "watching")
    /\ watching' = watching \ {t} /\ Goes(t, Idle)
    /\ UNCHANGED <<buffers, life, mode, blocked, calls>>

\* PTYDevice::Ioctl, TCSETS.
SetMode(t) ==
    /\ t \in Slaves /\ Starts(t)
    /\ mode' = [canonical |-> ~mode.canonical, changed |-> TRUE]
    /\ slave' = [slave EXCEPT !.ignore = mode.canonical]
    /\ UNCHANGED <<master, raced, life, blocked, watching, thr>>
-----------------------------------------------------------------------------
(* Handles: PTS::FindDir, FsNode::Open, PTYDevice::Close, PTY::Close,      *)
(* PTMultiplexor::DestroyPTY.                                              *)

FindSlave(t) ==
    /\ t \in Readers \cup Slaves /\ t \notin open.has /\ ~destroyed
    /\ open' = [open EXCEPT !.found = @ \cup {t}]
    /\ UNCHANGED <<buffers, destroyed, stale, mode, blocked, watching, thr, calls>>

OpenSlave(t) ==
    /\ t \in open.found
    /\ open' = [has |-> open.has \cup {t}, found |-> open.found \ {t}]
    /\ stale' = (stale \/ destroyed)
    /\ UNCHANGED <<buffers, destroyed, mode, blocked, watching, thr, calls>>

LastMaster(t) == t \in Masters /\ Handles("master") = 1
NobodyLeft(t) == LastMaster(t) /\ Handles("slave") = 0
Close(t) ==
    /\ t \in open.has /\ thr[t] = Idle
    /\ open' = [open EXCEPT !.has = @ \ {t}]
    /\ destroyed' = (destroyed \/ NobodyLeft(t))
    /\ UNCHANGED <<buffers, stale, mode, blocked, watching, thr, calls>>

Next == \E t \in Threads :
    \/ \E n \in 1 .. 2 : ReadTest(t, n) \/ MasterRead(t, n)
    \/ ReadBlock(t) \/ ReadInterrupted(t) \/ ReadAgain(t) \/ ReadTake(t)
    \/ \E s \in Inputs : WriteFits(t, s)
    \/ WriteRest(t) \/ MasterPut(t) \/ SlavePut(t) \/ MasterWake(t) \/ MasterEcho(t) \/ MasterSignal(t)
    \/ WatchTest(t) \/ WatchSlave(t) \/ UnwatchSlave(t) \/ SetMode(t)
    \/ FindSlave(t) \/ OpenSlave(t) \/ Close(t)

Spec == Init /\ [][Next]_vars
-----------------------------------------------------------------------------
(* `lines` counts the terminators that are in the buffer, and besides only *)
(* those that a backspace has erased: a canonical reader is let in for     *)
(* what is there (CharacterBuffer::Write, Read).                           *)
LinesCounted == \A b \in {master, slave} : b.lines = Terminators(b.data) + b.erased

(* A buffer outgrows its maximum only when two writers pass its test       *)
(* together (CharacterBuffer::Write).                                      *)
Bounded == \A b \in {master, slave} : Len(b.data) <= Capacity \/ raced

(* A reader or a watcher of the slave waits only while there is nothing to *)
(* read, or while the master that wrote it is about to wake it; unless it  *)
(* came after its test, or the mode was changed (SlaveRead, MasterWrite).  *)
SlaveServed == \A t \in Readers :
    /\ At(t, "blocked") => \/ ~CanReadSlave \/ thr[t].missed \/ mode.changed
                           \/ \E m \in Masters : At(m, "wake")
    /\ At(t, "watching") => \/ ~CanReadSlave \/ thr[t].missed \/ mode.changed
                            \/ \E m \in Masters : thr[m].pc \in {"wake", "echo", "signal"}

(* The terminal goes only with its last handle, or under a process that    *)
(* had found the slave and not opened it yet (PTY::Close, FindDir).        *)
KeptOpen == destroyed => stale \/ open.has = {}
=============================================================================
