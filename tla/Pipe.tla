-------------------------------- MODULE Pipe --------------------------------
(***************************************************************************)
(* A pipe (Pipe.cpp) over a DataStream (Streams.cpp), with the list of     *)
(* FilesystemBlockers of its read end.  A thread may be interrupted        *)
(* between any test and the use of what it tested; the stream has a lock.  *)
(***************************************************************************)
EXTENDS Naturals, Sequences

CONSTANTS
    Readers, Writers,   \* threads, each with a handle of its end
    MaxLength,          \* bound on the bytes of a call
    MaxBytes            \* bound on the bytes written

Users == Readers \cup Writers
Ends == {"read", "write"}

VARIABLES
    end,       \* of each end: its widowed flag, and whether it is deleted
    stream,    \* what the DataStream holds
    blocked,   \* who has a blocker on the list of the read end
    user,      \* each thread's place, length of its call, and whether it blocked too late
    got,       \* history: the bytes read, in order
    written,   \* history: how many bytes were written
    dangling   \* history: a writer used the read end after its deletion

vars == <<end, stream, blocked, user, got, written, dangling>>

Idle == [pc |-> "idle", len |-> 0, missed |-> FALSE]
EndOf(u) == IF u \in Readers THEN "read" ELSE "write"
Other(e) == IF e = "read" THEN "write" ELSE "read"
Handles(e) == {u \in Users : EndOf(u) = e /\ user[u].pc # "closed"}
At(u, pc) == user[u].pc = pc
Goes(u, pc) == user' = [user EXCEPT ![u].pc = pc]

\* CreatePipe; every thread has been given a handle by fork.
Init ==
    /\ end = [e \in Ends |-> [widowed |-> FALSE, gone |-> FALSE]]
    /\ stream = <<>> /\ blocked = {} /\ got = <<>> /\ written = 0 /\ dangling = FALSE
    /\ user = [u \in Users |-> Idle]
-----------------------------------------------------------------------------
Short(n) == ~end["read"].widowed /\ n > Len(stream)

\* UNIXPipe::Read: blocks once, and takes what there is then.
Read(u, n) ==
    /\ At(u, "idle") /\ u \in Readers
    /\ user' = [user EXCEPT ![u].len = n, ![u].pc = IF Short(n) THEN "block" ELSE "take"]
    /\ UNCHANGED <<end, stream, blocked, got, written, dangling>>

\* The blocker is listed; what came since the test wakes nobody.
ReadBlock(u) ==
    /\ At(u, "block")
    /\ blocked' = blocked \cup {u}
    /\ user' = [user EXCEPT ![u].pc = "blocked", ![u].missed = ~Short(user[u].len)]
    /\ UNCHANGED <<end, stream, got, written, dangling>>

ReadInterrupted(u) ==
    /\ At(u, "blocked")
    /\ blocked' = blocked \ {u}
    /\ user' = [user EXCEPT ![u] = Idle]
    /\ UNCHANGED <<end, stream, got, written, dangling>>

\* DataStream::Read: the front of the buffer, the rest moves down.
StreamRead(n) ==
    /\ got' = got \o SubSeq(stream, 1, n)
    /\ stream' = SubSeq(stream, n + 1, Len(stream))

ReadTake(u) ==
    /\ At(u, "take")
    /\ LET n == user[u].len IN StreamRead(IF n > Len(stream) THEN Len(stream) ELSE n)
    /\ user' = [user EXCEPT ![u] = Idle]
    /\ UNCHANGED <<end, blocked, written, dangling>>
-----------------------------------------------------------------------------
\* UNIXPipe::Write: SIGPIPE when nobody can read.
Write(u, n) ==
    /\ At(u, "idle") /\ u \in Writers
    /\ ~end["write"].widowed /\ written + n <= MaxBytes
    /\ user' = [user EXCEPT ![u].len = n, ![u].pc = "put"]
    /\ UNCHANGED <<end, stream, blocked, got, written, dangling>>

\* DataStream::Write: the buffer grows as far as it must.
StreamWrite(n) == stream' = stream \o [i \in 1 .. n |-> written + i]

WritePut(u) ==
    /\ At(u, "put")
    /\ StreamWrite(user[u].len)
    /\ written' = written + user[u].len
    /\ Goes(u, "wake")
    /\ UNCHANGED <<end, blocked, got, dangling>>

\* Every blocker of the other end that asked for no more than there is.
AwokenByMore == {u \in blocked : user[u].len < Len(stream)}   \* mutant
Awoken == {u \in blocked : user[u].len <= Len(stream)}

WriteWake(u) ==
    /\ At(u, "wake")
    /\ dangling' = (dangling \/ end["read"].gone)
    /\ blocked' = blocked \ Awoken
    /\ user' = [v \in Users |-> IF v = u THEN Idle
                                ELSE IF v \in Awoken THEN [user[v] EXCEPT !.pc = "take"] ELSE user[v]]
    /\ UNCHANGED <<end, stream, got, written>>

\* UNIXPipe::Close: the last handle of an end deletes it.
Close(u) ==
    /\ At(u, "idle")
    /\ Goes(u, "closed")
    /\ end' = IF Handles(EndOf(u)) = {u}
              THEN [end EXCEPT ![EndOf(u)].gone = TRUE, ![Other(EndOf(u))].widowed = TRUE]
              ELSE end
    /\ UNCHANGED <<stream, blocked, got, written, dangling>>

Next == \E u \in Users :
    \/ \E n \in 1 .. MaxLength : Read(u, n) \/ Write(u, n)
    \/ ReadBlock(u) \/ ReadInterrupted(u) \/ ReadTake(u)
    \/ WritePut(u) \/ WriteWake(u) \/ Close(u)

Spec == Init /\ [][Next]_vars
-----------------------------------------------------------------------------
(* The pipe is a stream of bytes: what is read and what waits to be read   *)
(* are, in order, what was written (Read, Write of DataStream).            *)
InOrder == got \o stream = [i \in 1 .. written |-> i]

(* A reader stays blocked only for what is not there, also when several    *)
(* readers share the pipe; unless the bytes came between its test and its  *)
(* blocker, or their writer is about to wake it (UNIXPipe::Read, Write).   *)
ReaderWoken == \A u \in Readers :
    At(u, "blocked") => \/ user[u].len > Len(stream) \/ user[u].missed
                        \/ \E v \in Writers : At(v, "wake")

(* An end is deleted once its last handle is closed, and a blocked reader  *)
(* keeps its end; a writer that has tested for the other end may still use *)
(* it (UNIXPipe::Close).                                                   *)
EndsKept ==
    /\ \A e \in Ends : end[e].gone <=> Handles(e) = {}
    /\ blocked = {u \in Users : At(u, "blocked")}
    /\ dangling => end["write"].widowed
=============================================================================
