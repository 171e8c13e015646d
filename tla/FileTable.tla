----------------------------- MODULE FileTable ------------------------------
(***************************************************************************)
(* Handles: the table of each process, the open files it refers to and the *)
(* nodes those keep open.  A system call copies a handle out of the table  *)
(* under m_handleLock, works on the copy, and puts a handle back under the *)
(* lock: the threads of the process do the same in between.  The counts    *)
(* are the ones RefPtr.h keeps.                                            *)
(***************************************************************************)
EXTENDS Integers, Sequences, FiniteSets

CONSTANTS
    Procs, Threads, Own,   \* Own[t]: the process of t
    Files, Nodes,          \* open files that fit in memory; what they are open on
    MaxHandles,            \* bound on the length of a table
    MaxPos,                \* bound on positions
    MaxCalls,              \* bound on the system calls that are made
    None

VARIABLES
    table,    \* m_handles of each process; <<>> before it starts and after it ends
    file,     \* node, pos, dataLock and reference count of each UNIXOpenFile
    opens,    \* handleCount of each node
    thr,      \* the call of each thread, with the handle it holds
    taken,    \* positions that reads and writes have delivered, per file
    again,    \* files a position of which was delivered twice
    calls     \* system calls made

vars == <<table, file, opens, thr, taken, again, calls>>

Free == [node |-> None, pos |-> 0, lock |-> None, ref |-> 0, moved |-> FALSE]
Null == [file |-> None, cloexec |-> FALSE]
Idle == [op |-> "none", fd |-> 0, h |-> Null, at |-> 0]
First == CHOOSE p \in Procs : TRUE
Std == CHOOSE f \in Files : TRUE

Init ==
    /\ table = [p \in Procs |-> IF p = First THEN <<[file |-> Std, cloexec |-> FALSE], Null>> ELSE <<>>]
    /\ file = [f \in Files |-> IF f = Std THEN [Free EXCEPT !.node = CHOOSE n \in Nodes : TRUE, !.ref = 1]
                               ELSE Free]
    /\ opens = [n \in Nodes |-> Cardinality({f \in Files : file[f].node = n})]
    /\ thr = [t \in Threads |-> Idle]
    /\ taken = [f \in Files |-> {}] /\ again = {} /\ calls = 0
-----------------------------------------------------------------------------
Count(tab, f) == Cardinality({i \in DOMAIN tab : tab[i].file = f})
One(f, k) == [g \in Files |-> IF g = f THEN k ELSE 0]

\* References come and go; the last one takes the file with it and closes the node.
Reference(fl, change) ==
    LET gone == {f \in Files : fl[f].ref > 0 /\ fl[f].ref + change[f] = 0}
    IN  /\ file' = [f \in Files |-> IF f \in gone THEN Free ELSE [fl[f] EXCEPT !.ref = @ + change[f]]]
        /\ opens' = [n \in Nodes |-> opens[n] - Cardinality({f \in gone : fl[f].node = n})]
        /\ taken' = [f \in Files |-> IF f \in gone THEN {} ELSE taken[f]]

Runs(t) == table[Own[t]] # <<>>
Enters == calls < MaxCalls /\ calls' = calls + 1
Calls(t, op) == thr[t].op = op /\ Runs(t)
Entry(t, fd) == table[Own[t]][fd]
Put(t, fd, h) == table' = [table EXCEPT ![Own[t]][fd] = h]
Returns(t) == thr' = [thr EXCEPT ![t] = Idle]
Goes(t, op) == thr' = [thr EXCEPT ![t].op = op]

\* GetHandle: the thread keeps a reference until its call returns.
GetHandle(t, op, fd) ==
    /\ Enters /\ Calls(t, "none") /\ fd \in DOMAIN table[Own[t]] /\ Entry(t, fd).file # None
    /\ thr' = [thr EXCEPT ![t] = [op |-> op, fd |-> fd, h |-> Entry(t, fd), at |-> 0]]
    /\ Reference(file, One(Entry(t, fd).file, 1))
    /\ UNCHANGED <<table, again>>
-----------------------------------------------------------------------------
(* SysOpen *)

OpenNode(t, n, f) ==
    /\ Enters /\ Calls(t, "none") /\ file[f].ref = 0 /\ file[f].node = None
    /\ file' = [file EXCEPT ![f] = [Free EXCEPT !.node = n, !.ref = 1]]
    /\ opens' = [opens EXCEPT ![n] = @ + 1]
    /\ thr' = [thr EXCEPT ![t] = [Idle EXCEPT !.op = "place", !.h.file = f]]
    /\ UNCHANGED <<table, taken, again>>

\* AllocateHandle: the first entry that is free, or one more.  The reference moves.
AllocateHandle(t) ==
    LET tab == table[Own[t]]
        free == {i \in DOMAIN tab : tab[i].file = None}
        to == IF free = {} THEN Len(tab) + 1 ELSE CHOOSE i \in free : \A j \in free : i <= j
    IN  /\ Calls(t, "place") /\ to <= MaxHandles
        /\ table' = [table EXCEPT ![Own[t]] = IF free = {} THEN Append(tab, thr[t].h)
                                              ELSE [tab EXCEPT ![to] = thr[t].h]]
        /\ Returns(t)
        /\ UNCHANGED <<file, opens, taken, again, calls>>

\* DestroyHandle
Close(t, fd) ==
    /\ Enters /\ Calls(t, "none") /\ fd \in DOMAIN table[Own[t]] /\ Entry(t, fd).file # None
    /\ Put(t, fd, Null)
    /\ Reference(file, One(Entry(t, fd).file, -1))
    /\ UNCHANGED <<thr, again>>
-----------------------------------------------------------------------------
(* fs::Read and fs::Write of a handle *)

TransferBeginUnlocked(t) ==
    LET f == thr[t].h.file
    IN  /\ Calls(t, "transfer")
        /\ file' = [file EXCEPT ![f].lock = t]
        /\ thr' = [thr EXCEPT ![t].op = "node", ![t].at = file[f].pos]
        /\ UNCHANGED <<table, opens, taken, again, calls>>
TransferBegin(t) ==
    LET f == thr[t].h.file
    IN  /\ Calls(t, "transfer") /\ file[f].lock = None
        /\ file' = [file EXCEPT ![f].lock = t]
        /\ thr' = [thr EXCEPT ![t].op = "node", ![t].at = file[f].pos]
        /\ UNCHANGED <<table, opens, taken, again, calls>>

\* The node moves k bytes from the position that was read under the lock, or fails.
TransferEnd(t, k) ==
    LET f == thr[t].h.file
        span == thr[t].at .. thr[t].at + k - 1
    IN  /\ Calls(t, "node") /\ file[f].pos + k <= MaxPos
        /\ again' = IF span \cap taken[f] # {} /\ ~file[f].moved THEN again \cup {f} ELSE again
        /\ LET e == [file[f] EXCEPT !.pos = @ + k, !.lock = None]
               gone == e.ref = 1
           IN  /\ file' = [file EXCEPT ![f] = IF gone THEN Free ELSE [e EXCEPT !.ref = e.ref - 1]]
               /\ opens' = IF gone THEN [opens EXCEPT ![e.node] = @ - 1] ELSE opens
               /\ taken' = [taken EXCEPT ![f] = IF gone THEN {} ELSE @ \cup span]
        /\ Returns(t)
        /\ UNCHANGED <<table, calls>>

\* SysLSeek, and the index that SysReadDirNext advances, do not take dataLock.
Seek(t, to) ==
    LET f == thr[t].h.file
    IN  /\ Calls(t, "use")
        /\ Reference([file EXCEPT ![f].pos = to, ![f].moved = TRUE], One(f, -1))
        /\ Returns(t)
        /\ UNCHANGED <<table, again, calls>>

\* SysPRead, SysPWrite, SysFStat, SysReadDir: the node is used, the position is not.
UseNode(t) ==
    /\ Calls(t, "use")
    /\ Reference(file, One(thr[t].h.file, -1))
    /\ Returns(t)
    /\ UNCHANGED <<table, again, calls>>
-----------------------------------------------------------------------------
(* SysDup *)

\* The flag O_CLOEXEC only ever sets closeOnExec.
Dup(t, to, c) ==
    LET h == [thr[t].h EXCEPT !.cloexec = @ \/ c]
    IN  /\ Calls(t, "dup") /\ to # thr[t].fd
        /\ thr' = [thr EXCEPT ![t] = [@ EXCEPT !.h = h, !.op = IF to = 0 THEN "place" ELSE "destroy", !.at = to]]
        /\ to <= Len(table[Own[t]])
        /\ UNCHANGED <<table, file, opens, taken, again, calls>>

DupDestroy(t) ==
    LET old == Entry(t, thr[t].at).file
    IN  /\ Calls(t, "destroy")
        /\ Put(t, thr[t].at, Null)
        /\ Reference(file, One(old, -1))
        /\ Goes(t, "replace")
        /\ UNCHANGED <<again, calls>>

\* ReplaceHandle: what another thread put into the entry meanwhile is dropped.
Replace(t, to) ==
    /\ Put(t, to, thr[t].h)
    /\ Reference(file, One(Entry(t, to).file, -1))
    /\ Returns(t)
    /\ UNCHANGED <<again, calls>>

DupReplace(t) == Calls(t, "replace") /\ Replace(t, thr[t].at)

\* SysIoctl with FIOCLEX or FIONCLEX: the flag is set in the copy, which replaces the entry.
SetCloseOnExec(t, c) ==
    /\ Calls(t, "cloexec")
    /\ thr' = [thr EXCEPT ![t] = [@ EXCEPT !.h.cloexec = c, !.op = "replace", !.at = thr[t].fd]]
    /\ UNCHANGED <<table, file, opens, taken, again, calls>>
-----------------------------------------------------------------------------
(* Processes *)

\* SysFork copies every handle, SysExec only those that stay open.
Child(t, q, all) ==
    LET tab == [i \in DOMAIN table[Own[t]] |->
                  IF all \/ ~Entry(t, i).cloexec THEN Entry(t, i) ELSE Null]
    IN  /\ Enters /\ Calls(t, "none") /\ q # Own[t] /\ table[q] = <<>>
        /\ \A s \in Threads : Own[s] = q => thr[s] = Idle
        /\ table' = [table EXCEPT ![q] = tab]
        /\ Reference(file, [f \in Files |-> Count(tab, f)])
        /\ UNCHANGED <<thr, again>>

\* SysExecve, of a process with one thread.
Execve(t) ==
    LET tab == table[Own[t]]
        kept == [i \in DOMAIN tab |-> IF tab[i].cloexec THEN Null ELSE tab[i]]
    IN  /\ Enters /\ Calls(t, "none") /\ \A s \in Threads \ {t} : Own[s] # Own[t]
        /\ table' = [table EXCEPT ![Own[t]] = kept]
        /\ Reference(file, [f \in Files |-> Count(kept, f) - Count(tab, f)])
        /\ UNCHANGED <<thr, again>>

\* Process::Die clears the table when every thread has left the kernel.
Exit(t) ==
    LET tab == table[Own[t]]
    IN  /\ Enters /\ Runs(t) /\ \A s \in Threads : Own[s] = Own[t] => thr[s] = Idle
        /\ table' = [table EXCEPT ![Own[t]] = <<>>]
        /\ Reference(file, [f \in Files |-> -Count(tab, f)])
        /\ UNCHANGED <<thr, again>>

Next ==
    \E t \in Threads :
       \/ AllocateHandle(t) \/ TransferBegin(t) \/ UseNode(t) \/ DupDestroy(t) \/ DupReplace(t)
       \/ Execve(t) \/ Exit(t)
       \/ \E op \in {"transfer", "use", "dup", "cloexec"}, fd \in 1 .. MaxHandles : GetHandle(t, op, fd)
       \/ \E n \in Nodes, f \in Files : OpenNode(t, n, f)
       \/ \E fd \in 1 .. MaxHandles : Close(t, fd)
       \/ \E k \in 0 .. 1 : TransferEnd(t, k)
       \/ \E to \in 0 .. MaxPos : Seek(t, to)
       \/ \E to \in 0 .. MaxHandles, c \in BOOLEAN : Dup(t, to, c)
       \/ \E c \in BOOLEAN : SetCloseOnExec(t, c)
       \/ \E q \in Procs, all \in BOOLEAN : Child(t, q, all)

Spec == Init /\ [][Next]_vars
-----------------------------------------------------------------------------
\* Threads and processes that share an open file share its position: no byte is read or
\* written through it twice unless somebody moves the position.
PositionShared == again = {}

\* Each file counts the entries and the calls that refer to it and lives while there are
\* any; each node counts the files that are open on it: through the races of dup, close,
\* the ioctl and fork, nothing is closed in use and nothing stays open for ever.
Entries(f) ==
    {e \in Procs \X (1 .. MaxHandles) : e[2] \in DOMAIN table[e[1]] /\ table[e[1]][e[2]].file = f}
Holders(f) == {t \in Threads : thr[t].h.file = f}
Referenced ==
    /\ \A f \in Files : /\ file[f].ref = Cardinality(Holders(f)) + Cardinality(Entries(f))
                        /\ (file[f].ref > 0) = (file[f].node # None)
    /\ \A n \in Nodes : opens[n] = Cardinality({f \in Files : file[f].node = n})
=============================================================================
