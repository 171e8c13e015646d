------------------------------- MODULE Sockets -------------------------------
(***************************************************************************)
(* Local sockets (Socket.cpp) and the calls that wait on several of them:  *)
(* SysPoll, SysSelect and epoll. A socket that is open is never destroyed: *)
(* Close of LocalSocket asks for a count that it does not decrease.        *)
(***************************************************************************)
EXTENDS Integers, Sequences, FiniteSets

CONSTANTS
    Threads,
    Given,      \* Given[t]: the sockets whose handles the process of a thread starts with
    Spare,      \* the sockets that Accept makes, in order
    Backlog,    \* the backlog given to Listen
    StreamSize, \* STREAM_MAX_BUFSIZE, in messages
    MaxCalls,   \* bound on a thread's calls
    None

Unborn == {Spare[i] : i \in DOMAIN Spare}
Sockets == (UNION {Given[t] : t \in Threads}) \cup Unborn
Kinds == {"poll", "select", "epoll"}

VARIABLES
    sock,       \* passive, connected, lock, peer, streams, pending, permits, watchers and handles
    stream,     \* how many messages each stream holds
    thr,        \* each thread's place and arguments
    epoll,      \* the epoll object: fds (with whether each is one-shot) and epLock
    calls,      \* how many calls a thread has made
    asked       \* history: how often Connect and Listen got past their tests, for each socket

vars == <<sock, stream, thr, epoll, calls, asked>>

Streams == Sockets \X {"in", "out"}
Idle == [pc |-> "idle", s |-> None, to |-> None, todo |-> {}, set |-> {}, left |-> 0, kind |-> None, signals |-> 0]

Init ==
    /\ sock = [s \in Sockets |->
                  [passive |-> FALSE, connected |-> FALSE, lock |-> None, peer |-> None,
                   in |-> <<s, "in">>, out |-> <<s, "out">>, pending |-> <<>>, permits |-> Backlog + 1,
                   watching |-> {}, open |-> s \notin Unborn]]
    /\ stream = [q \in Streams |-> 0]
    /\ thr = [t \in Threads |-> Idle]
    /\ epoll = [fds |-> {}, once |-> {}, lock |-> None]
    /\ calls = [t \in Threads |-> 0] /\ asked = [s \in Sockets |-> 0]

At(t, pc) == thr[t].pc = pc
Moves(t, pc) == thr' = [thr EXCEPT ![t].pc = pc]
Ends(t) == thr' = [thr EXCEPT ![t] = Idle]
\* GetHandleAs: the sockets a thread has, those its process accepted among them.
Handle(t, s) == thr[t] = Idle /\ calls[t] < MaxCalls /\ sock[s].open /\ (s \in Given[t] \cup Unborn)
Calls(t) == calls' = [calls EXCEPT ![t] = @ + 1]
\* A woken watcher's semaphore has been raised; the watcher is off the list.
Woken(s) == [t \in Threads |-> IF t \in sock[s].watching THEN [thr[t] EXCEPT !.signals = @ + 1] ELSE thr[t]]
-----------------------------------------------------------------------------
(* SysListen, SysConnect, SysAccept.                                       *)

\* The lock is released here and once more by the scope's end.
Listen(t, s) ==
    /\ sock[s].lock = None
    /\ sock' = [sock EXCEPT ![s].passive = TRUE, ![s].permits = Backlog + 1, ![s].in = None, ![s].out = None]
    /\ asked' = [asked EXCEPT ![s] = @ + (IF sock[s].connected THEN 2 ELSE 1)]
    /\ thr' = [thr EXCEPT ![t] = [Idle EXCEPT !.pc = "unlock", !.s = s]]
    /\ UNCHANGED <<stream, epoll>>

SysListen(t, s) == Handle(t, s) /\ Calls(t) /\ Listen(t, s)

ListenUnlocks(t) ==
    /\ At(t, "unlock")
    /\ sock' = [sock EXCEPT ![thr[t].s].lock = None]
    /\ Ends(t)
    /\ UNCHANGED <<stream, epoll, calls, asked>>

\* The tests are made before the lock is taken.
Connect(t, s, to) ==
    /\ ~sock[s].connected /\ ~sock[s].passive
    /\ thr' = [thr EXCEPT ![t] = [Idle EXCEPT !.pc = "connect", !.s = s, !.to = to]]
    /\ asked' = [asked EXCEPT ![s] = @ + 1]
    /\ UNCHANGED <<sock, stream, epoll>>

SysConnect(t, s, to) == Handle(t, s) /\ Calls(t) /\ Connect(t, s, to)

ConnectRefused(t) ==
    /\ At(t, "connect") /\ sock[thr[t].s].lock = None /\ ~sock[thr[t].to].passive
    /\ Ends(t)
    /\ UNCHANGED <<sock, stream, epoll, calls, asked>>

ConnectLocks(t) ==
    /\ At(t, "connect") /\ sock[thr[t].s].lock = None /\ sock[thr[t].to].passive
    /\ sock' = [sock EXCEPT ![thr[t].s].lock = t]
    /\ Moves(t, "permit")
    /\ UNCHANGED <<stream, epoll, calls, asked>>

\* ConnectTo: a permit, a place in the list, the watchers, and a wait that only m_connected ends.
ConnectInterrupted(t) ==
    /\ At(t, "permit") /\ sock[thr[t].to].permits <= 0
    /\ sock' = [sock EXCEPT ![thr[t].s].lock = None]
    /\ Ends(t)
    /\ UNCHANGED <<stream, epoll, calls, asked>>

ConnectListed(t) ==
    LET l == thr[t].to IN
    /\ At(t, "permit") /\ sock[l].permits > 0
    /\ sock' = [sock EXCEPT ![l].permits = @ - 1, ![l].pending = Append(@, thr[t].s)]
    /\ Moves(t, "tell")
    /\ UNCHANGED <<stream, epoll, calls, asked>>

ConnectTells(t) ==
    LET l == thr[t].to IN
    /\ At(t, "tell")
    /\ sock' = [sock EXCEPT ![l].watching = {}]
    /\ thr' = [Woken(l) EXCEPT ![t].pc = "await"]
    /\ UNCHANGED <<stream, epoll, calls, asked>>

Connected(t) ==
    /\ At(t, "await") /\ sock[thr[t].s].connected
    /\ sock' = [sock EXCEPT ![thr[t].to].permits = @ + 1, ![thr[t].s].lock = None]
    /\ Ends(t)
    /\ UNCHANGED <<stream, epoll, calls, asked>>

Accept(t, l) ==
    /\ sock[l].passive /\ sock[l].pending # <<>>
    /\ thr' = [thr EXCEPT ![t] = [Idle EXCEPT !.pc = "accept", !.s = l]]
    /\ UNCHANGED <<sock, stream, epoll, asked>>

SysAccept(t, l) == Handle(t, l) /\ Calls(t) /\ Accept(t, l)

\* remove_at(0) asserts that another thread has not been faster.
AcceptAsserts(t) ==
    /\ At(t, "accept") /\ sock[thr[t].s].pending = <<>>
    /\ Moves(t, "fault")
    /\ UNCHANGED <<sock, stream, epoll, calls, asked>>

\* The client's streams, crossed. m_connected comes last.
CreatePairedSocketUncrossed(s, c) == [sock[s] EXCEPT !.open = TRUE, !.in = sock[c].in, !.out = sock[c].out,   \* mutant
                                                     !.peer = c, !.connected = TRUE]
CreatePairedSocket(s, c) == [sock[s] EXCEPT !.open = TRUE, !.out = sock[c].in, !.in = sock[c].out,
                                            !.peer = c, !.connected = TRUE]
Unmade == {i \in DOMAIN Spare : ~sock[Spare[i]].open}
AcceptPairs(t) ==
    LET l == thr[t].s  c == Head(sock[l].pending)  s == Spare[CHOOSE i \in Unmade : \A j \in Unmade : i <= j] IN
    /\ At(t, "accept") /\ sock[l].pending # <<>> /\ Unmade # {}
    /\ sock' = [sock EXCEPT ![l].pending = Tail(@), ![s] = CreatePairedSocket(s, c),
                            ![c].peer = s, ![c].connected = TRUE]
    /\ Ends(t)
    /\ UNCHANGED <<stream, epoll, calls, asked>>
-----------------------------------------------------------------------------
(* SysSendMsg, Write, Read.                                                *)

CanRead(s) == sock[s].in # None /\ stream[sock[s].in] > 0

\* SendTo for each of n parts of a message; a part that fails hides those that were sent.
SysSendMsg(t, s, n) ==
    /\ Handle(t, s) /\ sock[s].connected /\ Calls(t)
    /\ thr' = [thr EXCEPT ![t] = [Idle EXCEPT !.pc = "room", !.s = s, !.left = n]]
    /\ UNCHANGED <<sock, stream, epoll, asked>>

SendNull(t) ==
    /\ At(t, "room") /\ sock[thr[t].s].out = None
    /\ Moves(t, "fault")
    /\ UNCHANGED <<sock, stream, epoll, calls, asked>>

\* Pos() is read with no lock.
SendHasRoom(t) ==
    LET q == sock[thr[t].s].out IN
    /\ At(t, "room") /\ q # None /\ stream[q] + 1 < StreamSize
    /\ Moves(t, "write")
    /\ UNCHANGED <<sock, stream, epoll, calls, asked>>

SendAgain(t) == /\ At(t, "room") /\ sock[thr[t].s].out # None /\ stream[sock[thr[t].s].out] + 1 >= StreamSize   \* MSG_DONTWAIT
                /\ Ends(t)
                /\ UNCHANGED <<sock, stream, epoll, calls, asked>>

Next1(t) == IF thr[t].left = 1 THEN Idle ELSE [thr[t] EXCEPT !.pc = "room", !.left = @ - 1]
SendWrites(t) ==
    LET s == thr[t].s IN
    /\ At(t, "write") /\ sock[s].out # None
    /\ stream' = [stream EXCEPT ![sock[s].out] = @ + 1]
    /\ thr' = [thr EXCEPT ![t].pc = "wake"]
    /\ UNCHANGED <<sock, epoll, calls, asked>>

SendWakes(t) ==
    LET p == sock[thr[t].s].peer  told == p # None /\ CanRead(p) IN
    /\ At(t, "wake")
    /\ sock' = IF told THEN [sock EXCEPT ![p].watching = {}] ELSE sock
    /\ thr' = [IF told THEN Woken(p) ELSE thr EXCEPT ![t] = Next1(t)]
    /\ UNCHANGED <<stream, epoll, calls, asked>>

\* ReceiveFrom: a test of the stream, then Read, which may find nothing and returns 0.
Receive(t, s) ==
    /\ Handle(t, s) /\ CanRead(s) /\ Calls(t)
    /\ thr' = [thr EXCEPT ![t] = [Idle EXCEPT !.pc = "read", !.s = s]]
    /\ UNCHANGED <<sock, stream, epoll, asked>>

ReceiveReads(t) ==
    LET q == sock[thr[t].s].in IN
    /\ At(t, "read") /\ q # None
    /\ \E n \in 0 .. stream[q] : (stream[q] > 0 => n > 0) /\ stream' = [stream EXCEPT ![q] = @ - n]
    /\ Ends(t)
    /\ UNCHANGED <<sock, epoll, calls, asked>>
-----------------------------------------------------------------------------
(* SysPoll, SysSelect, SysEpollWait.                                       *)

\* What poll and epoll see of a socket; select sees CanRead only.
HasEvent(kind, s) ==
    \/ CanRead(s)
    \/ kind # "select" /\ (sock[s].pending # <<>> \/ (~sock[s].connected /\ ~sock[s].passive))
Ready(kind, S) == {s \in S : HasEvent(kind, s)}

\* SysEpollWait holds epLock until it returns.
Unlocked(t) == epoll' = IF epoll.lock = t THEN [epoll EXCEPT !.lock = None] ELSE epoll
Fds(t, kind, S) == IF kind = "epoll" THEN epoll.fds = S /\ epoll.lock = None ELSE TRUE

Waits(t, kind, S) ==
    /\ S # {} /\ \A s \in S : Handle(t, s)
    /\ Fds(t, kind, S) /\ Calls(t)

\* EPOLLONESHOT: once one socket has an event, every one-shot socket from there on is removed.
WaitReturns(t, kind, S) ==
    /\ Waits(t, kind, S)
    /\ \E r \in Ready(kind, S), gone \in SUBSET (S \cap epoll.once) :
          /\ r \in epoll.once => r \in gone
          /\ epoll' = IF kind = "epoll" THEN [epoll EXCEPT !.fds = @ \ gone, !.once = @ \ gone] ELSE epoll
    /\ UNCHANGED <<sock, stream, thr, asked>>

WaitBlocks(t, kind, S) ==
    /\ Waits(t, kind, S) /\ Ready(kind, S) = {}
    /\ epoll' = IF kind = "epoll" THEN [epoll EXCEPT !.lock = t] ELSE epoll
    /\ thr' = [thr EXCEPT ![t] = [Idle EXCEPT !.pc = "watch", !.kind = kind, !.todo = S, !.set = S]]
    /\ UNCHANGED <<sock, stream, asked>>

\* LocalSocket::Watch: a socket that is readable or not connected is not watched, ...
WatchTests(t, s) ==
    /\ At(t, "watch") /\ s \in thr[t].todo
    /\ thr' = [thr EXCEPT ![t].todo = @ \ {s}, ![t].s = s,
                          ![t].pc = IF CanRead(s) \/ ~sock[s].connected THEN "watch" ELSE "register"]
    /\ UNCHANGED <<sock, stream, epoll, calls, asked>>

\* ... and the watcher of another is listed in a step of its own.
WatchRegisters(t) ==
    /\ At(t, "register")
    /\ sock' = [sock EXCEPT ![thr[t].s].watching = @ \cup {t}]
    /\ Moves(t, "watch")
    /\ UNCHANGED <<stream, epoll, calls, asked>>

WaitEnds(t) ==
    /\ At(t, "watch") /\ thr[t].todo = {} /\ thr[t].signals > 0
    /\ thr' = [thr EXCEPT ![t].signals = @ - 1, ![t].pc = "scan"]
    /\ UNCHANGED <<sock, stream, epoll, calls, asked>>

\* A signal or the timeout; select has no other way out once it is on no list.
WaitCut(t) ==
    /\ At(t, "watch") /\ thr[t].todo = {} /\ thr[t].signals = 0
    /\ Moves(t, "leave")
    /\ UNCHANGED <<sock, stream, epoll, calls, asked>>

\* With no event epoll waits once more, on the lists it has left; poll looks again.
ScanFinds(t) ==
    /\ At(t, "scan") /\ (Ready(thr[t].kind, thr[t].set) # {} \/ thr[t].kind = "select")
    /\ epoll' = IF thr[t].kind = "epoll" THEN [epoll EXCEPT !.fds = @ \ epoll.once, !.once = {}] ELSE epoll
    /\ Moves(t, "leave")
    /\ UNCHANGED <<sock, stream, calls, asked>>

ScanFindsNothing(t) ==
    /\ At(t, "scan") /\ Ready(thr[t].kind, thr[t].set) = {} /\ thr[t].kind # "select"
    /\ Moves(t, IF thr[t].kind = "epoll" THEN "watch" ELSE "leave")   \* poll: at its timeout
    /\ UNCHANGED <<sock, stream, epoll, calls, asked>>

\* ~FilesystemWatcher.
UnwatchesReady(t) == {s \in thr[t].set : CanRead(s)}   \* mutant
Unwatches(t) == thr[t].set
Leave(t) ==
    /\ At(t, "leave")
    /\ sock' = [s \in Sockets |-> IF s \in Unwatches(t) THEN [sock[s] EXCEPT !.watching = @ \ {t}] ELSE sock[s]]
    /\ Unlocked(t) /\ Ends(t)
    /\ UNCHANGED <<stream, calls, asked>>

\* SysEPollCtl waits for epLock; EPOLL_CTL_MOD changes nothing.
EPollCtl(t, s, once) ==
    /\ Handle(t, s) /\ epoll.lock = None /\ Calls(t)
    /\ epoll' = IF s \in epoll.fds THEN [epoll EXCEPT !.fds = @ \ {s}, !.once = @ \ {s}]
                ELSE [epoll EXCEPT !.fds = @ \cup {s}, !.once = IF once THEN @ \cup {s} ELSE @]
    /\ UNCHANGED <<sock, stream, thr, asked>>

Next ==
    \/ \E t \in Threads, s \in Sockets :
        \/ SysListen(t, s) \/ SysAccept(t, s) \/ Receive(t, s) \/ WatchTests(t, s)
        \/ \E n \in 1 .. 2 : SysSendMsg(t, s, n)
        \/ \E to \in Sockets : SysConnect(t, s, to)
        \/ \E once \in BOOLEAN : EPollCtl(t, s, once)
    \/ \E t \in Threads :
        \/ ListenUnlocks(t) \/ ConnectRefused(t) \/ ConnectLocks(t) \/ ConnectInterrupted(t) \/ ConnectListed(t)
        \/ ConnectTells(t) \/ Connected(t) \/ AcceptAsserts(t) \/ AcceptPairs(t)
        \/ SendNull(t) \/ SendHasRoom(t) \/ SendAgain(t) \/ SendWrites(t) \/ SendWakes(t) \/ ReceiveReads(t)
        \/ WatchRegisters(t) \/ WaitEnds(t) \/ WaitCut(t) \/ ScanFinds(t) \/ ScanFindsNothing(t) \/ Leave(t)
        \/ \E kind \in Kinds, S \in SUBSET Sockets : WaitReturns(t, kind, S) \/ WaitBlocks(t, kind, S)

Spec == Init /\ [][Next]_vars
-----------------------------------------------------------------------------
(* The two ends of a connection name each other and have each other's      *)
(* streams, crossed, unless two threads connected one socket at once or a  *)
(* socket was made to listen after it had asked for a connection           *)
(* (CreatePairedSocket, Connect, Listen).                                  *)
Once(s) == asked[s] <= 1
Paired == \A s \in Sockets :
    LET p == sock[s].peer IN
    sock[s].connected /\ Once(s) /\ Once(p) =>
        /\ sock[p].peer = s /\ sock[p].connected
        /\ sock[s].in = sock[p].out /\ sock[s].out = sock[p].in

(* Connections that wait are those whose Connect is under way, each in one *)
(* place, and no more than the backlog allows (Listen, ConnectTo).         *)
Waiting(l) == {t \in Threads : thr[t].pc \in {"tell", "await"} /\ thr[t].to = l}
BacklogKept == \A l \in Sockets : Once(l) =>
    /\ sock[l].permits + Cardinality(Waiting(l)) = Backlog + 1
    /\ \A i \in DOMAIN sock[l].pending : Once(sock[l].pending[i]) => \E t \in Waiting(l) : thr[t].s = sock[l].pending[i]

(* A socket lists a watcher only as long as the call that made it has not  *)
(* returned: the watcher is in that call's frame (Watch, Unwatch).         *)
WatchersLive == \A s \in Sockets : \A t \in sock[s].watching :
    s \in thr[t].set /\ thr[t].pc \in {"watch", "register", "scan", "leave"}
=============================================================================
