-------------------------------- MODULE MCIpc --------------------------------
(* What processes and threads exchange, side by side: a behaviour is one of the part that   *)
(* "part" names; the variables of the others are Off. The parts share thr and calls.        *)
EXTENDS Naturals, Sequences, FiniteSets, TLC

CONSTANTS
    None, Off, a1, a2, c1, c2,
    Nodes, Values, MaxCache,                              \* LinkedList
    Readers, Writers, MaxLength, MaxBytes,                \* Pipe
    Viewers, Masters, Slaves, Inputs, Capacity, MaxTyped, \* Terminal
    Clients, Servers, IDs, Awaited, Limit, MaxSent,       \* Messages
    Providers, Connectors, Names, Services, MaxConnects,  \* Services
    Callers, Given, Spare, Backlog, StreamSize, MaxCalls,  \* Sockets; MaxCalls of Messages too
    Main, Others, Senders, SigInt, SigKill, SigUsr, MaxFrames, Budgets   \* Signals

VARIABLES
    part, thr, calls,
    h,                                                    \* LinkedList
    end, stream, blocked, user, got, written, dangling,   \* Pipe
    master, slave, mode, sleeping, watching, open, destroyed, stale, raced,   \* Terminal
    point, log, fault, broken,                            \* Messages
    svc, iface, handles, made, doubled,                   \* Services
    sock, flow, epoll, asked,                             \* Sockets
    sig, action, sender, blocker, futex, waker            \* Signals

pipe == <<end, stream, blocked, user, got, written, dangling>>
terminal == <<master, slave, mode, sleeping, watching, open, destroyed, stale, raced>>
messages == <<point, log, fault, broken>>
services == <<svc, iface, handles, made, doubled>>
sockets == <<sock, flow, epoll, asked>>
signals == <<sig, action, sender, blocker, futex, waker>>
ipc == <<part, thr, calls, h, pipe, terminal, messages, services, sockets, signals>>

L == INSTANCE LinkedList WITH Null <- None
P == INSTANCE Pipe
T == INSTANCE Terminal WITH Readers <- Viewers, MaxCalls <- MaxTyped, blocked <- sleeping
M == INSTANCE Messages WITH end <- point, dangling <- broken
V == INSTANCE Services WITH Servers <- Providers, Clients <- Connectors, MaxCalls <- MaxConnects, raced <- doubled
K == INSTANCE Sockets WITH Threads <- Callers, stream <- flow
S == INSTANCE Signals

\* A thread has one end of a pipe or of a channel, and one side of a service; signals are numbers;
\* a terminal is given characters; None is nobody's name. Sets that are counted are finite.
ASSUME PipeAssumption == Readers # {} /\ Writers # {} /\ Readers \cap Writers = {} /\ MaxLength \in Nat
ASSUME TerminalAssumption ==
    /\ Capacity \in Nat /\ Inputs \subseteq Seq({"c", "newline", "null", "backspace"})
    /\ IsFiniteSet(Viewers \cup Masters \cup Slaves)
ASSUME ChannelAssumption == IsFiniteSet(Clients \cup Servers) /\ Limit \in Nat
ASSUME ServicesAssumption ==
    /\ IsFiniteSet(Providers) /\ IsFiniteSet(Connectors) /\ Providers \cap Connectors = {}
    /\ None \notin Names /\ None \notin Nat
ASSUME SocketsAssumption ==
    IsFiniteSet(Callers) /\ Backlog \in Nat /\ DOMAIN Spare \subseteq Nat /\ None \notin K!Sockets
ASSUME SignalsAssumption == {SigInt, SigKill, SigUsr} \subseteq Nat /\ None \notin {Main} \cup Others

\* What the terminal's threads write: lines, and bytes to erase.
Lines == {<<"c", "newline">>, <<"backspace", "c">>, <<"null", "backspace">>}
\* A process that listens, and one of two threads that connects.
Handed == [t \in {"t", c1, c2} |-> IF t = "t" THEN {"l"} ELSE {"c"}]
Accepted == <<"x">>
\* Two processes that send signals to a third; or one, to a process of three threads.
Calling(some) == [t \in {"main", a1, a2, c1, c2} |-> IF t \in some THEN 2 ELSE 0]
Casts == {Calling({"main", a1, a2}), Calling({"main", a1, c1, c2}), Calling({"main", a2, c1, c2})}
Symmetry == Permutations({a1, a2}) \cup Permutations({c1, c2})
-----------------------------------------------------------------------------
NoThreads == thr = Off /\ calls = Off
NoList == h = Off
NoPipe ==
    /\ end = Off /\ stream = Off /\ blocked = Off /\ user = Off
    /\ got = Off /\ written = Off /\ dangling = Off
NoTerminal ==
    /\ master = Off /\ slave = Off /\ mode = Off /\ sleeping = Off /\ watching = Off
    /\ open = Off /\ destroyed = Off /\ stale = Off /\ raced = Off
NoMessages == point = Off /\ log = Off /\ fault = Off /\ broken = Off
NoServices == svc = Off /\ iface = Off /\ handles = Off /\ made = Off /\ doubled = Off
NoSockets == sock = Off /\ flow = Off /\ epoll = Off /\ asked = Off
NoSignals ==
    sig = Off /\ action = Off /\ sender = Off /\ blocker = Off /\ futex = Off /\ waker = Off

IpcInit ==
    \/ /\ part = "list" /\ L!Init
       /\ NoThreads /\ NoPipe /\ NoTerminal /\ NoMessages /\ NoServices /\ NoSockets /\ NoSignals
    \/ /\ part = "pipe" /\ P!Init
       /\ NoThreads /\ NoList /\ NoTerminal /\ NoMessages /\ NoServices /\ NoSockets /\ NoSignals
    \/ /\ part = "terminal" /\ T!Init
       /\ NoList /\ NoPipe /\ NoMessages /\ NoServices /\ NoSockets /\ NoSignals
    \/ /\ part = "messages" /\ M!Init
       /\ NoList /\ NoPipe /\ NoTerminal /\ NoServices /\ NoSockets /\ NoSignals
    \/ /\ part = "services" /\ V!Init
       /\ NoList /\ NoPipe /\ NoTerminal /\ NoMessages /\ NoSockets /\ NoSignals
    \/ /\ part = "sockets" /\ K!Init
       /\ NoList /\ NoPipe /\ NoTerminal /\ NoMessages /\ NoServices /\ NoSignals
    \/ /\ part = "signals" /\ S!Init
       /\ NoList /\ NoPipe /\ NoTerminal /\ NoMessages /\ NoServices /\ NoSockets

IpcNext ==
    /\ UNCHANGED part
    /\ \/ /\ part = "list" /\ L!Next
          /\ UNCHANGED <<thr, calls, pipe, terminal, messages, services, sockets, signals>>
       \/ /\ part = "pipe" /\ P!Next
          /\ UNCHANGED <<thr, calls, h, terminal, messages, services, sockets, signals>>
       \/ /\ part = "terminal" /\ T!Next
          /\ UNCHANGED <<h, pipe, messages, services, sockets, signals>>
       \/ /\ part = "messages" /\ M!Next
          /\ UNCHANGED <<h, pipe, terminal, services, sockets, signals>>
       \/ /\ part = "services" /\ V!Next
          /\ UNCHANGED <<h, pipe, terminal, messages, sockets, signals>>
       \/ /\ part = "sockets" /\ K!Next
          /\ UNCHANGED <<h, pipe, terminal, messages, services, signals>>
       \/ /\ part = "signals" /\ S!Next
          /\ UNCHANGED <<h, pipe, terminal, messages, services, sockets>>

IpcSpec == IpcInit /\ [][IpcNext]_ipc
-----------------------------------------------------------------------------
\* LinkedList: whatever the spare nodes go through, the links of a list are whole, and it stays
\* a sequence of its objects.
ListsImplement == [][part = "list" => L!Links' /\ L!Implements]_ipc
\* The bytes of a pipe, the messages of a channel and the lines of a terminal are what was put
\* there, in order, once.
InOrder ==
    /\ part = "pipe" => P!InOrder
    /\ part = "messages" => M!InOrder
    /\ part = "terminal" => T!LinesCounted /\ T!Bounded
\* Nobody sleeps on what is there, or where no wake can reach it.
NobodyForgotten ==
    /\ part = "pipe" => P!ReaderWoken
    /\ part = "terminal" => T!SlaveServed
    /\ part = "messages" => M!WatcherTold
    /\ part = "signals" => S!SignalWakes /\ S!FutexListed
\* Two that meet agree with whom: calls and answers, connectors and acceptors, sockets and peers.
PeersAgree ==
    /\ part = "messages" => M!AnswerMatches /\ M!RoomByReading
    /\ part = "services" => V!ConnectorListed /\ V!ConnectPaired /\ V!WaitsOnLive
    /\ part = "sockets" => K!Paired /\ K!BacklogKept
\* What a blocked call or an open handle refers to is kept, and a list forgets a frame that is left.
KeptWhileUsed ==
    /\ part = "pipe" => P!EndsKept
    /\ part = "terminal" => T!KeptOpen
    /\ part = "sockets" => K!WatchersLive
\* Signals: what is masked is what is being handled, however handlers nest.
HandlersMasked == part = "signals" => S!HandlersMasked
=============================================================================
