------------------------------ MODULE Datagrams ------------------------------
(***************************************************************************)
(* UDP over IPv4: an adapter's ring of received frames, emptied by its     *)
(* interrupt into packets from a cache; the interface thread, which takes  *)
(* the packets of all adapters under one semaphore; the address cache and  *)
(* the routes; and the sockets, their ports and receivers.  An address is  *)
(* <<net, host>>; a netmask is the first of its parts to be compared.      *)
(***************************************************************************)
EXTENDS Naturals, Sequences, SequencesExt, FiniteSets, FiniteSetsExt

CONSTANTS
    Threads, Sockets,
    Adapters,             \* a sequence, in the order they were registered
    Config,               \* the configuration of each: [ip, mask, gateway]
    Ring, Cache, TxRing,  \* descriptors, packets, descriptors
    Frames,               \* that arrive: [kind, port] or [kind, from, to]
    Addresses,            \* to which sockets are bound or send
    NoAddress, Broadcast,       \* INADDR_ANY and INADDR_BROADCAST
    Ports,                \* that programs bind to
    FirstEphemeral, PortMax,
    Commands,             \* <<adapter, field, value, root>>: what ioctls set
    MaxFrames, MaxCalls   \* bounds

VARIABLES
    config, ring, cache, queue,
    packets,              \* packetQueueSemaphore
    net,                  \* the interface thread
    known,                \* addressCache
    tx,                   \* of an adapter: frames that it has still to send
    sock, ports, next,    \* ports: sockets by their port; next: nextEphemeralPort
    call, calls, frames,
    raced,                \* a list of packets was changed by the interrupt and the thread at once
    crowded,              \* a socket had two receivers
    missed,               \* a datagram arrived between a receiver's test and its registration, or the wake
                          \* for an earlier one after it
    usurped,              \* a bind to a port in use was taken for a success
    panic

stack == <<ring, cache, queue, packets, net, frames, raced>>
names == <<sock, ports, next, usurped>>
vars == <<config, stack, known, tx, names, call, calls, crowded, missed, panic>>

Names == Range(Adapters)
None == "none"
Empty == [kind |-> "none"]
Idle == [pc |-> "idle"]
Queued == FoldLeft(LAMBDA n, a : n + Len(queue[a]), 0, Adapters)

Init ==
    /\ config = Config
    /\ ring = [a \in Names |-> [desc |-> [i \in 0..Ring - 1 |-> Empty], head |-> 0, tail |-> Ring - 1]]
    /\ cache = [a \in Names |-> Cache] /\ queue = [a \in Names |-> <<>>] /\ packets = 0
    /\ net = Idle /\ known = {} /\ tx = [a \in Names |-> <<>>]
    /\ sock = [s \in Sockets |-> [open |-> TRUE, port |-> 0, bound |-> FALSE, address |-> NoAddress, adapter |-> None, data |-> 0]]
    /\ ports = [p \in 0..PortMax |-> None] /\ next = FirstEphemeral
    /\ call = [t \in Threads |-> Idle] /\ calls = 0 /\ frames = 0
    /\ raced = FALSE /\ crowded = FALSE /\ missed = FALSE /\ usurped = FALSE /\ panic = {}

At(t, pc) == call[t].pc = pc
Goes(t, to) == call' = [call EXCEPT ![t] = to]
-----------------------------------------------------------------------------
(* An adapter *)

\* The device fills the descriptor at the head, unless it is the last.
Arrive(a) ==
    /\ frames < MaxFrames /\ frames' = frames + 1 /\ ring[a].head # ring[a].tail
    /\ \E f \in Frames :
         ring' = [ring EXCEPT ![a] = [@ EXCEPT !.desc[ring[a].head] = f, !.head = (@ + 1) % Ring]]
    /\ UNCHANGED <<config, cache, queue, packets, net, known, tx, names, call, calls, raced, crowded, missed, panic>>

\* One round of the interrupt handler: a packet is taken from the cache, or the frame is dropped.
\* The lists of packets are changed without their locks.
OnInterrupt(a) ==
    LET i == (ring[a].tail + 1) % Ring
    IN  /\ ring[a].tail # ring[a].head /\ ring[a].desc[i] # Empty
        /\ ring' = [ring EXCEPT ![a] = [@ EXCEPT !.tail = i, !.desc[i] = Empty]]
        /\ IF cache[a] > 0
           THEN /\ cache' = [cache EXCEPT ![a] = @ - 1]
                /\ queue' = [queue EXCEPT ![a] = Append(@, ring[a].desc[i])]
                /\ packets' = packets + 1
                /\ raced' = (raced \/ (net.pc \in {"take", "cache"} /\ net.adapter = a))
           ELSE UNCHANGED <<cache, queue, packets, raced>>
        /\ UNCHANGED <<config, net, known, tx, names, call, calls, frames, crowded, missed, panic>>

\* The tail moves on whether the descriptor was sent or not: a ring that is full looks empty.
SendPacket(a, f) == tx' = [tx EXCEPT ![a] = IF Len(@) = TxRing - 1 THEN <<>> ELSE Append(@, f)]
Transmit(a) ==
    /\ tx[a] # <<>> /\ tx' = [tx EXCEPT ![a] = Tail(@)]
    /\ UNCHANGED <<config, stack, known, names, call, calls, crowded, missed, panic>>
-----------------------------------------------------------------------------
(* The interface thread *)

\* One permit, then a packet of every adapter.
InterfaceThread ==
    /\ net.pc = "idle" /\ packets > 0 /\ packets' = packets - 1
    /\ net' = [pc |-> "next", left |-> Adapters]
    /\ UNCHANGED <<config, ring, cache, queue, known, tx, names, call, calls, frames, raced, crowded, missed, panic>>
NextAdapter ==
    /\ net.pc = "next"
    /\ net' = IF net.left = <<>> THEN Idle
              ELSE IF queue[Head(net.left)] = <<>> THEN [net EXCEPT !.left = Tail(@)]
              ELSE [pc |-> "take", left |-> Tail(net.left), adapter |-> Head(net.left)]
    /\ UNCHANGED <<config, ring, cache, queue, packets, known, tx, names, call, calls, frames, raced, crowded, missed, panic>>
Dequeue ==
    /\ net.pc = "take"
    /\ queue' = [queue EXCEPT ![net.adapter] = Tail(@)]
    /\ net' = [pc |-> "cache", left |-> net.left, adapter |-> net.adapter, frame |-> Head(queue[net.adapter])]
    /\ UNCHANGED <<config, ring, cache, packets, known, tx, names, call, calls, frames, raced, crowded, missed, panic>>
CachePacketShort ==   \* mutant
    /\ net.pc = "cache"
    /\ cache' = [cache EXCEPT ![net.adapter] = IF @ < Cache /\ net.frame.kind # "short" THEN @ + 1 ELSE @]
    /\ net' = IF net.frame.kind = "short" THEN Idle ELSE [net EXCEPT !.pc = "frame"]
    /\ UNCHANGED <<config, ring, queue, packets, known, tx, names, call, calls, frames, raced, crowded, missed, panic>>
\* The packet goes back after its frame was copied; one that is too short ends the round.
CachePacket ==
    /\ net.pc = "cache" /\ cache' = [cache EXCEPT ![net.adapter] = IF @ < Cache THEN @ + 1 ELSE @]
    /\ net' = IF net.frame.kind = "short" THEN Idle ELSE [net EXCEPT !.pc = "frame"]
    /\ UNCHANGED <<config, ring, queue, packets, known, tx, names, call, calls, frames, raced, crowded, missed, panic>>

Round == [pc |-> "next", left |-> net.left]
Frame(kind) == net.pc = "frame" /\ net.frame.kind = kind

\* A request for an address of ours is answered; the sender is known from now on.
OnReceiveARP ==
    /\ Frame("arp") /\ net' = Round /\ known' = known \cup {net.frame.from}
    /\ LET mine == SelectSeq(Adapters, LAMBDA a : config[a].ip = net.frame.to)
       IN  IF mine # <<>> THEN SendPacket(Head(mine), <<"reply", net.frame.from>>) ELSE UNCHANGED tx
    /\ UNCHANGED <<config, ring, cache, queue, packets, names, call, calls, frames, raced, crowded, missed, panic>>
\* Another station's, of another protocol, or with a wrong checksum.
Discard ==
    /\ Frame("other") /\ net' = Round
    /\ UNCHANGED <<config, ring, cache, queue, packets, known, tx, names, call, calls, frames, raced, crowded, missed, panic>>
OnReceiveUDP ==
    /\ Frame("udp")
    /\ LET s == ports[net.frame.port]
       IN  IF s = None THEN net' = Round /\ UNCHANGED <<sock, missed>>
           ELSE /\ sock' = [sock EXCEPT ![s].data = @ + 1]
                /\ net' = [pc |-> "wake", left |-> net.left, sock |-> s]
                /\ missed' = (missed \/ \E t \in Threads : At(t, "register") /\ call[t].sock = s)
    /\ UNCHANGED <<config, ring, cache, queue, packets, known, tx, ports, next, usurped, call, calls, frames, raced, crowded, panic>>
WakeReceiversOne ==   \* mutant
    /\ net.pc = "wake" /\ net' = Round
    /\ LET asleep == {t \in Threads : At(t, "asleep") /\ call[t].sock = net.sock}
       IN  IF asleep = {} THEN UNCHANGED call
           ELSE \E t \in asleep : call' = [call EXCEPT ![t] = [@ EXCEPT !.pc = "woken"]]
    /\ UNCHANGED <<config, ring, cache, queue, packets, known, tx, names, calls, frames, raced, crowded, missed, panic>>
\* Every receiver that is registered is woken.
WakeReceivers ==
    /\ net.pc = "wake" /\ net' = Round
    /\ call' = [t \in Threads |-> IF At(t, "asleep") /\ call[t].sock = net.sock THEN [call[t] EXCEPT !.pc = "woken"] ELSE call[t]]
    /\ UNCHANGED <<config, ring, cache, queue, packets, known, tx, names, calls, frames, raced, crowded, missed, panic>>
-----------------------------------------------------------------------------
(* Ports *)

Free(p) == ports[p] = None
EphemeralUntested ==   \* mutant
    IF next < PortMax THEN next
    ELSE IF \E p \in FirstEphemeral..PortMax - 1 : Free(p) THEN Min({p \in FirstEphemeral..PortMax - 1 : Free(p)})
    ELSE PortMax
\* While it is below the last port, the next one is tried, and no other.
Ephemeral ==
    IF next < PortMax THEN IF Free(next) THEN next ELSE 0
    ELSE IF \E p \in FirstEphemeral..PortMax - 1 : Free(p) THEN Min({p \in FirstEphemeral..PortMax - 1 : Free(p)})
    ELSE PortMax
\* The port given back as PortMax was not acquired.
AllocatePort(s) ==
    /\ ports' = IF Ephemeral \in {0, PortMax} THEN ports ELSE [ports EXCEPT ![Ephemeral] = s]
    /\ next' = IF next < PortMax THEN next + 1 ELSE next
-----------------------------------------------------------------------------
(* Sockets *)

Calls(t) == call[t] = Idle /\ calls < MaxCalls /\ calls' = calls + 1
Alone(t, s) == ~\E u \in Threads \ {t} : call[u] # Idle /\ call[u].sock = s

\* An address must be any, or an adapter's. A port in use is an error that Bind does not know, and
\* goes on; any other error leaves no port, which is asserted.
Bind(t, s) ==
    /\ Calls(t) /\ sock[s].open /\ ~sock[s].bound
    /\ \E at \in Addresses, p \in Ports \cup {0} :
         LET mine == SelectSeq(Adapters, LAMBDA a : config[a].ip = at)
             adapter == IF at = NoAddress THEN None ELSE Head(mine)
         IN  IF at # NoAddress /\ mine = <<>>
             THEN /\ panic' = IF sock[s].port = 0 THEN {"bind"} ELSE {}
                  /\ sock' = [sock EXCEPT ![s].bound = TRUE] /\ UNCHANGED <<ports, next, usurped>>
             ELSE LET port == IF p = 0 THEN Ephemeral ELSE p
                  IN  /\ sock' = [sock EXCEPT ![s] = [@ EXCEPT !.bound = TRUE, !.address = at, !.adapter = adapter, !.port = port]]
                      /\ panic' = IF port \in {0, PortMax} THEN {"bind"} ELSE {}
                      /\ IF p = 0 THEN AllocatePort(s) /\ UNCHANGED usurped
                         ELSE /\ ports' = IF Free(p) THEN [ports EXCEPT ![p] = s] ELSE ports
                              /\ usurped' = (usurped \/ ~Free(p) \/ sock[s].port # 0) /\ UNCHANGED next
    /\ UNCHANGED <<config, stack, known, tx, call, crowded, missed>>
\* SO_BINDTODEVICE.
BindToDevice(t, s) ==
    /\ Calls(t) /\ sock[s].open /\ \E a \in Names : sock' = [sock EXCEPT ![s].adapter = a]
    /\ UNCHANGED <<config, stack, known, tx, ports, next, usurped, call, crowded, missed, panic>>

\* The port is released, whoever has it; the socket itself is never freed.
Close(t, s) ==
    /\ Calls(t) /\ sock[s].open /\ Alone(t, s)
    /\ sock' = [sock EXCEPT ![s] = [@ EXCEPT !.open = FALSE, !.adapter = None]]
    /\ ports' = IF sock[s].port = 0 THEN ports ELSE [ports EXCEPT ![sock[s].port] = None]
    /\ UNCHANGED <<config, stack, known, tx, next, usurped, call, crowded, missed, panic>>

\* The list is tested under the lock, which is not held when the receiver registers.
ReceiveFrom(t, s) ==
    /\ Calls(t) /\ sock[s].open
    /\ IF sock[s].data > 0
       THEN sock' = [sock EXCEPT ![s].data = @ - 1] /\ UNCHANGED call
       ELSE UNCHANGED sock /\ \E wait \in BOOLEAN :
              Goes(t, IF wait THEN [pc |-> "register", sock |-> s] ELSE Idle)
    /\ crowded' = (crowded \/ ~Alone(t, s))
    /\ UNCHANGED <<config, stack, known, tx, ports, next, usurped, missed, panic>>
Register(t) ==
    /\ At(t, "register") /\ Goes(t, [call[t] EXCEPT !.pc = "asleep"])
    /\ missed' = (missed \/ (net.pc = "wake" /\ net.sock = call[t].sock))
    /\ UNCHANGED <<config, stack, known, tx, names, calls, crowded, panic>>
Interrupted(t) ==
    /\ At(t, "asleep") /\ Goes(t, Idle)
    /\ UNCHANGED <<config, stack, known, tx, names, calls, crowded, missed, panic>>
\* A receiver that was woken takes the first datagram, and asserts that there is one.
Receive(t) ==
    /\ At(t, "woken") /\ Goes(t, Idle)
    /\ IF sock[call[t].sock].data > 0
       THEN sock' = [sock EXCEPT ![call[t].sock].data = @ - 1] /\ UNCHANGED panic
       ELSE panic' = {"receive"} /\ UNCHANGED sock
    /\ UNCHANGED <<config, stack, known, tx, ports, next, usurped, calls, crowded, missed>>
-----------------------------------------------------------------------------
(* Sending *)

Local(a, to) == config[a].mask = 0 \/ SubSeq(to, 1, config[a].mask) = SubSeq(config[a].ip, 1, config[a].mask)
\* The last adapter of the destination's subnet, or before there is one the last with a gateway.
Route(to) ==
    FoldLeft(LAMBDA r, a : IF Local(a, to) THEN [adapter |-> a, local |-> TRUE]
                           ELSE IF ~r.local /\ config[a].gateway # NoAddress THEN [r EXCEPT !.adapter = a] ELSE r,
             [adapter |-> None, local |-> FALSE], Adapters).adapter
Hop(a, to) == IF Local(a, to) THEN to ELSE config[a].gateway

\* A socket without a port is given one.
SendTo(t, s) ==
    /\ Calls(t) /\ sock[s].open
    /\ \E to \in Addresses \ {NoAddress} :
         LET a == IF sock[s].adapter # None THEN sock[s].adapter ELSE Route(to)
             sends == a # None /\ (sock[s].port # 0 \/ Ephemeral # 0)
         IN  Goes(t, IF ~sends THEN Idle
                     ELSE [pc |-> IF to = Broadcast /\ sock[s].adapter # None THEN "send" ELSE "lookup", sock |-> s, adapter |-> a, to |-> to])
    /\ IF sock[s].port = 0
       THEN AllocatePort(s) /\ sock' = [sock EXCEPT ![s].port = Ephemeral]
       ELSE UNCHANGED <<sock, ports, next>>
    /\ UNCHANGED <<config, stack, known, tx, usurped, crowded, missed, panic>>

\* The address of a socket must be its adapter's; without one, that is tested when the hop is known.
Unreachable(c) ==
    c.sock # None /\ c.to # Broadcast /\ sock[c.sock].address \notin {NoAddress, config[c.adapter].ip}
\* A next hop that is not known is asked for, and waited for.
IPLookup(t) ==
    LET c == call[t]
        hop == Hop(c.adapter, c.to)
    IN  /\ At(t, "lookup")
        /\ IF Unreachable(c) /\ sock[c.sock].adapter # None
           THEN Goes(t, Idle) /\ UNCHANGED tx
           ELSE IF hop \in known THEN Goes(t, [c EXCEPT !.pc = "send"]) /\ UNCHANGED tx
           ELSE Goes(t, [c EXCEPT !.pc = "answer"]) /\ SendPacket(c.adapter, <<"request", hop>>)
        /\ UNCHANGED <<config, stack, known, names, calls, crowded, missed, panic>>
Answered(t) ==
    /\ At(t, "answer") /\ Hop(call[t].adapter, call[t].to) \in known
    /\ Goes(t, [call[t] EXCEPT !.pc = "send"])
    /\ UNCHANGED <<config, stack, known, tx, names, calls, crowded, missed, panic>>
NoAnswer(t) ==
    /\ At(t, "answer") /\ Goes(t, Idle)
    /\ UNCHANGED <<config, stack, known, tx, names, calls, crowded, missed, panic>>
SendIPv4(t) ==
    /\ At(t, "send") /\ Goes(t, Idle)
    /\ IF call[t].sock = None \/ Unreachable(call[t]) THEN UNCHANGED tx
       ELSE SendPacket(call[t].adapter, <<"datagram", call[t].to>>)
    /\ UNCHANGED <<config, stack, known, names, calls, crowded, missed, panic>>

\* What root sets; a gateway is looked up at once.
Ioctl(t) ==
    /\ Calls(t)
    /\ \E c \in Commands :
         /\ config' = IF c[4] THEN [config EXCEPT ![c[1]][c[2]] = c[3]] ELSE config
         /\ IF c[4] /\ c[2] = "gateway"
            THEN Goes(t, [pc |-> "lookup", sock |-> None, adapter |-> c[1], to |-> c[3]])
            ELSE UNCHANGED call
    /\ UNCHANGED <<stack, known, tx, names, crowded, missed, panic>>

Step ==
    \/ \E a \in Names : Arrive(a) \/ OnInterrupt(a) \/ Transmit(a)
    \/ InterfaceThread \/ NextAdapter \/ Dequeue \/ CachePacket
    \/ OnReceiveARP \/ OnReceiveUDP \/ Discard \/ WakeReceivers
    \/ \E t \in Threads :
         \/ \E s \in Sockets : Bind(t, s) \/ BindToDevice(t, s) \/ Close(t, s) \/ ReceiveFrom(t, s) \/ SendTo(t, s)
         \/ Register(t) \/ Interrupted(t) \/ Receive(t)
         \/ IPLookup(t) \/ Answered(t) \/ NoAnswer(t) \/ SendIPv4(t) \/ Ioctl(t)
Next == panic = {} /\ Step

Spec == Init /\ [][Next]_vars
-----------------------------------------------------------------------------
(* Properties *)

\* Every packet of an adapter is in its cache, in its queue, or in the hands of the interface thread.
PacketsKept ==
    ~raced => \A a \in Names :
        cache[a] + Len(queue[a]) + (IF net.pc = "cache" /\ net.adapter = a THEN 1 ELSE 0) = Cache

\* A packet that is queued will be served: there is a permit for it, or the round at hand comes to it.
QueuedServed == Queued <= packets + (IF net.pc \in {"next", "take"} THEN 1 ELSE 0)

\* The port of a socket is the socket's until it is closed.
PortsKept ==
    ~usurped /\ panic = {} =>
        \A s \in Sockets : sock[s].open /\ sock[s].port \notin {0, PortMax} => ports[sock[s].port] = s

\* A receiver does not sleep while there is a datagram, nor is it woken for nothing when it is alone.
ReceiversWoken ==
    /\ ~missed => \A t \in Threads :
         At(t, "asleep") => sock[call[t].sock].data = 0 \/ (net.pc = "wake" /\ net.sock = call[t].sock)
    /\ ~crowded /\ ~missed => "receive" \notin panic
=============================================================================
