------------------------------ MODULE TCPSocket ------------------------------
(***************************************************************************)
(* A connection of class TCPSocket (Kernel/src/Net/TCP.cpp): threads that  *)
(* connect, receive, send and close, the interface thread that hands it    *)
(* every segment (Interface.cpp), a network that loses, repeats, delays    *)
(* and reorders, and a peer that behaves as RFC 793 says.                  *)
(*                                                                         *)
(* Nothing guards the state of a socket: a thread's steps end where it     *)
(* reads or writes what the interface thread also uses.  A byte is its     *)
(* position in its stream.  Sequence numbers count from the first of each  *)
(* side.  Left out: listening ("not yet supported") and what is reached    *)
(* from it, m_unacknowledgedPackets and closedSockets, which nothing goes  *)
(* by, and the timeout in Connect, after which it looks again and sends    *)
(* nothing.                                                                *)
(***************************************************************************)
EXTENDS Integers, Sequences, SequencesExt, FiniteSets

CONSTANTS Users,       \* threads that have the socket open
          Senders,     \* those that send: one at a time, for SendTo takes no lock
          PeerBytes,   \* bound: bytes the peer has to send
          UserBytes,   \* bound: bytes sent
          MaxLength,   \* bound: bytes in one call or segment
          MaxFlight    \* bound: segments in the network in one direction

ASSUME SendersAssumption == Senders \subseteq Users /\ \A u, v \in Senders : u = v
ASSUME BoundsAssumption == {PeerBytes, UserBytes, MaxLength, MaxFlight} \subseteq Nat

VARIABLES
  sock,  \* TCPSocket: state, m_sequenceNumber (seq), m_remoteSequenceNumber (remote),
         \* m_inboundData, m_fileClosed (closed), has it a port, does it exist (alive)
  user,  \* each thread: where its call is, the length asked for, the segment it builds,
         \* and history: was what it waits for there before its blocker was (missed)
  rx,    \* the interface thread: its segment, and the state it found the socket in
  net,   \* the segments on their way to the socket and to the peer
  peer,  \* its state, the bytes it has sent and received, what is acknowledged (una),
         \* the number it expects (next), has it sent a FIN or an RST
  log    \* history: bytes read and written, was a reader told of a reset

vars == <<sock, user, rx, net, peer, log>>

Bytes(first, len) == [i \in 1..len |-> first + i - 1]
NoSegment == [flags |-> {}, seq |-> 0, ackn |-> 0, first |-> 0, len |-> 0]
Segment(flags, seq, ackn) == [NoSegment EXCEPT !.flags = flags, !.seq = seq, !.ackn = ackn]
Idle == [pc |-> "idle", len |-> 0, seg |-> NoSegment, missed |-> FALSE]

Init ==
  /\ sock = [state |-> "Unknown", seq |-> 0, remote |-> 0, inbound |-> <<>>, closed |-> FALSE,
             port |-> FALSE, alive |-> TRUE]
  /\ user = [u \in Users |-> Idle]
  /\ rx = [pc |-> "idle", seg |-> NoSegment, state |-> "Unknown"]
  /\ net = [socket |-> {}, peer |-> {}]
  /\ peer = [state |-> "Listen", sent |-> 0, una |-> 0, next |-> 0, got |-> <<>>,
             fin |-> FALSE, rst |-> FALSE]
  /\ log = [read |-> <<>>, written |-> 0, reset |-> FALSE]

At(u, loc) == user[u].pc = loc
Goto(u, loc) == user' = [user EXCEPT ![u].pc = loc]

(* The network: a segment that is sent may be lost, and one that is taken  *)
(* by the socket may come again.                                           *)
Put(to, seg) == \/ UNCHANGED net
                \/ /\ Cardinality(net[to]) < MaxFlight
                   /\ net' = [net EXCEPT ![to] = @ \cup {seg}]
Take(to, seg) == /\ seg \in net[to]
                 /\ \/ to = "socket" /\ UNCHANGED net
                    \/ net' = [net EXCEPT ![to] = @ \ {seg}]
-----------------------------------------------------------------------------
(* Connect, once: the timed wait looks at the state again and again.       *)
Synchronize == Segment({"syn"}, 0, 0)
Acknowledge(s, ackn) == Segment({"ack"}, s.seq, ackn)
Finish(s) == Segment({"fin"}, s.seq, 0)
FinishAcknowledge(s, ackn) == Segment({"ack", "fin"}, s.seq, ackn)
Reset(s) == Segment({"rst"}, s.seq, 0)

Connect(u) ==
  /\ At(u, "idle") /\ ~sock.closed /\ ~sock.port
  /\ sock' = [sock EXCEPT !.port = TRUE, !.state = "Syn", !.seq = 1]
  /\ Put("peer", Synchronize)
  /\ Goto(u, "connect")
  /\ UNCHANGED <<rx, peer, log>>

ConnectInterrupted(u) ==
  /\ At(u, "connect")
  /\ Goto(u, "idle")
  /\ UNCHANGED <<sock, rx, net, peer, log>>

Connected(u) ==
  /\ At(u, "connect") /\ sock.state # "Syn"
  /\ Goto(u, IF sock.state = "Established" THEN "connected" ELSE "idle")
  /\ UNCHANGED <<sock, rx, net, peer, log>>

ConnectAcknowledge(u) ==
  /\ At(u, "connected")
  /\ sock' = [sock EXCEPT !.remote = @ + 1]
  /\ Put("peer", Acknowledge(sock, sock.remote + 1))
  /\ Goto(u, "idle")
  /\ UNCHANGED <<rx, peer, log>>
-----------------------------------------------------------------------------
(* ReceiveFrom: it tests whether it has to wait, then puts a blocker on    *)
(* the socket's list, then waits, if the blocker is still on the list.     *)
Short(u) == sock.state = "Established" /\ Len(sock.inbound) < user[u].len

Receive(u) ==
  /\ At(u, "idle") /\ ~sock.closed
  /\ sock.state = "Established" \/ sock.inbound # <<>>
  /\ \E len \in 1..MaxLength :
       user' = [user EXCEPT ![u].pc = "receive", ![u].len = len]
  /\ UNCHANGED <<sock, rx, net, peer, log>>

ReceiveTest(u) ==
  /\ At(u, "receive")
  /\ Goto(u, IF Short(u) THEN "block" ELSE "read")
  /\ UNCHANGED <<sock, rx, net, peer, log>>

ReceiveBlock(u) ==
  /\ At(u, "block")
  /\ Goto(u, "blocked")
  /\ UNCHANGED <<sock, rx, net, peer, log>>

ReceiveInterrupted(u) ==
  /\ At(u, "blocked")
  /\ user' = [user EXCEPT ![u] = Idle]
  /\ UNCHANGED <<sock, rx, net, peer, log>>

ReceiveRead(u) ==
  LET n == IF user[u].len < Len(sock.inbound) THEN user[u].len ELSE Len(sock.inbound) IN
  /\ At(u, "read")
  /\ user' = [user EXCEPT ![u] = Idle]
  /\ IF sock.state = "Unknown" THEN log' = [log EXCEPT !.reset = TRUE] /\ UNCHANGED sock
     ELSE /\ log' = [log EXCEPT !.read = @ \o SubSeq(sock.inbound, 1, n)]
          /\ sock' = [sock EXCEPT !.inbound = SubSeq(@, n + 1, Len(@))]
  /\ UNCHANGED <<rx, net, peer>>
-----------------------------------------------------------------------------
(* SendTo: the number is advanced before SendTCP, which fails when there   *)
(* is no route or the segment is too long.                                 *)
Advance(s, len) == s + len

Send(u) ==
  /\ At(u, "idle") /\ ~sock.closed /\ u \in Senders /\ sock.state = "Established"
  /\ \E len \in 1..MaxLength :
       /\ sock.seq + len <= UserBytes + 1
       /\ user' = [user EXCEPT ![u].pc = "send",
            ![u].seg = [flags |-> {"ack", "psh"}, seq |-> sock.seq, ackn |-> sock.remote,
                        first |-> log.written + 1, len |-> len]]
       /\ sock' = [sock EXCEPT !.seq = Advance(@, len)]
  /\ UNCHANGED <<rx, net, peer, log>>

SendTCP(u) ==
  /\ At(u, "send")
  /\ \/ UNCHANGED <<net, log>>
     \/ /\ Put("peer", user[u].seg)
        /\ log' = [log EXCEPT !.written = @ + user[u].seg.len]
  /\ user' = [user EXCEPT ![u] = Idle]
  /\ UNCHANGED <<sock, rx, peer>>
-----------------------------------------------------------------------------
(* Close, when the last descriptor goes: no call is under way.             *)
Close(u) ==
  /\ ~sock.closed /\ \A v \in Users : At(v, "idle")
  /\ sock' = [sock EXCEPT !.closed = TRUE]
  /\ Goto(u, "close")
  /\ UNCHANGED <<rx, net, peer, log>>

CloseTest(u) ==
  /\ At(u, "close")
  /\ CASE sock.state = "Established" -> Goto(u, "finish") /\ UNCHANGED net
       [] sock.state = "CloseWait" -> Goto(u, "finish_last") /\ UNCHANGED net
       [] sock.state = "Syn" -> Goto(u, "done") /\ Put("peer", Reset(sock))
       [] OTHER -> Goto(u, "done") /\ UNCHANGED net
  /\ UNCHANGED <<sock, rx, peer, log>>

CloseFinish(u) ==
  /\ \/ /\ At(u, "finish")
        /\ sock' = [sock EXCEPT !.state = "FinWait1"]
        /\ Put("peer", FinishAcknowledge(sock, sock.remote))
     \/ /\ At(u, "finish_last")
        /\ sock' = [sock EXCEPT !.state = "LastAck"]
        /\ Put("peer", Finish(sock))
  /\ Goto(u, "done")
  /\ UNCHANGED <<rx, peer, log>>
-----------------------------------------------------------------------------
(* The interface thread: OnReceiveTCP finds the socket by its port, and    *)
(* OnReceive goes by the state it has.                                     *)
Deliver ==
  /\ rx.pc = "idle"
  /\ \E seg \in net.socket :
       /\ Take("socket", seg)
       /\ sock.port /\ sock.alive /\ sock.state # "Unknown"
       /\ rx' = [pc |-> "handle", seg |-> seg, state |-> sock.state]
  /\ UNCHANGED <<sock, user, peer, log>>

(* Blockers that get what they asked for, or all of them, go off the list. *)
Woken(W) == [u \in Users |->
  CASE At(u, "blocked") /\ u \in W -> [user[u] EXCEPT !.pc = "read"]
    [] At(u, "block") /\ u \in W -> [user[u] EXCEPT !.missed = TRUE]
    [] OTHER -> user[u]]
Satisfied(n) == {u \in Users : user[u].len <= n}
UnblockAll == user' = Woken(Users)

Leave == rx' = [rx EXCEPT !.pc = "idle", !.seg = NoSegment, !.state = "Unknown"]
ToEnd == rx' = [rx EXCEPT !.pc = "end", !.seg = NoSegment, !.state = "Unknown"]
Flags == rx.seg.flags
Only(F) == Flags \subseteq F
Ignore == Leave /\ UNCHANGED <<sock, user, net>>

OnReset ==
  /\ "rst" \in Flags
  /\ sock' = [sock EXCEPT !.state = "Unknown"]
  /\ UnblockAll /\ ToEnd /\ UNCHANGED net

Handles(state) == rx.pc = "handle" /\ "rst" \notin Flags /\ rx.state = state

OnSyn ==
  /\ Handles("Syn")
  /\ IF Flags = {"syn", "ack"}
     THEN IF rx.seg.ackn = sock.seq
          THEN /\ sock' = [sock EXCEPT !.remote = rx.seg.seq, !.state = "Established"]
               /\ UnblockAll
          ELSE sock' = [sock EXCEPT !.remote = rx.seg.seq] /\ UNCHANGED user
     ELSE UNCHANGED <<sock, user>>
  /\ Leave /\ UNCHANGED net

StoreIfEmpty(b, d) == IF b = <<>> THEN d ELSE b                        \* mutant
Store(b, d) == b \o d
Stray(s) == s
UnblocksPushed == "psh" \in Flags                                      \* mutant
Unblocks == "psh" \in Flags \/ "fin" \in Flags
ExpectedOrLater == rx.seg.seq >= sock.remote                           \* mutant
Expected == rx.seg.seq = sock.remote

(* In ESTABLISHED: data is stored and acknowledged; a FIN is acknowledged  *)
(* with the number before its own.                                         *)
OnEstablished ==
  LET fin == "fin" \in Flags
      data == Store(sock.inbound, Bytes(rx.seg.first, rx.seg.len))
      remote == IF rx.seg.len > 0 THEN rx.seg.seq + rx.seg.len ELSE sock.remote
  IN
  /\ Handles("Established")
  /\ IF ~Only({"ack", "psh", "fin"}) \/ ~Expected
     THEN Leave /\ sock' = Stray(sock) /\ UNCHANGED <<user, net>>
     ELSE IF "ack" \in Flags /\ rx.seg.ackn > sock.seq
     THEN Put("peer", Acknowledge(sock, sock.remote)) /\ Leave /\ UNCHANGED <<sock, user>>
     ELSE /\ sock' = [sock EXCEPT !.inbound = data, !.remote = remote,
                                  !.state = IF fin THEN "CloseWait" ELSE @]
          /\ IF Unblocks THEN UnblockAll
             ELSE user' = Woken(IF rx.seg.len > 0 THEN Satisfied(Len(data)) ELSE {})
          /\ IF fin \/ rx.seg.len > 0 THEN Put("peer", Acknowledge(sock, remote)) ELSE UNCHANGED net
          /\ ToEnd

OnFinWait1 ==
  /\ Handles("FinWait1")
  /\ CASE Flags = {"fin", "ack"} ->
            /\ sock' = [sock EXCEPT !.state = "TimeWait"]
            /\ Put("peer", Acknowledge(sock, sock.remote))
       [] Flags = {"ack"} ->
            sock' = [sock EXCEPT !.remote = rx.seg.seq, !.state = "FinWait2"] /\ UNCHANGED net
       [] Flags = {"fin"} ->
            /\ sock' = [sock EXCEPT !.remote = rx.seg.seq + 1, !.state = "LastAck"]
            /\ Put("peer", FinishAcknowledge(sock, rx.seg.seq + 1))
       [] OTHER -> UNCHANGED <<sock, net>>
  /\ Leave /\ UNCHANGED user

OnFinWait2 ==
  /\ Handles("FinWait2")
  /\ IF ~Only({"fin", "ack"}) THEN Ignore
     ELSE /\ IF "fin" \in Flags
             THEN /\ sock' = [sock EXCEPT !.remote = rx.seg.seq + 1, !.state = "TimeWait"]
                  /\ Put("peer", Acknowledge(sock, rx.seg.seq + 1))
             ELSE UNCHANGED <<sock, net>>
          /\ ToEnd /\ UNCHANGED user

OnWait ==
  /\ Handles("CloseWait") \/ Handles("TimeWait")
  /\ sock' = [sock EXCEPT !.state = "Unknown"]
  /\ Put("peer", Reset(sock)) /\ ToEnd /\ UNCHANGED user

OnLastAck ==
  /\ Handles("LastAck")
  /\ sock' = [sock EXCEPT !.state = "Unknown"]
  /\ IF "ack" \in Flags THEN UNCHANGED net ELSE Put("peer", Reset(sock))
  /\ ToEnd /\ UNCHANGED user

(* A closed socket whose connection is over is freed.                      *)
OverAnyway == sock.state = "Unknown"                                   \* mutant
Over == sock.closed /\ sock.state = "Unknown"

OnReceiveEnd ==
  /\ rx.pc = "end"
  /\ sock' = IF Over THEN [sock EXCEPT !.port = FALSE, !.alive = FALSE] ELSE sock
  /\ Leave
  /\ UNCHANGED <<user, net, peer, log>>

OnReceive ==
  /\ rx.pc = "handle"
  /\ OnReset \/ OnSyn \/ OnEstablished \/ OnFinWait1 \/ OnFinWait2 \/ OnWait \/ OnLastAck
  /\ UNCHANGED <<peer, log>>
-----------------------------------------------------------------------------
(* The peer, from the rules of RFC 793: what it has sent and not heard of  *)
(* again may be sent again, divided otherwise.                             *)
PeerNumber == peer.sent + 1 + (IF peer.fin THEN 1 ELSE 0)
PeerPut(seg) == sock.alive /\ Put("socket", seg) /\ UNCHANGED <<sock, user, rx, log>>

PeerSynchronize ==
  /\ peer.state = "Syn"
  /\ PeerPut(Segment({"syn", "ack"}, 0, peer.next))
  /\ UNCHANGED peer

PeerSend ==
  /\ peer.state = "Open"
  /\ \E from \in peer.una..(peer.sent + 1), len \in 1..MaxLength :
       /\ from > 0 /\ from + len - 1 <= (IF peer.fin THEN peer.sent ELSE PeerBytes)
       /\ PeerPut([flags |-> {"ack"} \cup {f \in {"psh"} : from + len > PeerBytes}, seq |-> from,
                   ackn |-> peer.next, first |-> from, len |-> len])
       /\ peer' = [peer EXCEPT !.sent = IF from + len - 1 > @ THEN from + len - 1 ELSE @]

PeerAcknowledge ==
  /\ peer.state = "Open"
  /\ PeerPut(Segment({"ack"}, PeerNumber, peer.next))
  /\ UNCHANGED peer

PeerFinish ==
  /\ peer.state = "Open" /\ peer.una <= peer.sent + 1
  /\ PeerPut(Segment({"fin", "ack"}, peer.sent + 1, peer.next))
  /\ peer' = [peer EXCEPT !.fin = TRUE]

PeerReset ==
  /\ peer.state # "Listen"
  /\ PeerPut(Segment({"rst"}, PeerNumber, 0))
  /\ peer' = [peer EXCEPT !.state = "Closed", !.rst = TRUE]

PeerReceive ==
  /\ sock.alive
  /\ \E seg \in net.peer :
       /\ Take("peer", seg)
       /\ LET acks == "ack" \in seg.flags /\ peer.una < seg.ackn
              opens == peer.state = "Open" \/ (peer.state = "Syn" /\ acks)
              takes == opens /\ seg.seq = peer.next
          IN peer' =
            IF "syn" \in seg.flags
            THEN IF peer.state = "Listen" THEN [peer EXCEPT !.state = "Syn", !.next = seg.seq + 1]
                 ELSE peer
            ELSE IF "rst" \in seg.flags
            THEN IF peer.state \in {"Syn", "Open"} THEN [peer EXCEPT !.state = "Closed"] ELSE peer
            ELSE [peer EXCEPT
                   !.state = IF opens THEN "Open" ELSE @,
                   !.una = IF opens /\ acks THEN seg.ackn ELSE @,
                   !.got = IF takes THEN @ \o Bytes(seg.first, seg.len) ELSE @,
                   !.next = IF takes THEN @ + seg.len + (IF "fin" \in seg.flags THEN 1 ELSE 0)
                            ELSE @]
  /\ UNCHANGED <<sock, user, rx, log>>
-----------------------------------------------------------------------------
Next ==
  \/ \E u \in Users :
       \/ Connect(u) \/ ConnectInterrupted(u) \/ Connected(u) \/ ConnectAcknowledge(u)
       \/ Receive(u) \/ ReceiveTest(u) \/ ReceiveBlock(u) \/ ReceiveInterrupted(u) \/ ReceiveRead(u)
       \/ Send(u) \/ SendTCP(u) \/ Close(u) \/ CloseTest(u) \/ CloseFinish(u)
  \/ Deliver \/ OnReceive \/ OnReceiveEnd
  \/ PeerSynchronize \/ PeerSend \/ PeerAcknowledge \/ PeerFinish \/ PeerReset \/ PeerReceive

Spec == Init /\ [][Next]_vars
-----------------------------------------------------------------------------
States == {"Unknown", "Syn", "Established", "FinWait1", "FinWait2", "CloseWait", "LastAck", "TimeWait"}
Segments == [flags : SUBSET {"syn", "ack", "fin", "psh", "rst"}, seq : Nat, ackn : Nat,
             first : Nat, len : 0..MaxLength]

TypeOK ==
  /\ sock \in [state : States, seq : Nat, remote : Nat, inbound : Seq(Nat), closed : BOOLEAN,
               port : BOOLEAN, alive : BOOLEAN]
  /\ user \in [Users -> [pc : {"idle", "connect", "connected", "receive", "block", "blocked", "read",
                               "send", "close", "finish", "finish_last", "done"},
                         len : 0..MaxLength, seg : Segments, missed : BOOLEAN]]
  /\ rx \in [pc : {"idle", "handle", "end"}, seg : Segments, state : States]
  /\ net \in [{"socket", "peer"} -> SUBSET Segments]
  /\ peer \in [state : {"Listen", "Syn", "Open", "Closed"}, sent : Nat, una : Nat, next : Nat,
               got : Seq(Nat), fin : BOOLEAN, rst : BOOLEAN]
  /\ log \in [read : Seq(Nat), written : Nat, reset : BOOLEAN]

(* Either direction of a connection is a byte stream, whatever the network *)
(* does to the segments.                                                   *)
Inbound == INSTANCE ByteStream WITH sent <- Bytes(1, peer.sent), received <- log.read
Outbound == INSTANCE ByteStream WITH sent <- Bytes(1, log.written), received <- peer.got
Implements == Inbound!Spec /\ Outbound!Spec

(* A reader is told of a reset only when the peer has reset the connection *)
(* or ended it ("If state is now unknown we recieved an RST").             *)
ResetMeansReset == log.reset => peer.rst \/ peer.fin

(* What the socket acknowledges while somebody has it open was read or can *)
(* still be read: the peer may forget it (OnReceive, Acknowledge); and a reader    *)
(* does not lose it to a reset the peer never sent.                        *)
Kept == Len(log.read) + Len(sock.inbound)
AcknowledgedKept == TypeOK /\ ResetMeansReset /\ \A seg \in net.peer :
  "ack" \in seg.flags /\ ~sock.closed =>
    seg.ackn <= Kept + (IF peer.fin /\ Kept = peer.sent THEN 2 ELSE 1)

(* A reader waits only for what is not there, on an open connection; unless *)
(* it came between the reader's test and its blocker (ReceiveFrom).        *)
NoLostWake == \A u \in Users : At(u, "blocked") => Short(u) \/ user[u].missed

(* A socket is freed when nobody uses it, or only a Close that the last    *)
(* segment has overtaken (OnReceive, Close).                               *)
FreedUnused == sock.alive \/ \A u \in Users : user[u].pc \in {"idle", "close", "finish", "finish_last", "done"}
=============================================================================
