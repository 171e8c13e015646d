--------------------------- MODULE TCPSocketProofs ---------------------------
(***************************************************************************)
(* For any number of threads, bytes and segments: a connection is type     *)
(* correct, no reader of it misses a wake-up for what was there before its *)
(* blocker was on the list, it is freed only when nobody uses it, what it  *)
(* acknowledges is kept, and it is a byte stream in either direction.      *)
(***************************************************************************)
EXTENDS TCPSocket, SequenceTheorems, TLAPS

Flagged == {"syn", "ack", "fin", "psh", "rst"}
Locs == {"idle", "connect", "connected", "receive", "block", "blocked", "read", "send", "close", "finish",
         "finish_last", "done"}
SockType == [state : States, seq : Nat, remote : Nat, inbound : Seq(Nat), closed : BOOLEAN, port : BOOLEAN, alive : BOOLEAN]
UserType == [pc : Locs, len : 0..MaxLength, seg : Segments, missed : BOOLEAN]
NetOK == net \in [{"socket", "peer"} -> SUBSET Segments]
RxType == [pc : {"idle", "handle", "end"}, seg : Segments, state : States]
PeerType == [state : {"Listen", "Syn", "Open", "Closed"}, sent : Nat, una : Nat, next : Nat,
             got : Seq(Nat), fin : BOOLEAN, rst : BOOLEAN]
LogType == [read : Seq(Nat), written : Nat, reset : BOOLEAN]
Types == sock \in SockType /\ user \in [Users -> UserType] /\ rx \in RxType /\ NetOK
         /\ peer \in PeerType /\ log \in LogType

Closing == {"idle", "close", "finish", "finish_last", "done"}
Open == {"Unknown", "Syn", "Established", "CloseWait"}

(* The interface thread handles a segment of a socket that has its port,   *)
(* and while the socket is open finds it in the state that it has read.    *)
Handled ==
  /\ rx.pc # "idle" => sock.port
  /\ ~sock.closed /\ rx.pc = "handle" => sock.state = rx.state

(* What is closed is not used; what is open has no state of a closed one,  *)
(* and none at all without a port.                                         *)
Closed ==
  /\ \A u \in Users : IF sock.closed THEN user[u].pc \in Closing ELSE user[u].pc \notin Closing \ {"idle"}
  /\ ~sock.alive => sock.closed
  /\ ~sock.closed => sock.state \in Open /\ (~sock.port => sock.state = "Unknown")

(* A reader between its test and its wait.                                 *)
Warned == \A u \in Users : user[u].pc \in {"block", "blocked"} => Short(u) \/ user[u].missed

IInv == TypeOK /\ Handled /\ Closed /\ Warned
LEMMA TypesAgree == TypeOK <=> Types
  BY DEF TypeOK, Types, SockType, UserType, Locs, RxType, NetOK, PeerType, LogType

-----------------------------------------------------------------------------
(* Segments and what is in them.                                           *)
LEMMA SegmentTypes ==
  /\ MaxLength \in Nat /\ NoSegment \in Segments
  /\ \A flags \in SUBSET Flagged, seq, ackn \in Nat : Segment(flags, seq, ackn) \in Segments
  /\ \A flags \in SUBSET Flagged, seq, ackn, first \in Nat, len \in 0..MaxLength :
       [flags |-> flags, seq |-> seq, ackn |-> ackn, first |-> first, len |-> len] \in Segments
<1>1. MaxLength \in Nat  BY BoundsAssumption
<1>2. \A flags \in SUBSET Flagged, seq, ackn, first \in Nat, len \in 0..MaxLength :
       [flags |-> flags, seq |-> seq, ackn |-> ackn, first |-> first, len |-> len] \in Segments
  BY DEF Segments, Flagged
<1>3. NoSegment \in Segments  BY <1>1 DEF Segments, NoSegment
<1>4. ASSUME NEW flags \in SUBSET Flagged, NEW seq \in Nat, NEW ackn \in Nat
      PROVE  Segment(flags, seq, ackn) \in Segments
  BY <1>3 DEF Segment, Segments, Flagged
<1> QED BY <1>1, <1>2, <1>3, <1>4

LEMMA PutTypes ==
  ASSUME NetOK, NEW to \in {"socket", "peer"}, NEW seg \in Segments, Put(to, seg)
  PROVE  NetOK'
  BY DEF NetOK, Put

LEMMA TakeTypes ==
  ASSUME NetOK, NEW to \in {"socket", "peer"}, NEW seg, Take(to, seg)
  PROVE  NetOK' /\ seg \in Segments
  BY DEF NetOK, Take

LEMMA BytesTypes ==
  ASSUME NEW first \in Nat, NEW len \in Nat
  PROVE  Bytes(first, len) \in Seq(Nat) /\ Len(Bytes(first, len)) = len
<1>1. \A i \in 1..len : first + i - 1 \in Nat  OBVIOUS
<1> QED BY <1>1 DEF Bytes

LEMMA InitIInv == Init => IInv
<1> SUFFICES ASSUME Init PROVE IInv  OBVIOUS
<1>1. TypeOK
  BY SegmentTypes DEF Init, TypeOK, States, Idle
<1>2. Handled /\ Closed /\ Warned
  BY DEF Init, Handled, Closed, Warned, Closing, Open, Idle
<1> QED BY <1>1, <1>2 DEF IInv
-----------------------------------------------------------------------------
(* The types, step by step.                                                *)
Calls(u) == Connect(u) \/ ConnectInterrupted(u) \/ Connected(u) \/ ConnectAcknowledge(u)
Receives(u) == Receive(u) \/ ReceiveTest(u) \/ ReceiveBlock(u) \/ ReceiveInterrupted(u) \/ ReceiveRead(u)
Sends(u) == Send(u) \/ SendTCP(u)
Closes(u) == Close(u) \/ CloseTest(u) \/ CloseFinish(u)
Peers == PeerSynchronize \/ PeerSend \/ PeerAcknowledge \/ PeerFinish \/ PeerReset \/ PeerReceive

LEMMA GotoTypes ==
  ASSUME user \in [Users -> UserType], NEW u \in Users, NEW loc \in Locs, Goto(u, loc)
  PROVE  user' \in [Users -> UserType]
  BY DEF Goto, UserType

LEMMA IdleTypes ==
  ASSUME user \in [Users -> UserType], NEW u \in Users, user' = [user EXCEPT ![u] = Idle]
  PROVE  user' \in [Users -> UserType]
<1>1. Idle \in UserType  BY SegmentTypes DEF Idle, UserType, Locs
<1> QED BY <1>1

LEMMA CallTypes ==
  ASSUME Types, NEW u \in Users, Calls(u)
  PROVE  Types'
<1> USE DEF Types
<1>1. CASE Connect(u)
  <2>1. sock' \in SockType  BY <1>1 DEF Connect, SockType, States
  <2>2. Synchronize \in Segments  BY SegmentTypes DEF Synchronize, Flagged
  <2>3. NetOK'  BY <1>1, <2>2, PutTypes DEF Connect
  <2>4. user' \in [Users -> UserType]  BY <1>1, GotoTypes DEF Connect, Locs
  <2> QED BY <1>1, <2>1, <2>3, <2>4 DEF Connect
<1>2. CASE ConnectInterrupted(u) \/ Connected(u)
  <2>1. user' \in [Users -> UserType]
    BY <1>2, GotoTypes DEF ConnectInterrupted, Connected, Locs
  <2> QED BY <1>2, <2>1 DEF ConnectInterrupted, Connected, NetOK
<1>3. CASE ConnectAcknowledge(u)
  <2>1. sock' \in SockType  BY <1>3, SMTT(60) DEF ConnectAcknowledge, SockType
  <2>2. sock.remote + 1 \in Nat /\ sock.seq \in Nat  BY DEF SockType
  <2>3. Acknowledge(sock, sock.remote + 1) \in Segments
    BY <2>2, SegmentTypes DEF Acknowledge, Flagged
  <2>4. NetOK'  BY <1>3, <2>3, PutTypes DEF ConnectAcknowledge
  <2>5. user' \in [Users -> UserType]  BY <1>3, GotoTypes DEF ConnectAcknowledge, Locs
  <2> QED BY <1>3, <2>1, <2>4, <2>5 DEF ConnectAcknowledge
<1> QED BY <1>1, <1>2, <1>3 DEF Calls

LEMMA ReceiveTypes ==
  ASSUME Types, NEW u \in Users, Receives(u)
  PROVE  Types'
<1> USE DEF Types
<1>1. CASE Receive(u)
  <2>1. PICK len \in 1..MaxLength : user' = [user EXCEPT ![u].pc = "receive", ![u].len = len]
    BY <1>1 DEF Receive
  <2>2. len \in 0..MaxLength  BY SegmentTypes
  <2>3. user' \in [Users -> UserType]  BY <2>1, <2>2 DEF UserType, Locs
  <2> QED BY <1>1, <2>3 DEF Receive, NetOK
<1>2. CASE ReceiveTest(u) \/ ReceiveBlock(u)
  <2>1. user' \in [Users -> UserType]  BY <1>2, GotoTypes DEF ReceiveTest, ReceiveBlock, Locs
  <2> QED BY <1>2, <2>1 DEF ReceiveTest, ReceiveBlock, NetOK
<1>3. CASE ReceiveInterrupted(u)
  BY <1>3, IdleTypes DEF ReceiveInterrupted, NetOK
<1>4. CASE ReceiveRead(u)
  <2> DEFINE n == IF user[u].len < Len(sock.inbound) THEN user[u].len ELSE Len(sock.inbound)
  <2>1. sock.inbound \in Seq(Nat) /\ log.read \in Seq(Nat) /\ user[u].len \in Nat
    BY SegmentTypes DEF SockType, LogType, UserType
  <2>2. n \in Nat /\ n <= Len(sock.inbound)  BY <2>1
  <2>3. SubSeq(sock.inbound, 1, n) \in Seq(Nat) /\ SubSeq(sock.inbound, n + 1, Len(sock.inbound)) \in Seq(Nat)
    BY <2>1, <2>2, SMTT(60)
  <2>4. log.read \o SubSeq(sock.inbound, 1, n) \in Seq(Nat)  BY <2>1, <2>3
  <2> HIDE DEF n
  <2>5. sock' \in SockType /\ log' \in LogType
    BY <1>4, <2>3, <2>4 DEF ReceiveRead, n, SockType, LogType
  <2> QED BY <1>4, <2>5, IdleTypes DEF ReceiveRead, NetOK
<1> QED BY <1>1, <1>2, <1>3, <1>4 DEF Receives

LEMMA SendTypes ==
  ASSUME Types, NEW u \in Users, Sends(u)
  PROVE  Types'
<1> USE DEF Types
<1>1. CASE Send(u)
  <2>1. PICK len \in 1..MaxLength :
          /\ user' = [user EXCEPT ![u].pc = "send",
               ![u].seg = [flags |-> {"ack", "psh"}, seq |-> sock.seq, ackn |-> sock.remote,
                           first |-> log.written + 1, len |-> len]]
          /\ sock' = [sock EXCEPT !.seq = Advance(@, len)]
    BY <1>1 DEF Send
  <2>2. len \in 0..MaxLength /\ len \in Nat  BY SegmentTypes
  <2>4. sock.seq \in Nat /\ sock.remote \in Nat /\ log.written + 1 \in Nat  BY DEF SockType, LogType
  <2>3. sock' \in SockType
    <3>1. sock' = [sock EXCEPT !.seq = sock.seq + len]  BY <2>1 DEF Advance, SockType
    <3>2. sock.seq + len \in Nat  BY <2>2, <2>4
    <3> QED BY <3>1, <3>2 DEF SockType
  <2>5. [flags |-> {"ack", "psh"}, seq |-> sock.seq, ackn |-> sock.remote,
         first |-> log.written + 1, len |-> len] \in Segments
    BY <2>2, <2>4, SegmentTypes DEF Flagged
  <2>6. user' \in [Users -> UserType]  BY <2>1, <2>5, ZenonT(60) DEF UserType, Locs
  <2> QED BY <1>1, <2>3, <2>6 DEF Send, NetOK
<1>2. CASE SendTCP(u)
  <2>1. user[u].seg \in Segments /\ user[u].seg.len \in Nat
    BY SegmentTypes, SMTT(60) DEF UserType, Segments
  <2>2. log' \in LogType  BY <1>2, <2>1, SMTT(60) DEF SendTCP, LogType
  <2>3. NetOK'
    <3>1. CASE UNCHANGED net  BY <3>1 DEF NetOK
    <3>2. CASE Put("peer", user[u].seg)  BY <2>1, <3>2, PutTypes
    <3> QED BY <1>2, <3>1, <3>2 DEF SendTCP
  <2> QED BY <1>2, <2>2, <2>3, IdleTypes DEF SendTCP
<1> QED BY <1>1, <1>2 DEF Sends

LEMMA CloseTypes ==
  ASSUME Types, NEW u \in Users, Closes(u)
  PROVE  Types'
<1> USE DEF Types
<1>t. sock.seq \in Nat /\ sock.remote \in Nat  BY DEF SockType
<1>s. Reset(sock) \in Segments /\ Finish(sock) \in Segments /\ FinishAcknowledge(sock, sock.remote) \in Segments
  BY <1>t, SegmentTypes DEF Reset, Finish, FinishAcknowledge, Flagged
<1>1. CASE Close(u)
  <2>1. sock' \in SockType  BY <1>1 DEF Close, SockType
  <2>2. user' \in [Users -> UserType]  BY <1>1, GotoTypes DEF Close, Locs
  <2> QED BY <1>1, <2>1, <2>2 DEF Close, NetOK
<1>2. CASE CloseTest(u)
  <2>1. \E loc \in {"finish", "finish_last", "done"} : Goto(u, loc)  BY <1>2 DEF CloseTest
  <2>2. user' \in [Users -> UserType]  BY <2>1, GotoTypes DEF Locs
  <2>3. UNCHANGED net \/ Put("peer", Reset(sock))  BY <1>2 DEF CloseTest
  <2>4. NetOK'
    <3>1. CASE UNCHANGED net  BY <3>1 DEF NetOK
    <3>2. CASE Put("peer", Reset(sock))  BY <1>s, <3>2, PutTypes
    <3> QED BY <2>3, <3>1, <3>2
  <2> QED BY <1>2, <2>2, <2>4 DEF CloseTest
<1>3. CASE CloseFinish(u)
  <2>1. sock' \in SockType  BY <1>3 DEF CloseFinish, SockType, States
  <2>2. user' \in [Users -> UserType]  BY <1>3, GotoTypes DEF CloseFinish, Locs
  <2>3. Put("peer", FinishAcknowledge(sock, sock.remote)) \/ Put("peer", Finish(sock))
    BY <1>3 DEF CloseFinish
  <2>4. NetOK'  BY <1>s, <2>3, PutTypes
  <2> QED BY <1>3, <2>1, <2>2, <2>4 DEF CloseFinish
<1> QED BY <1>1, <1>2, <1>3 DEF Closes

LEMMA WokenTypes ==
  ASSUME user \in [Users -> UserType], NEW W, user' = Woken(W)
  PROVE  user' \in [Users -> UserType]
<1>1. ASSUME NEW u \in Users
      PROVE  (CASE At(u, "blocked") /\ u \in W -> [user[u] EXCEPT !.pc = "read"]
                [] At(u, "block") /\ u \in W -> [user[u] EXCEPT !.missed = TRUE]
                [] OTHER -> user[u]) \in UserType
  BY <1>1 DEF UserType, Locs
<1> QED BY <1>1 DEF Woken

LEMMA LeaveTypes ==
  ASSUME rx \in RxType, Leave \/ ToEnd
  PROVE  rx' \in RxType
  BY SegmentTypes DEF Leave, ToEnd, RxType, States

LEMMA OnEstablishedTypes ==
  ASSUME Types, OnEstablished, UNCHANGED <<peer, log>>
  PROVE  Types'
<1> USE DEF Types
<1> DEFINE data == Store(sock.inbound, Bytes(rx.seg.first, rx.seg.len))
           remote == IF rx.seg.len > 0 THEN rx.seg.seq + rx.seg.len ELSE sock.remote
<1>1. rx' \in RxType  BY LeaveTypes DEF OnEstablished
<1>2. /\ rx.seg.len \in Nat /\ rx.seg.first \in Nat /\ rx.seg.seq \in Nat
      /\ sock.seq \in Nat /\ sock.remote \in Nat /\ sock.inbound \in Seq(Nat)
  BY SegmentTypes DEF RxType, Segments, SockType
<1>3. remote \in Nat  BY <1>2
<1>4. data \in Seq(Nat)
  <2>1. Bytes(rx.seg.first, rx.seg.len) \in Seq(Nat)  BY <1>2, BytesTypes
  <2>2. sock.inbound \o Bytes(rx.seg.first, rx.seg.len) \in Seq(Nat)  BY <1>2, <2>1
  <2> QED BY <2>2 DEF Store
<1>5. /\ Acknowledge(sock, sock.remote) \in Segments
      /\ Acknowledge(sock, remote) \in Segments
  <2> HIDE DEF remote
  <2> QED BY <1>2, <1>3, SegmentTypes DEF Acknowledge, Flagged
<1> HIDE DEF data, remote
<1>6. user' \in [Users -> UserType]
  <2>1. UNCHANGED user \/ \E W \in SUBSET Users : user' = Woken(W)
    BY DEF OnEstablished, UnblockAll, Satisfied
  <2> QED BY <2>1, WokenTypes
<1>7. sock' \in SockType
  <2>1. CASE sock' = sock  BY <2>1
  <2>2. CASE sock' = [sock EXCEPT !.inbound = data, !.remote = remote,
                                  !.state = IF "fin" \in Flags THEN "CloseWait" ELSE @]
    BY <2>2, <1>3, <1>4 DEF SockType, States
  <2> QED BY <2>1, <2>2 DEF OnEstablished, Stray, data, remote
<1>8. NetOK'
  <2>1. \/ UNCHANGED net \/ Put("peer", Acknowledge(sock, sock.remote))
        \/ Put("peer", Acknowledge(sock, remote))
    BY DEF OnEstablished, remote
  <2>2. CASE UNCHANGED net  BY <2>2 DEF NetOK
  <2> QED BY <2>1, <2>2, <1>5, PutTypes
<1> QED BY <1>1, <1>6, <1>7, <1>8

LEMMA OnReceiveTypes ==
  ASSUME Types, OnReceive
  PROVE  Types'
<1> USE DEF Types
<1>1. /\ rx.seg.seq \in Nat /\ rx.seg.seq + 1 \in Nat
      /\ sock.seq \in Nat /\ sock.remote \in Nat
  <2>1. rx.seg.seq \in Nat  BY DEF RxType, Segments
  <2>2. sock.seq \in Nat /\ sock.remote \in Nat  BY DEF SockType
  <2> QED BY <2>1, <2>2
<1>2. /\ Acknowledge(sock, sock.remote) \in Segments
      /\ Acknowledge(sock, rx.seg.seq + 1) \in Segments
      /\ FinishAcknowledge(sock, rx.seg.seq + 1) \in Segments
      /\ Reset(sock) \in Segments
  BY <1>1, SegmentTypes DEF Acknowledge, FinishAcknowledge, Reset, Flagged
<1>3. UNCHANGED net => NetOK'  BY DEF NetOK
<1>4. Leave \/ ToEnd => rx' \in RxType  BY LeaveTypes
<1>5. UnblockAll => user' \in [Users -> UserType]  BY WokenTypes DEF UnblockAll
<1>6. \A s \in States : \A n \in Nat :
        /\ [sock EXCEPT !.state = s] \in SockType
        /\ [sock EXCEPT !.remote = n] \in SockType
        /\ [sock EXCEPT !.remote = n, !.state = s] \in SockType
  BY DEF SockType
<1>p. UNCHANGED <<peer, log>>  BY DEF OnReceive
<1>7. CASE OnReset
  BY <1>7, <1>3, <1>4, <1>5, <1>6, <1>p DEF OnReset, States
<1>8. CASE OnSyn
  <2>1. sock' \in SockType  BY <1>8, <1>1, <1>6, ZenonT(60) DEF OnSyn, States
  <2> QED BY <1>8, <2>1, <1>3, <1>4, <1>5, <1>p DEF OnSyn
<1>9. CASE OnEstablished
  BY <1>9, <1>p, OnEstablishedTypes
<1>10. CASE OnFinWait1
  <2>1. sock' \in SockType  BY <1>10, <1>1, <1>6 DEF OnFinWait1, States
  <2>2. \/ UNCHANGED net \/ Put("peer", Acknowledge(sock, sock.remote))
        \/ Put("peer", FinishAcknowledge(sock, rx.seg.seq + 1))
    BY <1>10 DEF OnFinWait1
  <2>3. NetOK'  BY <2>2, <1>2, <1>3, PutTypes
  <2> QED BY <1>10, <2>1, <2>3, <1>4, <1>p DEF OnFinWait1
<1>11. CASE OnFinWait2
  <2>1. sock' \in SockType  BY <1>11, <1>1, <1>6 DEF OnFinWait2, Ignore, States
  <2>2. UNCHANGED net \/ Put("peer", Acknowledge(sock, rx.seg.seq + 1))
    BY <1>11 DEF OnFinWait2, Ignore
  <2>3. NetOK'  BY <2>2, <1>2, <1>3, PutTypes
  <2> QED BY <1>11, <2>1, <2>3, <1>4, <1>p DEF OnFinWait2, Ignore
<1>12. CASE OnWait
  BY <1>12, <1>1, <1>2, <1>4, <1>6, <1>p, PutTypes DEF OnWait, States
<1>13. CASE OnLastAck
  <2>1. sock' \in SockType  BY <1>13, <1>1, <1>6 DEF OnLastAck, States
  <2>2. UNCHANGED net \/ Put("peer", Reset(sock))  BY <1>13 DEF OnLastAck
  <2>3. NetOK'  BY <2>2, <1>2, <1>3, PutTypes
  <2> QED BY <1>13, <2>1, <2>3, <1>4, <1>p DEF OnLastAck
<1> QED BY <1>7, <1>8, <1>9, <1>10, <1>11, <1>12, <1>13 DEF OnReceive

LEMMA InterfaceTypes ==
  ASSUME Types, Deliver \/ OnReceiveEnd
  PROVE  Types'
<1> USE DEF Types
<1>1. CASE Deliver
  <2>1. PICK seg \in net.socket : /\ Take("socket", seg)
                                  /\ rx' = [pc |-> "handle", seg |-> seg, state |-> sock.state]
    BY <1>1 DEF Deliver
  <2>2. NetOK' /\ seg \in Segments  BY <2>1, TakeTypes
  <2>3. rx' \in RxType  BY <2>1, <2>2 DEF RxType, SockType
  <2> QED BY <1>1, <2>2, <2>3 DEF Deliver
<1>2. CASE OnReceiveEnd
  <2>1. sock' \in SockType  BY <1>2 DEF OnReceiveEnd, SockType
  <2>2. rx' \in RxType  BY <1>2, LeaveTypes DEF OnReceiveEnd
  <2> QED BY <1>2, <2>1, <2>2 DEF OnReceiveEnd, NetOK
<1> QED BY <1>1, <1>2

LEMMA PeerTypes ==
  ASSUME Types, Peers
  PROVE  Types'
<1> USE DEF Types
<1>1. peer.sent \in Nat /\ peer.una \in Nat /\ peer.next \in Nat /\ peer.got \in Seq(Nat)
  BY DEF PeerType
<1>2. PeerNumber \in Nat  BY <1>1 DEF PeerNumber
<1>3. ASSUME NEW seg \in Segments, PeerPut(seg)
      PROVE  NetOK' /\ UNCHANGED <<sock, user, rx, log>>
  BY <1>3, PutTypes DEF PeerPut
<1>4. CASE PeerSynchronize
  <2>1. Segment({"syn", "ack"}, 0, peer.next) \in Segments  BY <1>1, SegmentTypes DEF Flagged
  <2> QED BY <1>4, <2>1, <1>3 DEF PeerSynchronize
<1>5. CASE PeerSend
  <2>1. PICK from \in peer.una..(peer.sent + 1), len \in 1..MaxLength :
       /\ from > 0
       /\ PeerPut([flags |-> {"ack"} \cup {f \in {"psh"} : from + len > PeerBytes}, seq |-> from,
                   ackn |-> peer.next, first |-> from, len |-> len])
       /\ peer' = [peer EXCEPT !.sent = IF from + len - 1 > @ THEN from + len - 1 ELSE @]
    BY <1>5 DEF PeerSend
  <2>2. from \in Nat /\ len \in 0..MaxLength /\ from + len - 1 \in Nat
    BY <1>1, <2>1, SegmentTypes
  <2> DEFINE flags == {"ack"} \cup {f \in {"psh"} : from + len > PeerBytes}
  <2>3. flags \in SUBSET Flagged  BY DEF Flagged
  <2> HIDE DEF flags
  <2>4. [flags |-> flags, seq |-> from, ackn |-> peer.next, first |-> from, len |-> len] \in Segments
    BY <1>1, <2>2, <2>3, SegmentTypes
  <2>5. NetOK' /\ UNCHANGED <<sock, user, rx, log>>  BY <2>1, <2>4, <1>3 DEF flags
  <2>6. peer' \in PeerType  BY <2>1, <2>2 DEF PeerType
  <2> QED BY <2>5, <2>6
<1>6. CASE PeerAcknowledge
  <2>1. Segment({"ack"}, PeerNumber, peer.next) \in Segments  BY <1>1, <1>2, SegmentTypes DEF Flagged
  <2> QED BY <1>6, <2>1, <1>3 DEF PeerAcknowledge
<1>7. CASE PeerFinish
  <2>1. Segment({"fin", "ack"}, peer.sent + 1, peer.next) \in Segments
    BY <1>1, SegmentTypes DEF Flagged
  <2>2. peer' \in PeerType  BY <1>7 DEF PeerFinish, PeerType
  <2> QED BY <1>7, <2>1, <2>2, <1>3 DEF PeerFinish
<1>8. CASE PeerReset
  <2>1. Segment({"rst"}, PeerNumber, 0) \in Segments  BY <1>2, SegmentTypes DEF Flagged
  <2>2. peer' \in PeerType  BY <1>8 DEF PeerReset, PeerType
  <2> QED BY <1>8, <2>1, <2>2, <1>3 DEF PeerReset
<1>9. CASE PeerReceive
  <2>1. PICK seg \in net.peer :
       /\ Take("peer", seg)
       /\ LET acks == "ack" \in seg.flags /\ peer.una < seg.ackn
              opens == peer.state = "Open" \/ (peer.state = "Syn" /\ acks)
              takes == opens /\ seg.seq = peer.next
          IN peer' =
            IF "syn" \in seg.flags
            THEN IF peer.state = "Listen" THEN [peer EXCEPT !.state = "Syn", !.next = seg.seq + 1]
                 ELSE peer
            ELSE IF "rst" \in seg.flags
            THEN IF peer.state \in {"Syn", "Open"} THEN [peer EXCEPT !.state = "Closed"] ELSE peer
            ELSE [peer EXCEPT
                   !.state = IF opens THEN "Open" ELSE @,
                   !.una = IF opens /\ acks THEN seg.ackn ELSE @,
                   !.got = IF takes THEN @ \o Bytes(seg.first, seg.len) ELSE @,
                   !.next = IF takes THEN @ + seg.len + (IF "fin" \in seg.flags THEN 1 ELSE 0)
                            ELSE @]
    BY <1>9 DEF PeerReceive
  <2>2. NetOK' /\ seg \in Segments  BY <2>1, TakeTypes
  <2>3. seg.seq + 1 \in Nat /\ seg.ackn \in Nat /\ seg.len \in Nat /\ seg.first \in Nat
    BY <2>2, SegmentTypes DEF Segments
  <2>4. peer.got \o Bytes(seg.first, seg.len) \in Seq(Nat)
    <3>1. Bytes(seg.first, seg.len) \in Seq(Nat)  BY <2>3, BytesTypes
    <3> QED BY <3>1, <1>1
  <2>5. peer.next + seg.len + (IF "fin" \in seg.flags THEN 1 ELSE 0) \in Nat  BY <1>1, <2>3
  <2>6. peer' \in PeerType  BY <2>1, <2>3, <2>4, <2>5 DEF PeerType
  <2> QED BY <1>9, <2>2, <2>6 DEF PeerReceive
<1> QED BY <1>4, <1>5, <1>6, <1>7, <1>8, <1>9 DEF Peers
-----------------------------------------------------------------------------
(* What a thread does leaves the rest as it is: it moves, the others stay, *)
(* and while the socket is open its state changes only in Connect.         *)
Safe == Handled /\ Closed /\ Warned

LEMMA StartSafe ==
  ASSUME Types, Safe, NEW u \in Users,
         Connect(u) \/ Receive(u) \/ Send(u) \/ Close(u)
  PROVE  Safe'
<1> USE DEF Types, Safe
<1>1. rx.pc # "idle" => sock.port  BY DEF Handled
<1>2. CASE Connect(u)
  <2>1. sock' = [sock EXCEPT !.port = TRUE, !.state = "Syn", !.seq = 1] /\ UNCHANGED rx
        /\ user' = [user EXCEPT ![u].pc = "connect"] /\ ~sock.closed /\ ~sock.port
    BY <1>2 DEF Connect, Goto
  <2>2. Handled'  BY <1>1, <2>1 DEF Handled, SockType
  <2>3. Closed'  BY <2>1 DEF Closed, Closing, Open, SockType, UserType
  <2>4. \A v \in Users : ~Short(v)  BY <2>1 DEF Short, Closed
  <2>5. Warned'  BY <2>1, <2>4 DEF Warned, UserType
  <2> QED BY <2>2, <2>3, <2>5
<1>3. CASE Receive(u)
  <2>1. PICK len \in 1..MaxLength : user' = [user EXCEPT ![u].pc = "receive", ![u].len = len]
    BY <1>3 DEF Receive
  <2>2. ~sock.closed /\ UNCHANGED <<sock, rx>>  BY <1>3 DEF Receive
  <2>3. Handled'  BY <2>2 DEF Handled
  <2>4. Closed'  BY <2>1, <2>2 DEF Closed, Closing, UserType
  <2>5. Warned'  BY <2>1, <2>2 DEF Warned, Short, UserType
  <2> QED BY <2>3, <2>4, <2>5
<1>4. CASE Send(u)
  <2>1. PICK len, seg : /\ user' = [user EXCEPT ![u].pc = "send", ![u].seg = seg]
                        /\ sock' = [sock EXCEPT !.seq = Advance(@, len)]
    BY <1>4 DEF Send
  <2>2. ~sock.closed /\ UNCHANGED rx  BY <1>4 DEF Send
  <2>3. Handled'  BY <2>1, <2>2 DEF Handled, SockType
  <2>4. Closed'  BY <2>1, <2>2 DEF Closed, Closing, SockType, UserType
  <2>5. Warned'  BY <2>1, <2>2 DEF Warned, Short, SockType, UserType
  <2> QED BY <2>3, <2>4, <2>5
<1>5. CASE Close(u)
  <2>1. sock' = [sock EXCEPT !.closed = TRUE] /\ user' = [user EXCEPT ![u].pc = "close"]
        /\ UNCHANGED rx /\ \A v \in Users : user[v].pc = "idle"
    BY <1>5 DEF Close, Goto, At
  <2>2. Handled'  BY <2>1 DEF Handled, SockType
  <2>3. Closed'  BY <2>1 DEF Closed, Closing, SockType, UserType
  <2>4. Warned'  BY <2>1 DEF Warned, UserType
  <2> QED BY <2>2, <2>3, <2>4
<1> QED BY <1>2, <1>3, <1>4, <1>5

LEMMA MoveSafe ==
  ASSUME Types, Safe, NEW u \in Users,
         \/ ConnectInterrupted(u) \/ Connected(u) \/ ConnectAcknowledge(u)
         \/ ReceiveTest(u) \/ ReceiveBlock(u) \/ ReceiveInterrupted(u) \/ ReceiveRead(u)
         \/ SendTCP(u) \/ CloseTest(u) \/ CloseFinish(u)
  PROVE  Safe'
<1> USE DEF Types, Safe
<1>1. CASE ConnectInterrupted(u) \/ Connected(u) \/ ReceiveInterrupted(u) \/ SendTCP(u)
  <2>1. user[u].pc \in {"connect", "blocked", "send"}
    BY <1>1 DEF ConnectInterrupted, Connected, ReceiveInterrupted, SendTCP, At
  <2>2. /\ \A v \in Users \ {u} : user'[v] = user[v]
        /\ user'[u].pc \in {"idle", "connected"}
    BY <1>1 DEF ConnectInterrupted, Connected, ReceiveInterrupted, SendTCP, Goto, Idle, UserType
  <2>3. UNCHANGED <<sock, rx>>
    BY <1>1 DEF ConnectInterrupted, Connected, ReceiveInterrupted, SendTCP
  <2>4. Handled'  BY <2>3 DEF Handled
  <2>5. Closed'  BY <2>1, <2>2, <2>3 DEF Closed, Closing
  <2>6. Warned'  BY <2>2, <2>3 DEF Warned, Short
  <2> QED BY <2>4, <2>5, <2>6
<1>2. CASE ConnectAcknowledge(u)
  <2>1. sock' = [sock EXCEPT !.remote = @ + 1] /\ user' = [user EXCEPT ![u].pc = "idle"]
        /\ UNCHANGED rx /\ user[u].pc = "connected"
    BY <1>2 DEF ConnectAcknowledge, Goto, At
  <2>2. Handled'  BY <2>1 DEF Handled, SockType
  <2>3. Closed'  BY <2>1 DEF Closed, Closing, SockType, UserType
  <2>4. Warned'  BY <2>1 DEF Warned, Short, SockType, UserType
  <2> QED BY <2>2, <2>3, <2>4
<1>3. CASE ReceiveTest(u) \/ ReceiveBlock(u)
  <2>1. user[u].pc \in {"receive", "block"} /\ UNCHANGED <<sock, rx>>
    BY <1>3 DEF ReceiveTest, ReceiveBlock, At
  <2>2. PICK loc \in {"read", "block", "blocked"} : user' = [user EXCEPT ![u].pc = loc]
    BY <1>3 DEF ReceiveTest, ReceiveBlock, Goto
  <2>3. user'[u].pc = "read" \/ Short(u) \/ user[u].missed
    BY <1>3 DEF ReceiveTest, ReceiveBlock, Goto, At, Warned, UserType
  <2>4. Handled'  BY <2>1 DEF Handled
  <2>5. Closed'  BY <2>1, <2>2 DEF Closed, Closing, UserType
  <2>6. Warned'  BY <2>1, <2>2, <2>3 DEF Warned, Short, UserType
  <2> QED BY <2>4, <2>5, <2>6
<1>4. CASE ReceiveRead(u)
  <2> DEFINE n == IF user[u].len < Len(sock.inbound) THEN user[u].len ELSE Len(sock.inbound)
             rest == SubSeq(sock.inbound, n + 1, Len(sock.inbound))
  <2>1. user' = [user EXCEPT ![u] = Idle] /\ user[u].pc = "read" /\ UNCHANGED rx
    BY <1>4 DEF ReceiveRead, At
  <2>2. sock.inbound \in Seq(Nat) /\ user[u].len \in Nat
    BY SegmentTypes DEF SockType, UserType
  <2>3. n \in Nat /\ n <= Len(sock.inbound)  BY <2>2
  <2>4. Len(rest) <= Len(sock.inbound)  BY <2>2, <2>3
  <2>5. sock' = sock \/ sock' = [sock EXCEPT !.inbound = rest]
    BY <1>4 DEF ReceiveRead
  <2> HIDE DEF n, rest
  <2>6. Handled'  BY <2>1, <2>5 DEF Handled, SockType
  <2>7. Closed'  BY <2>1, <2>5 DEF Closed, Closing, Idle, SockType, UserType
  <2>8. ASSUME NEW v \in Users, user'[v].pc \in {"block", "blocked"}
        PROVE  Short(v)' \/ user'[v].missed
    <3>1. user'[v] = user[v]  BY <2>1, <2>8 DEF Idle
    <3>2. Short(v) \/ user[v].missed  BY <2>8, <3>1 DEF Warned
    <3>3. user[v].len \in Nat /\ Len(sock.inbound) \in Nat  BY <2>2, SegmentTypes DEF UserType
    <3>4. sock'.state = sock.state /\ (sock'.inbound = sock.inbound \/ sock'.inbound = rest)
      BY <2>5 DEF SockType
    <3>5. Len(rest) \in Nat  BY <2>2, <2>3 DEF rest
    <3>6. Short(v) => Short(v)'  BY <3>1, <3>3, <3>4, <3>5, <2>4 DEF Short
    <3> QED BY <3>1, <3>2, <3>6
  <2> QED BY <2>6, <2>7, <2>8 DEF Warned
<1>5. CASE CloseTest(u) \/ CloseFinish(u)
  <2>1. user[u].pc \in {"close", "finish", "finish_last"} /\ UNCHANGED rx
    BY <1>5 DEF CloseTest, CloseFinish, At
  <2>2. sock.closed  BY <2>1 DEF Closed, Closing
  <2>3. sock'.closed /\ sock'.port = sock.port
    BY <1>5, <2>2 DEF CloseTest, CloseFinish, SockType
  <2>4. PICK loc \in {"finish", "finish_last", "done"} : user' = [user EXCEPT ![u].pc = loc]
    BY <1>5 DEF CloseTest, CloseFinish, Goto
  <2>5. Handled'  BY <2>1, <2>3 DEF Handled
  <2>6. Closed'  BY <2>2, <2>3, <2>4 DEF Closed, Closing, UserType
  <2>7. Warned'  BY <2>2, <2>4 DEF Closed, Closing, Warned, UserType
  <2> QED BY <2>5, <2>6, <2>7
<1> QED BY <1>1, <1>2, <1>3, <1>4, <1>5
-----------------------------------------------------------------------------
(* What the interface thread does.                                         *)
LEMMA WokenMoves ==
  ASSUME user \in [Users -> UserType], NEW W, user' = Woken(W), NEW u \in Users
  PROVE  /\ user'[u].pc = user[u].pc \/ (user[u].pc = "blocked" /\ user'[u].pc = "read")
         /\ user'[u].len = user[u].len
         /\ user[u].missed => user'[u].missed
         /\ u \in W /\ user'[u].pc \in {"block", "blocked"} => user'[u].missed
<1>1. user'[u] = CASE At(u, "blocked") /\ u \in W -> [user[u] EXCEPT !.pc = "read"]
                   [] At(u, "block") /\ u \in W -> [user[u] EXCEPT !.missed = TRUE]
                   [] OTHER -> user[u]
  BY DEF Woken
<1> QED BY <1>1 DEF At, UserType

(* A segment changes the socket and wakes some threads, which stay where   *)
(* they are or go on to read.                                              *)
LEMMA HandledSafe ==
  ASSUME Types, Safe, rx.pc # "idle",
         sock' \in SockType, sock'.closed = sock.closed, sock'.port = sock.port, sock'.alive = sock.alive,
         ~sock.closed => sock'.state \in Open,
         rx'.pc # "handle",
         \A u \in Users : user'[u].pc = user[u].pc \/ (user[u].pc = "blocked" /\ user'[u].pc = "read"),
         \A u \in Users : user'[u].pc \in {"block", "blocked"} => Short(u)' \/ user'[u].missed
  PROVE  Safe'
<1>1. Handled'  BY DEF Safe, Handled
<1>2. sock.port  BY DEF Safe, Handled
<1>3. Closed'  BY <1>2 DEF Safe, Closed, Closing
<1>4. Warned'  BY DEF Warned
<1> QED BY <1>1, <1>3, <1>4 DEF Safe

(* Nobody is woken, and nobody has to be: nobody waits for data, or the    *)
(* connection stays as open as it was.                                     *)
LEMMA QuietSafe ==
  ASSUME Types, Safe, rx.pc # "idle", rx'.pc # "handle", UNCHANGED user,
         sock' \in SockType, sock'.closed = sock.closed, sock'.port = sock.port, sock'.alive = sock.alive,
         sock'.inbound = sock.inbound,
         ~sock.closed => sock'.state \in Open,
         sock.state = "Established" => sock'.state = "Established" \/ sock.closed
  PROVE  Safe'
<1>1. ASSUME NEW u \in Users, user'[u].pc \in {"block", "blocked"}
      PROVE  Short(u)' \/ user'[u].missed
  <2>1. ~sock.closed  BY <1>1 DEF Safe, Closed, Closing
  <2> QED BY <1>1, <2>1 DEF Safe, Warned, Short
<1> QED BY <1>1, HandledSafe

(* Everybody is woken.                                                     *)
LEMMA AllSafe ==
  ASSUME Types, Safe, rx.pc # "idle", rx'.pc # "handle", UnblockAll,
         sock' \in SockType, sock'.closed = sock.closed, sock'.port = sock.port, sock'.alive = sock.alive,
         ~sock.closed => sock'.state \in Open
  PROVE  Safe'
<1> QED BY WokenMoves, HandledSafe DEF UnblockAll, Types

LEMMA OnEstablishedSafe ==
  ASSUME Types, Types', Safe, rx.pc = "handle", OnEstablished
  PROVE  Safe'
<1> USE DEF Types
<1> DEFINE new == Bytes(rx.seg.first, rx.seg.len)
           data == Store(sock.inbound, new)
<1>1. rx.state = "Established" /\ rx'.pc # "handle" /\ rx.pc # "idle"
  BY DEF OnEstablished, Handles, Leave, ToEnd, RxType
<1>2. ~sock.closed => sock.state = "Established"  BY <1>1 DEF Safe, Handled
<1>3. CASE sock' = sock /\ UNCHANGED user
  BY <1>1, <1>2, <1>3, QuietSafe DEF Open
<1>4. CASE /\ \E remote : sock' = [sock EXCEPT !.inbound = data, !.remote = remote,
                                   !.state = IF "fin" \in Flags THEN "CloseWait" ELSE @]
           /\ IF Unblocks THEN UnblockAll
              ELSE user' = Woken(IF rx.seg.len > 0 THEN Satisfied(Len(data)) ELSE {})
  <2> HIDE DEF data
  <2>1. /\ sock'.closed = sock.closed /\ sock'.port = sock.port /\ sock'.alive = sock.alive
        /\ sock'.inbound = data
        /\ sock'.state = IF "fin" \in Flags THEN "CloseWait" ELSE sock.state
    BY <1>4 DEF SockType
  <2>2. ~sock.closed => sock'.state \in Open  BY <1>2, <2>1 DEF Open
  <2>3. CASE Unblocks  BY <1>1, <1>4, <2>1, <2>2, <2>3, AllSafe
  <2>4. CASE ~Unblocks
    <3> DEFINE W == IF rx.seg.len > 0 THEN Satisfied(Len(data)) ELSE {}
    <3>1. user' = Woken(W) /\ sock'.state = sock.state  BY <1>4, <2>1, <2>4 DEF Unblocks
    <3>2. rx.seg.len \in Nat /\ rx.seg.first \in Nat
      <4>1. rx.seg \in Segments  BY DEF RxType
      <4> QED BY <4>1, SegmentTypes, SMTT(60) DEF Segments
    <3>3. new \in Seq(Nat) /\ Len(new) = rx.seg.len  BY <3>2, BytesTypes
    <3>4. sock.inbound \in Seq(Nat)  BY DEF SockType
    <3>5. Len(data) = Len(sock.inbound) + rx.seg.len /\ Len(data) \in Nat
      <4>1. data = sock.inbound \o new  BY DEF data, Store
      <4> HIDE DEF new
      <4>2. Len(sock.inbound \o new) = Len(sock.inbound) + Len(new)  BY <3>3, <3>4, ConcatProperties
      <4>3. Len(sock.inbound) \in Nat  BY <3>4, LenProperties
      <4> QED BY <4>1, <4>2, <4>3, <3>2, <3>3
    <3> HIDE DEF W
    <3>6. ASSUME NEW u \in Users
          PROVE  /\ user'[u].pc = user[u].pc \/ (user[u].pc = "blocked" /\ user'[u].pc = "read")
                 /\ user'[u].len = user[u].len
                 /\ user[u].missed => user'[u].missed
                 /\ u \in W /\ user'[u].pc \in {"block", "blocked"} => user'[u].missed
      BY <3>1, WokenMoves
    <3>7. ASSUME NEW u \in Users, user'[u].pc \in {"block", "blocked"}
          PROVE  Short(u)' \/ user'[u].missed
      <4>1. user[u].pc \in {"block", "blocked"}  BY <3>6, <3>7
      <4>2. Short(u) \/ user[u].missed  BY <4>1 DEF Safe, Warned
      <4>3. user[u].len \in Nat  BY SegmentTypes DEF UserType
      <4>4. CASE Short(u) /\ u \notin W
        <5>1. Len(data) < user[u].len
          BY <3>2, <3>4, <3>5, <4>3, <4>4 DEF W, Satisfied, Short
        <5> QED BY <5>1, <2>1, <3>1, <3>6, <4>4 DEF Short
      <4> QED BY <3>6, <3>7, <4>2, <4>4
    <3> QED BY <1>1, <2>1, <2>2, <3>6, <3>7, HandledSafe
  <2> QED BY <2>3, <2>4
<1> QED BY <1>3, <1>4 DEF OnEstablished, Stray

LEMMA OnReceiveSafe ==
  ASSUME Types, Types', Safe, OnReceive
  PROVE  Safe'
<1> USE DEF Types
<1>1. rx.pc = "handle" /\ rx.pc # "idle"  BY DEF OnReceive
<1>2. Leave \/ ToEnd => rx'.pc # "handle"  BY DEF Leave, ToEnd, RxType
<1>3. ~sock.closed => sock.state = rx.state /\ sock.state \in Open
  BY <1>1 DEF Safe, Handled, Closed
<1>4. \A s, n : /\ [sock EXCEPT !.state = s].state = s
                 /\ [sock EXCEPT !.remote = n, !.state = s].state = s
                 /\ [sock EXCEPT !.remote = n].state = sock.state
                 /\ \A k \in {"closed", "port", "alive", "inbound"} :
                      /\ [sock EXCEPT !.state = s][k] = sock[k]
                      /\ [sock EXCEPT !.remote = n][k] = sock[k]
                      /\ [sock EXCEPT !.remote = n, !.state = s][k] = sock[k]
  BY DEF SockType
<1>5. CASE OnReset
  <2>1. sock' = [sock EXCEPT !.state = "Unknown"] /\ UnblockAll /\ ToEnd  BY <1>5 DEF OnReset
  <2> QED BY <2>1, <1>1, <1>2, <1>4, AllSafe DEF Open
<1>6. CASE OnSyn
  <2>1. rx.state = "Syn" /\ Leave  BY <1>6 DEF OnSyn, Handles
  <2>2. CASE sock' = [sock EXCEPT !.remote = rx.seg.seq, !.state = "Established"] /\ UnblockAll
    BY <2>1, <2>2, <1>1, <1>2, <1>4, AllSafe DEF Open
  <2>3. CASE sock' \in {sock, [sock EXCEPT !.remote = rx.seg.seq]} /\ UNCHANGED user
    <3>1. /\ sock'.state = sock.state /\ sock'.closed = sock.closed /\ sock'.port = sock.port
          /\ sock'.alive = sock.alive /\ sock'.inbound = sock.inbound
      BY <2>3 DEF SockType
    <3> QED BY <2>1, <2>3, <3>1, <1>1, <1>2, <1>3, QuietSafe
  <2> QED BY <1>6, <2>2, <2>3 DEF OnSyn
<1>7. CASE OnEstablished  BY <1>1, <1>7, OnEstablishedSafe
<1>8. CASE OnFinWait1 \/ OnFinWait2 \/ OnWait \/ OnLastAck
  <2>1. /\ rx.state \in {"FinWait1", "FinWait2", "CloseWait", "TimeWait", "LastAck"}
        /\ UNCHANGED user /\ (Leave \/ ToEnd)
    BY <1>8 DEF OnFinWait1, OnFinWait2, OnWait, OnLastAck, Ignore, Handles
  <2>2. sock.state = "Established" => sock.closed  BY <1>3, <2>1
  <2>3. /\ sock'.closed = sock.closed /\ sock'.port = sock.port
        /\ sock'.alive = sock.alive /\ sock'.inbound = sock.inbound
    BY <1>8 DEF OnFinWait1, OnFinWait2, OnWait, OnLastAck, Ignore, SockType
  <2>4. ~sock.closed => sock'.state \in Open
    <3>1. ASSUME ~sock.closed PROVE rx.state = "CloseWait"  BY <3>1, <1>3, <2>1 DEF Open
    <3>2. ASSUME ~sock.closed PROVE OnWait
      BY <3>1, <3>2, <1>8 DEF OnFinWait1, OnFinWait2, OnLastAck, Handles
    <3>3. ASSUME ~sock.closed PROVE sock'.state = "Unknown"
      BY <3>2, <3>3 DEF OnWait, SockType
    <3> QED BY <3>3 DEF Open
  <2> QED BY <2>1, <2>2, <2>3, <2>4, <1>1, <1>2, QuietSafe
<1> QED BY <1>5, <1>6, <1>7, <1>8 DEF OnReceive

LEMMA InterfaceSafe ==
  ASSUME Types, Safe, Deliver \/ OnReceiveEnd
  PROVE  Safe'
<1> USE DEF Types, Safe
<1>1. CASE Deliver
  <2>1. PICK seg : rx' = [pc |-> "handle", seg |-> seg, state |-> sock.state]  BY <1>1 DEF Deliver
  <2>2. sock.port /\ UNCHANGED <<sock, user>>  BY <1>1 DEF Deliver
  <2>3. Handled'  BY <2>1, <2>2 DEF Handled
  <2>4. Closed' /\ Warned'  BY <2>2 DEF Closed, Warned, Short
  <2> QED BY <2>3, <2>4
<1>2. CASE OnReceiveEnd
  <2>1. rx'.pc = "idle" /\ UNCHANGED user  BY <1>2 DEF OnReceiveEnd, Leave, RxType
  <2>2. Handled'  BY <2>1 DEF Handled
  <2>3. CASE Over
    <3>1. sock' = [sock EXCEPT !.port = FALSE, !.alive = FALSE] /\ sock.closed
      BY <1>2, <2>3 DEF OnReceiveEnd, Over
    <3>2. Closed'  BY <2>1, <3>1 DEF Closed, SockType
    <3>3. Warned'  BY <2>1, <3>1 DEF Closed, Closing, Warned
    <3> QED BY <2>2, <3>2, <3>3
  <2>4. CASE ~Over
    <3>1. UNCHANGED sock  BY <1>2, <2>4 DEF OnReceiveEnd
    <3> QED BY <2>1, <2>2, <3>1 DEF Closed, Warned, Short
  <2> QED BY <2>3, <2>4
<1> QED BY <1>1, <1>2

LEMMA PeerSafe ==
  ASSUME Types, Safe, Peers
  PROVE  Safe'
<1>1. UNCHANGED <<sock, user, rx>>
  BY DEF Peers, PeerSynchronize, PeerSend, PeerAcknowledge, PeerFinish, PeerReset, PeerReceive, PeerPut
<1> QED BY <1>1, SMTT(60) DEF Safe, Handled, Closed, Warned, Short
-----------------------------------------------------------------------------
LEMMA StepIInv == IInv /\ [Next]_vars => IInv'
<1> SUFFICES ASSUME IInv, [Next]_vars PROVE IInv'  OBVIOUS
<1>a. Types /\ Safe  BY TypesAgree DEF IInv, Safe
<1>1. ASSUME NEW u \in Users, Calls(u) \/ Receives(u) \/ Sends(u) \/ Closes(u)
      PROVE  Types' /\ Safe'
  <2>1. Types'  BY <1>1, <1>a, CallTypes, ReceiveTypes, SendTypes, CloseTypes
  <2>2. CASE Connect(u) \/ Receive(u) \/ Send(u) \/ Close(u)  BY <2>1, <2>2, <1>a, StartSafe
  <2>3. CASE ~(Connect(u) \/ Receive(u) \/ Send(u) \/ Close(u))
    BY <1>1, <2>1, <2>3, <1>a, MoveSafe DEF Calls, Receives, Sends, Closes
  <2> QED BY <2>2, <2>3
<1>2. ASSUME Deliver \/ OnReceiveEnd PROVE Types' /\ Safe'
  BY <1>2, <1>a, InterfaceTypes, InterfaceSafe
<1>3. ASSUME OnReceive PROVE Types' /\ Safe'
  BY <1>3, <1>a, OnReceiveTypes, OnReceiveSafe
<1>4. ASSUME Peers PROVE Types' /\ Safe'
  BY <1>4, <1>a, PeerTypes, PeerSafe
<1>5. ASSUME UNCHANGED vars PROVE Types' /\ Safe'
  <2>1. Types'  BY <1>5, <1>a DEF Types, NetOK, vars
  <2>2. Safe'  BY <1>5, <1>a DEF Safe, Handled, Closed, Warned, Short, vars
  <2> QED BY <2>1, <2>2
<1>6. Types' /\ Safe'
  BY <1>1, <1>2, <1>3, <1>4, <1>5 DEF Next, Calls, Receives, Sends, Closes, Peers
<1>7. TypeOK'
  BY <1>6 DEF TypeOK, Types, SockType, UserType, Locs, RxType, NetOK, PeerType, LogType
<1> QED BY <1>6, <1>7 DEF IInv, Safe

LEMMA AlwaysIInv == Spec => []IInv
<1> QED BY InitIInv, StepIInv, PTL DEF Spec

(* Whatever arrives and whenever, a connection stays in its types.         *)
THEOREM TypeCorrect == Spec => []TypeOK
<1>1. IInv => TypeOK  BY DEF IInv
<1> QED BY AlwaysIInv, <1>1, PTL

(* A reader on the socket's list waits for what is not there on an open    *)
(* connection, unless it came between its test and its blocker             *)
(* (ReceiveFrom, OnReceive, UnblockAll).                                   *)
THEOREM NoneWaitsForWhatIsThere == Spec => []NoLostWake
<1>1. IInv => NoLostWake  BY DEF IInv, Warned, NoLostWake, At
<1> QED BY AlwaysIInv, <1>1, PTL

(* The interface thread frees no socket that a thread connects, receives   *)
(* or sends on (OnReceive, Close).                                         *)
THEOREM FreedOnlyUnused == Spec => []FreedUnused
<1>1. IInv => FreedUnused  BY DEF IInv, Closed, Closing, FreedUnused
<1> QED BY AlwaysIInv, <1>1, PTL
-----------------------------------------------------------------------------
(* Bytes, each of which is its position: q holds those after the first n.  *)
Counts(q, n) == \A i \in 1..Len(q) : q[i] = n + i

LEMMA BytesCount ==
  ASSUME NEW first \in Nat, first > 0, NEW len \in Nat
  PROVE  Counts(Bytes(first, len), first - 1)
<1>1. Len(Bytes(first, len)) = len  BY BytesTypes
<1>2. \A i \in 1..len : Bytes(first, len)[i] = first + i - 1  BY DEF Bytes
<1> QED BY <1>1, <1>2 DEF Counts

LEMMA CountsConcat ==
  ASSUME NEW q \in Seq(Nat), NEW r \in Seq(Nat), NEW n \in Nat, Counts(q, n), Counts(r, n + Len(q))
  PROVE  Counts(q \o r, n) /\ Len(q \o r) = Len(q) + Len(r)
<1>1. Len(q) \in Nat /\ Len(r) \in Nat  BY LenProperties
<1>2. /\ Len(q \o r) = Len(q) + Len(r)
      /\ \A i \in 1..Len(q) + Len(r) : (q \o r)[i] = IF i <= Len(q) THEN q[i] ELSE r[i - Len(q)]
  BY ConcatProperties
<1> DEFINE t == q \o r
<1> HIDE DEF t
<1>3. ASSUME NEW i \in 1..Len(q) + Len(r) PROVE t[i] = n + i
  <2>1. CASE i <= Len(q)  BY <1>1, <1>2, <1>3, <2>1 DEF Counts, t
  <2>2. CASE i > Len(q)
    <3>1. i - Len(q) \in 1..Len(r) /\ t[i] = r[i - Len(q)]  BY <1>1, <1>2, <1>3, <2>2 DEF t
    <3>2. r[i - Len(q)] = n + Len(q) + (i - Len(q))  BY <3>1 DEF Counts
    <3> QED BY <1>1, <3>1, <3>2
  <2> QED BY <1>1, <2>1, <2>2
<1> QED BY <1>2, <1>3 DEF Counts, t

LEMMA CountsSplit ==
  ASSUME NEW q \in Seq(Nat), NEW n \in Nat, Counts(q, n), NEW k \in 0..Len(q)
  PROVE  /\ SubSeq(q, 1, k) \in Seq(Nat) /\ Len(SubSeq(q, 1, k)) = k /\ Counts(SubSeq(q, 1, k), n)
         /\ SubSeq(q, k + 1, Len(q)) \in Seq(Nat) /\ Len(SubSeq(q, k + 1, Len(q))) = Len(q) - k
         /\ Counts(SubSeq(q, k + 1, Len(q)), n + k)
<1>1. Len(q) \in Nat /\ k \in Nat /\ \A i \in 1..Len(q) : q[i] \in Nat  BY LenProperties, ElementOfSeq
<1> DEFINE l == SubSeq(q, 1, k)
           r == SubSeq(q, k + 1, Len(q))
<1>2. l \in Seq(Nat) /\ Len(l) = k /\ \A i \in 1..k : l[i] = q[i]
  <2>1. \A i \in 1..k : q[i] \in Nat  BY <1>1
  <2> QED BY <1>1, <2>1, SubSeqProperties
<1>3. r \in Seq(Nat) /\ Len(r) = Len(q) - k /\ \A i \in 1..Len(q) - k : r[i] = q[k + i]
  <2>1. \A i \in k + 1..Len(q) : q[i] \in Nat  BY <1>1
  <2>2. r \in Seq(Nat) /\ Len(r) = (IF k + 1 <= Len(q) THEN Len(q) - (k + 1) + 1 ELSE 0)
        /\ \A i \in 1..Len(q) - (k + 1) + 1 : r[i] = q[k + 1 + i - 1]
    BY <1>1, <2>1, SubSeqProperties
  <2> HIDE DEF r
  <2>3. Len(r) = Len(q) - k /\ Len(q) - (k + 1) + 1 = Len(q) - k  BY <1>1, <2>2
  <2>4. \A i \in 1..Len(q) - k : k + 1 + i - 1 = k + i  BY <1>1
  <2> QED BY <2>2, <2>3, <2>4
<1> HIDE DEF l, r
<1>4. Counts(l, n)
  <2>1. \A i \in 1..k : i \in 1..Len(q)  BY <1>1
  <2> QED BY <1>2, <2>1 DEF Counts
<1>5. Counts(r, n + k)
  <2>1. \A i \in 1..Len(q) - k : k + i \in 1..Len(q)  BY <1>1
  <2> QED BY <1>1, <1>3, <2>1 DEF Counts
<1> QED BY <1>2, <1>3, <1>4, <1>5 DEF l, r

(* Of two that start with the first byte, the shorter begins the other.    *)
LEMMA CountsPrefix ==
  ASSUME NEW q \in Seq(Nat), NEW r \in Seq(Nat), Counts(q, 0), Counts(r, 0), Len(q) <= Len(r)
  PROVE  SubSeq(q, 1, Len(q)) = SubSeq(r, 1, Len(q))
<1>1. Len(q) \in Nat /\ Len(r) \in Nat /\ Len(q) \in 0..Len(r) /\ Len(q) \in 0..Len(q)  BY LenProperties
<1> DEFINE a == SubSeq(q, 1, Len(q))
           b == SubSeq(r, 1, Len(q))
<1>2. a \in Seq(Nat) /\ Len(a) = Len(q) /\ Counts(a, 0)  BY <1>1, CountsSplit
<1>3. b \in Seq(Nat) /\ Len(b) = Len(q) /\ Counts(b, 0)  BY <1>1, CountsSplit
<1> HIDE DEF a, b
<1>4. \A i \in 1..Len(a) : a[i] = b[i]  BY <1>2, <1>3 DEF Counts
<1> QED BY <1>2, <1>3, <1>4, SeqEqual DEF a, b
-----------------------------------------------------------------------------
(* What the peer sends: its bytes under their numbers, an answer to a SYN  *)
(* under number 0, and nothing else under it but a reset.                  *)
ToSocket(seg) ==
  /\ seg.len > 0 => /\ seg.flags \subseteq {"ack", "psh"} /\ seg.first = seg.seq /\ seg.seq > 0
                    /\ seg.seq + seg.len <= peer.sent + 1
  /\ "syn" \in seg.flags => seg.seq = 0
  /\ seg.seq = 0 => "syn" \in seg.flags \/ "rst" \in seg.flags
  /\ "rst" \in seg.flags => peer.rst
  /\ "fin" \in seg.flags => peer.fin
Arrives == /\ \A seg \in net.socket : ToSocket(seg)
           /\ rx.pc = "handle" => ToSocket(rx.seg)

ReadInOrder == Counts(log.read, 0) /\ Len(log.read) <= peer.sent /\ ResetMeansReset

(* While the socket is open: one thread connects, nobody uses it before.   *)
Connecting(u) == user[u].pc \in {"connect", "connected"}
Reading(u) == user[u].pc \in {"receive", "block", "blocked", "read", "send"}
Ported ==
  /\ sock.port => sock.seq > 0
  /\ ~sock.port => sock.inbound = <<>> /\ sock.remote = 0 /\ sock.seq = 0
  /\ \A u \in Users : /\ Connecting(u) => /\ sock.port /\ sock.remote = 0
                                          /\ \A v \in Users : Connecting(v) => v = u
                      /\ Reading(u) => sock.port

(* Its state says what the peer has done.                                  *)
Told ==
  /\ sock.state = "Syn" => sock.remote = 0 /\ \A u \in Users : ~At(u, "connected")
  /\ sock.state = "CloseWait" => peer.fin
  /\ sock.state = "Unknown" /\ sock.port => peer.rst \/ peer.fin

(* What it holds follows what was read; the number it expects is that of   *)
(* the next byte, or 0 until the thread that connects has added one.       *)
Following ==
  /\ Counts(sock.inbound, Len(log.read)) /\ Kept <= peer.sent
  /\ (sock.remote = 0 /\ Kept = 0) \/ sock.remote = Kept + 1

(* What it acknowledges, or is about to, it has.                           *)
Acked(seg) == "ack" \in seg.flags => seg.ackn <= Kept + 1
Acknowledged == /\ \A seg \in net.peer : Acked(seg)
                /\ \A u \in Users : At(u, "send") => Acked(user[u].seg)

Live == Ported /\ Told /\ Following /\ Acknowledged
Received == Arrives /\ ReadInOrder /\ (~sock.closed => Live)

LEMMA InitReceived == Init => Received
<1> SUFFICES ASSUME Init PROVE Received  OBVIOUS
<1>1. Arrives  BY DEF Init, Arrives
<1>2. <<>> \in Seq(Nat) /\ Len(<<>>) = 0 /\ \A n : Counts(<<>>, n)
  <2>1. Len(<<>>) = 0 /\ \A i \in 1..0 : FALSE  OBVIOUS
  <2> QED BY <2>1 DEF Counts
<1>3. ReadInOrder  BY <1>2 DEF Init, ReadInOrder, ResetMeansReset
<1>4. Ported /\ Told /\ Acknowledged  BY DEF Init, Ported, Told, Acknowledged, Connecting, Reading, Idle, At
<1>5. Following  BY <1>2 DEF Init, Following, Kept
<1> QED BY <1>1, <1>3, <1>4, <1>5 DEF Received, Live
-----------------------------------------------------------------------------
(* What changes in a thread that moves, and on the network.                *)
LEMMA GotoIs ==
  ASSUME Types, NEW u \in Users, NEW loc, Goto(u, loc)
  PROVE  \A v \in Users : user'[v].seg = user[v].seg /\ user'[v].pc = IF v = u THEN loc ELSE user[v].pc
BY DEF Types, Goto, UserType

LEMMA IdleIs ==
  ASSUME Types, NEW u \in Users, user' = [user EXCEPT ![u] = Idle]
  PROVE  user'[u].pc = "idle" /\ \A v \in Users : v # u => user'[v] = user[v]
BY DEF Types, Idle

LEMMA WokenIs ==
  ASSUME Types, NEW W, user' = Woken(W), NEW u \in Users
  PROVE  /\ user'[u].seg = user[u].seg
         /\ user'[u].pc = user[u].pc \/ (user[u].pc = "blocked" /\ user'[u].pc = "read")
<1>1. user'[u] = CASE At(u, "blocked") /\ u \in W -> [user[u] EXCEPT !.pc = "read"]
                   [] At(u, "block") /\ u \in W -> [user[u] EXCEPT !.missed = TRUE]
                   [] OTHER -> user[u]
  BY DEF Woken
<1> QED BY <1>1 DEF At, UserType, Types

LEMMA PutIs ==
  ASSUME Types, NEW to \in {"socket", "peer"}, NEW seg, Put(to, seg)
  PROVE  /\ \A s \in net'[to] : s \in net[to] \/ s = seg
         /\ \A end \in {"socket", "peer"} : end # to => net'[end] = net[end]
BY DEF Types, NetOK, Put

LEMMA TakeIs ==
  ASSUME Types, NEW to \in {"socket", "peer"}, NEW seg, Take(to, seg)
  PROVE  seg \in net[to] /\ \A end \in {"socket", "peer"} : net'[end] \subseteq net[end]
BY DEF Types, NetOK, Take

(* The peer goes on.                                                       *)
Further == peer.sent <= peer'.sent /\ (peer.rst => peer'.rst) /\ (peer.fin => peer'.fin)

LEMMA ArrivesKeeps ==
  ASSUME Types, Types', Arrives, Further,
         \A seg \in net'.socket : seg \in net.socket \/ ToSocket(seg)',
         rx'.pc = "handle" => rx'.seg \in net.socket \/ (rx.pc = "handle" /\ rx'.seg = rx.seg)
  PROVE  Arrives'
<1>1. ASSUME NEW seg \in Segments, ToSocket(seg) PROVE ToSocket(seg)'
  <2>1. seg.seq \in Nat /\ seg.len \in Nat /\ peer.sent \in Nat /\ peer'.sent \in Nat
    BY SegmentTypes DEF Segments, Types, PeerType
  <2> QED BY <1>1, <2>1 DEF ToSocket, Further
<1>2. \A seg \in net.socket : seg \in Segments /\ ToSocket(seg)  BY DEF Arrives, Types, NetOK
<1>3. rx.pc = "handle" => rx.seg \in Segments /\ ToSocket(rx.seg)  BY DEF Arrives, Types, RxType
<1> QED BY <1>1, <1>2, <1>3 DEF Arrives

LEMMA ReadKeeps ==
  ASSUME Types, Types', ReadInOrder, Further, log'.read = log.read, log'.reset = log.reset
  PROVE  ReadInOrder'
<1>1. Len(log.read) \in Nat /\ peer.sent \in Nat /\ peer'.sent \in Nat
  BY LenProperties DEF Types, LogType, PeerType
<1> QED BY <1>1 DEF ReadInOrder, Counts, ResetMeansReset, Further

LEMMA LiveKeeps ==
  ASSUME Types, Types', Live, Further, UNCHANGED sock, log'.read = log.read,
         \A seg \in net'.peer : seg \in net.peer \/ Acked(seg),
         \A u \in Users : /\ Connecting(u)' => Connecting(u)
                          /\ Reading(u)' => sock.port
                          /\ At(u, "send")' => At(u, "send") /\ user'[u].seg = user[u].seg
                          /\ At(u, "connected")' => At(u, "connected") \/ sock.state # "Syn"
  PROVE  Live'
<1>1. Ported'  BY DEF Live, Ported
<1>2. Told'
  <2>1. sock.state = "Syn" => \A u \in Users : ~At(u, "connected")'  BY DEF Live, Told
  <2> QED BY <2>1 DEF Live, Told, Further
<1>3. Kept' = Kept  BY DEF Kept
<1>4. Following'
  <2>1. Kept \in Nat /\ peer.sent \in Nat /\ peer'.sent \in Nat
    BY LenProperties DEF Types, SockType, LogType, PeerType, Kept
  <2> QED BY <1>3, <2>1 DEF Live, Following, Further, Counts
<1>5. Acknowledged'  BY <1>3 DEF Live, Acknowledged, Acked
<1> QED BY <1>1, <1>2, <1>4, <1>5 DEF Live
-----------------------------------------------------------------------------
LEMMA PeerWaits == ASSUME Types, UNCHANGED peer PROVE Further
BY DEF Types, PeerType, Further

(* A thread leaves what arrives alone.                                     *)
LEMMA UserArrives ==
  ASSUME Types, Types', Arrives, NEW u \in Users, Calls(u) \/ Receives(u) \/ Sends(u) \/ Closes(u)
  PROVE  UNCHANGED <<rx, peer>> /\ Further /\ Arrives'
<1>1. UNCHANGED <<rx, peer>>
  BY DEF Calls, Receives, Sends, Closes, Connect, ConnectInterrupted, Connected, ConnectAcknowledge, Receive,
         ReceiveTest, ReceiveBlock, ReceiveInterrupted, ReceiveRead, Send, SendTCP, Close, CloseTest, CloseFinish
<1>2. Further  BY <1>1, PeerWaits
<1>3. (\E seg : Put("peer", seg)) \/ UNCHANGED net
  BY DEF Calls, Receives, Sends, Closes, Connect, ConnectInterrupted, Connected, ConnectAcknowledge, Receive,
         ReceiveTest, ReceiveBlock, ReceiveInterrupted, ReceiveRead, Send, SendTCP, Close, CloseTest, CloseFinish
<1>4. net'.socket = net.socket  BY <1>3, PutIs
<1> QED BY <1>1, <1>2, <1>4, ArrivesKeeps

(* One that keeps its place in the order of things.                        *)
LEMMA MoveReceived ==
  ASSUME Types, Types', Safe, Live, NEW u \in Users, Further,
         \/ ConnectInterrupted(u) \/ Connected(u) \/ Receive(u) \/ ReceiveTest(u) \/ ReceiveBlock(u)
         \/ ReceiveInterrupted(u) \/ SendTCP(u)
  PROVE  Live'
<1>1. UNCHANGED sock /\ log'.read = log.read
  BY DEF ConnectInterrupted, Connected, Receive, ReceiveTest, ReceiveBlock, ReceiveInterrupted, SendTCP, Types, LogType
<1>2. \A seg \in net'.peer : seg \in net.peer \/ Acked(seg)
  <2>1. CASE UNCHANGED net  BY <2>1
  <2>2. CASE Put("peer", user[u].seg) /\ At(u, "send")
    <3>1. Acked(user[u].seg)  BY <2>2 DEF Live, Acknowledged
    <3> QED BY <2>2, <3>1, PutIs
  <2> QED BY <2>1, <2>2
          DEF ConnectInterrupted, Connected, Receive, ReceiveTest, ReceiveBlock, ReceiveInterrupted, SendTCP
<1>3. \A v \in Users : v # u => user'[v] = user[v]
  BY DEF ConnectInterrupted, Connected, Receive, ReceiveTest, ReceiveBlock, ReceiveInterrupted, SendTCP, Goto, Types
<1>4. ~At(u, "send")'
  <2>1. CASE SendTCP(u) \/ ReceiveInterrupted(u)  BY <2>1, IdleIs DEF SendTCP, ReceiveInterrupted, At
  <2>2. CASE ConnectInterrupted(u) \/ Connected(u) \/ ReceiveTest(u) \/ ReceiveBlock(u)
    BY <2>2, GotoIs DEF ConnectInterrupted, Connected, ReceiveTest, ReceiveBlock, At
  <2>3. CASE Receive(u)  BY <2>3, ZenonT(60) DEF Receive, At, Types, UserType
  <2> QED BY <2>1, <2>2, <2>3
<1>5. Connecting(u)' => Connecting(u)
  <2>1. CASE SendTCP(u) \/ ReceiveInterrupted(u)  BY <2>1, IdleIs DEF SendTCP, ReceiveInterrupted, Connecting
  <2>2. CASE ConnectInterrupted(u) \/ Connected(u) \/ ReceiveTest(u) \/ ReceiveBlock(u)
    BY <2>2, GotoIs DEF ConnectInterrupted, Connected, ReceiveTest, ReceiveBlock, At, Connecting
  <2>3. CASE Receive(u)  BY <2>3 DEF Receive, Connecting, Types, UserType
  <2> QED BY <2>1, <2>2, <2>3
<1>6. Reading(u)' => sock.port
  <2>1. CASE SendTCP(u) \/ ReceiveInterrupted(u) \/ ConnectInterrupted(u) \/ Connected(u)
    BY <2>1, IdleIs, GotoIs DEF SendTCP, ReceiveInterrupted, ConnectInterrupted, Connected, Reading
  <2>2. CASE ReceiveTest(u) \/ ReceiveBlock(u)
    BY <2>2 DEF ReceiveTest, ReceiveBlock, At, Reading, Live, Ported
  <2>3. CASE Receive(u)  BY <2>3 DEF Receive, Live, Ported, Safe, Closed
  <2> QED BY <2>1, <2>2, <2>3
<1>c. At(u, "connected")' => sock.state # "Syn"
  <2>1. CASE SendTCP(u) \/ ReceiveInterrupted(u)  BY <2>1, IdleIs DEF SendTCP, ReceiveInterrupted, At
  <2>2. CASE ConnectInterrupted(u) \/ Connected(u) \/ ReceiveTest(u) \/ ReceiveBlock(u)
    BY <2>2, GotoIs DEF ConnectInterrupted, Connected, ReceiveTest, ReceiveBlock, At
  <2>3. CASE Receive(u)
    <3>1. user'[u].pc = "receive"  BY <2>3 DEF Receive, Types, UserType
    <3> QED BY <3>1 DEF At
  <2> QED BY <2>1, <2>2, <2>3
<1>7. \A v \in Users : /\ Connecting(v)' => Connecting(v)
                       /\ Reading(v)' => sock.port
                       /\ At(v, "send")' => At(v, "send") /\ user'[v].seg = user[v].seg
                       /\ At(v, "connected")' => At(v, "connected") \/ sock.state # "Syn"
  BY <1>3, <1>4, <1>5, <1>6, <1>c DEF Connecting, Reading, At, Live, Ported
<1> QED BY <1>1, <1>2, <1>7, LiveKeeps

LEMMA ConnectReceived ==
  ASSUME Types, Types', Live, NEW u \in Users, Connect(u), Further
  PROVE  Live'
<1>1. /\ ~sock.port /\ sock'.port /\ sock'.state = "Syn" /\ sock'.seq = 1 /\ sock'.remote = sock.remote
      /\ sock'.inbound = sock.inbound /\ UNCHANGED log /\ Goto(u, "connect") /\ Put("peer", Synchronize)
  BY DEF Connect, Types, SockType
<1>2. sock.remote = 0 /\ Kept' = Kept  BY <1>1 DEF Live, Ported, Kept
<1>3. \A v \in Users : ~Connecting(v) /\ ~Reading(v)  BY <1>1 DEF Live, Ported
<1>4. \A v \in Users : Connecting(v)' => v = u  BY <1>1, <1>3, GotoIs DEF Connecting
<1>5. Ported'  BY <1>1, <1>2, <1>4 DEF Ported
<1>6. Told'
  <2>1. \A v \in Users : ~At(v, "connected")'  BY <1>1, <1>3, GotoIs DEF At, Connecting
  <2> QED BY <1>1, <1>2, <2>1 DEF Told
<1>7. Following'
  <2>1. Kept \in Nat /\ peer.sent \in Nat /\ peer'.sent \in Nat
    BY LenProperties DEF Types, SockType, LogType, PeerType, Kept
  <2> QED BY <1>1, <1>2, <2>1 DEF Live, Following, Further, Counts
<1>8. Acknowledged'
  <2>1. Acked(Synchronize)  BY DEF Acked, Synchronize, Segment, NoSegment
  <2>2. \A seg \in net'.peer : Acked(seg)  BY <1>1, <2>1, PutIs DEF Live, Acknowledged
  <2>3. \A v \in Users : ~At(v, "send")'  BY <1>1, <1>3, GotoIs DEF At, Reading
  <2> QED BY <1>2, <2>2, <2>3 DEF Acknowledged, Acked
<1> QED BY <1>5, <1>6, <1>7, <1>8 DEF Live

LEMMA ConnectAcknowledgeReceived ==
  ASSUME Types, Types', Live, NEW u \in Users, ConnectAcknowledge(u), Further
  PROVE  Live'
<1>1. /\ At(u, "connected") /\ sock'.remote = sock.remote + 1 /\ sock'.port = sock.port /\ sock'.seq = sock.seq
      /\ sock'.inbound = sock.inbound /\ sock'.state = sock.state /\ UNCHANGED log /\ Goto(u, "idle")
      /\ Put("peer", Acknowledge(sock, sock.remote + 1))
  BY DEF ConnectAcknowledge, Types, SockType
<1>2. /\ sock.remote = 0 /\ sock.port /\ Kept' = Kept /\ sock'.remote = 1
      /\ \A v \in Users : Connecting(v) => v = u
  BY <1>1 DEF Live, Ported, Kept, At, Connecting
<1>k. Kept \in Nat /\ peer.sent \in Nat /\ peer'.sent \in Nat
  BY LenProperties DEF Types, SockType, LogType, PeerType, Kept
<1>3. Kept = 0  BY <1>2, <1>k DEF Live, Following
<1>4. \A v \in Users : ~Connecting(v)'  BY <1>1, <1>2, GotoIs DEF Connecting
<1>5. Ported'  BY <1>1, <1>2, <1>4 DEF Live, Ported
<1>6. Told'  BY <1>1 DEF Live, Told, Further
<1>7. Following'  BY <1>1, <1>2, <1>3, <1>k DEF Live, Following, Further, Counts
<1>8. Acknowledged'
  <2>1. Acked(Acknowledge(sock, sock.remote + 1))
    BY <1>2, <1>3 DEF Acked, Acknowledge, Segment, NoSegment
  <2>2. \A seg \in net'.peer : Acked(seg)  BY <1>1, <2>1, PutIs DEF Live, Acknowledged
  <2>3. \A v \in Users : At(v, "send")' => At(v, "send") /\ user'[v].seg = user[v].seg
    BY <1>1, GotoIs DEF At
  <2> QED BY <1>2, <2>2, <2>3 DEF Live, Acknowledged, Acked
<1> QED BY <1>5, <1>6, <1>7, <1>8 DEF Live

(* Data goes to a reader; or it is told of a reset.                        *)
LEMMA ReceiveReadReceived ==
  ASSUME Types, Types', Safe, Live, ReadInOrder, NEW u \in Users, ReceiveRead(u), Further
  PROVE  Live' /\ ReadInOrder'
<1> DEFINE n == IF user[u].len < Len(sock.inbound) THEN user[u].len ELSE Len(sock.inbound)
<1>s. sock.inbound \in Seq(Nat) /\ log.read \in Seq(Nat)  BY DEF Types, SockType, LogType
<1>1. /\ Len(sock.inbound) \in Nat /\ Len(log.read) \in Nat
      /\ peer.sent \in Nat /\ peer'.sent \in Nat /\ sock.remote \in Nat
  BY <1>s, LenProperties DEF Types, SockType, PeerType
<1>2. user[u].len \in Nat  BY SegmentTypes DEF Types, UserType
<1>3. n \in 0..Len(sock.inbound)  BY <1>1, <1>2
<1>4. sock.port  BY DEF ReceiveRead, At, Reading, Live, Ported
<1>5. \A v \in Users : /\ user'[v] = user[v] \/ user'[v].pc = "idle"
                       /\ At(v, "send")' => At(v, "send") /\ user'[v].seg = user[v].seg
  BY IdleIs DEF ReceiveRead, At
<1>6. UNCHANGED <<net, peer>>  BY DEF ReceiveRead
<1>7. CASE sock.state = "Unknown"
  <2>1. UNCHANGED sock /\ log'.read = log.read  BY <1>7 DEF ReceiveRead, Types, LogType
  <2>2. Live'  BY <1>4, <1>5, <1>6, <2>1, LiveKeeps DEF Connecting, Reading, At, Live, Ported
  <2>3. peer.rst \/ peer.fin  BY <1>4, <1>7 DEF Live, Told
  <2>4. ReadInOrder'  BY <1>1, <1>6, <2>1, <2>3 DEF ReadInOrder, ResetMeansReset, Counts
  <2> QED BY <2>2, <2>4
<1>8. CASE sock.state # "Unknown"
  <2> DEFINE old == SubSeq(sock.inbound, 1, n)
             rest == SubSeq(sock.inbound, n + 1, Len(sock.inbound))
  <2>1. /\ log' = [log EXCEPT !.read = log.read \o old]
        /\ sock' = [sock EXCEPT !.inbound = rest]
    BY <1>8 DEF ReceiveRead
  <2>2. /\ old \in Seq(Nat) /\ Len(old) = n /\ Counts(old, Len(log.read))
        /\ rest \in Seq(Nat) /\ Len(rest) = Len(sock.inbound) - n /\ Counts(rest, Len(log.read) + n)
    BY <1>s, <1>1, <1>3, CountsSplit DEF Live, Following
  <2>3. Counts(log.read, 0) /\ 0 + Len(log.read) = Len(log.read)  BY <1>1 DEF ReadInOrder
  <2> HIDE DEF old, rest, n
  <2>4. Counts(log.read \o old, 0) /\ Len(log.read \o old) = Len(log.read) + n
    BY <1>s, <1>1, <2>2, <2>3, CountsConcat
  <2>5. /\ log'.read = log.read \o old /\ log'.reset = log.reset
        /\ sock'.inbound = rest /\ sock'.port = sock.port /\ sock'.state = sock.state
        /\ sock'.remote = sock.remote /\ sock'.seq = sock.seq
    BY <2>1 DEF Types, LogType, SockType
  <2>k. Len(log'.read) = Len(log.read) + n /\ Len(sock'.inbound) = Len(sock.inbound) - n  BY <2>2, <2>4, <2>5
  <2>6. Kept' = Kept /\ Len(log.read) + n <= peer.sent /\ Kept \in Nat
    <3>1. Kept = Len(log.read) + Len(sock.inbound) /\ Kept <= peer.sent  BY DEF Kept, Live, Following
    <3>2. Kept' = Len(log'.read) + Len(sock'.inbound)  BY DEF Kept
    <3>3. n \in Nat /\ n <= Len(sock.inbound)  BY <1>1, <1>3
    <3> QED BY <1>1, <2>k, <3>1, <3>2, <3>3, SMTT(60) DEF Types, SockType, LogType
  <2>7. ReadInOrder'  BY <1>6, <2>4, <2>5, <2>6 DEF ReadInOrder, ResetMeansReset
  <2>8. Ported'  BY <1>4, <1>5, <2>5 DEF Live, Ported, Connecting, Reading
  <2>9. Told'  BY <1>5, <1>6, <2>5 DEF Live, Told, At
  <2>10. Following'  BY <1>6, <2>2, <2>4, <2>5, <2>6 DEF Live, Following
  <2>11. Acknowledged'  BY <1>5, <1>6, <2>6 DEF Live, Acknowledged, Acked
  <2> QED BY <2>7, <2>8, <2>9, <2>10, <2>11 DEF Live
<1> QED BY <1>7, <1>8

LEMMA SendReceived ==
  ASSUME Types, Types', Safe, Live, NEW u \in Users, Send(u), Further
  PROVE  Live'
<1>1. PICK len \in 1..MaxLength :
       /\ user' = [user EXCEPT ![u].pc = "send",
            ![u].seg = [flags |-> {"ack", "psh"}, seq |-> sock.seq, ackn |-> sock.remote,
                        first |-> log.written + 1, len |-> len]]
       /\ sock' = [sock EXCEPT !.seq = Advance(@, len)]
  BY DEF Send
<1>2. ~sock.closed /\ sock.state = "Established" /\ UNCHANGED <<net, peer, log>> /\ At(u, "idle")  BY DEF Send
<1>3. sock.port  BY <1>2 DEF Safe, Closed
<1>4. sock.seq \in Nat /\ len \in Nat /\ len > 0  BY SegmentTypes DEF Types, SockType
<1>5. /\ sock'.seq = sock.seq + len /\ sock'.port = sock.port /\ sock'.state = sock.state
      /\ sock'.remote = sock.remote /\ sock'.inbound = sock.inbound
  BY <1>1 DEF Types, SockType, Advance
<1>6. /\ \A v \in Users : v # u => user'[v] = user[v]
      /\ user'[u].pc = "send" /\ user'[u].seg.ackn = sock.remote
  BY <1>1 DEF Types, UserType
<1>7. Ported'  BY <1>3, <1>4, <1>5, <1>6 DEF Live, Ported, Connecting, Reading
<1>8. Told'  BY <1>2, <1>5 DEF Live, Told
<1>9. Kept' = Kept /\ Kept \in Nat /\ sock.remote \in Nat
  BY <1>2, <1>5, LenProperties DEF Kept, Types, SockType, LogType
<1>10. Following'  BY <1>2, <1>5, <1>9 DEF Live, Following
<1>11. Acknowledged'
  <2>1. sock.remote <= Kept + 1  BY <1>9 DEF Live, Following
  <2>2. \A v \in Users : At(v, "send") => Acked(user[v].seg)  BY DEF Live, Acknowledged
  <2> QED BY <1>2, <1>6, <1>9, <2>1, <2>2 DEF Live, Acknowledged, Acked, At
<1> QED BY <1>7, <1>8, <1>10, <1>11 DEF Live
-----------------------------------------------------------------------------
(* The interface thread finds the socket as it has read it, or closed.     *)
LEMMA QuietReceived ==
  ASSUME Types, Types', Live, UNCHANGED <<peer, log>>, Told',
         sock'.port = sock.port, sock'.seq = sock.seq, sock'.remote = sock.remote, sock'.inbound = sock.inbound,
         \A seg \in net'.peer : seg \in net.peer \/ Acked(seg),
         \A u \in Users : user'[u].seg = user[u].seg /\
           (user'[u].pc = user[u].pc \/ (user[u].pc = "blocked" /\ user'[u].pc = "read"))
  PROVE  Live'
<1>1. Kept' = Kept  BY DEF Kept
<1>2. Ported'  BY DEF Live, Ported, Connecting, Reading
<1>3. Following'  BY <1>1 DEF Live, Following
<1>4. Acknowledged'  BY <1>1 DEF Live, Acknowledged, Acked, At
<1> QED BY <1>2, <1>3, <1>4 DEF Live

LEMMA OnEstablishedReceived ==
  ASSUME Types, Types', Safe, Live, ~sock.closed, rx.pc = "handle", ToSocket(rx.seg), OnEstablished,
         UNCHANGED <<peer, log>>
  PROVE  Live'
<1> DEFINE new == Bytes(rx.seg.first, rx.seg.len)
           data == Store(sock.inbound, new)
           remote == IF rx.seg.len > 0 THEN rx.seg.seq + rx.seg.len ELSE sock.remote
<1>1. sock.state = "Established" /\ sock.port  BY DEF OnEstablished, Handles, Safe, Handled
<1>s. sock.inbound \in Seq(Nat) /\ log.read \in Seq(Nat)  BY DEF Types, SockType, LogType
<1>l. Len(sock.inbound) \in Nat /\ Len(log.read) \in Nat  BY <1>s, LenProperties
<1>2. /\ peer.sent \in Nat /\ sock.remote \in Nat /\ sock.seq \in Nat
      /\ rx.seg.seq \in Nat /\ rx.seg.len \in Nat /\ rx.seg.first \in Nat
  <2>1. rx.seg \in Segments  BY DEF Types, RxType
  <2>2. rx.seg.seq \in Nat /\ rx.seg.len \in Nat /\ rx.seg.first \in Nat  BY <2>1, SegmentTypes DEF Segments
  <2>3. peer.sent \in Nat /\ sock.remote \in Nat /\ sock.seq \in Nat  BY DEF Types, SockType, PeerType
  <2> QED BY <2>2, <2>3
<1>k. Kept = Len(log.read) + Len(sock.inbound)  BY DEF Kept
<1>3. Kept \in Nat  BY <1>l, <1>k DEF Types, SockType, LogType
<1>4. sock.remote <= Kept + 1  BY <1>2, <1>3 DEF Live, Following
<1>5. CASE sock' = sock /\ UNCHANGED user /\ (UNCHANGED net \/ Put("peer", Acknowledge(sock, sock.remote)))
  <2>1. Acked(Acknowledge(sock, sock.remote))  BY <1>4 DEF Acked, Acknowledge, Segment, NoSegment
  <2>2. \A seg \in net'.peer : seg \in net.peer \/ Acked(seg)  BY <1>5, <2>1, PutIs
  <2>3. Told'  BY <1>5 DEF Live, Told, At
  <2> QED BY <1>5, <2>2, <2>3, QuietReceived
<1>6. CASE /\ Expected
           /\ sock' = [sock EXCEPT !.inbound = data, !.remote = remote,
                                   !.state = IF "fin" \in Flags THEN "CloseWait" ELSE @]
           /\ \E W : user' = Woken(W)
           /\ UNCHANGED net \/ Put("peer", Acknowledge(sock, remote))
  <2>1. /\ sock'.inbound = data /\ sock'.remote = remote /\ sock'.port /\ sock'.seq = sock.seq
        /\ sock'.state = IF "fin" \in Flags THEN "CloseWait" ELSE "Established"
    BY <1>1, <1>6 DEF Types, SockType
  <2>2. new \in Seq(Nat) /\ Len(new) = rx.seg.len  BY <1>2, BytesTypes
  <2>3. Counts(new, Kept)
    <3>1. CASE rx.seg.len > 0
      <4>1. rx.seg.first = Kept + 1
        BY <1>2, <1>3, <1>6, <3>1 DEF ToSocket, Expected, Live, Following
      <4> QED BY <1>2, <1>3, <4>1, BytesCount
    <3>2. CASE rx.seg.len = 0  BY <2>2, <3>2 DEF Counts
    <3> QED BY <1>2, <3>1, <3>2
  <2> HIDE DEF new
  <2>4. Counts(data, Len(log.read)) /\ Len(data) = Len(sock.inbound) + rx.seg.len
    <3>1. Counts(sock.inbound, Len(log.read))  BY DEF Live, Following
    <3>2. Counts(new, Len(log.read) + Len(sock.inbound))  BY <1>k, <2>3
    <3> QED BY <1>s, <1>l, <1>2, <2>2, <3>1, <3>2, CountsConcat DEF Store
  <2> HIDE DEF data
  <2>5. Kept' = Kept + rx.seg.len
    <3>1. Kept' = Len(log.read) + Len(data)  BY <2>1 DEF Kept
    <3>2. rx.seg.len \in Nat  BY <1>2
    <3> QED BY <1>l, <1>k, <2>4, <3>1, <3>2, SMTT(60) DEF Types, SockType, LogType, RxType
  <2>6. /\ (remote = 0 /\ Kept + rx.seg.len = 0) \/ remote = Kept + rx.seg.len + 1
        /\ Kept + rx.seg.len <= peer.sent
        /\ rx.seg.len > 0 => sock.remote > 0
    <3>1. CASE rx.seg.len > 0
      <4>1. sock.remote > 0 /\ sock.remote = Kept + 1 /\ rx.seg.seq = sock.remote
        BY <1>2, <1>3, <1>6, <3>1 DEF ToSocket, Expected, Live, Following
      <4>2. rx.seg.seq + rx.seg.len <= peer.sent + 1  BY <3>1 DEF ToSocket
      <4> QED BY <1>2, <1>3, <3>1, <4>1, <4>2
    <3>2. CASE rx.seg.len = 0  BY <1>2, <1>3, <3>2 DEF Live, Following
    <3> QED BY <1>2, <3>1, <3>2
  <2>7. \A u \in Users : user'[u].seg = user[u].seg /\
          (user'[u].pc = user[u].pc \/ (user[u].pc = "blocked" /\ user'[u].pc = "read"))
    BY <1>6, WokenIs
  <2>8. Ported'
    <3>1. sock'.seq > 0  BY <1>1, <2>1 DEF Live, Ported
    <3>2. ASSUME NEW u \in Users, Connecting(u)'
          PROVE  sock'.remote = 0 /\ \A v \in Users : Connecting(v)' => v = u
      <4>1. Connecting(u)  BY <2>7, <3>2 DEF Connecting
      <4>2. sock.remote = 0 /\ \A v \in Users : Connecting(v) => v = u  BY <4>1 DEF Live, Ported
      <4>3. rx.seg.len = 0  BY <1>2, <2>6, <4>2
      <4> QED BY <2>1, <2>7, <4>2, <4>3 DEF Connecting
    <3> QED BY <2>1, <3>1, <3>2 DEF Ported
  <2> HIDE DEF remote
  <2>9. Told'
    <3>1. "fin" \in Flags => peer.fin  BY DEF ToSocket, Flags
    <3> QED BY <2>1, <3>1 DEF Told
  <2>10. Following'  BY <2>1, <2>4, <2>5, <2>6 DEF Following
  <2>11. Acknowledged'
    <3> DEFINE Fine(seg) == "ack" \in seg.flags => seg.ackn <= Kept' + 1
    <3>1. ASSUME NEW seg \in Segments, Acked(seg) PROVE Fine(seg)
      BY <1>2, <1>3, <2>5, <3>1 DEF Acked, Segments
    <3>2. Fine(Acknowledge(sock, remote))
      BY <1>2, <1>3, <2>5, <2>6 DEF Acknowledge, Segment, NoSegment
    <3> HIDE DEF Fine
    <3>3. \A seg \in net.peer : Fine(seg)  BY <3>1 DEF Live, Acknowledged, Types, NetOK
    <3>4. \A seg \in net'.peer : Fine(seg)  BY <1>6, <3>2, <3>3, PutIs
    <3>5. ASSUME NEW u \in Users, user'[u].pc = "send" PROVE Fine(user'[u].seg)
      <4>1. At(u, "send") /\ user'[u].seg = user[u].seg  BY <2>7, <3>5 DEF At
      <4>2. Acked(user[u].seg) /\ user[u].seg \in Segments  BY <4>1 DEF Live, Acknowledged, Types, UserType
      <4> QED BY <3>1, <4>1, <4>2
    <3> QED BY <3>4, <3>5 DEF Acknowledged, Acked, At, Fine
  <2> QED BY <2>8, <2>9, <2>10, <2>11 DEF Live
<1>7. UnblockAll => \E W : user' = Woken(W)  BY DEF UnblockAll
<1> HIDE DEF data, remote
<1> QED BY <1>5, <1>6, <1>7 DEF OnEstablished, Stray, data, new, remote

LEMMA OnReceiveReceived ==
  ASSUME Types, Types', Safe, Live, ~sock.closed, ToSocket(rx.seg), OnReceive
  PROVE  Live'
<1>1. rx.pc = "handle" /\ UNCHANGED <<peer, log>>  BY DEF OnReceive
<1>2. sock.state = rx.state /\ sock.state \in Open /\ sock.port  BY <1>1 DEF Safe, Handled, Closed
<1>3. UnblockAll => \A u \in Users : user'[u].seg = user[u].seg /\
          (user'[u].pc = user[u].pc \/ (user[u].pc = "blocked" /\ user'[u].pc = "read"))
  BY WokenIs DEF UnblockAll
<1>4. CASE OnReset
  <2>1. sock' = [sock EXCEPT !.state = "Unknown"] /\ UNCHANGED net /\ UnblockAll  BY <1>4 DEF OnReset
  <2>2. /\ sock'.port = sock.port /\ sock'.seq = sock.seq /\ sock'.remote = sock.remote
        /\ sock'.inbound = sock.inbound /\ sock'.state = "Unknown"
    BY <2>1 DEF Types, SockType
  <2>3. peer.rst  BY <1>4 DEF OnReset, ToSocket, Flags
  <2>4. Told'  BY <1>1, <2>2, <2>3 DEF Told
  <2> QED BY <1>1, <1>3, <2>1, <2>2, <2>4, QuietReceived
<1>5. CASE OnSyn
  <2>1. sock.state = "Syn" /\ sock.remote = 0  BY <1>2, <1>5 DEF OnSyn, Handles, Live, Told
  <2>2. \/ sock' = [sock EXCEPT !.remote = rx.seg.seq, !.state = "Established"] /\ UnblockAll /\ Flags = {"syn", "ack"}
        \/ sock' = [sock EXCEPT !.remote = rx.seg.seq] /\ UNCHANGED user /\ Flags = {"syn", "ack"}
        \/ UNCHANGED <<sock, user>>
    BY <1>5 DEF OnSyn
  <2>3. Flags = {"syn", "ack"} => rx.seg.seq = 0  BY DEF Flags, ToSocket
  <2>4. /\ sock'.port = sock.port /\ sock'.seq = sock.seq /\ sock'.remote = sock.remote
        /\ sock'.inbound = sock.inbound
        /\ sock'.state = "Established" \/ (sock'.state = "Syn" /\ UNCHANGED user)
    BY <2>1, <2>2, <2>3 DEF Types, SockType
  <2>5. Told'  BY <2>1, <2>4 DEF Live, Told, At
  <2>6. UNCHANGED net  BY <1>5 DEF OnSyn
  <2> QED BY <1>1, <1>3, <2>2, <2>4, <2>5, <2>6, QuietReceived
<1>6. CASE OnEstablished  BY <1>1, <1>6, OnEstablishedReceived
<1>7. CASE OnWait
  <2>1. sock' = [sock EXCEPT !.state = "Unknown"] /\ UNCHANGED user /\ Put("peer", Reset(sock))  BY <1>7 DEF OnWait
  <2>2. /\ sock'.port = sock.port /\ sock'.seq = sock.seq /\ sock'.remote = sock.remote
        /\ sock'.inbound = sock.inbound /\ sock'.state = "Unknown"
    BY <2>1 DEF Types, SockType
  <2>3. sock.state = "CloseWait"  BY <1>2, <1>7 DEF OnWait, Handles, Open
  <2>4. Told'  BY <1>1, <2>2, <2>3 DEF Live, Told
  <2>5. Acked(Reset(sock))  BY DEF Acked, Reset, Segment, NoSegment
  <2>6. \A seg \in net'.peer : seg \in net.peer \/ Acked(seg)  BY <2>1, <2>5, PutIs
  <2> QED BY <1>1, <2>1, <2>2, <2>4, <2>6, QuietReceived
<1>8. ~(OnFinWait1 \/ OnFinWait2 \/ OnLastAck)  BY <1>2 DEF OnFinWait1, OnFinWait2, OnLastAck, Handles, Open
<1> QED BY <1>4, <1>5, <1>6, <1>7, <1>8 DEF OnReceive

LEMMA InterfaceReceived ==
  ASSUME Types, Types', Safe, Received, Deliver \/ OnReceive \/ OnReceiveEnd
  PROVE  Received'
<1>1. UNCHANGED <<peer, log>>  BY DEF Deliver, OnReceive, OnReceiveEnd
<1>2. Further  BY <1>1, PeerWaits
<1>3. Arrives'
  <2>1. net'.socket \subseteq net.socket
    <3>1. (\E seg : Put("peer", seg)) \/ UNCHANGED net \/ \E seg : Take("socket", seg)
      BY DEF Deliver, OnReceive, OnReceiveEnd, OnReset, OnSyn, OnEstablished, OnFinWait1, OnFinWait2, OnWait,
             OnLastAck, Ignore
    <3> QED BY <3>1, PutIs, TakeIs
  <2>2. rx'.pc = "handle" => rx'.seg \in net.socket
    <3>1. Leave \/ ToEnd => rx'.pc # "handle"  BY DEF Leave, ToEnd, Types, RxType
    <3>2. CASE OnReceive
      BY <3>1, <3>2 DEF OnReceive, OnReset, OnSyn, OnEstablished, OnFinWait1, OnFinWait2, OnWait, OnLastAck, Ignore
    <3>3. CASE OnReceiveEnd  BY <3>1, <3>3 DEF OnReceiveEnd
    <3>4. CASE Deliver
      <4>1. PICK seg \in net.socket : rx' = [pc |-> "handle", seg |-> seg, state |-> sock.state]
        BY <3>4 DEF Deliver
      <4> QED BY <4>1
    <3> QED BY <3>2, <3>3, <3>4
  <2> QED BY <1>2, <2>1, <2>2, ArrivesKeeps DEF Received
<1>4. ReadInOrder'  BY <1>1, <1>2, ReadKeeps DEF Received
<1>5. ~sock'.closed => ~sock.closed
  BY DEF Deliver, OnReceive, OnReceiveEnd, OnReset, OnSyn, OnEstablished, OnFinWait1, OnFinWait2, OnWait, OnLastAck,
         Ignore, Stray, Over, Types, SockType
<1>6. ASSUME ~sock.closed PROVE Live'
  <2>1. Live  BY <1>6 DEF Received
  <2>2. CASE Deliver \/ OnReceiveEnd
    <3>1. UNCHANGED <<sock, user>>  BY <1>6, <2>2 DEF Deliver, OnReceiveEnd, Over
    <3>2. net'.peer \subseteq net.peer  BY <2>2, TakeIs DEF Deliver, OnReceiveEnd
    <3> QED BY <1>1, <1>2, <2>1, <3>1, <3>2, LiveKeeps DEF Connecting, Reading, At, Live, Ported
  <2>3. CASE OnReceive
    <3>1. ToSocket(rx.seg)  BY <2>3 DEF OnReceive, Received, Arrives
    <3> QED BY <1>6, <2>1, <2>3, <3>1, OnReceiveReceived
  <2> QED BY <2>2, <2>3
<1> QED BY <1>3, <1>4, <1>5, <1>6 DEF Received

LEMMA UserReceived ==
  ASSUME Types, Types', Safe, Received, NEW u \in Users, Calls(u) \/ Receives(u) \/ Sends(u) \/ Closes(u)
  PROVE  Received'
<1>1. UNCHANGED <<rx, peer>> /\ Further /\ Arrives'  BY UserArrives DEF Received
<1>2. CASE sock.closed
  <2>1. sock'.closed /\ log'.read = log.read /\ log'.reset = log.reset
    <3>1. CloseTest(u) \/ CloseFinish(u)
      BY <1>2 DEF Calls, Receives, Sends, Closes, Connect, ConnectInterrupted, Connected, ConnectAcknowledge, Receive,
         ReceiveTest, ReceiveBlock, ReceiveInterrupted, ReceiveRead, Send, SendTCP, Close, At, Safe, Closed, Closing
    <3> QED BY <1>2, <3>1 DEF CloseTest, CloseFinish, Types, SockType
  <2>2. ReadInOrder'  BY <1>1, <2>1, ReadKeeps DEF Received
  <2> QED BY <1>1, <2>1, <2>2 DEF Received
<1>3. CASE ~sock.closed
  <2>1. Live /\ ReadInOrder  BY <1>3 DEF Received
  <2>2. CASE Close(u)
    <3>1. sock'.closed /\ log' = log  BY <2>2 DEF Close, Types, SockType
    <3>2. ReadInOrder'  BY <1>1, <2>1, <3>1, ReadKeeps
    <3> QED BY <1>1, <3>1, <3>2 DEF Received
  <2>3. CASE ReceiveRead(u)
    <3>1. Live' /\ ReadInOrder'  BY <1>1, <2>1, <2>3, ReceiveReadReceived
    <3> QED BY <1>1, <3>1 DEF Received
  <2>4. CASE Connect(u) \/ ConnectAcknowledge(u) \/ Send(u) \/ ConnectInterrupted(u) \/ Connected(u) \/ Receive(u)
             \/ ReceiveTest(u) \/ ReceiveBlock(u) \/ ReceiveInterrupted(u) \/ SendTCP(u)
    <3>1. Live'  BY <1>1, <2>1, <2>4, ConnectReceived, ConnectAcknowledgeReceived, SendReceived, MoveReceived
    <3>2. log'.read = log.read /\ log'.reset = log.reset
      BY <2>4 DEF Connect, ConnectAcknowledge, Send, ConnectInterrupted, Connected, Receive,
                  ReceiveTest, ReceiveBlock, ReceiveInterrupted, SendTCP, Types, LogType
    <3>3. ReadInOrder'  BY <1>1, <2>1, <3>2, ReadKeeps
    <3> QED BY <1>1, <3>1, <3>3 DEF Received
  <2>5. ~CloseTest(u) /\ ~CloseFinish(u)
    BY <1>3 DEF CloseTest, CloseFinish, At, Safe, Closed, Closing
  <2> QED BY <2>2, <2>3, <2>4, <2>5 DEF Calls, Receives, Sends, Closes
<1> QED BY <1>2, <1>3

LEMMA PeerReceived ==
  ASSUME Types, Types', Received, Peers
  PROVE  Received'
<1>1. UNCHANGED <<sock, user, rx, log>>
  BY DEF Peers, PeerSynchronize, PeerSend, PeerAcknowledge, PeerFinish, PeerReset, PeerReceive, PeerPut
<1>2. peer.sent \in Nat /\ peer.una \in Nat /\ PeerNumber \in Nat /\ PeerNumber > 0 /\ MaxLength \in Nat
  BY BoundsAssumption DEF Types, PeerType, PeerNumber
<1>3. /\ Further
      /\ (\E seg : Put("socket", seg) /\ ToSocket(seg)') \/ \E seg : Take("peer", seg)
  <2>1. CASE PeerSynchronize
    <3>1. UNCHANGED peer /\ Put("socket", Segment({"syn", "ack"}, 0, peer.next))
      BY <2>1 DEF PeerSynchronize, PeerPut
    <3>2. ToSocket(Segment({"syn", "ack"}, 0, peer.next))'
      BY DEF ToSocket, Segment, NoSegment
    <3> QED BY <3>1, <3>2, PeerWaits
  <2>2. CASE PeerSend
    <3>1. PICK from \in peer.una..(peer.sent + 1), len \in 1..MaxLength :
            /\ from > 0
            /\ PeerPut([flags |-> {"ack"} \cup {f \in {"psh"} : from + len > PeerBytes}, seq |-> from,
                       ackn |-> peer.next, first |-> from, len |-> len])
            /\ peer' = [peer EXCEPT !.sent = IF from + len - 1 > @ THEN from + len - 1 ELSE @]
      BY <2>2 DEF PeerSend
    <3> DEFINE flags == {"ack"} \cup {f \in {"psh"} : from + len > PeerBytes}
               seg == [flags |-> flags, seq |-> from, ackn |-> peer.next, first |-> from, len |-> len]
    <3>2. from \in Nat /\ len \in Nat /\ len > 0  BY <1>2
    <3>3. /\ peer'.sent = IF from + len - 1 > peer.sent THEN from + len - 1 ELSE peer.sent
          /\ peer'.rst = peer.rst /\ peer'.fin = peer.fin
      BY <3>1 DEF Types, PeerType
    <3>4. Further /\ from + len <= peer'.sent + 1  BY <1>2, <3>1, <3>2, <3>3 DEF Further
    <3>5. flags \subseteq {"ack", "psh"}  OBVIOUS
    <3> HIDE DEF flags
    <3>6. seg.flags = flags /\ seg.seq = from /\ seg.first = from /\ seg.len = len  OBVIOUS
    <3>7. Put("socket", seg)  BY <3>1 DEF PeerPut, flags
    <3> HIDE DEF seg
    <3>8. \E s : Put("socket", s) /\ ToSocket(s)'
      <4>1. from # 0  BY <3>1, <3>2
      <4> SUFFICES \A s : s = seg => ToSocket(s)'  BY <3>7
      <4> QED BY <3>1, <3>4, <3>5, <3>6, <4>1 DEF ToSocket
    <3> QED BY <3>4, <3>8
  <2>3. CASE PeerAcknowledge
    <3>1. UNCHANGED peer /\ Put("socket", Segment({"ack"}, PeerNumber, peer.next))
      BY <2>3 DEF PeerAcknowledge, PeerPut
    <3>2. \A s : s = Segment({"ack"}, PeerNumber, peer.next) => ToSocket(s)'
      BY <1>2 DEF ToSocket, Segment, NoSegment
    <3> QED BY <3>1, <3>2, PeerWaits
  <2>4. CASE PeerFinish
    <3>1. Put("socket", Segment({"fin", "ack"}, peer.sent + 1, peer.next)) /\ peer'.fin
          /\ peer'.sent = peer.sent /\ peer'.rst = peer.rst
      BY <2>4 DEF PeerFinish, PeerPut, Types, PeerType
    <3>2. Further  BY <1>2, <3>1 DEF Further
    <3>3. \A s : s = Segment({"fin", "ack"}, peer.sent + 1, peer.next) => ToSocket(s)'
      BY <1>2, <3>1 DEF ToSocket, Segment, NoSegment
    <3> QED BY <3>1, <3>2, <3>3
  <2>5. CASE PeerReset
    <3>1. Put("socket", Segment({"rst"}, PeerNumber, 0)) /\ peer'.rst
          /\ peer'.sent = peer.sent /\ peer'.fin = peer.fin
      BY <2>5 DEF PeerReset, PeerPut, Types, PeerType
    <3>2. Further  BY <1>2, <3>1 DEF Further
    <3>3. \A s : s = Segment({"rst"}, PeerNumber, 0) => ToSocket(s)'
      BY <1>2, <3>1 DEF ToSocket, Segment, NoSegment
    <3> QED BY <3>1, <3>2, <3>3
  <2>6. CASE PeerReceive
    <3>1. peer'.sent = peer.sent /\ peer'.rst = peer.rst /\ peer'.fin = peer.fin
      BY <2>6 DEF PeerReceive, Types, PeerType
    <3>2. Further  BY <1>2, <3>1 DEF Further
    <3> QED BY <2>6, <3>2 DEF PeerReceive
  <2> QED BY <2>1, <2>2, <2>3, <2>4, <2>5, <2>6 DEF Peers
<1>4. Arrives'  BY <1>1, <1>3, PutIs, TakeIs, ArrivesKeeps DEF Received
<1>5. ReadInOrder'  BY <1>1, <1>3, ReadKeeps DEF Received
<1>6. ASSUME ~sock.closed PROVE Live'
  <2>1. net'.peer \subseteq net.peer  BY <1>3, PutIs, TakeIs
  <2>2. Live  BY <1>6 DEF Received
  <2> QED BY <1>1, <1>3, <2>1, <2>2, LiveKeeps DEF Connecting, Reading, At, Live, Ported
<1> QED BY <1>1, <1>4, <1>5, <1>6, ZenonT(60) DEF Received

LEMMA StepReceived == IInv /\ IInv' /\ Received /\ [Next]_vars => Received'
<1> SUFFICES ASSUME IInv, IInv', Received, [Next]_vars PROVE Received'  OBVIOUS
<1>1. Types /\ Safe  BY TypesAgree DEF IInv, Safe
<1>2. Types'
  <2>1. TypeOK'  BY DEF IInv
  <2> QED BY <2>1 DEF TypeOK, Types, SockType, UserType, Locs, RxType, NetOK, PeerType, LogType
<1>3. ASSUME UNCHANGED vars PROVE Received'
  BY <1>3 DEF vars, Received, Arrives, ToSocket, ReadInOrder, Counts, ResetMeansReset, Live, Ported, Connecting, Reading,
              Told, At, Following, Kept, Acknowledged, Acked
<1> QED BY <1>1, <1>2, <1>3, UserReceived, InterfaceReceived, PeerReceived
        DEF Next, Calls, Receives, Sends, Closes, Peers

LEMMA AlwaysReceived == Spec => []Received
<1> QED BY AlwaysIInv, InitReceived, StepReceived, PTL DEF Spec

(* What an open connection acknowledges has been read or can still be      *)
(* read; its readers are told of no reset that the peer did not send       *)
(* (OnReceive, Acknowledge, ReceiveFrom).                                  *)
THEOREM KeepsWhatItAcknowledges == Spec => []AcknowledgedKept
<1>1. IInv /\ Received => AcknowledgedKept
  <2> SUFFICES ASSUME IInv, Received PROVE AcknowledgedKept  OBVIOUS
  <2>1. Types  BY TypesAgree DEF IInv
  <2>2. ASSUME NEW seg \in net.peer, "ack" \in seg.flags, ~sock.closed
        PROVE  seg.ackn <= Kept + (IF peer.fin /\ Kept = peer.sent THEN 2 ELSE 1)
    <3>1. seg.ackn <= Kept + 1  BY <2>2 DEF Received, Live, Acknowledged, Acked
    <3>2. seg.ackn \in Nat  BY <2>1 DEF Types, NetOK, Segments
    <3>3. Kept \in Nat  BY <2>1, LenProperties DEF Types, SockType, LogType, Kept
    <3> QED BY <3>1, <3>2, <3>3
  <2> QED BY <2>2 DEF AcknowledgedKept, IInv, Received, ReadInOrder
<1> QED BY AlwaysIInv, AlwaysReceived, <1>1, PTL
-----------------------------------------------------------------------------
LEMMA CountsAppend ==
  ASSUME NEW q \in Seq(Nat), NEW r \in Seq(Nat), Counts(q, 0), Counts(r, Len(q))
  PROVE  Counts(q \o r, 0) /\ Len(q \o r) = Len(q) + Len(r)
<1>1. Len(q) \in Nat /\ 0 + Len(q) = Len(q)  BY LenProperties
<1> QED BY <1>1, CountsConcat

(* A socket that has its number has begun to connect.                      *)
Started ==
  /\ sock.port \/ sock.state # "Unknown" \/ net.peer # {} => sock.seq > 0
  /\ \A u \in Users : user[u].pc \in {"finish", "finish_last"} => sock.seq > 0

(* What is on its way to the peer.  A segment that SendTCP failed to send  *)
(* leaves a gap, and those after it, which are not sound, are not taken.   *)
Carries(s) == s.len > 0
Sound(s) == s.first = s.seq
Shipped == \A s \in net.peer :
  /\ "syn" \in s.flags => s.seq = 0 /\ ~Carries(s)
  /\ "fin" \in s.flags => ~Carries(s) /\ sock.closed /\ s.seq = sock.seq
  /\ Carries(s) => 0 < s.first /\ s.first <= s.seq /\ s.first + s.len <= log.written + 1
  /\ Carries(s) /\ ~Sound(s) =>
       /\ peer.next < s.seq
       /\ \A r \in net.peer : Carries(r) /\ Sound(r) => r.seq + r.len < s.seq

(* b is the number of the next segment to leave the socket.                *)
Ordered(b) ==
  /\ log.written < b \/ (b = 0 /\ log.written = 0)
  /\ \A s \in net.peer : Carries(s) => s.seq + s.len <= b
  /\ b = log.written + 1 => \A s \in net.peer : Carries(s) => Sound(s)
  /\ b > log.written + 1 => /\ peer.next < b
                            /\ \A s \in net.peer : Carries(s) /\ Sound(s) => s.seq + s.len < b
  /\ peer.next <= b \/ (sock.closed /\ peer.next = b + 1)
Numbered ==
  /\ (\A u \in Users : ~At(u, "send")) => Ordered(sock.seq)
  /\ \A u \in Users : At(u, "send") =>
       /\ Ordered(user[u].seg.seq) /\ user[u].seg.seq > 0 /\ user[u].seg.len > 0
       /\ user[u].seg.seq + user[u].seg.len = sock.seq
       /\ user[u].seg.first = log.written + 1 /\ user[u].seg.flags = {"ack", "psh"} /\ u \in Senders

(* What the peer has taken.                                                *)
Taken ==
  /\ Counts(peer.got, 0) /\ Len(peer.got) <= log.written
  /\ IF peer.state = "Listen" THEN peer.next = 0 /\ peer.got = <<>>
     ELSE \/ peer.next = Len(peer.got) + 1
          \/ sock.closed /\ peer.next = Len(peer.got) + 2 /\ peer.next = sock.seq + 1

Sent == Shipped /\ Numbered /\ Taken

LEMMA InitSent == Init => Started /\ Sent
<1> SUFFICES ASSUME Init PROVE Started /\ Sent  OBVIOUS
<1>1. Started  BY DEF Init, Started, Idle
<1>2. Shipped  BY DEF Init, Shipped
<1>3. Ordered(0)  BY DEF Init, Ordered
<1>4. Numbered  BY <1>3 DEF Init, Numbered, At, Idle
<1>5. Counts(<<>>, 0) /\ Len(<<>>) = 0
  <2>1. Len(<<>>) = 0 /\ \A i \in 1..0 : FALSE  OBVIOUS
  <2> QED BY <2>1 DEF Counts
<1>6. Taken  BY <1>5 DEF Init, Taken
<1> QED BY <1>1, <1>2, <1>4, <1>6 DEF Sent
-----------------------------------------------------------------------------
LEMMA UserStarted ==
  ASSUME Types, Types', Safe, Received, Started, NEW u \in Users, Calls(u) \/ Receives(u) \/ Sends(u) \/ Closes(u)
  PROVE  Started'
<1>1. sock.seq \in Nat /\ (sock'.seq = sock.seq \/ sock'.seq = 1 \/ Send(u))
  BY DEF Calls, Receives, Sends, Closes, Connect, ConnectInterrupted, Connected, ConnectAcknowledge, Receive,
     ReceiveTest, ReceiveBlock, ReceiveInterrupted, ReceiveRead, SendTCP, Close, CloseTest, CloseFinish, Types, SockType
<1>2. Send(u) => sock'.seq \in Nat /\ sock'.seq > 0
  <2> SUFFICES ASSUME Send(u) PROVE sock'.seq > 0  BY DEF Types, SockType
  <2>1. sock.state = "Established"  BY DEF Send
  <2>2. PICK len \in 1..MaxLength : sock' = [sock EXCEPT !.seq = Advance(@, len)]  BY DEF Send
  <2>3. sock'.seq = sock.seq + len /\ sock.seq > 0 /\ len \in Nat
    BY <2>1, <2>2, SegmentTypes DEF Types, SockType, Advance, Started
  <2> QED BY <1>1, <2>3 DEF Types, SockType
<1>3. CASE sock.seq > 0
  <2>1. sock'.seq > 0  BY <1>1, <1>2, <1>3 DEF Types, SockType
  <2> QED BY <2>1 DEF Started
<1>4. CASE sock.seq = 0 /\ sock'.seq = 0
  <2>1. ~sock.port /\ sock.state = "Unknown" /\ net.peer = {}
        /\ \A v \in Users : user[v].pc \notin {"finish", "finish_last"}
    BY <1>4 DEF Started
  <2>2. \A v \in Users : user[v].pc \notin {"connect", "connected", "send", "block", "blocked", "receive", "read"}
    BY <2>1 DEF Received, Live, Ported, Connecting, Reading, Safe, Closed, Closing
  <2>3. Receive(u) \/ Close(u) \/ CloseTest(u)
    <3>1. ~Connect(u)
      <4>1. Connect(u) => sock'.seq = 1  BY DEF Connect, Types, SockType
      <4> QED BY <1>4, <4>1
    <3>2. ~Send(u)  BY <2>1 DEF Send
    <3>3. ~(ConnectInterrupted(u) \/ Connected(u) \/ ConnectAcknowledge(u) \/ SendTCP(u))
      BY <2>2 DEF ConnectInterrupted, Connected, ConnectAcknowledge, SendTCP, At
    <3>4. ~(ReceiveTest(u) \/ ReceiveBlock(u) \/ ReceiveInterrupted(u) \/ ReceiveRead(u))
      BY <2>2 DEF ReceiveTest, ReceiveBlock, ReceiveInterrupted, ReceiveRead, At
    <3>5. ~CloseFinish(u)  BY <2>1 DEF CloseFinish, At
    <3> QED BY <3>1, <3>2, <3>3, <3>4, <3>5 DEF Calls, Receives, Sends, Closes
  <2>4. UNCHANGED net /\ sock'.port = sock.port /\ sock'.state = sock.state
        /\ \A v \in Users : user'[v].pc \notin {"finish", "finish_last"}
    <3>1. CASE Receive(u)  BY <2>1, <3>1 DEF Receive, Types, UserType
    <3>2. CASE Close(u)
      <4>1. \A v \in Users : user'[v].pc \in {user[v].pc, "close"}  BY <3>2, GotoIs DEF Close
      <4>2. UNCHANGED net /\ sock'.port = sock.port /\ sock'.state = sock.state
        BY <3>2 DEF Close, Types, SockType
      <4> QED BY <2>1, <4>1, <4>2
    <3>3. CASE CloseTest(u)
      <4>1. UNCHANGED <<sock, net>> /\ Goto(u, "done")  BY <2>1, <3>3 DEF CloseTest
      <4>2. \A v \in Users : user'[v].pc \in {user[v].pc, "done"}  BY <4>1, GotoIs
      <4> QED BY <2>1, <4>1, <4>2
    <3> QED BY <2>3, <3>1, <3>2, <3>3
  <2> QED BY <2>1, <2>4 DEF Started
<1> QED BY <1>1, <1>2, <1>3, <1>4 DEF Started

LEMMA OtherStarted ==
  ASSUME Types, Types', Safe, Started, Deliver \/ OnReceive \/ OnReceiveEnd \/ Peers
  PROVE  Started'
<1>1. sock.seq \in Nat /\ sock'.seq = sock.seq
  BY DEF Deliver, OnReceive, OnReceiveEnd, OnReset, OnSyn, OnEstablished, OnFinWait1, OnFinWait2, OnWait, OnLastAck,
         Ignore, Stray, Over, Types, SockType, Peers, PeerSynchronize, PeerSend, PeerAcknowledge, PeerFinish,
         PeerReset, PeerReceive, PeerPut
<1>2. CASE sock.seq > 0  BY <1>1, <1>2 DEF Started
<1>3. CASE sock.seq = 0
  <2>1. ~sock.port  BY <1>3 DEF Started
  <2>2. Peers  BY <2>1, SMTT(60) DEF Deliver, OnReceive, OnReceiveEnd, Safe, Handled
  <2>3. UNCHANGED <<sock, user>>
    BY <2>2 DEF Peers, PeerSynchronize, PeerSend, PeerAcknowledge, PeerFinish, PeerReset, PeerReceive, PeerPut
  <2>4. net'.peer \subseteq net.peer
    <3>1. (\E seg : Put("socket", seg)) \/ (\E seg : Take("peer", seg))
      BY <2>2 DEF Peers, PeerSynchronize, PeerSend, PeerAcknowledge, PeerFinish, PeerReset, PeerReceive, PeerPut
    <3> QED BY <3>1, PutIs, TakeIs, ZenonT(60)
  <2> QED BY <2>3, <2>4 DEF Started
<1> QED BY <1>1, <1>2, <1>3, SMTT(60)
-----------------------------------------------------------------------------
(* A step that sends no data and takes none.                               *)
LEMMA QuietSent ==
  ASSUME Types, Types', Sent,
         sock'.seq = sock.seq, sock.closed => sock'.closed,
         peer'.next = peer.next, peer'.got = peer.got, peer'.state = "Listen" <=> peer.state = "Listen",
         log'.written = log.written,
         \A s \in net'.peer : \/ s \in net.peer
                              \/ /\ ~Carries(s) /\ "syn" \notin s.flags
                                 /\ "fin" \in s.flags => sock'.closed /\ s.seq = sock.seq,
         \A u \in Users : /\ At(u, "send")' <=> At(u, "send")
                          /\ At(u, "send") => user'[u].seg = user[u].seg
  PROVE  Sent'
<1>1. Shipped'  BY DEF Sent, Shipped, Carries
<1>2. ASSUME NEW b \in Nat, Ordered(b) PROVE Ordered(b)'  BY <1>2 DEF Ordered, Carries
<1>3. sock.seq \in Nat /\ \A u \in Users : user[u].seg.seq \in Nat
  BY DEF Types, SockType, UserType, Segments
<1>4. Numbered'
  <2>1. (\A u \in Users : ~At(u, "send")) => Ordered(sock.seq)'  
    <3>1. ASSUME \A u \in Users : ~At(u, "send"), NEW b \in Nat, b = sock.seq PROVE Ordered(b)'
      BY <1>2, <3>1 DEF Sent, Numbered
    <3> QED BY <1>3, <3>1
  <2> QED BY <1>2, <1>3, <2>1 DEF Sent, Numbered
<1>5. Taken'  BY DEF Sent, Taken, Counts
<1> QED BY <1>1, <1>4, <1>5 DEF Sent

(* No call in which a thread sends nothing.                                *)
LEMMA CallSent ==
  ASSUME Types, Types', Safe, Safe', Started, Sent, NEW u \in Users, Calls(u) \/ Receives(u) \/ Closes(u), ~Connect(u)
  PROVE  Sent'
<1>1. /\ ~At(u, "send") /\ ~At(u, "send")'
      /\ \A v \in Users : v # u => user'[v] = user[v]
  <2>1. CASE ReceiveInterrupted(u) \/ ReceiveRead(u)
    BY <2>1, IdleIs DEF ReceiveInterrupted, ReceiveRead, At
  <2>2. CASE Receive(u)
    <3>1. user'[u].pc = "receive" /\ \A v \in Users : v # u => user'[v] = user[v]
      BY <2>2 DEF Receive, Types, UserType
    <3> QED BY <2>2, <3>1 DEF Receive, At
  <2>3. CASE ConnectInterrupted(u) \/ Connected(u) \/ ConnectAcknowledge(u) \/ ReceiveTest(u) \/ ReceiveBlock(u)
             \/ Close(u) \/ CloseTest(u) \/ CloseFinish(u)
    <3>1. ~At(u, "send")
      BY <2>3 DEF ConnectInterrupted, Connected, ConnectAcknowledge, ReceiveTest, ReceiveBlock, Close, CloseTest,
                  CloseFinish, At
    <3>2. \E loc : Goto(u, loc) /\ loc # "send"
      BY <2>3 DEF ConnectInterrupted, Connected, ConnectAcknowledge, ReceiveTest, ReceiveBlock, Close, CloseTest,
                  CloseFinish
    <3>3. \A v \in Users : v # u => user'[v] = user[v]  BY <3>2 DEF Goto, Types
    <3> QED BY <3>1, <3>2, <3>3, GotoIs DEF At
  <2> QED BY <2>1, <2>2, <2>3 DEF Calls, Receives, Closes
<1>2. /\ sock'.seq = sock.seq /\ (sock.closed => sock'.closed) /\ UNCHANGED peer /\ log'.written = log.written
  BY DEF Calls, Receives, Closes, ConnectInterrupted, Connected, ConnectAcknowledge, Receive, ReceiveTest, ReceiveBlock,
         ReceiveInterrupted, ReceiveRead, Close, CloseTest, CloseFinish, Types, SockType, LogType
<1>3. \A s \in net'.peer : \/ s \in net.peer
                           \/ /\ ~Carries(s) /\ "syn" \notin s.flags
                              /\ "fin" \in s.flags => sock'.closed /\ s.seq = sock.seq
  <2> DEFINE Plain(s) == /\ ~Carries(s) /\ "syn" \notin s.flags
                         /\ "fin" \in s.flags => sock'.closed /\ s.seq = sock.seq
  <2> SUFFICES \A s \in net'.peer : s \in net.peer \/ Plain(s)  OBVIOUS
  <2>1. CASE UNCHANGED net  BY <2>1
  <2>2. CASE ConnectAcknowledge(u)
    <3>1. Put("peer", Acknowledge(sock, sock.remote + 1))  BY <2>2 DEF ConnectAcknowledge
    <3>2. Plain(Acknowledge(sock, sock.remote + 1))  BY DEF Acknowledge, Segment, NoSegment, Carries
    <3> QED BY <3>1, <3>2, PutIs
  <2>3. CASE CloseTest(u)
    <3>1. Put("peer", Reset(sock)) \/ UNCHANGED net  BY <2>3 DEF CloseTest
    <3>2. Plain(Reset(sock))  BY DEF Reset, Segment, NoSegment, Carries
    <3> QED BY <2>1, <3>1, <3>2, PutIs
  <2>4. CASE CloseFinish(u)
    <3>1. sock.closed  BY <2>4 DEF CloseFinish, At, Safe, Closed, Closing
    <3>2. Put("peer", FinishAcknowledge(sock, sock.remote)) \/ Put("peer", Finish(sock))
      BY <2>4 DEF CloseFinish
    <3>3. Plain(FinishAcknowledge(sock, sock.remote)) /\ Plain(Finish(sock))
      BY <1>2, <3>1 DEF FinishAcknowledge, Finish, Segment, NoSegment, Carries
    <3> QED BY <3>2, <3>3, PutIs
  <2>5. ConnectAcknowledge(u) \/ CloseTest(u) \/ CloseFinish(u) \/ UNCHANGED net
    BY DEF Calls, Receives, Closes, ConnectInterrupted, Connected, Receive, ReceiveTest, ReceiveBlock,
           ReceiveInterrupted, ReceiveRead, Close
  <2> QED BY <2>1, <2>2, <2>3, <2>4, <2>5
<1> QED BY <1>1, <1>2, <1>3, QuietSent DEF At

(* The first number goes with the SYN.                                     *)
LEMMA ConnectSent ==
  ASSUME Types, Types', Safe, Live, Started, Sent, NEW u \in Users, Connect(u)
  PROVE  Sent'
<1>1. /\ ~sock.port /\ ~sock.closed /\ sock'.seq = 1 /\ UNCHANGED <<peer, log>>
      /\ Goto(u, "connect") /\ Put("peer", Synchronize)
  BY DEF Connect, Types, SockType
<1>2. sock.seq = 0 /\ \A v \in Users : ~At(v, "send")  BY <1>1 DEF Live, Ported, Reading, At
<1>3. net.peer = {}  BY <1>2 DEF Started
<1>4. Ordered(0)  BY <1>2 DEF Sent, Numbered
<1>5. \A s \in net'.peer : s = Synchronize  BY <1>1, <1>3, PutIs
<1>6. Synchronize.flags = {"syn"} /\ Synchronize.seq = 0 /\ ~Carries(Synchronize)
  BY DEF Synchronize, Segment, NoSegment, Carries
<1>7. Shipped'
  <2>1. \A s \in net'.peer : s.flags = {"syn"} /\ s.seq = 0 /\ ~Carries(s)  BY <1>5, <1>6
  <2> QED BY <2>1 DEF Shipped, Carries
<1>8. log.written = 0 /\ peer.next = 0
  <2>1. log.written \in Nat /\ peer.next \in Nat  BY DEF Types, LogType, PeerType
  <2> QED BY <1>1, <1>4, <2>1 DEF Ordered
<1>9. Numbered'
  <2>1. \A v \in Users : ~At(v, "send")'  BY <1>1, <1>2, GotoIs DEF At
  <2>2. Ordered(1)'
    <3>1. \A s \in net'.peer : ~Carries(s)  BY <1>5, <1>6
    <3> QED BY <1>1, <1>8, <3>1 DEF Ordered, Carries
  <2>3. Ordered(sock.seq)'  BY <1>1, <2>2 DEF Ordered
  <2> QED BY <2>1, <2>3 DEF Numbered
<1>10. Taken'
  <2>1. peer.state = "Listen"
    <3>1. Len(peer.got) \in Nat  BY LenProperties DEF Types, PeerType
    <3>2. peer.state # "Listen" => Len(peer.got) + 1 = 0  BY <1>1, <1>8 DEF Sent, Taken
    <3> QED BY <3>1, <3>2 DEF Types, PeerType
  <2> QED BY <1>1, <2>1 DEF Sent, Taken, Counts
<1> QED BY <1>7, <1>9, <1>10 DEF Sent

LEMMA SendSent ==
  ASSUME Types, Types', Safe, Started, Sent, NEW u \in Users, Send(u)
  PROVE  Sent'
<1>1. PICK len \in 1..MaxLength :
       /\ user' = [user EXCEPT ![u].pc = "send",
            ![u].seg = [flags |-> {"ack", "psh"}, seq |-> sock.seq, ackn |-> sock.remote,
                        first |-> log.written + 1, len |-> len]]
       /\ sock' = [sock EXCEPT !.seq = Advance(@, len)]
  BY DEF Send
<1>2. ~sock.closed /\ sock.state = "Established" /\ UNCHANGED <<net, peer, log>> /\ At(u, "idle") /\ u \in Senders
  BY DEF Send
<1>3. sock.seq \in Nat /\ sock.seq > 0 /\ len \in Nat /\ len > 0  BY <1>2, SegmentTypes DEF Types, SockType, Started
<1>4. sock'.seq = sock.seq + len /\ sock'.closed = sock.closed  BY <1>1 DEF Types, SockType, Advance
<1>5. /\ \A v \in Users : v # u => user'[v] = user[v]
      /\ user'[u].pc = "send" /\ user'[u].seg.seq = sock.seq /\ user'[u].seg.len = len
      /\ user'[u].seg.first = log.written + 1 /\ user'[u].seg.flags = {"ack", "psh"}
  BY <1>1 DEF Types, UserType
<1>6. \A v \in Users : ~At(v, "send")  BY <1>2, SendersAssumption DEF Sent, Numbered, At
<1>7. Shipped'  BY <1>2, <1>4 DEF Sent, Shipped, Carries
<1>8. Ordered(sock.seq)  BY <1>6 DEF Sent, Numbered
<1>9. ASSUME NEW b, b = sock.seq PROVE Ordered(b)'
  BY <1>2, <1>4, <1>8, <1>9 DEF Ordered, Carries
<1>10. Numbered'
  <2>1. \A v \in Users : At(v, "send")' => v = u  BY <1>5, <1>6 DEF At
  <2>2. Ordered(user[u].seg.seq)'  BY <1>5, <1>9
  <2> QED BY <1>2, <1>3, <1>4, <1>5, <2>1, <2>2 DEF Numbered, At
<1>11. Taken'  BY <1>2 DEF Sent, Taken, Counts
<1> QED BY <1>7, <1>10, <1>11 DEF Sent

LEMMA SegmentNumbers == \A s \in Segments : s.seq \in Nat /\ s.len \in Nat /\ s.first \in Nat
BY SegmentTypes DEF Segments

(* A segment goes out, is lost or fails to leave: then the bytes are not   *)
(* written, and the numbers go on without them.                            *)
LEMMA SendTCPSent ==
  ASSUME Types, Types', Safe, Sent, NEW u \in Users, SendTCP(u)
  PROVE  Sent'
<1> DEFINE seg == user[u].seg
           W == log.written
           b == seg.seq
<1>1. /\ Ordered(b) /\ b > 0 /\ seg.len > 0 /\ b + seg.len = sock.seq /\ seg.first = W + 1
      /\ seg.flags = {"ack", "psh"} /\ u \in Senders /\ At(u, "send")
  BY DEF SendTCP, Sent, Numbered
<1>2. /\ W \in Nat /\ b \in Nat /\ seg.len \in Nat /\ sock.seq \in Nat /\ peer.next \in Nat
      /\ \A s \in net.peer : s.seq \in Nat /\ s.len \in Nat /\ s.first \in Nat
  <2>1. seg \in Segments /\ net.peer \subseteq Segments  BY DEF Types, UserType, NetOK
  <2>2. W \in Nat /\ sock.seq \in Nat /\ peer.next \in Nat  BY DEF Types, LogType, SockType, PeerType
  <2> QED BY <2>1, <2>2, SegmentNumbers
<1>3. UNCHANGED <<sock, peer>> /\ ~sock.closed
  BY <1>1 DEF SendTCP, At, Safe, Closed, Closing
<1>4. \A v \in Users : ~At(v, "send")'
  <2>1. \A v \in Users : At(v, "send") => v = u  BY <1>1, SendersAssumption DEF Sent, Numbered
  <2> QED BY <2>1, IdleIs DEF SendTCP, At
<1>5. /\ \A s \in net'.peer : s \in net.peer \/ s = seg
      /\ \/ UNCHANGED <<net, log>>
         \/ log'.written = W + seg.len
  BY PutIs DEF SendTCP, Types, LogType
<1> HIDE DEF seg
<1>6. W < b /\ peer.next <= b  BY <1>1, <1>2, <1>3 DEF Ordered
<1>7. CASE UNCHANGED <<net, log>>
  <2>1. Shipped'  BY <1>3, <1>7 DEF Sent, Shipped, Carries, Sound
  <2>2. Taken'  BY <1>3, <1>7 DEF Sent, Taken, Counts
  <2>3. \A s \in net.peer : Carries(s) => s.seq + s.len <= b  BY <1>1 DEF Ordered
  <2>4. W < sock.seq /\ sock.seq # W + 1 /\ peer.next < sock.seq  BY <1>1, <1>2, <1>6
  <2>5. \A s \in net.peer : Carries(s) => s.seq + s.len < sock.seq  BY <1>1, <1>2, <2>3
  <2>6. Ordered(sock.seq)'  BY <1>2, <1>3, <1>7, <2>4, <2>5 DEF Ordered, Carries, Sound
  <2>7. Numbered'  BY <1>4, <2>6 DEF Numbered
  <2> QED BY <2>1, <2>2, <2>7 DEF Sent
<1>8. CASE log'.written = W + seg.len
  <2>1. Carries(seg) /\ (Sound(seg) <=> b = W + 1)  BY <1>1 DEF Carries, Sound, seg
  <2>2. /\ b = W + 1 => \A s \in net.peer : Carries(s) => Sound(s)
        /\ b > W + 1 => /\ peer.next < b
                        /\ \A s \in net.peer : Carries(s) /\ Sound(s) => s.seq + s.len < b
        /\ \A s \in net.peer : Carries(s) => s.seq + s.len <= b
    BY <1>1 DEF Ordered
  <2>3. Shipped'
    <3> SUFFICES ASSUME NEW s \in net'.peer
                 PROVE  /\ "syn" \in s.flags => s.seq = 0 /\ ~Carries(s)
                        /\ "fin" \in s.flags => ~Carries(s) /\ sock'.closed /\ s.seq = sock'.seq
                        /\ Carries(s) => 0 < s.first /\ s.first <= s.seq /\ s.first + s.len <= log'.written + 1
                        /\ Carries(s) /\ ~Sound(s) =>
                             /\ peer'.next < s.seq
                             /\ \A r \in net'.peer : Carries(r) /\ Sound(r) => r.seq + r.len < s.seq
      BY DEF Shipped, Carries, Sound
    <3>1. CASE s \in net.peer
      <4>1. Carries(s) /\ ~Sound(s) => ~Sound(seg)
        <5>1. Carries(s) /\ ~Sound(s) => b # W + 1  BY <2>2, <3>1
        <5> QED BY <2>1, <5>1
      <4>2. /\ "syn" \in s.flags => s.seq = 0 /\ ~Carries(s)
            /\ "fin" \in s.flags => ~Carries(s) /\ sock.closed /\ s.seq = sock.seq
            /\ Carries(s) => 0 < s.first /\ s.first <= s.seq /\ s.first + s.len <= W + 1
            /\ Carries(s) /\ ~Sound(s) =>
                 /\ peer.next < s.seq
                 /\ \A r \in net.peer : Carries(r) /\ Sound(r) => r.seq + r.len < s.seq
        BY <3>1 DEF Sent, Shipped
      <4>3. Carries(s) => s.first + s.len <= log'.written + 1  BY <1>2, <1>8, <3>1, <4>2
      <4> QED BY <1>3, <1>5, <4>1, <4>2, <4>3
    <3>2. CASE s = seg
      <4>1. seg.first <= b /\ 0 < seg.first /\ seg.first + seg.len <= log'.written + 1
        BY <1>1, <1>2, <1>6, <1>8 DEF seg
      <4>2. "syn" \notin seg.flags /\ "fin" \notin seg.flags  BY <1>1
      <4>3. ASSUME ~Sound(seg)
            PROVE  peer.next < b /\ \A r \in net'.peer : Carries(r) /\ Sound(r) => r.seq + r.len < b
        <5>1. b > W + 1  BY <1>2, <1>6, <2>1, <4>3
        <5> QED BY <1>5, <2>2, <4>3, <5>1
      <4> QED BY <1>3, <3>2, <4>1, <4>2, <4>3
    <3> QED BY <1>5, <3>1, <3>2
  <2>4. Ordered(sock.seq)'
    <3>1. log'.written < sock.seq  BY <1>1, <1>2, <1>6, <1>8
    <3>2. \A s \in net'.peer : Carries(s) => s.seq + s.len <= sock.seq  BY <1>1, <1>2, <1>5, <2>2
    <3>3. sock.seq = log'.written + 1 <=> b = W + 1  BY <1>1, <1>2, <1>8
    <3>4. sock.seq > log'.written + 1 <=> b > W + 1  BY <1>1, <1>2, <1>8
    <3>5. b = W + 1 => \A s \in net'.peer : Carries(s) => Sound(s)  BY <1>5, <2>1, <2>2
    <3>6. peer.next <= sock.seq /\ b < sock.seq  BY <1>1, <1>2, <1>6
    <3>7. b > W + 1 => /\ peer.next < sock.seq
                      /\ \A s \in net'.peer : Carries(s) /\ Sound(s) => s.seq + s.len < sock.seq
      <4>1. ASSUME b > W + 1, NEW s \in net'.peer, Carries(s), Sound(s) PROVE s.seq + s.len < sock.seq
        <5>1. s \in net.peer  BY <1>2, <1>5, <2>1, <4>1
        <5>2. s.seq + s.len < b  BY <2>2, <4>1, <5>1
        <5> QED BY <1>2, <3>6, <5>1, <5>2
      <4>2. b > W + 1 => peer.next < sock.seq  BY <1>2, <2>2, <3>6
      <4> QED BY <4>1, <4>2
    <3> QED BY <1>3, <3>1, <3>2, <3>3, <3>4, <3>5, <3>6, <3>7 DEF Ordered, Carries, Sound
  <2>5. Numbered'  BY <1>4, <2>4 DEF Numbered
  <2>6. Taken'
    <3>1. Len(peer.got) \in Nat /\ W <= log'.written  BY <1>2, <1>8, LenProperties DEF Types, PeerType
    <3>2. Len(peer.got) <= W  BY DEF Sent, Taken
    <3>3. Len(peer'.got) <= log'.written  BY <1>2, <1>3, <1>8, <3>1, <3>2 DEF Types, PeerType, LogType
    <3> QED BY <1>3, <3>3 DEF Sent, Taken, Counts
  <2> QED BY <2>3, <2>5, <2>6 DEF Sent
<1> QED BY <1>5, <1>7, <1>8

(* The peer takes what comes next, and so only what is sound.              *)
LEMMA PeerReceiveSent ==
  ASSUME Types, Types', Safe, Started, Sent, PeerReceive
  PROVE  Sent'
<1>1. UNCHANGED <<sock, user, log>>  BY DEF PeerReceive
<1>2. PICK seg \in net.peer :
       /\ Take("peer", seg)
       /\ LET acks == "ack" \in seg.flags /\ peer.una < seg.ackn
              opens == peer.state = "Open" \/ (peer.state = "Syn" /\ acks)
              takes == opens /\ seg.seq = peer.next
          IN peer' =
            IF "syn" \in seg.flags
            THEN IF peer.state = "Listen" THEN [peer EXCEPT !.state = "Syn", !.next = seg.seq + 1]
                 ELSE peer
            ELSE IF "rst" \in seg.flags
            THEN IF peer.state \in {"Syn", "Open"} THEN [peer EXCEPT !.state = "Closed"] ELSE peer
            ELSE [peer EXCEPT
                   !.state = IF opens THEN "Open" ELSE @,
                   !.una = IF opens /\ acks THEN seg.ackn ELSE @,
                   !.got = IF takes THEN @ \o Bytes(seg.first, seg.len) ELSE @,
                   !.next = IF takes THEN @ + seg.len + (IF "fin" \in seg.flags THEN 1 ELSE 0)
                            ELSE @]
  BY DEF PeerReceive
<1> DEFINE fin == IF "fin" \in seg.flags THEN 1 ELSE 0
           new == Bytes(seg.first, seg.len)
<1>3. net'.peer \subseteq net.peer  BY <1>2, TakeIs
<1>4. /\ log.written \in Nat /\ sock.seq \in Nat /\ peer.next \in Nat
      /\ \A s \in net.peer : s.seq \in Nat /\ s.len \in Nat /\ s.first \in Nat
  <2>1. net.peer \subseteq Segments  BY DEF Types, NetOK
  <2>2. log.written \in Nat /\ sock.seq \in Nat /\ peer.next \in Nat  BY DEF Types, LogType, SockType, PeerType
  <2> QED BY <2>1, <2>2, SegmentNumbers
<1>5. /\ "syn" \in seg.flags => seg.seq = 0 /\ ~Carries(seg)
      /\ "fin" \in seg.flags => ~Carries(seg) /\ sock.closed /\ seg.seq = sock.seq
      /\ Carries(seg) => 0 < seg.first /\ seg.first + seg.len <= log.written + 1
      /\ Carries(seg) /\ ~Sound(seg) => peer.next < seg.seq
      /\ ~Carries(seg) => seg.len = 0
  BY <1>4 DEF Sent, Shipped, Carries
<1>p. sock.seq > 0  BY DEF Started
<1>6. CASE /\ peer'.next = peer.next /\ peer'.got = peer.got /\ (peer'.state = "Listen" <=> peer.state = "Listen")
  BY <1>1, <1>3, <1>6, QuietSent DEF At
<1>7. CASE "syn" \in seg.flags /\ peer.state = "Listen"
  <2>1. peer'.next = 1 /\ peer'.got = peer.got /\ peer'.state = "Syn"
    BY <1>2, <1>5, <1>7 DEF Types, PeerType
  <2>2. peer.got = <<>> /\ Len(peer'.got) = 0 /\ peer.next = 0  BY <1>7, <2>1 DEF Sent, Taken
  <2>3. Taken'  BY <1>1, <2>1, <2>2 DEF Sent, Taken, Counts
  <2>4. \A s \in net.peer : Carries(s) /\ ~Sound(s) => 1 < s.seq
    BY <1>4 DEF Sent, Shipped, Sound
  <2>5. Shipped'  BY <1>1, <1>3, <2>1, <2>4 DEF Sent, Shipped, Carries, Sound
  <2>6. ASSUME NEW b \in Nat, Ordered(b), b > 0 PROVE Ordered(b)'
    <3>1. 1 <= b /\ (b > log.written + 1 => 1 < b)  BY <1>4, <2>6
    <3> QED BY <1>1, <1>3, <2>1, <2>6, <3>1 DEF Ordered, Carries, Sound
  <2>7. Numbered'
    <3>1. ASSUME \A u \in Users : ~At(u, "send") PROVE Ordered(sock.seq)'
      <4>1. Ordered(sock.seq)  BY <3>1 DEF Sent, Numbered
      <4>2. \A b \in Nat : b = sock.seq => Ordered(b)'  BY <1>p, <2>6, <4>1
      <4> QED BY <1>1, <1>4, <4>2
    <3>2. ASSUME NEW u \in Users, At(u, "send") PROVE Ordered(user[u].seg.seq)'
      <4>1. Ordered(user[u].seg.seq) /\ user[u].seg.seq > 0  BY <3>2 DEF Sent, Numbered
      <4>2. user[u].seg.seq \in Nat  BY SegmentNumbers DEF Types, UserType
      <4>3. \A b \in Nat : b = user[u].seg.seq => Ordered(b)'  BY <2>6, <4>1
      <4> QED BY <1>1, <4>2, <4>3
    <3> QED BY <1>1, <3>1, <3>2 DEF Sent, Numbered, At
  <2> QED BY <2>3, <2>5, <2>7 DEF Sent
<1>8. CASE /\ "syn" \notin seg.flags /\ peer.state # "Listen" /\ peer'.state # "Listen" /\ seg.seq = peer.next
           /\ peer'.got = peer.got \o new /\ peer'.next = peer.next + seg.len + fin
  <2>a. seg.first \in Nat /\ seg.len \in Nat /\ seg.seq \in Nat  BY <1>4
  <2>1. peer.got \in Seq(Nat) /\ new \in Seq(Nat) /\ Len(new) = seg.len
    <3>1. peer.got \in Seq(Nat)  BY DEF Types, PeerType
    <3> QED BY <2>a, <3>1, BytesTypes
  <2>2. Len(peer.got) \in Nat  BY <2>1, LenProperties
  <2>3. /\ Counts(peer.got, 0) /\ Len(peer.got) <= log.written
        /\ \/ peer.next = Len(peer.got) + 1
           \/ sock.closed /\ peer.next = Len(peer.got) + 2 /\ peer.next = sock.seq + 1
    BY <1>8 DEF Sent, Taken
  <2>4. PICK b \in Nat : Ordered(b) /\ b <= sock.seq /\ (sock.closed => b = sock.seq)
    <3>1. CASE \A u \in Users : ~At(u, "send")  BY <1>4, <3>1 DEF Sent, Numbered
    <3>2. CASE \E u \in Users : At(u, "send")
      <4>1. PICK u \in Users : At(u, "send")  BY <3>2
      <4>2. Ordered(user[u].seg.seq) /\ user[u].seg.seq + user[u].seg.len = sock.seq /\ user[u].seg.seq \in Nat
            /\ user[u].seg.len \in Nat
        BY <4>1, SegmentNumbers DEF Sent, Numbered, Types, UserType
      <4>3. ~sock.closed  BY <4>1 DEF At, Safe, Closed, Closing
      <4> QED BY <1>4, <4>2, <4>3
    <3> QED BY <3>1, <3>2
  <2>5. CASE Carries(seg)
    <3>1. fin = 0 /\ seg.len > 0 /\ Sound(seg) /\ seg.first = peer.next
      BY <1>4, <1>5, <1>8, <2>5 DEF Carries, Sound
    <3>2. seg.seq + seg.len <= b  BY <2>4, <2>5 DEF Ordered
    <3>3. peer.next = Len(peer.got) + 1  BY <1>4, <1>8, <2>2, <2>3, <2>4, <3>1, <3>2
    <3>4. Counts(new, Len(peer.got))  BY <1>4, <1>5, <2>2, <2>5, <3>1, <3>3, BytesCount
    <3> HIDE DEF new, fin
    <3>5. Counts(peer'.got, 0) /\ Len(peer'.got) = Len(peer.got) + seg.len
      <4>1. Counts(peer.got \o new, 0) /\ Len(peer.got \o new) = Len(peer.got) + Len(new)
        BY <2>1, <2>3, <3>4, CountsAppend
      <4> QED BY <1>8, <2>1, <4>1
    <3>6. peer'.next = peer.next + seg.len /\ peer'.next = Len(peer.got) + seg.len + 1 /\ peer'.next = seg.seq + seg.len
      <4>1. peer'.next = peer.next + seg.len  BY <1>4, <1>8, <3>1
      <4>2. Len(peer.got) + 1 + seg.len = Len(peer.got) + seg.len + 1  BY <2>a, <2>2
      <4> QED BY <1>8, <3>3, <4>1, <4>2
    <3>7. Len(peer.got) + seg.len <= log.written  BY <1>4, <1>5, <2>2, <2>5, <3>1, <3>3, SMTT(60)
    <3>8. Taken'  BY <1>1, <1>8, <3>5, <3>6, <3>7 DEF Taken
    <3>9. \A s \in net.peer : Carries(s) /\ ~Sound(s) => peer'.next < s.seq
      BY <2>5, <3>1, <3>6 DEF Sent, Shipped
    <3>10. Shipped'  BY <1>1, <1>3, <3>9 DEF Sent, Shipped, Carries, Sound
    <3>11. ASSUME NEW n \in Nat, Ordered(n) PROVE Ordered(n)'
      <4>1. peer'.next <= n /\ (n > log.written + 1 => peer'.next < n)
        BY <2>5, <3>1, <3>6, <3>11 DEF Ordered
      <4> QED BY <1>1, <1>3, <3>11, <4>1 DEF Ordered, Carries, Sound
    <3>12. Numbered'
      <4>1. ASSUME \A u \in Users : ~At(u, "send") PROVE Ordered(sock.seq)'
        <5>1. Ordered(sock.seq)  BY <4>1 DEF Sent, Numbered
        <5>2. \A n \in Nat : n = sock.seq => Ordered(n)'  BY <3>11, <5>1
        <5> QED BY <1>1, <1>4, <5>2
      <4>2. ASSUME NEW u \in Users, At(u, "send") PROVE Ordered(user[u].seg.seq)'
        <5>1. Ordered(user[u].seg.seq)  BY <4>2 DEF Sent, Numbered
        <5>2. user[u].seg.seq \in Nat  BY SegmentNumbers DEF Types, UserType
        <5>3. \A n \in Nat : n = user[u].seg.seq => Ordered(n)'  BY <3>11, <5>1
        <5> QED BY <1>1, <5>2, <5>3
      <4> QED BY <1>1, <4>1, <4>2 DEF Sent, Numbered, At
    <3> QED BY <3>8, <3>10, <3>12 DEF Sent
  <2>6. CASE ~Carries(seg) /\ "fin" \in seg.flags
    <3>1. sock.closed /\ seg.seq = sock.seq /\ seg.len = 0 /\ fin = 1 /\ b = sock.seq  BY <1>5, <2>4, <2>6
    <3>2. \A u \in Users : ~At(u, "send")  BY <3>1 DEF At, Safe, Closed, Closing
    <3>3. peer.next = sock.seq /\ peer'.next = sock.seq + 1  BY <1>4, <1>8, <3>1
    <3>4. peer.next = Len(peer.got) + 1  BY <1>4, <2>3, <3>3
    <3>5. Counts(peer'.got, 0) /\ Len(peer'.got) = Len(peer.got)
      <4>1. Counts(new, Len(peer.got))  BY <2>1, <3>1 DEF Counts
      <4> HIDE DEF new
      <4>2. Counts(peer.got \o new, 0) /\ Len(peer.got \o new) = Len(peer.got) + Len(new)
        BY <2>1, <2>3, <4>1, CountsAppend
      <4> QED BY <1>8, <2>1, <2>2, <3>1, <4>2
    <3>6. Taken'
      <4>1. peer'.next = Len(peer'.got) + 2  BY <2>2, <3>3, <3>4, <3>5
      <4> QED BY <1>1, <1>8, <2>3, <3>1, <3>3, <3>5, <4>1 DEF Taken
    <3>7. \A s \in net.peer : Carries(s) => s.seq + s.len <= sock.seq  BY <2>4, <3>1 DEF Ordered
    <3>8. \A s \in net.peer : Carries(s) => Sound(s)
      <4>1. ASSUME NEW s \in net.peer, Carries(s), ~Sound(s) PROVE FALSE
        <5>1. peer.next < s.seq  BY <4>1 DEF Sent, Shipped
        <5>2. s.seq + s.len <= sock.seq /\ s.len \in Nat /\ s.seq \in Nat  BY <1>4, <3>7, <4>1
        <5> QED BY <1>4, <3>3, <5>1, <5>2
      <4> QED BY <4>1
    <3>9. Shipped'  BY <1>1, <1>3, <3>8 DEF Sent, Shipped, Carries, Sound
    <3>10. ~(b > log.written + 1)  BY <1>4, <2>4, <3>1, <3>3 DEF Ordered
    <3>11. Ordered(sock.seq)'
      BY <1>1, <1>3, <2>4, <3>1, <3>3, <3>8, <3>10 DEF Ordered, Carries, Sound
    <3>12. Numbered'  BY <1>1, <3>2, <3>11 DEF Numbered, At
    <3> QED BY <3>6, <3>9, <3>12 DEF Sent
  <2>7. CASE ~Carries(seg) /\ "fin" \notin seg.flags
    <3>1. seg.len = 0 /\ fin = 0 /\ peer'.next = peer.next  BY <1>4, <1>5, <1>8, <2>7
    <3>2. new = <<>>  BY <2>1, <3>1
    <3>3. peer'.got = peer.got  BY <1>8, <2>1, <3>2
    <3> QED BY <1>6, <1>8, <3>1, <3>3
  <2> QED BY <2>5, <2>6, <2>7
<1>9. CASE "syn" \notin seg.flags /\ "rst" \notin seg.flags
  <2> DEFINE acks == "ack" \in seg.flags /\ peer.una < seg.ackn
             opens == peer.state = "Open" \/ (peer.state = "Syn" /\ acks)
             takes == opens /\ seg.seq = peer.next
  <2> HIDE DEF acks
  <2>1. peer' = [peer EXCEPT
                   !.state = IF opens THEN "Open" ELSE @,
                   !.una = IF opens /\ acks THEN seg.ackn ELSE @,
                   !.got = IF takes THEN @ \o new ELSE @,
                   !.next = IF takes THEN @ + seg.len + fin ELSE @]
    BY <1>2, <1>9 DEF acks
  <2> HIDE DEF new, fin
  <2>2. /\ peer'.state = IF opens THEN "Open" ELSE peer.state
        /\ peer'.got = IF takes THEN peer.got \o new ELSE peer.got
        /\ peer'.next = IF takes THEN peer.next + seg.len + fin ELSE peer.next
    BY <2>1 DEF Types, PeerType
  <2>3. CASE takes
    BY <1>8, <1>9, <2>2, <2>3
  <2>4. CASE ~takes  BY <1>6, <2>2, <2>4
  <2> QED BY <2>3, <2>4
<1>10. CASE "syn" \in seg.flags /\ peer.state # "Listen"
  <2>1. peer' = peer  BY <1>2, <1>10
  <2> QED BY <1>6, <2>1
<1>11. CASE "syn" \notin seg.flags /\ "rst" \in seg.flags
  <2>1. (peer' = [peer EXCEPT !.state = "Closed"] /\ peer.state # "Listen") \/ peer' = peer  BY <1>2, <1>11
  <2>2. /\ peer'.next = peer.next /\ peer'.got = peer.got /\ (peer'.state = "Listen" <=> peer.state = "Listen")
    BY <2>1 DEF Types, PeerType
  <2> QED BY <1>6, <2>2
<1> QED BY <1>7, <1>9, <1>10, <1>11

LEMMA PeerSent ==
  ASSUME Types, Types', Safe, Started, Sent, Peers
  PROVE  Sent'
<1>1. CASE PeerReceive  BY <1>1, PeerReceiveSent
<1>2. CASE PeerSynchronize \/ PeerSend \/ PeerAcknowledge \/ PeerFinish \/ PeerReset
  <2>1. UNCHANGED <<sock, user, log>> /\ \E seg : Put("socket", seg)
    BY <1>2 DEF PeerSynchronize, PeerSend, PeerAcknowledge, PeerFinish, PeerReset, PeerPut
  <2>2. net'.peer = net.peer  BY <2>1, PutIs
  <2>3. /\ peer'.next = peer.next /\ peer'.got = peer.got /\ (peer'.state = "Listen" <=> peer.state = "Listen")
    BY <1>2 DEF PeerSynchronize, PeerSend, PeerAcknowledge, PeerFinish, PeerReset, Types, PeerType
  <2> QED BY <2>1, <2>2, <2>3, QuietSent DEF At
<1> QED BY <1>1, <1>2 DEF Peers

(* The interface thread sends no data.                                     *)
LEMMA InterfaceSent ==
  ASSUME Types, Types', Safe, Safe', Sent, Deliver \/ OnReceive \/ OnReceiveEnd
  PROVE  Sent'
<1>1. UNCHANGED <<peer, log>>  BY DEF Deliver, OnReceive, OnReceiveEnd
<1>2. sock'.seq = sock.seq /\ sock'.closed = sock.closed
  BY DEF Deliver, OnReceive, OnReceiveEnd, OnReset, OnSyn, OnEstablished, OnFinWait1, OnFinWait2, OnWait, OnLastAck,
         Ignore, Stray, Over, Types, SockType
<1>3. ASSUME NEW u \in Users
      PROVE  user'[u].seg = user[u].seg /\ (At(u, "send")' <=> At(u, "send"))
  <2>1. UNCHANGED user \/ \E W : user' = Woken(W)
    BY DEF Deliver, OnReceive, OnReceiveEnd, OnReset, OnSyn, OnEstablished, OnFinWait1, OnFinWait2, OnWait, OnLastAck,
           Ignore, UnblockAll
  <2> QED BY <2>1, WokenIs DEF At
<1> DEFINE Plain(s) == /\ ~Carries(s) /\ "syn" \notin s.flags
                       /\ "fin" \in s.flags => sock'.closed /\ s.seq = sock.seq
<1>4. \A s \in net'.peer : s \in net.peer \/ Plain(s)
  <2>1. CASE Deliver \/ OnReceiveEnd
    <3>1. net'.peer \subseteq net.peer  BY <2>1, TakeIs DEF Deliver, OnReceiveEnd
    <3> QED BY <3>1
  <2>2. CASE OnReceive
    <3>1. \/ UNCHANGED net \/ (\E ackn : Put("peer", Acknowledge(sock, ackn))) \/ Put("peer", Reset(sock))
          \/ (\E ackn : Put("peer", FinishAcknowledge(sock, ackn))) /\ OnFinWait1
      BY <2>2 DEF OnReceive, OnReset, OnSyn, OnEstablished, OnFinWait1, OnFinWait2, OnWait, OnLastAck, Ignore
    <3>2. OnFinWait1 => sock.closed  BY DEF OnFinWait1, Handles, Safe, Handled, Closed, Open
    <3>3. \A ackn : Plain(Acknowledge(sock, ackn))
      BY DEF Acknowledge, Segment, NoSegment, Carries
    <3>4. Plain(Reset(sock))  BY DEF Reset, Segment, NoSegment, Carries
    <3>5. sock.closed => \A ackn : Plain(FinishAcknowledge(sock, ackn))
      BY <1>2 DEF FinishAcknowledge, Segment, NoSegment, Carries
    <3> HIDE DEF Plain
    <3> QED BY <3>1, <3>2, <3>3, <3>4, <3>5, PutIs
  <2> QED BY <2>1, <2>2
<1> QED BY <1>1, <1>2, <1>3, <1>4, QuietSent

LEMMA StepSent ==
  IInv /\ IInv' /\ Received /\ Started /\ Sent /\ [Next]_vars => Started' /\ Sent'
<1> SUFFICES ASSUME IInv, IInv', Received, Started, Sent, [Next]_vars PROVE Started' /\ Sent'  OBVIOUS
<1>1. Types /\ Safe /\ Safe'  BY TypesAgree DEF IInv, Safe
<1>2. Types'
  <2>1. TypeOK'  BY DEF IInv
  <2> QED BY <2>1 DEF TypeOK, Types, SockType, UserType, Locs, RxType, NetOK, PeerType, LogType
<1>3. ASSUME NEW u \in Users, Calls(u) \/ Receives(u) \/ Sends(u) \/ Closes(u) PROVE Started' /\ Sent'
  <2>1. Started'  BY <1>1, <1>2, <1>3, UserStarted
  <2>2. CASE Connect(u)
    <3>1. Live  BY <2>2 DEF Connect, Received
    <3> QED BY <1>1, <1>2, <2>1, <2>2, <3>1, ConnectSent
  <2>3. CASE Sends(u)  BY <1>1, <1>2, <2>1, <2>3, SendSent, SendTCPSent DEF Sends
  <2>4. CASE (Calls(u) \/ Receives(u) \/ Closes(u)) /\ ~Connect(u)  BY <1>1, <1>2, <2>1, <2>4, CallSent
  <2> QED BY <1>3, <2>2, <2>3, <2>4
<1>4. ASSUME Deliver \/ OnReceive \/ OnReceiveEnd PROVE Started' /\ Sent'
  BY <1>1, <1>2, <1>4, OtherStarted, InterfaceSent
<1>5. ASSUME Peers PROVE Started' /\ Sent'
  BY <1>1, <1>2, <1>5, OtherStarted, PeerSent
<1>6. ASSUME UNCHANGED vars PROVE Started' /\ Sent'
  <2>1. Started'  BY <1>6 DEF vars, Started
  <2>2. Sent'  BY <1>1, <1>2, <1>6, QuietSent DEF vars, At
  <2> QED BY <2>1, <2>2
<1> QED BY <1>3, <1>4, <1>5, <1>6 DEF Next, Calls, Receives, Sends, Closes, Peers

LEMMA AlwaysSent == Spec => [](Started /\ Sent)
<1>1. Init => Started /\ Sent  BY InitSent
<1>2. IInv /\ IInv' /\ Received /\ (Started /\ Sent) /\ [Next]_vars => (Started /\ Sent)'
  BY StepSent
<1> QED BY AlwaysIInv, AlwaysReceived, <1>1, <1>2, PTL DEF Spec
-----------------------------------------------------------------------------
LEMMA BytesPrefix ==
  ASSUME NEW q \in Seq(Nat), NEW r \in Seq(Nat), Counts(q, 0), Counts(r, 0), Len(q) <= Len(r)
  PROVE  /\ Inbound!IsPrefix(q, r) /\ Inbound!Grows(q, r)
         /\ Outbound!IsPrefix(q, r) /\ Outbound!Grows(q, r)
BY CountsPrefix DEF Inbound!IsPrefix, Inbound!Grows, Outbound!IsPrefix, Outbound!Grows

(* Nothing that was sent or received is taken back.                        *)
LEMMA UserForward ==
  ASSUME Types, Types', NEW u \in Users, Calls(u) \/ Receives(u) \/ Sends(u) \/ Closes(u)
  PROVE  Len(log.read) <= Len(log'.read) /\ log.written <= log'.written /\ UNCHANGED peer
<1>1. UNCHANGED peer
  BY DEF Calls, Receives, Sends, Closes, Connect, ConnectInterrupted, Connected, ConnectAcknowledge, Receive,
         ReceiveTest, ReceiveBlock, ReceiveInterrupted, ReceiveRead, Send, SendTCP, Close, CloseTest, CloseFinish
<1>2. log.read \in Seq(Nat) /\ log.written \in Nat  BY DEF Types, LogType
<1>3. Len(log.read) \in Nat  BY <1>2, LenProperties
<1>4. CASE SendTCP(u)
  <2>1. user[u].seg.len \in Nat  BY SegmentNumbers DEF Types, UserType
  <2>2. log'.read = log.read /\ log'.written \in {log.written, log.written + user[u].seg.len}
    BY <1>4 DEF SendTCP, Types, LogType
  <2> QED BY <1>1, <1>2, <1>3, <2>1, <2>2
<1>5. CASE ReceiveRead(u)
  <2>1. PICK n : log' \in {[log EXCEPT !.reset = TRUE], [log EXCEPT !.read = @ \o SubSeq(sock.inbound, 1, n)]}
                 /\ n \in 0..Len(sock.inbound)
    <3> DEFINE n == IF user[u].len < Len(sock.inbound) THEN user[u].len ELSE Len(sock.inbound)
    <3>1. sock.inbound \in Seq(Nat)  BY DEF Types, SockType
    <3>2. user[u].len \in Nat  BY SegmentTypes DEF Types, UserType
    <3>3. Len(sock.inbound) \in Nat  BY <3>1, LenProperties
    <3>4. n \in 0..Len(sock.inbound)  BY <3>2, <3>3 DEF Types, SockType
    <3>5. log' \in {[log EXCEPT !.reset = TRUE], [log EXCEPT !.read = @ \o SubSeq(sock.inbound, 1, n)]}
      BY <1>5 DEF ReceiveRead
    <3> QED BY <3>4, <3>5, SMTT(60)
  <2> DEFINE old == SubSeq(sock.inbound, 1, n)
  <2>2. old \in Seq(Nat) /\ Len(old) \in Nat
    <3>1. sock.inbound \in Seq(Nat) /\ \A i \in 1..n : sock.inbound[i] \in Nat
      BY <2>1, ElementOfSeq, LenProperties DEF Types, SockType
    <3> QED BY <2>1, <3>1, SubSeqProperties, LenProperties
  <2> HIDE DEF old
  <2>3. Len(log.read \o old) = Len(log.read) + Len(old)  BY <1>2, <2>2, ConcatProperties
  <2>4. log'.written = log.written /\ log'.read \in {log.read, log.read \o old}
    BY <2>1 DEF Types, LogType, old
  <2> QED BY <1>1, <1>2, <1>3, <2>2, <2>3, <2>4
<1>6. CASE ~SendTCP(u) /\ ~ReceiveRead(u)
  <2>1. UNCHANGED log
    BY <1>6 DEF Calls, Receives, Sends, Closes, Connect, ConnectInterrupted, Connected, ConnectAcknowledge, Receive,
         ReceiveTest, ReceiveBlock, ReceiveInterrupted, Send, Close, CloseTest, CloseFinish
  <2> QED BY <1>1, <1>2, <1>3, <2>1
<1> QED BY <1>4, <1>5, <1>6

LEMMA PeerForward ==
  ASSUME Types, Types', Peers
  PROVE  peer.sent <= peer'.sent /\ Len(peer.got) <= Len(peer'.got) /\ UNCHANGED log
<1>1. UNCHANGED log
  BY DEF Peers, PeerSynchronize, PeerSend, PeerAcknowledge, PeerFinish, PeerReset, PeerReceive, PeerPut
<1>2. peer.sent \in Nat /\ peer'.sent \in Nat /\ peer.got \in Seq(Nat)  BY DEF Types, PeerType
<1>3. Len(peer.got) \in Nat  BY <1>2, LenProperties
<1>4. CASE PeerReceive
  <2>1. PICK seg \in net.peer : peer'.sent = peer.sent /\ peer'.got \in {peer.got, peer.got \o Bytes(seg.first, seg.len)}
    BY <1>4, ZenonT(60) DEF PeerReceive, Types, PeerType
  <2> DEFINE new == Bytes(seg.first, seg.len)
  <2>2. new \in Seq(Nat) /\ Len(new) \in Nat
    <3>1. seg \in Segments  BY DEF Types, NetOK
    <3> QED BY <3>1, SegmentNumbers, BytesTypes
  <2> HIDE DEF new
  <2>3. Len(peer.got \o new) = Len(peer.got) + Len(new)  BY <1>2, <2>2, ConcatProperties
  <2>4. peer'.got = peer.got \/ peer'.got = peer.got \o new  BY <2>1 DEF new
  <2>5. Len(peer.got) <= Len(peer.got) + Len(new)  BY <1>3, <2>2 DEF Types, PeerType
  <2> QED BY <1>1, <1>2, <1>3, <2>1, <2>3, <2>4, <2>5
<1>5. CASE PeerSend
  <2>1. PICK n : peer' = [peer EXCEPT !.sent = IF n > @ THEN n ELSE @]  BY <1>5 DEF PeerSend
  <2>2. peer'.sent = (IF n > peer.sent THEN n ELSE peer.sent) /\ peer'.got = peer.got
    BY <2>1 DEF Types, PeerType
  <2> QED BY <1>1, <1>2, <1>3, <2>2
<1>6. CASE PeerSynchronize \/ PeerAcknowledge \/ PeerFinish \/ PeerReset
  <2>1. peer'.sent = peer.sent /\ peer'.got = peer.got
    BY <1>6 DEF PeerSynchronize, PeerAcknowledge, PeerFinish, PeerReset, Types, PeerType
  <2> QED BY <1>1, <1>2, <1>3, <2>1
<1> QED BY <1>4, <1>5, <1>6, ZenonT(60) DEF Peers

Forward == /\ Len(log.read) <= Len(log'.read) /\ log.written <= log'.written
           /\ peer.sent <= peer'.sent /\ Len(peer.got) <= Len(peer'.got)

LEMMA StepForward ==
  ASSUME Types, Types', [Next]_vars
  PROVE  Forward
<1>1. /\ Len(log.read) <= Len(log.read) /\ log.written <= log.written
      /\ peer.sent <= peer.sent /\ Len(peer.got) <= Len(peer.got)
  <2>1. Len(log.read) \in Nat /\ Len(peer.got) \in Nat  BY LenProperties DEF Types, LogType, PeerType
  <2>2. log.written \in Nat /\ peer.sent \in Nat  BY DEF Types, LogType, PeerType
  <2> QED BY <2>1, <2>2
<1>2. ASSUME NEW u \in Users, Calls(u) \/ Receives(u) \/ Sends(u) \/ Closes(u) PROVE Forward
  BY <1>1, <1>2, UserForward DEF Forward
<1>3. CASE Peers  BY <1>1, <1>3, PeerForward DEF Forward
<1>4. CASE Deliver \/ OnReceive \/ OnReceiveEnd \/ UNCHANGED vars
  <2>1. UNCHANGED <<peer, log>>  BY <1>4 DEF Deliver, OnReceive, OnReceiveEnd, vars
  <2> QED BY <1>1, <2>1 DEF Forward
<1> QED BY <1>2, <1>3, <1>4 DEF Next, Calls, Receives, Sends, Closes, Peers

LEMMA StreamStart == Init => Inbound!Init /\ Outbound!Init
<1> SUFFICES ASSUME Init PROVE Inbound!Init /\ Outbound!Init  OBVIOUS
<1>1. log.read = <<>> /\ log.written = 0 /\ peer.sent = 0 /\ peer.got = <<>>  BY DEF Init
<1>2. Bytes(1, 0) = <<>>
  <2>1. Bytes(1, 0) \in Seq(Nat) /\ Len(Bytes(1, 0)) = 0  BY BytesTypes
  <2> QED BY <2>1
<1> QED BY <1>1, <1>2 DEF Inbound!Init, Outbound!Init

LEMMA StreamStep ==
  ASSUME Types, Types', ReadInOrder, ReadInOrder', Taken, Taken', [Next]_vars
  PROVE  Inbound!Next /\ Outbound!Next
<1>1. Forward  BY StepForward
<1>2. ASSUME NEW n \in Nat PROVE Bytes(1, n) \in Seq(Nat) /\ Len(Bytes(1, n)) = n /\ Counts(Bytes(1, n), 0)
  <2>1. Counts(Bytes(1, n), 1 - 1) /\ 1 - 1 = 0  BY BytesCount
  <2> QED BY <2>1, BytesTypes
<1>3. /\ log.written \in Nat /\ log'.written \in Nat /\ peer.sent \in Nat /\ peer'.sent \in Nat
      /\ log.read \in Seq(Nat) /\ log'.read \in Seq(Nat) /\ peer.got \in Seq(Nat) /\ peer'.got \in Seq(Nat)
  BY DEF Types, LogType, PeerType
<1>4. /\ Counts(log.read, 0) /\ Counts(log'.read, 0) /\ Counts(peer.got, 0) /\ Counts(peer'.got, 0)
      /\ Len(log'.read) <= peer'.sent /\ Len(peer'.got) <= log'.written
  BY DEF ReadInOrder, Taken, Counts
<1>5. Inbound!Next
  <2>1. Inbound!Grows(Bytes(1, peer.sent), Bytes(1, peer'.sent))  BY <1>1, <1>2, <1>3, BytesPrefix DEF Forward
  <2>2. Inbound!Grows(log.read, log'.read)  BY <1>1, <1>3, <1>4, BytesPrefix DEF Forward
  <2>3. Inbound!IsPrefix(log'.read, Bytes(1, peer'.sent))  BY <1>2, <1>3, <1>4, BytesPrefix
  <2> QED BY <2>1, <2>2, <2>3 DEF Inbound!Next, Bytes
<1>6. Outbound!Next
  <2>1. Outbound!Grows(Bytes(1, log.written), Bytes(1, log'.written))  BY <1>1, <1>2, <1>3, BytesPrefix DEF Forward
  <2>2. Outbound!Grows(peer.got, peer'.got)  BY <1>1, <1>3, <1>4, BytesPrefix DEF Forward
  <2>3. Outbound!IsPrefix(peer'.got, Bytes(1, log'.written))  BY <1>2, <1>3, <1>4, BytesPrefix
  <2> QED BY <2>1, <2>2, <2>3 DEF Outbound!Next, Bytes
<1> QED BY <1>5, <1>6

(* Whatever the network loses, repeats or reorders, readers and the peer   *)
(* get a prefix of what the other side sent, and it only grows (OnReceive, *)
(* SendTo).                                                                *)
THEOREM StreamsInOrder == Spec => Implements
<1>1. IInv /\ IInv' /\ Received /\ Received' /\ (Started /\ Sent) /\ (Started /\ Sent)' /\ [Next]_vars
        => Inbound!Next /\ Outbound!Next
  <2> SUFFICES ASSUME IInv, IInv', Received, Received', Sent, Sent', [Next]_vars PROVE Inbound!Next /\ Outbound!Next
    OBVIOUS
  <2>1. Types  BY TypesAgree DEF IInv
  <2>2. Types'
    <3>1. TypeOK'  BY DEF IInv
    <3> QED BY <3>1 DEF TypeOK, Types, SockType, UserType, Locs, RxType, NetOK, PeerType, LogType
  <2> QED BY <2>1, <2>2, StreamStep DEF Received, Sent
<1> QED BY AlwaysIInv, AlwaysReceived, AlwaysSent, StreamStart, <1>1, PTL
        DEF Spec, Implements, Inbound!Spec, Outbound!Spec
=============================================================================
