------------------------------ MODULE Messages ------------------------------
(***************************************************************************)
(* The two endpoints of a message channel (Message.cpp) and the system     *)
(* calls on them: queues of messages with a semaphore each, calls that     *)
(* await a message of a given id, watchers, and an end that goes away.     *)
(* Tests of `peer` and of an empty queue are made without a lock.          *)
(***************************************************************************)
EXTENDS Integers, Sequences, FiniteSets

CONSTANTS
    Clients, Servers,   \* the threads that have a handle of one end or the other
    IDs, Awaited,       \* message ids, and those a call awaits
    Limit,              \* messageQueueLimit
    MaxSent,            \* bound on messages
    MaxCalls,           \* bound on a thread's calls
    None

Threads == Clients \cup Servers
Ends == {"client", "server"}
Own(t) == IF t \in Clients THEN "client" ELSE "server"
Other(e) == IF e = "client" THEN "server" ELSE "client"

VARIABLES
    end,       \* an endpoint: queue, queueLock, semaphore, waitingResponse, waiting, peer, alive
    thr,       \* each thread's place and what it sends or awaits
    calls,     \* how many calls a thread has made: its frames
    log,       \* history: what each end was sent and has read, answers given and taken
    fault,     \* history: a thread followed a null peer
    dangling   \* history: an answer was written into a frame that was gone

vars == <<end, thr, calls, log, fault, dangling>>

Idle == [pc |-> "idle", msg |-> None, await |-> None, reply |-> None]

\* CreatePair.
Init ==
    /\ end = [e \in Ends |-> [queue |-> <<>>, lock |-> None, sem |-> Limit, blocked |-> <<>>, response |-> <<>>,
                              waiting |-> {}, peer |-> TRUE, alive |-> TRUE]]
    /\ thr = [t \in Threads |-> Idle] /\ calls = [t \in Threads |-> 0]
    /\ log = [e \in Ends |-> [sent |-> <<>>, read |-> <<>>]]
    /\ fault = FALSE /\ dangling = FALSE

At(t, pc) == thr[t].pc = pc
Peer(t) == Other(Own(t))
HasPeer(t) == end[Own(t)].peer
\* GetHandle: an idle thread whose process has the handle.
Handled(t) == thr[t] = Idle /\ end[Own(t)].alive /\ calls[t] < MaxCalls /\ calls' = [calls EXCEPT ![t] = @ + 1]
Moves(t, pc) == thr' = [thr EXCEPT ![t].pc = pc]

\* A thread that has been through Write awaits its answer or is done.
Written(t) == IF thr[t].await = None THEN Idle ELSE [thr[t] EXCEPT !.pc = "await"]

(* The queue's semaphore (see Semaphore); a wait that is interrupted keeps *)
(* its decrement.                                                          *)
Lowered(e, t) == [end EXCEPT ![e].sem = @ - 1, ![e].blocked = IF end[e].sem <= 0 THEN Append(@, t) ELSE @]
Raised(en, e) == [en EXCEPT ![e].sem = @ + 1, ![e].blocked = IF @ = <<>> THEN @ ELSE Tail(@)]
Without(q, t) ==
    LET at == {i \in DOMAIN q : q[i] = t}  i == CHOOSE i \in at : TRUE
    IN  IF at = {} THEN q ELSE SubSeq(q, 1, i - 1) \o SubSeq(q, i + 1, Len(q))
Freed(e) == IF end[e].blocked = <<>> THEN {} ELSE {Head(end[e].blocked)}
-----------------------------------------------------------------------------
(* MessageEndpoint::Read.                                                  *)

SysEndpointDequeue(t) ==
    /\ Handled(t) /\ end[Own(t)].queue # <<>>
    /\ Moves(t, "read")
    /\ UNCHANGED <<end, log, fault, dangling>>

\* Returns with queueLock taken when another reader was faster.
ReadNothing(t) ==
    LET e == Own(t) IN
    /\ At(t, "read") /\ end[e].lock = None /\ end[e].queue = <<>>
    /\ end' = [end EXCEPT ![e].lock = t]
    /\ Moves(t, "idle")
    /\ UNCHANGED <<calls, log, fault, dangling>>

\* A reader raises the semaphore of its own end, not that of the sender.
ReadTake(t) ==
    LET e == Own(t) IN
    /\ At(t, "read") /\ end[e].lock = None /\ end[e].queue # <<>>
    /\ end' = Raised([end EXCEPT ![e].queue = Tail(@)], e)
    /\ thr' = [u \in Threads |-> IF u = t THEN Idle
                                 ELSE IF u \in Freed(e) THEN [thr[u] EXCEPT !.pc = "put"] ELSE thr[u]]
    /\ log' = [log EXCEPT ![e].read = Append(@, Head(end[e].queue))]
    /\ UNCHANGED <<calls, fault, dangling>>
-----------------------------------------------------------------------------
(* MessageEndpoint::Write, Call.                                           *)

Number == Len(log["client"].sent) + Len(log["server"].sent) + Cardinality({t \in Threads : thr[t].msg # None})
Message(t, i) == [id |-> i, from |-> t, call |-> calls[t]]

SysEndpointQueue(t, i) ==
    /\ Handled(t) /\ HasPeer(t) /\ Number < MaxSent
    /\ thr' = [thr EXCEPT ![t].pc = "respond", ![t].msg = Message(t, i)]
    /\ UNCHANGED <<end, log, fault, dangling>>

\* Call lists its answer before it sends.
SysEndpointCall(t, i, r) ==
    /\ Handled(t) /\ HasPeer(t) /\ Number < MaxSent
    /\ thr' = [thr EXCEPT ![t].pc = "respond", ![t].msg = Message(t, i), ![t].await = r]
    /\ end' = [end EXCEPT ![Own(t)].response = Append(@, [id |-> r, to |-> t, call |-> calls[t] + 1])]
    /\ UNCHANGED <<log, fault, dangling>>

\* A thread whose peer went away after its test follows a null pointer: the kernel stops it there.
FollowNull(t) ==
    /\ thr[t].pc \in {"respond", "put"} /\ ~HasPeer(t)
    /\ fault' = TRUE /\ Moves(t, "fault")
    /\ UNCHANGED <<end, calls, log, dangling>>

WriteTestsPeer(t) ==
    /\ thr[t].pc = "respond" /\ thr[t].await # None /\ ~HasPeer(t)
    /\ thr' = [thr EXCEPT ![t] = Written(t)]
    /\ UNCHANGED <<end, calls, log, fault, dangling>>

\* The first call of the peer that awaits this id, if there is one.
Awaiting(e, i) == {k \in DOMAIN end[e].response : end[e].response[k].id = i}
FirstAwaiting(e, i) == CHOOSE k \in Awaiting(e, i) : \A l \in Awaiting(e, i) : k <= l
InFrame(r) == calls[r.to] = r.call /\ thr[r.to].await = r.id

WriteRespond(t) ==
    LET e == Peer(t)  m == thr[t].msg  k == FirstAwaiting(e, m.id)  r == end[e].response[k] IN
    /\ At(t, "respond") /\ HasPeer(t) /\ Awaiting(e, m.id) # {}
    /\ end' = [end EXCEPT ![e].response = SubSeq(@, 1, k - 1) \o SubSeq(@, k + 1, Len(@))]
    /\ thr' = [u \in Threads |-> IF u = t THEN Written(t)
                                 ELSE IF u = r.to /\ InFrame(r) THEN [thr[u] EXCEPT !.reply = m] ELSE thr[u]]
    /\ dangling' = (dangling \/ ~InFrame(r))
    /\ UNCHANGED <<calls, log, fault>>

\* Nobody awaits it: it takes a place in the queue.
WritePermit(t) ==
    /\ At(t, "respond") /\ HasPeer(t) /\ Awaiting(Peer(t), thr[t].msg.id) = {}
    /\ end' = Lowered(Own(t), t)
    /\ Moves(t, IF end[Own(t)].sem <= 0 THEN "blocked" ELSE "put")
    /\ UNCHANGED <<calls, log, fault, dangling>>

WriteInterrupted(t) ==
    /\ At(t, "blocked")
    /\ end' = [end EXCEPT ![Own(t)].blocked = Without(@, t)]
    /\ thr' = [thr EXCEPT ![t] = Written(t)]
    /\ UNCHANGED <<calls, log, fault, dangling>>

\* queueLock is kept while the watchers are told.
WritePut(t) ==
    LET e == Peer(t) IN
    /\ At(t, "put") /\ HasPeer(t) /\ end[e].lock = None
    /\ end' = [end EXCEPT ![e].queue = Append(@, thr[t].msg), ![e].lock = t]
    /\ log' = [log EXCEPT ![e].sent = Append(@, thr[t].msg)]
    /\ Moves(t, "signal")
    /\ UNCHANGED <<calls, fault, dangling>>

Told(e) == end[e].waiting
WriteSignal(t) ==
    LET e == Peer(t) IN
    /\ At(t, "signal")
    /\ end' = [end EXCEPT ![e].lock = None, ![e].waiting = @ \ Told(e)]
    /\ thr' = [u \in Threads |-> IF u = t THEN Written(t) ELSE IF u \in Told(e) THEN Idle ELSE thr[u]]
    /\ UNCHANGED <<calls, log, fault, dangling>>

CallReturns(t) ==
    /\ At(t, "await") /\ thr[t].reply # None
    /\ thr' = [thr EXCEPT ![t] = Idle]
    /\ UNCHANGED <<end, calls, log, fault, dangling>>

\* The answer stays listed, with the address of a frame that is gone.
CallInterrupted(t) ==
    /\ At(t, "await") /\ thr[t].reply = None
    /\ thr' = [thr EXCEPT ![t] = Idle]
    /\ UNCHANGED <<end, calls, log, fault, dangling>>
-----------------------------------------------------------------------------
(* SysKernelObjectWait: Watch, under waitingLock, and Unwatch.             *)

WatchUntested(t) == TRUE   \* mutant
WatchTest(t) == end[Own(t)].queue = <<>>
SysKernelObjectWait(t) ==
    /\ Handled(t) /\ WatchTest(t)
    /\ end' = [end EXCEPT ![Own(t)].waiting = @ \cup {t}]
    /\ Moves(t, "watching")
    /\ UNCHANGED <<log, fault, dangling>>

WaitInterrupted(t) ==
    /\ At(t, "watching")
    /\ end' = [end EXCEPT ![Own(t)].waiting = @ \ {t}]
    /\ Moves(t, "idle")
    /\ UNCHANGED <<calls, log, fault, dangling>>

\* ~MessageEndpoint: the last handle has been destroyed, and no call holds the object.
Destroy(e) ==
    /\ end[e].alive /\ \A t \in Threads : Own(t) = e => At(t, "idle")
    /\ ~\E t \in Threads : At(t, "signal")   \* a use of an endpoint that is freed under it is not followed
    /\ end' = [end EXCEPT ![e].alive = FALSE, ![Other(e)].peer = FALSE]
    /\ UNCHANGED <<thr, calls, log, fault, dangling>>

Next ==
    \/ \E t \in Threads :
        \/ SysEndpointDequeue(t) \/ ReadNothing(t) \/ ReadTake(t)
        \/ \E i \in IDs : SysEndpointQueue(t, i) \/ \E r \in Awaited : SysEndpointCall(t, i, r)
        \/ FollowNull(t) \/ WriteTestsPeer(t) \/ WriteRespond(t) \/ WritePermit(t) \/ WriteInterrupted(t)
        \/ WritePut(t) \/ WriteSignal(t) \/ CallReturns(t) \/ CallInterrupted(t)
        \/ SysKernelObjectWait(t) \/ WaitInterrupted(t)
    \/ \E e \in Ends : Destroy(e)

Spec == Init /\ [][Next]_vars
-----------------------------------------------------------------------------
(* Messages are read whole, once and in the order in which they were put   *)
(* on the queue, whoever reads and writes (Read, Write).                   *)
InOrder == \A e \in Ends : log[e].read \o end[e].queue = log[e].sent

(* An answer reaches the call that awaits its id, or a frame that was      *)
(* gone; nobody else takes it (Write, Call).                               *)
AnswerMatches == \A t \in Threads :
    thr[t].reply # None => thr[t].reply.id = thr[t].await /\ Own(thr[t].reply.from) # Own(t)

(* An end can have sent as much as the limit and what it has read itself:  *)
(* it is its own reading that makes room for what it writes (Read raises   *)
(* the semaphore on which Write of the same end waits).                    *)
RoomByReading == \A e \in Ends :
    /\ Len(log[Other(e)].sent) <= Limit + Len(log[e].read)
    /\ end[e].sem <= Limit + Len(log[e].read) - Len(log[Other(e)].sent)

(* A watcher waits only while the queue is empty, or while the writer that *)
(* has just put a message there is about to tell it (Watch, Write).        *)
WatcherTold == \A t \in Threads :
    At(t, "watching") => end[Own(t)].queue = <<>> \/ \E u \in Threads : At(u, "signal") /\ Peer(u) = Own(t)
=============================================================================
