------------------------------ MODULE Services ------------------------------
(***************************************************************************)
(* Services, their interfaces and the connections made through them        *)
(* (Service.cpp, Interface.cpp): names that are resolved with no lock,     *)
(* counted references that are dropped by a subtraction and a test, and a  *)
(* Connect that waits for an Accept through a record in its own frame.     *)
(***************************************************************************)
EXTENDS Naturals, Sequences, FiniteSets

CONSTANTS
    Servers,    \* threads that make services and accept
    Clients,    \* threads that connect
    Names,      \* names of services
    Services,   \* the services that are ever made; each makes at most one interface
    MaxCalls,   \* bound on the connections a client makes
    None

Threads == Servers \cup Clients

VARIABLES
    svc,        \* each service: its name, references, whether it is listed, alive, has its interface listed
    iface,      \* its interface: references, active, the connections that wait, the watchers, alive
    handles,    \* what each server has handles of: <<"svc", s>>, <<"iface", s>>
    thr,        \* each thread's place, its object, its service's name and the endpoint it got
    made,       \* endpoints: how many pairs there are
    calls,      \* how many connections each client has asked for
    raced       \* history: a reference was copied from a count that had already reached none

vars == <<svc, iface, handles, thr, made, calls, raced>>

Idle == [pc |-> "idle", obj |-> None, name |-> None, end |-> None]

Init ==
    /\ svc = [s \in Services |-> [name |-> None, refs |-> 0, listed |-> FALSE, alive |-> FALSE, has |-> FALSE]]
    /\ iface = [s \in Services |-> [refs |-> 0, active |-> FALSE, incoming |-> <<>>, waiting |-> {}, alive |-> FALSE]]
    /\ handles = [t \in Servers |-> {}]
    /\ thr = [t \in Threads |-> Idle]
    /\ made = 0 /\ calls = [c \in Clients |-> 0] /\ raced = FALSE

At(t, pc) == thr[t].pc = pc
Moves(t, pc, s) == thr' = [thr EXCEPT ![t].pc = pc, ![t].obj = s]
Rest(t) == [Idle EXCEPT !.end = thr[t].end]
Fresh == {s \in Services : svc[s].name = None}
Listed(n) == {s \in Services : svc[s].listed /\ svc[s].name = n}
-----------------------------------------------------------------------------
(* What a server does.                                                     *)

\* The name is looked for, and the service made, in separate steps.
SysCreateService(t, n) ==
    /\ t \in Servers /\ At(t, "idle") /\ Listed(n) = {}
    /\ thr' = [thr EXCEPT ![t].pc = "creating", ![t].name = n]
    /\ UNCHANGED <<svc, iface, handles, made, calls, raced>>

\* The list's entry does not count as a reference.
CreateService(t) ==
    /\ At(t, "creating") /\ Fresh # {}
    /\ LET s == CHOOSE s \in Fresh : TRUE IN
       /\ svc' = [svc EXCEPT ![s] = [name |-> thr[t].name, refs |-> 1, listed |-> TRUE, alive |-> TRUE, has |-> FALSE]]
       /\ handles' = [handles EXCEPT ![t] = @ \cup {<<"svc", s>>}]
    /\ thr' = [thr EXCEPT ![t] = Rest(t)]
    /\ UNCHANGED <<iface, made, calls, raced>>

\* A reference of the service's list and one of the handle.
CreateInterface(t, s) ==
    /\ At(t, "idle") /\ <<"svc", s>> \in handles[t] /\ ~svc[s].has /\ ~iface[s].alive
    /\ svc' = [svc EXCEPT ![s].has = TRUE]
    /\ iface' = [iface EXCEPT ![s] = [@ EXCEPT !.refs = 2, !.active = TRUE, !.alive = TRUE]]
    /\ handles' = [handles EXCEPT ![t] = @ \cup {<<"iface", s>>}]
    /\ UNCHANGED <<thr, made, calls, raced>>

\* Where on the interface's list a connection waits.
Incoming(s, c) == {i \in DOMAIN iface[s].incoming : iface[s].incoming[i] = c}

\* Accept takes the first connection off the list under its lock ...
AcceptedStays(s) == iface[s].incoming   \* mutant
Accepted(s) == Tail(iface[s].incoming)
Accept(t, s) ==
    /\ At(t, "idle") /\ <<"iface", s>> \in handles[t] /\ iface[s].incoming # <<>>
    /\ thr' = [thr EXCEPT ![t].pc = "pairing", ![t].obj = Head(iface[s].incoming)]
    /\ iface' = [iface EXCEPT ![s].incoming = Accepted(s)]
    /\ UNCHANGED <<svc, handles, made, calls, raced>>

\* ... and fills it in without: an end each, then the mark that it is done.
AcceptPair(t) ==
    LET c == thr[t].obj IN
    /\ At(t, "pairing")
    /\ made' = made + 1
    /\ thr' = [thr EXCEPT ![t] = [Idle EXCEPT !.end = made + 1], ![c].end = made + 1, ![c].pc = "paired"]
    /\ UNCHANGED <<svc, iface, handles, calls, raced>>

\* KernelObjectWatcher on an interface: it is not asked whether a connection waits.
Watch(t, s) ==
    /\ At(t, "idle") /\ <<"iface", s>> \in handles[t]
    /\ iface' = [iface EXCEPT ![s].waiting = @ \cup {t}]
    /\ Moves(t, "watching", s)
    /\ UNCHANGED <<svc, handles, made, calls, raced>>

Unwatch(t) ==
    /\ At(t, "watching")
    /\ iface' = [iface EXCEPT ![thr[t].obj].waiting = @ \ {t}]
    /\ thr' = [thr EXCEPT ![t] = Rest(t)]
    /\ UNCHANGED <<svc, handles, made, calls, raced>>

\* SysKernelObjectDestroy: the handle goes, and the reference with it, in two steps.
Destroy(t, h) ==
    /\ At(t, "idle") /\ h \in handles[t]
    /\ handles' = [handles EXCEPT ![t] = @ \ {h}]
    /\ svc' = IF h[1] = "svc" THEN [svc EXCEPT ![h[2]].refs = @ - 1] ELSE svc
    /\ iface' = IF h[1] = "iface" THEN [iface EXCEPT ![h[2]].refs = @ - 1] ELSE iface
    /\ Moves(t, IF h[1] = "svc" THEN "svc-test" ELSE "iface-test", h[2])
    /\ UNCHANGED <<made, calls, raced>>
-----------------------------------------------------------------------------
(* What a client does: SysInterfaceConnect.                                *)

Resolve(c, s) ==
    /\ c \in Clients /\ At(c, "idle") /\ calls[c] < MaxCalls
    /\ svc[s].listed
    /\ svc' = [svc EXCEPT ![s].refs = @ + 1]
    /\ raced' = (raced \/ svc[s].refs = 0)
    /\ calls' = [calls EXCEPT ![c] = @ + 1]
    /\ thr' = [thr EXCEPT ![c] = [Idle EXCEPT !.pc = "resolve", !.obj = s]]
    /\ UNCHANGED <<iface, handles, made>>

ResolveInterface(c) ==
    LET s == thr[c].obj IN
    /\ At(c, "resolve") /\ svc[s].has
    /\ iface' = [iface EXCEPT ![s].refs = @ + 1]
    /\ raced' = (raced \/ iface[s].refs = 0)
    /\ svc' = [svc EXCEPT ![s].refs = @ - 1]
    /\ Moves(c, "svc-test", s)
    /\ UNCHANGED <<handles, made, calls>>

NoInterface(c) ==
    LET s == thr[c].obj IN
    /\ At(c, "resolve") /\ ~svc[s].has
    /\ svc' = [svc EXCEPT ![s].refs = @ - 1]
    /\ thr' = [thr EXCEPT ![c].pc = "svc-test", ![c].end = 0]
    /\ UNCHANGED <<iface, handles, made, calls, raced>>

\* MessageInterface::Connect: the record is listed, then the watchers are told.
Connect(c) ==
    LET s == thr[c].obj IN
    /\ At(c, "connect") /\ iface[s].active
    /\ iface' = [iface EXCEPT ![s].incoming = Append(@, c)]
    /\ Moves(c, "tell", s)
    /\ UNCHANGED <<svc, handles, made, calls, raced>>

ConnectInactive(c) ==
    LET s == thr[c].obj IN
    /\ At(c, "connect") /\ ~iface[s].active
    /\ iface' = [iface EXCEPT ![s].refs = @ - 1]
    /\ thr' = [thr EXCEPT ![c].pc = "iface-test", ![c].end = 0]
    /\ UNCHANGED <<svc, handles, made, calls, raced>>

Signalled(s) == [t \in Threads |-> IF t \in iface[s].waiting THEN Idle ELSE thr[t]]
ConnectSignals(c) ==
    LET s == thr[c].obj IN
    /\ thr[c].pc \in {"tell", "paired"} /\ iface[s].waiting # {}
    /\ iface' = [iface EXCEPT ![s].waiting = {}]
    /\ thr' = [Signalled(s) EXCEPT ![c].pc = IF @ = "tell" THEN "waiting" ELSE "paired"]
    /\ UNCHANGED <<svc, handles, made, calls, raced>>

ConnectWaits(c) ==
    /\ At(c, "tell") /\ iface[thr[c].obj].waiting = {}
    /\ Moves(c, "waiting", thr[c].obj)
    /\ UNCHANGED <<svc, iface, handles, made, calls, raced>>

\* The loop ends with the endpoint, or with none when the interface was destroyed.
Connected(c) ==
    LET s == thr[c].obj IN
    /\ thr[c].pc \in {"paired", "refused"}
    /\ iface' = [iface EXCEPT ![s].refs = @ - 1]
    /\ Moves(c, "iface-test", s)
    /\ UNCHANGED <<svc, handles, made, calls, raced>>
-----------------------------------------------------------------------------
(* FancyRefPtr::Dereference: the count is read again after the             *)
(* subtraction, and nothing to drop means to delete.                       *)

\* A client goes on with the interface if it has got one.
After(t) == IF t \in Clients /\ thr[t].end = None THEN [thr[t] EXCEPT !.pc = "connect"] ELSE Rest(t)

\* ~Service: its interfaces lose a reference, its entry leaves the list.
TestService(t) ==
    LET s == thr[t].obj
        dies == svc[s].refs = 0 /\ svc[s].alive
        drops == dies /\ svc[s].has IN
    /\ At(t, "svc-test")
    /\ svc' = IF dies THEN [svc EXCEPT ![s].alive = FALSE, ![s].listed = FALSE, ![s].has = FALSE] ELSE svc
    /\ iface' = IF drops THEN [iface EXCEPT ![s].refs = @ - 1] ELSE iface
    /\ thr' = [thr EXCEPT ![t] = IF drops THEN [@ EXCEPT !.pc = "iface-test"] ELSE After(t)]
    /\ UNCHANGED <<handles, made, calls, raced>>

\* ~MessageInterface: the connections that wait are refused.
TestInterface(t) ==
    LET s == thr[t].obj  dies == iface[s].refs = 0 /\ iface[s].alive IN
    /\ At(t, "iface-test")
    /\ iface' = IF dies THEN [iface EXCEPT ![s].alive = FALSE, ![s].active = FALSE] ELSE iface
    /\ thr' = [u \in Threads |->
                  IF u = t THEN After(t)
                  ELSE IF dies /\ Incoming(s, u) # {} THEN [thr[u] EXCEPT !.pc = "refused", !.end = 0]
                  ELSE thr[u]]
    /\ UNCHANGED <<svc, handles, made, calls, raced>>

Next ==
    \/ \E t \in Servers :
        \/ \E n \in Names : SysCreateService(t, n)
        \/ CreateService(t) \/ AcceptPair(t) \/ Unwatch(t)
        \/ \E s \in Services : CreateInterface(t, s) \/ Accept(t, s) \/ Watch(t, s)
        \/ \E h \in handles[t] : Destroy(t, h)
    \/ \E c \in Clients :
        \/ \E s \in Services : Resolve(c, s)
        \/ ResolveInterface(c) \/ NoInterface(c) \/ Connect(c) \/ ConnectInactive(c)
        \/ ConnectSignals(c) \/ ConnectWaits(c) \/ Connected(c)
    \/ \E t \in Threads : TestService(t) \/ TestInterface(t)

Spec == Init /\ [][Next]_vars
-----------------------------------------------------------------------------
(* A connector is on the list of its interface from the moment it is put   *)
(* there until an Accept has it, and on one list only.                     *)
Inside(c) == thr[c].pc \in {"tell", "waiting"}
InHand(c) == {t \in Servers : At(t, "pairing") /\ thr[t].obj = c}
ConnectorListed == \A c \in Clients :
    LET s == thr[c].obj IN
    Inside(c) /\ ~raced => Cardinality(InHand(c)) + Cardinality(Incoming(s, c)) = 1

(* No two threads of one side hold ends of one channel: an Accept serves   *)
(* one Connect (Accept, Connect).                                          *)
Got(side) == {t \in side : thr[t].end \notin {None, 0}}
ConnectPaired == \A side \in {Servers, Clients} : \A t, u \in Got(side) : t # u => thr[t].end # thr[u].end

(* The interface a connector waits on is there, as its own reference keeps *)
(* it, so that only an Accept ends the wait: the refusal that destroying   *)
(* an interface gives to those who wait is never seen (Connect, Destroy).  *)
WaitsOnLive == ~raced => \A c \in Clients : Inside(c) => iface[thr[c].obj].alive
=============================================================================
