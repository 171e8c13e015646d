---------------------------- MODULE TimerQueue ----------------------------
(***************************************************************************)
(* The queue of timer events, Kernel/src/Arch/x86_64/Timer.cpp: "all       *)
(* waiting threads have a counter as an offset from the previous waiting   *)
(* thread".  An event is constructed and destroyed by threads on any       *)
(* processor under sleepQueueLock; the timer interrupt counts ticks, and   *)
(* where it finds the lock taken it leaves the tick in pendingTicks.       *)
(***************************************************************************)
EXTENDS Integers, Sequences, SequencesExt

CONSTANTS Events,     \* the timer events ever constructed
          Delays,     \* the delays asked for, in ticks: _us * frequency / 1000000
          MaxPending  \* bound: ticks that find the lock taken

ASSUME DelaysAssumption == Delays \subseteq Int
ASSUME MaxPendingAssumption == MaxPending \in Nat \ {0}

Nobody == "nobody"
Handler == "handler"
ASSUME NamesAssumption == Events \cap {Nobody, Handler} = {}

VARIABLES
  sleeping,  \* the list, front first
  offset,    \* TimerEvent::ticks
  cursor,    \* where the constructor's walk along the list is
  pending,   \* pendingTicks
  lock,      \* who holds sleepQueueLock
  phase,     \* "new", "arming" (in the constructor), "queued", "rung", "gone"
  asked,     \* the delay the constructor was given
  age        \* ticks of the clock since the event was queued, and those pending then

vars == <<sleeping, offset, cursor, pending, lock, phase, asked, age>>

Init == /\ sleeping = <<>>
        /\ offset = [e \in Events |-> 0]
        /\ cursor = 1 /\ pending = 0 /\ lock = Nobody
        /\ phase = [e \in Events |-> "new"]
        /\ asked = [e \in Events |-> 0] /\ age = [e \in Events |-> 0]

First == Head(sleeping)
FirstIsDue == sleeping # <<>> /\ offset[First] <= 0
-----------------------------------------------------------------------------
(* TimerEvent::TimerEvent.  A delay of no ticks calls back at once.        *)
RingsAtOnce(n) == n <= 0

Construct(e) ==
  /\ phase[e] = "new"
  /\ \E n \in Delays :
       /\ asked' = [asked EXCEPT ![e] = n]
       /\ \/ /\ RingsAtOnce(n)
             /\ phase' = [phase EXCEPT ![e] = "rung"] /\ UNCHANGED <<offset, lock>>
          \/ /\ ~RingsAtOnce(n) /\ lock = Nobody
             /\ phase' = [phase EXCEPT ![e] = "arming"]
             /\ offset' = [offset EXCEPT ![e] = n]
             /\ lock' = e
  /\ UNCHANGED <<sleeping, cursor, pending, age>>

(* The walk along the queue takes from the event the offsets it passes and *)
(* stops before the first event whose offset is not smaller than the rest. *)
Smaller(e) == cursor <= Len(sleeping) /\ offset[sleeping[cursor]] < offset[e]

Walk(e) ==
  /\ lock = e /\ Smaller(e)
  /\ offset' = [offset EXCEPT ![e] = @ - offset[sleeping[cursor]]]
  /\ cursor' = cursor + 1
  /\ UNCHANGED <<sleeping, pending, lock, phase, asked, age>>

Shorten(o, n) == o - n

Insert(e) ==
  /\ lock = e /\ ~Smaller(e)
  /\ sleeping' = InsertAt(sleeping, cursor, e)
  /\ offset' = [x \in Events |-> IF cursor <= Len(sleeping) /\ x = sleeping[cursor]
                                 THEN Shorten(offset[x], offset[e]) ELSE offset[x]]
  /\ phase' = [phase EXCEPT ![e] = "queued"]
  /\ age' = [age EXCEPT ![e] = pending]
  /\ lock' = Nobody /\ cursor' = 1
  /\ UNCHANGED <<pending, asked>>
-----------------------------------------------------------------------------
(* TimerEvent::~TimerEvent: an event that has not rung gives what is left  *)
(* of its offset to the next one in the list.                              *)
GivesNothing(i, x) == FALSE                                            \* mutant
Gives(i, x) == i < Len(sleeping) /\ x = sleeping[i + 1]

Destroy(e) ==
  /\ lock = Nobody
  /\ \/ \E i \in 1..Len(sleeping) :
          /\ sleeping[i] = e
          /\ sleeping' = RemoveAt(sleeping, i)
          /\ offset' = [x \in Events |-> IF Gives(i, x) THEN offset[x] + offset[e] ELSE offset[x]]
     \/ phase[e] = "rung" /\ UNCHANGED <<sleeping, offset>>
  /\ phase' = [phase EXCEPT ![e] = "gone"]
  /\ UNCHANGED <<cursor, pending, lock, asked, age>>
-----------------------------------------------------------------------------
(* Handler: the tick is counted, and spent if the lock is free.            *)
CountedWhenFree == IF lock = Nobody THEN 1 ELSE 0                      \* mutant
Counted == 1

Tick ==
  /\ lock = Nobody \/ (lock # Handler /\ pending < MaxPending)
  /\ pending' = pending + Counted
  /\ age' = [e \in Events |-> IF phase[e] = "queued" THEN age[e] + 1 ELSE age[e]]
  /\ lock' = IF lock = Nobody THEN Handler ELSE lock
  /\ UNCHANGED <<sleeping, offset, cursor, phase, asked>>

Spend ==
  /\ lock = Handler
  /\ sleeping # <<>> /\ pending > 0 /\ ~FirstIsDue
  /\ pending' = pending - 1
  /\ offset' = [offset EXCEPT ![First] = @ - 1]
  /\ UNCHANGED <<sleeping, cursor, lock, phase, asked, age>>

(* Dispatch, for the front event and for those that are due with it.       *)
Dispatch ==
  /\ lock = Handler /\ FirstIsDue
  /\ sleeping' = Tail(sleeping)
  /\ phase' = [phase EXCEPT ![First] = "rung"]
  /\ UNCHANGED <<offset, cursor, pending, lock, asked, age>>

BothSpent == sleeping = <<>> /\ pending = 0                           \* mutant
Spent == sleeping = <<>> \/ pending = 0

Release ==
  /\ lock = Handler /\ Spent /\ ~FirstIsDue
  /\ pending' = 0 /\ lock' = Nobody
  /\ UNCHANGED <<sleeping, offset, cursor, phase, asked, age>>

Next == \/ Tick \/ Spend \/ Dispatch \/ Release
        \/ \E e \in Events : Construct(e) \/ Walk(e) \/ Insert(e) \/ Destroy(e)

Spec == Init /\ [][Next]_vars

(* The clock goes on, and code that holds the lock goes on to release it.  *)
Fairness == /\ WF_vars(Tick) /\ WF_vars(Spend) /\ WF_vars(Dispatch) /\ WF_vars(Release)
            /\ \A e \in Events : WF_vars(Walk(e)) /\ WF_vars(Insert(e))
FairSpec == Spec /\ Fairness
-----------------------------------------------------------------------------
(* The list holds each queued event once; outside the handler its first    *)
(* event is not yet due; a constructor holds the lock it took.             *)
Typed ==
  /\ offset \in [Events -> Nat] /\ age \in [Events -> Nat]
  /\ asked \in [Events -> Delays \cup {0}]
  /\ phase \in [Events -> {"new", "arming", "queued", "rung", "gone"}]
  /\ pending \in Nat /\ lock \in Events \cup {Nobody, Handler}
  /\ \A e \in Events : phase[e] = "arming" <=> lock = e
  /\ cursor \in Nat \ {0} /\ (lock \notin Events => cursor = 1)

Listed ==
  /\ sleeping \in Seq({e \in Events : phase[e] = "queued"}) /\ cursor <= Len(sleeping) + 1
  /\ \A i, j \in 1..Len(sleeping) : sleeping[i] = sleeping[j] => i = j
  /\ \A e \in Events : phase[e] = "queued" => \E i \in 1..Len(sleeping) : sleeping[i] = e
  /\ lock # Handler /\ sleeping # <<>> => offset[First] > 0

TypeOK == Typed /\ Listed

(* The ticks an event has yet to wait, by its delay and the clock alone.   *)
Due(e) == asked[e] - (age[e] - pending)

(* An event does not ring before as many ticks as it was to wait for, and  *)
(* whenever the queue is free none is overdue, but for the ticks that came *)
(* while the queue was locked: "If the sleep queue is locked add ticks     *)
(* here" (Timer.cpp:16).                                                   *)
OnTime ==
  /\ \A e \in Events : phase[e] = "rung" => age[e] >= asked[e]
  /\ lock # Handler => \A e \in Events : phase[e] = "queued" => Due(e) > 0

(* Each counter is an offset from the event before: whatever is inserted   *)
(* and removed, the offsets up to an event add up to what it has to wait   *)
(* (the comment at Timer.cpp:20).                                          *)
Offsets == \A i \in 1..Len(sleeping) :
  offset[sleeping[i]] = Due(sleeping[i]) - (IF i = 1 THEN 0 ELSE Due(sleeping[i - 1]))

(* The list of offsets is an alarm clock: an event rings in the very tick  *)
(* that leaves it nothing to wait for.                                     *)
Alarm == [e \in Events |-> IF phase[e] \in {"new", "arming"} THEN "unset"
                          ELSE IF phase[e] = "queued" THEN "set" ELSE phase[e]]
ToGo == [e \in Events |-> IF phase[e] = "queued" THEN Due(e) ELSE 0]

Clock == INSTANCE AlarmClock WITH Alarms <- Events, alarm <- Alarm, togo <- ToGo
Implements == Clock!Spec

(* An event that is made rings or is destroyed.                            *)
EventRings == \A e \in Events : phase[e] \in {"arming", "queued"} ~> phase[e] \in {"rung", "gone"}
=============================================================================
