----------------------------- MODULE TimedBlock -----------------------------
(***************************************************************************)
(* Sleeping with a clock: Thread::Sleep and Thread::Block with a timeout   *)
(* (Kernel/src/Arch/x86_64/Thread.cpp), against the timer interrupt that   *)
(* ends them, a waker that calls ThreadBlocker::Unblock and a killer that  *)
(* calls Thread::Signal.                                                   *)
(*                                                                         *)
(* The timer interrupt is taken by the boot processor, in the middle of    *)
(* whatever runs there with interrupts enabled; until its handler returns  *)
(* nothing else runs on that processor.  Which contexts run on it is       *)
(* chosen at the start.  One action is one stretch of code that no other   *)
(* context can observe half done.                                          *)
(***************************************************************************)
EXTENDS Naturals, FiniteSets

CONSTANTS Sleeper, Wakers, Killers,
          Placements,      \* what may run on the boot processor: sets of contexts
          Operations,      \* what the sleeper calls: "sleep", "block"
          ShortTimeouts,   \* may a timeout be less than one tick?
          MaxCalls         \* bound: calls by one context

ASSUME OperationsAssumption == /\ Operations \subseteq {"sleep", "block"} /\ MaxCalls \in Nat
                               /\ Sleeper \notin Wakers \cup Killers

Nobody == "nobody"
Contexts == {Sleeper} \cup Wakers \cup Killers
w == Sleeper

VARIABLES
  thread,  \* Thread: state, blocker (not null), pending, timedOut; holder of stateLock
  slot,    \* the ThreadBlocker in the frame of the caller of Block; live until it returns
  clock,   \* is the event queued, is its handler about to wake the thread (irq), has
           \* the sleeper disabled interrupts (masked)?
  op,      \* the sleeper's operation, or the result of its last one
  pc, calls,
  aim,     \* which call's blocker a waker or killer works on
  onBoot,  \* the contexts that run on the boot processor (never changes)
  woken,   \* did a waker unblock the present blocker?
  stale    \* was a blocker used whose Block had returned?

vars == <<thread, slot, clock, op, pc, calls, aim, onBoot, woken, stale>>

NoBlocker == [lock |-> FALSE, thread |-> FALSE, shouldBlock |-> TRUE,
              interrupted |-> FALSE, live |-> FALSE]

Init == /\ thread = [state |-> "Running", blocker |-> FALSE, pending |-> FALSE,
                     timedOut |-> FALSE, stateLock |-> Nobody]
        /\ slot = NoBlocker
        /\ clock = [event |-> FALSE, irq |-> FALSE, masked |-> FALSE]
        /\ op = "none"
        /\ pc = [c \in Contexts |-> "idle"] /\ calls = [c \in Contexts |-> 0]
        /\ aim = [c \in Wakers \cup Killers |-> 0]
        /\ onBoot \in Placements /\ woken = FALSE /\ stale = FALSE

At(c, loc) == /\ pc[c] = loc
              /\ c \in onBoot => ~clock.irq /\ (clock.masked /\ w \in onBoot => c = w)
Goto(c, loc) == pc' = [pc EXCEPT ![c] = loc]
Call(c) == At(c, "idle") /\ calls[c] < MaxCalls /\ calls' = [calls EXCEPT ![c] = @ + 1]
Free == thread.stateLock = Nobody
Dangles(c) == ~slot.live \/ aim[c] # calls[w]
-----------------------------------------------------------------------------
(* Thread::Sleep.  The event is made with no lock held; the callback of a  *)
(* timeout of no ticks runs at once, in the constructor.                   *)
StartSleep ==
  /\ Call(w) /\ "sleep" \in Operations
  /\ \/ /\ clock' = [clock EXCEPT !.event = TRUE]
        /\ thread' = [thread EXCEPT !.timedOut = FALSE]
     \/ /\ ShortTimeouts /\ Free
        /\ thread' = [thread EXCEPT !.timedOut = TRUE, !.state = "Running"]
        /\ UNCHANGED clock
  /\ op' = "sleep" /\ Goto(w, "sleep")
  /\ UNCHANGED <<slot, aim, onBoot, woken, stale>>

SleepCommit ==
  /\ At(w, "sleep") /\ Free
  /\ thread' = [thread EXCEPT !.state = "Blocked"]
  /\ clock' = [clock EXCEPT !.masked = TRUE]
  /\ Goto(w, "check")
  /\ UNCHANGED <<slot, op, calls, aim, onBoot, woken, stale>>

(* "check if we timed out before setting to blocked", in Sleep and Block.  *)
MustAlwaysYield == TRUE                                                \* mutant
MustYield == ~thread.timedOut

Check ==
  /\ At(w, "check")
  /\ \/ MustYield /\ Goto(w, "yielded") /\ UNCHANGED thread
     \/ /\ ~MustYield /\ Free
        /\ thread' = [thread EXCEPT !.state = "Running"]
        /\ Goto(w, IF op = "sleep" THEN "destroy" ELSE "interrupt_self")
  /\ clock' = [clock EXCEPT !.masked = FALSE]
  /\ UNCHANGED <<slot, op, calls, aim, onBoot, woken, stale>>

MayAlwaysRun == TRUE                                                   \* mutant
MayRun == thread.state = "Running"

Resume ==
  /\ At(w, "yielded") /\ MayRun
  /\ Goto(w, "destroy")
  /\ UNCHANGED <<thread, slot, clock, op, calls, aim, onBoot, woken, stale>>

(* ~TimerEvent: the queue's lock is held by the handler while it runs.     *)
Destroy ==
  /\ At(w, "destroy") /\ ~clock.irq
  /\ clock' = [clock EXCEPT !.event = FALSE]
  /\ \/ op = "sleep" /\ Goto(w, "idle") /\ op' = "none"
     \/ op = "block" /\ Goto(w, "finish") /\ UNCHANGED op
  /\ UNCHANGED <<thread, slot, calls, aim, onBoot, woken, stale>>
-----------------------------------------------------------------------------
(* Thread::Block with a timeout.                                           *)
StartBlock ==
  /\ Call(w) /\ "block" \in Operations
  /\ slot' = [NoBlocker EXCEPT !.live = TRUE]
  /\ op' = "block" /\ woken' = FALSE
  /\ Goto(w, "block")
  /\ UNCHANGED <<thread, clock, aim, onBoot, stale>>

Leave(result) == /\ op' = result /\ Goto(w, "idle")
                 /\ slot' = [slot EXCEPT !.live = FALSE, !.lock = FALSE]

Block ==
  /\ At(w, "block") /\ ~slot.lock /\ Free
  /\ \/ /\ slot.shouldBlock
        /\ slot' = [slot EXCEPT !.lock = TRUE, !.thread = TRUE]
        /\ thread' = [thread EXCEPT !.stateLock = w]
        /\ clock' = [clock EXCEPT !.masked = TRUE]
        /\ Goto(w, "block_pending") /\ UNCHANGED op
     \/ ~slot.shouldBlock /\ Leave("woken") /\ UNCHANGED <<thread, clock>>
  /\ UNCHANGED <<calls, aim, onBoot, woken, stale>>

(* The event is made with interrupts enabled and both locks held: here the *)
(* callback of a timeout of no ticks waits for the lock its caller holds.  *)
BlockPending ==
  /\ At(w, "block_pending")
  /\ clock' = [clock EXCEPT !.masked = FALSE]
  /\ \/ /\ thread.pending
        /\ thread' = [thread EXCEPT !.stateLock = Nobody]
        /\ Leave("interrupted")
     \/ /\ ~thread.pending
        /\ thread' = [thread EXCEPT !.blocker = TRUE, !.timedOut = FALSE]
        /\ Goto(w, "construct")
        /\ UNCHANGED <<slot, op>>
  /\ UNCHANGED <<calls, aim, onBoot, woken, stale>>

Construct ==
  /\ At(w, "construct")
  /\ \/ /\ clock' = [clock EXCEPT !.event = TRUE]
        /\ Goto(w, "block_commit") /\ UNCHANGED thread
     \/ /\ ShortTimeouts
        /\ thread' = [thread EXCEPT !.timedOut = TRUE]
        /\ Goto(w, "self_unblock") /\ UNCHANGED clock
  /\ UNCHANGED <<slot, op, calls, aim, onBoot, woken, stale>>

(* Nothing follows "self_unblock": Unblock waits for its own caller.        *)
BlockCommit ==
  /\ At(w, "block_commit")
  /\ slot' = [slot EXCEPT !.lock = FALSE]
  /\ thread' = [thread EXCEPT !.state = "Blocked", !.stateLock = Nobody]
  /\ clock' = [clock EXCEPT !.masked = TRUE]
  /\ Goto(w, "check")
  /\ UNCHANGED <<op, calls, aim, onBoot, woken, stale>>

(* ThreadBlocker::Interrupt, in one piece when the thread calls it itself. *)
WakeSelf == /\ ~slot.lock /\ (slot.thread => Free)
            /\ thread' = [thread EXCEPT !.state = IF slot.thread THEN "Running" ELSE @]

InterruptSelf ==
  /\ At(w, "interrupt_self") /\ WakeSelf
  /\ slot' = [slot EXCEPT !.interrupted = TRUE, !.shouldBlock = FALSE]
  /\ Goto(w, "destroy")
  /\ UNCHANGED <<clock, op, calls, aim, onBoot, woken, stale>>

OutcomeUntimed == IF slot.interrupted THEN "interrupted" ELSE "woken"  \* mutant
Outcome == IF thread.timedOut THEN "timeout" ELSE IF slot.interrupted THEN "interrupted" ELSE "woken"

(* Thread::blocker keeps pointing at the blocker that goes away here.      *)
Finish ==
  /\ At(w, "finish")
  /\ IF thread.timedOut THEN WakeSelf ELSE UNCHANGED thread
  /\ Leave(Outcome)
  /\ UNCHANGED <<clock, calls, aim, onBoot, woken, stale>>

HandleSignal ==
  /\ At(w, "idle") /\ thread.pending
  /\ thread' = [thread EXCEPT !.pending = FALSE]
  /\ UNCHANGED <<slot, clock, op, pc, calls, aim, onBoot, woken, stale>>
-----------------------------------------------------------------------------
(* The timer handler dispatches the event with interrupts disabled; its    *)
(* callback sets blockTimedOut and calls Unblock.                          *)
TimerFires ==
  /\ clock.event /\ ~clock.irq /\ ~(clock.masked /\ w \in onBoot)
  /\ clock' = [clock EXCEPT !.event = FALSE, !.irq = TRUE]
  /\ thread' = [thread EXCEPT !.timedOut = TRUE]
  /\ UNCHANGED <<slot, op, pc, calls, aim, onBoot, woken, stale>>

TimerUnblocks ==
  /\ clock.irq /\ Free
  /\ thread' = [thread EXCEPT !.state = "Running"]
  /\ clock' = [clock EXCEPT !.irq = FALSE]
  /\ UNCHANGED <<slot, op, pc, calls, aim, onBoot, woken, stale>>
-----------------------------------------------------------------------------
(* ThreadBlocker::Unblock, called while the blocker is known to be there.  *)
Wake(c) ==
  /\ Call(c) /\ slot.live
  /\ slot' = [slot EXCEPT !.shouldBlock = FALSE]
  /\ aim' = [aim EXCEPT ![c] = calls[w]] /\ woken' = TRUE
  /\ Goto(c, "wake")
  /\ UNCHANGED <<thread, clock, op, onBoot, stale>>

(* Thread::Signal takes stateLock without disabling interrupts.            *)
Kill(c) ==
  /\ Call(c)
  /\ thread' = [thread EXCEPT !.pending = TRUE]
  /\ Goto(c, "signal")
  /\ UNCHANGED <<slot, clock, op, aim, onBoot, woken, stale>>

KillLock(c) ==
  /\ At(c, "signal") /\ Free
  /\ thread' = [thread EXCEPT !.stateLock = c]
  /\ Goto(c, "test")
  /\ UNCHANGED <<slot, clock, op, calls, aim, onBoot, woken, stale>>

KillTest(c) ==
  /\ At(c, "test")
  /\ thread' = [thread EXCEPT !.stateLock = Nobody]
  /\ aim' = [aim EXCEPT ![c] = calls[w]]
  /\ Goto(c, IF thread.blocker /\ thread.state = "Blocked" THEN "interrupt" ELSE "idle")
  /\ UNCHANGED <<slot, clock, op, calls, onBoot, woken, stale>>

KillInterrupt(c) ==
  /\ At(c, "interrupt")
  /\ slot' = [slot EXCEPT !.shouldBlock = FALSE, !.interrupted = TRUE]
  /\ stale' = (stale \/ Dangles(c))
  /\ Goto(c, "wake")
  /\ UNCHANGED <<thread, clock, op, calls, aim, onBoot, woken>>

(* Both go on to wake the thread, under the blocker's lock and stateLock.  *)
WakeThread(c) ==
  /\ At(c, "wake") /\ ~slot.lock
  /\ slot.thread => Free
  /\ thread' = [thread EXCEPT !.state = IF slot.thread THEN "Running" ELSE @]
  /\ stale' = (stale \/ Dangles(c))
  /\ Goto(c, "idle")
  /\ UNCHANGED <<slot, clock, op, calls, aim, onBoot, woken>>
-----------------------------------------------------------------------------
Continue == \/ SleepCommit \/ Check \/ Resume \/ Destroy \/ Block \/ BlockPending
            \/ Construct \/ BlockCommit \/ InterruptSelf \/ Finish
Signalling(c) == KillLock(c) \/ KillTest(c) \/ KillInterrupt(c) \/ WakeThread(c)

Next == \/ StartSleep \/ StartBlock \/ Continue \/ HandleSignal
        \/ TimerFires \/ TimerUnblocks
        \/ \E c \in Wakers : Wake(c) \/ WakeThread(c)
        \/ \E c \in Killers : Kill(c) \/ Signalling(c)

Spec == Init /\ [][Next]_vars

(* Whatever has been started is scheduled until it is over; the timer      *)
(* ticks, and what is due is dispatched.                                   *)
Fairness == /\ WF_vars(Continue)
            /\ WF_vars(TimerFires) /\ WF_vars(TimerUnblocks)
            /\ \A c \in Wakers : WF_vars(WakeThread(c))
            /\ \A c \in Killers : WF_vars(Signalling(c))

FairSpec == Spec /\ Fairness
-----------------------------------------------------------------------------
TypeOK ==
  /\ thread \in [state : {"Running", "Blocked"}, blocker : BOOLEAN, pending : BOOLEAN,
                 timedOut : BOOLEAN, stateLock : Contexts \cup {Nobody}]
  /\ slot \in [lock : BOOLEAN, thread : BOOLEAN, shouldBlock : BOOLEAN,
               interrupted : BOOLEAN, live : BOOLEAN]
  /\ clock \in [event : BOOLEAN, irq : BOOLEAN, masked : BOOLEAN]
  /\ onBoot \in Placements /\ woken \in BOOLEAN /\ stale \in BOOLEAN
  /\ op \in {"none", "sleep", "block", "woken", "interrupted", "timeout"}
  /\ pc \in [Contexts -> {"idle", "sleep", "check", "yielded", "destroy", "block",
                          "block_pending", "construct", "self_unblock", "block_commit",
                          "interrupt_self", "finish", "signal", "test", "interrupt", "wake"}]
  /\ op \in {"sleep", "block"} <=> pc[w] # "idle"
  /\ calls \in [Contexts -> 0 .. MaxCalls] /\ aim \in [Wakers \cup Killers -> 0 .. MaxCalls]

(* The assertion of acquireLock ("Deadlock!", Spinlock.h): nobody spins    *)
(* for stateLock while the processor he occupies is the one its holder     *)
(* needs, and nobody spins for it while he holds it.                       *)
NoSpinDeadlock == /\ clock.irq => thread.stateLock \notin onBoot
                  /\ pc[w] = "self_unblock" => thread.stateLock # w

(* Sleep and Block with a timeout always come to an end, unless somebody   *)
(* spins as above: the clock's wake-up is not lost, whenever it comes     *)
(* (Sleep, Block).                                                         *)
CallEnds == pc[w] # "idle" ~> pc[w] = "idle" \/ ~NoSpinDeadlock

(* A sleep is not cut short: it ends after its event has fired, unless a   *)
(* blocker was used whose Block had returned (Sleep).                      *)
SleepNotCut == stale \/ (op = "sleep" /\ pc[w] = "destroy" => thread.timedOut)

(* The result of Block tells why it ended: "woken" only if someone called  *)
(* Unblock on this blocker and the time was not up.                        *)
ResultTrue == TypeOK /\ (stale \/ (op = "woken" /\ pc[w] = "idle" => woken))
=============================================================================
