------------------------------ MODULE Semaphore ------------------------------
(***************************************************************************)
(* The counting semaphore of Kernel/include/Lock.h and Kernel/src/Lock.cpp *)
(* and, under it, the protocol by which a thread blocks, is woken and is   *)
(* interrupted by a signal (Thread::Block, Thread::Unblock, Thread::Signal *)
(* of Kernel/src/Arch/x86_64/Thread.cpp).                                  *)
(*                                                                         *)
(* Waiters are threads that call Wait, posters the contexts that call      *)
(* Signal, killers the contexts that call Thread::Signal on a waiter, on   *)
(* any number of processors.  One action is one stretch of code that       *)
(* another processor sees as a whole: up to the release of the lock it is  *)
(* made under, or to the next variable that is used without a lock.        *)
(*                                                                         *)
(* A waiter's SemaphoreBlocker is an object in the frame of Wait.  It has  *)
(* one slot here: the next Wait of the thread, called from the same place, *)
(* builds its blocker in the same slot, and until then the slot keeps what *)
(* it last held.  Nothing tells the other side that the object is gone.    *)
(***************************************************************************)
EXTENDS Integers, Sequences, FiniteSets, SequencesExt

CONSTANTS Waiters, Posters, Killers,
          InitialValue,     \* the argument of the constructor
          MaxWaits,         \* bound: calls of Wait by one waiter
          MaxPosts,         \* bound: calls of Signal by one poster
          MaxKills          \* bound: signals sent by one killer

ASSUME BoundsAssumption == /\ InitialValue \in Nat
                           /\ MaxWaits \in Nat /\ MaxPosts \in Nat /\ MaxKills \in Nat
ASSUME ContextsAssumption == /\ IsFiniteSet(Waiters) /\ Waiters # {}
                             /\ Waiters \cap (Posters \cup Killers) = {} /\ Posters \cap Killers = {}

Wakers == Posters \cup Killers
Contexts == Waiters \cup Wakers

VARIABLES
  sema,      \* the Semaphore: value, lock, blocked (the list) and num (its own count)
  slot,      \* each waiter's SemaphoreBlocker; live until its Wait returns
  thread,    \* each waiter's Thread: state, stateLock, blocker (does it point at
             \* the slot?) and pending (is a signal pending?)
  pc,        \* what a context does next
  aim,       \* the blocker a waker works on: whose, and built by which call
  calls,     \* calls made so far by each context
  permits,   \* history: how many Signal gave, and how many Wait took by returning false
  dangling,  \* has a waker used a blocker whose Wait had returned?
  panic      \* what stopped the machine, or "none"

vars == <<sema, slot, thread, pc, aim, calls, permits, dangling, panic>>

NewBlocker == [lock |-> FALSE, thread |-> FALSE, semaphore |-> TRUE,
               shouldBlock |-> TRUE, interrupted |-> FALSE, live |-> TRUE]

Init == /\ sema = [value |-> InitialValue, lock |-> FALSE, blocked |-> <<>>, num |-> 0]
        /\ slot = [w \in Waiters |-> [NewBlocker EXCEPT !.semaphore = FALSE, !.live = FALSE]]
        /\ thread = [w \in Waiters |-> [state |-> "Running", stateLock |-> FALSE,
                                        blocker |-> FALSE, pending |-> FALSE]]
        /\ pc = [c \in Contexts |-> "idle"]
        /\ aim = [c \in Wakers |-> [waiter |-> CHOOSE w \in Waiters : TRUE, call |-> 0]]
        /\ calls = [c \in Contexts |-> 0]
        /\ permits = [given |-> 0, taken |-> 0] /\ dangling = FALSE /\ panic = "none"

At(c, loc) == panic = "none" /\ pc[c] = loc
Goto(c, loc) == pc' = [pc EXCEPT ![c] = loc]
Call(c, max) == At(c, "idle") /\ calls[c] < max /\ calls' = [calls EXCEPT ![c] = @ + 1]

Aim(c) == aim[c].waiter
Dangles(c) == ~slot[Aim(c)].live \/ aim[c].call # calls[Aim(c)]
-----------------------------------------------------------------------------
(* FastList::remove.  An object removed twice is an assertion when the     *)
(* list is empty; otherwise only the count changes, and the list is        *)
(* emptied when the count says so.                                         *)
IsEmpty(list, num) == list = <<>> \/ num = 0
WithoutNone(list, w) == list                                           \* mutant
Without(list, w) == IF \E i \in DOMAIN list : list[i] = w
                    THEN RemoveAt(list, CHOOSE i \in DOMAIN list : list[i] = w) ELSE list

RemoveIfListed(w) ==
  IF ~slot[w].semaphore THEN UNCHANGED <<sema, panic>>
  ELSE IF IsEmpty(sema.blocked, sema.num) THEN panic' = "list" /\ UNCHANGED sema
  ELSE /\ sema' = [sema EXCEPT !.num = @ - 1,
                               !.blocked = IF sema.num = 1 THEN <<>> ELSE Without(@, w)]
       /\ UNCHANGED panic

(* Thread::Unblock: one action, for it is made under the stateLock.        *)
Unblock(w) == ~thread[w].stateLock /\ thread' = [thread EXCEPT ![w].state = "Running"]
-----------------------------------------------------------------------------
(* Semaphore::Wait and Thread::Block, called by thread w.                  *)

MustBlockBelow(value) == value < -1                                    \* mutant
MustBlock(value) == value < 0

Wait(w) ==
  /\ Call(w, MaxWaits)
  /\ ~sema.lock
  /\ \/ /\ MustBlock(sema.value - 1)
        /\ slot' = [slot EXCEPT ![w] = NewBlocker]
        /\ sema' = [sema EXCEPT !.value = @ - 1, !.blocked = Append(@, w), !.num = @ + 1]
        /\ Goto(w, "block")
        /\ UNCHANGED permits
     \/ /\ ~MustBlock(sema.value - 1)
        /\ sema' = [sema EXCEPT !.value = @ - 1]
        /\ permits' = [permits EXCEPT !.taken = @ + 1]
        /\ UNCHANGED <<slot, pc>>
  /\ UNCHANGED <<thread, aim, dangling, panic>>

(* Block takes the blocker's lock and the stateLock, and holds both on     *)
(* until it has looked at the pending signals.                             *)
Block(w) ==
  /\ At(w, "block")
  /\ ~slot[w].lock /\ ~thread[w].stateLock
  /\ \/ /\ slot[w].shouldBlock
        /\ slot' = [slot EXCEPT ![w].thread = TRUE, ![w].lock = TRUE]
        /\ thread' = [thread EXCEPT ![w].stateLock = TRUE]
        /\ Goto(w, "block_pending")
     \/ /\ ~slot[w].shouldBlock
        /\ slot' = [slot EXCEPT ![w].thread = TRUE]
        /\ Goto(w, "return_false")
        /\ UNCHANGED thread
  /\ UNCHANGED <<sema, aim, calls, permits, dangling, panic>>

SeesNoSignal(w) == FALSE                                               \* mutant
SeesSignal(w) == thread[w].pending

BlockPending(w) ==
  /\ At(w, "block_pending")
  /\ slot' = [slot EXCEPT ![w].lock = FALSE]
  /\ \/ /\ SeesSignal(w)
        /\ thread' = [thread EXCEPT ![w].stateLock = FALSE]
        /\ Goto(w, "return_true")
     \/ /\ ~SeesSignal(w)
        /\ thread' = [thread EXCEPT ![w].blocker = TRUE]
        /\ Goto(w, "block_commit")
  /\ UNCHANGED <<sema, aim, calls, permits, dangling, panic>>

BlockCommit(w) ==
  /\ At(w, "block_commit")
  /\ thread' = [thread EXCEPT ![w].state = "Blocked", ![w].stateLock = FALSE]
  /\ Goto(w, "yielded")
  /\ UNCHANGED <<sema, slot, aim, calls, permits, dangling, panic>>

WasInterrupted(w) == slot[w].interrupted

(* The scheduler runs the thread again once it is not blocked.             *)
Resume(w) ==
  /\ At(w, "yielded")
  /\ thread[w].state = "Running" /\ ~thread[w].stateLock
  /\ thread' = [thread EXCEPT ![w].blocker = FALSE]
  /\ Goto(w, IF WasInterrupted(w) THEN "return_true" ELSE "return_false")
  /\ UNCHANGED <<sema, slot, aim, calls, permits, dangling, panic>>

(* ~SemaphoreBlocker, which takes no lock, and the return from Wait.       *)
Return(w) ==
  /\ At(w, "return_false") \/ At(w, "return_true")
  /\ RemoveIfListed(w)
  /\ slot' = [slot EXCEPT ![w].live = FALSE]
  /\ permits' = IF pc[w] = "return_false" THEN [permits EXCEPT !.taken = @ + 1] ELSE permits
  /\ Goto(w, "idle")
  /\ UNCHANGED <<thread, aim, calls, dangling>>

(* A signal is handled on the way back to user mode.                       *)
HandleSignal(w) ==
  /\ At(w, "idle") /\ thread[w].pending
  /\ thread' = [thread EXCEPT ![w].pending = FALSE]
  /\ UNCHANGED <<sema, slot, pc, aim, calls, permits, dangling, panic>>
-----------------------------------------------------------------------------
(* Semaphore::Signal, called by poster p, holds the semaphore's lock until *)
(* SemaphoreBlocker::Unblock is over.                                      *)

SomeoneBlocked(num) == num > 0

Signal(p) ==
  /\ Call(p, MaxPosts)
  /\ ~sema.lock
  /\ sema' = [sema EXCEPT !.value = @ + 1, !.lock = SomeoneBlocked(sema.num)]
  /\ permits' = [permits EXCEPT !.given = @ + 1]
  /\ Goto(p, IF SomeoneBlocked(sema.num) THEN "front" ELSE "idle")
  /\ UNCHANGED <<slot, thread, aim, dangling, panic>>

PostFront(p) ==
  /\ At(p, "front")
  /\ \/ /\ sema.blocked = <<>>
        /\ panic' = "null_front"
        /\ UNCHANGED <<slot, aim, pc>>
     \/ /\ sema.blocked # <<>>
        /\ LET w == Head(sema.blocked) IN
             /\ aim' = [aim EXCEPT ![p] = [waiter |-> w, call |-> calls[w]]]
             /\ slot' = [slot EXCEPT ![w].shouldBlock = FALSE]
        /\ Goto(p, "detach")
        /\ UNCHANGED panic
  /\ UNCHANGED <<sema, thread, calls, permits, dangling>>

(* Thread::Signal, called by killer k on thread w.                         *)
Kill(k, w) ==
  /\ Call(k, MaxKills)
  /\ thread' = [thread EXCEPT ![w].pending = TRUE]
  /\ aim' = [aim EXCEPT ![k].waiter = w]
  /\ Goto(k, "test")
  /\ UNCHANGED <<sema, slot, permits, dangling, panic>>

(* The test is made under stateLock, which is released before its outcome  *)
(* is used.                                                                *)
KillTest(k) ==
  /\ At(k, "test")
  /\ LET t == thread[Aim(k)] IN
       /\ ~t.stateLock
       /\ Goto(k, IF t.blocker /\ t.state = "Blocked" THEN "interrupt" ELSE "idle")
  /\ UNCHANGED <<sema, slot, thread, aim, calls, permits, dangling, panic>>

KillInterrupt(k) ==
  /\ At(k, "interrupt")
  /\ \/ /\ ~thread[Aim(k)].blocker
        /\ panic' = "null_blocker"
        /\ UNCHANGED <<slot, aim, pc>>
     \/ /\ thread[Aim(k)].blocker
        /\ aim' = [aim EXCEPT ![k].call = calls[Aim(k)]]
        /\ slot' = [slot EXCEPT ![Aim(k)].interrupted = TRUE, ![Aim(k)].shouldBlock = FALSE]
        /\ Goto(k, "detach")
        /\ UNCHANGED panic
  /\ UNCHANGED <<sema, thread, calls, permits, dangling>>
-----------------------------------------------------------------------------
(* SemaphoreBlocker::Unblock and ::Interrupt go on alike: under the        *)
(* blocker's lock they take it off the list and wake the thread.           *)

Detach(c) ==
  /\ At(c, "detach")
  /\ ~slot[Aim(c)].lock
  /\ RemoveIfListed(Aim(c))
  /\ slot' = [slot EXCEPT ![Aim(c)].lock = TRUE, ![Aim(c)].semaphore = FALSE]
  /\ dangling' = (dangling \/ Dangles(c))
  /\ Goto(c, IF slot[Aim(c)].thread THEN "wake" ELSE "release")
  /\ UNCHANGED <<thread, aim, calls, permits>>

Wake(c) ==
  /\ At(c, "wake")
  /\ Unblock(Aim(c))
  /\ dangling' = (dangling \/ Dangles(c))
  /\ Goto(c, "release")
  /\ UNCHANGED <<sema, slot, aim, calls, permits, panic>>

(* The stores below may reach the slot of a blocker that is gone.  Unblock *)
(* is followed by the release of the semaphore's lock, which the thread's  *)
(* next Wait needs first.                                                  *)
PostRelease(p) ==
  /\ At(p, "release")
  /\ slot' = [slot EXCEPT ![Aim(p)].lock = FALSE]
  /\ sema' = [sema EXCEPT !.lock = FALSE]
  /\ Goto(p, "idle")
  /\ UNCHANGED <<thread, aim, calls, permits, dangling, panic>>

KillRelease(k) ==
  /\ At(k, "release")
  /\ slot' = [slot EXCEPT ![Aim(k)].thread = FALSE, ![Aim(k)].lock = FALSE]
  /\ dangling' = (dangling \/ Dangles(k))
  /\ Goto(k, "idle")
  /\ UNCHANGED <<sema, thread, aim, calls, permits, panic>>
-----------------------------------------------------------------------------
Waiting(w) == Block(w) \/ BlockPending(w) \/ BlockCommit(w) \/ Resume(w) \/ Return(w)
Posting(p) == PostFront(p) \/ Detach(p) \/ Wake(p) \/ PostRelease(p)
Killing(k) == KillTest(k) \/ KillInterrupt(k) \/ Detach(k) \/ Wake(k) \/ KillRelease(k)

Next == \/ \E w \in Waiters : Wait(w) \/ Waiting(w) \/ HandleSignal(w)
        \/ \E p \in Posters : Signal(p) \/ Posting(p)
        \/ \E k \in Killers : (\E w \in Waiters : Kill(k, w)) \/ Killing(k)

Spec == Init /\ [][Next]_vars

(* A context that has started a call is scheduled until the call is over;  *)
(* nobody has to start one.                                                *)
Fairness == /\ \A w \in Waiters : WF_vars(Waiting(w))
            /\ \A p \in Posters : WF_vars(Posting(p))
            /\ \A k \in Killers : WF_vars(Killing(k))

FairSpec == Spec /\ Fairness
-----------------------------------------------------------------------------
TypeOK ==
  /\ sema \in [value : Int, lock : BOOLEAN, blocked : Seq(Waiters), num : Nat]
  /\ slot \in [Waiters -> [lock : BOOLEAN, thread : BOOLEAN, semaphore : BOOLEAN,
                           shouldBlock : BOOLEAN, interrupted : BOOLEAN, live : BOOLEAN]]
  /\ thread \in [Waiters -> [state : {"Running", "Blocked"}, stateLock : BOOLEAN,
                             blocker : BOOLEAN, pending : BOOLEAN]]
  /\ pc \in [Contexts -> {"idle", "block", "block_pending", "block_commit", "yielded",
                          "return_false", "return_true", "front", "test", "interrupt",
                          "detach", "wake", "release"}]
  /\ aim \in [Wakers -> [waiter : Waiters, call : Nat]]
  /\ calls \in [Contexts -> Nat] /\ permits \in [given : Nat, taken : Nat] /\ dangling \in BOOLEAN
  /\ panic \in {"none", "list", "null_front", "null_blocker"}

(* No Wait returns false without a permit, which the drivers that use a    *)
(* semaphore as a mutex rely on: only a waker that used the blocker of a   *)
(* Wait that had returned can let a thread in for nothing (Lock.cpp).      *)
AdmissionHasPermit == dangling \/ permits.taken <= InitialValue + permits.given

(* Whenever the semaphore's lock is free the list holds as many blockers   *)
(* as the value says threads are waiting, so no waiter is forgotten and no *)
(* permit is lost; but a Wait that a signal interrupts loses one (Wait and *)
(* Signal, Lock.cpp).                                                      *)
ListMatchesValue == ~sema.lock /\ panic = "none" =>
  Len(sema.blocked) = (IF sema.value < 0 THEN -sema.value ELSE 0)
OnlySignalLoses ==
  TypeOK /\ (dangling \/ (\E k \in Killers : calls[k] > 0) \/ ListMatchesValue)

(* The assertions in FastList::remove (List.h) hold.                       *)
ListIntact == panic # "list"

(* A waiter whose blocker has been taken off the list gets out of Wait:    *)
(* the wake-up is not lost, wherever in Block it was delivered.            *)
WokenReturns == \A w \in Waiters :
  slot[w].live /\ ~slot[w].semaphore ~> ~slot[w].live \/ dangling \/ panic # "none"

(* A waiter does not sleep on while a permit is there for it (Signal).     *)
NobodyStranded == \A w \in Waiters :
  slot[w].live /\ sema.value >= 0 ~> ~slot[w].live \/ dangling \/ panic # "none"

(* A thread with a pending signal does not stay in Wait: either Block sees *)
(* the signal or Thread::Signal sees the block (Thread.cpp).               *)
SignalEndsWait == \A w \in Waiters :
  slot[w].live /\ thread[w].pending ~> ~slot[w].live \/ dangling \/ panic # "none"

(* A wait ends when it was woken, when there is a permit, and on a signal  *)
(* (Wait, Signal, Thread::Block, Thread::Signal).                          *)
WaitEnds == WokenReturns /\ NobodyStranded /\ SignalEndsWait
=============================================================================
