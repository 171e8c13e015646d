------------------------------- MODULE Signals -------------------------------
(***************************************************************************)
(* Signals sent to the main thread of a process and its way through their  *)
(* handlers (Thread.cpp, SysSignalAction, SysSignalReturn), and the        *)
(* futexes of its threads, whose blockers no signal interrupts. The word   *)
(* of pending signals is read and written back with no lock.               *)
(***************************************************************************)
EXTENDS Naturals, Sequences

CONSTANTS
    Main, Others,   \* the threads of the process
    Senders,        \* threads of other processes that call SysKill
    SigInt, SigKill, SigUsr,   \* numbers of signals, in this order: fatal, fatal, ignored by default
    MaxFrames,      \* bound on handlers within handlers
    Budgets,        \* bound on calls: how many each may make, one of these functions
    None

Threads == {Main} \cup Others
Signals == {SigInt, SigKill, SigUsr}

VARIABLES
    sig,      \* of the main thread: pending, mask, the frames on its user stack, blocked (interruptibly)
    action,   \* signalHandlers: "default", "ignore" or "user" for each signal
    sender,   \* a sender's place, its signal and the word it has read
    thr,      \* each thread's place
    blocker,  \* its futex blocker's shouldBlock
    futex,    \* the word in user memory and the list of blockers
    waker,    \* the waker's place and the blocker it has taken
    calls     \* how many calls each may still make

vars == <<sig, action, sender, thr, blocker, futex, waker, calls>>

Init ==
    /\ sig = [pending |-> {}, mask |-> {}, frames |-> <<>>, read |-> {}, number |-> None, left |-> {}]
    /\ action = [s \in Signals |-> "default"]
    /\ sender = [k \in Senders |-> [pc |-> "idle", s |-> None, read |-> {}]]
    /\ thr = [t \in Threads |-> "user"]
    /\ blocker = [t \in Threads |-> FALSE]
    /\ futex = [value |-> 0, queue |-> <<>>]
    /\ waker = [holder |-> None, front |-> None]
    /\ calls \in Budgets

Calls(t) == calls[t] > 0 /\ calls' = [calls EXCEPT ![t] = @ - 1]
Moves(t, pc) == thr' = [thr EXCEPT ![t] = pc]
EffectiveSignalMask == sig.mask \ {SigKill}
Unmasked == sig.pending \ EffectiveSignalMask
-----------------------------------------------------------------------------
(* SysKill: Thread::Signal.                                                *)

Dropped(s) == action[s] = "ignore" \/ (action[s] = "default" /\ s = SigUsr)

SysKill(k, s) ==
    /\ sender[k].pc = "idle" /\ Calls(k) /\ ~Dropped(s) /\ thr[Main] # "dead"
    /\ sender' = [sender EXCEPT ![k] = [pc |-> "write", s |-> s, read |-> sig.pending]]
    /\ UNCHANGED <<sig, action, thr, blocker, futex, waker>>

SignalPends(k) ==
    /\ sender[k].pc = "write"
    /\ sig' = [sig EXCEPT !.pending = sender[k].read \cup {sender[k].s}]
    /\ sender' = [sender EXCEPT ![k].pc = "test"]
    /\ UNCHANGED <<action, thr, blocker, futex, waker, calls>>

\* A blocker of the generic kind has an empty Interrupt.
Interrupted == IF thr[Main] = "asleep" THEN [thr EXCEPT ![Main] = "kernel"] ELSE thr
SignalInterrupts(k) ==
    /\ sender[k].pc = "test"
    /\ thr' = Interrupted
    /\ sender' = [sender EXCEPT ![k] = [pc |-> "idle", s |-> None, read |-> {}]]
    /\ UNCHANGED <<sig, action, blocker, futex, waker, calls>>
-----------------------------------------------------------------------------
(* The main thread.                                                        *)

SysSignalAction(s, a) ==
    /\ thr[Main] = "user" /\ s # SigKill /\ Calls(Main)
    /\ action' = [action EXCEPT ![s] = a]
    /\ Moves(Main, "kernel")
    /\ UNCHANGED <<sig, sender, blocker, futex, waker>>

\* Thread::Block, on a blocker that a signal does interrupt: the test is made under stateLock.
SeesSignalNever == FALSE   \* mutant
SeesSignal == Unmasked # {}
Block ==
    /\ thr[Main] = "user" /\ Calls(Main)
    /\ Moves(Main, IF SeesSignal THEN "kernel" ELSE "asleep")
    /\ UNCHANGED <<sig, action, sender, blocker, futex, waker>>

Woken ==
    /\ thr[Main] = "asleep"
    /\ Moves(Main, "kernel")
    /\ UNCHANGED <<sig, action, sender, blocker, futex, waker, calls>>

\* The end of SyscallHandler, and Schedule on the way to user mode.
SyscallReturns ==
    /\ thr[Main] = "kernel" /\ Unmasked = {}
    /\ Moves(Main, "user")
    /\ UNCHANGED <<sig, action, sender, blocker, futex, waker, calls>>

\* HandlePendingSignal takes the first pending signal, masked or not.
First == CHOOSE s \in sig.pending : \A r \in sig.pending : s <= r
HandlePendingSignal ==
    /\ thr[Main] \in {"kernel", "user"} /\ Unmasked # {} /\ Len(sig.frames) < MaxFrames
    /\ sig' = [sig EXCEPT !.read = sig.pending, !.number = First]
    /\ Moves(Main, "clear")
    /\ UNCHANGED <<action, sender, blocker, futex, waker, calls>>

ClearPending ==
    /\ thr[Main] = "clear"
    /\ sig' = [sig EXCEPT !.pending = sig.read \ {sig.number}]
    /\ Moves(Main, "deliver")
    /\ UNCHANGED <<action, sender, blocker, futex, waker, calls>>

Dies ==
    /\ thr[Main] = "deliver"
    /\ sig.number = SigKill \/ (action[sig.number] = "default" /\ sig.number = SigInt)
    /\ Moves(Main, "dead")
    /\ UNCHANGED <<sig, action, sender, blocker, futex, waker, calls>>

\* The mask gets the signal before its action is looked at, and an action that does
\* nothing leaves it there.
DoesNothing ==
    /\ thr[Main] = "deliver" /\ sig.number # SigKill /\ Dropped(sig.number)
    /\ sig' = [sig EXCEPT !.mask = @ \cup {sig.number}, !.left = @ \cup {sig.number}]
    /\ Moves(Main, "user")
    /\ UNCHANGED <<action, sender, blocker, futex, waker, calls>>

MaskedAlone == {sig.number}   \* mutant
Masked == sig.mask \cup {sig.number}
RunsHandler ==
    /\ thr[Main] = "deliver" /\ action[sig.number] = "user"
    /\ sig' = [sig EXCEPT !.mask = Masked, !.frames = Append(@, [number |-> sig.number, mask |-> sig.mask])]
    /\ Moves(Main, "user")
    /\ UNCHANGED <<action, sender, blocker, futex, waker, calls>>

SysSignalReturn ==
    LET top == Len(sig.frames)  saved == sig.frames[top].mask IN
    /\ thr[Main] = "user" /\ top > 0
    /\ sig' = [sig EXCEPT !.mask = saved, !.frames = SubSeq(@, 1, top - 1), !.left = @ \cap saved]
    /\ Moves(Main, "kernel")
    /\ UNCHANGED <<action, sender, blocker, futex, waker, calls>>
-----------------------------------------------------------------------------
(* SysFutexWait, SysFutexWake. m_futexLock is free when nobody is between  *)
(* the steps of a wake.                                                    *)

SetFutex(t) ==   \* the program's own store
    /\ thr[t] = "user" /\ Calls(t)
    /\ futex' = [futex EXCEPT !.value = 1 - @]
    /\ UNCHANGED <<sig, action, sender, thr, blocker, waker>>

SysFutexWait(t) ==
    /\ thr[t] = "user" /\ waker.holder = None /\ Calls(t)
    /\ futex' = [futex EXCEPT !.queue = Append(@, t)]
    /\ blocker' = [blocker EXCEPT ![t] = TRUE]
    /\ Moves(t, "futex")
    /\ UNCHANGED <<sig, action, sender, waker>>

\* A blocker that is spent does not block: the loop spins until the word changes.
Spent(t) == ~blocker[t]
FutexBlocks(t) ==
    /\ thr[t] = "futex" /\ futex.value = 0 /\ ~Spent(t)
    /\ ~(t = Main /\ SeesSignal)
    /\ Moves(t, "waiting")
    /\ UNCHANGED <<sig, action, sender, blocker, futex, waker, calls>>

Without(q, t) ==
    LET at == {i \in DOMAIN q : q[i] = t}  i == CHOOSE i \in at : TRUE
    IN  IF at = {} THEN q ELSE SubSeq(q, 1, i - 1) \o SubSeq(q, i + 1, Len(q))
FutexLeaves(t) ==
    /\ futex' = [futex EXCEPT !.queue = Without(@, t)]
    /\ blocker' = [blocker EXCEPT ![t] = FALSE]
    /\ Moves(t, "kernel")
    /\ UNCHANGED <<sig, action, sender, waker, calls>>

FutexInterrupted(t) ==
    /\ thr[t] = "futex" /\ futex.value = 0 /\ ~Spent(t) /\ t = Main /\ SeesSignal /\ waker.holder = None
    /\ FutexLeaves(t)

\* The word has changed: off the list, with no regard for m_futexLock.
FutexDone(t) == thr[t] = "futex" /\ futex.value # 0 /\ FutexLeaves(t)

OtherReturns(t) ==
    /\ t # Main /\ thr[t] = "kernel"
    /\ Moves(t, "user")
    /\ UNCHANGED <<sig, action, sender, blocker, futex, waker, calls>>

SysFutexWake(t) ==
    /\ thr[t] = "user" /\ waker.holder = None /\ futex.queue # <<>> /\ Calls(t)
    /\ waker' = [holder |-> t, front |-> Head(futex.queue)]
    /\ futex' = [futex EXCEPT !.queue = Tail(@)]
    /\ Moves(t, "waking")
    /\ UNCHANGED <<sig, action, sender, blocker>>

FutexUnblocks(t) ==
    LET u == waker.front IN
    /\ waker.holder = t
    /\ blocker' = [blocker EXCEPT ![u] = FALSE]
    /\ thr' = [thr EXCEPT ![u] = IF @ = "waiting" THEN "futex" ELSE @, ![t] = "kernel"]
    /\ waker' = [holder |-> None, front |-> None]
    /\ UNCHANGED <<sig, action, sender, futex, calls>>

Next ==
    \/ \E k \in Senders : (\E s \in Signals : SysKill(k, s)) \/ SignalPends(k) \/ SignalInterrupts(k)
    \/ \E s \in Signals, a \in {"default", "ignore", "user"} : SysSignalAction(s, a)
    \/ Block \/ Woken \/ SyscallReturns \/ HandlePendingSignal \/ ClearPending \/ Dies \/ DoesNothing
    \/ RunsHandler \/ SysSignalReturn
    \/ \E t \in Threads :
        \/ SetFutex(t) \/ SysFutexWait(t) \/ FutexBlocks(t) \/ FutexInterrupted(t) \/ FutexDone(t)
        \/ OtherReturns(t) \/ SysFutexWake(t) \/ FutexUnblocks(t)

Spec == Init /\ [][Next]_vars
-----------------------------------------------------------------------------
(* The main thread does not sleep on a signal that it has not masked,      *)
(* though two senders and the thread itself write the pending word back    *)
(* from old copies: whoever wrote it last is about to look (Signal, Block). *)
SignalWakes ==
    thr[Main] = "asleep" /\ Unmasked # {} => \E k \in Senders : sender[k].pc = "test"

(* While a handler runs, its signal and those of the handlers it cut into  *)
(* are masked; when none runs, only the signals are that were handled by   *)
(* doing nothing (HandlePendingSignal, SysSignalReturn).                   *)
HandlersMasked ==
    sig.mask = {sig.frames[i].number : i \in DOMAIN sig.frames} \cup sig.left

(* A futex waiter that sleeps is on the list or in the hand of a waker: no *)
(* one sleeps whom no wake can reach (SysFutexWait, SysFutexWake).         *)
FutexListed == \A t \in Threads :
    thr[t] = "waiting" => t = waker.front \/ \E i \in DOMAIN futex.queue : futex.queue[i] = t
=============================================================================
