------------------------------ MODULE IpcProofs ------------------------------
(***************************************************************************)
(* Proofs about what processes and threads exchange (MCIpc): for each part *)
(* an invariant that all its steps keep, for every value of the constants, *)
(* and then the properties of the composition.                             *)
(*                                                                         *)
(*   SignalsInv    a handler that cuts into others keeps the mask that all *)
(*                 need, and a waiter is where a waker finds it            *)
(*   PipeInv       bytes in order, and the two ends know of each other     *)
(*   ChannelInv    messages in order; who waits for a place is listed; the *)
(*                 permits, and those under way, make up the limit         *)
(*   TermInv       the lines of a buffer are those that were ended and not *)
(*                 erased, and those who sleep are on its lists            *)
(*   ServInv       what the count of an interface is made of, and in which *)
(*                 one place a connector is                                *)
(*   SockInv       a socket that is asked about once is in one thread's    *)
(*                 hands, on one list, or has one peer                     *)
(***************************************************************************)
EXTENDS MCIpc, FiniteSetTheorems, SequenceTheorems, WellFoundedInduction, TLAPS

(* Of the numbers that satisfy something there is a least.                 *)
LEMMA Least ==
  ASSUME NEW Z, Z \subseteq Nat, Z # {}
  PROVE  \E x \in Z : \A y \in Z : x <= y
<1> DEFINE R == {ss \in Nat \X Nat : ss[1] < ss[2]}
<1>1. IsWellFoundedOn(R, Nat)  BY NatLessThanWellFounded DEF OpToRel
<1>2. \E x \in Z : \A y \in Z : ~ (<<y, x>> \in R)  BY <1>1, WFMin, Zenon
<1>3. \A x, y \in Nat : y < x => <<y, x>> \in R  OBVIOUS
<1> HIDE DEF R
<1>4. \A x, y \in Z : <<y, x>> \notin R => x <= y  BY <1>3
<1> QED BY <1>2, <1>4, Zenon
-----------------------------------------------------------------------------
(* The numbers of signals, and that None names no thread.                  *)
Numbered == {SigInt, SigKill, SigUsr} \subseteq Nat
Named == None \notin S!Threads

LEMMA SignalsHeld == Numbered /\ Named  BY SignalsAssumption DEF Numbered, Named, S!Threads

Frames == [number : S!Signals, mask : SUBSET S!Signals]
SignalPlaces == {"user", "kernel", "asleep", "clear", "deliver", "dead", "futex", "waiting", "waking"}

SigOK == sig \in [pending : SUBSET S!Signals, mask : SUBSET S!Signals, frames : Seq(Frames), read : SUBSET S!Signals,
                  number : S!Signals \cup {None}, left : SUBSET S!Signals]
SenderOK ==
  /\ sender \in [Senders -> [pc : {"idle", "write", "test"}, s : S!Signals \cup {None}, read : SUBSET S!Signals]]
  /\ \A k \in Senders : sender[k].pc = "write" => sender[k].s \in S!Signals
FutexOK ==
  /\ blocker \in [S!Threads -> BOOLEAN]
  /\ futex \in [value : {0, 1}, queue : Seq(S!Threads)]
  /\ waker \in [holder : S!Threads \cup {None}, front : S!Threads \cup {None}]
SignalsTypeOK ==
  /\ SigOK /\ SenderOK /\ FutexOK
  /\ thr \in [S!Threads -> SignalPlaces]
  /\ thr[Main] \in {"clear", "deliver"} => sig.number \in S!Signals

(* A handler that cuts into others keeps the mask that all of them need.   *)
Nested ==
  /\ \A i \in 1..Len(sig.frames) :
       /\ sig.frames[i].mask \subseteq sig.mask
       /\ \A j \in 1..i - 1 : sig.frames[j].number \in sig.frames[i].mask
                              /\ sig.frames[j].mask \subseteq sig.frames[i].mask
       /\ \A s \in sig.frames[i].mask : s \in sig.left \/ \E j \in 1..i - 1 : sig.frames[j].number = s

(* A blocker that is not spent is on the list or in the hand of the waker. *)
Reachable ==
  /\ waker.holder = None => waker.front = None
  /\ \A t \in S!Threads :
       /\ thr[t] = "waiting" => blocker[t]
       /\ thr[t] \in {"futex", "waiting"} /\ blocker[t] =>
            t = waker.front \/ \E i \in 1..Len(futex.queue) : futex.queue[i] = t

HandlersInv == S!HandlersMasked /\ Nested
SignalsInv == SignalsTypeOK /\ HandlersInv /\ S!SignalWakes /\ Reachable
-----------------------------------------------------------------------------
(* What taking a blocker off the list leaves: every other one.             *)
LEMMA WithoutKeeps ==
  ASSUME NEW q \in Seq(S!Threads), NEW t
  PROVE  /\ S!Without(q, t) \in Seq(S!Threads)
         /\ \A i \in 1..Len(q) : q[i] # t => \E k \in 1..Len(S!Without(q, t)) : S!Without(q, t)[k] = q[i]
<1> DEFINE at == {i \in DOMAIN q : q[i] = t}
<1>1. CASE at = {}
  <2>1. S!Without(q, t) = q  BY <1>1 DEF S!Without
  <2>2. \A i \in 1..Len(q) : q[i] # t  BY <1>1, LenProperties
  <2> QED BY <2>1, <2>2
<1>2. CASE at # {}
  <2> DEFINE p == CHOOSE i \in at : TRUE
             l == SubSeq(q, 1, p - 1)
             r == SubSeq(q, p + 1, Len(q))
  <2>1. p \in 1..Len(q) /\ q[p] = t
    <3>1. p \in at  BY <1>2
    <3>2. DOMAIN q = 1..Len(q)  BY LenProperties
    <3> QED BY <3>1, <3>2
  <2>2. S!Without(q, t) = l \o r  BY <1>2, Zenon DEF S!Without
  <2> HIDE DEF p
  <2>3. l \in Seq(S!Threads) /\ Len(l) = p - 1 /\ \A i \in 1..p - 1 : l[i] = q[i]
    BY <2>1
  <2>4. r \in Seq(S!Threads) /\ Len(r) = Len(q) - p /\ \A i \in 1..Len(q) - p : r[i] = q[p + i]
    BY <2>1
  <2> HIDE DEF l, r
  <2>n. Len(q) \in Nat /\ p - 1 \in Nat /\ Len(l) + Len(r) = Len(q) - 1  BY <2>1, <2>3, <2>4
  <2>5. /\ l \o r \in Seq(S!Threads) /\ Len(l \o r) = Len(q) - 1
        /\ \A i \in 1..Len(q) - 1 : (l \o r)[i] = IF i <= p - 1 THEN l[i] ELSE r[i - (p - 1)]
    BY <2>3, <2>4, <2>n, ConcatProperties, SMTT(60)
  <2>6. ASSUME NEW i \in 1..Len(q), q[i] # t
        PROVE  \E k \in 1..Len(l \o r) : (l \o r)[k] = q[i]
    <3>1. CASE i < p
      <4>1. i \in 1..Len(q) - 1 /\ i <= p - 1  BY <2>1, <3>1
      <4>2. (l \o r)[i] = q[i]  BY <2>3, <2>5, <4>1
      <4> QED BY <2>5, <4>1, <4>2
    <3>2. CASE i > p
      <4>1. i - 1 \in 1..Len(q) - 1 /\ ~(i - 1 <= p - 1) /\ (i - 1) - (p - 1) \in 1..Len(q) - p
            /\ p + ((i - 1) - (p - 1)) = i
        BY <2>1, <3>2
      <4>2. (l \o r)[i - 1] = q[i]  BY <2>4, <2>5, <4>1, Zenon
      <4> QED BY <2>5, <4>1, <4>2, Zenon
    <3>3. i # p  BY <2>1, <2>6
    <3>4. i < p \/ i > p  BY <2>1, <3>3
    <3> QED BY <3>1, <3>2, <3>4
  <2> QED BY <2>2, <2>5, <2>6, Zenon
<1> QED BY <1>1, <1>2

(* The frames without the last one.                                        *)
LEMMA LastFront ==
  ASSUME NEW f \in Seq(Frames), Len(f) > 0
  PROVE  /\ Len(f) \in Nat \ {0} /\ f[Len(f)] \in Frames
         /\ SubSeq(f, 1, Len(f) - 1) \in Seq(Frames) /\ Len(SubSeq(f, 1, Len(f) - 1)) = Len(f) - 1
         /\ \A i \in 1..Len(f) - 1 : SubSeq(f, 1, Len(f) - 1)[i] = f[i]
<1>1. Len(f) \in Nat \ {0}  BY LenProperties
<1>2. f[Len(f)] \in Frames  BY <1>1, ElementOfSeq
<1>s. DOMAIN f = 1..Len(f) /\ \A i \in 1..Len(f) - 1 : f[i] \in Frames  BY <1>1, ElementOfSeq
<1>3. SubSeq(f, 1, Len(f) - 1) \in Seq(Frames) /\ Len(SubSeq(f, 1, Len(f) - 1)) = Len(f) - 1
      /\ \A i \in 1..Len(f) - 1 : SubSeq(f, 1, Len(f) - 1)[i] = f[i]
  BY <1>1, <1>s, SubSeqProperties
<1> QED BY <1>1, <1>2, <1>3

LEMMA SignalsInit == S!Init => SignalsInv
<1> SUFFICES ASSUME S!Init PROVE SignalsInv  OBVIOUS
<1> USE DEF S!Init
<1>1. SignalsTypeOK
  BY DEF SignalsTypeOK, SigOK, SenderOK, FutexOK, Frames, SignalPlaces, S!Threads
<1>2. HandlersInv
  <2>1. sig.frames = <<>> /\ sig.mask = {} /\ sig.left = {}  OBVIOUS
  <2> QED BY <2>1 DEF HandlersInv, S!HandlersMasked, Nested
<1>3. S!SignalWakes /\ Reachable  BY DEF S!SignalWakes, Reachable, S!Unmasked, S!Threads
<1> QED BY <1>1, <1>2, <1>3 DEF SignalsInv

-----------------------------------------------------------------------------
(* Type correctness, action by action.                                     *)
LEMMA FirstIsSignal ==
  ASSUME Numbered, SigOK, S!Unmasked # {}
  PROVE  S!First \in S!Signals
<1>1. sig.pending \subseteq S!Signals /\ sig.pending # {}  BY DEF SigOK, S!Unmasked
<1>2. \E s \in sig.pending : \A r \in sig.pending : s <= r
  BY <1>1 DEF Numbered, S!Signals
<1> QED BY <1>1, <1>2 DEF S!First

(* A sender that moves on holds a signal whenever it is about to write.    *)
LEMMA SenderMoves ==
  ASSUME SenderOK, NEW k \in Senders, NEW pc \in {"idle", "write", "test"}, NEW s \in S!Signals \cup {None},
         NEW word \in SUBSET S!Signals, pc = "write" => s \in S!Signals,
         sender' = [sender EXCEPT ![k] = [pc |-> pc, s |-> s, read |-> word]]
  PROVE  SenderOK'
<1> DEFINE Entries == [pc : {"idle", "write", "test"}, s : S!Signals \cup {None}, read : SUBSET S!Signals]
           entry == [pc |-> pc, s |-> s, read |-> word]
<1>1. sender \in [Senders -> Entries] /\ \A m \in Senders : sender[m].pc = "write" => sender[m].s \in S!Signals
  BY DEF SenderOK
<1>2. entry \in Entries /\ entry.pc = pc /\ entry.s = s  OBVIOUS
<1> HIDE DEF entry, Entries
<1>3. sender' = [sender EXCEPT ![k] = entry]  BY DEF entry
<1>4. sender' \in [Senders -> Entries]  BY <1>1, <1>2, <1>3
<1>5. \A m \in Senders : sender'[m] = IF m = k THEN entry ELSE sender[m]  BY <1>1, <1>3
<1>6. \A m \in Senders : sender'[m].pc = "write" => sender'[m].s \in S!Signals  BY <1>1, <1>2, <1>5
<1> QED BY <1>4, <1>6 DEF SenderOK, Entries

LEMMA SenderTypes ==
  ASSUME SignalsTypeOK, NEW k \in Senders,
         (\E s \in S!Signals : S!SysKill(k, s)) \/ S!SignalPends(k) \/ S!SignalInterrupts(k)
  PROVE  SignalsTypeOK'
<1> USE DEF SignalsTypeOK, SigOK, SenderOK, FutexOK
<1>1. ASSUME NEW s \in S!Signals, S!SysKill(k, s) PROVE SignalsTypeOK'
  <2>1. sender' = [sender EXCEPT ![k] = [pc |-> "write", s |-> s, read |-> sig.pending]]  BY <1>1 DEF S!SysKill
  <2>2. SenderOK'  BY <2>1, SenderMoves
  <2> QED BY <1>1, <2>2 DEF S!SysKill
<1>2. CASE S!SignalPends(k)
  <2> DEFINE word == sender[k].read \cup {sender[k].s}
  <2>1. word \in SUBSET S!Signals /\ sig' = [sig EXCEPT !.pending = word]  BY <1>2 DEF S!SignalPends
  <2> HIDE DEF word
  <2>2. SigOK'  BY <2>1, Zenon
  <2>3. SenderOK'
    <3>1. sender[k].s \in S!Signals /\ sender[k].read \in SUBSET S!Signals  BY <1>2 DEF S!SignalPends
    <3>2. sender' = [sender EXCEPT ![k].pc = "test"]  BY <1>2 DEF S!SignalPends
    <3>3. sender[k] \in [pc : {"idle", "write", "test"}, s : S!Signals \cup {None}, read : SUBSET S!Signals]
      OBVIOUS
    <3>4. [sender[k] EXCEPT !.pc = "test"] = [pc |-> "test", s |-> sender[k].s, read |-> sender[k].read]
      BY <3>3
    <3>5. sender' = [sender EXCEPT ![k] = [pc |-> "test", s |-> sender[k].s, read |-> sender[k].read]]
      BY <3>2, <3>4, Zenon
    <3> QED BY <3>1, <3>5, SenderMoves
  <2> QED BY <1>2, <2>2, <2>3, Zenon DEF S!SignalPends
<1>3. CASE S!SignalInterrupts(k)
  <2>1. SenderOK'
    <3>1. sender' = [sender EXCEPT ![k] = [pc |-> "idle", s |-> None, read |-> {}]]  BY <1>3 DEF S!SignalInterrupts
    <3> QED BY <3>1, SenderMoves
  <2>2. Main \in S!Threads  BY DEF S!Threads
  <2>3. thr' \in [S!Threads -> SignalPlaces] /\ (thr'[Main] \in {"clear", "deliver"} => thr[Main] = thr'[Main])
    BY <1>3, <2>2 DEF S!SignalInterrupts, S!Interrupted, SignalPlaces
  <2>4. SigOK' /\ FutexOK' /\ sig' = sig  BY <1>3 DEF S!SignalInterrupts
  <2> QED BY <2>1, <2>3, <2>4
<1> QED BY <1>1, <1>2, <1>3

LEMMA MainTypes ==
  ASSUME SignalsTypeOK, Numbered,
         \/ \E s \in S!Signals, a \in {"default", "ignore", "user"} : S!SysSignalAction(s, a)
         \/ S!Block \/ S!Woken \/ S!SyscallReturns \/ S!HandlePendingSignal \/ S!ClearPending \/ S!Dies \/ S!DoesNothing
         \/ S!RunsHandler \/ S!SysSignalReturn
  PROVE  SignalsTypeOK'
<1> USE DEF SignalsTypeOK, S!Moves, SignalPlaces
<1>m. Main \in S!Threads  BY DEF S!Threads
<1>1. ASSUME NEW s \in S!Signals, NEW a, S!SysSignalAction(s, a) PROVE SignalsTypeOK'
  BY <1>m, <1>1 DEF S!SysSignalAction, SigOK, SenderOK, FutexOK
<1>2. CASE S!Block  BY <1>m, <1>2 DEF S!Block, SigOK, SenderOK, FutexOK
<1>3. CASE S!Woken \/ S!SyscallReturns
  BY <1>m, <1>3 DEF S!Woken, S!SyscallReturns, SigOK, SenderOK, FutexOK
<1>4. CASE S!HandlePendingSignal
  <2>1. S!First \in S!Signals  BY <1>4, FirstIsSignal DEF S!HandlePendingSignal
  <2>2. SigOK' /\ sig'.number = S!First  BY <1>4, <2>1, Zenon DEF S!HandlePendingSignal, SigOK
  <2> QED BY <1>m, <1>4, <2>1, <2>2 DEF S!HandlePendingSignal, SenderOK, FutexOK
<1>5. CASE S!ClearPending
  <2>1. SigOK' /\ sig'.number = sig.number  BY <1>5 DEF S!ClearPending, SigOK
  <2> QED BY <1>m, <1>5, <2>1 DEF S!ClearPending, SenderOK, FutexOK
<1>6. CASE S!Dies  BY <1>m, <1>6 DEF S!Dies, SigOK, SenderOK, FutexOK
<1>7. CASE S!DoesNothing
  <2>1. SigOK'  BY <1>7, Zenon DEF S!DoesNothing, SigOK
  <2> QED BY <1>m, <1>7, <2>1 DEF S!DoesNothing, SenderOK, FutexOK
<1>8. CASE S!RunsHandler
  <2>1. sig.number \in S!Signals  BY <1>8 DEF S!RunsHandler
  <2>2. S!Masked \in SUBSET S!Signals  BY <2>1 DEF S!Masked, SigOK
  <2>3. [number |-> sig.number, mask |-> sig.mask] \in Frames  BY <2>1 DEF Frames, SigOK
  <2>4. Append(sig.frames, [number |-> sig.number, mask |-> sig.mask]) \in Seq(Frames)
    BY <2>3, AppendProperties DEF SigOK
  <2>5. SigOK'  BY <1>8, <2>2, <2>4, Zenon DEF S!RunsHandler, SigOK
  <2> QED BY <1>m, <1>8, <2>5 DEF S!RunsHandler, SenderOK, FutexOK
<1>9. CASE S!SysSignalReturn
  <2>1. sig.frames \in Seq(Frames) /\ Len(sig.frames) > 0  BY <1>9 DEF S!SysSignalReturn, SigOK
  <2>2. sig.frames[Len(sig.frames)].mask \in SUBSET S!Signals  BY <2>1, LastFront, Zenon DEF Frames
  <2>3. SubSeq(sig.frames, 1, Len(sig.frames) - 1) \in Seq(Frames)  BY <2>1, LastFront
  <2>4. SigOK'  BY <1>9, <2>2, <2>3, Zenon DEF S!SysSignalReturn, SigOK
  <2> QED BY <1>m, <1>9, <2>4 DEF S!SysSignalReturn, SenderOK, FutexOK
<1> QED BY <1>1, <1>2, <1>3, <1>4, <1>5, <1>6, <1>7, <1>8, <1>9

FutexStep(t) ==
  \/ S!SetFutex(t) \/ S!SysFutexWait(t) \/ S!FutexBlocks(t) \/ S!FutexInterrupted(t) \/ S!FutexDone(t)
  \/ S!OtherReturns(t) \/ S!SysFutexWake(t) \/ S!FutexUnblocks(t)

LEMMA FutexTypes ==
  ASSUME SignalsTypeOK, NEW t \in S!Threads, FutexStep(t)
  PROVE  SignalsTypeOK'
<1> USE DEF SignalsTypeOK, S!Moves, SignalPlaces
<1>s. UNCHANGED <<sig, sender>> => SigOK' /\ SenderOK'  BY DEF SigOK, SenderOK
<1>1. CASE S!SetFutex(t)  BY <1>s, <1>1 DEF S!SetFutex, FutexOK
<1>2. CASE S!SysFutexWait(t)
  <2>1. Append(futex.queue, t) \in Seq(S!Threads)  BY AppendProperties DEF FutexOK
  <2>2. FutexOK'  BY <1>2, <2>1, Zenon DEF S!SysFutexWait, FutexOK
  <2> QED BY <1>s, <1>2, <2>2 DEF S!SysFutexWait
<1>3. CASE S!FutexBlocks(t)  BY <1>s, <1>3 DEF S!FutexBlocks, FutexOK
<1>4. CASE S!FutexInterrupted(t) \/ S!FutexDone(t)
  <2>1. S!FutexLeaves(t)  BY <1>4 DEF S!FutexInterrupted, S!FutexDone
  <2>2. S!Without(futex.queue, t) \in Seq(S!Threads)  BY WithoutKeeps DEF FutexOK
  <2>3. FutexOK'  BY <2>1, <2>2 DEF S!FutexLeaves, FutexOK
  <2> QED BY <1>s, <2>1, <2>3 DEF S!FutexLeaves
<1>5. CASE S!OtherReturns(t)  BY <1>s, <1>5 DEF S!OtherReturns, FutexOK
<1>6. CASE S!SysFutexWake(t)
  <2>1. Head(futex.queue) \in S!Threads /\ Tail(futex.queue) \in Seq(S!Threads)
    BY <1>6, HeadTailProperties DEF S!SysFutexWake, FutexOK
  <2>2. FutexOK'  BY <1>6, <2>1, Zenon DEF S!SysFutexWake, FutexOK
  <2> QED BY <1>s, <1>6, <2>2 DEF S!SysFutexWake
<1>7. CASE S!FutexUnblocks(t)
  <2>1. FutexOK'  BY <1>7, Zenon DEF S!FutexUnblocks, FutexOK
  <2>2. thr' \in [S!Threads -> SignalPlaces] /\ (thr'[Main] \in {"clear", "deliver"} => thr[Main] = thr'[Main])
    BY <1>7 DEF S!FutexUnblocks, S!Threads
  <2>3. UNCHANGED <<sig, sender>>  BY <1>7 DEF S!FutexUnblocks
  <2> QED BY <1>s, <2>1, <2>2, <2>3
<1> QED BY <1>1, <1>2, <1>3, <1>4, <1>5, <1>6, <1>7 DEF FutexStep

MainStep ==
  \/ \E s \in S!Signals, a \in {"default", "ignore", "user"} : S!SysSignalAction(s, a)
  \/ S!Block \/ S!Woken \/ S!SyscallReturns \/ S!HandlePendingSignal \/ S!ClearPending \/ S!Dies \/ S!DoesNothing
  \/ S!RunsHandler \/ S!SysSignalReturn
SenderStep(k) == (\E s \in S!Signals : S!SysKill(k, s)) \/ S!SignalPends(k) \/ S!SignalInterrupts(k)

LEMMA SignalsSteps == S!Next <=> MainStep \/ (\E k \in Senders : SenderStep(k)) \/ (\E t \in S!Threads : FutexStep(t))
  BY DEF S!Next, MainStep, SenderStep, FutexStep

LEMMA SignalsTypes == SignalsTypeOK /\ Numbered /\ [S!Next]_(S!vars) => SignalsTypeOK'
<1>1. ASSUME SignalsTypeOK, UNCHANGED S!vars PROVE SignalsTypeOK'
  BY <1>1 DEF S!vars, SignalsTypeOK, SigOK, SenderOK, FutexOK
<1> QED BY <1>1, SignalsSteps, SenderTypes, MainTypes, FutexTypes DEF MainStep, SenderStep
-----------------------------------------------------------------------------
(* The mask. Only a handler that runs, one that returns and an action that *)
(* does nothing change it.                                                 *)
MaskParts == <<sig.mask, sig.frames, sig.left>>
Changes == S!DoesNothing \/ S!RunsHandler \/ S!SysSignalReturn

LEMMA OthersKeepMask ==
  ASSUME SignalsTypeOK, [S!Next]_(S!vars), ~Changes
  PROVE  UNCHANGED MaskParts
<1> USE DEF SignalsTypeOK, SigOK, MaskParts
<1>1. CASE UNCHANGED S!vars  BY <1>1 DEF S!vars
<1>2. ASSUME NEW k \in Senders, SenderStep(k) PROVE UNCHANGED MaskParts
  BY <1>2 DEF SenderStep, S!SysKill, S!SignalPends, S!SignalInterrupts
<1>3. ASSUME NEW t \in S!Threads, FutexStep(t) PROVE UNCHANGED MaskParts
  BY <1>3 DEF FutexStep, S!SetFutex, S!SysFutexWait, S!FutexBlocks, S!FutexInterrupted, S!FutexDone, S!FutexLeaves,
              S!OtherReturns, S!SysFutexWake, S!FutexUnblocks
<1>4. CASE MainStep
  BY <1>4, Zenon DEF MainStep, Changes, S!SysSignalAction, S!Block, S!Woken, S!SyscallReturns, S!HandlePendingSignal, S!ClearPending, S!Dies
<1> QED BY <1>1, <1>2, <1>3, <1>4, SignalsSteps

LEMMA HandlersStep ==
  ASSUME SignalsTypeOK, HandlersInv, [S!Next]_(S!vars)
  PROVE  HandlersInv'
<1> DEFINE f == sig.frames
           n == Len(f)
<1>t. /\ f \in Seq(Frames) /\ n \in Nat /\ DOMAIN f = 1..n /\ \A i \in 1..n : f[i] \in Frames
      /\ sig.mask \subseteq S!Signals /\ sig.left \subseteq S!Signals
  BY LenProperties, ElementOfSeq DEF SignalsTypeOK, SigOK
<1>m. /\ sig.mask = {f[i].number : i \in 1..n} \cup sig.left
      /\ \A i \in 1..n :
           /\ f[i].mask \subseteq sig.mask
           /\ \A j \in 1..i - 1 : f[j].number \in f[i].mask /\ f[j].mask \subseteq f[i].mask
           /\ \A s \in f[i].mask : s \in sig.left \/ \E j \in 1..i - 1 : f[j].number = s
  BY <1>t DEF HandlersInv, S!HandlersMasked, Nested
<1>1. CASE ~Changes
  <2>1. sig'.mask = sig.mask /\ sig'.frames = f /\ sig'.left = sig.left
    BY <1>1, OthersKeepMask DEF MaskParts
  <2> QED BY <2>1, <1>t, <1>m DEF HandlersInv, S!HandlersMasked, Nested
<1>2. CASE S!DoesNothing
  <2>1. sig'.mask = sig.mask \cup {sig.number} /\ sig'.frames = f /\ sig'.left = sig.left \cup {sig.number}
    BY <1>2 DEF S!DoesNothing, SignalsTypeOK, SigOK
  <2> HIDE DEF f
  <2>2. sig'.mask = {f[i].number : i \in 1..n} \cup sig'.left  BY <2>1, <1>m
  <2>3. \A i \in 1..n :
           /\ f[i].mask \subseteq sig'.mask
           /\ \A s \in f[i].mask : s \in sig'.left \/ \E j \in 1..i - 1 : f[j].number = s
    BY <2>1, <1>m
  <2>4. DOMAIN sig'.frames = 1..n /\ Len(sig'.frames) = n  BY <2>1, <1>t
  <2> QED BY <2>1, <2>2, <2>3, <2>4, <1>m DEF HandlersInv, S!HandlersMasked, Nested
<1>3. CASE S!RunsHandler
  <2> DEFINE e == [number |-> sig.number, mask |-> sig.mask]
             g == Append(f, e)
  <2>1. sig'.mask = sig.mask \cup {sig.number} /\ sig'.frames = g /\ sig'.left = sig.left
    BY <1>3 DEF S!RunsHandler, S!Masked, SignalsTypeOK, SigOK
  <2>2. e \in Frames  BY <1>3 DEF S!RunsHandler, Frames, SignalsTypeOK, SigOK
  <2>3. g \in Seq(Frames) /\ Len(g) = n + 1 /\ DOMAIN g = 1..n + 1 /\ g[n + 1] = e /\ \A i \in 1..n : g[i] = f[i]
    BY <1>t, <2>2, AppendProperties, LenProperties
  <2>4. e.number = sig.number /\ e.mask = sig.mask  OBVIOUS
  <2> HIDE DEF f, g, e, n
  <2>5. sig'.mask = {g[i].number : i \in 1..n + 1} \cup sig'.left
    <3>1. {g[i].number : i \in 1..n + 1} = {f[i].number : i \in 1..n} \cup {sig.number}
      <4>1. \A i \in 1..n + 1 : i \in 1..n \/ i = n + 1  BY <1>t
      <4>2. \A i \in 1..n : i \in 1..n + 1  BY <1>t
      <4>3. n + 1 \in 1..n + 1  BY <1>t
      <4> QED BY <2>3, <2>4, <4>1, <4>2, <4>3
    <3> QED BY <2>1, <3>1, <1>m
  <2>6. ASSUME NEW i \in 1..n + 1
        PROVE  /\ g[i].mask \subseteq sig'.mask
               /\ \A j \in 1..i - 1 : g[j].number \in g[i].mask /\ g[j].mask \subseteq g[i].mask
               /\ \A s \in g[i].mask : s \in sig'.left \/ \E j \in 1..i - 1 : g[j].number = s
    <3>1. CASE i \in 1..n
      <4>1. \A j \in 1..i - 1 : j \in 1..n /\ g[j] = f[j]  BY <1>t, <2>3, <3>1
      <4>2. g[i] = f[i]  BY <2>3, <3>1
      <4> QED BY <1>m, <2>1, <3>1, <4>1, <4>2
    <3>2. CASE i = n + 1
      <4>1. \A j : j \in 1..i - 1 <=> j \in 1..n  BY <1>t, <3>2
      <4>2. \A j \in 1..n : g[j].number \in sig.mask /\ g[j].mask \subseteq sig.mask  BY <1>m, <2>3
      <4>3. \A s \in sig.mask : s \in sig'.left \/ \E j \in 1..n : g[j].number = s  BY <1>m, <2>1, <2>3
      <4>4. g[i].mask = sig.mask  BY <2>3, <2>4, <3>2
      <4> QED BY <2>1, <4>1, <4>2, <4>3, <4>4
    <3> QED BY <1>t, <3>1, <3>2
  <2>7. DOMAIN sig'.frames = 1..n + 1 /\ Len(sig'.frames) = n + 1  BY <2>1, <2>3
  <2> QED BY <2>1, <2>5, <2>6, <2>7 DEF HandlersInv, S!HandlersMasked, Nested
<1>4. CASE S!SysSignalReturn
  <2> DEFINE g == SubSeq(f, 1, Len(f) - 1)
             e == f[Len(f)]
  <2>1. Len(f) > 0 /\ sig'.mask = e.mask /\ sig'.frames = g /\ sig'.left = sig.left \cap e.mask
    BY <1>4 DEF S!SysSignalReturn, SignalsTypeOK, SigOK
  <2>2. n \in Nat \ {0} /\ e = f[n] /\ g \in Seq(Frames) /\ Len(g) = n - 1 /\ \A i \in 1..n - 1 : g[i] = f[i]
    BY <1>t, <2>1, LastFront
  <2>3. DOMAIN g = 1..n - 1  BY <2>2, LenProperties
  <2> HIDE DEF f, g, e, n
  <2>4. \A i \in 1..n - 1 : i \in 1..n /\ g[i] = f[i] /\ \A j \in 1..i - 1 : j \in 1..n - 1 /\ g[j] = f[j]
    BY <2>2
  <2>5. n \in 1..n  BY <2>2
  <2>6. \A j \in 1..n - 1 : f[j].number \in e.mask /\ f[j].mask \subseteq e.mask  BY <1>m, <2>2, <2>5
  <2>7. \A s \in e.mask : s \in sig.left \/ \E j \in 1..n - 1 : f[j].number = s  BY <1>m, <2>2, <2>5
  <2>8. sig'.mask = {g[i].number : i \in 1..n - 1} \cup sig'.left
    BY <2>1, <2>4, <2>6, <2>7
  <2>9. ASSUME NEW i \in 1..n - 1
        PROVE  /\ g[i].mask \subseteq sig'.mask
               /\ \A j \in 1..i - 1 : g[j].number \in g[i].mask /\ g[j].mask \subseteq g[i].mask
               /\ \A s \in g[i].mask : s \in sig'.left \/ \E j \in 1..i - 1 : g[j].number = s
    BY <1>m, <2>1, <2>4, <2>6
  <2>10. sig'.frames = g /\ DOMAIN sig'.frames = 1..n - 1 /\ Len(sig'.frames) = n - 1  BY <2>1, <2>2, <2>3
  <2> HIDE DEF HandlersInv
  <2>11. S!HandlersMasked'  BY <2>8, <2>10 DEF S!HandlersMasked
  <2>12. Nested'  BY <2>9, <2>10 DEF Nested
  <2> QED BY <2>11, <2>12 DEF HandlersInv
<1> QED BY <1>1, <1>2, <1>3, <1>4 DEF Changes
-----------------------------------------------------------------------------
(* Sleeping: who writes a pending signal has still to look at the thread,  *)
(* and who falls asleep has just looked at the word.                       *)
LEMMA WakesStep ==
  ASSUME SignalsTypeOK, S!SignalWakes, [S!Next]_(S!vars)
  PROVE  S!SignalWakes'
<1> USE DEF S!SignalWakes, S!Unmasked, S!EffectiveSignalMask
<1>m. Main \in S!Threads  BY DEF S!Threads
<1>t. thr \in [S!Threads -> SignalPlaces] /\ sender \in [Senders -> [pc : {"idle", "write", "test"}, s : S!Signals \cup {None}, read : SUBSET S!Signals]]
  BY DEF SignalsTypeOK, SenderOK
<1>1. CASE UNCHANGED S!vars  BY <1>1 DEF S!vars
<1>2. ASSUME NEW k \in Senders, SenderStep(k) PROVE S!SignalWakes'
  <2>1. ASSUME NEW s \in S!Signals, S!SysKill(k, s) PROVE S!SignalWakes'
    <3>1. \A j \in Senders : sender[j].pc = "test" => sender'[j].pc = "test"  BY <1>t, <2>1 DEF S!SysKill
    <3> QED BY <2>1, <3>1 DEF S!SysKill
  <2>2. CASE S!SignalPends(k)
    <3>1. sender'[k].pc = "test"  BY <1>t, <2>2 DEF S!SignalPends
    <3> QED BY <3>1
  <2>3. CASE S!SignalInterrupts(k)
    <3>1. thr'[Main] # "asleep"  BY <1>m, <1>t, <2>3 DEF S!SignalInterrupts, S!Interrupted
    <3> QED BY <3>1
  <2> QED BY <1>2, <2>1, <2>2, <2>3 DEF SenderStep
<1>3. ASSUME MainStep PROVE S!SignalWakes'
  <2>1. CASE S!Block
    <3>1. thr'[Main] = "asleep" => S!Unmasked = {} /\ UNCHANGED sig
      BY <1>m, <1>t, <2>1 DEF S!Block, S!Moves, S!SeesSignal
    <3> QED BY <3>1
  <2>2. CASE ~S!Block
    <3>1. thr'[Main] # "asleep"
      BY <1>m, <1>t, <1>3, <2>2 DEF MainStep, S!Moves, S!SysSignalAction, S!Woken, S!SyscallReturns, S!HandlePendingSignal, S!ClearPending,
                               S!Dies, S!DoesNothing, S!RunsHandler, S!SysSignalReturn
    <3> QED BY <3>1
  <2> QED BY <2>1, <2>2
<1>4. ASSUME NEW t \in S!Threads, FutexStep(t) PROVE S!SignalWakes'
  <2>1. UNCHANGED <<sig, sender>>
    BY <1>4 DEF FutexStep, S!SetFutex, S!SysFutexWait, S!FutexBlocks, S!FutexInterrupted, S!FutexDone, S!FutexLeaves,
                S!OtherReturns, S!SysFutexWake, S!FutexUnblocks
  <2>2. thr'[Main] = "asleep" => thr[Main] = "asleep"
    BY <1>m, <1>t, <1>4 DEF FutexStep, S!Moves, S!SetFutex, S!SysFutexWait, S!FutexBlocks, S!FutexInterrupted, S!FutexDone, S!FutexLeaves,
                S!OtherReturns, S!SysFutexWake, S!FutexUnblocks
  <2> QED BY <2>1, <2>2
<1> QED BY <1>1, <1>2, <1>3, <1>4, SignalsSteps
-----------------------------------------------------------------------------
(* Futexes. A step keeps a waiter within reach if it leaves the waiter, or *)
(* its place on the list or in the waker's hand, alone.                    *)
FutexHeld(t) == t = waker.front \/ \E i \in 1..Len(futex.queue) : futex.queue[i] = t
FutexWaits(t) == thr[t] \in {"futex", "waiting"} /\ blocker[t]

LEMMA ReachStep ==
  ASSUME SignalsTypeOK, Reachable, Named, [S!Next]_(S!vars)
  PROVE  Reachable'
<1> USE DEF Reachable, FutexHeld, FutexWaits
<1>m. Main \in S!Threads  BY DEF S!Threads
<1>t. /\ thr \in [S!Threads -> SignalPlaces] /\ blocker \in [S!Threads -> BOOLEAN]
      /\ futex \in [value : {0, 1}, queue : Seq(S!Threads)]
      /\ waker \in [holder : S!Threads \cup {None}, front : S!Threads \cup {None}]
  BY DEF SignalsTypeOK, FutexOK
<1>1. CASE UNCHANGED S!vars  BY <1>1 DEF S!vars
<1>2. ASSUME UNCHANGED <<blocker, futex, waker>>,
             \A z \in S!Threads : thr'[z] \in {"futex", "waiting"} => thr'[z] = thr[z]
      PROVE  Reachable'
  BY <1>2
<1>3. ASSUME NEW k \in Senders, SenderStep(k) PROVE Reachable'
  <2>1. UNCHANGED <<blocker, futex, waker>>
    BY <1>3 DEF SenderStep, S!SysKill, S!SignalPends, S!SignalInterrupts
  <2>2. \A z \in S!Threads : thr'[z] \in {"futex", "waiting"} => thr'[z] = thr[z]
    BY <1>m, <1>t, <1>3 DEF SenderStep, S!SysKill, S!SignalPends, S!SignalInterrupts, S!Interrupted
  <2> QED BY <1>2, <2>1, <2>2
<1>4. ASSUME MainStep PROVE Reachable'
  <2>1. UNCHANGED <<blocker, futex, waker>>
    BY <1>4 DEF MainStep, S!SysSignalAction, S!Block, S!Woken, S!SyscallReturns, S!HandlePendingSignal, S!ClearPending,
                S!Dies, S!DoesNothing, S!RunsHandler, S!SysSignalReturn
  <2>2. \A z \in S!Threads : thr'[z] \in {"futex", "waiting"} => thr'[z] = thr[z]
    BY <1>m, <1>t, <1>4 DEF MainStep, S!Moves, S!SysSignalAction, S!Block, S!Woken, S!SyscallReturns, S!HandlePendingSignal, S!ClearPending,
                S!Dies, S!DoesNothing, S!RunsHandler, S!SysSignalReturn
  <2> QED BY <1>2, <2>1, <2>2
<1>5. ASSUME NEW t \in S!Threads, FutexStep(t) PROVE Reachable'
  <2>q. futex.queue \in Seq(S!Threads) /\ Len(futex.queue) \in Nat  BY <1>t, LenProperties
  <2>1. CASE S!SetFutex(t) \/ S!OtherReturns(t)
    <3>1. futex'.queue = futex.queue /\ UNCHANGED <<blocker, waker>>  BY <1>t, <2>1 DEF S!SetFutex, S!OtherReturns
    <3>2. \A z \in S!Threads : thr'[z] \in {"futex", "waiting"} => thr'[z] = thr[z]
      BY <1>t, <2>1 DEF S!SetFutex, S!OtherReturns, S!Moves
    <3> QED BY <3>1, <3>2
  <2>2. CASE S!SysFutexWait(t)
    <3>1. futex'.queue = Append(futex.queue, t) /\ UNCHANGED waker  BY <1>t, <2>2 DEF S!SysFutexWait
    <3>2. /\ Len(futex'.queue) = Len(futex.queue) + 1 /\ futex'.queue[Len(futex.queue) + 1] = t
          /\ \A i \in 1..Len(futex.queue) : futex'.queue[i] = futex.queue[i]
      BY <2>q, <3>1, AppendProperties
    <3>3. \A z \in S!Threads : z # t => thr'[z] = thr[z] /\ blocker'[z] = blocker[z]
      BY <1>t, <2>2 DEF S!SysFutexWait, S!Moves
    <3>4. thr'[t] = "futex"  BY <1>t, <2>2 DEF S!SysFutexWait, S!Moves
    <3>5. \A z \in S!Threads : FutexHeld(z) => FutexHeld(z)'
      <4>1. \A i \in 1..Len(futex.queue) : i \in 1..Len(futex'.queue)  BY <2>q, <3>2
      <4> QED BY <3>1, <3>2, <4>1
    <3>6. FutexHeld(t)'
      <4>1. Len(futex.queue) + 1 \in 1..Len(futex'.queue)  BY <2>q, <3>2
      <4> QED BY <3>2, <4>1
    <3> QED BY <3>1, <3>3, <3>4, <3>5, <3>6
  <2>3. CASE S!FutexBlocks(t)
    BY <1>t, <2>3 DEF S!FutexBlocks, S!Moves, S!Spent
  <2>4. CASE S!FutexInterrupted(t) \/ S!FutexDone(t)
    <3>1. S!FutexLeaves(t)  BY <2>4 DEF S!FutexInterrupted, S!FutexDone
    <3>2. futex'.queue = S!Without(futex.queue, t) /\ UNCHANGED waker  BY <1>t, <3>1 DEF S!FutexLeaves
    <3>3. \A z \in S!Threads : z # t => thr'[z] = thr[z] /\ blocker'[z] = blocker[z]
      BY <1>t, <3>1 DEF S!FutexLeaves, S!Moves
    <3>4. thr'[t] = "kernel"  BY <1>t, <3>1 DEF S!FutexLeaves, S!Moves
    <3>5. \A z \in S!Threads : z # t /\ FutexHeld(z) => FutexHeld(z)'  BY <2>q, <3>2, WithoutKeeps
    <3> QED BY <3>2, <3>3, <3>4, <3>5
  <2>5. CASE S!SysFutexWake(t)
    <3>1. /\ waker.front = None /\ waker'.holder = t /\ waker'.front = Head(futex.queue)
          /\ futex'.queue = Tail(futex.queue) /\ futex.queue # <<>> /\ UNCHANGED blocker
      BY <1>t, <2>5 DEF S!SysFutexWake
    <3>2. /\ Len(futex'.queue) = Len(futex.queue) - 1
          /\ \A i \in 1..Len(futex.queue) - 1 : futex'.queue[i] = futex.queue[i + 1]
      BY <2>q, <3>1, HeadTailProperties
    <3>3. waker'.front = futex.queue[1]  BY <2>q, <3>1
    <3>4. \A z \in S!Threads : thr'[z] \in {"futex", "waiting"} => thr'[z] = thr[z]
      BY <1>t, <2>5 DEF S!SysFutexWake, S!Moves
    <3>5. ASSUME NEW z \in S!Threads, FutexHeld(z) PROVE FutexHeld(z)'
      <4>1. PICK i \in 1..Len(futex.queue) : futex.queue[i] = z  BY <3>1, <3>5 DEF Named
      <4>2. CASE i = 1  BY <3>3, <4>1, <4>2
      <4>3. CASE i # 1
        <5>1. i - 1 \in 1..Len(futex.queue) - 1 /\ (i - 1) + 1 = i  BY <2>q, <4>3
        <5>2. futex'.queue[i - 1] = z  BY <3>2, <4>1, <5>1
        <5>3. i - 1 \in 1..Len(futex'.queue)  BY <3>2, <5>1
        <5> QED BY <5>2, <5>3
      <4> QED BY <4>2, <4>3
    <3>6. waker'.holder # None  BY <3>1 DEF Named
    <3> QED BY <3>1, <3>4, <3>5, <3>6
  <2>6. CASE S!FutexUnblocks(t)
    <3>1. /\ waker'.holder = None /\ waker'.front = None /\ UNCHANGED futex
      BY <1>t, <2>6 DEF S!FutexUnblocks
    <3>2. \A z \in S!Threads : z # waker.front => blocker'[z] = blocker[z] /\ (z # t => thr'[z] = thr[z])
      BY <1>t, <2>6 DEF S!FutexUnblocks
    <3>3. waker.front \in S!Threads => ~blocker'[waker.front] /\ thr'[waker.front] # "waiting"
      BY <1>t, <2>6 DEF S!FutexUnblocks
    <3>4. thr'[t] = "kernel"  BY <1>t, <2>6 DEF S!FutexUnblocks
    <3> QED BY <3>1, <3>2, <3>3, <3>4
  <2> QED BY <1>5, <2>1, <2>2, <2>3, <2>4, <2>5, <2>6 DEF FutexStep
<1> QED BY <1>1, <1>3, <1>4, <1>5, SignalsSteps
-----------------------------------------------------------------------------
LEMMA SignalsStep == Numbered /\ Named /\ SignalsInv /\ [S!Next]_(S!vars) => SignalsInv'
  BY SignalsTypes, HandlersStep, WakesStep, ReachStep DEF SignalsInv

(* Types: the word of pending signals and the masks hold signals, and the  *)
(* frames of handlers and the list of a futex are sequences.               *)
THEOREM SignalsTyped == S!Spec => []SignalsTypeOK
<1>1. S!Init => SignalsInv  BY SignalsInit
<1>2. SignalsInv /\ [S!Next]_(S!vars) => SignalsInv'  BY SignalsStep, SignalsHeld
<1>3. SignalsInv => SignalsTypeOK  BY DEF SignalsInv
<1> QED BY <1>1, <1>2, <1>3, PTL DEF S!Spec

(* HandlePendingSignal and SysSignalReturn: the mask is the signals being  *)
(* handled and those that an action which does nothing left in it.         *)
THEOREM MaskIsHandled == S!Spec => []S!HandlersMasked
<1>1. S!Init => SignalsInv  BY SignalsInit
<1>2. SignalsInv /\ [S!Next]_(S!vars) => SignalsInv'  BY SignalsStep, SignalsHeld
<1>3. SignalsInv => S!HandlersMasked  BY DEF SignalsInv, HandlersInv
<1> QED BY <1>1, <1>2, <1>3, PTL DEF S!Spec

(* Thread::Signal and Thread::Block: nobody sleeps on a signal unless its  *)
(* sender is about to look.                                                *)
THEOREM NobodySleepsOnSignal == S!Spec => []S!SignalWakes
<1>1. S!Init => SignalsInv  BY SignalsInit
<1>2. SignalsInv /\ [S!Next]_(S!vars) => SignalsInv'  BY SignalsStep, SignalsHeld
<1>3. SignalsInv => S!SignalWakes  BY DEF SignalsInv
<1> QED BY <1>1, <1>2, <1>3, PTL DEF S!Spec

(* SysFutexWait and SysFutexWake: a sleeping waiter is on the list, or in  *)
(* the hand of a waker.                                                    *)
THEOREM WaiterCanBeWoken == S!Spec => []S!FutexListed
<1>1. S!Init => SignalsInv  BY SignalsInit
<1>2. SignalsInv /\ [S!Next]_(S!vars) => SignalsInv'  BY SignalsStep, SignalsHeld
<1>3. SignalsInv => S!FutexListed
  <2>1. SignalsTypeOK => DOMAIN futex.queue = 1..Len(futex.queue)  BY LenProperties DEF SignalsTypeOK, FutexOK
  <2> QED BY <2>1 DEF SignalsInv, Reachable, S!FutexListed
<1> QED BY <1>1, <1>2, <1>3, PTL DEF S!Spec
-----------------------------------------------------------------------------
(* What is common to them: moving bytes and messages from one sequence to  *)
(* another keeps their order.                                              *)
LEMMA Regroup ==
  ASSUME NEW Z, NEW q \in Seq(Z), NEW a \in Seq(Z), NEW b \in Seq(Z)
  PROVE  (q \o a) \o b = q \o (a \o b)
BY ConcatAssociative

LEMMA Rejoin ==
  ASSUME NEW Z, NEW q \in Seq(Z), NEW k \in 0..Len(q)
  PROVE  /\ SubSeq(q, 1, k) \in Seq(Z) /\ SubSeq(q, k + 1, Len(q)) \in Seq(Z)
         /\ SubSeq(q, 1, k) \o SubSeq(q, k + 1, Len(q)) = q
<1>1. Len(q) \in Nat /\ k \in Nat  BY LenProperties
<1>2. SubSeq(q, 1, k) \in Seq(Z) /\ SubSeq(q, k + 1, Len(q)) \in Seq(Z)
  BY <1>1
<1>3. SubSeq(q, 1, k) \o SubSeq(q, k + 1, Len(q)) = SubSeq(q, 1, Len(q))
  <2> DEFINE one == 1
  <2>1. one \in 1..Len(q) + 1 /\ k \in one - 1..Len(q) /\ Len(q) \in k..Len(q)  BY <1>1
  <2> HIDE DEF one
  <2>2. SubSeq(q, one, k) \o SubSeq(q, k + 1, Len(q)) = SubSeq(q, one, Len(q))  BY <2>1, ConcatAdjacentSubSeq, Zenon
  <2> QED BY <2>2, Zenon DEF one
<1> QED BY <1>2, <1>3, SubSeqFull, Zenon

LEMMA HeadMoves ==
  ASSUME NEW Z, NEW r \in Seq(Z), NEW q \in Seq(Z), q # <<>>
  PROVE  Append(r, Head(q)) \o Tail(q) = r \o q
<1>1. Head(q) \in Z /\ Tail(q) \in Seq(Z) /\ q = <<Head(q)>> \o Tail(q)
  OBVIOUS
<1>2. <<Head(q)>> \in Seq(Z) /\ Append(r, Head(q)) = r \o <<Head(q)>>  BY <1>1, AppendIsConcat
<1> QED BY <1>1, <1>2, ConcatAssociative

LEMMA AppendJoins ==
  ASSUME NEW Z, NEW r \in Seq(Z), NEW q \in Seq(Z), NEW e \in Z
  PROVE  r \o Append(q, e) = Append(r \o q, e)
<1>1. <<e>> \in Seq(Z) /\ r \o q \in Seq(Z) OBVIOUS
<1>2. Append(q, e) = q \o <<e>> /\ Append(r \o q, e) = (r \o q) \o <<e>>  BY <1>1, AppendIsConcat
<1> QED BY <1>1, <1>2, ConcatAssociative

(* The bytes that a writer counts on from the last one written.            *)
LEMMA CountOn ==
  ASSUME NEW w \in Nat, NEW n \in Nat
  PROVE  /\ [i \in 1..n |-> w + i] \in Seq(Nat) /\ [i \in 1..w |-> i] \in Seq(Nat)
         /\ [i \in 1..w |-> i] \o [i \in 1..n |-> w + i] = [i \in 1..w + n |-> i]
<1> DEFINE a == [i \in 1..w |-> i]
           b == [i \in 1..n |-> w + i]
           c == [i \in 1..w + n |-> i]
<1>1. w + n \in Nat  OBVIOUS
<1>2. a \in Seq(Nat) /\ Len(a) = w /\ \A i \in 1..w : a[i] = i  OBVIOUS
<1>3. b \in Seq(Nat) /\ Len(b) = n /\ \A i \in 1..n : b[i] = w + i  OBVIOUS
<1>4. c \in Seq(Nat) /\ Len(c) = w + n /\ \A i \in 1..w + n : c[i] = i  BY <1>1
<1> HIDE DEF a, b, c
<1>5. /\ a \o b \in Seq(Nat) /\ Len(a \o b) = w + n
      /\ \A i \in 1..w + n : (a \o b)[i] = IF i <= w THEN a[i] ELSE b[i - w]
  BY <1>2, <1>3, ConcatProperties, Zenon
<1>6. \A i \in 1..w + n : (a \o b)[i] = c[i]  BY <1>2, <1>3, <1>4, <1>5, SMTT(60)
<1>7. a \o b = c  BY <1>1, <1>4, <1>5, <1>6, SeqEqual, Zenon
<1> QED BY <1>2, <1>3, <1>7 DEF a, b, c
-----------------------------------------------------------------------------
(* The places of the readers and of the writers of a pipe.                 *)
ReaderPlaces == {"idle", "block", "blocked", "take", "closed"}
WriterPlaces == {"idle", "put", "wake", "closed"}
PipeTypeOK ==
  /\ end \in [P!Ends -> [widowed : BOOLEAN, gone : BOOLEAN]]
  /\ stream \in Seq(Nat) /\ got \in Seq(Nat) /\ written \in Nat
  /\ user \in [P!Users -> [pc : ReaderPlaces \cup WriterPlaces, len : Nat, missed : BOOLEAN]]
  /\ \A u \in Readers : user[u].pc \in ReaderPlaces
  /\ \A u \in Writers : user[u].pc \in WriterPlaces

(* An end is deleted as its last handle closes, and the other end is told. *)
Told == \A e \in P!Ends : end[e].gone <=> end[P!Other(e)].widowed

PipeInv == PipeTypeOK /\ Told /\ P!InOrder /\ P!ReaderWoken /\ P!EndsKept

(* CreatePipe gives each end to somebody; in the model a thread that holds *)
(* both ends is one of the readers and another of the writers.             *)
BothHeld == Readers # {} /\ Writers # {} /\ Readers \cap Writers = {} /\ MaxLength \in Nat

LEMMA EndsHeld == BothHeld  BY PipeAssumption DEF BothHeld

LEMMA PipeInit == BothHeld /\ P!Init => PipeInv
<1> SUFFICES ASSUME BothHeld, P!Init PROVE PipeInv  OBVIOUS
<1>1. PipeTypeOK  BY DEF P!Init, P!Idle, PipeTypeOK, ReaderPlaces, WriterPlaces, P!Users
<1>2. \A u \in P!Users : user[u].pc = "idle"  BY DEF P!Init, P!Idle
<1>3. P!InOrder
  <2>1. [i \in 1..0 |-> i] = <<>>  OBVIOUS
  <2>2. got = <<>> /\ stream = <<>> /\ written = 0  BY DEF P!Init
  <2> QED BY <2>1, <2>2 DEF P!InOrder
<1>4. P!ReaderWoken  BY <1>2 DEF P!ReaderWoken, P!At, P!Users
<1>5. P!EndsKept
  <2>1. ASSUME NEW e \in P!Ends PROVE ~end[e].gone /\ P!Handles(e) # {}
    <3>1. PICK r \in Readers, w \in Writers : TRUE  BY DEF BothHeld
    <3>2. r \in P!Users /\ w \in P!Users /\ r \notin Writers /\ w \notin Readers  BY DEF BothHeld, P!Users
    <3>3. P!EndOf(r) = "read" /\ P!EndOf(w) = "write"  BY <3>2 DEF P!EndOf
    <3>4. user[r].pc # "closed" /\ user[w].pc # "closed"  BY <1>2, <3>2
    <3>5. r \in P!Handles("read") /\ w \in P!Handles("write")  BY <3>2, <3>3, <3>4 DEF P!Handles
    <3> QED BY <3>5 DEF P!Init, P!Ends
  <2>2. blocked = {} /\ ~dangling  BY DEF P!Init
  <2> QED BY <1>2, <2>1, <2>2 DEF P!EndsKept, P!At
<1>6. Told  BY DEF P!Init, Told, P!Ends, P!Other
<1> QED BY <1>1, <1>3, <1>4, <1>5, <1>6 DEF PipeInv

LEMMA PipeTypes ==
  ASSUME PipeTypeOK, P!EndsKept, BothHeld, [P!Next]_(P!vars)
  PROVE  PipeTypeOK'
<1> USE DEF PipeTypeOK, ReaderPlaces, WriterPlaces, P!Users, P!At
<1>1. CASE UNCHANGED P!vars  BY <1>1 DEF P!vars
<1>2. ASSUME NEW u \in P!Users, NEW n \in 1..MaxLength, P!Read(u, n) PROVE PipeTypeOK'
  <2>1. /\ user' \in [P!Users -> [pc : ReaderPlaces \cup WriterPlaces, len : Nat, missed : BOOLEAN]]
        /\ user'[u].pc \in ReaderPlaces /\ \A v \in P!Users : v # u => user'[v].pc = user[v].pc
    BY <1>2 DEF P!Read, BothHeld
  <2>2. UNCHANGED <<end, stream, got, written>> /\ u \in Readers  BY <1>2 DEF P!Read
  <2> QED BY <2>1, <2>2, Zenon DEF BothHeld
<1>3. ASSUME NEW u \in P!Users, NEW n \in 1..MaxLength, P!Write(u, n) PROVE PipeTypeOK'
  <2>1. /\ user' \in [P!Users -> [pc : ReaderPlaces \cup WriterPlaces, len : Nat, missed : BOOLEAN]]
        /\ user'[u].pc \in WriterPlaces /\ \A v \in P!Users : v # u => user'[v].pc = user[v].pc
    <3>1. n \in Nat /\ user' = [user EXCEPT ![u].len = n, ![u].pc = "put"] /\ u \in Writers
      BY <1>3 DEF P!Write, BothHeld
    <3> QED BY <3>1, ZenonT(60)
  <2>2. UNCHANGED <<end, stream, got, written>> /\ u \in Writers  BY <1>3 DEF P!Write
  <2> QED BY <2>1, <2>2, Zenon DEF BothHeld
<1>4. ASSUME NEW u \in P!Users, P!ReadBlock(u) PROVE PipeTypeOK'
  BY <1>4 DEF P!ReadBlock, P!Short, P!Ends
<1>5. ASSUME NEW u \in P!Users, P!ReadInterrupted(u) PROVE PipeTypeOK'
  BY <1>5 DEF P!ReadInterrupted, P!Idle
<1>6. ASSUME NEW u \in P!Users, P!ReadTake(u) PROVE PipeTypeOK'
  BY <1>6, SMTT(60) DEF P!ReadTake, P!StreamRead, P!Idle
<1>7. ASSUME NEW u \in P!Users, P!WritePut(u) PROVE PipeTypeOK'
  <2>1. user[u].len \in Nat  OBVIOUS
  <2>2. [i \in 1..user[u].len |-> written + i] \in Seq(Nat)  BY <2>1, CountOn, Zenon
  <2>3. stream' \in Seq(Nat) /\ written' \in Nat  BY <1>7, <2>1, <2>2 DEF P!WritePut, P!StreamWrite
  <2>4. user' = [user EXCEPT ![u].pc = "wake"] /\ u \in Writers  BY <1>7, Zenon DEF P!WritePut, P!Goes
  <2>5. UNCHANGED <<end, got>>  BY <1>7 DEF P!WritePut
  <2> QED BY <2>3, <2>4, <2>5, ZenonT(60) DEF BothHeld
<1>8. ASSUME NEW u \in P!Users, P!WriteWake(u) PROVE PipeTypeOK'
  <2>1. user' = [v \in P!Users |-> IF v = u THEN P!Idle
                                  ELSE IF v \in P!Awoken THEN [user[v] EXCEPT !.pc = "take"] ELSE user[v]]
    BY <1>8 DEF P!WriteWake
  <2>2. UNCHANGED <<end, stream, got, written>> /\ u \in Writers  BY <1>8, Zenon DEF P!WriteWake
  <2>3. \A v \in P!Awoken : v \in Readers  BY Zenon DEF P!Awoken, P!EndsKept, BothHeld
  <2>4. \A v \in P!Users : user'[v].pc \in {"idle", "take", user[v].pc} /\ (v \notin Readers => user'[v].pc # "take" \/ user'[v].pc = user[v].pc)
    BY <2>1, <2>3 DEF P!Idle
  <2>5. user' \in [P!Users -> [pc : ReaderPlaces \cup WriterPlaces, len : Nat, missed : BOOLEAN]]
    <3>1. P!Idle \in [pc : ReaderPlaces \cup WriterPlaces, len : Nat, missed : BOOLEAN]  BY DEF P!Idle
    <3>2. \A v \in P!Users : [user[v] EXCEPT !.pc = "take"] \in [pc : ReaderPlaces \cup WriterPlaces, len : Nat, missed : BOOLEAN]
      BY Zenon
    <3> QED BY <2>1, <3>1, <3>2
  <2> QED BY <2>2, <2>4, <2>5, Zenon DEF BothHeld
<1>9. ASSUME NEW u \in P!Users, P!Close(u) PROVE PipeTypeOK'
  BY <1>9, ZenonT(60) DEF P!Close, P!Goes, P!Ends, P!EndOf, P!Other
<1> QED BY <1>1, <1>2, <1>3, <1>4, <1>5, <1>6, <1>7, <1>8, <1>9, Zenon DEF P!Next
LEMMA PipeOrder ==
  ASSUME PipeTypeOK, P!InOrder, [P!Next]_(P!vars)
  PROVE  P!InOrder'
<1>a. \A u \in P!Users : user[u].len \in Nat  BY DEF PipeTypeOK
<1>1. CASE UNCHANGED <<got, stream, written>>  BY <1>1 DEF P!InOrder
<1>2. ASSUME NEW u \in P!Users, P!ReadTake(u) PROVE P!InOrder'
  <2>1. PICK n \in 0..Len(stream) : P!StreamRead(n)
    BY <1>2, <1>a DEF P!ReadTake, PipeTypeOK
  <2> DEFINE a == SubSeq(stream, 1, n)
             b == SubSeq(stream, n + 1, Len(stream))
  <2>2. a \in Seq(Nat) /\ b \in Seq(Nat)  BY Rejoin, Zenon DEF PipeTypeOK
  <2>6. a \o b = stream  BY Rejoin, Zenon DEF PipeTypeOK
  <2>3. got' = got \o a /\ stream' = b /\ written' = written  BY <1>2, <2>1, Zenon DEF P!StreamRead, P!ReadTake
  <2> HIDE DEF a, b
  <2>4. got \in Seq(Nat)  BY DEF PipeTypeOK
  <2>5. (got \o a) \o b = got \o (a \o b)  BY <2>2, <2>4, Regroup, SMTT(60)
  <2> QED BY <2>3, <2>5, <2>6 DEF P!InOrder
<1>3. ASSUME NEW u \in P!Users, P!WritePut(u) PROVE P!InOrder'
  <2> DEFINE n == user[u].len
             more == [i \in 1..n |-> written + i]
  <2>1. n \in Nat /\ written \in Nat /\ got \in Seq(Nat) /\ stream \in Seq(Nat)  BY <1>a DEF PipeTypeOK
  <2>2. got' = got /\ stream' = stream \o more /\ written' = written + n
    BY <1>3 DEF P!WritePut, P!StreamWrite
  <2>3. /\ more \in Seq(Nat)
        /\ [i \in 1..written |-> i] \o more = [i \in 1..written + n |-> i]
    BY <2>1, CountOn, Zenon
  <2> HIDE DEF more
  <2>4. (got \o stream) \o more = got \o (stream \o more)  BY <2>1, <2>3, Regroup, SMTT(60)
  <2> QED BY <2>2, <2>3, <2>4, Zenon DEF P!InOrder
<1>4. ASSUME NEW u \in P!Users,
             (\E k \in 1..MaxLength : P!Read(u, k) \/ P!Write(u, k))
               \/ P!ReadBlock(u) \/ P!ReadInterrupted(u) \/ P!WriteWake(u) \/ P!Close(u)
      PROVE UNCHANGED <<got, stream, written>>
  BY <1>4, Zenon DEF P!Read, P!Write, P!ReadBlock, P!ReadInterrupted, P!WriteWake, P!Close
<1> QED BY <1>1, <1>2, <1>3, <1>4 DEF P!Next, P!vars

LEMMA PipeWakes ==
  ASSUME PipeTypeOK, BothHeld, P!EndsKept, P!ReaderWoken, [P!Next]_(P!vars)
  PROVE  P!ReaderWoken'
<1>a. /\ \A u \in P!Users : user[u].len \in Nat
      /\ Len(stream) \in Nat
      /\ \A u \in Readers : u \in P!Users /\ u \notin Writers
      /\ \A v \in Writers : v \in P!Users /\ v \notin Readers
  BY DEF PipeTypeOK, BothHeld, P!Users
<1> SUFFICES ASSUME NEW r \in Readers, P!At(r, "blocked")'
             PROVE  (\/ user[r].len > Len(stream) \/ user[r].missed
                     \/ \E v \in Writers : P!At(v, "wake"))'
  BY DEF P!ReaderWoken
<1> DEFINE Keeps == /\ user'[r] = user[r] /\ Len(stream') <= Len(stream)
                    /\ \A v \in Writers : P!At(v, "wake") => P!At(v, "wake")'
<1>1. ASSUME Keeps, Len(stream') \in Nat
      PROVE  (\/ user[r].len > Len(stream) \/ user[r].missed
              \/ \E v \in Writers : P!At(v, "wake"))'
  BY <1>1, <1>a DEF P!ReaderWoken, P!At
<1>2. CASE UNCHANGED <<user, stream>>  BY <1>1, <1>2, <1>a DEF P!At
<1>3. ASSUME NEW u \in P!Users, NEW n \in 1..MaxLength, P!Read(u, n) PROVE Keeps
  <2>1. user[u].pc = "idle" /\ user'[u].pc \in {"block", "take"} /\ stream' = stream
    BY <1>3 DEF P!Read, P!At, PipeTypeOK
  <2>2. \A v \in P!Users : v # u => user'[v] = user[v]  BY <1>3 DEF P!Read, PipeTypeOK
  <2> QED BY <1>a, <2>1, <2>2 DEF P!At
<1>4. ASSUME NEW u \in P!Users, NEW n \in 1..MaxLength, P!Write(u, n) PROVE Keeps
  <2>1. user[u].pc = "idle" /\ user'[u].pc = "put" /\ stream' = stream
    BY <1>4 DEF P!Write, P!At, PipeTypeOK
  <2>2. \A v \in P!Users : v # u => user'[v] = user[v]  BY <1>4 DEF P!Write, PipeTypeOK
  <2> QED BY <1>a, <2>1, <2>2 DEF P!At
<1>5. ASSUME NEW u \in P!Users, P!ReadBlock(u), u # r PROVE Keeps
  <2>1. user[u].pc = "block" /\ user'[u].pc = "blocked" /\ stream' = stream
    BY <1>5 DEF P!ReadBlock, P!At, PipeTypeOK
  <2>2. \A v \in P!Users : v # u => user'[v] = user[v]  BY <1>5 DEF P!ReadBlock, PipeTypeOK
  <2> QED BY <1>5, <1>a, <2>1, <2>2 DEF P!At
<1>6. ASSUME P!ReadBlock(r) PROVE (user[r].len > Len(stream) \/ user[r].missed)'
  <2>1. user'[r].len = user[r].len /\ user'[r].missed = ~P!Short(user[r].len) /\ stream' = stream
    BY <1>6, <1>a DEF P!ReadBlock, PipeTypeOK
  <2> QED BY <2>1, Zenon DEF P!Short
<1>7. ASSUME NEW u \in P!Users, P!ReadInterrupted(u) PROVE Keeps
  <2>1. user[u].pc = "blocked" /\ user'[u].pc = "idle"  BY <1>7 DEF P!ReadInterrupted, P!At, P!Idle, PipeTypeOK
  <2>2. \A v \in P!Users : v # u => user'[v] = user[v]  BY <1>7 DEF P!ReadInterrupted, PipeTypeOK
  <2> QED BY <1>7, <1>a, <2>1, <2>2 DEF P!At, P!ReadInterrupted
<1>8. ASSUME NEW u \in P!Users, P!ReadTake(u) PROVE Keeps /\ Len(stream') \in Nat
  <2>1. user[u].pc = "take" /\ user'[u].pc = "idle"  BY <1>8 DEF P!ReadTake, P!At, P!Idle, PipeTypeOK
  <2>2. \A v \in P!Users : v # u => user'[v] = user[v]  BY <1>8 DEF P!ReadTake, PipeTypeOK
  <2>3. PICK k \in 0..Len(stream) : P!StreamRead(k)
    BY <1>8, <1>a DEF P!ReadTake
  <2>4. Len(stream') \in Nat /\ Len(stream') <= Len(stream)
    BY <2>3, <1>a DEF P!StreamRead, PipeTypeOK
  <2> QED BY <1>a, <2>1, <2>2, <2>4 DEF P!At
<1>9. ASSUME NEW u \in P!Users, P!WritePut(u) PROVE \E v \in Writers : P!At(v, "wake")'
  <2>1. user[u].pc = "put" /\ user'[u].pc = "wake"  BY <1>9 DEF P!WritePut, P!At, P!Goes, PipeTypeOK
  <2>2. u \in Writers  BY <2>1, Zenon DEF PipeTypeOK, ReaderPlaces, P!Users
  <2> QED BY <2>1, <2>2 DEF P!At
<1>10. ASSUME NEW u \in P!Users, P!WriteWake(u) PROVE (user[r].len > Len(stream))'
  <2>1. user' = [v \in P!Users |-> IF v = u THEN P!Idle
                                   ELSE IF v \in P!Awoken THEN [user[v] EXCEPT !.pc = "take"] ELSE user[v]]
    BY <1>10 DEF P!WriteWake
  <2>2. r # u /\ r \notin P!Awoken  BY <1>a, <2>1 DEF P!At, P!Idle, PipeTypeOK
  <2>3. user'[r] = user[r] /\ r \in blocked  BY <1>a, <2>1, <2>2 DEF P!At, P!EndsKept
  <2>4. stream' = stream  BY <1>10 DEF P!WriteWake
  <2> QED BY <1>a, <2>2, <2>3, <2>4 DEF P!Awoken
<1>11. ASSUME NEW u \in P!Users, P!Close(u) PROVE Keeps
  <2>1. user[u].pc = "idle" /\ user'[u].pc = "closed"  BY <1>11 DEF P!Close, P!At, P!Goes, PipeTypeOK
  <2>2. \A v \in P!Users : v # u => user'[v] = user[v]  BY <1>11 DEF P!Close, P!Goes, PipeTypeOK
  <2> QED BY <1>11, <1>a, <2>1, <2>2 DEF P!At, P!Close
<1>12. ASSUME stream' = stream PROVE Len(stream') \in Nat  BY <1>12, <1>a
<1>13. ASSUME NEW u \in P!Users,
              (\E k \in 1..MaxLength : P!Read(u, k) \/ P!Write(u, k))
                \/ P!ReadBlock(u) \/ P!ReadInterrupted(u) \/ P!Close(u)
       PROVE  stream' = stream
  BY <1>13, Zenon DEF P!Read, P!Write, P!ReadBlock, P!ReadInterrupted, P!Close
<1> HIDE DEF Keeps
<1> QED BY <1>1, <1>2, <1>3, <1>4, <1>5, <1>6, <1>7, <1>8, <1>9, <1>10, <1>11, <1>12, <1>13 DEF P!Next, P!vars

LEMMA PipeEnds ==
  ASSUME PipeTypeOK, BothHeld, Told, P!EndsKept, [P!Next]_(P!vars)
  PROVE  Told' /\ P!EndsKept'
<1>a. /\ \A u \in P!Users : P!EndOf(u) \in P!Ends
      /\ \A e \in P!Ends : P!Other(e) \in P!Ends /\ P!Other(P!Other(e)) = e
      /\ \A u \in P!Users : user[u].pc = "blocked" => u \in Readers
  BY Zenon DEF P!EndOf, P!Ends, P!Other, PipeTypeOK, WriterPlaces, P!Users
<1> DEFINE Same == \A v \in P!Users : (user[v].pc = "closed" <=> user'[v].pc = "closed")
           Listed == blocked' = {v \in P!Users : user'[v].pc = "blocked"}
<1>1. ASSUME Same, Listed, end' = end, dangling' = dangling PROVE Told' /\ P!EndsKept'
  <2>1. \A e \in P!Ends : P!Handles(e)' = P!Handles(e)  BY <1>1 DEF P!Handles
  <2> QED BY <1>1, <2>1 DEF Told, P!EndsKept, P!At
<1>2. CASE UNCHANGED P!vars
  <2>1. Same /\ Listed  BY <1>2 DEF P!vars, P!EndsKept, P!At
  <2> QED BY <1>1, <1>2, <2>1 DEF P!vars
<1>3. ASSUME NEW u \in P!Users, NEW n \in 1..MaxLength, P!Read(u, n) PROVE Told' /\ P!EndsKept'
  <2>1. user[u].pc = "idle" /\ user'[u].pc \in {"block", "take"}  BY <1>3 DEF P!Read, P!At, PipeTypeOK
  <2>2. \A v \in P!Users : v # u => user'[v] = user[v]  BY <1>3 DEF P!Read, PipeTypeOK
  <2>3. UNCHANGED <<blocked, end, dangling>>  BY <1>3 DEF P!Read
  <2>4. Same /\ Listed  BY <2>1, <2>2, <2>3 DEF P!EndsKept, P!At
  <2> QED BY <1>1, <2>3, <2>4
<1>4. ASSUME NEW u \in P!Users, NEW n \in 1..MaxLength, P!Write(u, n) PROVE Told' /\ P!EndsKept'
  <2>1. user[u].pc = "idle" /\ user'[u].pc = "put"  BY <1>4 DEF P!Write, P!At, PipeTypeOK
  <2>2. \A v \in P!Users : v # u => user'[v] = user[v]  BY <1>4 DEF P!Write, PipeTypeOK
  <2>3. UNCHANGED <<blocked, end, dangling>>  BY <1>4 DEF P!Write
  <2>4. Same /\ Listed  BY <2>1, <2>2, <2>3 DEF P!EndsKept, P!At
  <2> QED BY <1>1, <2>3, <2>4
<1>5. ASSUME NEW u \in P!Users, P!ReadBlock(u) PROVE Told' /\ P!EndsKept'
  <2>1. user[u].pc = "block" /\ user'[u].pc = "blocked"  BY <1>5 DEF P!ReadBlock, P!At, PipeTypeOK
  <2>2. \A v \in P!Users : v # u => user'[v] = user[v]  BY <1>5 DEF P!ReadBlock, PipeTypeOK
  <2>3. blocked' = blocked \cup {u} /\ UNCHANGED <<end, dangling>>  BY <1>5 DEF P!ReadBlock
  <2>4. Same /\ Listed  BY <2>1, <2>2, <2>3 DEF P!EndsKept, P!At
  <2> QED BY <1>1, <2>3, <2>4
<1>6. ASSUME NEW u \in P!Users, P!ReadInterrupted(u) PROVE Told' /\ P!EndsKept'
  <2>1. user[u].pc = "blocked" /\ user'[u].pc = "idle"  BY <1>6 DEF P!ReadInterrupted, P!At, P!Idle, PipeTypeOK
  <2>2. \A v \in P!Users : v # u => user'[v] = user[v]  BY <1>6 DEF P!ReadInterrupted, PipeTypeOK
  <2>3. blocked' = blocked \ {u} /\ UNCHANGED <<end, dangling>>  BY <1>6 DEF P!ReadInterrupted
  <2>4. Same /\ Listed  BY <2>1, <2>2, <2>3 DEF P!EndsKept, P!At
  <2> QED BY <1>1, <2>3, <2>4
<1>7. ASSUME NEW u \in P!Users, P!ReadTake(u) PROVE Told' /\ P!EndsKept'
  <2>1. user[u].pc = "take" /\ user'[u].pc = "idle"  BY <1>7 DEF P!ReadTake, P!At, P!Idle, PipeTypeOK
  <2>2. \A v \in P!Users : v # u => user'[v] = user[v]  BY <1>7 DEF P!ReadTake, PipeTypeOK
  <2>3. UNCHANGED <<blocked, end, dangling>>  BY <1>7 DEF P!ReadTake
  <2>4. Same /\ Listed  BY <2>1, <2>2, <2>3 DEF P!EndsKept, P!At
  <2> QED BY <1>1, <2>3, <2>4
<1>8. ASSUME NEW u \in P!Users, P!WritePut(u) PROVE Told' /\ P!EndsKept'
  <2>1. user[u].pc = "put" /\ user'[u].pc = "wake"  BY <1>8 DEF P!WritePut, P!At, P!Goes, PipeTypeOK
  <2>2. \A v \in P!Users : v # u => user'[v] = user[v]  BY <1>8 DEF P!WritePut, P!Goes, PipeTypeOK
  <2>3. UNCHANGED <<blocked, end, dangling>>  BY <1>8 DEF P!WritePut
  <2>4. Same /\ Listed  BY <2>1, <2>2, <2>3 DEF P!EndsKept, P!At
  <2> QED BY <1>1, <2>3, <2>4
<1>9. ASSUME NEW u \in P!Users, P!WriteWake(u) PROVE Told' /\ P!EndsKept'
  <2>1. user' = [v \in P!Users |-> IF v = u THEN P!Idle
                                   ELSE IF v \in P!Awoken THEN [user[v] EXCEPT !.pc = "take"] ELSE user[v]]
    BY <1>9 DEF P!WriteWake
  <2>2. user[u].pc = "wake" /\ user'[u].pc = "idle"  BY <1>9, <2>1 DEF P!WriteWake, P!At, P!Idle
  <2>3. \A v \in P!Awoken : v \in P!Users /\ v # u /\ user[v].pc = "blocked" /\ user'[v].pc = "take"
    BY <2>1, <2>2 DEF P!Awoken, P!EndsKept, P!At, PipeTypeOK
  <2>4. \A v \in P!Users : v # u /\ v \notin P!Awoken => user'[v] = user[v]  BY <2>1
  <2>5. blocked' = blocked \ P!Awoken /\ end' = end /\ dangling' = (dangling \/ end["read"].gone)
    BY <1>9 DEF P!WriteWake
  <2>6. Same /\ Listed  BY <2>2, <2>3, <2>4, <2>5 DEF P!EndsKept, P!At
  <2>7. \A e \in P!Ends : P!Handles(e)' = P!Handles(e)  BY <2>6 DEF P!Handles
  <2>8. end["read"].gone => end["write"].widowed  BY DEF Told, P!Ends, P!Other
  <2> QED BY <2>5, <2>6, <2>7, <2>8, Zenon DEF Told, P!EndsKept, P!At
<1>10. ASSUME NEW u \in P!Users, P!Close(u) PROVE Told' /\ P!EndsKept'
  <2> DEFINE e == P!EndOf(u)
  <2>1. user[u].pc = "idle" /\ user'[u].pc = "closed"  BY <1>10 DEF P!Close, P!At, P!Goes, PipeTypeOK
  <2>2. \A v \in P!Users : v # u => user'[v] = user[v]  BY <1>10 DEF P!Close, P!Goes, PipeTypeOK
  <2>3. UNCHANGED <<blocked, dangling>> /\ Listed  BY <1>10, <2>1, <2>2 DEF P!Close, P!EndsKept, P!At
  <2>4. /\ e \in P!Ends /\ P!Handles(e)' = P!Handles(e) \ {u} /\ u \in P!Handles(e)
        /\ \A x \in P!Ends : x # e => P!Handles(x)' = P!Handles(x)
    BY <1>a, <2>1, <2>2 DEF P!Handles
  <2>5. end' = IF P!Handles(e) = {u} THEN [end EXCEPT ![e].gone = TRUE, ![P!Other(e)].widowed = TRUE] ELSE end
    BY <1>10 DEF P!Close
  <2> HIDE DEF e
  <2>6. CASE P!Handles(e) = {u}
    <3>1. /\ end'[e].gone /\ end'[P!Other(e)].widowed
          /\ end'[P!Other(e)].gone = end[P!Other(e)].gone /\ end'[e].widowed = end[e].widowed
          /\ P!Handles(e)' = {}
      BY <1>a, <2>4, <2>5, <2>6, Zenon DEF P!Ends, P!Other, PipeTypeOK
    <3>2. \A x \in P!Ends : x = e \/ x = P!Other(e)  BY <2>4 DEF P!Ends, P!Other
    <3>3. P!Other(e) # e  BY <2>4 DEF P!Ends, P!Other
    <3>4. Told'  BY <1>a, <2>4, <3>1, <3>2 DEF Told
    <3>5. (\A x \in P!Ends : end[x].gone <=> P!Handles(x) = {})'
      BY <1>a, <2>4, <3>1, <3>2, <3>3 DEF P!EndsKept
    <3>6. end["write"].widowed => end'["write"].widowed
      BY <2>4, <3>1, <3>2 DEF P!Ends
    <3> QED BY <2>3, <3>4, <3>5, <3>6 DEF P!EndsKept, P!At
  <2>7. CASE P!Handles(e) # {u}
    <3>1. end' = end /\ P!Handles(e)' # {}  BY <2>4, <2>5, <2>7
    <3>2. (\A x \in P!Ends : end[x].gone <=> P!Handles(x) = {})'  BY <2>4, <3>1 DEF P!EndsKept
    <3> QED BY <2>3, <3>1, <3>2 DEF P!EndsKept, P!At, Told
  <2> QED BY <2>6, <2>7
<1> QED BY <1>2, <1>3, <1>4, <1>5, <1>6, <1>7, <1>8, <1>9, <1>10 DEF P!Next

LEMMA PipeStep == BothHeld /\ PipeInv /\ [P!Next]_(P!vars) => PipeInv'
  BY PipeTypes, PipeOrder, PipeWakes, PipeEnds DEF PipeInv

(* UNIXPipe::Read and Write: what the readers got, and then the stream, is *)
(* what was written, each byte once and in order.                          *)
THEOREM PipeBytesInOrder == P!Spec => []P!InOrder
<1>1. PipeInv => P!InOrder  BY DEF PipeInv
<1> QED BY <1>1, PipeInit, PipeStep, EndsHeld, PTL DEF P!Spec

(* UNIXPipe::Read and Write: a reader that sleeps asked for more than is   *)
(* there, or a writer is about to look, or the bytes came between its test *)
(* and its blocker.                                                        *)
THEOREM PipeReadersWoken == P!Spec => []P!ReaderWoken
<1>1. PipeInv => P!ReaderWoken  BY DEF PipeInv
<1> QED BY <1>1, PipeInit, PipeStep, EndsHeld, PTL DEF P!Spec

(* UNIXPipe::Close: an end is deleted exactly when its last handle closes, *)
(* the list holds exactly those who sleep, and only a writer whose pipe is *)
(* widowed can use an end that is gone.                                    *)
THEOREM PipeEndsKept == P!Spec => []P!EndsKept
<1>1. PipeInv => P!EndsKept  BY DEF PipeInv
<1> QED BY <1>1, PipeInit, PipeStep, EndsHeld, PTL DEF P!Spec
-----------------------------------------------------------------------------
Letters == [id : IDs, from : M!Threads, call : Nat]
Answers == [id : Awaited, to : M!Threads, call : Nat]
Sending == {"respond", "blocked", "put", "signal"}
LetterPlaces == Sending \cup {"idle", "read", "fault", "await", "watching"}
PointType == [queue : Seq(Letters), lock : M!Threads \cup {None}, sem : Int, blocked : Seq(M!Threads),
              response : Seq(Answers), waiting : SUBSET M!Threads, peer : BOOLEAN, alive : BOOLEAN]
RowType == [pc : LetterPlaces, msg : Letters \cup {None}, await : Awaited \cup {None}, reply : Letters \cup {None}]
ChannelTypeOK ==
  /\ point \in [M!Ends -> PointType]
  /\ thr \in [M!Threads -> RowType]
  /\ calls \in [M!Threads -> Nat]
  /\ log \in [M!Ends -> [sent : Seq(Letters), read : Seq(Letters)]]
  /\ \A t \in M!Threads : thr[t].pc \in Sending => thr[t].msg \in Letters /\ thr[t].msg.from = t

(* Who waits for a place, who has one, and who watches.                    *)
Standing(e, pc) == {t \in M!Threads : M!Own(t) = e /\ thr[t].pc = pc}
LinedUp == \A e \in M!Ends :
  /\ \A i \in 1..Len(point[e].blocked) : point[e].blocked[i] \in Standing(e, "blocked")
  /\ \A i, j \in 1..Len(point[e].blocked) : point[e].blocked[i] = point[e].blocked[j] => i = j
  /\ point[e].waiting = Standing(e, "watching")

(* A place in the other end's queue is had or waited for once.             *)
Permits == \A e \in M!Ends :
  /\ Len(log[M!Other(e)].sent) + Cardinality(Standing(e, "put")) <= Limit + Len(log[e].read)
  /\ point[e].sem + Cardinality(Standing(e, "put")) + Cardinality(Standing(e, "blocked"))
       <= Limit + Len(log[e].read) - Len(log[M!Other(e)].sent)

(* A call lists its answer at its own end.                                 *)
AnswersListed == \A e \in M!Ends : \A i \in 1..Len(point[e].response) : M!Own(point[e].response[i].to) = e

ChannelInv == /\ ChannelTypeOK /\ LinedUp /\ Permits /\ AnswersListed
              /\ M!InOrder /\ M!AnswerMatches /\ M!WatcherTold

(* What counts the threads of an end needs them to be finitely many.       *)
FewThreads == IsFiniteSet(M!Threads) /\ Limit \in Nat

LEMMA FewHeld == FewThreads  BY ChannelAssumption DEF FewThreads, M!Threads

LEMMA Sides ==
  /\ \A t \in M!Threads : M!Own(t) \in M!Ends /\ M!Peer(t) \in M!Ends /\ M!Peer(t) = M!Other(M!Own(t))
                          /\ M!Peer(t) # M!Own(t)
  /\ \A e \in M!Ends : M!Other(e) \in M!Ends /\ M!Other(e) # e /\ M!Other(M!Other(e)) = e
  /\ \A e, x \in M!Ends : x = e \/ x = M!Other(e)
  BY DEF M!Own, M!Ends, M!Peer, M!Other

LEMMA ChannelInit == FewThreads /\ M!Init => ChannelInv
<1> SUFFICES ASSUME FewThreads, M!Init PROVE ChannelInv  OBVIOUS
<1>1. ChannelTypeOK
  BY DEF M!Init, M!Idle, ChannelTypeOK, PointType, RowType, LetterPlaces, Sending, FewThreads
<1>2. \A t \in M!Threads : thr[t].pc = "idle" /\ thr[t].reply = None  BY DEF M!Init, M!Idle
<1>3. \A e \in M!Ends : \A pc \in {"put", "blocked", "watching"} : Standing(e, pc) = {}  BY <1>2 DEF Standing
<1>4. \A e \in M!Ends : /\ point[e].queue = <<>> /\ point[e].sem = Limit /\ point[e].blocked = <<>> /\ point[e].response = <<>>
                        /\ point[e].waiting = {} /\ log[e].sent = <<>> /\ log[e].read = <<>>
  BY DEF M!Init
<1>5. LinedUp
  <2> SUFFICES ASSUME NEW e \in M!Ends
               PROVE  1..Len(point[e].blocked) = {} /\ point[e].waiting = Standing(e, "watching")
    BY DEF LinedUp
  <2>1. Len(point[e].blocked) = 0  BY <1>4
  <2>2. 1..0 = {}  OBVIOUS
  <2>3. point[e].waiting = {} /\ Standing(e, "watching") = {}  BY <1>3, <1>4
  <2> QED BY <2>1, <2>2, <2>3
<1>6. Permits
  <2>1. Cardinality({}) = 0  BY FS_EmptySet
  <2>2. \A e \in M!Ends : Len(log[e].sent) = 0 /\ Len(log[e].read) = 0  BY <1>4
  <2>3. \A e \in M!Ends : point[e].sem = Limit /\ Limit \in Nat /\ M!Other(e) \in M!Ends
                          /\ Cardinality(Standing(e, "put")) = 0 /\ Cardinality(Standing(e, "blocked")) = 0
    BY <1>3, <1>4, <2>1, Sides, Zenon DEF FewThreads
  <2> SUFFICES ASSUME NEW e \in M!Ends
               PROVE  /\ Len(log[M!Other(e)].sent) + Cardinality(Standing(e, "put")) <= Limit + Len(log[e].read)
                      /\ point[e].sem + Cardinality(Standing(e, "put")) + Cardinality(Standing(e, "blocked"))
                           <= Limit + Len(log[e].read) - Len(log[M!Other(e)].sent)
    BY Zenon DEF Permits
  <2>4. M!Other(e) \in M!Ends /\ Len(log[M!Other(e)].sent) = 0 /\ Len(log[e].read) = 0  BY <2>2, <2>3
  <2> QED BY <2>3, <2>4
<1>7. AnswersListed  BY <1>4 DEF AnswersListed
<1>8. M!InOrder
  <2>1. <<>> \o <<>> = <<>>  OBVIOUS
  <2> QED BY <1>4, <2>1, Zenon DEF M!InOrder
<1>9. M!AnswerMatches  BY <1>2 DEF M!AnswerMatches
<1>10. M!WatcherTold  BY <1>2 DEF M!WatcherTold, M!At
<1> QED BY <1>1, <1>5, <1>6, <1>7, <1>8, <1>9, <1>10 DEF ChannelInv
-----------------------------------------------------------------------------
(* The steps of a thread, by what they touch.                              *)
Asks(t) == \/ M!SysEndpointDequeue(t) \/ M!ReadNothing(t)
           \/ \E i \in IDs : M!SysEndpointQueue(t, i) \/ \E r \in Awaited : M!SysEndpointCall(t, i, r)
           \/ M!FollowNull(t) \/ M!WriteTestsPeer(t) \/ M!CallReturns(t) \/ M!CallInterrupted(t)
Watches(t) == M!SysKernelObjectWait(t) \/ M!WaitInterrupted(t)

LEMMA ThreadSteps ==
  M!Next <=> \/ \E t \in M!Threads : \/ Asks(t) \/ Watches(t) \/ M!ReadTake(t) \/ M!WriteRespond(t)
                                     \/ M!WritePermit(t) \/ M!WriteInterrupted(t) \/ M!WritePut(t) \/ M!WriteSignal(t)
             \/ \E e \in M!Ends : M!Destroy(e)
  BY DEF M!Next, Asks, Watches

(* What is left of a queue without its element k.                          *)
Leaving(q, k) == SubSeq(q, 1, k - 1) \o SubSeq(q, k + 1, Len(q))

LEMMA LeavesOut ==
  ASSUME NEW Z, NEW q \in Seq(Z), NEW k \in 1..Len(q)
  PROVE  /\ Leaving(q, k) \in Seq(Z) /\ Len(Leaving(q, k)) = Len(q) - 1
         /\ \A i \in 1..Len(q) - 1 : Leaving(q, k)[i] = IF i < k THEN q[i] ELSE q[i + 1]
<1> DEFINE l == SubSeq(q, 1, k - 1)
           r == SubSeq(q, k + 1, Len(q))
<1>1. Len(q) \in Nat /\ k \in Nat  BY LenProperties
<1>2. l \in Seq(Z) /\ Len(l) = k - 1 /\ \A i \in 1..k - 1 : l[i] = q[i]  BY <1>1
<1>3. r \in Seq(Z) /\ Len(r) = Len(q) - k /\ \A i \in 1..Len(q) - k : r[i] = q[k + i]  BY <1>1
<1>4. Leaving(q, k) = l \o r  BY DEF Leaving
<1> HIDE DEF l, r
<1>5. /\ l \o r \in Seq(Z) /\ Len(l \o r) = Len(q) - 1
      /\ \A i \in 1..Len(q) - 1 : (l \o r)[i] = IF i <= k - 1 THEN l[i] ELSE r[i - (k - 1)]
  <2>1. Len(l) + Len(r) = Len(q) - 1  BY <1>1, <1>2, <1>3
  <2>2. /\ l \o r \in Seq(Z) /\ Len(l \o r) = Len(l) + Len(r)
        /\ \A i \in 1..Len(l) + Len(r) : (l \o r)[i] = IF i <= Len(l) THEN l[i] ELSE r[i - Len(l)]
    BY <1>2, <1>3, ConcatProperties, Zenon
  <2> QED BY <1>2, <2>1, <2>2
<1> DEFINE w == l \o r
<1> HIDE DEF w
<1>6. ASSUME NEW i \in 1..Len(q) - 1 PROVE w[i] = IF i < k THEN q[i] ELSE q[i + 1]
  <2>3. w[i] = IF i <= k - 1 THEN l[i] ELSE r[i - (k - 1)]  BY <1>5 DEF w
  <2>1. CASE i < k
    <3>1. i \in 1..k - 1  BY <1>1, <2>1
    <3> QED BY <1>1, <1>2, <2>1, <2>3, <3>1
  <2>2. CASE i >= k
    <3>1. i - (k - 1) \in 1..Len(q) - k /\ k + (i - (k - 1)) = i + 1 /\ ~(i <= k - 1)  BY <1>1, <2>2
    <3> QED BY <1>3, <2>2, <2>3, <3>1
  <2> QED BY <1>1, <2>1, <2>2
<1> QED BY <1>4, <1>5, <1>6 DEF w

LEMMA WithoutIt ==
  ASSUME NEW Z, NEW q \in Seq(Z), NEW t
  PROVE  \/ M!Without(q, t) = q /\ \A i \in 1..Len(q) : q[i] # t
         \/ \E k \in 1..Len(q) : q[k] = t /\ M!Without(q, t) = Leaving(q, k)
<1> DEFINE at == {i \in DOMAIN q : q[i] = t}
<1>1. DOMAIN q = 1..Len(q)  BY LenProperties
<1>2. CASE at = {}  BY <1>1, <1>2 DEF M!Without
<1>3. CASE at # {}
  <2> DEFINE k == CHOOSE i \in at : TRUE
  <2>1. k \in at  BY <1>3
  <2>2. k \in 1..Len(q) /\ q[k] = t  BY <1>1, <2>1
  <2> QED BY <1>3, <2>2, Zenon DEF M!Without, Leaving
<1> QED BY <1>2, <1>3

LEMMA RowMoves ==
  ASSUME ChannelTypeOK, NEW t \in M!Threads, NEW pc \in LetterPlaces, pc \in Sending => thr[t].pc \in Sending,
         M!Moves(t, pc)
  PROVE  /\ thr' \in [M!Threads -> RowType]
         /\ \A u \in M!Threads : thr'[u].pc \in Sending => thr'[u].msg \in Letters /\ thr'[u].msg.from = u
<1> DEFINE row == [thr[t] EXCEPT !.pc = pc]
<1>1. thr \in [M!Threads -> RowType] /\ thr[t] \in RowType  BY DEF ChannelTypeOK
<1>2. row \in RowType /\ row.pc = pc /\ row.msg = thr[t].msg  BY <1>1 DEF RowType
<1>3. thr' = [thr EXCEPT ![t] = row]  BY DEF M!Moves
<1> HIDE DEF row
<1>4. \A u \in M!Threads : thr'[u] = IF u = t THEN row ELSE thr[u]  BY <1>1, <1>3
<1> QED BY <1>1, <1>2, <1>3, <1>4 DEF ChannelTypeOK

LEMMA IdleRow == M!Idle \in RowType /\ M!Idle.pc = "idle" /\ M!Idle.reply = None /\ M!Idle.await = None
  BY DEF M!Idle, RowType, LetterPlaces

LEMMA WrittenRow ==
  ASSUME ChannelTypeOK, NEW t \in M!Threads
  PROVE  /\ M!Written(t) \in RowType /\ M!Written(t).pc \in {"idle", "await"}
         /\ M!Written(t).reply # None => M!Written(t).reply = thr[t].reply /\ M!Written(t).await = thr[t].await
  BY IdleRow, Zenon DEF M!Written, ChannelTypeOK, RowType, LetterPlaces

(* A row, and an endpoint, with what a step changes in it.                 *)
LEMMA PointMoves ==
  ASSUME ChannelTypeOK, NEW e \in M!Ends, NEW p \in PointType, point' = [point EXCEPT ![e] = p]
  PROVE  point' \in [M!Ends -> PointType]
  BY DEF ChannelTypeOK

LEMMA RowBecomes ==
  ASSUME ChannelTypeOK, NEW t \in M!Threads, NEW row \in RowType, thr' = [thr EXCEPT ![t] = row],
         row.pc \in Sending => row.msg \in Letters /\ row.msg.from = t
  PROVE  /\ thr' \in [M!Threads -> RowType]
         /\ \A u \in M!Threads : thr'[u].pc \in Sending => thr'[u].msg \in Letters /\ thr'[u].msg.from = u
  BY DEF ChannelTypeOK

LEMMA AskTypes ==
  ASSUME ChannelTypeOK, NEW t \in M!Threads, Asks(t)
  PROVE  ChannelTypeOK'
<1>a. /\ point \in [M!Ends -> PointType] /\ thr \in [M!Threads -> RowType] /\ calls \in [M!Threads -> Nat]
      /\ log \in [M!Ends -> [sent : Seq(Letters), read : Seq(Letters)]]
      /\ M!Own(t) \in M!Ends /\ calls[t] \in Nat
  BY Sides DEF ChannelTypeOK
<1> DEFINE Rows == /\ thr' \in [M!Threads -> RowType]
                   /\ \A u \in M!Threads : thr'[u].pc \in Sending => thr'[u].msg \in Letters /\ thr'[u].msg.from = u
<1>b. M!Handled(t) => calls' \in [M!Threads -> Nat] /\ thr[t] = M!Idle  BY <1>a DEF M!Handled
<1>1. CASE M!SysEndpointDequeue(t) \/ M!ReadNothing(t) \/ M!FollowNull(t)
  <2>1. Rows  BY <1>1, RowMoves DEF M!SysEndpointDequeue, M!ReadNothing, M!FollowNull, LetterPlaces, Sending
  <2>2. calls' \in [M!Threads -> Nat] /\ log' = log
    BY <1>a, <1>b, <1>1 DEF M!SysEndpointDequeue, M!ReadNothing, M!FollowNull
  <2>4. [point[M!Own(t)] EXCEPT !.lock = t] \in PointType  BY <1>a, Zenon DEF PointType
  <2>5. point' \in {point, [point EXCEPT ![M!Own(t)] = [point[M!Own(t)] EXCEPT !.lock = t]]}
    BY <1>1 DEF M!SysEndpointDequeue, M!ReadNothing, M!FollowNull
  <2>3. point' \in [M!Ends -> PointType]  BY <1>a, <2>4, <2>5, Zenon
  <2> QED BY <1>a, <2>1, <2>2, <2>3 DEF ChannelTypeOK
<1>2. ASSUME NEW i \in IDs, M!SysEndpointQueue(t, i) PROVE ChannelTypeOK'
  <2>1. M!Message(t, i) \in Letters /\ M!Message(t, i).from = t  BY <1>a DEF M!Message, Letters
  <2> DEFINE row == [thr[t] EXCEPT !.pc = "respond", !.msg = M!Message(t, i)]
  <2>6. thr[t] \in RowType /\ "respond" \in LetterPlaces  BY <1>a DEF LetterPlaces, Sending
  <2>4. row \in RowType /\ row.msg = M!Message(t, i)  BY <2>1, <2>6, Zenon DEF RowType
  <2>5. thr' = [thr EXCEPT ![t] = row]  BY <1>a, <1>2, Zenon DEF M!SysEndpointQueue
  <2> HIDE DEF row
  <2>2. Rows  BY <2>1, <2>4, <2>5, RowBecomes, Zenon
  <2>3. point' = point /\ calls' \in [M!Threads -> Nat] /\ log' = log  BY <1>b, <1>2 DEF M!SysEndpointQueue
  <2> QED BY <1>a, <2>2, <2>3 DEF ChannelTypeOK
<1>3. ASSUME NEW i \in IDs, NEW r \in Awaited, M!SysEndpointCall(t, i, r) PROVE ChannelTypeOK'
  <2>1. M!Message(t, i) \in Letters /\ M!Message(t, i).from = t  BY <1>a DEF M!Message, Letters
  <2> DEFINE row == [thr[t] EXCEPT !.pc = "respond", !.msg = M!Message(t, i), !.await = r]
  <2>7. thr[t] \in RowType  BY <1>a
  <2>8. row \in RowType /\ row.msg = M!Message(t, i)
    <3> DEFINE m == M!Message(t, i)
               x == thr[t]
    <3>1. m \in Letters /\ x \in RowType /\ r \in Awaited /\ "respond" \in LetterPlaces
      BY <2>1, <2>7 DEF LetterPlaces, Sending
    <3>2. row = [x EXCEPT !.pc = "respond", !.msg = m, !.await = r]  OBVIOUS
    <3> HIDE DEF m, x, row
    <3>3. row \in RowType /\ row.msg = m  BY <3>1, <3>2, Zenon DEF RowType
    <3> QED BY <3>3 DEF m
  <2>9. thr' = [thr EXCEPT ![t] = row]  BY <1>a, <1>3, Zenon DEF M!SysEndpointCall
  <2> HIDE DEF row
  <2>2. Rows  BY <2>1, <2>8, <2>9, RowBecomes, Zenon
  <2>3. [id |-> r, to |-> t, call |-> calls[t] + 1] \in Answers  BY <1>a DEF Answers
  <2>4. \A q \in Seq(Answers) : Append(q, [id |-> r, to |-> t, call |-> calls[t] + 1]) \in Seq(Answers)  BY <2>3
  <2>5. point' \in [M!Ends -> PointType]  BY <1>a, <1>3, <2>4, ZenonT(60) DEF M!SysEndpointCall, PointType
  <2>6. calls' \in [M!Threads -> Nat] /\ log' = log  BY <1>b, <1>3 DEF M!SysEndpointCall
  <2> QED BY <1>a, <2>2, <2>5, <2>6 DEF ChannelTypeOK
<1>4. CASE M!WriteTestsPeer(t) \/ M!CallReturns(t) \/ M!CallInterrupted(t)
  <2>1. PICK row \in {M!Written(t), M!Idle} : thr' = [thr EXCEPT ![t] = row]
    BY <1>4 DEF M!WriteTestsPeer, M!CallReturns, M!CallInterrupted
  <2>2. row \in RowType /\ row.pc \notin Sending  BY IdleRow, WrittenRow DEF Sending
  <2>3. Rows  BY <2>1, <2>2 DEF ChannelTypeOK
  <2>4. UNCHANGED <<point, calls, log>>  BY <1>4 DEF M!WriteTestsPeer, M!CallReturns, M!CallInterrupted
  <2> QED BY <1>a, <2>3, <2>4 DEF ChannelTypeOK
<1> QED BY <1>1, <1>2, <1>3, <1>4 DEF Asks

LEMMA WatchTypes ==
  ASSUME ChannelTypeOK, NEW t \in M!Threads, Watches(t)
  PROVE  ChannelTypeOK'
<1>1. M!Own(t) \in M!Ends  BY Sides
<1>2. /\ thr' \in [M!Threads -> RowType]
      /\ \A u \in M!Threads : thr'[u].pc \in Sending => thr'[u].msg \in Letters /\ thr'[u].msg.from = u
  BY RowMoves DEF Watches, M!SysKernelObjectWait, M!WaitInterrupted, LetterPlaces, Sending
<1>3. point' \in [M!Ends -> PointType] /\ calls' \in [M!Threads -> Nat] /\ log' = log
  <2>1. point[M!Own(t)] \in PointType /\ calls \in [M!Threads -> Nat]  BY <1>1 DEF ChannelTypeOK
  <2>2. PICK w \in SUBSET M!Threads : point' = [point EXCEPT ![M!Own(t)] = [point[M!Own(t)] EXCEPT !.waiting = w]]
    <3>1. point[M!Own(t)].waiting \in SUBSET M!Threads  BY <2>1 DEF PointType
    <3> QED BY <3>1 DEF Watches, M!SysKernelObjectWait, M!WaitInterrupted
  <2>3. [point[M!Own(t)] EXCEPT !.waiting = w] \in PointType  BY <2>1, Zenon DEF PointType
  <2>4. calls' \in [M!Threads -> Nat] /\ log' = log
    BY <2>1 DEF Watches, M!SysKernelObjectWait, M!WaitInterrupted, M!Handled
  <2> QED BY <1>1, <2>2, <2>3, <2>4, PointMoves, ZenonT(60)
<1> QED BY <1>2, <1>3 DEF ChannelTypeOK

(* Who is freed has waited.                                                *)
LEMMA FreedWaited ==
  ASSUME ChannelTypeOK, LinedUp, NEW e \in M!Ends
  PROVE  \A u \in M!Freed(e) : u \in Standing(e, "blocked")
<1>1. SUFFICES ASSUME point[e].blocked # <<>> PROVE Head(point[e].blocked) \in Standing(e, "blocked")
  BY DEF M!Freed
<1>2. point[e].blocked \in Seq(M!Threads)  BY DEF ChannelTypeOK, PointType
<1>3. 1 \in 1..Len(point[e].blocked) /\ Head(point[e].blocked) = point[e].blocked[1]  BY <1>1, <1>2
<1> QED BY <1>3 DEF LinedUp

LEMMA TakeTypes ==
  ASSUME ChannelTypeOK, LinedUp, NEW t \in M!Threads, M!ReadTake(t)
  PROVE  ChannelTypeOK'
<1> DEFINE e == M!Own(t)
<1>a. /\ e \in M!Ends /\ point \in [M!Ends -> PointType] /\ thr \in [M!Threads -> RowType]
      /\ log \in [M!Ends -> [sent : Seq(Letters), read : Seq(Letters)]]
  BY Sides DEF ChannelTypeOK
<1>1. /\ point[e].queue # <<>> /\ UNCHANGED calls
      /\ point' = M!Raised([point EXCEPT ![e].queue = Tail(@)], e)
      /\ log' = [log EXCEPT ![e].read = Append(@, Head(point[e].queue))]
      /\ thr' = [u \in M!Threads |-> IF u = t THEN M!Idle
                                     ELSE IF u \in M!Freed(e) THEN [thr[u] EXCEPT !.pc = "put"] ELSE thr[u]]
  BY DEF M!ReadTake
<1> HIDE DEF e
<1>2. point[e].queue \in Seq(Letters) /\ point[e].blocked \in Seq(M!Threads)  BY <1>a DEF PointType
<1>3. /\ Tail(point[e].queue) \in Seq(Letters) /\ Head(point[e].queue) \in Letters
      /\ point[e].blocked # <<>> => Tail(point[e].blocked) \in Seq(M!Threads)
  BY <1>1, <1>2
<1>4. point' \in [M!Ends -> PointType]
  <2> DEFINE p == [point[e] EXCEPT !.queue = Tail(@), !.sem = @ + 1, !.blocked = IF @ = <<>> THEN @ ELSE Tail(@)]
  <2>1. point' = [point EXCEPT ![e] = p]  BY <1>a, <1>1, Zenon DEF M!Raised, PointType
  <2>2. p \in PointType
    <3> DEFINE q == Tail(point[e].queue)
               n == point[e].sem + 1
               b == IF point[e].blocked = <<>> THEN point[e].blocked ELSE Tail(point[e].blocked)
    <3>1. point[e] \in PointType /\ q \in Seq(Letters) /\ n \in Int /\ b \in Seq(M!Threads)
      BY <1>a, <1>2, <1>3 DEF PointType
    <3>2. p = [point[e] EXCEPT !.queue = q, !.sem = n, !.blocked = b]  OBVIOUS
    <3> HIDE DEF q, n, b, p
    <3> QED BY <3>1, <3>2, Zenon DEF PointType
  <2> QED BY <1>a, <2>1, <2>2, PointMoves
<1>5. log' \in [M!Ends -> [sent : Seq(Letters), read : Seq(Letters)]]
  <2>1. log[e].read \in Seq(Letters)  BY <1>a
  <2>2. Append(log[e].read, Head(point[e].queue)) \in Seq(Letters)  BY <1>3, <2>1
  <2> QED BY <1>a, <1>1, <2>2, Zenon
<1>6. \A u \in M!Freed(e) : u \in M!Threads /\ thr[u].pc = "blocked"  BY <1>a, FreedWaited DEF Standing
<1>7. \A u \in M!Freed(e) : [thr[u] EXCEPT !.pc = "put"] \in RowType
  BY <1>a, <1>6, Zenon DEF RowType, LetterPlaces, Sending
<1>8. thr' \in [M!Threads -> RowType]  BY <1>a, <1>1, <1>7, IdleRow
<1>9. ASSUME NEW u \in M!Threads, thr'[u].pc \in Sending PROVE thr'[u].msg \in Letters /\ thr'[u].msg.from = u
  <2>1. u # t  BY <1>1, <1>9, IdleRow DEF Sending
  <2>2. thr'[u].msg = thr[u].msg /\ thr[u].pc \in Sending
    BY <1>a, <1>1, <1>6, <1>9, <2>1 DEF Sending, RowType
  <2> QED BY <2>2 DEF ChannelTypeOK
<1> QED BY <1>1, <1>4, <1>5, <1>8, <1>9, Zenon DEF ChannelTypeOK

(* Who answers whom, with what.                                            *)
LEMMA Responds ==
  ASSUME ChannelTypeOK, NEW t \in M!Threads, M!WriteRespond(t)
  PROVE  \E k \in 1..Len(point[M!Peer(t)].response) :
           LET e == M!Peer(t)  m == thr[t].msg  r == point[e].response[k] IN
           /\ r \in Answers /\ r.id = m.id /\ m \in Letters /\ m.from = t
           /\ point' = [point EXCEPT ![e].response = Leaving(@, k)]
           /\ thr' = [u \in M!Threads |-> IF u = t THEN M!Written(t)
                                          ELSE IF u = r.to /\ M!InFrame(r) THEN [thr[u] EXCEPT !.reply = m] ELSE thr[u]]
           /\ UNCHANGED <<calls, log>>
<1> DEFINE e == M!Peer(t)
           m == thr[t].msg
           k == M!FirstAwaiting(e, m.id)
<1>a. /\ e \in M!Ends /\ point[e].response \in Seq(Answers)
      /\ thr[t].pc = "respond" /\ m \in Letters /\ m.from = t
  BY Sides, Zenon DEF ChannelTypeOK, PointType, M!WriteRespond, M!At, Sending
<1>1. DOMAIN point[e].response = 1..Len(point[e].response) /\ Len(point[e].response) \in Nat  BY <1>a, LenProperties
<1>2. M!Awaiting(e, m.id) # {} /\ M!Awaiting(e, m.id) \subseteq 1..Len(point[e].response)
  BY <1>1, Zenon DEF M!WriteRespond, M!Awaiting
<1>3. \E i \in M!Awaiting(e, m.id) : \A l \in M!Awaiting(e, m.id) : i <= l  BY <1>1, <1>2, Least
<1>4. k \in M!Awaiting(e, m.id)  BY <1>3 DEF M!FirstAwaiting
<1>5. k \in 1..Len(point[e].response) /\ point[e].response[k].id = m.id /\ point[e].response[k] \in Answers
  BY <1>a, <1>1, <1>4, ElementOfSeq DEF M!Awaiting
<1> QED BY <1>a, <1>5, Zenon DEF M!WriteRespond, Leaving

LEMMA RespondTypes ==
  ASSUME ChannelTypeOK, NEW t \in M!Threads, M!WriteRespond(t)
  PROVE  ChannelTypeOK'
<1> DEFINE e == M!Peer(t)
           m == thr[t].msg
<1>1. PICK k \in 1..Len(point[e].response) :
        LET r == point[e].response[k] IN
        /\ m \in Letters
        /\ point' = [point EXCEPT ![e].response = Leaving(@, k)]
        /\ thr' = [u \in M!Threads |-> IF u = t THEN M!Written(t)
                                       ELSE IF u = r.to /\ M!InFrame(r) THEN [thr[u] EXCEPT !.reply = m] ELSE thr[u]]
        /\ UNCHANGED <<calls, log>>
  BY Responds
<1> HIDE DEF m
<1>2. e \in M!Ends /\ point[e] \in PointType /\ thr \in [M!Threads -> RowType]  BY Sides DEF ChannelTypeOK
<1>3. Leaving(point[e].response, k) \in Seq(Answers)  BY <1>2, LeavesOut DEF PointType
<1>4. [point[e] EXCEPT !.response = Leaving(point[e].response, k)] \in PointType  BY <1>2, <1>3, Zenon DEF PointType
<1>5. point' \in [M!Ends -> PointType]  BY <1>1, <1>2, <1>4, PointMoves, ZenonT(60)
<1>6. \A u \in M!Threads : [thr[u] EXCEPT !.reply = m] \in RowType  BY <1>1, <1>2 DEF RowType
<1>7. thr' \in [M!Threads -> RowType]  BY <1>1, <1>2, <1>6, WrittenRow
<1>8. ASSUME NEW u \in M!Threads, thr'[u].pc \in Sending PROVE thr'[u].msg \in Letters /\ thr'[u].msg.from = u
  <2>1. u # t  BY <1>1, <1>8, WrittenRow DEF Sending
  <2>2. thr'[u].msg = thr[u].msg /\ thr'[u].pc = thr[u].pc  BY <1>1, <1>2, <2>1 DEF RowType
  <2> QED BY <1>8, <2>2 DEF ChannelTypeOK
<1> QED BY <1>1, <1>5, <1>7, <1>8 DEF ChannelTypeOK

LEMMA PermitTypes ==
  ASSUME ChannelTypeOK, NEW t \in M!Threads, M!WritePermit(t) \/ M!WriteInterrupted(t)
  PROVE  ChannelTypeOK'
<1> DEFINE e == M!Own(t)
<1>1. e \in M!Ends /\ point[e] \in PointType  BY Sides DEF ChannelTypeOK
<1>2. UNCHANGED <<calls, log>>  BY DEF M!WritePermit, M!WriteInterrupted
<1>3. CASE M!WritePermit(t)
  <2> DEFINE b == IF point[e].sem <= 0 THEN Append(point[e].blocked, t) ELSE point[e].blocked
             n == point[e].sem - 1
  <2>1. b \in Seq(M!Threads) /\ n \in Int  BY <1>1, AppendProperties DEF PointType
  <2>2. point' = [point EXCEPT ![e] = [point[e] EXCEPT !.sem = n, !.blocked = b]]
    BY <1>1, <1>3, Zenon DEF M!WritePermit, M!Lowered, ChannelTypeOK, PointType
  <2> HIDE DEF b, n
  <2>3. point' \in [M!Ends -> PointType]
    <3>1. [point[e] EXCEPT !.sem = n, !.blocked = b] \in PointType  BY <1>1, <2>1, Zenon DEF PointType
    <3> QED BY <1>1, <2>2, <3>1, PointMoves, ZenonT(60)
  <2>4. PICK pc \in {"blocked", "put"} : M!Moves(t, pc)  BY <1>3 DEF M!WritePermit
  <2>5. thr[t].pc \in Sending  BY <1>3 DEF M!WritePermit, M!At, Sending
  <2> QED BY <1>2, <2>3, <2>4, <2>5, RowMoves DEF ChannelTypeOK, LetterPlaces, Sending
<1>4. CASE M!WriteInterrupted(t)
  <2>1. M!Without(point[e].blocked, t) \in Seq(M!Threads)
    <3>1. point[e].blocked \in Seq(M!Threads)  BY <1>1 DEF PointType
    <3>2. \A k \in 1..Len(point[e].blocked) : Leaving(point[e].blocked, k) \in Seq(M!Threads)  BY <3>1, LeavesOut
    <3> QED BY <3>1, <3>2, WithoutIt
  <2>2. [point[e] EXCEPT !.blocked = M!Without(point[e].blocked, t)] \in PointType  BY <1>1, <2>1, Zenon DEF PointType
  <2>3. point' \in [M!Ends -> PointType]  BY <1>1, <1>4, <2>2, PointMoves, Zenon DEF M!WriteInterrupted
  <2>4. M!Written(t).pc \notin Sending  BY WrittenRow DEF Sending
  <2> QED BY <1>2, <1>4, <2>3, <2>4, WrittenRow, RowBecomes, Zenon DEF ChannelTypeOK, M!WriteInterrupted
<1> QED BY <1>3, <1>4

LEMMA PutTypes ==
  ASSUME ChannelTypeOK, NEW t \in M!Threads, M!WritePut(t)
  PROVE  ChannelTypeOK'
<1> DEFINE e == M!Peer(t)
<1>1. e \in M!Ends /\ point[e] \in PointType /\ thr[t].pc \in Sending /\ thr[t].msg \in Letters
  BY Sides DEF ChannelTypeOK, M!WritePut, M!At, Sending
<1>2. Append(point[e].queue, thr[t].msg) \in Seq(Letters) /\ Append(log[e].sent, thr[t].msg) \in Seq(Letters)
  BY <1>1 DEF ChannelTypeOK, PointType
<1>3. [point[e] EXCEPT !.queue = Append(point[e].queue, thr[t].msg), !.lock = t] \in PointType  BY <1>1, <1>2, Zenon DEF PointType
<1>4. point' = [point EXCEPT ![e] = [point[e] EXCEPT !.queue = Append(point[e].queue, thr[t].msg), !.lock = t]]
  BY <1>1, Zenon DEF M!WritePut, ChannelTypeOK, PointType
<1>5. point' \in [M!Ends -> PointType]  BY <1>1, <1>3, <1>4, PointMoves, ZenonT(60)
<1>6. log' = [log EXCEPT ![e].sent = Append(@, thr[t].msg)] /\ UNCHANGED calls  BY DEF M!WritePut
<1>7. log' \in [M!Ends -> [sent : Seq(Letters), read : Seq(Letters)]]  BY <1>1, <1>2, <1>6, Zenon DEF ChannelTypeOK
<1>8. M!Moves(t, "signal") /\ "signal" \in LetterPlaces  BY DEF M!WritePut, LetterPlaces, Sending
<1> QED BY <1>1, <1>5, <1>6, <1>7, <1>8, RowMoves DEF ChannelTypeOK

LEMMA SignalTypes ==
  ASSUME ChannelTypeOK, NEW t \in M!Threads, M!WriteSignal(t)
  PROVE  ChannelTypeOK'
<1> DEFINE e == M!Peer(t)
<1>1. e \in M!Ends /\ point[e] \in PointType  BY Sides DEF ChannelTypeOK
<1>2. [point[e] EXCEPT !.lock = None, !.waiting = @ \ M!Told(e)] \in PointType  BY <1>1, Zenon DEF PointType
<1>3. point' = [point EXCEPT ![e] = [point[e] EXCEPT !.lock = None, !.waiting = @ \ M!Told(e)]]
  BY <1>1, Zenon DEF M!WriteSignal, ChannelTypeOK, PointType
<1>4. point' \in [M!Ends -> PointType]  BY <1>1, <1>2, <1>3, PointMoves, ZenonT(60)
<1>5. thr' = [u \in M!Threads |-> IF u = t THEN M!Written(t) ELSE IF u \in M!Told(e) THEN M!Idle ELSE thr[u]]
  BY DEF M!WriteSignal
<1>6. thr' \in [M!Threads -> RowType]  BY <1>5, IdleRow, WrittenRow DEF ChannelTypeOK
<1>7. \A u \in M!Threads : thr'[u].pc \in Sending => thr'[u] = thr[u]  BY <1>5, IdleRow, WrittenRow DEF Sending
<1> QED BY <1>4, <1>6, <1>7 DEF ChannelTypeOK, M!WriteSignal

LEMMA DestroyTypes ==
  ASSUME ChannelTypeOK, NEW e \in M!Ends, M!Destroy(e)
  PROVE  ChannelTypeOK'
<1>1. point' = [point EXCEPT ![e].alive = FALSE, ![M!Other(e)].peer = FALSE] /\ UNCHANGED <<thr, calls, log>>  BY DEF M!Destroy
<1>2. point' \in [M!Ends -> PointType]
  <2>2. /\ point'[e] = [point[e] EXCEPT !.alive = FALSE] /\ point'[M!Other(e)] = [point[M!Other(e)] EXCEPT !.peer = FALSE]
        /\ point[e] \in PointType /\ point[M!Other(e)] \in PointType
    BY <1>1, Sides, Zenon DEF ChannelTypeOK
  <2>3. point'[e] \in PointType /\ point'[M!Other(e)] \in PointType  BY <2>2, Zenon DEF PointType
  <2>1. \A x \in M!Ends : point'[x] \in PointType  BY <2>3, Sides
  <2> QED BY <1>1, <2>1, Zenon DEF ChannelTypeOK
<1> QED BY <1>1, <1>2, Zenon DEF ChannelTypeOK

LEMMA ChannelTypes ==
  ASSUME ChannelTypeOK, LinedUp, [M!Next]_(M!vars)
  PROVE  ChannelTypeOK'
<1>1. CASE UNCHANGED M!vars  BY <1>1 DEF M!vars, ChannelTypeOK
<1>2. CASE M!Next
  BY <1>2, ThreadSteps, AskTypes, WatchTypes, TakeTypes, RespondTypes, PermitTypes, PutTypes, SignalTypes, DestroyTypes
<1> QED BY <1>1, <1>2
-----------------------------------------------------------------------------
(* A step that touches neither queue nor permit, watcher or line.          *)
Quiet ==
  /\ log' = log
  /\ \A e \in M!Ends : /\ point'[e].queue = point[e].queue /\ point'[e].blocked = point[e].blocked
                       /\ point'[e].waiting = point[e].waiting /\ point'[e].sem = point[e].sem
  /\ \A u \in M!Threads :
       /\ \A pc \in {"blocked", "watching", "signal"} : thr'[u].pc = pc <=> thr[u].pc = pc
       /\ thr'[u].pc = "put" => thr[u].pc = "put"

LEMMA QuietSteps ==
  ASSUME ChannelTypeOK, \/ UNCHANGED M!vars \/ \E e \in M!Ends : M!Destroy(e)
                        \/ \E t \in M!Threads : Asks(t) \/ M!WriteRespond(t)
  PROVE  Quiet
<1>a. /\ thr \in [M!Threads -> RowType] /\ point \in [M!Ends -> PointType]
      /\ \A t \in M!Threads : M!Own(t) \in M!Ends /\ M!Peer(t) \in M!Ends
  BY Sides DEF ChannelTypeOK
<1> DEFINE Rows == \A u \in M!Threads :
                     /\ \A pc \in {"blocked", "watching", "signal"} : thr'[u].pc = pc <=> thr[u].pc = pc
                     /\ thr'[u].pc = "put" => thr[u].pc = "put"
           Points == \A e \in M!Ends : /\ point'[e].queue = point[e].queue /\ point'[e].blocked = point[e].blocked
                                       /\ point'[e].waiting = point[e].waiting /\ point'[e].sem = point[e].sem
<1>1. CASE UNCHANGED M!vars  BY <1>1 DEF M!vars, Quiet
<1>2. ASSUME NEW e \in M!Ends, M!Destroy(e) PROVE Quiet
  <2>1. Points  BY <1>a, <1>2, Zenon DEF M!Destroy, PointType
  <2> QED BY <1>2, <2>1, Zenon DEF M!Destroy, Quiet
<1>3. ASSUME NEW t \in M!Threads, M!WriteRespond(t) PROVE Quiet
  <2> DEFINE e == M!Peer(t)
             m == thr[t].msg
  <2>1. PICK k \in 1..Len(point[e].response) :
          LET r == point[e].response[k] IN
          /\ point' = [point EXCEPT ![e].response = Leaving(@, k)]
          /\ thr' = [u \in M!Threads |-> IF u = t THEN M!Written(t)
                                         ELSE IF u = r.to /\ M!InFrame(r) THEN [thr[u] EXCEPT !.reply = m] ELSE thr[u]]
          /\ UNCHANGED <<calls, log>>
    BY <1>3, Responds
  <2>2. Points  BY <1>a, <2>1 DEF PointType
  <2>3. thr[t].pc = "respond" /\ thr'[t].pc \in {"idle", "await"}  BY <1>3, <2>1, WrittenRow, Zenon DEF M!WriteRespond, M!At
  <2>4. \A u \in M!Threads : u # t => thr'[u].pc = thr[u].pc  BY <1>a, <2>1 DEF RowType
  <2>5. Rows  BY <2>3, <2>4
  <2> QED BY <2>1, <2>2, <2>5 DEF Quiet
<1>4. ASSUME NEW t \in M!Threads, Asks(t) PROVE Quiet
  <2> DEFINE Apart == /\ thr'[t].pc \notin {"blocked", "watching", "signal", "put"}
                      /\ thr[t].pc \notin {"blocked", "watching", "signal"}
                      /\ \A u \in M!Threads : u # t => thr'[u].pc = thr[u].pc
  <2>1. ASSUME Apart, Points, log' = log PROVE Quiet  BY <2>1 DEF Quiet
  <2>b. M!Handled(t) => thr[t].pc = "idle"  BY IdleRow DEF M!Handled
  <2>2. CASE M!SysEndpointDequeue(t) \/ M!FollowNull(t)
    <3>1. Apart  BY <1>a, <2>b, <2>2 DEF M!SysEndpointDequeue, M!FollowNull, M!Moves, RowType
    <3> QED BY <2>1, <2>2, <3>1 DEF M!SysEndpointDequeue, M!FollowNull
  <2>3. CASE M!ReadNothing(t)
    <3>1. Apart  BY <1>a, <2>3 DEF M!ReadNothing, M!Moves, M!At, RowType
    <3>2. Points  BY <1>a, <2>3, Zenon DEF M!ReadNothing, PointType
    <3> QED BY <2>1, <2>3, <3>1, <3>2 DEF M!ReadNothing
  <2>4. ASSUME NEW i \in IDs, M!SysEndpointQueue(t, i) PROVE Quiet
    <3>1. Apart  BY <1>a, <2>b, <2>4 DEF M!SysEndpointQueue, RowType
    <3> QED BY <2>1, <2>4, <3>1, Zenon DEF M!SysEndpointQueue
  <2>5. ASSUME NEW i \in IDs, NEW r \in Awaited, M!SysEndpointCall(t, i, r) PROVE Quiet
    <3>1. Apart  BY <1>a, <2>b, <2>5 DEF M!SysEndpointCall, RowType
    <3>2. Points  BY <1>a, <2>5, Zenon DEF M!SysEndpointCall, PointType
    <3> QED BY <2>1, <2>5, <3>1, <3>2, Zenon DEF M!SysEndpointCall
  <2>6. CASE M!WriteTestsPeer(t) \/ M!CallReturns(t) \/ M!CallInterrupted(t)
    <3>1. PICK row \in {M!Written(t), M!Idle} : thr' = [thr EXCEPT ![t] = row]
      BY <2>6 DEF M!WriteTestsPeer, M!CallReturns, M!CallInterrupted
    <3>2. thr[t].pc \in {"respond", "await"}  BY <2>6 DEF M!WriteTestsPeer, M!CallReturns, M!CallInterrupted, M!At
    <3>3. row.pc \in {"idle", "await"}  BY IdleRow, WrittenRow
    <3>4. Apart  BY <1>a, <3>1, <3>2, <3>3
    <3>5. UNCHANGED <<point, log>>  BY <2>6 DEF M!WriteTestsPeer, M!CallReturns, M!CallInterrupted
    <3> QED BY <2>1, <3>4, <3>5
  <2> QED BY <1>4, <2>2, <2>3, <2>4, <2>5, <2>6 DEF Asks
<1> QED BY <1>1, <1>2, <1>3, <1>4

(* The other steps of threads, by the ends and threads they touch.         *)
LEMMA LoudSteps ==
  ASSUME M!Next, ~Quiet, ChannelTypeOK
  PROVE  \E t \in M!Threads : \/ Watches(t) \/ M!ReadTake(t) \/ M!WritePermit(t) \/ M!WriteInterrupted(t)
                              \/ M!WritePut(t) \/ M!WriteSignal(t)
  BY ThreadSteps, QuietSteps

LEMMA TakeDoes ==
  ASSUME ChannelTypeOK, LinedUp, NEW t \in M!Threads, M!ReadTake(t)
  PROVE  LET e == M!Own(t) IN
         /\ point[e].queue # <<>> /\ point'[e].queue = Tail(point[e].queue) /\ point'[e].sem = point[e].sem + 1
         /\ point'[e].waiting = point[e].waiting
         /\ point'[e].blocked = IF point[e].blocked = <<>> THEN <<>> ELSE Tail(point[e].blocked)
         /\ \A x \in M!Ends : x # e => point'[x] = point[x] /\ log'[x] = log[x]
         /\ log'[e].read = Append(log[e].read, Head(point[e].queue)) /\ log'[e].sent = log[e].sent
         /\ thr[t].pc = "read" /\ thr'[t].pc = "idle"
         /\ \A u \in M!Threads : u # t => thr'[u].pc = IF u \in M!Freed(e) THEN "put" ELSE thr[u].pc
<1> DEFINE e == M!Own(t)
<1>a. /\ e \in M!Ends /\ point \in [M!Ends -> PointType] /\ thr \in [M!Threads -> RowType]
      /\ log \in [M!Ends -> [sent : Seq(Letters), read : Seq(Letters)]]
  BY Sides DEF ChannelTypeOK
<1>1. /\ point[e].queue # <<>> /\ thr[t].pc = "read"
      /\ point' = M!Raised([point EXCEPT ![e].queue = Tail(@)], e)
      /\ log' = [log EXCEPT ![e].read = Append(@, Head(point[e].queue))]
      /\ thr' = [u \in M!Threads |-> IF u = t THEN M!Idle
                                     ELSE IF u \in M!Freed(e) THEN [thr[u] EXCEPT !.pc = "put"] ELSE thr[u]]
  BY DEF M!ReadTake, M!At
<1> HIDE DEF e
<1>2. /\ point'[e].queue = Tail(point[e].queue) /\ point'[e].sem = point[e].sem + 1 /\ point'[e].waiting = point[e].waiting
      /\ point'[e].blocked = IF point[e].blocked = <<>> THEN <<>> ELSE Tail(point[e].blocked)
      /\ \A x \in M!Ends : x # e => point'[x] = point[x]
  BY <1>a, <1>1 DEF M!Raised, PointType
<1>3. /\ log'[e].read = Append(log[e].read, Head(point[e].queue)) /\ log'[e].sent = log[e].sent
      /\ \A x \in M!Ends : x # e => log'[x] = log[x]
  BY <1>a, <1>1
<1>4. /\ thr'[t].pc = "idle"
      /\ \A u \in M!Threads : u # t => thr'[u].pc = IF u \in M!Freed(e) THEN "put" ELSE thr[u].pc
  BY <1>a, <1>1, IdleRow DEF RowType
<1> QED BY <1>1, <1>2, <1>3, <1>4, Zenon DEF e

LEMMA PermitDoes ==
  ASSUME ChannelTypeOK, NEW t \in M!Threads, M!WritePermit(t)
  PROVE  LET e == M!Own(t) IN
         /\ point'[e].queue = point[e].queue /\ point'[e].waiting = point[e].waiting /\ point'[e].sem = point[e].sem - 1
         /\ point'[e].blocked = IF point[e].sem <= 0 THEN Append(point[e].blocked, t) ELSE point[e].blocked
         /\ \A x \in M!Ends : x # e => point'[x] = point[x]
         /\ log' = log
         /\ thr[t].pc = "respond" /\ thr'[t].pc = IF point[e].sem <= 0 THEN "blocked" ELSE "put"
         /\ \A u \in M!Threads : u # t => thr'[u] = thr[u]
<1> DEFINE e == M!Own(t)
<1>1. e \in M!Ends /\ point \in [M!Ends -> PointType] /\ thr \in [M!Threads -> RowType]  BY Sides DEF ChannelTypeOK
<1>2. /\ point' = M!Lowered(e, t) /\ log' = log /\ thr[t].pc = "respond"
      /\ M!Moves(t, IF point[e].sem <= 0 THEN "blocked" ELSE "put")
  BY DEF M!WritePermit, M!At
<1> HIDE DEF e
<1>3. /\ point'[e].queue = point[e].queue /\ point'[e].waiting = point[e].waiting /\ point'[e].sem = point[e].sem - 1
      /\ point'[e].blocked = IF point[e].sem <= 0 THEN Append(point[e].blocked, t) ELSE point[e].blocked
      /\ \A x \in M!Ends : x # e => point'[x] = point[x]
  BY <1>1, <1>2 DEF M!Lowered, PointType
<1>4. /\ thr'[t].pc = IF point[e].sem <= 0 THEN "blocked" ELSE "put"
      /\ \A u \in M!Threads : u # t => thr'[u] = thr[u]
  BY <1>1, <1>2 DEF M!Moves, RowType
<1> QED BY <1>2, <1>3, <1>4 DEF e

LEMMA InterruptDoes ==
  ASSUME ChannelTypeOK, NEW t \in M!Threads, M!WriteInterrupted(t)
  PROVE  LET e == M!Own(t) IN
         /\ point'[e].queue = point[e].queue /\ point'[e].waiting = point[e].waiting /\ point'[e].sem = point[e].sem
         /\ point'[e].blocked = M!Without(point[e].blocked, t)
         /\ \A x \in M!Ends : x # e => point'[x] = point[x]
         /\ log' = log
         /\ thr[t].pc = "blocked" /\ thr'[t].pc \in {"idle", "await"}
         /\ \A u \in M!Threads : u # t => thr'[u] = thr[u]
<1> DEFINE e == M!Own(t)
<1>1. e \in M!Ends /\ point \in [M!Ends -> PointType] /\ thr \in [M!Threads -> RowType]  BY Sides DEF ChannelTypeOK
<1>2. /\ point' = [point EXCEPT ![e].blocked = M!Without(@, t)] /\ log' = log
      /\ thr[t].pc = "blocked" /\ thr' = [thr EXCEPT ![t] = M!Written(t)]
  BY DEF M!WriteInterrupted, M!At
<1> HIDE DEF e
<1>3. /\ point'[e].queue = point[e].queue /\ point'[e].waiting = point[e].waiting /\ point'[e].sem = point[e].sem
      /\ point'[e].blocked = M!Without(point[e].blocked, t)
      /\ \A x \in M!Ends : x # e => point'[x] = point[x]
  BY <1>1, <1>2 DEF PointType
<1>4. thr'[t].pc \in {"idle", "await"} /\ \A u \in M!Threads : u # t => thr'[u] = thr[u]  BY <1>1, <1>2, WrittenRow
<1> QED BY <1>2, <1>3, <1>4 DEF e

LEMMA PutDoes ==
  ASSUME ChannelTypeOK, NEW t \in M!Threads, M!WritePut(t)
  PROVE  LET e == M!Peer(t) IN
         /\ point'[e].queue = Append(point[e].queue, thr[t].msg) /\ point'[e].waiting = point[e].waiting
         /\ point'[e].sem = point[e].sem /\ point'[e].blocked = point[e].blocked
         /\ \A x \in M!Ends : x # e => point'[x] = point[x] /\ log'[x] = log[x]
         /\ log'[e].sent = Append(log[e].sent, thr[t].msg) /\ log'[e].read = log[e].read
         /\ thr[t].pc = "put" /\ thr'[t].pc = "signal" /\ thr[t].msg \in Letters
         /\ \A u \in M!Threads : u # t => thr'[u] = thr[u]
<1> DEFINE e == M!Peer(t)
           m == thr[t].msg
<1>1. /\ e \in M!Ends /\ point \in [M!Ends -> PointType] /\ thr \in [M!Threads -> RowType]
      /\ log \in [M!Ends -> [sent : Seq(Letters), read : Seq(Letters)]]
  BY Sides DEF ChannelTypeOK
<1>2. /\ point' = [point EXCEPT ![e].queue = Append(@, m), ![e].lock = t]
      /\ log' = [log EXCEPT ![e].sent = Append(@, m)]
      /\ thr[t].pc = "put" /\ M!Moves(t, "signal")
  BY DEF M!WritePut, M!At
<1>3. m \in Letters  BY <1>2 DEF ChannelTypeOK, Sending
<1> HIDE DEF e, m
<1>4. /\ point'[e].queue = Append(point[e].queue, m) /\ point'[e].waiting = point[e].waiting
      /\ point'[e].sem = point[e].sem /\ point'[e].blocked = point[e].blocked
      /\ \A x \in M!Ends : x # e => point'[x] = point[x]
  BY <1>1, <1>2 DEF PointType
<1>5. /\ log'[e].sent = Append(log[e].sent, m) /\ log'[e].read = log[e].read
      /\ \A x \in M!Ends : x # e => log'[x] = log[x]
  BY <1>1, <1>2
<1>6. thr'[t].pc = "signal" /\ \A u \in M!Threads : u # t => thr'[u] = thr[u]  BY <1>1, <1>2 DEF M!Moves, RowType
<1> QED BY <1>2, <1>3, <1>4, <1>5, <1>6, Zenon DEF e, m

LEMMA SignalDoes ==
  ASSUME ChannelTypeOK, NEW t \in M!Threads, M!WriteSignal(t)
  PROVE  LET e == M!Peer(t) IN
         /\ point'[e].queue = point[e].queue /\ point'[e].waiting = {}
         /\ point'[e].sem = point[e].sem /\ point'[e].blocked = point[e].blocked
         /\ \A x \in M!Ends : x # e => point'[x] = point[x]
         /\ log' = log
         /\ thr[t].pc = "signal" /\ thr'[t].pc \in {"idle", "await"}
         /\ \A u \in M!Threads : u # t => thr'[u] = IF u \in point[e].waiting THEN M!Idle ELSE thr[u]
<1> DEFINE e == M!Peer(t)
<1>1. e \in M!Ends /\ point \in [M!Ends -> PointType]  BY Sides DEF ChannelTypeOK
<1>2. /\ point' = [point EXCEPT ![e].lock = None, ![e].waiting = @ \ M!Told(e)]
      /\ thr' = [u \in M!Threads |-> IF u = t THEN M!Written(t) ELSE IF u \in M!Told(e) THEN M!Idle ELSE thr[u]]
      /\ log' = log /\ thr[t].pc = "signal"
  BY DEF M!WriteSignal, M!At
<1>3. /\ point'[e].queue = point[e].queue /\ point'[e].waiting = point[e].waiting \ M!Told(e)
      /\ point'[e].sem = point[e].sem /\ point'[e].blocked = point[e].blocked
      /\ \A x \in M!Ends : x # e => point'[x] = point[x]
  BY <1>1, <1>2 DEF PointType
<1>4. thr'[t].pc \in {"idle", "await"}  BY <1>2, WrittenRow
<1>5. \A u \in M!Threads : u # t => thr'[u] = IF u \in M!Told(e) THEN M!Idle ELSE thr[u]  BY <1>2
<1> QED BY <1>2, <1>3, <1>4, <1>5, Zenon DEF M!Told

LEMMA WatchDoes ==
  ASSUME ChannelTypeOK, NEW t \in M!Threads, Watches(t)
  PROVE  LET e == M!Own(t) IN
         /\ point'[e].queue = point[e].queue /\ point'[e].sem = point[e].sem /\ point'[e].blocked = point[e].blocked
         /\ \A x \in M!Ends : x # e => point'[x] = point[x]
         /\ log' = log
         /\ \/ /\ thr[t].pc = "idle" /\ thr'[t].pc = "watching" /\ point[e].queue = <<>>
               /\ point'[e].waiting = point[e].waiting \cup {t}
            \/ /\ thr[t].pc = "watching" /\ thr'[t].pc = "idle"
               /\ point'[e].waiting = point[e].waiting \ {t}
         /\ \A u \in M!Threads : u # t => thr'[u] = thr[u]
<1>1. CASE M!SysKernelObjectWait(t)
  BY <1>1, Sides, IdleRow DEF M!SysKernelObjectWait, M!WatchTest, M!Handled, M!Moves, ChannelTypeOK, PointType, RowType
<1>2. CASE M!WaitInterrupted(t)
  BY <1>2, Sides DEF M!WaitInterrupted, M!Moves, M!At, ChannelTypeOK, PointType, RowType
<1> QED BY <1>1, <1>2 DEF Watches
-----------------------------------------------------------------------------
(* What is on the queue stays in the order in which it was put there.      *)
LEMMA ChannelOrder ==
  ASSUME ChannelTypeOK, LinedUp, M!InOrder, [M!Next]_(M!vars)
  PROVE  M!InOrder'
<1>a. \A e \in M!Ends : /\ point[e].queue \in Seq(Letters) /\ log[e].read \in Seq(Letters) /\ log[e].sent \in Seq(Letters)
                        /\ log[e].read \o point[e].queue = log[e].sent
  BY Zenon DEF ChannelTypeOK, PointType, M!InOrder
<1>1. CASE Quiet  BY <1>1, Zenon DEF Quiet, M!InOrder
<1>2. ASSUME NEW t \in M!Threads, Watches(t) \/ M!WritePermit(t) \/ M!WriteInterrupted(t) \/ M!WriteSignal(t)
      PROVE  M!InOrder'
  <2>1. log' = log /\ \A e \in M!Ends : point'[e].queue = point[e].queue
    BY <1>2, Sides, WatchDoes, PermitDoes, InterruptDoes, SignalDoes
  <2> QED BY <2>1, Zenon DEF M!InOrder
<1>3. ASSUME NEW t \in M!Threads, M!ReadTake(t) PROVE M!InOrder'
  <2> DEFINE e == M!Own(t)
  <2>1. /\ e \in M!Ends /\ point[e].queue # <<>> /\ point'[e].queue = Tail(point[e].queue)
        /\ log'[e].read = Append(log[e].read, Head(point[e].queue)) /\ log'[e].sent = log[e].sent
        /\ \A x \in M!Ends : x # e => point'[x] = point[x] /\ log'[x] = log[x]
    BY <1>3, Sides, TakeDoes
  <2> HIDE DEF e
  <2>2. log'[e].read \o point'[e].queue = log'[e].sent
    <3>1. Append(log[e].read, Head(point[e].queue)) \o Tail(point[e].queue) = log[e].read \o point[e].queue
      BY <1>a, <2>1, HeadMoves, ZenonT(60)
    <3> QED BY <1>a, <2>1, <3>1, Zenon
  <2> QED BY <1>a, <2>1, <2>2, Zenon DEF M!InOrder
<1>4. ASSUME NEW t \in M!Threads, M!WritePut(t) PROVE M!InOrder'
  <2> DEFINE e == M!Peer(t)
             m == thr[t].msg
  <2>1. /\ e \in M!Ends /\ m \in Letters /\ point'[e].queue = Append(point[e].queue, m)
        /\ log'[e].sent = Append(log[e].sent, m) /\ log'[e].read = log[e].read
        /\ \A x \in M!Ends : x # e => point'[x] = point[x] /\ log'[x] = log[x]
    BY <1>4, Sides, PutDoes
  <2> HIDE DEF e, m
  <2>2. log'[e].read \o point'[e].queue = log'[e].sent
    <3>2. log[e].read \in Seq(Letters) /\ point[e].queue \in Seq(Letters) /\ m \in Letters  BY <1>a, <2>1, Zenon
    <3>1. log[e].read \o Append(point[e].queue, m) = Append(log[e].read \o point[e].queue, m)
      <4> DEFINE a == log[e].read
                 q == point[e].queue
      <4>1. a \in Seq(Letters) /\ q \in Seq(Letters)  BY <3>2
      <4> HIDE DEF a, q
      <4>2. a \o Append(q, m) = Append(a \o q, m)  BY ONLY <3>2, <4>1, AppendJoins
      <4> QED BY <4>2 DEF a, q
    <3> QED BY <1>a, <2>1, <3>1, Zenon
  <2> QED BY <1>a, <2>1, <2>2, Zenon DEF M!InOrder
<1> QED BY <1>1, <1>2, <1>3, <1>4, LoudSteps, QuietSteps

(* A watcher is told, or there is nothing to tell.                         *)
LEMMA ChannelWatchers ==
  ASSUME ChannelTypeOK, LinedUp, M!WatcherTold, [M!Next]_(M!vars)
  PROVE  M!WatcherTold'
<1> DEFINE Sig(x) == \E u \in M!Threads : thr[u].pc = "signal" /\ M!Peer(u) = x
           SigP(x) == \E u \in M!Threads : thr'[u].pc = "signal" /\ M!Peer(u) = x
<1>a. \A v \in M!Threads : thr[v].pc = "watching" => point[M!Own(v)].queue = <<>> \/ Sig(M!Own(v))
  BY DEF M!WatcherTold, M!At
<1> SUFFICES ASSUME NEW v \in M!Threads, thr'[v].pc = "watching" PROVE point'[M!Own(v)].queue = <<>> \/ SigP(M!Own(v))
  BY DEF M!WatcherTold, M!At
<1>b. M!Own(v) \in M!Ends  BY Sides
<1>1. CASE Quiet
  <2>1. thr[v].pc = "watching" /\ point'[M!Own(v)].queue = point[M!Own(v)].queue  BY <1>1, <1>b DEF Quiet
  <2>2. Sig(M!Own(v)) => SigP(M!Own(v))  BY <1>1 DEF Quiet
  <2> QED BY <1>a, <2>1, <2>2
<1>2. ASSUME NEW t \in M!Threads, M!ReadTake(t) PROVE point'[M!Own(v)].queue = <<>> \/ SigP(M!Own(v))
  <2> DEFINE e == M!Own(t)
  <2>1. /\ e \in M!Ends /\ point[e].queue # <<>> /\ \A x \in M!Ends : x # e => point'[x] = point[x]
        /\ thr[t].pc = "read" /\ thr'[t].pc = "idle"
        /\ \A u \in M!Threads : u # t => thr'[u].pc = IF u \in M!Freed(e) THEN "put" ELSE thr[u].pc
    BY <1>2, Sides, TakeDoes
  <2>2. \A u \in M!Freed(e) : thr[u].pc = "blocked"  BY <2>1, FreedWaited DEF Standing
  <2>3. thr[v].pc = "watching"  BY <2>1, <2>2
  <2>4. Sig(M!Own(v)) => SigP(M!Own(v))  BY <2>1, <2>2
  <2> QED BY <1>a, <1>b, <2>1, <2>3, <2>4
<1>3. ASSUME NEW t \in M!Threads, M!WritePermit(t) \/ M!WriteInterrupted(t)
      PROVE  point'[M!Own(v)].queue = <<>> \/ SigP(M!Own(v))
  <2>1. /\ thr[t].pc \in {"respond", "blocked"} /\ thr'[t].pc \in {"blocked", "put", "idle", "await"}
        /\ \A u \in M!Threads : u # t => thr'[u] = thr[u]
        /\ \A x \in M!Ends : point'[x].queue = point[x].queue
    BY <1>3, Sides, PermitDoes, InterruptDoes
  <2>2. thr[v].pc = "watching"  BY <2>1
  <2>3. Sig(M!Own(v)) => SigP(M!Own(v))  BY <2>1
  <2> QED BY <1>a, <1>b, <2>1, <2>2, <2>3
<1>4. ASSUME NEW t \in M!Threads, M!WritePut(t) PROVE point'[M!Own(v)].queue = <<>> \/ SigP(M!Own(v))
  <2>1. /\ M!Peer(t) \in M!Ends /\ \A x \in M!Ends : x # M!Peer(t) => point'[x] = point[x]
        /\ thr[t].pc = "put" /\ thr'[t].pc = "signal" /\ \A u \in M!Threads : u # t => thr'[u] = thr[u]
    BY <1>4, Sides, PutDoes
  <2>2. CASE M!Own(v) = M!Peer(t)  BY <2>1, <2>2
  <2>3. CASE M!Own(v) # M!Peer(t)
    <3>1. thr[v].pc = "watching"  BY <2>1
    <3>2. Sig(M!Own(v)) => SigP(M!Own(v))  BY <2>1
    <3> QED BY <1>a, <1>b, <2>1, <2>3, <3>1, <3>2
  <2> QED BY <2>2, <2>3
<1>5. ASSUME NEW t \in M!Threads, M!WriteSignal(t) PROVE point'[M!Own(v)].queue = <<>> \/ SigP(M!Own(v))
  <2> DEFINE e == M!Peer(t)
  <2>1. /\ e \in M!Ends /\ \A x \in M!Ends : point'[x].queue = point[x].queue
        /\ thr[t].pc = "signal" /\ thr'[t].pc \in {"idle", "await"}
        /\ \A u \in M!Threads : u # t => thr'[u] = IF u \in point[e].waiting THEN M!Idle ELSE thr[u]
    BY <1>5, Sides, SignalDoes
  <2>2. point[e].waiting = Standing(e, "watching")  BY <2>1 DEF LinedUp
  <2>3. thr[v].pc = "watching" /\ v \notin point[e].waiting  BY <2>1, IdleRow
  <2>4. M!Own(v) # e  BY <2>2, <2>3 DEF Standing
  <2>5. Sig(M!Own(v)) => SigP(M!Own(v))  BY <2>1, <2>2, <2>4 DEF Standing
  <2> QED BY <1>a, <1>b, <2>1, <2>3, <2>5
<1>6. ASSUME NEW t \in M!Threads, Watches(t) PROVE point'[M!Own(v)].queue = <<>> \/ SigP(M!Own(v))
  <2>1. /\ M!Own(t) \in M!Ends /\ \A x \in M!Ends : point'[x].queue = point[x].queue
        /\ thr[t].pc # "signal" /\ (thr'[t].pc = "watching" => point[M!Own(t)].queue = <<>>)
        /\ \A u \in M!Threads : u # t => thr'[u] = thr[u]
    BY <1>6, Sides, WatchDoes
  <2>2. CASE v = t  BY <2>1, <2>2
  <2>3. CASE v # t
    <3>1. thr[v].pc = "watching"  BY <2>1, <2>3
    <3>2. Sig(M!Own(v)) => SigP(M!Own(v))  BY <2>1
    <3> QED BY <1>a, <1>b, <2>1, <3>1, <3>2
  <2> QED BY <2>2, <2>3
<1> QED BY <1>1, <1>2, <1>3, <1>4, <1>5, <1>6, LoudSteps, QuietSteps
-----------------------------------------------------------------------------
(* Who waits is listed, once, and who is listed waits.                     *)
LEMMA Alone ==
  ASSUME NEW t \in M!Threads, \A u \in M!Threads : u # t => thr'[u].pc = thr[u].pc, NEW e, NEW pc
  PROVE  /\ M!Own(t) # e \/ (thr[t].pc # pc /\ thr'[t].pc # pc) => Standing(e, pc)' = Standing(e, pc)
         /\ M!Own(t) = e /\ thr'[t].pc = pc => Standing(e, pc)' = Standing(e, pc) \cup {t}
         /\ M!Own(t) = e /\ thr'[t].pc # pc => Standing(e, pc)' = Standing(e, pc) \ {t}
  BY DEF Standing

Lined(e) ==
  /\ \A i \in 1..Len(point[e].blocked) : point[e].blocked[i] \in Standing(e, "blocked")
  /\ \A i, j \in 1..Len(point[e].blocked) : point[e].blocked[i] = point[e].blocked[j] => i = j
  /\ point[e].waiting = Standing(e, "watching")

LEMMA LinedKept ==
  ASSUME NEW e, Lined(e), point'[e].blocked = point[e].blocked, point'[e].waiting = point[e].waiting,
         Standing(e, "blocked")' = Standing(e, "blocked"), Standing(e, "watching")' = Standing(e, "watching")
  PROVE  Lined(e)'
  BY DEF Lined

LEMMA ChannelLines ==
  ASSUME ChannelTypeOK, LinedUp, [M!Next]_(M!vars)
  PROVE  LinedUp'
<1> SUFFICES ASSUME NEW x \in M!Ends PROVE Lined(x)'  BY DEF LinedUp, Lined
<1>a. Lined(x) /\ point[x].blocked \in Seq(M!Threads) /\ Len(point[x].blocked) \in Nat
  BY DEF LinedUp, Lined, ChannelTypeOK, PointType
<1>1. CASE Quiet
  <2>1. Standing(x, "blocked")' = Standing(x, "blocked") /\ Standing(x, "watching")' = Standing(x, "watching")
    BY <1>1 DEF Quiet, Standing
  <2> QED BY <1>1, <1>a, <2>1, LinedKept DEF Quiet
<1>2. ASSUME NEW t \in M!Threads, M!ReadTake(t) PROVE Lined(x)'
  <2> DEFINE e == M!Own(t)
             q == point[e].blocked
  <2>1. /\ e \in M!Ends /\ point'[e].waiting = point[e].waiting
        /\ point'[e].blocked = IF q = <<>> THEN <<>> ELSE Tail(q)
        /\ \A y \in M!Ends : y # e => point'[y] = point[y]
        /\ thr[t].pc = "read" /\ thr'[t].pc = "idle"
        /\ \A u \in M!Threads : u # t => thr'[u].pc = IF u \in M!Freed(e) THEN "put" ELSE thr[u].pc
    BY <1>2, Sides, TakeDoes
  <2>2. M!Freed(e) = IF q = <<>> THEN {} ELSE {Head(q)}  BY DEF M!Freed
  <2>3. \A u \in M!Freed(e) : u \in Standing(e, "blocked")  BY <2>1, FreedWaited
  <2> HIDE DEF e, q
  <2>4. \A y : Standing(y, "watching")' = Standing(y, "watching")  BY <2>1, <2>3 DEF Standing
  <2>5. Standing(e, "blocked")' = Standing(e, "blocked") \ M!Freed(e)  BY <2>1, <2>3 DEF Standing
  <2>6. \A y : y # e => Standing(y, "blocked")' = Standing(y, "blocked")  BY <2>1, <2>3 DEF Standing
  <2>7. CASE x # e  BY <1>a, <2>1, <2>4, <2>6, <2>7, LinedKept
  <2>8. CASE x = e /\ q = <<>>
    <3>1. Standing(e, "blocked")' = Standing(e, "blocked")  BY <2>2, <2>5, <2>8
    <3> QED BY <1>a, <2>1, <2>4, <2>8, <3>1, LinedKept DEF q
  <2>9. CASE x = e /\ q # <<>>
    <3>1. /\ q \in Seq(M!Threads) /\ Len(q) \in Nat
          /\ \A i \in 1..Len(q) : q[i] \in Standing(e, "blocked")
          /\ \A i, j \in 1..Len(q) : q[i] = q[j] => i = j
      BY <1>a, <2>9 DEF Lined, q
    <3>2. /\ Tail(q) \in Seq(M!Threads) /\ Len(Tail(q)) = Len(q) - 1 /\ Head(q) = q[1]
          /\ \A i \in 1..Len(Tail(q)) : Tail(q)[i] = q[i + 1]
      BY <2>9, <3>1, HeadTailProperties
    <3> DEFINE r == Tail(q)
    <3> HIDE DEF r
    <3>3. \A i \in 1..Len(r) : i + 1 \in 1..Len(q) /\ i + 1 # 1 /\ 1 \in 1..Len(q)  BY <3>1, <3>2 DEF r
    <3>4. \A i \in 1..Len(r) : r[i] \in Standing(e, "blocked")'  BY <2>2, <2>5, <2>9, <3>1, <3>2, <3>3 DEF r
    <3>5. \A i, j \in 1..Len(r) : r[i] = r[j] => i = j
      <4>1. ASSUME NEW i \in 1..Len(r), NEW j \in 1..Len(r), r[i] = r[j] PROVE i = j
        <5>1. i + 1 = j + 1  BY <3>1, <3>2, <3>3, <4>1 DEF r
        <5> QED BY <5>1
      <4> QED BY <4>1
    <3>6. point'[e].blocked = r  BY <2>1, <2>9 DEF r
    <3>7. point'[e].waiting = Standing(e, "watching")'  BY <1>a, <2>1, <2>4, <2>9 DEF Lined
    <3> QED BY <2>9, <3>4, <3>5, <3>6, <3>7 DEF Lined
  <2> QED BY <2>7, <2>8, <2>9
<1>3. ASSUME NEW t \in M!Threads, M!WritePermit(t) PROVE Lined(x)'
  <2> DEFINE e == M!Own(t)
             q == point[e].blocked
  <2>1. /\ e \in M!Ends /\ point'[e].waiting = point[e].waiting
        /\ point'[e].blocked = IF point[e].sem <= 0 THEN Append(q, t) ELSE q
        /\ \A y \in M!Ends : y # e => point'[y] = point[y]
        /\ thr[t].pc = "respond" /\ thr'[t].pc = IF point[e].sem <= 0 THEN "blocked" ELSE "put"
        /\ \A u \in M!Threads : u # t => thr'[u].pc = thr[u].pc
    BY <1>3, Sides, PermitDoes
  <2>2. \A y : Standing(y, "watching")' = Standing(y, "watching")  BY <2>1, Alone
  <2>3. \A y : y # e => Standing(y, "blocked")' = Standing(y, "blocked")  BY <2>1, Alone
  <2> HIDE DEF q
  <2>4. CASE x # e  BY <1>a, <2>1, <2>2, <2>3, <2>4, LinedKept
  <2>5. CASE x = e /\ ~(point[e].sem <= 0)
    <3>1. Standing(e, "blocked")' = Standing(e, "blocked")  BY <2>1, <2>5, Alone
    <3> QED BY <1>a, <2>1, <2>2, <2>5, <3>1, LinedKept DEF q
  <2>6. CASE x = e /\ point[e].sem <= 0
    <3>1. Standing(e, "blocked")' = Standing(e, "blocked") \cup {t} /\ t \notin Standing(e, "blocked")
      BY <2>1, <2>6, Alone DEF Standing
    <3>2. /\ q \in Seq(M!Threads) /\ Len(q) \in Nat
          /\ \A i \in 1..Len(q) : q[i] \in Standing(e, "blocked")
          /\ \A i, j \in 1..Len(q) : q[i] = q[j] => i = j
      BY <1>a, <2>6 DEF Lined, q
    <3> DEFINE r == Append(q, t)
    <3>3. Len(r) = Len(q) + 1 /\ (\A i \in 1..Len(q) : r[i] = q[i]) /\ r[Len(q) + 1] = t
      BY <3>2, AppendProperties
    <3> HIDE DEF r
    <3>4. \A i \in 1..Len(r) : r[i] \in Standing(e, "blocked")'  BY <3>1, <3>2, <3>3
    <3>5. \A i, j \in 1..Len(r) : r[i] = r[j] => i = j  BY <3>1, <3>2, <3>3
    <3>6. point'[e].blocked = r /\ point'[e].waiting = Standing(e, "watching")'
      BY <1>a, <2>1, <2>2, <2>6 DEF Lined, r
    <3> QED BY <2>6, <3>4, <3>5, <3>6 DEF Lined
  <2> QED BY <2>4, <2>5, <2>6
<1>4. ASSUME NEW t \in M!Threads, M!WriteInterrupted(t) PROVE Lined(x)'
  <2> DEFINE e == M!Own(t)
             q == point[e].blocked
  <2>1. /\ e \in M!Ends /\ point'[e].waiting = point[e].waiting /\ point'[e].blocked = M!Without(q, t)
        /\ \A y \in M!Ends : y # e => point'[y] = point[y]
        /\ thr[t].pc = "blocked" /\ thr'[t].pc \in {"idle", "await"}
        /\ \A u \in M!Threads : u # t => thr'[u].pc = thr[u].pc
    BY <1>4, Sides, InterruptDoes
  <2>2. \A y : Standing(y, "watching")' = Standing(y, "watching")  BY <2>1, Alone
  <2>3. \A y : y # e => Standing(y, "blocked")' = Standing(y, "blocked")  BY <2>1, Alone
  <2>4. Standing(e, "blocked")' = Standing(e, "blocked") \ {t}  BY <2>1, Alone
  <2> HIDE DEF q
  <2>5. CASE x # e  BY <1>a, <2>1, <2>2, <2>3, <2>5, LinedKept
  <2>6. CASE x = e
    <3>1. /\ q \in Seq(M!Threads) /\ Len(q) \in Nat
          /\ \A i \in 1..Len(q) : q[i] \in Standing(e, "blocked")
          /\ \A i, j \in 1..Len(q) : q[i] = q[j] => i = j
      BY <1>a, <2>6 DEF Lined, q
    <3>2. point'[e].waiting = Standing(e, "watching")'  BY <1>a, <2>1, <2>2, <2>6 DEF Lined
    <3>3. CASE M!Without(q, t) = q /\ \A i \in 1..Len(q) : q[i] # t
      <4>1. \A i \in 1..Len(q) : q[i] \in Standing(e, "blocked")'  BY <2>4, <3>1, <3>3
      <4> QED BY <2>1, <2>6, <3>1, <3>2, <3>3, <4>1 DEF Lined
    <3>4. ASSUME NEW k \in 1..Len(q), q[k] = t, M!Without(q, t) = Leaving(q, k) PROVE Lined(x)'
      <4> DEFINE r == Leaving(q, k)
      <4>1. Len(r) = Len(q) - 1 /\ \A i \in 1..Len(q) - 1 : r[i] = IF i < k THEN q[i] ELSE q[i + 1]
        BY <3>1, LeavesOut
      <4> HIDE DEF r
      <4>2. ASSUME NEW i \in 1..Len(r)
            PROVE  LET j == IF i < k THEN i ELSE i + 1 IN j \in 1..Len(q) /\ j # k /\ r[i] = q[j]
        BY <3>1, <4>1
      <4>3. \A i \in 1..Len(r) : r[i] \in Standing(e, "blocked")'
        <5>1. ASSUME NEW i \in 1..Len(r) PROVE r[i] \in Standing(e, "blocked")'
          BY <2>4, <3>1, <3>4, <4>2
        <5> QED BY <5>1
      <4>4. ASSUME NEW i \in 1..Len(r), NEW j \in 1..Len(r), r[i] = r[j] PROVE i = j
        <5>1. (IF i < k THEN i ELSE i + 1) = (IF j < k THEN j ELSE j + 1)  BY <3>1, <4>2, <4>4
        <5>2. i \in Nat /\ j \in Nat /\ k \in Nat  BY <4>1, <3>1
        <5> QED BY <5>1, <5>2
      <4>5. point'[e].blocked = r  BY <2>1, <3>4 DEF r
      <4> QED BY <2>6, <3>2, <4>3, <4>4, <4>5 DEF Lined
    <3> QED BY <3>1, <3>3, <3>4, WithoutIt
  <2> QED BY <2>5, <2>6
<1>5. ASSUME NEW t \in M!Threads, M!WritePut(t) PROVE Lined(x)'
  <2>1. /\ point'[x].waiting = point[x].waiting /\ point'[x].blocked = point[x].blocked
        /\ thr[t].pc = "put" /\ thr'[t].pc = "signal" /\ \A u \in M!Threads : u # t => thr'[u].pc = thr[u].pc
    BY <1>5, Sides, PutDoes
  <2>2. Standing(x, "blocked")' = Standing(x, "blocked") /\ Standing(x, "watching")' = Standing(x, "watching")  BY <2>1, Alone
  <2> QED BY <1>a, <2>1, <2>2, LinedKept
<1>6. ASSUME NEW t \in M!Threads, M!WriteSignal(t) PROVE Lined(x)'
  <2> DEFINE e == M!Peer(t)
  <2>1. /\ e \in M!Ends /\ point'[e].waiting = {} /\ point'[e].blocked = point[e].blocked
        /\ \A y \in M!Ends : y # e => point'[y] = point[y]
        /\ thr[t].pc = "signal" /\ thr'[t].pc \in {"idle", "await"}
        /\ \A u \in M!Threads : u # t => thr'[u] = IF u \in point[e].waiting THEN M!Idle ELSE thr[u]
    BY <1>6, Sides, SignalDoes
  <2>2. point[e].waiting = Standing(e, "watching")  BY <2>1 DEF LinedUp
  <2>3. Standing(x, "blocked")' = Standing(x, "blocked")  BY <2>1, <2>2, IdleRow DEF Standing
  <2>4. Standing(e, "watching")' = {}  BY <2>1, <2>2, IdleRow DEF Standing
  <2>5. x # e => Standing(x, "watching")' = Standing(x, "watching")  BY <2>1, <2>2, IdleRow DEF Standing
  <2> HIDE DEF e
  <2>6. CASE x # e  BY <1>a, <2>1, <2>3, <2>5, <2>6, LinedKept
  <2>7. CASE x = e
    <3>1. point'[x].blocked = point[x].blocked /\ point'[x].waiting = {} /\ Standing(x, "watching")' = {}
      BY <2>1, <2>4, <2>7
    <3> QED BY <1>a, <2>3, <3>1 DEF Lined
  <2> QED BY <2>6, <2>7
<1>7. ASSUME NEW t \in M!Threads, Watches(t) PROVE Lined(x)'
  <2> DEFINE e == M!Own(t)
  <2>1. /\ e \in M!Ends /\ point'[e].blocked = point[e].blocked /\ \A y \in M!Ends : y # e => point'[y] = point[y]
        /\ \/ thr[t].pc = "idle" /\ thr'[t].pc = "watching" /\ point'[e].waiting = point[e].waiting \cup {t}
           \/ thr[t].pc = "watching" /\ thr'[t].pc = "idle" /\ point'[e].waiting = point[e].waiting \ {t}
        /\ \A u \in M!Threads : u # t => thr'[u].pc = thr[u].pc
    BY <1>7, Sides, WatchDoes
  <2>2. Standing(x, "blocked")' = Standing(x, "blocked")  BY <2>1, Alone
  <2>3. x # e => Standing(x, "watching")' = Standing(x, "watching")  BY <2>1, Alone
  <2>4. point'[e].waiting = Standing(e, "watching")'
    <3>1. point[e].waiting = Standing(e, "watching")  BY <2>1 DEF LinedUp
    <3> QED BY <2>1, <3>1, Alone, ZenonT(60)
  <2> HIDE DEF e
  <2>5. CASE x # e  BY <1>a, <2>1, <2>2, <2>3, <2>5, LinedKept
  <2>6. CASE x = e  BY <1>a, <2>1, <2>2, <2>4, <2>6, SMTT(60) DEF Lined
  <2> QED BY <2>5, <2>6
<1> QED BY <1>1, <1>2, <1>3, <1>4, <1>5, <1>6, <1>7, LoudSteps, QuietSteps
-----------------------------------------------------------------------------
(* Whoever has or awaits a place is counted.                               *)
Puts(e) == Cardinality(Standing(e, "put"))
Stalled(e) == Cardinality(Standing(e, "blocked"))
Fits(sent, puts, waits, sem, read) ==
  sent + puts <= Limit + read /\ sem + puts + waits <= Limit + read - sent
Permitted(e) == Fits(Len(log[M!Other(e)].sent), Puts(e), Stalled(e), point[e].sem, Len(log[e].read))

LEMMA Fitting ==
  ASSUME Limit \in Nat, NEW s \in Nat, NEW p \in Nat, NEW w \in Nat, NEW n \in Int, NEW r \in Nat, Fits(s, p, w, n, r)
  PROVE  /\ Fits(s, p, w, n + 1, r + 1) /\ Fits(s, p + 1, w - 1, n + 1, r + 1)
         /\ Fits(s, p, w + 1, n - 1, r) /\ (~(n <= 0) => Fits(s, p + 1, w, n - 1, r))
         /\ Fits(s + 1, p - 1, w, n, r)
         /\ \A a, b \in Nat : a <= p /\ b <= w => Fits(s, a, b, n, r)
  BY DEF Fits

LEMMA Counted ==
  ASSUME IsFiniteSet(M!Threads), NEW A, A \subseteq M!Threads
  PROVE  /\ IsFiniteSet(A) /\ Cardinality(A) \in Nat
         /\ \A D \in SUBSET A : Cardinality(D) \in Nat /\ Cardinality(D) <= Cardinality(A)
         /\ \A t \in M!Threads : /\ t \notin A => Cardinality(A \cup {t}) = Cardinality(A) + 1
                                 /\ t \in A => Cardinality(A \ {t}) = Cardinality(A) - 1
<1>1. IsFiniteSet(A)  BY FS_Subset
<1>2. Cardinality(A) \in Nat  BY <1>1, FS_CardinalityType
<1>3. \A D \in SUBSET A : IsFiniteSet(D) /\ Cardinality(D) \in Nat /\ Cardinality(D) <= Cardinality(A)
  BY <1>1, FS_Subset, FS_CardinalityType
<1>4. \A t \in M!Threads : /\ t \notin A => Cardinality(A \cup {t}) = Cardinality(A) + 1
                           /\ t \in A => Cardinality(A \ {t}) = Cardinality(A) - 1
  BY <1>1, FS_AddElement, FS_RemoveElement, Zenon
<1> QED BY <1>1, <1>2, <1>3, <1>4

LEMMA PermittedKept ==
  ASSUME ChannelTypeOK, FewThreads, NEW e \in M!Ends, Permitted(e),
         point'[e].sem = point[e].sem, log'[e].read = log[e].read, log'[M!Other(e)].sent = log[M!Other(e)].sent,
         Standing(e, "put")' \subseteq Standing(e, "put"), Standing(e, "blocked")' \subseteq Standing(e, "blocked")
  PROVE  Permitted(e)'
<1>1. Standing(e, "put") \subseteq M!Threads /\ Standing(e, "blocked") \subseteq M!Threads  BY DEF Standing
<1>2. /\ Puts(e) \in Nat /\ Puts(e)' \in Nat /\ Puts(e)' <= Puts(e)
      /\ Stalled(e) \in Nat /\ Stalled(e)' \in Nat /\ Stalled(e)' <= Stalled(e)
  BY <1>1, Counted DEF Puts, Stalled, FewThreads
<1>3. /\ point[e].sem \in Int /\ Len(log[e].read) \in Nat /\ Len(log[M!Other(e)].sent) \in Nat /\ Limit \in Nat
      /\ M!Other(e) \in M!Ends
  BY Sides DEF ChannelTypeOK, PointType, FewThreads
<1> QED BY <1>2, <1>3, Fitting, Zenon DEF Permitted

LEMMA ChannelPermits ==
  ASSUME ChannelTypeOK, FewThreads, LinedUp, Permits, [M!Next]_(M!vars)
  PROVE  Permits'
<1> SUFFICES ASSUME NEW x \in M!Ends PROVE Permitted(x)'  BY Zenon DEF Permits, Permitted, Puts, Stalled, Fits
<1>a. Permitted(x)  BY Zenon DEF Permits, Permitted, Puts, Stalled, Fits
<1>b. /\ \A e \in M!Ends : /\ Standing(e, "put") \subseteq M!Threads /\ Standing(e, "blocked") \subseteq M!Threads
                           /\ Puts(e) \in Nat /\ Stalled(e) \in Nat
                           /\ point[e].sem \in Int /\ Len(log[e].read) \in Nat /\ Len(log[e].sent) \in Nat
                           /\ log[e].read \in Seq(Letters) /\ log[e].sent \in Seq(Letters)
      /\ Limit \in Nat /\ M!Other(x) \in M!Ends /\ IsFiniteSet(M!Threads)
  <2>1. \A e : Standing(e, "put") \subseteq M!Threads /\ Standing(e, "blocked") \subseteq M!Threads  BY DEF Standing
  <2>2. \A e : Puts(e) \in Nat /\ Stalled(e) \in Nat  BY <2>1, Counted DEF Puts, Stalled, FewThreads
  <2>3. \A e \in M!Ends : point[e].sem \in Int /\ log[e].read \in Seq(Letters) /\ log[e].sent \in Seq(Letters)
    BY DEF ChannelTypeOK, PointType
  <2> QED BY <2>1, <2>2, <2>3, Sides, LenProperties DEF FewThreads
<1>1. CASE Quiet
  <2>1. Standing(x, "put")' \subseteq Standing(x, "put") /\ Standing(x, "blocked")' \subseteq Standing(x, "blocked")
    BY <1>1 DEF Quiet, Standing
  <2> QED BY <1>1, <1>a, <1>b, <2>1, PermittedKept DEF Quiet
<1>2. ASSUME NEW t \in M!Threads, M!ReadTake(t) PROVE Permitted(x)'
  <2> DEFINE e == M!Own(t)
             q == point[e].blocked
  <2>1. /\ e \in M!Ends /\ point'[e].sem = point[e].sem + 1
        /\ \A y \in M!Ends : y # e => point'[y] = point[y] /\ log'[y] = log[y]
        /\ log'[e].read = Append(log[e].read, Head(point[e].queue)) /\ log'[e].sent = log[e].sent
        /\ point[e].queue # <<>>
        /\ thr[t].pc = "read" /\ thr'[t].pc = "idle"
        /\ \A u \in M!Threads : u # t => thr'[u].pc = IF u \in M!Freed(e) THEN "put" ELSE thr[u].pc
    BY <1>2, Sides, TakeDoes
  <2>2. M!Freed(e) = IF q = <<>> THEN {} ELSE {Head(q)}  BY DEF M!Freed
  <2>3. \A u \in M!Freed(e) : u \in Standing(e, "blocked")  BY <2>1, FreedWaited
  <2>4. Standing(e, "put")' = Standing(e, "put") \cup M!Freed(e)  BY <2>1, <2>3 DEF Standing
  <2>5. Standing(e, "blocked")' = Standing(e, "blocked") \ M!Freed(e)  BY <2>1, <2>3 DEF Standing
  <2>6. \A y : y # e => Standing(y, "put")' = Standing(y, "put") /\ Standing(y, "blocked")' = Standing(y, "blocked")
    BY <2>1, <2>3 DEF Standing
  <2>7. \A u \in M!Freed(e) : u \in M!Threads /\ u \notin Standing(e, "put")  BY <2>3 DEF Standing
  <2>8. Head(point[e].queue) \in Letters  BY <2>1, SMTT(60) DEF ChannelTypeOK, PointType
  <2>9. Len(log'[e].read) = Len(log[e].read) + 1  BY <1>b, <2>1, <2>8, AppendProperties
  <2> HIDE DEF e, q
  <2>10. CASE x # e
    <3>1. point'[x].sem = point[x].sem /\ log'[x].read = log[x].read /\ log'[M!Other(x)].sent = log[M!Other(x)].sent
      BY <1>b, <2>1, <2>10, Zenon
    <3> QED BY <1>a, <2>6, <2>10, <3>1, PermittedKept
  <2>11. CASE x = e
    <3>1. log'[M!Other(e)].sent = log[M!Other(e)].sent  BY <1>b, <2>1, <2>11, Sides, Zenon
    <3>2. \/ Puts(e)' = Puts(e) /\ Stalled(e)' = Stalled(e)
          \/ Puts(e)' = Puts(e) + 1 /\ Stalled(e)' = Stalled(e) - 1
      <4>1. CASE q = <<>>
        <5>1. Standing(e, "put")' = Standing(e, "put") /\ Standing(e, "blocked")' = Standing(e, "blocked")
          BY <2>2, <2>4, <2>5, <4>1
        <5> QED BY <5>1 DEF Puts, Stalled
      <4>2. CASE q # <<>>
        <5> DEFINE first == Head(q)
        <5>1. /\ Standing(e, "put")' = Standing(e, "put") \cup {first} /\ Standing(e, "blocked")' = Standing(e, "blocked") \ {first}
              /\ first \in M!Threads /\ first \in Standing(e, "blocked") /\ first \notin Standing(e, "put")
          BY <2>2, <2>3, <2>4, <2>5, <2>7, <4>2
        <5> HIDE DEF first
        <5>2. Cardinality(Standing(e, "put") \cup {first}) = Puts(e) + 1 /\ Cardinality(Standing(e, "blocked") \ {first}) = Stalled(e) - 1
          BY <1>b, <2>1, <5>1, Counted, Zenon DEF Puts, Stalled
        <5> QED BY <5>1, <5>2 DEF Puts, Stalled
      <4> QED BY <4>1, <4>2
    <3>3. /\ Puts(e) \in Nat /\ Stalled(e) \in Nat /\ point[e].sem \in Int /\ Len(log[e].read) \in Nat
          /\ Len(log[M!Other(e)].sent) \in Nat /\ Limit \in Nat
      BY <1>b, <2>1, <2>11
    <3>4. Fits(Len(log[M!Other(e)].sent), Puts(e), Stalled(e), point[e].sem, Len(log[e].read))  BY <1>a, <2>11 DEF Permitted
    <3>5. /\ Fits(Len(log[M!Other(e)].sent), Puts(e), Stalled(e), point[e].sem + 1, Len(log[e].read) + 1)
          /\ Fits(Len(log[M!Other(e)].sent), Puts(e) + 1, Stalled(e) - 1, point[e].sem + 1, Len(log[e].read) + 1)
      BY <3>3, <3>4, Fitting, Zenon
    <3>6. Fits(Len(log[M!Other(e)].sent), Puts(e)', Stalled(e)', point'[e].sem, Len(log'[e].read))
      BY <2>1, <2>9, <3>2, <3>5
    <3> QED BY <2>11, <3>1, <3>6 DEF Permitted
  <2> QED BY <2>10, <2>11
<1>3. ASSUME NEW t \in M!Threads, M!WritePermit(t) PROVE Permitted(x)'
  <2> DEFINE e == M!Own(t)
  <2>1. /\ e \in M!Ends /\ point'[e].sem = point[e].sem - 1 /\ \A y \in M!Ends : y # e => point'[y] = point[y]
        /\ log' = log
        /\ thr[t].pc = "respond" /\ thr'[t].pc = IF point[e].sem <= 0 THEN "blocked" ELSE "put"
        /\ \A u \in M!Threads : u # t => thr'[u].pc = thr[u].pc
    BY <1>3, Sides, PermitDoes
  <2>2. \A y : y # e => Standing(y, "put")' = Standing(y, "put") /\ Standing(y, "blocked")' = Standing(y, "blocked")
    BY <2>1, Alone
  <2>3. t \notin Standing(e, "put") /\ t \notin Standing(e, "blocked")  BY <2>1 DEF Standing
  <2>4. CASE x # e
    <3>1. point'[x].sem = point[x].sem /\ Standing(x, "put")' = Standing(x, "put") /\ Standing(x, "blocked")' = Standing(x, "blocked")
      BY <2>1, <2>2, <2>4
    <3> QED BY <1>a, <2>1, <3>1, PermittedKept
  <2>5. CASE x = e /\ point[e].sem <= 0
    <3>1. Standing(e, "put")' = Standing(e, "put") /\ Standing(e, "blocked")' = Standing(e, "blocked") \cup {t}
      BY <2>1, <2>5, Alone
    <3>2. Puts(e)' = Puts(e) /\ Stalled(e)' = Stalled(e) + 1  BY <1>b, <2>1, <2>3, <3>1, Counted, Zenon DEF Puts, Stalled
    <3>3. /\ Puts(e) \in Nat /\ Stalled(e) \in Nat /\ point[e].sem \in Int /\ Len(log[e].read) \in Nat
          /\ Len(log[M!Other(e)].sent) \in Nat /\ Limit \in Nat
      BY <1>b, <2>1, <2>5
    <3> HIDE DEF e
    <3>4. Fits(Len(log[M!Other(e)].sent), Puts(e), Stalled(e), point[e].sem, Len(log[e].read))  BY <1>a, <2>5 DEF Permitted
    <3>5. Fits(Len(log[M!Other(e)].sent), Puts(e), Stalled(e) + 1, point[e].sem - 1, Len(log[e].read))  BY <3>3, <3>4, Fitting, Zenon
    <3>6. Fits(Len(log[M!Other(e)].sent), Puts(e)', Stalled(e)', point'[e].sem, Len(log[e].read))  BY <2>1, <3>2, <3>5
    <3> QED BY <2>1, <2>5, <3>6 DEF Permitted
  <2>6. CASE x = e /\ ~(point[e].sem <= 0)
    <3>1. Standing(e, "put")' = Standing(e, "put") \cup {t} /\ Standing(e, "blocked")' = Standing(e, "blocked")
      BY <2>1, <2>6, Alone
    <3>2. Puts(e)' = Puts(e) + 1 /\ Stalled(e)' = Stalled(e)  BY <1>b, <2>1, <2>3, <3>1, Counted, Zenon DEF Puts, Stalled
    <3>3. /\ Puts(e) \in Nat /\ Stalled(e) \in Nat /\ point[e].sem \in Int /\ Len(log[e].read) \in Nat
          /\ Len(log[M!Other(e)].sent) \in Nat /\ Limit \in Nat
      BY <1>b, <2>1, <2>6
    <3> HIDE DEF e
    <3>4. Fits(Len(log[M!Other(e)].sent), Puts(e), Stalled(e), point[e].sem, Len(log[e].read))  BY <1>a, <2>6 DEF Permitted
    <3>5. Fits(Len(log[M!Other(e)].sent), Puts(e) + 1, Stalled(e), point[e].sem - 1, Len(log[e].read))  BY <2>6, <3>3, <3>4, Fitting, Zenon
    <3>6. Fits(Len(log[M!Other(e)].sent), Puts(e)', Stalled(e)', point'[e].sem, Len(log[e].read))  BY <2>1, <3>2, <3>5
    <3> QED BY <2>1, <2>6, <3>6 DEF Permitted
  <2> QED BY <2>4, <2>5, <2>6
<1>4. ASSUME NEW t \in M!Threads, M!WriteInterrupted(t) \/ M!WriteSignal(t) \/ Watches(t) PROVE Permitted(x)'
  <2>1. point'[x].sem = point[x].sem /\ log' = log
    BY <1>4, Sides, InterruptDoes, SignalDoes, WatchDoes
  <2>2. Standing(x, "put")' \subseteq Standing(x, "put") /\ Standing(x, "blocked")' \subseteq Standing(x, "blocked")
    <3>1. CASE M!WriteInterrupted(t)  BY <3>1, InterruptDoes DEF Standing
    <3>2. CASE M!WriteSignal(t)  BY <3>2, SignalDoes, IdleRow DEF Standing
    <3>3. CASE Watches(t)  BY <3>3, WatchDoes DEF Standing
    <3> QED BY <1>4, <3>1, <3>2, <3>3
  <2> QED BY <1>a, <2>1, <2>2, PermittedKept
<1>5. ASSUME NEW t \in M!Threads, M!WritePut(t) PROVE Permitted(x)'
  <2> DEFINE e == M!Peer(t)
             o == M!Own(t)
  <2>1. /\ e \in M!Ends /\ point'[x].sem = point[x].sem
        /\ \A y \in M!Ends : y # e => log'[y] = log[y]
        /\ log'[e].sent = Append(log[e].sent, thr[t].msg) /\ log'[e].read = log[e].read
        /\ thr[t].pc = "put" /\ thr'[t].pc = "signal" /\ thr[t].msg \in Letters
        /\ \A u \in M!Threads : u # t => thr'[u].pc = thr[u].pc
    BY <1>5, Sides, PutDoes
  <2>2. o \in M!Ends /\ e = M!Other(o) /\ e # o /\ o = M!Other(e) /\ (x = e \/ x = o)  BY Sides
  <2>3. \A y : Standing(y, "blocked")' = Standing(y, "blocked")  BY <2>1, Alone
  <2>4. Standing(o, "put")' = Standing(o, "put") \ {t} /\ t \in Standing(o, "put")  BY <2>1, Alone DEF Standing
  <2>5. Standing(e, "put")' = Standing(e, "put")  BY <2>1, <2>2, Alone
  <2> HIDE DEF e, o
  <2>6. CASE x = e
    <3>1. log'[x].read = log[x].read /\ log'[M!Other(x)].sent = log[M!Other(x)].sent  BY <2>1, <2>2, <2>6
    <3> QED BY <1>a, <2>1, <2>3, <2>5, <2>6, <3>1, PermittedKept
  <2>7. CASE x = o
    <3>1. Len(log'[e].sent) = Len(log[e].sent) + 1 /\ log'[o].read = log[o].read
      BY <1>b, <2>1, <2>2, AppendProperties
    <3>2. Puts(o)' = Puts(o) - 1 /\ Stalled(o)' = Stalled(o)  BY <1>b, <2>2, <2>3, <2>4, Counted, Zenon DEF Puts, Stalled
    <3>3. /\ Puts(o) \in Nat /\ Stalled(o) \in Nat /\ point[o].sem \in Int /\ Len(log[o].read) \in Nat
          /\ Len(log[e].sent) \in Nat /\ Limit \in Nat /\ point'[o].sem = point[o].sem
      BY <1>b, <2>1, <2>2, <2>7
    <3>4. Fits(Len(log[e].sent), Puts(o), Stalled(o), point[o].sem, Len(log[o].read))  BY <1>a, <2>2, <2>7 DEF Permitted
    <3>5. Fits(Len(log[e].sent) + 1, Puts(o) - 1, Stalled(o), point[o].sem, Len(log[o].read))  BY <3>3, <3>4, Fitting, Zenon
    <3>6. Fits(Len(log'[e].sent), Puts(o)', Stalled(o)', point'[o].sem, Len(log'[o].read))
      BY <3>1, <3>2, <3>3, <3>5
    <3> QED BY <2>2, <2>7, <3>6 DEF Permitted
  <2> QED BY <2>2, <2>6, <2>7
<1> QED BY <1>1, <1>2, <1>3, <1>4, <1>5, LoudSteps, QuietSteps
-----------------------------------------------------------------------------
(* An answer is for a call of the other end that awaits its id.            *)
LEMMA RowAnswers ==
  ASSUME M!AnswerMatches,
         \A u \in M!Threads : thr'[u].reply # None => thr'[u].reply = thr[u].reply /\ thr'[u].await = thr[u].await
  PROVE  M!AnswerMatches'
  BY DEF M!AnswerMatches

LEMMA ChannelAnswers ==
  ASSUME ChannelTypeOK, LinedUp, AnswersListed, M!AnswerMatches, [M!Next]_(M!vars)
  PROVE  AnswersListed' /\ M!AnswerMatches'
<1>a. /\ thr \in [M!Threads -> RowType] /\ point \in [M!Ends -> PointType]
      /\ \A t \in M!Threads : M!Own(t) \in M!Ends /\ M!Peer(t) \in M!Ends
  BY Sides DEF ChannelTypeOK
<1> DEFINE Same == \A e \in M!Ends : point'[e].response = point[e].response
           Kept == \A u \in M!Threads :
                     thr'[u].reply # None => thr'[u].reply = thr[u].reply /\ thr'[u].await = thr[u].await
<1>b. ASSUME Same, Kept PROVE AnswersListed' /\ M!AnswerMatches'
  BY <1>b, RowAnswers DEF AnswersListed
<1>m. ASSUME NEW t \in M!Threads, NEW pc \in LetterPlaces, M!Moves(t, pc) PROVE Kept
  <2>1. \A u \in M!Threads : thr'[u].reply = thr[u].reply /\ thr'[u].await = thr[u].await
    BY <1>a, <1>m DEF M!Moves, RowType
  <2> QED BY <2>1
<1>1. CASE UNCHANGED M!vars  BY <1>1, <1>b DEF M!vars
<1>2. ASSUME NEW e \in M!Ends, M!Destroy(e) PROVE Same /\ Kept
  <2>1. point' = [point EXCEPT ![e].alive = FALSE, ![M!Other(e)].peer = FALSE] /\ thr' = thr  BY <1>2 DEF M!Destroy
  <2>2. M!Other(e) \in M!Ends  BY Sides
  <2>3. Same  BY <1>a, <2>1, <2>2 DEF PointType
  <2> QED BY <2>1, <2>3, Zenon
<1>3. ASSUME NEW t \in M!Threads, M!SysEndpointDequeue(t) \/ M!ReadNothing(t) \/ M!FollowNull(t) PROVE Same /\ Kept
  <2>1. point' = point \/ point' = [point EXCEPT ![M!Own(t)].lock = t]
    BY <1>3 DEF M!SysEndpointDequeue, M!ReadNothing, M!FollowNull
  <2>2. Same
    <3>1. CASE point' = point  BY <3>1
    <3>2. CASE point' = [point EXCEPT ![M!Own(t)].lock = t]  BY <1>a, <3>2 DEF PointType
    <3> QED BY <2>1, <3>1, <3>2
  <2>3. PICK pc \in LetterPlaces : M!Moves(t, pc)
    BY <1>3 DEF M!SysEndpointDequeue, M!ReadNothing, M!FollowNull, LetterPlaces
  <2> QED BY <2>2, <2>3, <1>m
<1>4. ASSUME NEW t \in M!Threads, NEW i \in IDs, M!SysEndpointQueue(t, i) PROVE Same /\ Kept
  <2>1. /\ point' = point
        /\ thr' = [thr EXCEPT ![t] = [thr[t] EXCEPT !.pc = "respond", !.msg = M!Message(t, i)]]
    BY <1>4, <1>a, Zenon DEF M!SysEndpointQueue
  <2> QED BY <1>a, <2>1 DEF RowType
<1>5. ASSUME NEW t \in M!Threads, NEW i \in IDs, NEW r \in Awaited, M!SysEndpointCall(t, i, r)
      PROVE  AnswersListed' /\ M!AnswerMatches'
  <2> DEFINE e == M!Own(t)
             new == [id |-> r, to |-> t, call |-> calls[t] + 1]
             q == point[e].response
  <2>1. thr[t].reply = None  BY <1>5, IdleRow DEF M!SysEndpointCall, M!Handled
  <2>2. Kept  BY <1>5, <1>a, <2>1 DEF M!SysEndpointCall, RowType
  <2>3. /\ point'[e].response = Append(q, new)
        /\ \A x \in M!Ends : x # e => point'[x].response = point[x].response
    BY <1>5, <1>a, Zenon DEF M!SysEndpointCall, PointType
  <2>4. q \in Seq(Answers) /\ new \in Answers /\ M!Own(new.to) = e
    <3>1. point[e] \in PointType /\ calls[t] + 1 \in Nat  BY <1>a DEF ChannelTypeOK
    <3> QED BY <3>1 DEF PointType, Answers
  <2>5. \A i1 \in 1..Len(q) : M!Own(q[i1].to) = e  BY <1>a DEF AnswersListed
  <2> HIDE DEF e, new, q
  <2>6. /\ Len(Append(q, new)) = Len(q) + 1 /\ Len(q) \in Nat
        /\ \A j \in 1..Len(q) : Append(q, new)[j] = q[j]
        /\ Append(q, new)[Len(q) + 1] = new
    BY <2>4, AppendProperties, LenProperties
  <2> DEFINE s == Append(q, new)
  <2> HIDE DEF s
  <2>7. \A j \in 1..Len(s) : M!Own(s[j].to) = e
    BY <2>4, <2>5, <2>6 DEF s
  <2>8. AnswersListed'
    <3>1. ASSUME NEW x \in M!Ends, NEW j \in 1..Len(point'[x].response) PROVE M!Own(point'[x].response[j].to) = x
      <4>1. CASE x = e  BY <2>3, <2>7, <3>1, <4>1 DEF s
      <4>2. CASE x # e  BY <2>3, <3>1, <4>2 DEF AnswersListed
      <4> QED BY <4>1, <4>2
    <3> QED BY <3>1 DEF AnswersListed
  <2> QED BY <2>2, <2>8, RowAnswers
<1>6. ASSUME NEW t \in M!Threads, M!WriteTestsPeer(t) \/ M!CallReturns(t) \/ M!CallInterrupted(t) PROVE Same /\ Kept
  <2>1. PICK row \in {M!Written(t), M!Idle} : thr' = [thr EXCEPT ![t] = row]
    BY <1>6 DEF M!WriteTestsPeer, M!CallReturns, M!CallInterrupted
  <2>2. row.reply # None => row.reply = thr[t].reply /\ row.await = thr[t].await  BY IdleRow, WrittenRow
  <2>3. point' = point  BY <1>6 DEF M!WriteTestsPeer, M!CallReturns, M!CallInterrupted
  <2> QED BY <1>a, <2>1, <2>2, <2>3
<1>7. ASSUME NEW t \in M!Threads, M!WriteRespond(t) PROVE AnswersListed' /\ M!AnswerMatches'
  <2> DEFINE e == M!Peer(t)
             m == thr[t].msg
             q == point[e].response
  <2>1. PICK k \in 1..Len(q) :
          /\ q[k] \in Answers /\ q[k].id = m.id /\ m \in Letters /\ m.from = t
          /\ point' = [point EXCEPT ![e].response = Leaving(@, k)]
          /\ thr' = [u \in M!Threads |->
                        IF u = t THEN M!Written(t)
                        ELSE IF u = q[k].to /\ M!InFrame(q[k]) THEN [thr[u] EXCEPT !.reply = m] ELSE thr[u]]
    BY <1>7, Responds
  <2>2. /\ q \in Seq(Answers) /\ Len(q) \in Nat /\ M!Own(q[k].to) = e
        /\ \A i \in 1..Len(q) : M!Own(q[i].to) = e
    BY <1>a, <2>1, LenProperties, Zenon DEF PointType, AnswersListed
  <2>3. M!AnswerMatches'
    <3>1. ASSUME NEW u \in M!Threads, thr'[u].reply # None
          PROVE  thr'[u].reply.id = thr'[u].await /\ M!Own(thr'[u].reply.from) # M!Own(u)
      <4>1. CASE u = t
        <5>1. thr'[u].reply = thr[t].reply /\ thr'[u].await = thr[t].await /\ thr[t].reply # None
          BY <2>1, <3>1, <4>1, WrittenRow
        <5> QED BY <4>1, <5>1 DEF M!AnswerMatches
      <4>2. CASE u # t /\ u = q[k].to /\ M!InFrame(q[k])
        <5>1. thr'[u].reply = m /\ thr'[u].await = thr[u].await  BY <1>a, <2>1, <4>2 DEF RowType
        <5>2. thr[u].await = q[k].id  BY <4>2 DEF M!InFrame
        <5>3. M!Own(t) # e  BY Sides
        <5> QED BY <2>1, <2>2, <4>2, <5>1, <5>2, <5>3, Zenon
      <4>3. CASE u # t /\ ~(u = q[k].to /\ M!InFrame(q[k]))
        <5>1. thr'[u] = thr[u]  BY <2>1, <4>3
        <5> QED BY <3>1, <5>1 DEF M!AnswerMatches
      <4> QED BY <4>1, <4>2, <4>3
    <3> QED BY <3>1 DEF M!AnswerMatches
  <2>4. /\ point'[e].response = Leaving(q, k)
        /\ \A x \in M!Ends : x # e => point'[x].response = point[x].response
    BY <1>a, <2>1 DEF PointType
  <2> DEFINE s == Leaving(q, k)
  <2>5. Len(s) = Len(q) - 1 /\ \A i \in 1..Len(q) - 1 : s[i] = IF i < k THEN q[i] ELSE q[i + 1]
    BY <2>2, LeavesOut, Zenon
  <2> HIDE DEF s, q, e
  <2>6. ASSUME NEW j \in 1..Len(s) PROVE M!Own(s[j].to) = e
    <3>1. j \in 1..Len(q) /\ j + 1 \in 1..Len(q) /\ s[j] \in {q[j], q[j + 1]}  BY <2>2, <2>5
    <3> QED BY <2>2, <3>1
  <2>7. AnswersListed'
    <3>1. ASSUME NEW x \in M!Ends, NEW j \in 1..Len(point'[x].response) PROVE M!Own(point'[x].response[j].to) = x
      <4>1. CASE x = e  BY <2>4, <2>6, <3>1, <4>1 DEF s
      <4>2. CASE x # e  BY <2>4, <3>1, <4>2 DEF AnswersListed
      <4> QED BY <4>1, <4>2
    <3> QED BY <3>1 DEF AnswersListed
  <2> QED BY <2>3, <2>7
<1>8. ASSUME NEW t \in M!Threads, M!ReadTake(t) PROVE Same /\ Kept
  <2>1. Same
    <3>1. point' = M!Raised([point EXCEPT ![M!Own(t)].queue = Tail(@)], M!Own(t))  BY <1>8 DEF M!ReadTake
    <3> QED BY <1>a, <3>1, Zenon DEF M!Raised, PointType
  <2>2. Kept
    <3>1. thr' = [u \in M!Threads |-> IF u = t THEN M!Idle
                                      ELSE IF u \in M!Freed(M!Own(t)) THEN [thr[u] EXCEPT !.pc = "put"] ELSE thr[u]]
      BY <1>8 DEF M!ReadTake
    <3> QED BY <1>a, <3>1, IdleRow DEF RowType
  <2> QED BY <2>1, <2>2
<1>9. ASSUME NEW t \in M!Threads, M!WritePermit(t) \/ M!WritePut(t) PROVE Same /\ Kept
  <2>1. Same
    <3>1. CASE M!WritePermit(t)  BY <1>a, <3>1, Zenon DEF M!WritePermit, M!Lowered, PointType
    <3>2. CASE M!WritePut(t)  BY <1>a, <3>2, Zenon DEF M!WritePut, PointType
    <3> QED BY <1>9, <3>1, <3>2
  <2>2. PICK pc \in LetterPlaces : M!Moves(t, pc)  BY <1>9 DEF M!WritePermit, M!WritePut, LetterPlaces, Sending
  <2> QED BY <2>1, <2>2, <1>m
<1>10. ASSUME NEW t \in M!Threads, M!WriteInterrupted(t) \/ M!WriteSignal(t) PROVE Same /\ Kept
  <2>1. CASE M!WriteInterrupted(t)
    <3>1. /\ point' = [point EXCEPT ![M!Own(t)].blocked = M!Without(@, t)]
          /\ thr' = [thr EXCEPT ![t] = M!Written(t)]
      BY <2>1 DEF M!WriteInterrupted
    <3>2. Same  BY <1>a, <3>1 DEF PointType
    <3> QED BY <1>a, <3>1, <3>2, WrittenRow
  <2>2. CASE M!WriteSignal(t)
    <3>3. point' = [point EXCEPT ![M!Peer(t)].lock = None, ![M!Peer(t)].waiting = @ \ M!Told(M!Peer(t))]
      BY <2>2 DEF M!WriteSignal
    <3>1. Same  BY <1>a, <3>3 DEF PointType
    <3>2. thr' = [u \in M!Threads |-> IF u = t THEN M!Written(t) ELSE IF u \in M!Told(M!Peer(t)) THEN M!Idle ELSE thr[u]]
      BY <2>2 DEF M!WriteSignal
    <3> QED BY <3>1, <3>2, IdleRow, WrittenRow
  <2> QED BY <1>10, <2>1, <2>2
<1>11. ASSUME NEW t \in M!Threads, Watches(t) PROVE Same /\ Kept
  <2>1. Same
    <3>1. CASE M!SysKernelObjectWait(t)  BY <1>a, <3>1 DEF M!SysKernelObjectWait, PointType
    <3>2. CASE M!WaitInterrupted(t)  BY <1>a, <3>2 DEF M!WaitInterrupted, PointType
    <3> QED BY <1>11, <3>1, <3>2 DEF Watches
  <2>2. PICK pc \in LetterPlaces : M!Moves(t, pc)
    BY <1>11 DEF Watches, M!SysKernelObjectWait, M!WaitInterrupted, LetterPlaces, Sending
  <2> QED BY <2>1, <2>2, <1>m
<1> HIDE DEF Same, Kept
<1> QED BY <1>1, <1>2, <1>3, <1>4, <1>5, <1>6, <1>7, <1>8, <1>9, <1>10, <1>11, <1>b, ThreadSteps DEF Asks

LEMMA ChannelStep == FewThreads /\ ChannelInv /\ [M!Next]_(M!vars) => ChannelInv'
  BY ChannelTypes, ChannelLines, ChannelPermits, ChannelAnswers, ChannelOrder, ChannelWatchers DEF ChannelInv

(* MessageEndpoint::Write and Read: what was read from a queue, and then   *)
(* what is on it, is what was put there, each message once and in order.   *)
THEOREM MessagesInOrder == M!Spec => []M!InOrder
<1>1. ChannelInv => M!InOrder  BY DEF ChannelInv
<1> QED BY <1>1, ChannelInit, ChannelStep, FewHeld, PTL DEF M!Spec

(* MessageEndpoint::Write and Call: a call is given a message of the id    *)
(* that it awaits, from a thread of the other end.                         *)
THEOREM AnswersFindCalls == M!Spec => []M!AnswerMatches
<1>1. ChannelInv => M!AnswerMatches  BY DEF ChannelInv
<1> QED BY <1>1, ChannelInit, ChannelStep, FewHeld, PTL DEF M!Spec

LEMMA RoomMade == FewThreads /\ ChannelInv => M!RoomByReading
<1> SUFFICES ASSUME FewThreads, ChannelInv, NEW e \in M!Ends
             PROVE  /\ Len(log[M!Other(e)].sent) <= Limit + Len(log[e].read)
                    /\ point[e].sem <= Limit + Len(log[e].read) - Len(log[M!Other(e)].sent)
  BY Zenon DEF M!RoomByReading
<1>1. Standing(e, "put") \subseteq M!Threads /\ Standing(e, "blocked") \subseteq M!Threads  BY DEF Standing
<1>2. Cardinality(Standing(e, "put")) \in Nat /\ Cardinality(Standing(e, "blocked")) \in Nat
  BY <1>1, Counted DEF FewThreads
<1>3. /\ point[e].sem \in Int /\ Len(log[e].read) \in Nat /\ Len(log[M!Other(e)].sent) \in Nat /\ Limit \in Nat
  BY Sides DEF ChannelInv, ChannelTypeOK, PointType, FewThreads
<1>4. Fits(Len(log[M!Other(e)].sent), Cardinality(Standing(e, "put")), Cardinality(Standing(e, "blocked")),
           point[e].sem, Len(log[e].read))
  BY Zenon DEF ChannelInv, Permits, Fits
<1>5. \A s, p, w, r \in Nat, n \in Int : Fits(s, p, w, n, r) => s <= Limit + r /\ n <= Limit + r - s
  BY DEF Fits, FewThreads
<1> QED BY <1>2, <1>3, <1>4, <1>5, Zenon

(* MessageEndpoint::Read and Write: an end has put on the queue of the     *)
(* other no more than the limit and what it has read itself, and the       *)
(* semaphore admits no more than what is left of that.                     *)
THEOREM ReadingMakesRoom == M!Spec => []M!RoomByReading
<1> QED BY RoomMade, ChannelInit, ChannelStep, FewHeld, PTL DEF M!Spec

(* MessageEndpoint::Watch and Write: a thread sleeps on an end only while  *)
(* its queue is empty or a writer of the other end is about to tell it.    *)
THEOREM WatchersTold == M!Spec => []M!WatcherTold
<1>1. ChannelInv => M!WatcherTold  BY DEF ChannelInv
<1> QED BY <1>1, ChannelInit, ChannelStep, FewHeld, PTL DEF M!Spec
-----------------------------------------------------------------------------
(* Cardinality is one operator in all modules.                             *)
LEMMA SameCount ==
  ASSUME NEW Z
  PROVE  T!Cardinality(Z) = Cardinality(Z) /\ K!Cardinality(Z) = Cardinality(Z) /\ V!Cardinality(Z) = Cardinality(Z)
<1>1. T!Cardinality(Z) = Cardinality(Z)  BY Zenon DEF T!Cardinality, Cardinality
<1>2. K!Cardinality(Z) = Cardinality(Z)  BY Zenon DEF K!Cardinality, Cardinality
<1>3. V!Cardinality(Z) = Cardinality(Z)  BY Zenon DEF V!Cardinality, Cardinality
<1> QED BY <1>1, <1>2, <1>3

(* Terminators, and what a buffer has of them.                             *)
Chars == {"c", "newline", "null", "backspace"}
Buffers == [data : Seq(Chars), lines : Int, ignore : BOOLEAN, erased : Nat]
FullyCounted(b) == b.lines = T!Terminators(b.data) + b.erased
Marks(q, m, n) == {i \in m..n : T!Terminator(q[i])}

LEMMA MarksCounted ==
  ASSUME NEW q, NEW m \in Nat, NEW n \in Nat
  PROVE  IsFiniteSet(Marks(q, m, n)) /\ Cardinality(Marks(q, m, n)) \in Nat
<1>1. IsFiniteSet(m..n)  BY FS_Interval
<1>2. Marks(q, m, n) \subseteq m..n  BY DEF Marks
<1> QED BY <1>1, <1>2, FS_Subset, FS_CardinalityType

LEMMA TerminatorsMarked ==
  ASSUME NEW q \in Seq(Chars)
  PROVE  T!Terminators(q) = Cardinality(Marks(q, 1, Len(q))) /\ T!Terminators(q) \in Nat
<1>1. DOMAIN q = 1..Len(q) /\ Len(q) \in Nat  BY LenProperties
<1>2. {i \in DOMAIN q : T!Terminator(q[i])} = Marks(q, 1, Len(q))  BY <1>1 DEF Marks
<1>3. T!Terminators(q) = Cardinality(Marks(q, 1, Len(q)))  BY <1>2, SameCount, Zenon DEF T!Terminators
<1>4. 1 \in Nat  OBVIOUS
<1> QED BY <1>1, <1>3, <1>4, MarksCounted

LEMMA TerminatorsAppend ==
  ASSUME NEW q \in Seq(Chars), NEW c \in Chars
  PROVE  T!Terminators(Append(q, c)) = T!Terminators(q) + (IF T!Terminator(c) THEN 1 ELSE 0)
<1> DEFINE n == Len(q)
           r == Append(q, c)
<1>1. n \in Nat /\ r \in Seq(Chars) /\ Len(r) = n + 1 /\ r[n + 1] = c /\ \A i \in 1..n : r[i] = q[i]
  BY LenProperties, AppendProperties
<1> HIDE DEF n, r
<1>2. Marks(r, 1, n + 1) = IF T!Terminator(c) THEN Marks(q, 1, n) \cup {n + 1} ELSE Marks(q, 1, n)
  <2>1. \A i : i \in 1..n + 1 <=> i \in 1..n \/ i = n + 1  BY <1>1
  <2> QED BY <1>1, <2>1 DEF Marks
<1>3. n + 1 \notin Marks(q, 1, n)  BY <1>1 DEF Marks
<1>4. Cardinality(Marks(q, 1, n) \cup {n + 1}) = Cardinality(Marks(q, 1, n)) + 1
  BY <1>1, <1>3, MarksCounted, FS_AddElement, Zenon
<1>5. T!Terminators(r) = Cardinality(Marks(r, 1, n + 1)) /\ T!Terminators(q) = Cardinality(Marks(q, 1, n))
      /\ T!Terminators(q) \in Nat
  BY <1>1, TerminatorsMarked DEF n
<1> QED BY <1>2, <1>4, <1>5 DEF r

LEMMA TerminatorsSplit ==
  ASSUME NEW q \in Seq(Chars), NEW k \in 0..Len(q)
  PROVE  /\ SubSeq(q, 1, k) \in Seq(Chars) /\ SubSeq(q, k + 1, Len(q)) \in Seq(Chars)
         /\ Len(SubSeq(q, k + 1, Len(q))) = Len(q) - k
         /\ T!Terminators(SubSeq(q, k + 1, Len(q))) = T!Terminators(q) - T!Terminators(SubSeq(q, 1, k))
<1> DEFINE n == Len(q)
           l == SubSeq(q, 1, k)
           r == SubSeq(q, k + 1, n)
<1>1. n \in Nat /\ k \in 0..n /\ k \in Nat  BY LenProperties
<1>2. l \in Seq(Chars) /\ Len(l) = k /\ \A i \in 1..k : l[i] = q[i]  BY <1>1
<1>3. r \in Seq(Chars) /\ Len(r) = n - k /\ \A i \in 1..n - k : r[i] = q[k + i]  BY <1>1
<1>4. T!Terminators(q) = Cardinality(Marks(q, 1, n))  BY TerminatorsMarked
<1> HIDE DEF n, l, r
<1>5. T!Terminators(l) = Cardinality(Marks(l, 1, k)) /\ T!Terminators(r) = Cardinality(Marks(r, 1, n - k))
  BY <1>2, <1>3, TerminatorsMarked
<1>6. Marks(l, 1, k) = Marks(q, 1, k)  BY <1>2 DEF Marks
<1>7. Cardinality(Marks(r, 1, n - k)) = Cardinality(Marks(q, k + 1, n))
  <2> DEFINE A == Marks(r, 1, n - k)
             B == Marks(q, k + 1, n)
             f == [i \in A |-> k + i]
  <2>1. \A i \in 1..n - k : k + i \in k + 1..n /\ i \in Nat  BY <1>1
  <2>2. \A j \in k + 1..n : j - k \in 1..n - k /\ k + (j - k) = j  BY <1>1
  <2>3. f \in [A -> B]  BY <1>3, <2>1 DEF Marks
  <2>4. \A i, j \in A : f[i] = f[j] => i = j  BY <1>1, <2>1 DEF Marks
  <2>5. \A j \in B : \E i \in A : f[i] = j
    <3> SUFFICES ASSUME NEW j \in B PROVE \E i \in A : f[i] = j  OBVIOUS
    <3>1. j \in k + 1..n /\ T!Terminator(q[j])  BY DEF Marks
    <3>2. j - k \in 1..n - k /\ k + (j - k) = j  BY <2>2, <3>1
    <3>3. r[j - k] = q[j]  BY <1>3, <3>2
    <3>4. j - k \in A  BY <3>1, <3>2, <3>3 DEF Marks
    <3> QED BY <3>2, <3>4
  <2> HIDE DEF A, B, f
  <2>6. f \in Bijection(A, B)  BY <2>3, <2>4, <2>5 DEF Bijection, Injection, Surjection, IsInjective
  <2>8. ExistsBijection(A, B)  BY <2>6 DEF ExistsBijection
  <2>7. IsFiniteSet(A)
    <3>1. 1 \in Nat /\ n - k \in Nat  BY <1>1
    <3> QED BY <3>1, MarksCounted DEF A
  <2> QED BY <2>7, <2>8, FS_Bijection DEF A, B
<1>8. Marks(q, 1, n) = Marks(q, 1, k) \cup Marks(q, k + 1, n) /\ Marks(q, 1, k) \cap Marks(q, k + 1, n) = {}
  <2>1. \A i : i \in 1..n <=> i \in 1..k \/ i \in k + 1..n  BY <1>1
  <2>2. \A i : ~(i \in 1..k /\ i \in k + 1..n)  BY <1>1
  <2> QED BY <2>1, <2>2 DEF Marks
<1>9. /\ IsFiniteSet(Marks(q, 1, k)) /\ Cardinality(Marks(q, 1, k)) \in Nat
      /\ IsFiniteSet(Marks(q, k + 1, n)) /\ Cardinality(Marks(q, k + 1, n)) \in Nat
  <2>1. 1 \in Nat /\ k + 1 \in Nat  BY <1>1
  <2> QED BY <1>1, <2>1, MarksCounted
<1>10. Cardinality(Marks(q, 1, n)) = Cardinality(Marks(q, 1, k)) + Cardinality(Marks(q, k + 1, n))
  <2> DEFINE A == Marks(q, 1, k)
             B == Marks(q, k + 1, n)
  <2>1. IsFiniteSet(A) /\ IsFiniteSet(B) /\ Cardinality(A) \in Nat /\ Cardinality(B) \in Nat /\ A \cap B = {}  BY <1>8, <1>9
  <2> HIDE DEF A, B
  <2>2. Cardinality(A \cup B) = Cardinality(A) + Cardinality(B) - Cardinality(A \cap B)  BY <2>1, FS_Union
  <2>e. Cardinality(A \cap B) = 0  BY <2>1, FS_EmptySet, Zenon
  <2>3. Cardinality(A \cup B) = Cardinality(A) + Cardinality(B)  BY <2>1, <2>2, <2>e
  <2> QED BY <1>8, <2>3, Zenon DEF A, B
<1>11. T!Terminators(r) = T!Terminators(q) - T!Terminators(l)
  BY <1>4, <1>5, <1>6, <1>7, <1>9, <1>10
<1> QED BY <1>2, <1>3, <1>11 DEF n, l, r

(* A character more: the count goes with it, and the length grows by one   *)
(* at most.                                                                *)
LEMMA PutKeeps ==
  ASSUME NEW b \in Buffers, FullyCounted(b), NEW c \in Chars
  PROVE  /\ T!Put(b, c) \in Buffers /\ FullyCounted(T!Put(b, c))
         /\ Len(T!Put(b, c).data) \in Nat /\ Len(T!Put(b, c).data) <= Len(b.data) + 1
<1> DEFINE q == b.data
           n == Len(q)
<1>1. q \in Seq(Chars) /\ n \in Nat /\ b.lines \in Int /\ b.erased \in Nat /\ b.ignore \in BOOLEAN
  BY LenProperties DEF Buffers
<1>2. b.lines = T!Terminators(q) + b.erased /\ T!Terminators(q) \in Nat  BY <1>1, TerminatorsMarked DEF FullyCounted
<1>3. CASE c = "backspace" /\ ~b.ignore /\ q = <<>>
  <2>1. T!Put(b, c) = b  BY <1>3 DEF T!Put
  <2> QED BY <1>1, <2>1
<1>4. CASE c = "backspace" /\ ~b.ignore /\ q # <<>>
  <2> DEFINE f == SubSeq(q, 1, n - 1)
             e == q[n]
             x == IF T!Terminator(e) THEN b.erased + 1 ELSE b.erased
  <2>1. n \in Nat \ {0}  BY <1>1, <1>4, EmptySeq
  <2>2. e \in Chars /\ f \in Seq(Chars) /\ Len(f) = n - 1 /\ \A i \in 1..n - 1 : f[i] = q[i]
    BY <1>1, <2>1
  <2>3. T!Put(b, c) = [b EXCEPT !.data = f, !.erased = x]  BY <1>4 DEF T!Put
  <2> HIDE DEF f, e, x
  <2>4. Append(f, e) \in Seq(Chars) /\ Len(Append(f, e)) = n /\ \A i \in 1..n : Append(f, e)[i] = q[i]
    <3>1. Append(f, e) \in Seq(Chars) /\ Len(Append(f, e)) = n /\ Append(f, e)[n] = e
          /\ \A i \in 1..n - 1 : Append(f, e)[i] = f[i]
      BY <2>1, <2>2, AppendProperties
    <3>2. \A i \in 1..n : i \in 1..n - 1 \/ i = n  BY <2>1
    <3> QED BY <2>2, <3>1, <3>2 DEF e
  <2>5. Append(f, e) = q  BY <1>1, <2>4, SeqEqual, Zenon
  <2>6. T!Terminators(q) = T!Terminators(f) + (IF T!Terminator(e) THEN 1 ELSE 0) /\ T!Terminators(f) \in Nat
    BY <2>2, <2>5, TerminatorsAppend, TerminatorsMarked, Zenon
  <2>7. x \in Nat /\ x = b.erased + (IF T!Terminator(e) THEN 1 ELSE 0)  BY <1>1 DEF x
  <2>8. /\ T!Put(b, c) \in Buffers /\ T!Put(b, c).data = f
        /\ T!Put(b, c).lines = b.lines /\ T!Put(b, c).erased = x
    BY <2>2, <2>3, <2>7, Zenon DEF Buffers
  <2>9. b.lines = T!Terminators(f) + x
    <3> DEFINE one == IF T!Terminator(e) THEN 1 ELSE 0
    <3>1. one \in Nat  OBVIOUS
    <3>2. T!Terminators(q) = T!Terminators(f) + one /\ x = b.erased + one  BY <2>6, <2>7
    <3> HIDE DEF one
    <3> QED BY <1>1, <1>2, <2>6, <3>1, <3>2
  <2> QED BY <1>1, <2>1, <2>2, <2>8, <2>9 DEF FullyCounted
<1>5. CASE ~(c = "backspace" /\ ~b.ignore)
  <2> DEFINE r == Append(q, c)
             l == IF T!Terminator(c) THEN b.lines + 1 ELSE b.lines
  <2>1. T!Put(b, c) = [b EXCEPT !.data = r, !.lines = l]  BY <1>5 DEF T!Put
  <2>2. r \in Seq(Chars) /\ Len(r) = n + 1  BY <1>1, AppendProperties
  <2>3. T!Terminators(r) = T!Terminators(q) + (IF T!Terminator(c) THEN 1 ELSE 0)  BY <1>1, TerminatorsAppend
  <2>4. l \in Int /\ l = b.lines + (IF T!Terminator(c) THEN 1 ELSE 0)  BY <1>1
  <2> HIDE DEF r, l
  <2>5. /\ T!Put(b, c) \in Buffers /\ T!Put(b, c).data = r
        /\ T!Put(b, c).lines = l /\ T!Put(b, c).erased = b.erased
    BY <2>1, <2>2, <2>4, Zenon DEF Buffers
  <2>6. l = T!Terminators(r) + b.erased
    <3> DEFINE one == IF T!Terminator(c) THEN 1 ELSE 0
    <3>1. one \in Nat  OBVIOUS
    <3>2. T!Terminators(r) = T!Terminators(q) + one /\ l = b.lines + one  BY <2>3, <2>4
    <3> HIDE DEF one
    <3> QED BY <1>1, <1>2, <3>1, <3>2
  <2> QED BY <1>1, <2>2, <2>5, <2>6 DEF FullyCounted
<1> QED BY <1>3, <1>4, <1>5

(* The recursion of Puts has a solution: the buffer after each character.  *)
After(s, echo, x, i) == IF echo /\ T!Fits(x, <<s[i]>>) = 0 THEN x ELSE T!Put(x, s[i])
Solves(f, b, s, echo, n) == f = [i \in 0..n |-> IF i = 0 THEN b ELSE After(s, echo, f[i - 1], i)]

LEMMA PutsSolved ==
  ASSUME NEW b, NEW s, NEW echo, NEW m \in Nat
  PROVE  \E f : Solves(f, b, s, echo, m)
<1> DEFINE Bad == {n \in Nat : ~\E f : Solves(f, b, s, echo, n)}
<1> SUFFICES ASSUME Bad # {} PROVE FALSE  OBVIOUS
<1>1. PICK n \in Bad : \A k \in Bad : n <= k  BY Least, Zenon
<1>2. CASE n = 0
  <2> DEFINE f == [i \in 0..0 |-> b]
  <2>1. f = [i \in 0..0 |-> IF i = 0 THEN b ELSE After(s, echo, f[i - 1], i)]
    <3>1. \A i \in 0..0 : i = 0  OBVIOUS
    <3> QED BY <3>1
  <2> QED BY <1>1, <1>2, <2>1, Zenon DEF Solves
<1>3. CASE n # 0
  <2>1. n \in Nat /\ n - 1 \in Nat /\ n - 1 \notin Bad  BY <1>1, <1>3
  <2>2. PICK f : Solves(f, b, s, echo, n - 1)  BY <2>1
  <2> DEFINE g == [i \in 0..n |-> IF i = n THEN After(s, echo, f[n - 1], n) ELSE f[i]]
             h2 == [i \in 0..n |-> IF i = 0 THEN b ELSE After(s, echo, g[i - 1], i)]
  <2>3. \A i \in 0..n - 1 : f[i] = IF i = 0 THEN b ELSE After(s, echo, f[i - 1], i)  BY <2>2 DEF Solves
  <2>4. ASSUME NEW i \in 0..n PROVE g[i] = h2[i]
    <3>1. CASE i = n
      <4>1. n - 1 \in 0..n /\ n - 1 # n  BY <2>1
      <4> QED BY <1>3, <3>1, <4>1
    <3>2. CASE i # n
      <4>1. i \in 0..n - 1 /\ (i # 0 => i - 1 \in 0..n /\ i - 1 # n)  BY <2>1, <3>2
      <4> QED BY <2>3, <3>2, <4>1
    <3> QED BY <3>1, <3>2
  <2>5. g = h2  BY <2>4
  <2>6. Solves(g, b, s, echo, n)  BY <2>5, Zenon DEF Solves
  <2> QED BY <1>1, <2>6
<1> QED BY <1>2, <1>3

LEMMA PutsSolves ==
  ASSUME NEW b, NEW s \in Seq(Chars), NEW echo
  PROVE  \A i \in 0..Len(s) : T!Puts(b, s, echo)[i] = IF i = 0 THEN b ELSE After(s, echo, T!Puts(b, s, echo)[i - 1], i)
<1>1. Len(s) \in Nat  BY LenProperties
<1>2. \E f : Solves(f, b, s, echo, Len(s))  BY <1>1, PutsSolved, Zenon
<1>3. T!Puts(b, s, echo) = CHOOSE f : Solves(f, b, s, echo, Len(s))  BY Zenon DEF T!Puts, Solves, After
<1>4. Solves(T!Puts(b, s, echo), b, s, echo, Len(s))  BY <1>2, <1>3
<1> QED BY <1>4 DEF Solves

(* Every buffer on the way is counted, grows by no more than is written,   *)
(* and an echo does not take it past its capacity.                         *)
Near(b, echo, x, i) ==
  /\ x \in Buffers /\ FullyCounted(x) /\ Len(x.data) <= Len(b.data) + i
  /\ echo /\ Len(b.data) <= Capacity => Len(x.data) <= Capacity

LEMMA AfterNear ==
  ASSUME Capacity \in Nat, NEW b \in Buffers, NEW s \in Seq(Chars), NEW echo \in BOOLEAN,
         NEW k \in Nat, NEW i \in 1..Len(s), i = k + 1, NEW x, Near(b, echo, x, k)
  PROVE  Near(b, echo, After(s, echo, x, i), i)
<1> DEFINE c == s[i]
           y == T!Put(x, c)
<1>1. c \in Chars  BY ElementOfSeq
<1>2. x \in Buffers /\ FullyCounted(x) /\ Len(x.data) \in Nat /\ Len(b.data) \in Nat /\ Len(x.data) <= Len(b.data) + k
  BY LenProperties DEF Near, Buffers
<1>3. y \in Buffers /\ FullyCounted(y) /\ Len(y.data) \in Nat /\ Len(y.data) <= Len(x.data) + 1  BY <1>1, <1>2, PutKeeps
<1>4. After(s, echo, x, i) = IF echo /\ T!Fits(x, <<c>>) = 0 THEN x ELSE y  BY DEF After
<1>5. T!Fits(x, <<c>>) = IF Len(x.data) + 1 <= Capacity \/ Len(x.data) > Capacity THEN 1 ELSE Capacity - Len(x.data)
  <2>1. Len(<<c>>) = 1  OBVIOUS
  <2> QED BY <2>1 DEF T!Fits
<1> HIDE DEF c, y
<1>8. Len(x.data) <= Len(b.data) + i /\ Len(y.data) <= Len(b.data) + i
  <2>1. i = k + 1 /\ k \in Nat  OBVIOUS
  <2>2. \A u, v, w \in Nat : u <= v + k /\ w <= u + 1 => u <= v + (k + 1) /\ w <= v + (k + 1)  OBVIOUS
  <2> QED BY <1>2, <1>3, <2>1, <2>2, Zenon
<1>6. CASE echo /\ T!Fits(x, <<c>>) = 0
  <2>1. After(s, echo, x, i) = x  BY <1>4, <1>6, Zenon
  <2> QED BY <1>2, <1>8, <2>1, Zenon DEF Near
<1>7. CASE ~(echo /\ T!Fits(x, <<c>>) = 0)
  <2>1. After(s, echo, x, i) = y  BY <1>4, <1>7
  <2>3. ASSUME echo, Len(b.data) <= Capacity PROVE Len(y.data) <= Capacity
    <3>1. Len(x.data) <= Capacity  BY <2>3 DEF Near
    <3>2. T!Fits(x, <<c>>) # 0  BY <1>7, <2>3
    <3>3. Len(x.data) # Capacity  BY <1>2, <1>5, <3>2
    <3> QED BY <1>2, <1>3, <3>1, <3>3
  <2> QED BY <1>3, <1>8, <2>1, <2>3, Zenon DEF Near
<1> QED BY <1>6, <1>7

LEMMA PutsNear ==
  ASSUME Capacity \in Nat, NEW b \in Buffers, FullyCounted(b), NEW s \in Seq(Chars), NEW echo \in BOOLEAN
  PROVE  \A i \in 0..Len(s) : Near(b, echo, T!Puts(b, s, echo)[i], i)
<1> DEFINE Bad == {i \in 0..Len(s) : ~Near(b, echo, T!Puts(b, s, echo)[i], i)}
<1>n. Len(s) \in Nat  BY LenProperties
<1> SUFFICES ASSUME Bad # {} PROVE FALSE  OBVIOUS
<1>1. Bad \subseteq Nat  BY <1>n
<1>2. PICK i \in Bad : \A k \in Bad : i <= k  BY <1>1, Least, Zenon
<1>3. i \in 0..Len(s) /\ ~Near(b, echo, T!Puts(b, s, echo)[i], i)  BY <1>2
<1>4. CASE i = 0
  <2>1. T!Puts(b, s, echo)[0] = b  BY <1>3, <1>4, PutsSolves, Zenon
  <2>2. Len(b.data) \in Nat  BY LenProperties DEF Buffers
  <2>3. Near(b, echo, b, 0)  BY <2>2 DEF Near
  <2> QED BY <1>3, <1>4, <2>1, <2>3
<1>5. CASE i # 0
  <2> DEFINE k == i - 1
             x == T!Puts(b, s, echo)[i - 1]
  <2>1. k \in 0..Len(s) /\ k \in Nat /\ i \in 1..Len(s) /\ i = k + 1 /\ ~(i <= k)  BY <1>n, <1>3, <1>5
  <2>2. k \notin Bad  BY <1>2, <2>1
  <2>3. Near(b, echo, x, k)  BY <2>1, <2>2
  <2>4. T!Puts(b, s, echo)[i] = After(s, echo, x, i)  BY <1>3, <1>5, PutsSolves
  <2> HIDE DEF k, x
  <2>5. Near(b, echo, After(s, echo, x, i), i)  BY <2>1, <2>3, AfterNear
  <2> QED BY <1>3, <2>4, <2>5
<1> QED BY <1>4, <1>5

LEMMA WrittenKeeps ==
  ASSUME Capacity \in Nat, NEW b \in Buffers, FullyCounted(b), NEW s \in Seq(Chars)
  PROVE  /\ T!Written(b, s) \in Buffers /\ FullyCounted(T!Written(b, s))
         /\ Len(T!Written(b, s).data) \in Nat /\ Len(T!Written(b, s).data) <= Len(b.data) + Len(s)
         /\ T!Echoed(b, s) \in Buffers /\ FullyCounted(T!Echoed(b, s))
         /\ Len(T!Echoed(b, s).data) \in Nat
         /\ Len(b.data) <= Capacity => Len(T!Echoed(b, s).data) <= Capacity
         /\ T!Count(b, s) \in Nat
<1>1. Len(s) \in 0..Len(s) /\ Len(s) \in Nat  BY LenProperties
<1>2. TRUE \in BOOLEAN /\ FALSE \in BOOLEAN  OBVIOUS
<1>3. Near(b, FALSE, T!Puts(b, s, FALSE)[Len(s)], Len(s))  BY <1>1, <1>2, PutsNear, Zenon
<1>4. Near(b, TRUE, T!Puts(b, s, TRUE)[Len(s)], Len(s))  BY <1>1, <1>2, PutsNear, Zenon
<1>5. Near(b, FALSE, T!Written(b, s), Len(s)) /\ Near(b, TRUE, T!Echoed(b, s), Len(s))
  BY <1>3, <1>4, Zenon DEF T!Written, T!Echoed
<1>6. \A x \in Buffers : Len(x.data) \in Nat  BY LenProperties DEF Buffers
<1>7. T!Count(b, s) \in Nat
  <2> DEFINE A == {i \in 1..Len(s) : ~(s[i] = "backspace" /\ ~b.ignore /\ T!Puts(b, s, FALSE)[i - 1].data = <<>>)}
  <2>1. T!Count(b, s) = Cardinality(A)  BY SameCount, Zenon DEF T!Count
  <2>2. A \subseteq 1..Len(s)  BY Zenon
  <2> HIDE DEF A
  <2>3. IsFiniteSet(1..Len(s))  BY <1>1, FS_Interval
  <2> QED BY <2>1, <2>2, <2>3, FS_Subset, FS_CardinalityType, Zenon
<1> QED BY <1>5, <1>6, <1>7 DEF Near

LEMMA DrainedKeeps ==
  ASSUME NEW b \in Buffers, FullyCounted(b), NEW n
  PROVE  /\ T!Drained(b, n) \in Buffers /\ FullyCounted(T!Drained(b, n))
         /\ Len(T!Drained(b, n).data) \in Nat /\ Len(T!Drained(b, n).data) <= Len(b.data)
         /\ b.data = <<>> => T!Drained(b, n).data = <<>>
         /\ b.lines = 0 => T!Drained(b, n).lines = 0
         /\ T!Drained(b, n).ignore = b.ignore
<1> DEFINE q == b.data
           k == T!Taken(b, n)
           l == SubSeq(q, 1, k)
           r == SubSeq(q, k + 1, Len(q))
           d == T!Drained(b, n)
<1>1. q \in Seq(Chars) /\ Len(q) \in Nat /\ b.lines \in Int /\ b.erased \in Nat  BY LenProperties DEF Buffers
<1>2. k \in 0..Len(q)
  <2> DEFINE A == {j \in 1..Len(q) : T!Cardinality({i \in 1..j - 1 : q[i] # "null"}) < n}
  <2>1. T!Cardinality(A) = Cardinality(A)  BY SameCount
  <2>2. k = Cardinality(A)  BY <2>1, Zenon DEF T!Taken
  <2>3. A \subseteq 1..Len(q)  OBVIOUS
  <2> HIDE DEF A
  <2>4. IsFiniteSet(1..Len(q)) /\ Cardinality(1..Len(q)) = Len(q)
    <3>1. /\ IsFiniteSet(1..Len(q))
          /\ Cardinality(1..Len(q)) = IF 1 > Len(q) THEN 0 ELSE Len(q) - 1 + 1
      <4> DEFINE one == 1
      <4>1. one \in Int /\ Len(q) \in Int  BY <1>1
      <4> HIDE DEF one
      <4>2. IsFiniteSet(one..Len(q)) /\ Cardinality(one..Len(q)) = IF one > Len(q) THEN 0 ELSE Len(q) - one + 1
        BY <4>1, FS_Interval
      <4> QED BY <4>2 DEF one
    <3> QED BY <1>1, <3>1
  <2>5. Cardinality(A) \in Nat /\ Cardinality(A) <= Len(q)  BY <2>3, <2>4, FS_Subset, FS_CardinalityType, Zenon
  <2> QED BY <1>1, <2>2, <2>5
<1>3. /\ l \in Seq(Chars) /\ r \in Seq(Chars) /\ Len(r) = Len(q) - k
      /\ T!Terminators(r) = T!Terminators(q) - T!Terminators(l)
  BY <1>1, <1>2, TerminatorsSplit
<1>4. T!Terminators(q) \in Nat /\ T!Terminators(l) \in Nat /\ T!Terminators(r) \in Nat  BY <1>1, <1>3, TerminatorsMarked, Zenon
<1> DEFINE m == b.lines - T!Terminators(l)
<1>5. d = [b EXCEPT !.data = r, !.lines = m]  BY DEF T!Drained, T!LinesAfter
<1>12. m \in Int  BY <1>1, <1>4
<1> HIDE DEF k, l, r, d, m
<1>6. /\ d \in Buffers /\ d.data = r /\ d.lines = m /\ d.erased = b.erased /\ d.ignore = b.ignore
  BY <1>1, <1>3, <1>5, <1>12, Zenon DEF Buffers
<1>7. b.lines = T!Terminators(q) + b.erased  BY DEF FullyCounted
<1>8. FullyCounted(d)  BY <1>1, <1>3, <1>4, <1>6, <1>7 DEF FullyCounted, m
<1>9. Len(r) \in Nat /\ Len(r) <= Len(q)  BY <1>1, <1>2, <1>3
<1>10. q = <<>> => r = <<>>
  <2>1. q = <<>> => Len(q) = 0  OBVIOUS
  <2>2. Len(r) = 0 => r = <<>>  BY <1>3, EmptySeq
  <2> QED BY <1>1, <1>9, <2>1, <2>2
<1>11. b.lines = 0 => d.lines = 0  BY <1>1, <1>3, <1>4, <1>6, <1>7 DEF m, FullyCounted
<1> QED BY <1>6, <1>8, <1>9, <1>10, <1>11 DEF d
-----------------------------------------------------------------------------
(* A terminal: what its buffers hold, the places of its threads, who       *)
(* sleeps on it, and who keeps it.                                         *)
Sized == Capacity \in Nat /\ Inputs \subseteq Seq(Chars) /\ IsFiniteSet(T!Threads)

Calm == [pc : {"idle", "watch"}]
Attending == [pc : {"watching"}, missed : BOOLEAN]
Reads == [pc : {"take", "block", "blocked", "woken"}, n : {1, 2}, loop : BOOLEAN, missed : BOOLEAN]
Tells == {"wake", "echo", "signal"}
Writes == {r \in [pc : {"put", "rest"} \cup Tells, s : Seq(Chars), k : Nat, n : Nat] : r.k <= Len(r.s)}
Rows == Calm \cup Attending \cup Reads \cup Writes

TermRows == thr \in [T!Threads -> Rows] /\ mode \in [canonical : BOOLEAN, changed : BOOLEAN]
TermData ==
  /\ master \in Buffers /\ FullyCounted(master) /\ (Len(master.data) <= Capacity \/ raced)
  /\ slave \in Buffers /\ FullyCounted(slave) /\ (Len(slave.data) <= Capacity \/ raced)
TermListed ==
  /\ sleeping = {t \in T!Threads : thr[t].pc = "blocked"}
  /\ watching = {t \in T!Threads : thr[t].pc = "watching"}
  /\ \A t \in T!Threads : thr[t].pc \in Tells => t \in Masters
TermLife == open \in [has : SUBSET T!Threads, found : SUBSET T!Threads] /\ T!KeptOpen

TermInv == TermRows /\ TermData /\ TermListed /\ T!SlaveServed /\ TermLife

LEMMA RowKinds ==
  ASSUME NEW r \in Rows
  PROVE  /\ r.pc \in {"take", "block", "blocked", "woken"} => r \in Reads
         /\ r.pc \in {"put", "rest"} \cup Tells => r \in Writes
         /\ r = T!Idle => r.pc = "idle"
  BY DEF Rows, Calm, Attending, Reads, Writes, Tells, T!Idle

LEMMA RowsIn ==
  /\ T!Idle \in Rows /\ T!Idle.pc = "idle"
  /\ [pc |-> "watch"] \in Rows
  /\ \A m \in BOOLEAN : [pc |-> "watching", missed |-> m] \in Rows
  /\ \A r \in Reads \cup Writes : r \in Rows
  BY DEF T!Idle, Rows, Calm, Attending

LEMMA ReadRow ==
  ASSUME NEW r \in Reads, NEW p \in {"take", "block", "blocked", "woken"}, NEW x, x = [r EXCEPT !.pc = p]
  PROVE  x \in Rows /\ x.pc = p
<1>1. x \in Reads /\ x.pc = p  BY DEF Reads
<1> QED BY <1>1, RowsIn

LEMMA WriteRow ==
  ASSUME NEW r \in Writes, NEW p \in {"put", "rest"} \cup Tells, NEW x, x = [r EXCEPT !.pc = p]
  PROVE  x \in Rows /\ x.pc = p
<1>1. x \in Writes /\ x.pc = p  BY DEF Writes
<1> QED BY <1>1, RowsIn

LEMMA TermInit == Sized /\ T!Init => TermInv
<1> SUFFICES ASSUME Sized, T!Init PROVE TermInv  OBVIOUS
<1>1. /\ master = [data |-> <<>>, lines |-> 0, ignore |-> TRUE, erased |-> 0]
      /\ slave = [data |-> <<>>, lines |-> 0, ignore |-> FALSE, erased |-> 0]
      /\ mode = [canonical |-> TRUE, changed |-> FALSE]
      /\ sleeping = {} /\ watching = {} /\ thr = [t \in T!Threads |-> T!Idle]
      /\ open = [has |-> Masters, found |-> {}] /\ destroyed = FALSE
  BY DEF T!Init
<1>2. TermRows  BY <1>1, RowsIn DEF TermRows
<1>3. TermData
  <2>1. <<>> \in Seq(Chars) /\ Len(<<>>) = 0 /\ DOMAIN <<>> = {}  OBVIOUS
  <2>2. {i \in DOMAIN <<>> : T!Terminator(<<>>[i])} = {}  BY <2>1
  <2>3. T!Terminators(<<>>) = 0  BY <2>2, SameCount, FS_EmptySet DEF T!Terminators
  <2>4. master \in Buffers /\ slave \in Buffers  BY <1>1, <2>1 DEF Buffers
  <2>5. Len(master.data) <= Capacity /\ Len(slave.data) <= Capacity  BY <1>1, <2>1 DEF Sized
  <2> QED BY <1>1, <2>3, <2>4, <2>5 DEF TermData, FullyCounted
<1>4. \A t \in T!Threads : thr[t].pc = "idle"  BY <1>1, RowsIn
<1>5. TermListed /\ T!SlaveServed
  <2>1. \A t \in Viewers : t \in T!Threads  BY DEF T!Threads
  <2> QED BY <1>1, <1>4, <2>1 DEF TermListed, Tells, T!SlaveServed, T!At
<1>6. TermLife
  <2>1. Masters \subseteq T!Threads  BY DEF T!Threads
  <2> QED BY <1>1, <2>1 DEF TermLife, T!KeptOpen
<1> QED BY <1>2, <1>3, <1>5, <1>6 DEF TermInv

(* A step of one thread, which neither comes to wait nor was about to wake *)
(* anyone, and that does not fill the slave.                               *)
LEMMA Calmly ==
  ASSUME TermInv, NEW t \in T!Threads, NEW row \in Rows, thr' = [thr EXCEPT ![t] = row],
         row.pc \notin {"blocked", "watching"} \cup Tells, thr[t].pc \notin Tells,
         mode' = mode, T!CanReadSlave' => T!CanReadSlave,
         sleeping' = sleeping \ {t}, watching' = watching \ {t}
  PROVE  TermRows' /\ TermListed' /\ T!SlaveServed'
<1>1. thr \in [T!Threads -> Rows] /\ thr'[t] = row /\ \A u \in T!Threads : u # t => thr'[u] = thr[u]
  BY DEF TermInv, TermRows
<1>2. TermRows'  BY <1>1 DEF TermInv, TermRows
<1>3. TermListed'  BY <1>1 DEF TermInv, TermListed
<1>4. T!SlaveServed'
  <2> SUFFICES ASSUME NEW u \in Viewers
               PROVE  /\ T!At(u, "blocked")' => \/ ~T!CanReadSlave' \/ thr'[u].missed \/ mode'.changed
                                                \/ \E m \in Masters : T!At(m, "wake")'
                      /\ T!At(u, "watching")' => \/ ~T!CanReadSlave' \/ thr'[u].missed \/ mode'.changed
                                                 \/ \E m \in Masters : thr'[m].pc \in Tells
    BY DEF T!SlaveServed, Tells
  <2>1. u \in T!Threads /\ \A m \in Masters : m \in T!Threads  BY DEF T!Threads
  <2>2. \A m \in Masters : thr[m].pc \in Tells => m # t /\ thr'[m] = thr[m]  BY <1>1, <2>1
  <2>3. CASE u = t  BY <1>1, <2>3 DEF T!At
  <2>4. CASE u # t
    <3>1. thr'[u] = thr[u]  BY <1>1, <2>1, <2>4
    <3> QED BY <2>2, <3>1 DEF TermInv, T!SlaveServed, T!At, Tells
  <2> QED BY <2>3, <2>4
<1> QED BY <1>2, <1>3, <1>4

(* What a step leaves alone, it keeps.                                     *)
LEMMA TermKept ==
  ASSUME TermInv
  PROVE  /\ UNCHANGED <<master, slave, raced>> => TermData'
         /\ UNCHANGED <<open, destroyed, stale>> => TermLife'
         /\ UNCHANGED <<slave, mode>> => T!CanReadSlave' = T!CanReadSlave
         /\ \A t \in T!Threads : thr[t].pc \notin {"blocked", "watching"} => sleeping \ {t} = sleeping /\ watching \ {t} = watching
         /\ \A t \in T!Threads : thr[t].pc # "watching" => watching \ {t} = watching
         /\ \A t \in T!Threads : thr[t].pc # "blocked" => sleeping \ {t} = sleeping
<1>1. UNCHANGED <<master, slave, raced>> => TermData'  BY DEF TermInv, TermData, FullyCounted
<1>2. UNCHANGED <<open, destroyed, stale>> => TermLife'  BY DEF TermInv, TermLife, T!KeptOpen
<1>3. UNCHANGED <<slave, mode>> => T!CanReadSlave' = T!CanReadSlave  BY DEF T!CanReadSlave
<1>4. \A t \in T!Threads : /\ thr[t].pc # "blocked" => t \notin sleeping
                           /\ thr[t].pc # "watching" => t \notin watching
  BY DEF TermInv, TermListed
<1> QED BY <1>1, <1>2, <1>3, <1>4

LEMMA Quietly ==
  ASSUME TermInv, NEW t \in T!Threads, NEW row, row \in Rows, thr' = [thr EXCEPT ![t] = row],
         row.pc \notin {"blocked", "watching"} \cup Tells, thr[t].pc \notin Tells,
         UNCHANGED <<master, slave, raced, open, destroyed, stale, mode>>,
         sleeping' = sleeping \ {t} \/ (sleeping' = sleeping /\ thr[t].pc # "blocked"),
         watching' = watching \ {t} \/ (watching' = watching /\ thr[t].pc # "watching")
  PROVE  TermInv'
<1>1. sleeping' = sleeping \ {t} /\ watching' = watching \ {t}  BY TermKept
<1>2. T!CanReadSlave' => T!CanReadSlave  BY TermKept, Zenon
<1>3. mode' = mode  OBVIOUS
<1>4. TermRows' /\ TermListed' /\ T!SlaveServed'  BY <1>1, <1>2, <1>3, Calmly, Zenon
<1>5. TermData' /\ TermLife'  BY TermKept
<1> QED BY <1>4, <1>5 DEF TermInv

LEMMA TermReads ==
  ASSUME TermInv, Sized, NEW t \in T!Threads,
         (\E n \in 1..2 : T!ReadTest(t, n)) \/ T!ReadInterrupted(t) \/ T!ReadAgain(t) \/ T!ReadTake(t)
  PROVE  TermInv'
<1>a. thr \in [T!Threads -> Rows] /\ thr[t] \in Rows /\ mode.canonical \in BOOLEAN  BY DEF TermInv, TermRows
<1>1. CASE \E n \in 1..2 : T!ReadTest(t, n)
  <2>1. PICK n \in 1..2 : T!ReadTest(t, n)  BY <1>1
  <2> DEFINE row == [pc |-> IF T!CanReadSlave THEN "take" ELSE "block", n |-> n, loop |-> mode.canonical, missed |-> FALSE]
  <2>2. thr' = [thr EXCEPT ![t] = row] /\ thr[t] = T!Idle
        /\ UNCHANGED <<master, slave, raced, open, destroyed, stale, mode, sleeping, watching>>
    BY <2>1 DEF T!ReadTest, T!Goes, T!Starts, T!buffers, T!life
  <2>3. row \in Rows /\ row.pc \in {"take", "block"}
    <3>1. n \in {1, 2}  BY <2>1
    <3>2. row \in Reads  BY <1>a, <3>1 DEF Reads
    <3> QED BY <3>2, RowsIn
  <2>4. thr[t].pc = "idle"  BY <2>2, RowsIn
  <2> HIDE DEF row
  <2>5. row.pc \notin {"blocked", "watching"} \cup Tells /\ thr[t].pc \notin {"blocked", "watching"} \cup Tells
    BY <2>3, <2>4 DEF Tells
  <2> QED BY <2>2, <2>3, <2>5, Quietly, Zenon
<1>2. CASE T!ReadInterrupted(t)
  <2>1. thr' = [thr EXCEPT ![t] = T!Idle] /\ thr[t].pc = "blocked" /\ sleeping' = sleeping \ {t}
        /\ UNCHANGED <<master, slave, raced, open, destroyed, stale, mode, watching>>
    BY <1>2 DEF T!ReadInterrupted, T!Goes, T!At, T!buffers, T!life
  <2>2. T!Idle \in Rows /\ T!Idle.pc \notin {"blocked", "watching"} \cup Tells /\ thr[t].pc \notin {"watching"} \cup Tells
    BY <2>1, RowsIn DEF Tells
  <2> QED BY <2>1, <2>2, Quietly, Zenon
<1>3. CASE T!ReadAgain(t)
  <2> DEFINE p == IF T!CanReadSlave \/ (~thr[t].loop /\ mode.canonical) THEN "take" ELSE "block"
             l == thr[t].loop /\ mode.canonical
             row == [thr[t] EXCEPT !.pc = p, !.loop = l]
  <2>1. thr' = [thr EXCEPT ![t] = row] /\ thr[t].pc = "woken"
        /\ UNCHANGED <<master, slave, raced, open, destroyed, stale, mode, sleeping, watching>>
    <3>1. thr' = [thr EXCEPT ![t].pc = p, ![t].loop = l]  BY <1>3 DEF T!ReadAgain
    <3> QED BY <1>3, <1>a, <3>1, Zenon DEF T!ReadAgain, T!At, T!buffers, T!life
  <2>2. thr[t] \in Reads  BY <1>a, <2>1, RowKinds
  <2>3. l \in BOOLEAN /\ p \in {"take", "block"}  OBVIOUS
  <2> HIDE DEF p, l
  <2>4. row \in Rows /\ row.pc = p
    <3>1. p \in {"take", "block", "blocked", "woken"}  BY <2>3
    <3>2. row \in Reads /\ row.pc = p  BY <2>2, <2>3, <3>1, Zenon DEF Reads
    <3> QED BY <3>2, RowsIn
  <2> HIDE DEF row
  <2>5. row.pc \notin {"blocked", "watching"} \cup Tells /\ thr[t].pc \notin {"blocked", "watching"} \cup Tells
    BY <2>1, <2>3, <2>4 DEF Tells
  <2> QED BY <2>1, <2>4, <2>5, Quietly, Zenon
<1>4. CASE T!ReadTake(t)
  <2>1. /\ thr' = [thr EXCEPT ![t] = T!Idle] /\ thr[t].pc = "take" /\ slave' = T!Drained(slave, thr[t].n)
        /\ UNCHANGED <<master, raced, open, destroyed, stale, mode, sleeping, watching>>
    BY <1>4 DEF T!ReadTake, T!Goes, T!At, T!life
  <2>2. slave \in Buffers /\ FullyCounted(slave) /\ (Len(slave.data) <= Capacity \/ raced)  BY DEF TermInv, TermData
  <2>3. /\ slave' \in Buffers /\ FullyCounted(slave') /\ Len(slave'.data) \in Nat /\ Len(slave'.data) <= Len(slave.data)
        /\ slave.data = <<>> => slave'.data = <<>>
        /\ slave.lines = 0 => slave'.lines = 0
    BY <2>1, <2>2, DrainedKeeps
  <2>4. T!CanReadSlave' => T!CanReadSlave  BY <2>1, <2>3 DEF T!CanReadSlave
  <2>8. /\ T!Idle \in Rows /\ T!Idle.pc \notin {"blocked", "watching"} \cup Tells /\ thr[t].pc \notin Tells
        /\ sleeping' = sleeping \ {t} /\ watching' = watching \ {t} /\ mode' = mode
    BY <2>1, RowsIn, TermKept DEF Tells
  <2>5. TermRows' /\ TermListed' /\ T!SlaveServed'  BY <2>1, <2>4, <2>8, Calmly, Zenon
  <2>6. Len(slave.data) \in Nat /\ (Len(slave'.data) <= Capacity \/ raced')
    <3>1. Len(slave.data) \in Nat  BY <2>2, LenProperties DEF Buffers
    <3> QED BY <2>1, <2>2, <2>3, <3>1 DEF Sized
  <2>7. TermData'  BY <2>1, <2>3, <2>6 DEF TermInv, TermData, FullyCounted
  <2> QED BY <2>1, <2>5, <2>7, TermKept DEF TermInv
<1> QED BY <1>1, <1>2, <1>3, <1>4

(* A step that leaves the buffers to read as they are.                     *)
LEMMA TermSame ==
  ASSUME TermInv
  PROVE  /\ UNCHANGED <<thr, slave, mode, sleeping, watching>> => TermRows' /\ TermListed' /\ T!SlaveServed'
         /\ \A t \in T!Threads : thr[t].pc \in Tells => t \notin sleeping /\ t \notin watching
<1>1. UNCHANGED <<thr, slave, mode, sleeping, watching>> => TermRows' /\ TermListed'
  BY DEF TermInv, TermRows, TermListed
<1>2. ASSUME UNCHANGED <<thr, slave, mode, sleeping, watching>> PROVE T!SlaveServed'
  <2>1. T!CanReadSlave' = T!CanReadSlave  BY <1>2, TermKept
  <2> QED BY <1>2, <2>1 DEF TermInv, T!SlaveServed, T!At
<1>3. \A t \in T!Threads : thr[t].pc \in Tells => t \notin sleeping /\ t \notin watching
  BY DEF TermInv, TermListed, Tells
<1> QED BY <1>1, <1>2, <1>3

LEMMA FitsIn ==
  ASSUME NEW b \in Buffers, NEW s \in Seq(Chars), Capacity \in Nat
  PROVE  T!Fits(b, s) \in Nat /\ T!Fits(b, s) <= Len(s)
<1>1. Len(b.data) \in Nat /\ Len(s) \in Nat  BY LenProperties DEF Buffers
<1> QED BY <1>1 DEF T!Fits

LEMMA TermWaits ==
  ASSUME TermInv, NEW t \in T!Threads, T!ReadBlock(t) \/ T!WatchSlave(t)
  PROVE  TermInv'
<1>a. thr \in [T!Threads -> Rows] /\ thr[t] \in Rows  BY DEF TermInv, TermRows
<1>b. T!CanReadSlave \in BOOLEAN  BY Zenon DEF T!CanReadSlave
<1>c. \A m \in Masters : m \in T!Threads  BY DEF T!Threads
<1>d. \A m \in Viewers : m \in T!Threads  BY DEF T!Threads
<1> DEFINE b == T!CanReadSlave
           row == IF T!ReadBlock(t) THEN [thr[t] EXCEPT !.pc = "blocked", !.missed = b]
                  ELSE [pc |-> "watching", missed |-> b]
<1>1. /\ UNCHANGED <<master, slave, raced, open, destroyed, stale, mode>>
      /\ T!ReadBlock(t) => thr[t].pc = "block" /\ sleeping' = sleeping \cup {t} /\ watching' = watching
      /\ ~T!ReadBlock(t) => thr[t].pc = "watch" /\ watching' = watching \cup {t} /\ sleeping' = sleeping
  BY DEF T!ReadBlock, T!WatchSlave, T!At, T!buffers, T!life
<1>2. thr' = [thr EXCEPT ![t] = row]
  <2>1. CASE T!ReadBlock(t)
    <3>1. thr' = [thr EXCEPT ![t].pc = "blocked", ![t].missed = b]  BY <2>1 DEF T!ReadBlock
    <3> QED BY <1>a, <2>1, <3>1, Zenon
  <2>2. CASE ~T!ReadBlock(t)  BY <2>2 DEF T!WatchSlave, T!Goes
  <2> QED BY <2>1, <2>2
<1>3. row \in Rows /\ row.missed = b /\ row.pc = IF T!ReadBlock(t) THEN "blocked" ELSE "watching"
  <2>1. CASE T!ReadBlock(t)
    <3>1. thr[t] \in Reads  BY <1>1, <1>a, <2>1, RowKinds
    <3>2. b \in BOOLEAN /\ row = [thr[t] EXCEPT !.pc = "blocked", !.missed = b]  BY <1>b, <2>1
    <3> HIDE DEF b, row
    <3>3. row \in Reads /\ row.pc = "blocked" /\ row.missed = b  BY <3>1, <3>2, Zenon DEF Reads
    <3> QED BY <2>1, <3>3, RowsIn
  <2>2. CASE ~T!ReadBlock(t)  BY <1>b, <2>2, RowsIn
  <2> QED BY <2>1, <2>2
<1> HIDE DEF row
<1>4. thr'[t] = row /\ \A u \in T!Threads : u # t => thr'[u] = thr[u]  BY <1>a, <1>2
<1>5. TermRows'  BY <1>1, <1>2, <1>3 DEF TermInv, TermRows
<1>6. TermListed'
  <2>1. thr[t].pc \notin Tells \cup {"blocked", "watching"} /\ row.pc \notin Tells  BY <1>1, <1>3 DEF Tells
  <2> QED BY <1>1, <1>3, <1>4, <2>1 DEF TermInv, TermListed
<1>7. T!CanReadSlave' = b  BY <1>1, TermKept
<1>8. T!SlaveServed'
  <2> HIDE DEF b
  <2> SUFFICES ASSUME NEW u \in Viewers
               PROVE  /\ T!At(u, "blocked")' => \/ ~T!CanReadSlave' \/ thr'[u].missed \/ mode'.changed
                                                \/ \E m \in Masters : T!At(m, "wake")'
                      /\ T!At(u, "watching")' => \/ ~T!CanReadSlave' \/ thr'[u].missed \/ mode'.changed
                                                 \/ \E m \in Masters : thr'[m].pc \in Tells
    BY DEF T!SlaveServed, Tells
  <2>1. CASE u = t  BY <1>3, <1>4, <1>7, <2>1
  <2>2. CASE u # t
    <3>1. thr'[u] = thr[u]  BY <1>4, <1>d, <2>2
    <3>2. \A m \in Masters : thr[m].pc \in Tells => thr'[m] = thr[m]  BY <1>1, <1>4, <1>c DEF Tells
    <3>3. T!CanReadSlave' = T!CanReadSlave /\ mode' = mode  BY <1>1, TermKept
    <3> QED BY <3>1, <3>2, <3>3 DEF TermInv, T!SlaveServed, T!At, Tells
  <2> QED BY <2>1, <2>2
<1>9. TermData' /\ TermLife'  BY <1>1, TermKept
<1> QED BY <1>5, <1>6, <1>8, <1>9 DEF TermInv

LEMMA TermCalls ==
  ASSUME TermInv, Sized, NEW t \in T!Threads,
         \/ \E n \in 1..2 : T!MasterRead(t, n)
         \/ \E s \in Inputs : T!WriteFits(t, s)
         \/ T!WriteRest(t) \/ T!WatchTest(t) \/ T!UnwatchSlave(t) \/ T!SetMode(t)
  PROVE  TermInv'
<1>a. thr \in [T!Threads -> Rows] /\ thr[t] \in Rows  BY DEF TermInv, TermRows
<1>b. /\ master \in Buffers /\ FullyCounted(master) /\ (Len(master.data) <= Capacity \/ raced)
      /\ slave \in Buffers /\ FullyCounted(slave) /\ (Len(slave.data) <= Capacity \/ raced)
  BY DEF TermInv, TermData
<1>c. Capacity \in Nat /\ \A s \in Inputs : s \in Seq(Chars)  BY DEF Sized
<1>d. ASSUME NEW s \in Seq(Chars), NEW b \in {master, slave}
      PROVE  [pc |-> "put", s |-> s, k |-> T!Fits(b, s), n |-> 0] \in Rows
  <2> DEFINE k == T!Fits(b, s)
  <2>1. k \in Nat /\ k <= Len(s)  BY <1>b, <1>c, FitsIn
  <2> HIDE DEF k
  <2>2. [pc |-> "put", s |-> s, k |-> k, n |-> 0] \in Writes  BY <2>1 DEF Writes
  <2> QED BY <2>2, RowsIn DEF k
<1>e. T!Idle.pc \notin {"blocked", "watching"} \cup Tells /\ T!Idle \in Rows  BY RowsIn DEF Tells
<1>1. CASE \E n \in 1..2 : T!MasterRead(t, n)
  <2>1. PICK n : T!MasterRead(t, n)  BY <1>1
  <2>2. master' = T!Drained(master, n) /\ UNCHANGED <<slave, raced, open, destroyed, stale, mode, sleeping, watching, thr>>
    BY <2>1 DEF T!MasterRead, T!life
  <2>3. /\ master' \in Buffers /\ FullyCounted(master') /\ Len(master'.data) \in Nat
        /\ Len(master'.data) <= Len(master.data)
    BY <1>b, <2>2, DrainedKeeps
  <2>4. Len(master.data) \in Nat  BY <1>b, LenProperties DEF Buffers
  <2>5. Len(master'.data) <= Capacity \/ raced'  BY <1>b, <1>c, <2>2, <2>3, <2>4
  <2>6. TermData'  BY <1>b, <2>2, <2>3, <2>5 DEF TermData, FullyCounted
  <2>7. TermRows' /\ TermListed' /\ T!SlaveServed' /\ TermLife'  BY <2>2, TermSame, TermKept
  <2> QED BY <2>6, <2>7 DEF TermInv
<1>2. CASE \E s \in Inputs : T!WriteFits(t, s)
  <2>1. PICK s \in Inputs : T!WriteFits(t, s)  BY <1>2
  <2> DEFINE b == IF t \in Masters THEN slave ELSE master
             row == [pc |-> "put", s |-> s, k |-> T!Fits(b, s), n |-> 0]
  <2>2. /\ thr' = [thr EXCEPT ![t] = row] /\ thr[t] = T!Idle
        /\ UNCHANGED <<master, slave, raced, open, destroyed, stale, mode, sleeping, watching>>
    BY <2>1 DEF T!WriteFits, T!Goes, T!Starts, T!buffers, T!life
  <2>3. b \in {master, slave} /\ s \in Seq(Chars)  BY <1>c
  <2> HIDE DEF b
  <2>4. row \in Rows  BY <1>d, <2>3, Zenon
  <2>5. row.pc \notin {"blocked", "watching"} \cup Tells /\ thr[t].pc \notin {"blocked", "watching"} \cup Tells
    BY <1>e, <2>2 DEF Tells
  <2> HIDE DEF row
  <2> QED BY <2>2, <2>4, <2>5, Quietly, Zenon
<1>3. CASE T!WriteRest(t)
  <2> DEFINE b == IF t \in Masters THEN slave ELSE master
             s == SubSeq(thr[t].s, thr[t].n + 1, Len(thr[t].s))
             row == IF s = <<>> THEN T!Idle ELSE [pc |-> "put", s |-> s, k |-> T!Fits(b, s), n |-> 0]
  <2>2. /\ thr' = [thr EXCEPT ![t] = row] /\ thr[t].pc = "rest"
        /\ UNCHANGED <<master, slave, raced, open, destroyed, stale, mode, sleeping, watching>>
    BY <1>3 DEF T!WriteRest, T!Goes, T!At, T!Rest, T!buffers, T!life
  <2>3. b \in {master, slave}  OBVIOUS
  <2>4. s \in Seq(Chars)
    <3>1. thr[t] \in Writes  BY <1>a, <2>2, RowKinds DEF Tells
    <3>2. thr[t].s \in Seq(Chars) /\ thr[t].n \in Nat /\ Len(thr[t].s) \in Nat  BY <3>1, LenProperties DEF Writes
    <3> DEFINE q == thr[t].s
               n == thr[t].n
    <3>3. q \in Seq(Chars) /\ n \in Nat /\ Len(q) \in Nat  BY <3>2
    <3> HIDE DEF q, n
    <3>4. SubSeq(q, n + 1, Len(q)) \in Seq(Chars)
      <4>1. n + 1 \in Int /\ Len(q) \in Int /\ \A i \in n + 1 .. Len(q) : q[i] \in Chars  BY <3>3, ElementOfSeq
      <4> QED BY <4>1, SubSeqProperties
    <3> QED BY <3>4 DEF q, n
  <2> HIDE DEF b, s
  <2>5. row \in Rows /\ row.pc \notin {"blocked", "watching"} \cup Tells
    <3>1. [pc |-> "put", s |-> s, k |-> T!Fits(b, s), n |-> 0] \in Rows  BY <1>d, <2>3, <2>4, Zenon
    <3> QED BY <1>e, <3>1 DEF Tells
  <2>6. thr[t].pc \notin {"blocked", "watching"} \cup Tells  BY <2>2 DEF Tells
  <2> HIDE DEF row
  <2> QED BY <2>2, <2>5, <2>6, Quietly, Zenon
<1>4. CASE T!WatchTest(t)
  <2> DEFINE row == [pc |-> "watch"]
  <2>1. /\ thr' = [thr EXCEPT ![t] = row] /\ thr[t] = T!Idle
        /\ UNCHANGED <<master, slave, raced, open, destroyed, stale, mode, sleeping, watching>>
    BY <1>4 DEF T!WatchTest, T!Goes, T!Starts, T!buffers, T!life
  <2>2. row \in Rows /\ row.pc \notin {"blocked", "watching"} \cup Tells /\ thr[t].pc \notin {"blocked", "watching"} \cup Tells
    BY <1>e, <2>1, RowsIn DEF Tells
  <2> HIDE DEF row
  <2> QED BY <2>1, <2>2, Quietly, Zenon
<1>5. CASE T!UnwatchSlave(t)
  <2>1. thr' = [thr EXCEPT ![t] = T!Idle] /\ thr[t].pc = "watching" /\ watching' = watching \ {t}
        /\ UNCHANGED <<master, slave, raced, open, destroyed, stale, mode, sleeping>>
    BY <1>5 DEF T!UnwatchSlave, T!Goes, T!At, T!buffers, T!life
  <2>2. thr[t].pc \notin {"blocked"} \cup Tells  BY <2>1 DEF Tells
  <2> QED BY <1>e, <2>1, <2>2, Quietly, Zenon
<1>6. CASE T!SetMode(t)
  <2>1. /\ mode' = [canonical |-> ~mode.canonical, changed |-> TRUE]
        /\ slave' = [slave EXCEPT !.ignore = mode.canonical]
        /\ UNCHANGED <<master, raced, open, destroyed, stale, sleeping, watching, thr>>
    BY <1>6 DEF T!SetMode, T!life
  <2>2. mode.canonical \in BOOLEAN  BY DEF TermInv, TermRows
  <2>3. TermRows'  BY <1>a, <2>1, <2>2 DEF TermRows
  <2>4. slave' \in Buffers /\ slave'.data = slave.data /\ slave'.lines = slave.lines /\ slave'.erased = slave.erased
    BY <1>b, <2>1, <2>2 DEF Buffers
  <2>5. TermData'  BY <1>b, <2>1, <2>4 DEF TermData, FullyCounted
  <2>6. TermListed'  BY <2>1 DEF TermInv, TermListed
  <2>7. T!SlaveServed'  BY <2>1 DEF T!SlaveServed
  <2>8. TermLife'  BY <2>1, TermKept
  <2> QED BY <2>3, <2>5, <2>6, <2>7, <2>8 DEF TermInv
<1> QED BY <1>1, <1>2, <1>3, <1>4, <1>5, <1>6

(* A thread puts a character, or tells those who sleep.                    *)
LEMMA TermPuts ==
  ASSUME TermInv, Sized, NEW t \in T!Threads, T!MasterPut(t) \/ T!SlavePut(t)
  PROVE  TermInv'
<1>a. thr \in [T!Threads -> Rows] /\ thr[t] \in Rows  BY DEF TermInv, TermRows
<1>b. /\ master \in Buffers /\ FullyCounted(master) /\ (Len(master.data) <= Capacity \/ raced)
      /\ slave \in Buffers /\ FullyCounted(slave) /\ (Len(slave.data) <= Capacity \/ raced)
  BY DEF TermInv, TermData
<1>c. Capacity \in Nat  BY DEF Sized
<1> DEFINE b == IF T!MasterPut(t) THEN slave ELSE master
           q == thr[t].s
           k == thr[t].k
           s == SubSeq(q, 1, k)
           n == T!Count(b, s)
           p == IF t \in Masters THEN "wake" ELSE "rest"
           row == [thr[t] EXCEPT !.pc = p, !.n = n]
           new == T!Written(b, s)
<1>1. /\ thr[t].pc = "put" /\ (T!MasterPut(t) => t \in Masters)
      /\ thr' = [thr EXCEPT ![t].pc = p, ![t].n = n] /\ raced' = (raced \/ Len(b.data) + k > Capacity)
      /\ UNCHANGED <<open, destroyed, stale, mode, sleeping, watching>>
  BY DEF T!MasterPut, T!SlavePut, T!Store, T!At, T!life
<1>2. /\ T!MasterPut(t) => slave' = new /\ master' = master
      /\ ~T!MasterPut(t) => master' = new /\ slave' = slave
  BY DEF T!MasterPut, T!SlavePut
<1>3. q \in Seq(Chars) /\ k \in Nat /\ k <= Len(q) /\ thr[t] \in Writes
  <2>1. thr[t] \in Writes  BY <1>1, <1>a, RowKinds DEF Tells
  <2> QED BY <2>1 DEF Writes
<1>4. b \in Buffers /\ FullyCounted(b) /\ (Len(b.data) <= Capacity \/ raced)  BY <1>b
<1>5. thr' = [thr EXCEPT ![t] = row]  BY <1>1, <1>a, Zenon
<1> HIDE DEF b, q, k
<1>6. s \in Seq(Chars) /\ Len(s) = k
  <2>1. Len(q) \in Nat  BY <1>3, LenProperties
  <2>2. \A i \in 1 .. k : q[i] \in Chars  BY <1>3, <2>1, ElementOfSeq
  <2>3. 1 \in Int /\ k \in Int  BY <1>3
  <2>4. s \in Seq(Chars) /\ Len(s) = IF 1 <= k THEN k - 1 + 1 ELSE 0  BY <2>2, <2>3, SubSeqProperties
  <2> QED BY <1>3, <2>4
<1> HIDE DEF s
<1>7. /\ new \in Buffers /\ FullyCounted(new) /\ Len(new.data) \in Nat /\ Len(new.data) <= Len(b.data) + k /\ n \in Nat
  BY <1>c, <1>4, <1>6, WrittenKeeps, Zenon
<1> HIDE DEF new, n
<1>8. row \in Rows /\ row.pc = p
  <2>1. p \in {"put", "rest"} \cup Tells  BY DEF Tells
  <2> HIDE DEF p
  <2>2. row \in Writes /\ row.pc = p  BY <1>3, <1>7, <2>1, Zenon DEF Writes
  <2> QED BY <2>2, RowsIn
<1> HIDE DEF row
<1>9. thr'[t] = row /\ \A u \in T!Threads : u # t => thr'[u] = thr[u]  BY <1>a, <1>5
<1>10. TermData'
  <2>1. Len(new.data) <= Capacity \/ raced'
    <3>1. Len(b.data) \in Nat  BY <1>4, LenProperties DEF Buffers
    <3>2. Len(b.data) + k > Capacity => raced'  BY <1>1, Zenon
    <3>3. Len(b.data) + k > Capacity \/ Len(new.data) <= Capacity  BY <1>3, <1>7, <3>1, <1>c
    <3> QED BY <3>2, <3>3
  <2>2. (Len(master.data) <= Capacity \/ raced) /\ (Len(slave.data) <= Capacity \/ raced) /\ (raced => raced')
    BY <1>b, <1>1, Zenon
  <2> QED BY <1>b, <1>2, <1>7, <2>1, <2>2 DEF TermData, FullyCounted
<1>11. TermLife'  BY <1>1, TermKept
<1>12. TermRows' /\ TermListed' /\ T!SlaveServed'
  <2>1. CASE t \in Masters
    <3>1. row.pc = "wake" /\ thr'[t].pc = "wake"  BY <1>8, <1>9, <2>1
    <3>2. TermRows'  BY <1>1, <1>5, <1>8, ZenonT(60) DEF TermInv, TermRows
    <3>3. TermListed'  BY <1>1, <1>9, <2>1, <3>1, Zenon DEF TermInv, TermListed, Tells
    <3>4. \E m \in Masters : T!At(m, "wake")'  BY <2>1, <3>1 DEF T!At
    <3>5. T!SlaveServed'  BY <3>4 DEF T!SlaveServed, T!At
    <3> QED BY <3>2, <3>3, <3>5
  <2>2. CASE t \notin Masters
    <3>1. row.pc \notin {"blocked", "watching"} \cup Tells /\ thr[t].pc \notin {"blocked", "watching"} \cup Tells
      BY <1>1, <1>8, <2>2 DEF Tells
    <3>2. slave' = slave  BY <1>1, <1>2, <2>2
    <3>3. T!CanReadSlave' => T!CanReadSlave  BY <1>1, <3>2, TermKept, Zenon
    <3>4. sleeping' = sleeping \ {t} /\ watching' = watching \ {t} /\ mode' = mode  BY <1>1, <3>1, TermKept
    <3> QED BY <1>5, <1>8, <3>1, <3>3, <3>4, Calmly, Zenon
  <2> QED BY <2>1, <2>2
<1> QED BY <1>10, <1>11, <1>12 DEF TermInv

(* A master that wakes goes on to echo, and then to signal: at each step   *)
(* nobody who could read is left waiting without it.                       *)
LEMMA TermTells ==
  ASSUME TermInv, Sized, NEW t \in T!Threads, T!MasterWake(t) \/ T!MasterEcho(t) \/ T!MasterSignal(t)
  PROVE  TermInv'
<1>a. thr \in [T!Threads -> Rows] /\ thr[t] \in Rows  BY DEF TermInv, TermRows
<1>b. thr[t].pc \in Tells => thr[t] \in Writes /\ t \in Masters /\ t \notin sleeping /\ t \notin watching
  BY <1>a, RowKinds, TermSame DEF TermInv, TermListed
<1>c. \A m \in Masters : m \in T!Threads  BY DEF T!Threads
<1>d. \A u \in Viewers : u \in T!Threads  BY DEF T!Threads
<1>e. /\ sleeping = {u \in T!Threads : thr[u].pc = "blocked"} /\ watching = {u \in T!Threads : thr[u].pc = "watching"}
      /\ \A u \in T!Threads : thr[u].pc \in Tells => u \in Masters
  BY DEF TermInv, TermListed
<1>f. \A u \in Viewers :
        /\ thr[u].pc = "blocked" => \/ ~T!CanReadSlave \/ thr[u].missed \/ mode.changed
                                    \/ \E m \in Masters : thr[m].pc = "wake"
        /\ thr[u].pc = "watching" => \/ ~T!CanReadSlave \/ thr[u].missed \/ mode.changed
                                     \/ \E m \in Masters : thr[m].pc \in Tells
  BY DEF TermInv, T!SlaveServed, T!At, Tells
<1>g. ASSUME \A u \in Viewers :
             /\ thr'[u].pc = "blocked" => \/ ~T!CanReadSlave' \/ thr'[u].missed \/ mode'.changed
                                          \/ \E m \in Masters : thr'[m].pc = "wake"
             /\ thr'[u].pc = "watching" => \/ ~T!CanReadSlave' \/ thr'[u].missed \/ mode'.changed
                                           \/ \E m \in Masters : thr'[m].pc \in Tells
      PROVE  T!SlaveServed'
  BY <1>g DEF T!SlaveServed, T!At, Tells
<1>1. CASE T!MasterWake(t)
  <2> DEFINE w == T!Awoken
  <2>1. /\ thr[t].pc = "wake" /\ sleeping' = sleeping \ w
        /\ thr' = [u \in T!Threads |-> IF u \in w THEN [thr[u] EXCEPT !.pc = "woken"]
                                       ELSE IF u = t THEN [thr[u] EXCEPT !.pc = "echo"] ELSE thr[u]]
        /\ UNCHANGED <<master, slave, raced, open, destroyed, stale, mode, watching>>
    BY <1>1 DEF T!MasterWake, T!At, T!buffers, T!life
  <2>2. w = IF T!CanReadSlave THEN sleeping ELSE {}  BY DEF T!Awoken
  <2> HIDE DEF w
  <2>3. t \in Masters /\ t \notin w /\ thr[t] \in Writes  BY <1>b, <2>1, <2>2 DEF Tells
  <2>4. ASSUME NEW u \in w PROVE u \in T!Threads /\ thr'[u] \in Rows /\ thr'[u].pc = "woken" /\ thr[u].pc = "blocked"
    <3>1. u \in T!Threads /\ thr[u].pc = "blocked" /\ thr[u] \in Rows  BY <1>a, <1>e, <2>2, <2>4
    <3>2. thr[u] \in Reads /\ thr'[u] = [thr[u] EXCEPT !.pc = "woken"]  BY <2>1, <2>4, <3>1, RowKinds
    <3> QED BY <3>1, <3>2, ReadRow
  <2>5. thr'[t] \in Rows /\ thr'[t].pc = "echo"
    <3>1. thr'[t] = [thr[t] EXCEPT !.pc = "echo"]  BY <2>1, <2>3
    <3> QED BY <2>3, <3>1, WriteRow DEF Tells
  <2>6. \A u \in T!Threads : u \notin w /\ u # t => thr'[u] = thr[u] /\ thr[u] \in Rows  BY <1>a, <2>1
  <2>7. TermRows'
    <3>1. \A u \in T!Threads : thr'[u] \in Rows  BY <2>4, <2>5, <2>6
    <3>2. thr' \in [T!Threads -> Rows]  BY <2>1, <3>1
    <3> QED BY <2>1, <3>2 DEF TermInv, TermRows
  <2>8. TermListed'  BY <1>e, <2>1, <2>3, <2>4, <2>5, <2>6, Zenon DEF TermListed, Tells
  <2>9. T!CanReadSlave' = T!CanReadSlave /\ mode' = mode  BY <2>1, TermKept
  <2>10. T!SlaveServed'
    <3> SUFFICES ASSUME NEW u \in Viewers
                 PROVE  /\ thr'[u].pc = "blocked" => ~T!CanReadSlave'
                        /\ thr'[u].pc = "watching" => \/ ~T!CanReadSlave' \/ thr'[u].missed \/ mode'.changed
                                                      \/ \E m \in Masters : thr'[m].pc \in Tells
      BY <1>g
    <3>1. \E m \in Masters : thr'[m].pc \in Tells  BY <2>3, <2>5 DEF Tells
    <3>2. thr'[u].pc = "blocked" => u \notin w /\ u # t  BY <2>4, <2>5
    <3>3. thr'[u].pc = "blocked" => thr[u].pc = "blocked" /\ u \notin w  BY <1>d, <2>6, <3>2
    <3>4. thr'[u].pc = "blocked" => u \in sleeping  BY <1>d, <1>e, <3>3
    <3> QED BY <2>2, <2>9, <3>1, <3>3, <3>4
  <2>11. TermData' /\ TermLife'  BY <2>1, TermKept
  <2> QED BY <2>7, <2>8, <2>10, <2>11 DEF TermInv
<1>2. CASE T!MasterEcho(t)
  <2>1. /\ thr[t].pc = "echo" /\ thr' = [thr EXCEPT ![t] = [thr[t] EXCEPT !.pc = "signal"]]
        /\ master' = IF thr[t].n = 0 THEN master ELSE T!Echoed(master, thr[t].s)
        /\ UNCHANGED <<slave, raced, open, destroyed, stale, mode, sleeping, watching>>
    BY <1>2, <1>a DEF T!MasterEcho, T!Moves, T!At, T!life
  <2>2. thr[t] \in Writes /\ t \in Masters  BY <1>b, <2>1 DEF Tells
  <2>3. thr'[t] \in Rows /\ thr'[t].pc = "signal"
    <3>1. thr'[t] = [thr[t] EXCEPT !.pc = "signal"]  BY <1>a, <2>1
    <3> QED BY <2>2, <3>1, WriteRow DEF Tells
  <2>4. \A u \in T!Threads : u # t => thr'[u] = thr[u]  BY <1>a, <2>1
  <2>5. TermRows'
    <3>1. \A u \in T!Threads : thr'[u] \in Rows  BY <1>a, <2>3, <2>4
    <3>2. thr' \in [T!Threads -> Rows]  BY <1>a, <2>1, <3>1
    <3> QED BY <2>1, <3>2 DEF TermInv, TermRows
  <2>6. TermListed'  BY <1>e, <2>1, <2>2, <2>3, <2>4 DEF TermListed, Tells
  <2>7. T!CanReadSlave' = T!CanReadSlave /\ mode' = mode  BY <2>1, TermKept
  <2>8. T!SlaveServed'
    <3> SUFFICES ASSUME NEW u \in Viewers
                 PROVE  /\ thr'[u].pc = "blocked" => \/ ~T!CanReadSlave' \/ thr'[u].missed \/ mode'.changed
                                                     \/ \E m \in Masters : thr'[m].pc = "wake"
                        /\ thr'[u].pc = "watching" => \/ ~T!CanReadSlave' \/ thr'[u].missed \/ mode'.changed
                                                      \/ \E m \in Masters : thr'[m].pc \in Tells
      BY <1>g
    <3>1. \E m \in Masters : thr'[m].pc \in Tells  BY <2>2, <2>3 DEF Tells
    <3>2. thr'[u].pc = "blocked" => u # t  BY <2>3
    <3>3. thr'[u].pc = "blocked" => thr[u].pc = "blocked" /\ thr'[u].missed = thr[u].missed  BY <1>d, <2>4, <3>2
    <3>4. \A m \in Masters : thr[m].pc = "wake" => thr'[m].pc = "wake"  BY <1>c, <2>1, <2>4
    <3> QED BY <1>f, <2>7, <3>1, <3>3, <3>4
  <2>9. TermData'
    <3>1. /\ master \in Buffers /\ FullyCounted(master) /\ (Len(master.data) <= Capacity \/ raced)
          /\ slave \in Buffers /\ FullyCounted(slave) /\ (Len(slave.data) <= Capacity \/ raced) /\ Capacity \in Nat
      BY DEF TermInv, TermData, Sized
    <3>2. thr[t].s \in Seq(Chars)  BY <2>2 DEF Writes
    <3>3. /\ T!Echoed(master, thr[t].s) \in Buffers /\ FullyCounted(T!Echoed(master, thr[t].s))
          /\ Len(master.data) <= Capacity => Len(T!Echoed(master, thr[t].s).data) <= Capacity
      BY <3>1, <3>2, WrittenKeeps, Zenon
    <3>4. master' \in Buffers /\ FullyCounted(master') /\ (Len(master'.data) <= Capacity \/ raced')
      BY <2>1, <3>1, <3>3
    <3> QED BY <2>1, <3>1, <3>4 DEF TermData, FullyCounted
  <2>10. TermLife'  BY <2>1, TermKept
  <2> QED BY <2>5, <2>6, <2>8, <2>9, <2>10 DEF TermInv
<1>3. CASE T!MasterSignal(t)
  <2> DEFINE told == IF T!CanReadSlave THEN watching ELSE {}
  <2>1. /\ thr[t].pc = "signal" /\ watching' = watching \ told
        /\ thr' = [u \in T!Threads |-> IF u \in told THEN T!Idle
                                       ELSE IF u = t THEN [thr[u] EXCEPT !.pc = "rest"] ELSE thr[u]]
        /\ UNCHANGED <<master, slave, raced, open, destroyed, stale, mode, sleeping>>
    BY <1>3 DEF T!MasterSignal, T!At, T!buffers, T!life
  <2>2. told = IF T!CanReadSlave THEN watching ELSE {}  OBVIOUS
  <2> HIDE DEF told
  <2>3. t \in Masters /\ t \notin told /\ thr[t] \in Writes  BY <1>b, <2>1, <2>2 DEF Tells
  <2>4. ASSUME NEW u \in told PROVE u \in T!Threads /\ thr'[u] \in Rows /\ thr'[u].pc = "idle" /\ thr[u].pc = "watching"
    <3>1. u \in T!Threads /\ thr[u].pc = "watching"  BY <1>e, <2>2, <2>4
    <3>2. thr'[u] = T!Idle  BY <2>1, <2>4, <3>1
    <3> QED BY <3>1, <3>2, RowsIn
  <2>5. thr'[t] \in Rows /\ thr'[t].pc = "rest"
    <3>1. thr'[t] = [thr[t] EXCEPT !.pc = "rest"]  BY <2>1, <2>3
    <3> QED BY <2>3, <3>1, WriteRow
  <2>6. \A u \in T!Threads : u \notin told /\ u # t => thr'[u] = thr[u] /\ thr[u] \in Rows  BY <1>a, <2>1
  <2>7. TermRows'
    <3>1. \A u \in T!Threads : thr'[u] \in Rows  BY <2>4, <2>5, <2>6
    <3>2. thr' \in [T!Threads -> Rows]  BY <2>1, <3>1
    <3> QED BY <2>1, <3>2 DEF TermInv, TermRows
  <2>8. TermListed'  BY <1>e, <2>1, <2>3, <2>4, <2>5, <2>6, Zenon DEF TermListed, Tells
  <2>9. T!CanReadSlave' = T!CanReadSlave /\ mode' = mode  BY <2>1, TermKept
  <2>10. T!SlaveServed'
    <3> SUFFICES ASSUME NEW u \in Viewers
                 PROVE  /\ thr'[u].pc = "blocked" => \/ ~T!CanReadSlave' \/ thr'[u].missed \/ mode'.changed
                                                     \/ \E m \in Masters : thr'[m].pc = "wake"
                        /\ thr'[u].pc = "watching" => ~T!CanReadSlave'
      BY <1>g
    <3>1. thr'[u].pc \in {"blocked", "watching"} => u \notin told /\ u # t  BY <2>4, <2>5
    <3>2. thr'[u].pc \in {"blocked", "watching"} => thr'[u] = thr[u] /\ u \notin told  BY <1>d, <2>6, <3>1
    <3>3. thr'[u].pc = "watching" => u \in watching  BY <1>d, <1>e, <3>2
    <3>4. \A m \in Masters : thr[m].pc = "wake" => thr'[m].pc = "wake"  BY <1>c, <1>e, <2>1, <2>2, <2>6
    <3> QED BY <1>f, <2>2, <2>9, <3>2, <3>3, <3>4
  <2>11. TermData' /\ TermLife'  BY <2>1, TermKept
  <2> QED BY <2>7, <2>8, <2>10, <2>11 DEF TermInv
<1> QED BY <1>1, <1>2, <1>3

LEMMA TermHandles ==
  ASSUME TermInv, Sized, NEW t \in T!Threads, T!FindSlave(t) \/ T!OpenSlave(t) \/ T!Close(t)
  PROVE  TermInv'
<1>a. /\ open \in [has : SUBSET T!Threads, found : SUBSET T!Threads]
      /\ destroyed => stale \/ open.has = {}
  BY DEF TermInv, TermLife, T!KeptOpen
<1>1. UNCHANGED <<thr, slave, mode, sleeping, watching>> /\ UNCHANGED <<master, slave, raced>>
  BY DEF T!FindSlave, T!OpenSlave, T!Close, T!buffers
<1>2. TermRows' /\ TermListed' /\ T!SlaveServed' /\ TermData'  BY <1>1, TermSame, TermKept
<1>3. TermLife'
  <2>1. CASE T!FindSlave(t)  BY <1>a, <2>1 DEF T!FindSlave, TermLife, T!KeptOpen
  <2>2. CASE T!OpenSlave(t)  BY <1>a, <2>2, Zenon DEF T!OpenSlave, TermLife, T!KeptOpen
  <2>3. CASE T!Close(t)
    <3>1. /\ t \in open.has /\ open' = [open EXCEPT !.has = open.has \ {t}] /\ stale' = stale
          /\ destroyed' = (destroyed \/ T!NobodyLeft(t))
      BY <2>3 DEF T!Close
    <3>2. T!NobodyLeft(t) => open.has = {t}
      <4> SUFFICES ASSUME t \in Masters, T!Handles("master") = 1, T!Handles("slave") = 0 PROVE open.has = {t}
        BY DEF T!NobodyLeft, T!LastMaster
      <4> DEFINE X == {u \in open.has : T!Device(u) = "master"}
                 Y == {u \in open.has : T!Device(u) = "slave"}
      <4>1. IsFiniteSet(X) /\ IsFiniteSet(Y)
        <5>1. X \subseteq T!Threads /\ Y \subseteq T!Threads  BY <1>a
        <5> QED BY <5>1, FS_Subset DEF Sized
      <4>2. Cardinality(X) = 1 /\ Cardinality(Y) = 0  BY SameCount DEF T!Handles
      <4>3. t \in X  BY <3>1 DEF T!Device
      <4>4. X \ {t} = {}
        <5>1. Cardinality(X \ {t}) = Cardinality(X) - 1 /\ IsFiniteSet(X \ {t})  BY <4>1, <4>3, FS_RemoveElement, Zenon
        <5>2. Cardinality(X \ {t}) = 0  BY <4>2, <5>1
        <5> QED BY <5>1, <5>2, FS_EmptySet
      <4>5. Y = {}  BY <4>1, <4>2, FS_EmptySet
      <4>6. \A u \in open.has : u \in X \/ u \in Y  BY DEF T!Device
      <4> HIDE DEF X, Y
      <4> QED BY <3>1, <4>4, <4>5, <4>6
    <3>3. open'.has = open.has \ {t} /\ open' \in [has : SUBSET T!Threads, found : SUBSET T!Threads]  BY <1>a, <3>1
    <3> QED BY <1>a, <3>1, <3>2, <3>3, Zenon DEF TermLife, T!KeptOpen
  <2> QED BY <2>1, <2>2, <2>3
<1> QED BY <1>2, <1>3 DEF TermInv

LEMMA TermStep == Sized /\ TermInv /\ T!Next => TermInv'
<1> SUFFICES ASSUME Sized, TermInv, T!Next PROVE TermInv'  OBVIOUS
<1>1. PICK t \in T!Threads :
        \/ \E n \in 1 .. 2 : T!ReadTest(t, n) \/ T!MasterRead(t, n)
        \/ T!ReadBlock(t) \/ T!ReadInterrupted(t) \/ T!ReadAgain(t) \/ T!ReadTake(t)
        \/ \E s \in Inputs : T!WriteFits(t, s)
        \/ T!WriteRest(t) \/ T!MasterPut(t) \/ T!SlavePut(t) \/ T!MasterWake(t) \/ T!MasterEcho(t) \/ T!MasterSignal(t)
        \/ T!WatchTest(t) \/ T!WatchSlave(t) \/ T!UnwatchSlave(t) \/ T!SetMode(t)
        \/ T!FindSlave(t) \/ T!OpenSlave(t) \/ T!Close(t)
  BY DEF T!Next
<1>2. CASE (\E n \in 1..2 : T!ReadTest(t, n)) \/ T!ReadInterrupted(t) \/ T!ReadAgain(t) \/ T!ReadTake(t)
  BY <1>2, TermReads
<1>3. CASE T!ReadBlock(t) \/ T!WatchSlave(t)  BY <1>3, TermWaits
<1>4. CASE \/ \E n \in 1..2 : T!MasterRead(t, n)
           \/ \E s \in Inputs : T!WriteFits(t, s)
           \/ T!WriteRest(t) \/ T!WatchTest(t) \/ T!UnwatchSlave(t) \/ T!SetMode(t)
  BY <1>4, TermCalls
<1>5. CASE T!MasterPut(t) \/ T!SlavePut(t)  BY <1>5, TermPuts
<1>6. CASE T!MasterWake(t) \/ T!MasterEcho(t) \/ T!MasterSignal(t)  BY <1>6, TermTells
<1>7. CASE T!FindSlave(t) \/ T!OpenSlave(t) \/ T!Close(t)  BY <1>7, TermHandles
<1> QED BY <1>1, <1>2, <1>3, <1>4, <1>5, <1>6, <1>7

LEMMA TermStutter == TermInv /\ UNCHANGED <<thr, terminal>> => TermInv'
<1> SUFFICES ASSUME TermInv, UNCHANGED <<thr, terminal>> PROVE TermInv'  OBVIOUS
<1>1. UNCHANGED <<master, slave, mode, sleeping, watching, open, destroyed, stale, raced, thr>>  BY DEF terminal
<1> QED BY <1>1, TermSame, TermKept DEF TermInv

LEMMA TermSafe == TermInv => T!LinesCounted /\ T!Bounded /\ T!SlaveServed /\ T!KeptOpen
  BY DEF TermInv, TermData, TermLife, FullyCounted, T!LinesCounted, T!Bounded
-----------------------------------------------------------------------------
(* Services: the places of threads, what an interface's count is made of,  *)
(* and where a connector is found.                                         *)
Served == /\ IsFiniteSet(Providers) /\ IsFiniteSet(Connectors) /\ Providers \cap Connectors = {}
          /\ None \notin Names /\ None \notin Nat

Places(t) == IF t \in Providers THEN {"idle", "creating", "pairing", "watching", "svc-test", "iface-test"}
             ELSE {"idle", "resolve", "svc-test", "connect", "tell", "waiting", "paired", "iface-test"}
AtService == {"watching", "svc-test", "iface-test", "resolve", "connect", "tell", "waiting", "paired"}
Anywhere == {"idle", "creating", "pairing"} \cup AtService
Shapes == [pc : Anywhere, obj : Services \cup Connectors \cup {None}, name : Names \cup {None}, end : {None} \cup Nat]
RowOf(t) == {r \in Shapes :
  /\ r.pc \in Places(t)
  /\ r.pc \in AtService => r.obj \in Services
  /\ r.pc = "pairing" => r.obj \in Connectors
  /\ r.pc = "creating" => r.name \in Names
  /\ r.pc = "resolve" => r.end = None
  /\ r.pc = "paired" => r.end # None}
R(pc, obj, name, e) == [pc |-> pc, obj |-> obj, name |-> name, end |-> e]

ServRows ==
  /\ thr = [t \in V!Threads |-> thr[t]] /\ made \in Nat
  /\ \A t \in V!Threads : thr[t] \in RowOf(t) /\ (thr[t].end # None => thr[t].end <= made)
Svc == [name : Names \cup {None}, refs : Int, listed : BOOLEAN, alive : BOOLEAN, has : BOOLEAN]
Iface == [refs : Int, active : BOOLEAN, incoming : Seq(Connectors), waiting : SUBSET Providers, alive : BOOLEAN]
ServData ==
  /\ svc \in [Services -> Svc] /\ iface \in [Services -> Iface]
  /\ handles \in [Providers -> SUBSET ({"svc", "iface"} \X Services)]

(* Who has a reference of an interface: its service, handles, and those    *)
(* that are between resolving it and dropping it.                          *)
Holds(r, s) ==
  /\ r.obj = s
  /\ \/ r.pc \in {"connect", "tell", "waiting", "paired"}
     \/ r.pc \in {"svc-test", "iface-test"} /\ r.end = None
HolderClients(s) == {c \in Connectors : Holds(thr[c], s)}
HolderHandles(s) == {t \in Providers : <<"iface", s>> \in handles[t]}
Refcounted(s) ==
  /\ iface[s].refs = (IF svc[s].has THEN 1 ELSE 0) + Cardinality(HolderHandles(s)) + Cardinality(HolderClients(s))
  /\ ~iface[s].alive => iface[s].refs = 0
Unnamed(s) == svc[s].name = None => ~svc[s].has /\ \A t \in Providers : <<"svc", s>> \notin handles[t]

On(q, c) == \E i \in DOMAIN q : q[i] = c
Distinct(q) == \A i, j \in DOMAIN q : q[i] = q[j] => i = j
Inner == {"tell", "waiting"}
Taken(c) == \E t \in Providers : thr[t].pc = "pairing" /\ thr[t].obj = c
ServLists ==
  /\ \A s \in Services : \A t \in iface[s].waiting : thr[t].pc = "watching" /\ thr[t].obj = s
  /\ \A s \in Services : /\ Distinct(iface[s].incoming)
                         /\ \A c \in Connectors : On(iface[s].incoming, c) => thr[c].pc \in Inner /\ thr[c].obj = s
  /\ \A t \in Providers : thr[t].pc = "pairing" =>
        /\ thr[thr[t].obj].pc \in Inner /\ ~On(iface[thr[thr[t].obj].obj].incoming, thr[t].obj)
        /\ \A u \in Providers : thr[u].pc = "pairing" /\ thr[u].obj = thr[t].obj => u = t
  /\ \A c \in Connectors : thr[c].pc \in Inner => On(iface[thr[c].obj].incoming, c) \/ Taken(c)
ServEnds == \A t, u \in V!Threads :
  /\ (t \in Providers /\ u \in Providers) \/ (t \in Connectors /\ u \in Connectors)
  /\ t # u /\ thr[t].end \notin {None, 0} /\ thr[u].end \notin {None, 0}
  => thr[t].end # thr[u].end

ServInv == ServRows /\ ServData /\ (\A s \in Services : Refcounted(s) /\ Unnamed(s)) /\ ServLists /\ ServEnds

LEMMA ServSides == Served => /\ V!Threads = Providers \cup Connectors
                         /\ \A t \in Providers : t \in V!Threads /\ t \notin Connectors
                         /\ \A c \in Connectors : c \in V!Threads /\ c \notin Providers
  BY DEF Served, V!Threads

LEMMA ServInit == Served /\ V!Init => ServInv
<1> SUFFICES ASSUME Served, V!Init PROVE ServInv  OBVIOUS
<1>1. /\ svc = [s \in Services |-> [name |-> None, refs |-> 0, listed |-> FALSE, alive |-> FALSE, has |-> FALSE]]
      /\ iface = [s \in Services |-> [refs |-> 0, active |-> FALSE, incoming |-> <<>>, waiting |-> {}, alive |-> FALSE]]
      /\ handles = [t \in Providers |-> {}]
      /\ thr = [t \in V!Threads |-> V!Idle] /\ made = 0
  BY DEF V!Init
<1>2. \A t \in V!Threads : thr[t] = R("idle", None, None, None)  BY <1>1 DEF V!Idle, R
<1>3. ServRows
  <2>1. \A t \in V!Threads : thr[t] \in RowOf(t)  BY <1>2 DEF RowOf, Shapes, Places, Anywhere, AtService, R
  <2>2. \A t \in V!Threads : thr[t].end = None  BY <1>2 DEF R
  <2> QED BY <1>1, <2>1, <2>2 DEF ServRows
<1>4. ServData
  <2>1. <<>> \in Seq(Connectors)  OBVIOUS
  <2> QED BY <1>1, <2>1 DEF ServData, Svc, Iface
<1>5. ASSUME NEW s \in Services PROVE Refcounted(s) /\ Unnamed(s)
  <2>1. HolderClients(s) = {} /\ HolderHandles(s) = {}
    BY <1>1, <1>2, ServSides DEF HolderClients, HolderHandles, Holds, R
  <2>2. Cardinality(HolderClients(s)) = 0 /\ Cardinality(HolderHandles(s)) = 0  BY <2>1, FS_EmptySet
  <2> QED BY <1>1, <2>2 DEF Refcounted, Unnamed
<1>6. ServLists
  <2>1. \A t \in V!Threads : thr[t].pc = "idle"  BY <1>2 DEF R
  <2>2. \A s \in Services : DOMAIN iface[s].incoming = {} /\ iface[s].waiting = {}  BY <1>1
  <2> QED BY <2>1, <2>2, ServSides DEF ServLists, Inner, On, Distinct
<1>7. ServEnds  BY <1>2 DEF ServEnds, R
<1> QED BY <1>3, <1>4, <1>5, <1>6, <1>7 DEF ServInv

(* The fields of a row after an assignment to some.                        *)
LEMMA RowSet ==
  ASSUME NEW r \in Shapes, NEW p, NEW x
  PROVE  /\ r = R(r.pc, r.obj, r.name, r.end)
         /\ [r EXCEPT !.pc = p, !.obj = x] = R(p, x, r.name, r.end)
         /\ [r EXCEPT !.pc = p, !.name = x] = R(p, r.obj, x, r.end)
         /\ [r EXCEPT !.pc = p] = R(p, r.obj, r.name, r.end)
<1>1. r = R(r.pc, r.obj, r.name, r.end)  BY DEF Shapes, R
<1>2. [r EXCEPT !.pc = p, !.obj = x] = R(p, x, r.name, r.end)
  <2> DEFINE y == [r EXCEPT !.pc = p, !.obj = x]
             Y == [pc : Anywhere \cup {p}, obj : Services \cup Connectors \cup {None, x}, name : Names \cup {None, x},
                   end : {None, x} \cup Nat]
  <2>1. y \in Y /\ y.pc = p /\ y.obj = x /\ y.name = r.name /\ y.end = r.end
    BY Zenon DEF Shapes
  <2> HIDE DEF y
  <2>2. y = R(y.pc, y.obj, y.name, y.end)  BY <2>1 DEF R
  <2> QED BY <2>1, <2>2 DEF y
<1>3. [r EXCEPT !.pc = p, !.name = x] = R(p, r.obj, x, r.end)
  <2> DEFINE y == [r EXCEPT !.pc = p, !.name = x]
             Y == [pc : Anywhere \cup {p}, obj : Services \cup Connectors \cup {None, x}, name : Names \cup {None, x},
                   end : {None, x} \cup Nat]
  <2>1. y \in Y /\ y.pc = p /\ y.obj = r.obj /\ y.name = x /\ y.end = r.end
    BY Zenon DEF Shapes
  <2> HIDE DEF y
  <2>2. y = R(y.pc, y.obj, y.name, y.end)  BY <2>1 DEF R
  <2> QED BY <2>1, <2>2 DEF y
<1>4. [r EXCEPT !.pc = p] = R(p, r.obj, r.name, r.end)  BY DEF Shapes, R
<1> QED BY <1>1, <1>2, <1>3, <1>4

LEMMA RowEnd ==
  ASSUME NEW r \in Shapes, NEW p, NEW x, NEW y, y = [r EXCEPT !.pc = p, !.end = x]
  PROVE  y = R(p, r.obj, r.name, x)
<1> DEFINE Y == [pc : Anywhere \cup {p}, obj : Services \cup Connectors \cup {None, x}, name : Names \cup {None, x},
                 end : {None, x} \cup Nat]
<1>1. y \in Y /\ y.pc = p /\ y.obj = r.obj /\ y.name = r.name /\ y.end = x
  BY Zenon DEF Shapes
<1>2. y = R(y.pc, y.obj, y.name, y.end)  BY <1>1, Zenon DEF R
<1> QED BY <1>1, <1>2

LEMMA IfaceSet ==
  ASSUME NEW r \in Iface
  PROVE  /\ \A n \in Int :
              LET x == [r EXCEPT !.refs = n]
              IN  x \in Iface /\ x.refs = n /\ x.incoming = r.incoming /\ x.waiting = r.waiting /\ x.alive = r.alive
         /\ \A q \in Seq(Connectors) :
              LET x == [r EXCEPT !.incoming = q]
              IN  x \in Iface /\ x.refs = r.refs /\ x.incoming = q /\ x.waiting = r.waiting /\ x.alive = r.alive
         /\ \A W \in SUBSET Providers :
              LET x == [r EXCEPT !.waiting = W]
              IN  x \in Iface /\ x.refs = r.refs /\ x.incoming = r.incoming /\ x.waiting = W /\ x.alive = r.alive
  BY DEF Iface

LEMMA RowIs ==
  ASSUME NEW t, NEW p \in Places(t), NEW o \in Services \cup Connectors \cup {None}, NEW n \in Names \cup {None},
         NEW e \in {None} \cup Nat, p \in AtService => o \in Services, p = "pairing" => o \in Connectors,
         p = "creating" => n \in Names, p = "resolve" => e = None, p = "paired" => e # None
  PROVE  R(p, o, n, e) \in RowOf(t)
<1>1. p \in Anywhere  BY DEF Places, Anywhere, AtService
<1> QED BY <1>1 DEF RowOf, Shapes, R

LEMMA ServFacts ==
  ASSUME ServInv, Served
  PROVE  /\ \A t \in V!Threads : thr[t] \in Shapes /\ thr[t] \in RowOf(t) /\ thr[t].end \in {None} \cup Nat
         /\ \A s \in Services : /\ IsFiniteSet(HolderHandles(s)) /\ Cardinality(HolderHandles(s)) \in Nat
                                /\ IsFiniteSet(HolderClients(s)) /\ Cardinality(HolderClients(s)) \in Nat
<1>1. \A t \in V!Threads : thr[t] \in Shapes /\ thr[t] \in RowOf(t)  BY DEF ServInv, ServRows, RowOf
<1>2. \A t \in V!Threads : thr[t].end \in {None} \cup Nat  BY <1>1 DEF Shapes
<1>3. ASSUME NEW s \in Services
      PROVE  /\ IsFiniteSet(HolderHandles(s)) /\ Cardinality(HolderHandles(s)) \in Nat
             /\ IsFiniteSet(HolderClients(s)) /\ Cardinality(HolderClients(s)) \in Nat
  <2>1. HolderHandles(s) \subseteq Providers /\ HolderClients(s) \subseteq Connectors
    BY DEF HolderHandles, HolderClients
  <2>2. IsFiniteSet(HolderHandles(s)) /\ IsFiniteSet(HolderClients(s))  BY <2>1, FS_Subset DEF Served
  <2> QED BY <2>2, FS_CardinalityType
<1> QED BY <1>1, <1>2, <1>3

(* Threads move, and none takes a connection, comes on a list of those     *)
(* that connect, or leaves one.                                            *)
LEMMA ServKept ==
  ASSUME ServInv, Served, made' = made,
         \A u \in V!Threads :
            /\ thr'[u].pc \in Inner <=> thr[u].pc \in Inner
            /\ thr[u].pc \in Inner => thr'[u].obj = thr[u].obj
            /\ thr'[u].pc = "pairing" <=> thr[u].pc = "pairing"
            /\ thr[u].pc = "pairing" => thr'[u] = thr[u]
            /\ thr'[u].end \in {thr[u].end, None, 0},
         \A s \in Services : /\ iface'[s].incoming = iface[s].incoming
                             /\ \A u \in iface'[s].waiting : thr'[u].pc = "watching" /\ thr'[u].obj = s
  PROVE  ServLists' /\ ServEnds'
<1>1. ServLists'
  <2>1. \A u \in V!Threads : thr[u].pc = "pairing" => thr[u].obj \in Connectors  BY ServFacts DEF RowOf
  <2>2. \A u \in V!Threads : thr[u].pc \in Inner => thr[u].obj \in Services  BY ServFacts DEF RowOf, Inner, AtService
  <2>3. \A s \in Services : /\ Distinct(iface'[s].incoming)
                            /\ \A c \in Connectors : On(iface'[s].incoming, c) => thr'[c].pc \in Inner /\ thr'[c].obj = s
    BY ServSides DEF ServInv, ServLists
  <2>4. ASSUME NEW u \in Providers, thr'[u].pc = "pairing"
        PROVE  /\ thr'[thr'[u].obj].pc \in Inner /\ ~On(iface'[thr'[thr'[u].obj].obj].incoming, thr'[u].obj)
               /\ \A v \in Providers : thr'[v].pc = "pairing" /\ thr'[v].obj = thr'[u].obj => v = u
    <3>1. u \in V!Threads /\ thr[u].pc = "pairing" /\ thr'[u] = thr[u]  BY <2>4, ServSides
    <3> DEFINE c == thr[u].obj
    <3>2. c \in Connectors /\ c \in V!Threads /\ thr'[u].obj = c  BY <2>1, <3>1, ServSides
    <3>3. thr[c].pc \in Inner /\ ~On(iface[thr[c].obj].incoming, c)  BY <3>1, <2>4 DEF ServInv, ServLists
    <3>4. thr'[c].pc \in Inner /\ thr'[c].obj = thr[c].obj /\ thr[c].obj \in Services  BY <2>2, <3>2, <3>3
    <3>5. ~On(iface'[thr'[c].obj].incoming, c)  BY <3>3, <3>4
    <3>6. \A v \in Providers : thr'[v].pc = "pairing" /\ thr'[v].obj = c => v = u
      BY <3>1, <2>4, ServSides DEF ServInv, ServLists
    <3> HIDE DEF c
    <3> QED BY <3>2, <3>4, <3>5, <3>6
  <2>5. ASSUME NEW c \in Connectors, thr'[c].pc \in Inner
        PROVE  On(iface'[thr'[c].obj].incoming, c) \/ Taken(c)'
    <3>1. c \in V!Threads  BY ServSides
    <3>2. thr[c].pc \in Inner /\ thr'[c].obj = thr[c].obj /\ thr[c].obj \in Services  BY <2>2, <2>5, <3>1
    <3>3. CASE On(iface[thr[c].obj].incoming, c)  BY <3>2, <3>3
    <3>4. CASE Taken(c)  BY <3>4, ServSides DEF Taken
    <3> QED BY <3>2, <3>3, <3>4 DEF ServInv, ServLists
  <2> QED BY <2>3, <2>4, <2>5 DEF ServLists
<1>2. ServEnds'  BY DEF ServInv, ServEnds
<1> QED BY <1>1, <1>2

LEMMA ServMoved ==
  ASSUME ServInv, Served, NEW t \in V!Threads, NEW row, row \in RowOf(t), thr' = [thr EXCEPT ![t] = row], made' = made,
         thr[t].pc # "pairing", row.pc # "pairing",
         row.pc \in Inner <=> thr[t].pc \in Inner, thr[t].pc \in Inner => row.obj = thr[t].obj,
         row.end \in {thr[t].end, None, 0},
         \A s \in Services : iface'[s].incoming = iface[s].incoming
                             /\ \A u \in iface'[s].waiting : u \in iface[s].waiting /\ u # t
  PROVE  ServRows' /\ ServLists' /\ ServEnds'
<1>1. thr'[t] = row /\ \A u \in V!Threads : u # t => thr'[u] = thr[u]  BY DEF ServInv, ServRows
<1>2. ServRows'
  <2>1. row.end # None => row.end <= made  BY ServFacts DEF ServInv, ServRows, Served
  <2> QED BY <1>1, <2>1 DEF ServInv, ServRows
<1>3. \A s \in Services : \A u \in iface'[s].waiting : thr'[u].pc = "watching" /\ thr'[u].obj = s
  <2>1. \A s \in Services : \A u \in iface[s].waiting : u \in V!Threads
    BY ServSides DEF ServInv, ServData, Iface
  <2> QED BY <1>1, <2>1 DEF ServInv, ServLists
<1> QED BY <1>1, <1>2, <1>3, ServKept

(* The count of an interface through a step.                               *)
LEMMA CountSame ==
  ASSUME ServInv, NEW s \in Services, svc'[s].has = svc[s].has, iface'[s].refs = iface[s].refs,
         iface'[s].alive = iface[s].alive \/ iface[s].refs = 0,
         \A t \in Providers : <<"iface", s>> \in handles'[t] <=> <<"iface", s>> \in handles[t],
         \A c \in Connectors : Holds(thr'[c], s) <=> Holds(thr[c], s)
  PROVE  Refcounted(s)'
<1>1. HolderClients(s)' = HolderClients(s)  BY DEF HolderClients
<1>2. HolderHandles(s)' = HolderHandles(s)  BY DEF HolderHandles
<1> QED BY <1>1, <1>2 DEF ServInv, Refcounted

LEMMA CountGone ==
  ASSUME ServInv, Served, NEW s \in Services, svc'[s].has = svc[s].has, iface'[s].refs = iface[s].refs - 1,
         iface'[s].alive = iface[s].alive, handles' = handles,
         NEW t \in Connectors, Holds(thr[t], s), ~Holds(thr'[t], s),
         \A c \in Connectors : c # t => (Holds(thr'[c], s) <=> Holds(thr[c], s))
  PROVE  Refcounted(s)'
<1>1. HolderClients(s)' = HolderClients(s) \ {t} /\ t \in HolderClients(s)  BY DEF HolderClients
<1>2. HolderHandles(s)' = HolderHandles(s)  BY DEF HolderHandles
<1>3. Cardinality(HolderClients(s) \ {t}) = Cardinality(HolderClients(s)) - 1
  BY <1>1, ServFacts, FS_RemoveElement, Zenon
<1>4. Cardinality(HolderClients(s)) \in Nat /\ Cardinality(HolderHandles(s)) \in Nat  BY ServFacts
<1>5. Cardinality(HolderClients(s)) # 0  BY <1>1, ServFacts, FS_EmptySet
<1>6. iface[s].refs = (IF svc[s].has THEN 1 ELSE 0) + Cardinality(HolderHandles(s)) + Cardinality(HolderClients(s))
      /\ (~iface[s].alive => iface[s].refs = 0)
  BY DEF ServInv, Refcounted
<1>7. iface[s].alive  BY <1>4, <1>5, <1>6
<1> QED BY <1>1, <1>2, <1>3, <1>4, <1>6, <1>7 DEF Refcounted

LEMMA CountMore ==
  ASSUME ServInv, Served, NEW s \in Services, svc[s].has, svc'[s].has = svc[s].has, iface'[s].refs = iface[s].refs + 1,
         iface'[s].alive = iface[s].alive, handles' = handles,
         NEW t \in Connectors, ~Holds(thr[t], s), Holds(thr'[t], s),
         \A c \in Connectors : c # t => (Holds(thr'[c], s) <=> Holds(thr[c], s))
  PROVE  Refcounted(s)'
<1>1. HolderClients(s)' = HolderClients(s) \cup {t} /\ t \notin HolderClients(s)  BY DEF HolderClients
<1>2. HolderHandles(s)' = HolderHandles(s)  BY DEF HolderHandles
<1>3. Cardinality(HolderClients(s) \cup {t}) = Cardinality(HolderClients(s)) + 1
  BY <1>1, ServFacts, FS_AddElement, Zenon
<1>4. Cardinality(HolderClients(s)) \in Nat /\ Cardinality(HolderHandles(s)) \in Nat  BY ServFacts
<1>6. iface[s].refs = (IF svc[s].has THEN 1 ELSE 0) + Cardinality(HolderHandles(s)) + Cardinality(HolderClients(s))
      /\ (~iface[s].alive => iface[s].refs = 0)
  BY DEF ServInv, Refcounted
<1>7. iface[s].alive  BY <1>4, <1>6
<1> QED BY <1>1, <1>2, <1>3, <1>4, <1>6, <1>7 DEF Refcounted

(* Whoever waits on an interface, or has a handle of it, has it alive.     *)
LEMMA HeldLives ==
  ASSUME ServInv, Served, NEW s \in Services
  PROVE  /\ \A c \in Connectors : Holds(thr[c], s) => iface[s].alive /\ iface[s].refs # 0
         /\ \A t \in Providers : <<"iface", s>> \in handles[t] => iface[s].alive /\ iface[s].refs # 0
<1>1. /\ Cardinality(HolderClients(s)) \in Nat /\ Cardinality(HolderHandles(s)) \in Nat
      /\ iface[s].refs = (IF svc[s].has THEN 1 ELSE 0) + Cardinality(HolderHandles(s)) + Cardinality(HolderClients(s))
      /\ ~iface[s].alive => iface[s].refs = 0
  BY ServFacts DEF ServInv, Refcounted
<1>2. \A c \in Connectors : Holds(thr[c], s) => Cardinality(HolderClients(s)) # 0
  <2>1. \A c \in Connectors : Holds(thr[c], s) => HolderClients(s) # {}  BY DEF HolderClients
  <2> QED BY <2>1, ServFacts, FS_EmptySet
<1>3. \A t \in Providers : <<"iface", s>> \in handles[t] => Cardinality(HolderHandles(s)) # 0
  <2>1. \A t \in Providers : <<"iface", s>> \in handles[t] => HolderHandles(s) # {}  BY DEF HolderHandles
  <2> QED BY <2>1, ServFacts, FS_EmptySet
<1> DEFINE b == IF svc[s].has THEN 1 ELSE 0
           H == Cardinality(HolderHandles(s))
           C == Cardinality(HolderClients(s))
<1>4. b \in {0, 1} /\ H \in Nat /\ C \in Nat /\ iface[s].refs = b + H + C /\ (~iface[s].alive => iface[s].refs = 0)
  BY <1>1
<1>5. (\A c \in Connectors : Holds(thr[c], s) => C # 0) /\ (\A t \in Providers : <<"iface", s>> \in handles[t] => H # 0)
  BY <1>2, <1>3
<1> HIDE DEF b, H, C
<1>6. (C # 0 \/ H # 0) => iface[s].refs # 0 /\ iface[s].alive  BY <1>4
<1> QED BY <1>5, <1>6

LEMMA ServServes ==
  ASSUME ServInv, Served, NEW t \in Providers,
         (\E n \in Names : V!SysCreateService(t, n)) \/ V!CreateService(t) \/ V!Unwatch(t)
         \/ (\E s \in Services : V!CreateInterface(t, s)) \/ (\E y \in handles[t] : V!Destroy(t, y))
  PROVE  ServInv'
<1>a. t \in V!Threads /\ t \notin Connectors /\ \A c \in Connectors : c \in V!Threads /\ c # t  BY ServSides
<1>b. thr[t] \in RowOf(t) /\ thr[t] \in Shapes /\ thr[t].end \in {None} \cup Nat /\ thr[t].name \in Names \cup {None}
      /\ thr[t].obj \in Services \cup Connectors \cup {None}
  BY <1>a, ServFacts DEF Shapes
<1>c. ServData /\ thr = [u \in V!Threads |-> thr[u]]  BY DEF ServInv, ServRows
<1>d. \A s \in Services : iface[s].waiting \subseteq Providers  BY <1>c DEF ServData, Svc, Iface
<1>e. \A s \in Services : \A u \in iface[s].waiting : thr[u].pc = "watching" /\ thr[u].obj = s  BY DEF ServInv, ServLists
<1>f. V!Rest(t) = R("idle", None, None, thr[t].end)  BY DEF V!Rest, V!Idle, R
<1>g. None \in Names \cup {None} /\ None \in Services \cup Connectors \cup {None}  OBVIOUS
<1>h. R("idle", None, None, thr[t].end) \in RowOf(t)
  <2>1. "idle" \in Places(t)  BY DEF Places
  <2> QED BY <1>b, <2>1, RowIs, Zenon DEF AtService
<1>i. \A s \in Services : Refcounted(s) /\ Unnamed(s)  BY DEF ServInv
<1>1. CASE \E n \in Names : V!SysCreateService(t, n)
  <2>1. PICK n \in Names : V!SysCreateService(t, n)  BY <1>1
  <2> DEFINE row == R("creating", thr[t].obj, n, thr[t].end)
  <2>2. thr[t].pc = "idle" /\ thr' = [thr EXCEPT ![t] = row] /\ UNCHANGED <<svc, iface, handles, made>>
    <3>1. thr' = [thr EXCEPT ![t].pc = "creating", ![t].name = n]  BY <2>1 DEF V!SysCreateService
    <3>2. thr' = [thr EXCEPT ![t] = [thr[t] EXCEPT !.pc = "creating", !.name = n]]  BY <1>c, <3>1, Zenon
    <3>3. [thr[t] EXCEPT !.pc = "creating", !.name = n] = row  BY <1>b, RowSet, Zenon
    <3> QED BY <2>1, <3>2, <3>3, Zenon DEF V!SysCreateService, V!At
  <2>3. row \in RowOf(t)
    <3>1. "creating" \in Places(t)  BY DEF Places
    <3> QED BY <1>b, <3>1, RowIs DEF AtService
  <2>4. row.pc = "creating" /\ row.end = thr[t].end  BY DEF R
  <2>5. thr[t].pc # "pairing" /\ row.pc # "pairing" /\ (row.pc \in Inner <=> thr[t].pc \in Inner)
        /\ (thr[t].pc \in Inner => row.obj = thr[t].obj) /\ row.end \in {thr[t].end, None, 0}
    BY <2>2, <2>4 DEF Inner
  <2>6. \A s \in Services : iface'[s].incoming = iface[s].incoming /\ \A u \in iface'[s].waiting : u \in iface[s].waiting /\ u # t
    BY <1>e, <2>2
  <2> HIDE DEF row
  <2>7. ServRows' /\ ServLists' /\ ServEnds'  BY <1>a, <2>2, <2>3, <2>4, <2>5, <2>6, ServMoved, Zenon
  <2>8. ServData'  BY <1>c, <2>2 DEF ServData, Svc, Iface
  <2>9. ASSUME NEW s \in Services PROVE Refcounted(s)' /\ Unnamed(s)'
    <3>1. \A c \in Connectors : thr'[c] = thr[c]  BY <1>a, <1>c, <2>2
    <3>2. Refcounted(s)'  BY <2>2, <3>1, CountSame
    <3> QED BY <1>i, <2>2, <3>2 DEF Unnamed
  <2> QED BY <2>7, <2>8, <2>9 DEF ServInv
<1>2. CASE V!CreateService(t)
  <2> DEFINE row == R("idle", None, None, thr[t].end)
  <2>1. PICK s \in Services :
        /\ svc[s].name = None
        /\ svc' = [svc EXCEPT ![s] = [name |-> thr[t].name, refs |-> 1, listed |-> TRUE, alive |-> TRUE, has |-> FALSE]]
        /\ handles' = [handles EXCEPT ![t] = handles[t] \cup {<<"svc", s>>}]
    <3>1. V!Fresh # {}  BY <1>2 DEF V!CreateService
    <3>2. (CHOOSE s \in V!Fresh : TRUE) \in V!Fresh  BY <3>1
    <3>3. \A s \in V!Fresh : s \in Services /\ svc[s].name = None  BY DEF V!Fresh
    <3> QED BY <1>2, <3>2, <3>3, Zenon DEF V!CreateService
  <2>2. thr[t].pc = "creating" /\ thr' = [thr EXCEPT ![t] = row] /\ UNCHANGED <<iface, made>>
    BY <1>2, <1>f DEF V!CreateService, V!At
  <2>3. thr[t].name \in Names  BY <1>b, <2>2 DEF RowOf
  <2>4. row.pc = "idle" /\ row.end = thr[t].end  BY DEF R
  <2>5. thr[t].pc # "pairing" /\ row.pc # "pairing" /\ (row.pc \in Inner <=> thr[t].pc \in Inner)
        /\ (thr[t].pc \in Inner => row.obj = thr[t].obj) /\ row.end \in {thr[t].end, None, 0}
    BY <2>2, <2>4 DEF Inner
  <2>6. \A u \in Services : iface'[u].incoming = iface[u].incoming /\ \A v \in iface'[u].waiting : v \in iface[u].waiting /\ v # t
    BY <1>e, <2>2
  <2>7. row \in RowOf(t)  BY <1>h
  <2> HIDE DEF row
  <2>8. ServRows' /\ ServLists' /\ ServEnds'  BY <1>a, <2>2, <2>7, <2>4, <2>5, <2>6, ServMoved, Zenon
  <2>9. ServData'
    <3>1. handles' \in [Providers -> SUBSET ({"svc", "iface"} \X Services)]
      <4>1. <<"svc", s>> \in {"svc", "iface"} \X Services  OBVIOUS
      <4> QED BY <1>c, <2>1, <4>1 DEF ServData, Svc, Iface
    <3> QED BY <1>c, <2>1, <2>2, <2>3, <3>1 DEF ServData, Svc, Iface
  <2>10. ~svc[s].has  BY <1>i, <2>1, Zenon DEF Unnamed
  <2>11. ASSUME NEW u \in Services PROVE Refcounted(u)' /\ Unnamed(u)'
    <3>1. \A c \in Connectors : thr'[c] = thr[c]  BY <1>a, <1>c, <2>2
    <3>2. svc'[u].has = svc[u].has  BY <1>c, <2>1, <2>10, Zenon DEF ServData, Svc, Iface
    <3>3. \A v \in Providers : <<"iface", u>> \in handles'[v] <=> <<"iface", u>> \in handles[v]
      BY <1>c, <2>1 DEF ServData, Svc, Iface
    <3>4. Refcounted(u)'  BY <2>2, <3>1, <3>2, <3>3, CountSame
    <3>5. Unnamed(u)'
      <4>1. CASE u = s
        <5>1. svc'[u].name \in Names  BY <1>c, <2>1, <2>3, <4>1 DEF ServData, Svc, Iface
        <5> QED BY <5>1 DEF Unnamed, Served
      <4>2. CASE u # s
        <5>1. svc'[u] = svc[u]  BY <1>c, <2>1, <4>2 DEF ServData, Svc, Iface
        <5>2. \A v \in Providers : <<"svc", u>> \in handles'[v] <=> <<"svc", u>> \in handles[v]
          BY <1>c, <2>1, <4>2 DEF ServData, Svc, Iface
        <5> QED BY <1>i, <5>1, <5>2 DEF Unnamed
      <4> QED BY <4>1, <4>2
    <3> QED BY <3>4, <3>5
  <2> QED BY <2>8, <2>9, <2>11 DEF ServInv
<1>3. CASE V!Unwatch(t)
  <2> DEFINE row == R("idle", None, None, thr[t].end)
             o == thr[t].obj
  <2>1. /\ thr[t].pc = "watching" /\ thr' = [thr EXCEPT ![t] = row] /\ UNCHANGED <<svc, handles, made>>
        /\ iface' = [iface EXCEPT ![o].waiting = iface[o].waiting \ {t}]
    BY <1>3, <1>f DEF V!Unwatch, V!At
  <2>2. o \in Services  BY <1>b, <2>1 DEF RowOf, AtService
  <2>3. row.pc = "idle" /\ row.end = thr[t].end  BY DEF R
  <2>4. thr[t].pc # "pairing" /\ row.pc # "pairing" /\ (row.pc \in Inner <=> thr[t].pc \in Inner)
        /\ (thr[t].pc \in Inner => row.obj = thr[t].obj) /\ row.end \in {thr[t].end, None, 0}
    BY <2>1, <2>3 DEF Inner
  <2>5. row \in RowOf(t)  BY <1>h
  <2>6. \A s \in Services :
          /\ iface'[s].incoming = iface[s].incoming /\ iface'[s].refs = iface[s].refs /\ iface'[s].alive = iface[s].alive
          /\ \A u \in iface'[s].waiting : u \in iface[s].waiting /\ u # t
    <3> DEFINE W == iface[o].waiting \ {t}
               new == [iface[o] EXCEPT !.waiting = W]
    <3>1. iface[o] \in Iface /\ W \in SUBSET Providers  BY <1>c, <1>d, <2>2 DEF ServData
    <3>2. /\ new.incoming = iface[o].incoming /\ new.refs = iface[o].refs /\ new.alive = iface[o].alive
          /\ new.waiting = W
      <4> HIDE DEF W
      <4> QED BY <3>1, IfaceSet
    <3>3. iface' = [iface EXCEPT ![o] = new]  BY <1>c, <2>1 DEF ServData
    <3> HIDE DEF new
    <3>4. iface'[o] = new /\ \A s \in Services : s # o => iface'[s] = iface[s]  BY <1>c, <2>2, <3>3 DEF ServData
    <3> QED BY <1>e, <2>2, <3>2, <3>4
  <2> HIDE DEF row
  <2>7. ServRows' /\ ServLists' /\ ServEnds'  BY <1>a, <2>1, <2>5, <2>3, <2>4, <2>6, ServMoved, Zenon
  <2>8. ServData'
    <3>1. [iface[o] EXCEPT !.waiting = iface[o].waiting \ {t}] \in Iface  BY <1>c, <1>d, <2>2, ZenonT(60) DEF ServData, Iface
    <3>3. iface' = [iface EXCEPT ![o] = [iface[o] EXCEPT !.waiting = iface[o].waiting \ {t}]]  BY <1>c, <2>1 DEF ServData
    <3>2. iface' \in [Services -> Iface]  BY <1>c, <3>1, <3>3, Zenon DEF ServData
    <3> QED BY <1>c, <2>1, <3>2 DEF ServData
  <2>9. ASSUME NEW s \in Services PROVE Refcounted(s)' /\ Unnamed(s)'
    <3>1. \A c \in Connectors : thr'[c] = thr[c]  BY <1>a, <1>c, <2>1
    <3>2. Refcounted(s)'  BY <2>1, <2>6, <3>1, CountSame
    <3> QED BY <1>i, <2>1, <3>2 DEF Unnamed
  <2> QED BY <2>7, <2>8, <2>9 DEF ServInv
<1>4. CASE \E s \in Services : V!CreateInterface(t, s)
  <2>1. PICK s \in Services : V!CreateInterface(t, s)  BY <1>4
  <2>2. /\ <<"svc", s>> \in handles[t] /\ ~svc[s].has /\ ~iface[s].alive /\ UNCHANGED <<thr, made>>
        /\ svc' = [svc EXCEPT ![s].has = TRUE]
        /\ handles' = [handles EXCEPT ![t] = handles[t] \cup {<<"iface", s>>}]
    BY <2>1, Zenon DEF V!CreateInterface
  <2>3. iface' = [iface EXCEPT ![s] = [iface[s] EXCEPT !.refs = 2, !.active = TRUE, !.alive = TRUE]]
    BY <2>1, Zenon DEF V!CreateInterface
  <2> DEFINE new == [iface[s] EXCEPT !.refs = 2, !.active = TRUE, !.alive = TRUE]
  <2>4. /\ new \in Iface
        /\ new.refs = 2 /\ new.alive /\ new.incoming = iface[s].incoming /\ new.waiting = iface[s].waiting
    <3>1. iface[s] \in Iface  BY <1>c DEF ServData
    <3> DEFINE a == [iface[s] EXCEPT !.refs = 2]
               b == [a EXCEPT !.active = TRUE]
               z == [b EXCEPT !.alive = TRUE]
    <3>2. a \in Iface /\ a.refs = 2 /\ a.incoming = iface[s].incoming /\ a.waiting = iface[s].waiting  BY <3>1 DEF Iface
    <3> HIDE DEF a
    <3>3. b \in Iface /\ b.refs = 2 /\ b.incoming = iface[s].incoming /\ b.waiting = iface[s].waiting  BY <3>2, Zenon DEF Iface
    <3> HIDE DEF b
    <3>4. z \in Iface /\ z.refs = 2 /\ z.incoming = iface[s].incoming /\ z.waiting = iface[s].waiting /\ z.alive
      BY <3>3, Zenon DEF Iface
    <3> QED BY <3>4 DEF a, b
  <2> HIDE DEF new
  <2>5. ServData'
    <3>1. <<"iface", s>> \in {"svc", "iface"} \X Services  OBVIOUS
    <3>2. handles' \in [Providers -> SUBSET ({"svc", "iface"} \X Services)]  BY <1>c, <2>2, <3>1 DEF ServData, Svc, Iface
    <3>3. iface' \in [Services -> Iface]
      BY <1>c, <2>3, <2>4 DEF ServData, Svc, Iface, new
    <3>4. svc' \in [Services -> Svc]
      BY <1>c, <2>2, ZenonT(60) DEF ServData, Svc, Iface
    <3> QED BY <3>2, <3>3, <3>4 DEF ServData, Svc, Iface
  <2>6. \A u \in Services : iface'[u].incoming = iface[u].incoming /\ iface'[u].waiting = iface[u].waiting
    BY <1>c, <2>3, <2>4 DEF ServData, Svc, Iface, new
  <2>7. ServRows' /\ ServEnds'  BY <2>2 DEF ServInv, ServRows, ServEnds
  <2>8. ServLists'
    <3>1. thr' = thr /\ made' = made  BY <2>2
    <3>2. \A u \in Services : \A v \in iface'[u].waiting : thr'[v].pc = "watching" /\ thr'[v].obj = u
      BY <1>e, <2>6, <3>1
    <3>3. \A u \in Services : iface'[u].incoming = iface[u].incoming  BY <2>6
    <3> QED BY <3>1, <3>2, <3>3, ServKept
  <2>9. ASSUME NEW u \in Services PROVE Refcounted(u)' /\ Unnamed(u)'
    <3>1. CASE u # s
      <4>1. svc'[u] = svc[u] /\ iface'[u] = iface[u]  BY <1>c, <2>2, <2>3, <3>1 DEF ServData, Svc, Iface
      <4>2. \A v \in Providers : /\ <<"iface", u>> \in handles'[v] <=> <<"iface", u>> \in handles[v]
                                 /\ <<"svc", u>> \in handles'[v] <=> <<"svc", u>> \in handles[v]
        BY <1>c, <2>2, <3>1 DEF ServData, Svc, Iface
      <4>3. Refcounted(u)'  BY <2>2, <4>1, <4>2, CountSame, Zenon
      <4> QED BY <1>i, <4>1, <4>2, <4>3 DEF Unnamed
    <3>2. CASE u = s
      <4>1. iface[s].refs = 0 /\ ~svc[s].has  BY <1>i, <2>2 DEF Refcounted
      <4>2. Cardinality(HolderHandles(s)) = 0 /\ Cardinality(HolderClients(s)) = 0
        BY <1>i, <4>1, ServFacts DEF Refcounted
      <4>3. HolderHandles(s) = {}  BY <4>2, ServFacts, FS_EmptySet
      <4>4. HolderHandles(s)' = {t}
        BY <1>c, <2>2, <4>3 DEF HolderHandles, ServData
      <4>5. HolderClients(s)' = HolderClients(s)  BY <2>2 DEF HolderClients
      <4>6. svc'[s].has /\ iface'[s].refs = 2 /\ iface'[s].alive  BY <1>c, <2>2, <2>3, <2>4 DEF ServData, Svc, Iface, new
      <4>7. Refcounted(s)'
        <5>1. Cardinality({t}) = 1  BY FS_Singleton
        <5>2. Cardinality(HolderHandles(s)') = 1 /\ Cardinality(HolderClients(s)') = 0  BY <4>2, <4>4, <4>5, <5>1
        <5> QED BY <4>6, <5>2 DEF Refcounted
      <4>8. svc'[s].name # None  BY <1>c, <1>i, <2>2 DEF ServData, Svc, Iface, Unnamed
      <4> QED BY <3>2, <4>7, <4>8 DEF Unnamed
    <3> QED BY <3>1, <3>2
  <2> QED BY <2>5, <2>7, <2>8, <2>9 DEF ServInv
<1>5. CASE \E y \in handles[t] : V!Destroy(t, y)
  <2>1. PICK y \in handles[t] : V!Destroy(t, y)  BY <1>5
  <2>2. PICK k \in {"svc", "iface"}, s \in Services : y = <<k, s>>  BY <1>c DEF ServData, Svc, Iface
  <2> DEFINE p == IF k = "svc" THEN "svc-test" ELSE "iface-test"
             row == R(p, s, thr[t].name, thr[t].end)
  <2>3. /\ thr[t].pc = "idle" /\ UNCHANGED made
        /\ handles' = [handles EXCEPT ![t] = handles[t] \ {<<k, s>>}]
        /\ svc' = IF k = "svc" THEN [svc EXCEPT ![s].refs = svc[s].refs - 1] ELSE svc
        /\ iface' = IF k = "iface" THEN [iface EXCEPT ![s].refs = iface[s].refs - 1] ELSE iface
    BY <2>1, <2>2 DEF V!Destroy, V!At
  <2>4. thr' = [thr EXCEPT ![t] = row]
    <3>1. thr' = [thr EXCEPT ![t].pc = p, ![t].obj = s]  BY <2>1, <2>2 DEF V!Destroy, V!Moves
    <3>2. thr' = [thr EXCEPT ![t] = [thr[t] EXCEPT !.pc = p, !.obj = s]]  BY <1>c, <3>1, Zenon
    <3>3. [thr[t] EXCEPT !.pc = p, !.obj = s] = row  BY <1>b, RowSet, ZenonT(60)
    <3> QED BY <3>2, <3>3, Zenon
  <2>5. row \in RowOf(t)
    <3>1. p \in Places(t) /\ p \notin {"pairing", "creating", "resolve", "paired"}  BY DEF Places
    <3> HIDE DEF p
    <3> QED BY <1>b, <3>1, RowIs
  <2>6. row.pc \in {"svc-test", "iface-test"} /\ row.end = thr[t].end  BY DEF R
  <2>7. thr[t].pc # "pairing" /\ row.pc # "pairing" /\ (row.pc \in Inner <=> thr[t].pc \in Inner)
        /\ (thr[t].pc \in Inner => row.obj = thr[t].obj) /\ row.end \in {thr[t].end, None, 0}
    BY <2>3, <2>6 DEF Inner
  <2>8. \A u \in Services : /\ iface'[u].incoming = iface[u].incoming /\ iface'[u].waiting = iface[u].waiting
                            /\ iface'[u].alive = iface[u].alive
    BY <1>c, <2>3, ZenonT(60) DEF ServData, Svc, Iface
  <2>9. \A u \in Services : \A v \in iface'[u].waiting : v \in iface[u].waiting /\ v # t  BY <1>e, <2>3, <2>8
  <2> HIDE DEF row
  <2>10. ServRows' /\ ServLists' /\ ServEnds'  BY <1>a, <2>3, <2>4, <2>5, <2>6, <2>7, <2>8, <2>9, ServMoved, Zenon
  <2>11. ServData'
    <3>1. handles' \in [Providers -> SUBSET ({"svc", "iface"} \X Services)]  BY <1>c, <2>3 DEF ServData, Svc, Iface
    <3>2. svc' \in [Services -> Svc]
      <4>1. CASE k = "svc"
        <5>1. svc' = [svc EXCEPT ![s] = [svc[s] EXCEPT !.refs = svc[s].refs - 1]]  BY <1>c, <2>3, <4>1 DEF ServData
        <5>2. [svc[s] EXCEPT !.refs = svc[s].refs - 1] \in Svc  BY <1>c DEF ServData, Svc
        <5> QED BY <1>c, <5>1, <5>2 DEF ServData
      <4> QED BY <1>c, <2>3, <4>1 DEF ServData
    <3>3. iface' \in [Services -> Iface]
      <4>1. CASE k = "iface"
        <5>1. iface' = [iface EXCEPT ![s] = [iface[s] EXCEPT !.refs = iface[s].refs - 1]]  BY <1>c, <2>3, <4>1 DEF ServData
        <5>2. iface[s] \in Iface /\ iface[s].refs - 1 \in Int  BY <1>c DEF ServData, Iface
        <5> DEFINE n == iface[s].refs - 1
        <5>4. n \in Int  BY <5>2
        <5> HIDE DEF n
        <5>5. [iface[s] EXCEPT !.refs = n] \in Iface  BY <5>2, <5>4, IfaceSet
        <5>3. [iface[s] EXCEPT !.refs = iface[s].refs - 1] \in Iface  BY <5>5 DEF n
        <5> QED BY <1>c, <5>1, <5>3 DEF ServData
      <4> QED BY <1>c, <2>3, <4>1 DEF ServData
    <3> QED BY <3>1, <3>2, <3>3 DEF ServData, Svc, Iface
  <2>12. ASSUME NEW u \in Services PROVE Refcounted(u)' /\ Unnamed(u)'
    <3>1. \A c \in Connectors : thr'[c] = thr[c]  BY <1>a, <1>c, <2>4
    <3>2. svc'[u].has = svc[u].has /\ svc'[u].name = svc[u].name  BY <1>c, <2>3 DEF ServData, Svc, Iface
    <3>3. \A v \in Providers : <<"svc", u>> \in handles'[v] => <<"svc", u>> \in handles[v]  BY <1>c, <2>3 DEF ServData, Svc, Iface
    <3>4. Unnamed(u)'  BY <1>i, <3>2, <3>3, Zenon DEF Unnamed
    <3>5. CASE k = "svc" \/ u # s
      <4>1. iface'[u].refs = iface[u].refs  BY <1>c, <2>3, <3>5 DEF ServData, Svc, Iface
      <4>2. \A v \in Providers : <<"iface", u>> \in handles'[v] <=> <<"iface", u>> \in handles[v]
        BY <1>c, <2>3, <3>5, Zenon DEF ServData, Svc, Iface
      <4> QED BY <2>8, <3>1, <3>2, <3>4, <4>1, <4>2, CountSame
    <3>6. CASE k = "iface" /\ u = s
      <4>1. iface'[u].refs = iface[u].refs - 1  BY <1>c, <2>3, <3>6 DEF ServData, Svc, Iface
      <4>2. HolderHandles(u)' = HolderHandles(u) \ {t} /\ t \in HolderHandles(u)
        BY <1>c, <2>1, <2>2, <2>3, <3>6 DEF ServData, Svc, Iface, HolderHandles
      <4>3. HolderClients(u)' = HolderClients(u)  BY <3>1 DEF HolderClients
      <4>4. Cardinality(HolderHandles(u) \ {t}) = Cardinality(HolderHandles(u)) - 1
        BY <4>2, ServFacts, FS_RemoveElement, Zenon
      <4>5. Cardinality(HolderClients(u)) \in Nat /\ Cardinality(HolderHandles(u)) \in Nat  BY ServFacts
      <4>6. iface[u].alive /\ iface'[u].alive  BY <2>1, <2>2, <2>8, <3>6, HeldLives
      <4>7. iface[u].refs = (IF svc[u].has THEN 1 ELSE 0) + Cardinality(HolderHandles(u)) + Cardinality(HolderClients(u))
        BY <1>i DEF Refcounted
      <4>8. Refcounted(u)'  BY <3>2, <4>1, <4>2, <4>3, <4>4, <4>5, <4>6, <4>7 DEF Refcounted
      <4> QED BY <3>4, <4>8
    <3> QED BY <2>2, <3>5, <3>6
  <2> QED BY <2>10, <2>11, <2>12 DEF ServInv
<1> QED BY <1>1, <1>2, <1>3, <1>4, <1>5

(* A client moves, and counts change by the references that it drops.      *)
LEMMA ClientMoves ==
  ASSUME ServInv, Served, ServData', NEW c \in Connectors, NEW row, row \in RowOf(c), thr' = [thr EXCEPT ![c] = row],
         made' = made, handles' = handles,
         row.pc \in Inner <=> thr[c].pc \in Inner, thr[c].pc \in Inner => row.obj = thr[c].obj,
         row.end \in {thr[c].end, None, 0},
         \A s \in Services :
            /\ svc'[s].has = svc[s].has /\ svc'[s].name = svc[s].name /\ iface'[s].incoming = iface[s].incoming
            /\ iface'[s].waiting = iface[s].waiting /\ iface'[s].alive = iface[s].alive
            /\ (Holds(row, s) <=> Holds(thr[c], s)) => iface'[s].refs = iface[s].refs
            /\ Holds(row, s) /\ ~Holds(thr[c], s) => svc[s].has /\ iface'[s].refs = iface[s].refs + 1
            /\ ~Holds(row, s) /\ Holds(thr[c], s) => iface'[s].refs = iface[s].refs - 1
  PROVE  ServInv'
<1>1. c \in V!Threads /\ c \notin Providers /\ thr[c] \in RowOf(c)  BY ServSides, ServFacts
<1>2. thr[c].pc # "pairing" /\ row.pc # "pairing"  BY <1>1 DEF RowOf, Places
<1>3. \A s \in Services : iface[s].waiting \subseteq Providers  BY DEF ServInv, ServData, Iface
<1>4. \A s \in Services : iface'[s].incoming = iface[s].incoming /\ \A u \in iface'[s].waiting : u \in iface[s].waiting /\ u # c
  BY <1>1, <1>3
<1>5. ServRows' /\ ServLists' /\ ServEnds'  BY <1>1, <1>2, <1>4, ServMoved, Zenon
<1>6. thr'[c] = row /\ \A d \in Connectors : d # c => thr'[d] = thr[d]  BY <1>1, ServSides DEF ServInv, ServRows
<1>7. ASSUME NEW s \in Services PROVE Refcounted(s)' /\ Unnamed(s)'
  <2>1. \A d \in Connectors : d # c => (Holds(thr'[d], s) <=> Holds(thr[d], s))  BY <1>6
  <2>2. Holds(thr'[c], s) <=> Holds(row, s)  BY <1>6
  <2>3. Unnamed(s)'  BY DEF ServInv, Unnamed
  <2>4. CASE Holds(row, s) <=> Holds(thr[c], s)  BY <2>1, <2>2, <2>3, <2>4, CountSame
  <2>5. CASE Holds(row, s) /\ ~Holds(thr[c], s)  BY <2>1, <2>2, <2>3, <2>5, CountMore
  <2>6. CASE ~Holds(row, s) /\ Holds(thr[c], s)  BY <2>1, <2>2, <2>3, <2>6, CountGone
  <2> QED BY <2>4, <2>5, <2>6
<1> QED BY <1>5, <1>7 DEF ServInv

LEMMA SvcRefs ==
  ASSUME ServData, NEW s \in Services, NEW n \in Int, svc' = [svc EXCEPT ![s].refs = n]
  PROVE  /\ svc' \in [Services -> Svc]
         /\ \A u \in Services : svc'[u].has = svc[u].has /\ svc'[u].name = svc[u].name
<1>1. svc \in [Services -> Svc] /\ svc[s] \in Svc  BY DEF ServData
<1> DEFINE r == svc[s]
           x == [r EXCEPT !.refs = n]
<1>2. svc' = [svc EXCEPT ![s] = x]  BY <1>1
<1>3. r \in Svc  BY <1>1
<1> HIDE DEF r
<1>4. x \in Svc /\ x.has = r.has /\ x.name = r.name  BY <1>3 DEF Svc
<1> HIDE DEF x
<1> QED BY <1>1, <1>2, <1>4 DEF r

LEMMA IfaceRefs ==
  ASSUME ServData, NEW s \in Services, NEW n \in Int, iface' = [iface EXCEPT ![s].refs = n]
  PROVE  /\ iface' \in [Services -> Iface] /\ iface'[s].refs = n
         /\ \A u \in Services : u # s => iface'[u] = iface[u]
         /\ \A u \in Services : /\ iface'[u].incoming = iface[u].incoming /\ iface'[u].waiting = iface[u].waiting
                                /\ iface'[u].alive = iface[u].alive
<1>1. iface \in [Services -> Iface] /\ iface[s] \in Iface  BY DEF ServData
<1> DEFINE r == iface[s]
           x == [r EXCEPT !.refs = n]
<1>2. iface' = [iface EXCEPT ![s] = x]  BY <1>1
<1>3. r \in Iface  BY <1>1
<1> HIDE DEF r
<1>4. x \in Iface /\ x.refs = n /\ x.incoming = r.incoming /\ x.waiting = r.waiting /\ x.alive = r.alive
  BY <1>3, IfaceSet
<1> HIDE DEF x
<1> QED BY <1>1, <1>2, <1>4 DEF r

LEMMA ServConnects ==
  ASSUME ServInv, Served, NEW c \in Connectors,
         (\E s \in Services : V!Resolve(c, s)) \/ V!ResolveInterface(c) \/ V!NoInterface(c) \/ V!ConnectInactive(c)
         \/ V!ConnectWaits(c) \/ V!Connected(c)
  PROVE  ServInv'
<1>a. c \in V!Threads /\ c \notin Providers  BY ServSides
<1>b. thr[c] \in RowOf(c) /\ thr[c] \in Shapes /\ thr[c].end \in {None} \cup Nat /\ thr[c].name \in Names \cup {None}
      /\ thr[c].obj \in Services \cup Connectors \cup {None}
  BY <1>a, ServFacts DEF Shapes
<1>c. ServData /\ thr = [u \in V!Threads |-> thr[u]] /\ iface \in [Services -> Iface] /\ svc \in [Services -> Svc]
  BY DEF ServInv, ServRows, ServData
<1>d. \A s \in Services : svc[s].refs \in Int /\ iface[s].refs \in Int  BY <1>c DEF Svc, Iface
<1> DEFINE o == thr[c].obj
<1>e. thr[c].pc \in AtService => o \in Services  BY <1>b DEF RowOf
<1>f. None \in Names \cup {None} /\ None \in Services \cup Connectors \cup {None} /\ 0 \in Nat /\ None # 0  BY DEF Served
<1>g. Places(c) = {"idle", "resolve", "svc-test", "connect", "tell", "waiting", "paired", "iface-test"}
  BY <1>a DEF Places
<1>j. \A p, x, y : y = [thr[c] EXCEPT !.pc = p, !.end = x] => y = R(p, thr[c].obj, thr[c].name, x)  BY <1>b, RowEnd, Zenon
<1>1. CASE \E s \in Services : V!Resolve(c, s)
  <2>1. PICK s \in Services : V!Resolve(c, s)  BY <1>1
  <2> DEFINE row == R("resolve", s, None, None)
             n == svc[s].refs + 1
  <2>2. /\ thr[c].pc = "idle" /\ thr' = [thr EXCEPT ![c] = row] /\ svc' = [svc EXCEPT ![s].refs = n]
        /\ UNCHANGED <<iface, handles, made>>
    <3>1. thr' = [thr EXCEPT ![c] = [V!Idle EXCEPT !.pc = "resolve", !.obj = s]]  BY <2>1, Zenon DEF V!Resolve
    <3>2. V!Idle \in Shapes  BY DEF V!Idle, Shapes, Anywhere
    <3>3. [V!Idle EXCEPT !.pc = "resolve", !.obj = s] = R("resolve", s, V!Idle.name, V!Idle.end)  BY <3>2, RowSet, Zenon
    <3>4. V!Idle.name = None /\ V!Idle.end = None  BY DEF V!Idle
    <3> QED BY <2>1, <3>1, <3>3, <3>4, Zenon DEF V!Resolve, V!At
  <2>3. n \in Int  BY <1>d
  <2> HIDE DEF n
  <2>4. /\ svc' \in [Services -> Svc]
        /\ \A u \in Services : svc'[u].has = svc[u].has /\ svc'[u].name = svc[u].name
    BY <1>c, <2>2, <2>3, SvcRefs, Zenon
  <2>5. ServData'  BY <1>c, <2>2, <2>4 DEF ServData
  <2>6. row \in RowOf(c)  BY <1>f, <1>g, RowIs
  <2>7. /\ row.pc \in Inner <=> thr[c].pc \in Inner
        /\ thr[c].pc \in Inner => row.obj = thr[c].obj
        /\ row.end \in {thr[c].end, None, 0}
    BY <2>2 DEF Inner, R
  <2>8. \A u \in Services : ~Holds(row, u) /\ ~Holds(thr[c], u)  BY <2>2 DEF Holds, R
  <2> HIDE DEF row
  <2> QED BY <2>2, <2>4, <2>5, <2>6, <2>7, <2>8, ClientMoves, ZenonT(60)
<1>2. CASE V!ResolveInterface(c)
  <2> DEFINE row == R("svc-test", o, thr[c].name, thr[c].end)
             n == svc[o].refs - 1
             m == iface[o].refs + 1
  <2>2. /\ thr[c].pc = "resolve" /\ svc' = [svc EXCEPT ![o].refs = n] /\ iface' = [iface EXCEPT ![o].refs = m]
        /\ svc[o].has /\ UNCHANGED <<handles, made>>
    BY <1>2 DEF V!ResolveInterface, V!At
  <2>3. thr' = [thr EXCEPT ![c] = row]
    <3>1. thr' = [thr EXCEPT ![c].pc = "svc-test", ![c].obj = o]  BY <1>2 DEF V!ResolveInterface, V!Moves
    <3>2. thr' = [thr EXCEPT ![c] = [thr[c] EXCEPT !.pc = "svc-test", !.obj = o]]  BY <1>c, <3>1, Zenon
    <3>3. [thr[c] EXCEPT !.pc = "svc-test", !.obj = o] = row  BY <1>b, RowSet, Zenon
    <3> QED BY <3>2, <3>3, Zenon
  <2>4. o \in Services /\ thr[c].end = None  BY <1>b, <1>e, <2>2 DEF AtService, RowOf
  <2>5. n \in Int /\ m \in Int  BY <1>d, <2>4
  <2>6. row \in RowOf(c)  BY <1>b, <1>g, <2>4, RowIs, Zenon
  <2>7. /\ row.pc \in Inner <=> thr[c].pc \in Inner
        /\ thr[c].pc \in Inner => row.obj = thr[c].obj
        /\ row.end \in {thr[c].end, None, 0}
    BY <2>2 DEF Inner, R
  <2>8. \A u \in Services : (Holds(row, u) <=> u = o) /\ ~Holds(thr[c], u)  BY <2>2, <2>4 DEF Holds, R
  <2>9. m = iface[o].refs + 1  OBVIOUS
  <2> HIDE DEF n, m, row, o
  <2>10. /\ svc' \in [Services -> Svc]
         /\ \A u \in Services : svc'[u].has = svc[u].has /\ svc'[u].name = svc[u].name
    BY <1>c, <2>2, <2>4, <2>5, SvcRefs, Zenon
  <2>11. /\ iface' \in [Services -> Iface] /\ iface'[o].refs = m
         /\ \A u \in Services : u # o => iface'[u] = iface[u]
         /\ \A u \in Services : /\ iface'[u].incoming = iface[u].incoming /\ iface'[u].waiting = iface[u].waiting
                                /\ iface'[u].alive = iface[u].alive
    BY <1>c, <2>2, <2>4, <2>5, IfaceRefs, Zenon
  <2>12. ServData'  BY <1>c, <2>2, <2>10, <2>11 DEF ServData
  <2>13. \A s \in Services :
            /\ (Holds(row, s) <=> Holds(thr[c], s)) => iface'[s].refs = iface[s].refs
            /\ Holds(row, s) /\ ~Holds(thr[c], s) => svc[s].has /\ iface'[s].refs = iface[s].refs + 1
            /\ ~Holds(row, s) /\ Holds(thr[c], s) => iface'[s].refs = iface[s].refs - 1
    BY <2>2, <2>8, <2>9, <2>11
  <2> QED BY <2>2, <2>3, <2>6, <2>7, <2>10, <2>11, <2>12, <2>13, ClientMoves, ZenonT(60)
<1>3. CASE V!NoInterface(c)
  <2> DEFINE row == R("svc-test", o, thr[c].name, 0)
             n == svc[o].refs - 1
  <2>2. /\ thr[c].pc = "resolve" /\ svc' = [svc EXCEPT ![o].refs = n] /\ UNCHANGED <<iface, handles, made>>
    BY <1>3 DEF V!NoInterface, V!At
  <2>3. thr' = [thr EXCEPT ![c] = row]
    <3>1. thr' = [thr EXCEPT ![c].pc = "svc-test", ![c].end = 0]  BY <1>3 DEF V!NoInterface
    <3>2. thr' = [thr EXCEPT ![c] = [thr[c] EXCEPT !.pc = "svc-test", !.end = 0]]  BY <1>c, <3>1, Zenon
    <3>4. \A x : [thr[c] EXCEPT !.pc = "svc-test", !.end = x] = R("svc-test", thr[c].obj, thr[c].name, x)  BY <1>j, Zenon
    <3>3. [thr[c] EXCEPT !.pc = "svc-test", !.end = 0] = row  BY <3>4, Zenon
    <3> QED BY <3>2, <3>3, Zenon
  <2>4. o \in Services  BY <1>e, <2>2 DEF AtService
  <2>5. n \in Int  BY <1>d, <2>4
  <2>6. row \in RowOf(c)  BY <1>b, <1>f, <1>g, <2>4, RowIs, Zenon
  <2>7. /\ row.pc \in Inner <=> thr[c].pc \in Inner
        /\ thr[c].pc \in Inner => row.obj = thr[c].obj
        /\ row.end \in {thr[c].end, None, 0}
    BY <2>2 DEF Inner, R
  <2>8. \A u \in Services : ~Holds(row, u) /\ ~Holds(thr[c], u)  BY <1>f, <2>2 DEF Holds, R
  <2> HIDE DEF n, row, o
  <2>10. /\ svc' \in [Services -> Svc]
         /\ \A u \in Services : svc'[u].has = svc[u].has /\ svc'[u].name = svc[u].name
    BY <1>c, <2>2, <2>4, <2>5, SvcRefs, Zenon
  <2>12. ServData'  BY <1>c, <2>2, <2>10 DEF ServData
  <2> QED BY <2>2, <2>3, <2>6, <2>7, <2>8, <2>10, <2>12, ClientMoves, ZenonT(60)
<1>4. CASE V!ConnectInactive(c) \/ V!Connected(c)
  <2> DEFINE e == IF V!ConnectInactive(c) THEN 0 ELSE thr[c].end
             row == R("iface-test", o, thr[c].name, e)
             m == iface[o].refs - 1
  <2>2. /\ thr[c].pc \in {"connect", "paired"} /\ iface' = [iface EXCEPT ![o].refs = m]
        /\ ~V!ConnectInactive(c) => thr[c].pc = "paired"
        /\ UNCHANGED <<svc, handles, made>>
    <3>1. thr[c].pc # "refused"  BY <1>b DEF RowOf, Shapes, Anywhere, AtService
    <3> QED BY <1>4, <3>1 DEF V!ConnectInactive, V!Connected, V!At
  <2>3. thr' = [thr EXCEPT ![c] = row]
    <3>1. CASE V!ConnectInactive(c)
      <4>1. thr' = [thr EXCEPT ![c].pc = "iface-test", ![c].end = 0]  BY <3>1 DEF V!ConnectInactive
      <4>2. thr' = [thr EXCEPT ![c] = [thr[c] EXCEPT !.pc = "iface-test", !.end = 0]]  BY <1>c, <4>1, Zenon
      <4>4. \A x : [thr[c] EXCEPT !.pc = "iface-test", !.end = x] = R("iface-test", thr[c].obj, thr[c].name, x)  BY <1>j, Zenon
      <4>3. [thr[c] EXCEPT !.pc = "iface-test", !.end = 0] = row  BY <3>1, <4>4, Zenon
      <4> QED BY <4>2, <4>3, Zenon
    <3>2. CASE ~V!ConnectInactive(c)
      <4>1. thr' = [thr EXCEPT ![c].pc = "iface-test", ![c].obj = o]  BY <1>4, <3>2 DEF V!Connected, V!Moves
      <4>2. thr' = [thr EXCEPT ![c] = [thr[c] EXCEPT !.pc = "iface-test", !.obj = o]]  BY <1>c, <4>1, Zenon
      <4>3. [thr[c] EXCEPT !.pc = "iface-test", !.obj = o] = row  BY <1>b, <3>2, RowSet, Zenon
      <4> QED BY <4>2, <4>3, Zenon
    <3> QED BY <3>1, <3>2
  <2>4. o \in Services  BY <1>e, <2>2 DEF AtService
  <2>5. m \in Int  BY <1>d, <2>4
  <2>6. e \in {None} \cup Nat /\ e # None /\ e \in {thr[c].end, None, 0}  BY <1>b, <1>f, <2>2 DEF RowOf
  <2> HIDE DEF e
  <2>7. row \in RowOf(c)  BY <1>b, <1>g, <2>4, <2>6, RowIs, Zenon
  <2>8. /\ row.pc \in Inner <=> thr[c].pc \in Inner
        /\ thr[c].pc \in Inner => row.obj = thr[c].obj
        /\ row.end \in {thr[c].end, None, 0}
    BY <2>2, <2>6 DEF Inner, R
  <2>9. \A u \in Services : ~Holds(row, u) /\ (Holds(thr[c], u) <=> u = o)  BY <2>2, <2>6 DEF Holds, R
  <2>10. m = iface[o].refs - 1  OBVIOUS
  <2> HIDE DEF m, row, o
  <2>11. /\ iface' \in [Services -> Iface] /\ iface'[o].refs = m
         /\ \A u \in Services : u # o => iface'[u] = iface[u]
         /\ \A u \in Services : /\ iface'[u].incoming = iface[u].incoming /\ iface'[u].waiting = iface[u].waiting
                                /\ iface'[u].alive = iface[u].alive
    BY <1>c, <2>2, <2>4, <2>5, IfaceRefs, Zenon
  <2>12. ServData'  BY <1>c, <2>2, <2>11 DEF ServData
  <2>13. \A s \in Services :
            /\ (Holds(row, s) <=> Holds(thr[c], s)) => iface'[s].refs = iface[s].refs
            /\ Holds(row, s) /\ ~Holds(thr[c], s) => svc[s].has /\ iface'[s].refs = iface[s].refs + 1
            /\ ~Holds(row, s) /\ Holds(thr[c], s) => iface'[s].refs = iface[s].refs - 1
    BY <2>2, <2>9, <2>10, <2>11
  <2> QED BY <2>2, <2>3, <2>7, <2>8, <2>11, <2>12, <2>13, ClientMoves, ZenonT(200)
<1>5. CASE V!ConnectWaits(c)
  <2> DEFINE row == R("waiting", o, thr[c].name, thr[c].end)
  <2>2. thr[c].pc = "tell" /\ UNCHANGED <<svc, iface, handles, made>>  BY <1>5 DEF V!ConnectWaits, V!At
  <2>3. thr' = [thr EXCEPT ![c] = row]
    <3>1. thr' = [thr EXCEPT ![c].pc = "waiting", ![c].obj = o]  BY <1>5 DEF V!ConnectWaits, V!Moves
    <3>2. thr' = [thr EXCEPT ![c] = [thr[c] EXCEPT !.pc = "waiting", !.obj = o]]  BY <1>c, <3>1, Zenon
    <3>3. [thr[c] EXCEPT !.pc = "waiting", !.obj = o] = row  BY <1>b, RowSet, Zenon
    <3> QED BY <3>2, <3>3, Zenon
  <2>4. o \in Services  BY <1>e, <2>2 DEF AtService
  <2>6. row \in RowOf(c)  BY <1>b, <1>g, <2>4, RowIs
  <2>7. /\ row.pc \in Inner <=> thr[c].pc \in Inner
        /\ thr[c].pc \in Inner => row.obj = thr[c].obj
        /\ row.end \in {thr[c].end, None, 0}
    BY <2>2 DEF Inner, R
  <2>8. \A u \in Services : Holds(row, u) <=> Holds(thr[c], u)  BY <2>2 DEF Holds, R
  <2>12. ServData'  BY <1>c, <2>2 DEF ServData
  <2> HIDE DEF row
  <2> QED BY <2>2, <2>3, <2>6, <2>7, <2>8, <2>12, ClientMoves, ZenonT(60)
<1> QED BY <1>1, <1>2, <1>3, <1>4, <1>5

(* Dropping a reference: what a thread does next, and what goes.           *)
LEMMA AfterRow ==
  ASSUME ServInv, Served, NEW t \in V!Threads, thr[t].pc \in {"svc-test", "iface-test"}
  PROVE  /\ V!After(t) \in RowOf(t) /\ V!After(t).end = thr[t].end /\ V!After(t).pc \in {"connect", "idle"}
         /\ t \in Connectors => \A s : Holds(V!After(t), s) <=> Holds(thr[t], s)
<1>1. thr[t] \in RowOf(t) /\ thr[t] \in Shapes /\ thr[t].end \in {None} \cup Nat /\ thr[t].name \in Names \cup {None}
  BY ServFacts DEF Shapes
<1>2. thr[t].obj \in Services  BY <1>1 DEF RowOf, AtService
<1>3. CASE t \in Connectors /\ thr[t].end = None
  <2>1. V!After(t) = R("connect", thr[t].obj, thr[t].name, thr[t].end)  BY <1>1, <1>3, RowSet, Zenon DEF V!After
  <2>2. "connect" \in Places(t)  BY <1>3, ServSides DEF Places
  <2>3. R("connect", thr[t].obj, thr[t].name, thr[t].end) \in RowOf(t)  BY <1>1, <1>2, <2>2, RowIs
  <2> QED BY <1>3, <2>1, <2>3 DEF R, Holds
<1>4. CASE ~(t \in Connectors /\ thr[t].end = None)
  <2>1. V!After(t) = R("idle", None, None, thr[t].end)  BY <1>4 DEF V!After, V!Rest, V!Idle, R
  <2>2. "idle" \in Places(t)  BY DEF Places
  <2>3. R("idle", None, None, thr[t].end) \in RowOf(t)  BY <1>1, <2>2, RowIs, Zenon DEF AtService
  <2> QED BY <1>4, <2>1, <2>3 DEF R, Holds
<1> QED BY <1>3, <1>4

LEMMA ServTests ==
  ASSUME ServInv, Served, NEW t \in V!Threads, V!TestService(t)
  PROVE  ServInv'
<1>a. thr[t] \in RowOf(t) /\ thr[t] \in Shapes /\ thr[t].end \in {None} \cup Nat /\ thr[t].name \in Names \cup {None}
  BY ServFacts DEF Shapes
<1>b. ServData /\ thr = [u \in V!Threads |-> thr[u]] /\ iface \in [Services -> Iface] /\ svc \in [Services -> Svc]
  BY DEF ServInv, ServRows, ServData
<1>c. thr[t].pc = "svc-test"  BY DEF V!TestService, V!At
<1> DEFINE s == thr[t].obj
           dies == svc[s].refs = 0 /\ svc[s].alive
           drops == dies /\ svc[s].has
           row == IF drops THEN R("iface-test", s, thr[t].name, thr[t].end) ELSE V!After(t)
           n == iface[s].refs - 1
<1>1. /\ svc' = IF dies THEN [svc EXCEPT ![s].alive = FALSE, ![s].listed = FALSE, ![s].has = FALSE] ELSE svc
      /\ iface' = IF drops THEN [iface EXCEPT ![s].refs = n] ELSE iface
      /\ UNCHANGED <<handles, made>>
  BY DEF V!TestService
<1>2. thr' = [thr EXCEPT ![t] = row]
  <2>1. thr' = [thr EXCEPT ![t] = IF drops THEN [thr[t] EXCEPT !.pc = "iface-test"] ELSE V!After(t)]
    BY DEF V!TestService
  <2>2. [thr[t] EXCEPT !.pc = "iface-test"] = R("iface-test", s, thr[t].name, thr[t].end)  BY <1>a, RowSet, Zenon
  <2> QED BY <2>1, <2>2, Zenon
<1>3. s \in Services  BY <1>a, <1>c DEF RowOf, AtService
<1>4. row \in RowOf(t) /\ row.end = thr[t].end /\ row.pc \in {"connect", "idle", "iface-test"}
      /\ (t \in Connectors => \A u : Holds(row, u) <=> Holds(thr[t], u))
  <2>1. CASE drops
    <3>1. "iface-test" \in Places(t)  BY DEF Places
    <3>2. R("iface-test", s, thr[t].name, thr[t].end) \in RowOf(t)  BY <1>a, <1>3, <3>1, RowIs
    <3> QED BY <1>c, <2>1, <3>2 DEF R, Holds
  <2>2. CASE ~drops  BY <1>c, <2>2, AfterRow
  <2> QED BY <2>1, <2>2
<1>5. svc' \in [Services -> Svc] /\ (\A u \in Services : u # s => svc'[u] = svc[u])
      /\ svc'[s].name = svc[s].name /\ svc'[s].has = (svc[s].has /\ ~dies)
  <2>1. CASE dies
    <3> DEFINE r == svc[s]
               a == [r EXCEPT !.alive = FALSE]
               b == [a EXCEPT !.listed = FALSE]
               z == [b EXCEPT !.has = FALSE]
    <3>1. svc' = [svc EXCEPT ![s] = z]
      <4>1. svc' = [svc EXCEPT ![s].alive = FALSE, ![s].listed = FALSE, ![s].has = FALSE]  BY <1>1, <2>1
      <4> QED BY <1>b, <1>3, <4>1, Zenon
    <3>2. r \in Svc  BY <1>b, <1>3
    <3> HIDE DEF r
    <3>3. a \in Svc /\ a.name = r.name  BY <3>2, Zenon DEF Svc
    <3> HIDE DEF a
    <3>4. b \in Svc /\ b.name = r.name  BY <3>3, Zenon DEF Svc
    <3> HIDE DEF b
    <3>5. z \in Svc /\ z.name = r.name /\ z.has = FALSE  BY <3>4, Zenon DEF Svc
    <3> HIDE DEF z, s
    <3> QED BY <1>b, <1>3, <2>1, <3>1, <3>5, Zenon DEF r
  <2>2. CASE ~dies
    <3>1. svc[s].has \in BOOLEAN  BY <1>b, <1>3 DEF Svc
    <3> QED BY <1>1, <1>b, <2>2, <3>1, Zenon
  <2> QED BY <2>1, <2>2
<1>6. n \in Int  BY <1>b, <1>3 DEF Iface
<1>7. /\ iface' \in [Services -> Iface] /\ (drops => iface'[s].refs = n) /\ (~drops => iface' = iface)
      /\ \A u \in Services : u # s => iface'[u] = iface[u]
      /\ \A u \in Services : /\ iface'[u].incoming = iface[u].incoming /\ iface'[u].waiting = iface[u].waiting
                             /\ iface'[u].alive = iface[u].alive
  <2>1. CASE drops
    <3>1. iface' = [iface EXCEPT ![s].refs = n]  BY <1>1, <2>1
    <3> HIDE DEF n, s
    <3> QED BY <1>b, <1>3, <1>6, <2>1, <3>1, IfaceRefs, Zenon
  <2>2. CASE ~drops  BY <1>1, <1>b, <2>2, ZenonT(60)
  <2> QED BY <2>1, <2>2
<1>8. ServData'  BY <1>1, <1>b, <1>5, <1>7 DEF ServData
<1>9. ServRows' /\ ServLists' /\ ServEnds'
  <2>1. /\ thr[t].pc # "pairing" /\ row.pc # "pairing"
        /\ row.pc \in Inner <=> thr[t].pc \in Inner
        /\ thr[t].pc \in Inner => row.obj = thr[t].obj
        /\ row.end \in {thr[t].end, None, 0}
    BY <1>4, <1>c DEF Inner
  <2>2. \A u \in Services : \A v \in iface[u].waiting : thr[v].pc = "watching"  BY DEF ServInv, ServLists
  <2>3. \A u \in Services : iface'[u].incoming = iface[u].incoming /\ \A v \in iface'[u].waiting : v \in iface[u].waiting /\ v # t
    BY <1>7, <1>c, <2>2
  <2> HIDE DEF row
  <2> QED BY <1>1, <1>2, <1>4, <2>1, <2>3, ServMoved, Zenon
<1>10. \A c \in Connectors : \A u \in Services : Holds(thr'[c], u) <=> Holds(thr[c], u)
  <2>1. \A c \in Connectors : c = t \/ thr'[c] = thr[c]  BY <1>b, <1>2, ServSides
  <2>2. thr'[t] = row  BY <1>b, <1>2
  <2> HIDE DEF row
  <2> QED BY <1>4, <2>1, <2>2
<1>11. ASSUME NEW u \in Services PROVE Refcounted(u)' /\ Unnamed(u)'
  <2>1. Unnamed(u)'
    <3>1. svc'[u].name = svc[u].name /\ (svc'[u].has => svc[u].has)  BY <1>5, Zenon
    <3> QED BY <1>1, <3>1, Zenon DEF ServInv, Unnamed
  <2>2. CASE u # s \/ ~drops
    <3>1. svc'[u].has = svc[u].has
      <4>1. svc[s].has \in BOOLEAN  BY <1>b, <1>3 DEF Svc
      <4> HIDE DEF s
      <4> QED BY <1>5, <2>2, <4>1
    <3>2. iface'[u].refs = iface[u].refs  BY <1>7, <2>2
    <3> QED BY <1>1, <1>7, <1>10, <2>1, <3>1, <3>2, CountSame, Zenon
  <2>3. CASE u = s /\ drops
    <3>1. HolderClients(u)' = HolderClients(u)  BY <1>10 DEF HolderClients
    <3>2. HolderHandles(u)' = HolderHandles(u)  BY <1>1 DEF HolderHandles
    <3>3. /\ iface[u].refs = 1 + Cardinality(HolderHandles(u)) + Cardinality(HolderClients(u))
          /\ Cardinality(HolderClients(u)) \in Nat /\ Cardinality(HolderHandles(u)) \in Nat
          /\ ~iface[u].alive => iface[u].refs = 0
      BY <2>3, ServFacts DEF ServInv, Refcounted
    <3>4. ~svc'[u].has /\ iface'[u].refs = iface[u].refs - 1 /\ iface'[u].alive = iface[u].alive
      BY <1>5, <1>7, <2>3, Zenon
    <3> QED BY <2>1, <3>1, <3>2, <3>3, <3>4 DEF Refcounted
  <2> QED BY <2>2, <2>3
<1> QED BY <1>8, <1>9, <1>11 DEF ServInv

LEMMA IfaceTests ==
  ASSUME ServInv, Served, NEW t \in V!Threads, V!TestInterface(t)
  PROVE  ServInv'
<1>a. thr[t] \in RowOf(t) /\ thr[t].pc = "iface-test"  BY ServFacts, Zenon DEF V!TestInterface, V!At
<1>b. ServData /\ thr = [u \in V!Threads |-> thr[u]] /\ iface \in [Services -> Iface] /\ svc \in [Services -> Svc]
  BY DEF ServInv, ServRows, ServData
<1> DEFINE s == thr[t].obj
           dies == iface[s].refs = 0 /\ iface[s].alive
           row == V!After(t)
<1>1. /\ iface' = IF dies THEN [iface EXCEPT ![s].alive = FALSE, ![s].active = FALSE] ELSE iface
      /\ thr' = [u \in V!Threads |->
                    IF u = t THEN row
                    ELSE IF dies /\ V!Incoming(s, u) # {} THEN [thr[u] EXCEPT !.pc = "refused", !.end = 0] ELSE thr[u]]
      /\ UNCHANGED <<svc, handles, made>>
  BY Zenon DEF V!TestInterface
<1>2. s \in Services  BY <1>a DEF RowOf, AtService
<1>3. \A u : ~(dies /\ V!Incoming(s, u) # {})
  <2> SUFFICES ASSUME NEW u, dies, V!Incoming(s, u) # {} PROVE FALSE  OBVIOUS
  <2>1. PICK i \in DOMAIN iface[s].incoming : iface[s].incoming[i] = u  BY DEF V!Incoming
  <2>2. u \in Connectors
    <3>1. iface[s].incoming \in Seq(Connectors)  BY <1>b, <1>2 DEF Iface
    <3> QED BY <2>1, <3>1, ElementOfSeq
  <2>3. thr[u].pc \in Inner /\ thr[u].obj = s  BY <1>2, <2>1, <2>2 DEF ServInv, ServLists, On
  <2>4. Holds(thr[u], s)  BY <2>3 DEF Holds, Inner
  <2> QED BY <1>2, <2>2, <2>4, HeldLives, Zenon
<1>4. thr' = [thr EXCEPT ![t] = row]  BY <1>1, <1>3, <1>b, Zenon
<1>5. row \in RowOf(t) /\ row.end = thr[t].end /\ row.pc \in {"connect", "idle"}
      /\ (t \in Connectors => \A u : Holds(row, u) <=> Holds(thr[t], u))
  BY <1>a, AfterRow
<1>6. /\ iface' \in [Services -> Iface]
      /\ \A u \in Services : /\ iface'[u].incoming = iface[u].incoming /\ iface'[u].waiting = iface[u].waiting
                             /\ iface'[u].refs = iface[u].refs
                             /\ iface'[u].alive = iface[u].alive \/ iface[u].refs = 0
  <2>1. CASE dies
    <3> DEFINE r == iface[s]
               a == [r EXCEPT !.alive = FALSE]
               z == [a EXCEPT !.active = FALSE]
    <3>1. iface' = [iface EXCEPT ![s] = z]
      <4>1. iface' = [iface EXCEPT ![s].alive = FALSE, ![s].active = FALSE]  BY <1>1, <2>1, Zenon
      <4> QED BY <1>b, <1>2, <4>1, Zenon
    <3>2. r \in Iface /\ r.refs = 0  BY <1>b, <1>2, <2>1
    <3> HIDE DEF r
    <3>3. a \in Iface /\ a.refs = r.refs /\ a.incoming = r.incoming /\ a.waiting = r.waiting  BY <3>2, Zenon DEF Iface
    <3> HIDE DEF a
    <3>4. z \in Iface /\ z.refs = r.refs /\ z.incoming = r.incoming /\ z.waiting = r.waiting  BY <3>3, Zenon DEF Iface
    <3> HIDE DEF z, s
    <3>5. iface'[s] = z /\ \A u \in Services : u # s => iface'[u] = iface[u]  BY <1>b, <1>2, <3>1
    <3> QED BY <1>b, <1>2, <3>1, <3>2, <3>4, <3>5 DEF r
  <2>2. CASE ~dies  BY <1>1, <1>b, <2>2, Zenon
  <2> QED BY <2>1, <2>2
<1>7. ServData'  BY <1>1, <1>b, <1>6, Zenon DEF ServData
<1> HIDE DEF row
<1>8. ServRows' /\ ServLists' /\ ServEnds'
  <2>1. /\ thr[t].pc # "pairing" /\ row.pc # "pairing"
        /\ row.pc \in Inner <=> thr[t].pc \in Inner
        /\ thr[t].pc \in Inner => row.obj = thr[t].obj
        /\ row.end \in {thr[t].end, None, 0}
    BY <1>5, <1>a DEF Inner
  <2>2. \A u \in Services : \A v \in iface[u].waiting : thr[v].pc = "watching"  BY DEF ServInv, ServLists
  <2>3. \A u \in Services : iface'[u].incoming = iface[u].incoming /\ \A v \in iface'[u].waiting : v \in iface[u].waiting /\ v # t
    BY <1>6, <1>a, <2>2
  <2> QED BY <1>1, <1>4, <1>5, <2>1, <2>3, ServMoved, Zenon
<1>9. \A c \in Connectors : \A u \in Services : Holds(thr'[c], u) <=> Holds(thr[c], u)
  <2>1. \A c \in Connectors : c = t \/ thr'[c] = thr[c]  BY <1>b, <1>4, ServSides
  <2>2. thr'[t] = row  BY <1>b, <1>4
  <2> QED BY <1>5, <2>1, <2>2
<1>10. ASSUME NEW u \in Services PROVE Refcounted(u)' /\ Unnamed(u)'
  <2>1. Unnamed(u)'  BY <1>1, Zenon DEF ServInv, Unnamed
  <2>2. Refcounted(u)'  BY <1>1, <1>6, <1>9, CountSame, Zenon
  <2> QED BY <2>1, <2>2
<1> QED BY <1>7, <1>8, <1>10 DEF ServInv

(* Lists of connectors.                                                    *)
LEMMA OnAppend ==
  ASSUME NEW q \in Seq(Connectors), NEW c \in Connectors
  PROVE  /\ Append(q, c) \in Seq(Connectors) /\ \A d : On(Append(q, c), d) <=> (On(q, d) \/ d = c)
         /\ Distinct(q) /\ ~On(q, c) => Distinct(Append(q, c))
<1> DEFINE n == Len(q)
           r == Append(q, c)
<1>1. r \in Seq(Connectors) /\ Len(r) = n + 1 /\ (\A i \in 1..n : r[i] = q[i]) /\ r[n + 1] = c /\ n \in Nat
      /\ DOMAIN q = 1..n /\ DOMAIN r = 1..(n + 1)
  BY LenProperties, AppendProperties
<1> HIDE DEF n, r
<1>2. \A d : On(r, d) <=> (On(q, d) \/ d = c)
  <2>1. \A d : On(r, d) => (On(q, d) \/ d = c)  BY <1>1 DEF On
  <2>2. \A d : On(q, d) => On(r, d)  BY <1>1 DEF On
  <2>3. On(r, c)  BY <1>1 DEF On
  <2> QED BY <2>1, <2>2, <2>3
<1>3. Distinct(q) /\ ~On(q, c) => Distinct(r)  BY <1>1 DEF On, Distinct
<1> QED BY <1>1, <1>2, <1>3 DEF r

LEMMA OnTail ==
  ASSUME NEW q \in Seq(Connectors), q # <<>>, Distinct(q)
  PROVE  /\ Tail(q) \in Seq(Connectors) /\ Head(q) \in Connectors /\ Distinct(Tail(q))
         /\ On(q, Head(q)) /\ ~On(Tail(q), Head(q))
         /\ \A d : On(q, d) <=> (On(Tail(q), d) \/ d = Head(q))
<1> DEFINE n == Len(q)
           r == Tail(q)
           y == Head(q)
<1>1. /\ r \in Seq(Connectors) /\ y \in Connectors /\ y = q[1] /\ n \in Nat /\ n >= 1 /\ Len(r) = n - 1
      /\ \A i \in 1..(n - 1) : r[i] = q[i + 1]
      /\ DOMAIN q = 1..n /\ DOMAIN r = 1..(n - 1)
  BY LenProperties, HeadTailProperties, EmptySeq
<1> HIDE DEF n, r, y
<1>2. Distinct(r)
  <2> SUFFICES ASSUME NEW i \in 1..(n - 1), NEW j \in 1..(n - 1), r[i] = r[j] PROVE i = j  BY <1>1 DEF Distinct
  <2>1. q[i + 1] = q[j + 1] /\ i + 1 \in 1..n /\ j + 1 \in 1..n  BY <1>1
  <2>2. i + 1 = j + 1  BY <1>1, <2>1, Zenon DEF Distinct
  <2> QED BY <2>2
<1>3. On(q, y)  BY <1>1 DEF On
<1>4. ~On(r, y)
  <2> SUFFICES ASSUME NEW i \in 1..(n - 1), r[i] = y PROVE FALSE  BY <1>1 DEF On
  <2>1. q[i + 1] = q[1] /\ i + 1 \in 1..n /\ 1 \in 1..n  BY <1>1
  <2>2. i + 1 = 1  BY <1>1, <2>1 DEF Distinct
  <2> QED BY <2>2
<1>5. ASSUME NEW d PROVE On(q, d) <=> (On(r, d) \/ d = y)
  <2>1. ASSUME On(q, d) PROVE On(r, d) \/ d = y
    <3>1. PICK i \in 1..n : q[i] = d  BY <1>1, <2>1 DEF On
    <3>2. CASE i = 1  BY <1>1, <3>1, <3>2
    <3>3. CASE i # 1
      <4>1. i - 1 \in 1..(n - 1) /\ r[i - 1] = q[(i - 1) + 1] /\ (i - 1) + 1 = i  BY <1>1, <3>3
      <4> QED BY <1>1, <3>1, <4>1 DEF On
    <3> QED BY <3>2, <3>3
  <2>2. ASSUME On(r, d) PROVE On(q, d)
    <3>1. PICK i \in 1..(n - 1) : r[i] = d  BY <1>1, <2>2 DEF On
    <3>2. i + 1 \in 1..n /\ q[i + 1] = d  BY <1>1, <3>1
    <3> QED BY <1>1, <3>2 DEF On
  <2> QED BY <1>3, <2>1, <2>2
<1> QED BY <1>1, <1>2, <1>3, <1>4, <1>5 DEF r, y

(* One thread moves and keeps its end.                                     *)
LEMMA RowsMoved ==
  ASSUME ServInv, Served, NEW t \in V!Threads, NEW row, row \in RowOf(t), thr' = [thr EXCEPT ![t] = row], made' = made,
         row.end = thr[t].end
  PROVE  ServRows' /\ ServEnds'
<1>1. thr'[t] = row /\ \A u \in V!Threads : u # t => thr'[u] = thr[u]  BY DEF ServInv, ServRows
<1>2. ServRows'  BY <1>1 DEF ServInv, ServRows
<1>3. \A u \in V!Threads : thr'[u].end = thr[u].end  BY <1>1
<1>4. ServEnds'  BY <1>3 DEF ServInv, ServEnds
<1> QED BY <1>2, <1>4

LEMMA ServWatches ==
  ASSUME ServInv, Served, NEW t \in Providers, NEW s \in Services, V!Watch(t, s)
  PROVE  ServInv'
<1>a. t \in V!Threads /\ t \notin Connectors /\ \A c \in Connectors : c \in V!Threads /\ c # t  BY ServSides
<1>b. thr[t] \in RowOf(t) /\ thr[t] \in Shapes /\ thr[t].end \in {None} \cup Nat /\ thr[t].name \in Names \cup {None}
  BY <1>a, ServFacts DEF Shapes
<1>c. ServData /\ thr = [u \in V!Threads |-> thr[u]] /\ iface \in [Services -> Iface] /\ iface[s] \in Iface
  BY DEF ServInv, ServRows, ServData
<1> DEFINE row == R("watching", s, thr[t].name, thr[t].end)
           W == iface[s].waiting \cup {t}
           new == [iface[s] EXCEPT !.waiting = W]
<1>1. thr[t].pc = "idle" /\ iface' = [iface EXCEPT ![s] = new] /\ UNCHANGED <<svc, handles, made>>
  <2>1. iface' = [iface EXCEPT ![s].waiting = W]  BY DEF V!Watch
  <2> QED BY <1>c, <2>1 DEF V!Watch, V!At
<1>2. thr' = [thr EXCEPT ![t] = row]
  <2>1. thr' = [thr EXCEPT ![t].pc = "watching", ![t].obj = s]  BY DEF V!Watch, V!Moves
  <2>2. thr' = [thr EXCEPT ![t] = [thr[t] EXCEPT !.pc = "watching", !.obj = s]]  BY <1>c, <2>1, Zenon
  <2>3. [thr[t] EXCEPT !.pc = "watching", !.obj = s] = row  BY <1>b, RowSet, Zenon
  <2> QED BY <2>2, <2>3, Zenon
<1>3. W \in SUBSET Providers  BY <1>c DEF Iface
<1>4. row \in RowOf(t)
  <2>1. "watching" \in Places(t)  BY DEF Places
  <2> QED BY <1>b, <2>1, RowIs
<1>5. row.pc = "watching" /\ row.obj = s /\ row.end = thr[t].end  BY DEF R
<1>6. W = iface[s].waiting \cup {t}  OBVIOUS
<1> HIDE DEF W, row
<1>7. new \in Iface /\ new.refs = iface[s].refs /\ new.incoming = iface[s].incoming /\ new.alive = iface[s].alive
      /\ new.waiting = W
  BY <1>c, <1>3, IfaceSet
<1> HIDE DEF new
<1>8. iface'[s] = new /\ \A u \in Services : u # s => iface'[u] = iface[u]  BY <1>1, <1>c
<1>9. ServData'  BY <1>1, <1>c, <1>7 DEF ServData
<1>10. thr'[t] = row /\ \A u \in V!Threads : u # t => thr'[u] = thr[u]  BY <1>2, <1>a, <1>c
<1>11. /\ \A u \in V!Threads :
            /\ thr'[u].pc \in Inner <=> thr[u].pc \in Inner
            /\ thr[u].pc \in Inner => thr'[u].obj = thr[u].obj
            /\ thr'[u].pc = "pairing" <=> thr[u].pc = "pairing"
            /\ thr[u].pc = "pairing" => thr'[u] = thr[u]
            /\ thr'[u].end \in {thr[u].end, None, 0}
       /\ \A u \in Services : /\ iface'[u].incoming = iface[u].incoming
                              /\ \A v \in iface'[u].waiting : thr'[v].pc = "watching" /\ thr'[v].obj = u
  <2>1. \A u \in Services : \A v \in iface[u].waiting : v # t /\ v \in V!Threads /\ thr[v].pc = "watching" /\ thr[v].obj = u
    BY <1>1, <1>c, ServSides, Zenon DEF ServInv, ServLists, Iface
  <2>2. \A u \in Services : \A v \in iface'[u].waiting : thr'[v].pc = "watching" /\ thr'[v].obj = u
    BY <1>5, <1>6, <1>7, <1>8, <1>10, <2>1
  <2>3. \A u \in Services : iface'[u].incoming = iface[u].incoming  BY <1>7, <1>8
  <2>4. thr[t].pc \notin Inner \cup {"pairing"} /\ thr'[t].pc \notin Inner \cup {"pairing"} /\ thr'[t].end = thr[t].end
    BY <1>1, <1>5, <1>10 DEF Inner
  <2> QED BY <1>10, <2>2, <2>3, <2>4
<1>12. ServRows' /\ ServLists' /\ ServEnds'
  <2>1. ServLists' /\ ServEnds'  BY <1>1, <1>11, ServKept
  <2>2. ServRows'  BY <1>1, <1>2, <1>4, <1>5, <1>a, RowsMoved, Zenon
  <2> QED BY <2>1, <2>2
<1>13. ASSUME NEW u \in Services PROVE Refcounted(u)' /\ Unnamed(u)'
  <2>1. \A c \in Connectors : thr'[c] = thr[c]  BY <1>a, <1>2, <1>c
  <2>2. iface'[u].refs = iface[u].refs /\ iface'[u].alive = iface[u].alive  BY <1>7, <1>8
  <2>3. Refcounted(u)'  BY <1>1, <2>1, <2>2, CountSame
  <2> QED BY <1>1, <2>3 DEF ServInv, Unnamed
<1> QED BY <1>9, <1>12, <1>13 DEF ServInv

(* A connector comes on the list of an interface, or is taken off it.      *)
LEMMA ServJoins ==
  ASSUME ServInv, Served, NEW c \in Connectors, V!Connect(c)
  PROVE  ServInv'
<1>a. c \in V!Threads /\ c \notin Providers /\ \A t \in Providers : t \in V!Threads /\ t # c  BY ServSides
<1>b. thr[c] \in RowOf(c) /\ thr[c] \in Shapes /\ thr[c].end \in {None} \cup Nat /\ thr[c].name \in Names \cup {None}
  BY <1>a, ServFacts DEF Shapes
<1>c. ServData /\ thr = [u \in V!Threads |-> thr[u]] /\ iface \in [Services -> Iface]
  BY DEF ServInv, ServRows, ServData
<1> DEFINE s == thr[c].obj
           row == R("tell", s, thr[c].name, thr[c].end)
           q == iface[s].incoming
           r == Append(q, c)
           new == [iface[s] EXCEPT !.incoming = r]
<1>1. thr[c].pc = "connect" /\ UNCHANGED <<svc, handles, made>>  BY DEF V!Connect, V!At
<1>2. s \in Services  BY <1>1, <1>b DEF RowOf, AtService
<1>3. iface' = [iface EXCEPT ![s] = new]
  <2>1. iface' = [iface EXCEPT ![s].incoming = r]  BY DEF V!Connect
  <2> QED BY <1>c, <1>2, <2>1
<1>4. thr' = [thr EXCEPT ![c] = row]
  <2>1. thr' = [thr EXCEPT ![c].pc = "tell", ![c].obj = s]  BY DEF V!Connect, V!Moves
  <2>2. thr' = [thr EXCEPT ![c] = [thr[c] EXCEPT !.pc = "tell", !.obj = s]]  BY <1>c, <2>1, Zenon
  <2>3. [thr[c] EXCEPT !.pc = "tell", !.obj = s] = row  BY <1>b, RowSet, Zenon
  <2> QED BY <2>2, <2>3, Zenon
<1>5. row \in RowOf(c)
  <2>1. "tell" \in Places(c)  BY <1>a DEF Places
  <2> QED BY <1>b, <1>2, <2>1, RowIs
<1>6. row.pc = "tell" /\ row.obj = s /\ row.end = thr[c].end  BY DEF R
<1>7. q \in Seq(Connectors) /\ iface[s] \in Iface /\ Distinct(q)  BY <1>c, <1>2 DEF Iface, ServInv, ServLists
<1>8. \A u \in Services : ~On(iface[u].incoming, c)  BY <1>1 DEF ServInv, ServLists, Inner
<1>9. r \in Seq(Connectors) /\ Distinct(r) /\ \A d : On(r, d) <=> (On(q, d) \/ d = c)
  <2>1. ~On(q, c)  BY <1>2, <1>8
  <2> HIDE DEF q
  <2> QED BY <1>7, <2>1, OnAppend
<1>10. q = iface[s].incoming /\ s = thr[c].obj  OBVIOUS
<1> HIDE DEF row, r, q
<1>11. new \in Iface /\ new.refs = iface[s].refs /\ new.incoming = r /\ new.alive = iface[s].alive
       /\ new.waiting = iface[s].waiting
  BY <1>7, <1>9, IfaceSet
<1> HIDE DEF new, s
<1>12. iface'[s] = new /\ \A u \in Services : u # s => iface'[u] = iface[u]  BY <1>2, <1>3, <1>c
<1>13. ServData'  BY <1>1, <1>2, <1>3, <1>c, <1>11 DEF ServData
<1>14. ServRows' /\ ServEnds'  BY <1>1, <1>4, <1>5, <1>6, <1>a, RowsMoved, Zenon
<1>15. thr'[c] = row /\ \A u \in V!Threads : u # c => thr'[u] = thr[u]  BY <1>4, <1>a, <1>c
<1>16. \A u \in Services : \A d : On(iface'[u].incoming, d) <=> (On(iface[u].incoming, d) \/ (u = s /\ d = c))
  BY <1>9, <1>10, <1>11, <1>12
<1>17. ServLists'
  <2>1. \A u \in Services : \A v \in iface'[u].waiting : thr'[v].pc = "watching" /\ thr'[v].obj = u
    <3>1. \A u \in Services : \A v \in iface[u].waiting : v \in V!Threads /\ v # c /\ thr[v].pc = "watching" /\ thr[v].obj = u
      BY <1>a, <1>c, Zenon DEF ServInv, ServLists, Iface
    <3> QED BY <1>11, <1>12, <1>15, <3>1
  <2>2. \A u \in Services : Distinct(iface'[u].incoming)  BY <1>9, <1>11, <1>12 DEF ServInv, ServLists
  <2>3. ASSUME NEW u \in Services, NEW d \in Connectors, On(iface'[u].incoming, d)
        PROVE  thr'[d].pc \in Inner /\ thr'[d].obj = u
    <3>1. d \in V!Threads  BY ServSides
    <3>2. CASE d = c
      <4>1. u = s  BY <1>8, <1>16, <2>3, <3>2
      <4> QED BY <1>6, <1>15, <3>2, <4>1 DEF Inner
    <3>3. CASE d # c
      <4>1. On(iface[u].incoming, d)  BY <1>16, <2>3, <3>3
      <4> QED BY <1>15, <3>1, <3>3, <4>1 DEF ServInv, ServLists
    <3> QED BY <3>2, <3>3
  <2>4. \A u \in V!Threads : thr[u].pc = "pairing" => thr[u].obj \in Connectors  BY ServFacts DEF RowOf
  <2>5. ASSUME NEW t \in Providers, thr'[t].pc = "pairing"
        PROVE  /\ thr'[thr'[t].obj].pc \in Inner /\ ~On(iface'[thr'[thr'[t].obj].obj].incoming, thr'[t].obj)
               /\ \A u \in Providers : thr'[u].pc = "pairing" /\ thr'[u].obj = thr'[t].obj => u = t
    <3> DEFINE d == thr[t].obj
    <3>1. thr'[t] = thr[t] /\ thr[t].pc = "pairing" /\ thr'[t].obj = d  BY <1>15, <1>a, <2>5
    <3>2. d \in Connectors /\ d \in V!Threads  BY <2>4, <3>1, <1>a, ServSides
    <3>3. thr[d].pc \in Inner /\ ~On(iface[thr[d].obj].incoming, d)  BY <3>1 DEF ServInv, ServLists
    <3>4. d # c  BY <1>1, <3>3 DEF Inner
    <3>5. thr[d].obj \in Services  BY <3>2, <3>3, ServFacts DEF RowOf, Inner, AtService
    <3>6. \A u \in Providers : thr'[u].pc = "pairing" /\ thr'[u].obj = d => u = t
      BY <1>15, <1>a, <3>1 DEF ServInv, ServLists
    <3> HIDE DEF d
    <3>7. thr'[d] = thr[d]  BY <1>15, <3>2, <3>4
    <3> QED BY <1>16, <3>1, <3>3, <3>4, <3>5, <3>6, <3>7
  <2>6. ASSUME NEW d \in Connectors, thr'[d].pc \in Inner PROVE On(iface'[thr'[d].obj].incoming, d) \/ Taken(d)'
    <3>1. CASE d = c  BY <1>2, <1>6, <1>15, <1>16, <3>1
    <3>2. CASE d # c
      <4>1. d \in V!Threads /\ thr'[d] = thr[d]  BY <1>15, <3>2, ServSides
      <4>2. thr[d].obj \in Services  BY <2>6, <4>1, ServFacts DEF RowOf, Inner, AtService
      <4>3. Taken(d) => Taken(d)'  BY <1>15, <1>a DEF Taken
      <4> QED BY <1>16, <2>6, <4>1, <4>2, <4>3 DEF ServInv, ServLists
    <3> QED BY <3>1, <3>2
  <2> QED BY <2>1, <2>2, <2>3, <2>5, <2>6 DEF ServLists
<1>18. ASSUME NEW u \in Services PROVE Refcounted(u)' /\ Unnamed(u)'
  <2>1. \A d \in Connectors : Holds(thr'[d], u) <=> Holds(thr[d], u)
    <3>1. Holds(row, u) <=> Holds(thr[c], u)  BY <1>1, <1>6, <1>10 DEF Holds
    <3> QED BY <1>15, <3>1, ServSides
  <2>2. iface'[u].refs = iface[u].refs /\ iface'[u].alive = iface[u].alive  BY <1>11, <1>12
  <2>3. Refcounted(u)'  BY <1>1, <2>1, <2>2, CountSame
  <2> QED BY <1>1, <2>3 DEF ServInv, Unnamed
<1> QED BY <1>13, <1>14, <1>17, <1>18 DEF ServInv

LEMMA ServAccepts ==
  ASSUME ServInv, Served, NEW t \in Providers, NEW s \in Services, V!Accept(t, s)
  PROVE  ServInv'
<1>a. t \in V!Threads /\ t \notin Connectors /\ \A c \in Connectors : c \in V!Threads /\ c # t  BY ServSides
<1>b. thr[t] \in RowOf(t) /\ thr[t] \in Shapes /\ thr[t].end \in {None} \cup Nat /\ thr[t].name \in Names \cup {None}
  BY <1>a, ServFacts DEF Shapes
<1>c. ServData /\ thr = [u \in V!Threads |-> thr[u]] /\ iface \in [Services -> Iface] /\ iface[s] \in Iface
  BY DEF ServInv, ServRows, ServData
<1> DEFINE q == iface[s].incoming
           r == Tail(q)
           d == Head(q)
           row == R("pairing", d, thr[t].name, thr[t].end)
           new == [iface[s] EXCEPT !.incoming = r]
<1>1. thr[t].pc = "idle" /\ q # <<>> /\ UNCHANGED <<svc, handles, made>>  BY DEF V!Accept, V!At
<1>2. iface' = [iface EXCEPT ![s] = new]
  <2>1. iface' = [iface EXCEPT ![s].incoming = r]  BY DEF V!Accept, V!Accepted
  <2> QED BY <1>c, <2>1
<1>3. thr' = [thr EXCEPT ![t] = row]
  <2>1. thr' = [thr EXCEPT ![t].pc = "pairing", ![t].obj = d]  BY DEF V!Accept
  <2>2. thr' = [thr EXCEPT ![t] = [thr[t] EXCEPT !.pc = "pairing", !.obj = d]]  BY <1>c, <2>1, Zenon
  <2> HIDE DEF d
  <2>3. [thr[t] EXCEPT !.pc = "pairing", !.obj = d] = row  BY <1>b, RowSet, Zenon
  <2> QED BY <2>2, <2>3, Zenon
<1>4. q \in Seq(Connectors) /\ Distinct(q) /\ q = iface[s].incoming  BY <1>c DEF Iface, ServInv, ServLists
<1>5. /\ r \in Seq(Connectors) /\ d \in Connectors /\ Distinct(r) /\ On(q, d) /\ ~On(r, d)
      /\ \A x : On(q, x) <=> (On(r, x) \/ x = d)
  <2> HIDE DEF q
  <2> QED BY <1>1, <1>4, OnTail
<1>6. row.pc = "pairing" /\ row.obj = d /\ row.end = thr[t].end  BY DEF R
<1>7. row \in RowOf(t)
  <2>1. "pairing" \in Places(t)  BY DEF Places
  <2> HIDE DEF d
  <2> QED BY <1>b, <1>5, <2>1, RowIs, Zenon DEF AtService
<1> HIDE DEF row, r, d, q
<1>8. new \in Iface /\ new.refs = iface[s].refs /\ new.incoming = r /\ new.alive = iface[s].alive
      /\ new.waiting = iface[s].waiting
  BY <1>c, <1>5, IfaceSet
<1> HIDE DEF new
<1>9. iface'[s] = new /\ \A u \in Services : u # s => iface'[u] = iface[u]  BY <1>2, <1>c
<1>10. ServData'  BY <1>1, <1>2, <1>c, <1>8 DEF ServData
<1>11. ServRows' /\ ServEnds'  BY <1>1, <1>3, <1>6, <1>7, <1>a, RowsMoved, Zenon
<1>12. thr'[t] = row /\ \A u \in V!Threads : u # t => thr'[u] = thr[u]  BY <1>3, <1>a, <1>c
<1>13. \A c \in Connectors : thr'[c] = thr[c]  BY <1>12, <1>a
<1>14. \A u \in Services : \A x : On(iface'[u].incoming, x) <=> (On(iface[u].incoming, x) /\ ~(u = s /\ x = d))
  BY <1>4, <1>5, <1>8, <1>9
<1>15. thr[d].pc \in Inner /\ thr[d].obj = s  BY <1>4, <1>5 DEF ServInv, ServLists
<1>16. \A u \in Providers : thr[u].pc = "pairing" => thr[u].obj # d
  BY <1>4, <1>5, <1>15 DEF ServInv, ServLists
<1>17. ServLists'
  <2>1. \A u \in Services : \A v \in iface'[u].waiting : thr'[v].pc = "watching" /\ thr'[v].obj = u
    <3>1. \A u \in Services : \A v \in iface[u].waiting : v \in V!Threads /\ v # t /\ thr[v].pc = "watching" /\ thr[v].obj = u
      BY <1>1, <1>c, ServSides, Zenon DEF ServInv, ServLists, Iface
    <3> QED BY <1>8, <1>9, <1>12, <3>1
  <2>2. \A u \in Services : /\ Distinct(iface'[u].incoming)
                            /\ \A c \in Connectors : On(iface'[u].incoming, c) => thr'[c].pc \in Inner /\ thr'[c].obj = u
    <3>1. \A u \in Services : /\ Distinct(iface[u].incoming)
                              /\ \A c \in Connectors : On(iface[u].incoming, c) => thr[c].pc \in Inner /\ thr[c].obj = u
      BY DEF ServInv, ServLists
    <3>2. \A u \in Services : Distinct(iface'[u].incoming)  BY <1>5, <1>8, <1>9, <3>1
    <3>3. \A u \in Services : \A c \in Connectors : On(iface'[u].incoming, c) => On(iface[u].incoming, c)  BY <1>14
    <3> QED BY <1>13, <3>1, <3>2, <3>3
  <2>3. \A u \in V!Threads : thr[u].pc = "pairing" => thr[u].obj \in Connectors  BY ServFacts DEF RowOf
  <2>4. ASSUME NEW u \in Providers, thr'[u].pc = "pairing"
        PROVE  /\ thr'[thr'[u].obj].pc \in Inner /\ ~On(iface'[thr'[thr'[u].obj].obj].incoming, thr'[u].obj)
               /\ \A v \in Providers : thr'[v].pc = "pairing" /\ thr'[v].obj = thr'[u].obj => v = u
    <3>1. CASE u = t
      <4>1. thr'[u].obj = d /\ thr'[d] = thr[d]  BY <1>5, <1>6, <1>12, <1>13, <3>1
      <4>2. ~On(iface'[s].incoming, d)  BY <1>14
      <4>3. \A v \in Providers : v # t /\ thr'[v].pc = "pairing" => thr'[v].obj # d  BY <1>12, <1>16, ServSides
      <4> QED BY <1>15, <3>1, <4>1, <4>2, <4>3
    <3>2. CASE u # t
      <4> DEFINE e == thr[u].obj
      <4>1. thr'[u] = thr[u] /\ thr[u].pc = "pairing" /\ thr'[u].obj = e /\ u \in V!Threads  BY <1>12, <2>4, <3>2, ServSides
      <4>2. e \in Connectors /\ thr'[e] = thr[e] /\ e # d  BY <1>13, <1>16, <2>3, <4>1
      <4>3. thr[e].pc \in Inner /\ ~On(iface[thr[e].obj].incoming, e)  BY <4>1 DEF ServInv, ServLists
      <4>4. thr[e].obj \in Services  BY <4>2, <4>3, ServFacts, ServSides DEF RowOf, Inner, AtService
      <4>5. \A v \in Providers : thr[v].pc = "pairing" /\ thr[v].obj = e => v = u  BY <4>1 DEF ServInv, ServLists
      <4> HIDE DEF e
      <4>6. \A v \in Providers : thr'[v].pc = "pairing" /\ thr'[v].obj = e => v = u
        BY <1>6, <1>12, <4>2, <4>5, ServSides
      <4> QED BY <1>14, <4>1, <4>2, <4>3, <4>4, <4>6
    <3> QED BY <3>1, <3>2
  <2>5. ASSUME NEW c \in Connectors, thr'[c].pc \in Inner PROVE On(iface'[thr'[c].obj].incoming, c) \/ Taken(c)'
    <3>1. CASE c = d
      <4>1. thr'[t].pc = "pairing" /\ thr'[t].obj = d  BY <1>6, <1>12
      <4> QED BY <3>1, <4>1 DEF Taken
    <3>2. CASE c # d
      <4>1. thr'[c] = thr[c] /\ thr[c].obj \in Services  BY <1>13, <2>5, ServFacts, ServSides DEF RowOf, Inner, AtService
      <4>2. Taken(c) => Taken(c)'  BY <1>1, <1>12, ServSides DEF Taken
      <4> QED BY <1>14, <2>5, <3>2, <4>1, <4>2 DEF ServInv, ServLists
    <3> QED BY <3>1, <3>2
  <2> QED BY <2>1, <2>2, <2>4, <2>5 DEF ServLists
<1>18. ASSUME NEW u \in Services PROVE Refcounted(u)' /\ Unnamed(u)'
  <2>1. iface'[u].refs = iface[u].refs /\ iface'[u].alive = iface[u].alive  BY <1>8, <1>9
  <2>2. Refcounted(u)'  BY <1>1, <1>13, <2>1, CountSame
  <2> QED BY <1>1, <2>2 DEF ServInv, Unnamed
<1> QED BY <1>10, <1>11, <1>17, <1>18 DEF ServInv

(* A pair is made: two rows change at once, and both get the same new end. *)
LEMMA RowPaired ==
  ASSUME NEW r \in Shapes, NEW x, NEW y, NEW z, y = [r EXCEPT !.end = x], z = [y EXCEPT !.pc = "paired"]
  PROVE  z = R("paired", r.obj, r.name, x)
<1> DEFINE Y == [pc : Anywhere, obj : Services \cup Connectors \cup {None}, name : Names \cup {None}, end : {x}]
<1>1. y \in Y /\ y.pc = r.pc /\ y.obj = r.obj /\ y.name = r.name /\ y.end = x  BY DEF Shapes
<1>2. z \in [pc : {"paired"}, obj : Services \cup Connectors \cup {None}, name : Names \cup {None}, end : {x}]
      /\ z.pc = "paired" /\ z.obj = r.obj /\ z.name = r.name /\ z.end = x
  BY <1>1, Zenon
<1>3. z = R(z.pc, z.obj, z.name, z.end)  BY <1>2, Zenon DEF R
<1> QED BY <1>2, <1>3

LEMMA ServPairs ==
  ASSUME ServInv, Served, NEW t \in Providers, V!AcceptPair(t)
  PROVE  ServInv'
<1>a. t \in V!Threads /\ t \notin Connectors /\ \A d \in Connectors : d \in V!Threads /\ d # t /\ d \notin Providers
  BY ServSides
<1>b. ServData /\ thr = [u \in V!Threads |-> thr[u]] /\ made \in Nat /\ iface \in [Services -> Iface]
  BY DEF ServInv, ServRows, ServData
<1> DEFINE c == thr[t].obj
           m == made + 1
           row == R("paired", thr[c].obj, thr[c].name, m)
<1>1. thr[t].pc = "pairing" /\ made' = m /\ UNCHANGED <<svc, iface, handles>>  BY DEF V!AcceptPair, V!At
<1>2. c \in Connectors /\ c \in V!Threads /\ c # t  BY <1>1, <1>a, ServFacts DEF RowOf
<1>3. /\ thr[c].pc \in Inner /\ ~On(iface[thr[c].obj].incoming, c)
      /\ \A u \in Providers : thr[u].pc = "pairing" /\ thr[u].obj = c => u = t
  BY <1>1 DEF ServInv, ServLists
<1>4. thr[c] \in Shapes /\ thr[c] \in RowOf(c) /\ thr[c].name \in Names \cup {None} /\ thr[c].obj \in Services
  BY <1>2, <1>3, ServFacts DEF RowOf, Shapes, Inner, AtService
<1>5. /\ thr' = [u \in V!Threads |-> thr'[u]] /\ thr'[t] = R("idle", None, None, m) /\ thr'[c] = row
      /\ \A u \in V!Threads : u # t /\ u # c => thr'[u] = thr[u]
  <2> DEFINE x == [V!Idle EXCEPT !.end = m]
             y == [thr[c] EXCEPT !.end = m]
             z == [y EXCEPT !.pc = "paired"]
  <2>1. thr' = [thr EXCEPT ![t] = x, ![c].end = m, ![c].pc = "paired"]  BY DEF V!AcceptPair
  <2>2. x = R("idle", None, None, m)  BY DEF V!Idle, R
  <2> HIDE DEF x, m, c
  <2>3. thr' = [u \in V!Threads |-> IF u = c THEN z ELSE IF u = t THEN x ELSE thr[u]]
    BY <2>1, <1>2, <1>a, <1>b, Zenon
  <2>4. z = R("paired", thr[c].obj, thr[c].name, m)  BY <1>4, RowPaired, Zenon
  <2> HIDE DEF z
  <2> QED BY <2>2, <2>3, <2>4, <1>2, <1>a
<1>6. m \in Nat /\ m # None /\ made < m /\ m # 0  BY <1>b DEF Served
<1>7. /\ row \in RowOf(c) /\ row.pc = "paired" /\ row.obj = thr[c].obj /\ row.end = m
  <2>1. "paired" \in Places(c)  BY <1>2, <1>a DEF Places
  <2> QED BY <1>4, <1>6, <2>1, RowIs DEF R
<1>8. /\ R("idle", None, None, m) \in RowOf(t) /\ R("idle", None, None, m).pc = "idle"
      /\ R("idle", None, None, m).end = m
  <2>1. "idle" \in Places(t)  BY DEF Places
  <2> QED BY <1>6, <2>1, RowIs DEF R, AtService
<1> HIDE DEF row, m, c
<1>9. \A u \in V!Threads : thr[u].end \in {None} \cup Nat /\ (thr[u].end # None => thr[u].end <= made)
  BY ServFacts DEF ServInv, ServRows
<1>10. ServRows'
  <2>1. ASSUME NEW u \in V!Threads PROVE thr'[u] \in RowOf(u) /\ (thr'[u].end # None => thr'[u].end <= made')
    <3>1. CASE u = t  BY <1>1, <1>5, <1>6, <1>8, <3>1
    <3>2. CASE u = c  BY <1>1, <1>5, <1>6, <1>7, <3>2
    <3>3. CASE u # t /\ u # c
      <4>1. thr'[u] = thr[u] /\ thr[u] \in RowOf(u)  BY <1>5, <3>3, ServFacts
      <4> QED BY <1>1, <1>6, <1>9, <1>b, <4>1
    <3> QED BY <3>1, <3>2, <3>3
  <2>2. made' \in Nat  BY <1>1, <1>6
  <2> QED BY <1>5, <2>1, <2>2 DEF ServRows
<1>11. ServData'  BY <1>1, <1>b DEF ServData
<1>12. ASSUME NEW s \in Services PROVE Refcounted(s)' /\ Unnamed(s)'
  <2>1. Holds(row, s) <=> Holds(thr[c], s)  BY <1>3, <1>7 DEF Holds, Inner
  <2>2. \A d \in Connectors : Holds(thr'[d], s) <=> Holds(thr[d], s)  BY <1>5, <1>a, <2>1
  <2>3. Refcounted(s)'  BY <1>1, <2>2, CountSame
  <2> QED BY <1>1, <2>3 DEF ServInv, Unnamed
<1>13. ServLists'
  <2>1. \A s \in Services : \A u \in iface[s].waiting : thr'[u].pc = "watching" /\ thr'[u].obj = s
    <3>1. \A s \in Services : \A u \in iface[s].waiting :
             u \in V!Threads /\ u # t /\ u # c /\ thr[u].pc = "watching" /\ thr[u].obj = s
      BY <1>1, <1>2, <1>a, <1>b, ServSides, Zenon DEF ServInv, ServLists, Iface
    <3> QED BY <1>5, <3>1
  <2>2. ASSUME NEW s \in Services, NEW d \in Connectors, On(iface[s].incoming, d)
        PROVE  thr'[d].pc \in Inner /\ thr'[d].obj = s
    <3>1. thr[d].pc \in Inner /\ thr[d].obj = s  BY <2>2 DEF ServInv, ServLists
    <3>2. d # c  BY <1>3, <2>2, <3>1
    <3> QED BY <1>5, <1>a, <3>1, <3>2
  <2>3. \A s \in Services : Distinct(iface[s].incoming)  BY DEF ServInv, ServLists
  <2>4. ASSUME NEW u \in Providers, thr'[u].pc = "pairing"
        PROVE  /\ thr'[thr'[u].obj].pc \in Inner /\ ~On(iface[thr'[thr'[u].obj].obj].incoming, thr'[u].obj)
               /\ \A v \in Providers : thr'[v].pc = "pairing" /\ thr'[v].obj = thr'[u].obj => v = u
    <3> DEFINE e == thr[u].obj
    <3>1. u # t /\ u # c /\ u \in V!Threads  BY <1>2, <1>5, <1>8, <1>a, <2>4, ServSides
    <3>2. thr'[u] = thr[u] /\ thr[u].pc = "pairing" /\ thr'[u].obj = e  BY <1>5, <2>4, <3>1
    <3>3. e \in Connectors  BY <3>1, <3>2, ServFacts DEF RowOf
    <3>4. e # c  BY <1>3, <3>1, <3>2
    <3>5. thr[e].pc \in Inner /\ ~On(iface[thr[e].obj].incoming, e)
          /\ \A v \in Providers : thr[v].pc = "pairing" /\ thr[v].obj = e => v = u
      BY <3>2 DEF ServInv, ServLists
    <3> HIDE DEF e
    <3>6. thr'[e] = thr[e]  BY <1>5, <1>a, <3>3, <3>4
    <3>7. \A v \in Providers : thr'[v].pc = "pairing" => v # t /\ v # c /\ v \in V!Threads
      BY <1>2, <1>5, <1>8, <1>a, ServSides
    <3>8. \A v \in Providers : thr'[v].pc = "pairing" /\ thr'[v].obj = e => v = u  BY <1>5, <3>5, <3>7
    <3> QED BY <3>2, <3>5, <3>6, <3>8
  <2>5. ASSUME NEW d \in Connectors, thr'[d].pc \in Inner PROVE On(iface[thr'[d].obj].incoming, d) \/ Taken(d)'
    <3>1. d # c  BY <1>5, <1>7, <2>5 DEF Inner
    <3>2. thr'[d] = thr[d]  BY <1>5, <1>a, <3>1
    <3>3. On(iface[thr[d].obj].incoming, d) \/ Taken(d)  BY <2>5, <3>2 DEF ServInv, ServLists
    <3>4. Taken(d) => Taken(d)'
      <4> SUFFICES ASSUME NEW v \in Providers, thr[v].pc = "pairing", thr[v].obj = d PROVE Taken(d)'  BY DEF Taken
      <4>1. v # t /\ v # c /\ v \in V!Threads  BY <1>2, <1>a, <3>1, ServSides DEF c
      <4> QED BY <1>5, <4>1 DEF Taken
    <3> QED BY <3>2, <3>3, <3>4
  <2>6. iface' = iface  BY <1>1
  <2>7. \A s \in Services : \A d \in Connectors : On(iface[s].incoming, d) => thr'[d].pc \in Inner /\ thr'[d].obj = s
    BY <2>2
  <2> QED BY <2>1, <2>3, <2>4, <2>5, <2>6, <2>7 DEF ServLists
<1>14. ServEnds'
  <2> SUFFICES ASSUME NEW u \in V!Threads, NEW v \in V!Threads,
                      (u \in Providers /\ v \in Providers) \/ (u \in Connectors /\ v \in Connectors),
                      u # v, thr'[u].end \notin {None, 0}, thr'[v].end \notin {None, 0}
               PROVE  thr'[u].end # thr'[v].end
    BY DEF ServEnds
  <2>1. ~(u \in {t, c} /\ v \in {t, c})  BY <1>2, <1>a
  <2>2. \A w \in {t, c} : thr'[w].end = m  BY <1>5, <1>7, <1>8
  <2>3. \A w \in V!Threads : w \notin {t, c} => thr'[w] = thr[w]  BY <1>5
  <2>4. \A w \in V!Threads : thr[w].end # m  BY <1>6, <1>9, <1>b
  <2>5. CASE u \in {t, c} \/ v \in {t, c}  BY <2>1, <2>2, <2>3, <2>4, <2>5
  <2>6. CASE u \notin {t, c} /\ v \notin {t, c}  BY <2>3, <2>6 DEF ServInv, ServEnds
  <2> QED BY <2>5, <2>6
<1> QED BY <1>10, <1>11, <1>12, <1>13, <1>14 DEF ServInv

LEMMA ServTells ==
  ASSUME ServInv, Served, NEW c \in Connectors, V!ConnectSignals(c)
  PROVE  ServInv'
<1>a. c \in V!Threads /\ c \notin Providers  BY ServSides
<1>b. ServData /\ thr = [u \in V!Threads |-> thr[u]] /\ made \in Nat /\ iface \in [Services -> Iface]
  BY DEF ServInv, ServRows, ServData
<1>c. thr[c] \in RowOf(c) /\ thr[c] \in Shapes /\ thr[c].end \in {None} \cup Nat /\ thr[c].name \in Names \cup {None}
  BY <1>a, ServFacts DEF Shapes
<1> DEFINE s == thr[c].obj
           W == iface[s].waiting
           p == IF thr[c].pc = "tell" THEN "waiting" ELSE "paired"
           row == R(p, s, thr[c].name, thr[c].end)
           new == [iface[s] EXCEPT !.waiting = {}]
<1>1. thr[c].pc \in {"tell", "paired"} /\ UNCHANGED <<svc, handles, made>>  BY DEF V!ConnectSignals
<1>2. s \in Services  BY <1>1, <1>c DEF RowOf, AtService
<1>3. iface' = [iface EXCEPT ![s] = new]
  <2>1. iface' = [iface EXCEPT ![s].waiting = {}]  BY DEF V!ConnectSignals
  <2> QED BY <1>b, <1>2, <2>1
<1>4. W \subseteq Providers /\ \A u \in W : u \in V!Threads /\ thr[u].pc = "watching" /\ u # c
  <2>1. W \subseteq Providers  BY <1>b, <1>2 DEF Iface
  <2>2. \A u \in W : thr[u].pc = "watching"  BY <1>2 DEF ServInv, ServLists
  <2> QED BY <1>a, <2>1, <2>2, ServSides
<1>5. /\ thr' = [u \in V!Threads |-> thr'[u]] /\ thr'[c] = row
      /\ \A u \in V!Threads : u # c => thr'[u] = IF u \in W THEN V!Idle ELSE thr[u]
  <2> DEFINE g == V!Signalled(s)
  <2>1. g = [u \in V!Threads |-> IF u \in W THEN V!Idle ELSE thr[u]]  BY DEF V!Signalled
  <2>2. thr' = [g EXCEPT ![c].pc = IF g[c].pc = "tell" THEN "waiting" ELSE "paired"]  BY DEF V!ConnectSignals
  <2> HIDE DEF g, W
  <2>3. g[c] = thr[c]  BY <1>4, <1>a, <2>1
  <2>4. thr' = [g EXCEPT ![c] = [thr[c] EXCEPT !.pc = p]]  BY <1>a, <2>1, <2>2, <2>3, Zenon
  <2> HIDE DEF p
  <2>5. [thr[c] EXCEPT !.pc = p] = row  BY <1>c, RowSet, Zenon
  <2> HIDE DEF row
  <2> QED BY <1>a, <2>1, <2>4, <2>5
<1>6. /\ row \in RowOf(c) /\ row.pc = p /\ row.obj = s /\ row.end = thr[c].end
  <2>1. p \in Places(c) /\ p \in AtService  BY <1>a DEF Places, AtService
  <2>2. p = "paired" => thr[c].end # None  BY <1>1, <1>c DEF RowOf
  <2>3. p # "pairing" /\ p # "creating" /\ p # "resolve"  OBVIOUS
  <2> HIDE DEF p
  <2> QED BY <1>2, <1>c, <2>1, <2>2, <2>3, RowIs DEF R
<1>7. new \in Iface /\ new.refs = iface[s].refs /\ new.incoming = iface[s].incoming /\ new.alive = iface[s].alive
      /\ new.waiting = {}
  <2>1. iface[s] \in Iface  BY <1>b, <1>2
  <2>2. {} \in SUBSET Providers  OBVIOUS
  <2> HIDE DEF s
  <2> QED BY <2>1, <2>2, IfaceSet, ZenonT(60)
<1>8. p \in Inner <=> thr[c].pc \in Inner  BY <1>1 DEF Inner
<1>p. p \in {"waiting", "paired"}  OBVIOUS
<1>w. W = iface[s].waiting /\ s = thr[c].obj  OBVIOUS
<1> HIDE DEF new, row, p, W, s
<1>9. iface'[s] = new /\ \A u \in Services : u # s => iface'[u] = iface[u]  BY <1>2, <1>3, <1>b
<1>10. ServData'  BY <1>1, <1>2, <1>3, <1>b, <1>7 DEF ServData
<1>11. V!Idle.pc = "idle" /\ V!Idle.end = None /\ \A u : V!Idle \in RowOf(u)
  <2>1. V!Idle = R("idle", None, None, None)  BY DEF V!Idle, R
  <2>2. \A u : "idle" \in Places(u)  BY DEF Places
  <2>3. \A u : R("idle", None, None, None) \in RowOf(u)  BY <2>2, RowIs, Zenon DEF AtService
  <2> QED BY <2>1, <2>3 DEF V!Idle
<1>12. ServRows'
  <2>1. ASSUME NEW u \in V!Threads PROVE thr'[u] \in RowOf(u) /\ (thr'[u].end # None => thr'[u].end <= made)
    <3>1. thr[u] \in RowOf(u) /\ (thr[u].end # None => thr[u].end <= made)  BY ServFacts DEF ServInv, ServRows
    <3>2. CASE u = c  BY <1>5, <1>6, <3>1, <3>2
    <3>3. CASE u # c  BY <1>5, <1>11, <3>1, <3>3
    <3> QED BY <3>2, <3>3
  <2> QED BY <1>1, <1>5, <1>b, <2>1 DEF ServRows
<1>13. ServLists' /\ ServEnds'
  <2>1. ASSUME NEW u \in V!Threads
        PROVE  /\ thr'[u].pc \in Inner <=> thr[u].pc \in Inner
               /\ thr[u].pc \in Inner => thr'[u].obj = thr[u].obj
               /\ thr'[u].pc = "pairing" <=> thr[u].pc = "pairing"
               /\ thr[u].pc = "pairing" => thr'[u] = thr[u]
               /\ thr'[u].end \in {thr[u].end, None, 0}
    <3>1. CASE u = c  BY <1>1, <1>5, <1>6, <1>8, <1>p, <1>w, <3>1
    <3>2. CASE u \in W  BY <1>4, <1>5, <1>11, <3>2 DEF Inner
    <3>3. CASE u # c /\ u \notin W  BY <1>5, <3>3
    <3> QED BY <3>1, <3>2, <3>3
  <2>2. \A u \in Services : /\ iface'[u].incoming = iface[u].incoming
                            /\ \A v \in iface'[u].waiting : thr'[v].pc = "watching" /\ thr'[v].obj = u
    <3>1. ASSUME NEW u \in Services, NEW v \in iface'[u].waiting PROVE thr'[v].pc = "watching" /\ thr'[v].obj = u
      <4>1. u # s /\ v \in iface[u].waiting  BY <1>7, <1>9, <3>1
      <4>2. thr[v].pc = "watching" /\ thr[v].obj = u /\ v \in V!Threads /\ v # c
        BY <1>1, <1>b, <4>1, ServSides, Zenon DEF ServInv, ServLists, Iface
      <4>3. v \notin W  BY <1>2, <1>w, <4>1, <4>2 DEF ServInv, ServLists
      <4> QED BY <1>5, <4>2, <4>3
    <3> QED BY <1>7, <1>9, <3>1
  <2> QED BY <1>1, <2>1, <2>2, ServKept
<1>14. ASSUME NEW u \in Services PROVE Refcounted(u)' /\ Unnamed(u)'
  <2>1. \A d \in Connectors : Holds(thr'[d], u) <=> Holds(thr[d], u)
    <3>1. Holds(row, u) <=> Holds(thr[c], u)  BY <1>1, <1>6, <1>p, <1>w DEF Holds
    <3>2. \A d \in Connectors : d \in V!Threads /\ d \notin W  BY <1>4, ServSides
    <3> QED BY <1>5, <3>1, <3>2
  <2>2. iface'[u].refs = iface[u].refs /\ iface'[u].alive = iface[u].alive  BY <1>7, <1>9
  <2>3. Refcounted(u)'  BY <1>1, <2>1, <2>2, CountSame
  <2> QED BY <1>1, <2>3 DEF ServInv, Unnamed
<1> QED BY <1>10, <1>12, <1>13, <1>14 DEF ServInv

LEMMA ServStep == Served /\ ServInv /\ V!Next => ServInv'
<1> SUFFICES ASSUME Served, ServInv, V!Next PROVE ServInv'  OBVIOUS
<1>1. CASE \E t \in Providers :
              \/ \E n \in Names : V!SysCreateService(t, n)
              \/ V!CreateService(t) \/ V!AcceptPair(t) \/ V!Unwatch(t)
              \/ \E s \in Services : V!CreateInterface(t, s) \/ V!Accept(t, s) \/ V!Watch(t, s)
              \/ \E y \in handles[t] : V!Destroy(t, y)
  <2> PICK t \in Providers :
              \/ \E n \in Names : V!SysCreateService(t, n)
              \/ V!CreateService(t) \/ V!AcceptPair(t) \/ V!Unwatch(t)
              \/ \E s \in Services : V!CreateInterface(t, s) \/ V!Accept(t, s) \/ V!Watch(t, s)
              \/ \E y \in handles[t] : V!Destroy(t, y)
    BY <1>1
  <2>1. CASE \/ (\E n \in Names : V!SysCreateService(t, n)) \/ V!CreateService(t) \/ V!Unwatch(t)
             \/ (\E s \in Services : V!CreateInterface(t, s)) \/ (\E y \in handles[t] : V!Destroy(t, y))
    BY <2>1, ServServes
  <2>2. CASE V!AcceptPair(t)  BY <2>2, ServPairs
  <2>3. CASE \E s \in Services : V!Accept(t, s)  BY <2>3, ServAccepts
  <2>4. CASE \E s \in Services : V!Watch(t, s)  BY <2>4, ServWatches
  <2> QED BY <2>1, <2>2, <2>3, <2>4
<1>2. CASE \E c \in Connectors :
              \/ \E s \in Services : V!Resolve(c, s)
              \/ V!ResolveInterface(c) \/ V!NoInterface(c) \/ V!Connect(c) \/ V!ConnectInactive(c)
              \/ V!ConnectSignals(c) \/ V!ConnectWaits(c) \/ V!Connected(c)
  BY <1>2, ServConnects, ServJoins, ServTells
<1>3. CASE \E t \in V!Threads : V!TestService(t) \/ V!TestInterface(t)  BY <1>3, ServTests, IfaceTests
<1> QED BY <1>1, <1>2, <1>3 DEF V!Next

LEMMA ServStutter == ServInv /\ UNCHANGED <<thr, services>> => ServInv'
<1> SUFFICES ASSUME ServInv, UNCHANGED <<thr, services>> PROVE ServInv'  OBVIOUS
<1>1. thr' = thr /\ svc' = svc /\ iface' = iface /\ handles' = handles /\ made' = made  BY DEF services
<1>2. ServRows' /\ ServData' /\ ServEnds'  BY <1>1 DEF ServInv, ServRows, ServData, ServEnds
<1>3. ASSUME NEW s \in Services PROVE Refcounted(s)' /\ Unnamed(s)'
  <2>1. Refcounted(s)'  BY <1>1, CountSame
  <2> QED BY <1>1, <2>1 DEF ServInv, Unnamed
<1>4. ServLists'
  <2>1. \A c : Taken(c)' <=> Taken(c)  BY <1>1 DEF Taken
  <2> QED BY <1>1, <2>1 DEF ServInv, ServLists
<1> QED BY <1>2, <1>3, <1>4 DEF ServInv

LEMMA ServSafe == Served /\ ServInv => V!ConnectorListed /\ V!ConnectPaired /\ V!WaitsOnLive
<1> SUFFICES ASSUME Served, ServInv PROVE V!ConnectorListed /\ V!ConnectPaired /\ V!WaitsOnLive  OBVIOUS
<1>1. ASSUME NEW c \in Connectors, V!Inside(c)
      PROVE  /\ V!Cardinality(V!InHand(c)) + V!Cardinality(V!Incoming(thr[c].obj, c)) = 1
             /\ iface[thr[c].obj].alive
  <2> DEFINE s == thr[c].obj
             q == iface[s].incoming
  <2>1. thr[c].pc \in Inner /\ c \in V!Threads  BY <1>1, ServSides DEF V!Inside, Inner
  <2>2. s \in Services  BY <2>1, ServFacts DEF RowOf, Inner, AtService
  <2>3. iface[s].alive
    <3>1. Holds(thr[c], s)  BY <2>1 DEF Holds, Inner
    <3> QED BY <2>2, <3>1, HeldLives, Zenon
  <2>4. V!InHand(c) = {t \in Providers : thr[t].pc = "pairing" /\ thr[t].obj = c}  BY DEF V!InHand, V!At
  <2>5. V!Incoming(s, c) = {i \in DOMAIN q : q[i] = c}  BY DEF V!Incoming
  <2>6. Distinct(q) /\ (On(q, c) \/ Taken(c))  BY <2>1, <2>2 DEF ServInv, ServLists
  <2>7. \A t \in Providers : thr[t].pc = "pairing" /\ thr[t].obj = c =>
           /\ ~On(q, c)
           /\ \A u \in Providers : thr[u].pc = "pairing" /\ thr[u].obj = c => u = t
    BY DEF ServInv, ServLists
  <2>8. V!Cardinality({}) = 0 /\ \A x : V!Cardinality({x}) = 1
    BY SameCount, FS_EmptySet, FS_Singleton, Zenon
  <2> HIDE DEF q, s
  <2>9. V!Cardinality(V!InHand(c)) + V!Cardinality(V!Incoming(s, c)) = 1
    <3>1. CASE Taken(c)
      <4>1. PICK t \in Providers : thr[t].pc = "pairing" /\ thr[t].obj = c  BY <3>1 DEF Taken
      <4>2. V!InHand(c) = {t}  BY <2>4, <2>7, <4>1
      <4>3. V!Incoming(s, c) = {}  BY <2>5, <2>7, <4>1 DEF On
      <4>4. V!Cardinality(V!InHand(c)) = 1  BY <2>8, <4>2
      <4>5. V!Cardinality(V!Incoming(s, c)) = 0  BY <2>8, <4>3
      <4> QED BY <4>4, <4>5
    <3>2. CASE ~Taken(c)
      <4>1. V!InHand(c) = {}  BY <2>4, <3>2 DEF Taken
      <4>2. PICK i \in DOMAIN q : q[i] = c  BY <2>6, <3>2 DEF On
      <4>3. V!Incoming(s, c) = {i}  BY <2>5, <2>6, <4>2 DEF Distinct
      <4>4. V!Cardinality(V!InHand(c)) = 0  BY <2>8, <4>1
      <4>5. V!Cardinality(V!Incoming(s, c)) = 1  BY <2>8, <4>3, Zenon
      <4> QED BY <4>4, <4>5
    <3> QED BY <3>1, <3>2
  <2> QED BY <2>3, <2>9 DEF s
<1>2. V!ConnectorListed  BY <1>1 DEF V!ConnectorListed
<1>3. V!WaitsOnLive  BY <1>1 DEF V!WaitsOnLive
<1>4. V!ConnectPaired  BY ServSides DEF V!ConnectPaired, V!Got, ServInv, ServEnds
<1> QED BY <1>2, <1>3, <1>4
-----------------------------------------------------------------------------
(* Sockets: who asks for a connection, where the request is, and who       *)
(* watches. A socket that is asked about once is in one thread's hands.    *)
Local == IsFiniteSet(Callers) /\ Backlog \in Int /\ DOMAIN Spare \subseteq Nat /\ None \notin K!Sockets

Asking == {"connect", "permit"}
Queued == {"tell", "await"}
Moving == {"room", "write", "wake", "read"}
Looking == {"watch", "register", "scan", "leave"}
CallPlaces == Asking \cup Queued \cup Looking
              \cup Moving \cup {"idle", "unlock", "accept", "fault"}
MaySocket == K!Sockets \cup {None}
CallShapes == [pc : CallPlaces, s : MaySocket, to : MaySocket, todo : SUBSET K!Sockets, set : SUBSET K!Sockets,
               left : Int, kind : K!Kinds \cup {None}, signals : Int]
CallRows == {r \in CallShapes :
  /\ r.pc \in Asking \cup Queued => r.s \in K!Sockets /\ r.to \in K!Sockets
  /\ r.pc \in {"accept", "unlock"} \cup Moving => r.s \in K!Sockets
  /\ r.todo \subseteq r.set
  /\ r.pc = "register" => r.s \in r.set}
SockShapes == [passive : BOOLEAN, connected : BOOLEAN, lock : Callers \cup {None}, peer : MaySocket,
               in : K!Streams \cup {None}, out : K!Streams \cup {None}, pending : Seq(K!Sockets), permits : Int,
               watching : SUBSET Callers, open : BOOLEAN]
SockTypes ==
  /\ thr = [t \in Callers |-> thr[t]] /\ \A t \in Callers : thr[t] \in CallRows
  /\ sock \in [K!Sockets -> SockShapes] /\ asked \in [K!Sockets -> Nat]

Joins(t) ==
  /\ thr[t].pc \in Asking \cup Queued => sock[thr[t].s].open /\ asked[thr[t].s] >= 1
  /\ thr[t].pc \in {"permit"} \cup Queued => sock[thr[t].to].passive
  /\ thr[t].pc = "accept" => sock[thr[t].s].passive
  /\ thr[t].pc \in Asking /\ asked[thr[t].s] <= 1 => ~sock[thr[t].s].connected
Unshared == \A t, u \in Callers :
  /\ t # u /\ thr[t].pc \in Asking \cup Queued
  /\ thr[u].pc \in Asking \cup Queued /\ thr[u].s = thr[t].s
  => asked[thr[t].s] >= 2
Sound(s) ==
  /\ sock[s].passive => asked[s] >= 1
  /\ ~sock[s].open => ~sock[s].passive /\ ~sock[s].connected /\ asked[s] = 0
  /\ sock[s].connected => sock[s].peer \in K!Sockets
  /\ sock[s].peer \in K!Sockets => sock[sock[s].peer].open
WaitingOn(l) == {t \in Callers : thr[t].pc \in Queued /\ thr[t].to = l}
Entry(l, c) ==
  /\ sock[c].open
  /\ asked[c] <= 1 => ~sock[c].connected /\ \E t \in WaitingOn(l) : thr[t].s = c
Listing(l) == \A i \in DOMAIN sock[l].pending : Entry(l, sock[l].pending[i])
Sole == \A l, m \in K!Sockets : \A i \in DOMAIN sock[l].pending, j \in DOMAIN sock[m].pending :
  sock[l].pending[i] = sock[m].pending[j] /\ asked[sock[l].pending[i]] <= 1 => l = m /\ i = j
Mated(s) == sock[s].connected /\ asked[s] <= 1 /\ asked[sock[s].peer] <= 1 =>
  /\ sock[sock[s].peer].peer = s /\ sock[sock[s].peer].connected
  /\ sock[s].in = sock[sock[s].peer].out /\ sock[s].out = sock[sock[s].peer].in
Budgeted(l) == asked[l] <= 1 => sock[l].permits + Cardinality(WaitingOn(l)) = Backlog + 1
Watched(s) == \A t \in sock[s].watching : s \in thr[t].set /\ thr[t].pc \in Looking

SockInv ==
  /\ SockTypes /\ Unshared /\ Sole
  /\ \A t \in Callers : Joins(t)
  /\ \A s \in K!Sockets : Sound(s) /\ Listing(s) /\ Mated(s) /\ Budgeted(s) /\ Watched(s)

LEMMA SockInit == Local /\ K!Init => SockInv
<1> SUFFICES ASSUME Local, K!Init PROVE SockInv  OBVIOUS
<1> DEFINE new(s) == [passive |-> FALSE, connected |-> FALSE, lock |-> None, peer |-> None,
                      in |-> <<s, "in">>, out |-> <<s, "out">>, pending |-> <<>>, permits |-> Backlog + 1,
                      watching |-> {}, open |-> s \notin K!Unborn]
<1>1. /\ sock = [s \in K!Sockets |-> new(s)] /\ thr = [t \in Callers |-> K!Idle] /\ asked = [s \in K!Sockets |-> 0]
  BY DEF K!Init
<1>2. \A s \in K!Sockets : new(s) \in SockShapes
  <2>1. <<>> \in Seq(K!Sockets) /\ Backlog + 1 \in Int  BY DEF Local
  <2>2. \A s \in K!Sockets : <<s, "in">> \in K!Streams /\ <<s, "out">> \in K!Streams  BY DEF K!Streams
  <2> QED BY <2>1, <2>2, Zenon DEF SockShapes, MaySocket
<1>3. K!Idle \in CallRows /\ K!Idle.pc = "idle"
  BY DEF K!Idle, CallRows, CallShapes, CallPlaces, MaySocket, Asking, Queued, Looking, Moving
<1>4. \A s \in K!Sockets : /\ asked[s] = 0 /\ ~sock[s].passive /\ ~sock[s].connected /\ sock[s].pending = <<>>
                           /\ sock[s].permits = Backlog + 1 /\ sock[s].watching = {} /\ sock[s].peer = None
  BY <1>1
<1>5. \A t \in Callers : thr[t].pc = "idle"  BY <1>1, <1>3
<1>6. SockTypes  BY <1>1, <1>2, <1>3 DEF SockTypes
<1> HIDE DEF new
<1>7. (\A t \in Callers : Joins(t)) /\ Unshared  BY <1>5 DEF Joins, Unshared, Asking, Queued
<1>8. Sole /\ \A s \in K!Sockets : Listing(s)
  <2>1. \A s \in K!Sockets : DOMAIN sock[s].pending = {}  BY <1>4
  <2> QED BY <2>1 DEF Sole, Listing
<1>9. \A s \in K!Sockets : Mated(s) /\ Watched(s)  BY <1>4 DEF Mated, Watched
<1>10. ASSUME NEW s \in K!Sockets PROVE Sound(s)
  <2>1. None \notin K!Sockets  BY DEF Local
  <2> QED BY <1>4, <2>1 DEF Sound
<1>11. ASSUME NEW s \in K!Sockets PROVE Budgeted(s)
  <2>1. WaitingOn(s) = {}  BY <1>5 DEF WaitingOn, Queued
  <2> QED BY <1>4, <2>1, FS_EmptySet DEF Budgeted, Local
<1> QED BY <1>6, <1>7, <1>8, <1>9, <1>10, <1>11 DEF SockInv

(* What the invariant says of a row, and of a socket.                      *)
LEMMA SockFacts ==
  ASSUME SockInv, Local
  PROVE  /\ \A t \in Callers : /\ thr[t] \in CallRows /\ thr[t] \in CallShapes
                               /\ thr[t].pc \in Asking \cup Queued => thr[t].s \in K!Sockets /\ thr[t].to \in K!Sockets
                               /\ thr[t].pc \in {"accept", "unlock"} \cup Moving => thr[t].s \in K!Sockets
         /\ \A s \in K!Sockets : /\ sock[s] \in SockShapes /\ asked[s] \in Nat /\ sock[s].permits \in Int
                                 /\ sock[s].pending \in Seq(K!Sockets) /\ sock[s].watching \subseteq Callers
                                 /\ sock[s].peer \in K!Sockets \cup {None}
                                 /\ \A i \in DOMAIN sock[s].pending : sock[s].pending[i] \in K!Sockets
                                 /\ IsFiniteSet(WaitingOn(s)) /\ Cardinality(WaitingOn(s)) \in Nat
<1>1. \A t \in Callers : thr[t] \in CallRows /\ thr[t] \in CallShapes  BY DEF SockInv, SockTypes, CallRows
<1>2. ASSUME NEW s \in K!Sockets
      PROVE  /\ sock[s] \in SockShapes /\ asked[s] \in Nat /\ sock[s].permits \in Int
             /\ sock[s].pending \in Seq(K!Sockets) /\ sock[s].watching \subseteq Callers
             /\ sock[s].peer \in K!Sockets \cup {None}
             /\ \A i \in DOMAIN sock[s].pending : sock[s].pending[i] \in K!Sockets
             /\ IsFiniteSet(WaitingOn(s)) /\ Cardinality(WaitingOn(s)) \in Nat
  <2>1. sock[s] \in SockShapes /\ asked[s] \in Nat  BY DEF SockInv, SockTypes
  <2>2. sock[s].permits \in Int /\ sock[s].pending \in Seq(K!Sockets) /\ sock[s].watching \subseteq Callers
        /\ sock[s].peer \in K!Sockets \cup {None}
    BY <2>1 DEF SockShapes, MaySocket
  <2>3. \A i \in DOMAIN sock[s].pending : sock[s].pending[i] \in K!Sockets  BY <2>2, ElementOfSeq
  <2>4. WaitingOn(s) \subseteq Callers  BY DEF WaitingOn
  <2>5. IsFiniteSet(WaitingOn(s)) /\ Cardinality(WaitingOn(s)) \in Nat
    BY <2>4, FS_Subset, FS_CardinalityType DEF Local
  <2> QED BY <2>1, <2>2, <2>3, <2>5
<1> QED BY <1>1, <1>2 DEF CallRows

(* A step of one thread that neither asks for a connection nor gives one:  *)
(* only locks, watchers and what the others were woken by change.          *)
SameRow(t) == /\ thr'[t] \in CallRows /\ thr'[t].pc = thr[t].pc /\ thr'[t].s = thr[t].s /\ thr'[t].to = thr[t].to
              /\ thr'[t].set = thr[t].set
SameSock(s) == /\ sock'[s].passive = sock[s].passive /\ sock'[s].connected = sock[s].connected
               /\ sock'[s].peer = sock[s].peer /\ sock'[s].in = sock[s].in /\ sock'[s].out = sock[s].out
               /\ sock'[s].pending = sock[s].pending /\ sock'[s].permits = sock[s].permits
               /\ sock'[s].open = sock[s].open
Moves(t, r) ==
  /\ thr' = [u \in Callers |-> thr'[u]] /\ thr'[t] = r /\ r \in CallRows
  /\ \A u \in Callers : u # t => SameRow(u)
Keeps(t, r) ==
  /\ r.pc \in Queued <=> thr[t].pc \in Queued
  /\ r.pc \in Queued => r.s = thr[t].s /\ r.to = thr[t].to
  /\ r.pc \in Asking => thr[t].pc \in Asking /\ r.s = thr[t].s /\ r.to = thr[t].to
  /\ r.pc = "permit" => sock[r.to].passive
  /\ r.pc = "accept" => sock[r.s].passive
Observes(t, r) == \A s \in K!Sockets : \A u \in sock'[s].watching :
  /\ u # t => u \in sock[s].watching
  /\ u = t => s \in r.set /\ r.pc \in Looking

LEMMA SockMoves ==
  ASSUME SockInv, Local, NEW t \in Callers, NEW r, Moves(t, r), Keeps(t, r), Observes(t, r),
         sock' \in [K!Sockets -> SockShapes], asked' = asked, \A s \in K!Sockets : SameSock(s)
  PROVE  SockInv'
<1>1. SockTypes'
  <2>1. \A u \in Callers : thr'[u] \in CallRows  BY DEF Moves, SameRow
  <2> QED BY <2>1 DEF SockInv, SockTypes, Moves
<1>2. \A u \in Callers : /\ thr'[u].pc \in Queued <=> thr[u].pc \in Queued
                         /\ thr'[u].pc \in Queued => thr'[u].s = thr[u].s /\ thr'[u].to = thr[u].to
                         /\ thr'[u].pc \in Asking => thr[u].pc \in Asking /\ thr'[u].s = thr[u].s /\ thr'[u].to = thr[u].to
  BY DEF Moves, Keeps, SameRow
<1>3. ASSUME NEW u \in Callers PROVE Joins(u)'
  <2>1. thr'[u].pc \in Asking \cup Queued =>
           /\ thr[u].pc \in Asking \cup Queued /\ thr'[u].s = thr[u].s /\ thr'[u].to = thr[u].to
           /\ thr[u].s \in K!Sockets /\ thr[u].to \in K!Sockets
    BY <1>2, SockFacts
  <2>2. thr'[u].pc \in Asking \cup Queued => sock'[thr'[u].s].open /\ asked'[thr'[u].s] >= 1
    BY <2>1 DEF SameSock, SockInv, Joins
  <2>3. thr'[u].pc \in Asking /\ asked'[thr'[u].s] <= 1 => ~sock'[thr'[u].s].connected
    BY <1>2, <2>1 DEF SameSock, SockInv, Joins
  <2>4. thr'[u].pc \in {"permit"} \cup Queued => sock[thr'[u].to].passive /\ thr'[u].to \in K!Sockets
    <3>1. thr'[u].pc = "permit" => sock[thr'[u].to].passive  BY DEF Moves, Keeps, SameRow, SockInv, Joins
    <3>2. thr'[u].pc \in Queued => sock[thr'[u].to].passive  BY <1>2 DEF SockInv, Joins
    <3> QED BY <2>1, <3>1, <3>2 DEF Asking
  <2>5. thr'[u].pc = "accept" => sock[thr'[u].s].passive /\ thr'[u].s \in K!Sockets
    <3>1. thr'[u] \in CallRows  BY DEF Moves, SameRow
    <3>2. thr'[u].pc = "accept" => sock[thr'[u].s].passive  BY DEF Moves, Keeps, SameRow, SockInv, Joins
    <3> QED BY <3>1, <3>2 DEF CallRows
  <2> QED BY <2>2, <2>3, <2>4, <2>5 DEF Joins, SameSock
<1>4. Unshared'
  <2>1. \A u \in Callers : thr'[u].pc \in Asking \cup Queued => thr[u].pc \in Asking \cup Queued /\ thr'[u].s = thr[u].s
    BY <1>2
  <2> QED BY <2>1 DEF SockInv, Unshared
<1>5. Sole'  BY DEF SockInv, Sole, SameSock
<1>6. ASSUME NEW s \in K!Sockets PROVE Sound(s)' /\ Listing(s)' /\ Mated(s)' /\ Budgeted(s)' /\ Watched(s)'
  <2>1. Sound(s) /\ Listing(s) /\ Mated(s) /\ Budgeted(s) /\ Watched(s)  BY DEF SockInv
  <2>2. Sound(s)'  BY <2>1 DEF Sound, SameSock
  <2>3. WaitingOn(s)' = WaitingOn(s)  BY <1>2 DEF WaitingOn
  <2>4. Listing(s)'
    <3>1. \A i \in DOMAIN sock[s].pending : sock[s].pending[i] \in K!Sockets  BY SockFacts
    <3>2. \A u \in WaitingOn(s) : thr'[u].s = thr[u].s  BY <1>2 DEF WaitingOn
    <3>3. \A c \in K!Sockets : Entry(s, c) => Entry(s, c)'  BY <2>3, <3>2 DEF Entry, SameSock
    <3> QED BY <2>1, <3>1, <3>3 DEF Listing, SameSock
  <2>5. Mated(s)'
    <3>1. SameSock(s) /\ (sock[s].connected => sock[s].peer \in K!Sockets)  BY <2>1 DEF Sound
    <3>2. sock[s].connected => SameSock(sock[s].peer)  BY <3>1
    <3> QED BY <2>1, <3>1, <3>2 DEF Mated, SameSock
  <2>6. Budgeted(s)'  BY <2>1, <2>3 DEF Budgeted, SameSock
  <2>7. Watched(s)'
    <3>1. \A u \in sock'[s].watching : u \in Callers  BY DEF SockShapes
    <3> QED BY <2>1, <3>1 DEF Watched, Observes, Moves, SameRow
  <2> QED BY <2>2, <2>4, <2>5, <2>6, <2>7
<1> QED BY <1>1, <1>3, <1>4, <1>5, <1>6 DEF SockInv

(* The same when no socket changes: the row alone matters.                 *)
LEMMA SockStill ==
  ASSUME SockInv, Local, NEW t \in Callers, NEW r, r \in CallRows, thr' = [thr EXCEPT ![t] = r], Keeps(t, r),
         thr[t].pc \in Looking => r.pc \in Looking /\ r.set = thr[t].set,
         sock' = sock, asked' = asked
  PROVE  SockInv'
<1>1. Moves(t, r)
  <2>1. thr = [u \in Callers |-> thr[u]] /\ \A u \in Callers : thr[u] \in CallRows  BY DEF SockInv, SockTypes
  <2>2. thr'[t] = r /\ \A u \in Callers : u # t => thr'[u] = thr[u]  BY <2>1
  <2> QED BY <2>1, <2>2 DEF Moves, SameRow
<1>2. Observes(t, r)  BY DEF Observes, SockInv, Watched
<1>3. sock' \in [K!Sockets -> SockShapes]  BY DEF SockInv, SockTypes
<1>4. \A s \in K!Sockets : SameSock(s)  BY DEF SameSock
<1> QED BY <1>1, <1>2, <1>3, <1>4, SockMoves

(* The rows that calls start with, and a row that changes its place.       *)
LEMMA CallIdle == K!Idle \in CallRows /\ K!Idle.pc = "idle"
  BY DEF K!Idle, CallRows, CallShapes, CallPlaces, MaySocket, Asking, Queued, Looking, Moving

LEMMA AcceptRow ==
  ASSUME NEW s \in K!Sockets, NEW r, r = [K!Idle EXCEPT !.pc = "accept", !.s = s]
  PROVE  r \in CallRows /\ r.pc = "accept" /\ r.s = s
<1>1. r = [pc |-> "accept", s |-> s, to |-> None, todo |-> {}, set |-> {}, left |-> 0, kind |-> None, signals |-> 0]
  BY Zenon DEF K!Idle
<1> QED BY <1>1 DEF CallRows, CallShapes, CallPlaces, MaySocket, Asking, Queued, Looking, Moving

LEMMA CallReads ==
  ASSUME NEW s \in K!Sockets, NEW r, r = [K!Idle EXCEPT !.pc = "read", !.s = s]
  PROVE  r \in CallRows /\ r.pc = "read" /\ r.s = s
<1>1. r = [pc |-> "read", s |-> s, to |-> None, todo |-> {}, set |-> {}, left |-> 0, kind |-> None, signals |-> 0]
  BY Zenon DEF K!Idle
<1> QED BY <1>1 DEF CallRows, CallShapes, CallPlaces, MaySocket, Asking, Queued, Looking, Moving

LEMMA ListenRow ==
  ASSUME NEW s \in K!Sockets, NEW r, r = [K!Idle EXCEPT !.pc = "unlock", !.s = s]
  PROVE  r \in CallRows /\ r.pc = "unlock" /\ r.s = s
<1>1. r = [pc |-> "unlock", s |-> s, to |-> None, todo |-> {}, set |-> {}, left |-> 0, kind |-> None, signals |-> 0]
  BY Zenon DEF K!Idle
<1> QED BY <1>1 DEF CallRows, CallShapes, CallPlaces, MaySocket, Asking, Queued, Looking, Moving

LEMMA SendRow ==
  ASSUME NEW s \in K!Sockets, NEW n \in Int, NEW r, r = [K!Idle EXCEPT !.pc = "room", !.s = s, !.left = n]
  PROVE  r \in CallRows /\ r.pc = "room"
<1>1. r = [pc |-> "room", s |-> s, to |-> None, todo |-> {}, set |-> {}, left |-> n, kind |-> None, signals |-> 0]
  BY Zenon DEF K!Idle
<1> QED BY <1>1 DEF CallRows, CallShapes, CallPlaces, MaySocket, Asking, Queued, Looking, Moving

LEMMA ConnectRow ==
  ASSUME NEW s \in K!Sockets, NEW to \in K!Sockets, NEW r, r = [K!Idle EXCEPT !.pc = "connect", !.s = s, !.to = to]
  PROVE  r \in CallRows /\ r.pc = "connect" /\ r.s = s /\ r.to = to
<1>1. r = [pc |-> "connect", s |-> s, to |-> to, todo |-> {}, set |-> {}, left |-> 0, kind |-> None, signals |-> 0]
  BY Zenon DEF K!Idle
<1> QED BY <1>1 DEF CallRows, CallShapes, CallPlaces, MaySocket, Asking, Queued, Looking, Moving

LEMMA WaitRow ==
  ASSUME NEW k \in K!Kinds, NEW Z \in SUBSET K!Sockets, NEW r,
         r = [K!Idle EXCEPT !.pc = "watch", !.kind = k, !.todo = Z, !.set = Z]
  PROVE  r \in CallRows /\ r.pc = "watch"
<1>1. r = [pc |-> "watch", s |-> None, to |-> None, todo |-> Z, set |-> Z, left |-> 0, kind |-> k, signals |-> 0]
  BY Zenon DEF K!Idle
<1> QED BY <1>1 DEF CallRows, CallShapes, CallPlaces, MaySocket, Asking, Queued, Looking, Moving

LEMMA PlaceRow ==
  ASSUME NEW r \in CallRows, NEW p \in CallPlaces, NEW x, x = [r EXCEPT !.pc = p],
         p \in Asking \cup Queued => r.pc \in Asking \cup Queued, p \in Moving => r.pc \in Moving,
         p \notin {"accept", "unlock", "register"}
  PROVE  x \in CallRows /\ x.pc = p /\ x.s = r.s /\ x.to = r.to /\ x.set = r.set
<1>1. x \in CallShapes /\ x.pc = p /\ x.s = r.s /\ x.to = r.to /\ x.set = r.set /\ x.todo = r.todo
  BY DEF CallRows, CallShapes
<1> QED BY <1>1, Zenon DEF CallRows

LEMMA SignalRow ==
  ASSUME NEW r \in CallRows, NEW n \in Int, NEW x, x = [r EXCEPT !.signals = n]
  PROVE  x \in CallRows /\ x.pc = r.pc /\ x.s = r.s /\ x.to = r.to /\ x.set = r.set
<1>1. x \in CallShapes /\ x.pc = r.pc /\ x.s = r.s /\ x.to = r.to /\ x.set = r.set /\ x.todo = r.todo
  BY DEF CallRows, CallShapes
<1> QED BY <1>1, Zenon DEF CallRows

LEMMA SockStays == SockInv /\ UNCHANGED <<thr, sock, asked>> => SockInv'
<1> SUFFICES ASSUME SockInv, UNCHANGED <<thr, sock, asked>> PROVE SockInv'  OBVIOUS
<1>1. \A l : WaitingOn(l)' = WaitingOn(l)  BY DEF WaitingOn
<1>2. SockTypes' /\ Unshared' /\ Sole'  BY DEF SockInv, SockTypes, Unshared, Sole
<1>3. \A t \in Callers : Joins(t)'  BY DEF SockInv, Joins
<1>4. ASSUME NEW s \in K!Sockets PROVE Sound(s)' /\ Listing(s)' /\ Mated(s)' /\ Budgeted(s)' /\ Watched(s)'
  <2>1. Sound(s)' /\ Mated(s)' /\ Watched(s)'  BY DEF SockInv, Sound, Mated, Watched
  <2>2. Budgeted(s)'  BY <1>1 DEF SockInv, Budgeted
  <2>3. Listing(s)'  BY <1>1 DEF SockInv, Listing, Entry
  <2> QED BY <2>1, <2>2, <2>3
<1> QED BY <1>2, <1>3, <1>4 DEF SockInv

(* Calls that leave the sockets as they are.                               *)
LEMMA SockCalls ==
  ASSUME SockInv, Local, NEW t \in Callers, NEW s \in K!Sockets,
         K!SysAccept(t, s) \/ K!Receive(t, s) \/ (\E n \in 1..2 : K!SysSendMsg(t, s, n))
         \/ (\E k \in K!Kinds, Z \in SUBSET K!Sockets : K!WaitBlocks(t, k, Z))
  PROVE  SockInv'
<1> DEFINE row(r) == /\ r \in CallRows /\ r.pc \in {"accept", "read", "room", "watch"}
                     /\ r.pc = "accept" => sock[r.s].passive
<1>1. sock' = sock /\ asked' = asked /\ thr[t].pc = "idle" /\ \E r : row(r) /\ thr' = [thr EXCEPT ![t] = r]
  <2>1. CASE K!SysAccept(t, s)
    <3> DEFINE r == [K!Idle EXCEPT !.pc = "accept", !.s = s]
    <3>1. thr' = [thr EXCEPT ![t] = r] /\ sock[s].passive /\ sock' = sock /\ asked' = asked /\ thr[t] = K!Idle
      BY <2>1 DEF K!SysAccept, K!Accept, K!Handle
    <3>p. r = [K!Idle EXCEPT !.pc = "accept", !.s = s]  OBVIOUS
    <3> HIDE DEF r
    <3>2. r \in CallRows /\ r.pc = "accept" /\ r.s = s  BY <3>p, AcceptRow, Zenon
    <3> QED BY <3>1, <3>2, CallIdle, Zenon
  <2>2. CASE K!Receive(t, s)
    <3> DEFINE r == [K!Idle EXCEPT !.pc = "read", !.s = s]
    <3>1. thr' = [thr EXCEPT ![t] = r] /\ sock' = sock /\ asked' = asked /\ thr[t] = K!Idle
      BY <2>2 DEF K!Receive, K!Handle
    <3>p. r = [K!Idle EXCEPT !.pc = "read", !.s = s]  OBVIOUS
    <3> HIDE DEF r
    <3>2. r \in CallRows /\ r.pc = "read"  BY <3>p, CallReads, Zenon
    <3> QED BY <3>1, <3>2, CallIdle, Zenon
  <2>3. CASE \E n \in 1..2 : K!SysSendMsg(t, s, n)
    <3> PICK n \in 1..2 : K!SysSendMsg(t, s, n)  BY <2>3
    <3> DEFINE r == [K!Idle EXCEPT !.pc = "room", !.s = s, !.left = n]
    <3>1. thr' = [thr EXCEPT ![t] = r] /\ sock' = sock /\ asked' = asked /\ thr[t] = K!Idle
      BY DEF K!SysSendMsg, K!Handle
    <3>2. n \in Int  OBVIOUS
    <3>3. r \in CallRows /\ r.pc = "room"  BY <3>2, SendRow, Zenon
    <3> HIDE DEF r
    <3> QED BY <3>1, <3>3, CallIdle, Zenon
  <2>4. CASE \E k \in K!Kinds, Z \in SUBSET K!Sockets : K!WaitBlocks(t, k, Z)
    <3> PICK k \in K!Kinds, Z \in SUBSET K!Sockets : K!WaitBlocks(t, k, Z)  BY <2>4
    <3> DEFINE r == [K!Idle EXCEPT !.pc = "watch", !.kind = k, !.todo = Z, !.set = Z]
    <3>1. thr' = [thr EXCEPT ![t] = r] /\ sock' = sock /\ asked' = asked /\ thr[t] = K!Idle
      BY Zenon DEF K!WaitBlocks, K!Waits, K!Handle
    <3>2. r \in CallRows /\ r.pc = "watch"  BY WaitRow, Zenon
    <3> HIDE DEF r
    <3> QED BY <3>1, <3>2, CallIdle, Zenon
  <2> QED BY <2>1, <2>2, <2>3, <2>4
<1> PICK r : row(r) /\ thr' = [thr EXCEPT ![t] = r]  BY <1>1, Zenon
<1>2. Keeps(t, r)  BY <1>1 DEF Keeps, Asking, Queued
<1>3. thr[t].pc \notin Looking  BY <1>1 DEF Looking
<1> QED BY <1>1, <1>2, <1>3, SockStill, Zenon

(* Steps that end a call, or only change a thread's place.                 *)
LEMMA SockPlaces ==
  ASSUME SockInv, Local, NEW t \in Callers,
         K!ConnectRefused(t) \/ K!AcceptAsserts(t) \/ K!SendNull(t) \/ K!SendHasRoom(t) \/ K!SendAgain(t)
         \/ K!SendWrites(t) \/ K!ReceiveReads(t) \/ K!WaitCut(t) \/ K!ScanFinds(t) \/ K!ScanFindsNothing(t)
  PROVE  SockInv'
<1>a. thr[t] \in CallRows /\ thr = [u \in Callers |-> thr[u]]  BY SMTT(60) DEF SockInv, SockTypes
<1>1. sock' = sock /\ asked' = asked
  BY DEF K!ConnectRefused, K!AcceptAsserts, K!SendNull, K!SendHasRoom, K!SendAgain,
         K!SendWrites, K!ReceiveReads, K!WaitCut, K!ScanFinds, K!ScanFindsNothing
<1>2. CASE K!ConnectRefused(t) \/ K!SendAgain(t) \/ K!ReceiveReads(t)
  <2>1. thr[t].pc \in {"connect", "room", "read"} /\ thr' = [thr EXCEPT ![t] = K!Idle]
    BY <1>2, Zenon DEF K!ConnectRefused, K!SendAgain, K!ReceiveReads, K!At, K!Ends
  <2>2. Keeps(t, K!Idle)  BY <2>1, CallIdle DEF Keeps, Asking, Queued
  <2>3. thr[t].pc \notin Looking  BY <2>1 DEF Looking
  <2> QED BY <1>1, <2>1, <2>2, <2>3, CallIdle, SockStill, Zenon
<1>3. CASE \/ K!AcceptAsserts(t) \/ K!SendNull(t) \/ K!SendHasRoom(t) \/ K!SendWrites(t) \/ K!WaitCut(t)
           \/ K!ScanFinds(t) \/ K!ScanFindsNothing(t)
  <2>1. \E p \in {"fault", "write", "wake", "leave", "watch"} :
           /\ thr' = [thr EXCEPT ![t].pc = p]
           /\ thr[t].pc \in {"accept", "room", "write", "watch", "scan"}
           /\ thr[t].pc \in {"watch", "scan"} => p \in {"watch", "leave"}
           /\ p \in {"write", "wake"} => thr[t].pc \in {"room", "write"}
    <3>1. CASE K!AcceptAsserts(t) \/ K!SendNull(t)
      BY <3>1 DEF K!AcceptAsserts, K!SendNull, K!At, K!Moves
    <3>2. CASE K!SendHasRoom(t) \/ K!SendWrites(t)  BY <3>2 DEF K!SendHasRoom, K!SendWrites, K!At, K!Moves
    <3>3. CASE K!WaitCut(t) \/ K!ScanFinds(t)  BY <3>3 DEF K!WaitCut, K!ScanFinds, K!At, K!Moves
    <3>4. CASE K!ScanFindsNothing(t)  BY <3>4, Zenon DEF K!ScanFindsNothing, K!At, K!Moves
    <3> QED BY <1>3, <3>1, <3>2, <3>3, <3>4
  <2> PICK p \in {"fault", "write", "wake", "leave", "watch"} :
           /\ thr' = [thr EXCEPT ![t].pc = p]
           /\ thr[t].pc \in {"accept", "room", "write", "watch", "scan"}
           /\ thr[t].pc \in {"watch", "scan"} => p \in {"watch", "leave"}
           /\ p \in {"write", "wake"} => thr[t].pc \in {"room", "write"}
    BY <2>1, Zenon
  <2> DEFINE r == [thr[t] EXCEPT !.pc = p]
  <2>2. thr' = [thr EXCEPT ![t] = r]  BY <1>a
  <2>3. p \in CallPlaces /\ p \notin Asking \cup Queued /\ (p \in Moving => thr[t].pc \in Moving)
    BY DEF CallPlaces, Asking, Queued, Looking, Moving
  <2>4. r \in CallRows /\ r.pc = p /\ r.set = thr[t].set  BY <1>a, <2>3, PlaceRow
  <2> HIDE DEF r
  <2>5. Keeps(t, r)  BY <2>4 DEF Keeps, Asking, Queued
  <2>6. thr[t].pc \in Looking => r.pc \in Looking /\ r.set = thr[t].set  BY <2>4 DEF Looking
  <2> QED BY <1>1, <2>2, <2>4, <2>5, <2>6, SockStill, Zenon
<1> QED BY <1>2, <1>3

LEMMA SockWatches ==
  ASSUME SockInv, Local, NEW t \in Callers, (\E s \in K!Sockets : K!WatchTests(t, s)) \/ K!WaitEnds(t)
  PROVE  SockInv'
<1>a. thr[t] \in CallRows /\ thr[t] \in CallShapes /\ thr = [u \in Callers |-> thr[u]]
  BY SockFacts DEF SockInv, SockTypes
<1>1. CASE \E s \in K!Sockets : K!WatchTests(t, s)
  <2> PICK s \in K!Sockets : K!WatchTests(t, s)  BY <1>1
  <2> DEFINE Z == thr[t].todo \ {s}
             p == IF K!CanRead(s) \/ ~sock[s].connected THEN "watch" ELSE "register"
             a == [thr[t] EXCEPT !.todo = Z]
             b == [a EXCEPT !.s = s]
             r == [b EXCEPT !.pc = p]
  <2>1. /\ thr[t].pc = "watch" /\ s \in thr[t].todo /\ sock' = sock /\ asked' = asked
        /\ thr' = [thr EXCEPT ![t].todo = Z, ![t].s = s, ![t].pc = p]
    BY Zenon DEF K!WatchTests, K!At
  <2>2. p \in {"watch", "register"}  OBVIOUS
  <2>3. Z \subseteq thr[t].set /\ s \in thr[t].set  BY <1>a, <2>1 DEF CallRows
  <2> HIDE DEF p, Z
  <2>4. thr' = [thr EXCEPT ![t] = r]  BY <1>a, <2>1, Zenon
  <2>5. thr[t].set \in SUBSET K!Sockets /\ Z \in SUBSET K!Sockets  BY <1>a, <2>3 DEF CallShapes
  <2>6. a \in CallShapes /\ a.set = thr[t].set /\ a.todo = Z  BY <1>a, <2>5 DEF CallShapes
  <2> HIDE DEF a
  <2>7. b \in CallShapes /\ b.set = thr[t].set /\ b.todo = Z /\ b.s = s  BY <2>6 DEF CallShapes, MaySocket
  <2> HIDE DEF b
  <2>8. r \in CallShapes /\ r.set = thr[t].set /\ r.todo = Z /\ r.s = s /\ r.pc = p
    BY <2>2, <2>7 DEF CallShapes, CallPlaces, Looking, Moving
  <2> HIDE DEF r
  <2>9. r \in CallRows  BY <2>2, <2>3, <2>8 DEF CallRows, Asking, Queued, Moving
  <2>10. Keeps(t, r) /\ r.pc \in Looking  BY <2>1, <2>2, <2>8 DEF Keeps, Asking, Queued, Looking
  <2> QED BY <2>1, <2>4, <2>8, <2>9, <2>10, SockStill, Zenon
<1>2. CASE K!WaitEnds(t)
  <2> DEFINE n == thr[t].signals - 1
             a == [thr[t] EXCEPT !.signals = n]
             r == [a EXCEPT !.pc = "scan"]
  <2>1. thr[t].pc = "watch" /\ sock' = sock /\ asked' = asked /\ thr' = [thr EXCEPT ![t].signals = n, ![t].pc = "scan"]
    BY <1>2 DEF K!WaitEnds, K!At
  <2>2. n \in Int  BY <1>a DEF CallShapes
  <2> HIDE DEF n
  <2>3. thr' = [thr EXCEPT ![t] = r]  BY <1>a, <2>1, Zenon
  <2>4. a \in CallRows /\ a.set = thr[t].set  BY <1>a, <2>2, SignalRow
  <2>5. "scan" \in CallPlaces /\ "scan" \notin Asking \cup Queued \cup Moving  BY DEF CallPlaces, Asking, Queued, Looking, Moving
  <2> HIDE DEF a
  <2>6. r \in CallRows /\ r.pc = "scan" /\ r.set = thr[t].set  BY <2>4, <2>5, PlaceRow
  <2> HIDE DEF r
  <2>7. Keeps(t, r) /\ r.pc \in Looking  BY <2>1, <2>6 DEF Keeps, Asking, Queued, Looking
  <2> QED BY <2>1, <2>3, <2>6, <2>7, SockStill, Zenon
<1> QED BY <1>1, <1>2

(* Steps that change locks and the watchers of sockets.                    *)
LEMMA LockSame ==
  ASSUME SockInv, Local, NEW s \in K!Sockets, NEW v \in Callers \cup {None}, sock' = [sock EXCEPT ![s].lock = v]
  PROVE  sock' \in [K!Sockets -> SockShapes] /\ \A u \in K!Sockets : SameSock(u) /\ sock'[u].watching = sock[u].watching
<1>1. sock \in [K!Sockets -> SockShapes] /\ sock[s] \in SockShapes  BY DEF SockInv, SockTypes
<1> DEFINE r == sock[s]
           x == [r EXCEPT !.lock = v]
<1>2. sock' = [sock EXCEPT ![s] = x] /\ r \in SockShapes  BY <1>1
<1> HIDE DEF r
<1>3. /\ x \in SockShapes /\ x.passive = r.passive /\ x.connected = r.connected /\ x.peer = r.peer /\ x.in = r.in
      /\ x.out = r.out /\ x.pending = r.pending /\ x.permits = r.permits /\ x.open = r.open /\ x.watching = r.watching
  BY <1>2, Zenon DEF SockShapes
<1> HIDE DEF x
<1> QED BY <1>1, <1>2, <1>3 DEF r, SameSock

LEMMA WatchSame ==
  ASSUME SockInv, Local, NEW s \in K!Sockets, NEW W \in SUBSET Callers, sock' = [sock EXCEPT ![s].watching = W]
  PROVE  /\ sock' \in [K!Sockets -> SockShapes] /\ \A u \in K!Sockets : SameSock(u)
         /\ sock'[s].watching = W /\ \A u \in K!Sockets : u # s => sock'[u].watching = sock[u].watching
<1>1. sock \in [K!Sockets -> SockShapes] /\ sock[s] \in SockShapes  BY DEF SockInv, SockTypes
<1> DEFINE r == sock[s]
           x == [r EXCEPT !.watching = W]
<1>2. sock' = [sock EXCEPT ![s] = x] /\ r \in SockShapes  BY <1>1
<1> HIDE DEF r
<1>3. /\ x \in SockShapes /\ x.passive = r.passive /\ x.connected = r.connected /\ x.peer = r.peer /\ x.in = r.in
      /\ x.out = r.out /\ x.pending = r.pending /\ x.permits = r.permits /\ x.open = r.open /\ x.watching = W
  BY <1>2, Zenon DEF SockShapes
<1> HIDE DEF x
<1> QED BY <1>1, <1>2, <1>3 DEF r, SameSock

LEMMA OneMoves ==
  ASSUME SockInv, NEW t \in Callers, NEW r \in CallRows, thr' = [thr EXCEPT ![t] = r]
  PROVE  Moves(t, r)
<1>1. thr = [u \in Callers |-> thr[u]] /\ \A u \in Callers : thr[u] \in CallRows  BY DEF SockInv, SockTypes
<1>2. thr'[t] = r /\ \A u \in Callers : u # t => thr'[u] = thr[u]  BY <1>1
<1> QED BY <1>1, <1>2 DEF Moves, SameRow

LEMMA SockLocks ==
  ASSUME SockInv, Local, NEW t \in Callers, K!ListenUnlocks(t) \/ K!ConnectLocks(t) \/ K!ConnectInterrupted(t)
  PROVE  SockInv'
<1>a. thr[t] \in CallRows /\ thr = [u \in Callers |-> thr[u]]  BY DEF SockInv, SockTypes
<1> DEFINE s == thr[t].s
<1>1. s \in K!Sockets /\ asked' = asked /\ \E v \in Callers \cup {None} : sock' = [sock EXCEPT ![s].lock = v]
  <2>1. thr[t].pc \in {"unlock", "connect", "permit"}
    BY DEF K!ListenUnlocks, K!ConnectLocks, K!ConnectInterrupted, K!At
  <2>2. s \in K!Sockets  BY <1>a, <2>1 DEF CallRows, Asking
  <2> QED BY <2>2 DEF K!ListenUnlocks, K!ConnectLocks, K!ConnectInterrupted
<1>2. sock' \in [K!Sockets -> SockShapes] /\ \A u \in K!Sockets : SameSock(u) /\ sock'[u].watching = sock[u].watching
  BY <1>1, LockSame, Zenon
<1>3. CASE K!ListenUnlocks(t) \/ K!ConnectInterrupted(t)
  <2>1. thr' = [thr EXCEPT ![t] = K!Idle] /\ thr[t].pc \in {"unlock", "permit"}
    BY <1>3 DEF K!ListenUnlocks, K!ConnectInterrupted, K!Ends, K!At
  <2>2. Moves(t, K!Idle)  BY <2>1, CallIdle, OneMoves, ZenonT(60)
  <2>3. Keeps(t, K!Idle)  BY <2>1, CallIdle DEF Keeps, Asking, Queued
  <2>4. Observes(t, K!Idle)  BY <1>2, <2>1 DEF Observes, SockInv, Watched, Looking
  <2> QED BY <1>1, <1>2, <2>2, <2>3, <2>4, SockMoves
<1>4. CASE K!ConnectLocks(t)
  <2> DEFINE r == [thr[t] EXCEPT !.pc = "permit"]
  <2>1. thr' = [thr EXCEPT ![t].pc = "permit"] /\ thr[t].pc = "connect" /\ sock[thr[t].to].passive
    BY <1>4 DEF K!ConnectLocks, K!Moves, K!At
  <2>2. thr' = [thr EXCEPT ![t] = r]  BY <1>a, <2>1
  <2>3. "permit" \in CallPlaces /\ "permit" \notin Moving /\ thr[t].pc \in Asking \cup Queued  BY <2>1 DEF CallPlaces, Asking, Moving
  <2>4. r \in CallRows /\ r.pc = "permit" /\ r.s = thr[t].s /\ r.to = thr[t].to  BY <1>a, <2>3, PlaceRow
  <2> HIDE DEF r
  <2>5. Moves(t, r)  BY <2>2, <2>4, OneMoves, ZenonT(60)
  <2>6. Keeps(t, r)  BY <2>1, <2>4 DEF Keeps, Asking, Queued
  <2>7. Observes(t, r)  BY <1>2, <2>1 DEF Observes, SockInv, Watched, Looking
  <2> QED BY <1>1, <1>2, <2>5, <2>6, <2>7, <2>4, SockMoves
<1> QED BY <1>3, <1>4

LEMMA SockRegisters ==
  ASSUME SockInv, Local, NEW t \in Callers, K!WatchRegisters(t)
  PROVE  SockInv'
<1>a. thr[t] \in CallRows /\ thr[t] \in CallShapes /\ thr = [u \in Callers |-> thr[u]]
  BY SockFacts DEF SockInv, SockTypes
<1> DEFINE s == thr[t].s
           W == sock[s].watching \cup {t}
           r == [thr[t] EXCEPT !.pc = "watch"]
<1>1. thr[t].pc = "register" /\ asked' = asked /\ sock' = [sock EXCEPT ![s].watching = W]
      /\ thr' = [thr EXCEPT ![t].pc = "watch"]
  BY DEF K!WatchRegisters, K!At, K!Moves
<1>2. s \in thr[t].set /\ s \in K!Sockets
  <2>1. s \in thr[t].set /\ thr[t].set \subseteq K!Sockets  BY <1>1, <1>a DEF CallRows, CallShapes
  <2> QED BY <2>1
<1>3. W \in SUBSET Callers  BY <1>2, SockFacts
<1>4. W = sock[s].watching \cup {t}  OBVIOUS
<1> HIDE DEF W, s
<1>5. /\ sock' \in [K!Sockets -> SockShapes] /\ \A u \in K!Sockets : SameSock(u)
      /\ sock'[s].watching = W /\ \A u \in K!Sockets : u # s => sock'[u].watching = sock[u].watching
  BY <1>1, <1>2, <1>3, WatchSame, Zenon
<1>6. thr' = [thr EXCEPT ![t] = r]  BY <1>a, <1>1
<1>7. "watch" \in CallPlaces /\ "watch" \notin Asking \cup Queued \cup Moving
  BY DEF CallPlaces, Looking, Asking, Queued, Moving
<1>8. r \in CallRows /\ r.pc = "watch" /\ r.set = thr[t].set  BY <1>a, <1>7, PlaceRow
<1> HIDE DEF r
<1>9. Moves(t, r)  BY <1>6, <1>8, OneMoves, ZenonT(60)
<1>10. Keeps(t, r)  BY <1>1, <1>8 DEF Keeps, Asking, Queued
<1>11. Observes(t, r)
  <2>1. \A u \in K!Sockets : t \in sock[u].watching => u \in r.set  BY <1>8 DEF SockInv, Watched
  <2> QED BY <1>2, <1>4, <1>5, <1>8, <2>1 DEF Observes, Looking
<1> QED BY <1>1, <1>5, <1>8, <1>9, <1>10, <1>11, SockMoves

LEMMA SockLeaves ==
  ASSUME SockInv, Local, NEW t \in Callers, K!Leave(t)
  PROVE  SockInv'
<1>1. /\ thr[t].pc = "leave" /\ asked' = asked /\ thr' = [thr EXCEPT ![t] = K!Idle]
      /\ sock' = [s \in K!Sockets |-> IF s \in thr[t].set THEN [sock[s] EXCEPT !.watching = sock[s].watching \ {t}] ELSE sock[s]]
  BY DEF K!Leave, K!At, K!Ends, K!Unwatches
<1>2. ASSUME NEW s \in K!Sockets
      PROVE  /\ sock'[s] \in SockShapes /\ SameSock(s)
             /\ sock'[s].watching = IF s \in thr[t].set THEN sock[s].watching \ {t} ELSE sock[s].watching
  <2> DEFINE W == sock[s].watching \ {t}
             x == [sock[s] EXCEPT !.watching = W]
  <2>1. sock[s] \in SockShapes /\ W \in SUBSET Callers  BY SockFacts
  <2>2. sock'[s] = IF s \in thr[t].set THEN x ELSE sock[s]  BY <1>1
  <2>3. /\ x \in SockShapes /\ x.passive = sock[s].passive /\ x.connected = sock[s].connected
        /\ x.peer = sock[s].peer /\ x.in = sock[s].in /\ x.out = sock[s].out /\ x.pending = sock[s].pending
        /\ x.permits = sock[s].permits /\ x.open = sock[s].open /\ x.watching = sock[s].watching \ {t}
    BY <2>1 DEF SockShapes
  <2> HIDE DEF x
  <2> QED BY <2>1, <2>2, <2>3 DEF SameSock
<1>3. sock' \in [K!Sockets -> SockShapes] /\ \A s \in K!Sockets : SameSock(s)  BY <1>1, <1>2, Zenon
<1>4. Moves(t, K!Idle)  BY <1>1, CallIdle, OneMoves, ZenonT(60)
<1>5. Keeps(t, K!Idle)  BY <1>1, CallIdle DEF Keeps, Asking, Queued
<1>6. Observes(t, K!Idle)
  <2>1. \A s \in K!Sockets : t \in sock[s].watching => s \in thr[t].set  BY DEF SockInv, Watched
  <2> QED BY <1>2, <2>1, Zenon DEF Observes
<1> QED BY <1>1, <1>3, <1>4, <1>5, <1>6, CallIdle, SockMoves, ZenonT(60)

(* Telling the watchers of a socket raises their semaphores.               *)
LEMMA WokenRows ==
  ASSUME SockInv, Local, NEW p \in K!Sockets
  PROVE  /\ K!Woken(p) = [u \in Callers |-> K!Woken(p)[u]]
         /\ \A u \in Callers : LET x == K!Woken(p)[u] IN
               x \in CallRows /\ x.pc = thr[u].pc /\ x.s = thr[u].s /\ x.to = thr[u].to /\ x.set = thr[u].set
<1>1. K!Woken(p) = [u \in Callers |-> IF u \in sock[p].watching THEN [thr[u] EXCEPT !.signals = thr[u].signals + 1] ELSE thr[u]]
  BY DEF K!Woken
<1>2. ASSUME NEW u \in Callers
      PROVE  LET x == K!Woken(p)[u] IN
               x \in CallRows /\ x.pc = thr[u].pc /\ x.s = thr[u].s /\ x.to = thr[u].to /\ x.set = thr[u].set
  <2> DEFINE n == thr[u].signals + 1
             x == [thr[u] EXCEPT !.signals = n]
  <2>1. thr[u] \in CallRows /\ n \in Int  BY SockFacts DEF CallShapes
  <2>2. K!Woken(p)[u] = IF u \in sock[p].watching THEN x ELSE thr[u]  BY <1>1
  <2> HIDE DEF n
  <2>3. x \in CallRows /\ x.pc = thr[u].pc /\ x.s = thr[u].s /\ x.to = thr[u].to /\ x.set = thr[u].set
    BY <2>1, SignalRow
  <2> HIDE DEF x
  <2> QED BY <2>1, <2>2, <2>3
<1> QED BY <1>1, <1>2

LEMMA SockTells ==
  ASSUME SockInv, Local, NEW t \in Callers, K!ConnectTells(t)
  PROVE  SockInv'
<1>a. thr[t] \in CallRows  BY SockFacts
<1> DEFINE l == thr[t].to
           g == K!Woken(l)
           r == [g[t] EXCEPT !.pc = "await"]
<1>1. thr[t].pc = "tell" /\ asked' = asked /\ sock' = [sock EXCEPT ![l].watching = {}] /\ thr' = [g EXCEPT ![t].pc = "await"]
  BY DEF K!ConnectTells, K!At
<1>2. l \in K!Sockets /\ thr[t].pc \in Asking \cup Queued  BY <1>1, <1>a DEF CallRows, Queued
<1>3. /\ g = [u \in Callers |-> g[u]]
      /\ \A u \in Callers : /\ g[u] \in CallRows /\ g[u].pc = thr[u].pc /\ g[u].s = thr[u].s /\ g[u].to = thr[u].to
                            /\ g[u].set = thr[u].set
  BY <1>2, WokenRows
<1> HIDE DEF g, l
<1>4. thr' = [g EXCEPT ![t] = r]  BY <1>1, <1>3
<1>5. "await" \in CallPlaces /\ "await" \notin Moving /\ g[t].pc \in Asking \cup Queued  BY <1>2, <1>3 DEF CallPlaces, Queued, Moving
<1>6. r \in CallRows /\ r.pc = "await" /\ r.s = g[t].s /\ r.to = g[t].to  BY <1>3, <1>5, PlaceRow
<1> HIDE DEF r
<1>7. Moves(t, r)  BY <1>3, <1>4, <1>6 DEF Moves, SameRow
<1>8. Keeps(t, r)  BY <1>1, <1>3, <1>6 DEF Keeps, Asking, Queued
<1>9. {} \in SUBSET Callers  OBVIOUS
<1>10. /\ sock' \in [K!Sockets -> SockShapes] /\ \A u \in K!Sockets : SameSock(u)
       /\ sock'[l].watching = {} /\ \A u \in K!Sockets : u # l => sock'[u].watching = sock[u].watching
  BY <1>1, <1>2, <1>9, WatchSame, Zenon
<1>11. Observes(t, r)
  <2>1. \A u \in K!Sockets : t \notin sock[u].watching  BY <1>1 DEF SockInv, Watched, Looking
  <2> QED BY <1>10, <2>1 DEF Observes
<1> QED BY <1>1, <1>6, <1>7, <1>8, <1>10, <1>11, SockMoves

LEMMA SockWakes ==
  ASSUME SockInv, Local, NEW t \in Callers, K!SendWakes(t)
  PROVE  SockInv'
<1>a. thr[t] \in CallRows /\ thr[t] \in CallShapes /\ thr = [u \in Callers |-> thr[u]]
      /\ \A u \in Callers : thr[u] \in CallRows
  BY SockFacts DEF SockInv, SockTypes
<1> DEFINE p == sock[thr[t].s].peer
           told == p # None /\ K!CanRead(p)
           g == IF told THEN K!Woken(p) ELSE thr
           r == K!Next1(t)
<1>1. /\ thr[t].pc = "wake" /\ asked' = asked /\ sock' = IF told THEN [sock EXCEPT ![p].watching = {}] ELSE sock
      /\ thr' = [g EXCEPT ![t] = r]
  BY DEF K!SendWakes, K!At
<1>2. r \in CallRows /\ r.pc \in {"idle", "room"}
  <2>1. CASE thr[t].left = 1  BY <2>1, CallIdle DEF K!Next1
  <2>2. CASE thr[t].left # 1
    <3> DEFINE n == thr[t].left - 1
               a == [thr[t] EXCEPT !.pc = "room"]
               b == [a EXCEPT !.left = n]
    <3>1. r = b  BY <2>2 DEF K!Next1
    <3>2. n \in Int  BY <1>a DEF CallShapes
    <3>3. "room" \in CallPlaces /\ "room" \notin Asking \cup Queued /\ thr[t].pc \in Moving
      BY <1>1 DEF CallPlaces, Asking, Queued, Moving
    <3>4. a \in CallRows /\ a.pc = "room"  BY <1>a, <3>3, PlaceRow
    <3> HIDE DEF a, n
    <3>5. b \in CallShapes /\ b.pc = "room" /\ b.todo = a.todo /\ b.set = a.set /\ b.s = a.s  BY <3>2, <3>4 DEF CallRows, CallShapes
    <3>6. a.todo \subseteq a.set /\ a.s \in K!Sockets  BY <3>4 DEF CallRows, Moving
    <3> HIDE DEF b
    <3>7. b \in CallRows  BY <3>5, <3>6 DEF CallRows, Asking, Queued, Moving
    <3> HIDE DEF r
    <3> QED BY <3>1, <3>5, <3>7
  <2> QED BY <2>1, <2>2
<1>3. told => p \in K!Sockets
  <2>1. thr[t].s \in K!Sockets  BY <1>1, SockFacts DEF Moving
  <2> QED BY <2>1, SockFacts
<1> HIDE DEF p, r
<1>4. /\ g = [u \in Callers |-> g[u]]
      /\ \A u \in Callers : /\ g[u] \in CallRows /\ g[u].pc = thr[u].pc /\ g[u].s = thr[u].s /\ g[u].to = thr[u].to
                            /\ g[u].set = thr[u].set
  <2>1. CASE told  BY <1>3, <2>1, WokenRows
  <2>2. CASE ~told  BY <1>a, <2>2
  <2> QED BY <2>1, <2>2
<1>5. /\ sock' \in [K!Sockets -> SockShapes] /\ \A u \in K!Sockets : SameSock(u) /\ sock'[u].watching \subseteq sock[u].watching
  <2>1. CASE told
    <3>1. {} \in SUBSET Callers /\ sock' = [sock EXCEPT ![p].watching = {}] /\ p \in K!Sockets  BY <1>1, <1>3, <2>1
    <3> HIDE DEF told
    <3>2. /\ sock' \in [K!Sockets -> SockShapes] /\ \A u \in K!Sockets : SameSock(u)
          /\ sock'[p].watching = {} /\ \A u \in K!Sockets : u # p => sock'[u].watching = sock[u].watching
      BY <3>1, WatchSame, Zenon
    <3> QED BY <3>2
  <2>2. CASE ~told  BY <1>1, <2>2 DEF SockInv, SockTypes, SameSock
  <2> QED BY <2>1, <2>2
<1> HIDE DEF g, told
<1>6. Moves(t, r)  BY <1>1, <1>2, <1>4 DEF Moves, SameRow
<1>7. Keeps(t, r)  BY <1>1, <1>2 DEF Keeps, Asking, Queued
<1>8. Observes(t, r)
  <2>1. \A u \in K!Sockets : t \notin sock[u].watching  BY <1>1 DEF SockInv, Watched, Looking
  <2> QED BY <1>5, <2>1 DEF Observes
<1> QED BY <1>1, <1>2, <1>5, <1>6, <1>7, <1>8, SockMoves, ZenonT(60)

(* Asking: a socket that is asked about again is in nobody's hands alone.  *)
LEMMA SockAsks ==
  ASSUME SockInv, Local, NEW t \in Callers, NEW s \in K!Sockets, NEW to \in K!Sockets, K!SysConnect(t, s, to)
  PROVE  SockInv'
<1> DEFINE r == [K!Idle EXCEPT !.pc = "connect", !.s = s, !.to = to]
           n == asked[s] + 1
<1>1. /\ thr[t] = K!Idle /\ sock[s].open /\ ~sock[s].connected /\ sock' = sock
      /\ thr' = [thr EXCEPT ![t] = r] /\ asked' = [asked EXCEPT ![s] = n]
  BY DEF K!SysConnect, K!Connect, K!Handle
<1>r. r = [K!Idle EXCEPT !.pc = "connect", !.s = s, !.to = to]  OBVIOUS
<1>3. asked[s] \in Nat /\ n \in Nat /\ n = asked[s] + 1  BY SockFacts
<1> HIDE DEF r, n
<1>2. r \in CallRows /\ r.pc = "connect" /\ r.s = s /\ r.to = to
  <2>1. \A x : x = [K!Idle EXCEPT !.pc = "connect", !.s = s, !.to = to] =>
                x \in CallRows /\ x.pc = "connect" /\ x.s = s /\ x.to = to
    BY ConnectRow, Zenon
  <2> QED BY <1>r, <2>1
<1>4. SockTypes'  BY <1>1, <1>2, <1>3 DEF SockInv, SockTypes
<1>5. asked'[s] = n /\ \A x \in K!Sockets : x # s => asked'[x] = asked[x]  BY <1>1, <1>3 DEF SockInv, SockTypes
<1>6. \A x \in K!Sockets : asked'[x] >= asked[x] /\ asked'[x] \in Nat /\ asked[x] \in Nat
  BY <1>3, <1>5, SockFacts
<1>7. thr'[t] = r /\ \A u \in Callers : u # t => thr'[u] = thr[u]  BY <1>1 DEF SockInv, SockTypes
<1>8. thr[t].pc = "idle"  BY <1>1, CallIdle
<1>9. \A u \in Callers : /\ thr[u].pc \in Asking \cup Queued => thr[u].s \in K!Sockets /\ asked[thr[u].s] >= 1
                         /\ thr[u].pc \in Asking \cup Queued => u # t
  BY <1>8, SockFacts DEF SockInv, Joins, Asking, Queued
<1>10. ASSUME NEW u \in Callers PROVE Joins(u)'
  <2>1. CASE u = t  BY <1>1, <1>2, <1>3, <1>5, <1>7, <2>1 DEF Joins, Asking, Queued
  <2>2. CASE u # t  BY <1>1, <1>6, <1>7, <1>9, <2>2 DEF SockInv, Joins
  <2> QED BY <2>1, <2>2
<1>11. Unshared'
  <2> SUFFICES ASSUME NEW u \in Callers, NEW v \in Callers, u # v, thr'[u].pc \in Asking \cup Queued,
                      thr'[v].pc \in Asking \cup Queued, thr'[v].s = thr'[u].s
               PROVE  asked'[thr'[u].s] >= 2
    BY DEF Unshared
  <2>1. CASE u = t  BY <1>2, <1>3, <1>5, <1>6, <1>7, <1>9, <2>1
  <2>2. CASE v = t  BY <1>2, <1>3, <1>5, <1>6, <1>7, <1>9, <2>2
  <2>3. CASE u # t /\ v # t
    <3>1. asked[thr[u].s] >= 2 /\ thr[u].s \in K!Sockets  BY <1>7, <1>9, <2>3 DEF SockInv, Unshared
    <3> QED BY <1>6, <1>7, <2>3, <3>1
  <2> QED BY <2>1, <2>2, <2>3
<1>12. Sole'
  <2>1. \A l \in K!Sockets : \A i \in DOMAIN sock[l].pending : sock[l].pending[i] \in K!Sockets  BY SockFacts
  <2> QED BY <1>1, <1>6, <2>1 DEF SockInv, Sole
<1>13. \A l : WaitingOn(l)' = WaitingOn(l)  BY <1>2, <1>7, <1>8 DEF WaitingOn, Queued
<1>14. ASSUME NEW x \in K!Sockets PROVE Sound(x)' /\ Listing(x)' /\ Mated(x)' /\ Budgeted(x)' /\ Watched(x)'
  <2>1. Sound(x) /\ Listing(x) /\ Mated(x) /\ Budgeted(x) /\ Watched(x)  BY DEF SockInv
  <2>2. Sound(x)'
    <3>1. ~sock[x].open => x # s  BY <1>1
    <3> QED BY <1>1, <1>5, <1>6, <2>1, <3>1 DEF Sound
  <2>3. Listing(x)'
    <3>1. \A i \in DOMAIN sock[x].pending : sock[x].pending[i] \in K!Sockets  BY SockFacts
    <3>2. \A u \in WaitingOn(x) : thr'[u] = thr[u]  BY <1>7, <1>8 DEF WaitingOn, Queued
    <3>3. \A c \in K!Sockets : Entry(x, c) => Entry(x, c)'  BY <1>1, <1>6, <1>13, <3>2 DEF Entry
    <3> QED BY <1>1, <2>1, <3>1, <3>3 DEF Listing
  <2>4. Mated(x)'  BY <1>1, <1>6, <2>1 DEF Mated, Sound
  <2>5. Budgeted(x)'  BY <1>1, <1>6, <1>13, <2>1 DEF Budgeted
  <2>6. Watched(x)'
    <3>1. t \notin sock[x].watching  BY <1>8, <2>1 DEF Watched, Looking
    <3>2. sock[x].watching \subseteq Callers  BY SockFacts
    <3> QED BY <1>1, <1>7, <2>1, <3>1, <3>2 DEF Watched
  <2> QED BY <2>2, <2>3, <2>4, <2>5, <2>6
<1> QED BY <1>4, <1>10, <1>11, <1>12, <1>14 DEF SockInv

LEMMA SockListens ==
  ASSUME SockInv, Local, NEW t \in Callers, NEW s \in K!Sockets, K!SysListen(t, s)
  PROVE  SockInv'
<1> DEFINE r == [K!Idle EXCEPT !.pc = "unlock", !.s = s]
           n == asked[s] + (IF sock[s].connected THEN 2 ELSE 1)
           o == sock[s]
           a == [o EXCEPT !.passive = TRUE]
           b == [a EXCEPT !.permits = Backlog + 1]
           c == [b EXCEPT !.in = None]
           d == [c EXCEPT !.out = None]
<1>1. /\ thr[t] = K!Idle /\ sock[s].open
      /\ sock' = [sock EXCEPT ![s].passive = TRUE, ![s].permits = Backlog + 1, ![s].in = None, ![s].out = None]
      /\ thr' = [thr EXCEPT ![t] = r] /\ asked' = [asked EXCEPT ![s] = n]
  BY DEF K!SysListen, K!Listen, K!Handle
<1>2. r \in CallRows /\ r.pc = "unlock" /\ r.s = s  BY ListenRow, Zenon
<1>3. /\ asked[s] \in Nat /\ n \in Nat /\ n >= asked[s] + 1 /\ (sock[s].connected => n = asked[s] + 2)
  BY SockFacts
<1>4. sock' = [sock EXCEPT ![s] = d]  BY <1>1, Zenon DEF SockInv, SockTypes
<1> HIDE DEF r, n
<1>5. o \in SockShapes /\ o = sock[s] /\ Backlog + 1 \in Int  BY SockFacts DEF Local
<1> HIDE DEF o
<1>6. /\ a \in SockShapes /\ a.passive /\ a.connected = o.connected /\ a.peer = o.peer /\ a.pending = o.pending
      /\ a.watching = o.watching /\ a.open = o.open
  BY <1>5, Zenon DEF SockShapes
<1> HIDE DEF a
<1>7. /\ b \in SockShapes /\ b.passive /\ b.connected = o.connected /\ b.peer = o.peer /\ b.pending = o.pending
      /\ b.watching = o.watching /\ b.open = o.open /\ b.permits = Backlog + 1
  BY <1>5, <1>6 DEF SockShapes
<1> HIDE DEF b
<1>8. /\ c \in SockShapes /\ c.passive /\ c.connected = o.connected /\ c.peer = o.peer /\ c.pending = o.pending
      /\ c.watching = o.watching /\ c.open = o.open /\ c.permits = Backlog + 1
  BY <1>7 DEF SockShapes
<1> HIDE DEF c
<1>9. /\ d \in SockShapes /\ d.passive /\ d.connected = o.connected /\ d.peer = o.peer /\ d.pending = o.pending
      /\ d.watching = o.watching /\ d.open = o.open /\ d.permits = Backlog + 1
  BY <1>8 DEF SockShapes
<1> HIDE DEF d
<1>10. sock'[s] = d /\ \A x \in K!Sockets : x # s => sock'[x] = sock[x]  BY <1>4 DEF SockInv, SockTypes
<1>11. SockTypes'
  <2>1. sock' \in [K!Sockets -> SockShapes]  BY <1>4, <1>9 DEF SockInv, SockTypes
  <2>2. asked' \in [K!Sockets -> Nat]  BY <1>1, <1>3 DEF SockInv, SockTypes
  <2>3. thr' = [u \in Callers |-> thr'[u]] /\ \A u \in Callers : thr'[u] \in CallRows
    BY <1>1, <1>2 DEF SockInv, SockTypes
  <2> QED BY <2>1, <2>2, <2>3 DEF SockTypes
<1>12. \A x \in K!Sockets :
          /\ sock'[x].connected = sock[x].connected /\ sock'[x].peer = sock[x].peer /\ sock'[x].pending = sock[x].pending
          /\ sock'[x].watching = sock[x].watching /\ sock'[x].open = sock[x].open
          /\ sock[x].passive => sock'[x].passive
          /\ x # s => sock'[x] = sock[x]
  BY <1>5, <1>9, <1>10
<1>13. asked'[s] = n /\ \A x \in K!Sockets : x # s => asked'[x] = asked[x]  BY <1>1, <1>3 DEF SockInv, SockTypes
<1>14. \A x \in K!Sockets : asked'[x] >= asked[x] /\ asked'[x] \in Nat /\ asked[x] \in Nat
  BY <1>3, <1>13, SockFacts
<1>15. thr'[t] = r /\ \A u \in Callers : u # t => thr'[u] = thr[u]  BY <1>1 DEF SockInv, SockTypes
<1>16. thr[t].pc = "idle"  BY <1>1, CallIdle
<1>17. ASSUME NEW u \in Callers PROVE Joins(u)'
  <2>1. CASE u = t  BY <1>2, <1>15, <2>1 DEF Joins, Asking, Queued
  <2>2. CASE u # t
    <3>1. thr'[u] = thr[u] /\ Joins(u)  BY <1>15, <2>2 DEF SockInv
    <3>2. /\ thr[u].pc \in Asking \cup Queued => thr[u].s \in K!Sockets /\ thr[u].to \in K!Sockets
          /\ thr[u].pc = "accept" => thr[u].s \in K!Sockets
      BY SockFacts
    <3> QED BY <1>12, <1>14, <3>1, <3>2 DEF Joins, Asking
  <2> QED BY <2>1, <2>2
<1>18. Unshared'
  <2>1. \A u \in Callers : thr'[u].pc \in Asking \cup Queued => thr'[u] = thr[u] /\ thr[u].s \in K!Sockets
    BY <1>2, <1>15, SockFacts DEF Asking, Queued
  <2> QED BY <1>14, <2>1 DEF SockInv, Unshared
<1>19. Sole'
  <2>1. \A l \in K!Sockets : \A i \in DOMAIN sock[l].pending : sock[l].pending[i] \in K!Sockets  BY SockFacts
  <2>2. \A l \in K!Sockets : \A i \in DOMAIN sock[l].pending :
           asked'[sock[l].pending[i]] <= 1 => asked[sock[l].pending[i]] <= 1
    BY <1>14, <2>1
  <2> QED BY <1>12, <2>2 DEF SockInv, Sole
<1>20. \A l : WaitingOn(l)' = WaitingOn(l)  BY <1>2, <1>15, <1>16 DEF WaitingOn, Queued
<1>21. ASSUME NEW x \in K!Sockets PROVE Sound(x)' /\ Listing(x)' /\ Mated(x)' /\ Budgeted(x)' /\ Watched(x)'
  <2>1. Sound(x) /\ Listing(x) /\ Mated(x) /\ Budgeted(x) /\ Watched(x)  BY DEF SockInv
  <2>2. Sound(x)'
    <3>1. sock'[x].passive => asked'[x] >= 1
      <4>1. CASE x = s  BY <1>3, <1>13, <4>1
      <4>2. CASE x # s  BY <1>12, <1>13, <2>1, <4>2 DEF Sound
      <4> QED BY <4>1, <4>2
    <3>2. ~sock'[x].open => ~sock'[x].passive /\ ~sock'[x].connected /\ asked'[x] = 0
      <4>1. ~sock'[x].open => x # s  BY <1>1, <1>12
      <4> QED BY <1>12, <1>13, <2>1, <4>1 DEF Sound
    <3>3. /\ sock'[x].connected => sock'[x].peer \in K!Sockets
          /\ sock'[x].peer \in K!Sockets => sock'[sock'[x].peer].open
      BY <1>12, <2>1 DEF Sound
    <3> QED BY <3>1, <3>2, <3>3 DEF Sound
  <2>3. Listing(x)'
    <3>1. \A i \in DOMAIN sock[x].pending : sock[x].pending[i] \in K!Sockets  BY SockFacts
    <3>2. \A u \in WaitingOn(x) : thr'[u] = thr[u]  BY <1>15, <1>16 DEF WaitingOn, Queued
    <3>3. \A e \in K!Sockets : Entry(x, e) => Entry(x, e)'  BY <1>12, <1>14, <1>20, <3>2 DEF Entry
    <3> QED BY <1>12, <2>1, <3>1, <3>3 DEF Listing
  <2>4. Mated(x)'
    <3> SUFFICES ASSUME sock'[x].connected, asked'[x] <= 1, asked'[sock'[x].peer] <= 1
                 PROVE  /\ sock'[sock'[x].peer].peer = x /\ sock'[sock'[x].peer].connected
                        /\ sock'[x].in = sock'[sock'[x].peer].out /\ sock'[x].out = sock'[sock'[x].peer].in
      BY DEF Mated
    <3> DEFINE p == sock[x].peer
    <3>1. sock'[x].peer = p /\ p \in K!Sockets /\ sock[x].connected  BY <1>12, <2>1 DEF Sound
    <3>2. asked[x] <= 1 /\ asked[p] <= 1  BY <1>14, <3>1
    <3>3. /\ sock[p].peer = x /\ sock[p].connected /\ sock[x].in = sock[p].out /\ sock[x].out = sock[p].in
      BY <2>1, <3>1, <3>2 DEF Mated
    <3> HIDE DEF p
    <3>4. x # s /\ p # s  BY <1>3, <1>13, <3>1, <3>3
    <3> QED BY <1>12, <3>1, <3>3, <3>4
  <2>5. Budgeted(x)'
    <3>1. CASE x = s
      <4> SUFFICES ASSUME asked'[x] <= 1 PROVE sock'[x].permits + Cardinality(WaitingOn(x)) = Backlog + 1
        BY <1>20 DEF Budgeted
      <4>1. asked[x] = 0  BY <1>3, <1>13, <3>1
      <4>2. ~sock[x].passive  BY <2>1, <4>1 DEF Sound
      <4>3. WaitingOn(x) = {}  BY <4>2 DEF WaitingOn, SockInv, Joins
      <4> QED BY <1>5, <1>9, <1>10, <3>1, <4>3, FS_EmptySet
    <3>2. CASE x # s  BY <1>12, <1>13, <1>20, <2>1, <3>2 DEF Budgeted
    <3> QED BY <3>1, <3>2
  <2>6. Watched(x)'
    <3>1. t \notin sock[x].watching  BY <1>16, <2>1 DEF Watched, Looking
    <3>2. sock[x].watching \subseteq Callers  BY SockFacts
    <3> QED BY <1>12, <1>15, <2>1, <3>1, <3>2 DEF Watched
  <2> QED BY <2>2, <2>3, <2>4, <2>5, <2>6
<1> QED BY <1>11, <1>17, <1>18, <1>19, <1>21 DEF SockInv

(* A request is listed, and one that has been answered ends.               *)
LEMMA SockLists ==
  ASSUME SockInv, Local, NEW t \in Callers, NEW l, NEW c, l = thr[t].to, c = thr[t].s, K!ConnectListed(t)
  PROVE  SockInv'
<1> DEFINE o == sock[l]
           m == o.permits - 1
           q == o.pending
           q1 == Append(q, c)
           a == [o EXCEPT !.permits = m]
           b == [a EXCEPT !.pending = q1]
           r == [thr[t] EXCEPT !.pc = "tell"]
<1>1. /\ thr[t].pc = "permit" /\ asked' = asked /\ thr' = [thr EXCEPT ![t].pc = "tell"]
      /\ sock' = [sock EXCEPT ![l].permits = sock[l].permits - 1, ![l].pending = Append(sock[l].pending, c)]
  BY DEF K!ConnectListed, K!At, K!Moves
<1>k. asked' = asked /\ thr[t].pc = "permit"  BY <1>1
<1>2. l \in K!Sockets /\ c \in K!Sockets /\ thr[t].pc \in Asking /\ thr[t] \in CallRows  BY <1>1, SockFacts DEF Asking
<1>3. thr' = [thr EXCEPT ![t] = r]  BY <1>1 DEF SockInv, SockTypes
<1>4. "tell" \in CallPlaces /\ "tell" \notin Moving /\ thr[t].pc \in Asking \cup Queued
  BY <1>2 DEF CallPlaces, Moving, Queued
<1>5. r \in CallRows /\ r.pc = "tell" /\ r.s = c /\ r.to = l  BY <1>2, <1>4, PlaceRow
<1>6. sock' = [sock EXCEPT ![l] = b]  BY <1>1, <1>2, Zenon DEF SockInv, SockTypes
<1>7. o \in SockShapes /\ q \in Seq(K!Sockets) /\ o.permits \in Int /\ m \in Int /\ m = o.permits - 1 /\ q = o.pending /\ o = sock[l]
  BY <1>2, SockFacts
<1> HIDE DEF r, q, m, o
<1>8. /\ q1 \in Seq(K!Sockets) /\ Len(q) \in Nat /\ DOMAIN q = 1..Len(q) /\ DOMAIN q1 = 1..(Len(q) + 1)
      /\ \A i \in DOMAIN q : q1[i] = q[i]
      /\ q1[Len(q) + 1] = c
  <2>1. Len(q) \in Nat /\ DOMAIN q = 1..Len(q)  BY <1>7, LenProperties
  <2>2. q1 \in Seq(K!Sockets) /\ Len(q1) = Len(q) + 1 /\ (\A i \in 1..Len(q) : q1[i] = q[i]) /\ q1[Len(q) + 1] = c
    BY <1>2, <1>7, AppendProperties, SMTT(60)
  <2>3. DOMAIN q1 = 1..(Len(q) + 1)  BY <2>2, LenProperties
  <2> QED BY <2>1, <2>2, <2>3
<1> HIDE DEF q1
<1>9. /\ a \in SockShapes /\ a.passive = o.passive /\ a.connected = o.connected /\ a.peer = o.peer /\ a.in = o.in
      /\ a.out = o.out /\ a.permits = m /\ a.watching = o.watching /\ a.open = o.open
  BY <1>7 DEF SockShapes
<1> HIDE DEF a
<1>10. /\ b \in SockShapes /\ b.passive = o.passive /\ b.connected = o.connected /\ b.peer = o.peer /\ b.in = o.in
       /\ b.out = o.out /\ b.permits = m /\ b.watching = o.watching /\ b.open = o.open /\ b.pending = q1
  BY <1>8, <1>9, Zenon DEF SockShapes
<1> HIDE DEF b
<1>11. sock'[l] = b /\ \A x \in K!Sockets : x # l => sock'[x] = sock[x]  BY <1>2, <1>6 DEF SockInv, SockTypes
<1>12. \A x \in K!Sockets :
         /\ sock'[x].passive = sock[x].passive /\ sock'[x].connected = sock[x].connected /\ sock'[x].peer = sock[x].peer
         /\ sock'[x].in = sock[x].in /\ sock'[x].out = sock[x].out /\ sock'[x].watching = sock[x].watching
         /\ sock'[x].open = sock[x].open
  BY <1>7, <1>10, <1>11
<1>13. SockTypes'
  <2>1. sock' \in [K!Sockets -> SockShapes]  BY <1>6, <1>10, Zenon DEF SockInv, SockTypes
  <2> QED BY <1>k, <1>3, <1>5, <2>1 DEF SockInv, SockTypes
<1>14. thr'[t] = r /\ \A u \in Callers : u # t => thr'[u] = thr[u]  BY <1>3 DEF SockInv, SockTypes
<1>15. sock[l].passive /\ sock[c].open /\ asked[c] >= 1 /\ (asked[c] <= 1 => ~sock[c].connected)
  BY <1>k, <1>4 DEF SockInv, Joins, Asking, Queued
<1>16. \A x \in K!Sockets : \A i \in DOMAIN sock[x].pending : sock[x].pending[i] = c => asked[c] \in Nat /\ ~(asked[c] <= 1)
  <2> SUFFICES ASSUME NEW x \in K!Sockets, NEW i \in DOMAIN sock[x].pending, sock[x].pending[i] = c, asked[c] <= 1
               PROVE  FALSE
    BY <1>2, SockFacts
  <2>1. PICK u \in WaitingOn(x) : thr[u].s = c  BY DEF SockInv, Listing, Entry
  <2>2. u \in Callers /\ u # t /\ thr[u].pc \in Asking \cup Queued  BY <1>k, <2>1 DEF WaitingOn, Queued
  <2>3. asked[c] >= 2  BY <1>4, <2>1, <2>2 DEF SockInv, Unshared
  <2> QED BY <1>2, <2>3, SockFacts
<1>17. \A x \in K!Sockets : \A i \in DOMAIN sock'[x].pending :
          \/ i \in DOMAIN sock[x].pending /\ sock'[x].pending[i] = sock[x].pending[i]
          \/ x = l /\ i = Len(q) + 1 /\ sock'[x].pending[i] = c
  <2> SUFFICES ASSUME NEW x \in K!Sockets, NEW i \in DOMAIN sock'[x].pending
               PROVE  \/ i \in DOMAIN sock[x].pending /\ sock'[x].pending[i] = sock[x].pending[i]
                      \/ x = l /\ i = Len(q) + 1 /\ sock'[x].pending[i] = c
    OBVIOUS
  <2>1. CASE x = l
    <3>1. sock'[x].pending = q1 /\ sock[x].pending = q  BY <1>7, <1>10, <1>11, <2>1, Zenon
    <3>2. i \in DOMAIN q1  BY <3>1, Zenon
    <3>3. i \in DOMAIN q \/ i = Len(q) + 1  BY <1>8, <3>2
    <3> QED BY <1>8, <2>1, <3>1, <3>3, Zenon
  <2>2. CASE x # l  BY <1>11, <2>2, Zenon
  <2> QED BY <2>1, <2>2
<1>18. Sole'
  <2> SUFFICES ASSUME NEW x \in K!Sockets, NEW y \in K!Sockets, NEW i \in DOMAIN sock'[x].pending,
                      NEW j \in DOMAIN sock'[y].pending, sock'[x].pending[i] = sock'[y].pending[j],
                      asked'[sock'[x].pending[i]] <= 1
               PROVE  x = y /\ i = j
    BY DEF Sole
  <2>1. CASE sock'[x].pending[i] = c
    <3>1. x = l /\ i = Len(q) + 1  BY <1>k, <1>16, <1>17, <2>1
    <3>2. y = l /\ j = Len(q) + 1  BY <1>k, <1>16, <1>17, <2>1, Zenon
    <3> QED BY <3>1, <3>2
  <2>2. CASE sock'[x].pending[i] # c
    <3>1. i \in DOMAIN sock[x].pending /\ sock'[x].pending[i] = sock[x].pending[i]  BY <1>17, <2>2
    <3>2. j \in DOMAIN sock[y].pending /\ sock'[y].pending[j] = sock[y].pending[j]  BY <1>17, <2>2
    <3>3. sock[x].pending[i] = sock[y].pending[j] /\ asked[sock[x].pending[i]] <= 1  BY <1>k, <3>1, <3>2, Zenon
    <3> QED BY <3>1, <3>2, <3>3 DEF SockInv, Sole
  <2> QED BY <2>1, <2>2
<1>19. ASSUME NEW u \in Callers PROVE Joins(u)'
  <2>1. CASE u = t  BY <1>k, <1>2, <1>5, <1>12, <1>14, <1>15, <2>1 DEF Joins, Asking, Queued
  <2>2. CASE u # t
    <3>1. thr'[u] = thr[u] /\ Joins(u)  BY <1>14, <2>2 DEF SockInv
    <3>2. /\ thr[u].pc \in Asking \cup Queued => thr[u].s \in K!Sockets /\ thr[u].to \in K!Sockets
          /\ thr[u].pc = "accept" => thr[u].s \in K!Sockets
      BY SockFacts
    <3> QED BY <1>k, <1>12, <3>1, <3>2 DEF Joins, Asking
  <2> QED BY <2>1, <2>2
<1>20. Unshared'
  <2>1. \A u \in Callers : thr'[u].pc \in Asking \cup Queued => thr[u].pc \in Asking \cup Queued /\ thr'[u].s = thr[u].s
    BY <1>4, <1>5, <1>14
  <2> QED BY <1>k, <2>1 DEF SockInv, Unshared
<1>21. /\ t \in WaitingOn(l)' /\ t \notin WaitingOn(l) /\ WaitingOn(l)' = WaitingOn(l) \cup {t}
       /\ \A x : x # l => WaitingOn(x)' = WaitingOn(x)
  <2>1. thr'[t].pc \in Queued /\ thr[t].pc \notin Queued /\ thr'[t].to = l  BY <1>k, <1>5, <1>14 DEF Queued
  <2> QED BY <1>14, <2>1 DEF WaitingOn
<1>22. ASSUME NEW x \in K!Sockets PROVE Sound(x)' /\ Listing(x)' /\ Mated(x)' /\ Budgeted(x)' /\ Watched(x)'
  <2>1. Sound(x) /\ Listing(x) /\ Mated(x) /\ Budgeted(x) /\ Watched(x)  BY DEF SockInv
  <2>2. Sound(x)'  BY <1>k, <1>12, <2>1 DEF Sound
  <2>3. Listing(x)'
    <3>1. ASSUME NEW i \in DOMAIN sock'[x].pending, NEW e, e = sock'[x].pending[i] PROVE Entry(x, e)'
      <4>1. CASE i \in DOMAIN sock[x].pending /\ e = sock[x].pending[i]
        <5>1. e \in K!Sockets /\ Entry(x, e)  BY <2>1, <4>1, SockFacts DEF Listing
        <5>2. \A u \in WaitingOn(x) : thr'[u] = thr[u] /\ u \in WaitingOn(x)'
          <6>1. \A u \in WaitingOn(x) : u \in Callers /\ u # t  BY <1>k DEF WaitingOn, Queued
          <6> QED BY <1>14, <6>1 DEF WaitingOn
        <5> QED BY <1>k, <1>12, <5>1, <5>2 DEF Entry
      <4>2. CASE x = l /\ e = c
        <5>1. t \in WaitingOn(x)' /\ thr'[t].s = c  BY <1>5, <1>14, <1>21, <4>2
        <5> QED BY <1>k, <1>2, <1>12, <1>15, <4>2, <5>1 DEF Entry
      <4> QED BY <1>17, <3>1, <4>1, <4>2
    <3> QED BY <3>1 DEF Listing
  <2>4. Mated(x)'  BY <1>k, <1>12, <2>1 DEF Mated, Sound
  <2>5. Budgeted(x)'
    <3>1. CASE x = l
      <4>1. IsFiniteSet(WaitingOn(l)) /\ Cardinality(WaitingOn(l)) \in Nat  BY <1>2, SockFacts
      <4>2. Cardinality(WaitingOn(l) \cup {t}) = Cardinality(WaitingOn(l)) + 1  BY <1>21, <4>1, FS_AddElement, Zenon
      <4>3. sock'[l].permits = sock[l].permits - 1 /\ sock[l].permits \in Int  BY <1>7, <1>10, <1>11
      <4>4. WaitingOn(x)' = WaitingOn(l) \cup {t}  BY <1>21, <3>1
      <4>5. Cardinality(WaitingOn(x)') = Cardinality(WaitingOn(l)) + 1  BY <4>2, <4>4
      <4>6. asked[l] <= 1 => sock[l].permits + Cardinality(WaitingOn(l)) = Backlog + 1  BY <2>1, <3>1 DEF Budgeted
      <4>7. asked[l] <= 1 => sock'[l].permits + Cardinality(WaitingOn(x)') = Backlog + 1
        BY <4>1, <4>3, <4>5, <4>6 DEF Local
      <4> QED BY <1>k, <3>1, <4>7 DEF Budgeted
    <3>2. CASE x # l  BY <1>k, <1>11, <1>21, <2>1, <3>2 DEF Budgeted
    <3> QED BY <3>1, <3>2
  <2>6. Watched(x)'
    <3>1. t \notin sock[x].watching  BY <1>k, <2>1 DEF Watched, Looking
    <3>2. sock[x].watching \subseteq Callers  BY SockFacts
    <3> QED BY <1>12, <1>14, <2>1, <3>1, <3>2 DEF Watched
  <2> QED BY <2>2, <2>3, <2>4, <2>5, <2>6
<1> QED BY <1>13, <1>18, <1>19, <1>20, <1>22 DEF SockInv

LEMMA SockConnected ==
  ASSUME SockInv, Local, NEW t \in Callers, NEW l, NEW c, l = thr[t].to, c = thr[t].s, K!Connected(t)
  PROVE  SockInv'
<1> DEFINE o == sock[l]
           m == o.permits + 1
           a == [o EXCEPT !.permits = m]
           mid == [sock EXCEPT ![l] = a]
           p == mid[c]
           b == [p EXCEPT !.lock = None]
<1>1. /\ thr[t].pc = "await" /\ sock[c].connected /\ asked' = asked /\ thr' = [thr EXCEPT ![t] = K!Idle]
      /\ sock' = [sock EXCEPT ![l].permits = sock[l].permits + 1, ![c].lock = None]
  BY DEF K!Connected, K!At, K!Ends
<1>k. asked' = asked /\ thr[t].pc = "await" /\ sock[c].connected  BY <1>1
<1>2. l \in K!Sockets /\ c \in K!Sockets /\ thr[t].pc \in Queued  BY <1>1, SockFacts DEF Queued
<1>3. sock' = [mid EXCEPT ![c] = b]  BY <1>1, <1>2 DEF SockInv, SockTypes
<1>4. o \in SockShapes /\ o.permits \in Int /\ m \in Int /\ m = o.permits + 1 /\ o = sock[l]  BY <1>2, SockFacts
<1> HIDE DEF m, o
<1>5. /\ a \in SockShapes /\ a.passive = o.passive /\ a.connected = o.connected /\ a.peer = o.peer /\ a.in = o.in
      /\ a.out = o.out /\ a.permits = m /\ a.watching = o.watching /\ a.open = o.open /\ a.pending = o.pending
  BY <1>4 DEF SockShapes
<1> HIDE DEF a
<1>6. mid \in [K!Sockets -> SockShapes] /\ mid[l] = a /\ \A x \in K!Sockets : x # l => mid[x] = sock[x]
  BY <1>2, <1>5 DEF SockInv, SockTypes
<1> HIDE DEF mid
<1>7. p \in SockShapes /\ p = mid[c]  BY <1>2, <1>6
<1> HIDE DEF p
<1>8. /\ b \in SockShapes /\ b.passive = p.passive /\ b.connected = p.connected /\ b.peer = p.peer /\ b.in = p.in
      /\ b.out = p.out /\ b.permits = p.permits /\ b.watching = p.watching /\ b.open = p.open /\ b.pending = p.pending
  BY <1>7 DEF SockShapes
<1> HIDE DEF b
<1>9. sock' \in [K!Sockets -> SockShapes] /\ sock'[c] = b /\ \A x \in K!Sockets : x # c => sock'[x] = mid[x]
  BY <1>2, <1>3, <1>6, <1>8
<1>10. \A x \in K!Sockets :
         /\ sock'[x].passive = sock[x].passive /\ sock'[x].connected = sock[x].connected /\ sock'[x].peer = sock[x].peer
         /\ sock'[x].in = sock[x].in /\ sock'[x].out = sock[x].out /\ sock'[x].watching = sock[x].watching
         /\ sock'[x].open = sock[x].open /\ sock'[x].pending = sock[x].pending
         /\ sock'[x].permits = IF x = l THEN sock[x].permits + 1 ELSE sock[x].permits
  <2>1. ASSUME NEW x \in K!Sockets
        PROVE  /\ mid[x].passive = sock[x].passive /\ mid[x].connected = sock[x].connected /\ mid[x].peer = sock[x].peer
               /\ mid[x].in = sock[x].in /\ mid[x].out = sock[x].out /\ mid[x].watching = sock[x].watching
               /\ mid[x].open = sock[x].open /\ mid[x].pending = sock[x].pending
               /\ mid[x].permits = IF x = l THEN sock[x].permits + 1 ELSE sock[x].permits
    BY <1>4, <1>5, <1>6
  <2> QED BY <1>2, <1>7, <1>8, <1>9, <2>1
<1>11. thr'[t] = K!Idle /\ \A u \in Callers : u # t => thr'[u] = thr[u]  BY <1>1 DEF SockInv, SockTypes
<1>12. thr'[t].pc = "idle"  BY <1>11, CallIdle
<1>13. SockTypes'  BY <1>1, <1>9, CallIdle DEF SockInv, SockTypes
<1>14. ASSUME NEW u \in Callers PROVE Joins(u)'
  <2>1. CASE u = t  BY <1>12, <2>1 DEF Joins, Asking, Queued
  <2>2. CASE u # t
    <3>1. thr'[u] = thr[u] /\ Joins(u)  BY <1>11, <2>2 DEF SockInv
    <3>2. /\ thr[u].pc \in Asking \cup Queued => thr[u].s \in K!Sockets /\ thr[u].to \in K!Sockets
          /\ thr[u].pc = "accept" => thr[u].s \in K!Sockets
      BY SockFacts
    <3> QED BY <1>k, <1>10, <3>1, <3>2 DEF Joins, Asking
  <2> QED BY <2>1, <2>2
<1>15. Unshared'
  <2>1. \A u \in Callers : thr'[u].pc \in Asking \cup Queued => thr'[u] = thr[u]
    BY <1>11, <1>12 DEF Asking, Queued
  <2> QED BY <1>k, <2>1 DEF SockInv, Unshared
<1>16. Sole'  BY <1>k, <1>10 DEF SockInv, Sole
<1>17. /\ t \in WaitingOn(l) /\ WaitingOn(l)' = WaitingOn(l) \ {t}
       /\ \A x : x # l => WaitingOn(x)' = WaitingOn(x)
  <2>1. thr[t].pc \in Queued /\ thr'[t].pc \notin Queued /\ thr[t].to = l  BY <1>2, <1>12 DEF Queued
  <2> QED BY <1>11, <2>1 DEF WaitingOn
<1>18. ASSUME NEW x \in K!Sockets PROVE Sound(x)' /\ Listing(x)' /\ Mated(x)' /\ Budgeted(x)' /\ Watched(x)'
  <2>1. Sound(x) /\ Listing(x) /\ Mated(x) /\ Budgeted(x) /\ Watched(x)  BY DEF SockInv
  <2>2. Sound(x)'  BY <1>k, <1>10, <2>1 DEF Sound
  <2>3. Listing(x)'
    <3>1. ASSUME NEW i \in DOMAIN sock[x].pending, NEW e, e = sock[x].pending[i] PROVE Entry(x, e)'
      <4>1. e \in K!Sockets /\ Entry(x, e)  BY <2>1, <3>1, SockFacts DEF Listing
      <4>2. asked[e] <= 1 => \A u \in WaitingOn(x) : thr[u].s = e => u # t  BY <1>k, <4>1 DEF Entry
      <4>3. \A u \in WaitingOn(x) : u # t => thr'[u] = thr[u] /\ u \in WaitingOn(x)'
        <5>1. \A u \in WaitingOn(x) : u \in Callers  BY DEF WaitingOn
        <5> QED BY <1>11, <5>1 DEF WaitingOn
      <4> QED BY <1>k, <1>10, <4>1, <4>2, <4>3 DEF Entry
    <3> QED BY <1>10, <3>1 DEF Listing
  <2>4. Mated(x)'  BY <1>k, <1>10, <2>1 DEF Mated, Sound
  <2>5. Budgeted(x)'
    <3>1. CASE x = l
      <4>1. IsFiniteSet(WaitingOn(l)) /\ Cardinality(WaitingOn(l)) \in Nat  BY <1>2, SockFacts
      <4>2. Cardinality(WaitingOn(l) \ {t}) = Cardinality(WaitingOn(l)) - 1  BY <1>17, <4>1, FS_RemoveElement, Zenon
      <4>3. sock'[l].permits = sock[l].permits + 1 /\ sock[l].permits \in Int  BY <1>2, <1>10, SockFacts
      <4>4. WaitingOn(x)' = WaitingOn(l) \ {t}  BY <1>17, <3>1
      <4>5. Cardinality(WaitingOn(x)') = Cardinality(WaitingOn(l)) - 1  BY <4>2, <4>4
      <4>6. asked[l] <= 1 => sock[l].permits + Cardinality(WaitingOn(l)) = Backlog + 1  BY <2>1, <3>1 DEF Budgeted
      <4>7. asked[l] <= 1 => sock'[l].permits + Cardinality(WaitingOn(x)') = Backlog + 1
        BY <4>1, <4>3, <4>5, <4>6 DEF Local
      <4> QED BY <1>k, <3>1, <4>7 DEF Budgeted
    <3>2. CASE x # l  BY <1>k, <1>10, <1>17, <2>1, <3>2 DEF Budgeted
    <3> QED BY <3>1, <3>2
  <2>6. Watched(x)'
    <3>1. t \notin sock[x].watching  BY <1>k, <2>1 DEF Watched, Looking
    <3>2. sock[x].watching \subseteq Callers  BY SockFacts
    <3> QED BY <1>10, <1>11, <2>1, <3>1, <3>2 DEF Watched
  <2> QED BY <2>2, <2>3, <2>4, <2>5, <2>6
<1> QED BY <1>13, <1>14, <1>15, <1>16, <1>18 DEF SockInv

(* Two ends become one connection: what each socket keeps, and what the    *)
(* two ends have.                                                          *)
Carries(s, c, x) ==
  /\ sock'[x].passive = sock[x].passive /\ sock'[x].permits = sock[x].permits /\ sock'[x].watching = sock[x].watching
  /\ x # s => sock'[x].open = sock[x].open /\ sock'[x].in = sock[x].in /\ sock'[x].out = sock[x].out
  /\ x \notin {s, c} => sock'[x].peer = sock[x].peer /\ sock'[x].connected = sock[x].connected
Couples(s, c) ==
  /\ sock'[c].peer = s /\ sock'[c].connected
  /\ sock'[s].peer = c /\ sock'[s].connected /\ sock'[s].open
  /\ sock'[s].in = sock[c].out /\ sock'[s].out = sock[c].in
Pairs(l, c, s, q) ==
  /\ sock' \in [K!Sockets -> SockShapes] /\ Couples(s, c)
  /\ \A x \in K!Sockets : Carries(s, c, x) /\ sock'[x].pending = IF x = l THEN q ELSE sock[x].pending

LEMMA PairedSockets ==
  ASSUME SockInv, Local, NEW l \in K!Sockets, NEW c \in K!Sockets, NEW s \in K!Sockets, s # l, s # c,
         NEW q \in Seq(K!Sockets),
         sock' = [sock EXCEPT ![l].pending = q, ![s] = K!CreatePairedSocket(s, c), ![c].peer = s, ![c].connected = TRUE]
  PROVE  Pairs(l, c, s, q)
<1> DEFINE o == sock[l]
           a == [o EXCEPT !.pending = q]
           A == [sock EXCEPT ![l] = a]
           i == sock[c].out
           u == sock[c].in
           e0 == sock[s]
           e1 == [e0 EXCEPT !.open = TRUE]
           e2 == [e1 EXCEPT !.out = u]
           e3 == [e2 EXCEPT !.in = i]
           e4 == [e3 EXCEPT !.peer = c]
           e5 == [e4 EXCEPT !.connected = TRUE]
           B == [A EXCEPT ![s] = e5]
           p == B[c]
           g == [p EXCEPT !.peer = s]
           y == [g EXCEPT !.connected = TRUE]
<1>1. sock \in [K!Sockets -> SockShapes] /\ sock = [x \in K!Sockets |-> sock[x]]  BY DEF SockInv, SockTypes
<1>2. e5 = K!CreatePairedSocket(s, c)  BY DEF K!CreatePairedSocket
<1>3. sock' = [B EXCEPT ![c] = y]
  <2>1. A = [sock EXCEPT ![l].pending = q]  BY <1>1, Zenon
  <2>2. B = [A EXCEPT ![s] = K!CreatePairedSocket(s, c)]  BY <1>2, Zenon
  <2>3. sock' = [B EXCEPT ![c].peer = s, ![c].connected = TRUE]  BY <2>1, <2>2, Zenon
  <2>4. A = [x \in K!Sockets |-> A[x]]  BY <1>1, Zenon
  <2> HIDE DEF A
  <2>5. B = [x \in K!Sockets |-> B[x]]  BY <2>4, Zenon
  <2> HIDE DEF B
  <2> QED BY <2>3, <2>5, Zenon
<1>4. o \in SockShapes /\ o = sock[l] /\ e0 \in SockShapes /\ e0 = sock[s] /\ i \in K!Streams \cup {None}
      /\ u \in K!Streams \cup {None} /\ i = sock[c].out /\ u = sock[c].in
  <2>1. sock[l] \in SockShapes /\ sock[s] \in SockShapes /\ sock[c] \in SockShapes  BY <1>1, Zenon
  <2> QED BY <2>1 DEF SockShapes
<1> HIDE DEF o, i, u, e0
<1>5. /\ a \in SockShapes /\ a.passive = o.passive /\ a.connected = o.connected /\ a.peer = o.peer /\ a.in = o.in
      /\ a.out = o.out /\ a.permits = o.permits /\ a.watching = o.watching /\ a.open = o.open /\ a.pending = q
  BY <1>4, Zenon DEF SockShapes
<1> HIDE DEF a
<1>6. /\ e1 \in SockShapes /\ e1.open /\ e1.passive = e0.passive /\ e1.permits = e0.permits
      /\ e1.watching = e0.watching /\ e1.pending = e0.pending
  BY <1>4, Zenon DEF SockShapes
<1> HIDE DEF e1
<1>7. /\ e2 \in SockShapes /\ e2.open /\ e2.passive = e0.passive /\ e2.permits = e0.permits
      /\ e2.watching = e0.watching /\ e2.pending = e0.pending /\ e2.out = u
  BY <1>4, <1>6, Zenon DEF SockShapes
<1> HIDE DEF e2
<1>8. /\ e3 \in SockShapes /\ e3.open /\ e3.passive = e0.passive /\ e3.permits = e0.permits
      /\ e3.watching = e0.watching /\ e3.pending = e0.pending /\ e3.out = u /\ e3.in = i
  BY <1>4, <1>7, Zenon DEF SockShapes
<1> HIDE DEF e3
<1>9. /\ e4 \in SockShapes /\ e4.open /\ e4.passive = e0.passive /\ e4.permits = e0.permits
      /\ e4.watching = e0.watching /\ e4.pending = e0.pending /\ e4.out = u /\ e4.in = i /\ e4.peer = c
  BY <1>8, Zenon DEF SockShapes, MaySocket
<1> HIDE DEF e4
<1>10. /\ e5 \in SockShapes /\ e5.open /\ e5.passive = e0.passive /\ e5.permits = e0.permits
       /\ e5.watching = e0.watching /\ e5.pending = e0.pending /\ e5.out = u /\ e5.in = i /\ e5.peer = c /\ e5.connected
  BY <1>9, Zenon DEF SockShapes
<1> HIDE DEF e5
<1>11. A \in [K!Sockets -> SockShapes] /\ A[l] = a /\ \A x \in K!Sockets : x # l => A[x] = sock[x]  BY <1>1, <1>5, Zenon
<1> HIDE DEF A
<1>12. B \in [K!Sockets -> SockShapes] /\ B[s] = e5 /\ \A x \in K!Sockets : x # s => B[x] = A[x]  BY <1>10, <1>11
<1> HIDE DEF B
<1>13. p \in SockShapes /\ p = B[c]  BY <1>12
<1> HIDE DEF p
<1>14. /\ g \in SockShapes /\ g.passive = p.passive /\ g.peer = s /\ g.in = p.in /\ g.out = p.out /\ g.permits = p.permits
       /\ g.watching = p.watching /\ g.open = p.open /\ g.pending = p.pending
  BY <1>13, Zenon DEF SockShapes, MaySocket
<1> HIDE DEF g
<1>15. /\ y \in SockShapes /\ y.passive = p.passive /\ y.peer = s /\ y.in = p.in /\ y.out = p.out /\ y.permits = p.permits
       /\ y.watching = p.watching /\ y.open = p.open /\ y.pending = p.pending /\ y.connected
  BY <1>14, Zenon DEF SockShapes
<1> HIDE DEF y
<1>16. sock' \in [K!Sockets -> SockShapes] /\ sock'[c] = y /\ \A x \in K!Sockets : x # c => sock'[x] = B[x]
  <2>1. ASSUME NEW F, F = [B EXCEPT ![c] = y]
        PROVE  F \in [K!Sockets -> SockShapes] /\ F[c] = y /\ \A x \in K!Sockets : x # c => F[x] = B[x]
    BY <1>12, <1>15, <2>1
  <2> QED BY <1>3, <2>1, Zenon
<1>17. sock'[s] = e5  BY <1>12, <1>16
<1>18. ASSUME NEW x \in K!Sockets
       PROVE  /\ A[x].passive = sock[x].passive /\ A[x].permits = sock[x].permits /\ A[x].watching = sock[x].watching
              /\ A[x].pending = IF x = l THEN q ELSE sock[x].pending
              /\ A[x].open = sock[x].open /\ A[x].in = sock[x].in /\ A[x].out = sock[x].out
              /\ A[x].peer = sock[x].peer /\ A[x].connected = sock[x].connected
  BY <1>4, <1>5, <1>11
<1>19. ASSUME NEW x \in K!Sockets
       PROVE  Carries(s, c, x) /\ sock'[x].pending = IF x = l THEN q ELSE sock[x].pending
  <2>1. CASE x = s  BY <1>4, <1>10, <1>17, <2>1 DEF Carries
  <2>2. CASE x = c
    <3>1. sock'[x] = y /\ p = A[x]  BY <1>12, <1>13, <1>16, <2>2
    <3> QED BY <1>15, <1>18, <2>2, <3>1, ZenonT(60) DEF Carries
  <2>3. CASE x \notin {s, c}
    <3>1. sock'[x] = A[x]  BY <1>12, <1>16, <2>3, Zenon
    <3> QED BY <1>18, <2>3, <3>1, ZenonT(60) DEF Carries
  <2> QED BY <2>1, <2>2, <2>3, Zenon
<1>20. Couples(s, c)  BY <1>4, <1>10, <1>15, <1>16, <1>17 DEF Couples
<1> QED BY <1>16, <1>19, <1>20, Zenon DEF Pairs

LEMMA Shorter ==
  ASSUME NEW X, NEW q \in Seq(X), q # <<>>, NEW r, r = Tail(q)
  PROVE  /\ r \in Seq(X) /\ 1 \in DOMAIN q /\ q[1] = Head(q) /\ Head(q) \in X
         /\ \A j \in DOMAIN r : j \in Nat /\ j # 0 /\ j + 1 \in DOMAIN q /\ r[j] = q[j + 1]
<1>1. /\ r \in Seq(X) /\ Head(q) = q[1] /\ Head(q) \in X /\ Len(q) \in Nat /\ Len(q) >= 1 /\ Len(r) = Len(q) - 1
  BY LenProperties, HeadTailProperties, EmptySeq
<1>2. \A j \in 1..(Len(q) - 1) : r[j] = q[j + 1]  BY HeadTailProperties
<1>3. DOMAIN q = 1..Len(q) /\ DOMAIN r = 1..(Len(q) - 1)  BY <1>1, LenProperties
<1> QED BY <1>1, <1>2, <1>3

LEMMA SockAccepts ==
  ASSUME SockInv, Local, NEW t \in Callers, NEW l \in K!Sockets, NEW c \in K!Sockets, NEW s \in K!Sockets, NEW q1,
         thr[t].pc = "accept", ~sock[s].open, Entry(l, c), s # l, s # c,
         1 \in DOMAIN sock[l].pending, c = sock[l].pending[1],
         \A j \in DOMAIN q1 : j \in Nat /\ j # 0 /\ j + 1 \in DOMAIN sock[l].pending /\ q1[j] = sock[l].pending[j + 1],
         asked' = asked, thr' = [thr EXCEPT ![t] = K!Idle],
         Pairs(l, c, s, q1)
  PROVE  SockInv'
<1>6a. /\ \A x \in K!Sockets : /\ sock'[x].passive = sock[x].passive /\ sock'[x].permits = sock[x].permits
                               /\ sock'[x].watching = sock[x].watching
       /\ sock' \in [K!Sockets -> SockShapes]
  BY DEF Carries, Pairs
<1>6b. \A x \in K!Sockets : sock'[x].pending = IF x = l THEN q1 ELSE sock[x].pending  BY DEF Pairs
<1>6c. \A x \in K!Sockets : x # s => sock'[x].open = sock[x].open /\ sock'[x].in = sock[x].in /\ sock'[x].out = sock[x].out
  BY DEF Carries, Pairs
<1>6d. \A x \in K!Sockets : x \notin {s, c} => sock'[x].peer = sock[x].peer /\ sock'[x].connected = sock[x].connected
  BY DEF Carries, Pairs
<1>6e. /\ sock'[c].peer = s /\ sock'[c].connected /\ sock'[s].peer = c /\ sock'[s].connected /\ sock'[s].open
       /\ sock'[s].in = sock[c].out /\ sock'[s].out = sock[c].in
  BY DEF Couples, Pairs
<1>4. Entry(l, c)  OBVIOUS
<1>5. s # l /\ s # c  OBVIOUS
<1>7. thr'[t] = K!Idle /\ \A u \in Callers : u # t => thr'[u] = thr[u]  BY DEF SockInv, SockTypes
<1>8. thr'[t].pc = "idle"  BY <1>7, CallIdle
<1>9. SockTypes'  BY <1>6a, CallIdle DEF SockInv, SockTypes
<1>10. Sound(s) /\ ~sock[s].passive /\ ~sock[s].connected  BY DEF SockInv, Sound
<1>11. \A u \in Callers : thr[u].pc \in Asking \cup Queued => thr[u].s # s  BY DEF SockInv, Joins
<1>12. asked[c] <= 1 => \A u \in Callers : thr[u].pc \in Asking => thr[u].s # c
  <2> SUFFICES ASSUME asked[c] <= 1, NEW u \in Callers, thr[u].pc \in Asking, thr[u].s = c PROVE FALSE  OBVIOUS
  <2>1. PICK v \in WaitingOn(l) : thr[v].s = c  BY <1>4 DEF Entry
  <2>2. v \in Callers /\ thr[v].pc \in Asking \cup Queued /\ v # u  BY DEF WaitingOn, Asking, Queued
  <2>3. asked[c] >= 2  BY <2>1, <2>2 DEF SockInv, Unshared
  <2> QED BY <2>3, SockFacts
<1>13. ASSUME NEW u \in Callers PROVE Joins(u)'
  <2>1. CASE u = t  BY <1>8, <2>1 DEF Joins, Asking, Queued
  <2>2. CASE u # t
    <3>1. thr'[u] = thr[u] /\ Joins(u)  BY <1>7, <2>2 DEF SockInv
    <3>2. /\ thr[u].pc \in Asking \cup Queued => thr[u].s \in K!Sockets /\ thr[u].to \in K!Sockets
          /\ thr[u].pc = "accept" => thr[u].s \in K!Sockets
      BY SockFacts
    <3>3. thr[u].pc \in Asking \cup Queued => sock'[thr[u].s].open /\ asked[thr[u].s] >= 1
      BY <1>6c, <1>11, <3>1, <3>2 DEF Joins
    <3>4. thr[u].pc \in Asking /\ asked[thr[u].s] <= 1 => ~sock'[thr[u].s].connected
      <4> SUFFICES ASSUME thr[u].pc \in Asking, asked[thr[u].s] <= 1 PROVE ~sock'[thr[u].s].connected  OBVIOUS
      <4>1. thr[u].s \notin {s, c}  BY <1>11, <1>12
      <4> QED BY <1>6d, <3>1, <3>2, <4>1 DEF Joins
    <3>5. /\ thr[u].pc \in {"permit"} \cup Queued => sock'[thr[u].to].passive
          /\ thr[u].pc = "accept" => sock'[thr[u].s].passive
      BY <1>6a, <3>1, <3>2 DEF Joins, Asking
    <3> QED BY <3>1, <3>3, <3>4, <3>5 DEF Joins
  <2> QED BY <2>1, <2>2
<1>14. Unshared'
  <2>1. \A u \in Callers : thr'[u].pc \in Asking \cup Queued => thr'[u] = thr[u]
    BY <1>7, <1>8 DEF Asking, Queued
  <2> QED BY <2>1 DEF SockInv, Unshared
<1>15. \A x : WaitingOn(x)' = WaitingOn(x)
  <2>1. thr[t].pc \notin Queued /\ thr'[t].pc \notin Queued  BY <1>8 DEF Queued
  <2> QED BY <1>7, <2>1 DEF WaitingOn
<1>16. \A x \in K!Sockets : \A j \in DOMAIN sock'[x].pending :
         /\ x = l => /\ j + 1 \in DOMAIN sock[x].pending /\ sock'[x].pending[j] = sock[x].pending[j + 1]
                     /\ j \in Nat /\ j + 1 # 1
         /\ x # l => j \in DOMAIN sock[x].pending /\ sock'[x].pending[j] = sock[x].pending[j]
  <2> SUFFICES ASSUME NEW x \in K!Sockets, NEW j \in DOMAIN sock'[x].pending
               PROVE  /\ x = l => /\ j + 1 \in DOMAIN sock[x].pending /\ sock'[x].pending[j] = sock[x].pending[j + 1]
                                  /\ j \in Nat /\ j + 1 # 1
                      /\ x # l => j \in DOMAIN sock[x].pending /\ sock'[x].pending[j] = sock[x].pending[j]
    OBVIOUS
  <2>1. CASE x = l
    <3>1. j \in DOMAIN q1 /\ sock'[x].pending[j] = q1[j]  BY <1>6b, <2>1
    <3>2. j \in Nat /\ j # 0 /\ j + 1 \in DOMAIN sock[l].pending /\ q1[j] = sock[l].pending[j + 1]  BY <3>1
    <3> QED BY <2>1, <3>1, <3>2
  <2>2. CASE x # l  BY <1>6b, <2>2
  <2> QED BY <2>1, <2>2
<1>17. Sole'
  <2> SUFFICES ASSUME NEW x \in K!Sockets, NEW y \in K!Sockets, NEW i \in DOMAIN sock'[x].pending,
                      NEW j \in DOMAIN sock'[y].pending, sock'[x].pending[i] = sock'[y].pending[j],
                      asked'[sock'[x].pending[i]] <= 1
               PROVE  x = y /\ i = j
    BY DEF Sole
  <2> DEFINE m == IF x = l THEN i + 1 ELSE i
             n == IF y = l THEN j + 1 ELSE j
  <2>1. /\ m \in DOMAIN sock[x].pending /\ sock'[x].pending[i] = sock[x].pending[m]
        /\ n \in DOMAIN sock[y].pending /\ sock'[y].pending[j] = sock[y].pending[n]
        /\ x = l => i \in Nat
        /\ y = l => j \in Nat
    BY <1>16
  <2>2. x = y /\ m = n
    <3> HIDE DEF m, n
    <3>1. sock[x].pending[m] = sock[y].pending[n] /\ asked[sock[x].pending[m]] <= 1  BY <2>1, Zenon
    <3> QED BY <2>1, <3>1 DEF SockInv, Sole
  <2> QED BY <2>1, <2>2
<1>18. ASSUME NEW x \in K!Sockets PROVE Sound(x)' /\ Listing(x)' /\ Mated(x)' /\ Budgeted(x)' /\ Watched(x)'
  <2>1. Sound(x) /\ Listing(x) /\ Mated(x) /\ Budgeted(x) /\ Watched(x)  BY DEF SockInv
  <2>2. Sound(x)'
    <3>1. sock'[x].passive => asked[x] >= 1  BY <1>6a, <2>1 DEF Sound
    <3>2. ~sock'[x].open => ~sock'[x].passive /\ ~sock'[x].connected /\ asked[x] = 0
      <4> SUFFICES ASSUME ~sock'[x].open PROVE ~sock'[x].passive /\ ~sock'[x].connected /\ asked[x] = 0  OBVIOUS
      <4>1. x # s  BY <1>6e
      <4>2. ~sock[x].open  BY <1>6c, <4>1
      <4>3. x # c  BY <1>4, <4>2 DEF Entry
      <4> QED BY <1>6a, <1>6d, <2>1, <4>1, <4>2, <4>3 DEF Sound
    <3>3. sock'[x].connected => sock'[x].peer \in K!Sockets
      <4>1. CASE x \in {s, c}  BY <1>6e, <4>1
      <4>2. CASE x \notin {s, c}  BY <1>6d, <2>1, <4>2 DEF Sound
      <4> QED BY <4>1, <4>2
    <3>4. sock'[x].peer \in K!Sockets => sock'[sock'[x].peer].open
      <4>1. \A y \in K!Sockets : sock[y].open => sock'[y].open  BY <1>6c, <1>6e
      <4>2. CASE x = s  BY <1>4, <1>6e, <4>1, <4>2 DEF Entry
      <4>3. CASE x = c  BY <1>6e, <4>3
      <4>4. CASE x \notin {s, c}  BY <1>6d, <2>1, <4>1, <4>4 DEF Sound
      <4> QED BY <4>2, <4>3, <4>4
    <3> QED BY <3>1, <3>2, <3>3, <3>4 DEF Sound
  <2>3. Listing(x)'
    <3>1. ASSUME NEW j \in DOMAIN sock'[x].pending, NEW e, e = sock'[x].pending[j] PROVE Entry(x, e)'
      <4> DEFINE k == IF x = l THEN j + 1 ELSE j
      <4>1. k \in DOMAIN sock[x].pending /\ e = sock[x].pending[k] /\ (x = l => k # 1)  BY <1>16, <3>1
      <4> HIDE DEF k
      <4>2. e \in K!Sockets /\ Entry(x, e)  BY <2>1, <4>1, SockFacts DEF Listing
      <4>3. e # s  BY <4>2 DEF Entry
      <4>4. asked[e] <= 1 => e # c
        <5> SUFFICES ASSUME asked[e] <= 1, e = c PROVE FALSE  OBVIOUS
        <5>1. 1 \in DOMAIN sock[l].pending /\ sock[l].pending[1] = c  OBVIOUS
        <5>3. sock[x].pending[k] = sock[l].pending[1] /\ asked[sock[x].pending[k]] <= 1 /\ k \in DOMAIN sock[x].pending
          BY <4>1, <5>1
        <5>4. Sole  BY DEF SockInv
        <5>2. x = l /\ k = 1  BY <5>1, <5>3, <5>4 DEF Sole
        <5> QED BY <4>1, <5>2
      <4>5. \A u \in WaitingOn(x) : thr'[u] = thr[u]
        <5>1. t \notin WaitingOn(x)  BY DEF WaitingOn, Queued
        <5>2. \A u \in WaitingOn(x) : u \in Callers  BY DEF WaitingOn
        <5> QED BY <1>7, <5>1, <5>2
      <4>6. sock'[e].open  BY <1>6c, <4>2, <4>3 DEF Entry
      <4>7. asked[e] <= 1 => ~sock'[e].connected  BY <1>6d, <4>2, <4>3, <4>4 DEF Entry
      <4>8. asked[e] <= 1 => \E u \in WaitingOn(x)' : thr'[u].s = e  BY <1>15, <4>2, <4>5 DEF Entry
      <4> QED BY <4>6, <4>7, <4>8 DEF Entry
    <3> QED BY <3>1 DEF Listing
  <2>4. Mated(x)'
    <3> SUFFICES ASSUME sock'[x].connected, asked'[x] <= 1, asked'[sock'[x].peer] <= 1
                 PROVE  /\ sock'[sock'[x].peer].peer = x /\ sock'[sock'[x].peer].connected
                        /\ sock'[x].in = sock'[sock'[x].peer].out /\ sock'[x].out = sock'[sock'[x].peer].in
      BY DEF Mated
    <3>1. CASE x = s  BY <1>5, <1>6c, <1>6e, <3>1, SMTT(60)
    <3>2. CASE x = c  BY <1>5, <1>6c, <1>6e, <3>2
    <3>3. CASE x \notin {s, c}
      <4>1. PICK p \in K!Sockets : p = sock[x].peer /\ sock'[x].peer = p  BY <1>6d, <2>1, <3>3 DEF Sound
      <4>2. sock[x].connected  BY <1>6d, <3>3
      <4>3. sock[p].peer = x /\ sock[p].connected /\ sock[x].in = sock[p].out /\ sock[x].out = sock[p].in
        BY <2>1, <4>1, <4>2 DEF Mated
      <4>4. p # s  BY <2>1, <4>1, <4>2 DEF Sound
      <4>5. p # c  BY <1>4, <4>1, <4>3 DEF Entry
      <4>6. /\ sock'[p].peer = sock[p].peer /\ sock'[p].connected = sock[p].connected /\ sock'[p].in = sock[p].in
            /\ sock'[p].out = sock[p].out /\ sock'[x].in = sock[x].in /\ sock'[x].out = sock[x].out
        BY <1>6c, <1>6d, <3>3, <4>4, <4>5
      <4> QED BY <4>1, <4>3, <4>6
    <3> QED BY <3>1, <3>2, <3>3
  <2>5. Budgeted(x)'  BY <1>6a, <1>15, <2>1 DEF Budgeted
  <2>6. Watched(x)'
    <3>1. t \notin sock[x].watching  BY <2>1 DEF Watched, Looking
    <3>2. sock[x].watching \subseteq Callers  BY SockFacts
    <3> QED BY <1>6a, <1>7, <2>1, <3>1, <3>2 DEF Watched
  <2> QED BY <2>2, <2>3, <2>4, <2>5, <2>6
<1> QED BY <1>9, <1>13, <1>14, <1>17, <1>18 DEF SockInv

LEMMA SockPairs ==
  ASSUME SockInv, Local, NEW t \in Callers, NEW l, NEW c, NEW s, NEW k,
         k = CHOOSE i \in K!Unmade : \A j \in K!Unmade : i <= j,
         l = thr[t].s, c = Head(sock[l].pending), s = Spare[k], K!AcceptPairs(t)
  PROVE  SockInv'
<1>1. K!Unmade \subseteq Nat /\ K!Unmade # {}  BY Zenon DEF Local, K!Unmade, K!AcceptPairs
<1>2. \E i \in K!Unmade : \A j \in K!Unmade : i <= j  BY <1>1, Least, Zenon
<1>3. k \in K!Unmade  BY <1>2
<1>4. k \in DOMAIN Spare /\ ~sock[Spare[k]].open  BY <1>3 DEF K!Unmade
<1>5. s \in K!Sockets /\ ~sock[s].open
  <2>1. s \in K!Unborn  BY <1>4, Zenon DEF K!Unborn
  <2>2. K!Unborn \subseteq K!Sockets  BY DEF K!Sockets
  <2>3. ~sock[s].open  BY <1>4
  <2> QED BY <2>1, <2>2, <2>3
<1>6. /\ thr[t].pc = "accept" /\ sock[l].pending # <<>> /\ asked' = asked /\ thr' = [thr EXCEPT ![t] = K!Idle]
      /\ sock' = [sock EXCEPT ![l].pending = Tail(sock[l].pending), ![s] = K!CreatePairedSocket(s, c),
                              ![c].peer = s, ![c].connected = TRUE]
  BY Zenon DEF K!AcceptPairs, K!At, K!Ends
<1>7. l \in K!Sockets /\ sock[l].passive  BY <1>6, SockFacts, Zenon DEF SockInv, Joins
<1>8. PICK q1 : q1 = Tail(sock[l].pending)  BY Zenon
<1>9. sock[l].pending \in Seq(K!Sockets)  BY <1>7, SockFacts
<1>10. /\ q1 \in Seq(K!Sockets) /\ 1 \in DOMAIN sock[l].pending /\ c = sock[l].pending[1] /\ c \in K!Sockets
       /\ \A j \in DOMAIN q1 : j \in Nat /\ j # 0 /\ j + 1 \in DOMAIN sock[l].pending /\ q1[j] = sock[l].pending[j + 1]
  <2>1. sock[l].pending # <<>>  BY <1>6, Zenon
  <2> QED BY <1>8, <1>9, <2>1, Shorter
<1>11. Entry(l, c)  BY <1>7, <1>10 DEF SockInv, Listing
<1>12. s # l /\ s # c  BY <1>5, <1>7, <1>11 DEF Entry, SockInv, Sound
<1>13. Pairs(l, c, s, q1)
  <2>1. sock' = [sock EXCEPT ![l].pending = q1, ![s] = K!CreatePairedSocket(s, c), ![c].peer = s, ![c].connected = TRUE]
    BY <1>6, <1>8, Zenon
  <2>2. s \in K!Sockets /\ l \in K!Sockets /\ c \in K!Sockets /\ s # l /\ s # c /\ q1 \in Seq(K!Sockets)  BY <1>5, <1>7, <1>10, <1>12
  <2> QED BY <2>1, <2>2, PairedSockets, Zenon
<1>14. thr[t].pc = "accept" /\ asked' = asked /\ thr' = [thr EXCEPT ![t] = K!Idle]  BY <1>6, Zenon
<1>15. s \in K!Sockets /\ ~sock[s].open /\ l \in K!Sockets /\ c \in K!Sockets  BY <1>5, <1>7, <1>10
<1> QED BY <1>10, <1>11, <1>12, <1>13, <1>14, <1>15, SockAccepts, ZenonT(60)

(* Every step of the sockets keeps the invariant, as does every step of    *)
(* another part, and the invariant has in it what the runs check.          *)
LEMMA SockStep == Local /\ SockInv /\ K!Next => SockInv'
<1> SUFFICES ASSUME Local, SockInv, K!Next PROVE SockInv'  OBVIOUS
<1>1. ASSUME NEW t \in Callers, NEW s \in K!Sockets,
             K!SysListen(t, s) \/ K!SysAccept(t, s) \/ K!Receive(t, s) \/ K!WatchTests(t, s)
      PROVE  SockInv'
  <2>1. CASE K!SysListen(t, s)  BY <2>1, SockListens
  <2>2. CASE K!SysAccept(t, s) \/ K!Receive(t, s)  BY <2>2, SockCalls
  <2>3. CASE K!WatchTests(t, s)  BY <2>3, SockWatches
  <2> QED BY <1>1, <2>1, <2>2, <2>3
<1>2. ASSUME NEW t \in Callers, NEW s \in K!Sockets, NEW n \in 1..2, K!SysSendMsg(t, s, n) PROVE SockInv'
  BY <1>2, SockCalls
<1>3. ASSUME NEW t \in Callers, NEW s \in K!Sockets, NEW to \in K!Sockets, K!SysConnect(t, s, to) PROVE SockInv'
  BY <1>3, SockAsks
<1>4. ASSUME NEW t \in Callers, NEW s \in K!Sockets, NEW once \in BOOLEAN, K!EPollCtl(t, s, once) PROVE SockInv'
  <2>1. UNCHANGED <<thr, sock, asked>>  BY <1>4 DEF K!EPollCtl
  <2> QED BY <2>1, SockStays
<1>5. ASSUME NEW t \in Callers, NEW k \in K!Kinds, NEW Z \in SUBSET K!Sockets,
             K!WaitReturns(t, k, Z) \/ K!WaitBlocks(t, k, Z)
      PROVE  SockInv'
  <2>1. CASE K!WaitReturns(t, k, Z)
    <3>1. UNCHANGED <<thr, sock, asked>>  BY <2>1 DEF K!WaitReturns
    <3> QED BY <3>1, SockStays
  <2>2. CASE K!WaitBlocks(t, k, Z)
    <3>1. Z # {}  BY <2>2 DEF K!WaitBlocks, K!Waits
    <3>2. PICK s \in K!Sockets : s \in Z  BY <3>1
    <3> QED BY <2>2, SockCalls
  <2> QED BY <1>5, <2>1, <2>2
<1>6. ASSUME NEW t \in Callers, K!ListenUnlocks(t) \/ K!ConnectLocks(t) \/ K!ConnectInterrupted(t) PROVE SockInv'
  BY <1>6, SockLocks
<1>7. ASSUME NEW t \in Callers, K!ConnectListed(t) \/ K!Connected(t) \/ K!AcceptPairs(t) PROVE SockInv'
  <2>1. PICK l, c : l = thr[t].to /\ c = thr[t].s  OBVIOUS
  <2>2. PICK m, k, e, s : /\ m = thr[t].s /\ k = CHOOSE i \in K!Unmade : \A j \in K!Unmade : i <= j
                          /\ e = Head(sock[m].pending) /\ s = Spare[k]
    OBVIOUS
  <2>3. CASE K!ConnectListed(t)  BY <2>1, <2>3, SockLists
  <2>4. CASE K!Connected(t)  BY <2>1, <2>4, SockConnected
  <2>5. CASE K!AcceptPairs(t)  BY <2>2, <2>5, SockPairs
  <2> QED BY <1>7, <2>3, <2>4, <2>5
<1>8. ASSUME NEW t \in Callers,
             \/ K!ConnectRefused(t) \/ K!AcceptAsserts(t) \/ K!SendNull(t) \/ K!SendHasRoom(t) \/ K!SendAgain(t)
             \/ K!SendWrites(t) \/ K!ReceiveReads(t) \/ K!WaitCut(t) \/ K!ScanFinds(t) \/ K!ScanFindsNothing(t)
      PROVE  SockInv'
  BY <1>8, SockPlaces
<1>9. ASSUME NEW t \in Callers,
             K!ConnectTells(t) \/ K!SendWakes(t) \/ K!WatchRegisters(t) \/ K!WaitEnds(t) \/ K!Leave(t)
      PROVE  SockInv'
  <2>1. CASE K!ConnectTells(t)  BY <2>1, SockTells
  <2>2. CASE K!SendWakes(t)  BY <2>2, SockWakes
  <2>3. CASE K!WatchRegisters(t)  BY <2>3, SockRegisters
  <2>4. CASE K!WaitEnds(t)  BY <2>4, SockWatches
  <2>5. CASE K!Leave(t)  BY <2>5, SockLeaves
  <2> QED BY <1>9, <2>1, <2>2, <2>3, <2>4, <2>5
<1> QED BY <1>1, <1>2, <1>3, <1>4, <1>5, <1>6, <1>7, <1>8, <1>9 DEF K!Next

LEMMA SockStutter == SockInv /\ UNCHANGED <<thr, sockets>> => SockInv'
  BY SockStays DEF sockets

LEMMA SockSafe == Local /\ SockInv => K!Paired /\ K!BacklogKept /\ K!WatchersLive
<1> SUFFICES ASSUME Local, SockInv PROVE K!Paired /\ K!BacklogKept /\ K!WatchersLive  OBVIOUS
<1>1. K!Paired
  <2>1. \A s \in K!Sockets : Mated(s)  BY DEF SockInv
  <2> QED BY <2>1 DEF K!Paired, K!Once, Mated
<1>2. K!BacklogKept
  <2>1. \A l : K!Waiting(l) = WaitingOn(l)  BY DEF K!Waiting, WaitingOn, Queued
  <2>2. ASSUME NEW l \in K!Sockets, asked[l] <= 1
        PROVE  sock[l].permits + K!Cardinality(K!Waiting(l)) = Backlog + 1
    <3>1. Budgeted(l)  BY DEF SockInv
    <3>2. K!Cardinality(WaitingOn(l)) = Cardinality(WaitingOn(l))  BY SameCount
    <3> QED BY <2>1, <2>2, <3>1, <3>2 DEF Budgeted
  <2>3. ASSUME NEW l \in K!Sockets, NEW i \in DOMAIN sock[l].pending, asked[sock[l].pending[i]] <= 1
        PROVE  \E t \in K!Waiting(l) : thr[t].s = sock[l].pending[i]
    <3>1. Listing(l)  BY DEF SockInv
    <3>2. Entry(l, sock[l].pending[i])  BY <3>1 DEF Listing
    <3> QED BY <2>1, <2>3, <3>2 DEF Entry
  <2> QED BY <2>2, <2>3 DEF K!BacklogKept, K!Once
<1>3. K!WatchersLive  BY DEF SockInv, Watched, Looking, K!WatchersLive
<1> QED BY <1>1, <1>2, <1>3
-----------------------------------------------------------------------------
(* What the constants are assumed to be gives each part its hypotheses.    *)
LEMMA Assumed == Numbered /\ Named /\ BothHeld /\ Sized /\ FewThreads /\ Served /\ Local
<1>1. Sized  BY TerminalAssumption DEF Sized, Chars, T!Threads
<1>2. Served  BY ServicesAssumption DEF Served
<1>3. Local  BY SocketsAssumption DEF Local
<1> QED BY <1>1, <1>2, <1>3, SignalsHeld, EndsHeld, FewHeld

(* A behaviour is one of the part that part names.                         *)
IpcInv ==
  /\ part = "pipe" => PipeInv
  /\ part = "terminal" => TermInv
  /\ part = "messages" => ChannelInv
  /\ part = "services" => ServInv
  /\ part = "sockets" => SockInv
  /\ part = "signals" => SignalsInv

LEMMA IpcStarts == IpcInit => IpcInv
<1> SUFFICES ASSUME IpcInit PROVE IpcInv  OBVIOUS
<1>1. CASE part = "list"  BY <1>1 DEF IpcInv
<1>2. CASE part = "pipe" /\ P!Init  BY <1>2, PipeInit, Assumed DEF IpcInv
<1>3. CASE part = "terminal" /\ T!Init  BY <1>3, TermInit, Assumed DEF IpcInv
<1>4. CASE part = "messages" /\ M!Init  BY <1>4, ChannelInit, Assumed DEF IpcInv
<1>5. CASE part = "services" /\ V!Init  BY <1>5, ServInit, Assumed DEF IpcInv
<1>6. CASE part = "sockets" /\ K!Init  BY <1>6, SockInit, Assumed DEF IpcInv
<1>7. CASE part = "signals" /\ S!Init  BY <1>7, SignalsInit DEF IpcInv
<1> QED BY <1>1, <1>2, <1>3, <1>4, <1>5, <1>6, <1>7 DEF IpcInit

LEMMA IpcMoves == IpcInv /\ IpcNext => IpcInv'
<1> SUFFICES ASSUME IpcInv, IpcNext PROVE IpcInv'  OBVIOUS
<1>1. part' = part  BY DEF IpcNext
<1>2. CASE part = "list"  BY <1>1, <1>2 DEF IpcInv
<1>3. CASE part = "pipe" /\ P!Next
  <2>1. PipeInv'  BY <1>3, PipeStep, Assumed DEF IpcInv
  <2> QED BY <1>1, <1>3, <2>1 DEF IpcInv
<1>4. CASE part = "terminal" /\ T!Next
  <2>1. TermInv'  BY <1>4, TermStep, Assumed DEF IpcInv
  <2> QED BY <1>1, <1>4, <2>1 DEF IpcInv
<1>5. CASE part = "messages" /\ M!Next
  <2>1. ChannelInv'  BY <1>5, ChannelStep, Assumed DEF IpcInv
  <2> QED BY <1>1, <1>5, <2>1 DEF IpcInv
<1>6. CASE part = "services" /\ V!Next
  <2>1. ServInv'  BY <1>6, ServStep, Assumed DEF IpcInv
  <2> QED BY <1>1, <1>6, <2>1 DEF IpcInv
<1>7. CASE part = "sockets" /\ K!Next
  <2>1. SockInv'  BY <1>7, SockStep, Assumed DEF IpcInv
  <2> QED BY <1>1, <1>7, <2>1 DEF IpcInv
<1>8. CASE part = "signals" /\ S!Next
  <2>1. SignalsInv'  BY <1>8, SignalsStep, Assumed DEF IpcInv
  <2> QED BY <1>1, <1>8, <2>1 DEF IpcInv
<1> QED BY <1>2, <1>3, <1>4, <1>5, <1>6, <1>7, <1>8 DEF IpcNext

LEMMA IpcStays == IpcInv /\ UNCHANGED ipc => IpcInv'
<1> SUFFICES ASSUME IpcInv, UNCHANGED ipc PROVE IpcInv'  OBVIOUS
<1>1. part' = part  BY DEF ipc
<1>2. ASSUME PipeInv PROVE PipeInv'
  <2>1. UNCHANGED P!vars  BY DEF ipc, pipe, P!vars
  <2> QED BY <1>2, <2>1, PipeStep, Assumed
<1>3. ASSUME TermInv PROVE TermInv'
  <2>1. UNCHANGED <<thr, terminal>>  BY DEF ipc
  <2> QED BY <1>3, <2>1, TermStutter
<1>4. ASSUME ChannelInv PROVE ChannelInv'
  <2>1. UNCHANGED M!vars  BY DEF ipc, messages, M!vars
  <2> QED BY <1>4, <2>1, ChannelStep, Assumed
<1>5. ASSUME ServInv PROVE ServInv'
  <2>1. UNCHANGED <<thr, services>>  BY DEF ipc
  <2> QED BY <1>5, <2>1, ServStutter
<1>6. ASSUME SockInv PROVE SockInv'
  <2>1. UNCHANGED <<thr, sockets>>  BY DEF ipc
  <2> QED BY <1>6, <2>1, SockStutter
<1>7. ASSUME SignalsInv PROVE SignalsInv'
  <2>1. UNCHANGED S!vars  BY DEF ipc, signals, S!vars
  <2> QED BY <1>7, <2>1, SignalsStep, Assumed
<1> QED BY <1>1, <1>2, <1>3, <1>4, <1>5, <1>6, <1>7 DEF IpcInv

LEMMA IpcKept == IpcInv /\ [IpcNext]_ipc => IpcInv'
  BY IpcMoves, IpcStays

(* UNIXPipe, MessageEndpoint and PTY: what is read was put there, once and *)
(* in order, and the lines of a terminal are as many as its buffer holds.  *)
THEOREM NothingOutOfOrder == IpcSpec => []InOrder
<1>1. IpcInv => InOrder  BY TermSafe DEF IpcInv, InOrder, PipeInv, ChannelInv
<1> QED BY <1>1, IpcStarts, IpcKept, PTL DEF IpcSpec

(* UNIXPipe::Write, PTY::SlaveRead, MessageEndpoint::Watch, Thread::Block  *)
(* and SysFutexWake: nobody sleeps on what is there, or out of reach.      *)
THEOREM NobodyLeftAsleep == IpcSpec => []NobodyForgotten
<1>1. SignalsInv => S!FutexListed
  <2>1. SignalsTypeOK => DOMAIN futex.queue = 1..Len(futex.queue)  BY LenProperties DEF SignalsTypeOK, FutexOK
  <2> QED BY <2>1 DEF SignalsInv, Reachable, S!FutexListed
<1>2. IpcInv => NobodyForgotten
  BY <1>1, TermSafe DEF IpcInv, NobodyForgotten, PipeInv, ChannelInv, SignalsInv
<1> QED BY <1>2, IpcStarts, IpcKept, PTL DEF IpcSpec

(* MessageEndpoint::Call, SysInterfaceConnect and LocalSocket::Accept: two *)
(* that meet agree with whom, whoever else asks meanwhile.                 *)
THEOREM MeetingsAgree == IpcSpec => []PeersAgree
<1>1. IpcInv => PeersAgree
  <2> SUFFICES ASSUME IpcInv PROVE PeersAgree  OBVIOUS
  <2>1. part = "messages" => M!AnswerMatches  BY DEF IpcInv, ChannelInv
  <2>2. part = "messages" => M!RoomByReading  BY RoomMade, Assumed DEF IpcInv
  <2>3. part = "services" => V!ConnectorListed /\ V!ConnectPaired /\ V!WaitsOnLive  BY ServSafe, Assumed DEF IpcInv
  <2>4. part = "sockets" => K!Paired /\ K!BacklogKept  BY SockSafe, Assumed DEF IpcInv
  <2> QED BY <2>1, <2>2, <2>3, <2>4 DEF PeersAgree
<1> QED BY <1>1, IpcStarts, IpcKept, PTL DEF IpcSpec

(* UNIXPipe::Close, PTY and FilesystemWatcher: what a blocked call or an   *)
(* open handle refers to is kept, and a list forgets a frame that is left. *)
THEOREM UsedIsKept == IpcSpec => []KeptWhileUsed
<1>1. IpcInv => KeptWhileUsed
  <2> SUFFICES ASSUME IpcInv PROVE KeptWhileUsed  OBVIOUS
  <2>1. part = "pipe" => P!EndsKept  BY DEF IpcInv, PipeInv
  <2>2. part = "terminal" => T!KeptOpen  BY TermSafe DEF IpcInv
  <2>3. part = "sockets" => K!WatchersLive  BY SockSafe, Assumed DEF IpcInv
  <2> QED BY <2>1, <2>2, <2>3 DEF KeptWhileUsed
<1> QED BY <1>1, IpcStarts, IpcKept, PTL DEF IpcSpec

(* HandlePendingSignal and SysSignalReturn: the mask is the signals being  *)
(* handled, however handlers nest.                                         *)
THEOREM MaskNests == IpcSpec => []HandlersMasked
<1>1. IpcInv => HandlersMasked  BY DEF IpcInv, SignalsInv, HandlersInv, HandlersMasked
<1> QED BY <1>1, IpcStarts, IpcKept, PTL DEF IpcSpec
=============================================================================
