--------------------------- MODULE TimedBlockProofs ---------------------------
(***************************************************************************)
(* For any number of wakers and killers, wherever they run: the types of   *)
(* TimedBlock, that a sleep is not cut short, and that the result of Block *)
(* is true.                                                                *)
(*                                                                         *)
(* Neither is inductive.  A thread that Resume may run is one whose state  *)
(* is Running, and what has set it is the clock or one who used a blocker: *)
(* so the state is followed from the moment the thread gives it up         *)
(* (Awake), together with the calls that wakers and killers have taken aim *)
(* at (Aimed), since a blocker that is older than the call is not of it.   *)
(***************************************************************************)
EXTENDS TimedBlock, TLAPS

(* Where the code of the sleeper is, in Sleep and in Block.                *)
Sleeps == {"sleep", "check", "yielded", "destroy"}
Blocks == {"block", "block_pending", "construct", "self_unblock", "block_commit", "check", "yielded",
           "interrupt_self", "destroy", "finish"}
Places == op = "sleep" => pc[w] \in Sleeps
PlacesOfBlock == op = "block" => pc[w] \in Blocks

(* The thread's state is Blocked only between its commit and its return to *)
(* running; a blocker is live as long as Block has not returned.           *)
Commits == thread.state = "Blocked" => pc[w] \in {"check", "yielded"}
Lives == slot.live <=> op = "block"

(* The clock has an event, or a handler that has not yet woken the thread, *)
(* only while the call that made it goes on; the handler says so first.    *)
Ticking == /\ clock.event \/ clock.irq =>
                pc[w] \in {"sleep", "block_commit", "check", "yielded", "interrupt_self", "destroy"}
           /\ clock.irq => thread.timedOut

(* What wakers and killers aim at has been called.  A killer has found the *)
(* thread blocked; one who goes on to wake it has said why.                *)
Aimed(c) ==
  /\ aim[c] <= calls[w]
  /\ slot.live /\ aim[c] = calls[w] =>
       /\ pc[c] = "interrupt" => pc[w] \in {"check", "yielded", "interrupt_self", "destroy", "finish"}
       /\ pc[c] = "wake" => woken \/ slot.interrupted

(* Why the thread is awake, or its blocker not to be blocked on.           *)
Awake ==
  /\ op = "sleep" /\ pc[w] \in {"check", "yielded"} /\ thread.state = "Running" => thread.timedOut
  /\ op = "sleep" /\ pc[w] = "destroy" => thread.timedOut
  /\ op = "block" /\ pc[w] = "block" /\ ~slot.shouldBlock => woken
  /\ op = "block" /\ pc[w] \in {"check", "yielded"} /\ thread.state = "Running" =>
       thread.timedOut \/ slot.interrupted \/ woken
  /\ op = "block" /\ pc[w] \in {"interrupt_self", "destroy", "finish"} =>
       thread.timedOut \/ slot.interrupted \/ woken
  /\ op = "woken" => woken

IInv ==
  /\ TypeOK /\ Places /\ PlacesOfBlock /\ Commits /\ Lives /\ Ticking
  /\ stale \/ ((\A c \in Wakers \cup Killers : Aimed(c)) /\ Awake)

LEMMA ContextsAre ==
  /\ w \in Contexts /\ \A c \in Wakers \cup Killers : c \in Contexts /\ c # w
  /\ MaxCalls \in Nat
BY OperationsAssumption DEF Contexts, w

(* The types in three parts, each of which most steps leave alone.         *)
ThreadOK ==
  /\ thread \in [state : {"Running", "Blocked"}, blocker : BOOLEAN, pending : BOOLEAN,
                 timedOut : BOOLEAN, stateLock : Contexts \cup {Nobody}]
  /\ slot \in [lock : BOOLEAN, thread : BOOLEAN, shouldBlock : BOOLEAN,
               interrupted : BOOLEAN, live : BOOLEAN]
  /\ clock \in [event : BOOLEAN, irq : BOOLEAN, masked : BOOLEAN]
PlaceOK ==
  /\ onBoot \in Placements /\ woken \in BOOLEAN /\ stale \in BOOLEAN
  /\ op \in {"none", "sleep", "block", "woken", "interrupted", "timeout"}
  /\ pc \in [Contexts -> {"idle", "sleep", "check", "yielded", "destroy", "block",
                          "block_pending", "construct", "self_unblock", "block_commit",
                          "interrupt_self", "finish", "signal", "test", "interrupt", "wake"}]
  /\ op \in {"sleep", "block"} <=> pc[w] # "idle"
CallsOK == calls \in [Contexts -> 0 .. MaxCalls] /\ aim \in [Wakers \cup Killers -> 0 .. MaxCalls]

LEMMA TypeParts == /\ TypeOK <=> ThreadOK /\ PlaceOK /\ CallsOK
                   /\ TypeOK' <=> ThreadOK' /\ PlaceOK' /\ CallsOK'
BY DEF TypeOK, ThreadOK, PlaceOK, CallsOK

LEMMA InitIInv == Init => IInv
<1> SUFFICES ASSUME Init PROVE IInv
  OBVIOUS
<1> USE ContextsAre DEF Init, NoBlocker
<1>1. TypeOK
  <2>1. ThreadOK
    BY DEF ThreadOK
  <2>2. PlaceOK
    BY DEF PlaceOK
  <2>3. CallsOK
    BY DEF CallsOK
  <2> QED
    BY <2>1, <2>2, <2>3, TypeParts
<1>2. Places /\ PlacesOfBlock /\ Commits /\ Lives /\ Ticking
  BY DEF Places, PlacesOfBlock, Commits, Lives, Ticking
<1>3. (\A c \in Wakers \cup Killers : Aimed(c)) /\ Awake
  BY DEF Aimed, Awake
<1> QED
  BY <1>1, <1>2, <1>3 DEF IInv

(* What the sleeper does, and the clock.                                   *)
LEMMA SleeperSteps ==
  ASSUME IInv, StartSleep \/ StartBlock \/ Continue \/ HandleSignal \/ TimerFires \/ TimerUnblocks
  PROVE  IInv'
<1>t. ThreadOK /\ PlaceOK /\ CallsOK
  BY TypeParts DEF IInv
<1> USE <1>t, ContextsAre DEF IInv, At, Goto, Call, Free
<1>1. CASE StartSleep
  <2>1. TypeOK'
    <3>1. ThreadOK'
      BY <1>1 DEF ThreadOK, StartSleep
    <3>2. PlaceOK'
      BY <1>1 DEF PlaceOK, StartSleep
    <3>3. CallsOK'
      BY <1>1 DEF CallsOK, StartSleep
    <3> QED
      BY <3>1, <3>2, <3>3, TypeParts
  <2>2. (Places /\ PlacesOfBlock /\ Commits /\ Lives /\ Ticking)'
    BY <1>1 DEF ThreadOK, PlaceOK, CallsOK, Places, PlacesOfBlock, Sleeps, Blocks, Commits, Lives, Ticking, StartSleep
  <2>3. ASSUME ~stale' PROVE (\A c \in Wakers \cup Killers : Aimed(c))' /\ Awake'
    <3>1. ~stale
      BY <1>1, <2>3 DEF StartSleep
    <3>2. ASSUME NEW c \in Wakers \cup Killers PROVE Aimed(c)'
      BY <1>1, <3>1 DEF ThreadOK, PlaceOK, CallsOK, Places, PlacesOfBlock, Sleeps, Blocks, Lives, Aimed, StartSleep
    <3>3. Awake'
      BY <1>1, <3>1 DEF ThreadOK, PlaceOK, CallsOK, Places, PlacesOfBlock, Sleeps, Blocks, Lives, Commits, Ticking, Awake, StartSleep
    <3> QED
      BY <3>2, <3>3
  <2> QED
    BY <2>1, <2>2, <2>3 DEF IInv
<1>2. CASE SleepCommit
  <2>1. TypeOK'
    <3>1. ThreadOK'
      BY <1>2 DEF ThreadOK, SleepCommit
    <3>2. PlaceOK'
      BY <1>2 DEF PlaceOK, SleepCommit
    <3>3. CallsOK'
      BY <1>2 DEF CallsOK, SleepCommit
    <3> QED
      BY <3>1, <3>2, <3>3, TypeParts
  <2>2. (Places /\ PlacesOfBlock /\ Commits /\ Lives /\ Ticking)'
    BY <1>2 DEF ThreadOK, PlaceOK, CallsOK, Places, PlacesOfBlock, Sleeps, Blocks, Commits, Lives, Ticking, SleepCommit
  <2>3. ASSUME ~stale' PROVE (\A c \in Wakers \cup Killers : Aimed(c))' /\ Awake'
    <3>1. ~stale
      BY <1>2, <2>3 DEF SleepCommit
    <3>2. ASSUME NEW c \in Wakers \cup Killers PROVE Aimed(c)'
      BY <1>2, <3>1 DEF ThreadOK, PlaceOK, CallsOK, Places, PlacesOfBlock, Sleeps, Blocks, Lives, Aimed, SleepCommit
    <3>3. Awake'
      BY <1>2, <3>1 DEF ThreadOK, PlaceOK, CallsOK, Places, PlacesOfBlock, Sleeps, Blocks, Lives, Commits, Ticking, Awake, SleepCommit
    <3> QED
      BY <3>2, <3>3
  <2> QED
    BY <2>1, <2>2, <2>3 DEF IInv
<1>3. CASE Check
  <2>1. TypeOK'
    <3>1. ThreadOK'
      BY <1>3 DEF ThreadOK, Check, MustYield
    <3>2. PlaceOK'
      BY <1>3 DEF PlaceOK, Check, MustYield
    <3>3. CallsOK'
      BY <1>3 DEF CallsOK, Check, MustYield
    <3> QED
      BY <3>1, <3>2, <3>3, TypeParts
  <2>2. (Places /\ PlacesOfBlock /\ Commits /\ Lives /\ Ticking)'
    BY <1>3 DEF ThreadOK, PlaceOK, CallsOK, Places, PlacesOfBlock, Sleeps, Blocks, Commits, Lives, Ticking, Check, MustYield
  <2>3. ASSUME ~stale' PROVE (\A c \in Wakers \cup Killers : Aimed(c))' /\ Awake'
    <3>1. ~stale
      BY <1>3, <2>3 DEF Check, MustYield
    <3>2. ASSUME NEW c \in Wakers \cup Killers PROVE Aimed(c)'
      BY <1>3, <3>1 DEF ThreadOK, PlaceOK, CallsOK, Places, PlacesOfBlock, Sleeps, Blocks, Lives, Aimed, Check, MustYield
    <3>3. Awake'
      BY <1>3, <3>1 DEF ThreadOK, PlaceOK, CallsOK, Places, PlacesOfBlock, Sleeps, Blocks, Lives, Commits, Ticking, Awake, Check, MustYield
    <3> QED
      BY <3>2, <3>3
  <2> QED
    BY <2>1, <2>2, <2>3 DEF IInv
<1>4. CASE Resume
  <2>1. TypeOK'
    <3>1. ThreadOK'
      BY <1>4 DEF ThreadOK, Resume, MayRun
    <3>2. PlaceOK'
      BY <1>4 DEF PlaceOK, Resume, MayRun
    <3>3. CallsOK'
      BY <1>4 DEF CallsOK, Resume, MayRun
    <3> QED
      BY <3>1, <3>2, <3>3, TypeParts
  <2>2. (Places /\ PlacesOfBlock /\ Commits /\ Lives /\ Ticking)'
    BY <1>4 DEF ThreadOK, PlaceOK, CallsOK, Places, PlacesOfBlock, Sleeps, Blocks, Commits, Lives, Ticking, Resume, MayRun
  <2>3. ASSUME ~stale' PROVE (\A c \in Wakers \cup Killers : Aimed(c))' /\ Awake'
    <3>1. ~stale
      BY <1>4, <2>3 DEF Resume, MayRun
    <3>2. ASSUME NEW c \in Wakers \cup Killers PROVE Aimed(c)'
      BY <1>4, <3>1 DEF ThreadOK, PlaceOK, CallsOK, Places, PlacesOfBlock, Sleeps, Blocks, Lives, Aimed, Resume, MayRun
    <3>3. Awake'
      BY <1>4, <3>1 DEF ThreadOK, PlaceOK, CallsOK, Places, PlacesOfBlock, Sleeps, Blocks, Lives, Commits, Ticking, Awake, Resume, MayRun
    <3> QED
      BY <3>2, <3>3
  <2> QED
    BY <2>1, <2>2, <2>3 DEF IInv
<1>5. CASE Destroy
  <2>1. TypeOK'
    <3>1. ThreadOK'
      BY <1>5 DEF ThreadOK, Destroy
    <3>2. PlaceOK'
      BY <1>5 DEF PlaceOK, Destroy
    <3>3. CallsOK'
      BY <1>5 DEF CallsOK, Destroy
    <3> QED
      BY <3>1, <3>2, <3>3, TypeParts
  <2>2. (Places /\ PlacesOfBlock /\ Commits /\ Lives /\ Ticking)'
    BY <1>5 DEF ThreadOK, PlaceOK, CallsOK, Places, PlacesOfBlock, Sleeps, Blocks, Commits, Lives, Ticking, Destroy
  <2>3. ASSUME ~stale' PROVE (\A c \in Wakers \cup Killers : Aimed(c))' /\ Awake'
    <3>1. ~stale
      BY <1>5, <2>3 DEF Destroy
    <3>2. ASSUME NEW c \in Wakers \cup Killers PROVE Aimed(c)'
      BY <1>5, <3>1 DEF ThreadOK, PlaceOK, CallsOK, Places, PlacesOfBlock, Sleeps, Blocks, Lives, Aimed, Destroy
    <3>3. Awake'
      BY <1>5, <3>1 DEF ThreadOK, PlaceOK, CallsOK, Places, PlacesOfBlock, Sleeps, Blocks, Lives, Commits, Ticking, Awake, Destroy
    <3> QED
      BY <3>2, <3>3
  <2> QED
    BY <2>1, <2>2, <2>3 DEF IInv
<1>6. CASE StartBlock
  <2>1. TypeOK'
    <3>1. ThreadOK'
      BY <1>6 DEF ThreadOK, StartBlock, NoBlocker
    <3>2. PlaceOK'
      BY <1>6 DEF PlaceOK, StartBlock, NoBlocker
    <3>3. CallsOK'
      BY <1>6 DEF CallsOK, StartBlock, NoBlocker
    <3> QED
      BY <3>1, <3>2, <3>3, TypeParts
  <2>2. (Places /\ PlacesOfBlock /\ Commits /\ Lives /\ Ticking)'
    BY <1>6 DEF ThreadOK, PlaceOK, CallsOK, Places, PlacesOfBlock, Sleeps, Blocks, Commits, Lives, Ticking, StartBlock, NoBlocker
  <2>3. ASSUME ~stale' PROVE (\A c \in Wakers \cup Killers : Aimed(c))' /\ Awake'
    <3>1. ~stale
      BY <1>6, <2>3 DEF StartBlock, NoBlocker
    <3>2. ASSUME NEW c \in Wakers \cup Killers PROVE Aimed(c)'
      BY <1>6, <3>1 DEF ThreadOK, PlaceOK, CallsOK, Places, PlacesOfBlock, Sleeps, Blocks, Lives, Aimed, StartBlock, NoBlocker
    <3>3. Awake'
      BY <1>6, <3>1 DEF ThreadOK, PlaceOK, CallsOK, Places, PlacesOfBlock, Sleeps, Blocks, Lives, Commits, Ticking, Awake, StartBlock, NoBlocker
    <3> QED
      BY <3>2, <3>3
  <2> QED
    BY <2>1, <2>2, <2>3 DEF IInv
<1>7. CASE Block
  <2>1. TypeOK'
    <3>1. ThreadOK'
      BY <1>7, ZenonT(60) DEF ThreadOK, Block, Leave
    <3>2. PlaceOK'
      BY <1>7 DEF PlaceOK, Block, Leave
    <3>3. CallsOK'
      BY <1>7 DEF CallsOK, Block, Leave
    <3> QED
      BY <3>1, <3>2, <3>3, TypeParts
  <2>2. (Places /\ PlacesOfBlock /\ Commits /\ Lives /\ Ticking)'
    BY <1>7 DEF ThreadOK, PlaceOK, CallsOK, Places, PlacesOfBlock, Sleeps, Blocks, Commits, Lives, Ticking, Block, Leave
  <2>3. ASSUME ~stale' PROVE (\A c \in Wakers \cup Killers : Aimed(c))' /\ Awake'
    <3>1. ~stale
      BY <1>7, <2>3 DEF Block, Leave
    <3>2. ASSUME NEW c \in Wakers \cup Killers PROVE Aimed(c)'
      BY <1>7, <3>1, ZenonT(60) DEF ThreadOK, PlaceOK, CallsOK, Places, PlacesOfBlock, Sleeps, Blocks, Lives, Aimed, Block, Leave
    <3>3. Awake'
      BY <1>7, <3>1 DEF ThreadOK, PlaceOK, CallsOK, Places, PlacesOfBlock, Sleeps, Blocks, Lives, Commits, Ticking, Awake, Block, Leave
    <3> QED
      BY <3>2, <3>3
  <2> QED
    BY <2>1, <2>2, <2>3 DEF IInv
<1>8. CASE BlockPending
  <2>1. TypeOK'
    <3>1. ThreadOK'
      BY <1>8 DEF ThreadOK, BlockPending, Leave
    <3>2. PlaceOK'
      BY <1>8 DEF PlaceOK, BlockPending, Leave
    <3>3. CallsOK'
      BY <1>8 DEF CallsOK, BlockPending, Leave
    <3> QED
      BY <3>1, <3>2, <3>3, TypeParts
  <2>2. (Places /\ PlacesOfBlock /\ Commits /\ Lives /\ Ticking)'
    BY <1>8 DEF ThreadOK, PlaceOK, CallsOK, Places, PlacesOfBlock, Sleeps, Blocks, Commits, Lives, Ticking, BlockPending, Leave
  <2>3. ASSUME ~stale' PROVE (\A c \in Wakers \cup Killers : Aimed(c))' /\ Awake'
    <3>1. ~stale
      BY <1>8, <2>3 DEF BlockPending, Leave
    <3>2. ASSUME NEW c \in Wakers \cup Killers PROVE Aimed(c)'
      BY <1>8, <3>1 DEF ThreadOK, PlaceOK, CallsOK, Places, PlacesOfBlock, Sleeps, Blocks, Lives, Aimed, BlockPending, Leave
    <3>3. Awake'
      BY <1>8, <3>1 DEF ThreadOK, PlaceOK, CallsOK, Places, PlacesOfBlock, Sleeps, Blocks, Lives, Commits, Ticking, Awake, BlockPending, Leave
    <3> QED
      BY <3>2, <3>3
  <2> QED
    BY <2>1, <2>2, <2>3 DEF IInv
<1>9. CASE Construct
  <2>1. TypeOK'
    <3>1. ThreadOK'
      BY <1>9 DEF ThreadOK, Construct
    <3>2. PlaceOK'
      BY <1>9 DEF PlaceOK, Construct
    <3>3. CallsOK'
      BY <1>9 DEF CallsOK, Construct
    <3> QED
      BY <3>1, <3>2, <3>3, TypeParts
  <2>2. (Places /\ PlacesOfBlock /\ Commits /\ Lives /\ Ticking)'
    BY <1>9 DEF ThreadOK, PlaceOK, CallsOK, Places, PlacesOfBlock, Sleeps, Blocks, Commits, Lives, Ticking, Construct
  <2>3. ASSUME ~stale' PROVE (\A c \in Wakers \cup Killers : Aimed(c))' /\ Awake'
    <3>1. ~stale
      BY <1>9, <2>3 DEF Construct
    <3>2. ASSUME NEW c \in Wakers \cup Killers PROVE Aimed(c)'
      BY <1>9, <3>1 DEF ThreadOK, PlaceOK, CallsOK, Places, PlacesOfBlock, Sleeps, Blocks, Lives, Aimed, Construct
    <3>3. Awake'
      BY <1>9, <3>1 DEF ThreadOK, PlaceOK, CallsOK, Places, PlacesOfBlock, Sleeps, Blocks, Lives, Commits, Ticking, Awake, Construct
    <3> QED
      BY <3>2, <3>3
  <2> QED
    BY <2>1, <2>2, <2>3 DEF IInv
<1>10. CASE BlockCommit
  <2>1. TypeOK'
    <3>1. ThreadOK'
      BY <1>10 DEF ThreadOK, BlockCommit
    <3>2. PlaceOK'
      BY <1>10 DEF PlaceOK, BlockCommit
    <3>3. CallsOK'
      BY <1>10 DEF CallsOK, BlockCommit
    <3> QED
      BY <3>1, <3>2, <3>3, TypeParts
  <2>2. (Places /\ PlacesOfBlock /\ Commits /\ Lives /\ Ticking)'
    BY <1>10 DEF ThreadOK, PlaceOK, CallsOK, Places, PlacesOfBlock, Sleeps, Blocks, Commits, Lives, Ticking, BlockCommit
  <2>3. ASSUME ~stale' PROVE (\A c \in Wakers \cup Killers : Aimed(c))' /\ Awake'
    <3>1. ~stale
      BY <1>10, <2>3 DEF BlockCommit
    <3>2. ASSUME NEW c \in Wakers \cup Killers PROVE Aimed(c)'
      BY <1>10, <3>1 DEF ThreadOK, PlaceOK, CallsOK, Places, PlacesOfBlock, Sleeps, Blocks, Lives, Aimed, BlockCommit
    <3>3. Awake'
      BY <1>10, <3>1 DEF ThreadOK, PlaceOK, CallsOK, Places, PlacesOfBlock, Sleeps, Blocks, Lives, Commits, Ticking, Awake, BlockCommit
    <3> QED
      BY <3>2, <3>3
  <2> QED
    BY <2>1, <2>2, <2>3 DEF IInv
<1>11. CASE InterruptSelf
  <2>1. TypeOK'
    <3>1. ThreadOK'
      BY <1>11 DEF ThreadOK, InterruptSelf, WakeSelf
    <3>2. PlaceOK'
      BY <1>11 DEF PlaceOK, InterruptSelf, WakeSelf
    <3>3. CallsOK'
      BY <1>11 DEF CallsOK, InterruptSelf, WakeSelf
    <3> QED
      BY <3>1, <3>2, <3>3, TypeParts
  <2>2. (Places /\ PlacesOfBlock /\ Commits /\ Lives /\ Ticking)'
    BY <1>11 DEF ThreadOK, PlaceOK, CallsOK, Places, PlacesOfBlock, Sleeps, Blocks, Commits, Lives, Ticking, InterruptSelf, WakeSelf
  <2>3. ASSUME ~stale' PROVE (\A c \in Wakers \cup Killers : Aimed(c))' /\ Awake'
    <3>1. ~stale
      BY <1>11, <2>3 DEF InterruptSelf, WakeSelf
    <3>2. ASSUME NEW c \in Wakers \cup Killers PROVE Aimed(c)'
      BY <1>11, <3>1 DEF ThreadOK, PlaceOK, CallsOK, Places, PlacesOfBlock, Sleeps, Blocks, Lives, Aimed, InterruptSelf, WakeSelf
    <3>3. Awake'
      BY <1>11, <3>1 DEF ThreadOK, PlaceOK, CallsOK, Places, PlacesOfBlock, Sleeps, Blocks, Lives, Commits, Ticking, Awake, InterruptSelf, WakeSelf
    <3> QED
      BY <3>2, <3>3
  <2> QED
    BY <2>1, <2>2, <2>3 DEF IInv
<1>12. CASE Finish
  <2>1. TypeOK'
    <3>1. ThreadOK'
      BY <1>12, ZenonT(60) DEF ThreadOK, Finish, Leave, WakeSelf, Outcome
    <3>2. PlaceOK'
      BY <1>12 DEF PlaceOK, Finish, Leave, WakeSelf, Outcome
    <3>3. CallsOK'
      BY <1>12 DEF CallsOK, Finish, Leave, WakeSelf, Outcome
    <3> QED
      BY <3>1, <3>2, <3>3, TypeParts
  <2>2. (Places /\ PlacesOfBlock /\ Commits /\ Lives /\ Ticking)'
    BY <1>12 DEF ThreadOK, PlaceOK, CallsOK, Places, PlacesOfBlock, Sleeps, Blocks, Commits, Lives, Ticking, Finish, Leave, WakeSelf, Outcome
  <2>3. ASSUME ~stale' PROVE (\A c \in Wakers \cup Killers : Aimed(c))' /\ Awake'
    <3>1. ~stale
      BY <1>12, <2>3 DEF Finish, Leave, WakeSelf, Outcome
    <3>2. ASSUME NEW c \in Wakers \cup Killers PROVE Aimed(c)'
      BY <1>12, <3>1 DEF ThreadOK, PlaceOK, CallsOK, Places, PlacesOfBlock, Sleeps, Blocks, Lives, Aimed, Finish, Leave, WakeSelf, Outcome
    <3>3. Awake'
      BY <1>12, <3>1 DEF ThreadOK, PlaceOK, CallsOK, Places, PlacesOfBlock, Sleeps, Blocks, Lives, Commits, Ticking, Awake, Finish, Leave, WakeSelf, Outcome
    <3> QED
      BY <3>2, <3>3
  <2> QED
    BY <2>1, <2>2, <2>3 DEF IInv
<1>13. CASE HandleSignal
  <2>1. TypeOK'
    <3>1. ThreadOK'
      BY <1>13 DEF ThreadOK, HandleSignal
    <3>2. PlaceOK'
      BY <1>13 DEF PlaceOK, HandleSignal
    <3>3. CallsOK'
      BY <1>13 DEF CallsOK, HandleSignal
    <3> QED
      BY <3>1, <3>2, <3>3, TypeParts
  <2>2. (Places /\ PlacesOfBlock /\ Commits /\ Lives /\ Ticking)'
    BY <1>13 DEF ThreadOK, PlaceOK, CallsOK, Places, PlacesOfBlock, Sleeps, Blocks, Commits, Lives, Ticking, HandleSignal
  <2>3. ASSUME ~stale' PROVE (\A c \in Wakers \cup Killers : Aimed(c))' /\ Awake'
    <3>1. ~stale
      BY <1>13, <2>3 DEF HandleSignal
    <3>2. ASSUME NEW c \in Wakers \cup Killers PROVE Aimed(c)'
      BY <1>13, <3>1 DEF ThreadOK, PlaceOK, CallsOK, Places, PlacesOfBlock, Sleeps, Blocks, Lives, Aimed, HandleSignal
    <3>3. Awake'
      BY <1>13, <3>1 DEF ThreadOK, PlaceOK, CallsOK, Places, PlacesOfBlock, Sleeps, Blocks, Lives, Commits, Ticking, Awake, HandleSignal
    <3> QED
      BY <3>2, <3>3
  <2> QED
    BY <2>1, <2>2, <2>3 DEF IInv
<1>14. CASE TimerFires
  <2>1. TypeOK'
    <3>1. ThreadOK'
      BY <1>14 DEF ThreadOK, TimerFires
    <3>2. PlaceOK'
      BY <1>14 DEF PlaceOK, TimerFires
    <3>3. CallsOK'
      BY <1>14 DEF CallsOK, TimerFires
    <3> QED
      BY <3>1, <3>2, <3>3, TypeParts
  <2>2. (Places /\ PlacesOfBlock /\ Commits /\ Lives /\ Ticking)'
    BY <1>14 DEF ThreadOK, PlaceOK, CallsOK, Places, PlacesOfBlock, Sleeps, Blocks, Commits, Lives, Ticking, TimerFires
  <2>3. ASSUME ~stale' PROVE (\A c \in Wakers \cup Killers : Aimed(c))' /\ Awake'
    <3>1. ~stale
      BY <1>14, <2>3 DEF TimerFires
    <3>2. ASSUME NEW c \in Wakers \cup Killers PROVE Aimed(c)'
      BY <1>14, <3>1 DEF ThreadOK, PlaceOK, CallsOK, Places, PlacesOfBlock, Sleeps, Blocks, Lives, Aimed, TimerFires
    <3>3. Awake'
      BY <1>14, <3>1 DEF ThreadOK, PlaceOK, CallsOK, Places, PlacesOfBlock, Sleeps, Blocks, Lives, Commits, Ticking, Awake, TimerFires
    <3> QED
      BY <3>2, <3>3
  <2> QED
    BY <2>1, <2>2, <2>3 DEF IInv
<1>15. CASE TimerUnblocks
  <2>1. TypeOK'
    <3>1. ThreadOK'
      BY <1>15 DEF ThreadOK, TimerUnblocks
    <3>2. PlaceOK'
      BY <1>15 DEF PlaceOK, TimerUnblocks
    <3>3. CallsOK'
      BY <1>15 DEF CallsOK, TimerUnblocks
    <3> QED
      BY <3>1, <3>2, <3>3, TypeParts
  <2>2. (Places /\ PlacesOfBlock /\ Commits /\ Lives /\ Ticking)'
    BY <1>15 DEF ThreadOK, PlaceOK, CallsOK, Places, PlacesOfBlock, Sleeps, Blocks, Commits, Lives, Ticking, TimerUnblocks
  <2>3. ASSUME ~stale' PROVE (\A c \in Wakers \cup Killers : Aimed(c))' /\ Awake'
    <3>1. ~stale
      BY <1>15, <2>3 DEF TimerUnblocks
    <3>2. ASSUME NEW c \in Wakers \cup Killers PROVE Aimed(c)'
      BY <1>15, <3>1 DEF ThreadOK, PlaceOK, CallsOK, Places, PlacesOfBlock, Sleeps, Blocks, Lives, Aimed, TimerUnblocks
    <3>3. Awake'
      BY <1>15, <3>1 DEF ThreadOK, PlaceOK, CallsOK, Places, PlacesOfBlock, Sleeps, Blocks, Lives, Commits, Ticking, Awake, TimerUnblocks
    <3> QED
      BY <3>2, <3>3
  <2> QED
    BY <2>1, <2>2, <2>3 DEF IInv
<1> QED
  BY <1>1, <1>2, <1>3, <1>4, <1>5, <1>6, <1>7, <1>8, <1>9, <1>10, <1>11, <1>12, <1>13, <1>14, <1>15 DEF Continue

(* What wakers and killers do.                                             *)
LEMMA WakerSteps ==
  ASSUME IInv, NEW k \in Wakers \cup Killers,
         (k \in Wakers /\ Wake(k)) \/ WakeThread(k) \/ Kill(k) \/ KillLock(k) \/ KillTest(k) \/ KillInterrupt(k)
  PROVE  IInv'
<1>t. ThreadOK /\ PlaceOK /\ CallsOK
  BY TypeParts DEF IInv
<1> USE <1>t, ContextsAre DEF IInv, At, Goto, Call, Free, Dangles
<1>1. CASE Wake(k)
  <2>1. TypeOK'
    <3>1. ThreadOK'
      BY <1>1 DEF ThreadOK, Wake
    <3>2. PlaceOK'
      BY <1>1 DEF PlaceOK, Wake
    <3>3. CallsOK'
      BY <1>1 DEF CallsOK, Wake
    <3> QED
      BY <3>1, <3>2, <3>3, TypeParts
  <2>2. (Places /\ PlacesOfBlock /\ Commits /\ Lives /\ Ticking)'
    BY <1>1 DEF ThreadOK, PlaceOK, CallsOK, Places, PlacesOfBlock, Sleeps, Blocks, Commits, Lives, Ticking, Wake
  <2>3. ASSUME ~stale' PROVE (\A c \in Wakers \cup Killers : Aimed(c))' /\ Awake'
    <3>1. ~stale
      BY <1>1, <2>3 DEF Wake
    <3>2. ASSUME NEW c \in Wakers \cup Killers PROVE Aimed(c)'
      BY <1>1, <3>1 DEF ThreadOK, PlaceOK, CallsOK, Places, PlacesOfBlock, Sleeps, Blocks, Lives, Aimed, Wake
    <3>3. Awake'
      BY <1>1, <3>1 DEF ThreadOK, PlaceOK, CallsOK, Places, PlacesOfBlock, Sleeps, Blocks, Lives, Commits, Ticking, Awake, Wake
    <3> QED
      BY <3>2, <3>3
  <2> QED
    BY <2>1, <2>2, <2>3 DEF IInv
<1>2. CASE WakeThread(k)
  <2>1. TypeOK'
    <3>1. ThreadOK'
      BY <1>2 DEF ThreadOK, WakeThread
    <3>2. PlaceOK'
      BY <1>2 DEF PlaceOK, WakeThread
    <3>3. CallsOK'
      BY <1>2 DEF CallsOK, WakeThread
    <3> QED
      BY <3>1, <3>2, <3>3, TypeParts
  <2>2. (Places /\ PlacesOfBlock /\ Commits /\ Lives /\ Ticking)'
    BY <1>2 DEF ThreadOK, PlaceOK, CallsOK, Places, PlacesOfBlock, Sleeps, Blocks, Commits, Lives, Ticking, WakeThread
  <2>3. ASSUME ~stale' PROVE (\A c \in Wakers \cup Killers : Aimed(c))' /\ Awake'
    <3>1. ~stale
      BY <1>2, <2>3 DEF WakeThread
    <3>2. ASSUME NEW c \in Wakers \cup Killers PROVE Aimed(c)'
      BY <1>2, <3>1 DEF ThreadOK, PlaceOK, CallsOK, Places, PlacesOfBlock, Sleeps, Blocks, Lives, Aimed, WakeThread
    <3>3. Awake'
      <4>1. slot.live /\ op = "block" /\ aim[k] = calls[w] /\ pc[k] = "wake"
        BY <1>2, <2>3, <3>1 DEF PlaceOK, Lives, WakeThread
      <4>2. Aimed(k) /\ Awake
        BY <3>1
      <4> QED
        BY <1>2, <4>1, <4>2 DEF ThreadOK, PlaceOK, Awake, Aimed, WakeThread
    <3> QED
      BY <3>2, <3>3
  <2> QED
    BY <2>1, <2>2, <2>3 DEF IInv
<1>3. CASE Kill(k)
  <2>1. TypeOK'
    <3>1. ThreadOK'
      BY <1>3 DEF ThreadOK, Kill
    <3>2. PlaceOK'
      BY <1>3 DEF PlaceOK, Kill
    <3>3. CallsOK'
      BY <1>3 DEF CallsOK, Kill
    <3> QED
      BY <3>1, <3>2, <3>3, TypeParts
  <2>2. (Places /\ PlacesOfBlock /\ Commits /\ Lives /\ Ticking)'
    BY <1>3 DEF ThreadOK, PlaceOK, CallsOK, Places, PlacesOfBlock, Sleeps, Blocks, Commits, Lives, Ticking, Kill
  <2>3. ASSUME ~stale' PROVE (\A c \in Wakers \cup Killers : Aimed(c))' /\ Awake'
    <3>1. ~stale
      BY <1>3, <2>3 DEF Kill
    <3>2. ASSUME NEW c \in Wakers \cup Killers PROVE Aimed(c)'
      BY <1>3, <3>1 DEF ThreadOK, PlaceOK, CallsOK, Places, PlacesOfBlock, Sleeps, Blocks, Lives, Aimed, Kill
    <3>3. Awake'
      BY <1>3, <3>1 DEF ThreadOK, PlaceOK, CallsOK, Places, PlacesOfBlock, Sleeps, Blocks, Lives, Commits, Ticking, Awake, Kill
    <3> QED
      BY <3>2, <3>3
  <2> QED
    BY <2>1, <2>2, <2>3 DEF IInv
<1>4. CASE KillLock(k)
  <2>1. TypeOK'
    <3>1. ThreadOK'
      BY <1>4 DEF ThreadOK, KillLock
    <3>2. PlaceOK'
      BY <1>4 DEF PlaceOK, KillLock
    <3>3. CallsOK'
      BY <1>4 DEF CallsOK, KillLock
    <3> QED
      BY <3>1, <3>2, <3>3, TypeParts
  <2>2. (Places /\ PlacesOfBlock /\ Commits /\ Lives /\ Ticking)'
    BY <1>4 DEF ThreadOK, PlaceOK, CallsOK, Places, PlacesOfBlock, Sleeps, Blocks, Commits, Lives, Ticking, KillLock
  <2>3. ASSUME ~stale' PROVE (\A c \in Wakers \cup Killers : Aimed(c))' /\ Awake'
    <3>1. ~stale
      BY <1>4, <2>3 DEF KillLock
    <3>2. ASSUME NEW c \in Wakers \cup Killers PROVE Aimed(c)'
      BY <1>4, <3>1 DEF ThreadOK, PlaceOK, CallsOK, Places, PlacesOfBlock, Sleeps, Blocks, Lives, Aimed, KillLock
    <3>3. Awake'
      BY <1>4, <3>1 DEF ThreadOK, PlaceOK, CallsOK, Places, PlacesOfBlock, Sleeps, Blocks, Lives, Commits, Ticking, Awake, KillLock
    <3> QED
      BY <3>2, <3>3
  <2> QED
    BY <2>1, <2>2, <2>3 DEF IInv
<1>5. CASE KillTest(k)
  <2>1. TypeOK'
    <3>1. ThreadOK'
      BY <1>5 DEF ThreadOK, KillTest
    <3>2. PlaceOK'
      BY <1>5 DEF PlaceOK, KillTest
    <3>3. CallsOK'
      BY <1>5 DEF CallsOK, KillTest
    <3> QED
      BY <3>1, <3>2, <3>3, TypeParts
  <2>2. (Places /\ PlacesOfBlock /\ Commits /\ Lives /\ Ticking)'
    BY <1>5 DEF ThreadOK, PlaceOK, CallsOK, Places, PlacesOfBlock, Sleeps, Blocks, Commits, Lives, Ticking, KillTest
  <2>3. ASSUME ~stale' PROVE (\A c \in Wakers \cup Killers : Aimed(c))' /\ Awake'
    <3>1. ~stale
      BY <1>5, <2>3 DEF KillTest
    <3>2. ASSUME NEW c \in Wakers \cup Killers PROVE Aimed(c)'
      BY <1>5, <3>1 DEF ThreadOK, PlaceOK, CallsOK, Places, PlacesOfBlock, Sleeps, Blocks, Lives, Commits, Aimed, KillTest
    <3>3. Awake'
      BY <1>5, <3>1 DEF ThreadOK, PlaceOK, CallsOK, Places, PlacesOfBlock, Sleeps, Blocks, Lives, Commits, Ticking, Awake, KillTest
    <3> QED
      BY <3>2, <3>3
  <2> QED
    BY <2>1, <2>2, <2>3 DEF IInv
<1>6. CASE KillInterrupt(k)
  <2>1. TypeOK'
    <3>1. ThreadOK'
      BY <1>6 DEF ThreadOK, KillInterrupt
    <3>2. PlaceOK'
      BY <1>6 DEF PlaceOK, KillInterrupt
    <3>3. CallsOK'
      BY <1>6 DEF CallsOK, KillInterrupt
    <3> QED
      BY <3>1, <3>2, <3>3, TypeParts
  <2>2. (Places /\ PlacesOfBlock /\ Commits /\ Lives /\ Ticking)'
    BY <1>6 DEF ThreadOK, PlaceOK, CallsOK, Places, PlacesOfBlock, Sleeps, Blocks, Commits, Lives, Ticking, KillInterrupt
  <2>3. ASSUME ~stale' PROVE (\A c \in Wakers \cup Killers : Aimed(c))' /\ Awake'
    <3>1. ~stale
      BY <1>6, <2>3 DEF KillInterrupt
    <3>2. ASSUME NEW c \in Wakers \cup Killers PROVE Aimed(c)'
      BY <1>6, <3>1 DEF ThreadOK, PlaceOK, CallsOK, Places, PlacesOfBlock, Sleeps, Blocks, Lives, Aimed, KillInterrupt
    <3>3. Awake'
      <4>1. slot.live /\ op = "block" /\ aim[k] = calls[w] /\ pc[k] = "interrupt"
        BY <1>6, <2>3, <3>1 DEF PlaceOK, Lives, KillInterrupt
      <4>2. Aimed(k) /\ Awake
        BY <3>1
      <4> QED
        BY <1>6, <4>1, <4>2 DEF ThreadOK, PlaceOK, Awake, Aimed, KillInterrupt
    <3> QED
      BY <3>2, <3>3
  <2> QED
    BY <2>1, <2>2, <2>3 DEF IInv
<1> QED
  BY <1>1, <1>2, <1>3, <1>4, <1>5, <1>6

LEMMA StepIInv == IInv /\ [Next]_vars => IInv'
<1> SUFFICES ASSUME IInv, [Next]_vars PROVE IInv'
  OBVIOUS
<1>1. CASE UNCHANGED vars
  BY <1>1 DEF vars, IInv, TypeOK, Places, PlacesOfBlock, Commits, Lives, Ticking, Aimed, Awake
<1> QED
  BY <1>1, SleeperSteps, WakerSteps DEF Next, Signalling

(* Every variable keeps its type, and the sleeper is in a call exactly as  *)
(* long as op names it.                                                    *)
THEOREM TypeCorrect == Spec => []TypeOK
<1>1. IInv => TypeOK
  BY DEF IInv
<1> QED
  BY InitIInv, StepIInv, <1>1, PTL DEF Spec

(* A sleep ends after its time, whatever wakers and killers do meanwhile   *)
(* and wherever the timer's interrupt is taken, unless one of them used a  *)
(* blocker whose Block had returned.                                       *)
THEOREM SleepIsNotCut == Spec => []SleepNotCut
<1>1. IInv => SleepNotCut
  BY DEF IInv, Awake, SleepNotCut
<1> QED
  BY InitIInv, StepIInv, <1>1, PTL DEF Spec

(* Block says that it was woken only when it was, under the same exception. *)
THEOREM ResultIsTrue == Spec => []ResultTrue
<1>1. IInv => ResultTrue
  BY DEF IInv, Awake, ResultTrue
<1> QED
  BY InitIInv, StepIInv, <1>1, PTL DEF Spec
===============================================================================
