--------------------------- MODULE SemaphoreProofs ---------------------------
(***************************************************************************)
(* For any number of threads that wait, post and send signals, and any     *)
(* initial value: the types of Semaphore, that no Wait returns without a   *)
(* permit, and that nothing but a signal makes the list disagree with the  *)
(* value.                                                                  *)
(*                                                                         *)
(* The list has its own count, the value another, and a blocker is woken   *)
(* in two steps, so neither is inductive.  What is: a permit is with the   *)
(* value, with the poster that has not looked at the list yet, or with the *)
(* thread that has been picked (Granted); the count of the list exceeds    *)
(* what the value says by the one blocker that the poster with the lock is *)
(* about to take (Counted).                                                *)
(***************************************************************************)
EXTENDS Semaphore, FiniteSetTheorems, SequenceTheorems, TLAPS

(* The semaphore's lock is held by one poster, until it is idle again.     *)
OneHolds == \A p \in Posters : pc[p] # "idle" =>
  sema.lock /\ \A q \in Posters : pc[q] # "idle" => q = p

(* A blocker lives while its thread is in Wait; the thread points at it    *)
(* only where Block gives the processor up.                                *)
Lives(w) == slot[w].live <=> pc[w] # "idle"
Points(w) == /\ thread[w].blocker => pc[w] \in {"block_commit", "yielded"}
             /\ pc[w] = "block" => ~slot[w].interrupted

(* Who is about to wake a thread has let the blocker it saw go.            *)
LetGo(c) == pc[c] \in {"detach", "wake"} =>
  /\ aim[c].call <= calls[Aim(c)]
  /\ slot[Aim(c)].live /\ aim[c].call = calls[Aim(c)] => ~slot[Aim(c)].shouldBlock

(* The list holds blockers of Waits that go on, each of them once.         *)
Listed == /\ IsInjective(sema.blocked)
          /\ \A w \in ToSet(sema.blocked) : slot[w].semaphore /\ slot[w].live

(* How many threads wait by the value, and the one of them that the poster *)
(* with the lock has posted for and not yet taken off the list.            *)
Waits == IF sema.value < 0 THEN -sema.value ELSE 0
ToTake(p) == pc[p] = "front" \/ (pc[p] = "detach" /\ slot[Aim(p)].semaphore)
Counted == sema.num <= Waits + (IF \E p \in Posters : ToTake(p) THEN 1 ELSE 0)

(* Where the permits are that were given and not yet taken.                *)
Available == IF sema.value > 0 THEN sema.value ELSE 0
Picked(w) == \/ pc[w] = "return_false"
             \/ /\ pc[w] \in {"block", "block_pending", "block_commit", "yielded"}
                /\ ~slot[w].shouldBlock /\ ~slot[w].interrupted
Served == {w \in Waiters : Picked(w)}
Posted == IF \E p \in Posters : pc[p] = "front" THEN 1 ELSE 0
Granted == permits.taken + Cardinality(Served) + Available + Posted <= InitialValue + permits.given
Awake(w) == pc[w] = "return_false" \/ (pc[w] = "yielded" /\ thread[w].state = "Running") =>
  ~slot[w].shouldBlock

(* The list and its count, when nobody has used a blocker that is gone.    *)
Exact == /\ sema.num = Len(sema.blocked)
         /\ \A w \in Waiters : slot[w].semaphore /\ slot[w].live => w \in ToSet(sema.blocked)

(* Without signals the count is the one that the value says, but for the   *)
(* blocker whose poster is at work on it.                                  *)
Taking(p) == pc[p] = "front" \/ (pc[p] = "detach" /\ slot[Aim(p)].live)
Untouched(w) == ~thread[w].pending /\ ~slot[w].interrupted /\ pc[w] # "return_true"
InHand(w) == ~slot[w].shouldBlock /\ slot[w].semaphore /\ slot[w].live =>
  \E p \in Posters : pc[p] = "detach" /\ Aim(p) = w
Calm == /\ \A k \in Killers : pc[k] = "idle"
        /\ \A w \in Waiters : Untouched(w) /\ InHand(w)
        /\ \A p \in Posters : pc[p] = "detach" /\ slot[Aim(p)].live => slot[Aim(p)].semaphore
        /\ sema.num = Waits + (IF \E p \in Posters : Taking(p) THEN 1 ELSE 0)
NoSignal == \A k \in Killers : calls[k] = 0

IInv ==
  /\ TypeOK /\ OneHolds
  /\ \A w \in Waiters : Lives(w) /\ Points(w)
  /\ \A c \in Wakers : LetGo(c)
  /\ panic = "none" => Listed /\ Counted
  /\ ~dangling => Granted /\ \A w \in Waiters : Awake(w)
  /\ ~dangling /\ panic = "none" => Exact
  /\ ~dangling /\ panic = "none" /\ NoSignal => Calm
-----------------------------------------------------------------------------
LEMMA ContextsAre ==
  /\ \A w \in Waiters : w \in Contexts /\ w \notin Posters /\ w \notin Killers
  /\ \A p \in Posters : p \in Contexts /\ p \in Wakers /\ p \notin Waiters /\ p \notin Killers
  /\ \A k \in Killers : k \in Contexts /\ k \in Wakers /\ k \notin Waiters /\ k \notin Posters
  /\ \A c \in Wakers : c \in Posters \/ c \in Killers
BY ContextsAssumption DEF Contexts, Wakers

(* What the operations on a list without repetition leave.                 *)
LEMMA Elements ==
  ASSUME NEW q \in Seq(Waiters)
  PROVE  /\ Len(q) \in Nat /\ DOMAIN q = 1..Len(q) /\ \A i \in 1..Len(q) : q[i] \in Waiters
         /\ \A w : w \in ToSet(q) <=> \E i \in 1..Len(q) : q[i] = w
         /\ IsInjective(q) <=> \A i, j \in 1..Len(q) : q[i] = q[j] => i = j
<1>1. Len(q) \in Nat /\ DOMAIN q = 1..Len(q) /\ \A i \in 1..Len(q) : q[i] \in Waiters
  BY LenProperties, ElementOfSeq
<1> QED BY <1>1 DEF ToSet, IsInjective

LEMMA Empty == <<>> \in Seq(Waiters) /\ IsInjective(<<>>) /\ ToSet(<<>>) = {} /\ Len(<<>>) = 0
<1>1. <<>> \in Seq(Waiters) /\ Len(<<>>) = 0
  BY EmptySeq
<1>2. \A i \in 1..0 : FALSE
  OBVIOUS
<1>3. ToSet(<<>>) = {}
  BY <1>1, <1>2, Elements
<1> QED BY <1>1, <1>2, <1>3, Elements

LEMMA FrontListed ==
  ASSUME NEW q \in Seq(Waiters), q # <<>>
  PROVE  Head(q) \in Waiters /\ Head(q) \in ToSet(q)
<1>1. Len(q) \in Nat \ {0} /\ Head(q) = q[1]  BY EmptySeq, HeadTailProperties
<1>2. 1 \in 1..Len(q)  BY <1>1
<1> QED BY <1>1, <1>2, Elements

LEMMA AppendFresh ==
  ASSUME NEW q \in Seq(Waiters), IsInjective(q), NEW w \in Waiters, w \notin ToSet(q)
  PROVE  /\ Append(q, w) \in Seq(Waiters) /\ IsInjective(Append(q, w)) /\ Len(Append(q, w)) = Len(q) + 1
         /\ \A v : v \in ToSet(Append(q, w)) <=> v \in ToSet(q) \/ v = w
<1> DEFINE a == Append(q, w)
           n == Len(q)
<1>1. /\ a \in Seq(Waiters) /\ Len(a) = n + 1 /\ a[n + 1] = w /\ \A i \in 1..n : a[i] = q[i]
  BY AppendProperties
<1>2. n \in Nat /\ (\A i \in 1..n + 1 : i \in 1..n \/ i = n + 1) /\ n + 1 \in 1..n + 1 /\ \A i \in 1..n : i \in 1..n + 1
  BY Elements
<1>3. (\A v : v \in ToSet(q) <=> \E i \in 1..n : q[i] = v) /\ \A i, j \in 1..n : q[i] = q[j] => i = j
  BY Elements
<1> HIDE DEF a, n
<1>a. /\ \A v : v \in ToSet(a) <=> \E i \in 1..n + 1 : a[i] = v
      /\ IsInjective(a) <=> \A i, j \in 1..n + 1 : a[i] = a[j] => i = j
  BY <1>1, Elements
<1>4. \A i, j \in 1..n + 1 : a[i] = a[j] => i = j
  BY <1>1, <1>2, <1>3
<1>5. \A v : v \in ToSet(a) <=> v \in ToSet(q) \/ v = w
  BY <1>1, <1>2, <1>3, <1>a
<1> QED BY <1>1, <1>4, <1>5, <1>a DEF a, n

LEMMA WithoutForgets ==
  ASSUME NEW q \in Seq(Waiters), IsInjective(q), NEW w \in Waiters
  PROVE  /\ Without(q, w) \in Seq(Waiters) /\ IsInjective(Without(q, w))
         /\ \A v : v \in ToSet(Without(q, w)) <=> v \in ToSet(q) /\ v # w
         /\ w \in ToSet(q) => Len(Without(q, w)) = Len(q) - 1
<1> DEFINE p == CHOOSE i \in DOMAIN q : q[i] = w
           n == Len(q)
           l == SubSeq(q, 1, p - 1)
           r == SubSeq(q, p + 1, n)
           a == l \o r
<1>0. CASE w \notin ToSet(q)
  <2>1. Without(q, w) = q
    BY <1>0 DEF Without, ToSet
  <2> QED BY <1>0, <2>1
<1> SUFFICES ASSUME w \in ToSet(q) PROVE
         /\ Without(q, w) \in Seq(Waiters) /\ IsInjective(Without(q, w))
         /\ \A v : v \in ToSet(Without(q, w)) <=> v \in ToSet(q) /\ v # w
         /\ Len(Without(q, w)) = Len(q) - 1
  BY <1>0
<1>1. /\ n \in Nat /\ p \in 1..n /\ q[p] = w /\ \A i \in 1..n : q[i] \in Waiters
      /\ \A t : t \in ToSet(q) <=> \E i \in 1..n : q[i] = t
      /\ \A i, j \in 1..n : q[i] = q[j] => i = j
  <2>1. n \in Nat /\ DOMAIN q = 1..n /\ \E i \in 1..n : q[i] = w  BY Elements
  <2>2. p \in 1..n /\ q[p] = w  BY <2>1
  <2> QED BY <2>1, <2>2, Elements
<1>2. Without(q, w) = a  BY DEF Without, RemoveAt, ToSet
<1> HIDE DEF p
<1>3. l \in Seq(Waiters) /\ Len(l) = p - 1 /\ \A i \in 1..p - 1 : l[i] = q[i]
  <2>1. p - 1 \in Int /\ \A i \in 1..p - 1 : q[i] \in Waiters  BY <1>1
  <2> QED BY <1>1, <2>1, SubSeqProperties
<1>4. r \in Seq(Waiters) /\ Len(r) = n - p /\ \A i \in 1..n - p : r[i] = q[p + i]
  BY <1>1
<1> HIDE DEF l, r, n
<1>n. Len(l) + Len(r) = n - 1 /\ p - 1 \in Nat /\ n \in Nat  BY <1>1, <1>3, <1>4
<1>5. /\ a \in Seq(Waiters) /\ Len(a) = n - 1
      /\ \A i \in 1..n - 1 : a[i] = IF i <= p - 1 THEN l[i] ELSE r[i - (p - 1)]
  <2>1. /\ a \in Seq(Waiters) /\ Len(a) = Len(l) + Len(r)
        /\ \A i \in 1..Len(l) + Len(r) : a[i] = IF i <= Len(l) THEN l[i] ELSE r[i - Len(l)]
    BY <1>3, <1>4, ConcatProperties
  <2> HIDE DEF a
  <2> QED BY <1>3, <1>n, <2>1
<1> HIDE DEF a
<1>6. /\ \A i \in 1..n - 1 : i < p => i \in 1..n /\ a[i] = q[i]
      /\ \A i \in 1..n - 1 : i >= p => i + 1 \in 1..n /\ a[i] = q[i + 1]
  <2>1. ASSUME NEW i \in 1..n - 1, i < p PROVE i \in 1..n /\ a[i] = q[i]
    <3>1. i \in 1..n /\ i \in 1..p - 1 /\ i <= p - 1  BY <1>1, <2>1
    <3>2. a[i] = l[i]  BY <1>5, <3>1
    <3> QED BY <1>3, <3>1, <3>2
  <2>2. ASSUME NEW i \in 1..n - 1, i >= p PROVE i + 1 \in 1..n /\ a[i] = q[i + 1]
    <3>1. i - (p - 1) \in 1..n - p /\ p + (i - (p - 1)) = i + 1 /\ ~(i <= p - 1)  BY <1>1, <2>2
    <3>2. a[i] = r[i - (p - 1)]  BY <1>5, <3>1
    <3>3. i + 1 \in 1..n  BY <1>1
    <3> QED BY <1>4, <3>1, <3>2, <3>3
  <2> QED BY <2>1, <2>2
<1>7. /\ \A t : t \in ToSet(a) <=> \E i \in 1..n - 1 : a[i] = t
      /\ IsInjective(a) <=> \A i, j \in 1..n - 1 : a[i] = a[j] => i = j
  BY <1>5, Elements
<1>8. ASSUME NEW i \in 1..n - 1, NEW j \in 1..n - 1, a[i] = a[j] PROVE i = j
  <2>1. i < p \/ i >= p  BY <1>1
  <2>2. j < p \/ j >= p  BY <1>1
  <2> QED BY <1>1, <1>6, <1>8, <2>1, <2>2, SMTT(60)
<1>9. ASSUME NEW t PROVE t \in ToSet(a) <=> t \in ToSet(q) /\ t # w
  <2>1. ASSUME t \in ToSet(a) PROVE t \in ToSet(q) /\ t # w
    <3>1. PICK i \in 1..n - 1 : a[i] = t  BY <1>7, <2>1
    <3>2. CASE i < p
      <4>1. i \in 1..n /\ q[i] = t /\ i # p  BY <1>1, <1>6, <3>1, <3>2
      <4> QED BY <1>1, <4>1
    <3>3. CASE i >= p
      <4>1. i + 1 \in 1..n /\ q[i + 1] = t /\ i + 1 # p  BY <1>1, <1>6, <3>1, <3>3
      <4> QED BY <1>1, <4>1
    <3> QED BY <1>1, <3>2, <3>3
  <2>2. ASSUME t \in ToSet(q), t # w PROVE t \in ToSet(a)
    <3>1. PICK i \in 1..n : q[i] = t  BY <1>1, <2>2
    <3>2. i # p  BY <1>1, <2>2, <3>1
    <3>3. CASE i < p
      <4>1. i \in 1..n - 1  BY <1>1, <3>3
      <4> QED BY <1>6, <1>7, <3>1, <3>3, <4>1
    <3>4. CASE i > p
      <4>1. i - 1 \in 1..n - 1 /\ i - 1 >= p /\ (i - 1) + 1 = i  BY <1>1, <3>4
      <4>2. a[i - 1] = t  BY <1>6, <3>1, <4>1
      <4> QED BY <1>7, <4>1, <4>2
    <3> QED BY <1>1, <3>2, <3>3, <3>4
  <2> QED BY <2>1, <2>2
<1> QED BY <1>2, <1>5, <1>7, <1>8, <1>9 DEF n

(* The number of threads that have been picked, when one of them changes.  *)
LEMMA Fewer ==
  ASSUME NEW S \in SUBSET Waiters, NEW T \in SUBSET S
  PROVE  Cardinality(S) \in Nat /\ Cardinality(T) \in Nat /\ Cardinality(T) <= Cardinality(S)
BY ContextsAssumption, FS_Subset, FS_CardinalityType

LEMMA OneMore ==
  ASSUME NEW S \in SUBSET Waiters, NEW T \in SUBSET Waiters, NEW w \in Waiters, T \subseteq S \cup {w}
  PROVE  Cardinality(S) \in Nat /\ Cardinality(T) \in Nat /\ Cardinality(T) <= Cardinality(S) + 1
<1>1. IsFiniteSet(S)
  BY ContextsAssumption, FS_Subset
<1>2. IsFiniteSet(S \cup {w}) /\ Cardinality(S \cup {w}) <= Cardinality(S) + 1 /\ Cardinality(S) \in Nat
  BY <1>1, FS_AddElement, FS_CardinalityType
<1>3. Cardinality(T) <= Cardinality(S \cup {w}) /\ Cardinality(T) \in Nat /\ Cardinality(S \cup {w}) \in Nat
  BY <1>2, FS_Subset, FS_CardinalityType
<1> QED BY <1>2, <1>3

LEMMA OneLess ==
  ASSUME NEW S \in SUBSET Waiters, NEW T \in SUBSET S, NEW w \in S, w \notin T
  PROVE  Cardinality(S) \in Nat /\ Cardinality(T) \in Nat /\ Cardinality(T) + 1 <= Cardinality(S)
<1>1. IsFiniteSet(S) /\ Cardinality(S) \in Nat
  BY ContextsAssumption, FS_Subset, FS_CardinalityType
<1>2. IsFiniteSet(S \ {w}) /\ Cardinality(S \ {w}) = Cardinality(S) - 1
  BY <1>1, FS_RemoveElement
<1>3. Cardinality(T) <= Cardinality(S \ {w}) /\ Cardinality(T) \in Nat /\ Cardinality(S \ {w}) \in Nat
  BY <1>2, FS_Subset, FS_CardinalityType
<1> QED BY <1>1, <1>2, <1>3
-----------------------------------------------------------------------------
(* The types in parts.                                                     *)
SemaSet == [value : Int, lock : BOOLEAN, blocked : Seq(Waiters), num : Nat]
BlockerSet == [lock : BOOLEAN, thread : BOOLEAN, semaphore : BOOLEAN,
               shouldBlock : BOOLEAN, interrupted : BOOLEAN, live : BOOLEAN]
ThreadSet == [state : {"Running", "Blocked"}, stateLock : BOOLEAN, blocker : BOOLEAN, pending : BOOLEAN]
AimSet == [waiter : Waiters, call : Nat]
SemaOK == sema \in SemaSet
SlotOK == slot \in [Waiters -> BlockerSet]
ThreadOK == thread \in [Waiters -> ThreadSet]
AimOK == aim \in [Wakers -> AimSet]
PlaceOK == /\ pc \in [Contexts -> {"idle", "block", "block_pending", "block_commit", "yielded",
                                   "return_false", "return_true", "front", "test", "interrupt",
                                   "detach", "wake", "release"}]
           /\ calls \in [Contexts -> Nat]
           /\ permits \in [given : Nat, taken : Nat] /\ dangling \in BOOLEAN
           /\ panic \in {"none", "list", "null_front", "null_blocker"}

LEMMA TypeParts == /\ TypeOK <=> SemaOK /\ SlotOK /\ ThreadOK /\ AimOK /\ PlaceOK
                   /\ TypeOK' <=> (SemaOK /\ SlotOK /\ ThreadOK /\ AimOK /\ PlaceOK)'
BY DEF TypeOK, SemaOK, SlotOK, ThreadOK, AimOK, PlaceOK, SemaSet, BlockerSet, ThreadSet, AimSet

LEMMA SlotSet == ASSUME SlotOK, NEW w \in Waiters, NEW b \in BlockerSet
                 PROVE  slot[w] \in BlockerSet /\ [slot EXCEPT ![w] = b] \in [Waiters -> BlockerSet]
BY DEF SlotOK

LEMMA StateSet == ASSUME ThreadOK, NEW w \in Waiters, NEW t \in ThreadSet
                  PROVE  thread[w] \in ThreadSet /\ [thread EXCEPT ![w] = t] \in [Waiters -> ThreadSet]
BY DEF ThreadOK

LEMMA Aiming == ASSUME AimOK, NEW c \in Wakers
                PROVE  aim[c] \in AimSet /\ Aim(c) \in Waiters /\ aim[c].call \in Nat
BY DEF AimOK, AimSet, Aim

(* What a removal from the list does, whether or not the blocker is there. *)
LEMMA Removal ==
  ASSUME SemaOK, NEW w \in Waiters, IsInjective(sema.blocked), panic = "none", RemoveIfListed(w)
  PROVE  /\ SemaOK'
         /\ sema'.value = sema.value /\ sema'.lock = sema.lock
         /\ panic' \in {"none", "list"}
         /\ ~slot[w].semaphore => sema' = sema /\ panic' = "none"
         /\ slot[w].semaphore /\ panic' = "none" =>
              sema'.num = sema.num - 1 /\ w \notin ToSet(sema'.blocked)
         /\ IsInjective(sema'.blocked) /\ ToSet(sema'.blocked) \subseteq ToSet(sema.blocked)
         /\ slot[w].semaphore /\ panic' = "none" /\ sema.num = Len(sema.blocked) /\ w \in ToSet(sema.blocked) =>
              /\ sema'.num = Len(sema'.blocked)
              /\ \A v : v \in ToSet(sema.blocked) /\ v # w => v \in ToSet(sema'.blocked)
<1> DEFINE q == sema.blocked
<1>t. /\ sema.value \in Int /\ sema.lock \in BOOLEAN /\ q \in Seq(Waiters) /\ sema.num \in Nat
      /\ sema \in SemaSet
      /\ Len(q) \in Nat
  BY Elements DEF SemaOK, SemaSet
<1>1. CASE ~slot[w].semaphore
  BY <1>1, <1>t DEF RemoveIfListed, SemaOK
<1>2. CASE slot[w].semaphore /\ IsEmpty(sema.blocked, sema.num)
  BY <1>2, <1>t DEF RemoveIfListed, SemaOK
<1>3. CASE slot[w].semaphore /\ ~IsEmpty(sema.blocked, sema.num)
  <2>1. /\ sema.num # 0 /\ q # <<>> /\ panic' = "none"
        /\ sema' = [sema EXCEPT !.num = sema.num - 1, !.blocked = IF sema.num = 1 THEN <<>> ELSE Without(q, w)]
    BY <1>3 DEF RemoveIfListed, IsEmpty
  <2>2. CASE sema.num = 1
    <3>1. sema' = [sema EXCEPT !.num = 0, !.blocked = <<>>]
      BY <2>1, <2>2
    <3>2. /\ sema'.value = sema.value /\ sema'.lock = sema.lock /\ sema'.blocked = <<>> /\ sema'.num = 0
          /\ sema' \in SemaSet
      BY <3>1, <1>t, Empty DEF SemaSet
    <3>3. ASSUME Len(q) = 1, w \in ToSet(q), NEW v, v \in ToSet(q) PROVE v = w
      <4>1. \A i \in 1..1 : i = 1  OBVIOUS
      <4> QED BY <1>t, <3>3, <4>1, Elements
    <3> HIDE DEF q
    <3> QED BY <1>3, <2>1, <2>2, <3>2, <3>3, Empty DEF q, SemaOK
  <2>3. CASE sema.num # 1
    <3>1. sema' = [sema EXCEPT !.num = sema.num - 1, !.blocked = Without(q, w)]
      BY <2>1, <2>3
    <3>w. /\ Without(q, w) \in Seq(Waiters) /\ IsInjective(Without(q, w))
          /\ \A v : v \in ToSet(Without(q, w)) <=> v \in ToSet(q) /\ v # w
          /\ w \in ToSet(q) => Len(Without(q, w)) = Len(q) - 1
      <4>1. q \in Seq(Waiters) /\ IsInjective(q)
        BY <1>t
      <4> HIDE DEF q
      <4> QED BY <4>1, WithoutForgets
    <3>2. Without(q, w) \in Seq(Waiters) /\ sema.num - 1 \in Nat
      BY <1>t, <2>1, <3>w
    <3>3. /\ sema'.value = sema.value /\ sema'.lock = sema.lock /\ sema'.blocked = Without(q, w)
          /\ sema'.num = sema.num - 1
          /\ sema' \in SemaSet
      BY <3>1, <3>2, <1>t DEF SemaSet
    <3> QED BY <1>t, <1>3, <2>1, <3>3, <3>w DEF SemaOK
  <2> QED BY <2>2, <2>3
<1> QED BY <1>1, <1>2, <1>3
-----------------------------------------------------------------------------
LEMMA Steps == Next =>
  \/ \E w \in Waiters : \/ Wait(w) \/ Block(w) \/ BlockPending(w) \/ BlockCommit(w)
                        \/ Resume(w) \/ Return(w) \/ HandleSignal(w)
  \/ \E p \in Posters : Signal(p) \/ PostFront(p) \/ PostRelease(p)
  \/ \E k \in Killers : \/ \E w \in Waiters : Kill(k, w)
                        \/ KillTest(k) \/ KillInterrupt(k) \/ KillRelease(k)
  \/ \E c \in Wakers : Detach(c) \/ Wake(c)
BY DEF Next, Waiting, Posting, Killing, Wakers

LEMMA StepTypes == IInv /\ Next => TypeOK'
<1> SUFFICES ASSUME IInv, Next PROVE TypeOK'
  OBVIOUS
<1>t. SemaOK /\ SlotOK /\ ThreadOK /\ AimOK /\ PlaceOK
  BY TypeParts DEF IInv
<1> USE ContextsAre DEF At, Goto, Call
<1>1. ASSUME NEW w \in Waiters, Wait(w) PROVE TypeOK'
  <2>1. SemaOK'
    <3>1. Append(sema.blocked, w) \in Seq(Waiters) /\ sema.value - 1 \in Int /\ sema.num + 1 \in Nat
      BY <1>1, <1>t, AppendProperties DEF SemaOK, SemaSet
    <3>2. \/ sema' = [sema EXCEPT !.value = sema.value - 1, !.blocked = Append(sema.blocked, w), !.num = sema.num + 1]
          \/ sema' = [sema EXCEPT !.value = sema.value - 1]
      BY <1>1 DEF Wait
    <3> QED
      BY <3>1, <3>2, <1>t DEF SemaOK, SemaSet
  <2>2. SlotOK'
      <3>0. w \in Waiters /\ slot[w] \in BlockerSet
        BY <1>1, <1>t DEF SlotOK
      <3>1. NewBlocker \in BlockerSet
        BY <3>0 DEF BlockerSet, NewBlocker
      <3>2. \/ slot' = [slot EXCEPT ![w] = NewBlocker]
           \/ slot' = slot
        BY <1>1, <3>0 DEF Wait, MustBlock
      <3> QED
        BY <1>t, <3>0, <3>1, <3>2, SlotSet DEF SlotOK
  <2>3. ThreadOK'
    BY <1>1, <1>t DEF ThreadOK, Wait, MustBlock
  <2>4. AimOK'
    BY <1>1, <1>t DEF AimOK, Wait, MustBlock
  <2>5. PlaceOK'
    BY <1>1, <1>t DEF PlaceOK, Wait, MustBlock
  <2> QED
    BY <2>1, <2>2, <2>3, <2>4, <2>5, TypeParts
<1>2. ASSUME NEW w \in Waiters, Block(w) PROVE TypeOK'
  <2>1. SemaOK'
    BY <1>2, <1>t DEF SemaOK, SemaSet, Block
  <2>2. SlotOK'
      <3>0. w \in Waiters /\ slot[w] \in BlockerSet
        BY <1>2, <1>t DEF SlotOK
      <3>1. [slot[w] EXCEPT !.thread = TRUE, !.lock = TRUE] \in BlockerSet /\ [slot[w] EXCEPT !.thread = TRUE] \in BlockerSet
        BY <3>0 DEF BlockerSet
      <3>2. \/ slot' = [slot EXCEPT ![w] = [slot[w] EXCEPT !.thread = TRUE, !.lock = TRUE]]
           \/ slot' = [slot EXCEPT ![w] = [slot[w] EXCEPT !.thread = TRUE]]
        BY <1>2, <3>0 DEF Block
      <3> QED
        BY <1>t, <3>0, <3>1, <3>2, SlotSet DEF SlotOK
  <2>3. ThreadOK'
      <3>0. w \in Waiters /\ thread[w] \in ThreadSet
        BY <1>2, <1>t DEF ThreadOK
      <3>1. [thread[w] EXCEPT !.stateLock = TRUE] \in ThreadSet
        BY <3>0 DEF ThreadSet
      <3>2. \/ thread' = [thread EXCEPT ![w] = [thread[w] EXCEPT !.stateLock = TRUE]]
           \/ thread' = thread
        BY <1>2, <3>0 DEF Block
      <3> QED
        BY <1>t, <3>0, <3>1, <3>2, StateSet DEF ThreadOK
  <2>4. AimOK'
    BY <1>2, <1>t DEF AimOK, Block
  <2>5. PlaceOK'
    BY <1>2, <1>t DEF PlaceOK, Block
  <2> QED
    BY <2>1, <2>2, <2>3, <2>4, <2>5, TypeParts
<1>3. ASSUME NEW w \in Waiters, BlockPending(w) PROVE TypeOK'
  <2>1. SemaOK'
    BY <1>3, <1>t DEF SemaOK, SemaSet, BlockPending, SeesSignal
  <2>2. SlotOK'
      <3>0. w \in Waiters /\ slot[w] \in BlockerSet
        BY <1>3, <1>t DEF SlotOK
      <3>1. [slot[w] EXCEPT !.lock = FALSE] \in BlockerSet
        BY <3>0 DEF BlockerSet
      <3>2. \/ slot' = [slot EXCEPT ![w] = [slot[w] EXCEPT !.lock = FALSE]]
        BY <1>3, <3>0 DEF BlockPending, SeesSignal
      <3> QED
        BY <1>t, <3>0, <3>1, <3>2, SlotSet DEF SlotOK
  <2>3. ThreadOK'
      <3>0. w \in Waiters /\ thread[w] \in ThreadSet
        BY <1>3, <1>t DEF ThreadOK
      <3>1. [thread[w] EXCEPT !.stateLock = FALSE] \in ThreadSet /\ [thread[w] EXCEPT !.blocker = TRUE] \in ThreadSet
        BY <3>0 DEF ThreadSet
      <3>2. \/ thread' = [thread EXCEPT ![w] = [thread[w] EXCEPT !.stateLock = FALSE]]
           \/ thread' = [thread EXCEPT ![w] = [thread[w] EXCEPT !.blocker = TRUE]]
        BY <1>3, <3>0 DEF BlockPending, SeesSignal
      <3> QED
        BY <1>t, <3>0, <3>1, <3>2, StateSet DEF ThreadOK
  <2>4. AimOK'
    BY <1>3, <1>t DEF AimOK, BlockPending, SeesSignal
  <2>5. PlaceOK'
    BY <1>3, <1>t DEF PlaceOK, BlockPending, SeesSignal
  <2> QED
    BY <2>1, <2>2, <2>3, <2>4, <2>5, TypeParts
<1>4. ASSUME NEW w \in Waiters, BlockCommit(w) PROVE TypeOK'
  <2>1. SemaOK'
    BY <1>4, <1>t DEF SemaOK, SemaSet, BlockCommit
  <2>2. SlotOK'
    BY <1>4, <1>t DEF SlotOK, BlockCommit
  <2>3. ThreadOK'
      <3>0. w \in Waiters /\ thread[w] \in ThreadSet
        BY <1>4, <1>t DEF ThreadOK
      <3>1. [thread[w] EXCEPT !.state = "Blocked", !.stateLock = FALSE] \in ThreadSet
        BY <3>0 DEF ThreadSet
      <3>2. \/ thread' = [thread EXCEPT ![w] = [thread[w] EXCEPT !.state = "Blocked", !.stateLock = FALSE]]
        BY <1>4, <3>0 DEF BlockCommit
      <3> QED
        BY <1>t, <3>0, <3>1, <3>2, StateSet DEF ThreadOK
  <2>4. AimOK'
    BY <1>4, <1>t DEF AimOK, BlockCommit
  <2>5. PlaceOK'
    BY <1>4, <1>t DEF PlaceOK, BlockCommit
  <2> QED
    BY <2>1, <2>2, <2>3, <2>4, <2>5, TypeParts
<1>5. ASSUME NEW w \in Waiters, Resume(w) PROVE TypeOK'
  <2>1. SemaOK'
    BY <1>5, <1>t DEF SemaOK, SemaSet, Resume, WasInterrupted
  <2>2. SlotOK'
    BY <1>5, <1>t DEF SlotOK, Resume, WasInterrupted
  <2>3. ThreadOK'
      <3>0. w \in Waiters /\ thread[w] \in ThreadSet
        BY <1>5, <1>t DEF ThreadOK
      <3>1. [thread[w] EXCEPT !.blocker = FALSE] \in ThreadSet
        BY <3>0 DEF ThreadSet
      <3>2. \/ thread' = [thread EXCEPT ![w] = [thread[w] EXCEPT !.blocker = FALSE]]
        BY <1>5, <3>0 DEF Resume, WasInterrupted
      <3> QED
        BY <1>t, <3>0, <3>1, <3>2, StateSet DEF ThreadOK
  <2>4. AimOK'
    BY <1>5, <1>t DEF AimOK, Resume, WasInterrupted
  <2>5. PlaceOK'
    BY <1>5, <1>t DEF PlaceOK, Resume, WasInterrupted
  <2> QED
    BY <2>1, <2>2, <2>3, <2>4, <2>5, TypeParts
<1>6. ASSUME NEW w \in Waiters, Return(w) PROVE TypeOK'
  <2>r. IsInjective(sema.blocked) /\ panic = "none" /\ w \in Waiters /\ RemoveIfListed(w)
    BY <1>6, <1>t, Aiming DEF IInv, Listed, Return
  <2>1. SemaOK'
    BY <2>r, <1>t, Removal
  <2>2. SlotOK'
      <3>0. w \in Waiters /\ slot[w] \in BlockerSet
        BY <1>6, <1>t DEF SlotOK
      <3>1. [slot[w] EXCEPT !.live = FALSE] \in BlockerSet
        BY <3>0 DEF BlockerSet
      <3>2. \/ slot' = [slot EXCEPT ![w] = [slot[w] EXCEPT !.live = FALSE]]
        BY <1>6, <3>0 DEF Return
      <3> QED
        BY <1>t, <3>0, <3>1, <3>2, SlotSet DEF SlotOK
  <2>3. ThreadOK'
    BY <1>6, <1>t DEF ThreadOK, Return
  <2>4. AimOK'
    BY <1>6, <1>t DEF AimOK, Return
  <2>5. PlaceOK'
    <3>1. panic' \in {"none", "list"}
      BY <2>r, <1>t, Removal
    <3>2. permits' = permits \/ permits' = [permits EXCEPT !.taken = permits.taken + 1]
      BY <1>6 DEF Return
    <3>3. permits' \in [given : Nat, taken : Nat]
      BY <3>2, <1>t DEF PlaceOK
    <3> QED
      BY <3>1, <3>3, <1>6, <1>t DEF PlaceOK, Return
  <2> QED
    BY <2>1, <2>2, <2>3, <2>4, <2>5, TypeParts
<1>7. ASSUME NEW w \in Waiters, HandleSignal(w) PROVE TypeOK'
  <2>1. SemaOK'
    BY <1>7, <1>t DEF SemaOK, SemaSet, HandleSignal
  <2>2. SlotOK'
    BY <1>7, <1>t DEF SlotOK, HandleSignal
  <2>3. ThreadOK'
      <3>0. w \in Waiters /\ thread[w] \in ThreadSet
        BY <1>7, <1>t DEF ThreadOK
      <3>1. [thread[w] EXCEPT !.pending = FALSE] \in ThreadSet
        BY <3>0 DEF ThreadSet
      <3>2. \/ thread' = [thread EXCEPT ![w] = [thread[w] EXCEPT !.pending = FALSE]]
        BY <1>7, <3>0 DEF HandleSignal
      <3> QED
        BY <1>t, <3>0, <3>1, <3>2, StateSet DEF ThreadOK
  <2>4. AimOK'
    BY <1>7, <1>t DEF AimOK, HandleSignal
  <2>5. PlaceOK'
    BY <1>7, <1>t DEF PlaceOK, HandleSignal
  <2> QED
    BY <2>1, <2>2, <2>3, <2>4, <2>5, TypeParts
<1>8. ASSUME NEW p \in Posters, Signal(p) PROVE TypeOK'
  <2>1. SemaOK'
    <3>1. sema' = [sema EXCEPT !.value = sema.value + 1, !.lock = SomeoneBlocked(sema.num)]
      BY <1>8 DEF Signal
    <3>2. SomeoneBlocked(sema.num) \in BOOLEAN
      BY DEF SomeoneBlocked
    <3>3. sema.value + 1 \in Int
      BY <1>t DEF SemaOK, SemaSet
    <3> QED
      BY <3>1, <3>2, <3>3, <1>t DEF SemaOK, SemaSet
  <2>2. SlotOK'
    BY <1>8, <1>t DEF SlotOK, Signal, SomeoneBlocked
  <2>3. ThreadOK'
    BY <1>8, <1>t DEF ThreadOK, Signal, SomeoneBlocked
  <2>4. AimOK'
    BY <1>8, <1>t DEF AimOK, Signal, SomeoneBlocked
  <2>5. PlaceOK'
    BY <1>8, <1>t DEF PlaceOK, Signal, SomeoneBlocked
  <2> QED
    BY <2>1, <2>2, <2>3, <2>4, <2>5, TypeParts
<1>9. ASSUME NEW p \in Posters, PostFront(p) PROVE TypeOK'
  <2>1. SemaOK'
    BY <1>9, <1>t DEF SemaOK, SemaSet, PostFront
  <2>2. SlotOK'
    <3>e. CASE sema.blocked = <<>>
      BY <3>e, <1>9, <1>t DEF SlotOK, PostFront
    <3>f. CASE sema.blocked # <<>>
        <4>0. Head(sema.blocked) \in Waiters /\ slot[Head(sema.blocked)] \in BlockerSet
          BY <1>9, <1>t, <3>f, FrontListed DEF SlotOK, SemaOK, SemaSet
        <4>1. [slot[Head(sema.blocked)] EXCEPT !.shouldBlock = FALSE] \in BlockerSet
          BY <4>0 DEF BlockerSet
        <4>2. \/ slot' = [slot EXCEPT ![Head(sema.blocked)] = [slot[Head(sema.blocked)] EXCEPT !.shouldBlock = FALSE]]
          BY <1>9, <4>0, <3>f DEF PostFront
        <4> QED
          BY <1>t, <4>0, <4>1, <4>2, SlotSet DEF SlotOK
    <3> QED
      BY <3>e, <3>f
  <2>3. ThreadOK'
    BY <1>9, <1>t DEF ThreadOK, PostFront
  <2>4. AimOK'
    <3>1. CASE sema.blocked = <<>>
      BY <3>1, <1>9, <1>t DEF AimOK, PostFront
    <3>2. CASE sema.blocked # <<>>
      <4>1. Head(sema.blocked) \in Waiters /\ calls[Head(sema.blocked)] \in Nat
        BY <1>t, <3>2, FrontListed DEF SemaOK, SemaSet, PlaceOK
      <4>2. [waiter |-> Head(sema.blocked), call |-> calls[Head(sema.blocked)]] \in AimSet
        BY <4>1 DEF AimSet
      <4>3. aim' = [aim EXCEPT ![p] = [waiter |-> Head(sema.blocked), call |-> calls[Head(sema.blocked)]]]
        BY <1>9, <3>2 DEF PostFront
      <4> QED
        BY <4>2, <4>3, <1>t DEF AimOK
    <3> QED
      BY <3>1, <3>2
  <2>5. PlaceOK'
    BY <1>9, <1>t DEF PlaceOK, PostFront
  <2> QED
    BY <2>1, <2>2, <2>3, <2>4, <2>5, TypeParts
<1>10. ASSUME NEW p \in Posters, PostRelease(p) PROVE TypeOK'
  <2>1. SemaOK'
    BY <1>10, <1>t DEF SemaOK, SemaSet, PostRelease
  <2>2. SlotOK'
      <3>0. Aim(p) \in Waiters /\ slot[Aim(p)] \in BlockerSet
        BY <1>10, <1>t, Aiming DEF SlotOK
      <3>1. [slot[Aim(p)] EXCEPT !.lock = FALSE] \in BlockerSet
        BY <3>0 DEF BlockerSet
      <3>2. \/ slot' = [slot EXCEPT ![Aim(p)] = [slot[Aim(p)] EXCEPT !.lock = FALSE]]
        BY <1>10, <3>0 DEF PostRelease
      <3> QED
        BY <1>t, <3>0, <3>1, <3>2, SlotSet DEF SlotOK
  <2>3. ThreadOK'
    BY <1>10, <1>t DEF ThreadOK, PostRelease
  <2>4. AimOK'
    BY <1>10, <1>t DEF AimOK, PostRelease
  <2>5. PlaceOK'
    BY <1>10, <1>t DEF PlaceOK, PostRelease
  <2> QED
    BY <2>1, <2>2, <2>3, <2>4, <2>5, TypeParts
<1>11. ASSUME NEW k \in Killers, NEW w \in Waiters, Kill(k, w) PROVE TypeOK'
  <2>1. SemaOK'
    BY <1>11, <1>t DEF SemaOK, SemaSet, Kill
  <2>2. SlotOK'
    BY <1>11, <1>t DEF SlotOK, Kill
  <2>3. ThreadOK'
      <3>0. w \in Waiters /\ thread[w] \in ThreadSet
        BY <1>11, <1>t DEF ThreadOK
      <3>1. [thread[w] EXCEPT !.pending = TRUE] \in ThreadSet
        BY <3>0 DEF ThreadSet
      <3>2. \/ thread' = [thread EXCEPT ![w] = [thread[w] EXCEPT !.pending = TRUE]]
        BY <1>11, <3>0 DEF Kill
      <3> QED
        BY <1>t, <3>0, <3>1, <3>2, StateSet DEF ThreadOK
  <2>4. AimOK'
    <3>1. aim[k] \in AimSet /\ Aim(k) \in Waiters /\ calls[Aim(k)] \in Nat
      BY <1>11, <1>t, Aiming DEF PlaceOK
    <3>2. [aim[k] EXCEPT !.waiter = w] \in AimSet
      BY <1>11, <3>1 DEF AimSet
    <3>3. aim' = aim \/ aim' = [aim EXCEPT ![k] = [aim[k] EXCEPT !.waiter = w]]
      BY <1>11, <1>t DEF Kill, AimOK
    <3> QED
      BY <1>11, <3>2, <3>3, <1>t DEF AimOK
  <2>5. PlaceOK'
    BY <1>11, <1>t DEF PlaceOK, Kill
  <2> QED
    BY <2>1, <2>2, <2>3, <2>4, <2>5, TypeParts
<1>12. ASSUME NEW k \in Killers, KillTest(k) PROVE TypeOK'
  <2>1. SemaOK'
    BY <1>12, <1>t DEF SemaOK, SemaSet, KillTest
  <2>2. SlotOK'
    BY <1>12, <1>t DEF SlotOK, KillTest
  <2>3. ThreadOK'
    BY <1>12, <1>t DEF ThreadOK, KillTest
  <2>4. AimOK'
    BY <1>12, <1>t DEF AimOK, KillTest
  <2>5. PlaceOK'
    BY <1>12, <1>t DEF PlaceOK, KillTest
  <2> QED
    BY <2>1, <2>2, <2>3, <2>4, <2>5, TypeParts
<1>13. ASSUME NEW k \in Killers, KillInterrupt(k) PROVE TypeOK'
  <2>1. SemaOK'
    BY <1>13, <1>t DEF SemaOK, SemaSet, KillInterrupt
  <2>2. SlotOK'
      <3>0. Aim(k) \in Waiters /\ slot[Aim(k)] \in BlockerSet
        BY <1>13, <1>t, Aiming DEF SlotOK
      <3>1. [slot[Aim(k)] EXCEPT !.interrupted = TRUE, !.shouldBlock = FALSE] \in BlockerSet
        BY <3>0 DEF BlockerSet
      <3>2. \/ slot' = [slot EXCEPT ![Aim(k)] = [slot[Aim(k)] EXCEPT !.interrupted = TRUE, !.shouldBlock = FALSE]]
           \/ slot' = slot
        BY <1>13, <3>0 DEF KillInterrupt
      <3> QED
        BY <1>t, <3>0, <3>1, <3>2, SlotSet DEF SlotOK
  <2>3. ThreadOK'
    BY <1>13, <1>t DEF ThreadOK, KillInterrupt
  <2>4. AimOK'
    <3>1. aim[k] \in AimSet /\ Aim(k) \in Waiters /\ calls[Aim(k)] \in Nat
      BY <1>13, <1>t, Aiming DEF PlaceOK
    <3>2. [aim[k] EXCEPT !.call = calls[Aim(k)]] \in AimSet
      BY <1>13, <3>1 DEF AimSet
    <3>3. aim' = aim \/ aim' = [aim EXCEPT ![k] = [aim[k] EXCEPT !.call = calls[Aim(k)]]]
      BY <1>13, <1>t DEF KillInterrupt, AimOK
    <3> QED
      BY <1>13, <3>2, <3>3, <1>t DEF AimOK
  <2>5. PlaceOK'
    BY <1>13, <1>t DEF PlaceOK, KillInterrupt
  <2> QED
    BY <2>1, <2>2, <2>3, <2>4, <2>5, TypeParts
<1>14. ASSUME NEW k \in Killers, KillRelease(k) PROVE TypeOK'
  <2>1. SemaOK'
    BY <1>14, <1>t DEF SemaOK, SemaSet, KillRelease
  <2>2. SlotOK'
      <3>0. Aim(k) \in Waiters /\ slot[Aim(k)] \in BlockerSet
        BY <1>14, <1>t, Aiming DEF SlotOK
      <3>1. [slot[Aim(k)] EXCEPT !.thread = FALSE, !.lock = FALSE] \in BlockerSet
        BY <3>0 DEF BlockerSet
      <3>2. \/ slot' = [slot EXCEPT ![Aim(k)] = [slot[Aim(k)] EXCEPT !.thread = FALSE, !.lock = FALSE]]
        BY <1>14, <3>0 DEF KillRelease
      <3> QED
        BY <1>t, <3>0, <3>1, <3>2, SlotSet DEF SlotOK
  <2>3. ThreadOK'
    BY <1>14, <1>t DEF ThreadOK, KillRelease
  <2>4. AimOK'
    BY <1>14, <1>t DEF AimOK, KillRelease
  <2>5. PlaceOK'
    BY <1>14, <1>t DEF PlaceOK, KillRelease
  <2> QED
    BY <2>1, <2>2, <2>3, <2>4, <2>5, TypeParts
<1>15. ASSUME NEW c \in Wakers, Detach(c) PROVE TypeOK'
  <2>r. IsInjective(sema.blocked) /\ panic = "none" /\ Aim(c) \in Waiters /\ RemoveIfListed(Aim(c))
    BY <1>15, <1>t, Aiming DEF IInv, Listed, Detach
  <2>1. SemaOK'
    BY <2>r, <1>t, Removal
  <2>2. SlotOK'
      <3>0. Aim(c) \in Waiters /\ slot[Aim(c)] \in BlockerSet
        BY <1>15, <1>t, Aiming DEF SlotOK
      <3>1. [slot[Aim(c)] EXCEPT !.lock = TRUE, !.semaphore = FALSE] \in BlockerSet
        BY <3>0 DEF BlockerSet
      <3>2. \/ slot' = [slot EXCEPT ![Aim(c)] = [slot[Aim(c)] EXCEPT !.lock = TRUE, !.semaphore = FALSE]]
        BY <1>15, <3>0 DEF Detach
      <3> QED
        BY <1>t, <3>0, <3>1, <3>2, SlotSet DEF SlotOK
  <2>3. ThreadOK'
    BY <1>15, <1>t DEF ThreadOK, Detach
  <2>4. AimOK'
    BY <1>15, <1>t DEF AimOK, Detach
  <2>5. PlaceOK'
    <3>1. panic' \in {"none", "list"}
      BY <2>r, <1>t, Removal
    <3> QED
      BY <3>1, <1>15, <1>t DEF PlaceOK, Detach
  <2> QED
    BY <2>1, <2>2, <2>3, <2>4, <2>5, TypeParts
<1>16. ASSUME NEW c \in Wakers, Wake(c) PROVE TypeOK'
  <2>1. SemaOK'
    BY <1>16, <1>t DEF SemaOK, SemaSet, Wake, Unblock
  <2>2. SlotOK'
    BY <1>16, <1>t DEF SlotOK, Wake, Unblock
  <2>3. ThreadOK'
      <3>0. Aim(c) \in Waiters /\ thread[Aim(c)] \in ThreadSet
        BY <1>16, <1>t, Aiming DEF ThreadOK
      <3>1. [thread[Aim(c)] EXCEPT !.state = "Running"] \in ThreadSet
        BY <3>0 DEF ThreadSet
      <3>2. \/ thread' = [thread EXCEPT ![Aim(c)] = [thread[Aim(c)] EXCEPT !.state = "Running"]]
        BY <1>16, <3>0 DEF Wake, Unblock
      <3> QED
        BY <1>t, <3>0, <3>1, <3>2, StateSet DEF ThreadOK
  <2>4. AimOK'
    BY <1>16, <1>t DEF AimOK, Wake, Unblock
  <2>5. PlaceOK'
    BY <1>16, <1>t DEF PlaceOK, Wake, Unblock
  <2> QED
    BY <2>1, <2>2, <2>3, <2>4, <2>5, TypeParts
<1> QED
  BY <1>1, <1>2, <1>3, <1>4, <1>5, <1>6, <1>7, <1>8, <1>9, <1>10, <1>11, <1>12, <1>13, <1>14, <1>15, <1>16, Steps

LEMMA StepHolds == IInv /\ Next => OneHolds'
<1> SUFFICES ASSUME IInv, Next PROVE OneHolds'
  OBVIOUS
<1>t. SemaOK /\ SlotOK /\ ThreadOK /\ AimOK /\ PlaceOK
  BY TypeParts DEF IInv
<1> USE ContextsAre DEF At, Goto, Call
<1>1. ASSUME NEW w \in Waiters, Wait(w) PROVE OneHolds'
  BY <1>1, <1>t DEF IInv, OneHolds, SemaOK, SemaSet, PlaceOK, Wait, MustBlock
<1>2. ASSUME NEW w \in Waiters, Block(w) PROVE OneHolds'
  BY <1>2, <1>t DEF IInv, OneHolds, SemaOK, SemaSet, PlaceOK, Block
<1>3. ASSUME NEW w \in Waiters, BlockPending(w) PROVE OneHolds'
  BY <1>3, <1>t DEF IInv, OneHolds, SemaOK, SemaSet, PlaceOK, BlockPending, SeesSignal
<1>4. ASSUME NEW w \in Waiters, BlockCommit(w) PROVE OneHolds'
  BY <1>4, <1>t DEF IInv, OneHolds, SemaOK, SemaSet, PlaceOK, BlockCommit
<1>5. ASSUME NEW w \in Waiters, Resume(w) PROVE OneHolds'
  BY <1>5, <1>t DEF IInv, OneHolds, SemaOK, SemaSet, PlaceOK, Resume, WasInterrupted
<1>6. ASSUME NEW w \in Waiters, Return(w) PROVE OneHolds'
  <2>r. IsInjective(sema.blocked) /\ panic = "none" /\ w \in Waiters /\ RemoveIfListed(w)
    BY <1>6, <1>t, Aiming DEF IInv, Listed, Return
  <2>1. sema'.lock = sema.lock
    BY <2>r, <1>t, Removal
  <2> QED
    BY <2>1, <1>6, <1>t DEF IInv, OneHolds, PlaceOK, Return
<1>7. ASSUME NEW w \in Waiters, HandleSignal(w) PROVE OneHolds'
  BY <1>7, <1>t DEF IInv, OneHolds, SemaOK, SemaSet, PlaceOK, HandleSignal
<1>8. ASSUME NEW p \in Posters, Signal(p) PROVE OneHolds'
  BY <1>8, <1>t DEF IInv, OneHolds, SemaOK, SemaSet, PlaceOK, Signal, SomeoneBlocked
<1>9. ASSUME NEW p \in Posters, PostFront(p) PROVE OneHolds'
  BY <1>9, <1>t DEF IInv, OneHolds, SemaOK, SemaSet, PlaceOK, PostFront
<1>10. ASSUME NEW p \in Posters, PostRelease(p) PROVE OneHolds'
  BY <1>10, <1>t DEF IInv, OneHolds, SemaOK, SemaSet, PlaceOK, PostRelease
<1>11. ASSUME NEW k \in Killers, NEW w \in Waiters, Kill(k, w) PROVE OneHolds'
  BY <1>11, <1>t DEF IInv, OneHolds, SemaOK, SemaSet, PlaceOK, Kill
<1>12. ASSUME NEW k \in Killers, KillTest(k) PROVE OneHolds'
  BY <1>12, <1>t DEF IInv, OneHolds, SemaOK, SemaSet, PlaceOK, KillTest
<1>13. ASSUME NEW k \in Killers, KillInterrupt(k) PROVE OneHolds'
  BY <1>13, <1>t DEF IInv, OneHolds, SemaOK, SemaSet, PlaceOK, KillInterrupt
<1>14. ASSUME NEW k \in Killers, KillRelease(k) PROVE OneHolds'
  BY <1>14, <1>t DEF IInv, OneHolds, SemaOK, SemaSet, PlaceOK, KillRelease
<1>15. ASSUME NEW c \in Wakers, Detach(c) PROVE OneHolds'
  <2>r. IsInjective(sema.blocked) /\ panic = "none" /\ Aim(c) \in Waiters /\ RemoveIfListed(Aim(c))
    BY <1>15, <1>t, Aiming DEF IInv, Listed, Detach
  <2>1. sema'.lock = sema.lock
    BY <2>r, <1>t, Removal
  <2> QED
    BY <2>1, <1>15, <1>t DEF IInv, OneHolds, PlaceOK, Detach
<1>16. ASSUME NEW c \in Wakers, Wake(c) PROVE OneHolds'
  BY <1>16, <1>t DEF IInv, OneHolds, SemaOK, SemaSet, PlaceOK, Wake, Unblock
<1> QED
  BY <1>1, <1>2, <1>3, <1>4, <1>5, <1>6, <1>7, <1>8, <1>9, <1>10, <1>11, <1>12, <1>13, <1>14, <1>15, <1>16, Steps

LEMMA StepLives == IInv /\ Next => \A v \in Waiters : Lives(v)' /\ Points(v)'
<1> SUFFICES ASSUME IInv, Next PROVE \A v \in Waiters : Lives(v)' /\ Points(v)'
  OBVIOUS
<1>t. SemaOK /\ SlotOK /\ ThreadOK /\ AimOK /\ PlaceOK
  BY TypeParts DEF IInv
<1> USE ContextsAre DEF At, Goto, Call
<1>1. ASSUME NEW w \in Waiters, Wait(w) PROVE \A v \in Waiters : Lives(v)' /\ Points(v)'
  <2> SUFFICES ASSUME NEW v \in Waiters PROVE Lives(v)' /\ Points(v)'
    OBVIOUS
  <2>1. Lives(v) /\ Points(v)
    BY DEF IInv
  <2> QED
    BY <2>1, <1>1, <1>t DEF Lives, Points, SlotOK, BlockerSet, ThreadOK, ThreadSet, PlaceOK, Wait, MustBlock, NewBlocker
<1>2. ASSUME NEW w \in Waiters, Block(w) PROVE \A v \in Waiters : Lives(v)' /\ Points(v)'
  <2> SUFFICES ASSUME NEW v \in Waiters PROVE Lives(v)' /\ Points(v)'
    OBVIOUS
  <2>1. Lives(v) /\ Points(v)
    BY DEF IInv
  <2> QED
    BY <2>1, <1>2, <1>t, SMTT(60) DEF Lives, Points, SlotOK, BlockerSet, ThreadOK, ThreadSet, PlaceOK, Block
<1>3. ASSUME NEW w \in Waiters, BlockPending(w) PROVE \A v \in Waiters : Lives(v)' /\ Points(v)'
  <2> SUFFICES ASSUME NEW v \in Waiters PROVE Lives(v)' /\ Points(v)'
    OBVIOUS
  <2>1. Lives(v) /\ Points(v)
    BY DEF IInv
  <2> QED
    BY <2>1, <1>3, <1>t, SMTT(60) DEF Lives, Points, SlotOK, BlockerSet, ThreadOK, ThreadSet, PlaceOK, BlockPending, SeesSignal
<1>4. ASSUME NEW w \in Waiters, BlockCommit(w) PROVE \A v \in Waiters : Lives(v)' /\ Points(v)'
  <2> SUFFICES ASSUME NEW v \in Waiters PROVE Lives(v)' /\ Points(v)'
    OBVIOUS
  <2>1. Lives(v) /\ Points(v)
    BY DEF IInv
  <2> QED
    BY <2>1, <1>4, <1>t DEF Lives, Points, SlotOK, BlockerSet, ThreadOK, ThreadSet, PlaceOK, BlockCommit
<1>5. ASSUME NEW w \in Waiters, Resume(w) PROVE \A v \in Waiters : Lives(v)' /\ Points(v)'
  <2> SUFFICES ASSUME NEW v \in Waiters PROVE Lives(v)' /\ Points(v)'
    OBVIOUS
  <2>1. Lives(v) /\ Points(v)
    BY DEF IInv
  <2> QED
    BY <2>1, <1>5, <1>t DEF Lives, Points, SlotOK, BlockerSet, ThreadOK, ThreadSet, PlaceOK, Resume, WasInterrupted
<1>6. ASSUME NEW w \in Waiters, Return(w) PROVE \A v \in Waiters : Lives(v)' /\ Points(v)'
  <2> SUFFICES ASSUME NEW v \in Waiters PROVE Lives(v)' /\ Points(v)'
    OBVIOUS
  <2>1. Lives(v) /\ Points(v)
    BY DEF IInv
  <2> QED
    BY <2>1, <1>6, <1>t DEF Lives, Points, SlotOK, BlockerSet, ThreadOK, ThreadSet, PlaceOK, Return
<1>7. ASSUME NEW w \in Waiters, HandleSignal(w) PROVE \A v \in Waiters : Lives(v)' /\ Points(v)'
  <2> SUFFICES ASSUME NEW v \in Waiters PROVE Lives(v)' /\ Points(v)'
    OBVIOUS
  <2>1. Lives(v) /\ Points(v)
    BY DEF IInv
  <2> QED
    BY <2>1, <1>7, <1>t DEF Lives, Points, SlotOK, BlockerSet, ThreadOK, ThreadSet, PlaceOK, HandleSignal
<1>8. ASSUME NEW p \in Posters, Signal(p) PROVE \A v \in Waiters : Lives(v)' /\ Points(v)'
  <2> SUFFICES ASSUME NEW v \in Waiters PROVE Lives(v)' /\ Points(v)'
    OBVIOUS
  <2>1. Lives(v) /\ Points(v)
    BY DEF IInv
  <2> QED
    BY <2>1, <1>8, <1>t DEF Lives, Points, SlotOK, BlockerSet, ThreadOK, ThreadSet, PlaceOK, Signal, SomeoneBlocked
<1>9. ASSUME NEW p \in Posters, PostFront(p) PROVE \A v \in Waiters : Lives(v)' /\ Points(v)'
  <2> SUFFICES ASSUME NEW v \in Waiters PROVE Lives(v)' /\ Points(v)'
    OBVIOUS
  <2>a. sema.blocked # <<>> => Head(sema.blocked) \in Waiters
    BY <1>t, FrontListed DEF SemaOK, SemaSet
  <2>1. Lives(v) /\ Points(v)
    BY DEF IInv
  <2>2. thread' = thread /\ pc'[v] = pc[v]
    BY <1>9, <1>t DEF PlaceOK, PostFront
  <2>3. slot'[v].live = slot[v].live /\ slot'[v].interrupted = slot[v].interrupted
    <3>1. CASE sema.blocked = <<>>
      BY <3>1, <1>9 DEF PostFront
    <3>2. CASE ~(sema.blocked = <<>>)
      BY <3>2, <2>a, <1>9, <1>t DEF SlotOK, BlockerSet, PostFront
    <3> QED
      BY <3>1, <3>2
  <2> QED
    BY <2>1, <2>2, <2>3 DEF Lives, Points
<1>10. ASSUME NEW p \in Posters, PostRelease(p) PROVE \A v \in Waiters : Lives(v)' /\ Points(v)'
  <2> SUFFICES ASSUME NEW v \in Waiters PROVE Lives(v)' /\ Points(v)'
    OBVIOUS
  <2>a. Aim(p) \in Waiters
    BY <1>10, <1>t, Aiming
  <2>1. Lives(v) /\ Points(v)
    BY DEF IInv
  <2> QED
    BY <2>a, <2>1, <1>10, <1>t DEF Lives, Points, SlotOK, BlockerSet, ThreadOK, ThreadSet, PlaceOK, PostRelease
<1>11. ASSUME NEW k \in Killers, NEW w \in Waiters, Kill(k, w) PROVE \A v \in Waiters : Lives(v)' /\ Points(v)'
  <2> SUFFICES ASSUME NEW v \in Waiters PROVE Lives(v)' /\ Points(v)'
    OBVIOUS
  <2>1. Lives(v) /\ Points(v)
    BY DEF IInv
  <2> QED
    BY <2>1, <1>11, <1>t DEF Lives, Points, SlotOK, BlockerSet, ThreadOK, ThreadSet, PlaceOK, Kill
<1>12. ASSUME NEW k \in Killers, KillTest(k) PROVE \A v \in Waiters : Lives(v)' /\ Points(v)'
  <2> SUFFICES ASSUME NEW v \in Waiters PROVE Lives(v)' /\ Points(v)'
    OBVIOUS
  <2>1. Lives(v) /\ Points(v)
    BY DEF IInv
  <2> QED
    BY <2>1, <1>12, <1>t DEF Lives, Points, SlotOK, BlockerSet, ThreadOK, ThreadSet, PlaceOK, KillTest
<1>13. ASSUME NEW k \in Killers, KillInterrupt(k) PROVE \A v \in Waiters : Lives(v)' /\ Points(v)'
  <2> SUFFICES ASSUME NEW v \in Waiters PROVE Lives(v)' /\ Points(v)'
    OBVIOUS
  <2>a. Aim(k) \in Waiters
    BY <1>13, <1>t, Aiming
  <2>1. Lives(v) /\ Points(v)
    BY DEF IInv
  <2>2. thread' = thread /\ pc'[v] = pc[v]
    BY <1>13, <1>t DEF PlaceOK, KillInterrupt
  <2>3. slot'[v].live = slot[v].live /\ (~thread[v].blocker => slot'[v].interrupted = slot[v].interrupted)
    <3>1. CASE ~thread[Aim(k)].blocker
      BY <3>1, <1>13 DEF KillInterrupt
    <3>2. CASE ~(~thread[Aim(k)].blocker)
      BY <3>2, <2>a, <1>13, <1>t DEF SlotOK, BlockerSet, KillInterrupt
    <3> QED
      BY <3>1, <3>2
  <2> QED
    BY <2>1, <2>2, <2>3 DEF Lives, Points
<1>14. ASSUME NEW k \in Killers, KillRelease(k) PROVE \A v \in Waiters : Lives(v)' /\ Points(v)'
  <2> SUFFICES ASSUME NEW v \in Waiters PROVE Lives(v)' /\ Points(v)'
    OBVIOUS
  <2>a. Aim(k) \in Waiters
    BY <1>14, <1>t, Aiming
  <2>1. Lives(v) /\ Points(v)
    BY DEF IInv
  <2> QED
    BY <2>a, <2>1, <1>14, <1>t DEF Lives, Points, SlotOK, BlockerSet, ThreadOK, ThreadSet, PlaceOK, KillRelease
<1>15. ASSUME NEW c \in Wakers, Detach(c) PROVE \A v \in Waiters : Lives(v)' /\ Points(v)'
  <2> SUFFICES ASSUME NEW v \in Waiters PROVE Lives(v)' /\ Points(v)'
    OBVIOUS
  <2>a. Aim(c) \in Waiters
    BY <1>15, <1>t, Aiming
  <2>1. Lives(v) /\ Points(v)
    BY DEF IInv
  <2> QED
    BY <2>a, <2>1, <1>15, <1>t DEF Lives, Points, SlotOK, BlockerSet, ThreadOK, ThreadSet, PlaceOK, Detach
<1>16. ASSUME NEW c \in Wakers, Wake(c) PROVE \A v \in Waiters : Lives(v)' /\ Points(v)'
  <2> SUFFICES ASSUME NEW v \in Waiters PROVE Lives(v)' /\ Points(v)'
    OBVIOUS
  <2>a. Aim(c) \in Waiters
    BY <1>16, <1>t, Aiming
  <2>1. Lives(v) /\ Points(v)
    BY DEF IInv
  <2> QED
    BY <2>a, <2>1, <1>16, <1>t DEF Lives, Points, SlotOK, BlockerSet, ThreadOK, ThreadSet, PlaceOK, Wake, Unblock
<1> QED
  BY <1>1, <1>2, <1>3, <1>4, <1>5, <1>6, <1>7, <1>8, <1>9, <1>10, <1>11, <1>12, <1>13, <1>14, <1>15, <1>16, Steps

LEMMA StepLetGo == IInv /\ Next => \A e \in Wakers : LetGo(e)'
<1> SUFFICES ASSUME IInv, Next PROVE \A e \in Wakers : LetGo(e)'
  OBVIOUS
<1>t. SemaOK /\ SlotOK /\ ThreadOK /\ AimOK /\ PlaceOK
  BY TypeParts DEF IInv
<1> USE ContextsAre DEF At, Goto, Call
<1>1. ASSUME NEW w \in Waiters, Wait(w) PROVE \A e \in Wakers : LetGo(e)'
  <2> SUFFICES ASSUME NEW e \in Wakers PROVE LetGo(e)'
    OBVIOUS
  <2>1. LetGo(e) /\ Aim(e) \in Waiters /\ aim[e].call \in Nat /\ Lives(Aim(e)) /\ calls[Aim(e)] \in Nat
    BY <1>t, Aiming DEF IInv, PlaceOK
  <2> QED
    BY <2>1, <1>1, <1>t DEF LetGo, Lives, Aim, SlotOK, BlockerSet, AimOK, AimSet, PlaceOK, Wait, MustBlock, NewBlocker
<1>2. ASSUME NEW w \in Waiters, Block(w) PROVE \A e \in Wakers : LetGo(e)'
  <2> SUFFICES ASSUME NEW e \in Wakers PROVE LetGo(e)'
    OBVIOUS
  <2>1. LetGo(e) /\ Aim(e) \in Waiters /\ aim[e].call \in Nat /\ Lives(Aim(e)) /\ calls[Aim(e)] \in Nat
    BY <1>t, Aiming DEF IInv, PlaceOK
  <2> QED
    BY <2>1, <1>2, <1>t DEF LetGo, Lives, Aim, SlotOK, BlockerSet, AimOK, AimSet, PlaceOK, Block
<1>3. ASSUME NEW w \in Waiters, BlockPending(w) PROVE \A e \in Wakers : LetGo(e)'
  <2> SUFFICES ASSUME NEW e \in Wakers PROVE LetGo(e)'
    OBVIOUS
  <2>1. LetGo(e) /\ Aim(e) \in Waiters /\ aim[e].call \in Nat /\ Lives(Aim(e)) /\ calls[Aim(e)] \in Nat
    BY <1>t, Aiming DEF IInv, PlaceOK
  <2> QED
    BY <2>1, <1>3, <1>t DEF LetGo, Lives, Aim, SlotOK, BlockerSet, AimOK, AimSet, PlaceOK, BlockPending, SeesSignal
<1>4. ASSUME NEW w \in Waiters, BlockCommit(w) PROVE \A e \in Wakers : LetGo(e)'
  <2> SUFFICES ASSUME NEW e \in Wakers PROVE LetGo(e)'
    OBVIOUS
  <2>1. LetGo(e) /\ Aim(e) \in Waiters /\ aim[e].call \in Nat /\ Lives(Aim(e)) /\ calls[Aim(e)] \in Nat
    BY <1>t, Aiming DEF IInv, PlaceOK
  <2> QED
    BY <2>1, <1>4, <1>t DEF LetGo, Lives, Aim, SlotOK, BlockerSet, AimOK, AimSet, PlaceOK, BlockCommit
<1>5. ASSUME NEW w \in Waiters, Resume(w) PROVE \A e \in Wakers : LetGo(e)'
  <2> SUFFICES ASSUME NEW e \in Wakers PROVE LetGo(e)'
    OBVIOUS
  <2>1. LetGo(e) /\ Aim(e) \in Waiters /\ aim[e].call \in Nat /\ Lives(Aim(e)) /\ calls[Aim(e)] \in Nat
    BY <1>t, Aiming DEF IInv, PlaceOK
  <2> QED
    BY <2>1, <1>5, <1>t DEF LetGo, Lives, Aim, SlotOK, BlockerSet, AimOK, AimSet, PlaceOK, Resume, WasInterrupted
<1>6. ASSUME NEW w \in Waiters, Return(w) PROVE \A e \in Wakers : LetGo(e)'
  <2> SUFFICES ASSUME NEW e \in Wakers PROVE LetGo(e)'
    OBVIOUS
  <2>1. LetGo(e) /\ Aim(e) \in Waiters /\ aim[e].call \in Nat /\ Lives(Aim(e)) /\ calls[Aim(e)] \in Nat
    BY <1>t, Aiming DEF IInv, PlaceOK
  <2> QED
    BY <2>1, <1>6, <1>t DEF LetGo, Lives, Aim, SlotOK, BlockerSet, AimOK, AimSet, PlaceOK, Return
<1>7. ASSUME NEW w \in Waiters, HandleSignal(w) PROVE \A e \in Wakers : LetGo(e)'
  <2> SUFFICES ASSUME NEW e \in Wakers PROVE LetGo(e)'
    OBVIOUS
  <2>1. LetGo(e) /\ Aim(e) \in Waiters /\ aim[e].call \in Nat /\ Lives(Aim(e)) /\ calls[Aim(e)] \in Nat
    BY <1>t, Aiming DEF IInv, PlaceOK
  <2> QED
    BY <2>1, <1>7, <1>t DEF LetGo, Lives, Aim, SlotOK, BlockerSet, AimOK, AimSet, PlaceOK, HandleSignal
<1>8. ASSUME NEW p \in Posters, Signal(p) PROVE \A e \in Wakers : LetGo(e)'
  <2> SUFFICES ASSUME NEW e \in Wakers PROVE LetGo(e)'
    OBVIOUS
  <2>1. LetGo(e) /\ Aim(e) \in Waiters /\ aim[e].call \in Nat /\ Lives(Aim(e)) /\ calls[Aim(e)] \in Nat
    BY <1>t, Aiming DEF IInv, PlaceOK
  <2> QED
    BY <2>1, <1>8, <1>t DEF LetGo, Lives, Aim, SlotOK, BlockerSet, AimOK, AimSet, PlaceOK, Signal, SomeoneBlocked
<1>9. ASSUME NEW p \in Posters, PostFront(p) PROVE \A e \in Wakers : LetGo(e)'
  <2> SUFFICES ASSUME NEW e \in Wakers PROVE LetGo(e)'
    OBVIOUS
  <2>a. sema.blocked # <<>> => Head(sema.blocked) \in Waiters
    BY <1>t, FrontListed DEF SemaOK, SemaSet
  <2>1. LetGo(e) /\ Aim(e) \in Waiters /\ aim[e].call \in Nat /\ Lives(Aim(e)) /\ calls[Aim(e)] \in Nat
    BY <1>t, Aiming DEF IInv, PlaceOK
  <2>2. calls' = calls
    BY <1>9 DEF PostFront
  <2>3. CASE sema.blocked = <<>>
    <3>1. aim' = aim /\ slot' = slot /\ pc' = pc
      BY <2>3, <1>9 DEF PostFront
    <3> QED
      BY <3>1, <2>1, <2>2 DEF LetGo, Aim
  <2>4. CASE sema.blocked # <<>>
    <3> DEFINE h == Head(sema.blocked)
    <3>1. /\ aim' = [aim EXCEPT ![p] = [waiter |-> h, call |-> calls[h]]]
          /\ slot' = [slot EXCEPT ![h].shouldBlock = FALSE] /\ pc' = [pc EXCEPT ![p] = "detach"]
      BY <2>4, <1>9 DEF PostFront
    <3>2. h \in Waiters /\ calls[h] \in Nat
      BY <2>a, <2>4, <1>t DEF PlaceOK
    <3> HIDE DEF h
    <3>3. /\ ~slot'[h].shouldBlock
          /\ \A v \in Waiters : slot'[v].live = slot[v].live /\ (~slot[v].shouldBlock => ~slot'[v].shouldBlock)
      BY <3>1, <3>2, <1>t DEF SlotOK, BlockerSet
    <3>4. CASE e = p
      <4>1. aim'[e].waiter = h /\ aim'[e].call = calls[h]
        BY <3>1, <3>4, <1>t DEF AimOK
      <4> QED
        BY <4>1, <2>2, <3>2, <3>3 DEF LetGo, Aim
    <3>5. CASE e # p
      <4>1. aim'[e] = aim[e] /\ pc'[e] = pc[e]
        BY <3>1, <3>5, <1>t DEF AimOK, PlaceOK
      <4> QED
        BY <4>1, <2>1, <2>2, <3>3 DEF LetGo, Aim
    <3> QED
      BY <3>4, <3>5
  <2> QED
    BY <2>3, <2>4
<1>10. ASSUME NEW p \in Posters, PostRelease(p) PROVE \A e \in Wakers : LetGo(e)'
  <2> SUFFICES ASSUME NEW e \in Wakers PROVE LetGo(e)'
    OBVIOUS
  <2>a. Aim(p) \in Waiters
    BY <1>10, <1>t, Aiming
  <2>1. LetGo(e) /\ Aim(e) \in Waiters /\ aim[e].call \in Nat /\ Lives(Aim(e)) /\ calls[Aim(e)] \in Nat
    BY <1>t, Aiming DEF IInv, PlaceOK
  <2> QED
    BY <2>a, <2>1, <1>10, <1>t DEF LetGo, Lives, Aim, SlotOK, BlockerSet, AimOK, AimSet, PlaceOK, PostRelease
<1>11. ASSUME NEW k \in Killers, NEW w \in Waiters, Kill(k, w) PROVE \A e \in Wakers : LetGo(e)'
  <2> SUFFICES ASSUME NEW e \in Wakers PROVE LetGo(e)'
    OBVIOUS
  <2>1. LetGo(e) /\ Aim(e) \in Waiters /\ aim[e].call \in Nat /\ Lives(Aim(e)) /\ calls[Aim(e)] \in Nat
    BY <1>t, Aiming DEF IInv, PlaceOK
  <2> QED
    BY <2>1, <1>11, <1>t DEF LetGo, Lives, Aim, SlotOK, BlockerSet, AimOK, AimSet, PlaceOK, Kill
<1>12. ASSUME NEW k \in Killers, KillTest(k) PROVE \A e \in Wakers : LetGo(e)'
  <2> SUFFICES ASSUME NEW e \in Wakers PROVE LetGo(e)'
    OBVIOUS
  <2>1. LetGo(e) /\ Aim(e) \in Waiters /\ aim[e].call \in Nat /\ Lives(Aim(e)) /\ calls[Aim(e)] \in Nat
    BY <1>t, Aiming DEF IInv, PlaceOK
  <2> QED
    BY <2>1, <1>12, <1>t DEF LetGo, Lives, Aim, SlotOK, BlockerSet, AimOK, AimSet, PlaceOK, KillTest
<1>13. ASSUME NEW k \in Killers, KillInterrupt(k) PROVE \A e \in Wakers : LetGo(e)'
  <2> SUFFICES ASSUME NEW e \in Wakers PROVE LetGo(e)'
    OBVIOUS
  <2>a. Aim(k) \in Waiters
    BY <1>13, <1>t, Aiming
  <2>1. LetGo(e) /\ Aim(e) \in Waiters /\ aim[e].call \in Nat /\ Lives(Aim(e)) /\ calls[Aim(e)] \in Nat
    BY <1>t, Aiming DEF IInv, PlaceOK
  <2> QED
    BY <2>a, <2>1, <1>13, <1>t DEF LetGo, Lives, Aim, SlotOK, BlockerSet, AimOK, AimSet, PlaceOK, KillInterrupt
<1>14. ASSUME NEW k \in Killers, KillRelease(k) PROVE \A e \in Wakers : LetGo(e)'
  <2> SUFFICES ASSUME NEW e \in Wakers PROVE LetGo(e)'
    OBVIOUS
  <2>a. Aim(k) \in Waiters
    BY <1>14, <1>t, Aiming
  <2>1. LetGo(e) /\ Aim(e) \in Waiters /\ aim[e].call \in Nat /\ Lives(Aim(e)) /\ calls[Aim(e)] \in Nat
    BY <1>t, Aiming DEF IInv, PlaceOK
  <2> QED
    BY <2>a, <2>1, <1>14, <1>t DEF LetGo, Lives, Aim, SlotOK, BlockerSet, AimOK, AimSet, PlaceOK, KillRelease
<1>15. ASSUME NEW c \in Wakers, Detach(c) PROVE \A e \in Wakers : LetGo(e)'
  <2> SUFFICES ASSUME NEW e \in Wakers PROVE LetGo(e)'
    OBVIOUS
  <2>a. Aim(c) \in Waiters
    BY <1>15, <1>t, Aiming
  <2>1. LetGo(e) /\ Aim(e) \in Waiters /\ aim[e].call \in Nat /\ Lives(Aim(e)) /\ calls[Aim(e)] \in Nat
    BY <1>t, Aiming DEF IInv, PlaceOK
  <2> QED
    BY <2>a, <2>1, <1>15, <1>t DEF LetGo, Lives, Aim, SlotOK, BlockerSet, AimOK, AimSet, PlaceOK, Detach
<1>16. ASSUME NEW c \in Wakers, Wake(c) PROVE \A e \in Wakers : LetGo(e)'
  <2> SUFFICES ASSUME NEW e \in Wakers PROVE LetGo(e)'
    OBVIOUS
  <2>a. Aim(c) \in Waiters
    BY <1>16, <1>t, Aiming
  <2>1. LetGo(e) /\ Aim(e) \in Waiters /\ aim[e].call \in Nat /\ Lives(Aim(e)) /\ calls[Aim(e)] \in Nat
    BY <1>t, Aiming DEF IInv, PlaceOK
  <2> QED
    BY <2>a, <2>1, <1>16, <1>t DEF LetGo, Lives, Aim, SlotOK, BlockerSet, AimOK, AimSet, PlaceOK, Wake, Unblock
<1> QED
  BY <1>1, <1>2, <1>3, <1>4, <1>5, <1>6, <1>7, <1>8, <1>9, <1>10, <1>11, <1>12, <1>13, <1>14, <1>15, <1>16, Steps

LEMMA Members == ASSUME NEW q \in Seq(Waiters) PROVE \A v \in ToSet(q) : v \in Waiters
BY Elements

LEMMA StepListed == IInv /\ Next /\ panic' = "none" => Listed'
<1> SUFFICES ASSUME IInv, Next, panic' = "none" PROVE Listed'
  OBVIOUS
<1>t. SemaOK /\ SlotOK /\ ThreadOK /\ AimOK /\ PlaceOK
  BY TypeParts DEF IInv
<1> USE ContextsAre DEF At, Goto, Call
<1>1. ASSUME NEW w \in Waiters, Wait(w) PROVE Listed'
  <2>p. Listed
    BY <1>1 DEF IInv, Wait, MustBlock
  <2>1. w \notin ToSet(sema.blocked)
    BY <2>p, <1>1, <1>t DEF IInv, Listed, Lives, Wait
  <2>2. CASE MustBlock(sema.value - 1)
    <3>1. sema'.blocked = Append(sema.blocked, w) /\ slot' = [slot EXCEPT ![w] = NewBlocker]
      BY <2>2, <1>1, <1>t DEF Wait, SemaOK, SemaSet
    <3>2. IsInjective(sema'.blocked) /\ \A v : v \in ToSet(sema'.blocked) <=> v \in ToSet(sema.blocked) \/ v = w
      BY <3>1, <2>1, <2>p, <1>t, AppendFresh DEF SemaOK, SemaSet, Listed
    <3>3. \A v \in Waiters : IF v = w THEN slot'[v].semaphore /\ slot'[v].live ELSE slot'[v] = slot[v]
      BY <3>1, <1>1, <1>t DEF SlotOK, NewBlocker
    <3> QED
      BY <3>2, <3>3, <2>p, <1>1, <1>t, Members DEF Listed, SemaOK, SemaSet
  <2>3. CASE ~MustBlock(sema.value - 1)
    <3>1. sema'.blocked = sema.blocked /\ slot' = slot
      BY <2>3, <1>1, <1>t DEF Wait, SemaOK, SemaSet
    <3> QED
      BY <3>1, <2>p DEF Listed
  <2> QED
    BY <2>2, <2>3
<1>2. ASSUME NEW w \in Waiters, Block(w) PROVE Listed'
  <2>p. Listed
    BY <1>2 DEF IInv, Block
  <2>1. sema'.blocked = sema.blocked
    BY <1>2, <1>t DEF SemaOK, SemaSet, Block
  <2>2. \A v \in Waiters : slot'[v].semaphore = slot[v].semaphore /\ slot'[v].live = slot[v].live
    BY <1>2, <1>t DEF SlotOK, BlockerSet, Block
  <2> QED
    BY <2>1, <2>2, <2>p, <1>t, Members DEF Listed, SemaOK, SemaSet
<1>3. ASSUME NEW w \in Waiters, BlockPending(w) PROVE Listed'
  <2>p. Listed
    BY <1>3 DEF IInv, BlockPending, SeesSignal
  <2>1. sema'.blocked = sema.blocked
    BY <1>3, <1>t DEF SemaOK, SemaSet, BlockPending, SeesSignal
  <2>2. \A v \in Waiters : slot'[v].semaphore = slot[v].semaphore /\ slot'[v].live = slot[v].live
    BY <1>3, <1>t DEF SlotOK, BlockerSet, BlockPending, SeesSignal
  <2> QED
    BY <2>1, <2>2, <2>p, <1>t, Members DEF Listed, SemaOK, SemaSet
<1>4. ASSUME NEW w \in Waiters, BlockCommit(w) PROVE Listed'
  <2>p. Listed
    BY <1>4 DEF IInv, BlockCommit
  <2>1. sema'.blocked = sema.blocked
    BY <1>4, <1>t DEF SemaOK, SemaSet, BlockCommit
  <2>2. \A v \in Waiters : slot'[v].semaphore = slot[v].semaphore /\ slot'[v].live = slot[v].live
    BY <1>4, <1>t DEF SlotOK, BlockerSet, BlockCommit
  <2> QED
    BY <2>1, <2>2, <2>p, <1>t, Members DEF Listed, SemaOK, SemaSet
<1>5. ASSUME NEW w \in Waiters, Resume(w) PROVE Listed'
  <2>p. Listed
    BY <1>5 DEF IInv, Resume, WasInterrupted
  <2>1. sema'.blocked = sema.blocked
    BY <1>5, <1>t DEF SemaOK, SemaSet, Resume, WasInterrupted
  <2>2. \A v \in Waiters : slot'[v].semaphore = slot[v].semaphore /\ slot'[v].live = slot[v].live
    BY <1>5, <1>t DEF SlotOK, BlockerSet, Resume, WasInterrupted
  <2> QED
    BY <2>1, <2>2, <2>p, <1>t, Members DEF Listed, SemaOK, SemaSet
<1>6. ASSUME NEW w \in Waiters, Return(w) PROVE Listed'
  <2>p. Listed
    BY <1>6 DEF IInv, Return
  <2>r. IsInjective(sema.blocked) /\ panic = "none" /\ w \in Waiters /\ RemoveIfListed(w)
    BY <1>6, <1>t, Aiming DEF IInv, Listed, Return
  <2>1. IsInjective(sema'.blocked) /\ ToSet(sema'.blocked) \subseteq ToSet(sema.blocked) \ {w}
    BY <2>r, <2>p, <1>t, Removal DEF Listed
  <2>2. \A v \in Waiters : v # w => slot'[v] = slot[v]
    BY <2>r, <1>6, <1>t DEF SlotOK, Return
  <2> QED
    BY <2>1, <2>2, <2>p, <1>t, Members DEF Listed, SemaOK, SemaSet
<1>7. ASSUME NEW w \in Waiters, HandleSignal(w) PROVE Listed'
  <2>p. Listed
    BY <1>7 DEF IInv, HandleSignal
  <2>1. sema'.blocked = sema.blocked
    BY <1>7, <1>t DEF SemaOK, SemaSet, HandleSignal
  <2>2. \A v \in Waiters : slot'[v].semaphore = slot[v].semaphore /\ slot'[v].live = slot[v].live
    BY <1>7, <1>t DEF SlotOK, BlockerSet, HandleSignal
  <2> QED
    BY <2>1, <2>2, <2>p, <1>t, Members DEF Listed, SemaOK, SemaSet
<1>8. ASSUME NEW p \in Posters, Signal(p) PROVE Listed'
  <2>p. Listed
    BY <1>8 DEF IInv, Signal, SomeoneBlocked
  <2>1. sema'.blocked = sema.blocked
    BY <1>8, <1>t DEF SemaOK, SemaSet, Signal, SomeoneBlocked
  <2>2. \A v \in Waiters : slot'[v].semaphore = slot[v].semaphore /\ slot'[v].live = slot[v].live
    BY <1>8, <1>t DEF SlotOK, BlockerSet, Signal, SomeoneBlocked
  <2> QED
    BY <2>1, <2>2, <2>p, <1>t, Members DEF Listed, SemaOK, SemaSet
<1>9. ASSUME NEW p \in Posters, PostFront(p) PROVE Listed'
  <2>p. Listed
    BY <1>9 DEF IInv, PostFront
  <2>a. sema.blocked # <<>> => Head(sema.blocked) \in Waiters /\ Head(sema.blocked) \in ToSet(sema.blocked)
    BY <1>t, FrontListed DEF SemaOK, SemaSet
  <2>1. sema'.blocked = sema.blocked
    BY <1>9, <1>t DEF SemaOK, SemaSet, PostFront
  <2>2. \A v \in Waiters : slot'[v].semaphore = slot[v].semaphore /\ slot'[v].live = slot[v].live
    BY <2>a, <1>9, <1>t DEF SlotOK, BlockerSet, PostFront
  <2> QED
    BY <2>1, <2>2, <2>p, <1>t, Members DEF Listed, SemaOK, SemaSet
<1>10. ASSUME NEW p \in Posters, PostRelease(p) PROVE Listed'
  <2>p. Listed
    BY <1>10 DEF IInv, PostRelease
  <2>a. Aim(p) \in Waiters
    BY <1>10, <1>t, Aiming
  <2>1. sema'.blocked = sema.blocked
    BY <1>10, <1>t DEF SemaOK, SemaSet, PostRelease
  <2>2. \A v \in Waiters : slot'[v].semaphore = slot[v].semaphore /\ slot'[v].live = slot[v].live
    BY <2>a, <1>10, <1>t DEF SlotOK, BlockerSet, PostRelease
  <2> QED
    BY <2>1, <2>2, <2>p, <1>t, Members DEF Listed, SemaOK, SemaSet
<1>11. ASSUME NEW k \in Killers, NEW w \in Waiters, Kill(k, w) PROVE Listed'
  <2>p. Listed
    BY <1>11 DEF IInv, Kill
  <2>1. sema'.blocked = sema.blocked
    BY <1>11, <1>t DEF SemaOK, SemaSet, Kill
  <2>2. \A v \in Waiters : slot'[v].semaphore = slot[v].semaphore /\ slot'[v].live = slot[v].live
    BY <1>11, <1>t DEF SlotOK, BlockerSet, Kill
  <2> QED
    BY <2>1, <2>2, <2>p, <1>t, Members DEF Listed, SemaOK, SemaSet
<1>12. ASSUME NEW k \in Killers, KillTest(k) PROVE Listed'
  <2>p. Listed
    BY <1>12 DEF IInv, KillTest
  <2>1. sema'.blocked = sema.blocked
    BY <1>12, <1>t DEF SemaOK, SemaSet, KillTest
  <2>2. \A v \in Waiters : slot'[v].semaphore = slot[v].semaphore /\ slot'[v].live = slot[v].live
    BY <1>12, <1>t DEF SlotOK, BlockerSet, KillTest
  <2> QED
    BY <2>1, <2>2, <2>p, <1>t, Members DEF Listed, SemaOK, SemaSet
<1>13. ASSUME NEW k \in Killers, KillInterrupt(k) PROVE Listed'
  <2>p. Listed
    BY <1>13 DEF IInv, KillInterrupt
  <2>a. Aim(k) \in Waiters
    BY <1>13, <1>t, Aiming
  <2>1. sema'.blocked = sema.blocked
    BY <1>13, <1>t DEF SemaOK, SemaSet, KillInterrupt
  <2>2. \A v \in Waiters : slot'[v].semaphore = slot[v].semaphore /\ slot'[v].live = slot[v].live
    BY <2>a, <1>13, <1>t DEF SlotOK, BlockerSet, KillInterrupt
  <2> QED
    BY <2>1, <2>2, <2>p, <1>t, Members DEF Listed, SemaOK, SemaSet
<1>14. ASSUME NEW k \in Killers, KillRelease(k) PROVE Listed'
  <2>p. Listed
    BY <1>14 DEF IInv, KillRelease
  <2>a. Aim(k) \in Waiters
    BY <1>14, <1>t, Aiming
  <2>1. sema'.blocked = sema.blocked
    BY <1>14, <1>t DEF SemaOK, SemaSet, KillRelease
  <2>2. \A v \in Waiters : slot'[v].semaphore = slot[v].semaphore /\ slot'[v].live = slot[v].live
    BY <2>a, <1>14, <1>t DEF SlotOK, BlockerSet, KillRelease
  <2> QED
    BY <2>1, <2>2, <2>p, <1>t, Members DEF Listed, SemaOK, SemaSet
<1>15. ASSUME NEW c \in Wakers, Detach(c) PROVE Listed'
  <2>p. Listed
    BY <1>15 DEF IInv, Detach
  <2>r. IsInjective(sema.blocked) /\ panic = "none" /\ Aim(c) \in Waiters /\ RemoveIfListed(Aim(c))
    BY <1>15, <1>t, Aiming DEF IInv, Listed, Detach
  <2>1. IsInjective(sema'.blocked) /\ ToSet(sema'.blocked) \subseteq ToSet(sema.blocked) \ {Aim(c)}
    BY <2>r, <2>p, <1>t, Removal DEF Listed
  <2>2. \A v \in Waiters : v # Aim(c) => slot'[v] = slot[v]
    BY <2>r, <1>15, <1>t DEF SlotOK, Detach
  <2> QED
    BY <2>1, <2>2, <2>p, <1>t, Members DEF Listed, SemaOK, SemaSet
<1>16. ASSUME NEW c \in Wakers, Wake(c) PROVE Listed'
  <2>p. Listed
    BY <1>16 DEF IInv, Wake, Unblock
  <2>a. Aim(c) \in Waiters
    BY <1>16, <1>t, Aiming
  <2>1. sema'.blocked = sema.blocked
    BY <1>16, <1>t DEF SemaOK, SemaSet, Wake, Unblock
  <2>2. \A v \in Waiters : slot'[v].semaphore = slot[v].semaphore /\ slot'[v].live = slot[v].live
    BY <2>a, <1>16, <1>t DEF SlotOK, BlockerSet, Wake, Unblock
  <2> QED
    BY <2>1, <2>2, <2>p, <1>t, Members DEF Listed, SemaOK, SemaSet
<1> QED
  BY <1>1, <1>2, <1>3, <1>4, <1>5, <1>6, <1>7, <1>8, <1>9, <1>10, <1>11, <1>12, <1>13, <1>14, <1>15, <1>16, Steps

(* The two ways of Wait, by the value.                                     *)
LEMMA WaitNumbers ==
  ASSUME SemaOK, PlaceOK, NEW w \in Waiters, Wait(w)
  PROVE  /\ sema'.value = sema.value - 1
         /\ IF sema.value - 1 < 0
            THEN /\ sema'.num = sema.num + 1 /\ permits' = permits
                 /\ sema'.blocked = Append(sema.blocked, w) /\ slot' = [slot EXCEPT ![w] = NewBlocker]
                 /\ pc' = [pc EXCEPT ![w] = "block"]
            ELSE /\ sema'.num = sema.num
                 /\ permits'.taken = permits.taken + 1 /\ permits'.given = permits.given
                 /\ sema'.blocked = sema.blocked /\ slot' = slot /\ pc' = pc
<1>1. CASE sema.value - 1 < 0
  <2>1. sema' = [sema EXCEPT !.value = sema.value - 1, !.blocked = Append(sema.blocked, w), !.num = sema.num + 1]
    BY <1>1 DEF Wait, MustBlock
  <2> QED
    BY <1>1, <2>1 DEF Wait, MustBlock, SemaOK, SemaSet, Goto
<1>2. CASE ~(sema.value - 1 < 0)
  <2>1. /\ sema' = [sema EXCEPT !.value = sema.value - 1]
        /\ permits' = [permits EXCEPT !.taken = permits.taken + 1] /\ UNCHANGED <<slot, pc>>
    BY <1>2 DEF Wait, MustBlock
  <2> QED
    BY <1>2, <2>1 DEF SemaOK, SemaSet, PlaceOK
<1> QED
  BY <1>1, <1>2

LEMMA Numbers == ASSUME SemaOK PROVE sema.value \in Int /\ sema.num \in Nat
BY DEF SemaOK, SemaSet

(* No poster is at work while the lock is free, and no other than the one  *)
(* that holds it.                                                          *)
LEMMA NobodyPosts == ASSUME OneHolds, ~sema.lock PROVE \A p \in Posters : pc[p] = "idle"
BY DEF OneHolds

LEMMA StepCounted == IInv /\ Next /\ panic' = "none" => Counted'
<1> SUFFICES ASSUME IInv, Next, panic' = "none" PROVE Counted'
  OBVIOUS
<1>t. SemaOK /\ SlotOK /\ ThreadOK /\ AimOK /\ PlaceOK
  BY TypeParts DEF IInv
<1> USE ContextsAre DEF At, Goto, Call
<1>1. ASSUME NEW w \in Waiters, Wait(w) PROVE Counted'
  <2>p. Listed /\ Counted /\ sema.value \in Int /\ sema.num \in Nat
    BY <1>1, <1>t, Numbers DEF IInv, Wait, MustBlock
  <2>1. ~\E q \in Posters : ToTake(q)
    BY <1>1, NobodyPosts DEF IInv, Wait, ToTake
  <2>2. \/ sema'.value = sema.value - 1 /\ sema'.num = sema.num + 1 /\ sema.value - 1 < 0
        \/ sema'.value = sema.value - 1 /\ sema'.num = sema.num /\ sema.value - 1 >= 0
    BY <2>p, <1>1, <1>t, WaitNumbers
  <2> QED
    BY <2>p, <2>1, <2>2 DEF Counted, Waits
<1>2. ASSUME NEW w \in Waiters, Block(w) PROVE Counted'
  <2>p. Listed /\ Counted /\ sema.value \in Int /\ sema.num \in Nat
    BY <1>2, <1>t, Numbers DEF IInv, Block
  <2>1. sema'.value = sema.value /\ sema'.num \in Int /\ sema'.num <= sema.num
    BY <2>p, <1>2, <1>t DEF SemaOK, SemaSet, Block
  <2>2. \A x \in Waiters : slot'[x].semaphore = slot[x].semaphore
    BY <1>2, <1>t DEF SlotOK, BlockerSet, Block
  <2>3. \A q \in Posters : Aim(q)' = Aim(q) /\ (ToTake(q)' <=> ToTake(q))
    BY <2>2, <1>2, <1>t, Aiming DEF ToTake, Aim, AimOK, PlaceOK, Block
  <2> QED
    BY <2>p, <2>1, <2>3 DEF Counted, Waits
<1>3. ASSUME NEW w \in Waiters, BlockPending(w) PROVE Counted'
  <2>p. Listed /\ Counted /\ sema.value \in Int /\ sema.num \in Nat
    BY <1>3, <1>t, Numbers DEF IInv, BlockPending, SeesSignal
  <2>1. sema'.value = sema.value /\ sema'.num \in Int /\ sema'.num <= sema.num
    BY <2>p, <1>3, <1>t DEF SemaOK, SemaSet, BlockPending, SeesSignal
  <2>2. \A x \in Waiters : slot'[x].semaphore = slot[x].semaphore
    BY <1>3, <1>t DEF SlotOK, BlockerSet, BlockPending, SeesSignal
  <2>3. \A q \in Posters : Aim(q)' = Aim(q) /\ (ToTake(q)' <=> ToTake(q))
    BY <2>2, <1>3, <1>t, Aiming DEF ToTake, Aim, AimOK, PlaceOK, BlockPending, SeesSignal
  <2> QED
    BY <2>p, <2>1, <2>3 DEF Counted, Waits
<1>4. ASSUME NEW w \in Waiters, BlockCommit(w) PROVE Counted'
  <2>p. Listed /\ Counted /\ sema.value \in Int /\ sema.num \in Nat
    BY <1>4, <1>t, Numbers DEF IInv, BlockCommit
  <2>1. sema'.value = sema.value /\ sema'.num \in Int /\ sema'.num <= sema.num
    BY <2>p, <1>4, <1>t DEF SemaOK, SemaSet, BlockCommit
  <2>2. \A x \in Waiters : slot'[x].semaphore = slot[x].semaphore
    BY <1>4, <1>t DEF SlotOK, BlockerSet, BlockCommit
  <2>3. \A q \in Posters : Aim(q)' = Aim(q) /\ (ToTake(q)' <=> ToTake(q))
    BY <2>2, <1>4, <1>t, Aiming DEF ToTake, Aim, AimOK, PlaceOK, BlockCommit
  <2> QED
    BY <2>p, <2>1, <2>3 DEF Counted, Waits
<1>5. ASSUME NEW w \in Waiters, Resume(w) PROVE Counted'
  <2>p. Listed /\ Counted /\ sema.value \in Int /\ sema.num \in Nat
    BY <1>5, <1>t, Numbers DEF IInv, Resume, WasInterrupted
  <2>1. sema'.value = sema.value /\ sema'.num \in Int /\ sema'.num <= sema.num
    BY <2>p, <1>5, <1>t DEF SemaOK, SemaSet, Resume, WasInterrupted
  <2>2. \A x \in Waiters : slot'[x].semaphore = slot[x].semaphore
    BY <1>5, <1>t DEF SlotOK, BlockerSet, Resume, WasInterrupted
  <2>3. \A q \in Posters : Aim(q)' = Aim(q) /\ (ToTake(q)' <=> ToTake(q))
    BY <2>2, <1>5, <1>t, Aiming DEF ToTake, Aim, AimOK, PlaceOK, Resume, WasInterrupted
  <2> QED
    BY <2>p, <2>1, <2>3 DEF Counted, Waits
<1>6. ASSUME NEW w \in Waiters, Return(w) PROVE Counted'
  <2>p. Listed /\ Counted /\ sema.value \in Int /\ sema.num \in Nat
    BY <1>6, <1>t, Numbers DEF IInv, Return
  <2>r. IsInjective(sema.blocked) /\ panic = "none" /\ w \in Waiters /\ RemoveIfListed(w)
    BY <1>6, <1>t, Aiming DEF IInv, Listed, Return
  <2>1. sema'.value = sema.value /\ sema'.num \in Int /\ sema'.num <= sema.num
    BY <2>r, <2>p, <1>t, Removal DEF SemaOK, SemaSet
  <2>2. \A x \in Waiters : slot'[x].semaphore = slot[x].semaphore
    BY <2>r, <1>6, <1>t DEF SlotOK, BlockerSet, Return
  <2>3. \A q \in Posters : Aim(q)' = Aim(q) /\ (ToTake(q)' <=> ToTake(q))
    BY <2>2, <2>r, <1>6, <1>t, Aiming DEF ToTake, Aim, AimOK, PlaceOK, Return
  <2> QED
    BY <2>p, <2>1, <2>3 DEF Counted, Waits
<1>7. ASSUME NEW w \in Waiters, HandleSignal(w) PROVE Counted'
  <2>p. Listed /\ Counted /\ sema.value \in Int /\ sema.num \in Nat
    BY <1>7, <1>t, Numbers DEF IInv, HandleSignal
  <2>1. sema'.value = sema.value /\ sema'.num \in Int /\ sema'.num <= sema.num
    BY <2>p, <1>7, <1>t DEF SemaOK, SemaSet, HandleSignal
  <2>2. \A x \in Waiters : slot'[x].semaphore = slot[x].semaphore
    BY <1>7, <1>t DEF SlotOK, BlockerSet, HandleSignal
  <2>3. \A q \in Posters : Aim(q)' = Aim(q) /\ (ToTake(q)' <=> ToTake(q))
    BY <2>2, <1>7, <1>t, Aiming DEF ToTake, Aim, AimOK, PlaceOK, HandleSignal
  <2> QED
    BY <2>p, <2>1, <2>3 DEF Counted, Waits
<1>8. ASSUME NEW p \in Posters, Signal(p) PROVE Counted'
  <2>p. Listed /\ Counted /\ sema.value \in Int /\ sema.num \in Nat
    BY <1>8, <1>t, Numbers DEF IInv, Signal, SomeoneBlocked
  <2>1. ~\E q \in Posters : ToTake(q)
    BY <1>8, NobodyPosts DEF IInv, Signal, ToTake
  <2>2. sema'.value = sema.value + 1 /\ sema'.num = sema.num
    BY <1>8, <1>t DEF Signal, SemaOK, SemaSet
  <2>3. sema.num > 0 => ToTake(p)'
    BY <1>8, <1>t DEF Signal, SomeoneBlocked, ToTake, PlaceOK
  <2> QED
    BY <2>p, <2>1, <2>2, <2>3 DEF Counted, Waits
<1>9. ASSUME NEW p \in Posters, PostFront(p) PROVE Counted'
  <2>p. Listed /\ Counted /\ sema.value \in Int /\ sema.num \in Nat
    BY <1>9, <1>t, Numbers DEF IInv, PostFront
  <2>a. sema.blocked # <<>> => Head(sema.blocked) \in Waiters /\ Head(sema.blocked) \in ToSet(sema.blocked)
    BY <1>t, FrontListed DEF SemaOK, SemaSet
  <2>1. sema' = sema /\ ToTake(p)
    BY <1>9 DEF PostFront, ToTake
  <2>2. ToTake(p)'
    <3>1. sema.blocked # <<>>
      BY <1>9 DEF PostFront
    <3> DEFINE h == Head(sema.blocked)
    <3>2. /\ aim' = [aim EXCEPT ![p] = [waiter |-> h, call |-> calls[h]]]
          /\ slot' = [slot EXCEPT ![h].shouldBlock = FALSE] /\ pc' = [pc EXCEPT ![p] = "detach"]
      BY <3>1, <1>9 DEF PostFront
    <3>3. h \in Waiters /\ slot[h].semaphore
      BY <2>a, <2>p, <3>1 DEF Listed
    <3> HIDE DEF h
    <3>4. aim'[p].waiter = h /\ slot'[h].semaphore /\ pc'[p] = "detach"
      BY <3>2, <3>3, <1>t DEF SlotOK, BlockerSet, AimOK, PlaceOK
    <3> QED
      BY <3>4 DEF ToTake, Aim
  <2> QED
    BY <2>p, <2>1, <2>2 DEF Counted, Waits
<1>10. ASSUME NEW p \in Posters, PostRelease(p) PROVE Counted'
  <2>p. Listed /\ Counted /\ sema.value \in Int /\ sema.num \in Nat
    BY <1>10, <1>t, Numbers DEF IInv, PostRelease
  <2>a. Aim(p) \in Waiters
    BY <1>10, <1>t, Aiming
  <2>1. sema'.value = sema.value /\ sema'.num \in Int /\ sema'.num <= sema.num
    BY <2>p, <1>10, <1>t DEF SemaOK, SemaSet, PostRelease
  <2>2. \A x \in Waiters : slot'[x].semaphore = slot[x].semaphore
    BY <2>a, <1>10, <1>t DEF SlotOK, BlockerSet, PostRelease
  <2>3. \A q \in Posters : Aim(q)' = Aim(q) /\ (ToTake(q)' <=> ToTake(q))
    BY <2>2, <2>a, <1>10, <1>t, Aiming DEF ToTake, Aim, AimOK, PlaceOK, PostRelease
  <2> QED
    BY <2>p, <2>1, <2>3 DEF Counted, Waits
<1>11. ASSUME NEW k \in Killers, NEW w \in Waiters, Kill(k, w) PROVE Counted'
  <2>p. Listed /\ Counted /\ sema.value \in Int /\ sema.num \in Nat
    BY <1>11, <1>t, Numbers DEF IInv, Kill
  <2>1. sema'.value = sema.value /\ sema'.num \in Int /\ sema'.num <= sema.num
    BY <2>p, <1>11, <1>t DEF SemaOK, SemaSet, Kill
  <2>2. \A x \in Waiters : slot'[x].semaphore = slot[x].semaphore
    BY <1>11, <1>t DEF SlotOK, BlockerSet, Kill
  <2>3. \A q \in Posters : Aim(q)' = Aim(q) /\ (ToTake(q)' <=> ToTake(q))
    BY <2>2, <1>11, <1>t, Aiming DEF ToTake, Aim, AimOK, PlaceOK, Kill
  <2> QED
    BY <2>p, <2>1, <2>3 DEF Counted, Waits
<1>12. ASSUME NEW k \in Killers, KillTest(k) PROVE Counted'
  <2>p. Listed /\ Counted /\ sema.value \in Int /\ sema.num \in Nat
    BY <1>12, <1>t, Numbers DEF IInv, KillTest
  <2>1. sema'.value = sema.value /\ sema'.num \in Int /\ sema'.num <= sema.num
    BY <2>p, <1>12, <1>t DEF SemaOK, SemaSet, KillTest
  <2>2. \A x \in Waiters : slot'[x].semaphore = slot[x].semaphore
    BY <1>12, <1>t DEF SlotOK, BlockerSet, KillTest
  <2>3. \A q \in Posters : Aim(q)' = Aim(q) /\ (ToTake(q)' <=> ToTake(q))
    BY <2>2, <1>12, <1>t, Aiming DEF ToTake, Aim, AimOK, PlaceOK, KillTest
  <2> QED
    BY <2>p, <2>1, <2>3 DEF Counted, Waits
<1>13. ASSUME NEW k \in Killers, KillInterrupt(k) PROVE Counted'
  <2>p. Listed /\ Counted /\ sema.value \in Int /\ sema.num \in Nat
    BY <1>13, <1>t, Numbers DEF IInv, KillInterrupt
  <2>a. Aim(k) \in Waiters
    BY <1>13, <1>t, Aiming
  <2>1. sema'.value = sema.value /\ sema'.num \in Int /\ sema'.num <= sema.num
    BY <2>p, <1>13, <1>t DEF SemaOK, SemaSet, KillInterrupt
  <2>2. \A x \in Waiters : slot'[x].semaphore = slot[x].semaphore
    BY <2>a, <1>13, <1>t DEF SlotOK, BlockerSet, KillInterrupt
  <2>3. \A q \in Posters : Aim(q)' = Aim(q) /\ (ToTake(q)' <=> ToTake(q))
    BY <2>2, <2>a, <1>13, <1>t, Aiming DEF ToTake, Aim, AimOK, PlaceOK, KillInterrupt
  <2> QED
    BY <2>p, <2>1, <2>3 DEF Counted, Waits
<1>14. ASSUME NEW k \in Killers, KillRelease(k) PROVE Counted'
  <2>p. Listed /\ Counted /\ sema.value \in Int /\ sema.num \in Nat
    BY <1>14, <1>t, Numbers DEF IInv, KillRelease
  <2>a. Aim(k) \in Waiters
    BY <1>14, <1>t, Aiming
  <2>1. sema'.value = sema.value /\ sema'.num \in Int /\ sema'.num <= sema.num
    BY <2>p, <1>14, <1>t DEF SemaOK, SemaSet, KillRelease
  <2>2. \A x \in Waiters : slot'[x].semaphore = slot[x].semaphore
    BY <2>a, <1>14, <1>t DEF SlotOK, BlockerSet, KillRelease
  <2>3. \A q \in Posters : Aim(q)' = Aim(q) /\ (ToTake(q)' <=> ToTake(q))
    BY <2>2, <2>a, <1>14, <1>t, Aiming DEF ToTake, Aim, AimOK, PlaceOK, KillRelease
  <2> QED
    BY <2>p, <2>1, <2>3 DEF Counted, Waits
<1>15. ASSUME NEW c \in Wakers, Detach(c) PROVE Counted'
  <2>p. Listed /\ Counted /\ sema.value \in Int /\ sema.num \in Nat
    BY <1>15, <1>t, Numbers DEF IInv, Detach
  <2>r. IsInjective(sema.blocked) /\ panic = "none" /\ Aim(c) \in Waiters /\ RemoveIfListed(Aim(c))
    BY <1>15, <1>t, Aiming DEF IInv, Listed, Detach
  <2>1. aim' = aim /\ pc[c] = "detach" /\ pc'[c] \in {"wake", "release"} /\ \A q \in Posters : q # c => pc'[q] = pc[q]
    BY <1>15, <1>t DEF Detach, PlaceOK
  <2>2. CASE slot[Aim(c)].semaphore
    <3>1. sema'.num = sema.num - 1 /\ sema'.value = sema.value
      BY <2>2, <2>r, <1>t, Removal
    <3> QED
      BY <2>p, <3>1 DEF Counted, Waits
  <2>3. CASE ~slot[Aim(c)].semaphore
    <3>1. sema' = sema
      BY <2>3, <2>r, <1>t, Removal
    <3>2. \A x \in Waiters : slot'[x].semaphore => slot[x].semaphore
      BY <2>r, <1>15, <1>t DEF Detach, SlotOK, BlockerSet
    <3>3. \A x \in Waiters : slot[x].semaphore => slot'[x].semaphore
      BY <2>r, <2>3, <1>15, <1>t DEF Detach, SlotOK, BlockerSet
    <3>4. \A q \in Posters : ToTake(q)' <=> ToTake(q)
      BY <2>1, <2>3, <3>2, <3>3, <1>t, Aiming DEF ToTake, Aim
    <3> QED
      BY <2>p, <3>1, <3>4 DEF Counted, Waits
  <2> QED
    BY <2>2, <2>3
<1>16. ASSUME NEW c \in Wakers, Wake(c) PROVE Counted'
  <2>p. Listed /\ Counted /\ sema.value \in Int /\ sema.num \in Nat
    BY <1>16, <1>t, Numbers DEF IInv, Wake, Unblock
  <2>a. Aim(c) \in Waiters
    BY <1>16, <1>t, Aiming
  <2>1. sema'.value = sema.value /\ sema'.num \in Int /\ sema'.num <= sema.num
    BY <2>p, <1>16, <1>t DEF SemaOK, SemaSet, Wake, Unblock
  <2>2. \A x \in Waiters : slot'[x].semaphore = slot[x].semaphore
    BY <2>a, <1>16, <1>t DEF SlotOK, BlockerSet, Wake, Unblock
  <2>3. \A q \in Posters : Aim(q)' = Aim(q) /\ (ToTake(q)' <=> ToTake(q))
    BY <2>2, <2>a, <1>16, <1>t, Aiming DEF ToTake, Aim, AimOK, PlaceOK, Wake, Unblock
  <2> QED
    BY <2>p, <2>1, <2>3 DEF Counted, Waits
<1> QED
  BY <1>1, <1>2, <1>3, <1>4, <1>5, <1>6, <1>7, <1>8, <1>9, <1>10, <1>11, <1>12, <1>13, <1>14, <1>15, <1>16, Steps

LEMMA StepAwake == IInv /\ Next /\ ~dangling' => \A v \in Waiters : Awake(v)'
<1> SUFFICES ASSUME IInv, Next, ~dangling' PROVE \A v \in Waiters : Awake(v)'
  OBVIOUS
<1>t. SemaOK /\ SlotOK /\ ThreadOK /\ AimOK /\ PlaceOK
  BY TypeParts DEF IInv
<1> USE ContextsAre DEF At, Goto, Call
<1>1. ASSUME NEW w \in Waiters, Wait(w) PROVE \A v \in Waiters : Awake(v)'
  <2> SUFFICES ASSUME NEW v \in Waiters PROVE Awake(v)'
    OBVIOUS
  <2>p. ~dangling /\ Awake(v)
    BY <1>1 DEF IInv, Wait, MustBlock, NewBlocker
  <2> QED
    BY <2>p, <1>1, <1>t DEF Awake, SlotOK, BlockerSet, ThreadOK, ThreadSet, PlaceOK, Wait, MustBlock, NewBlocker
<1>2. ASSUME NEW w \in Waiters, Block(w) PROVE \A v \in Waiters : Awake(v)'
  <2> SUFFICES ASSUME NEW v \in Waiters PROVE Awake(v)'
    OBVIOUS
  <2>p. ~dangling /\ Awake(v)
    BY <1>2 DEF IInv, Block
  <2> QED
    BY <2>p, <1>2, <1>t DEF Awake, SlotOK, BlockerSet, ThreadOK, ThreadSet, PlaceOK, Block
<1>3. ASSUME NEW w \in Waiters, BlockPending(w) PROVE \A v \in Waiters : Awake(v)'
  <2> SUFFICES ASSUME NEW v \in Waiters PROVE Awake(v)'
    OBVIOUS
  <2>p. ~dangling /\ Awake(v)
    BY <1>3 DEF IInv, BlockPending, SeesSignal
  <2> QED
    BY <2>p, <1>3, <1>t DEF Awake, SlotOK, BlockerSet, ThreadOK, ThreadSet, PlaceOK, BlockPending, SeesSignal
<1>4. ASSUME NEW w \in Waiters, BlockCommit(w) PROVE \A v \in Waiters : Awake(v)'
  <2> SUFFICES ASSUME NEW v \in Waiters PROVE Awake(v)'
    OBVIOUS
  <2>p. ~dangling /\ Awake(v)
    BY <1>4 DEF IInv, BlockCommit
  <2> QED
    BY <2>p, <1>4, <1>t DEF Awake, SlotOK, BlockerSet, ThreadOK, ThreadSet, PlaceOK, BlockCommit
<1>5. ASSUME NEW w \in Waiters, Resume(w) PROVE \A v \in Waiters : Awake(v)'
  <2> SUFFICES ASSUME NEW v \in Waiters PROVE Awake(v)'
    OBVIOUS
  <2>p. ~dangling /\ Awake(v)
    BY <1>5 DEF IInv, Resume, WasInterrupted
  <2> QED
    BY <2>p, <1>5, <1>t DEF Awake, SlotOK, BlockerSet, ThreadOK, ThreadSet, PlaceOK, Resume, WasInterrupted
<1>6. ASSUME NEW w \in Waiters, Return(w) PROVE \A v \in Waiters : Awake(v)'
  <2> SUFFICES ASSUME NEW v \in Waiters PROVE Awake(v)'
    OBVIOUS
  <2>p. ~dangling /\ Awake(v)
    BY <1>6 DEF IInv, Return
  <2>r. IsInjective(sema.blocked) /\ panic = "none" /\ w \in Waiters /\ RemoveIfListed(w)
    BY <1>6, <1>t, Aiming DEF IInv, Listed, Return
  <2> QED
    BY <2>r, <2>p, <1>6, <1>t DEF Awake, SlotOK, BlockerSet, ThreadOK, ThreadSet, PlaceOK, Return
<1>7. ASSUME NEW w \in Waiters, HandleSignal(w) PROVE \A v \in Waiters : Awake(v)'
  <2> SUFFICES ASSUME NEW v \in Waiters PROVE Awake(v)'
    OBVIOUS
  <2>p. ~dangling /\ Awake(v)
    BY <1>7 DEF IInv, HandleSignal
  <2> QED
    BY <2>p, <1>7, <1>t DEF Awake, SlotOK, BlockerSet, ThreadOK, ThreadSet, PlaceOK, HandleSignal
<1>8. ASSUME NEW p \in Posters, Signal(p) PROVE \A v \in Waiters : Awake(v)'
  <2> SUFFICES ASSUME NEW v \in Waiters PROVE Awake(v)'
    OBVIOUS
  <2>p. ~dangling /\ Awake(v)
    BY <1>8 DEF IInv, Signal, SomeoneBlocked
  <2> QED
    BY <2>p, <1>8, <1>t DEF Awake, SlotOK, BlockerSet, ThreadOK, ThreadSet, PlaceOK, Signal, SomeoneBlocked
<1>9. ASSUME NEW p \in Posters, PostFront(p) PROVE \A v \in Waiters : Awake(v)'
  <2> SUFFICES ASSUME NEW v \in Waiters PROVE Awake(v)'
    OBVIOUS
  <2>p. ~dangling /\ Awake(v)
    BY <1>9 DEF IInv, PostFront
  <2>a. sema.blocked # <<>> => Head(sema.blocked) \in Waiters /\ Head(sema.blocked) \in ToSet(sema.blocked)
    BY <1>t, FrontListed DEF SemaOK, SemaSet
  <2>2. thread' = thread /\ pc'[v] = pc[v]
    BY <1>9, <1>t DEF PlaceOK, PostFront
  <2>3. ~slot[v].shouldBlock => ~slot'[v].shouldBlock
    <3>1. CASE sema.blocked = <<>>
      BY <3>1, <1>9 DEF PostFront
    <3>2. CASE ~(sema.blocked = <<>>)
      BY <3>2, <2>a, <1>9, <1>t DEF SlotOK, BlockerSet, PostFront
    <3> QED
      BY <3>1, <3>2
  <2> QED
    BY <2>p, <2>2, <2>3 DEF Awake
<1>10. ASSUME NEW p \in Posters, PostRelease(p) PROVE \A v \in Waiters : Awake(v)'
  <2> SUFFICES ASSUME NEW v \in Waiters PROVE Awake(v)'
    OBVIOUS
  <2>p. ~dangling /\ Awake(v)
    BY <1>10 DEF IInv, PostRelease
  <2>a. Aim(p) \in Waiters
    BY <1>10, <1>t, Aiming
  <2> QED
    BY <2>a, <2>p, <1>10, <1>t DEF Awake, SlotOK, BlockerSet, ThreadOK, ThreadSet, PlaceOK, PostRelease
<1>11. ASSUME NEW k \in Killers, NEW w \in Waiters, Kill(k, w) PROVE \A v \in Waiters : Awake(v)'
  <2> SUFFICES ASSUME NEW v \in Waiters PROVE Awake(v)'
    OBVIOUS
  <2>p. ~dangling /\ Awake(v)
    BY <1>11 DEF IInv, Kill
  <2> QED
    BY <2>p, <1>11, <1>t DEF Awake, SlotOK, BlockerSet, ThreadOK, ThreadSet, PlaceOK, Kill
<1>12. ASSUME NEW k \in Killers, KillTest(k) PROVE \A v \in Waiters : Awake(v)'
  <2> SUFFICES ASSUME NEW v \in Waiters PROVE Awake(v)'
    OBVIOUS
  <2>p. ~dangling /\ Awake(v)
    BY <1>12 DEF IInv, KillTest
  <2> QED
    BY <2>p, <1>12, <1>t DEF Awake, SlotOK, BlockerSet, ThreadOK, ThreadSet, PlaceOK, KillTest
<1>13. ASSUME NEW k \in Killers, KillInterrupt(k) PROVE \A v \in Waiters : Awake(v)'
  <2> SUFFICES ASSUME NEW v \in Waiters PROVE Awake(v)'
    OBVIOUS
  <2>p. ~dangling /\ Awake(v)
    BY <1>13 DEF IInv, KillInterrupt
  <2>a. Aim(k) \in Waiters
    BY <1>13, <1>t, Aiming
  <2>2. thread' = thread /\ pc'[v] = pc[v]
    BY <1>13, <1>t DEF PlaceOK, KillInterrupt
  <2>3. ~slot[v].shouldBlock => ~slot'[v].shouldBlock
    <3>1. CASE ~thread[Aim(k)].blocker
      BY <3>1, <1>13 DEF KillInterrupt
    <3>2. CASE ~(~thread[Aim(k)].blocker)
      BY <3>2, <2>a, <1>13, <1>t DEF SlotOK, BlockerSet, KillInterrupt
    <3> QED
      BY <3>1, <3>2
  <2> QED
    BY <2>p, <2>2, <2>3 DEF Awake
<1>14. ASSUME NEW k \in Killers, KillRelease(k) PROVE \A v \in Waiters : Awake(v)'
  <2> SUFFICES ASSUME NEW v \in Waiters PROVE Awake(v)'
    OBVIOUS
  <2>p. ~dangling /\ Awake(v)
    BY <1>14 DEF IInv, KillRelease
  <2>a. Aim(k) \in Waiters
    BY <1>14, <1>t, Aiming
  <2> QED
    BY <2>a, <2>p, <1>14, <1>t DEF Awake, SlotOK, BlockerSet, ThreadOK, ThreadSet, PlaceOK, KillRelease
<1>15. ASSUME NEW c \in Wakers, Detach(c) PROVE \A v \in Waiters : Awake(v)'
  <2> SUFFICES ASSUME NEW v \in Waiters PROVE Awake(v)'
    OBVIOUS
  <2>p. ~dangling /\ Awake(v)
    BY <1>15 DEF IInv, Detach
  <2>r. IsInjective(sema.blocked) /\ panic = "none" /\ Aim(c) \in Waiters /\ RemoveIfListed(Aim(c))
    BY <1>15, <1>t, Aiming DEF IInv, Listed, Detach
  <2> QED
    BY <2>r, <2>p, <1>15, <1>t DEF Awake, SlotOK, BlockerSet, ThreadOK, ThreadSet, PlaceOK, Detach
<1>16. ASSUME NEW c \in Wakers, Wake(c) PROVE \A v \in Waiters : Awake(v)'
  <2> SUFFICES ASSUME NEW v \in Waiters PROVE Awake(v)'
    OBVIOUS
  <2>p. ~dangling /\ Awake(v)
    BY <1>16 DEF IInv, Wake, Unblock
  <2>a. Aim(c) \in Waiters
    BY <1>16, <1>t, Aiming
  <2>1. ~slot[Aim(c)].shouldBlock
    BY <1>16, <1>t DEF IInv, LetGo, Wake, Dangles, PlaceOK
  <2> QED
    BY <2>a, <2>1, <2>p, <1>16, <1>t DEF Awake, ThreadOK, ThreadSet, PlaceOK, Wake, Unblock
<1> QED
  BY <1>1, <1>2, <1>3, <1>4, <1>5, <1>6, <1>7, <1>8, <1>9, <1>10, <1>11, <1>12, <1>13, <1>14, <1>15, <1>16, Steps

LEMMA StepGranted == IInv /\ Next /\ ~dangling' => Granted'
<1> SUFFICES ASSUME IInv, Next, ~dangling' PROVE Granted'
  OBVIOUS
<1>t. SemaOK /\ SlotOK /\ ThreadOK /\ AimOK /\ PlaceOK
  BY TypeParts DEF IInv
<1> USE ContextsAre DEF At, Goto, Call
<1>1. ASSUME NEW w \in Waiters, Wait(w) PROVE Granted'
  <2>p. ~dangling /\ Granted /\ panic = "none"
    BY <1>1 DEF IInv, Wait, MustBlock
  <2>1. /\ sema'.value = sema.value - 1
       /\ IF sema.value - 1 < 0 THEN permits' = permits
          ELSE permits'.taken = permits.taken + 1 /\ permits'.given = permits.given
    BY <1>1, <1>t, WaitNumbers, Numbers
  <2>2. \A q \in Posters : pc'[q] = "front" => pc[q] = "front"
    BY <1>1, <1>t DEF PlaceOK, Wait, MustBlock
  <2>5. ASSUME NEW x \in Waiters, Picked(x)' PROVE Picked(x)
    <3>1. Points(x) /\ Awake(x)
      BY <2>p DEF IInv
    <3> QED
      BY <2>5, <3>1, <1>1, <1>t DEF Picked, Points, Awake, SlotOK, BlockerSet, ThreadOK, ThreadSet, PlaceOK, Wait, MustBlock, NewBlocker
  <2>6. /\ Cardinality(Served) \in Nat /\ Cardinality(Served)' \in Nat
        /\ Cardinality(Served)' <= Cardinality(Served)
    BY <2>5, Fewer DEF Served
  <2>7. sema.value \in Int /\ sema.num \in Nat /\ permits.given \in Nat /\ permits.taken \in Nat /\ InitialValue \in Nat
    BY <1>t, Numbers, BoundsAssumption DEF PlaceOK
  <2> QED
    BY <2>p, <2>1, <2>2, <2>6, <2>7 DEF Granted, Available, Posted
<1>2. ASSUME NEW w \in Waiters, Block(w) PROVE Granted'
  <2>p. ~dangling /\ Granted /\ panic = "none"
    BY <1>2 DEF IInv, Block
  <2>1. permits' = permits /\ sema'.value = sema.value
    BY <1>2, <1>t DEF SemaOK, SemaSet, PlaceOK, Block
  <2>2. \A q \in Posters : pc'[q] = "front" => pc[q] = "front"
    BY <1>2, <1>t DEF PlaceOK, Block
  <2>5. ASSUME NEW x \in Waiters, Picked(x)' PROVE Picked(x)
    <3>1. Points(x) /\ Awake(x)
      BY <2>p DEF IInv
    <3> QED
      BY <2>5, <3>1, <1>2, <1>t DEF Picked, Points, Awake, SlotOK, BlockerSet, ThreadOK, ThreadSet, PlaceOK, Block
  <2>6. /\ Cardinality(Served) \in Nat /\ Cardinality(Served)' \in Nat
        /\ Cardinality(Served)' <= Cardinality(Served)
    BY <2>5, Fewer DEF Served
  <2>7. sema.value \in Int /\ sema.num \in Nat /\ permits.given \in Nat /\ permits.taken \in Nat /\ InitialValue \in Nat
    BY <1>t, Numbers, BoundsAssumption DEF PlaceOK
  <2> QED
    BY <2>p, <2>1, <2>2, <2>6, <2>7 DEF Granted, Available, Posted
<1>3. ASSUME NEW w \in Waiters, BlockPending(w) PROVE Granted'
  <2>p. ~dangling /\ Granted /\ panic = "none"
    BY <1>3 DEF IInv, BlockPending, SeesSignal
  <2>1. permits' = permits /\ sema'.value = sema.value
    BY <1>3, <1>t DEF SemaOK, SemaSet, PlaceOK, BlockPending, SeesSignal
  <2>2. \A q \in Posters : pc'[q] = "front" => pc[q] = "front"
    BY <1>3, <1>t DEF PlaceOK, BlockPending, SeesSignal
  <2>5. ASSUME NEW x \in Waiters, Picked(x)' PROVE Picked(x)
    <3>1. Points(x) /\ Awake(x)
      BY <2>p DEF IInv
    <3> QED
      BY <2>5, <3>1, <1>3, <1>t DEF Picked, Points, Awake, SlotOK, BlockerSet, ThreadOK, ThreadSet, PlaceOK, BlockPending, SeesSignal
  <2>6. /\ Cardinality(Served) \in Nat /\ Cardinality(Served)' \in Nat
        /\ Cardinality(Served)' <= Cardinality(Served)
    BY <2>5, Fewer DEF Served
  <2>7. sema.value \in Int /\ sema.num \in Nat /\ permits.given \in Nat /\ permits.taken \in Nat /\ InitialValue \in Nat
    BY <1>t, Numbers, BoundsAssumption DEF PlaceOK
  <2> QED
    BY <2>p, <2>1, <2>2, <2>6, <2>7 DEF Granted, Available, Posted
<1>4. ASSUME NEW w \in Waiters, BlockCommit(w) PROVE Granted'
  <2>p. ~dangling /\ Granted /\ panic = "none"
    BY <1>4 DEF IInv, BlockCommit
  <2>1. permits' = permits /\ sema'.value = sema.value
    BY <1>4, <1>t DEF SemaOK, SemaSet, PlaceOK, BlockCommit
  <2>2. \A q \in Posters : pc'[q] = "front" => pc[q] = "front"
    BY <1>4, <1>t DEF PlaceOK, BlockCommit
  <2>5. ASSUME NEW x \in Waiters, Picked(x)' PROVE Picked(x)
    <3>1. Points(x) /\ Awake(x)
      BY <2>p DEF IInv
    <3> QED
      BY <2>5, <3>1, <1>4, <1>t DEF Picked, Points, Awake, SlotOK, BlockerSet, ThreadOK, ThreadSet, PlaceOK, BlockCommit
  <2>6. /\ Cardinality(Served) \in Nat /\ Cardinality(Served)' \in Nat
        /\ Cardinality(Served)' <= Cardinality(Served)
    BY <2>5, Fewer DEF Served
  <2>7. sema.value \in Int /\ sema.num \in Nat /\ permits.given \in Nat /\ permits.taken \in Nat /\ InitialValue \in Nat
    BY <1>t, Numbers, BoundsAssumption DEF PlaceOK
  <2> QED
    BY <2>p, <2>1, <2>2, <2>6, <2>7 DEF Granted, Available, Posted
<1>5. ASSUME NEW w \in Waiters, Resume(w) PROVE Granted'
  <2>p. ~dangling /\ Granted /\ panic = "none"
    BY <1>5 DEF IInv, Resume, WasInterrupted
  <2>1. permits' = permits /\ sema'.value = sema.value
    BY <1>5, <1>t DEF SemaOK, SemaSet, PlaceOK, Resume, WasInterrupted
  <2>2. \A q \in Posters : pc'[q] = "front" => pc[q] = "front"
    BY <1>5, <1>t DEF PlaceOK, Resume, WasInterrupted
  <2>5. ASSUME NEW x \in Waiters, Picked(x)' PROVE Picked(x)
    <3>1. Points(x) /\ Awake(x)
      BY <2>p DEF IInv
    <3> QED
      BY <2>5, <3>1, <1>5, <1>t DEF Picked, Points, Awake, SlotOK, BlockerSet, ThreadOK, ThreadSet, PlaceOK, Resume, WasInterrupted
  <2>6. /\ Cardinality(Served) \in Nat /\ Cardinality(Served)' \in Nat
        /\ Cardinality(Served)' <= Cardinality(Served)
    BY <2>5, Fewer DEF Served
  <2>7. sema.value \in Int /\ sema.num \in Nat /\ permits.given \in Nat /\ permits.taken \in Nat /\ InitialValue \in Nat
    BY <1>t, Numbers, BoundsAssumption DEF PlaceOK
  <2> QED
    BY <2>p, <2>1, <2>2, <2>6, <2>7 DEF Granted, Available, Posted
<1>6. ASSUME NEW w \in Waiters, Return(w) PROVE Granted'
  <2>p. ~dangling /\ Granted /\ panic = "none"
    BY <1>6 DEF IInv, Return
  <2>r. IsInjective(sema.blocked) /\ panic = "none" /\ w \in Waiters /\ RemoveIfListed(w)
    BY <1>6, <1>t, Aiming DEF IInv, Listed, Return
  <2>1. /\ sema'.value = sema.value /\ permits'.given = permits.given
       /\ permits'.taken = permits.taken + (IF pc[w] = "return_false" THEN 1 ELSE 0)
    BY <2>r, Removal, <1>6, <1>t DEF SemaOK, SemaSet, PlaceOK, Return
  <2>2. \A q \in Posters : pc'[q] = "front" => pc[q] = "front"
    BY <1>6, <1>t DEF PlaceOK, Return
  <2>5. /\ \A x \in Waiters : Picked(x)' => Picked(x) /\ x # w
        /\ pc[w] = "return_false" => Picked(w)
    BY <1>6, <1>t DEF Picked, SlotOK, BlockerSet, PlaceOK, Return
  <2>6. /\ Cardinality(Served) \in Nat /\ Cardinality(Served)' \in Nat
        /\ Cardinality(Served)' + (IF pc[w] = "return_false" THEN 1 ELSE 0) <= Cardinality(Served)
    <3>1. CASE pc[w] = "return_false"
      BY <3>1, <2>5, OneLess DEF Served
    <3>2. CASE pc[w] # "return_false"
      BY <3>2, <2>5, Fewer DEF Served
    <3> QED
      BY <3>1, <3>2
  <2>7. sema.value \in Int /\ sema.num \in Nat /\ permits.given \in Nat /\ permits.taken \in Nat /\ InitialValue \in Nat
    BY <1>t, Numbers, BoundsAssumption DEF PlaceOK
  <2> QED
    BY <2>p, <2>1, <2>2, <2>6, <2>7 DEF Granted, Available, Posted
<1>7. ASSUME NEW w \in Waiters, HandleSignal(w) PROVE Granted'
  <2>p. ~dangling /\ Granted /\ panic = "none"
    BY <1>7 DEF IInv, HandleSignal
  <2>1. permits' = permits /\ sema'.value = sema.value
    BY <1>7, <1>t DEF SemaOK, SemaSet, PlaceOK, HandleSignal
  <2>2. \A q \in Posters : pc'[q] = "front" => pc[q] = "front"
    BY <1>7, <1>t DEF PlaceOK, HandleSignal
  <2>5. ASSUME NEW x \in Waiters, Picked(x)' PROVE Picked(x)
    <3>1. Points(x) /\ Awake(x)
      BY <2>p DEF IInv
    <3> QED
      BY <2>5, <3>1, <1>7, <1>t DEF Picked, Points, Awake, SlotOK, BlockerSet, ThreadOK, ThreadSet, PlaceOK, HandleSignal
  <2>6. /\ Cardinality(Served) \in Nat /\ Cardinality(Served)' \in Nat
        /\ Cardinality(Served)' <= Cardinality(Served)
    BY <2>5, Fewer DEF Served
  <2>7. sema.value \in Int /\ sema.num \in Nat /\ permits.given \in Nat /\ permits.taken \in Nat /\ InitialValue \in Nat
    BY <1>t, Numbers, BoundsAssumption DEF PlaceOK
  <2> QED
    BY <2>p, <2>1, <2>2, <2>6, <2>7 DEF Granted, Available, Posted
<1>8. ASSUME NEW p \in Posters, Signal(p) PROVE Granted'
  <2>p. ~dangling /\ Granted /\ panic = "none"
    BY <1>8 DEF IInv, Signal, SomeoneBlocked
  <2>1. permits'.given = permits.given + 1 /\ permits'.taken = permits.taken /\ sema'.value = sema.value + 1
    BY <1>8, <1>t DEF SemaOK, SemaSet, PlaceOK, Signal, SomeoneBlocked
  <2>2. \A q \in Posters : pc[q] = "idle"
    BY <1>8, NobodyPosts DEF IInv, Signal
  <2>3. sema.num = 0 => \A q \in Posters : pc'[q] # "front"
    BY <2>2, <1>8, <1>t DEF Signal, SomeoneBlocked, PlaceOK
  <2>4. sema.num > 0 => sema.value < 0
    BY <2>2, <2>p, <1>t, Numbers DEF IInv, Counted, ToTake, Waits
  <2>5. ASSUME NEW x \in Waiters, Picked(x)' PROVE Picked(x)
    <3>1. Points(x) /\ Awake(x)
      BY <2>p DEF IInv
    <3> QED
      BY <2>5, <3>1, <1>8, <1>t DEF Picked, Points, Awake, SlotOK, BlockerSet, ThreadOK, ThreadSet, PlaceOK, Signal, SomeoneBlocked
  <2>6. /\ Cardinality(Served) \in Nat /\ Cardinality(Served)' \in Nat
        /\ Cardinality(Served)' <= Cardinality(Served)
    BY <2>5, Fewer DEF Served
  <2>7. sema.value \in Int /\ sema.num \in Nat /\ permits.given \in Nat /\ permits.taken \in Nat /\ InitialValue \in Nat
    BY <1>t, Numbers, BoundsAssumption DEF PlaceOK
  <2>8. (Available + Posted)' <= Available + Posted + 1
    <3>1. CASE sema.num = 0
      BY <3>1, <2>1, <2>3, <2>7 DEF Available, Posted
    <3>2. CASE sema.num > 0
      BY <3>2, <2>1, <2>4, <2>7 DEF Available, Posted
    <3> QED
      BY <3>1, <3>2, <2>7
  <2> QED
    BY <2>p, <2>1, <2>6, <2>7, <2>8 DEF Granted, Available, Posted
<1>9. ASSUME NEW p \in Posters, PostFront(p) PROVE Granted'
  <2>p. ~dangling /\ Granted /\ panic = "none"
    BY <1>9 DEF IInv, PostFront
  <2>a. sema.blocked # <<>> => Head(sema.blocked) \in Waiters /\ Head(sema.blocked) \in ToSet(sema.blocked)
    BY <1>t, FrontListed DEF SemaOK, SemaSet
  <2>e. CASE sema.blocked = <<>>
    <3>1. UNCHANGED <<sema, slot, pc, permits>>
      BY <2>e, <1>9 DEF PostFront
    <3> QED
      BY <3>1, <2>p DEF Granted, Available, Posted, Served, Picked
  <2>f. CASE sema.blocked # <<>>
    <3>1. permits' = permits /\ sema'.value = sema.value
      BY <2>f, <1>9, <1>t DEF SemaOK, SemaSet, PlaceOK, PostFront
    <3>2. pc[p] = "front" /\ pc'[p] # "front" /\ \A q \in Posters : q # p => pc'[q] # "front"
      BY <2>f, <1>9, <1>t DEF IInv, OneHolds, PostFront, PlaceOK
    <3>5. sema.blocked # <<>> /\ \A x \in Waiters : Picked(x)' => Picked(x) \/ x = Head(sema.blocked)
      BY <2>a, <2>f, <1>9, <1>t DEF Picked, SlotOK, BlockerSet, PlaceOK, PostFront
    <3>6. /\ Cardinality(Served) \in Nat /\ Cardinality(Served)' \in Nat
          /\ Cardinality(Served)' <= Cardinality(Served) + 1
      BY <3>5, <2>a, <2>f, OneMore DEF Served
    <3>7. sema.value \in Int /\ sema.num \in Nat /\ permits.given \in Nat /\ permits.taken \in Nat /\ InitialValue \in Nat
      BY <1>t, Numbers, BoundsAssumption DEF PlaceOK
    <3> QED
      BY <2>p, <3>1, <3>2, <3>6, <3>7 DEF Granted, Available, Posted
  <2> QED
    BY <2>e, <2>f
<1>10. ASSUME NEW p \in Posters, PostRelease(p) PROVE Granted'
  <2>p. ~dangling /\ Granted /\ panic = "none"
    BY <1>10 DEF IInv, PostRelease
  <2>a. Aim(p) \in Waiters
    BY <1>10, <1>t, Aiming
  <2>1. permits' = permits /\ sema'.value = sema.value
    BY <1>10, <1>t DEF SemaOK, SemaSet, PlaceOK, PostRelease
  <2>2. \A q \in Posters : pc'[q] = "front" => pc[q] = "front"
    BY <1>10, <1>t DEF PlaceOK, PostRelease
  <2>5. ASSUME NEW x \in Waiters, Picked(x)' PROVE Picked(x)
    <3>1. Points(x) /\ Awake(x)
      BY <2>p DEF IInv
    <3> QED
      BY <2>a, <2>5, <3>1, <1>10, <1>t DEF Picked, Points, Awake, SlotOK, BlockerSet, ThreadOK, ThreadSet, PlaceOK, PostRelease
  <2>6. /\ Cardinality(Served) \in Nat /\ Cardinality(Served)' \in Nat
        /\ Cardinality(Served)' <= Cardinality(Served)
    BY <2>5, Fewer DEF Served
  <2>7. sema.value \in Int /\ sema.num \in Nat /\ permits.given \in Nat /\ permits.taken \in Nat /\ InitialValue \in Nat
    BY <1>t, Numbers, BoundsAssumption DEF PlaceOK
  <2> QED
    BY <2>p, <2>1, <2>2, <2>6, <2>7 DEF Granted, Available, Posted
<1>11. ASSUME NEW k \in Killers, NEW w \in Waiters, Kill(k, w) PROVE Granted'
  <2>p. ~dangling /\ Granted /\ panic = "none"
    BY <1>11 DEF IInv, Kill
  <2>1. permits' = permits /\ sema'.value = sema.value
    BY <1>11, <1>t DEF SemaOK, SemaSet, PlaceOK, Kill
  <2>2. \A q \in Posters : pc'[q] = "front" => pc[q] = "front"
    BY <1>11, <1>t DEF PlaceOK, Kill
  <2>5. ASSUME NEW x \in Waiters, Picked(x)' PROVE Picked(x)
    <3>1. Points(x) /\ Awake(x)
      BY <2>p DEF IInv
    <3> QED
      BY <2>5, <3>1, <1>11, <1>t DEF Picked, Points, Awake, SlotOK, BlockerSet, ThreadOK, ThreadSet, PlaceOK, Kill
  <2>6. /\ Cardinality(Served) \in Nat /\ Cardinality(Served)' \in Nat
        /\ Cardinality(Served)' <= Cardinality(Served)
    BY <2>5, Fewer DEF Served
  <2>7. sema.value \in Int /\ sema.num \in Nat /\ permits.given \in Nat /\ permits.taken \in Nat /\ InitialValue \in Nat
    BY <1>t, Numbers, BoundsAssumption DEF PlaceOK
  <2> QED
    BY <2>p, <2>1, <2>2, <2>6, <2>7 DEF Granted, Available, Posted
<1>12. ASSUME NEW k \in Killers, KillTest(k) PROVE Granted'
  <2>p. ~dangling /\ Granted /\ panic = "none"
    BY <1>12 DEF IInv, KillTest
  <2>1. permits' = permits /\ sema'.value = sema.value
    BY <1>12, <1>t DEF SemaOK, SemaSet, PlaceOK, KillTest
  <2>2. \A q \in Posters : pc'[q] = "front" => pc[q] = "front"
    BY <1>12, <1>t DEF PlaceOK, KillTest
  <2>5. ASSUME NEW x \in Waiters, Picked(x)' PROVE Picked(x)
    <3>1. Points(x) /\ Awake(x)
      BY <2>p DEF IInv
    <3> QED
      BY <2>5, <3>1, <1>12, <1>t DEF Picked, Points, Awake, SlotOK, BlockerSet, ThreadOK, ThreadSet, PlaceOK, KillTest
  <2>6. /\ Cardinality(Served) \in Nat /\ Cardinality(Served)' \in Nat
        /\ Cardinality(Served)' <= Cardinality(Served)
    BY <2>5, Fewer DEF Served
  <2>7. sema.value \in Int /\ sema.num \in Nat /\ permits.given \in Nat /\ permits.taken \in Nat /\ InitialValue \in Nat
    BY <1>t, Numbers, BoundsAssumption DEF PlaceOK
  <2> QED
    BY <2>p, <2>1, <2>2, <2>6, <2>7 DEF Granted, Available, Posted
<1>13. ASSUME NEW k \in Killers, KillInterrupt(k) PROVE Granted'
  <2>p. ~dangling /\ Granted /\ panic = "none"
    BY <1>13 DEF IInv, KillInterrupt
  <2>a. Aim(k) \in Waiters
    BY <1>13, <1>t, Aiming
  <2>1. permits' = permits /\ sema'.value = sema.value
    BY <1>13, <1>t DEF SemaOK, SemaSet, PlaceOK, KillInterrupt
  <2>2. \A q \in Posters : pc'[q] = "front" => pc[q] = "front"
    BY <1>13, <1>t DEF PlaceOK, KillInterrupt
  <2>5. ASSUME NEW x \in Waiters, Picked(x)' PROVE Picked(x)
    <3>1. Points(x) /\ Awake(x)
      BY <2>p DEF IInv
    <3> QED
      BY <2>a, <2>5, <3>1, <1>13, <1>t, SMTT(60) DEF Picked, Points, Awake, SlotOK, BlockerSet, ThreadOK, ThreadSet, PlaceOK, KillInterrupt
  <2>6. /\ Cardinality(Served) \in Nat /\ Cardinality(Served)' \in Nat
        /\ Cardinality(Served)' <= Cardinality(Served)
    BY <2>5, Fewer DEF Served
  <2>7. sema.value \in Int /\ sema.num \in Nat /\ permits.given \in Nat /\ permits.taken \in Nat /\ InitialValue \in Nat
    BY <1>t, Numbers, BoundsAssumption DEF PlaceOK
  <2> QED
    BY <2>p, <2>1, <2>2, <2>6, <2>7 DEF Granted, Available, Posted
<1>14. ASSUME NEW k \in Killers, KillRelease(k) PROVE Granted'
  <2>p. ~dangling /\ Granted /\ panic = "none"
    BY <1>14 DEF IInv, KillRelease
  <2>a. Aim(k) \in Waiters
    BY <1>14, <1>t, Aiming
  <2>1. permits' = permits /\ sema'.value = sema.value
    BY <1>14, <1>t DEF SemaOK, SemaSet, PlaceOK, KillRelease
  <2>2. \A q \in Posters : pc'[q] = "front" => pc[q] = "front"
    BY <1>14, <1>t DEF PlaceOK, KillRelease
  <2>5. ASSUME NEW x \in Waiters, Picked(x)' PROVE Picked(x)
    <3>1. Points(x) /\ Awake(x)
      BY <2>p DEF IInv
    <3> QED
      BY <2>a, <2>5, <3>1, <1>14, <1>t DEF Picked, Points, Awake, SlotOK, BlockerSet, ThreadOK, ThreadSet, PlaceOK, KillRelease
  <2>6. /\ Cardinality(Served) \in Nat /\ Cardinality(Served)' \in Nat
        /\ Cardinality(Served)' <= Cardinality(Served)
    BY <2>5, Fewer DEF Served
  <2>7. sema.value \in Int /\ sema.num \in Nat /\ permits.given \in Nat /\ permits.taken \in Nat /\ InitialValue \in Nat
    BY <1>t, Numbers, BoundsAssumption DEF PlaceOK
  <2> QED
    BY <2>p, <2>1, <2>2, <2>6, <2>7 DEF Granted, Available, Posted
<1>15. ASSUME NEW c \in Wakers, Detach(c) PROVE Granted'
  <2>p. ~dangling /\ Granted /\ panic = "none"
    BY <1>15 DEF IInv, Detach
  <2>r. IsInjective(sema.blocked) /\ panic = "none" /\ Aim(c) \in Waiters /\ RemoveIfListed(Aim(c))
    BY <1>15, <1>t, Aiming DEF IInv, Listed, Detach
  <2>1. permits' = permits /\ sema'.value = sema.value
    BY <2>r, Removal, <1>15, <1>t DEF SemaOK, SemaSet, PlaceOK, Detach
  <2>2. \A q \in Posters : pc'[q] = "front" => pc[q] = "front"
    BY <1>15, <1>t DEF PlaceOK, Detach
  <2>5. ASSUME NEW x \in Waiters, Picked(x)' PROVE Picked(x)
    <3>1. Points(x) /\ Awake(x)
      BY <2>p DEF IInv
    <3> QED
      BY <2>r, <2>5, <3>1, <1>15, <1>t DEF Picked, Points, Awake, SlotOK, BlockerSet, ThreadOK, ThreadSet, PlaceOK, Detach
  <2>6. /\ Cardinality(Served) \in Nat /\ Cardinality(Served)' \in Nat
        /\ Cardinality(Served)' <= Cardinality(Served)
    BY <2>5, Fewer DEF Served
  <2>7. sema.value \in Int /\ sema.num \in Nat /\ permits.given \in Nat /\ permits.taken \in Nat /\ InitialValue \in Nat
    BY <1>t, Numbers, BoundsAssumption DEF PlaceOK
  <2> QED
    BY <2>p, <2>1, <2>2, <2>6, <2>7 DEF Granted, Available, Posted
<1>16. ASSUME NEW c \in Wakers, Wake(c) PROVE Granted'
  <2>p. ~dangling /\ Granted /\ panic = "none"
    BY <1>16 DEF IInv, Wake, Unblock
  <2>a. Aim(c) \in Waiters
    BY <1>16, <1>t, Aiming
  <2>1. permits' = permits /\ sema'.value = sema.value
    BY <1>16, <1>t DEF SemaOK, SemaSet, PlaceOK, Wake, Unblock
  <2>2. \A q \in Posters : pc'[q] = "front" => pc[q] = "front"
    BY <1>16, <1>t DEF PlaceOK, Wake, Unblock
  <2>5. ASSUME NEW x \in Waiters, Picked(x)' PROVE Picked(x)
    <3>1. Points(x) /\ Awake(x)
      BY <2>p DEF IInv
    <3> QED
      BY <2>a, <2>5, <3>1, <1>16, <1>t DEF Picked, Points, Awake, SlotOK, BlockerSet, ThreadOK, ThreadSet, PlaceOK, Wake, Unblock
  <2>6. /\ Cardinality(Served) \in Nat /\ Cardinality(Served)' \in Nat
        /\ Cardinality(Served)' <= Cardinality(Served)
    BY <2>5, Fewer DEF Served
  <2>7. sema.value \in Int /\ sema.num \in Nat /\ permits.given \in Nat /\ permits.taken \in Nat /\ InitialValue \in Nat
    BY <1>t, Numbers, BoundsAssumption DEF PlaceOK
  <2> QED
    BY <2>p, <2>1, <2>2, <2>6, <2>7 DEF Granted, Available, Posted
<1> QED
  BY <1>1, <1>2, <1>3, <1>4, <1>5, <1>6, <1>7, <1>8, <1>9, <1>10, <1>11, <1>12, <1>13, <1>14, <1>15, <1>16, Steps

LEMMA StepExact == IInv /\ Next /\ ~dangling' /\ panic' = "none" => Exact'
<1> SUFFICES ASSUME IInv, Next, ~dangling' /\ panic' = "none" PROVE Exact'
  OBVIOUS
<1>t. SemaOK /\ SlotOK /\ ThreadOK /\ AimOK /\ PlaceOK
  BY TypeParts DEF IInv
<1> USE ContextsAre DEF At, Goto, Call
<1>1. ASSUME NEW w \in Waiters, Wait(w) PROVE Exact'
  <2>p. ~dangling /\ panic = "none" /\ Exact /\ Listed
    BY <1>1 DEF IInv, Wait, MustBlock
  <2>1. w \notin ToSet(sema.blocked)
    BY <2>p, <1>1, <1>t DEF IInv, Listed, Lives, Wait
  <2>2. CASE sema.value - 1 < 0
    <3>1. /\ sema'.blocked = Append(sema.blocked, w) /\ slot' = [slot EXCEPT ![w] = NewBlocker]
          /\ sema'.num = sema.num + 1
      BY <2>2, <1>1, <1>t, WaitNumbers
    <3>2. /\ Len(sema'.blocked) = Len(sema.blocked) + 1
          /\ \A x : x \in ToSet(sema'.blocked) <=> x \in ToSet(sema.blocked) \/ x = w
      BY <3>1, <2>1, <2>p, <1>t, AppendFresh DEF SemaOK, SemaSet, Listed
    <3>3. \A x \in Waiters : x # w => slot'[x] = slot[x]
      BY <3>1, <1>t DEF SlotOK
    <3> QED
      BY <3>1, <3>2, <3>3, <2>p DEF Exact
  <2>3. CASE ~(sema.value - 1 < 0)
    <3>1. sema'.blocked = sema.blocked /\ slot' = slot /\ sema'.num = sema.num
      BY <2>3, <1>1, <1>t, WaitNumbers
    <3> QED
      BY <3>1, <2>p DEF Exact
  <2> QED
    BY <2>2, <2>3
<1>2. ASSUME NEW w \in Waiters, Block(w) PROVE Exact'
  <2>p. ~dangling /\ panic = "none" /\ Exact /\ Listed
    BY <1>2 DEF IInv, Block
  <2>1. sema'.blocked = sema.blocked /\ sema'.num = sema.num
    BY <1>2, <1>t DEF SemaOK, SemaSet, Block
  <2>2. \A x \in Waiters : slot'[x].semaphore = slot[x].semaphore /\ slot'[x].live = slot[x].live
    BY <1>2, <1>t DEF SlotOK, BlockerSet, Block
  <2> QED
    BY <2>1, <2>2, <2>p DEF Exact
<1>3. ASSUME NEW w \in Waiters, BlockPending(w) PROVE Exact'
  <2>p. ~dangling /\ panic = "none" /\ Exact /\ Listed
    BY <1>3 DEF IInv, BlockPending, SeesSignal
  <2>1. sema'.blocked = sema.blocked /\ sema'.num = sema.num
    BY <1>3, <1>t DEF SemaOK, SemaSet, BlockPending, SeesSignal
  <2>2. \A x \in Waiters : slot'[x].semaphore = slot[x].semaphore /\ slot'[x].live = slot[x].live
    BY <1>3, <1>t DEF SlotOK, BlockerSet, BlockPending, SeesSignal
  <2> QED
    BY <2>1, <2>2, <2>p DEF Exact
<1>4. ASSUME NEW w \in Waiters, BlockCommit(w) PROVE Exact'
  <2>p. ~dangling /\ panic = "none" /\ Exact /\ Listed
    BY <1>4 DEF IInv, BlockCommit
  <2>1. sema'.blocked = sema.blocked /\ sema'.num = sema.num
    BY <1>4, <1>t DEF SemaOK, SemaSet, BlockCommit
  <2>2. \A x \in Waiters : slot'[x].semaphore = slot[x].semaphore /\ slot'[x].live = slot[x].live
    BY <1>4, <1>t DEF SlotOK, BlockerSet, BlockCommit
  <2> QED
    BY <2>1, <2>2, <2>p DEF Exact
<1>5. ASSUME NEW w \in Waiters, Resume(w) PROVE Exact'
  <2>p. ~dangling /\ panic = "none" /\ Exact /\ Listed
    BY <1>5 DEF IInv, Resume, WasInterrupted
  <2>1. sema'.blocked = sema.blocked /\ sema'.num = sema.num
    BY <1>5, <1>t DEF SemaOK, SemaSet, Resume, WasInterrupted
  <2>2. \A x \in Waiters : slot'[x].semaphore = slot[x].semaphore /\ slot'[x].live = slot[x].live
    BY <1>5, <1>t DEF SlotOK, BlockerSet, Resume, WasInterrupted
  <2> QED
    BY <2>1, <2>2, <2>p DEF Exact
<1>6. ASSUME NEW w \in Waiters, Return(w) PROVE Exact'
  <2>p. ~dangling /\ panic = "none" /\ Exact /\ Listed
    BY <1>6 DEF IInv, Return
  <2>r. IsInjective(sema.blocked) /\ panic = "none" /\ w \in Waiters /\ RemoveIfListed(w)
    BY <1>6, <1>t, Aiming DEF IInv, Listed, Return
  <2>1. slot[w].live
    BY <1>6, <1>t DEF IInv, Lives, Return
  <2>2. /\ \A x \in Waiters : x # w => slot'[x] = slot[x]
        /\ ~(slot'[w].semaphore /\ slot'[w].live)
    BY <2>r, <1>6, <1>t DEF SlotOK, BlockerSet, Return
  <2>3. CASE slot[w].semaphore
    <3>1. /\ sema'.num = Len(sema'.blocked)
          /\ \A x : x \in ToSet(sema.blocked) /\ x # w => x \in ToSet(sema'.blocked)
      BY <2>1, <2>3, <2>p, <2>r, <1>t, Removal DEF Exact
    <3> QED
      BY <3>1, <2>2, <2>p DEF Exact
  <2>4. CASE ~slot[w].semaphore
    <3>1. sema' = sema
      BY <2>4, <2>r, <1>t, Removal
    <3> QED
      BY <3>1, <2>2, <2>p DEF Exact
  <2> QED
    BY <2>3, <2>4
<1>7. ASSUME NEW w \in Waiters, HandleSignal(w) PROVE Exact'
  <2>p. ~dangling /\ panic = "none" /\ Exact /\ Listed
    BY <1>7 DEF IInv, HandleSignal
  <2>1. sema'.blocked = sema.blocked /\ sema'.num = sema.num
    BY <1>7, <1>t DEF SemaOK, SemaSet, HandleSignal
  <2>2. \A x \in Waiters : slot'[x].semaphore = slot[x].semaphore /\ slot'[x].live = slot[x].live
    BY <1>7, <1>t DEF SlotOK, BlockerSet, HandleSignal
  <2> QED
    BY <2>1, <2>2, <2>p DEF Exact
<1>8. ASSUME NEW p \in Posters, Signal(p) PROVE Exact'
  <2>p. ~dangling /\ panic = "none" /\ Exact /\ Listed
    BY <1>8 DEF IInv, Signal, SomeoneBlocked
  <2>1. sema'.blocked = sema.blocked /\ sema'.num = sema.num
    BY <1>8, <1>t DEF SemaOK, SemaSet, Signal, SomeoneBlocked
  <2>2. \A x \in Waiters : slot'[x].semaphore = slot[x].semaphore /\ slot'[x].live = slot[x].live
    BY <1>8, <1>t DEF SlotOK, BlockerSet, Signal, SomeoneBlocked
  <2> QED
    BY <2>1, <2>2, <2>p DEF Exact
<1>9. ASSUME NEW p \in Posters, PostFront(p) PROVE Exact'
  <2>p. ~dangling /\ panic = "none" /\ Exact /\ Listed
    BY <1>9 DEF IInv, PostFront
  <2>a. sema.blocked # <<>> => Head(sema.blocked) \in Waiters /\ Head(sema.blocked) \in ToSet(sema.blocked)
    BY <1>t, FrontListed DEF SemaOK, SemaSet
  <2>1. sema'.blocked = sema.blocked /\ sema'.num = sema.num
    BY <1>9, <1>t DEF SemaOK, SemaSet, PostFront
  <2>2. \A x \in Waiters : slot'[x].semaphore = slot[x].semaphore /\ slot'[x].live = slot[x].live
    BY <2>a, <1>9, <1>t DEF SlotOK, BlockerSet, PostFront
  <2> QED
    BY <2>1, <2>2, <2>p DEF Exact
<1>10. ASSUME NEW p \in Posters, PostRelease(p) PROVE Exact'
  <2>p. ~dangling /\ panic = "none" /\ Exact /\ Listed
    BY <1>10 DEF IInv, PostRelease
  <2>a. Aim(p) \in Waiters
    BY <1>10, <1>t, Aiming
  <2>1. sema'.blocked = sema.blocked /\ sema'.num = sema.num
    BY <1>10, <1>t DEF SemaOK, SemaSet, PostRelease
  <2>2. \A x \in Waiters : slot'[x].semaphore = slot[x].semaphore /\ slot'[x].live = slot[x].live
    BY <2>a, <1>10, <1>t DEF SlotOK, BlockerSet, PostRelease
  <2> QED
    BY <2>1, <2>2, <2>p DEF Exact
<1>11. ASSUME NEW k \in Killers, NEW w \in Waiters, Kill(k, w) PROVE Exact'
  <2>p. ~dangling /\ panic = "none" /\ Exact /\ Listed
    BY <1>11 DEF IInv, Kill
  <2>1. sema'.blocked = sema.blocked /\ sema'.num = sema.num
    BY <1>11, <1>t DEF SemaOK, SemaSet, Kill
  <2>2. \A x \in Waiters : slot'[x].semaphore = slot[x].semaphore /\ slot'[x].live = slot[x].live
    BY <1>11, <1>t DEF SlotOK, BlockerSet, Kill
  <2> QED
    BY <2>1, <2>2, <2>p DEF Exact
<1>12. ASSUME NEW k \in Killers, KillTest(k) PROVE Exact'
  <2>p. ~dangling /\ panic = "none" /\ Exact /\ Listed
    BY <1>12 DEF IInv, KillTest
  <2>1. sema'.blocked = sema.blocked /\ sema'.num = sema.num
    BY <1>12, <1>t DEF SemaOK, SemaSet, KillTest
  <2>2. \A x \in Waiters : slot'[x].semaphore = slot[x].semaphore /\ slot'[x].live = slot[x].live
    BY <1>12, <1>t DEF SlotOK, BlockerSet, KillTest
  <2> QED
    BY <2>1, <2>2, <2>p DEF Exact
<1>13. ASSUME NEW k \in Killers, KillInterrupt(k) PROVE Exact'
  <2>p. ~dangling /\ panic = "none" /\ Exact /\ Listed
    BY <1>13 DEF IInv, KillInterrupt
  <2>a. Aim(k) \in Waiters
    BY <1>13, <1>t, Aiming
  <2>1. sema'.blocked = sema.blocked /\ sema'.num = sema.num
    BY <1>13, <1>t DEF SemaOK, SemaSet, KillInterrupt
  <2>2. \A x \in Waiters : slot'[x].semaphore = slot[x].semaphore /\ slot'[x].live = slot[x].live
    BY <2>a, <1>13, <1>t DEF SlotOK, BlockerSet, KillInterrupt
  <2> QED
    BY <2>1, <2>2, <2>p DEF Exact
<1>14. ASSUME NEW k \in Killers, KillRelease(k) PROVE Exact'
  <2>p. ~dangling /\ panic = "none" /\ Exact /\ Listed
    BY <1>14 DEF IInv, KillRelease
  <2>a. Aim(k) \in Waiters
    BY <1>14, <1>t, Aiming
  <2>1. sema'.blocked = sema.blocked /\ sema'.num = sema.num
    BY <1>14, <1>t DEF SemaOK, SemaSet, KillRelease
  <2>2. \A x \in Waiters : slot'[x].semaphore = slot[x].semaphore /\ slot'[x].live = slot[x].live
    BY <2>a, <1>14, <1>t DEF SlotOK, BlockerSet, KillRelease
  <2> QED
    BY <2>1, <2>2, <2>p DEF Exact
<1>15. ASSUME NEW c \in Wakers, Detach(c) PROVE Exact'
  <2>p. ~dangling /\ panic = "none" /\ Exact /\ Listed
    BY <1>15 DEF IInv, Detach
  <2>r. IsInjective(sema.blocked) /\ panic = "none" /\ Aim(c) \in Waiters /\ RemoveIfListed(Aim(c))
    BY <1>15, <1>t, Aiming DEF IInv, Listed, Detach
  <2>1. slot[Aim(c)].live
    BY <1>15 DEF Detach, Dangles
  <2>2. /\ \A x \in Waiters : x # Aim(c) => slot'[x] = slot[x]
        /\ ~(slot'[Aim(c)].semaphore /\ slot'[Aim(c)].live)
    BY <2>r, <1>15, <1>t DEF SlotOK, BlockerSet, Detach
  <2>3. CASE slot[Aim(c)].semaphore
    <3>1. /\ sema'.num = Len(sema'.blocked)
          /\ \A x : x \in ToSet(sema.blocked) /\ x # Aim(c) => x \in ToSet(sema'.blocked)
      BY <2>1, <2>3, <2>p, <2>r, <1>t, Removal DEF Exact
    <3> QED
      BY <3>1, <2>2, <2>p DEF Exact
  <2>4. CASE ~slot[Aim(c)].semaphore
    <3>1. sema' = sema
      BY <2>4, <2>r, <1>t, Removal
    <3> QED
      BY <3>1, <2>2, <2>p DEF Exact
  <2> QED
    BY <2>3, <2>4
<1>16. ASSUME NEW c \in Wakers, Wake(c) PROVE Exact'
  <2>p. ~dangling /\ panic = "none" /\ Exact /\ Listed
    BY <1>16 DEF IInv, Wake, Unblock
  <2>a. Aim(c) \in Waiters
    BY <1>16, <1>t, Aiming
  <2>1. sema'.blocked = sema.blocked /\ sema'.num = sema.num
    BY <1>16, <1>t DEF SemaOK, SemaSet, Wake, Unblock
  <2>2. \A x \in Waiters : slot'[x].semaphore = slot[x].semaphore /\ slot'[x].live = slot[x].live
    BY <2>a, <1>16, <1>t DEF SlotOK, BlockerSet, Wake, Unblock
  <2> QED
    BY <2>1, <2>2, <2>p DEF Exact
<1> QED
  BY <1>1, <1>2, <1>3, <1>4, <1>5, <1>6, <1>7, <1>8, <1>9, <1>10, <1>11, <1>12, <1>13, <1>14, <1>15, <1>16, Steps

LEMMA StepCalm == IInv /\ Next /\ ~dangling' /\ panic' = "none" /\ NoSignal' => Calm'
<1> SUFFICES ASSUME IInv, Next, ~dangling' /\ panic' = "none" /\ NoSignal' PROVE Calm'
  OBVIOUS
<1>t. SemaOK /\ SlotOK /\ ThreadOK /\ AimOK /\ PlaceOK
  BY TypeParts DEF IInv
<1> USE ContextsAre DEF At, Goto, Call
<1>1. ASSUME NEW w \in Waiters, Wait(w) PROVE Calm'
  <2>p. ~dangling /\ panic = "none" /\ NoSignal /\ Calm
    BY <1>1, <1>t DEF IInv, NoSignal, PlaceOK, Wait, MustBlock
  <2>k. \A k \in Killers : pc'[k] = "idle"
    BY <2>p, <1>1, <1>t DEF Calm, PlaceOK, Wait, MustBlock
  <2>n. sema.value \in Int /\ sema.num \in Nat
    BY <1>t, Numbers
  <2>u. ASSUME NEW x \in Waiters PROVE Untouched(x)'
    <3>1. Untouched(x)
      BY <2>p DEF Calm
    <3> QED
      BY <3>1, <1>1, <1>t DEF Untouched, SlotOK, BlockerSet, ThreadOK, ThreadSet, PlaceOK, Wait, MustBlock, NewBlocker
  <2>1. \A q \in Posters : pc[q] = "idle"
    BY <1>1, NobodyPosts DEF IInv, Wait, MustBlock
  <2>2. \A q \in Posters : pc'[q] # "detach"
    BY <2>1, <1>1, <1>t DEF PlaceOK, Wait, MustBlock
  <2>i. ASSUME NEW x \in Waiters PROVE InHand(x)'
    <3>1. ~(~slot[x].shouldBlock /\ slot[x].semaphore /\ slot[x].live)
      BY <2>p, <2>1 DEF Calm, InHand
    <3> QED
      BY <3>1, <1>1, <1>t DEF InHand, SlotOK, BlockerSet, Wait, MustBlock, NewBlocker
  <2>d. \A q \in Posters : (pc[q] = "detach" /\ slot[Aim(q)].live => slot[Aim(q)].semaphore)'
    BY <2>2
  <2>3. ~(\E q \in Posters : Taking(q)) /\ ~(\E q \in Posters : Taking(q))'
    BY <2>1, <1>1, <1>t DEF Taking, PlaceOK, Wait
  <2>5. sema'.value = sema.value - 1 /\ sema'.num = IF sema.value - 1 < 0 THEN sema.num + 1 ELSE sema.num
    BY <1>1, <1>t, WaitNumbers
  <2>4. (sema.num = Waits + (IF \E q \in Posters : Taking(q) THEN 1 ELSE 0))'
    BY <2>3, <2>5, <2>n, <2>p DEF Calm, Waits
  <2> QED
    BY <2>k, <2>u, <2>i, <2>d, <2>4 DEF Calm
<1>2. ASSUME NEW w \in Waiters, Block(w) PROVE Calm'
  <2>p. ~dangling /\ panic = "none" /\ NoSignal /\ Calm
    BY <1>2, <1>t DEF IInv, NoSignal, PlaceOK, Block
  <2>k. \A k \in Killers : pc'[k] = "idle"
    BY <2>p, <1>2, <1>t DEF Calm, PlaceOK, Block
  <2>n. sema.value \in Int /\ sema.num \in Nat
    BY <1>t, Numbers
  <2>u. ASSUME NEW x \in Waiters PROVE Untouched(x)'
    <3>1. Untouched(x)
      BY <2>p DEF Calm
    <3> QED
      BY <3>1, <1>2, <1>t, SMTT(60) DEF Untouched, SlotOK, BlockerSet, ThreadOK, ThreadSet, PlaceOK, Block
  <2>1. sema'.value = sema.value /\ sema'.num = sema.num /\ aim' = aim
    BY <1>2, <1>t DEF SemaOK, SemaSet, Block
  <2>2. \A x \in Waiters : /\ slot'[x].semaphore = slot[x].semaphore /\ slot'[x].live = slot[x].live
                           /\ slot'[x].shouldBlock = slot[x].shouldBlock
    BY <1>2, <1>t DEF SlotOK, BlockerSet, Block
  <2>3. \A q \in Posters : /\ Aim(q)' = Aim(q) /\ Aim(q) \in Waiters
                           /\ (pc'[q] = "detach" <=> pc[q] = "detach") /\ (pc'[q] = "front" <=> pc[q] = "front")
    BY <2>1, <1>2, <1>t, Aiming DEF Aim, PlaceOK, Block
  <2>i. ASSUME NEW x \in Waiters PROVE InHand(x)'
    BY <2>2, <2>3, <2>p DEF Calm, InHand
  <2>d. \A q \in Posters : (pc[q] = "detach" /\ slot[Aim(q)].live => slot[Aim(q)].semaphore)'
    BY <2>2, <2>3, <2>p DEF Calm
  <2>4. (sema.num = Waits + (IF \E q \in Posters : Taking(q) THEN 1 ELSE 0))'
    <3>1. \A q \in Posters : Taking(q)' <=> Taking(q)
      BY <2>2, <2>3 DEF Taking
    <3> QED
      BY <3>1, <2>1, <2>p DEF Calm, Waits
  <2> QED
    BY <2>k, <2>u, <2>i, <2>d, <2>4 DEF Calm
<1>3. ASSUME NEW w \in Waiters, BlockPending(w) PROVE Calm'
  <2>p. ~dangling /\ panic = "none" /\ NoSignal /\ Calm
    BY <1>3, <1>t DEF IInv, NoSignal, PlaceOK, BlockPending, SeesSignal
  <2>k. \A k \in Killers : pc'[k] = "idle"
    BY <2>p, <1>3, <1>t DEF Calm, PlaceOK, BlockPending, SeesSignal
  <2>n. sema.value \in Int /\ sema.num \in Nat
    BY <1>t, Numbers
  <2>u. ASSUME NEW x \in Waiters PROVE Untouched(x)'
    <3>1. Untouched(x)
      BY <2>p DEF Calm
    <3> QED
      BY <3>1, <1>3, <1>t DEF Untouched, SlotOK, BlockerSet, ThreadOK, ThreadSet, PlaceOK, BlockPending, SeesSignal
  <2>1. sema'.value = sema.value /\ sema'.num = sema.num /\ aim' = aim
    BY <1>3, <1>t DEF SemaOK, SemaSet, BlockPending, SeesSignal
  <2>2. \A x \in Waiters : /\ slot'[x].semaphore = slot[x].semaphore /\ slot'[x].live = slot[x].live
                           /\ slot'[x].shouldBlock = slot[x].shouldBlock
    BY <1>3, <1>t DEF SlotOK, BlockerSet, BlockPending, SeesSignal
  <2>3. \A q \in Posters : /\ Aim(q)' = Aim(q) /\ Aim(q) \in Waiters
                           /\ (pc'[q] = "detach" <=> pc[q] = "detach") /\ (pc'[q] = "front" <=> pc[q] = "front")
    BY <2>1, <1>3, <1>t, Aiming DEF Aim, PlaceOK, BlockPending, SeesSignal
  <2>i. ASSUME NEW x \in Waiters PROVE InHand(x)'
    BY <2>2, <2>3, <2>p DEF Calm, InHand
  <2>d. \A q \in Posters : (pc[q] = "detach" /\ slot[Aim(q)].live => slot[Aim(q)].semaphore)'
    BY <2>2, <2>3, <2>p DEF Calm
  <2>4. (sema.num = Waits + (IF \E q \in Posters : Taking(q) THEN 1 ELSE 0))'
    <3>1. \A q \in Posters : Taking(q)' <=> Taking(q)
      BY <2>2, <2>3 DEF Taking
    <3> QED
      BY <3>1, <2>1, <2>p DEF Calm, Waits
  <2> QED
    BY <2>k, <2>u, <2>i, <2>d, <2>4 DEF Calm
<1>4. ASSUME NEW w \in Waiters, BlockCommit(w) PROVE Calm'
  <2>p. ~dangling /\ panic = "none" /\ NoSignal /\ Calm
    BY <1>4, <1>t DEF IInv, NoSignal, PlaceOK, BlockCommit
  <2>k. \A k \in Killers : pc'[k] = "idle"
    BY <2>p, <1>4, <1>t DEF Calm, PlaceOK, BlockCommit
  <2>n. sema.value \in Int /\ sema.num \in Nat
    BY <1>t, Numbers
  <2>u. ASSUME NEW x \in Waiters PROVE Untouched(x)'
    <3>1. Untouched(x)
      BY <2>p DEF Calm
    <3> QED
      BY <3>1, <1>4, <1>t DEF Untouched, SlotOK, BlockerSet, ThreadOK, ThreadSet, PlaceOK, BlockCommit
  <2>1. sema'.value = sema.value /\ sema'.num = sema.num /\ aim' = aim
    BY <1>4, <1>t DEF SemaOK, SemaSet, BlockCommit
  <2>2. \A x \in Waiters : /\ slot'[x].semaphore = slot[x].semaphore /\ slot'[x].live = slot[x].live
                           /\ slot'[x].shouldBlock = slot[x].shouldBlock
    BY <1>4, <1>t DEF SlotOK, BlockerSet, BlockCommit
  <2>3. \A q \in Posters : /\ Aim(q)' = Aim(q) /\ Aim(q) \in Waiters
                           /\ (pc'[q] = "detach" <=> pc[q] = "detach") /\ (pc'[q] = "front" <=> pc[q] = "front")
    BY <2>1, <1>4, <1>t, Aiming DEF Aim, PlaceOK, BlockCommit
  <2>i. ASSUME NEW x \in Waiters PROVE InHand(x)'
    BY <2>2, <2>3, <2>p DEF Calm, InHand
  <2>d. \A q \in Posters : (pc[q] = "detach" /\ slot[Aim(q)].live => slot[Aim(q)].semaphore)'
    BY <2>2, <2>3, <2>p DEF Calm
  <2>4. (sema.num = Waits + (IF \E q \in Posters : Taking(q) THEN 1 ELSE 0))'
    <3>1. \A q \in Posters : Taking(q)' <=> Taking(q)
      BY <2>2, <2>3 DEF Taking
    <3> QED
      BY <3>1, <2>1, <2>p DEF Calm, Waits
  <2> QED
    BY <2>k, <2>u, <2>i, <2>d, <2>4 DEF Calm
<1>5. ASSUME NEW w \in Waiters, Resume(w) PROVE Calm'
  <2>p. ~dangling /\ panic = "none" /\ NoSignal /\ Calm
    BY <1>5, <1>t DEF IInv, NoSignal, PlaceOK, Resume, WasInterrupted
  <2>k. \A k \in Killers : pc'[k] = "idle"
    BY <2>p, <1>5, <1>t DEF Calm, PlaceOK, Resume, WasInterrupted
  <2>n. sema.value \in Int /\ sema.num \in Nat
    BY <1>t, Numbers
  <2>u. ASSUME NEW x \in Waiters PROVE Untouched(x)'
    <3>1. Untouched(x)
      BY <2>p DEF Calm
    <3> QED
      BY <3>1, <1>5, <1>t DEF Untouched, SlotOK, BlockerSet, ThreadOK, ThreadSet, PlaceOK, Resume, WasInterrupted
  <2>1. sema'.value = sema.value /\ sema'.num = sema.num /\ aim' = aim
    BY <1>5, <1>t DEF SemaOK, SemaSet, Resume, WasInterrupted
  <2>2. \A x \in Waiters : /\ slot'[x].semaphore = slot[x].semaphore /\ slot'[x].live = slot[x].live
                           /\ slot'[x].shouldBlock = slot[x].shouldBlock
    BY <1>5, <1>t DEF SlotOK, BlockerSet, Resume, WasInterrupted
  <2>3. \A q \in Posters : /\ Aim(q)' = Aim(q) /\ Aim(q) \in Waiters
                           /\ (pc'[q] = "detach" <=> pc[q] = "detach") /\ (pc'[q] = "front" <=> pc[q] = "front")
    BY <2>1, <1>5, <1>t, Aiming DEF Aim, PlaceOK, Resume, WasInterrupted
  <2>i. ASSUME NEW x \in Waiters PROVE InHand(x)'
    BY <2>2, <2>3, <2>p DEF Calm, InHand
  <2>d. \A q \in Posters : (pc[q] = "detach" /\ slot[Aim(q)].live => slot[Aim(q)].semaphore)'
    BY <2>2, <2>3, <2>p DEF Calm
  <2>4. (sema.num = Waits + (IF \E q \in Posters : Taking(q) THEN 1 ELSE 0))'
    <3>1. \A q \in Posters : Taking(q)' <=> Taking(q)
      BY <2>2, <2>3 DEF Taking
    <3> QED
      BY <3>1, <2>1, <2>p DEF Calm, Waits
  <2> QED
    BY <2>k, <2>u, <2>i, <2>d, <2>4 DEF Calm
<1>6. ASSUME NEW w \in Waiters, Return(w) PROVE Calm'
  <2>p. ~dangling /\ panic = "none" /\ NoSignal /\ Calm
    BY <1>6, <1>t DEF IInv, NoSignal, PlaceOK, Return
  <2>r. IsInjective(sema.blocked) /\ panic = "none" /\ w \in Waiters /\ RemoveIfListed(w)
    BY <1>6, <1>t, Aiming DEF IInv, Listed, Return
  <2>k. \A k \in Killers : pc'[k] = "idle"
    BY <2>p, <2>r, <1>6, <1>t DEF Calm, PlaceOK, Return
  <2>n. sema.value \in Int /\ sema.num \in Nat
    BY <1>t, Numbers
  <2>u. ASSUME NEW x \in Waiters PROVE Untouched(x)'
    <3>1. Untouched(x)
      BY <2>p DEF Calm
    <3> QED
      BY <3>1, <2>r, <1>6, <1>t DEF Untouched, SlotOK, BlockerSet, ThreadOK, ThreadSet, PlaceOK, Return
  <2>1. ~slot[w].shouldBlock /\ slot[w].live /\ aim' = aim /\ \A q \in Posters : pc'[q] = pc[q]
    BY <2>p, <1>6, <1>t DEF IInv, Awake, Lives, Calm, Untouched, Return, PlaceOK
  <2>2. /\ \A x \in Waiters : x # w => slot'[x] = slot[x]
        /\ ~slot'[w].live
    BY <1>6, <1>t DEF SlotOK, BlockerSet, Return
  <2>3. \A q \in Posters : Aim(q)' = Aim(q) /\ Aim(q) \in Waiters
    BY <2>1, <1>t, Aiming DEF Aim
  <2>i. ASSUME NEW x \in Waiters PROVE InHand(x)'
    BY <2>1, <2>2, <2>3, <2>p DEF Calm, InHand
  <2>d. \A q \in Posters : (pc[q] = "detach" /\ slot[Aim(q)].live => slot[Aim(q)].semaphore)'
    BY <2>1, <2>2, <2>3, <2>p DEF Calm
  <2>5. sema'.value = sema.value
    BY <2>r, <1>t, Removal
  <2>6. CASE slot[w].semaphore
    <3>1. sema'.num = sema.num - 1
      BY <2>6, <2>r, <1>t, Removal
    <3>2. PICK p \in Posters : pc[p] = "detach" /\ Aim(p) = w
      BY <2>6, <2>1, <2>p DEF Calm, InHand
    <3>3. Taking(p) /\ \A q \in Posters : q # p => pc[q] = "idle"
      BY <3>2, <2>1 DEF Taking, IInv, OneHolds
    <3>4. \A q \in Posters : ~Taking(q)'
      BY <3>2, <3>3, <2>1, <2>2, <2>3 DEF Taking
    <3> QED
      BY <3>1, <3>3, <3>4, <2>5, <2>n, <2>p, <2>k, <2>u, <2>i, <2>d DEF Calm, Waits
  <2>7. CASE ~slot[w].semaphore
    <3>1. sema' = sema
      BY <2>7, <2>r, <1>t, Removal
    <3>2. \A q \in Posters : Taking(q)' <=> Taking(q)
      BY <2>7, <2>1, <2>2, <2>3, <2>p DEF Calm, Taking
    <3> QED
      BY <3>1, <3>2, <2>n, <2>p, <2>k, <2>u, <2>i, <2>d DEF Calm, Waits
  <2> QED
    BY <2>6, <2>7
<1>7. ASSUME NEW w \in Waiters, HandleSignal(w) PROVE Calm'
  <2>p. ~dangling /\ panic = "none" /\ NoSignal /\ Calm
    BY <1>7, <1>t DEF IInv, NoSignal, PlaceOK, HandleSignal
  <2>k. \A k \in Killers : pc'[k] = "idle"
    BY <2>p, <1>7, <1>t DEF Calm, PlaceOK, HandleSignal
  <2>n. sema.value \in Int /\ sema.num \in Nat
    BY <1>t, Numbers
  <2>u. ASSUME NEW x \in Waiters PROVE Untouched(x)'
    <3>1. Untouched(x)
      BY <2>p DEF Calm
    <3> QED
      BY <3>1, <1>7, <1>t DEF Untouched, SlotOK, BlockerSet, ThreadOK, ThreadSet, PlaceOK, HandleSignal
  <2>1. sema'.value = sema.value /\ sema'.num = sema.num /\ aim' = aim
    BY <1>7, <1>t DEF SemaOK, SemaSet, HandleSignal
  <2>2. \A x \in Waiters : /\ slot'[x].semaphore = slot[x].semaphore /\ slot'[x].live = slot[x].live
                           /\ slot'[x].shouldBlock = slot[x].shouldBlock
    BY <1>7, <1>t DEF SlotOK, BlockerSet, HandleSignal
  <2>3. \A q \in Posters : /\ Aim(q)' = Aim(q) /\ Aim(q) \in Waiters
                           /\ (pc'[q] = "detach" <=> pc[q] = "detach") /\ (pc'[q] = "front" <=> pc[q] = "front")
    BY <2>1, <1>7, <1>t, Aiming DEF Aim, PlaceOK, HandleSignal
  <2>i. ASSUME NEW x \in Waiters PROVE InHand(x)'
    BY <2>2, <2>3, <2>p DEF Calm, InHand
  <2>d. \A q \in Posters : (pc[q] = "detach" /\ slot[Aim(q)].live => slot[Aim(q)].semaphore)'
    BY <2>2, <2>3, <2>p DEF Calm
  <2>4. (sema.num = Waits + (IF \E q \in Posters : Taking(q) THEN 1 ELSE 0))'
    <3>1. \A q \in Posters : Taking(q)' <=> Taking(q)
      BY <2>2, <2>3 DEF Taking
    <3> QED
      BY <3>1, <2>1, <2>p DEF Calm, Waits
  <2> QED
    BY <2>k, <2>u, <2>i, <2>d, <2>4 DEF Calm
<1>8. ASSUME NEW p \in Posters, Signal(p) PROVE Calm'
  <2>p. ~dangling /\ panic = "none" /\ NoSignal /\ Calm
    BY <1>8, <1>t DEF IInv, NoSignal, PlaceOK, Signal, SomeoneBlocked
  <2>k. \A k \in Killers : pc'[k] = "idle"
    BY <2>p, <1>8, <1>t DEF Calm, PlaceOK, Signal, SomeoneBlocked
  <2>n. sema.value \in Int /\ sema.num \in Nat
    BY <1>t, Numbers
  <2>u. ASSUME NEW x \in Waiters PROVE Untouched(x)'
    <3>1. Untouched(x)
      BY <2>p DEF Calm
    <3> QED
      BY <3>1, <1>8, <1>t DEF Untouched, SlotOK, BlockerSet, ThreadOK, ThreadSet, PlaceOK, Signal, SomeoneBlocked
  <2>1. \A q \in Posters : pc[q] = "idle"
    BY <1>8, NobodyPosts DEF IInv, Signal, SomeoneBlocked
  <2>2. \A q \in Posters : pc'[q] # "detach"
    BY <2>1, <1>8, <1>t DEF PlaceOK, Signal, SomeoneBlocked
  <2>i. ASSUME NEW x \in Waiters PROVE InHand(x)'
    <3>1. ~(~slot[x].shouldBlock /\ slot[x].semaphore /\ slot[x].live)
      BY <2>p, <2>1 DEF Calm, InHand
    <3> QED
      BY <3>1, <1>8, <1>t DEF InHand, SlotOK, BlockerSet, Signal, SomeoneBlocked
  <2>d. \A q \in Posters : (pc[q] = "detach" /\ slot[Aim(q)].live => slot[Aim(q)].semaphore)'
    BY <2>2
  <2>3. ~(\E q \in Posters : Taking(q)) /\ ((\E q \in Posters : Taking(q))' <=> sema.num > 0)
    BY <2>1, <1>8, <1>t DEF Taking, PlaceOK, Signal, SomeoneBlocked
  <2>5. sema'.value = sema.value + 1 /\ sema'.num = sema.num
    BY <1>8, <1>t DEF Signal, SemaOK, SemaSet
  <2>4. (sema.num = Waits + (IF \E q \in Posters : Taking(q) THEN 1 ELSE 0))'
    BY <2>3, <2>5, <2>n, <2>p DEF Calm, Waits
  <2> QED
    BY <2>k, <2>u, <2>i, <2>d, <2>4 DEF Calm
<1>9. ASSUME NEW p \in Posters, PostFront(p) PROVE Calm'
  <2>p. ~dangling /\ panic = "none" /\ NoSignal /\ Calm
    BY <1>9, <1>t DEF IInv, NoSignal, PlaceOK, PostFront
  <2>a. sema.blocked # <<>> => Head(sema.blocked) \in Waiters /\ Head(sema.blocked) \in ToSet(sema.blocked)
    BY <1>t, FrontListed DEF SemaOK, SemaSet
  <2>k. \A k \in Killers : pc'[k] = "idle"
    BY <2>p, <2>a, <1>9, <1>t DEF Calm, PlaceOK, PostFront
  <2>n. sema.value \in Int /\ sema.num \in Nat
    BY <1>t, Numbers
  <2>u. ASSUME NEW x \in Waiters PROVE Untouched(x)'
    <3>1. Untouched(x)
      BY <2>p DEF Calm
    <3>2. sema.blocked # <<>> /\ thread' = thread
      BY <2>p, <1>9 DEF PostFront
    <3>3. slot'[x].interrupted = slot[x].interrupted /\ pc'[x] = pc[x]
      BY <3>2, <2>a, <1>9, <1>t, SMTT(60) DEF SlotOK, BlockerSet, PlaceOK, PostFront
    <3> QED
      BY <3>1, <3>2, <3>3 DEF Untouched
  <2>1. sema.blocked # <<>> /\ Listed
    BY <2>p, <1>9 DEF PostFront, IInv
  <2> DEFINE h == Head(sema.blocked)
  <2>2. h \in Waiters /\ slot[h].semaphore /\ slot[h].live
    BY <2>a, <2>1 DEF Listed
  <2>3. /\ aim' = [aim EXCEPT ![p] = [waiter |-> h, call |-> calls[h]]] /\ sema' = sema
        /\ slot' = [slot EXCEPT ![h].shouldBlock = FALSE] /\ pc' = [pc EXCEPT ![p] = "detach"]
    BY <2>1, <1>9 DEF PostFront
  <2> HIDE DEF h
  <2>5. /\ aim'[p].waiter = h /\ pc'[p] = "detach"
        /\ \A q \in Posters : q # p => pc'[q] = "idle"
        /\ \A x \in Waiters : slot'[x].semaphore = slot[x].semaphore /\ slot'[x].live = slot[x].live
        /\ \A x \in Waiters : x # h => slot'[x] = slot[x]
    BY <2>2, <2>3, <1>9, <1>t DEF AimOK, PlaceOK, SlotOK, BlockerSet, IInv, OneHolds, PostFront
  <2>i. ASSUME NEW x \in Waiters PROVE InHand(x)'
    <3>1. CASE x = h
      BY <3>1, <2>5 DEF InHand, Aim
    <3>2. CASE x # h
      <4>1. \A q \in Posters : pc[q] # "detach"
        BY <1>9, <1>t DEF IInv, OneHolds, PostFront
      <4> QED
        BY <4>1, <3>2, <2>5, <2>p DEF Calm, InHand
    <3> QED
      BY <3>1, <3>2
  <2>d. \A q \in Posters : (pc[q] = "detach" /\ slot[Aim(q)].live => slot[Aim(q)].semaphore)'
    BY <2>2, <2>5 DEF Aim
  <2>6. Taking(p) /\ Taking(p)'
    BY <2>2, <2>5, <1>9 DEF Taking, Aim, PostFront
  <2>4. (sema.num = Waits + (IF \E q \in Posters : Taking(q) THEN 1 ELSE 0))'
    BY <2>3, <2>6, <2>p DEF Calm, Waits
  <2> QED
    BY <2>k, <2>u, <2>i, <2>d, <2>4 DEF Calm
<1>10. ASSUME NEW p \in Posters, PostRelease(p) PROVE Calm'
  <2>p. ~dangling /\ panic = "none" /\ NoSignal /\ Calm
    BY <1>10, <1>t DEF IInv, NoSignal, PlaceOK, PostRelease
  <2>a. Aim(p) \in Waiters
    BY <1>10, <1>t, Aiming
  <2>k. \A k \in Killers : pc'[k] = "idle"
    BY <2>p, <2>a, <1>10, <1>t DEF Calm, PlaceOK, PostRelease
  <2>n. sema.value \in Int /\ sema.num \in Nat
    BY <1>t, Numbers
  <2>u. ASSUME NEW x \in Waiters PROVE Untouched(x)'
    <3>1. Untouched(x)
      BY <2>p DEF Calm
    <3> QED
      BY <3>1, <2>a, <1>10, <1>t DEF Untouched, SlotOK, BlockerSet, ThreadOK, ThreadSet, PlaceOK, PostRelease
  <2>1. sema'.value = sema.value /\ sema'.num = sema.num /\ aim' = aim
    BY <1>10, <1>t DEF SemaOK, SemaSet, PostRelease
  <2>2. \A x \in Waiters : /\ slot'[x].semaphore = slot[x].semaphore /\ slot'[x].live = slot[x].live
                           /\ slot'[x].shouldBlock = slot[x].shouldBlock
    BY <2>a, <1>10, <1>t DEF SlotOK, BlockerSet, PostRelease
  <2>3. \A q \in Posters : /\ Aim(q)' = Aim(q) /\ Aim(q) \in Waiters
                           /\ (pc'[q] = "detach" <=> pc[q] = "detach") /\ (pc'[q] = "front" <=> pc[q] = "front")
    BY <2>1, <2>a, <1>10, <1>t, Aiming DEF Aim, PlaceOK, PostRelease
  <2>i. ASSUME NEW x \in Waiters PROVE InHand(x)'
    BY <2>2, <2>3, <2>p DEF Calm, InHand
  <2>d. \A q \in Posters : (pc[q] = "detach" /\ slot[Aim(q)].live => slot[Aim(q)].semaphore)'
    BY <2>2, <2>3, <2>p DEF Calm
  <2>4. (sema.num = Waits + (IF \E q \in Posters : Taking(q) THEN 1 ELSE 0))'
    <3>1. \A q \in Posters : Taking(q)' <=> Taking(q)
      BY <2>2, <2>3 DEF Taking
    <3> QED
      BY <3>1, <2>1, <2>p DEF Calm, Waits
  <2> QED
    BY <2>k, <2>u, <2>i, <2>d, <2>4 DEF Calm
<1>11. ASSUME NEW k \in Killers, NEW w \in Waiters, Kill(k, w) PROVE Calm'
  BY <1>11, <1>t DEF NoSignal, PlaceOK, Kill
<1>12. ASSUME NEW k \in Killers, KillTest(k) PROVE Calm'
  <2>p. ~dangling /\ panic = "none" /\ NoSignal /\ Calm
    BY <1>12, <1>t DEF IInv, NoSignal, PlaceOK, KillTest
  <2> QED
    BY <2>p, <1>12 DEF Calm, KillTest
<1>13. ASSUME NEW k \in Killers, KillInterrupt(k) PROVE Calm'
  <2>p. ~dangling /\ panic = "none" /\ NoSignal /\ Calm
    BY <1>13, <1>t DEF IInv, NoSignal, PlaceOK, KillInterrupt
  <2> QED
    BY <2>p, <1>13 DEF Calm, KillInterrupt
<1>14. ASSUME NEW k \in Killers, KillRelease(k) PROVE Calm'
  <2>p. ~dangling /\ panic = "none" /\ NoSignal /\ Calm
    BY <1>14, <1>t DEF IInv, NoSignal, PlaceOK, KillRelease
  <2> QED
    BY <2>p, <1>14 DEF Calm, KillRelease
<1>15. ASSUME NEW c \in Wakers, Detach(c) PROVE Calm'
  <2>p. ~dangling /\ panic = "none" /\ NoSignal /\ Calm
    BY <1>15, <1>t DEF IInv, NoSignal, PlaceOK, Detach
  <2>r. IsInjective(sema.blocked) /\ panic = "none" /\ Aim(c) \in Waiters /\ RemoveIfListed(Aim(c))
    BY <1>15, <1>t, Aiming DEF IInv, Listed, Detach
  <2>c. c \in Posters /\ Aim(c) \in Waiters
    BY <2>p, <1>15, <1>t, Aiming DEF Calm, Detach
  <2>k. \A k \in Killers : pc'[k] = "idle"
    BY <2>p, <2>r, <2>c, <1>15, <1>t DEF Calm, PlaceOK, Detach
  <2>n. sema.value \in Int /\ sema.num \in Nat
    BY <1>t, Numbers
  <2>u. ASSUME NEW x \in Waiters PROVE Untouched(x)'
    <3>1. Untouched(x)
      BY <2>p DEF Calm
    <3> QED
      BY <3>1, <2>r, <2>c, <1>15, <1>t DEF Untouched, SlotOK, BlockerSet, ThreadOK, ThreadSet, PlaceOK, Detach
  <2>1. slot[Aim(c)].live /\ slot[Aim(c)].semaphore /\ Taking(c) /\ aim' = aim
    BY <2>p, <2>c, <1>15 DEF Detach, Dangles, Calm, Taking
  <2>2. sema'.num = sema.num - 1 /\ sema'.value = sema.value
    BY <2>1, <2>r, <1>t, Removal
  <2>3. /\ \A q \in Posters : q # c => pc[q] = "idle"
        /\ \A q \in Posters : pc'[q] \notin {"detach", "front"}
    BY <2>c, <1>15, <1>t DEF IInv, OneHolds, PlaceOK, Detach
  <2>i. ASSUME NEW x \in Waiters PROVE InHand(x)'
    <3>1. CASE x = Aim(c)
      BY <3>1, <2>c, <1>15, <1>t DEF InHand, Detach, SlotOK, BlockerSet
    <3>2. CASE x # Aim(c)
      <4>1. slot'[x] = slot[x]
        BY <3>2, <2>c, <1>15, <1>t DEF Detach, SlotOK
      <4>2. ~(~slot[x].shouldBlock /\ slot[x].semaphore /\ slot[x].live)
        BY <3>2, <2>3, <2>p DEF Calm, InHand
      <4> QED
        BY <4>1, <4>2 DEF InHand
    <3> QED
      BY <3>1, <3>2
  <2>d. \A q \in Posters : (pc[q] = "detach" /\ slot[Aim(q)].live => slot[Aim(q)].semaphore)'
    BY <2>3
  <2>4. (sema.num = Waits + (IF \E q \in Posters : Taking(q) THEN 1 ELSE 0))'
    BY <2>1, <2>2, <2>3, <2>c, <2>n, <2>p DEF Calm, Waits, Taking
  <2> QED
    BY <2>k, <2>u, <2>i, <2>d, <2>4 DEF Calm
<1>16. ASSUME NEW c \in Wakers, Wake(c) PROVE Calm'
  <2>p. ~dangling /\ panic = "none" /\ NoSignal /\ Calm
    BY <1>16, <1>t DEF IInv, NoSignal, PlaceOK, Wake, Unblock
  <2>a. Aim(c) \in Waiters
    BY <1>16, <1>t, Aiming
  <2>c. c \in Posters /\ Aim(c) \in Waiters
    BY <2>p, <1>16, <1>t, Aiming DEF Calm, Wake, Unblock
  <2>k. \A k \in Killers : pc'[k] = "idle"
    BY <2>p, <2>a, <2>c, <1>16, <1>t DEF Calm, PlaceOK, Wake, Unblock
  <2>n. sema.value \in Int /\ sema.num \in Nat
    BY <1>t, Numbers
  <2>u. ASSUME NEW x \in Waiters PROVE Untouched(x)'
    <3>1. Untouched(x)
      BY <2>p DEF Calm
    <3> QED
      BY <3>1, <2>a, <2>c, <1>16, <1>t DEF Untouched, SlotOK, BlockerSet, ThreadOK, ThreadSet, PlaceOK, Wake, Unblock
  <2>1. sema'.value = sema.value /\ sema'.num = sema.num /\ aim' = aim
    BY <1>16, <1>t DEF SemaOK, SemaSet, Wake, Unblock
  <2>2. \A x \in Waiters : /\ slot'[x].semaphore = slot[x].semaphore /\ slot'[x].live = slot[x].live
                           /\ slot'[x].shouldBlock = slot[x].shouldBlock
    BY <2>a, <2>c, <1>16, <1>t DEF SlotOK, BlockerSet, Wake, Unblock
  <2>3. \A q \in Posters : /\ Aim(q)' = Aim(q) /\ Aim(q) \in Waiters
                           /\ (pc'[q] = "detach" <=> pc[q] = "detach") /\ (pc'[q] = "front" <=> pc[q] = "front")
    BY <2>1, <2>a, <2>c, <1>16, <1>t, Aiming DEF Aim, PlaceOK, Wake, Unblock
  <2>i. ASSUME NEW x \in Waiters PROVE InHand(x)'
    BY <2>2, <2>3, <2>p DEF Calm, InHand
  <2>d. \A q \in Posters : (pc[q] = "detach" /\ slot[Aim(q)].live => slot[Aim(q)].semaphore)'
    BY <2>2, <2>3, <2>p DEF Calm
  <2>4. (sema.num = Waits + (IF \E q \in Posters : Taking(q) THEN 1 ELSE 0))'
    <3>1. \A q \in Posters : Taking(q)' <=> Taking(q)
      BY <2>2, <2>3 DEF Taking
    <3> QED
      BY <3>1, <2>1, <2>p DEF Calm, Waits
  <2> QED
    BY <2>k, <2>u, <2>i, <2>d, <2>4 DEF Calm
<1> QED
  BY <1>1, <1>2, <1>3, <1>4, <1>5, <1>6, <1>7, <1>8, <1>9, <1>10, <1>11, <1>12, <1>13, <1>14, <1>15, <1>16, Steps

-----------------------------------------------------------------------------
LEMMA InitIInv == Init => IInv
<1> SUFFICES ASSUME Init PROVE IInv
  OBVIOUS
<1>1. PICK w \in Waiters : aim = [c \in Wakers |-> [waiter |-> w, call |-> 0]]
  BY ContextsAssumption DEF Init
<1>2. TypeOK
  <2>1. SemaOK
    BY BoundsAssumption, Empty DEF Init, SemaOK, SemaSet
  <2>2. SlotOK
    <3>1. [NewBlocker EXCEPT !.semaphore = FALSE, !.live = FALSE] \in BlockerSet
      BY DEF NewBlocker, BlockerSet
    <3> QED
      BY <3>1 DEF Init, SlotOK
  <2>3. ThreadOK
    BY DEF Init, ThreadOK, ThreadSet
  <2>4. AimOK
    BY <1>1 DEF AimOK, AimSet
  <2>5. PlaceOK
    BY DEF Init, PlaceOK
  <2> QED
    BY <2>1, <2>2, <2>3, <2>4, <2>5, TypeParts
<1>3. \A v \in Waiters : slot[v].live = FALSE /\ slot[v].interrupted = FALSE /\ slot[v].semaphore = FALSE
  BY DEF Init, NewBlocker
<1>4. /\ \A v \in Waiters : /\ pc[v] = "idle" /\ ~thread[v].blocker /\ ~thread[v].pending
      /\ \A p \in Posters : pc[p] = "idle"
      /\ \A k \in Killers : pc[k] = "idle"
      /\ \A c \in Wakers : pc[c] = "idle"
  BY ContextsAre DEF Init
<1>5. sema.value = InitialValue /\ sema.num = 0 /\ sema.blocked = <<>> /\ permits.given = 0 /\ permits.taken = 0
  BY DEF Init
<1>6. OneHolds /\ (\A v \in Waiters : Lives(v) /\ Points(v) /\ Awake(v)) /\ \A c \in Wakers : LetGo(c)
  BY <1>3, <1>4 DEF OneHolds, Lives, Points, Awake, LetGo
<1>7. Listed /\ Exact
  BY <1>3, <1>5, Empty DEF Listed, Exact
<1>8. Counted /\ Calm
  BY <1>3, <1>4, <1>5, BoundsAssumption DEF Counted, ToTake, Waits, Calm, Untouched, InHand, Taking
<1>9. Granted
  <2>1. Served = {}
    BY <1>4 DEF Served, Picked
  <2>2. Cardinality(Served) = 0
    BY <2>1, FS_EmptySet
  <2> QED
    BY <1>4, <1>5, <2>2, BoundsAssumption DEF Granted, Available, Posted
<1> QED
  BY <1>2, <1>6, <1>7, <1>8, <1>9 DEF IInv

LEMMA Stutters == IInv /\ UNCHANGED vars => IInv'
<1> SUFFICES ASSUME IInv, UNCHANGED vars PROVE IInv'
  OBVIOUS
<1>1. TypeOK' /\ OneHolds'
  BY DEF IInv, vars, TypeOK, OneHolds
<1>2. \A v \in Waiters : Lives(v)' /\ Points(v)' /\ (Awake(v)' <=> Awake(v))
  BY DEF IInv, vars, Lives, Points, Awake
<1>3. \A c \in Wakers : LetGo(c)'
  BY DEF IInv, vars, LetGo, Aim
<1>4. (Listed' <=> Listed) /\ (Counted' <=> Counted)
  BY DEF vars, Listed, Counted, Waits, ToTake, Aim
<1>5. (Granted' <=> Granted) /\ (Exact' <=> Exact)
  BY DEF vars, Granted, Served, Picked, Available, Posted, Exact
<1>6. (Calm' <=> Calm) /\ (NoSignal' <=> NoSignal)
  BY DEF vars, Calm, Untouched, InHand, Waits, Taking, Aim, NoSignal
<1> QED
  BY <1>1, <1>2, <1>3, <1>4, <1>5, <1>6 DEF IInv, vars

LEMMA StepIInv == IInv /\ [Next]_vars => IInv'
<1> SUFFICES ASSUME IInv, Next PROVE IInv'
  BY Stutters
<1> QED
  BY StepTypes, StepHolds, StepLives, StepLetGo, StepListed, StepCounted, StepAwake, StepGranted,
     StepExact, StepCalm DEF IInv

LEMMA Invariant == Spec => []IInv
  BY InitIInv, StepIInv, PTL DEF Spec

(* Every variable keeps its type (TypeOK): the count of the list never     *)
(* goes below zero, whatever is removed twice.                             *)
THEOREM TypeCorrect == Spec => []TypeOK
<1>1. IInv => TypeOK
  BY DEF IInv
<1> QED
  BY <1>1, Invariant, PTL

(* No Wait returns without a permit, unless a waker has used the blocker   *)
(* of a Wait that had returned (Wait and Signal, Lock.cpp).                *)
THEOREM AdmittedWithPermit == Spec => []AdmissionHasPermit
<1>1. IInv => AdmissionHasPermit
  <2> SUFFICES ASSUME IInv, ~dangling PROVE permits.taken <= InitialValue + permits.given
    BY DEF AdmissionHasPermit
  <2>1. Granted /\ PlaceOK /\ SemaOK
    BY TypeParts DEF IInv
  <2>2. Cardinality(Served) \in Nat /\ sema.value \in Int
    BY <2>1, Fewer, Numbers DEF Served
  <2>3. Available \in Nat /\ Posted \in Nat
    BY <2>2 DEF Available, Posted
  <2> QED
    BY <2>1, <2>2, <2>3, BoundsAssumption DEF Granted, PlaceOK
<1> QED
  BY <1>1, Invariant, PTL

(* The list holds the threads that the value says are waiting whenever the *)
(* lock is free, unless a signal was sent or a dead blocker used: nothing  *)
(* else loses a permit or forgets a waiter (Wait and Signal, Lock.cpp).    *)
THEOREM NothingElseLoses == Spec => []OnlySignalLoses
<1>1. IInv => OnlySignalLoses
  <2> SUFFICES ASSUME IInv PROVE OnlySignalLoses
    OBVIOUS
  <2>t. TypeOK /\ PlaceOK
    BY TypeParts DEF IInv
  <2>n. NoSignal \/ \E k \in Killers : calls[k] > 0
    BY <2>t, ContextsAre DEF NoSignal, PlaceOK
  <2> SUFFICES ASSUME ~dangling, NoSignal, ~sema.lock, panic = "none"
               PROVE  Len(sema.blocked) = IF sema.value < 0 THEN -sema.value ELSE 0
    BY <2>t, <2>n DEF OnlySignalLoses, ListMatchesValue
  <2>1. Exact /\ Calm /\ SemaOK /\ \A p \in Posters : pc[p] = "idle"
    BY TypeParts, NobodyPosts DEF IInv
  <2> QED
    BY <2>1, Numbers DEF Exact, Calm, Waits, Taking
<1> QED
  BY <1>1, Invariant, PTL
=============================================================================
