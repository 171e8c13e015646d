-------------------------- MODULE TimerQueueProofs --------------------------
(***************************************************************************)
(* The timer queue is type correct, its events ring neither early nor      *)
(* late, and it implements the alarm clock, for any number of events, any  *)
(* delays and any number of pending ticks.                                 *)
(***************************************************************************)
EXTENDS TimerQueue, SequenceTheorems, TLAPS

(* Where the walk of a constructor has come, the event still has to wait   *)
(* its delay less that of the events it has passed.                        *)
Walked == \A e \in Events : lock = e =>
  offset[e] = asked[e] - (IF cursor = 1 THEN 0 ELSE Due(sleeping[cursor - 1]))

Sorted == \A i, j \in 1..Len(sleeping) : i <= j => Due(sleeping[i]) <= Due(sleeping[j])

Waiting == \A e \in Events :
  /\ phase[e] = "queued" => Due(e) >= 0 /\ asked[e] \in Delays /\ asked[e] > 0
  /\ phase[e] = "arming" => offset[e] > 0 /\ asked[e] \in Delays /\ asked[e] > 0
  /\ phase[e] = "rung" => age[e] >= asked[e]

IInv == TypeOK /\ Offsets /\ Sorted /\ Walked /\ Waiting
-----------------------------------------------------------------------------
(* What inserting an event into the list, or removing one from it, leaves. *)
LEMMA Inserted ==
  ASSUME NEW e \in Events, sleeping \in Seq(Events), cursor \in 1..Len(sleeping) + 1,
         sleeping' = InsertAt(sleeping, cursor, e)
  PROVE  /\ sleeping' \in Seq(Events) /\ Len(sleeping') = Len(sleeping) + 1
         /\ \A i \in 1..Len(sleeping) + 1 :
              sleeping'[i] = IF i < cursor THEN sleeping[i] ELSE IF i = cursor THEN e ELSE sleeping[i - 1]
<1> DEFINE l == SubSeq(sleeping, 1, cursor - 1)
           r == SubSeq(sleeping, cursor, Len(sleeping))
           m == l \o <<e>>
<1>1. l \in Seq(Events) /\ Len(l) = cursor - 1 /\ \A i \in 1..cursor - 1 : l[i] = sleeping[i]
  OBVIOUS
<1>2. r \in Seq(Events) /\ Len(r) = Len(sleeping) - cursor + 1 /\ \A i \in 1..Len(sleeping) - cursor + 1 : r[i] = sleeping[cursor + i - 1]
  OBVIOUS
<1>3. <<e>> \in Seq(Events) /\ Len(<<e>>) = 1 /\ <<e>>[1] = e
  OBVIOUS
<1>4. m \in Seq(Events) /\ Len(m) = cursor /\ \A i \in 1..cursor : m[i] = IF i < cursor THEN sleeping[i] ELSE e
  <2> HIDE DEF l
  <2> QED BY <1>1, <1>3
<1> HIDE DEF m, r
<1>6. /\ m \o r \in Seq(Events) /\ Len(m \o r) = Len(sleeping) + 1
      /\ \A i \in 1..Len(sleeping) + 1 : (m \o r)[i] = IF i <= cursor THEN m[i] ELSE r[i - cursor]
  BY <1>2, <1>4, ConcatProperties
<1>7. ASSUME NEW i \in 1..Len(sleeping) + 1
      PROVE  (m \o r)[i] = IF i < cursor THEN sleeping[i] ELSE IF i = cursor THEN e ELSE sleeping[i - 1]
  <2>1. CASE i <= cursor  BY <1>4, <1>6, <2>1
  <2>2. CASE i > cursor
    <3>1. i - cursor \in 1..Len(sleeping) - cursor + 1 /\ cursor + (i - cursor) - 1 = i - 1  BY <2>2
    <3> QED BY <1>2, <1>6, <2>2, <3>1
  <2>3. i <= cursor \/ i > cursor  OBVIOUS
  <2> QED BY <2>1, <2>2, <2>3
<1>8. sleeping' = m \o r  BY DEF InsertAt, m, r
<1> QED BY <1>6, <1>7, <1>8

LEMMA Removed ==
  ASSUME NEW k \in 1..Len(sleeping), sleeping \in Seq(Events), sleeping' = RemoveAt(sleeping, k)
  PROVE  /\ sleeping' \in Seq(Events) /\ Len(sleeping') = Len(sleeping) - 1
         /\ \A i \in 1..Len(sleeping) - 1 :
              sleeping'[i] = IF i < k THEN sleeping[i] ELSE sleeping[i + 1]
<1> DEFINE l == SubSeq(sleeping, 1, k - 1)
           r == SubSeq(sleeping, k + 1, Len(sleeping))
<1>1. l \in Seq(Events) /\ Len(l) = k - 1 /\ \A i \in 1..k - 1 : l[i] = sleeping[i]
  OBVIOUS
<1>2. r \in Seq(Events) /\ Len(r) = Len(sleeping) - k /\ \A i \in 1..Len(sleeping) - k : r[i] = sleeping[k + i]
  OBVIOUS
<1> HIDE DEF l, r
<1>4. /\ l \o r \in Seq(Events) /\ Len(l \o r) = Len(sleeping) - 1
      /\ \A i \in 1..Len(sleeping) - 1 : (l \o r)[i] = IF i <= k - 1 THEN l[i] ELSE r[i - (k - 1)]
  <2>1. l \in Seq(Events) /\ r \in Seq(Events)  BY <1>1, <1>2
  <2>2. /\ l \o r \in Seq(Events) /\ Len(l \o r) = Len(l) + Len(r)
        /\ \A i \in 1..Len(l) + Len(r) : (l \o r)[i] = IF i <= Len(l) THEN l[i] ELSE r[i - Len(l)]
    BY <2>1, ConcatProperties, Zenon
  <2>3. Len(l) = k - 1 /\ Len(l) + Len(r) = Len(sleeping) - 1  BY <1>1, <1>2
  <2> QED BY <2>2, <2>3
<1>5. ASSUME NEW i \in 1..Len(sleeping) - 1
      PROVE  (l \o r)[i] = IF i < k THEN sleeping[i] ELSE sleeping[i + 1]
  <2>1. CASE i < k  BY <1>1, <1>4, <2>1
  <2>2. CASE i >= k
    <3>1. i - (k - 1) \in 1..Len(sleeping) - k /\ k + (i - (k - 1)) = i + 1  BY <2>2
    <3> QED BY <1>2, <1>4, <2>2, <3>1
  <2>3. i < k \/ i >= k  OBVIOUS
  <2> QED BY <2>1, <2>2, <2>3
<1>8. sleeping' = l \o r  BY DEF RemoveAt, l, r
<1> QED BY <1>4, <1>5, <1>8

(* The initial state satisfies the inductive invariant.                    *)
LEMMA InitIInv == Init => IInv
  BY NamesAssumption DEF Init, IInv, TypeOK, Typed, Listed, Offsets, Sorted, Walked, Waiting, Due, Handler, Nobody

(* What type correctness says of the numbers and of the list.              *)
LEMMA Numbers ==
  ASSUME Typed
  PROVE  /\ \A x \in Events : offset[x] \in Nat /\ age[x] \in Nat /\ asked[x] \in Int
         /\ pending \in Nat /\ cursor \in Nat \ {0}
         /\ \A x \in Events : Due(x) \in Int /\ Due(x) = asked[x] - age[x] + pending
<1>a. Delays \cup {0} \subseteq Int  BY DelaysAssumption
<1>b. \A x \in Events : asked[x] \in Delays \cup {0}  BY DEF Typed
<1>1. \A x \in Events : offset[x] \in Nat /\ age[x] \in Nat /\ asked[x] \in Int
  BY <1>a, <1>b DEF Typed
<1>2. pending \in Nat /\ cursor \in Nat \ {0}  BY DEF Typed
<1>3. \A x \in Events : Due(x) \in Int /\ Due(x) = asked[x] - age[x] + pending
  BY <1>1, <1>2 DEF Due
<1> QED BY <1>1, <1>2, <1>3

LEMMA Members ==
  ASSUME Listed
  PROVE  /\ Len(sleeping) \in Nat /\ cursor <= Len(sleeping) + 1
         /\ \A i \in 1..Len(sleeping) : sleeping[i] \in Events /\ phase[sleeping[i]] = "queued"
         /\ sleeping # <<>> <=> Len(sleeping) > 0
         /\ Len(sleeping) > 0 => First = sleeping[1]
  BY DEF Listed, First

(* A step that leaves the list and its members alone.                      *)
LEMMA SameList ==
  ASSUME Listed, UNCHANGED sleeping, cursor' <= Len(sleeping) + 1,
         \A x \in Events : phase'[x] = "queued" <=> phase[x] = "queued",
         lock' # Handler /\ Len(sleeping) > 0 => offset'[sleeping[1]] > 0
  PROVE  Listed'
<1>1. {e \in Events : phase[e] = "queued"} = {e \in Events : phase'[e] = "queued"}  OBVIOUS
<1>2. First' = First  BY DEF First
<1>3. sleeping' \in Seq({e \in Events : phase'[e] = "queued"})
  BY <1>1 DEF Listed
<1>4. sleeping' # <<>> => Len(sleeping) > 0 /\ First' = sleeping[1]
  BY <1>2, Members
<1> QED BY <1>3, <1>4 DEF Listed

(* A step that leaves the offsets and the delays of the list alone.        *)
LEMMA SameOrder ==
  ASSUME Listed, Offsets, Sorted, UNCHANGED sleeping,
         \A i \in 1..Len(sleeping) : /\ Due(sleeping[i])' = Due(sleeping[i])
                                    /\ offset'[sleeping[i]] = offset[sleeping[i]]
  PROVE  Offsets' /\ Sorted'
<1>1. Len(sleeping) \in Nat  BY Members
<1>2. ASSUME NEW i \in 1..Len(sleeping)
      PROVE  offset'[sleeping[i]] = Due(sleeping[i])' - (IF i = 1 THEN 0 ELSE Due(sleeping[i - 1])')
  <2>1. i # 1 => i - 1 \in 1..Len(sleeping)  BY <1>1
  <2> QED BY <2>1 DEF Offsets
<1>3. Offsets'  BY <1>2 DEF Offsets
<1>4. Sorted'   BY DEF Sorted
<1> QED BY <1>3, <1>4

(* A step that leaves a walk, and what it has passed, alone.               *)
LEMMA SameWalk ==
  ASSUME Typed, Listed, Walked, UNCHANGED <<sleeping, cursor>>,
         \A x \in Events : lock' = x => lock = x /\ offset'[x] = offset[x] /\ asked'[x] = asked[x],
         \A i \in 1..Len(sleeping) : Due(sleeping[i])' = Due(sleeping[i])
  PROVE  Walked'
<1>1. cursor # 1 => cursor - 1 \in 1..Len(sleeping)
  <2>1. Len(sleeping) \in Nat /\ cursor <= Len(sleeping) + 1  BY Members
  <2>2. cursor \in Nat \ {0}  BY Numbers
  <2> QED BY <2>1, <2>2
<1> QED BY <1>1 DEF Walked

(* Each action preserves the inductive invariant.                          *)
LEMMA ConstructStep == ASSUME NEW e \in Events, IInv, Construct(e) PROVE IInv'
<1>t. Typed /\ Listed /\ e # Nobody /\ e # Handler /\ Nobody # Handler
  BY NamesAssumption DEF IInv, TypeOK, Handler, Nobody
<1>1. PICK n \in Delays :
        /\ asked' = [asked EXCEPT ![e] = n]
        /\ \/ /\ RingsAtOnce(n)
              /\ phase' = [phase EXCEPT ![e] = "rung"] /\ UNCHANGED <<offset, lock>>
           \/ /\ ~RingsAtOnce(n) /\ lock = Nobody
              /\ phase' = [phase EXCEPT ![e] = "arming"]
              /\ offset' = [offset EXCEPT ![e] = n]
              /\ lock' = e
  BY DEF Construct
<1>2. /\ phase[e] = "new" /\ UNCHANGED <<sleeping, cursor, pending, age>>
      /\ n \in Int /\ (RingsAtOnce(n) <=> n <= 0)
  BY DelaysAssumption DEF Construct, RingsAtOnce
<1>3. /\ \A x \in Events \ {e} : phase'[x] = phase[x] /\ asked'[x] = asked[x] /\ offset'[x] = offset[x]
      /\ asked'[e] = n
  BY <1>t, <1>1 DEF Typed
<1>4. \A x \in Events \ {e} : Due(x)' = Due(x)
  BY <1>2, <1>3 DEF Due
<1>5. \A i \in 1..Len(sleeping) : sleeping[i] \in Events \ {e}
  BY <1>t, <1>2, Numbers, Members
<1>6. Typed'
  BY <1>t, <1>1, <1>2, NamesAssumption DEF Typed
<1>l. Listed'
  <2>1. \A x \in Events : phase'[x] = "queued" <=> phase[x] = "queued"
    BY <1>t, <1>1, <1>2 DEF Typed
  <2>2. lock' # Handler /\ Len(sleeping) > 0 => offset'[sleeping[1]] > 0
    BY <1>t, <1>1, <1>3, <1>5, Members DEF Listed
  <2> QED BY <1>t, <1>2, <2>1, <2>2, SameList DEF Listed
<1>7. Offsets' /\ Sorted'
  BY <1>t, <1>2, <1>3, <1>4, <1>5, SameOrder DEF IInv
<1>8. Walked'
  <2>1. CASE RingsAtOnce(n)
    BY <1>t, <1>1, <1>2, <1>3, <1>4, <1>5, <2>1, SameWalk DEF IInv, Typed
  <2>2. CASE ~RingsAtOnce(n)
    <3>1. cursor = 1 /\ lock' = e /\ offset'[e] = n
      BY <1>t, <1>1, <2>2, NamesAssumption DEF Typed
    <3> QED BY <1>2, <1>3, <3>1 DEF Walked
  <2> QED BY <2>1, <2>2
<1>9. Waiting'
  <2>1. phase'[e] \in {"rung", "arming"} /\ (phase'[e] = "rung" => n <= 0)
        /\ (phase'[e] = "arming" => n > 0 /\ offset'[e] = n)
    BY <1>t, <1>1, <1>2 DEF Typed
  <2>2. age'[e] >= 0  BY <1>t, <1>2, Numbers, Members
  <2>3. ASSUME NEW x \in Events
        PROVE  /\ phase'[x] = "queued" => Due(x)' >= 0 /\ asked'[x] \in Delays /\ asked'[x] > 0
               /\ phase'[x] = "arming" => offset'[x] > 0 /\ asked'[x] \in Delays /\ asked'[x] > 0
               /\ phase'[x] = "rung" => age'[x] >= asked'[x]
    <3>1. CASE x = e  BY <1>2, <1>3, <2>1, <2>2, <3>1, Numbers, Members, <1>t
    <3>2. CASE x # e  BY <1>2, <1>3, <1>4, <3>2 DEF IInv, Waiting
    <3> QED BY <3>1, <3>2
  <2> QED BY <2>3 DEF Waiting
<1> QED BY <1>6, <1>l, <1>7, <1>8, <1>9 DEF IInv, TypeOK

LEMMA WalkStep == ASSUME NEW e \in Events, IInv, Walk(e) PROVE IInv'
<1>t. Typed /\ Listed /\ e # Nobody /\ e # Handler
  BY NamesAssumption DEF IInv, TypeOK
<1>1. /\ lock = e /\ phase[e] = "arming" /\ cursor \in 1..Len(sleeping)
      /\ offset[sleeping[cursor]] < offset[e]
      /\ offset' = [offset EXCEPT ![e] = @ - offset[sleeping[cursor]]] /\ cursor' = cursor + 1
      /\ UNCHANGED <<sleeping, pending, lock, phase, asked, age>>
  BY <1>t, Numbers, Members DEF Walk, Smaller, Typed, Listed
<1>2. \A i \in 1..Len(sleeping) : sleeping[i] \in Events \ {e}
  BY <1>t, <1>1, Numbers, Members
<1>3. /\ \A x \in Events : Due(x)' = Due(x)
      /\ \A x \in Events \ {e} : offset'[x] = offset[x]
      /\ offset'[e] = offset[e] - offset[sleeping[cursor]] /\ offset'[e] > 0
      /\ offset' \in [Events -> Nat]
  <2>1. \A x \in Events : Due(x)' = Due(x)  BY <1>1 DEF Due
  <2>2. offset \in [Events -> Nat]  BY <1>t DEF Typed
  <2>3. /\ offset[e] \in Nat /\ offset[sleeping[cursor]] \in Nat
        /\ offset[sleeping[cursor]] < offset[e]
    BY <1>1, <1>2, <2>2
  <2> QED BY <1>1, <2>1, <2>2, <2>3
<1>4. Typed'
  BY <1>t, <1>1, <1>3 DEF Typed
<1>l. Listed'
  BY <1>t, <1>1, <1>2, <1>3, Members, SameList, SMTT(60) DEF Listed
<1>5. Offsets' /\ Sorted'
  BY <1>t, <1>1, <1>2, <1>3, SameOrder DEF IInv
<1>6. Walked'
  <2>1. offset[e] = asked[e] - (IF cursor = 1 THEN 0 ELSE Due(sleeping[cursor - 1]))
    BY <1>1 DEF IInv, Walked
  <2>2. offset[sleeping[cursor]] = Due(sleeping[cursor])
                                   - (IF cursor = 1 THEN 0 ELSE Due(sleeping[cursor - 1]))
    BY <1>t, <1>1, Numbers, Members DEF IInv, Offsets
  <2>3. cursor - 1 \in 1..Len(sleeping) \/ cursor = 1
    BY <1>t, <1>1, Numbers, Members
  <2>4. offset'[e] = asked[e] - Due(sleeping[cursor])
    <3>1. sleeping[cursor] \in Events /\ Due(sleeping[cursor]) \in Int
          /\ offset[e] \in Int /\ asked[e] \in Int
      BY <1>t, <1>1, <1>2, Numbers
    <3>2. cursor # 1 => Due(sleeping[cursor - 1]) \in Int
      BY <1>t, <1>2, <2>3, Numbers
    <3> QED BY <1>3, <2>1, <2>2, <3>1, <3>2
  <2>5. cursor' # 1 /\ cursor' - 1 = cursor  BY <1>t, <1>1, Numbers, Members
  <2> QED BY <1>1, <1>2, <1>3, <2>4, <2>5 DEF Walked
<1>7. Waiting'
  BY <1>1, <1>3 DEF IInv, Waiting
<1> QED BY <1>4, <1>l, <1>5, <1>6, <1>7 DEF IInv, TypeOK

LEMMA TickStep == ASSUME IInv, Tick PROVE IInv'
<1>t. Typed /\ Listed /\ Handler # Nobody /\ Handler \notin Events
  BY NamesAssumption DEF IInv, TypeOK, Handler, Nobody
<1>1. /\ lock # Handler /\ pending' = pending + 1
      /\ age' = [e \in Events |-> IF phase[e] = "queued" THEN age[e] + 1 ELSE age[e]]
      /\ lock' \in {lock, Handler} /\ (lock' = Handler => lock = Nobody)
      /\ UNCHANGED <<sleeping, offset, cursor, phase, asked>>
  BY <1>t DEF Tick, Counted
<1>2. /\ age' \in [Events -> Nat] /\ \A x \in Events : age'[x] >= age[x]
      /\ \A x \in Events : phase[x] = "queued" => Due(x)' = Due(x)
  BY <1>t, <1>1, Numbers DEF Due
<1>3. Typed'
  BY <1>t, <1>1, <1>2, NamesAssumption DEF Typed
<1>4. Listed'
  BY <1>t, <1>1, SameList, Members DEF Listed
<1>5. Offsets' /\ Sorted' /\ Walked'
  BY <1>t, <1>1, <1>2, Members, SameOrder, SameWalk DEF IInv
<1>6. Waiting'
  <2>1. ASSUME NEW x \in Events PROVE phase[x] = "rung" => age'[x] >= asked[x]
    BY <1>t, <1>2, Numbers DEF IInv, Waiting, Typed
  <2> QED BY <1>1, <1>2, <2>1 DEF IInv, Waiting
<1> QED BY <1>3, <1>4, <1>5, <1>6 DEF IInv, TypeOK

LEMMA SpendStep == ASSUME IInv, Spend PROVE IInv'
<1>t. Typed /\ Listed /\ Handler # Nobody /\ Handler \notin Events
  BY NamesAssumption DEF IInv, TypeOK, Handler, Nobody
<1> DEFINE f == sleeping[1]
<1>1. /\ lock = Handler /\ Len(sleeping) > 0 /\ pending' = pending - 1 /\ pending > 0
      /\ f \in Events /\ offset[f] > 0 /\ offset' = [offset EXCEPT ![f] = @ - 1]
      /\ UNCHANGED <<sleeping, cursor, lock, phase, asked, age>>
  <2>1. Len(sleeping) > 0 /\ First = f  BY <1>t, Members DEF Spend
  <2>2. f \in Events /\ offset[f] \in Nat  BY <1>t, <2>1, Numbers, Members
  <2> QED BY <2>1, <2>2 DEF Spend, FirstIsDue
<1>2. \A x \in Events : Due(x) \in Int /\ Due(x)' = Due(x) - 1
  <2>1. ASSUME NEW x \in Events PROVE asked[x] \in Int /\ age[x] \in Nat /\ pending \in Nat
    BY <1>t, Numbers
  <2>2. ASSUME NEW x \in Events PROVE Due(x)' = asked[x] - (age[x] - (pending - 1))
    BY <1>1 DEF Due
  <2> QED BY <2>1, <2>2 DEF Due
<1>3. /\ offset'[f] = offset[f] - 1 /\ offset' \in [Events -> Nat]
      /\ \A x \in Events \ {f} : offset'[x] = offset[x]
  BY <1>t, <1>1, Numbers DEF Typed
<1> HIDE DEF f
<1>4. Typed'
  BY <1>t, <1>1, <1>3, Numbers DEF Typed
<1>5. Listed'
  BY <1>t, <1>1, SameList, Members DEF Listed
<1>6. Offsets'
  <2>1. ASSUME NEW i \in 1..Len(sleeping)
        PROVE  offset'[sleeping[i]] = Due(sleeping[i])' - (IF i = 1 THEN 0 ELSE Due(sleeping[i - 1])')
    <3>1. offset[sleeping[i]] = Due(sleeping[i]) - (IF i = 1 THEN 0 ELSE Due(sleeping[i - 1]))
      BY DEF IInv, Offsets
    <3>2. sleeping[i] \in Events /\ Due(sleeping[i]) \in Int /\ Due(sleeping[i])' = Due(sleeping[i]) - 1
      BY <1>t, <1>1, <1>2, Members
    <3>3. CASE i = 1
      BY <1>3, <3>1, <3>2, <3>3 DEF f
    <3>4. CASE i # 1
      <4>1. i - 1 \in 1..Len(sleeping)  BY <1>t, <3>4, Members
      <4>2. sleeping[i - 1] \in Events /\ Due(sleeping[i - 1]) \in Int
            /\ Due(sleeping[i - 1])' = Due(sleeping[i - 1]) - 1
        BY <1>t, <1>1, <1>2, <4>1, Members
      <4>3. sleeping[i] # f  BY <1>t, <1>1, <3>4, Members, SMTT(40) DEF f, Listed
      <4> QED BY <1>3, <3>1, <3>2, <3>4, <4>2, <4>3
    <3> QED BY <3>3, <3>4
  <2> QED BY <1>1, <2>1 DEF Offsets
<1>7. Sorted'
  <2>1. ASSUME NEW i \in 1..Len(sleeping), NEW j \in 1..Len(sleeping), i <= j
        PROVE  Due(sleeping[i])' <= Due(sleeping[j])'
    <3>1. Due(sleeping[i]) <= Due(sleeping[j])  BY <2>1 DEF IInv, Sorted
    <3>2. sleeping[i] \in Events /\ sleeping[j] \in Events  BY <1>t, Members
    <3>3. Due(sleeping[i])' = Due(sleeping[i]) - 1 /\ Due(sleeping[j])' = Due(sleeping[j]) - 1
      BY <1>1, <1>2, <3>2
    <3> QED BY <1>2, <3>1, <3>2, <3>3
  <2> QED BY <1>1, <2>1 DEF Sorted
<1>8. Walked'
  BY <1>t, <1>1 DEF Walked
<1>9. Waiting'
  <2>1. Due(f) > 0
    BY <1>t, <1>1, <1>2, Members DEF IInv, Offsets, f
  <2>2. ASSUME NEW x \in Events, phase[x] = "queued" PROVE Due(x) > 0
    <3>1. PICK i \in 1..Len(sleeping) : sleeping[i] = x  BY <1>t, <2>2 DEF Listed
    <3>2. Due(f) <= Due(x)  BY <1>t, <1>1, <3>1, Members DEF IInv, Sorted, f
    <3> QED BY <1>1, <1>2, <2>1, <3>2
  <2>3. \A x \in Events : phase[x] # "arming"
    BY <1>t, <1>1 DEF Typed
  <2> QED BY <1>1, <1>2, <2>2, <2>3 DEF IInv, Waiting
<1> QED BY <1>4, <1>5, <1>6, <1>7, <1>8, <1>9 DEF IInv, TypeOK

LEMMA ReleaseStep == ASSUME IInv, Release PROVE IInv'
<1>t. Typed /\ Listed /\ Handler # Nobody /\ Handler \notin Events /\ Nobody \notin Events
  BY NamesAssumption DEF IInv, TypeOK, Handler, Nobody
<1>1. /\ lock = Handler /\ lock' = Nobody /\ pending' = 0
      /\ Len(sleeping) = 0 \/ (pending = 0 /\ offset[sleeping[1]] > 0)
      /\ UNCHANGED <<sleeping, offset, cursor, phase, asked, age>>
  BY <1>t, Numbers, Members DEF Release, Spent, FirstIsDue
<1>2. \A x \in Events : phase[x] = "queued" => Due(x)' = Due(x)
  BY <1>t, <1>1, Members, SMTT(60) DEF Due, Listed
<1>3. Typed'
  BY <1>t, <1>1 DEF Typed
<1>4. Listed'
  BY <1>t, <1>1, SameList, Members DEF Listed
<1>5. Offsets' /\ Sorted' /\ Walked'
  BY <1>t, <1>1, <1>2, Members, SameOrder, SameWalk DEF IInv
<1>6. Waiting'
  <2>1. \A x \in Events : phase[x] = "queued" => Due(x)' >= 0
    BY <1>2 DEF IInv, Waiting
  <2> QED BY <1>1, <2>1 DEF IInv, Waiting
<1> QED BY <1>3, <1>4, <1>5, <1>6 DEF IInv, TypeOK

LEMMA DispatchStep == ASSUME IInv, Dispatch PROVE IInv'
<1>t. Typed /\ Listed /\ Handler # Nobody /\ Handler \notin Events
  BY NamesAssumption DEF IInv, TypeOK, Handler, Nobody
<1> DEFINE f == sleeping[1]
           n == Len(sleeping)
<1>1. lock = Handler /\ n > 0 /\ f \in Events /\ offset[f] = 0 /\ phase[f] = "queued" /\ cursor = 1
  <2>1. n > 0 /\ First = f  BY <1>t, Members DEF Dispatch, FirstIsDue
  <2>2. f \in Events /\ offset[f] \in Nat /\ phase[f] = "queued"  BY <1>t, <2>1, Numbers, Members
  <2> QED BY <1>t, <2>1, <2>2 DEF Dispatch, FirstIsDue, Typed
<1>2. /\ sleeping' = Tail(sleeping) /\ phase' = [phase EXCEPT ![f] = "rung"]
      /\ UNCHANGED <<offset, cursor, pending, lock, asked, age>>
  BY <1>t, <1>1, Members DEF Dispatch
<1>3. /\ sleeping' \in Seq(Events) /\ Len(sleeping') = n - 1
      /\ \A i \in 1..n - 1 : sleeping'[i] = sleeping[i + 1]
  <2>1. sleeping \in Seq(Events) /\ sleeping # <<>>  BY <1>t, <1>1, Members DEF Listed
  <2> QED BY <1>2, <2>1, HeadTailProperties
<1>4. n \in Nat /\ \A x \in Events : Due(x) \in Int /\ Due(x)' = Due(x)
  BY <1>t, <1>2, Numbers, Members DEF Due
<1>5. \A i \in 1..n : sleeping[i] \in Events /\ (i # 1 => sleeping[i] # f)
  BY <1>t, <1>1, Members DEF Listed
<1>6. Typed'
  BY <1>t, <1>1, <1>2 DEF Typed
<1>7. Listed'
  <2>1. \A i \in 1..n - 1 : sleeping'[i] \in Events /\ phase'[sleeping'[i]] = "queued"
    BY <1>t, <1>2, <1>3, <1>4, <1>5, Members DEF Typed
  <2>2. sleeping' \in Seq({e \in Events : phase'[e] = "queued"})
    BY <1>3, <2>1
  <2>3. ASSUME NEW i \in 1..n - 1, NEW j \in 1..n - 1, sleeping'[i] = sleeping'[j] PROVE i = j
    <3>1. i + 1 \in 1..n /\ j + 1 \in 1..n  BY <1>4
    <3>2. sleeping[i + 1] = sleeping[j + 1]  BY <1>3, <2>3
    <3>3. i + 1 = j + 1  BY <1>t, <3>1, <3>2 DEF Listed
    <3> QED BY <1>4, <3>3
  <2>4. ASSUME NEW e \in Events, phase'[e] = "queued" PROVE \E i \in 1..n - 1 : sleeping'[i] = e
    <3>1. e # f /\ phase[e] = "queued"  BY <1>t, <1>1, <1>2, <2>4 DEF Typed
    <3>2. PICK i \in 1..n : sleeping[i] = e  BY <1>t, <3>1 DEF Listed
    <3>3. i - 1 \in 1..n - 1 /\ (i - 1) + 1 = i  BY <1>4, <3>1, <3>2
    <3> QED BY <1>3, <3>2, <3>3
  <2>5. cursor' <= Len(sleeping') + 1 /\ lock' = Handler  BY <1>1, <1>2, <1>3, <1>4
  <2> QED BY <1>3, <2>2, <2>3, <2>4, <2>5 DEF Listed
<1>d. \A i \in 1..n - 1 : Due(sleeping[i])' = Due(sleeping'[i])
  BY <1>2 DEF Due
<1>8. Offsets'
  <2>1. Due(f) = 0  BY <1>1, <1>4 DEF IInv, Offsets
  <2>2. ASSUME NEW i \in 1..n - 1
        PROVE  offset'[sleeping'[i]] = Due(sleeping[i])' - (IF i = 1 THEN 0 ELSE Due(sleeping[i - 1])')
    <3>1. i + 1 \in 1..n /\ i + 1 # 1 /\ (i + 1) - 1 = i  BY <1>4
    <3>2. offset[sleeping[i + 1]] = Due(sleeping[i + 1]) - Due(sleeping[i])
      BY <3>1 DEF IInv, Offsets
    <3>3. CASE i = 1
      BY <1>2, <1>3, <1>4, <1>5, <1>d, <2>1, <3>1, <3>2, <3>3
    <3>4. CASE i # 1
      <4>1. i - 1 \in 1..n - 1 /\ (i - 1) + 1 = i  BY <1>4, <3>4
      <4>2. sleeping'[i] = sleeping[i + 1] /\ sleeping'[i - 1] = sleeping[i]  BY <1>3, <4>1
      <4>3. Due(sleeping[i])' = Due(sleeping[i + 1]) /\ Due(sleeping[i - 1])' = Due(sleeping[i])
        BY <1>d, <4>1, <4>2
      <4> QED BY <1>2, <3>2, <3>4, <4>2, <4>3
    <3> QED BY <3>3, <3>4
  <2> QED BY <1>3, <2>2 DEF Offsets
<1>9. Sorted'
  <2>1. ASSUME NEW i \in 1..n - 1, NEW j \in 1..n - 1, i <= j
        PROVE  Due(sleeping[i])' <= Due(sleeping[j])'
    <3>1. i + 1 \in 1..n /\ j + 1 \in 1..n /\ i + 1 <= j + 1  BY <1>4, <2>1
    <3> QED BY <1>3, <1>d, <3>1 DEF IInv, Sorted
  <2> QED BY <1>3, <2>1 DEF Sorted
<1>10. Walked'
  BY <1>t, <1>1, <1>2 DEF Walked
<1>11. Waiting'
  <2>1. age[f] >= asked[f]
    <3>1. Due(f) = 0 /\ f \in Events  BY <1>1, <1>4 DEF IInv, Offsets
    <3> QED BY <1>t, <3>1, Numbers
  <2>2. \A x \in Events \ {f} : phase'[x] = phase[x]  BY <1>2
  <2>3. phase'[f] = "rung"  BY <1>t, <1>1, <1>2 DEF Typed
  <2> HIDE DEF f
  <2> QED BY <1>2, <1>4, <2>1, <2>2, <2>3 DEF IInv, Waiting
<1> QED BY <1>6, <1>7, <1>8, <1>9, <1>10, <1>11 DEF IInv, TypeOK

LEMMA InsertStep == ASSUME NEW e \in Events, IInv, Insert(e) PROVE IInv'
<1>t. Typed /\ Listed /\ Nobody \notin Events /\ Handler \notin Events
  BY NamesAssumption DEF IInv, TypeOK
<1> DEFINE n == Len(sleeping)
           c == cursor
           rest == offset[e]
           before == IF c = 1 THEN 0 ELSE Due(sleeping[c - 1])
<1>1. /\ lock = e /\ phase[e] = "arming" /\ n \in Nat /\ c \in 1..n + 1
      /\ rest \in Nat /\ rest > 0 /\ asked[e] \in Int /\ asked[e] > 0 /\ asked[e] \in Delays
      /\ rest = asked[e] - before
  BY <1>t, Numbers, Members DEF Insert, Typed, Listed, IInv, Walked, Waiting
<1>2. \A i \in 1..n :
        /\ sleeping[i] \in Events \ {e} /\ phase[sleeping[i]] = "queued"
        /\ Due(sleeping[i]) \in Int /\ offset[sleeping[i]] \in Nat
  BY <1>t, <1>1, Numbers, Members
<1>3. before \in Int
  BY <1>1, <1>2
<1>4. /\ sleeping' = InsertAt(sleeping, c, e)
      /\ phase' = [phase EXCEPT ![e] = "queued"] /\ age' = [age EXCEPT ![e] = pending]
      /\ lock' = Nobody /\ cursor' = 1 /\ UNCHANGED <<pending, asked>>
      /\ c <= n => offset[sleeping[c]] >= rest
      /\ offset' = [x \in Events |-> IF c <= n /\ x = sleeping[c] THEN offset[x] - rest ELSE offset[x]]
  BY <1>1, <1>2 DEF Insert, Smaller, Shorten
<1>5. /\ sleeping' \in Seq(Events) /\ Len(sleeping') = n + 1
      /\ \A i \in 1..n + 1 : sleeping'[i] = IF i < c THEN sleeping[i] ELSE IF i = c THEN e ELSE sleeping[i - 1]
  <2>1. sleeping \in Seq(Events)  BY <1>t DEF Listed
  <2>2. cursor \in 1..Len(sleeping) + 1  BY <1>1
  <2> QED BY <1>4, <2>1, <2>2, Inserted
<1>6. /\ \A x \in Events \ {e} : Due(x)' = Due(x) /\ phase'[x] = phase[x] /\ age'[x] = age[x]
      /\ Due(e)' = asked[e] /\ phase'[e] = "queued"
  BY <1>t, <1>1, <1>4, Numbers DEF Due, Typed
<1>o. /\ offset'[e] = rest
      /\ c <= n => offset'[sleeping[c]] = offset[sleeping[c]] - rest
      /\ \A i \in 1..n : i # c => offset'[sleeping[i]] = offset[sleeping[i]]
      /\ offset' \in [Events -> Nat]
  <2>1. \A i, j \in 1..n : sleeping[i] = sleeping[j] => i = j  BY <1>t DEF Listed
  <2>2. \A x \in Events : offset[x] \in Nat  BY <1>t, Numbers
  <2>3. c <= n => c \in 1..n  BY <1>1
  <2> HIDE DEF rest, c, n
  <2> QED BY <1>1, <1>2, <1>4, <2>1, <2>2, <2>3 DEF rest
<1> HIDE DEF rest
<1>7. Typed'
  <2>1. age' \in [Events -> Nat]  BY <1>t, <1>4, Numbers DEF Typed
  <2>2. \A x \in Events : phase'[x] # "arming"
    BY <1>t, <1>1, <1>4 DEF Typed
  <2> QED BY <1>t, <1>4, <1>o, <2>1, <2>2 DEF Typed
(* Where the members of the new list were.                                 *)
<1>8. \A i \in 1..n + 1 :
        \/ i < c /\ i \in 1..n /\ sleeping'[i] = sleeping[i]
        \/ i = c /\ sleeping'[i] = e
        \/ i > c /\ i - 1 \in 1..n /\ sleeping'[i] = sleeping[i - 1]
  <2>1. ASSUME NEW i \in 1..n + 1, i > c PROVE i - 1 \in 1..n /\ ~(i < c) /\ i # c
    BY <1>1, <2>1
  <2>2. ASSUME NEW i \in 1..n + 1, i < c PROVE i \in 1..n
    BY <1>1, <2>2
  <2>3. \A i \in 1..n + 1 : i < c \/ i = c \/ i > c  BY <1>1
  <2>4. ASSUME NEW i \in 1..n + 1
        PROVE  \/ i < c /\ i \in 1..n /\ sleeping'[i] = sleeping[i]
               \/ i = c /\ sleeping'[i] = e
               \/ i > c /\ i - 1 \in 1..n /\ sleeping'[i] = sleeping[i - 1]
    <3>1. CASE i < c  BY <1>5, <2>2, <3>1
    <3>2. CASE i = c  BY <1>1, <1>5, <3>2
    <3>3. CASE i > c  BY <1>5, <2>1, <3>3
    <3> QED BY <2>3, <3>1, <3>2, <3>3
  <2> HIDE DEF n, c
  <2> QED BY <2>4, Zenon
<1>9. Listed'
  <2>1. \A i \in 1..n + 1 : sleeping'[i] \in Events /\ phase'[sleeping'[i]] = "queued"
    BY <1>2, <1>6, <1>8
  <2>2. sleeping' \in Seq({x \in Events : phase'[x] = "queued"})
    BY <1>5, <2>1
  <2>3. ASSUME NEW i \in 1..n + 1, NEW j \in 1..n + 1, sleeping'[i] = sleeping'[j] PROVE i = j
    <3>1. \A k, m \in 1..n : sleeping[k] = sleeping[m] => k = m  BY <1>t DEF Listed
    <3> HIDE DEF n, c
    <3>2. CASE i < c  BY <1>1, <1>2, <1>8, <2>3, <3>1, <3>2
    <3>3. CASE i = c  BY <1>1, <1>2, <1>8, <2>3, <3>1, <3>3
    <3>4. CASE i > c  BY <1>1, <1>2, <1>8, <2>3, <3>1, <3>4
    <3> QED BY <1>1, <3>2, <3>3, <3>4
  <2>4. ASSUME NEW x \in Events, phase'[x] = "queued" PROVE \E i \in 1..n + 1 : sleeping'[i] = x
    <3>1. CASE x = e  BY <1>1, <1>5, <3>1
    <3>2. CASE x # e
      <4>1. PICK i \in 1..n : sleeping[i] = x  BY <1>t, <1>6, <2>4, <3>2 DEF Listed
      <4>2. CASE i < c  BY <1>1, <1>5, <4>1, <4>2
      <4>3. CASE i >= c
        <5>1. i + 1 \in 1..n + 1 /\ (i + 1) - 1 = i /\ ~(i + 1 < c) /\ i + 1 # c  BY <1>1, <4>3
        <5> QED BY <1>5, <4>1, <5>1
      <4> QED BY <1>1, <4>2, <4>3
    <3> QED BY <3>1, <3>2
  <2>5. offset'[sleeping'[1]] > 0
    <3>1. CASE c = 1  BY <1>1, <1>5, <1>o, <3>1
    <3>2. CASE c # 1
      <4>1. sleeping'[1] = sleeping[1] /\ 1 \in 1..n /\ lock # Handler  BY <1>t, <1>1, <1>5, <3>2
      <4>2. offset[sleeping[1]] > 0  BY <1>t, <4>1, Members DEF Listed
      <4> QED BY <1>o, <3>2, <4>1, <4>2
    <3> QED BY <3>1, <3>2
  <2>6. First' = sleeping'[1]  BY <1>5 DEF First
  <2> QED BY <1>1, <1>4, <1>5, <2>2, <2>3, <2>4, <2>5, <2>6 DEF Listed
<1>d. \A i \in 1..n + 1 : Due(sleeping[i])' = IF i = c THEN asked[e] ELSE Due(sleeping'[i])
  <2>1. \A i \in 1..n + 1 : Due(sleeping[i])' = asked'[sleeping'[i]] - (age'[sleeping'[i]] - pending')
    BY DEF Due
  <2>2. \A x \in Events \ {e} : asked'[x] - (age'[x] - pending') = Due(x)
    BY <1>4, <1>6 DEF Due
  <2>3. asked'[e] - (age'[e] - pending') = asked[e]
    BY <1>6 DEF Due
  <2> QED BY <1>2, <1>8, <2>1, <2>2, <2>3
<1>10. Offsets'
  <2>1. ASSUME NEW i \in 1..n + 1
        PROVE  offset'[sleeping'[i]] = Due(sleeping[i])' - (IF i = 1 THEN 0 ELSE Due(sleeping[i - 1])')
    <3>0. i # 1 => i - 1 \in 1..n + 1  BY <1>1
    <3>1. \A k \in 1..n : offset[sleeping[k]] = Due(sleeping[k]) - (IF k = 1 THEN 0 ELSE Due(sleeping[k - 1]))
      BY DEF IInv, Offsets
    <3>2. CASE i < c
      <4>1. /\ sleeping'[i] = sleeping[i] /\ Due(sleeping[i])' = Due(sleeping[i]) /\ i \in 1..n
            /\ i # 1 => Due(sleeping[i - 1])' = Due(sleeping[i - 1])
        BY <1>1, <1>5, <1>d, <3>0, <3>2, SMTT(40)
      <4> QED BY <1>o, <3>1, <3>2, <4>1
    <3>3. CASE i = c
      <4>1. sleeping'[i] = e /\ Due(sleeping[i])' = asked[e]  BY <1>1, <1>5, <1>d, <3>3
      <4>2. i # 1 => Due(sleeping[i - 1])' = Due(sleeping[i - 1])
        BY <1>1, <1>5, <1>d, <3>0, <3>3
      <4> QED BY <1>1, <1>o, <3>3, <4>1, <4>2
    <3>4. CASE i = c + 1
      <4>1. /\ c \in 1..n /\ sleeping'[i] = sleeping[c] /\ Due(sleeping[i])' = Due(sleeping[c])
            /\ Due(sleeping[i - 1])' = asked[e] /\ i # 1
        <5>1. c \in 1..n /\ ~(i < c) /\ i # c /\ i - 1 = c /\ i # 1 /\ c \in 1..n + 1
          BY <1>1, <3>4
        <5>2. sleeping'[i] = sleeping[c]  BY <1>5, <5>1
        <5> QED BY <1>d, <5>1, <5>2
      <4>2. offset[sleeping[c]] = Due(sleeping[c]) - before  BY <3>1, <4>1
      <4> HIDE DEF before
      <4> QED BY <1>1, <1>2, <1>3, <1>o, <4>1, <4>2, SMTT(40)
    <3>5. CASE i > c + 1
      <4>1. /\ i - 1 \in 1..n /\ i - 1 # c /\ i - 1 # 1 /\ (i - 1) - 1 \in 1..n
            /\ ~(i < c) /\ i # c /\ ~(i - 1 < c) /\ i # 1
        BY <1>1, <3>5
      <4>2. sleeping'[i] = sleeping[i - 1] /\ sleeping'[i - 1] = sleeping[(i - 1) - 1]
        BY <1>5, <3>0, <4>1
      <4>3. Due(sleeping[i])' = Due(sleeping[i - 1]) /\ Due(sleeping[i - 1])' = Due(sleeping[(i - 1) - 1])
        BY <1>d, <3>0, <4>1, <4>2
      <4> QED BY <1>o, <3>1, <4>1, <4>2, <4>3
    <3> QED BY <1>1, <3>2, <3>3, <3>4, <3>5
  <2> QED BY <1>5, <2>1 DEF Offsets
<1>11. Sorted'
  <2>0. \A k, m \in 1..n : k <= m => Due(sleeping[k]) <= Due(sleeping[m])  BY DEF IInv, Sorted
  <2>1. \A k \in 1..n : k < c => Due(sleeping[k]) <= asked[e]
    <3>1. ASSUME NEW k \in 1..n, k < c PROVE Due(sleeping[k]) <= asked[e]
      <4>1. c - 1 \in 1..n /\ k <= c - 1 /\ c # 1  BY <1>1, <3>1
      <4>2. Due(sleeping[k]) <= before  BY <2>0, <4>1
      <4> QED BY <1>1, <1>2, <1>3, <4>2
    <3> QED BY <3>1
  <2>2. \A k \in 1..n : k >= c => asked[e] <= Due(sleeping[k])
    <3>1. ASSUME NEW k \in 1..n, k >= c PROVE asked[e] <= Due(sleeping[k])
      <4>1. c \in 1..n /\ offset[sleeping[c]] >= rest  BY <1>1, <1>4, <3>1
      <4>2. offset[sleeping[c]] = Due(sleeping[c]) - before  BY <4>1 DEF IInv, Offsets
      <4>3. Due(sleeping[c]) <= Due(sleeping[k])  BY <2>0, <3>1, <4>1
      <4>4. asked[e] <= Due(sleeping[c])
        <5> HIDE DEF before
        <5> QED BY <1>1, <1>2, <1>3, <4>1, <4>2
      <4> QED BY <1>1, <1>2, <4>1, <4>3, <4>4
    <3> QED BY <3>1
  <2>3. ASSUME NEW i \in 1..n + 1, NEW j \in 1..n + 1, i <= j
        PROVE  Due(sleeping[i])' <= Due(sleeping[j])'
    <3> HIDE DEF n, c
    <3>1. CASE i < c /\ j < c  BY <1>1, <1>8, <1>d, <2>0, <2>3, <3>1
    <3>2. CASE i < c /\ j = c  BY <1>1, <1>8, <1>d, <2>1, <2>3, <3>2
    <3>3. CASE i < c /\ j > c
      <4>1. /\ i \in 1..n /\ sleeping'[i] = sleeping[i] /\ j - 1 \in 1..n /\ i <= j - 1
            /\ sleeping'[j] = sleeping[j - 1]  BY <1>1, <1>8, <3>3
      <4> QED BY <1>1, <1>d, <2>0, <3>3, <4>1
    <3>4. CASE i = c /\ j = c  BY <1>1, <1>d, <3>4
    <3>5. CASE i = c /\ j > c
      <4>1. j - 1 \in 1..n /\ j - 1 >= c /\ sleeping'[j] = sleeping[j - 1]  BY <1>1, <1>8, <3>5
      <4> QED BY <1>1, <1>d, <2>2, <3>5, <4>1
    <3>6. CASE i > c
      <4>1. /\ i - 1 \in 1..n /\ sleeping'[i] = sleeping[i - 1] /\ j > c
            /\ j - 1 \in 1..n /\ sleeping'[j] = sleeping[j - 1] /\ i - 1 <= j - 1
        BY <1>1, <1>8, <2>3, <3>6
      <4> QED BY <1>1, <1>d, <2>0, <3>6, <4>1
    <3> QED BY <1>1, <2>3, <3>1, <3>2, <3>3, <3>4, <3>5, <3>6
  <2> QED BY <1>5, <2>3 DEF Sorted
<1>12. Walked'
  BY <1>t, <1>4 DEF Walked
<1>13. Waiting'
  <2>1. Due(e)' >= 0 /\ asked'[e] = asked[e]  BY <1>1, <1>4, <1>6
  <2>2. \A x \in Events \ {e} : phase[x] # "arming"  BY <1>t, <1>1 DEF Typed
  <2> QED BY <1>1, <1>4, <1>6, <2>1, <2>2 DEF IInv, Waiting
<1> QED BY <1>7, <1>9, <1>10, <1>11, <1>12, <1>13 DEF IInv, TypeOK

LEMMA DestroyStep == ASSUME NEW e \in Events, IInv, Destroy(e) PROVE IInv'
<1>t. Typed /\ Listed /\ Nobody \notin Events /\ Handler \notin Events /\ Nobody # Handler
  BY NamesAssumption DEF IInv, TypeOK, Nobody, Handler
<1> DEFINE n == Len(sleeping)
<1>1. /\ lock = Nobody /\ cursor = 1 /\ phase' = [phase EXCEPT ![e] = "gone"]
      /\ UNCHANGED <<cursor, pending, lock, asked, age>> /\ n \in Nat
      /\ \A x \in Events : phase[x] # "arming"
      /\ \A x \in Events : Due(x)' = Due(x) /\ Due(x) \in Int
      /\ phase'[e] = "gone" /\ \A x \in Events \ {e} : phase'[x] = phase[x]
  BY <1>t, Numbers, Members DEF Destroy, Typed, Due
<1>2. Walked' /\ Waiting'
  BY <1>t, <1>1 DEF IInv, Walked, Waiting
(* An event that has rung is on no list.                                   *)
<1>3. CASE phase[e] = "rung" /\ UNCHANGED <<sleeping, offset>>
  <2>1. Typed'  BY <1>t, <1>1, <1>3 DEF Typed
  <2>2. Listed'  BY <1>t, <1>1, <1>3, SameList, Members DEF Listed
  <2>3. Offsets' /\ Sorted'  BY <1>t, <1>1, <1>3, Members, SameOrder DEF IInv
  <2> QED BY <1>2, <2>1, <2>2, <2>3 DEF IInv, TypeOK
<1>4. ASSUME NEW k \in 1..n, sleeping[k] = e, sleeping' = RemoveAt(sleeping, k),
             offset' = [x \in Events |-> IF Gives(k, x) THEN offset[x] + offset[e] ELSE offset[x]]
      PROVE  IInv'
  <2>1. \A i \in 1..n :
          /\ sleeping[i] \in Events /\ phase[sleeping[i]] = "queued" /\ Due(sleeping[i]) \in Int
          /\ offset[sleeping[i]] \in Nat /\ (i # k => sleeping[i] # e)
          /\ offset[sleeping[i]] = Due(sleeping[i]) - (IF i = 1 THEN 0 ELSE Due(sleeping[i - 1]))
    BY <1>t, <1>4, Numbers, Members DEF IInv, Offsets, Listed
  <2>2. /\ sleeping' \in Seq(Events) /\ Len(sleeping') = n - 1
        /\ \A i \in 1..n - 1 : sleeping'[i] = IF i < k THEN sleeping[i] ELSE sleeping[i + 1]
    <3>1. sleeping \in Seq(Events)  BY <1>t DEF Listed
    <3> QED BY <1>4, <3>1, Removed
  <2>3. /\ \A i \in 1..n : i # k + 1 => offset'[sleeping[i]] = offset[sleeping[i]]
        /\ k < n => offset'[sleeping[k + 1]] = offset[sleeping[k + 1]] + offset[e]
        /\ offset' \in [Events -> Nat]
    <3>1. \A i, j \in 1..n : sleeping[i] = sleeping[j] => i = j  BY <1>t DEF Listed
    <3>2. \A x \in Events : offset[x] \in Nat  BY <1>t, Numbers
    <3>3. k < n => k + 1 \in 1..n  BY <1>1
    <3> QED BY <1>4, <2>1, <3>1, <3>2, <3>3, SMTT(60) DEF Gives
  <2>4. \A i \in 1..n - 1 :
          \/ i < k /\ i \in 1..n /\ sleeping'[i] = sleeping[i]
          \/ i >= k /\ i + 1 \in 1..n /\ sleeping'[i] = sleeping[i + 1]
    <3>1. \A i \in 1..n - 1 : i \in 1..n /\ i + 1 \in 1..n /\ (i < k \/ i >= k)  BY <1>1
    <3> HIDE DEF n
    <3> QED BY <2>2, <3>1
  <2>5. Typed'
    BY <1>t, <1>1, <2>3 DEF Typed
  <2>6. Listed'
    <3>1. \A i \in 1..n - 1 : sleeping'[i] \in Events /\ phase'[sleeping'[i]] = "queued"
      <4>1. ASSUME NEW i \in 1..n - 1 PROVE sleeping'[i] \in Events \ {e} /\ phase[sleeping'[i]] = "queued"
        <5>1. CASE i < k /\ i \in 1..n /\ sleeping'[i] = sleeping[i]
          BY <1>1, <2>1, <5>1
        <5>2. CASE i >= k /\ i + 1 \in 1..n /\ sleeping'[i] = sleeping[i + 1]
          <6>1. i + 1 # k  BY <1>1, <5>2
          <6> QED BY <2>1, <5>2, <6>1
        <5> QED BY <2>4, <5>1, <5>2
      <4> QED BY <1>1, <4>1
    <3>2. sleeping' \in Seq({x \in Events : phase'[x] = "queued"})
      BY <2>2, <3>1
    <3>3. ASSUME NEW i \in 1..n - 1, NEW j \in 1..n - 1, sleeping'[i] = sleeping'[j] PROVE i = j
      <4>1. \A x, y \in 1..n : sleeping[x] = sleeping[y] => x = y  BY <1>t DEF Listed
      <4> HIDE DEF n
      <4>2. CASE i < k  BY <1>1, <2>4, <3>3, <4>1, <4>2
      <4>3. CASE i >= k  BY <1>1, <2>4, <3>3, <4>1, <4>3
      <4> QED BY <1>1, <4>2, <4>3
    <3>4. ASSUME NEW x \in Events, phase'[x] = "queued" PROVE \E i \in 1..n - 1 : sleeping'[i] = x
      <4>1. PICK i \in 1..n : sleeping[i] = x /\ i # k
        BY <1>t, <1>1, <1>4, <3>4 DEF Listed
      <4>2. CASE i < k
        <5>1. i \in 1..n - 1  BY <1>1, <4>1, <4>2
        <5> QED BY <2>2, <4>1, <4>2, <5>1
      <4>3. CASE i > k
        <5>1. i - 1 \in 1..n - 1 /\ (i - 1) + 1 = i /\ ~(i - 1 < k)  BY <1>1, <4>3
        <5> QED BY <2>2, <4>1, <5>1
      <4> QED BY <1>1, <4>1, <4>2, <4>3
    <3>5. n - 1 > 0 => offset'[sleeping'[1]] > 0
      <4>0. n > 0 /\ lock # Handler  BY <1>t, <1>1
      <4>1. offset[sleeping[1]] > 0  BY <1>t, <4>0, Members DEF Listed
      <4>2. CASE k = 1 /\ n - 1 > 0
        BY <1>1, <1>4, <2>1, <2>2, <2>3, <4>1, <4>2
      <4>3. CASE k # 1 /\ n - 1 > 0
        <5>1. 1 \in 1..n - 1 /\ 1 \in 1..n /\ 1 < k /\ 1 # k + 1  BY <1>1, <4>3
        <5> QED BY <2>2, <2>3, <4>1, <5>1
      <4> QED BY <1>1, <4>2, <4>3
    <3>6. sleeping' # <<>> => n - 1 > 0 /\ First' = sleeping'[1]  BY <1>1, <2>2 DEF First
    <3> QED BY <1>1, <2>2, <3>2, <3>3, <3>4, <3>5, <3>6, SMTT(40) DEF Listed
  <2>d. \A i \in 1..n - 1 : Due(sleeping[i])' = Due(sleeping'[i])
    BY <1>1 DEF Due
  <2>7. Offsets'
    <3>1. ASSUME NEW i \in 1..n - 1
          PROVE  offset'[sleeping'[i]] = Due(sleeping[i])' - (IF i = 1 THEN 0 ELSE Due(sleeping[i - 1])')
      <4>1. i # 1 => i - 1 \in 1..n - 1 /\ Due(sleeping[i - 1])' = Due(sleeping'[i - 1])
        BY <1>1, <2>d
      <4>2. CASE i < k
        <5>1. i \in 1..n /\ i # k + 1 /\ (i # 1 => i - 1 < k)  BY <1>1, <4>2
        <5>2. sleeping'[i] = sleeping[i] /\ (i # 1 => sleeping'[i - 1] = sleeping[i - 1])
          BY <2>2, <4>1, <4>2, <5>1
        <5> QED BY <2>1, <2>3, <2>d, <4>1, <5>1, <5>2
      <4>3. CASE i = k
        <5>1. k < n /\ k + 1 \in 1..n /\ k + 1 # 1 /\ (k + 1) - 1 = k /\ ~(k < k)  BY <1>1, <4>3
        <5>2. sleeping'[i] = sleeping[k + 1] /\ (i # 1 => sleeping'[i - 1] = sleeping[k - 1])
          BY <1>1, <2>2, <4>1, <4>3
        <5>3. offset[sleeping[k + 1]] = Due(sleeping[k + 1]) - Due(e)  BY <1>4, <2>1, <5>1
        <5>4. offset[e] = Due(e) - (IF k = 1 THEN 0 ELSE Due(sleeping[k - 1]))  BY <1>4, <2>1
        <5>5. Due(e) \in Int /\ Due(sleeping[k + 1]) \in Int /\ (k # 1 => Due(sleeping[k - 1]) \in Int)
          <6>1. k # 1 => k - 1 \in 1..n  BY <1>1
          <6> QED BY <1>1, <2>1, <5>1, <6>1
        <5>6. Due(sleeping[i])' = Due(sleeping[k + 1])  BY <2>d, <5>2
        <5>7. offset'[sleeping'[i]] = (Due(sleeping[k + 1]) - Due(e)) + offset[e]
          BY <2>3, <5>1, <5>2, <5>3
        <5>8. CASE k = 1  BY <4>3, <5>4, <5>5, <5>6, <5>7, <5>8
        <5>9. CASE k # 1
          <6>1. Due(sleeping[i - 1])' = Due(sleeping[k - 1])  BY <4>1, <4>3, <5>2, <5>9
          <6> QED BY <4>3, <5>4, <5>5, <5>6, <5>7, <5>9, <6>1
        <5> QED BY <5>8, <5>9
      <4>4. CASE i > k
        <5>1. /\ i + 1 \in 1..n /\ i + 1 # k + 1 /\ (i + 1) - 1 = i /\ i + 1 # 1 /\ i # 1
              /\ ~(i < k) /\ ~(i - 1 < k) /\ (i - 1) + 1 = i
          BY <1>1, <4>4
        <5>2. sleeping'[i] = sleeping[i + 1] /\ sleeping'[i - 1] = sleeping[i]
          BY <2>2, <4>1, <5>1
        <5> QED BY <2>1, <2>3, <2>d, <4>1, <5>1, <5>2
      <4> QED BY <1>1, <4>2, <4>3, <4>4
    <3> QED BY <2>2, <3>1 DEF Offsets
  <2>8. Sorted'
    <3>1. ASSUME NEW i \in 1..n - 1, NEW j \in 1..n - 1, i <= j
          PROVE  Due(sleeping[i])' <= Due(sleeping[j])'
      <4>1. \A x, y \in 1..n : x <= y => Due(sleeping[x]) <= Due(sleeping[y])  BY DEF IInv, Sorted
      <4> HIDE DEF n
      <4>2. CASE j < k  BY <1>1, <2>4, <2>d, <3>1, <4>1, <4>2
      <4>3. CASE i < k /\ j >= k
        <5>1. i \in 1..n /\ j + 1 \in 1..n /\ i <= j + 1  BY <1>1, <2>4, <3>1, <4>3
        <5>2. sleeping'[i] = sleeping[i] /\ sleeping'[j] = sleeping[j + 1]  BY <1>1, <2>4, <4>3
        <5> QED BY <2>d, <4>1, <5>1, <5>2
      <4>4. CASE i >= k
        <5>1. i + 1 \in 1..n /\ j + 1 \in 1..n /\ i + 1 <= j + 1 /\ j >= k  BY <1>1, <2>4, <3>1, <4>4
        <5>2. sleeping'[i] = sleeping[i + 1] /\ sleeping'[j] = sleeping[j + 1]  BY <1>1, <2>4, <4>4, <5>1
        <5> QED BY <2>d, <4>1, <5>1, <5>2
      <4> QED BY <1>1, <3>1, <4>2, <4>3, <4>4
    <3> QED BY <2>2, <3>1 DEF Sorted
  <2> QED BY <1>2, <2>5, <2>6, <2>7, <2>8 DEF IInv, TypeOK
<1> QED BY <1>3, <1>4 DEF Destroy
-----------------------------------------------------------------------------
(* Every step preserves the inductive invariant.                           *)
LEMMA NextIInv == IInv /\ [Next]_vars => IInv'
<1> SUFFICES ASSUME IInv, [Next]_vars PROVE IInv'
  OBVIOUS
<1>1. CASE Tick  BY <1>1, TickStep
<1>2. CASE Spend  BY <1>2, SpendStep
<1>3. CASE Dispatch  BY <1>3, DispatchStep
<1>4. CASE Release  BY <1>4, ReleaseStep
<1>5. ASSUME NEW e \in Events, Construct(e) \/ Walk(e) \/ Insert(e) \/ Destroy(e) PROVE IInv'
  BY <1>5, ConstructStep, WalkStep, InsertStep, DestroyStep
<1>6. CASE UNCHANGED vars
  <2>1. Typed' /\ Listed'
    BY <1>6 DEF vars, IInv, TypeOK, Typed, Listed, First
  <2>2. Offsets' /\ Sorted' /\ Walked' /\ Waiting'
    BY <1>6 DEF vars, IInv, Offsets, Sorted, Walked, Waiting, Due
  <2> QED BY <2>1, <2>2 DEF IInv, TypeOK
<1> QED BY <1>1, <1>2, <1>3, <1>4, <1>5, <1>6 DEF Next

(* What the inductive invariant says is always so.                         *)
LEMMA Invariance == Spec => []IInv
  BY InitIInv, NextIInv, PTL DEF Spec

(* The list of timer events and the variables around it keep their types.  *)
THEOREM TypeCorrect == Spec => []TypeOK
<1>1. IInv => TypeOK  BY DEF IInv
<1> QED BY <1>1, Invariance, PTL

(* Each counter is an offset from the event before it.                     *)
THEOREM OffsetsCorrect == Spec => []Offsets
<1>1. IInv => Offsets  BY DEF IInv
<1> QED BY <1>1, Invariance, PTL

(* While the handler is not at work every queued event has ticks to wait.  *)
LEMMA QueuedAreDueLater ==
  ASSUME IInv, Len(sleeping) > 0 => offset[sleeping[1]] > 0
  PROVE  \A e \in Events : phase[e] = "queued" => Due(e) > 0
<1>1. Typed /\ Listed  BY DEF IInv, TypeOK
<1>2. ASSUME NEW e \in Events, phase[e] = "queued" PROVE Due(e) > 0
  <2>1. PICK i \in 1..Len(sleeping) : sleeping[i] = e  BY <1>1, <1>2 DEF Listed
  <2>2. 1 \in 1..Len(sleeping) /\ sleeping[1] \in Events /\ 1 <= i  BY <1>1, Members
  <2>3. Due(sleeping[1]) = offset[sleeping[1]]
    BY <1>1, <2>2, Numbers DEF IInv, Offsets
  <2>4. Due(sleeping[1]) <= Due(e)  BY <2>1, <2>2 DEF IInv, Sorted
  <2> QED BY <1>1, <2>2, <2>3, <2>4, Numbers
<1> QED BY <1>2

(* No event rings early, and none is overdue when the queue is free.       *)
THEOREM EventsOnTime == Spec => []OnTime
<1>1. ASSUME IInv PROVE OnTime
  <2>1. Listed  BY <1>1 DEF IInv, TypeOK
  <2>2. lock # Handler => \A e \in Events : phase[e] = "queued" => Due(e) > 0
    BY <1>1, <2>1, QueuedAreDueLater, Members DEF Listed
  <2> QED BY <1>1, <2>2 DEF OnTime, IInv, Waiting
<1> QED BY <1>1, Invariance, PTL
-----------------------------------------------------------------------------
(* How a step of the queue looks to the alarm clock, event by event.       *)
LEMMA Seen ==
  ASSUME Typed
  PROVE  /\ \A e \in Events : Alarm[e] = IF phase[e] \in {"new", "arming"} THEN "unset"
                                       ELSE IF phase[e] = "queued" THEN "set" ELSE phase[e]
         /\ \A e \in Events : ToGo[e] = IF phase[e] = "queued" THEN Due(e) ELSE 0
  BY DEF Alarm, ToGo

(* A step in which no event changes for the alarm clock is a stutter.      *)
LEMMA SameClock ==
  ASSUME IInv,
         \A e \in Events : \/ phase'[e] = phase[e]
                           \/ phase[e] = "new" /\ phase'[e] = "arming",
         \A e \in Events : phase[e] = "queued" => Due(e)' = Due(e)
  PROVE  UNCHANGED <<Alarm, ToGo>>
  BY DEF Alarm, ToGo

(* A step that changes one event, and gives it some ticks to wait.         *)
LEMMA OneEvent ==
  ASSUME IInv, NEW e \in Events,
         phase' = [phase EXCEPT ![e] = phase'[e]],
         \A x \in Events \ {e} : phase[x] = "queued" => Due(x)' = Due(x)
  PROVE  /\ Alarm' = [Alarm EXCEPT ![e] = Alarm'[e]]
         /\ ToGo' = [ToGo EXCEPT ![e] = ToGo'[e]]
<1>1. \A x \in Events \ {e} : phase'[x] = phase[x]
  BY DEF IInv, TypeOK, Typed
<1>2. \A x \in Events \ {e} : Alarm'[x] = Alarm[x] /\ ToGo'[x] = ToGo[x]
  BY <1>1 DEF Alarm, ToGo
<1>3. Alarm = [x \in Events |-> Alarm[x]] /\ Alarm' = [x \in Events |-> Alarm'[x]]
  BY DEF Alarm
<1>4. ToGo = [x \in Events |-> ToGo[x]] /\ ToGo' = [x \in Events |-> ToGo'[x]]
  BY DEF ToGo
<1> QED BY <1>2, <1>3, <1>4

(* Each step of the queue is a step of the alarm clock or a stutter.       *)
LEMMA NextRefines == IInv /\ [Next]_vars => [Clock!Next]_(Clock!vars)
<1> SUFFICES ASSUME IInv, [Next]_vars PROVE [Clock!Next]_(Clock!vars)
  OBVIOUS
<1>t. Typed /\ Listed /\ Nobody # Handler /\ Typed' /\ Listed'
  BY NextIInv DEF IInv, TypeOK, Nobody, Handler
<1>s. UNCHANGED <<Alarm, ToGo>> => [Clock!Next]_(Clock!vars)
  BY DEF Clock!vars
<1>1. CASE Tick
  <2>1. \A e \in Events : phase[e] = "queued" => Due(e)' = Due(e)
    BY <1>t, <1>1, Numbers DEF Tick, Counted, Due
  <2> QED BY <1>1, <1>s, <2>1, SameClock DEF Tick
<1>2. CASE Release
  <2>1. \A e \in Events : phase[e] = "queued" => Due(e)' = Due(e)
    BY <1>t, <1>2, Members, SMTT(60) DEF Release, Spent, FirstIsDue, Due, Listed
  <2> QED BY <1>2, <1>s, <2>1, SameClock DEF Release
<1>3. CASE Spend
  <2>1. Len(sleeping) > 0 => offset[sleeping[1]] > 0
    BY <1>t, <1>3, Numbers, Members DEF Spend, FirstIsDue
  <2>2. \A e \in Events : phase[e] = "queued" => Due(e) > 0
    BY <2>1, QueuedAreDueLater
  <2>3. UNCHANGED phase /\ \A e \in Events : Due(e)' = Due(e) - 1
    <3>1. UNCHANGED <<phase, asked, age>> /\ pending' = pending - 1  BY <1>3 DEF Spend
    <3>2. \A e \in Events : Due(e)' = asked[e] - (age[e] - (pending - 1))  BY <3>1 DEF Due
    <3> QED BY <1>t, <3>1, <3>2, Numbers DEF Due
  <2>4. \A e \in Events : Alarm[e] = "set" => ToGo[e] > 0
    BY <1>t, <2>2, Seen DEF Typed
  <2>5. UNCHANGED Alarm  BY <2>3 DEF Alarm
  <2>6. ToGo' = [e \in Events |-> IF Alarm[e] = "set" THEN ToGo[e] - 1 ELSE ToGo[e]]
    <3>1. ToGo' = [e \in Events |-> IF phase[e] = "queued" THEN Due(e) - 1 ELSE 0]
      BY <2>3 DEF ToGo
    <3>2. \A e \in Events : Alarm[e] = "set" <=> phase[e] = "queued"
      BY <1>t, Seen DEF Typed
    <3> QED BY <1>t, <3>1, <3>2, Seen
  <2> QED BY <2>4, <2>5, <2>6 DEF Clock!Next, Clock!Pass
<1>4. CASE Dispatch
  <2> DEFINE f == sleeping[1]
  <2>1. f \in Events /\ phase[f] = "queued" /\ offset[f] = 0
    <3>1. Len(sleeping) > 0 /\ First = f  BY <1>t, <1>4, Members DEF Dispatch, FirstIsDue
    <3>2. f \in Events /\ offset[f] \in Nat /\ phase[f] = "queued"  BY <1>t, <3>1, Numbers, Members
    <3> QED BY <1>4, <3>1, <3>2 DEF Dispatch, FirstIsDue
  <2>2. phase' = [phase EXCEPT ![f] = "rung"] /\ \A e \in Events : Due(e)' = Due(e)
    BY <1>t, <1>4, Members DEF Dispatch, FirstIsDue, Due
  <2>3. Due(f) = 0
    <3>1. 1 \in 1..Len(sleeping)  BY <1>t, <1>4, Members DEF Dispatch, FirstIsDue
    <3> QED BY <1>t, <2>1, <3>1, Numbers DEF IInv, Offsets
  <2> HIDE DEF f
  <2>4. phase'[f] = "rung"  BY <1>t, <2>1, <2>2 DEF Typed
  <2>5. /\ Alarm[f] = "set" /\ ToGo[f] = 0 /\ Alarm'[f] = "rung" /\ ToGo'[f] = 0
    BY <2>1, <2>3, <2>4 DEF Alarm, ToGo
  <2>6. Alarm' = [Alarm EXCEPT ![f] = "rung"] /\ ToGo' = [ToGo EXCEPT ![f] = 0]
    BY <2>1, <2>2, <2>4, <2>5, OneEvent
  <2>7. UNCHANGED ToGo  BY <2>5, <2>6 DEF ToGo
  <2> QED BY <2>1, <2>5, <2>6, <2>7 DEF Clock!Next, Clock!Ring
<1>5. ASSUME NEW e \in Events, Construct(e) PROVE [Clock!Next]_(Clock!vars)
  <2>1. phase[e] = "new" /\ \A x \in Events : phase[x] = "queued" => Due(x)' = Due(x)
    <3>1. UNCHANGED <<age, pending>> /\ phase[e] = "new"
          /\ \A x \in Events \ {e} : asked'[x] = asked[x]
      BY <1>t, <1>5 DEF Construct, Typed
    <3> QED BY <3>1 DEF Due
  <2>2. CASE phase' = [phase EXCEPT ![e] = "arming"]
    BY <1>t, <1>s, <2>1, <2>2, SameClock DEF Typed
  <2>3. CASE phase' = [phase EXCEPT ![e] = "rung"]
    <3>1. phase'[e] = "rung"  BY <1>t, <2>3 DEF Typed
    <3>2. Alarm[e] = "unset" /\ ToGo[e] = 0 /\ Alarm'[e] = "rung" /\ ToGo'[e] = 0
      BY <2>1, <3>1 DEF Alarm, ToGo
    <3>3. Alarm' = [Alarm EXCEPT ![e] = "rung"] /\ ToGo' = [ToGo EXCEPT ![e] = 0]
      BY <2>1, <2>3, <3>1, <3>2, OneEvent
    <3>4. UNCHANGED ToGo  BY <3>2, <3>3 DEF ToGo
    <3> QED BY <3>2, <3>3, <3>4 DEF Clock!Next, Clock!RingAtOnce
  <2> QED BY <1>5, <2>2, <2>3 DEF Construct
<1>6. ASSUME NEW e \in Events, Walk(e) PROVE [Clock!Next]_(Clock!vars)
  <2>1. UNCHANGED <<phase, asked, age, pending>>  BY <1>6 DEF Walk
  <2> QED BY <1>s, <2>1, SameClock DEF Due
<1>7. ASSUME NEW e \in Events, Insert(e) PROVE [Clock!Next]_(Clock!vars)
  <2>1. /\ phase[e] = "arming" /\ phase' = [phase EXCEPT ![e] = "queued"]
        /\ age' = [age EXCEPT ![e] = pending] /\ UNCHANGED <<pending, asked>>
    BY <1>t, <1>7 DEF Insert, Typed
  <2>2. asked[e] \in Delays /\ asked[e] > 0 /\ phase'[e] = "queued"
    BY <1>t, <2>1 DEF IInv, Waiting, Typed
  <2>3. Due(e)' = asked[e] /\ \A x \in Events \ {e} : Due(x)' = Due(x)
    BY <1>t, <2>1, Numbers DEF Due, Typed
  <2>4. Alarm[e] = "unset" /\ Alarm'[e] = "set" /\ ToGo'[e] = asked[e]
    BY <2>1, <2>2, <2>3 DEF Alarm, ToGo
  <2>5. Alarm' = [Alarm EXCEPT ![e] = "set"] /\ ToGo' = [ToGo EXCEPT ![e] = asked[e]]
    BY <2>1, <2>2, <2>3, <2>4, OneEvent
  <2> QED BY <2>2, <2>4, <2>5 DEF Clock!Next, Clock!Set
<1>8. ASSUME NEW e \in Events, Destroy(e) PROVE [Clock!Next]_(Clock!vars)
  <2>1. /\ phase' = [phase EXCEPT ![e] = "gone"] /\ UNCHANGED <<pending, asked, age>>
        /\ phase[e] \in {"queued", "rung"}
    BY <1>t, <1>8, Members DEF Destroy
  <2>2. phase'[e] = "gone" /\ \A x \in Events : Due(x)' = Due(x)
    BY <1>t, <2>1 DEF Due, Typed
  <2>3. Alarm[e] \in {"set", "rung"} /\ Alarm'[e] = "gone" /\ ToGo'[e] = 0
    BY <2>1, <2>2 DEF Alarm, ToGo
  <2>4. Alarm' = [Alarm EXCEPT ![e] = "gone"] /\ ToGo' = [ToGo EXCEPT ![e] = 0]
    BY <2>1, <2>2, <2>3, OneEvent
  <2> QED BY <2>3, <2>4 DEF Clock!Next, Clock!Cancel
<1>9. CASE UNCHANGED vars
  <2>1. UNCHANGED <<phase, asked, age, pending>>  BY <1>9 DEF vars
  <2> QED BY <1>s, <2>1, SameClock DEF Due
<1> QED BY <1>1, <1>2, <1>3, <1>4, <1>5, <1>6, <1>7, <1>8, <1>9 DEF Next

(* The queue of offsets implements the alarm clock.                        *)
THEOREM Refinement == Spec => Implements
<1>1. Init => Clock!Init
  BY DEF Init, Clock!Init, Alarm, ToGo
<1> QED BY <1>1, Invariance, NextRefines, PTL DEF Spec, Implements, Clock!Spec
=============================================================================
