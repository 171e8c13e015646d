----------------------------- MODULE LinkedList -----------------------------
(***************************************************************************)
(* List<T> and FastList<T> of List.h at the level of their links.  A List  *)
(* is straight and ends in null; a FastList is a ring through the objects  *)
(* themselves.  A List keeps its spare nodes in a FastList, so the same    *)
(* two fields of a node serve both.  "ring" is a FastList of a client (a   *)
(* run queue, the waiters of a lock).  The operations of a List run under  *)
(* its spinlock and are one step each.                                     *)
(***************************************************************************)
EXTENDS Integers, Sequences, FiniteSets

CONSTANTS
    Nodes,     \* what kmalloc may return: bounds the lengths
    Values,    \* the objects of the List
    MaxCache,  \* List::maxCache, 6 in the code
    Null       \* no node

VARIABLE h     \* the links, and the heads of the three lists

Heads == {"list", "cache", "ring"}

\* The node k steps after n.
Nth(s, n, k) == LET at[i \in 0 .. k] == IF i = 0 THEN n ELSE s.next[at[i - 1]] IN at[k]
Chain(s, l) == [i \in 1 .. s.num[l] |-> Nth(s, s.front[l], i - 1)]
Members(s, l) == {Chain(s, l)[i] : i \in 1 .. s.num[l]}
Heap(s) == Nodes \ UNION {Members(s, l) : l \in Heads}
-----------------------------------------------------------------------------
(* FastList *)

FastAddBack(s, l, n) ==
    IF s.front[l] = Null
    THEN [s EXCEPT !.prev[n] = n, !.next[n] = n, !.front[l] = n, !.back[l] = n, !.num[l] = @ + 1]
    ELSE [s EXCEPT !.next[n] = s.front[l], !.prev[n] = s.back[l], !.next[s.back[l]] = n,
                   !.prev[s.front[l]] = n, !.back[l] = n, !.num[l] = @ + 1]

FastAddFront(s, l, n) ==
    IF s.back[l] = Null
    THEN [s EXCEPT !.prev[n] = n, !.next[n] = n, !.back[l] = n, !.front[l] = n, !.num[l] = @ + 1]
    ELSE [s EXCEPT !.next[n] = s.front[l], !.prev[s.front[l]] = n, !.next[s.back[l]] = n,
                   !.front[l] = n, !.prev[n] = s.back[l], !.num[l] = @ + 1]

FastInsert(s, l, n, it) ==
    IF it = s.front[l]
    THEN FastAddFront(s, l, n)
    ELSE [s EXCEPT !.prev[n] = s.prev[it], !.next[n] = it, !.next[s.prev[it]] = n,
                   !.prev[it] = n, !.num[l] = @ + 1]

\* What both removals do to the links of the neighbours and to the head.
Unlinked(s, l, n) ==
    LET nx == s.next[n]
        pv == s.prev[n]
        a == IF nx = Null THEN s ELSE [s EXCEPT !.prev[nx] = pv]
        b == IF pv = Null THEN a ELSE [a EXCEPT !.next[pv] = nx]
    IN  [b EXCEPT !.front[l] = IF @ = n THEN nx ELSE @, !.back[l] = IF @ = n THEN pv ELSE @,
                  !.num[l] = @ - 1]

Emptied(s, l) ==
    IF s.num[l] = 0 THEN [s EXCEPT !.front[l] = Null, !.back[l] = Null] ELSE s

FastRemove(s, l, n) ==
    Emptied([Unlinked(s, l, n) EXCEPT !.next[n] = Null, !.prev[n] = Null], l)

FastRemoveAt(s, l, pos) == FastRemove(s, l, Nth(s, s.front[l], pos))
-----------------------------------------------------------------------------
(* List *)

\* The node AllocateNode returns; kmalloc's choice among free memory does not matter.
Allocated(s) == IF s.num["cache"] = 0 THEN CHOOSE n \in Heap(s) : TRUE ELSE s.front["cache"]

AllocateNode(s) == IF s.num["cache"] = 0 THEN s ELSE FastRemoveAt(s, "cache", 0)

DestroyNode(s, n) ==
    IF s.num["cache"] >= MaxCache THEN s ELSE FastAddBack(s, "cache", n)

NewNodeStaysSpare(s, v) ==   \* mutant
    LET n == Allocated(s) IN [s EXCEPT !.obj[n] = v, !.next[n] = Null, !.prev[n] = Null]
NewNode(s, v) ==
    LET n == Allocated(s)
    IN  [AllocateNode(s) EXCEPT !.obj[n] = v, !.next[n] = Null, !.prev[n] = Null]

AddBack(s, v) ==
    LET n == Allocated(s)
        t == NewNode(s, v)
        linked == IF t.front["list"] = Null
                  THEN [t EXCEPT !.front["list"] = n]
                  ELSE [t EXCEPT !.next[t.back["list"]] = n, !.prev[n] = t.back["list"]]
    IN  [linked EXCEPT !.back["list"] = n, !.num["list"] = @ + 1]

AddFront(s, v) ==
    LET n == Allocated(s)
        t == NewNode(s, v)
        linked == IF t.back["list"] = Null
                  THEN [t EXCEPT !.back["list"] = n]
                  ELSE [t EXCEPT !.prev[t.front["list"]] = n, !.next[n] = t.front["list"]]
    IN  [linked EXCEPT !.front["list"] = n, !.num["list"] = @ + 1]

InsertNodeBefore(s, n, e) ==
    LET t == [s EXCEPT !.prev[n] = s.prev[e], !.next[n] = e, !.prev[e] = n, !.num["list"] = @ + 1]
        u == IF s.prev[e] = Null THEN t ELSE [t EXCEPT !.next[s.prev[e]] = n]
    IN  IF e = s.front["list"] THEN [u EXCEPT !.front["list"] = n] ELSE u

\* At the last node the code appends: the new node comes after the iterator's.
InsertAt(s, v, e) ==
    IF e = s.back["list"] THEN AddBack(s, v) ELSE InsertNodeBefore(NewNode(s, v), Allocated(s), e)

ReplaceAt(s, pos, v) == [s EXCEPT !.obj[Nth(s, s.front["list"], pos)] = v]

RemoveNode(s, n) == Emptied(DestroyNode(Unlinked(s, "list", n), n), "list")
RemoveAt(s, pos) == RemoveNode(s, Nth(s, s.front["list"], pos))

\* The first node that holds v, or the last node.
FirstHolding(s, v) ==
    LET c == Chain(s, "list")
        hits == {i \in DOMAIN c : s.obj[c[i]] = v}
    IN  IF hits = {} THEN s.back["list"] ELSE c[CHOOSE i \in hits : \A j \in hits : i <= j]

RemoveValue(s, v) ==
    IF s.num["list"] <= 0 \/ s.front["list"] = Null \/ s.obj[FirstHolding(s, v)] # v
    THEN s
    ELSE DestroyNode(Unlinked(s, "list", FirstHolding(s, v)), FirstHolding(s, v))

RemoveIterator(s, n) == DestroyNode(Unlinked(s, "list", n), n)

Clear(s) ==
    LET c == Chain(s, "list")
        after[i \in 0 .. Len(c)] == IF i = 0 THEN s ELSE DestroyNode(after[i - 1], c[i])
    IN  [after[Len(c)] EXCEPT !.front["list"] = Null, !.back["list"] = Null, !.num["list"] = 0]

\* allocate(1): a node for the cache ahead of use.
Allocate(s) == FastAddBack(s, "cache", CHOOSE n \in Heap(s) : TRUE)
-----------------------------------------------------------------------------
Init ==
    \E v \in Values :
        h = [next |-> [n \in Nodes |-> Null], prev |-> [n \in Nodes |-> Null],
             obj |-> [n \in Nodes |-> v], front |-> [l \in Heads |-> Null],
             back |-> [l \in Heads |-> Null], num |-> [l \in Heads |-> 0]]

Room == Heap(h) # {} \/ h.num["cache"] > 0

ListStep ==
    \/ Room /\ \E v \in Values : \/ h' = AddBack(h, v)
                                 \/ h' = AddFront(h, v)
                                 \/ \E e \in Members(h, "list") : h' = InsertAt(h, v, e)
    \/ \E pos \in 0 .. h.num["list"] - 1 : \/ h' = RemoveAt(h, pos)
                                           \/ \E v \in Values : h' = ReplaceAt(h, pos, v)
    \/ \E v \in Values : h' = RemoveValue(h, v)
    \/ \E n \in Members(h, "list") : h' = RemoveIterator(h, n)
    \/ h' = Clear(h)
    \/ Heap(h) # {} /\ h' = Allocate(h)

RingStep ==
    \/ \E n \in Heap(h) : \/ h' = FastAddBack(h, "ring", n)
                          \/ h' = FastAddFront(h, "ring", n)
                          \/ \E it \in Members(h, "ring") : h' = FastInsert(h, "ring", n, it)
    \/ \E n \in Members(h, "ring") : h' = FastRemove(h, "ring", n)
    \/ \E pos \in 0 .. h.num["ring"] - 1 : h' = FastRemoveAt(h, "ring", pos)

Next == ListStep \/ RingStep
Spec == Init /\ [][Next]_h
-----------------------------------------------------------------------------
\* The neighbours of a chain agree with each other, and its head with its ends.
Linked(l) ==
    LET c == Chain(h, l)
        last == h.num[l]
    IN  /\ Cardinality(Members(h, l)) = last
        /\ (last = 0) => h.front[l] = Null /\ h.back[l] = Null
        /\ (last > 0) => h.front[l] = c[1] /\ h.back[l] = c[last]
        /\ \A i \in 1 .. last - 1 : h.prev[c[i + 1]] = c[i]
        /\ (last > 0) => IF l = "list" THEN h.next[c[last]] = Null /\ h.prev[c[1]] = Null
                                       ELSE h.next[c[last]] = c[1] /\ h.prev[c[1]] = c[last]

\* After any sequence of operations each list can be walked both ways, its length is the
\* number of its nodes, a FastList closes, and no node is in two lists although the List
\* and its cache share the links (FastList::remove asserts parts of this).
Links ==
    /\ \A l \in Heads : Linked(l)
    /\ \A l, m \in Heads : l # m => Members(h, l) \cap Members(h, m) = {}
    /\ h.num["cache"] <= Cardinality(Nodes)

\* The objects of the List and the nodes of the client's FastList, in order.
Objects == [i \in 1 .. h.num["list"] |-> h.obj[Chain(h, "list")[i]]]
AsSequence == INSTANCE Deque WITH items <- Objects
AsRing == INSTANCE Deque WITH items <- Chain(h, "ring"), Values <- Nodes

\* A List is a sequence of its objects, and a FastList one of its nodes: every operation
\* of List.h is one insertion, removal or replacement, or empties the List.
Implements == [AsSequence!Next]_Objects /\ [AsRing!Next]_(Chain(h, "ring"))
=============================================================================
