------------------------------- MODULE Deque -------------------------------
(* A sequence that grows, shrinks and changes one item at a time: what the *)
(* containers of the kernel promise their clients.                         *)
EXTENDS Integers, Sequences

CONSTANT Values
VARIABLE items

Init == items = <<>>

Insert == \E i \in 1 .. Len(items) + 1, v \in Values :
    items' = SubSeq(items, 1, i - 1) \o <<v>> \o SubSeq(items, i, Len(items))
Delete == \E i \in 1 .. Len(items) :
    items' = SubSeq(items, 1, i - 1) \o SubSeq(items, i + 1, Len(items))
Update == \E i \in 1 .. Len(items), v \in Values : items' = [items EXCEPT ![i] = v]
Empty == items' = <<>>

Next == Insert \/ Delete \/ Update \/ Empty
Spec == Init /\ [][Next]_items
=============================================================================
