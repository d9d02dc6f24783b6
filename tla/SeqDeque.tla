------------------------------ MODULE SeqDeque ------------------------------
(***************************************************************************)
(* What a double-ended queue promises: a sequence that grows and shrinks   *)
(* by one element at either end.                                           *)
(***************************************************************************)
EXTENDS Sequences, SequencesExt

CONSTANT Elem

VARIABLE items

Init == items = <<>>

PushBack == \E v \in Elem : items' = Append(items, v)
PushFront == \E v \in Elem : items' = <<v>> \o items
PopBack == items # <<>> /\ items' = Front(items)
PopFront == items # <<>> /\ items' = Tail(items)

Next == PushBack \/ PushFront \/ PopBack \/ PopFront

Spec == Init /\ [][Next]_items

=============================================================================
