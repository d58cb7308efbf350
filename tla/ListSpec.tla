------------------------------ MODULE ListSpec -------------------------------
(***************************************************************************)
(* What the linked list promises its users, the menus: a sequence that     *)
(* grows at its end and loses the first occurrence of a value.             *)
(***************************************************************************)
EXTENDS Sequences, SequencesExt

CONSTANT Values
VARIABLE items

Init == items = << >>

Add(v) == items' = Append(items, v)

Drop(v) ==
    /\ v \in ToSet(items)
    /\ items' = RemoveFirst(items, v)

Next == \E v \in Values : Add(v) \/ Drop(v)

Spec == Init /\ [][Next]_items
=============================================================================
