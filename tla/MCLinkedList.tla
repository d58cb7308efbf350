---------------------------- MODULE MCLinkedList -----------------------------
(* Four nodes and two values, so that values occur several times. *)
EXTENDS LinkedList
=============================================================================
