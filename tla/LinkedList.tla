----------------------------- MODULE LinkedList ------------------------------
(***************************************************************************)
(* The list of the elements of a menu (data_structs/linked_list.c) on the  *)
(* heap: nodes that malloc gives and free takes back, in any order.        *)
(***************************************************************************)
EXTENDS Integers, FiniteSets, Functions

CONSTANTS
    Nodes,   \* addresses of nodes; bound: the memory there is
    Values,  \* the data pointers
    NULL     \* the null pointer

ASSUME NodesAssumption == IsFiniteSet(Nodes) /\ NULL \notin Nodes

VARIABLES
    heap,    \* the allocated nodes and their fields
    head,    \* *head
    exited   \* the program has called exit

vars == <<heap, head, exited>>

Init == heap = << >> /\ head = NULL /\ exited = FALSE

-----------------------------------------------------------------------------
\* The pointer after k steps along the next fields.
Step[k \in 0..Cardinality(Nodes)] ==
    IF k = 0 THEN head
    ELSE IF Step[k - 1] \in DOMAIN heap THEN heap[Step[k - 1]].next ELSE NULL

Length == Cardinality({k \in 0..Cardinality(Nodes) : Step[k] # NULL})

\* The heap h with one node more, at n.
Node_create(h, n, v) ==
    [x \in DOMAIN h \cup {n} |->
        IF x = n THEN [data |-> v, next |-> NULL] ELSE h[x]]

AppendBehindHead(v) ==
    /\ ~exited
    /\ \E n \in Nodes \ DOMAIN heap :
          /\ heap' = Node_create(IF head = NULL THEN heap
                                 ELSE [heap EXCEPT ![head].next = n], n, v)
          /\ head' = IF head = NULL THEN n ELSE head
    /\ UNCHANGED exited

\* The new node is linked to the last one, the first one to *head.
Node_append(v) ==
    /\ ~exited
    /\ \E n \in Nodes \ DOMAIN heap :
          /\ heap' = Node_create(IF head = NULL THEN heap
                                 ELSE [heap EXCEPT ![Step[Length - 1]].next = n], n, v)
          /\ head' = IF head = NULL THEN n ELSE head
    /\ UNCHANGED exited

\* Node_create ends the program when malloc gives no memory.
OutOfMemory ==
    /\ ~exited
    /\ exited' = TRUE
    /\ UNCHANGED <<heap, head>>

\* The steps to the first node with the data: Length if there is none.
Found(v) ==
    CHOOSE k \in 0..Length :
        /\ k < Length => heap[Step[k]].data = v
        /\ \A j \in 0..k - 1 : heap[Step[j]].data # v

RemoveWithoutRelink(v) ==
    LET k == Found(v)
    IN /\ ~exited /\ k < Length
       /\ head' = IF k = 0 THEN heap[head].next ELSE head
       /\ heap' = Restrict(heap, DOMAIN heap \ {Step[k]})
       /\ UNCHANGED exited

\* The node is taken out of the list, at its head or behind another node, and
\* freed; a value that is not in the list changes nothing.
Node_remove(v) ==
    LET k == Found(v)
        temp == Step[k]
    IN /\ ~exited /\ k < Length
       /\ head' = IF k = 0 THEN heap[temp].next ELSE head
       /\ heap' = Restrict(IF k = 0 THEN heap
                           ELSE [heap EXCEPT ![Step[k - 1]].next = heap[temp].next],
                           DOMAIN heap \ {temp})
       /\ UNCHANGED exited

Next ==
    \/ \E v \in Values : Node_append(v) \/ Node_remove(v)
    \/ OutOfMemory

Spec == Init /\ [][Next]_vars

\* What List_print and Menu_draw pass over, in their order.
Items == [i \in 1..Length |-> heap[Step[i - 1]].data]

-----------------------------------------------------------------------------
(* Properties. *)

\* The pointers of the list lead to allocated nodes only and end at a null
\* pointer, so that no loop over the list touches freed memory or goes on for
\* ever; and every allocated node is in the list, none is lost on removal.
HeapIsList ==
    /\ Step[Cardinality(Nodes)] = NULL
    /\ DOMAIN heap = {Step[k] : k \in 0..Cardinality(Nodes)} \ {NULL}

\* Whatever the order in which nodes are taken and given back, the list is
\* the sequence of ListSpec: appended values come last, and a removal takes
\* the first of several equal values and keeps the order of the others.
List == INSTANCE ListSpec WITH items <- Items
IsSequence == List!Spec
=============================================================================
