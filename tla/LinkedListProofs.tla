-------------------------- MODULE LinkedListProofs ---------------------------
(***************************************************************************)
(* The properties of LinkedList for any memory and any data.               *)
(*                                                                         *)
(* The properties speak of Step, the pointer after k steps: a recursive    *)
(* function of the whole heap.  The invariant names the nodes in their     *)
(* order instead (Chained): append puts a node behind the last, remove     *)
(* closes the gap.  StepFollows ties the two together: the recursion has   *)
(* one solution, and the chain gives it.                                   *)
(***************************************************************************)
EXTENDS LinkedList, FiniteSetTheorems, SequenceTheorems, WellFoundedInduction, TLAPS

Cell == [data : Values, next : Nodes \cup {NULL}]

\* p[1], ..., p[n] are the nodes of the heap h from the head d on, each once.
Chained(h, d, n, p) ==
    /\ n \in Nat
    /\ DOMAIN h \subseteq Nodes
    /\ \A x \in DOMAIN h : h[x] \in Cell
    /\ p \in [1..n -> DOMAIN h]
    /\ \A i, j \in 1..n : p[i] = p[j] => i = j
    /\ \A x \in DOMAIN h : \E i \in 1..n : p[i] = x
    /\ d = IF n = 0 THEN NULL ELSE p[1]
    /\ \A i \in 1..n : h[p[i]].next = IF i = n THEN NULL ELSE p[i + 1]

Inv ==
    /\ exited \in BOOLEAN
    /\ \E n, p : Chained(heap, head, n, p)

N == Cardinality(Nodes)

-----------------------------------------------------------------------------
(* Numbers. *)

LEMMA NIsNat == N \in Nat
BY NodesAssumption, FS_CardinalityType DEF N

\* A set of numbers has a smallest one.
LEMMA Smallest ==
    ASSUME NEW T \in SUBSET Nat, T # {}
    PROVE  \E x \in T : \A y \in T : x <= y
<1> DEFINE R == OpToRel(<, Nat)
<1>1. IsWellFoundedOn(R, Nat)
  BY NatLessThanWellFounded
<1>2. \A x, y \in Nat : x < y => <<x, y>> \in R
  BY DEF OpToRel
<1> HIDE DEF R
<1>3. PICK x \in T : \A y \in T : ~(<<y, x>> \in R)
  BY <1>1, WFMin
<1>4. ASSUME NEW y \in T
      PROVE  x <= y
  <2>1. x \in Nat /\ y \in Nat
    OBVIOUS
  <2>2. ~(<<y, x>> \in R)
    BY <1>3
  <2>3. ~(y < x)
    BY <2>1, <2>2, <1>2
  <2> QED BY <2>1, <2>3
<1> QED BY <1>4

\* A chain is no longer than the memory.
LEMMA ChainFits ==
    ASSUME NEW h, NEW d, NEW n, NEW p, Chained(h, d, n, p)
    PROVE  n \in Nat /\ n <= N /\ N \in Nat
<1>1. n \in Nat /\ DOMAIN h \subseteq Nodes
  BY DEF Chained
<1>2. p \in Injection(1..n, Nodes)
  BY <1>1 DEF Chained, Injection, IsInjective
<1>3. Cardinality(1..n) <= N
  BY <1>2, NodesAssumption, FS_Injection DEF N
<1>4. Cardinality(1..n) = n
  BY <1>1, FS_Interval
<1> QED BY <1>1, <1>3, <1>4, NIsNat

-----------------------------------------------------------------------------
(* The walk along the pointers. *)

\* What the recursion computes: the nodes of the chain, then null pointers.
Along(n, p) == [k \in 0..N |-> IF k < n THEN p[k + 1] ELSE NULL]

LEMMA AlongIsSolution ==
    ASSUME NEW n, NEW p, Chained(heap, head, n, p)
    PROVE  Along(n, p) = [k \in 0..N |->
                             IF k = 0 THEN head
                             ELSE IF Along(n, p)[k - 1] \in DOMAIN heap
                                  THEN heap[Along(n, p)[k - 1]].next ELSE NULL]
<1> DEFINE g == Along(n, p)
<1>1. n \in Nat /\ n <= N /\ N \in Nat
  BY ChainFits
<1>2. NULL \notin DOMAIN heap
  BY NodesAssumption DEF Chained
<1>3. \A k \in 0..N : g[k] = IF k < n THEN p[k + 1] ELSE NULL
  BY DEF Along
<1>4. ASSUME NEW k \in 0..N
      PROVE  g[k] = IF k = 0 THEN head
                    ELSE IF g[k - 1] \in DOMAIN heap THEN heap[g[k - 1]].next ELSE NULL
  <2>1. CASE k = 0
    BY <2>1, <1>1, <1>3 DEF Chained
  <2>2. CASE k # 0 /\ k <= n
    <3>1. k - 1 \in 0..N /\ k - 1 < n /\ k \in 1..n /\ k - 1 + 1 = k
      BY <2>2, <1>1
    <3>2. g[k - 1] = p[k]
      BY <3>1, <1>3
    <3>3. p[k] \in DOMAIN heap
      BY <3>1 DEF Chained
    <3>4. heap[p[k]].next = IF k = n THEN NULL ELSE p[k + 1]
      BY <3>1 DEF Chained
    <3>5. k < n <=> k # n
      BY <3>1, <1>1
    <3> QED BY <3>2, <3>3, <3>4, <3>5, <1>3, <2>2
  <2>3. CASE k > n
    <3>1. k - 1 \in 0..N /\ ~(k - 1 < n) /\ ~(k < n) /\ k # 0
      BY <2>3, <1>1
    <3>2. g[k - 1] = NULL /\ g[k] = NULL
      BY <3>1, <1>3
    <3> QED BY <3>1, <3>2, <1>2
  <2> QED BY <2>1, <2>2, <2>3, <1>1
<1> QED BY <1>4, <1>3 DEF Along

LEMMA StepIsSolution ==
    ASSUME NEW n, NEW p, Chained(heap, head, n, p)
    PROVE  Step = [k \in 0..N |->
                      IF k = 0 THEN head
                      ELSE IF Step[k - 1] \in DOMAIN heap
                           THEN heap[Step[k - 1]].next ELSE NULL]
<1> DEFINE IsSolution(f) == f = [k \in 0..N |->
                      IF k = 0 THEN head
                      ELSE IF f[k - 1] \in DOMAIN heap
                           THEN heap[f[k - 1]].next ELSE NULL]
<1>1. IsSolution(Along(n, p))
  BY AlongIsSolution
<1>2. Step = CHOOSE f : IsSolution(f)
  BY DEF Step, N
<1> HIDE DEF IsSolution
<1>3. IsSolution(Step)
  BY <1>1, <1>2
<1> QED BY <1>3 DEF IsSolution

\* The recursion has one solution: of two, look at the first difference.
LEMMA StepFollows ==
    ASSUME NEW n, NEW p, Chained(heap, head, n, p)
    PROVE  Step = Along(n, p)
<1> DEFINE g == Along(n, p)
           D == {k \in 0..N : Step[k] # g[k]}
<1>1. g = [k \in 0..N |-> IF k = 0 THEN head
                          ELSE IF g[k - 1] \in DOMAIN heap
                               THEN heap[g[k - 1]].next ELSE NULL]
  BY AlongIsSolution
<1>2. Step = [k \in 0..N |-> IF k = 0 THEN head
                             ELSE IF Step[k - 1] \in DOMAIN heap
                                  THEN heap[Step[k - 1]].next ELSE NULL]
  BY StepIsSolution
<1> HIDE DEF g
<1>3. D = {}
  <2> SUFFICES ASSUME D # {} PROVE FALSE
    OBVIOUS
  <2>1. PICK k \in D : \A j \in D : k <= j
    <3>1. D \in SUBSET Nat
      BY NIsNat
    <3> HIDE DEF D
    <3> QED BY <3>1, Smallest
  <2>2. k \in 0..N /\ Step[k] # g[k]
    BY <2>1
  <2>3. k # 0
    BY <2>2, <1>1, <1>2
  <2>4. k - 1 \in 0..N /\ ~(k <= k - 1)
    BY <2>2, <2>3, NIsNat
  <2>5. Step[k - 1] = g[k - 1]
    BY <2>1, <2>4
  <2>6. Step[k] = IF Step[k - 1] \in DOMAIN heap THEN heap[Step[k - 1]].next ELSE NULL
    BY <1>2, <2>2, <2>3
  <2>7. g[k] = IF g[k - 1] \in DOMAIN heap THEN heap[g[k - 1]].next ELSE NULL
    BY <1>1, <2>2, <2>3
  <2> QED BY <2>2, <2>5, <2>6, <2>7
<1>4. \A k \in 0..N : Step[k] = g[k]
  BY <1>3
<1>5. Step = [k \in 0..N |-> Step[k]] /\ g = [k \in 0..N |-> g[k]]
  BY <1>1, <1>2
<1>6. Step = g
  BY <1>4, <1>5
<1> QED BY <1>6 DEF g

LEMMA LengthIs ==
    ASSUME NEW n, NEW p, Chained(heap, head, n, p)
    PROVE  /\ Length = n
           /\ \A k \in 0..n - 1 : Step[k] = p[k + 1]
<1>1. n \in Nat /\ n <= N /\ N \in Nat
  BY ChainFits
<1>2. \A k \in 0..N : Step[k] = IF k < n THEN p[k + 1] ELSE NULL
  BY StepFollows DEF Along
<1>3. \A i \in 1..n : p[i] # NULL
  BY NodesAssumption DEF Chained
<1>4. {k \in 0..N : Step[k] # NULL} = 0..n - 1
  <2>1. ASSUME NEW k \in 0..N
        PROVE  Step[k] # NULL <=> k \in 0..n - 1
    BY <1>1, <1>2, <1>3
  <2>2. 0..n - 1 \subseteq 0..N
    BY <1>1
  <2> QED BY <2>1, <2>2
<1>5. Cardinality(0..n - 1) = n
  BY <1>1, FS_Interval
<1>6. Length = n
  BY <1>4, <1>5 DEF Length, N
<1> QED BY <1>1, <1>2, <1>6

-----------------------------------------------------------------------------
(* Append. *)

Longer(n, p, a) == [i \in 1..n + 1 |-> IF i = n + 1 THEN a ELSE p[i]]

LEMMA LongerChained ==
    ASSUME NEW h, NEW d, NEW n, NEW p, Chained(h, d, n, p),
           NEW a \in Nodes, a \notin DOMAIN h, NEW h2, NEW d2,
           DOMAIN h2 = DOMAIN h \cup {a},
           \A x \in DOMAIN h2 : h2[x] \in Cell,
           h2[a].next = NULL,
           \A x \in DOMAIN h : h2[x].next = IF n # 0 /\ x = p[n] THEN a ELSE h[x].next,
           d2 = IF n = 0 THEN a ELSE d
    PROVE  Chained(h2, d2, n + 1, Longer(n, p, a))
<1> DEFINE q == Longer(n, p, a)
<1>1. n \in Nat /\ DOMAIN h \subseteq Nodes
  BY DEF Chained
<1>2. p \in [1..n -> DOMAIN h]
  BY DEF Chained
<1>3. /\ q[n + 1] = a
      /\ \A i \in 1..n : q[i] = p[i] /\ p[i] \in DOMAIN h /\ q[i] # a
      /\ \A i \in 1..n + 1 : i \in 1..n \/ i = n + 1
  BY <1>1, <1>2 DEF Longer
<1>4. q \in [1..n + 1 -> DOMAIN h2]
  BY <1>1, <1>2 DEF Longer
<1> HIDE DEF q
<1>5. \A i, j \in 1..n + 1 : q[i] = q[j] => i = j
  BY <1>3 DEF Chained
<1>6. \A x \in DOMAIN h2 : \E i \in 1..n + 1 : q[i] = x
  <2>1. ASSUME NEW x \in DOMAIN h
        PROVE  \E i \in 1..n + 1 : q[i] = x
    <3>1. PICK i \in 1..n : p[i] = x
      BY DEF Chained
    <3> QED BY <3>1, <1>3, <1>1
  <2>2. n + 1 \in 1..n + 1
    BY <1>1
  <2> QED BY <2>1, <2>2, <1>3
<1>7. d2 = IF n + 1 = 0 THEN NULL ELSE q[1]
  <2>1. CASE n = 0
    BY <2>1, <1>3
  <2>2. CASE n # 0
    <3>1. 1 \in 1..n /\ n + 1 # 0
      BY <2>2, <1>1
    <3>2. d = p[1]
      BY <2>2 DEF Chained
    <3> QED BY <2>2, <3>1, <3>2, <1>3
  <2> QED BY <2>1, <2>2
<1>8. ASSUME NEW i \in 1..n + 1
      PROVE  h2[q[i]].next = IF i = n + 1 THEN NULL ELSE q[i + 1]
  <2>1. CASE i = n + 1
    BY <2>1, <1>3
  <2>2. CASE i \in 1..n /\ i = n
    <3>1. i # n + 1 /\ n # 0 /\ q[i] = p[n] /\ p[n] \in DOMAIN h
      BY <2>2, <1>1, <1>3
    <3>2. q[i + 1] = a
      BY <2>2, <1>3
    <3> QED BY <3>1, <3>2
  <2>3. CASE i \in 1..n /\ i # n
    <3>1. i # n + 1 /\ n \in 1..n /\ i + 1 \in 1..n
      BY <2>3, <1>1
    <3>2. p[i] # p[n]
      BY <2>3, <3>1 DEF Chained
    <3>3. h[p[i]].next = p[i + 1]
      BY <2>3 DEF Chained
    <3> QED BY <2>3, <3>1, <3>2, <3>3, <1>3
  <2> QED BY <2>1, <2>2, <2>3, <1>3
<1>9. n + 1 \in Nat /\ DOMAIN h2 \subseteq Nodes
  BY <1>1
<1> QED BY <1>4, <1>5, <1>6, <1>7, <1>8, <1>9 DEF Chained, q

LEMMA AppendStep ==
    ASSUME NEW n, NEW p, Chained(heap, head, n, p), NEW v \in Values, Node_append(v)
    PROVE  \E a \in Nodes \ DOMAIN heap :
              /\ Chained(heap', head', n + 1, Longer(n, p, a))
              /\ \A x \in DOMAIN heap : heap'[x].data = heap[x].data
              /\ heap'[a].data = v
<1>1. n \in Nat /\ DOMAIN heap \subseteq Nodes /\ p \in [1..n -> DOMAIN heap]
  BY DEF Chained
<1>2. PICK a \in Nodes \ DOMAIN heap :
          /\ heap' = Node_create(IF head = NULL THEN heap
                                 ELSE [heap EXCEPT ![Step[Length - 1]].next = a], a, v)
          /\ head' = IF head = NULL THEN a ELSE head
  BY DEF Node_append
<1>3. head = NULL <=> n = 0
  <2>1. n # 0 => 1 \in 1..n
    BY <1>1
  <2> QED BY <1>1, <2>1, NodesAssumption DEF Chained
<1>4. n # 0 => Step[Length - 1] = p[n]
  <2>1. Length = n /\ \A k \in 0..n - 1 : Step[k] = p[k + 1]
    BY LengthIs
  <2>2. n # 0 => n - 1 \in 0..n - 1 /\ n - 1 + 1 = n
    BY <1>1
  <2> QED BY <2>1, <2>2
<1>5. \A x \in DOMAIN heap : heap[x] \in Cell
  BY DEF Chained
<1> DEFINE old == IF head = NULL THEN heap ELSE [heap EXCEPT ![Step[Length - 1]].next = a]
<1>6. DOMAIN old = DOMAIN heap
  OBVIOUS
<1>7. ASSUME NEW x \in DOMAIN heap
      PROVE  /\ old[x].data = heap[x].data
             /\ old[x].next = IF n # 0 /\ x = p[n] THEN a ELSE heap[x].next
             /\ old[x] \in Cell
  <2>1. CASE n = 0
    BY <2>1, <1>3, <1>5
  <2>2. CASE n # 0 /\ x = p[n]
    <3>1. old[x] = [heap[x] EXCEPT !.next = a]
      BY <2>2, <1>3, <1>4
    <3>2. heap[x] \in Cell
      BY <1>5
    <3> QED BY <3>1, <3>2, <2>2 DEF Cell
  <2>3. CASE n # 0 /\ x # p[n]
    BY <2>3, <1>3, <1>4, <1>5
  <2> QED BY <2>1, <2>2, <2>3
<1>8. heap' = [x \in DOMAIN heap \cup {a} |->
                 IF x = a THEN [data |-> v, next |-> NULL] ELSE old[x]]
  <2>1. heap' = Node_create(old, a, v)
    BY <1>2
  <2> HIDE DEF old
  <2> QED BY <2>1, <1>6 DEF Node_create
<1> HIDE DEF old
<1>9. /\ DOMAIN heap' = DOMAIN heap \cup {a}
      /\ heap'[a] = [data |-> v, next |-> NULL]
      /\ \A x \in DOMAIN heap : heap'[x] = old[x]
  BY <1>8
<1>10. [data |-> v, next |-> NULL] \in Cell
  BY DEF Cell
<1>11. Chained(heap', head', n + 1, Longer(n, p, a))
  <2>1. \A x \in DOMAIN heap' : heap'[x] \in Cell
    BY <1>7, <1>9, <1>10
  <2>2. head' = IF n = 0 THEN a ELSE head
    BY <1>2, <1>3
  <2>3. heap'[a].next = NULL
    BY <1>9
  <2>4. \A x \in DOMAIN heap :
           heap'[x].next = IF n # 0 /\ x = p[n] THEN a ELSE heap[x].next
    BY <1>7, <1>9
  <2>5. a \in Nodes /\ a \notin DOMAIN heap /\ DOMAIN heap' = DOMAIN heap \cup {a}
    BY <1>9
  <2> QED BY <2>1, <2>2, <2>3, <2>4, <2>5, LongerChained
<1> QED BY <1>7, <1>9, <1>11

-----------------------------------------------------------------------------
(* Remove. *)

\* The chain without its node number m.
Shorter(n, p, m) == [i \in 1..n - 1 |-> IF i < m THEN p[i] ELSE p[i + 1]]

LEMMA ShorterChained ==
    ASSUME NEW h, NEW d, NEW n, NEW p, Chained(h, d, n, p),
           NEW m \in 1..n, NEW h2, NEW d2,
           DOMAIN h2 = DOMAIN h \ {p[m]},
           \A x \in DOMAIN h2 : h2[x] \in Cell,
           \A x \in DOMAIN h2 :
               h2[x].next = IF m # 1 /\ x = p[m - 1] THEN h[p[m]].next ELSE h[x].next,
           d2 = IF m = 1 THEN h[p[m]].next ELSE d
    PROVE  Chained(h2, d2, n - 1, Shorter(n, p, m))
<1> DEFINE q == Shorter(n, p, m)
<1>1. n \in Nat /\ n # 0 /\ n - 1 \in Nat /\ DOMAIN h \subseteq Nodes
  BY DEF Chained
<1>2. p \in [1..n -> DOMAIN h] /\ \A i, j \in 1..n : p[i] = p[j] => i = j
  BY DEF Chained
<1>3. \A i \in 1..n - 1 : i \in 1..n /\ i + 1 \in 1..n
  BY <1>1
<1>4. \A i \in 1..n - 1 : q[i] = IF i < m THEN p[i] ELSE p[i + 1]
  BY DEF Shorter
<1>5. \A i \in 1..n - 1 : q[i] \in DOMAIN h /\ q[i] # p[m]
  BY <1>1, <1>2, <1>3, <1>4
<1>6. q \in [1..n - 1 -> DOMAIN h2]
  BY <1>5 DEF Shorter
<1> HIDE DEF q
<1>7. ASSUME NEW i \in 1..n - 1, NEW j \in 1..n - 1, q[i] = q[j]
      PROVE  i = j
  BY <1>1, <1>2, <1>3, <1>4, <1>7
<1>8. ASSUME NEW x \in DOMAIN h2
      PROVE  \E i \in 1..n - 1 : q[i] = x
  <2>1. x \in DOMAIN h /\ x # p[m]
    OBVIOUS
  <2>2. PICK i \in 1..n : p[i] = x
    BY <2>1 DEF Chained
  <2>3. CASE i < m
    <3>1. i \in 1..n - 1
      BY <2>3, <1>1
    <3> QED BY <3>1, <2>2, <2>3, <1>4
  <2>4. CASE i > m
    <3>1. i - 1 \in 1..n - 1 /\ ~(i - 1 < m) /\ i - 1 + 1 = i
      BY <2>4, <1>1
    <3> QED BY <3>1, <2>2, <1>4
  <2> QED BY <2>1, <2>2, <2>3, <2>4
<1>9. h[p[m]].next = IF m = n THEN NULL ELSE p[m + 1]
  BY DEF Chained
<1>10. d2 = IF n - 1 = 0 THEN NULL ELSE q[1]
  <2>1. CASE m = 1
    <3>1. CASE n = 1
      BY <2>1, <3>1, <1>9
    <3>2. CASE n # 1
      <4>1. 1 \in 1..n - 1 /\ ~(1 < m) /\ m # n /\ n - 1 # 0
        BY <2>1, <3>2, <1>1
      <4> QED BY <4>1, <2>1, <1>4, <1>9
    <3> QED BY <3>1, <3>2
  <2>2. CASE m # 1
    <3>1. 1 \in 1..n - 1 /\ 1 < m /\ n - 1 # 0
      BY <2>2, <1>1
    <3>2. d = p[1]
      BY <1>1 DEF Chained
    <3> QED BY <3>1, <3>2, <2>2, <1>4
  <2> QED BY <2>1, <2>2
<1>11. ASSUME NEW i \in 1..n - 1
       PROVE  h2[q[i]].next = IF i = n - 1 THEN NULL ELSE q[i + 1]
  <2>0. q[i] \in DOMAIN h2
    BY <1>6
  <2>1. CASE i < m /\ i = m - 1
    <3>1. q[i] = p[m - 1] /\ m # 1 /\ (m = n <=> i = n - 1) /\ i + 1 = m
      BY <2>1, <1>1, <1>4
    <3>2. h2[q[i]].next = h[p[m]].next
      BY <2>0, <3>1
    <3>3. i # n - 1 => i + 1 \in 1..n - 1 /\ q[i + 1] = p[m + 1]
      BY <3>1, <1>1, <1>4
    <3> QED BY <3>1, <3>2, <3>3, <1>9
  <2>2. CASE i < m /\ i # m - 1
    <3>1. i + 1 \in 1..n - 1 /\ i + 1 < m /\ i # n - 1 /\ i # n /\ m # 1
      BY <2>2, <1>1
    <3>2. q[i] = p[i] /\ q[i + 1] = p[i + 1]
      BY <2>2, <3>1, <1>4
    <3>3. m - 1 \in 1..n /\ i \in 1..n
      BY <3>1, <1>1
    <3>4. p[i] # p[m - 1]
      BY <3>3, <2>2, <1>2
    <3>5. h[p[i]].next = p[i + 1]
      BY <3>1, <3>3 DEF Chained
    <3> QED BY <2>0, <3>1, <3>2, <3>4, <3>5
  <2>3. CASE ~(i < m)
    <3>1. i + 1 \in 1..n /\ (i + 1 = n <=> i = n - 1)
      BY <1>1
    <3>2. q[i] = p[i + 1]
      BY <2>3, <1>4
    <3>3. m # 1 => p[i + 1] # p[m - 1]
      <4>1. m # 1 => m - 1 \in 1..n /\ i + 1 # m - 1
        BY <2>3, <1>1
      <4> QED BY <4>1, <3>1, <1>2
    <3>4. h[p[i + 1]].next = IF i + 1 = n THEN NULL ELSE p[i + 1 + 1]
      BY <3>1 DEF Chained
    <3>5. h2[q[i]].next = h[p[i + 1]].next
      BY <2>0, <3>2, <3>3
    <3>6. i # n - 1 => q[i + 1] = p[i + 1 + 1]
      <4>1. i # n - 1 => i + 1 \in 1..n - 1 /\ ~(i + 1 < m)
        BY <2>3, <1>1
      <4> QED BY <4>1, <1>4
    <3> QED BY <3>1, <3>4, <3>5, <3>6
  <2> QED BY <2>1, <2>2, <2>3
<1>12. DOMAIN h2 \subseteq Nodes
  BY <1>1
<1> QED BY <1>1, <1>6, <1>7, <1>8, <1>10, <1>11, <1>12 DEF Chained, q

\* The search stops at the first node with the value, if there is one.
LEMMA FoundIs ==
    ASSUME NEW n, NEW p, Chained(heap, head, n, p), NEW v
    PROVE  /\ Found(v) \in 0..n
           /\ Found(v) < n => heap[p[Found(v) + 1]].data = v
           /\ \A j \in 0..Found(v) - 1 : heap[p[j + 1]].data # v
<1>1. n \in Nat
  BY DEF Chained
<1>2. Length = n /\ \A k \in 0..n - 1 : Step[k] = p[k + 1]
  BY LengthIs
<1> DEFINE Stops(k) == /\ k < n => heap[p[k + 1]].data = v
                       /\ \A j \in 0..k - 1 : heap[p[j + 1]].data # v
           Reads(k) == /\ k < n => heap[Step[k]].data = v
                       /\ \A j \in 0..k - 1 : heap[Step[j]].data # v
           S == {k \in 0..n : k < n => heap[p[k + 1]].data = v}
<1>3. S \in SUBSET Nat /\ n \in S
  BY <1>1
<1>4. PICK k \in S : \A j \in S : k <= j
  <2> HIDE DEF S
  <2> QED BY <1>3, Smallest
<1>5. Stops(k)
  <2>1. ASSUME NEW j \in 0..k - 1
        PROVE  heap[p[j + 1]].data # v
    <3>1. j \in 0..n /\ j < n /\ ~(k <= j)
      BY <1>1
    <3>2. j \notin S
      BY <3>1, <1>4
    <3> QED BY <3>1, <3>2
  <2> QED BY <2>1
<1>6. \A i \in 0..n : Stops(i) <=> Reads(i)
  <2> SUFFICES ASSUME NEW i \in 0..n PROVE Stops(i) <=> Reads(i)
    OBVIOUS
  <2>1. \A j \in 0..i - 1 : j \in 0..n - 1
    BY <1>1
  <2>2. i < n => i \in 0..n - 1
    BY <1>1
  <2> QED BY <2>1, <2>2, <1>2
<1>7. Found(v) = CHOOSE i \in 0..n : Reads(i)
  BY <1>2 DEF Found
<1> HIDE DEF Reads
<1>8. Found(v) \in 0..n /\ Reads(Found(v))
  BY <1>5, <1>6, <1>7
<1> QED BY <1>6, <1>8

LEMMA RemoveStep ==
    ASSUME NEW n, NEW p, Chained(heap, head, n, p), NEW v \in Values, Node_remove(v)
    PROVE  \E m \in 1..n :
              /\ Chained(heap', head', n - 1, Shorter(n, p, m))
              /\ \A x \in DOMAIN heap' : heap'[x].data = heap[x].data
              /\ heap[p[m]].data = v
              /\ \A j \in 1..m - 1 : heap[p[j]].data # v
<1> DEFINE k == Found(v)
           m == k + 1
<1>1. n \in Nat /\ p \in [1..n -> DOMAIN heap] /\ \A i, j \in 1..n : p[i] = p[j] => i = j
  BY DEF Chained
<1>2. Length = n /\ \A i \in 0..n - 1 : Step[i] = p[i + 1]
  BY LengthIs
<1>3. /\ k < Length
      /\ head' = IF k = 0 THEN heap[Step[k]].next ELSE head
      /\ heap' = Restrict(IF k = 0 THEN heap
                          ELSE [heap EXCEPT ![Step[k - 1]].next = heap[Step[k]].next],
                          DOMAIN heap \ {Step[k]})
  BY DEF Node_remove
<1>4. /\ k \in 0..n
      /\ k < n => heap[p[k + 1]].data = v
      /\ \A j \in 0..k - 1 : heap[p[j + 1]].data # v
  BY FoundIs
<1> HIDE DEF k
<1>5. m \in 1..n /\ k \in 0..n - 1 /\ (k = 0 <=> m = 1) /\ (k # 0 => k - 1 \in 0..n - 1)
  BY <1>1, <1>2, <1>3, <1>4
<1>6. Step[k] = p[m] /\ (k # 0 => Step[k - 1] = p[m - 1])
  BY <1>2, <1>5
<1> DEFINE old == IF k = 0 THEN heap
                  ELSE [heap EXCEPT ![Step[k - 1]].next = heap[Step[k]].next]
<1>7. \A x \in DOMAIN heap : heap[x] \in Cell
  BY DEF Chained
<1>8. heap[p[m]].next \in Nodes \cup {NULL}
  BY <1>1, <1>5, <1>7 DEF Cell
<1>9. ASSUME NEW x \in DOMAIN heap
      PROVE  /\ old[x].data = heap[x].data
             /\ old[x].next = IF m # 1 /\ x = p[m - 1] THEN heap[p[m]].next ELSE heap[x].next
             /\ old[x] \in Cell
  <2>1. CASE k = 0
    BY <2>1, <1>5, <1>7
  <2>2. CASE k # 0 /\ x = p[m - 1]
    <3>1. old[x] = [heap[x] EXCEPT !.next = heap[p[m]].next]
      BY <2>2, <1>6
    <3>2. heap[x] \in Cell
      BY <1>7
    <3> QED BY <3>1, <3>2, <2>2, <1>5, <1>8 DEF Cell
  <2>3. CASE k # 0 /\ x # p[m - 1]
    BY <2>3, <1>6, <1>7
  <2> QED BY <2>1, <2>2, <2>3
<1>10. heap' = [x \in DOMAIN heap \ {p[m]} |-> old[x]]
  BY <1>3, <1>6 DEF Restrict
<1> HIDE DEF old
<1>11. Chained(heap', head', n - 1, Shorter(n, p, m))
  <2>1. DOMAIN heap' = DOMAIN heap \ {p[m]}
    BY <1>10
  <2>2. \A x \in DOMAIN heap' : heap'[x] \in Cell
    BY <1>9, <1>10
  <2>3. \A x \in DOMAIN heap' :
          heap'[x].next = IF m # 1 /\ x = p[m - 1] THEN heap[p[m]].next ELSE heap[x].next
    BY <1>9, <1>10
  <2>4. head' = IF m = 1 THEN heap[p[m]].next ELSE head
    BY <1>3, <1>5, <1>6
  <2> HIDE DEF m
  <2> QED BY <1>5, <2>1, <2>2, <2>3, <2>4, ShorterChained
<1>12. \A x \in DOMAIN heap' : heap'[x].data = heap[x].data
  BY <1>9, <1>10
<1>13. heap[p[m]].data = v
  BY <1>2, <1>3, <1>4
<1>14. ASSUME NEW j \in 1..m - 1
       PROVE  heap[p[j]].data # v
  <2>1. j - 1 \in 0..k - 1 /\ j - 1 + 1 = j
    BY <1>5
  <2> QED BY <2>1, <1>4
<1> HIDE DEF m
<1> QED BY <1>5, <1>11, <1>12, <1>13, <1>14

-----------------------------------------------------------------------------
(* The heap is one list. *)

LEMMA InvInit == Init => Inv
<1> SUFFICES ASSUME Init PROVE Inv
  OBVIOUS
<1>1. heap = << >> /\ head = NULL /\ exited = FALSE
  BY DEF Init
<1>2. DOMAIN heap = {}
  BY <1>1
<1>3. [i \in 1..0 |-> NULL] \in [1..0 -> {}]
  OBVIOUS
<1>4. Chained(heap, head, 0, [i \in 1..0 |-> NULL])
  BY <1>1, <1>2, <1>3 DEF Chained
<1> QED BY <1>1, <1>4 DEF Inv

LEMMA InvNext == Inv /\ [Next]_vars => Inv'
<1> SUFFICES ASSUME Inv, [Next]_vars PROVE Inv'
  OBVIOUS
<1>1. PICK n, p : Chained(heap, head, n, p)
  BY DEF Inv
<1>2. ASSUME NEW v \in Values, Node_append(v)
      PROVE  Inv'
  <2>1. PICK a \in Nodes \ DOMAIN heap :
           Chained(heap', head', n + 1, Longer(n, p, a))
    BY <1>1, <1>2, AppendStep
  <2>2. exited' \in BOOLEAN
    BY <1>2 DEF Inv, Node_append
  <2> QED BY <2>1, <2>2 DEF Inv
<1>3. ASSUME NEW v \in Values, Node_remove(v)
      PROVE  Inv'
  <2>1. PICK m \in 1..n : Chained(heap', head', n - 1, Shorter(n, p, m))
    BY <1>1, <1>3, RemoveStep
  <2>2. exited' \in BOOLEAN
    BY <1>3 DEF Inv, Node_remove
  <2> QED BY <2>1, <2>2 DEF Inv
<1>4. CASE OutOfMemory
  BY <1>4, <1>1 DEF OutOfMemory, Inv
<1>5. CASE UNCHANGED vars
  BY <1>5, <1>1 DEF vars, Inv
<1> QED BY <1>2, <1>3, <1>4, <1>5 DEF Next

LEMMA InvAlways == Spec => []Inv
BY InvInit, InvNext, PTL DEF Spec

\* Whatever is appended and removed, and whichever node malloc gives, every
\* pointer of the list leads to an allocated node or is the null pointer at its
\* end, and every allocated node is reached from *head.
THEOREM HeapStaysList == Spec => []HeapIsList
<1>1. Inv => HeapIsList
  <2> SUFFICES ASSUME Inv PROVE HeapIsList
    OBVIOUS
  <2>1. PICK n, p : Chained(heap, head, n, p)
    BY DEF Inv
  <2>2. n \in Nat /\ n <= N /\ N \in Nat
    BY <2>1, ChainFits
  <2>3. \A k \in 0..N : Step[k] = IF k < n THEN p[k + 1] ELSE NULL
    BY <2>1, StepFollows DEF Along
  <2>4. Step[N] = NULL
    BY <2>2, <2>3
  <2>5. ASSUME NEW x \in DOMAIN heap
        PROVE  x \in {Step[k] : k \in 0..N} /\ x # NULL
    <3>1. PICK i \in 1..n : p[i] = x
      BY <2>1 DEF Chained
    <3>2. i - 1 \in 0..N /\ i - 1 < n /\ i - 1 + 1 = i
      BY <2>2
    <3>3. Step[i - 1] = x
      BY <2>3, <3>1, <3>2
    <3>4. x # NULL
      BY <2>1, NodesAssumption DEF Chained
    <3> QED BY <3>2, <3>3, <3>4
  <2>6. ASSUME NEW k \in 0..N, Step[k] # NULL
        PROVE  Step[k] \in DOMAIN heap
    <3>1. k < n /\ Step[k] = p[k + 1]
      BY <2>3, <2>6
    <3>2. k + 1 \in 1..n
      BY <3>1, <2>2
    <3> QED BY <3>1, <3>2, <2>1 DEF Chained
  <2>7. DOMAIN heap = {Step[k] : k \in 0..N} \ {NULL}
    BY <2>5, <2>6
  <2> QED BY <2>4, <2>7 DEF HeapIsList, N
<1> QED BY <1>1, InvAlways, PTL

-----------------------------------------------------------------------------
(* The list is a sequence. *)

\* The data along a chain.
DataOf(h, n, p) == [i \in 1..n |-> h[p[i]].data]

LEMMA ItemsAre ==
    \A n, p : Chained(heap, head, n, p) => Items = DataOf(heap, n, p)
<1> SUFFICES ASSUME NEW n, NEW p, Chained(heap, head, n, p)
             PROVE  Items = DataOf(heap, n, p)
  OBVIOUS
<1>1. n \in Nat
  BY DEF Chained
<1>2. Length = n /\ \A k \in 0..n - 1 : Step[k] = p[k + 1]
  BY LengthIs
<1>3. \A i \in 1..n : Step[i - 1] = p[i]
  <2>1. \A i \in 1..n : i - 1 \in 0..n - 1 /\ i - 1 + 1 = i
    BY <1>1
  <2> QED BY <1>2, <2>1
<1> QED BY <1>2, <1>3 DEF Items, DataOf

LEMMA ItemsNext ==
    (\A n, p : Chained(heap, head, n, p) => Items = DataOf(heap, n, p))'
BY ItemsAre, PTL

LEMMA DataIsSeq ==
    ASSUME NEW h, NEW d, NEW n, NEW p, Chained(h, d, n, p)
    PROVE  /\ DataOf(h, n, p) \in Seq(Values)
           /\ Len(DataOf(h, n, p)) = n
           /\ \A i \in 1..n : DataOf(h, n, p)[i] = h[p[i]].data
<1>1. n \in Nat /\ \A i \in 1..n : h[p[i]].data \in Values
  BY DEF Chained, Cell
<1> QED BY <1>1 DEF DataOf

LEMMA AppendIs ==
    ASSUME NEW s \in Seq(Values), NEW v \in Values
    PROVE  Append(s, v) =
              [i \in 1..Len(s) + 1 |-> IF i = Len(s) + 1 THEN v ELSE s[i]]
<1> DEFINE t == [i \in 1..Len(s) + 1 |-> IF i = Len(s) + 1 THEN v ELSE s[i]]
           u == Append(s, v)
<1>1. Len(s) \in Nat
  OBVIOUS
<1>2. \A i \in 1..Len(s) + 1 : t[i] \in Values
  BY <1>1, ElementOfSeq
<1>3. t \in Seq(Values) /\ Len(t) = Len(s) + 1
  BY <1>1, <1>2
<1>4. /\ u \in Seq(Values) /\ Len(u) = Len(s) + 1
      /\ \A i \in 1..Len(s) : u[i] = s[i]
      /\ u[Len(s) + 1] = v
  BY AppendProperties
<1>5. \A i \in 1..Len(s) + 1 : t[i] = u[i]
  BY <1>1, <1>4
<1> HIDE DEF t, u
<1>6. t = u
  BY <1>3, <1>4, <1>5, SeqEqual
<1> QED BY <1>6 DEF t, u

LEMMA WithoutIs ==
    ASSUME NEW s \in Seq(Values), NEW m \in 1..Len(s)
    PROVE  SubSeq(s, 1, m - 1) \o SubSeq(s, m + 1, Len(s))
              = [i \in 1..Len(s) - 1 |-> IF i < m THEN s[i] ELSE s[i + 1]]
<1> DEFINE t == [i \in 1..Len(s) - 1 |-> IF i < m THEN s[i] ELSE s[i + 1]]
           a == SubSeq(s, 1, m - 1)
           b == SubSeq(s, m + 1, Len(s))
           u == a \o b
<1>1. Len(s) \in Nat /\ Len(s) - 1 \in Nat
  OBVIOUS
<1>2. \A i \in 1..Len(s) : s[i] \in Values
  BY ElementOfSeq
<1>3. t \in Seq(Values) /\ Len(t) = Len(s) - 1
  <2>1. \A i \in 1..Len(s) - 1 : t[i] \in Values
    BY <1>1, <1>2
  <2> QED BY <2>1, <1>1
<1>4. /\ a \in Seq(Values) /\ Len(a) = m - 1
      /\ \A i \in 1..m - 1 : a[i] = s[i]
  <2>1. \A i \in 1..m - 1 : s[i] \in Values
    BY <1>1, <1>2
  <2>2. /\ a \in Seq(Values)
        /\ Len(a) = IF 1 <= m - 1 THEN m - 1 - 1 + 1 ELSE 0
        /\ \A i \in 1..(m - 1) - 1 + 1 : a[i] = s[1 + i - 1]
    BY <2>1, SubSeqProperties
  <2> HIDE DEF a
  <2> QED BY <2>2
<1>5. /\ b \in Seq(Values) /\ Len(b) = Len(s) - m
      /\ \A i \in 1..Len(s) - m : b[i] = s[m + i]
  <2>1. \A i \in m + 1..Len(s) : s[i] \in Values
    BY <1>1, <1>2
  <2>2. /\ b \in Seq(Values)
        /\ Len(b) = IF m + 1 <= Len(s) THEN Len(s) - (m + 1) + 1 ELSE 0
        /\ \A i \in 1..Len(s) - (m + 1) + 1 : b[i] = s[(m + 1) + i - 1]
    BY <2>1, <1>1, SubSeqProperties
  <2> HIDE DEF b
  <2>3. Len(b) = Len(s) - m
    BY <2>2, <1>1
  <2>4. ASSUME NEW i \in 1..Len(s) - m
        PROVE  b[i] = s[m + i]
    <3>1. i \in 1..Len(s) - (m + 1) + 1 /\ (m + 1) + i - 1 = m + i
      BY <1>1
    <3> QED BY <3>1, <2>2
  <2> QED BY <2>2, <2>3, <2>4
<1> HIDE DEF a, b
<1>6. /\ u \in Seq(Values) /\ Len(u) = Len(a) + Len(b)
      /\ \A i \in 1..Len(a) + Len(b) : u[i] = IF i <= Len(a) THEN a[i] ELSE b[i - Len(a)]
  BY <1>4, <1>5, ConcatProperties
<1> HIDE DEF u
<1>7. Len(u) = Len(s) - 1
  BY <1>1, <1>4, <1>5, <1>6
<1>8. ASSUME NEW i \in 1..Len(s) - 1
      PROVE  t[i] = u[i]
  <2>1. i \in 1..Len(a) + Len(b)
    BY <1>1, <1>4, <1>5
  <2>2. CASE i < m
    <3>1. i <= Len(a) /\ i \in 1..m - 1
      BY <2>2, <1>4
    <3> QED BY <2>1, <2>2, <3>1, <1>4, <1>6
  <2>3. CASE ~(i < m)
    <3>1. ~(i <= Len(a)) /\ i - Len(a) \in 1..Len(s) - m /\ m + (i - Len(a)) = i + 1
      BY <2>3, <1>1, <1>4
    <3>2. b[i - Len(a)] = s[i + 1]
      BY <3>1, <1>5
    <3> QED BY <2>1, <2>3, <3>1, <3>2, <1>6
  <2> QED BY <2>2, <2>3
<1> HIDE DEF t
<1>9. t = u
  BY <1>3, <1>6, <1>7, <1>8, SeqEqual
<1> QED BY <1>9 DEF t, u, a, b

\* RemoveFirst takes the first of the equal values out.
LEMMA FirstIsRemoved ==
    ASSUME NEW s \in Seq(Values), NEW v, NEW m \in 1..Len(s), s[m] = v,
           \A j \in 1..m - 1 : s[j] # v
    PROVE  /\ v \in List!ToSet(s)
           /\ List!RemoveFirst(s, v) =
                 [i \in 1..Len(s) - 1 |-> IF i < m THEN s[i] ELSE s[i + 1]]
<1> DEFINE I == {i \in 1..Len(s) : s[i] = v}
<1>1. m \in I /\ \A j \in I : m <= j
  OBVIOUS
<1>2. List!RemoveFirst(s, v) = List!RemoveAt(s, List!SelectInSeq(s, LAMBDA e : e = v))
  BY DEF List!RemoveFirst
<1>3. List!SelectInSeq(s, LAMBDA e : e = v) = List!Min(I)
  BY <1>1 DEF List!SelectInSeq
<1>4. List!Min(I) = m
  <2>1. \A x \in I : (\A y \in I : x =< y) => x = m
    BY <1>1
  <2> HIDE DEF I
  <2> QED BY <2>1, <1>1 DEF List!Min
<1>5. List!RemoveFirst(s, v) = SubSeq(s, 1, m - 1) \o SubSeq(s, m + 1, Len(s))
  BY <1>2, <1>3, <1>4 DEF List!RemoveAt
<1>6. SubSeq(s, 1, m - 1) \o SubSeq(s, m + 1, Len(s))
         = [i \in 1..Len(s) - 1 |-> IF i < m THEN s[i] ELSE s[i + 1]]
  BY WithoutIs
<1>7. v \in List!ToSet(s)
  BY DEF List!ToSet
<1> QED BY <1>5, <1>6, <1>7

\* The menus see a sequence: each append puts its value last, each removal takes
\* the first occurrence of its value away and keeps the order of the rest.
THEOREM ListIsSequence == Spec => IsSequence
<1>1. Init => List!Init
  <2> SUFFICES ASSUME Init PROVE List!Init
    OBVIOUS
  <2>1. PICK n, p : Chained(heap, head, n, p)
    BY InvInit DEF Inv
  <2>2. DOMAIN heap = {}
    BY DEF Init
  <2>3. n = 0
    BY <2>1, <2>2 DEF Chained
  <2>4. Items = DataOf(heap, n, p)
    BY <2>1, ItemsAre
  <2> QED BY <2>3, <2>4 DEF List!Init, DataOf
<1>2. Inv /\ [Next]_vars => [List!Next]_Items
  <2> SUFFICES ASSUME Inv, [Next]_vars PROVE [List!Next]_Items
    OBVIOUS
  <2>1. PICK n, p : Chained(heap, head, n, p)
    BY DEF Inv
  <2>2. n \in Nat /\ p \in [1..n -> DOMAIN heap]
    BY <2>1 DEF Chained
  <2>3. Items = DataOf(heap, n, p)
    BY <2>1, ItemsAre
  <2>4. /\ Items \in Seq(Values) /\ Len(Items) = n
        /\ \A i \in 1..n : Items[i] = heap[p[i]].data
    BY <2>1, <2>3, DataIsSeq
  <2>5. ASSUME NEW v \in Values, Node_append(v)
        PROVE  List!Add(v)
    <3>1. PICK a \in Nodes \ DOMAIN heap :
             /\ Chained(heap', head', n + 1, Longer(n, p, a))
             /\ \A x \in DOMAIN heap : heap'[x].data = heap[x].data
             /\ heap'[a].data = v
      BY <2>1, <2>5, AppendStep
    <3>2. Items' = DataOf(heap', n + 1, Longer(n, p, a))
      BY <3>1, ItemsNext
    <3>3. ASSUME NEW i \in 1..n + 1
          PROVE  heap'[Longer(n, p, a)[i]].data = IF i = n + 1 THEN v ELSE Items[i]
      <4>1. CASE i = n + 1
        BY <4>1, <3>1 DEF Longer
      <4>2. CASE i # n + 1
        <5>1. i \in 1..n /\ Longer(n, p, a)[i] = p[i]
          BY <4>2, <2>2 DEF Longer
        <5> QED BY <5>1, <4>2, <3>1, <2>2, <2>4
      <4> QED BY <4>1, <4>2
    <3>4. Items' = [i \in 1..n + 1 |-> IF i = n + 1 THEN v ELSE Items[i]]
      BY <3>2, <3>3 DEF DataOf
    <3>5. Append(Items, v) = [i \in 1..n + 1 |-> IF i = n + 1 THEN v ELSE Items[i]]
      BY <2>4, AppendIs
    <3> QED BY <3>4, <3>5 DEF List!Add
  <2>6. ASSUME NEW v \in Values, Node_remove(v)
        PROVE  List!Drop(v)
    <3>1. PICK m \in 1..n :
             /\ Chained(heap', head', n - 1, Shorter(n, p, m))
             /\ \A x \in DOMAIN heap' : heap'[x].data = heap[x].data
             /\ heap[p[m]].data = v
             /\ \A j \in 1..m - 1 : heap[p[j]].data # v
      BY <2>1, <2>6, RemoveStep
    <3>2. Items' = DataOf(heap', n - 1, Shorter(n, p, m))
      BY <3>1, ItemsNext
    <3>3. ASSUME NEW i \in 1..n - 1
          PROVE  heap'[Shorter(n, p, m)[i]].data = IF i < m THEN Items[i] ELSE Items[i + 1]
      <4>1. Shorter(n, p, m)[i] \in DOMAIN heap'
        BY <3>1 DEF Chained
      <4>2. i \in 1..n /\ i + 1 \in 1..n
        BY <2>2
      <4>3. heap'[Shorter(n, p, m)[i]].data = heap[Shorter(n, p, m)[i]].data
        BY <3>1, <4>1
      <4> QED BY <4>2, <4>3, <2>4 DEF Shorter
    <3>4. Items' = [i \in 1..n - 1 |-> IF i < m THEN Items[i] ELSE Items[i + 1]]
      BY <3>2, <3>3 DEF DataOf
    <3>5. m \in 1..Len(Items) /\ Items[m] = v /\ \A j \in 1..m - 1 : Items[j] # v
      <4>1. \A j \in 1..m - 1 : j \in 1..n
        BY <2>2
      <4> QED BY <4>1, <3>1, <2>4
    <3>6. /\ v \in List!ToSet(Items)
          /\ List!RemoveFirst(Items, v) =
                [i \in 1..Len(Items) - 1 |-> IF i < m THEN Items[i] ELSE Items[i + 1]]
      BY <2>4, <3>5, FirstIsRemoved
    <3> QED BY <3>4, <3>6, <2>4 DEF List!Drop
  <2>7. ASSUME heap' = heap, head' = head
        PROVE  Items' = Items
    <3>1. Items' = DataOf(heap', n, p)
      BY <2>1, <2>7, ItemsNext
    <3> QED BY <3>1, <2>3, <2>7
  <2> QED BY <2>5, <2>6, <2>7 DEF Next, List!Next, OutOfMemory, vars
<1> QED BY <1>1, <1>2, InvAlways, PTL DEF Spec, IsSequence, List!Spec
=============================================================================
