-------------------------- MODULE LeaderboardProofs --------------------------
(***************************************************************************)
(* The properties of Leaderboard for any number of entries and runs of the *)
(* program and every set of times.                                         *)
(*                                                                         *)
(* The properties count: an entry stands at the index that is the number   *)
(* of better ones.  The invariant compares instead: the table is in order, *)
(* and what is not in it comes after its last slot (Ranked).               *)
(***************************************************************************)
EXTENDS Leaderboard, FiniteSetTheorems, SequenceTheorems, TLAPS

Entry == [id : Nat, time : Nat]

Before(a, b) == a.time < b.time \/ (a.time = b.time /\ a.id < b.id)

\* A set of real entries: no two have the same identity, none is newer than
\* the last one made.
History(s, m) ==
    /\ s \subseteq Entry /\ IsFiniteSet(s)
    /\ \A e \in s : e.id >= 1 /\ e.id <= m
    /\ \A e, f \in s : e.id = f.id => e = f

Ranked(es, n, s) ==
    /\ n \in 0..3
    /\ \A i \in 0..n - 1 : es[i] \in s
    /\ \A i, j \in 0..n - 1 : i < j => Before(es[i], es[j])
    /\ \A e \in s : (\E i \in 0..n - 1 : e = es[i]) \/ (n = 3 /\ Before(es[2], e))

\* The first n of an ordered table, with everything else behind them.
Prefix(es, n, s) ==
    /\ n \in 0..3
    /\ \A i \in 0..n - 1 : es[i] \in s
    /\ \A i, j \in 0..n - 1 : i < j => Before(es[i], es[j])
    /\ \A e \in s : (\E i \in 0..n - 1 : e = es[i]) \/ (\A i \in 0..n - 1 : Before(es[i], e))

-----------------------------------------------------------------------------
(* The order of entries. *)

LEMMA BeforeIrreflexive ==
    ASSUME NEW a \in Entry
    PROVE  ~Before(a, a)
BY DEF Before, Entry

LEMMA BeforeTransitive ==
    ASSUME NEW a \in Entry, NEW b \in Entry, NEW c \in Entry, Before(a, b), Before(b, c)
    PROVE  Before(a, c)
BY DEF Before, Entry

LEMMA BeforeAsymmetric ==
    ASSUME NEW a \in Entry, NEW b \in Entry, Before(a, b)
    PROVE  ~Before(b, a) /\ a # b
BY DEF Before, Entry

\* Sets of up to three entries and their sizes.
LEMMA Two ==
    ASSUME NEW a, NEW b, a # b
    PROVE  IsFiniteSet({a, b}) /\ Cardinality({a, b}) = 2
<1>1. IsFiniteSet({a}) /\ Cardinality({a}) = 1
  BY FS_Singleton
<1>2. {a, b} = {a} \cup {b} /\ b \notin {a}
  OBVIOUS
<1>3. IsFiniteSet({a} \cup {b}) /\ Cardinality({a} \cup {b}) = 1 + 1
  BY <1>1, <1>2, FS_AddElement
<1> QED BY <1>2, <1>3

LEMMA Three ==
    ASSUME NEW a, NEW b, NEW c, a # b, a # c, b # c
    PROVE  IsFiniteSet({a, b, c}) /\ Cardinality({a, b, c}) = 3
<1>1. IsFiniteSet({a, b}) /\ Cardinality({a, b}) = 2
  BY Two
<1>2. {a, b, c} = {a, b} \cup {c} /\ c \notin {a, b}
  OBVIOUS
<1>3. IsFiniteSet({a, b} \cup {c}) /\ Cardinality({a, b} \cup {c}) = 2 + 1
  BY <1>1, <1>2, FS_AddElement
<1> QED BY <1>2, <1>3

LEMMA PlaceIs ==
    ASSUME NEW e, NEW s
    PROVE  Place(e, s) = Cardinality({f \in s : Before(f, e)})
BY DEF Place, Before

\* An ordered table with everything else behind it holds the best entries.
LEMMA RankedIsBest ==
    ASSUME NEW es, NEW n, NEW s, s \subseteq Entry, IsFiniteSet(s), Ranked(es, n, s)
    PROVE  AreBest(es, n, s)
<1> DEFINE better(i) == {f \in s : Before(f, es[i])}
<1>1. n = 0 \/ n = 1 \/ n = 2 \/ n = 3
  BY DEF Ranked
<1>2. Cardinality(s) \in Nat
  BY FS_CardinalityType
<1>3. Cardinality({}) = 0
  BY FS_EmptySet
<1>4. CASE n = 0
  <2>1. s = {}
    BY <1>4 DEF Ranked
  <2> QED BY <1>3, <1>4, <2>1 DEF AreBest, Least, SLOTS
<1>5. CASE n = 1
  <2>1. es[0] \in s /\ s = {es[0]}
    BY <1>5 DEF Ranked
  <2>2. Cardinality(s) = 1
    BY <2>1, FS_Singleton
  <2>3. better(0) = {}
    BY <2>1, BeforeIrreflexive
  <2>4. Place(es[0], s) = 0
    BY <1>3, <2>3, PlaceIs
  <2> QED BY <1>5, <2>1, <2>2, <2>4 DEF AreBest, Least, SLOTS
<1>6. CASE n = 2
  <2>1. es[0] \in s /\ es[1] \in s /\ s = {es[0], es[1]} /\ Before(es[0], es[1])
    BY <1>6 DEF Ranked
  <2>2. es[0] # es[1] /\ ~Before(es[1], es[0]) /\ ~Before(es[0], es[0]) /\ ~Before(es[1], es[1])
    BY <2>1, BeforeAsymmetric, BeforeIrreflexive
  <2>3. Cardinality(s) = 2
    BY <2>1, <2>2, Two
  <2>4. better(0) = {} /\ better(1) = {es[0]}
    BY <2>1, <2>2
  <2>5. Place(es[0], s) = 0 /\ Place(es[1], s) = 1
    BY <1>3, <2>4, PlaceIs, FS_Singleton
  <2>6. \A i \in 0..n - 1 : i = 0 \/ i = 1
    BY <1>6
  <2> QED BY <1>6, <2>1, <2>3, <2>5, <2>6 DEF AreBest, Least, SLOTS
<1>7. CASE n = 3
  <2>1. /\ es[0] \in s /\ es[1] \in s /\ es[2] \in s
        /\ Before(es[0], es[1]) /\ Before(es[1], es[2]) /\ Before(es[0], es[2])
        /\ \A e \in s : e = es[0] \/ e = es[1] \/ e = es[2] \/ Before(es[2], e)
    BY <1>7 DEF Ranked
  <2>2. /\ es[0] # es[1] /\ es[0] # es[2] /\ es[1] # es[2]
        /\ ~Before(es[1], es[0]) /\ ~Before(es[2], es[0]) /\ ~Before(es[2], es[1])
        /\ ~Before(es[0], es[0]) /\ ~Before(es[1], es[1]) /\ ~Before(es[2], es[2])
    BY <2>1, BeforeAsymmetric, BeforeIrreflexive
  <2>3. \A e \in s : Before(es[2], e) =>
                        ~Before(e, es[0]) /\ ~Before(e, es[1]) /\ ~Before(e, es[2])
    BY <2>1, BeforeAsymmetric, BeforeTransitive
  <2>4. better(0) = {} /\ better(1) = {es[0]} /\ better(2) = {es[0], es[1]}
    <3>1. better(0) = {}
      BY <2>1, <2>2, <2>3
    <3>2. better(1) = {es[0]}
      BY <2>1, <2>2, <2>3
    <3>3. better(2) = {es[0], es[1]}
      BY <2>1, <2>2, <2>3
    <3> QED BY <3>1, <3>2, <3>3
  <2>5. /\ Cardinality({es[0], es[1]}) = 2 /\ Cardinality({es[0], es[1], es[2]}) = 3
        /\ IsFiniteSet({es[0], es[1], es[2]})
    BY <2>2, Two, Three
  <2>6. Place(es[0], s) = 0 /\ Place(es[1], s) = 1 /\ Place(es[2], s) = 2
    BY <1>3, <2>4, <2>5, PlaceIs, FS_Singleton
  <2>7. Cardinality(s) >= 3
    <3>1. {es[0], es[1], es[2]} \in SUBSET s
      BY <2>1
    <3>2. Cardinality({es[0], es[1], es[2]}) <= Cardinality(s)
      BY <3>1, FS_Subset
    <3> QED BY <1>2, <2>5, <3>2
  <2>8. \A i \in 0..n - 1 : i = 0 \/ i = 1 \/ i = 2
    BY <1>7
  <2> QED BY <1>2, <1>7, <2>1, <2>6, <2>7, <2>8 DEF AreBest, Least, SLOTS
<1> QED BY <1>1, <1>4, <1>5, <1>6, <1>7

\* The first lines of a table are a prefix of it.
LEMMA RankedPrefix ==
    ASSUME NEW es, NEW n, NEW s, s \subseteq Entry, Ranked(es, n, s), NEW k \in 0..n
    PROVE  Prefix(es, k, s)
<1>1. k \in 0..3 /\ n \in 0..3 /\ \A i \in 0..k - 1 : i \in 0..n - 1
  BY DEF Ranked
<1>2. \A i \in 0..n - 1 : es[i] \in s /\ es[i] \in Entry
  BY DEF Ranked
<1>3. \A i, j \in 0..n - 1 : i < j => Before(es[i], es[j])
  BY DEF Ranked
<1>4. ASSUME NEW e \in s, ~\E i \in 0..k - 1 : e = es[i], NEW i \in 0..k - 1
      PROVE  Before(es[i], e)
  <2>1. CASE \E j \in 0..n - 1 : e = es[j]
    <3>1. PICK j \in 0..n - 1 : e = es[j]
      BY <2>1
    <3>2. i < j
      BY <1>1, <1>4, <3>1
    <3> QED BY <1>1, <1>3, <3>1, <3>2
  <2>2. CASE n = 3 /\ Before(es[2], e)
    <3>1. 2 \in 0..n - 1 /\ es[2] \in Entry /\ es[i] \in Entry /\ e \in Entry
      BY <1>1, <1>2, <2>2
    <3>2. i = 2 \/ Before(es[i], es[2])
      BY <1>1, <1>3, <2>2
    <3> QED BY <2>2, <3>1, <3>2, BeforeTransitive
  <2>3. (\E j \in 0..n - 1 : e = es[j]) \/ (n = 3 /\ Before(es[2], e))
    BY DEF Ranked
  <2> QED BY <2>1, <2>2, <2>3
<1> QED BY <1>1, <1>2, <1>3, <1>4 DEF Prefix

\* Every line of a prefix stands where the number of better entries puts it.
LEMMA PrefixPlaces ==
    ASSUME NEW es, NEW n, NEW s, s \subseteq Entry, Prefix(es, n, s), NEW i \in 0..n - 1
    PROVE  es[i] \in s /\ Place(es[i], s) = i
<1> DEFINE better(j) == {f \in s : Before(f, es[j])}
<1>1. /\ n \in 0..3 /\ (i = 0 \/ i = 1 \/ i = 2)
      /\ \A j \in 0..n - 1 : es[j] \in s /\ es[j] \in Entry
      /\ \A j, k \in 0..n - 1 : j < k => Before(es[j], es[k])
  BY DEF Prefix
<1>2. \A e \in s : (\E j \in 0..n - 1 : e = es[j]) \/ ~Before(e, es[i])
  <2> SUFFICES ASSUME NEW e \in s, ~\E j \in 0..n - 1 : e = es[j]
               PROVE  ~Before(e, es[i])
    OBVIOUS
  <2>1. Before(es[i], e) /\ e \in Entry /\ es[i] \in Entry
    BY <1>1 DEF Prefix
  <2> QED BY <2>1, BeforeAsymmetric
<1>3. \A j \in 0..n - 1 : Before(es[j], es[i]) <=> j < i
  <2> SUFFICES ASSUME NEW j \in 0..n - 1 PROVE Before(es[j], es[i]) <=> j < i
    OBVIOUS
  <2>1. CASE j < i
    BY <1>1, <2>1
  <2>2. CASE j = i
    BY <1>1, <2>2, BeforeIrreflexive
  <2>3. CASE i < j
    <3>1. Before(es[i], es[j]) /\ es[i] \in Entry /\ es[j] \in Entry
      BY <1>1, <2>3
    <3> QED BY <2>3, <3>1, BeforeAsymmetric
  <2> QED BY <1>1, <2>1, <2>2, <2>3
<1>4. Cardinality({}) = 0
  BY FS_EmptySet
<1>5. CASE i = 0
  <2>1. better(0) = {}
    BY <1>2, <1>3, <1>5
  <2> QED BY <1>1, <1>4, <1>5, <2>1, PlaceIs
<1>6. CASE i = 1
  <2>1. 0 \in 0..n - 1 /\ \A j \in 0..n - 1 : j < 1 => j = 0
    BY <1>1, <1>6
  <2>2. better(1) = {es[0]}
    BY <1>1, <1>2, <1>3, <1>6, <2>1
  <2> QED BY <1>1, <1>6, <2>2, PlaceIs, FS_Singleton
<1>7. CASE i = 2
  <2>1. 0 \in 0..n - 1 /\ 1 \in 0..n - 1 /\ \A j \in 0..n - 1 : j < 2 => j = 0 \/ j = 1
    BY <1>1, <1>7
  <2>2. better(2) = {es[0], es[1]}
    BY <1>1, <1>2, <1>3, <1>7, <2>1
  <2>3. es[0] # es[1]
    BY <1>1, <2>1, BeforeAsymmetric
  <2>4. Cardinality({es[0], es[1]}) = 2
    BY <2>3, Two
  <2> QED BY <1>1, <1>7, <2>2, <2>4, PlaceIs
<1> QED BY <1>1, <1>5, <1>6, <1>7

-----------------------------------------------------------------------------
(* Inserting an entry. *)

LEMMA PositionIs ==
    ASSUME NEW t \in Nat, entry_count \in 0..3, entries \in [Slots -> Entry]
    PROVE  /\ InsertPosition(t) \in 0..entry_count
           /\ \A i \in 0..entry_count - 1 : i < InsertPosition(t) => entries[i].time <= t
           /\ InsertPosition(t) < entry_count => t < entries[InsertPosition(t)].time
<1> DEFINE later == {i \in 0..entry_count - 1 : t < entries[i].time}
<1>1. \A i \in 0..entry_count - 1 : entries[i].time \in Nat /\ (i = 0 \/ i = 1 \/ i = 2)
  BY DEF Slots, SLOTS, Entry
<1>2. InsertPosition(t) = IF later = {} THEN entry_count
                          ELSE CHOOSE i \in later : \A j \in later : i <= j
  BY DEF InsertPosition
<1>3. CASE later = {}
  <2>1. \A i \in 0..entry_count - 1 : ~(t < entries[i].time)
    BY <1>3
  <2>2. InsertPosition(t) = entry_count
    BY <1>2, <1>3
  <2> QED BY <1>1, <2>1, <2>2
<1>4. CASE later # {}
  <2>1. \E i \in later : \A j \in later : i <= j
    <3>1. \A j \in later : j = 0 \/ j = 1 \/ j = 2
      BY <1>1
    <3> HIDE DEF later
    <3>2. CASE 0 \in later
      BY <3>1, <3>2
    <3>3. CASE 0 \notin later /\ 1 \in later
      BY <3>1, <3>3
    <3>4. CASE 0 \notin later /\ 1 \notin later
      BY <1>4, <3>1, <3>4
    <3> QED BY <3>2, <3>3, <3>4
  <2>2. InsertPosition(t) \in later /\ \A j \in later : InsertPosition(t) <= j
    BY <1>2, <1>4, <2>1
  <2> QED BY <1>1, <2>2
<1> QED BY <1>3, <1>4

\* The table after an insertion, slot by slot.
Inserted(es, n, p, new) ==
    [i \in Slots |-> CASE i = p -> new
                       [] i > p /\ i <= n -> es[i - 1]
                       [] OTHER -> es[i]]

LEMMA InsertedType ==
    ASSUME NEW es \in [Slots -> Entry], NEW n \in 0..3, NEW p \in 0..n, NEW new \in Entry
    PROVE  Inserted(es, n, p, new) \in [Slots -> Entry]
BY DEF Inserted, Slots, SLOTS

\* Where a new entry goes by its time, it comes after equal ones, as its
\* identity is larger.
LEMMA InsertedRanked ==
    ASSUME NEW es \in [Slots -> Entry], NEW n, NEW s, NEW m \in Nat,
           History(s, m), Ranked(es, n, s),
           NEW new \in Entry, new.id = m + 1,
           NEW p \in 0..n,
           \A i \in 0..n - 1 : i < p => es[i].time <= new.time,
           p < n => new.time < es[p].time
    PROVE  Ranked(Inserted(es, n, p, new),
                  IF p < SLOTS /\ n < SLOTS THEN n + 1 ELSE n, s \cup {new})
<1> DEFINE k == Inserted(es, n, p, new)
           N == IF p < SLOTS /\ n < SLOTS THEN n + 1 ELSE n
<1>1. n = 0 \/ n = 1 \/ n = 2 \/ n = 3
  BY DEF Ranked
<1>2. s \subseteq Entry /\ \A e \in s : e.id < new.id
  BY DEF History, Entry
<1>3. /\ k[0] = IF p = 0 THEN new ELSE es[0]
      /\ k[1] = IF p = 1 THEN new ELSE IF 1 > p /\ 1 <= n THEN es[0] ELSE es[1]
      /\ k[2] = IF p = 2 THEN new ELSE IF 2 > p /\ 2 <= n THEN es[1] ELSE es[2]
  BY <1>1 DEF Inserted, Slots, SLOTS
<1>4. \A i \in 0..n - 1 : /\ es[i] \in s /\ es[i] \in Entry
                          /\ i < p => Before(es[i], new)
  BY <1>2 DEF Ranked, Before, Entry
<1>5. p < n => Before(new, es[p])
  BY <1>4 DEF Before, Entry
<1>6. \A i \in 0..n - 1 : p <= i => Before(new, es[i])
  <2> SUFFICES ASSUME NEW i \in 0..n - 1, p <= i PROVE Before(new, es[i])
    OBVIOUS
  <2>1. p < n /\ p \in 0..n - 1 /\ Before(new, es[p])
    BY <1>1, <1>5
  <2>2. CASE i = p
    BY <2>1, <2>2
  <2>3. CASE i # p
    <3>1. Before(es[p], es[i])
      BY <1>1, <2>1, <2>3 DEF Ranked
    <3> QED BY <1>4, <2>1, <3>1, BeforeTransitive
  <2> QED BY <2>2, <2>3
<1> HIDE DEF k
<1>7. \A e \in s : (\E i \in 0..n - 1 : e = es[i]) \/ (n = 3 /\ Before(es[2], e))
  BY DEF Ranked
<1>8. \A i, j \in 0..n - 1 : i < j => Before(es[i], es[j])
  BY DEF Ranked
<1>9. CASE n = 0
  <2>1. p = 0 /\ N = 1 /\ k[0] = new /\ s = {}
    BY <1>3, <1>7, <1>9 DEF SLOTS
  <2> HIDE DEF N
  <2> QED BY <2>1 DEF Ranked, k, N
<1>10. CASE n = 1
  <2>1. N = 2 /\ (p = 0 \/ p = 1) /\ s = {es[0]} /\ es[0] \in s
    BY <1>4, <1>7, <1>10 DEF SLOTS
  <2>2. CASE p = 0
    <3>1. k[0] = new /\ k[1] = es[0] /\ Before(new, es[0])
      BY <1>3, <1>6, <1>10, <2>2
    <3> HIDE DEF N
    <3>2. Ranked(k, 2, s \cup {new})
      BY <2>1, <3>1 DEF Ranked
    <3> QED BY <2>1, <3>2 DEF k, N
  <2>3. CASE p = 1
    <3>1. k[0] = es[0] /\ k[1] = new /\ Before(es[0], new)
      BY <1>3, <1>4, <1>10, <2>3
    <3> HIDE DEF N
    <3>2. Ranked(k, 2, s \cup {new})
      BY <2>1, <3>1 DEF Ranked
    <3> QED BY <2>1, <3>2 DEF k, N
  <2> QED BY <2>1, <2>2, <2>3
<1>11. CASE n = 2
  <2>1. /\ N = 3 /\ (p = 0 \/ p = 1 \/ p = 2)
        /\ s = {es[0], es[1]} /\ es[0] \in s /\ es[1] \in s /\ Before(es[0], es[1])
    BY <1>4, <1>7, <1>8, <1>11 DEF SLOTS
  <2>2. /\ p = 0 => k[0] = new /\ k[1] = es[0] /\ k[2] = es[1]
        /\ p = 1 => k[0] = es[0] /\ k[1] = new /\ k[2] = es[1]
        /\ p = 2 => k[0] = es[0] /\ k[1] = es[1] /\ k[2] = new
    BY <1>3, <1>11
  <2>3. /\ p = 0 => Before(new, es[0]) /\ Before(new, es[1])
        /\ p = 1 => Before(es[0], new) /\ Before(new, es[1])
        /\ p = 2 => Before(es[0], new) /\ Before(es[1], new)
    BY <1>4, <1>6, <1>11
  <2>4. /\ k[0] \in s \cup {new} /\ k[1] \in s \cup {new} /\ k[2] \in s \cup {new}
        /\ Before(k[0], k[1]) /\ Before(k[0], k[2]) /\ Before(k[1], k[2])
        /\ \A e \in s \cup {new} : e = k[0] \/ e = k[1] \/ e = k[2]
    BY <2>1, <2>2, <2>3
  <2> HIDE DEF N
  <2>5. Ranked(k, 3, s \cup {new})
    BY <2>4 DEF Ranked
  <2> QED BY <2>1, <2>5 DEF k, N
<1>12. CASE n = 3
  <2>1. /\ N = 3 /\ (p = 0 \/ p = 1 \/ p = 2 \/ p = 3)
        /\ es[0] \in s /\ es[1] \in s /\ es[2] \in s
        /\ Before(es[0], es[1]) /\ Before(es[0], es[2]) /\ Before(es[1], es[2])
        /\ \A e \in s : e = es[0] \/ e = es[1] \/ e = es[2] \/ Before(es[2], e)
    BY <1>4, <1>7, <1>8, <1>12 DEF SLOTS
  <2>2. /\ p = 0 => k[0] = new /\ k[1] = es[0] /\ k[2] = es[1]
        /\ p = 1 => k[0] = es[0] /\ k[1] = new /\ k[2] = es[1]
        /\ p = 2 => k[0] = es[0] /\ k[1] = es[1] /\ k[2] = new
        /\ p = 3 => k[0] = es[0] /\ k[1] = es[1] /\ k[2] = es[2]
    BY <1>3, <1>12
  <2>3. /\ p = 0 => Before(new, es[0]) /\ Before(new, es[1]) /\ Before(new, es[2])
        /\ p = 1 => Before(es[0], new) /\ Before(new, es[1]) /\ Before(new, es[2])
        /\ p = 2 => Before(es[0], new) /\ Before(es[1], new) /\ Before(new, es[2])
        /\ p = 3 => Before(es[0], new) /\ Before(es[1], new) /\ Before(es[2], new)
    BY <1>4, <1>6, <1>12
  <2>4. /\ k[0] \in s \cup {new} /\ k[1] \in s \cup {new} /\ k[2] \in s \cup {new}
        /\ Before(k[0], k[1]) /\ Before(k[0], k[2]) /\ Before(k[1], k[2])
    BY <2>1, <2>2, <2>3
  <2>5. \A e \in s : Before(es[2], e) => Before(es[1], e) /\ (p # 3 => Before(new, e))
    <3> SUFFICES ASSUME NEW e \in s, Before(es[2], e)
                 PROVE  Before(es[1], e) /\ (p # 3 => Before(new, e))
      OBVIOUS
    <3>1. e \in Entry /\ es[1] \in Entry /\ es[2] \in Entry
      BY <1>2, <2>1
    <3>2. Before(es[1], e)
      BY <2>1, <3>1, BeforeTransitive
    <3>3. p # 3 => Before(new, es[2])
      BY <2>1, <2>3
    <3> QED BY <3>1, <3>2, <3>3, BeforeTransitive
  <2>6. \A e \in s \cup {new} : e = k[0] \/ e = k[1] \/ e = k[2] \/ Before(k[2], e)
    <3> SUFFICES ASSUME NEW e \in s \cup {new}
                 PROVE  e = k[0] \/ e = k[1] \/ e = k[2] \/ Before(k[2], e)
      OBVIOUS
    <3>1. CASE p = 0
      BY <2>1, <2>2, <2>3, <2>5, <3>1
    <3>2. CASE p = 1
      BY <2>1, <2>2, <2>3, <2>5, <3>2
    <3>3. CASE p = 2
      BY <2>1, <2>2, <2>3, <2>5, <3>3
    <3>4. CASE p = 3
      BY <2>1, <2>2, <2>3, <2>5, <3>4
    <3> QED BY <2>1, <3>1, <3>2, <3>3, <3>4
  <2> HIDE DEF N
  <2>7. Ranked(k, 3, s \cup {new})
    BY <2>4, <2>6 DEF Ranked
  <2> QED BY <2>1, <2>7 DEF k, N
<1> QED BY <1>1, <1>9, <1>10, <1>11, <1>12

-----------------------------------------------------------------------------
(* The invariant. *)

FileTable == [i \in 0..Len(file) - 1 |-> file[i + 1]]

Types ==
    /\ phase \in {"off", "menu", "table", "saving"}
    /\ entries \in [Slots -> Entry] /\ entry_count \in Nat
    /\ opened \in BOOLEAN /\ spoilt \in BOOLEAN /\ made \in Nat
    /\ file \in Seq(Entry) /\ Len(file) <= 3
    /\ History(known, made) /\ History(saved, made)

\* The table of a run that could read the file.
TableInv ==
    /\ phase \in {"table", "saving"} => opened
    /\ (phase # "off" /\ opened) => entry_count \in 0..3
    /\ (phase # "off" /\ opened /\ ~spoilt) => Ranked(entries, entry_count, known)

\* The file is empty while it is written, and holds best entries only.
FileInv ==
    /\ phase = "saving" => file = << >>
    /\ ~spoilt => Prefix(FileTable, Len(file), saved)

Inv == Types /\ TableInv /\ FileInv

LEMMA EmptyHistory ==
    ASSUME NEW m \in Nat
    PROVE  History({}, m)
BY FS_EmptySet DEF History

LEMMA WiderRecords ==
    ASSUME NEW K, NEW L, K \subseteq Nat, L \subseteq Nat
    PROVE  [id : K, time : L] \subseteq [id : Nat, time : Nat]
OBVIOUS

LEMMA JunkType ==
    /\ Junk \subseteq Entry
    /\ AnyMemory \in [Slots -> Entry]
<1>1. (CHOOSE t \in JunkTimes : TRUE) \in Nat
  BY TimesAssumption
<1>2. Junk \subseteq Entry
  <2>1. {0} \subseteq Nat /\ JunkTimes \subseteq Nat
    BY TimesAssumption
  <2> QED BY <2>1, WiderRecords DEF Junk, Entry
<1> QED BY <1>1, <1>2 DEF AnyMemory, Entry

LEMMA HistorySubset ==
    ASSUME NEW s, NEW m, History(s, m), NEW r \in SUBSET s
    PROVE  History(r, m)
BY FS_Subset DEF History

LEMMA FileType ==
    ASSUME Types
    PROVE  /\ file \in Seq(Entry) /\ Len(file) \in 0..3
           /\ \A i \in 1..Len(file) : file[i] \in Entry
<1>1. file \in Seq(Entry) /\ Len(file) <= 3
  BY DEF Types
<1>2. Len(file) \in Nat /\ file \in [1..Len(file) -> Entry]
  BY <1>1, LenProperties
<1> QED BY <1>1, <1>2

LEMMA EmptyFile ==
    ASSUME file = << >>
    PROVE  Prefix(FileTable, Len(file), saved)
BY DEF Prefix

LEMMA InitInv == Init => Inv
<1> SUFFICES ASSUME Init PROVE Inv
  OBVIOUS
<1>1. /\ phase = "off" /\ entries = AnyMemory /\ entry_count = 0 /\ opened = FALSE
      /\ known = {} /\ file = << >> /\ made = 0 /\ saved = {} /\ spoilt = FALSE
  BY DEF Init
<1>2. History(known, made) /\ History(saved, made)
  BY <1>1, EmptyHistory
<1>3. file \in Seq(Entry) /\ Len(file) <= 3
  BY <1>1, EmptySeq
<1>4. opened \in BOOLEAN /\ spoilt \in BOOLEAN
  BY <1>1, Zenon
<1>5. Types
  BY <1>1, <1>2, <1>3, <1>4, JunkType DEF Types
<1> QED BY <1>1, <1>5, EmptyFile DEF Inv, TableInv, FileInv

\* What Leaderboard_read_file makes of a file.
LEMMA ReadStep ==
    ASSUME Inv, Leaderboard_read_file
    PROVE  /\ entries' \in [Slots -> Entry] /\ entry_count' \in 0..3 /\ opened' = TRUE
           /\ History(known', made')
           /\ ~spoilt' => Ranked(entries', entry_count', known')
           /\ UNCHANGED <<file, made, saved, spoilt>>
<1>0. Types /\ FileInv
  BY DEF Inv
<1>1. PICK n \in Readable, junk \in [Slots -> Junk] :
          /\ entry_count' = n
          /\ entries' = [i \in Slots |-> IF i < n THEN file[i + 1] ELSE junk[i]]
  BY DEF Leaderboard_read_file
<1>2. opened' = TRUE /\ known' = Surviving /\ UNCHANGED <<file, made, saved, spoilt>>
  BY DEF Leaderboard_read_file
<1>3. \A i \in Slots : junk[i] \in Entry
  BY JunkType
<1>4. file \in Seq(Entry) /\ Len(file) \in 0..3 /\ Seen = Len(file)
  BY <1>0, FileType DEF Seen, Least, SLOTS
<1>5. \A i \in 1..Len(file) : file[i] \in Entry
  BY <1>0, FileType
<1>6. n \in 0..Len(file) /\ \A i \in 1..Len(file) : file[i].id # 0 => i <= n
  BY <1>4 DEF Readable
<1>7. History(known', made')
  <2>1. Surviving \in SUBSET saved
    BY DEF Surviving
  <2> QED BY <1>0, <1>2, <2>1, HistorySubset DEF Types
<1>8. entries' \in [Slots -> Entry]
  <2>1. \A i \in Slots : i < n => file[i + 1] \in Entry
    BY <1>4, <1>5, <1>6 DEF Slots, SLOTS
  <2> QED BY <1>1, <1>3, <2>1
<1>9. ASSUME ~spoilt'
      PROVE  Ranked(entries', entry_count', known')
  <2>1. Prefix(FileTable, Len(file), saved)
    BY <1>0, <1>2, <1>9 DEF FileInv
  <2>2. \A i \in 0..Len(file) - 1 : FileTable[i] = file[i + 1]
    BY <1>4 DEF FileTable
  <2>3. \A i \in 1..Len(file) : file[i] \in saved
    <3> SUFFICES ASSUME NEW i \in 1..Len(file) PROVE file[i] \in saved
      OBVIOUS
    <3>1. i - 1 \in 0..Len(file) - 1 /\ (i - 1) + 1 = i
      BY <1>4
    <3> QED BY <2>1, <2>2, <3>1 DEF Prefix
  <2>4. n = Len(file)
    <3>1. CASE Len(file) = 0
      BY <1>6, <3>1
    <3>2. CASE Len(file) # 0
      <4>1. Len(file) \in 1..Len(file)
        BY <1>4, <3>2
      <4>2. file[Len(file)].id # 0
        BY <1>0, <2>3, <4>1 DEF Types, History
      <4> QED BY <1>4, <1>6, <4>1, <4>2
    <3> QED BY <3>1, <3>2
  <2>5. \A i \in 0..n - 1 : entries'[i] = FileTable[i]
    <3> SUFFICES ASSUME NEW i \in 0..n - 1 PROVE entries'[i] = FileTable[i]
      OBVIOUS
    <3>1. i \in Slots /\ i < n
      BY <1>4, <2>4 DEF Slots, SLOTS
    <3>2. entries'[i] = file[i + 1]
      BY <1>1, <3>1
    <3> QED BY <2>2, <2>4, <3>2
  <2>6. \A i \in 0..n - 1 : FileTable[i] \in known'
    <3> SUFFICES ASSUME NEW i \in 0..n - 1 PROVE FileTable[i] \in known'
      OBVIOUS
    <3>1. i + 1 \in 1..Len(file) /\ FileTable[i] = file[i + 1] /\ FileTable[i] \in saved
      BY <1>4, <2>1, <2>2, <2>4 DEF Prefix
    <3> QED BY <1>2, <3>1 DEF Surviving
  <2>7. \A e \in known' : (\E i \in 0..n - 1 : e = FileTable[i]) \/ (n = 3 /\ Before(FileTable[2], e))
    <3> SUFFICES ASSUME NEW e \in known'
                 PROVE  (\E i \in 0..n - 1 : e = FileTable[i]) \/ (n = 3 /\ Before(FileTable[2], e))
      OBVIOUS
    <3>1. CASE Len(file) < 3
      <4>1. PICK i \in 1..Len(file) : e = file[i]
        BY <1>2, <3>1 DEF Surviving, SLOTS
      <4>2. i - 1 \in 0..n - 1 /\ FileTable[i - 1] = file[i]
        BY <1>4, <2>2, <2>4
      <4> QED BY <4>1, <4>2
    <3>2. CASE Len(file) = 3
      <4>1. e \in saved
        BY <1>2, <3>2 DEF Surviving, SLOTS
      <4>2. (\E i \in 0..2 : e = FileTable[i]) \/ (\A i \in 0..2 : Before(FileTable[i], e))
        BY <2>1, <3>2, <4>1 DEF Prefix
      <4> QED BY <2>4, <3>2, <4>2
    <3> QED BY <1>4, <3>1, <3>2
  <2>8. n \in 0..3 /\ \A i, j \in 0..n - 1 : i < j => Before(FileTable[i], FileTable[j])
    BY <1>4, <2>1, <2>4 DEF Prefix
  <2>9. n = 3 => 2 \in 0..n - 1
    OBVIOUS
  <2>10. Ranked(entries', n, known')
    BY <2>5, <2>6, <2>7, <2>8, <2>9 DEF Ranked
  <2> QED BY <1>1, <2>10
<1> QED BY <1>1, <1>2, <1>4, <1>6, <1>7, <1>8, <1>9

\* A flush, complete or not, leaves a prefix of the table in the file, unless
\* it wrote more lines than there are entries or cut one off.
LEMMA FlushStep ==
    ASSUME Inv, NEW k \in 0..3, NEW rest \in Seq(Entry), Len(rest) <= 1, k + Len(rest) <= 3,
           Flush(k, rest)
    PROVE  Inv'
<1>0. Types /\ TableInv /\ FileInv
  BY DEF Inv
<1> DEFINE ls == SubSeq(Lines, 1, k)
<1>1. /\ phase = "saving" /\ phase' = "table" /\ file' = Overwritten(ls \o rest) /\ saved' = known
      /\ spoilt' = (spoilt \/ k > entry_count \/ rest # << >>)
      /\ UNCHANGED <<entries, entry_count, opened, made, known>>
  BY DEF Flush
<1>2. Lines \in Seq(Entry) /\ Len(Lines) = 3 /\ \A i \in 1..3 : Lines[i] = entries[i - 1]
  BY <1>0 DEF Types, Lines, Slots, SLOTS
<1>3. ls \in Seq(Entry) /\ Len(ls) = k /\ \A i \in 1..k : ls[i] = entries[i - 1]
  <2>1. \A i \in 1..k : Lines[i] \in Entry
    BY <1>0, <1>2 DEF Types, Slots, SLOTS
  <2>2. /\ ls \in Seq(Entry) /\ Len(ls) = IF 1 <= k THEN k - 1 + 1 ELSE 0
        /\ \A i \in 1..(k - 1 + 1) : ls[i] = Lines[1 + i - 1]
    BY <2>1, SubSeqProperties
  <2>3. Len(ls) = k
    BY <2>2
  <2>4. \A i \in 1..k : i \in 1..(k - 1 + 1) /\ 1 + i - 1 = i /\ i \in 1..3
    OBVIOUS
  <2>5. \A i \in 1..k : ls[i] = entries[i - 1]
    BY <1>2, <2>2, <2>4
  <2> QED BY <2>2, <2>3, <2>5
<1> HIDE DEF ls
<1>4. ls \o rest \in Seq(Entry) /\ Len(ls \o rest) = k + Len(rest)
  BY <1>3
<1>5. file' = ls \o rest
  <2>1. file = << >>
    BY <1>0, <1>1 DEF FileInv
  <2>2. SubSeq(file, Len(ls \o rest) + 1, Len(file)) = << >>
    BY <1>4, <2>1
  <2>3. (ls \o rest) \o << >> = ls \o rest
    BY <1>4, ConcatEmptySeq
  <2> QED BY <1>1, <2>2, <2>3 DEF Overwritten
<1>6. file' \in Seq(Entry) /\ Len(file') <= 3
  BY <1>4, <1>5
<1>7. /\ spoilt' \in BOOLEAN
      /\ spoilt' = FALSE => spoilt = FALSE /\ ~(k > entry_count) /\ rest = << >>
  BY <1>0, <1>1 DEF Types
<1>8. Types'
  BY <1>0, <1>1, <1>6, <1>7 DEF Types
<1>9. TableInv'
  BY <1>0, <1>1, <1>7 DEF TableInv
<1>10. ASSUME ~spoilt'
       PROVE  Prefix(FileTable', Len(file'), saved')
  <2>1. ~(k > entry_count) /\ rest = << >> /\ ~spoilt
    BY <1>7, <1>10
  <2>2. Ranked(entries, entry_count, known) /\ entry_count \in 0..3
    BY <1>0, <1>1, <2>1 DEF TableInv
  <2>3. Prefix(entries, k, known)
    BY <1>0, <2>1, <2>2, RankedPrefix DEF Types, History
  <2>4. Len(file') = k /\ \A i \in 1..k : file'[i] = entries[i - 1]
    BY <1>3, <1>5, <2>1
  <2>5. \A i \in 0..k - 1 : FileTable'[i] = entries[i]
    BY <2>4 DEF FileTable
  <2> QED BY <1>1, <2>3, <2>4, <2>5 DEF Prefix
<1> QED BY <1>1, <1>8, <1>9, <1>10 DEF Inv, FileInv

LEMMA AddStep ==
    ASSUME Inv, NEW t \in Times, Leaderboard_add_entry(t)
    PROVE  Inv'
<1> DEFINE new == [id |-> made + 1, time |-> t]
           p == InsertPosition(t)
<1>1. Types /\ TableInv /\ FileInv
  BY DEF Inv
<1>2. /\ phase = "table" /\ UNCHANGED <<phase, opened, file, saved, spoilt>>
      /\ entries' = Inserted(entries, entry_count, p, new)
      /\ entry_count' = IF p < SLOTS /\ entry_count < SLOTS THEN entry_count + 1 ELSE entry_count
      /\ made' = made + 1 /\ known' = known \cup {new}
  BY DEF Leaderboard_add_entry, Inserted
<1>3. entries \in [Slots -> Entry] /\ made \in Nat /\ t \in Nat /\ new \in Entry /\ new.id = made + 1 /\ new.time = t
  BY <1>1, TimesAssumption DEF Types, Entry
<1>4. opened /\ entry_count \in 0..3
  BY <1>1, <1>2 DEF TableInv
<1>5. /\ p \in 0..entry_count
      /\ \A i \in 0..entry_count - 1 : i < p => entries[i].time <= t
      /\ p < entry_count => t < entries[p].time
  BY <1>3, <1>4, PositionIs
<1> HIDE DEF new, p
<1>6. entries' \in [Slots -> Entry]
  BY <1>2, <1>3, <1>4, <1>5, InsertedType
<1>7. entry_count' \in 0..3
  BY <1>2, <1>4, <1>5 DEF SLOTS
<1>8. History(known', made') /\ History(saved', made')
  <2>1. History(known, made) /\ History(saved, made)
    BY <1>1 DEF Types
  <2>2. IsFiniteSet(known') /\ known' \subseteq Entry
    BY <1>2, <1>3, <2>1, FS_AddElement DEF History
  <2>3. \A e \in known : e.id \in Nat /\ e.id >= 1 /\ e.id <= made
    BY <2>1 DEF History, Entry
  <2>4. \A e \in known' : e.id >= 1 /\ e.id <= made + 1
    BY <1>2, <1>3, <2>3
  <2>5. \A e, f \in known' : e.id = f.id => e = f
    BY <1>2, <1>3, <2>1, <2>3 DEF History
  <2>6. \A e \in saved : e.id \in Nat /\ e.id >= 1 /\ e.id <= made + 1
    BY <1>3, <2>1 DEF History, Entry
  <2> QED BY <1>2, <2>1, <2>2, <2>4, <2>5, <2>6 DEF History
<1>9. ~spoilt' => Ranked(entries', entry_count', known')
  <2>1. ~spoilt => Ranked(entries, entry_count, known)
    BY <1>1, <1>2, <1>4 DEF TableInv
  <2>2. History(known, made)
    BY <1>1 DEF Types
  <2> QED BY <1>2, <1>3, <1>5, <2>1, <2>2, InsertedRanked
<1>10. Types'
  BY <1>1, <1>2, <1>3, <1>6, <1>7, <1>8 DEF Types
<1>11. TableInv'
  BY <1>2, <1>4, <1>7, <1>9 DEF TableInv
<1>12. FileInv'
  BY <1>1, <1>2 DEF FileInv, FileTable
<1> QED BY <1>10, <1>11, <1>12 DEF Inv

LEMMA InvStep == Inv /\ [Next]_vars => Inv'
<1> SUFFICES ASSUME Inv, [Next]_vars PROVE Inv'
  OBVIOUS
<1>0. Types /\ TableInv /\ FileInv
  BY DEF Inv
<1>1. CASE Gamestate_init
  <2>1. CASE Leaderboard_read_file
    <3>1. /\ entries' \in [Slots -> Entry] /\ entry_count' \in 0..3 /\ opened' = TRUE
          /\ History(known', made')
          /\ ~spoilt' => Ranked(entries', entry_count', known')
          /\ UNCHANGED <<file, made, saved, spoilt>>
      BY <2>1, ReadStep
    <3>2. phase' = "menu"
      BY <1>1 DEF Gamestate_init
    <3>3. Types'
      BY <1>0, <3>1, <3>2 DEF Types
    <3>4. TableInv'
      BY <3>1, <3>2 DEF TableInv
    <3> QED BY <1>0, <3>1, <3>2, <3>3, <3>4 DEF Inv, FileInv, FileTable
  <2>2. CASE CannotOpen
    <3>1. /\ entries' \in [Slots -> Entry] /\ entry_count' \in Nat /\ opened' = FALSE
          /\ UNCHANGED <<file, made, known, saved, spoilt>> /\ phase' = "menu"
      BY <1>1, <2>2, JunkType, JunkCountsAssumption DEF CannotOpen, Gamestate_init
    <3> QED BY <1>0, <3>1 DEF Inv, Types, TableInv, FileInv, FileTable
  <2> QED BY <1>1, <2>1, <2>2 DEF Gamestate_init
<1>2. CASE Begin
  <2>1. /\ entries' \in [Slots -> Entry] /\ entry_count' \in 0..3 /\ opened' = TRUE
        /\ History(known', made')
        /\ ~spoilt' => Ranked(entries', entry_count', known')
        /\ UNCHANGED <<file, made, saved, spoilt>>
    BY <1>2, ReadStep DEF Begin
  <2>2. phase' = "table"
    BY <1>2 DEF Begin
  <2>3. Types'
    BY <1>0, <2>1, <2>2 DEF Types
  <2>4. TableInv'
    BY <2>1, <2>2 DEF TableInv
  <2> QED BY <1>0, <2>1, <2>2, <2>3, <2>4 DEF Inv, FileInv, FileTable
<1>3. CASE \E t \in Times : Leaderboard_add_entry(t)
  BY <1>3, AddStep
<1>4. CASE OpenForWriting
  <2>1. /\ phase = "table" /\ phase' = "saving" /\ file' = << >>
        /\ UNCHANGED <<entries, entry_count, opened, made, known, saved, spoilt>>
    BY <1>4 DEF OpenForWriting
  <2>2. Prefix(FileTable', Len(file'), saved')
    BY <2>1 DEF Prefix
  <2> QED BY <1>0, <2>1, <2>2 DEF Inv, Types, TableInv, FileInv
<1>5. CASE Close
  <2>1. << >> \in Seq(Entry) /\ Len(<< >>) = 0
    BY EmptySeq
  <2>2. Flush(3, << >>)
    BY <1>5 DEF Close, SLOTS
  <2>3. 3 \in 0..3 /\ Len(<< >>) <= 1 /\ 3 + Len(<< >>) <= 3
    BY <2>1
  <2>4. \A rest \in Seq(Entry) :
           Len(rest) <= 1 /\ 3 + Len(rest) <= 3 /\ Flush(3, rest) => Inv'
    BY FlushStep
  <2> QED BY <2>1, <2>2, <2>3, <2>4
<1>8. CASE CloseFails
  <2>1. PICK k \in 0..2, rest \in {<< >>} \cup {<<j>> : j \in Junk} : Flush(k, rest)
    BY <1>8 DEF CloseFails, SLOTS
  <2>2. rest \in Seq(Entry) /\ Len(rest) <= 1 /\ k + Len(rest) <= 3
    <3>1. CASE rest = << >>
      BY <3>1, EmptySeq
    <3>2. CASE rest # << >>
      <4>1. PICK j \in Junk : rest = <<j>>
        BY <3>2
      <4>2. j \in Entry
        BY JunkType
      <4> QED BY <4>1, <4>2
    <3> QED BY <3>1, <3>2
  <2>3. k \in 0..3
    OBVIOUS
  <2> QED BY <2>1, <2>2, <2>3, FlushStep
<1>6. CASE Stop
  <2>1. /\ phase' = "off" /\ entries' = AnyMemory /\ entry_count' = 0 /\ opened' = FALSE
        /\ known' = {} /\ UNCHANGED <<file, made, saved, spoilt>>
    BY <1>6 DEF Stop
  <2>2. History(known', made')
    BY <1>0, <2>1, EmptyHistory DEF Types
  <2> QED BY <1>0, <2>1, <2>2, JunkType DEF Inv, Types, TableInv, FileInv, FileTable
<1>7. CASE UNCHANGED vars
  BY <1>0, <1>7 DEF Inv, Types, TableInv, FileInv, FileTable, vars
<1> QED BY <1>1, <1>2, <1>3, <1>4, <1>5, <1>6, <1>7, <1>8 DEF Next

LEMMA InvHolds == Spec => []Inv
BY InitInv, InvStep, PTL DEF Spec

\* Leaderboard_add_entry keeps the three best of everything that was added,
\* over any number of entries, saves and runs.
THEOREM BestAreKept == Spec => []BestKept
<1>1. Inv => BestKept
  BY RankedIsBest DEF Inv, Types, TableInv, History, BestKept
<1> QED BY <1>1, InvHolds, PTL

\* The leaderboard menu has the rows of the file and no others, if the file
\* could be opened.
THEOREM MenuIsFromFile == Spec => []MenuShowsFile
<1>1. Inv => MenuShowsFile
  <2> SUFFICES ASSUME Inv, phase = "menu", opened
               PROVE  entry_count <= SLOTS /\ (~spoilt => AreBest(entries, entry_count, known))
    BY DEF MenuShowsFile
  <2>1. entry_count <= SLOTS
    BY DEF Inv, TableInv, SLOTS
  <2> QED BY <2>1, RankedIsBest DEF Inv, Types, TableInv, History
<1> QED BY <1>1, InvHolds, PTL

\* Whatever part of a table a failing fclose gets into the file, and wherever
\* Leaderboard_write_file is stopped, the file holds the best of all entries
\* of the table that was saved last, in order, and no line of an older one.
THEOREM FailedSavesKeepBest == Spec => []FileKeepsBest
<1>1. Inv => FileKeepsBest
  <2> SUFFICES ASSUME Inv, ~spoilt, NEW i \in 1..Len(file)
               PROVE  file[i] \in saved /\ Place(file[i], saved) = i - 1
    BY DEF FileKeepsBest
  <2>1. Len(file) \in 0..3 /\ saved \subseteq Entry /\ Prefix(FileTable, Len(file), saved)
    BY FileType DEF Inv, Types, FileInv, History
  <2>2. i - 1 \in 0..Len(file) - 1 /\ FileTable[i - 1] = file[i]
    BY <2>1 DEF FileTable
  <2> QED BY <2>1, <2>2, PrefixPlaces
<1> QED BY <1>1, InvHolds, PTL

\* Memory that was never assigned or a line that was cut off is read as an
\* entry only after Leaderboard_write_file has written a table that was not
\* full or failed in the middle of a line.
THEOREM JunkComesFromBadSaves == Spec => []JunkNeedsBadSave
<1>1. Inv => JunkNeedsBadSave
  <2> SUFFICES ASSUME Inv, NEW i \in Slots, phase # "off", opened, i < entry_count,
                      entries[i].id = 0, ~spoilt
               PROVE  FALSE
    BY DEF JunkNeedsBadSave
  <2>1. Ranked(entries, entry_count, known) /\ History(known, made) /\ entry_count \in 0..3
    BY DEF Inv, Types, TableInv
  <2>2. entries[i] \in known
    BY <2>1 DEF Ranked, Slots, SLOTS
  <2> QED BY <2>1, <2>2 DEF History
<1> QED BY <1>1, InvHolds, PTL
=============================================================================
