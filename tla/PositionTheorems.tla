-------------------------- MODULE PositionTheorems --------------------------
(***************************************************************************)
(* Facts that several of the proofs need.  Rows are named by their         *)
(* positions in a table: the latest of a set of positions, the oldest, the *)
(* n oldest.  Loops are recursive functions of a position: what holds at   *)
(* the start and survives each step holds at every position (CountingUp,   *)
(* by a least counterexample).  Totals are sums over finite sets.          *)
(***************************************************************************)
EXTENDS Integers, Sequences, FiniteSets, FiniteSetTheorems, WellFoundedInduction, TLAPS

\* The largest of a nonempty set of positions exists.
LEMMA LatestExists ==
    ASSUME NEW n \in Nat, NEW S \in SUBSET (1 .. n), S # {}
    PROVE  \E r \in S : \A q \in S : q <= r
  <1> DEFINE Above(r) == {q \in S : r < q}
             T == {Above(r) : r \in S}
  <1>1. IsFiniteSet(S)
    <2>1. IsFiniteSet(1 .. n)
      BY FS_Interval
    <2> QED
      BY <2>1, FS_Subset
  <1>2. T \subseteq FiniteSubsetsOf(S) /\ T # {}
    <2>1. T \subseteq SUBSET S
      OBVIOUS
    <2>2. T # {}
      OBVIOUS
    <2> HIDE DEF T
    <2> QED
      BY <1>1, <2>1, <2>2, FS_FiniteSubsetsOfFinite
  <1>3. PICK x \in T : \A y \in T : ~ (<<y, x>> \in StrictSubsetOrdering(S))
    <2> HIDE DEF T
    <2> QED
      BY <1>2, FS_StrictSubsetOrderingWellFounded, WFMin
  <1>4. PICK r \in S : x = Above(r)
    OBVIOUS
  <1>5. ASSUME NEW q \in S, ~(q <= r) PROVE FALSE
    <2>1. q \in Int /\ r \in Int /\ r < q
      BY <1>5
    <2>2. q \in x /\ q \notin Above(q)
      BY <1>4, <2>1
    <2>3. \A s \in S : q < s => r < s
      BY <2>1
    <2>4. Above(q) \subseteq x
      BY <1>4, <2>3
    <2>5. Above(q) \in SUBSET S /\ x \in SUBSET S
      BY <1>4
    <2>6. Above(q) \in T
      OBVIOUS
    <2> HIDE DEF T, Above
    <2>7. <<Above(q), x>> \in StrictSubsetOrdering(S)
      BY <2>2, <2>4, <2>5 DEF StrictSubsetOrdering
    <2> QED
      BY <1>3, <2>6, <2>7
  <1> QED
    BY <1>5

\* ... and CHOOSE returns it.
LEMMA LatestChosen ==
    ASSUME NEW n \in Nat, NEW S \in SUBSET (1 .. n), S # {}
    PROVE  LET x == CHOOSE r \in S : \A q \in S : q <= r
           IN x \in S /\ \A q \in S : q <= x
  BY LatestExists

\* There is only one latest position.
LEMMA LatestIs ==
    ASSUME NEW S \in SUBSET Nat, NEW m \in S, \A q \in S : m >= q
    PROVE  (CHOOSE x \in S : \A y \in S : x >= y) = m
  <1> DEFINE x == CHOOSE r \in S : \A y \in S : r >= y
  <1>1. x \in S /\ \A y \in S : x >= y
    OBVIOUS
  <1> HIDE DEF x
  <1>2. x \in Nat /\ m \in Nat /\ x >= m /\ m >= x
    BY <1>1
  <1>3. x = m
    BY <1>2
  <1> QED
    BY <1>3 DEF x

\* The oldest of a nonempty set of positions exists.
LEMMA OldestExists ==
    ASSUME NEW n \in Nat, NEW S \in SUBSET (1 .. n), S # {}
    PROVE  \E r \in S : \A q \in S : r <= q
  <1> DEFINE T == {n + 1 - q : q \in S}
  <1>1. T \in SUBSET (1 .. n) /\ T # {}
    OBVIOUS
  <1>2. PICK t \in T : \A u \in T : u <= t
    <2> HIDE DEF T
    <2> QED
      BY <1>1, LatestExists
  <1>3. PICK r \in S : t = n + 1 - r
    OBVIOUS
  <1>4. ASSUME NEW q \in S PROVE r <= q
    <2>1. n + 1 - q <= t
      BY <1>2
    <2>2. q \in Int /\ r \in Int
      OBVIOUS
    <2> QED
      BY <1>3, <2>1, <2>2
  <1> QED
    BY <1>4

\* The n earliest positions of a set, as the guards of a config take them.
Rank(E, c) == Cardinality({d \in E : d < c})
Earliest(E, n) == {c \in E : Rank(E, c) < n}

\* One more of the earliest is one more.
LEMMA EarliestNext ==
    ASSUME NEW m \in Nat, NEW E \in SUBSET (1 .. m), NEW k \in Nat,
           Cardinality(Earliest(E, k)) = k, k < Cardinality(E)
    PROVE  Cardinality(Earliest(E, k + 1)) = k + 1
  <1> DEFINE L == Earliest(E, k)
             Rest == E \ L
             Below(c) == {d \in E : d < c}
  <1>1. IsFiniteSet(E) /\ \A S \in SUBSET E : IsFiniteSet(S) /\ Cardinality(S) \in Nat
    <2>1. IsFiniteSet(1 .. m)
      BY FS_Interval
    <2> QED
      BY <2>1, FS_Subset, FS_CardinalityType
  <1>2. L \subseteq E /\ Cardinality(L) = k
    BY DEF Earliest
  <1>3. Rest # {} /\ Rest \in SUBSET (1 .. m)
    <2>1. L # E
      BY <1>1, <1>2
    <2> HIDE DEF L
    <2> QED
      BY <1>2, <2>1
  <1>4. PICK x \in Rest : \A q \in Rest : x <= q
    <2> HIDE DEF Rest
    <2> QED
      BY <1>3, OldestExists
  <1>5. x \in E /\ x \notin L /\ x \in Int /\ Rank(E, x) \in Nat /\ ~(Rank(E, x) < k)
    BY <1>1, <1>4 DEF Earliest, Rank
  <1>6. ASSUME NEW c \in E, NEW d \in E, c <= d PROVE Rank(E, c) <= Rank(E, d)
    <2>1. Below(c) \subseteq Below(d) /\ Below(d) \in SUBSET E
      <3>1. \A e \in E : e < c => e < d
        BY <1>6
      <3> QED
        BY <3>1
    <2> HIDE DEF Below
    <2>2. Cardinality(Below(c)) <= Cardinality(Below(d))
      BY <1>1, <2>1, FS_Subset
    <2> QED
      BY <2>2 DEF Rank, Below
  <1>7. \A d \in E : Rank(E, d) \in Nat
    BY <1>1 DEF Rank
  <1>8. ASSUME NEW d \in L PROVE d < x
    <2>1. d \in E /\ d \in Int /\ Rank(E, d) < k /\ Rank(E, d) \in Nat
      BY <1>2, <1>7 DEF Earliest
    <2>2. ~(x <= d)
      BY <1>5, <1>6, <2>1
    <2> QED
      BY <1>5, <2>1, <2>2
  <1>9. Below(x) = L
    <2>1. ASSUME NEW d \in Below(x) PROVE d \in L
      <3>1. d \in Int /\ d < x /\ d \in E
        BY <2>1
      <3> QED
        BY <1>4, <1>5, <3>1
    <2> QED
      BY <1>2, <1>8, <2>1
  <1>10. Rank(E, x) = k
    BY <1>2, <1>9 DEF Rank
  <1>11. ASSUME NEW d \in E, d \notin L, d # x PROVE ~(Rank(E, d) < k + 1)
    <2>1. x <= d /\ x < d
      BY <1>4, <1>5, <1>11
    <2>2. L \cup {x} \subseteq Below(d) /\ Below(d) \in SUBSET E
      <3>1. \A e \in L : e \in E /\ e \in Int
        <4>1. \A e \in E : e \in Int
          OBVIOUS
        <4> HIDE DEF L
        <4> QED
          BY <1>2, <4>1
      <3>2. \A e \in L : e < d
        BY <1>5, <1>8, <2>1, <3>1
      <3> HIDE DEF L
      <3> QED
        BY <1>5, <2>1, <3>1, <3>2
    <2>3. Cardinality(L \cup {x}) = k + 1
      BY <1>1, <1>2, <1>5, FS_AddElement
    <2> HIDE DEF Below, L
    <2>4. Cardinality(L \cup {x}) <= Cardinality(Below(d))
      BY <1>1, <2>2, FS_Subset
    <2>5. Rank(E, d) \in Nat /\ Rank(E, d) = Cardinality(Below(d))
      BY <1>7 DEF Rank, Below
    <2> QED
      BY <2>3, <2>4, <2>5
  <1>12. Earliest(E, k + 1) = L \cup {x}
    <2>1. ASSUME NEW d \in L PROVE d \in Earliest(E, k + 1)
      BY <1>7 DEF Earliest
    <2>2. x \in Earliest(E, k + 1)
      BY <1>5, <1>10 DEF Earliest
    <2>3. ASSUME NEW d \in Earliest(E, k + 1) PROVE d \in L \cup {x}
      <3>1. d \in E /\ Rank(E, d) < k + 1
        BY DEF Earliest
      <3> QED
        BY <1>11, <3>1
    <2> HIDE DEF L
    <2> QED
      BY <2>1, <2>2, <2>3
  <1> HIDE DEF L
  <1>13. Cardinality(L \cup {x}) = k + 1
    BY <1>1, <1>2, <1>5, FS_AddElement
  <1> QED
    BY <1>12, <1>13

\* The n earliest of a set that has n members are n.
LEMMA EarliestCount ==
    ASSUME NEW m \in Nat, NEW E \in SUBSET (1 .. m), NEW n \in Nat, n <= Cardinality(E)
    PROVE  Cardinality(Earliest(E, n)) = n
  <1> DEFINE Wrong == {k \in 1 .. n + 1 : Cardinality(Earliest(E, k - 1)) # k - 1}
  <1>1. IsFiniteSet(E) /\ Cardinality(E) \in Nat
    <2>1. IsFiniteSet(1 .. m)
      BY FS_Interval
    <2> QED
      BY <2>1, FS_Subset, FS_CardinalityType
  <1>2. \A c \in E : Rank(E, c) \in Nat
    <2>1. \A S \in SUBSET E : Cardinality(S) \in Nat
      BY <1>1, FS_Subset, FS_CardinalityType
    <2> QED
      BY <2>1 DEF Rank
  <1>3. Earliest(E, 0) = {}
    <2>1. \A c \in E : ~(Rank(E, c) < 0)
      BY <1>2
    <2> QED
      BY <2>1 DEF Earliest
  <1>4. Cardinality(Earliest(E, 0)) = 0
    BY <1>3, FS_EmptySet
  <1>5. Wrong = {}
    <2> SUFFICES ASSUME Wrong # {} PROVE FALSE
      OBVIOUS
    <2>1. n + 1 \in Nat /\ Wrong \in SUBSET (1 .. n + 1)
      OBVIOUS
    <2>2. PICK k \in Wrong : \A q \in Wrong : k <= q
      <3> HIDE DEF Wrong
      <3> QED
        BY <2>1, OldestExists
    <2>3. k \in 1 .. n + 1 /\ Cardinality(Earliest(E, k - 1)) # k - 1
      BY <2>2
    <2>4. k # 1
      BY <1>4, <2>3
    <2>5. k - 1 \in 1 .. n + 1 /\ k - 1 \notin Wrong
      BY <2>2, <2>3, <2>4
    <2>6. Cardinality(Earliest(E, k - 2)) = k - 2
      BY <2>5
    <2>7. k - 2 \in Nat /\ k - 2 < Cardinality(E) /\ (k - 2) + 1 = k - 1
      BY <1>1, <2>3, <2>4
    <2> HIDE DEF Wrong
    <2>8. Cardinality(Earliest(E, (k - 2) + 1)) = (k - 2) + 1
      BY <2>6, <2>7, EarliestNext
    <2> QED
      BY <2>3, <2>7, <2>8
  <1>6. n + 1 \in 1 .. n + 1 /\ (n + 1) - 1 = n
    OBVIOUS
  <1>7. n + 1 \notin Wrong
    BY <1>5
  <1> QED
    BY <1>6, <1>7

-----------------------------------------------------------------------------
(* Counting up, and what is computed along a sequence. *)

\* A set of numbers that holds 0 and, up to n, the next of each holds them all.
LEMMA CountingUp ==
    ASSUME NEW n \in Nat, NEW S, 0 \in S, \A i \in 1 .. n : i - 1 \in S => i \in S
    PROVE  \A i \in 0 .. n : i \in S
  <1> DEFINE Missing == (1 .. n) \ S
  <1>1. ASSUME Missing # {} PROVE FALSE
    <2>1. Missing \in SUBSET (1 .. n)
      OBVIOUS
    <2>2. PICK r \in Missing : \A q \in Missing : r <= q
      <3> HIDE DEF Missing
      <3> QED
        BY <1>1, <2>1, OldestExists
    <2>3. r - 1 \notin Missing
      BY <2>2
    <2>4. r - 1 \in S
      BY <2>3
    <2> QED
      BY <2>4
  <1> QED
    BY <1>1

\* What is computed along s, from a, by the steps of F.
Along(d, A, F, a, n, s) ==
    /\ d \in [0 .. n -> A] /\ d[0] = a
    /\ \A i \in 1 .. n : d[i] = F[d[i - 1]][s[i]]

\* A step that stays in A can be taken along a whole sequence, from any start.
LEMMA TakenAlong ==
    ASSUME NEW A, NEW B, NEW F \in [A -> [B -> A]], NEW a \in A, NEW n \in Nat,
           NEW s \in [1 .. n -> B]
    PROVE  \E d : Along(d, A, F, a, n, s)
  <1> DEFINE S == {m \in 0 .. n : \E d : Along(d, A, F, a, m, s)}
  <1>1. 0 \in S
    <2>1. Along([i \in 0 .. 0 |-> a], A, F, a, 0, s)
      BY DEF Along
    <2> QED
      BY <2>1
  <1>2. ASSUME NEW m \in 1 .. n, m - 1 \in S PROVE m \in S
    <2>1. PICK d : Along(d, A, F, a, m - 1, s)
      BY <1>2
    <2>2. /\ d \in [0 .. m - 1 -> A] /\ d[0] = a
          /\ \A i \in 1 .. m - 1 : d[i] = F[d[i - 1]][s[i]]
      BY <2>1 DEF Along
    <2> DEFINE last == F[d[m - 1]][s[m]]
               e == [i \in 0 .. m |-> IF i = m THEN last ELSE d[i]]
    <2>3. last \in A
      BY <2>2
    <2>4. e \in [0 .. m -> A]
      BY <2>2, <2>3
    <2>5. e[0] = a /\ e[m] = last /\ e[m - 1] = d[m - 1] /\ \A i \in 0 .. m - 1 : e[i] = d[i]
      <3>1. \A i \in 0 .. m : e[i] = IF i = m THEN last ELSE d[i]
        OBVIOUS
      <3>2. /\ 0 \in 0 .. m - 1 /\ m - 1 \in 0 .. m - 1 /\ m \in 0 .. m
            /\ \A i \in 0 .. m - 1 : i \in 0 .. m /\ i # m
        OBVIOUS
      <3> HIDE DEF e, last
      <3> QED
        BY <3>1, <3>2, <2>2
    <2>6. ASSUME NEW i \in 1 .. m PROVE e[i] = F[e[i - 1]][s[i]]
      <3>1. CASE i = m
        BY <3>1, <2>5
      <3>2. CASE i # m
        <4>1. i \in 1 .. m - 1 /\ i - 1 \in 0 .. m - 1 /\ i \in 0 .. m - 1
          BY <3>2
        <4> HIDE DEF e
        <4> QED
          BY <4>1, <2>2, <2>5
      <3> QED
        BY <3>1, <3>2
    <2> HIDE DEF e
    <2>7. Along(e, A, F, a, m, s)
      BY <2>4, <2>5, <2>6 DEF Along
    <2>8. m \in 0 .. n
      OBVIOUS
    <2> QED
      BY <2>7, <2>8
  <1>3. n \in S
    <2>1. \A i \in 1 .. n : i - 1 \in S => i \in S
      BY <1>2
    <2>2. n \in 0 .. n
      OBVIOUS
    <2> HIDE DEF S
    <2> QED
      BY <1>1, <2>1, <2>2, CountingUp
  <1> QED
    BY <1>3

-----------------------------------------------------------------------------
(* Sums over a finite set, as the community modules compute them. *)

Pick(s) == CHOOSE x \in s : TRUE
Adds(g, f, S) ==
    g = [s \in SUBSET S |-> IF s = {} THEN 0 ELSE f[Pick(s)] + g[s \ {Pick(s)}]]
Total(f, S) == (CHOOSE g : Adds(g, f, S))[S]

\* A picked element is one, and leaves a smaller set.
LEMMA Picked ==
    ASSUME NEW S, IsFiniteSet(S), NEW s \in SUBSET S, s # {}
    PROVE  /\ Pick(s) \in s /\ s \ {Pick(s)} \in SUBSET S
           /\ Cardinality(s) \in Nat /\ Cardinality(s \ {Pick(s)}) = Cardinality(s) - 1
           /\ Cardinality(s) > 0
  <1>1. Pick(s) \in s
    BY DEF Pick
  <1>2. IsFiniteSet(s)
    BY FS_Subset
  <1>3. Cardinality(s \ {Pick(s)}) = Cardinality(s) - 1
    BY <1>1, <1>2, FS_RemoveElement
  <1>4. Cardinality(s) \in Nat /\ Cardinality(s) # 0
    BY <1>2, FS_CardinalityType, FS_EmptySet
  <1> QED
    BY <1>1, <1>3, <1>4

\* What holds of the empty set, and of a set if it holds without its picked
\* element, holds of every subset.
LEMMA OneByOne ==
    ASSUME NEW S, IsFiniteSet(S), NEW Q, {} \in Q,
           \A s \in SUBSET S : s # {} /\ s \ {Pick(s)} \in Q => s \in Q
    PROVE  SUBSET S \subseteq Q
  <1> DEFINE n == Cardinality(S)
             N == {i \in 0 .. n : \A s \in SUBSET S : Cardinality(s) = i => s \in Q}
  <1>1. n \in Nat /\ \A s \in SUBSET S : IsFiniteSet(s) /\ Cardinality(s) \in 0 .. n
    <2>1. n \in Nat
      BY FS_CardinalityType
    <2>2. \A s \in SUBSET S : IsFiniteSet(s) /\ Cardinality(s) \in Nat /\ Cardinality(s) <= n
      BY FS_Subset, FS_CardinalityType
    <2> QED
      BY <2>1, <2>2
  <1>2. 0 \in N
    <2>1. \A s \in SUBSET S : Cardinality(s) = 0 => s = {}
      BY <1>1, FS_EmptySet
    <2>2. \A s \in SUBSET S : Cardinality(s) = 0 => s \in Q
      BY <2>1
    <2>3. 0 \in 0 .. n
      BY <1>1
    <2> HIDE DEF n
    <2> QED
      BY <2>2, <2>3
  <1>3. ASSUME NEW i \in 1 .. n, i - 1 \in N PROVE i \in N
    <2>1. ASSUME NEW s \in SUBSET S, Cardinality(s) = i PROVE s \in Q
      <3>1. s # {}
        BY <2>1, FS_EmptySet
      <3>2. s \ {Pick(s)} \in SUBSET S /\ Cardinality(s \ {Pick(s)}) = i - 1
        BY <2>1, <3>1, Picked
      <3>3. s \ {Pick(s)} \in Q
        BY <1>3, <3>2
      <3> QED
        BY <3>1, <3>3
    <2> QED
      BY <2>1
  <1>4. \A i \in 0 .. n : i \in N
    <2> HIDE DEF N, n
    <2> QED
      BY <1>1, <1>2, <1>3, CountingUp
  <1> QED
    BY <1>1, <1>4

\* The sums of all subsets exist.
LEMMA AddsExists ==
    ASSUME NEW S, IsFiniteSet(S), NEW f \in [S -> Int]
    PROVE  \E g : Adds(g, f, S)
  <1> DEFINE n == Cardinality(S)
             Dom(i) == {s \in SUBSET S : Cardinality(s) <= i}
             Sub(g, i) == /\ g \in [Dom(i) -> Int] /\ g[{}] = 0
                          /\ \A s \in Dom(i) : s # {} => g[s] = f[Pick(s)] + g[s \ {Pick(s)}]
             N == {i \in 0 .. n : \E g : Sub(g, i)}
  <1>1. n \in Nat /\ Cardinality({}) = 0 /\ \A s \in SUBSET S : Cardinality(s) \in 0 .. n
    <2>1. n \in Nat
      BY FS_CardinalityType
    <2>2. \A s \in SUBSET S : Cardinality(s) \in Nat /\ Cardinality(s) <= n
      BY FS_Subset, FS_CardinalityType
    <2> QED
      BY <2>1, <2>2, FS_EmptySet
  <1>2. \A s \in SUBSET S : Cardinality(s) = 0 => s = {}
    BY FS_Subset, FS_EmptySet
  <1>3. 0 \in N
    <2> DEFINE g == [s \in Dom(0) |-> 0]
    <2>1. \A s \in Dom(0) : s = {}
      BY <1>1, <1>2
    <2>2. {} \in Dom(0)
      BY <1>1
    <2>3. Sub(g, 0)
      <3> HIDE DEF Dom
      <3> QED
        BY <2>1, <2>2
    <2> HIDE DEF Sub
    <2> QED
      BY <1>1, <2>3
  <1>4. ASSUME NEW i \in 1 .. n, i - 1 \in N PROVE i \in N
    <2>1. PICK g : Sub(g, i - 1)
      BY <1>4
    <2> DEFINE h == [s \in Dom(i) |-> IF Cardinality(s) <= i - 1 THEN g[s]
                                      ELSE f[Pick(s)] + g[s \ {Pick(s)}]]
    <2>2. {} \in Dom(i) /\ {} \in Dom(i - 1) /\ \A s \in Dom(i - 1) : s \in Dom(i)
      BY <1>1
    <2>3. ASSUME NEW s \in Dom(i), s # {}
          PROVE  /\ s \ {Pick(s)} \in Dom(i - 1) /\ Pick(s) \in S
                 /\ Cardinality(s \ {Pick(s)}) <= i - 1
      BY <1>1, <2>3, Picked
    <2>4. \A s \in Dom(i) : Cardinality(s) <= i - 1 => s \in Dom(i - 1)
      OBVIOUS
    <2>5. g \in [Dom(i - 1) -> Int] /\ g[{}] = 0
          /\ \A s \in Dom(i - 1) : s # {} => g[s] = f[Pick(s)] + g[s \ {Pick(s)}]
      BY <2>1
    <2> HIDE DEF Dom
    <2>6. \A s \in Dom(i) : ~(Cardinality(s) <= i - 1) => s # {}
      BY <1>1
    <2>7. h \in [Dom(i) -> Int]
      <3>1. ASSUME NEW s \in Dom(i)
            PROVE  (IF Cardinality(s) <= i - 1 THEN g[s] ELSE f[Pick(s)] + g[s \ {Pick(s)}]) \in Int
        <4>1. CASE Cardinality(s) <= i - 1
          BY <2>4, <2>5, <4>1
        <4>2. CASE ~(Cardinality(s) <= i - 1)
          <5>1. s \ {Pick(s)} \in Dom(i - 1) /\ Pick(s) \in S
            BY <2>3, <2>6, <4>2
          <5>2. f[Pick(s)] \in Int /\ g[s \ {Pick(s)}] \in Int
            BY <2>5, <5>1
          <5> QED
            BY <4>2, <5>2
        <4> QED
          BY <4>1, <4>2
      <3> QED
        BY <3>1
    <2>8. \A s \in Dom(i - 1) : Cardinality(s) <= i - 1
      BY DEF Dom
    <2>9. \A s \in Dom(i - 1) : h[s] = g[s]
      BY <2>2, <2>8
    <2>10. h[{}] = 0
      BY <2>2, <2>5, <2>9
    <2>11. ASSUME NEW s \in Dom(i), s # {} PROVE h[s] = f[Pick(s)] + h[s \ {Pick(s)}]
      <3>1. s \ {Pick(s)} \in Dom(i - 1)
        BY <2>3, <2>11
      <3>2. h[s \ {Pick(s)}] = g[s \ {Pick(s)}]
        BY <2>9, <3>1
      <3>3. CASE Cardinality(s) <= i - 1
        <4>1. s \in Dom(i - 1) /\ h[s] = g[s]
          BY <2>4, <2>9, <3>3
        <4> HIDE DEF h
        <4> QED
          BY <2>5, <2>11, <3>2, <4>1
      <3>4. CASE ~(Cardinality(s) <= i - 1)
        <4>1. h[s] = f[Pick(s)] + g[s \ {Pick(s)}]
          BY <3>4
        <4> HIDE DEF h
        <4> QED
          BY <3>2, <4>1
      <3> QED
        BY <3>3, <3>4
    <2> HIDE DEF h
    <2>12. Sub(h, i)
      BY <2>7, <2>10, <2>11
    <2> HIDE DEF Sub
    <2> QED
      BY <2>12
  <1>5. \A i \in 0 .. n : i \in N
    <2> HIDE DEF N, n
    <2> QED
      BY <1>1, <1>3, <1>4, CountingUp
  <1>6. PICK g : Sub(g, n)
    <2>1. n \in N
      <3> HIDE DEF N, n
      <3> QED
        BY <1>1, <1>5
    <2> QED
      BY <2>1
  <1>7. Dom(n) = SUBSET S
    BY <1>1
  <1>8. /\ g \in [SUBSET S -> Int] /\ g[{}] = 0
        /\ \A s \in SUBSET S : s # {} => g[s] = f[Pick(s)] + g[s \ {Pick(s)}]
    <2> HIDE DEF Dom, n
    <2> QED
      BY <1>6, <1>7
  <1>9. g = [s \in SUBSET S |-> IF s = {} THEN 0 ELSE f[Pick(s)] + g[s \ {Pick(s)}]]
    BY <1>8
  <1> QED
    BY <1>9 DEF Adds

\* The sums of the subsets, along which a total is computed.
Sums(g, f, S) ==
    /\ Total(f, S) = g[S] /\ g \in [SUBSET S -> Int] /\ g[{}] = 0
    /\ \A s \in SUBSET S : s # {} => g[s] = f[Pick(s)] + g[s \ {Pick(s)}]

\* They are integers.
LEMMA TotalAdds ==
    ASSUME NEW S, IsFiniteSet(S), NEW f \in [S -> Int]
    PROVE  \E g : Sums(g, f, S)
  <1> DEFINE g == CHOOSE g : Adds(g, f, S)
  <1>1. Adds(g, f, S) /\ Total(f, S) = g[S]
    BY AddsExists DEF Total
  <1> HIDE DEF g
  <1>2. /\ DOMAIN g = SUBSET S /\ g[{}] = 0
        /\ \A s \in SUBSET S : s # {} => g[s] = f[Pick(s)] + g[s \ {Pick(s)}]
    BY <1>1 DEF Adds
  <1>3. \A s \in SUBSET S : g[s] \in Int
    <2> DEFINE Q == {s \in SUBSET S : g[s] \in Int}
    <2>1. {} \in Q
      BY <1>2
    <2>2. ASSUME NEW s \in SUBSET S, s # {}, s \ {Pick(s)} \in Q PROVE s \in Q
      <3>1. f[Pick(s)] \in Int
        BY <2>2, Picked
      <3> QED
        BY <1>2, <2>2, <3>1
    <2> HIDE DEF Q
    <2>3. SUBSET S \subseteq Q
      BY <2>1, <2>2, OneByOne
    <2> QED
      BY <2>3 DEF Q
  <1>4. g = [s \in SUBSET S |-> g[s]]
    BY <1>1 DEF Adds
  <1> QED
    BY <1>1, <1>2, <1>3, <1>4 DEF Sums

\* The total of natural numbers is one.
LEMMA TotalNat ==
    ASSUME NEW S, IsFiniteSet(S), NEW f \in [S -> Nat]
    PROVE  Total(f, S) \in Nat
  <1>1. f \in [S -> Int]
    OBVIOUS
  <1>2. PICK g : Sums(g, f, S)
    BY <1>1, TotalAdds
  <1> DEFINE Q == {s \in SUBSET S : g[s] \in Nat}
  <1>3. {} \in Q
    BY <1>2 DEF Sums
  <1>4. ASSUME NEW s \in SUBSET S, s # {}, s \ {Pick(s)} \in Q PROVE s \in Q
    <2>1. Pick(s) \in S
      BY <1>4, Picked
    <2>2. f[Pick(s)] \in Nat
      BY <2>1
    <2> QED
      BY <1>2, <1>4, <2>2 DEF Sums
  <1> HIDE DEF Q
  <1>5. SUBSET S \subseteq Q
    BY <1>3, <1>4, OneByOne
  <1> QED
    BY <1>2, <1>5 DEF Q, Sums

\* The total of element-wise sums is the sum of the totals.
LEMMA TotalOfSums ==
    ASSUME NEW S, IsFiniteSet(S), NEW e \in [S -> Int], NEW f \in [S -> Int], NEW h \in [S -> Int],
           \A x \in S : h[x] = e[x] + f[x]
    PROVE  Total(h, S) = Total(e, S) + Total(f, S)
  <1>1. PICK a : Sums(a, e, S)
    BY TotalAdds
  <1>2. PICK b : Sums(b, f, S)
    BY TotalAdds
  <1>3. PICK c : Sums(c, h, S)
    BY TotalAdds
  <1> DEFINE Q == {s \in SUBSET S : c[s] = a[s] + b[s]}
  <1>4. {} \in Q
    BY <1>1, <1>2, <1>3 DEF Sums
  <1>5. ASSUME NEW s \in SUBSET S, s # {}, s \ {Pick(s)} \in Q PROVE s \in Q
    <2> DEFINE p == Pick(s)
               r == s \ {p}
    <2>1. p \in S /\ r \in SUBSET S
      BY <1>5, Picked
    <2>2. /\ a[s] = e[p] + a[r] /\ b[s] = f[p] + b[r] /\ c[s] = h[p] + c[r] /\ h[p] = e[p] + f[p]
      BY <1>1, <1>2, <1>3, <1>5, <2>1 DEF Sums
    <2>3. a[r] \in Int /\ b[r] \in Int /\ e[p] \in Int /\ f[p] \in Int /\ c[r] = a[r] + b[r]
      BY <1>1, <1>2, <1>5, <2>1 DEF Sums
    <2> HIDE DEF p, r
    <2>4. c[s] = a[s] + b[s]
      BY <2>2, <2>3
    <2> QED
      BY <2>4
  <1> HIDE DEF Q
  <1>6. SUBSET S \subseteq Q
    BY <1>4, <1>5, OneByOne
  <1> QED
    BY <1>1, <1>2, <1>3, <1>6 DEF Q, Sums

\* A total of which one summand changes.
LEMMA TotalChanged ==
    ASSUME NEW S, IsFiniteSet(S), NEW f \in [S -> Int], NEW h \in [S -> Int], NEW x \in S,
           \A y \in S : y # x => h[y] = f[y]
    PROVE  Total(h, S) = Total(f, S) - f[x] + h[x]
  <1>1. PICK b : Sums(b, f, S)
    BY TotalAdds
  <1>2. PICK c : Sums(c, h, S)
    BY TotalAdds
  <1> DEFINE Q == {s \in SUBSET S : c[s] = b[s] + (IF x \in s THEN h[x] - f[x] ELSE 0)}
  <1>3. {} \in Q
    BY <1>1, <1>2 DEF Sums
  <1>4. ASSUME NEW s \in SUBSET S, s # {}, s \ {Pick(s)} \in Q PROVE s \in Q
    <2> DEFINE p == Pick(s)
               r == s \ {p}
    <2>1. p \in S /\ p \in s /\ r \in SUBSET S
      BY <1>4, Picked
    <2>2. b[s] = f[p] + b[r] /\ c[s] = h[p] + c[r]
      BY <1>1, <1>2, <1>4, <2>1 DEF Sums
    <2>3. /\ b[r] \in Int /\ c[r] \in Int /\ f[p] \in Int /\ h[p] \in Int /\ f[x] \in Int
          /\ h[x] \in Int /\ c[r] = b[r] + (IF x \in r THEN h[x] - f[x] ELSE 0)
      BY <1>1, <1>2, <1>4, <2>1 DEF Sums
    <2>4. CASE p = x
      <3>1. x \notin r /\ x \in s
        BY <2>1, <2>4
      <3> HIDE DEF p, r
      <3> QED
        BY <2>2, <2>3, <2>4, <3>1
    <2>5. CASE p # x
      <3>1. (x \in r <=> x \in s) /\ h[p] = f[p]
        BY <2>1, <2>5
      <3> HIDE DEF p, r
      <3> QED
        BY <2>2, <2>3, <3>1
    <2> QED
      BY <2>4, <2>5
  <1> HIDE DEF Q
  <1>5. SUBSET S \subseteq Q
    BY <1>3, <1>4, OneByOne
  <1>6. f[x] \in Int /\ h[x] \in Int /\ b[S] \in Int /\ S \in SUBSET S
    BY <1>1 DEF Sums
  <1> QED
    BY <1>1, <1>2, <1>5, <1>6 DEF Q, Sums

\* A total of nothing.
LEMMA TotalZero ==
    ASSUME NEW S, IsFiniteSet(S), NEW f \in [S -> Int], \A x \in S : f[x] = 0
    PROVE  Total(f, S) = 0
  <1>1. Total(f, S) = Total(f, S) + Total(f, S)
    BY TotalOfSums
  <1>2. Total(f, S) \in Nat
    <2>1. f \in [S -> Nat]
      OBVIOUS
    <2> QED
      BY <2>1, TotalNat
  <1> DEFINE x == Total(f, S)
  <1> HIDE DEF x
  <1>3. x = x + x /\ x \in Nat => x = 0
    OBVIOUS
  <1> QED
    BY <1>1, <1>2, <1>3 DEF x

\* Whichever element is taken out first, the sum is the same.
Apart(g, f, S) == \A s \in SUBSET S : \A x \in s : g[s] = f[x] + g[s \ {x}]

\* This is so of all sums.
LEMMA SumsApart ==
    ASSUME NEW S, IsFiniteSet(S), NEW f \in [S -> Int], NEW g, Sums(g, f, S)
    PROVE  Apart(g, f, S)
  <1> DEFINE n == Cardinality(S)
             Q == {k \in 0 .. n : \A s \in SUBSET S : Cardinality(s) = k =>
                                     \A x \in s : g[s] = f[x] + g[s \ {x}]}
  <1>1. n \in Nat
    BY FS_CardinalityType
  <1>2. \A s \in SUBSET S : IsFiniteSet(s) /\ Cardinality(s) \in 0 .. n
    <2> SUFFICES ASSUME NEW s \in SUBSET S PROVE IsFiniteSet(s) /\ Cardinality(s) \in 0 .. n
      OBVIOUS
    <2>1. IsFiniteSet(s) /\ Cardinality(s) <= n
      BY FS_Subset
    <2>2. Cardinality(s) \in Nat
      BY <2>1, FS_CardinalityType
    <2> QED
      BY <1>1, <2>1, <2>2
  <1>3. 0 \in Q
    <2>1. \A s \in SUBSET S : Cardinality(s) = 0 => s = {}
      BY <1>2, FS_EmptySet
    <2> QED
      BY <1>1, <2>1
  <1>4. ASSUME NEW k \in 1 .. n, k - 1 \in Q PROVE k \in Q
    <2> SUFFICES ASSUME NEW s \in SUBSET S, Cardinality(s) = k, NEW x \in s
                 PROVE  g[s] = f[x] + g[s \ {x}]
      OBVIOUS
    <2> DEFINE p == Pick(s)
               a == s \ {p}
               b == s \ {x}
               c == s \ {p, x}
    <2>1. p \in s /\ p \in S /\ g[s] = f[p] + g[a]
      <3>1. s # {}
        OBVIOUS
      <3> QED
        BY <3>1, Picked DEF Sums
    <2>2. CASE p = x
      BY <2>1, <2>2
    <2>3. CASE p # x
      <3>1. a \in SUBSET S /\ b \in SUBSET S /\ c \in SUBSET S /\ x \in a /\ p \in b
            /\ a \ {x} = c /\ b \ {p} = c
        BY <2>1, <2>3
      <3>2. Cardinality(a) = k - 1 /\ Cardinality(b) = k - 1
        BY <1>2, <2>1, FS_RemoveElement
      <3> HIDE DEF a, b, c, p
      <3>3. g[a] = f[x] + g[c] /\ g[b] = f[p] + g[c]
        BY <1>4, <3>1, <3>2
      <3>4. f[x] \in Int /\ f[p] \in Int /\ g[c] \in Int
        BY <2>1, <3>1 DEF Sums
      <3>5. g[s] = f[x] + g[b]
        BY <2>1, <3>3, <3>4
      <3> QED
        BY <3>5 DEF b
    <2> QED
      BY <2>2, <2>3
  <1>5. \A k \in 0 .. n : k \in Q
    <2> HIDE DEF Q, n
    <2> QED
      BY <1>1, <1>3, <1>4, CountingUp
  <1> QED
    BY <1>2, <1>5 DEF Apart

\* A summand more.
LEMMA TotalInsert ==
    ASSUME NEW S, IsFiniteSet(S), NEW x, x \notin S, NEW h \in [S -> Int],
           NEW f \in [S \cup {x} -> Int], \A y \in S : f[y] = h[y]
    PROVE  Total(f, S \cup {x}) = Total(h, S) + f[x]
  <1> DEFINE U == S \cup {x}
  <1>1. IsFiniteSet(U)
    BY FS_AddElement
  <1>2. PICK b : Sums(b, f, U)
    BY <1>1, TotalAdds
  <1>3. PICK c : Sums(c, h, S)
    BY TotalAdds
  <1>4. U \ {x} = S /\ x \in U /\ U \in SUBSET U /\ SUBSET S \subseteq SUBSET U
    OBVIOUS
  <1>5. b[U] = f[x] + b[S]
    <2> HIDE DEF U
    <2>1. f \in [U -> Int]
      BY DEF U
    <2>2. Apart(b, f, U)
      BY <1>1, <1>2, <2>1, SumsApart
    <2> QED
      BY <1>4, <2>2 DEF Apart
  <1> DEFINE Q == {s \in SUBSET S : b[s] = c[s]}
  <1>6. {} \in Q
    BY <1>2, <1>3 DEF Sums
  <1>7. ASSUME NEW s \in SUBSET S, s # {}, s \ {Pick(s)} \in Q PROVE s \in Q
    <2>1. Pick(s) \in S /\ s \in SUBSET U
      BY <1>7, Picked
    <2> QED
      BY <1>2, <1>3, <1>7, <2>1 DEF Sums
  <1> HIDE DEF Q
  <1>8. SUBSET S \subseteq Q
    BY <1>6, <1>7, OneByOne
  <1>9. b[S] = c[S] /\ c[S] \in Int /\ f[x] \in Int
    BY <1>3, <1>8 DEF Q, Sums
  <1>10. Total(f, U) = b[U] /\ Total(h, S) = c[S]
    BY <1>2, <1>3 DEF Sums
  <1> QED
    BY <1>5, <1>9, <1>10

-----------------------------------------------------------------------------
(* Sequences of anything. *)

\* A sequence, without a set of which its elements are.
IsList(s) == Len(s) \in Nat /\ s = [i \in 1 .. Len(s) |-> s[i]]

\* It is one of its own elements, and perhaps others.
LEMMA ListIsSeq ==
    ASSUME NEW s, IsList(s), NEW X, \A i \in 1 .. Len(s) : s[i] \in X
    PROVE  s \in Seq(X)
  BY DEF IsList

\* Sequences are lists.
LEMMA SeqIsList ==
    ASSUME NEW X, NEW s \in Seq(X)
    PROVE  IsList(s) /\ DOMAIN s = 1 .. Len(s)
  BY DEF IsList

\* What is defined at the first n numbers is a list.
LEMMA ListOf ==
    ASSUME NEW n \in Nat, NEW s, DOMAIN s = 1 .. n, s = [i \in 1 .. n |-> s[i]]
    PROVE  IsList(s) /\ Len(s) = n
  <1> DEFINE X == {s[i] : i \in 1 .. n}
  <1>1. s \in [1 .. n -> X]
    OBVIOUS
  <1> HIDE DEF X
  <1>2. s \in Seq(X) /\ Len(s) = n
    BY <1>1
  <1> QED
    BY <1>2, SeqIsList

\* An element more.
LEMMA ListAppend ==
    ASSUME NEW s, IsList(s), NEW x
    PROVE  LET t == Append(s, x)
           IN  /\ IsList(t) /\ Len(t) = Len(s) + 1 /\ t[Len(s) + 1] = x
               /\ \A i \in 1 .. Len(s) : t[i] = s[i]
  <1> DEFINE X == {s[i] : i \in 1 .. Len(s)} \cup {x}
             t == Append(s, x)
  <1>1. \A i \in 1 .. Len(s) : s[i] \in X
    OBVIOUS
  <1>2. x \in X
    OBVIOUS
  <1> HIDE DEF X
  <1>3. s \in Seq(X)
    BY <1>1, ListIsSeq
  <1>4. /\ t \in Seq(X) /\ Len(t) = Len(s) + 1 /\ t[Len(s) + 1] = x
        /\ \A i \in 1 .. Len(s) : t[i] = s[i]
    BY <1>2, <1>3
  <1> HIDE DEF t
  <1>5. IsList(t)
    BY <1>4, SeqIsList
  <1> QED
    BY <1>4, <1>5 DEF t

\* One list after another.
LEMMA ListConcat ==
    ASSUME NEW s, IsList(s), NEW t, IsList(t)
    PROVE  IsList(s \o t)
  <1> DEFINE X == {s[i] : i \in 1 .. Len(s)} \cup {t[i] : i \in 1 .. Len(t)}
  <1>1. (\A i \in 1 .. Len(s) : s[i] \in X) /\ (\A i \in 1 .. Len(t) : t[i] \in X)
    OBVIOUS
  <1> HIDE DEF X
  <1>2. s \in Seq(X) /\ t \in Seq(X)
    BY <1>1, ListIsSeq
  <1>3. s \o t \in Seq(X)
    BY <1>2
  <1> QED
    BY <1>3, SeqIsList

-----------------------------------------------------------------------------
(* Elements taken out of a list. *)

\* The elements of s at the positions in keep, in their order.
Chosen(s, keep) ==
    LET upTo[n \in 0 .. Len(s)] ==
            IF n = 0 THEN <<>>
            ELSE IF n \in keep THEN Append(upTo[n - 1], s[n]) ELSE upTo[n - 1]
    IN  upTo[Len(s)]

\* How many of the first n positions are in keep.
Upto(keep, n) == Cardinality(keep \cap (1 .. n))

\* They are taken one by one.
TakenOut(f, X, s, keep) ==
    /\ f \in [0 .. Len(s) -> Seq(X)]
    /\ f[0] = <<>> /\ Chosen(s, keep) = f[Len(s)]
    /\ \A i \in 1 .. Len(s) : f[i] = IF i \in keep THEN Append(f[i - 1], s[i]) ELSE f[i - 1]

\* Such a way to take them exists.
LEMMA ChosenSteps ==
    ASSUME NEW X, NEW s \in Seq(X), NEW keep
    PROVE  \E f : TakenOut(f, X, s, keep)
  <1> DEFINE n == Len(s)
             A == Seq(X)
             Keep(x, i) == IF i \in keep THEN Append(x, s[i]) ELSE x
             F == [x \in A |-> [i \in 1 .. n |-> Keep(x, i)]]
             id == [i \in 1 .. n |-> i]
             Body(g) == [i \in 0 .. Len(s) |-> IF i = 0 THEN <<>> ELSE Keep(g[i - 1], i)]
             f == CHOOSE g : g = Body(g)
  <1>0. \A x \in A, i \in 1 .. n : Keep(x, i) \in A
    OBVIOUS
  <1>1. F \in [A -> [1 .. n -> A]]
    <2> HIDE DEF A, Keep
    <2> QED
      BY <1>0
  <1>2. n \in Nat /\ id \in [1 .. n -> 1 .. n] /\ <<>> \in A /\ \A i \in 1 .. n : id[i] = i
    OBVIOUS
  <1>3. PICK d : d \in [0 .. n -> A] /\ d[0] = <<>>
                 /\ \A i \in 1 .. n : d[i] = F[d[i - 1]][id[i]]
    <2> HIDE DEF A, F, n, id
    <2>1. \E d : Along(d, A, F, <<>>, n, id)
      BY <1>1, <1>2, TakenAlong
    <2> QED
      BY <2>1 DEF Along
  <1>4. \A i \in 1 .. n : d[i] = Keep(d[i - 1], i)
    <2> HIDE DEF A, n, Keep, id
    <2>1. \A i \in 1 .. n : d[i - 1] \in A /\ id[i] = i
      BY <1>2, <1>3
    <2>2. \A i \in 1 .. n : F[d[i - 1]][i] = Keep(d[i - 1], i)
      BY <2>1
    <2> HIDE DEF F
    <2> QED
      BY <1>3, <2>1, <2>2
  <1>5. d = Body(d)
    <2> HIDE DEF Keep
    <2>1. \A i \in 0 .. n : d[i] = Body(d)[i]
      BY <1>3, <1>4
    <2> QED
      BY <2>1, <1>3
  <1>6. f = Body(f)
    <2> HIDE DEF Keep
    <2> QED
      BY <1>5
  <1>7. Chosen(s, keep) = f[n]
    BY DEF Chosen
  <1> HIDE DEF f
  <1>8. f[0] = <<>> /\ \A i \in 1 .. n : f[i] = Keep(f[i - 1], i)
    <2> HIDE DEF Keep
    <2> QED
      BY <1>2, <1>6
  <1> DEFINE G == {i \in 0 .. n : f[i] \in A}
  <1>9. ASSUME NEW i \in 1 .. n, i - 1 \in G PROVE i \in G
    <2> HIDE DEF A, Keep
    <2> QED
      BY <1>0, <1>8, <1>9
  <1>10. 0 \in G
    <2> HIDE DEF A
    <2> QED
      BY <1>2, <1>8
  <1>11. \A i \in 0 .. n : i \in G
    <2> HIDE DEF G, n
    <2> QED
      BY <1>2, <1>9, <1>10, CountingUp
  <1>12. f \in [0 .. n -> A]
    <2>1. DOMAIN f = 0 .. n /\ f = [i \in 0 .. n |-> f[i]]
      <3> HIDE DEF Keep
      <3> QED
        BY <1>6
    <2> HIDE DEF A
    <2> QED
      BY <2>1, <1>11
  <1>13. TakenOut(f, X, s, keep)
    BY <1>7, <1>8, <1>12 DEF TakenOut
  <1> QED
    BY <1>13

\* Counting one position more.
LEMMA UptoSteps ==
    ASSUME NEW keep, NEW n \in Nat
    PROVE  /\ Upto(keep, 0) = 0 /\ Upto(keep, n) \in Nat /\ Upto(keep, n) <= n
           /\ Upto(keep, n + 1) = IF n + 1 \in keep THEN Upto(keep, n) + 1 ELSE Upto(keep, n)
  <1>1. keep \cap (1 .. 0) = {}
    OBVIOUS
  <1>2. IsFiniteSet(1 .. n) /\ Cardinality(1 .. n) = n
    BY FS_Interval
  <1> DEFINE K == keep \cap (1 .. n)
  <1>3. IsFiniteSet(K) /\ Cardinality(K) \in Nat /\ Cardinality(K) <= n
    <2>1. K \subseteq 1 .. n
      OBVIOUS
    <2> HIDE DEF K
    <2> QED
      BY <1>2, <2>1, FS_Subset, FS_CardinalityType
  <1>4. keep \cap (1 .. n + 1) = IF n + 1 \in keep THEN K \cup {n + 1} ELSE K
    OBVIOUS
  <1>5. n + 1 \notin K
    OBVIOUS
  <1>6. Cardinality(K \cup {n + 1}) = Cardinality(K) + 1
    <2> HIDE DEF K
    <2> QED
      BY <1>3, <1>5, FS_AddElement
  <1>7. Cardinality({}) = 0
    BY FS_EmptySet
  <1> QED
    BY <1>1, <1>3, <1>4, <1>6, <1>7 DEF Upto

\* Each position that is kept has its element at its count, and every place of
\* what is taken is such a count.
Placement(s, keep, c, n) ==
    /\ Len(c) = Upto(keep, n)
    /\ \A i \in 1 .. n : i \in keep => Upto(keep, i) \in 1 .. Len(c) /\ c[Upto(keep, i)] = s[i]
    /\ \A p \in 1 .. Len(c) : \E i \in 1 .. n : i \in keep /\ Upto(keep, i) = p

\* What is taken out of a list, and where it is.
LEMMA ChosenPlaces ==
    ASSUME NEW X, NEW s \in Seq(X), NEW keep
    PROVE  Chosen(s, keep) \in Seq(X) /\ Placement(s, keep, Chosen(s, keep), Len(s))
  <1>0. PICK f : TakenOut(f, X, s, keep)
    BY ChosenSteps
  <1>1. /\ f \in [0 .. Len(s) -> Seq(X)]
        /\ f[0] = <<>> /\ Chosen(s, keep) = f[Len(s)]
        /\ \A i \in 1 .. Len(s) : f[i] = IF i \in keep THEN Append(f[i - 1], s[i]) ELSE f[i - 1]
    BY <1>0 DEF TakenOut
  <1> DEFINE n == Len(s)
             Good == {i \in 0 .. n : Placement(s, keep, f[i], i)}
  <1>2. n \in Nat
    OBVIOUS
  <1>3. 0 \in Good
    <2>1. f[0] = <<>> /\ Len(f[0]) = 0 /\ Upto(keep, 0) = 0 /\ 0 \in 0 .. n
      <3>1. 0 \in Nat
        OBVIOUS
      <3>2. Upto(keep, 0) = 0
        BY <3>1, UptoSteps
      <3> QED
        BY <1>1, <3>2
    <2>2. \A i \in 1 .. 0 : FALSE
      OBVIOUS
    <2>3. Placement(s, keep, f[0], 0)
      BY <2>1, <2>2 DEF Placement
    <2> QED
      BY <2>1, <2>3
  <1>4. ASSUME NEW i \in 1 .. n, i - 1 \in Good PROVE i \in Good
    <2> DEFINE j == i - 1
               a == f[i - 1]
               b == f[i]
    <2>1. j \in Nat /\ j + 1 = i /\ i \in 0 .. n /\ j \in 0 .. n /\ a \in Seq(X) /\ b \in Seq(X)
      BY <1>1
    <2>2. /\ Upto(keep, j) \in Nat
          /\ Upto(keep, i) = IF i \in keep THEN Upto(keep, j) + 1 ELSE Upto(keep, j)
      BY <2>1, UptoSteps
    <2>3. Placement(s, keep, a, j)
      BY <1>4
    <2>4. CASE i \in keep
      <3>1. b = Append(a, s[i]) /\ s[i] \in X
        <4>1. b = IF i \in keep THEN Append(a, s[i]) ELSE a
          BY <1>1
        <4>2. s[i] \in X
          BY <1>2
        <4> QED
          BY <2>4, <4>1, <4>2
      <3>2. Len(b) = Len(a) + 1 /\ b[Len(a) + 1] = s[i] /\ \A k \in 1 .. Len(a) : b[k] = a[k]
        <4> HIDE DEF a, b
        <4> QED
          BY <2>1, <3>1
      <3> HIDE DEF a, b, j
      <3>3. Len(a) = Upto(keep, j) /\ Len(b) = Upto(keep, i) /\ Len(a) \in Nat
        BY <2>1, <2>2, <2>3, <2>4, <3>2 DEF Placement
      <3>4. ASSUME NEW k \in 1 .. i, k \in keep
            PROVE  Upto(keep, k) \in 1 .. Len(b) /\ b[Upto(keep, k)] = s[k]
        <4>1. CASE k = i
          BY <4>1, <2>2, <2>4, <3>2, <3>3
        <4>2. CASE k # i
          <5>1. k \in 1 .. j
            BY <4>2, <2>1
          <5>2. Upto(keep, k) \in 1 .. Len(a) /\ a[Upto(keep, k)] = s[k]
            BY <5>1, <2>3, <3>4 DEF Placement
          <5> QED
            BY <5>2, <3>2, <3>3
        <4> QED
          BY <4>1, <4>2
      <3>5. ASSUME NEW p \in 1 .. Len(b) PROVE \E k \in 1 .. i : k \in keep /\ Upto(keep, k) = p
        <4>1. CASE p = Len(b)
          BY <4>1, <2>4, <3>3
        <4>2. CASE p # Len(b)
          <5>1. p \in 1 .. Len(a)
            BY <4>2, <3>2, <3>3
          <5>2. PICK k \in 1 .. j : k \in keep /\ Upto(keep, k) = p
            BY <5>1, <2>3 DEF Placement
          <5> QED
            BY <5>2, <2>1
        <4> QED
          BY <4>1, <4>2
      <3>6. Placement(s, keep, b, i)
        BY <3>3, <3>4, <3>5 DEF Placement
      <3> QED
        BY <3>6, <2>1 DEF b
    <2>5. CASE i \notin keep
      <3>1. b = a
        BY <1>1, <2>5
      <3> HIDE DEF a, b, j
      <3>2. \A k \in 1 .. i : k \in keep => k \in 1 .. j
        BY <2>1, <2>5
      <3>3. 1 .. j \subseteq 1 .. i
        BY <2>1
      <3>4. Placement(s, keep, b, i)
        BY <2>2, <2>3, <2>5, <3>1, <3>2, <3>3 DEF Placement
      <3> QED
        BY <3>4, <2>1 DEF b
    <2> QED
      BY <2>4, <2>5
  <1>5. n \in Good
    <2>1. n \in 0 .. n
      OBVIOUS
    <2> HIDE DEF Good, n
    <2> QED
      BY <1>2, <1>3, <1>4, <2>1, CountingUp
  <1> QED
    BY <1>1, <1>2, <1>5

-----------------------------------------------------------------------------
(* Two more facts about lists and two about finite sets. *)

\* Lists of one and two parts at the end of a list are its elements.
LEMMA ConcatAppends ==
    ASSUME NEW p, IsList(p), NEW x, NEW y
    PROVE  p \o <<x>> = Append(p, x) /\ p \o <<x, y>> = Append(Append(p, x), y)
  <1> DEFINE X == {p[i] : i \in 1 .. Len(p)} \cup {x, y}
  <1>1. (\A i \in 1 .. Len(p) : p[i] \in X) /\ x \in X /\ y \in X
    OBVIOUS
  <1> HIDE DEF X
  <1>2. p \in Seq(X)
    BY <1>1, ListIsSeq
  <1>3. p \o <<x>> = Append(p, x)
    BY <1>1, <1>2
  <1>4. p \o <<x, y>> = Append(Append(p, x), y)
    BY <1>1, <1>2
  <1> QED
    BY <1>3, <1>4

\* A list that replaces the start of another.
Over(g, s, m) ==
    /\ \A p \in 1 .. Len(g) : p \in 1 .. Len(m) /\ m[p] = g[p]
    /\ \A p \in 1 .. Len(s) : p > Len(g) => p \in 1 .. Len(m) /\ m[p] = s[p]
    /\ \A p \in 1 .. Len(m) : p \in 1 .. Len(g) \/ (p \in 1 .. Len(s) /\ p > Len(g))

\* What follows is the rest of it.
LEMMA OverStart ==
    ASSUME NEW X, NEW g \in Seq(X), NEW s \in Seq(X)
    PROVE  LET m == g \o SubSeq(s, Len(g) + 1, Len(s)) IN m \in Seq(X) /\ Over(g, s, m)
  <1> DEFINE a == Len(g)
             n == Len(s)
             v == SubSeq(s, a + 1, n)
             m == g \o v
  <1>1. a \in Nat /\ n \in Nat
    OBVIOUS
  <1>2. CASE a >= n
    <2>1. v = <<>>
      BY <1>2
    <2> HIDE DEF v
    <2>2. m \in Seq(X) /\ Len(m) = Len(g) /\ \A p \in 1 .. Len(g) : m[p] = g[p]
      BY <2>1
    <2> HIDE DEF m
    <2>3. Over(g, s, m) /\ m \in Seq(X)
      BY <2>2, <1>1, <1>2 DEF Over
    <2> QED
      BY <2>3 DEF m, v
  <1>3. CASE ~(a >= n)
    <2>1. v \in Seq(X) /\ Len(v) = n - a /\ \A k \in 1 .. n - a : v[k] = s[a + k]
      <3>1. a + 1 \in 1 .. n /\ n \in 1 .. n
        BY <1>1, <1>3
      <3> HIDE DEF a, n
      <3> QED
        BY <1>1, <1>3, <3>1 DEF n
    <2> HIDE DEF v
    <2>2. m \in Seq(X) /\ Len(m) = n
      BY <2>1, <1>1, <1>3
    <2>3. \A p \in 1 .. a : m[p] = g[p]
      BY <2>1, <1>1
    <2>4. ASSUME NEW p \in 1 .. n, p > a PROVE m[p] = s[p]
      <3>1. p - a \in 1 .. n - a /\ a + (p - a) = p
        BY <2>4, <1>1
      <3>2. m[p] = v[p - a]
        BY <2>1, <2>4, <3>1, <1>1
      <3> QED
        BY <3>1, <3>2, <2>1
    <2> HIDE DEF m
    <2>5. Over(g, s, m)
      BY <2>2, <2>3, <2>4, <1>1, <1>3 DEF Over
    <2> QED
      BY <2>2, <2>5 DEF m, v
  <1> QED
    BY <1>2, <1>3

\* Elements that appear in two turns.
LEMMA AppearTwice ==
    ASSUME NEW A, IsFiniteSet(A), NEW N, IsFiniteSet(N), NEW B \in SUBSET A
    PROVE  /\ Cardinality((A \cup N) \ B) = Cardinality(A \ B) + Cardinality(N \ A)
           /\ Cardinality(A \ B) \in Nat /\ Cardinality(N \ A) \in Nat /\ IsFiniteSet(A \cup N)
  <1> DEFINE S == A \ B
             T == N \ A
  <1>1. IsFiniteSet(S) /\ IsFiniteSet(T) /\ IsFiniteSet(A \cup N)
    BY FS_Difference, FS_Union, Zenon
  <1>2. (A \cup N) \ B = S \cup T /\ S \cap T = {}
    OBVIOUS
  <1> HIDE DEF S, T
  <1>3. Cardinality(S \cup T) = Cardinality(S) + Cardinality(T) - Cardinality(S \cap T)
    BY <1>1, FS_Union
  <1>4. Cardinality(S \cap T) = 0 /\ Cardinality(S) \in Nat /\ Cardinality(T) \in Nat
    BY <1>1, <1>2, FS_EmptySet, FS_CardinalityType, Zenon
  <1> QED
    BY <1>1, <1>2, <1>3, <1>4 DEF S, T

\* A function takes finitely many values on a finite set.
LEMMA ValuesFinite ==
    ASSUME NEW D, IsFiniteSet(D), NEW f, DOMAIN f = D, f = [x \in D |-> f[x]]
    PROVE  IsFiniteSet({f[x] : x \in D})
  <1> DEFINE T == {f[x] : x \in D}
  <1>1. f \in [D -> T] /\ \A t \in T : \E x \in D : f[x] = t
    OBVIOUS
  <1> HIDE DEF T
  <1>2. f \in Surjection(D, T)
    BY <1>1 DEF Surjection
  <1>3. IsFiniteSet(T)
    BY <1>2, FS_Surjection
  <1> QED
    BY <1>3 DEF T

=============================================================================
