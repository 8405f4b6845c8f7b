---------------------------- MODULE DataInduction ----------------------------
(***************************************************************************)
(* Induction over the natural numbers, and what it gives, in a form that   *)
(* names a set instead of a predicate: a concrete set of numbers is enough *)
(* to use it, no operator has to be instantiated.                          *)
(***************************************************************************)
EXTENDS Integers, FiniteSets, FiniteSetsExt, FiniteSetTheorems, TLAPS

\* A set of numbers from 1 to n that has, with a number, all below it is itself an
\* interval: it has as many elements as its last one says.
LEMMA InitialSegment ==
  ASSUME NEW n \in Nat, NEW A \in SUBSET (1..n), \A k \in A : 1..k \subseteq A
  PROVE  \E a \in 0..n : A = 1..a
<1> DEFINE a == Cardinality(A)
<1>1. IsFiniteSet(1..n) /\ Cardinality(1..n) = n
  BY FS_Interval
<1>2. IsFiniteSet(A) /\ a \in Nat /\ a <= n
  BY <1>1, FS_Subset, FS_CardinalityType
<1>3. IsFiniteSet(1..a) /\ Cardinality(1..a) = a
  BY <1>2, FS_Interval
<1>4. CASE A \subseteq 1..a
  <2>1. A = 1..a
    <3> DEFINE b == a
    <3>1. IsFiniteSet(1..b) /\ Cardinality(1..b) = Cardinality(A)
      BY <1>3
    <3>2. A \subseteq 1..b
      BY <1>4
    <3> HIDE DEF b
    <3>3. 1..b = A
      BY <3>1, <3>2, FS_Subset
    <3> QED BY <3>3 DEF b
  <2>2. a \in 0..n
    <3> HIDE DEF a
    <3> QED BY <1>2
  <2> QED BY <2>1, <2>2
<1>5. CASE ~(A \subseteq 1..a)
  <2>1. PICK k \in A : k \notin 1..a
    BY <1>5
  <2>2. k \in Nat /\ k > a /\ 1..k \subseteq A
    BY <1>2, <2>1
  <2>3. IsFiniteSet(1..k) /\ Cardinality(1..k) = k
    BY <2>2, FS_Interval
  <2>4. k <= a
    BY <1>2, <2>2, <2>3, FS_Subset
  <2> QED BY <1>2, <2>2, <2>4
<1> QED BY <1>4, <1>5

\* A set that holds 0 and the successor of each of its numbers holds all of them.
LEMMA Induction ==
  ASSUME NEW S, 0 \in S, \A n \in Nat : n \in S => n + 1 \in S
  PROVE  Nat \subseteq S
<1> SUFFICES ASSUME NEW m \in Nat, m \notin S PROVE FALSE
  OBVIOUS
<1> DEFINE A == {k \in 1..m : \A j \in 1..k : j \in S}
<1>1. \A k \in A : 1..k \subseteq A
  OBVIOUS
<1>2. PICK a \in 0..m : A = 1..a
  <2> HIDE DEF A
  <2>1. A \in SUBSET (1..m)
    BY DEF A
  <2> QED BY <1>1, <2>1, InitialSegment
<1>3. m # 0
  OBVIOUS
<1>4. m \notin A
  BY <1>3
<1>5. a < m
  <2> HIDE DEF A
  <2>1. m \notin 1..a
    BY <1>2, <1>4
  <2> QED BY <1>3, <2>1
<1>6. \A j \in 1..a : j \in S
  BY <1>2
<1>7. a + 1 \in S
  BY <1>6, <1>5
<1>8. a + 1 \in A
  BY <1>5, <1>6, <1>7
<1>9. a + 1 \notin 1..a
  OBVIOUS
<1> HIDE DEF A
<1> QED BY <1>2, <1>8, <1>9

\* A set of numbers that is not empty has a least one.
LEMMA Least ==
  ASSUME NEW S \in SUBSET Nat, S # {}
  PROVE  \E m \in S : \A k \in S : m <= k
<1> SUFFICES ASSUME \A m \in S : \E k \in S : k < m PROVE FALSE
  OBVIOUS
<1> DEFINE B == {n \in Nat : \A k \in S : k >= n}
<1>1. 0 \in B
  OBVIOUS
<1>2. \A n \in Nat : n \in B => n + 1 \in B
  OBVIOUS
<1>3. Nat \subseteq B
  <2> HIDE DEF B
  <2> QED BY <1>1, <1>2, Induction
<1>4. PICK s \in S : TRUE
  OBVIOUS
<1> QED BY <1>3, <1>4

\* A bounded set of numbers that is not empty has a greatest one.
LEMMA Greatest ==
  ASSUME NEW n \in Nat, NEW S \in SUBSET (0..n), S # {}
  PROVE  \E m \in S : \A k \in S : k <= m
<1> DEFINE B == {k \in Nat : \A s \in S : s <= k}
<1>1. B # {} /\ B \in SUBSET Nat
  <2>1. n \in B
    OBVIOUS
  <2> QED BY <2>1
<1>2. PICK m \in B : \A k \in B : m <= k
  <2> HIDE DEF B
  <2> QED BY <1>1, Least
<1>3. CASE m \in S
  BY <1>3
<1>4. CASE m \notin S
  <2>1. PICK s \in S : TRUE
    OBVIOUS
  <2>2. m >= 1
    BY <1>4, <2>1
  <2>3. m - 1 \in B
    BY <1>4, <2>2
  <2> QED BY <1>2, <2>2, <2>3
<1> QED BY <1>3, <1>4

-----------------------------------------------------------------------------
(* What FoldLeft computes.                                                  *)

\* The greatest number of a set, as the fold takes it.
LEMMA MaxIs ==
  ASSUME NEW n \in Nat, NEW s \in SUBSET (1..n), s # {}
  PROVE  /\ Max(s) \in s /\ \A k \in s : k <= Max(s)
         /\ s \ {Max(s)} \in SUBSET (1..(Max(s) - 1))
<1>1. s \in SUBSET (0..n)
  OBVIOUS
<1>2. PICK m \in s : \A k \in s : k <= m
  BY <1>1, Greatest
<1>3. \A k \in s : m >= k
  BY <1>1, <1>2
<1>4. Max(s) \in s /\ \A k \in s : Max(s) >= k
  BY <1>2, <1>3, Zenon DEF Max
<1> DEFINE top == Max(s)
<1> HIDE DEF top
<1>5. top \in s /\ \A k \in s : top >= k
  BY <1>4, Zenon DEF top
<1>6. top \in Nat /\ \A k \in s : k \in Nat /\ k >= 1
  BY <1>5
<1>7. s \ {top} \in SUBSET (1..(top - 1))
  BY <1>5, <1>6
<1>8. \A k \in s : k <= top
  BY <1>5, <1>6
<1> QED BY <1>5, <1>7, <1>8, Zenon DEF top

LEMMA MaxOfInterval == ASSUME NEW i \in Nat, i >= 1 PROVE Max(1..i) = i /\ (1..i) \ {i} = 1..(i - 1)
<1>1. 1..i # {} /\ 1..i \in SUBSET (1..i)
  OBVIOUS
<1>2. Max(1..i) \in 1..i /\ \A k \in 1..i : k <= Max(1..i)
  BY <1>1, MaxIs
<1> HIDE DEF Max
<1> QED BY <1>2

\* The iteration that FoldLeft is defined by: over the sets of positions of a sequence,
\* always taking the greatest position off.
Iterates(it, base, step, n) ==
  it = [s \in SUBSET (1..n) |->
          IF s = {} THEN base ELSE step[<<it[s \ {Max(s)}], Max(s)>>]]

\* It exists, and takes the positions one after the other.
LEMMA Iteration ==
  ASSUME NEW S, NEW base \in S, NEW n \in Nat, NEW step \in [S \X (1..n) -> S]
  PROVE  \E it \in [SUBSET (1..n) -> S] : Iterates(it, base, step, n)
<1> DEFINE Solves(it, m) ==
             \A s \in SUBSET (1..m) :
               it[s] = IF s = {} THEN base ELSE step[<<it[s \ {Max(s)}], Max(s)>>]
           Exists(m) == \E it \in [SUBSET (1..m) -> S] : Solves(it, m)
           B == {m \in Nat : m <= n => Exists(m)}
<1>1. 0 \in B
  <2> DEFINE it == [s \in SUBSET (1..0) |-> base]
  <2>1. SUBSET (1..0) = {{}}
    OBVIOUS
  <2>2. it \in [SUBSET (1..0) -> S] /\ Solves(it, 0)
    BY <2>1
  <2> QED BY <2>2
<1>2. ASSUME NEW m \in Nat, m \in B PROVE m + 1 \in B
  <2> HIDE DEF Exists
  <2> SUFFICES ASSUME m + 1 <= n PROVE Exists(m + 1)
    OBVIOUS
  <2>0. Exists(m)
    BY <1>2
  <2>1. PICK f \in [SUBSET (1..m) -> S] : Solves(f, m)
    BY <2>0 DEF Exists
  <2> DEFINE g == [s \in SUBSET (1..(m + 1)) |->
                     IF m + 1 \in s THEN step[<<f[s \ {m + 1}], m + 1>>] ELSE f[s]]
  <2>2. m + 1 \in 1..n
    OBVIOUS
  <2>3. ASSUME NEW s \in SUBSET (1..(m + 1))
        PROVE  /\ m + 1 \in s => s \ {m + 1} \in SUBSET (1..m) /\ Max(s) = m + 1
               /\ m + 1 \notin s => s \in SUBSET (1..m)
    <3>1. CASE m + 1 \in s
      <4>1. s # {} /\ m + 1 \in Nat
        BY <3>1
      <4>2. Max(s) \in s /\ m + 1 <= Max(s)
        BY <3>1, <4>1, MaxIs
      <4>3. Max(s) = m + 1
        <5> DEFINE top == Max(s)
        <5>1. top \in s /\ m + 1 <= top
          BY <4>2
        <5> HIDE DEF top
        <5>2. top = m + 1
          BY <5>1
        <5> QED BY <5>2 DEF top
      <4> QED BY <3>1, <4>3
    <3>2. CASE m + 1 \notin s
      BY <3>2
    <3> QED BY <3>1, <3>2
  <2>4. ASSUME NEW s \in SUBSET (1..(m + 1)) PROVE g[s] \in S
    <3>1. CASE m + 1 \in s
      <4>1. f[s \ {m + 1}] \in S
        BY <2>3, <3>1
      <4> QED BY <2>2, <3>1, <4>1
    <3>2. CASE m + 1 \notin s
      BY <2>3, <3>2
    <3> QED BY <3>1, <3>2
  <2>5. g \in [SUBSET (1..(m + 1)) -> S]
    BY <2>4
  <2>6. ASSUME NEW s \in SUBSET (1..(m + 1))
        PROVE  g[s] = IF s = {} THEN base ELSE step[<<g[s \ {Max(s)}], Max(s)>>]
    <3>1. CASE m + 1 \in s
      <4>1. s \ {m + 1} \in SUBSET (1..m) /\ Max(s) = m + 1 /\ s # {}
        BY <2>3, <3>1
      <4>2. s \ {m + 1} \in SUBSET (1..(m + 1)) /\ m + 1 \notin s \ {m + 1}
        BY <4>1
      <4>3. g[s \ {m + 1}] = f[s \ {m + 1}]
        BY <4>2
      <4>4. g[s] = step[<<f[s \ {m + 1}], m + 1>>]
        BY <3>1
      <4> HIDE DEF g
      <4> QED BY <4>1, <4>3, <4>4
    <3>2. CASE m + 1 \notin s
      <4>1. s \in SUBSET (1..m) /\ g[s] = f[s]
        BY <2>3, <3>2
      <4>2. f[s] = IF s = {} THEN base ELSE step[<<f[s \ {Max(s)}], Max(s)>>]
        BY <2>1, <4>1
      <4>3. s \ {Max(s)} \in SUBSET (1..(m + 1)) /\ m + 1 \notin s \ {Max(s)}
        BY <3>2, <4>1
      <4>4. g[s \ {Max(s)}] = f[s \ {Max(s)}]
        BY <4>3
      <4> HIDE DEF g
      <4> QED BY <4>1, <4>2, <4>4
    <3> QED BY <3>1, <3>2
  <2> HIDE DEF g
  <2> QED BY <2>5, <2>6 DEF Exists
<1>3. Exists(n)
  <2>1. n \in B
    <3> HIDE DEF B
    <3> QED BY <1>1, <1>2, Induction
  <2> HIDE DEF Exists
  <2> QED BY <2>1
<1>4. PICK it \in [SUBSET (1..n) -> S] : Solves(it, n)
  BY <1>3
<1>5. it = [s \in SUBSET (1..n) |-> it[s]]
  OBVIOUS
<1>6. it = [s \in SUBSET (1..n) |->
              IF s = {} THEN base ELSE step[<<it[s \ {Max(s)}], Max(s)>>]]
  BY <1>4, <1>5
<1> QED BY <1>6 DEF Iterates

LEMMA IterationSteps ==
  ASSUME NEW it, NEW base, NEW step, NEW n \in Nat, Iterates(it, base, step, n)
  PROVE  /\ it[1..0] = base
         /\ \A i \in 1..n : it[1..i] = step[<<it[1..(i - 1)], i>>]
<1>1. \A s \in SUBSET (1..n) :
        it[s] = IF s = {} THEN base ELSE step[<<it[s \ {Max(s)}], Max(s)>>]
  BY Zenon DEF Iterates
<1>2. 1..0 \in SUBSET (1..n) /\ 1..0 = {}
  OBVIOUS
<1>3. ASSUME NEW i \in 1..n PROVE it[1..i] = step[<<it[1..(i - 1)], i>>]
  <2>1. 1..i \in SUBSET (1..n) /\ 1..i # {}
    OBVIOUS
  <2>2. it[1..i] = step[<<it[(1..i) \ {Max(1..i)}], Max(1..i)>>]
    BY <1>1, <2>1
  <2>3. Max(1..i) = i /\ (1..i) \ {i} = 1..(i - 1)
    BY MaxOfInterval
  <2> QED BY <2>2, <2>3, Zenon
<1> QED BY <1>1, <1>2, <1>3
=============================================================================
