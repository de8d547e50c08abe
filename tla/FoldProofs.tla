----------------------------- MODULE FoldProofs -----------------------------
(***************************************************************************)
(* What the proofs about loops rest on.  A loop of the code is a fold over *)
(* a sequence in the models; its value after each element is a function    *)
(* here, so that what every element preserves can be shown of the whole.   *)
(***************************************************************************)
EXTENDS SequencesExt, WellFoundedInduction, TLAPS

\* A nonempty set of numbers has a smallest one.
LEMMA Smallest ==
    ASSUME NEW T \in SUBSET Nat, T # {}
    PROVE  \E x \in T : \A y \in T : x <= y
<1> DEFINE R == OpToRel(<, Nat)
<1>1. IsWellFoundedOn(R, Nat)
  BY NatLessThanWellFounded
<1>2. \A x, y \in Nat : <<x, y>> \in R <=> x < y
  BY DEF OpToRel
<1> HIDE DEF R
<1>3. PICK x \in T : \A y \in T : <<y, x>> \notin R
  BY <1>1, WFMin
<1>4. ASSUME NEW y \in T PROVE x <= y
  <2>1. x \in Nat /\ y \in Nat /\ <<y, x>> \notin R
    BY <1>3
  <2>2. ~(y < x)
    BY <1>2, <2>1
  <2> QED
    BY <2>1, <2>2
<1> QED
  BY <1>4

\* The largest of a set of numbers that is bounded.
LEMMA Largest ==
    ASSUME NEW n \in Nat, NEW S \in SUBSET (1 .. n), S # {}
    PROVE  Max(S) \in S /\ \A y \in S : y <= Max(S)
<1> DEFINE T == {n - x : x \in S}
<1>1. T \in SUBSET Nat /\ T # {}
  <2>1. \A x \in S : x \in 1 .. n
    OBVIOUS
  <2>2. \A x \in 1 .. n : n - x \in Nat
    OBVIOUS
  <2> QED
    BY <2>1, <2>2
<1>2. PICK z \in T : \A y \in T : z <= y
  BY <1>1, Smallest
<1>3. PICK x \in S : z = n - x
  BY <1>2
<1>4. ASSUME NEW y \in S PROVE x >= y
  <2>1. n - y \in T /\ x \in Int /\ y \in Int
    OBVIOUS
  <2>2. n - x <= n - y
    BY <1>2, <1>3, <2>1
  <2> QED
    BY <2>1, <2>2
<1>5. \E x1 \in S : \A y \in S : x1 >= y
  BY <1>4
<1>6. Max(S) \in S /\ \A y \in S : Max(S) >= y
  BY <1>5 DEF Max
<1>7. \A y \in S : y \in Int
  OBVIOUS
<1> QED
  BY <1>6, <1>7

\* iter is the function from which a fold takes its value: step[i] is what element i does.
Iterates(iter, n, base, step) ==
    iter = [S \in SUBSET (1 .. n) |->
               IF S = {} THEN base ELSE step[Max(S)][iter[S \ {Max(S)}]]]

\* There is such a function.
LEMMA Iteration ==
    ASSUME NEW V, NEW base \in V, NEW l \in Nat, NEW step \in [1 .. l -> [V -> V]]
    PROVE  \E iter \in [SUBSET (1 .. l) -> V] : Iterates(iter, l, base, step)
<1> DEFINE P(n) == \E iter \in [SUBSET (1 .. n) -> V] : Iterates(iter, n, base, step)
           T == {n \in 0 .. l : ~P(n)}
<1>1. ASSUME T # {} PROVE FALSE
  <2>1. PICK n \in T : \A y \in T : n <= y
    <3>1. T \in SUBSET Nat
      OBVIOUS
    <3> HIDE DEF T
    <3> QED
      BY <1>1, <3>1, Smallest
  <2>2. n \in 0 .. l /\ ~P(n)
    OBVIOUS
  <2>3. CASE n = 0
    <3> DEFINE i0 == [S \in SUBSET (1 .. 0) |-> base]
    <3>1. i0 \in [SUBSET (1 .. 0) -> V]
      OBVIOUS
    <3>2. \A S \in SUBSET (1 .. 0) : S = {}
      OBVIOUS
    <3>3. Iterates(i0, 0, base, step)
      BY <3>2 DEF Iterates
    <3> QED
      BY <2>2, <2>3, <3>1, <3>3
  <2>4. CASE n # 0
    <3> DEFINE m == n - 1
    <3>1. m \in 0 .. l /\ ~(n <= m) /\ n \in 1 .. l /\ n \in Nat
      BY <2>2, <2>4
    <3>2. P(m)
      BY <2>1, <3>1
    <3>3. PICK it \in [SUBSET (1 .. m) -> V] : Iterates(it, m, base, step)
      BY <3>2
    <3>4. /\ \A S \in SUBSET (1 .. n) : n \in S \/ S \in SUBSET (1 .. m)
          /\ \A S \in SUBSET (1 .. n) : S \ {n} \in SUBSET (1 .. m)
          /\ SUBSET (1 .. m) \subseteq SUBSET (1 .. n)
          /\ \A S \in SUBSET (1 .. m) : n \notin S
      BY <3>1
    <3>5. step[n] \in [V -> V]
      BY <3>1
    <3> DEFINE it2 == [S \in SUBSET (1 .. n) |-> IF n \in S THEN step[n][it[S \ {n}]] ELSE it[S]]
    <3> HIDE DEF m
    <3>6. it2 \in [SUBSET (1 .. n) -> V]
      <4>1. ASSUME NEW S \in SUBSET (1 .. n) PROVE (IF n \in S THEN step[n][it[S \ {n}]] ELSE it[S]) \in V
        <5>1. CASE n \in S
          <6>1. S \ {n} \in SUBSET (1 .. m)
            BY <3>4
          <6>2. it[S \ {n}] \in V
            BY <3>3, <6>1
          <6> QED
            BY <3>5, <5>1, <6>2
        <5>2. CASE n \notin S
          <6>1. S \in SUBSET (1 .. m)
            BY <3>4, <5>2
          <6> QED
            BY <3>3, <5>2, <6>1
        <5> QED
          BY <5>1, <5>2
      <4> QED
        BY <4>1
    <3>7. ASSUME NEW S \in SUBSET (1 .. n)
          PROVE  it2[S] = IF S = {} THEN base ELSE step[Max(S)][it2[S \ {Max(S)}]]
      <4>1. CASE S = {}
        <5>1. S \in SUBSET (1 .. m) /\ n \notin S
          BY <4>1
        <5>2. it[S] = base
          BY <3>3, <4>1, <5>1 DEF Iterates
        <5> QED
          BY <4>1, <5>1, <5>2
      <4>2. CASE n \in S
        <5>1. Max(S) \in S /\ (\A y \in S : y <= Max(S)) /\ S # {}
          BY <3>1, <4>2, Largest
        <5>2. Max(S) = n
          <6>1. Max(S) \in 1 .. n
            BY <5>1
          <6>2. n <= Max(S)
            BY <4>2, <5>1
          <6> QED
            BY <3>1, <6>1, <6>2
        <5>3. S \ {n} \in SUBSET (1 .. n) /\ n \notin S \ {n}
          BY Zenon
        <5>4. it2[S \ {n}] = it[S \ {n}] /\ it2[S] = step[n][it[S \ {n}]]
          BY <4>2, <5>3
        <5> QED
          BY <5>1, <5>2, <5>4
      <4>3. CASE S # {} /\ n \notin S
        <5> DEFINE x == Max(S)
        <5>1. S \in SUBSET (1 .. m)
          BY <3>4, <4>3
        <5>2. it[S] = step[x][it[S \ {x}]]
          BY <3>3, <4>3, <5>1 DEF Iterates
        <5>3. S \ {x} \in SUBSET (1 .. n) /\ n \notin S \ {x}
          BY <4>3
        <5> HIDE DEF x
        <5>4. it2[S \ {x}] = it[S \ {x}] /\ it2[S] = it[S]
          BY <4>3, <5>3
        <5> QED
          BY <4>3, <5>2, <5>4 DEF x
      <4> QED
        BY <4>1, <4>2, <4>3
    <3>8. Iterates(it2, n, base, step)
      <4>1. it2 = [S \in SUBSET (1 .. n) |-> it2[S]]
        BY <3>6
      <4> HIDE DEF it2
      <4>2. it2 = [S \in SUBSET (1 .. n) |-> IF S = {} THEN base ELSE step[Max(S)][it2[S \ {Max(S)}]]]
        BY <3>7, <4>1
      <4> QED
        BY <4>2 DEF Iterates
    <3> QED
      BY <2>2, <3>6, <3>8
  <2> QED
    BY <2>3, <2>4
<1>2. l \in 0 .. l
  OBVIOUS
<1> QED
  BY <1>1, <1>2

\* Induction, up to l.
LEMMA UpTo ==
    ASSUME NEW l \in Nat, NEW S, 0 \in S, \A i \in 1 .. l : i - 1 \in S => i \in S
    PROVE  \A i \in 0 .. l : i \in S
<1> DEFINE T == {i \in 0 .. l : i \notin S}
<1>1. ASSUME T # {} PROVE FALSE
  <2>1. PICK n \in T : \A y \in T : n <= y
    <3>1. T \in SUBSET Nat
      OBVIOUS
    <3> HIDE DEF T
    <3> QED
      BY <1>1, <3>1, Smallest
  <2>2. n \in 0 .. l /\ n \notin S
    OBVIOUS
  <2>3. n \in 1 .. l
    <3>1. n # 0
      BY <2>2
    <3> QED
      BY <2>2, <3>1
  <2>4. n - 1 \in 0 .. l /\ ~(n <= n - 1)
    BY <2>3
  <2>5. n - 1 \in S
    BY <2>1, <2>4
  <2> QED
    BY <2>2, <2>3, <2>5
<1> QED
  BY <1>1

\* The first elements.
LEMMA Prefix ==
    ASSUME NEW l \in Nat, NEW i \in 1 .. l
    PROVE  /\ 1 .. i \in SUBSET (1 .. l) /\ 1 .. i # {}
           /\ Max(1 .. i) = i /\ (1 .. i) \ {i} = 1 .. i - 1
<1>1. 1 .. i \in SUBSET (1 .. l) /\ i \in 1 .. i
  OBVIOUS
<1> DEFINE x == Max(1 .. i)
<1>2. x \in 1 .. i /\ \A y \in 1 .. i : y <= x
  BY <1>1, Largest
<1> HIDE DEF x
<1>3. x \in 1 .. i /\ i <= x
  BY <1>1, <1>2
<1>4. x = i
  BY <1>3
<1>5. (1 .. i) \ {i} = 1 .. i - 1
  OBVIOUS
<1> QED
  BY <1>1, <1>4, <1>5 DEF x
=============================================================================
