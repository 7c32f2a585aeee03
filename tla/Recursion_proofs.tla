--------------------------- MODULE Recursion_proofs ---------------------------
(***************************************************************************)
(* What the other proofs need of the natural numbers: a least element of   *)
(* any set of them, by which they argue where they would by induction,     *)
(* what holds all of a range, and that a recursion over a range defines a  *)
(* function.                                                               *)
(***************************************************************************)
EXTENDS Integers, WellFoundedInduction, TLAPS

\* A set of natural numbers has a least one.
LEMMA LeastExists ==
    ASSUME NEW S, S \subseteq Nat, S # {}
    PROVE  \E m \in S : \A k \in S : m <= k
<1>1. PICK m \in S : \A k \in S : <<k, m>> \notin OpToRel(<, Nat)
  BY NatLessThanWellFounded, WFMin, Zenon
<1>2. \A k \in S : ~(k < m)
  BY <1>1, Zenon DEF OpToRel
<1> QED
  BY <1>2

\* What holds the first number and with each the next holds the whole range.
LEMMA RangeInduction ==
    ASSUME NEW n \in Nat, NEW S, 0 \in S, \A k \in 1..n : k - 1 \in S => k \in S
    PROVE  0..n \subseteq S
<1> DEFINE Bad == {k \in 0..n : k \notin S}
<1>1. Bad = {}
  <2> SUFFICES ASSUME Bad # {} PROVE FALSE
    OBVIOUS
  <2>1. PICK k \in Bad : \A j \in Bad : k <= j
    <3>1. Bad \subseteq Nat
      OBVIOUS
    <3> HIDE DEF Bad
    <3> QED
      BY <3>1, LeastExists, Zenon
  <2>2. k \in 1..n /\ k - 1 \in 0..n /\ ~(k <= k - 1) /\ k \notin S
    BY <2>1
  <2> QED
    BY <2>1, <2>2
<1> QED
  BY <1>1

\* Each value of f but the first is what G makes of the one before.
Recursion(f, n, a, G) == f = [i \in 0..n |-> IF i = 0 THEN a ELSE G[i][f[i - 1]]]

\* There is such a function, whatever its first value and whatever G.
LEMMA RecursionDefines ==
    ASSUME NEW n \in Nat, NEW S, NEW a \in S, NEW G \in [1..n -> [S -> S]]
    PROVE  \E f \in [0..n -> S] : Recursion(f, n, a, G)
<1> DEFINE Recurs(f, k) ==
               /\ f \in [0..k -> S]
               /\ f[0] = a
               /\ \A i \in 1..k : f[i] = G[i][f[i - 1]]
           Bad == {k \in 0..n : \A f : ~Recurs(f, k)}
<1>1. Bad = {}
  <2> SUFFICES ASSUME Bad # {} PROVE FALSE
    OBVIOUS
  <2>1. PICK k \in Bad : \A j \in Bad : k <= j
    <3>1. Bad \subseteq Nat
      OBVIOUS
    <3> HIDE DEF Bad
    <3> QED
      BY <3>1, LeastExists, Zenon
  <2>2. k \in 0..n /\ \A f : ~Recurs(f, k)
    BY <2>1
  <2> HIDE DEF Bad
  <2>3. CASE k = 0
    <3> DEFINE f == [i \in 0..0 |-> a]
    <3>1. Recurs(f, 0)
      OBVIOUS
    <3> HIDE DEF Recurs, f
    <3> QED
      BY <2>2, <2>3, <3>1
  <2>4. CASE k # 0
    <3>1. k - 1 \in 0..n /\ k \in 1..n /\ ~(k <= k - 1)
      BY <2>2, <2>4
    <3>2. PICK g : Recurs(g, k - 1)
      <4> HIDE DEF Recurs
      <4> QED
        BY <2>1, <3>1 DEF Bad
    <3> DEFINE f == [i \in 0..k |-> IF i = k THEN G[k][g[k - 1]] ELSE g[i]]
    <3>3. G[k][g[k - 1]] \in S
      BY <3>1, <3>2
    <3>4. f \in [0..k -> S] /\ f[0] = a
      BY <2>2, <2>4, <3>2, <3>3
    <3>5. ASSUME NEW i \in 1..k
          PROVE  f[i] = G[i][f[i - 1]]
      <4>1. CASE i = k
        <5>1. f[k] = G[k][g[k - 1]] /\ f[k - 1] = g[k - 1]
          BY <3>1
        <5> QED
          BY <4>1, <5>1
      <4>2. CASE i # k
        <5>1. i \in 1..(k - 1) /\ f[i] = g[i] /\ f[i - 1] = g[i - 1]
          BY <3>1, <4>2
        <5> QED
          BY <3>2, <5>1
      <4> QED
        BY <4>1, <4>2
    <3> HIDE DEF f
    <3>6. Recurs(f, k)
      BY <3>4, <3>5
    <3> HIDE DEF Recurs
    <3> QED
      BY <2>2, <3>6
  <2> QED
    BY <2>3, <2>4
<1>2. PICK f : Recurs(f, n)
  <2> HIDE DEF Recurs
  <2>1. n \in 0..n
    OBVIOUS
  <2> QED
    BY <1>1, <2>1
<1>3. f = [i \in 0..n |-> f[i]]
  BY <1>2
<1>4. \A i \in 0..n : f[i] = IF i = 0 THEN a ELSE G[i][f[i - 1]]
  BY <1>2
<1>5. f = [i \in 0..n |-> IF i = 0 THEN a ELSE G[i][f[i - 1]]]
  BY <1>3, <1>4
<1> QED
  BY <1>2, <1>5 DEF Recursion
===============================================================================
