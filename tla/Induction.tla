------------------------------ MODULE Induction ------------------------------
(***************************************************************************)
(* Induction and recursion on the natural numbers, from the well-founded   *)
(* order of WellFoundedInduction: for sets and functions, not operators.   *)
(***************************************************************************)
EXTENDS Integers, WellFoundedInduction, TLAPS

\* Every non-empty set of natural numbers has a least element.
LEMMA NatMin ==
  ASSUME NEW T, T \subseteq Nat, T # {}
  PROVE  \E x \in T : \A y \in T : ~(y < x)
<1> DEFINE R == {ss \in Nat \X Nat : ss[1] < ss[2]}
<1>1. IsWellFoundedOn(R, Nat)
  BY NatLessThanWellFounded DEF OpToRel
<1>2. PICK x \in T : \A y \in T : ~(<<y, x>> \in R)
  BY <1>1, WFMin
<1> QED BY <1>2

\* A set of numbers that holds 0 and with each number the next holds them all.
LEMMA SetInduction ==
  ASSUME NEW S, 0 \in S, \A n \in Nat : n \in S => n + 1 \in S
  PROVE  Nat \subseteq S
<1> DEFINE T == {n \in Nat : n \notin S}
<1> SUFFICES ASSUME T # {} PROVE FALSE
  OBVIOUS
<1>1. PICK x \in T : \A y \in T : ~(y < x)
  BY NatMin
<1>2. x # 0 /\ x - 1 \in Nat /\ x - 1 \notin T
  BY <1>1
<1> QED BY <1>2

\* A value and a step for each number make a function of the numbers up to n.
LEMMA Recursion ==
  ASSUME NEW S, NEW a \in S, NEW F \in [Nat -> [S -> S]], NEW n \in Nat
  PROVE  \E k \in [0..n -> S] : k[0] = a /\ \A i \in 1..n : k[i] = F[i][k[i - 1]]
<1> DEFINE Up(k, m) == k \in [0..m -> S] /\ k[0] = a /\ \A i \in 1..m : k[i] = F[i][k[i - 1]]
           T == {m \in Nat : \E k : Up(k, m)}
<1>1. 0 \in T
  <2>1. Up([i \in 0..0 |-> a], 0)
    OBVIOUS
  <2> QED BY <2>1
<1>2. ASSUME NEW m \in Nat, m \in T PROVE m + 1 \in T
  <2>1. PICK k : Up(k, m)
    BY <1>2
  <2> DEFINE l == [i \in 0..m + 1 |-> IF i <= m THEN k[i] ELSE F[m + 1][k[m]]]
  <2>2. k[m] \in S /\ F[m + 1][k[m]] \in S
    <3>1. m \in 0..m /\ m + 1 \in Nat
      OBVIOUS
    <3>2. k[m] \in S
      BY <2>1, <3>1
    <3>3. F[m + 1] \in [S -> S]
      BY <3>1
    <3> QED BY <3>2, <3>3
  <2>3. l \in [0..m + 1 -> S]
    <3>1. \A i \in 0..m + 1 : i <= m => i \in 0..m
      OBVIOUS
    <3> QED BY <2>1, <2>2, <3>1
  <2>4. \A i \in 0..m : l[i] = k[i]
    OBVIOUS
  <2>5. l[m + 1] = F[m + 1][l[m]]
    OBVIOUS
  <2>6. \A i \in 1..m + 1 : l[i] = F[i][l[i - 1]]
    <3> HIDE DEF l
    <3>1. ASSUME NEW i \in 1..m + 1 PROVE l[i] = F[i][l[i - 1]]
      <4>1. CASE i = m + 1
        BY <2>5, <4>1
      <4>2. CASE i \in 1..m
        <5>1. i \in 0..m /\ i - 1 \in 0..m
          BY <4>2
        <5> QED BY <2>1, <2>4, <4>2, <5>1
      <4> QED BY <4>1, <4>2
    <3> QED BY <3>1
  <2>7. l[0] = a
    BY <2>1, <2>4
  <2> HIDE DEF l
  <2> QED BY <2>3, <2>6, <2>7
<1>3. Nat \subseteq T
  <2> HIDE DEF T
  <2> QED BY <1>1, <1>2, SetInduction
<1> QED BY <1>3
\* The same with the function behind a name.
Recurs(S, a, F, n) == \E k \in [0..n -> S] : k[0] = a /\ \A i \in 1..n : k[i] = F[i][k[i - 1]]

LEMMA RecursUpTo ==
  \A S, a, F, n : n \in Nat /\ a \in S /\ F \in [Nat -> [S -> S]] => Recurs(S, a, F, n)
BY Recursion DEF Recurs

=============================================================================
