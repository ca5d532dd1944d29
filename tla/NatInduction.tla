---------------------------- MODULE NatInduction ----------------------------
(***************************************************************************)
(* Induction over the natural numbers in terms of sets: a statement is     *)
(* proved for all numbers by showing that the set of the numbers it holds  *)
(* for has 0 in it and is closed under successor.  The other proof modules *)
(* use these facts wherever an argument runs along a chain, a list of      *)
(* validators or a sequence of numbers.                                    *)
(***************************************************************************)
EXTENDS Integers, FiniteSetTheorems, WellFoundedInduction, TLAPS

\* A set of natural numbers that is not empty has a least element: the
\* intervals 0..n of its elements have a smallest one.
LEMMA LeastNumber ==
    ASSUME NEW S, S \subseteq Nat, S # {}
    PROVE  \E n \in S : \A m \in S : n <= m
  <1> DEFINE R == StrictSubsetOrdering(Nat)
             T == {0..n : n \in S}
  <1>1. T \subseteq FiniteSubsetsOf(Nat)
    <2>1. \A n \in S : 0..n \subseteq Nat /\ IsFiniteSet(0..n)
      BY FS_Interval
    <2> QED BY <2>1 DEF FiniteSubsetsOf
  <1>2. IsWellFoundedOn(R, FiniteSubsetsOf(Nat))
    BY FS_StrictSubsetOrderingWellFounded
  <1>3. T # {}
    OBVIOUS
  <1> HIDE DEF R
  <1>4. PICK x \in T : \A y \in T : ~ (<<y, x>> \in R)
    BY <1>1, <1>2, <1>3, WFMin
  <1>5. PICK n \in S : x = 0..n
    OBVIOUS
  <1>6. ASSUME NEW m \in S, m < n
        PROVE  FALSE
    <2>1. 0..m \subseteq 0..n /\ 0..m # 0..n /\ 0..m \in SUBSET Nat /\ 0..n \in SUBSET Nat
      <3>1. n \in 0..n /\ n \notin 0..m
        BY <1>6
      <3> QED BY <1>6, <3>1
    <2>2. <<0..m, 0..n>> \in R
      BY <2>1 DEF R, StrictSubsetOrdering
    <2> QED BY <1>4, <1>5, <2>2
  <1>7. \A m \in S : n <= m
    BY <1>6
  <1> QED BY <1>7

\* A set with 0 in it that is closed under successor has every number in it.
LEMMA SetInduction ==
    ASSUME NEW S, 0 \in S, \A n \in Nat : n \in S => n + 1 \in S
    PROVE  \A n \in Nat : n \in S
  <1> DEFINE Bad == {n \in Nat : n \notin S}
  <1> SUFFICES ASSUME Bad # {} PROVE FALSE
    OBVIOUS
  <1>1. PICK n \in Bad : \A m \in Bad : n <= m
    BY LeastNumber
  <1>2. n # 0 /\ n - 1 \in Nat /\ n - 1 \notin Bad
    BY <1>1
  <1>3. (n - 1) + 1 \in S
    BY <1>2
  <1> QED BY <1>1, <1>3

\* A function with values in the natural numbers takes a greatest value on
\* 1..n.
LEMMA GreatestValue ==
    ASSUME NEW N \in Nat \ {0}, NEW f, \A n \in 1..N : f[n] \in Nat
    PROVE  \E m \in 1..N : \A n \in 1..N : f[n] <= f[m]
  <1> DEFINE Has(k) == \E m \in 1..k : \A n \in 1..k : f[n] <= f[m]
             S == {k \in Nat : k \in 1..N => Has(k)}
  <1>1. 0 \in S
    OBVIOUS
  <1>2. ASSUME NEW k \in Nat, k \in S, k + 1 \in 1..N PROVE Has(k + 1)
    <2>1. CASE k = 0
      <3>1. 1..(k + 1) = {1}
        BY <2>1
      <3> QED BY <3>1
    <2>2. CASE k # 0
      <3>1. k \in 1..N /\ 1..(k + 1) = 1..k \cup {k + 1} /\ 1..k \subseteq 1..N
        BY <1>2, <2>2
      <3>2. PICK m \in 1..k : \A n \in 1..k : f[n] <= f[m]
        BY <1>2, <3>1
      <3>3. CASE f[k + 1] <= f[m]
        BY <3>1, <3>2, <3>3
      <3>4. CASE ~(f[k + 1] <= f[m])
        <4>1. \A n \in 1..k : f[n] <= f[k + 1]
          BY <1>2, <3>1, <3>2, <3>4
        <4> QED BY <1>2, <3>1, <4>1
      <3> QED BY <3>3, <3>4
    <2> QED BY <2>1, <2>2
  <1>3. \A k \in Nat : k \in S => k + 1 \in S
    BY <1>2
  <1> HIDE DEF S
  <1>4. N \in S
    BY <1>1, <1>3, SetInduction
  <1> QED BY <1>4 DEF S

=============================================================================
