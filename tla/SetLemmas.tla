------------------------------- MODULE SetLemmas -------------------------------
(***************************************************************************)
(* Facts about sets that the proofs of several components need, induction   *)
(* over the naturals as a fact about sets of them, and the functions that   *)
(* recursion defines.                                                      *)
(***************************************************************************)
EXTENDS Integers, FiniteSets, FiniteSetTheorems, WellFoundedInduction, TLAPS

\* A non-empty set of naturals has a least element: the first slot of several, as
\* the loops over slots find it, is one of them.
LEMMA Least ==
  ASSUME NEW S \in SUBSET Nat, S # {}
  PROVE  \E i \in S : \A j \in S : i <= j
<1> DEFINE Upto == {0 .. i : i \in S}
<1>1. Upto \subseteq FiniteSubsetsOf(Nat) /\ Upto # {}
  <2>1. ASSUME NEW i \in S PROVE 0 .. i \in FiniteSubsetsOf(Nat)
    <3>1. IsFiniteSet(0 .. i)
      BY FS_Interval
    <3>2. 0 .. i \in SUBSET Nat
      OBVIOUS
    <3> QED BY <3>1, <3>2 DEF FiniteSubsetsOf
  <2> QED BY <2>1
<1>2. IsWellFoundedOn(StrictSubsetOrdering(Nat), FiniteSubsetsOf(Nat))
  BY FS_StrictSubsetOrderingWellFounded
<1>3. PICK I \in Upto : \A J \in Upto : <<J, I>> \notin StrictSubsetOrdering(Nat)
  <2> HIDE DEF Upto
  <2> QED BY <1>1, <1>2, WFMin
<1>4. PICK i \in S : I = 0 .. i
  OBVIOUS
<1>5. ASSUME NEW j \in S, j < i PROVE FALSE
  <2>1. 0 .. j \subseteq 0 .. i /\ i \in 0 .. i /\ i \notin 0 .. j
    BY <1>5
  <2>2. <<0 .. j, 0 .. i>> \in StrictSubsetOrdering(Nat)
    BY <2>1 DEF StrictSubsetOrdering
  <2> QED BY <1>3, <1>4, <2>2
<1> QED BY <1>5

\* Induction: a set of naturals with 0 and with the next of each is all of them.
LEMMA Induction ==
  ASSUME NEW S \in SUBSET Nat, 0 \in S, \A n \in S : n + 1 \in S
  PROVE  S = Nat
<1> SUFFICES ASSUME Nat \ S # {} PROVE FALSE
  OBVIOUS
<1>1. PICK i \in Nat \ S : \A j \in Nat \ S : i <= j
  BY Least
<1>2. i # 0 /\ i - 1 \in Nat
  BY <1>1
<1>3. i - 1 \in S
  BY <1>1, <1>2
<1>4. (i - 1) + 1 = i
  BY <1>1
<1> QED BY <1>1, <1>3, <1>4

\* The same, when each is in the set as soon as all below it are.
LEMMA StrongInduction ==
  ASSUME NEW S \in SUBSET Nat, \A n \in Nat : (\A m \in 0 .. n - 1 : m \in S) => n \in S
  PROVE  S = Nat
<1> SUFFICES ASSUME Nat \ S # {} PROVE FALSE
  OBVIOUS
<1>1. PICK i \in Nat \ S : \A j \in Nat \ S : i <= j
  BY Least
<1>2. \A m \in 0 .. i - 1 : m \in S
  BY <1>1
<1> QED BY <1>1, <1>2

\* A step G from what a function is below n to what it is at n defines a function.
LEMMA Recursion ==
  ASSUME NEW V, V # {}, NEW G \in [Nat \X [Nat -> V] -> V],
         \A n \in Nat : \A f, g \in [Nat -> V] :
           (\A m \in 0 .. n - 1 : f[m] = g[m]) => G[<<n, f>>] = G[<<n, g>>]
  PROVE  \E f \in [Nat -> V] : f = [n \in Nat |-> G[<<n, f>>]]
<1> DEFINE Upto(k, f) == \A n \in 0 .. k - 1 : f[n] = G[<<n, f>>]
           Ks == {k \in Nat : \E f \in [Nat -> V] : Upto(k, f)}
           At(k) == CHOOSE f \in [Nat -> V] : Upto(k, f)
           h == [n \in Nat |-> At(n + 1)[n]]
<1>1. 0 \in Ks
  <2>1. PICK v : v \in V
    OBVIOUS
  <2>2. [n \in Nat |-> v] \in [Nat -> V]
    BY <2>1
  <2>3. Upto(0, [n \in Nat |-> v])
    OBVIOUS
  <2> QED BY <2>2, <2>3
<1>2. ASSUME NEW k \in Ks PROVE k + 1 \in Ks
  <2>1. PICK f \in [Nat -> V] : Upto(k, f)
    OBVIOUS
  <2> DEFINE g == [f EXCEPT ![k] = G[<<k, f>>]]
  <2>2. g \in [Nat -> V]
    OBVIOUS
  <2>3. ASSUME NEW n \in 0 .. k PROVE g[n] = G[<<n, g>>]
    <3>1. n \in Nat /\ \A m \in 0 .. n - 1 : f[m] = g[m]
      OBVIOUS
    <3>2. G[<<n, f>>] = G[<<n, g>>]
      <4> HIDE DEF g, Ks
      <4> QED BY <3>1, <2>2
    <3>3. CASE n = k
      BY <3>2, <3>3
    <3>4. CASE n # k
      <4>1. n \in 0 .. k - 1 /\ g[n] = f[n]
        BY <3>4
      <4> HIDE DEF g
      <4> QED BY <4>1, <2>1, <3>2
    <3> QED BY <3>3, <3>4
  <2>4. k + 1 \in Nat /\ (k + 1) - 1 = k
    OBVIOUS
  <2>5. Upto(k + 1, g)
    <3> HIDE DEF g
    <3> QED BY <2>3, <2>4
  <2> HIDE DEF g
  <2> QED BY <2>2, <2>4, <2>5
<1>3. Ks = Nat
  <2> HIDE DEF Ks
  <2>1. Ks \in SUBSET Nat
    BY DEF Ks
  <2> QED BY <1>1, <1>2, <2>1, Induction
<1>4. ASSUME NEW k \in Nat PROVE At(k) \in [Nat -> V] /\ Upto(k, At(k))
  BY <1>3
<1>5. ASSUME NEW f \in [Nat -> V], NEW g \in [Nat -> V], NEW k \in Nat, Upto(k, f), Upto(k, g)
      PROVE  \A n \in 0 .. k - 1 : f[n] = g[n]
  <2> DEFINE S == {n \in Nat : n < k => f[n] = g[n]}
  <2>1. ASSUME NEW n \in Nat, \A m \in 0 .. n - 1 : m \in S PROVE n \in S
    <3>1. CASE n < k
      <4>1. \A m \in 0 .. n - 1 : f[m] = g[m]
        BY <2>1, <3>1
      <4>2. f[n] = G[<<n, f>>] /\ g[n] = G[<<n, g>>]
        BY <1>5, <3>1
      <4> QED BY <4>1, <4>2
    <3> QED BY <3>1
  <2>2. S = Nat
    <3> HIDE DEF S
    <3>1. S \in SUBSET Nat
      BY DEF S
    <3> QED BY <2>1, <3>1, StrongInduction
  <2> QED BY <2>2
<1>6. h \in [Nat -> V]
  <2>1. ASSUME NEW n \in Nat PROVE At(n + 1)[n] \in V
    <3>1. n + 1 \in Nat
      OBVIOUS
    <3> HIDE DEF At
    <3> QED BY <3>1, <1>4
  <2> HIDE DEF At
  <2> QED BY <2>1
<1>7. ASSUME NEW n \in Nat PROVE h[n] = G[<<n, h>>]
  <2>1. n + 1 \in Nat /\ n \in 0 .. (n + 1) - 1
    OBVIOUS
  <2>2. At(n + 1)[n] = G[<<n, At(n + 1)>>]
    <3> HIDE DEF At
    <3> QED BY <2>1, <1>4
  <2>3. ASSUME NEW m \in 0 .. n - 1 PROVE At(n + 1)[m] = h[m]
    <3>1. m \in Nat /\ m + 1 \in Nat /\ m \in 0 .. (m + 1) - 1
      OBVIOUS
    <3>2. Upto(m + 1, At(n + 1)) /\ Upto(m + 1, At(m + 1))
      <4>1. \A i \in 0 .. (m + 1) - 1 : i \in 0 .. (n + 1) - 1
        OBVIOUS
      <4> HIDE DEF At
      <4> QED BY <2>1, <3>1, <4>1, <1>4
    <3>3. At(n + 1) \in [Nat -> V] /\ At(m + 1) \in [Nat -> V]
      <4> HIDE DEF At
      <4> QED BY <2>1, <3>1, <1>4
    <3>4. \A i \in 0 .. (m + 1) - 1 : At(n + 1)[i] = At(m + 1)[i]
      <4> HIDE DEF At, Upto
      <4> QED BY <3>1, <3>2, <3>3, <1>5
    <3> HIDE DEF At
    <3> QED BY <3>1, <3>4
  <2> HIDE DEF At
  <2>4. At(n + 1) \in [Nat -> V]
    BY <2>1, <1>4
  <2>5. h[n] = At(n + 1)[n]
    OBVIOUS
  <2> HIDE DEF h
  <2> QED BY <2>2, <2>3, <2>4, <2>5, <1>6
<1>8. h = [n \in Nat |-> G[<<n, h>>]]
  <2> HIDE DEF h
  <2> QED BY <1>6, <1>7
<1> QED BY <1>6, <1>8

\* A set whose elements are all the same has at most one.
LEMMA AtMostOne ==
  ASSUME NEW S, \A x, y \in S : x = y
  PROVE  IsFiniteSet(S) /\ Cardinality(S) \in {0, 1} /\ (S = {} => Cardinality(S) = 0)
<1>1. CASE S = {}
  BY <1>1, FS_EmptySet
<1>2. CASE S # {}
  <2>1. PICK x : x \in S
    BY <1>2
  <2>2. S = {x}
    BY <2>1
  <2> QED BY <1>2, <2>2, FS_Singleton
<1> QED BY <1>1, <1>2
================================================================================
