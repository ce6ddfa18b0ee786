------------------------------ MODULE NatFacts ------------------------------
(***************************************************************************)
(* Facts about the natural numbers that the proofs share.                  *)
(***************************************************************************)
EXTENDS FiniteSetTheorems, WellFoundedInduction, TLAPS

\* A set of naturals that is not empty has a least element.
LEMMA MinExists ==
  ASSUME NEW S, S \subseteq Nat, S # {}
  PROVE  \E m \in S : \A j \in S : m <= j
<1> DEFINE Below(m) == {j \in S : j < m}
           T        == {Below(m) : m \in S}
<1>1. \A m \in S : Below(m) \in FiniteSubsetsOf(Nat)
  <2> TAKE m \in S
  <2>1. m \in Nat /\ \A j \in Below(m) : j \in Nat /\ j < m
    OBVIOUS
  <2>2. Below(m) \in SUBSET Nat /\ \A j \in Below(m) : j <= m
    <3> HIDE DEF Below
    <3> QED BY <2>1
  <2>3. IsFiniteSet(Below(m))
    BY <2>1, <2>2, FS_BoundedSetOfNaturals
  <2> QED BY <2>2, <2>3 DEF FiniteSubsetsOf
<1>2. T \subseteq FiniteSubsetsOf(Nat) /\ T # {}
  BY <1>1
<1>3. PICK B \in T : \A C \in T : ~ (<<C, B>> \in StrictSubsetOrdering(Nat))
  <2> HIDE DEF T
  <2> QED BY <1>2, FS_StrictSubsetOrderingWellFounded, WFMin, Zenon
<1>4. PICK m \in S : B = Below(m)
  BY <1>3
<1>5. ASSUME NEW j \in S, j < m PROVE FALSE
  <2>1. j \in Below(m) /\ j \notin Below(j)
    BY <1>5
  <2>2. Below(j) \subseteq Below(m)
    <3> SUFFICES ASSUME NEW i \in S, i < j PROVE i < m
      OBVIOUS
    <3>1. i \in Nat /\ j \in Nat /\ m \in Nat
      OBVIOUS
    <3> QED BY <3>1, <1>5
  <2>3. Below(j) \in SUBSET Nat /\ Below(m) \in SUBSET Nat
    OBVIOUS
  <2>4. <<Below(j), Below(m)>> \in StrictSubsetOrdering(Nat)
    BY <2>1, <2>2, <2>3 DEF StrictSubsetOrdering
  <2> QED BY <2>4, <1>3, <1>4
<1> QED BY <1>5

\* CHOOSE finds it.
LEMMA LeastChosen ==
  ASSUME NEW S, S \subseteq Nat, S # {}
  PROVE  /\ (CHOOSE i \in S : \A j \in S : i <= j) \in S
         /\ \A k \in S : (CHOOSE i \in S : \A j \in S : i <= j) <= k
<1>1. \E i \in S : \A j \in S : i <= j
  BY MinExists
<1> QED BY <1>1

\* What holds at m and is kept from each number to the next holds up to n.
LEMMA Onwards ==
  ASSUME NEW m \in Nat, NEW n \in Nat, NEW f, NEW D,
         f[m] \in D, \A i \in m+1..n : f[i-1] \in D => f[i] \in D
  PROVE  \A i \in m..n : f[i] \in D
<1> DEFINE Bad == {i \in m..n : f[i] \notin D}
<1> SUFFICES ASSUME Bad # {} PROVE FALSE
  OBVIOUS
<1>1. PICK i \in Bad : \A j \in Bad : i <= j
  <2>1. Bad \subseteq Nat
    OBVIOUS
  <2> HIDE DEF Bad
  <2> QED BY <2>1, MinExists
<1>2. i \in m+1..n
  BY <1>1
<1>3. i - 1 \in m..n /\ i - 1 \notin Bad
  BY <1>1, <1>2
<1> QED BY <1>1, <1>2, <1>3

\* Two functions that begin alike and go on alike up to n are alike up to n.
GoAlike(n, f, g)   == f[0] = g[0] /\ \A i \in 1..n : f[i-1] = g[i-1] => f[i] = g[i]
AlikeUpTo(n, f, g) == \A i \in 0..n : f[i] = g[i]

LEMMA Alike ==
  ASSUME NEW n \in Nat, NEW f, NEW g, GoAlike(n, f, g)
  PROVE  AlikeUpTo(n, f, g)
<1> USE DEF GoAlike, AlikeUpTo
<1> DEFINE h == [i \in 0..n |-> f[i] = g[i]]
<1>1. h[0] \in {TRUE}
  <2>1. 0 \in 0..n
    OBVIOUS
  <2> QED BY <2>1
<1>2. ASSUME NEW i \in 0+1..n, h[i-1] \in {TRUE} PROVE h[i] \in {TRUE}
  <2>1. i \in 1..n /\ i - 1 \in 0..n /\ i \in 0..n
    OBVIOUS
  <2> QED BY <1>2, <2>1
<1>3. \A i \in 0..n : h[i] \in {TRUE}
  <2> HIDE DEF h
  <2> QED BY <1>1, <1>2, Onwards
<1> QED BY <1>3

\* The functions on 0..n that begin with first and go on by step; there is one.
Iteration(n, D, first, step) ==
  {f \in [0..n -> D] : f[0] = first /\ \A i \in 1..n : f[i] = step[<<i, f[i-1]>>]}

LEMMA Iterates ==
  ASSUME NEW n \in Nat, NEW D, NEW first \in D, NEW step \in [(1..n) \X D -> D]
  PROVE  Iteration(n, D, first, step) # {}
<1> DEFINE Upto(k) == {f \in [0..k -> D] : /\ f[0] = first
                                           /\ \A i \in 1..k : f[i] = step[<<i, f[i-1]>>]}
           Bad     == {k \in 0..n : Upto(k) = {}}
<1>1. Bad = {}
  <2> SUFFICES ASSUME Bad # {} PROVE FALSE
    OBVIOUS
  <2>1. PICK k \in Bad : \A j \in Bad : k <= j
    <3>1. Bad \subseteq Nat
      OBVIOUS
    <3> HIDE DEF Bad
    <3> QED BY <3>1, MinExists
  <2>2. CASE k = 0
    <3>1. [i \in 0..0 |-> first] \in Upto(0)
      OBVIOUS
    <3> QED BY <2>1, <2>2, <3>1
  <2>3. CASE k # 0
    <3>1. k \in 1..n /\ k - 1 \in 0..n /\ k - 1 \notin Bad
      <4> HIDE DEF Upto
      <4> QED BY <2>1, <2>3
    <3>2. PICK f : f \in Upto(k-1)
      BY <3>1
    <3> DEFINE g == [i \in 0..k |-> IF i = k THEN step[<<k, f[k-1]>>] ELSE f[i]]
    <3>3. f[k-1] \in D /\ \A i \in 0..k-1 : f[i] \in D
      BY <3>1, <3>2
    <3>4. step[<<k, f[k-1]>>] \in D
      BY <3>1, <3>3
    <3>5. g \in [0..k -> D] /\ g[0] = first
      BY <3>1, <3>2, <3>3, <3>4
    <3>6. ASSUME NEW i \in 1..k PROVE g[i] = step[<<i, g[i-1]>>]
      <4>1. CASE i = k
        <5>1. g[i-1] = f[k-1] /\ g[i] = step[<<k, f[k-1]>>]
          BY <3>1, <4>1
        <5> QED BY <4>1, <5>1
      <4>2. CASE i # k
        <5>1. i \in 1..k-1 /\ g[i-1] = f[i-1] /\ g[i] = f[i]
          BY <3>1, <4>2
        <5> QED BY <3>2, <5>1
      <4> QED BY <4>1, <4>2
    <3>7. g \in Upto(k)
      <4> HIDE DEF g
      <4> QED BY <3>5, <3>6
    <3> QED BY <2>1, <3>7
  <2> QED BY <2>2, <2>3
<1>2. Upto(n) # {}
  <2>1. n \in 0..n
    OBVIOUS
  <2> HIDE DEF Upto
  <2> QED BY <1>1, <2>1
<1> QED BY <1>2 DEF Iteration
=============================================================================
