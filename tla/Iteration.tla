-------------------------------- MODULE Iteration ------------------------------
(* Facts about counting that proofs by induction rest on: a set of numbers *)
(* has a least one, a set that 0 is in and that is closed under the        *)
(* successor is Nat, and what a step leads to from a start is a function.  *)
EXTENDS Integers, WellFoundedInduction, TLAPS

LEMMA LeastOf ==
    ASSUME NEW S \in SUBSET Nat, S # {}
    PROVE  \E n \in S : \A m \in S : n <= m
<1>1. IsWellFoundedOn(OpToRel(<, Nat), Nat)
  BY NatLessThanWellFounded
<1>2. PICK n \in S : \A m \in S : ~(<<m, n>> \in OpToRel(<, Nat))
  BY <1>1, WFMin
<1>3. \A m \in S : ~(m < n)
  BY <1>2 DEF OpToRel
<1> QED BY <1>3

LEMMA Counting ==
    ASSUME NEW S \in SUBSET Nat, 0 \in S, \A n \in S : n + 1 \in S
    PROVE  S = Nat
<1> SUFFICES ASSUME Nat \ S # {} PROVE FALSE
  OBVIOUS
<1>1. PICK n \in Nat \ S : \A m \in Nat \ S : n <= m
  <2> DEFINE T == Nat \ S
  <2>1. T \in SUBSET Nat /\ T # {}
    OBVIOUS
  <2> HIDE DEF T
  <2>2. \E n \in T : \A m \in T : n <= m
    BY <2>1, LeastOf
  <2> QED BY <2>2 DEF T
<1>2. n # 0 /\ n - 1 \in Nat
  BY <1>1
<1>3. n - 1 \in S
  BY <1>1, <1>2
<1> QED BY <1>1, <1>3

(* A step that looks at how often it was made leads on from every start.   *)
Steps(X) == [Nat -> [X -> X]]

LEMMA RecursionExists ==
    ASSUME NEW X, NEW x0 \in X, NEW s \in Steps(X)
    PROVE  \E h \in [Nat -> X] : h[0] = x0 /\ \A n \in Nat : h[n + 1] = s[n][h[n]]
<1> USE DEF Steps
<1> DEFINE Upto(n, g) == /\ g \in [0 .. n -> X] /\ g[0] = x0
                         /\ \A k \in Nat : k < n => g[k + 1] = s[k][g[k]]
           S == {n \in Nat : \E g : Upto(n, g)}
<1>1. S = Nat
  <2>1. 0 \in S
    <3>1. Upto(0, [k \in 0 .. 0 |-> x0])
      OBVIOUS
    <3> QED BY <3>1
  <2>2. ASSUME NEW n \in S
        PROVE  n + 1 \in S
    <3>1. PICK g : Upto(n, g)
      OBVIOUS
    <3> DEFINE g1 == [k \in 0 .. n + 1 |-> IF k <= n THEN g[k] ELSE s[n][g[n]]]
    <3>2. g \in [0 .. n -> X] /\ n \in Nat
      BY <3>1
    <3>3. g1 \in [0 .. n + 1 -> X]
      BY <3>2
    <3>4. g1[0] = x0
      BY <3>1
    <3>5. ASSUME NEW k \in Nat, k < n + 1
          PROVE  g1[k + 1] = s[k][g1[k]]
      <4>1. CASE k < n
        BY <4>1, <3>1, <3>2
      <4>2. CASE k = n
        BY <4>2, <3>2
      <4> QED BY <4>1, <4>2, <3>5, <3>2
    <3>6. Upto(n + 1, g1)
      BY <3>3, <3>4, <3>5
    <3> HIDE DEF g1, Upto
    <3> QED BY <3>2, <3>6
  <2> HIDE DEF Upto
  <2>3. S \in SUBSET Nat
    OBVIOUS
  <2> HIDE DEF S
  <2> QED BY <2>1, <2>2, <2>3, Counting
<1>2. ASSUME NEW n \in Nat, NEW g, NEW m \in Nat, NEW g1, Upto(n, g), Upto(m, g1)
      PROVE  \A k \in Nat : k <= n /\ k <= m => g[k] = g1[k]
  <2> DEFINE T == {k \in Nat : k <= n /\ k <= m => g[k] = g1[k]}
  <2>1. T \in SUBSET Nat /\ 0 \in T
    BY <1>2
  <2>2. ASSUME NEW k \in T
        PROVE  k + 1 \in T
    <3> SUFFICES ASSUME k + 1 <= n, k + 1 <= m PROVE g[k + 1] = g1[k + 1]
      OBVIOUS
    <3>1. k \in Nat /\ k < n /\ k < m
      OBVIOUS
    <3>2. g[k] = g1[k]
      BY <3>1
    <3> QED BY <3>1, <3>2, <1>2
  <2>3. T = Nat
    <3> HIDE DEF T
    <3> QED BY <2>1, <2>2, Counting
  <2> QED BY <2>3
<1> DEFINE G == [n \in Nat |-> CHOOSE g : Upto(n, g)]
           h == [n \in Nat |-> G[n][n]]
<1>3. \A n \in Nat : Upto(n, G[n])
  <2> TAKE n \in Nat
  <2>1. \E g : Upto(n, g)
    <3> HIDE DEF Upto
    <3> QED BY <1>1
  <2>2. G[n] = CHOOSE g : Upto(n, g)
    OBVIOUS
  <2> HIDE DEF Upto, G
  <2> QED BY <2>1, <2>2
<1> HIDE DEF G
<1>4. h \in [Nat -> X] /\ h[0] = x0
  BY <1>3
<1>5. ASSUME NEW n \in Nat
      PROVE  h[n + 1] = s[n][h[n]]
  <2>1. n + 1 \in Nat /\ Upto(n, G[n]) /\ Upto(n + 1, G[n + 1])
    BY <1>3
  <2>2. G[n][n] = G[n + 1][n]
    <3> HIDE DEF Upto
    <3> QED BY <1>2, <2>1
  <2>3. G[n + 1][n + 1] = s[n][G[n + 1][n]]
    BY <2>1
  <2> QED BY <2>1, <2>2, <2>3
<1> HIDE DEF h
<1> QED BY <1>4, <1>5

(* Every function is iterated from every point. *)
LEMMA IteratesExist ==
    ASSUME NEW X, NEW x0 \in X, NEW s \in [X -> X]
    PROVE  \E h \in [Nat -> X] : h[0] = x0 /\ \A n \in Nat : h[n + 1] = s[h[n]]
<1> DEFINE t == [n \in Nat |-> s]
<1>1. t \in Steps(X) /\ \A n \in Nat : t[n] = s
  BY DEF Steps
<1> HIDE DEF t
<1>2. PICK h \in [Nat -> X] : h[0] = x0 /\ \A n \in Nat : h[n + 1] = t[n][h[n]]
  BY <1>1, RecursionExists
<1> QED BY <1>1, <1>2
===============================================================================
