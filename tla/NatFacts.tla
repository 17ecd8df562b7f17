------------------------------ MODULE NatFacts ------------------------------
(***************************************************************************)
(* Induction over the natural numbers and recursion over an interval of    *)
(* them, for sets and functions: what proofs about recursively defined     *)
(* functions of the other modules rest on.                                 *)
(***************************************************************************)
EXTENDS Naturals, WellFoundedInduction, TLAPS

\* A set of naturals that is not empty has a least element.
LEMMA LeastNatural ==
  ASSUME NEW T \in SUBSET Nat, T # {}
  PROVE  \E m \in T : \A k \in T : m <= k
<1> DEFINE R == OpToRel(<, Nat)
<1>1. IsWellFoundedOn(R, Nat)
  BY NatLessThanWellFounded
<1>2. \E x \in T : \A y \in T : ~ (<<y, x>> \in R)
  <2> HIDE DEF R
  <2> QED BY <1>1, WFMin
<1>3. \A x, y \in Nat : y < x => <<y, x>> \in R
  BY DEF OpToRel
<1> HIDE DEF R
<1>4. PICK x \in T : \A y \in T : ~ (<<y, x>> \in R)
  BY <1>2
<1>5. ASSUME NEW k \in T PROVE x <= k
  <2>1. x \in Nat /\ k \in Nat
    OBVIOUS
  <2>2. ~ (k < x)
    BY <1>3, <1>4, <2>1
  <2> QED BY <2>1, <2>2
<1> QED BY <1>5

\* A set of naturals that has 0 and the successor of each element has all.
LEMMA SetInduction ==
  ASSUME NEW S \in SUBSET Nat, 0 \in S, \A n \in S : n + 1 \in S
  PROVE  S = Nat
<1> SUFFICES ASSUME Nat \ S # {} PROVE FALSE
  OBVIOUS
<1>1. PICK m \in Nat \ S : \A k \in Nat \ S : m <= k
  BY LeastNatural
<1>2. m # 0 /\ m - 1 \in Nat /\ ~ (m <= m - 1)
  BY <1>1
<1>3. m - 1 \in S
  BY <1>1, <1>2
<1>4. (m - 1) + 1 \in S
  BY <1>3
<1> QED BY <1>1, <1>2, <1>4

\* f starts with v, and each value follows from the one before by G.
Follows(f, v, n, G) == f[0] = v /\ \A i \in 1 .. n : f[i] = G[i][f[i - 1]]

\* A function on 0 .. n can be defined by its first value and by how each
\* value follows from the one before.
LEMMA Recursion ==
  ASSUME NEW n \in Nat, NEW V, NEW v \in V, NEW G \in [1 .. n -> [V -> V]]
  PROVE  \E f \in [0 .. n -> V] : Follows(f, v, n, G)
<1> DEFINE Fits(f, m) == f[0] = v /\ \A i \in 1 .. m : f[i] = G[i][f[i - 1]]
           Has(m) == \E f \in [0 .. m -> V] : Fits(f, m)
           S == {m \in Nat : m <= n => Has(m)}
<1>1. 0 \in S
  <2> DEFINE f == [i \in 0 .. 0 |-> v]
  <2>1. f \in [0 .. 0 -> V] /\ Fits(f, 0)
    OBVIOUS
  <2>2. \E h \in [0 .. 0 -> V] : Fits(h, 0)
    BY <2>1
  <2> QED BY <2>2
<1>2. ASSUME NEW m \in S PROVE m + 1 \in S
  <2> HIDE DEF Has
  <2>0. m \in Nat /\ (m <= n => Has(m))
    BY <1>2
  <2> SUFFICES ASSUME m + 1 <= n PROVE Has(m + 1)
    BY <2>0
  <2> USE DEF Has
  <2>1. PICK f \in [0 .. m -> V] : Fits(f, m)
    BY <2>0
  <2>2. m \in Nat /\ m + 1 \in 1 .. n /\ f[m] \in V /\ G[m + 1] \in [V -> V]
    BY <1>2, <2>1
  <2>3. G[m + 1][f[m]] \in V
    BY <2>2
  <2> DEFINE g == [i \in 0 .. m + 1 |->
                      IF i = m + 1 THEN G[m + 1][f[m]] ELSE f[i]]
  <2>4. g \in [0 .. m + 1 -> V]
    BY <2>1, <2>2, <2>3
  <2>5. /\ g[m + 1] = G[m + 1][f[m]]
        /\ \A i \in 0 .. m : g[i] = f[i]
    BY <2>2
  <2>6. ASSUME NEW i \in 1 .. m + 1 PROVE g[i] = G[i][g[i - 1]]
    <3>1. i - 1 \in 0 .. m /\ g[i - 1] = f[i - 1]
      BY <2>2, <2>5
    <3>2. CASE i = m + 1
      BY <2>2, <2>5, <3>1, <3>2
    <3>3. CASE i # m + 1
      <4>1. i \in 1 .. m /\ g[i] = f[i]
        BY <2>2, <2>5, <3>3
      <4> QED BY <2>1, <3>1, <4>1
    <3> QED BY <3>2, <3>3
  <2>7. g[0] = v
    BY <2>1, <2>2, <2>5
  <2>8. Fits(g, m + 1)
    BY <2>6, <2>7
  <2> HIDE DEF g
  <2> QED BY <2>4, <2>8
<1>3. S = Nat
  <2> HIDE DEF S
  <2>1. S \in SUBSET Nat
    BY DEF S
  <2> QED BY <1>1, <1>2, <2>1, SetInduction
<1>4. n \in S
  BY <1>3
<1>5. n <= n
  OBVIOUS
<1>6. \E f \in [0 .. n -> V] : Fits(f, n)
  BY <1>4, <1>5
<1> QED BY <1>6 DEF Follows
=============================================================================
