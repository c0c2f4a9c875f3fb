-------------------------- MODULE RecursionProofs ---------------------------
(***************************************************************************)
(* Induction on the naturals and functions defined by recursion on them.   *)
(* The theorems of the library take a predicate, which no installed prover *)
(* can instantiate; these are the same for sets and functions, from the    *)
(* well-foundedness of the naturals.                                       *)
(***************************************************************************)
EXTENDS Integers, WellFoundedInduction, TLAPS

-----------------------------------------------------------------------------
\* A set that has 0 and the successor of each number it has, has all of them.
LEMMA Induction ==
    ASSUME NEW T, 0 \in T, \A n \in Nat : n \in T => n + 1 \in T
    PROVE  Nat \subseteq T
<1> DEFINE R == {ss \in Nat \X Nat : ss[1] < ss[2]}
<1> SUFFICES ASSUME Nat \ T # {}
             PROVE  FALSE
  OBVIOUS
<1>1. IsWellFoundedOn(R, Nat)
  BY NatLessThanWellFounded DEF OpToRel
<1> HIDE DEF R
<1>2. PICK x \in Nat \ T : \A y \in Nat \ T : ~(<<y, x>> \in R)
  BY <1>1, WFMin
<1>3. x # 0 /\ x - 1 \in Nat /\ x - 1 \notin T
  OBVIOUS
<1>4. <<x - 1, x>> \in R
  BY <1>3 DEF R
<1> QED  BY <1>2, <1>3, <1>4

\* A value for every step from 0 to n.
Steps(f, V, v0, step, n) ==
    /\ f \in [0 .. n -> V]
    /\ f[0] = v0
    /\ \A i \in 1 .. n : f[i] = step[<<i, f[i - 1]>>]

LEMMA Recursion ==
    ASSUME NEW V, NEW v0 \in V, NEW step \in [Nat \X V -> V], NEW n \in Nat
    PROVE  \E f : Steps(f, V, v0, step, n)
<1> DEFINE T == {m \in Nat : \E f : Steps(f, V, v0, step, m)}
<1>1. 0 \in T
  <2>1. Steps([i \in 0 .. 0 |-> v0], V, v0, step, 0)
    BY DEF Steps
  <2> QED  BY <2>1
<1>2. ASSUME NEW m \in Nat, m \in T
      PROVE  m + 1 \in T
  <2>1. PICK f : Steps(f, V, v0, step, m)
    BY <1>2
  <2> DEFINE g == [i \in 0 .. m + 1 |-> IF i <= m THEN f[i] ELSE step[<<m + 1, f[m]>>]]
  <2>2. f[m] \in V /\ step[<<m + 1, f[m]>>] \in V
    BY <2>1 DEF Steps
  <2>3. g \in [0 .. m + 1 -> V] /\ g[0] = v0
    BY <2>1, <2>2 DEF Steps
  <2>4. ASSUME NEW i \in 1 .. m + 1
        PROVE  g[i] = step[<<i, g[i - 1]>>]
    <3>1. CASE i <= m
      BY <2>1, <3>1 DEF Steps
    <3>2. CASE i = m + 1
      BY <3>2
    <3> QED  BY <3>1, <3>2
  <2>5. Steps(g, V, v0, step, m + 1)
    BY <2>3, <2>4 DEF Steps
  <2> QED  BY <2>5
<1> HIDE DEF T
<1>3. Nat \subseteq T
  BY <1>1, <1>2, Induction
<1> QED  BY <1>3 DEF T

LEMMA RecursionUnique ==
    ASSUME NEW V, NEW v0, NEW step, NEW n \in Nat, NEW f, NEW g,
           Steps(f, V, v0, step, n), Steps(g, V, v0, step, n)
    PROVE  f = g
<1> DEFINE T == {m \in Nat : m <= n => f[m] = g[m]}
<1>1. 0 \in T
  BY DEF Steps
<1>2. ASSUME NEW m \in Nat, m \in T
      PROVE  m + 1 \in T
  <2>1. CASE m + 1 <= n
    <3>1. f[m] = g[m] /\ m + 1 \in 1 .. n /\ (m + 1) - 1 = m
      BY <1>2, <2>1
    <3>2. f[m + 1] = step[<<m + 1, f[m]>>] /\ g[m + 1] = step[<<m + 1, g[m]>>]
      BY <3>1 DEF Steps
    <3> QED  BY <3>1, <3>2
  <2> QED  BY <2>1
<1> HIDE DEF T
<1>3. Nat \subseteq T
  BY <1>1, <1>2, Induction
<1>4. \A m \in 0 .. n : f[m] = g[m]
  BY <1>3 DEF T
<1> QED  BY <1>4 DEF Steps

=============================================================================
