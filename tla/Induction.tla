----------------------------- MODULE Induction -----------------------------
(***************************************************************************)
(* Induction over the numbers up to n as a fact about sets, which a proof  *)
(* cites without naming an operator: the set of the numbers that have a    *)
(* property is the instance.  It rests on the pigeonhole principle.  With  *)
(* it, what a recursive function computes can be proved.                   *)
(***************************************************************************)
EXTENDS Integers, FiniteSetTheorems, TLAPS

(* Every set of naturals that is not empty has a least element.            *)
LEMMA LeastNatural ==
    ASSUME NEW T \in SUBSET Nat, T # {}
    PROVE  \E n \in T : \A m \in T : n <= m
<1> SUFFICES ASSUME \A n \in T : \E m \in T : m < n
             PROVE  FALSE
  OBVIOUS
<1>1. PICK t \in T : TRUE
  OBVIOUS
<1> DEFINE V == {x \in 0..t : \E m \in T : m <= x}
           f == [x \in V |-> x - 1]
<1>2. t \in V /\ V \subseteq 0..t
  BY <1>1
<1>3. IsFiniteSet(V)
  <2>1. IsFiniteSet(0..t)
    <3>1. 0 \in Int /\ t \in Int
      OBVIOUS
    <3> QED BY ONLY <3>1, FS_Interval
  <2> HIDE DEF V
  <2> QED BY <1>2, <2>1, FS_Subset
<1>4. f \in [V -> V \ {t}]
  <2> SUFFICES ASSUME NEW x \in V PROVE x - 1 \in V /\ x - 1 # t
    OBVIOUS
  <2>1. PICK m \in T : m <= x
    OBVIOUS
  <2>2. PICK k \in T : k < m
    OBVIOUS
  <2> QED BY <1>1, <2>1, <2>2
<1>5. Cardinality(V \ {t}) < Cardinality(V) /\ IsFiniteSet(V \ {t})
  <2> HIDE DEF V
  <2>1. /\ IsFiniteSet(V \ {t})
        /\ Cardinality(V \ {t}) = Cardinality(V) - 1
    BY <1>2, <1>3, FS_RemoveElement
  <2>2. Cardinality(V) \in Nat
    BY <1>3, FS_CardinalityType
  <2> QED BY <2>1, <2>2
<1>6. \E x, y \in V : x # y /\ f[x] = f[y]
  <2> HIDE DEF f, V
  <2> QED BY <1>3, <1>4, <1>5, FS_PigeonHole
<1> QED BY <1>1, <1>6

(* A set that holds 0 and, with each number below n, the next one holds     *)
(* all of 0..n: induction over an initial segment.                         *)
LEMMA UpTo ==
    ASSUME NEW n \in Nat, NEW T, 0 \in T,
           \A i \in 0..n : i \in T /\ i < n => i + 1 \in T
    PROVE  0..n \subseteq T
<1> DEFINE U == (0..n) \ T
<1> SUFFICES ASSUME U # {} PROVE FALSE
  OBVIOUS
<1>1. PICK k \in U : \A m \in U : k <= m
  <2>1. U \in SUBSET Nat
    OBVIOUS
  <2> HIDE DEF U
  <2> QED BY <2>1, LeastNatural
<1>2. k # 0 /\ k - 1 \in 0..n /\ k - 1 \notin U
  BY <1>1
<1> QED BY <1>1, <1>2

(* The values of the rounds when f is applied n times.                     *)
Rounds(g, f, c, n) == \A i \in 0..n : g[i] = IF i = 0 THEN c ELSE f[g[i - 1]]

LEMMA Iterated ==
    ASSUME NEW f, NEW c, NEW n \in Nat
    PROVE  \E g : Rounds(g, f, c, n)
<1> DEFINE T == {k \in 0..n : \E g : Rounds(g, f, c, k)}
<1>1. 0 \in T
  <2> DEFINE g == [i \in 0..0 |-> c]
  <2>1. \A i \in 0..0 : i = 0 /\ g[i] = c
    OBVIOUS
  <2> HIDE DEF g
  <2>2. Rounds(g, f, c, 0)
    BY <2>1 DEF Rounds
  <2> QED BY <2>2
<1>2. ASSUME NEW k \in 0..n, k \in T, k < n PROVE k + 1 \in T
  <2>1. PICK g : Rounds(g, f, c, k)
    BY <1>2
  <2> DEFINE h == [i \in 0..(k + 1) |-> IF i = k + 1 THEN f[g[k]] ELSE g[i]]
  <2>2. h[k + 1] = f[g[k]] /\ \A i \in 0..k : h[i] = g[i]
    OBVIOUS
  <2> HIDE DEF h
  <2>3. ASSUME NEW i \in 0..(k + 1) PROVE h[i] = IF i = 0 THEN c ELSE f[h[i - 1]]
    <3>1. CASE i = k + 1
      <4>1. i # 0 /\ i - 1 = k /\ k \in 0..k
        BY <3>1
      <4> QED BY <2>2, <3>1, <4>1
    <3>2. CASE i # k + 1
      <4>1. i \in 0..k /\ (i # 0 => i - 1 \in 0..k)
        BY <3>2
      <4>2. h[i] = g[i] /\ (i # 0 => h[i - 1] = g[i - 1])
        BY <2>2, <4>1
      <4> QED BY <2>1, <4>1, <4>2 DEF Rounds
    <3> QED BY <3>1, <3>2
  <2>4. Rounds(h, f, c, k + 1)
    BY <2>3 DEF Rounds
  <2>5. k + 1 \in 0..n
    BY <1>2
  <2> QED BY <2>4, <2>5
<1>3. 0..n \subseteq T
  <2> HIDE DEF T
  <2> QED BY <1>1, <1>2, UpTo
<1> QED BY <1>3
=============================================================================
