------------------------------- MODULE Means -------------------------------
(***************************************************************************)
(* What the proofs about sums and means need to know of \div, Min and Max, *)
(* and of sums over a sequence.                                            *)
(***************************************************************************)
EXTENDS Integers, FiniteSetsExt, WellFoundedInduction, TLAPS

(* Induction for a set of numbers: a least number outside of it would be   *)
(* the successor of one inside.                                            *)
LEMMA SetInduction ==
  ASSUME NEW T, 0 \in T, \A n \in Nat : n \in T => n + 1 \in T
  PROVE  Nat \subseteq T
<1> DEFINE S == Nat \ T
<1>1. SUFFICES ASSUME S # {} PROVE FALSE
  OBVIOUS
<1>2. S \subseteq Nat
  OBVIOUS
<1> HIDE DEF S
<1>3. PICK x \in S : \A y \in S : ~(<<y, x>> \in OpToRel(<, Nat))
  BY <1>1, <1>2, NatLessThanWellFounded, WFMin
<1> USE DEF S
<1>4. x # 0 /\ x - 1 \in Nat /\ x - 1 + 1 = x /\ x - 1 < x
  OBVIOUS
<1>5. x - 1 \notin S
  <2>1. \A y \in Nat : y < x => <<y, x>> \in OpToRel(<, Nat)
    BY <1>4 DEF OpToRel
  <2> QED BY <1>3, <1>4, <2>1, Zenon
<1> QED BY <1>4, <1>5

(* A recursive function over 0 .. m exists: step k is g[k].                *)
Maps(g, S, m) == \A k \in 1 .. m : \A s \in S : g[k][s] \in S
Steps(t, g, a, S, m) ==
  t \in [0 .. m -> S] /\ t[0] = a /\ \A k \in 1 .. m : t[k] = g[k][t[k - 1]]

LEMMA StepsExist ==
  ASSUME NEW S, NEW a \in S, NEW m \in Nat, NEW g, Maps(g, S, m)
  PROVE  \E t : Steps(t, g, a, S, m)
<1> DEFINE T == {n \in Nat : n <= m => \E t : Steps(t, g, a, S, n)}
<1>1. 0 \in T
  <2>1. Steps([k \in 0 .. 0 |-> a], g, a, S, 0)
    BY DEF Steps
  <2> QED BY <2>1
<1>2. ASSUME NEW n \in Nat, n \in T PROVE n + 1 \in T
  <2> SUFFICES ASSUME n + 1 <= m PROVE \E t : Steps(t, g, a, S, n + 1)
    OBVIOUS
  <2>1. PICK t : Steps(t, g, a, S, n)
    BY <1>2
  <2> DEFINE u == [k \in 0 .. n + 1 |-> IF k = n + 1 THEN g[n + 1][t[n]] ELSE t[k]]
  <2>2. g[n + 1][t[n]] \in S
    BY <2>1 DEF Maps, Steps
  <2>3. Steps(u, g, a, S, n + 1)
    BY <2>1, <2>2 DEF Steps
  <2> QED BY <2>3
<1>3. Nat \subseteq T
  <2> HIDE DEF T
  <2> QED BY <1>1, <1>2, SetInduction
<1> QED BY <1>3

(* The quotient of a sum of k readings lies where the readings lie.        *)
LEMMA DivLow ==
  ASSUME NEW a \in Nat, NEW k \in Nat, k > 0, NEW m \in Nat, a >= k * m
  PROVE  a \div k >= m
<1>1. a = k * (a \div k) + (a % k) /\ a % k \in 0 .. k - 1 /\ a \div k \in Nat
  OBVIOUS
<1> DEFINE q == a \div k
           r == a % k
<1> HIDE DEF q, r
<1>2. q \in Nat /\ r \in Nat /\ r < k /\ a = k * q + r
  BY <1>1 DEF q, r
<1>3. SUFFICES ASSUME q < m PROVE FALSE
  BY <1>2 DEF q
<1>4. q + 1 <= m
  BY <1>2, <1>3
<1>5. k * (q + 1) <= k * m
  BY <1>2, <1>4
<1>6. k * (q + 1) = k * q + k
  BY <1>2
<1> QED BY <1>2, <1>5, <1>6

LEMMA DivHigh ==
  ASSUME NEW a \in Nat, NEW k \in Nat, k > 0, NEW m \in Nat, a <= k * m
  PROVE  a \div k <= m
<1>1. a = k * (a \div k) + (a % k) /\ a % k \in 0 .. k - 1 /\ a \div k \in Nat
  OBVIOUS
<1> DEFINE q == a \div k
           r == a % k
<1> HIDE DEF q, r
<1>2. q \in Nat /\ r \in Nat /\ r < k /\ a = k * q + r
  BY <1>1 DEF q, r
<1>3. SUFFICES ASSUME q > m PROVE FALSE
  BY <1>2 DEF q
<1>4. q >= m + 1
  BY <1>2, <1>3
<1>5. k * q >= k * (m + 1)
  BY <1>2, <1>4
<1>6. k * (m + 1) = k * m + k
  BY <1>2
<1> QED BY <1>2, <1>5, <1>6

(* Products grow with their factors.                                       *)
LEMMA MulMono ==
  ASSUME NEW k \in Nat, NEW l \in Nat, NEW m \in Nat, NEW n \in Nat, k <= l, m <= n
  PROVE  k * m <= l * n
<1>1. k * m <= l * m
  OBVIOUS
<1>2. l * m <= l * n
  OBVIOUS
<1> QED BY <1>1, <1>2

(* The smallest and the largest of a set of numbers.                       *)
LEMMA MinMaxAre ==
  ASSUME NEW S \in SUBSET Nat, NEW low \in S, NEW high \in S,
         \A r \in S : low <= r /\ r <= high
  PROVE  Min(S) = low /\ Max(S) = high
<1>1. Min(S) \in S /\ \A r \in S : Min(S) <= r
  BY DEF Min
<1>2. Max(S) \in S /\ \A r \in S : Max(S) >= r
  BY DEF Max
<1>3. \A a, b \in Nat : a <= b /\ b <= a => a = b
  OBVIOUS
<1>4. Min(S) \in Nat /\ Max(S) \in Nat /\ low \in Nat /\ high \in Nat
  BY <1>1, <1>2
<1>5. Min(S) <= low /\ low <= Min(S)
  BY <1>1
<1>6. high <= Max(S) /\ Max(S) <= high
  BY <1>2, <1>4
<1> QED BY <1>3, <1>4, <1>5, <1>6

(* A sum that stays at its bound is the sum or the bound.                  *)
LEMMA CappedIs ==
  ASSUME NEW a \in Nat, NEW b \in Nat
  PROVE  Min({a, b}) \in {a, b} /\ Min({a, b}) <= a /\ Min({a, b}) <= b
<1>1. CASE a <= b
  <2>1. a \in {a, b} /\ \A y \in {a, b} : a <= y
    BY <1>1
  <2>2. Min({a, b}) \in {a, b} /\ \A y \in {a, b} : Min({a, b}) <= y
    BY <2>1, Zenon DEF Min
  <2> QED BY <2>2
<1>2. CASE b <= a
  <2>1. b \in {a, b} /\ \A y \in {a, b} : b <= y
    BY <1>2
  <2>2. Min({a, b}) \in {a, b} /\ \A y \in {a, b} : Min({a, b}) <= y
    BY <2>1, Zenon DEF Min
  <2> QED BY <2>2
<1> QED BY <1>1, <1>2
=============================================================================
