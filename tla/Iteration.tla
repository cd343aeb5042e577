----------------------------- MODULE Iteration ------------------------------
(***************************************************************************)
(* Induction over the natural numbers and functions defined by iteration,  *)
(* from the well-foundedness of the order of the natural numbers.  The     *)
(* induction predicate is a set, and what is iterated is a function.       *)
(***************************************************************************)
EXTENDS Integers, FiniteSets, TLAPS, WellFoundedInduction, FiniteSetTheorems

LEMMA LeastNat ==
    ASSUME NEW S \in SUBSET Nat, S # {}
    PROVE  \E n \in S : \A m \in S : n <= m
<1> DEFINE R == {ss \in Nat \X Nat : ss[1] < ss[2]}
<1>1. OpToRel(<, Nat) = R
  BY DEF OpToRel
<1>2. IsWellFoundedOn(R, Nat)
  BY <1>1, NatLessThanWellFounded
<1> HIDE DEF R
<1>3. PICK x \in S : \A y \in S : <<y, x>> \notin R
  BY <1>2, WFMin
<1>4. \A y \in S : <<y, x>> \in Nat \X Nat /\ <<y, x>>[1] = y /\ <<y, x>>[2] = x
  OBVIOUS
<1>5. \A y \in S : ~(y < x)
  BY <1>3, <1>4 DEF R
<1>6. \A y \in S : x <= y
  BY <1>5
<1> QED
  BY <1>6

LEMMA Induction ==
    ASSUME NEW S, 0 \in S, \A n \in Nat : n \in S => n + 1 \in S
    PROVE  Nat \subseteq S
<1> SUFFICES ASSUME Nat \ S # {} PROVE FALSE
  OBVIOUS
<1>1. PICK n \in Nat \ S : \A m \in Nat \ S : n <= m
  BY LeastNat
<1>2. n # 0 /\ n - 1 \in Nat
  OBVIOUS
<1>3. n - 1 \in S
  BY <1>1, <1>2
<1> QED
  BY <1>2, <1>3

\* g iterates F from a.
Iterates(g, N, a, F) == g = [n \in 0 .. N |-> IF n = 0 THEN a ELSE F[g[n - 1]]]

LEMMA IterationType ==
    ASSUME NEW N \in Nat, NEW V, NEW a \in V, NEW F \in [V -> V], NEW g, Iterates(g, N, a, F)
    PROVE  /\ g \in [0 .. N -> V] /\ g[0] = a
           /\ \A n \in 1 .. N : g[n] = F[g[n - 1]]
<1> DEFINE next(n) == IF n = 0 THEN a ELSE F[g[n - 1]]
<1>0. g = [n \in 0 .. N |-> next(n)]
  BY Zenon DEF Iterates
<1> HIDE DEF next
<1>1. DOMAIN g = 0 .. N /\ (\A n \in 0 .. N : g[n] = next(n)) /\ g = [n \in 0 .. N |-> g[n]]
  BY <1>0
<1>11. g[0] = a /\ \A n \in 1 .. N : g[n] = F[g[n - 1]]
  <2>1. next(0) = a /\ \A n \in 1 .. N : next(n) = F[g[n - 1]]
    BY DEF next
  <2>2. 0 \in 0 .. N /\ \A n \in 1 .. N : n \in 0 .. N
    OBVIOUS
  <2> HIDE DEF next
  <2> QED
    BY <1>1, <2>1, <2>2
<1> DEFINE S == {n \in Nat : n <= N => g[n] \in V}
<1>2. 0 \in S
  BY <1>11
<1>3. ASSUME NEW n \in Nat, n \in S PROVE n + 1 \in S
  <2>1. CASE n + 1 <= N
    <3>1. g[n] \in V /\ n + 1 \in 1 .. N /\ (n + 1) - 1 = n
      BY <1>3, <2>1
    <3>2. g[n + 1] = F[g[n]]
      BY <1>11, <3>1
    <3> QED
      BY <3>1, <3>2
  <2> QED
    BY <2>1
<1> HIDE DEF S
<1>4. Nat \subseteq S
  BY <1>2, <1>3, Induction
<1>5. \A n \in 0 .. N : g[n] \in V
  BY <1>4 DEF S
<1> QED
  BY <1>1, <1>11, <1>5

LEMMA IterationExists ==
    ASSUME NEW N \in Nat, NEW V, NEW a \in V, NEW F \in [V -> V]
    PROVE  \E g : Iterates(g, N, a, F)
<1> DEFINE S == {n \in Nat : \E g : Iterates(g, n, a, F)}
<1>1. 0 \in S
  <2>1. Iterates([n \in 0 .. 0 |-> a], 0, a, F)
    BY DEF Iterates
  <2> QED
    BY <2>1
<1>2. ASSUME NEW n \in Nat, n \in S PROVE n + 1 \in S
  <2>1. PICK g : Iterates(g, n, a, F)
    BY <1>2
  <2>2. g \in [0 .. n -> V] /\ g[0] = a /\ \A k \in 1 .. n : g[k] = F[g[k - 1]]
    BY <2>1, IterationType
  <2> DEFINE h == [k \in 0 .. n + 1 |-> IF k = n + 1 THEN F[g[n]] ELSE g[k]]
  <2>3. \A k \in 0 .. n + 1 : h[k] = IF k = 0 THEN a ELSE F[h[k - 1]]
    <3> TAKE k \in 0 .. n + 1
    <3>1. CASE k = 0
      BY <2>2, <3>1
    <3>2. CASE k \in 1 .. n
      <4>1. h[k] = g[k] /\ h[k - 1] = g[k - 1]
        BY <3>2
      <4> QED
        BY <2>2, <3>2, <4>1
    <3>3. CASE k = n + 1
      <4>1. h[k - 1] = g[n] /\ h[k] = F[g[n]] /\ k # 0
        BY <3>3
      <4> QED
        BY <4>1
    <3> QED
      BY <3>1, <3>2, <3>3
  <2>4. DOMAIN h = 0 .. n + 1 /\ h = [k \in 0 .. n + 1 |-> h[k]]
    OBVIOUS
  <2> HIDE DEF h
  <2>5. Iterates(h, n + 1, a, F)
    BY <2>3, <2>4 DEF Iterates
  <2> QED
    BY <2>5
<1> HIDE DEF S
<1>3. N \in S
  BY <1>1, <1>2, Induction
<1> QED
  BY <1>3 DEF S

\* Sets that only grow, among as many things as there are steps, end with a fixed point.
LEMMA GrowthEnds ==
    ASSUME NEW C, IsFiniteSet(C), NEW N \in Nat, Cardinality(C) <= N,
           NEW F \in [SUBSET C -> SUBSET C], \A X \in SUBSET C : X \subseteq F[X],
           NEW a \in SUBSET C, NEW g, Iterates(g, N, a, F)
    PROVE  F[g[N]] = g[N]
<1> DEFINE V == SUBSET C
<1>0. a \in V /\ F \in [V -> V]
  OBVIOUS
<1> HIDE DEF V
<1>00. g \in [0 .. N -> V] /\ \A n \in 1 .. N : g[n] = F[g[n - 1]]
  BY <1>0, IterationType
<1>1. /\ g \in [0 .. N -> SUBSET C]
      /\ \A n \in 1 .. N : g[n] = F[g[n - 1]]
  BY <1>00 DEF V
<1>2. \A X \in SUBSET C : IsFiniteSet(X) /\ Cardinality(X) \in Nat /\ Cardinality(X) <= Cardinality(C)
  BY FS_Subset, FS_CardinalityType
<1> DEFINE S == {n \in Nat : n <= N => F[g[n]] = g[n] \/ Cardinality(g[n]) >= n}
<1>3. 0 \in S
  BY <1>1, <1>2
<1>4. ASSUME NEW n \in Nat, n \in S PROVE n + 1 \in S
  <2> SUFFICES ASSUME n + 1 <= N, F[g[n + 1]] # g[n + 1]
               PROVE  Cardinality(g[n + 1]) >= n + 1
    OBVIOUS
  <2>1. n + 1 \in 1 .. N /\ (n + 1) - 1 = n
    OBVIOUS
  <2>2. g[n + 1] = F[g[n]] /\ g[n] \in SUBSET C /\ g[n + 1] \in SUBSET C
    BY <1>1, <2>1
  <2>3. F[g[n]] # g[n]
    BY <2>2
  <2>4. Cardinality(g[n]) >= n
    BY <1>4, <2>3
  <2>5. g[n] \subseteq g[n + 1] /\ g[n] # g[n + 1]
    BY <2>2, <2>3
  <2>6. Cardinality(g[n]) <= Cardinality(g[n + 1]) /\ Cardinality(g[n]) # Cardinality(g[n + 1])
    BY <1>2, <2>2, <2>5, FS_Subset
  <2> QED
    BY <1>2, <2>2, <2>4, <2>6
<1> HIDE DEF S
<1>5. N \in S
  BY <1>3, <1>4, Induction
<1>6. CASE Cardinality(g[N]) >= N
  <2>1. g[N] \in SUBSET C
    BY <1>1
  <2>2. Cardinality(g[N]) = Cardinality(C)
    BY <1>2, <1>6, <2>1, FS_CardinalityType
  <2>3. g[N] = C
    BY <2>1, <2>2, FS_Subset
  <2> QED
    BY <2>1, <2>3
<1> QED
  BY <1>5, <1>6 DEF S

LEMMA GreatestNat ==
    ASSUME NEW N \in Nat, NEW S \in SUBSET (0 .. N), S # {}
    PROVE  \E n \in S : \A m \in S : n >= m
<1> DEFINE T == {N - n : n \in S}
<1>1. T \in SUBSET Nat /\ T # {}
  <2>1. \A n \in 0 .. N : N - n \in Nat
    OBVIOUS
  <2> QED
    BY <2>1
<1>2. PICK t \in T : \A u \in T : t <= u
  BY <1>1, LeastNat
<1>3. PICK n \in S : t = N - n
  BY <1>2
<1>4. \A m \in S : N - n <= N - m
  BY <1>2, <1>3
<1>5. \A m \in S : n >= m
  BY <1>4
<1> QED
  BY <1>5

\* g begins with a at lo, and F makes of each number and the value before it the next value.
Recurs(g, lo, N, a, F) == g = [n \in lo .. N |-> IF n = lo THEN a ELSE F[n][g[n - 1]]]

LEMMA RecursionType ==
    ASSUME NEW lo \in Nat, NEW N \in Nat, NEW V, NEW a \in V, NEW F \in [Nat -> [V -> V]],
           NEW g, Recurs(g, lo, N, a, F)
    PROVE  /\ g \in [lo .. N -> V]
           /\ \A n \in lo .. N : g[n] = IF n = lo THEN a ELSE F[n][g[n - 1]]
<1> DEFINE next(n) == IF n = lo THEN a ELSE F[n][g[n - 1]]
<1>0. g = [n \in lo .. N |-> next(n)]
  BY Zenon DEF Recurs
<1> HIDE DEF next
<1>1. DOMAIN g = lo .. N /\ (\A n \in lo .. N : g[n] = next(n)) /\ g = [n \in lo .. N |-> g[n]]
  BY <1>0
<1>2. (lo <= N => g[lo] = a) /\ \A n \in lo + 1 .. N : g[n] = F[n][g[n - 1]]
  <2>1. next(lo) = a /\ \A n \in lo + 1 .. N : next(n) = F[n][g[n - 1]]
    BY DEF next
  <2>2. (lo <= N => lo \in lo .. N) /\ \A n \in lo + 1 .. N : n \in lo .. N
    OBVIOUS
  <2> QED
    BY <1>1, <2>1, <2>2
<1> DEFINE S == {n \in Nat : lo <= n /\ n <= N => g[n] \in V}
<1>3. 0 \in S
  BY <1>2
<1>4. ASSUME NEW n \in Nat, n \in S PROVE n + 1 \in S
  <2>1. CASE lo <= n /\ n + 1 <= N
    <3>1. g[n] \in V /\ n + 1 \in lo + 1 .. N /\ (n + 1) - 1 = n /\ n + 1 \in Nat
      BY <1>4, <2>1
    <3>2. g[n + 1] = F[n + 1][g[n]]
      BY <1>2, <3>1
    <3> QED
      BY <3>1, <3>2
  <2>2. CASE lo = n + 1
    BY <1>2, <2>2
  <2> QED
    BY <2>1, <2>2
<1> HIDE DEF S
<1>5. Nat \subseteq S
  BY <1>3, <1>4, Induction
<1>6. \A n \in lo .. N : g[n] \in V
  BY <1>5 DEF S
<1>7. g \in [lo .. N -> V]
  BY <1>1, <1>6
<1> QED
  BY <1>1, <1>7 DEF next

LEMMA RecursionExists ==
    ASSUME NEW lo \in Nat, NEW N \in Nat, NEW V, NEW a \in V, NEW F \in [Nat -> [V -> V]]
    PROVE  \E g : Recurs(g, lo, N, a, F)
<1> DEFINE S == {n \in Nat : \E g : Recurs(g, lo, n, a, F)}
<1>1. 0 \in S
  <2>1. Recurs([n \in lo .. 0 |-> a], lo, 0, a, F)
    BY DEF Recurs
  <2> QED
    BY <2>1
<1>2. ASSUME NEW n \in Nat, n \in S PROVE n + 1 \in S
  <2>1. PICK g : Recurs(g, lo, n, a, F)
    BY <1>2
  <2>2. /\ g \in [lo .. n -> V]
        /\ \A k \in lo .. n : g[k] = IF k = lo THEN a ELSE F[k][g[k - 1]]
    BY <2>1, RecursionType
  <2> DEFINE h == [k \in lo .. n + 1 |-> IF k = lo THEN a
                                         ELSE IF k = n + 1 THEN F[k][g[n]] ELSE g[k]]
  <2>3. \A k \in lo .. n + 1 : h[k] = IF k = lo THEN a ELSE F[k][h[k - 1]]
    <3> TAKE k \in lo .. n + 1
    <3>1. CASE k = lo
      BY <3>1
    <3>2. CASE k \in lo + 1 .. n
      <4>1. h[k] = g[k] /\ k # lo
        BY <3>2
      <4>2. k - 1 \in lo .. n /\ k \in lo .. n
        BY <3>2
      <4>3. h[k - 1] = g[k - 1]
        BY <2>2, <4>2
      <4> QED
        BY <2>2, <4>1, <4>2, <4>3
    <3>3. CASE k = n + 1 /\ k # lo
      <4>1. h[k] = F[k][g[n]] /\ k - 1 = n /\ n \in lo .. n
        BY <3>3
      <4>2. h[n] = g[n]
        BY <2>2, <4>1
      <4> QED
        BY <3>3, <4>1, <4>2
    <3> QED
      BY <3>1, <3>2, <3>3
  <2>4. DOMAIN h = lo .. n + 1 /\ h = [k \in lo .. n + 1 |-> h[k]]
    OBVIOUS
  <2> HIDE DEF h
  <2>5. Recurs(h, lo, n + 1, a, F)
    BY <2>3, <2>4 DEF Recurs
  <2> QED
    BY <2>5
<1> HIDE DEF S
<1>3. N \in S
  BY <1>1, <1>2, Induction
<1> QED
  BY <1>3 DEF S
=============================================================================
