---------------------------- MODULE Reading_proofs ----------------------------
(***************************************************************************)
(* What Ingestion promises of the text that is read, for any layout, sizes *)
(* of batches and fragments, answers of the model and bounds: that a ready *)
(* document was read whole, that findings cite its present text, and that  *)
(* nothing is paid for twice; and the types of its variables.              *)
(*                                                                         *)
(* Fragments and BlockBatches come first: the batches of a page divide its *)
(* fragments, so that no two show the same, and every position is in one.  *)
(***************************************************************************)
EXTENDS Ingestion_proofs, Iteration

(***************************************************************************)
(* What the model is shown.                                                *)
(***************************************************************************)
FragmentType == [block : Nat \X Nat \X Int, from : Nat, to : Int]

\* What is in some of a sequence of sequences.
Among(ss) == UNION {Range(ss[i]) : i \in DOMAIN ss}
Once(s) == \A i, j \in DOMAIN s : s[i] = s[j] => i = j
Apart(ss) == \A i, j \in DOMAIN ss : i # j => Range(ss[i]) \cap Range(ss[j]) = {}

\* A sequence, its range and its elements.
LEMMA RangeOf ==
    ASSUME NEW T, NEW s \in Seq(T)
    PROVE  /\ Range(s) = {s[i] : i \in 1 .. Len(s)} /\ Range(s) \in SUBSET T
           /\ Len(s) \in Nat /\ DOMAIN s = 1 .. Len(s)
           /\ \A i \in 1 .. Len(s) : s[i] \in T
BY ElementOfSeq, LenProperties DEF Range

\* The range of a concatenation, and when nothing is in it twice.
LEMMA ConcatFacts ==
    ASSUME NEW T, NEW s \in Seq(T), NEW t \in Seq(T)
    PROVE  /\ s \o t \in Seq(T) /\ Range(s \o t) = Range(s) \cup Range(t)
           /\ Once(s) /\ Once(t) /\ Range(s) \cap Range(t) = {} => Once(s \o t)
<1> DEFINE m == Len(s)
           n == Len(t)
           c == s \o t
<1>1. /\ c \in Seq(T) /\ Len(c) = m + n /\ m \in Nat /\ n \in Nat
      /\ \A i \in 1 .. m + n : c[i] = IF i <= m THEN s[i] ELSE t[i - m]
  BY ConcatProperties, LenProperties
<1>2. DOMAIN s = 1 .. m /\ DOMAIN t = 1 .. n /\ DOMAIN c = 1 .. m + n
  BY <1>1, LenProperties
<1> HIDE DEF m, n, c
<1>3. \A i \in 1 .. m : i \in 1 .. m + n /\ c[i] = s[i]
  BY <1>1
<1>4. \A i \in 1 .. n : m + i \in 1 .. m + n /\ c[m + i] = t[i]
  BY <1>1
<1>5. \A i \in 1 .. m + n : i \in 1 .. m \/ (i - m \in 1 .. n /\ i = m + (i - m))
  BY <1>1
<1>6. Range(c) = Range(s) \cup Range(t)
  <2>1. ASSUME NEW x \in Range(c) PROVE x \in Range(s) \cup Range(t)
    <3>1. PICK i \in 1 .. m + n : x = c[i]
      BY <1>2 DEF Range
    <3>2. CASE i \in 1 .. m
      BY <1>2, <1>3, <3>1, <3>2 DEF Range
    <3>3. CASE i - m \in 1 .. n /\ i = m + (i - m)
      <4>1. x = t[i - m]
        BY <1>4, <3>1, <3>3
      <4> QED
        BY <1>2, <3>3, <4>1 DEF Range
    <3> QED
      BY <1>5, <3>2, <3>3
  <2>2. ASSUME NEW x \in Range(s) \cup Range(t) PROVE x \in Range(c)
    BY <1>2, <1>3, <1>4 DEF Range
  <2> QED
    BY <2>1, <2>2
<1>7. ASSUME Once(s), Once(t), Range(s) \cap Range(t) = {} PROVE Once(c)
  <2>1. \A x \in 1 .. m : \A y \in 1 .. n : s[x] # t[y]
    BY <1>2, <1>7 DEF Range
  <2> SUFFICES ASSUME NEW i \in 1 .. m + n, NEW j \in 1 .. m + n, c[i] = c[j] PROVE i = j
    BY <1>2 DEF Once
  <2>2. CASE i \in 1 .. m /\ j \in 1 .. m
    BY <1>2, <1>3, <1>7, <2>2 DEF Once
  <2>3. CASE i \in 1 .. m /\ j - m \in 1 .. n /\ j = m + (j - m)
    <3>1. c[i] = s[i] /\ c[j] = t[j - m]
      BY <1>3, <1>4, <2>3
    <3> QED
      BY <2>1, <2>3, <3>1
  <2>4. CASE j \in 1 .. m /\ i - m \in 1 .. n /\ i = m + (i - m)
    <3>1. c[j] = s[j] /\ c[i] = t[i - m]
      BY <1>3, <1>4, <2>4
    <3> QED
      BY <2>1, <2>4, <3>1
  <2>5. CASE i - m \in 1 .. n /\ i = m + (i - m) /\ j - m \in 1 .. n /\ j = m + (j - m)
    <3>1. c[j] = t[j - m] /\ c[i] = t[i - m]
      BY <1>4, <2>5
    <3>2. i - m = j - m
      BY <1>2, <1>7, <2>5, <3>1 DEF Once
    <3> QED
      BY <2>5, <3>2
  <2> QED
    BY <1>5, <2>2, <2>3, <2>4, <2>5
<1> QED
  BY <1>1, <1>6, <1>7 DEF c

\* The concatenation of all: what is in it, and when nothing is in it twice.
LEMMA FlattenFacts ==
    ASSUME NEW T, NEW ss \in Seq(Seq(T))
    PROVE  /\ FlattenSeq(ss) \in Seq(T) /\ Range(FlattenSeq(ss)) = Among(ss)
           /\ (\A i \in DOMAIN ss : Once(ss[i])) /\ Apart(ss) => Once(FlattenSeq(ss))
<1> DEFINE N == Len(ss)
           V == Seq(T)
           next(n, v) == v \o ss[n]
           F == [n \in Nat |-> [v \in V |-> IF n \in 1 .. N THEN next(n, v) ELSE v]]
           flatten == CHOOSE f : f = [i \in 1 .. N |-> IF i = 1 THEN ss[i] ELSE f[i - 1] \o ss[i]]
<1>1. N \in Nat /\ DOMAIN ss = 1 .. N /\ \A i \in 1 .. N : ss[i] \in V
  BY RangeOf
<1>2. CASE N = 0
  <2>1. ss = <<>> /\ FlattenSeq(ss) = ss
    BY <1>2, EmptySeq DEF FlattenSeq
  <2>2. ss \in Seq(T) /\ DOMAIN ss = {} /\ Among(ss) = {} /\ Range(ss) = {} /\ Once(ss)
    BY <1>1, <1>2, <2>1 DEF Among, Range, Once
  <2> QED
    BY <2>1, <2>2
<1>3. CASE N # 0
  <2>1. N \in Nat \ {0} /\ 1 \in 1 .. N /\ ss[1] \in V
    BY <1>1, <1>3
  <2>2. \A n \in 1 .. N : \A v \in V : next(n, v) \in V
    BY <1>1, ConcatProperties
  <2>3. F \in [Nat -> [V -> V]] /\ \A n \in 1 .. N : \A v \in V : F[n][v] = next(n, v)
    <3> HIDE DEF V, N, next
    <3>1. \A n \in Nat : [v \in V |-> IF n \in 1 .. N THEN next(n, v) ELSE v] \in [V -> V]
      BY <2>2
    <3> QED
      BY <1>1, <3>1
  <2> DEFINE one == 1
             first == ss[1]
  <2>30. one \in Nat /\ first \in V
    BY <2>1
  <2> HIDE DEF F, V, N, one, first
  <2>31. N \in Nat /\ F \in [Nat -> [V -> V]]
    BY <1>1, <2>3
  <2>4. PICK g : Recurs(g, one, N, first, F)
    BY <2>30, <2>31, RecursionExists
  <2>40. g \in [one .. N -> V]
    BY <2>30, <2>31, <2>4, RecursionType
  <2>41. \A n \in one .. N : g[n] = IF n = one THEN first ELSE F[n][g[n - 1]]
    BY <2>30, <2>31, <2>4, RecursionType
  <2>5. /\ g \in [1 .. N -> V]
        /\ \A n \in 1 .. N : g[n] = IF n = 1 THEN ss[1] ELSE F[n][g[n - 1]]
    BY <2>40, <2>41 DEF one, first
  <2>6. g = [i \in 1 .. N |-> IF i = 1 THEN ss[i] ELSE g[i - 1] \o ss[i]]
    <3>0. \A n \in 1 .. N : n # 1 => n - 1 \in 1 .. N
      BY <2>31
    <3>1. \A n \in 1 .. N : n # 1 => g[n - 1] \in V
      BY <2>5, <3>0
    <3>2. \A n \in 1 .. N : g[n] = IF n = 1 THEN ss[n] ELSE g[n - 1] \o ss[n]
      BY <2>3, <2>5, <3>1
    <3> QED
      BY <2>5, <3>2
  <2>7. flatten = [i \in 1 .. N |-> IF i = 1 THEN ss[i] ELSE flatten[i - 1] \o ss[i]]
    BY <2>6
  <2>8. FlattenSeq(ss) = flatten[N]
    BY <1>3 DEF FlattenSeq, N
  <2> HIDE DEF flatten
  <2>9. /\ flatten[1] = ss[1]
        /\ \A n \in 1 .. N : n + 1 <= N => flatten[n + 1] = flatten[n] \o ss[n + 1]
    <3>1. \A n \in 1 .. N : n + 1 <= N => n + 1 \in 1 .. N /\ n + 1 # 1 /\ (n + 1) - 1 = n
      BY <1>1
    <3> QED
      BY <2>1, <2>7, <3>1
  <2> DEFINE fine == (\A i \in DOMAIN ss : Once(ss[i])) /\ Apart(ss)
             Good(n) == /\ flatten[n] \in V
                        /\ Range(flatten[n]) = UNION {Range(ss[i]) : i \in 1 .. n}
                        /\ fine => Once(flatten[n])
             S == {n \in Nat : 1 <= n /\ n <= N => Good(n)}
  <2>10. 0 \in S
    OBVIOUS
  <2>11. ASSUME NEW n \in Nat, n \in S PROVE n + 1 \in S
    <3>1. CASE n = 0
      <4>1. \A i \in 1 .. 1 : i = 1
        OBVIOUS
      <4>2. UNION {Range(ss[i]) : i \in 1 .. 1} = Range(ss[1])
        BY <4>1
      <4>3. Good(1)
        BY <1>1, <2>1, <2>9, <4>2
      <4> QED
        BY <3>1, <4>3
    <3>2. CASE n \in 1 .. N /\ n + 1 <= N
      <4>1. Good(n) /\ n + 1 \in 1 .. N
        BY <2>11, <3>2
      <4>2. flatten[n] \in Seq(T) /\ ss[n + 1] \in Seq(T)
        BY <1>1, <4>1 DEF V
      <4>3. flatten[n + 1] = flatten[n] \o ss[n + 1]
        BY <2>9, <3>2
      <4>4. /\ flatten[n + 1] \in Seq(T)
            /\ Range(flatten[n + 1]) = Range(flatten[n]) \cup Range(ss[n + 1])
            /\ Once(flatten[n]) /\ Once(ss[n + 1]) /\ Range(flatten[n]) \cap Range(ss[n + 1]) = {}
                  => Once(flatten[n + 1])
        BY <4>2, <4>3, ConcatFacts
      <4>5. Range(flatten[n + 1]) = UNION {Range(ss[i]) : i \in 1 .. n + 1}
        <5>1. \A i : i \in 1 .. n + 1 <=> i \in 1 .. n \/ i = n + 1
          BY <3>2
        <5> QED
          BY <4>1, <4>4, <5>1
      <4>6. ASSUME fine PROVE Once(flatten[n + 1])
        <5>1. Once(flatten[n]) /\ Once(ss[n + 1])
          BY <1>1, <4>1, <4>6
        <5>2. \A i \in 1 .. n : i \in 1 .. N /\ i # n + 1
          BY <1>1, <3>2
        <5>3. \A i \in 1 .. n : Range(ss[i]) \cap Range(ss[n + 1]) = {}
          BY <1>1, <4>1, <4>6, <5>2 DEF Apart
        <5>4. Range(flatten[n]) \cap Range(ss[n + 1]) = {}
          BY <4>1, <5>3
        <5> QED
          BY <4>4, <5>1, <5>4
      <4> QED
        BY <4>4, <4>5, <4>6 DEF V
    <3>3. CASE n # 0 /\ ~(n + 1 <= N)
      BY <3>3
    <3> QED
      BY <1>1, <3>1, <3>2, <3>3
  <2> HIDE DEF S
  <2>12. N \in S
    BY <1>1, <2>10, <2>11, Induction
  <2>13. Good(N)
    BY <2>1, <2>12 DEF S
  <2> QED
    BY <1>1, <2>8, <2>13 DEF Among, V
<1> QED
  BY <1>2, <1>3

\* Batches: none is empty, and nothing is in two of them.
Packed(bs) == (\A j \in DOMAIN bs : bs[j] # <<>>) /\ Apart(bs)

\* One more element.
LEMMA AppendFacts ==
    ASSUME NEW T, NEW s \in Seq(T), NEW x \in T
    PROVE  /\ Append(s, x) \in Seq(T) /\ Append(s, x) # <<>>
           /\ Len(Append(s, x)) = Len(s) + 1 /\ Append(s, x)[Len(s) + 1] = x
           /\ \A i \in 1 .. Len(s) : Append(s, x)[i] = s[i]
           /\ Range(Append(s, x)) = Range(s) \cup {x}
<1> DEFINE a == Append(s, x)
           n == Len(s)
<1>1. /\ a \in Seq(T) /\ a # <<>> /\ Len(a) = n + 1 /\ a[n + 1] = x /\ n \in Nat
      /\ \A i \in 1 .. n : a[i] = s[i]
  BY AppendProperties, LenProperties
<1>2. DOMAIN a = 1 .. n + 1 /\ DOMAIN s = 1 .. n
  BY <1>1, LenProperties
<1> HIDE DEF a, n
<1>3. \A i : i \in 1 .. n + 1 <=> i \in 1 .. n \/ i = n + 1
  BY <1>1
<1>4. Range(a) = Range(s) \cup {x}
  BY <1>1, <1>2, <1>3 DEF Range
<1> QED
  BY <1>1, <1>4 DEF a, n

\* A fragment more is one more batch or a longer last one.
LEMMA ExtendedType ==
    ASSUME NEW T, NEW bs \in Seq(Seq(T)), NEW f \in T
    PROVE  Extended(bs, f) \in Seq(Seq(T))
<1>1. Len(bs) \in Nat /\ \A i \in 1 .. Len(bs) : bs[i] \in Seq(T)
  BY RangeOf
<1>2. CASE Extended(bs, f) = Append(bs, <<f>>)
  BY <1>2
<1>3. CASE bs # <<>> /\ Extended(bs, f) = Append(Front(bs), Append(Last(bs), f))
  <2>1. Len(bs) \in 1 .. Len(bs) /\ Len(bs) - 1 \in Nat
    BY <1>1, <1>3, EmptySeq
  <2>2. Append(Last(bs), f) \in Seq(T)
    BY <1>1, <2>1, AppendFacts DEF Last
  <2>3. Front(bs) \in Seq(Seq(T))
    BY <1>1, <2>1, SubSeqProperties DEF Front
  <2> QED
    BY <1>3, <2>2, <2>3, AppendFacts
<1> QED
  BY <1>2, <1>3 DEF Extended

\* A new fragment goes into one batch, and the others stay as they are.
LEMMA ExtendedFacts ==
    ASSUME NEW T, NEW bs \in Seq(Seq(T)), Packed(bs), NEW f \in T, f \notin Among(bs)
    PROVE  /\ Extended(bs, f) \in Seq(Seq(T)) /\ Packed(Extended(bs, f))
           /\ Among(Extended(bs, f)) = Among(bs) \cup {f}
<1> DEFINE e == Extended(bs, f)
           n == Len(bs)
<1>1. /\ n \in Nat /\ DOMAIN bs = 1 .. n /\ \A i \in 1 .. n : bs[i] \in Seq(T)
  BY RangeOf
<1>2. \A i \in 1 .. n : f \notin Range(bs[i])
  BY <1>1 DEF Among
<1>3. CASE e = Append(bs, <<f>>)
  <2>1. <<f>> \in Seq(T) /\ <<f>> # <<>> /\ Range(<<f>>) = {f}
    BY DEF Range
  <2>2. /\ e \in Seq(Seq(T)) /\ Len(e) = n + 1 /\ e[n + 1] = <<f>>
        /\ \A i \in 1 .. n : e[i] = bs[i]
    BY <1>3, <2>1, AppendFacts
  <2>3. DOMAIN e = 1 .. n + 1
    BY <2>2, RangeOf
  <2> HIDE DEF e, n
  <2>4. \A i : i \in 1 .. n + 1 <=> i \in 1 .. n \/ i = n + 1
    BY <1>1
  <2>5. /\ Range(e[n + 1]) = {f} /\ e[n + 1] # <<>>
        /\ \A i \in 1 .. n : Range(e[i]) = Range(bs[i]) /\ e[i] # <<>>
    BY <1>1, <2>1, <2>2 DEF Packed
  <2>6. Among(e) = Among(bs) \cup {f}
    BY <1>1, <2>3, <2>4, <2>5 DEF Among
  <2>7. ASSUME NEW i \in 1 .. n + 1, NEW j \in 1 .. n + 1, i # j
        PROVE  Range(e[i]) \cap Range(e[j]) = {}
    <3>1. CASE i \in 1 .. n /\ j \in 1 .. n
      BY <1>1, <2>5, <2>7, <3>1 DEF Packed, Apart
    <3>2. CASE i = n + 1 /\ j \in 1 .. n
      BY <1>2, <2>5, <3>2
    <3>3. CASE i \in 1 .. n /\ j = n + 1
      BY <1>2, <2>5, <3>3
    <3> QED
      BY <2>4, <2>7, <3>1, <3>2, <3>3
  <2>8. Packed(e)
    BY <2>3, <2>4, <2>5, <2>7 DEF Packed, Apart
  <2> QED
    BY <2>2, <2>6, <2>8 DEF e
<1>4. CASE bs # <<>> /\ e = Append(Front(bs), Append(Last(bs), f))
  <2>1. n \in 1 .. n /\ n - 1 \in Nat /\ bs[n] \in Seq(T)
    BY <1>1, <1>4, EmptySeq
  <2> DEFINE top == Append(bs[n], f)
  <2>2. top \in Seq(T) /\ top # <<>> /\ Range(top) = Range(bs[n]) \cup {f}
    BY <2>1, AppendFacts
  <2> HIDE DEF top
  <2>3. /\ Front(bs) \in Seq(Seq(T)) /\ Len(Front(bs)) = n - 1
        /\ \A i \in 1 .. n - 1 : Front(bs)[i] = bs[i]
    BY <1>1, <2>1, SubSeqProperties DEF Front
  <2>4. /\ e \in Seq(Seq(T)) /\ Len(e) = n /\ e[n] = top
        /\ \A i \in 1 .. n - 1 : e[i] = bs[i]
    <3>1. e = Append(Front(bs), top)
      BY <1>4 DEF Last, top
    <3>2. (n - 1) + 1 = n
      BY <1>1
    <3> HIDE DEF e, n
    <3> QED
      BY <2>2, <2>3, <3>1, <3>2, AppendFacts
  <2>5. DOMAIN e = 1 .. n
    BY <2>4, RangeOf
  <2> HIDE DEF e, n
  <2>6. \A i : i \in 1 .. n <=> i \in 1 .. n - 1 \/ i = n
    BY <2>1
  <2>7. /\ Range(e[n]) = Range(bs[n]) \cup {f} /\ e[n] # <<>>
        /\ \A i \in 1 .. n - 1 : Range(e[i]) = Range(bs[i]) /\ e[i] # <<>>
    BY <1>1, <2>2, <2>4, <2>6 DEF Packed
  <2>8. Among(e) = Among(bs) \cup {f}
    BY <1>1, <2>5, <2>6, <2>7 DEF Among
  <2>9. ASSUME NEW i \in 1 .. n, NEW j \in 1 .. n, i # j
        PROVE  Range(e[i]) \cap Range(e[j]) = {}
    <3>1. Range(bs[i]) \cap Range(bs[j]) = {}
      BY <1>1, <2>9 DEF Packed, Apart
    <3>2. f \notin Range(bs[i]) /\ f \notin Range(bs[j])
      BY <1>2
    <3>3. CASE i = n /\ j \in 1 .. n - 1
      BY <2>7, <3>1, <3>2, <3>3
    <3>4. CASE i \in 1 .. n - 1 /\ j = n
      BY <2>7, <3>1, <3>2, <3>4
    <3>5. CASE i \in 1 .. n - 1 /\ j \in 1 .. n - 1
      BY <2>7, <3>1, <3>5
    <3> QED
      BY <2>6, <2>9, <3>3, <3>4, <3>5
  <2>10. Packed(e)
    BY <2>5, <2>6, <2>7, <2>9 DEF Packed, Apart
  <2> QED
    BY <2>4, <2>8, <2>10 DEF e
<1>5. e = Append(bs, <<f>>) \/ (bs # <<>> /\ e = Append(Front(bs), Append(Last(bs), f)))
  BY DEF Extended
<1> QED
  BY <1>3, <1>4, <1>5

\* The batches of a page divide its fragments.
LEMMA BatchesFacts ==
    ASSUME NEW T, NEW fs \in Seq(T), Once(fs), NEW blocks,
           fs = FlattenSeq([i \in DOMAIN blocks |-> Fragments(blocks[i])])
    PROVE  LET bs == BlockBatches(blocks)
           IN bs \in Seq(Seq(T)) /\ Packed(bs) /\ Among(bs) = Range(fs)
<1> DEFINE N == Len(fs)
           V == Seq(Seq(T))
           next(n, v) == Extended(v, fs[n])
           F == [n \in Nat |-> [v \in V |-> IF n \in 1 .. N THEN next(n, v) ELSE v]]
           batches == CHOOSE f : f = [n \in 0 .. N |->
                          IF n = 0 THEN <<>> ELSE Extended(f[n - 1], fs[n])]
           zero == 0
           none == <<>>
<1>1. N \in Nat /\ DOMAIN fs = 1 .. N /\ \A i \in 1 .. N : fs[i] \in T
  BY RangeOf
<1>2. zero \in Nat /\ none \in V
  OBVIOUS
<1>3. \A n \in 1 .. N : \A v \in V : next(n, v) \in V
  BY <1>1, ExtendedType
<1>4. F \in [Nat -> [V -> V]] /\ \A n \in 1 .. N : \A v \in V : F[n][v] = next(n, v)
  <2> HIDE DEF V, N, next
  <2>1. \A n \in Nat : [v \in V |-> IF n \in 1 .. N THEN next(n, v) ELSE v] \in [V -> V]
    BY <1>3
  <2> QED
    BY <1>1, <2>1
<1> HIDE DEF F, V, N, zero, none
<1>5. N \in Nat /\ F \in [Nat -> [V -> V]]
  BY <1>1, <1>4
<1>6. PICK g : Recurs(g, zero, N, none, F)
  BY <1>2, <1>5, RecursionExists
<1>7. g \in [zero .. N -> V]
  BY <1>2, <1>5, <1>6, RecursionType
<1>8. \A n \in zero .. N : g[n] = IF n = zero THEN none ELSE F[n][g[n - 1]]
  BY <1>2, <1>5, <1>6, RecursionType
<1>9. g = [n \in 0 .. N |-> IF n = 0 THEN <<>> ELSE Extended(g[n - 1], fs[n])]
  <2>1. \A n \in 0 .. N : n # 0 => n - 1 \in 0 .. N /\ n \in 1 .. N
    BY <1>1
  <2>2. \A n \in 0 .. N : n # 0 => g[n - 1] \in V
    BY <1>7, <2>1 DEF zero
  <2>3. \A n \in 0 .. N : n # 0 => F[n][g[n - 1]] = Extended(g[n - 1], fs[n])
    BY <1>4, <2>1, <2>2
  <2>4. \A n \in 0 .. N : g[n] = IF n = 0 THEN <<>> ELSE Extended(g[n - 1], fs[n])
    BY <1>8, <2>3 DEF zero, none
  <2> QED
    BY <1>7, <2>4 DEF zero
<1>10. batches = [n \in 0 .. N |-> IF n = 0 THEN <<>> ELSE Extended(batches[n - 1], fs[n])]
  BY <1>9
<1>11. BlockBatches(blocks) = batches[N]
  BY DEF BlockBatches, N
<1> HIDE DEF batches
<1>12. /\ batches[0] = <<>>
       /\ \A n \in 0 .. N :
             n + 1 <= N => batches[n + 1] = Extended(batches[n], fs[n + 1])
  <2>1. \A n \in 0 .. N : n + 1 <= N => n + 1 \in 0 .. N /\ n + 1 # 0 /\ (n + 1) - 1 = n
    BY <1>1
  <2>2. 0 \in 0 .. N
    BY <1>1
  <2> QED
    BY <1>10, <2>1, <2>2
<1> DEFINE Good(n) == /\ batches[n] \in V /\ Packed(batches[n])
                      /\ Among(batches[n]) = {fs[i] : i \in 1 .. n}
           S == {n \in Nat : n <= N => Good(n)}
<1>13. 0 \in S
  <2>1. Good(0)
    BY <1>2, <1>12 DEF Packed, Among, Apart, none
  <2> QED
    BY <2>1
<1> HIDE DEF Good
<1>14. ASSUME NEW n \in Nat, n \in S PROVE n + 1 \in S
  <2> SUFFICES ASSUME n + 1 <= N PROVE Good(n + 1)
    OBVIOUS
  <2> USE DEF Good
  <2>1. n \in 0 .. N /\ n + 1 \in 1 .. N /\ \A i \in 1 .. n : i \in 1 .. N /\ i # n + 1
    BY <1>1
  <2>2. Good(n) /\ fs[n + 1] \in T
    BY <1>1, <1>14, <2>1
  <2>3. fs[n + 1] \notin Among(batches[n])
    BY <1>1, <2>1, <2>2 DEF Once
  <2>4. batches[n + 1] = Extended(batches[n], fs[n + 1])
    BY <1>12, <2>1
  <2>50. batches[n] \in Seq(Seq(T)) /\ Packed(batches[n])
    BY <2>2 DEF V
  <2>5. /\ batches[n + 1] \in Seq(Seq(T)) /\ Packed(batches[n + 1])
        /\ Among(batches[n + 1]) = Among(batches[n]) \cup {fs[n + 1]}
    <3> DEFINE b == batches[n]
               x == fs[n + 1]
    <3>1. b \in Seq(Seq(T)) /\ Packed(b) /\ x \in T /\ x \notin Among(b)
      BY <2>2, <2>3, <2>50
    <3> HIDE DEF b, x
    <3>2. Extended(b, x) \in Seq(Seq(T)) /\ Packed(Extended(b, x))
      BY <3>1, ExtendedFacts
    <3>3. Among(Extended(b, x)) = Among(b) \cup {x}
      BY <3>1, ExtendedFacts
    <3> QED
      BY <2>4, <3>2, <3>3 DEF b, x
  <2>6. \A i : i \in 1 .. n + 1 <=> i \in 1 .. n \/ i = n + 1
    BY <2>1
  <2>7. {fs[i] : i \in 1 .. n + 1} = {fs[i] : i \in 1 .. n} \cup {fs[n + 1]}
    BY <2>6
  <2> QED
    BY <2>2, <2>5, <2>7 DEF V
<1> HIDE DEF S
<1>15. N \in S
  BY <1>1, <1>13, <1>14, Induction
<1>16. Good(N)
  BY <1>1, <1>15 DEF S
<1> USE DEF Good
<1>17. Range(fs) = {fs[i] : i \in 1 .. N}
  BY <1>1 DEF Range
<1> QED
  BY <1>11, <1>16, <1>17 DEF V

\* Multiples, as far as they are needed here.
LEMMA TimesFacts ==
    ASSUME NEW s \in Nat \ {0}
    PROVE  /\ \A i, j \in Nat : i * s \in Nat
           /\ \A i, j \in Nat : i < j => i * s < j * s
           /\ \A i, j \in Nat : i * s = j * s => i = j
<1>1. \A i, j \in Nat : i * s \in Nat
  OBVIOUS
<1>2. \A i, j \in Nat : i < j => i * s < j * s
  BY SMTT(20)
<1>3. ASSUME NEW i \in Nat, NEW j \in Nat, i * s = j * s PROVE i = j
  <2>1. ~(i < j) /\ ~(j < i)
    BY <1>1, <1>2, <1>3
  <2> QED
    BY <2>1
<1> QED
  BY <1>1, <1>2, <1>3

\* The fragments of a block are of it, all different, and leave no position out.
LEMMA FragmentsFacts ==
    ASSUME NEW b \in Block
    PROVE  /\ Fragments(b) \in Seq(FragmentType) /\ Once(Fragments(b))
           /\ \A f \in Range(Fragments(b)) : f.block = b.id
           /\ \A n \in 1 .. b.size : \E f \in Range(Fragments(b)) : n \in f.from .. f.to
<1> DEFINE step == MaxChars - Overlap
           further == IF b.size <= MaxChars THEN 0 ELSE (b.size - MaxChars + step - 1) \div step
           piece(k) == Fragment(b, (k - 1) * step, MaxChars)
           cut == [k \in 1 .. further + 1 |-> piece(k)]
<1>1. /\ step \in Nat \ {0} /\ step <= MaxChars /\ MaxChars \in Nat
      /\ b.size \in Nat /\ b.id \in Nat \X Nat \X Int
  BY SizeAssumption DEF Block
<1>2. CASE b.size = 0
  <2>1. Fragments(b) = <<>> /\ 1 .. b.size = {}
    BY <1>2 DEF Fragments
  <2>2. <<>> \in Seq(FragmentType) /\ Once(<<>>) /\ Range(<<>>) = {}
    BY DEF Once, Range
  <2> QED
    BY <2>1, <2>2
<1>3. CASE b.size # 0
  <2>1. Fragments(b) = cut
    BY <1>3 DEF Fragments
  <2>2. further \in Nat /\ b.size <= further * step + MaxChars
    <3>1. CASE b.size <= MaxChars
      <4>1. further = 0 /\ further * step = 0
        BY <1>1, <3>1
      <4> QED
        BY <1>1, <3>1, <4>1
    <3>2. CASE ~(b.size <= MaxChars)
      <4> DEFINE m == b.size - MaxChars + step - 1
      <4>1. m \in Nat /\ further = m \div step
        BY <1>1, <3>2
      <4> HIDE DEF m, further, step
      <4>2. further \in Nat /\ m < further * step + step
        BY <1>1, <4>1, DivFacts
      <4>3. further * step \in Nat
        BY <1>1, <4>2
      <4> USE DEF m
      <4> QED
        BY <1>1, <4>2, <4>3
    <3> QED
      BY <3>1, <3>2
  <2> HIDE DEF further, step
  <2>3. \A k \in 1 .. further + 1 : k - 1 \in Nat /\ (k - 1) * step \in Nat
    BY <1>1, <2>2
  <2>4. \A k \in 1 .. further + 1 :
            /\ piece(k).block = b.id /\ piece(k).from = (k - 1) * step + 1
            /\ piece(k).to = Smaller((k - 1) * step + MaxChars, b.size)
            /\ piece(k) = [block |-> b.id, from |-> (k - 1) * step + 1,
                           to |-> Smaller((k - 1) * step + MaxChars, b.size)]
    BY DEF Fragment
  <2> HIDE DEF piece
  <2>5. \A k \in 1 .. further + 1 : piece(k) \in FragmentType
    <3> TAKE k \in 1 .. further + 1
    <3>1. Smaller((k - 1) * step + MaxChars, b.size) \in Int /\ (k - 1) * step + 1 \in Nat
      BY <1>1, <2>3 DEF Smaller
    <3> DEFINE from == (k - 1) * step + 1
               to == Smaller((k - 1) * step + MaxChars, b.size)
    <3>2. piece(k) = [block |-> b.id, from |-> from, to |-> to]
      BY <2>4
    <3>3. from \in Nat /\ to \in Int
      BY <3>1
    <3> HIDE DEF from, to
    <3> QED
      BY <1>1, <3>2, <3>3 DEF FragmentType
  <2>6. cut \in Seq(FragmentType) /\ DOMAIN cut = 1 .. further + 1
        /\ \A k \in 1 .. further + 1 : cut[k] = piece(k)
    <3>1. cut \in [1 .. further + 1 -> FragmentType] /\ further + 1 \in Nat
      BY <2>2, <2>5
    <3> QED
      BY <3>1, SeqDef
  <2> HIDE DEF cut
  <2>7. Once(cut)
    <3> SUFFICES ASSUME NEW i \in 1 .. further + 1, NEW j \in 1 .. further + 1,
                        piece(i) = piece(j)
                 PROVE  i = j
      BY <2>6 DEF Once
    <3>1. (i - 1) * step + 1 = (j - 1) * step + 1
      BY <2>4
    <3>2. (i - 1) * step = (j - 1) * step
      BY <2>3, <3>1
    <3>3. i - 1 = j - 1
      BY <1>1, <2>3, <3>2, TimesFacts
    <3> QED
      BY <2>2, <3>3
  <2>8. \A f \in Range(cut) : f.block = b.id
    BY <2>4, <2>6 DEF Range
  <2>9. ASSUME NEW n \in 1 .. b.size PROVE \E f \in Range(cut) : n \in f.from .. f.to
    <3> DEFINE k == (n - 1) \div step
    <3>1. n - 1 \in Nat /\ n \in Nat /\ n <= b.size
      BY <1>1
    <3>2. k \in Nat /\ k * step <= n - 1 /\ n - 1 < k * step + step /\ k * step \in Nat
      BY <1>1, <3>1, DivFacts
    <3> HIDE DEF k
    <3>3. CASE k <= further
      <4>1. k + 1 \in 1 .. further + 1 /\ (k + 1) - 1 = k
        BY <2>2, <3>2, <3>3
      <4>2. piece(k + 1).from = k * step + 1
            /\ piece(k + 1).to = Smaller(k * step + MaxChars, b.size)
        BY <2>4, <4>1
      <4>3. n \in k * step + 1 .. Smaller(k * step + MaxChars, b.size)
        <5> DEFINE x == k * step
        <5>1. x \in Nat /\ x <= n - 1 /\ n - 1 < x + step
          BY <3>2
        <5> HIDE DEF x
        <5>2. n \in x + 1 .. Smaller(x + MaxChars, b.size)
          BY <1>1, <3>1, <5>1 DEF Smaller
        <5> QED
          BY <5>2 DEF x
      <4> QED
        BY <2>6, <4>1, <4>2, <4>3 DEF Range
    <3>4. CASE ~(k <= further)
      <4>1. further < k
        BY <2>2, <3>2, <3>4
      <4>2. further * step < k * step /\ further * step \in Nat
        BY <1>1, <2>2, <3>2, <4>1, TimesFacts
      <4>3. further + 1 \in 1 .. further + 1 /\ (further + 1) - 1 = further
        BY <2>2
      <4>4. piece(further + 1).from = further * step + 1
            /\ piece(further + 1).to = Smaller(further * step + MaxChars, b.size)
        BY <2>4, <4>3
      <4>5. n \in further * step + 1 .. Smaller(further * step + MaxChars, b.size)
        <5> DEFINE x == further * step
                   y == k * step
        <5>1. x \in Nat /\ y \in Nat /\ x < y /\ y <= n - 1 /\ b.size <= x + MaxChars
          BY <2>2, <3>2, <4>2
        <5> HIDE DEF x, y
        <5>2. n \in x + 1 .. Smaller(x + MaxChars, b.size)
          BY <1>1, <3>1, <5>1 DEF Smaller
        <5> QED
          BY <5>2 DEF x
      <4> QED
        BY <2>6, <4>3, <4>4, <4>5 DEF Range
    <3> QED
      BY <3>3, <3>4
  <2> QED
    BY <2>1, <2>6, <2>7, <2>8, <2>9
<1> QED
  BY <1>2, <1>3

\* The batches of a page whose blocks are told apart by their ids: nothing is in two of them,
\* each is of these blocks, and every position of a block is in one.
LEMMA PageBatches ==
    ASSUME NEW blocks \in Seq(Block),
           \A i, j \in DOMAIN blocks : blocks[i].id = blocks[j].id => i = j
    PROVE  /\ BlockBatches(blocks) \in Seq(Seq(FragmentType)) /\ Packed(BlockBatches(blocks))
           /\ \A f \in Among(BlockBatches(blocks)) :
                 \E i \in DOMAIN blocks : f.block = blocks[i].id
           /\ \A i \in DOMAIN blocks : \A n \in 1 .. blocks[i].size :
                 \E f \in Among(BlockBatches(blocks)) :
                    f.block = blocks[i].id /\ n \in f.from .. f.to
<1> DEFINE ss == [i \in DOMAIN blocks |-> Fragments(blocks[i])]
           fs == FlattenSeq(ss)
<1>1. DOMAIN blocks = 1 .. Len(blocks) /\ Len(blocks) \in Nat
      /\ \A i \in DOMAIN blocks : blocks[i] \in Block
  BY RangeOf
<1>2. \A i \in DOMAIN blocks :
          /\ Fragments(blocks[i]) \in Seq(FragmentType) /\ Once(Fragments(blocks[i]))
          /\ \A f \in Range(Fragments(blocks[i])) : f.block = blocks[i].id
          /\ \A n \in 1 .. blocks[i].size :
                \E f \in Range(Fragments(blocks[i])) : n \in f.from .. f.to
  BY <1>1, FragmentsFacts
<1>3. /\ ss \in Seq(Seq(FragmentType)) /\ DOMAIN ss = DOMAIN blocks
      /\ \A i \in DOMAIN blocks : ss[i] = Fragments(blocks[i])
  <2>1. ss \in [1 .. Len(blocks) -> Seq(FragmentType)]
    BY <1>1, <1>2
  <2> QED
    BY <1>1, <2>1, SeqDef
<1> HIDE DEF ss
<1>4. (\A i \in DOMAIN ss : Once(ss[i])) /\ Apart(ss)
  BY <1>2, <1>3 DEF Apart
<1>5. fs \in Seq(FragmentType) /\ Range(fs) = Among(ss) /\ Once(fs)
  BY <1>3, <1>4, FlattenFacts
<1>6. /\ BlockBatches(blocks) \in Seq(Seq(FragmentType)) /\ Packed(BlockBatches(blocks))
      /\ Among(BlockBatches(blocks)) = Range(fs)
  <2>1. fs = FlattenSeq([i \in DOMAIN blocks |-> Fragments(blocks[i])])
    BY DEF ss
  <2> HIDE DEF fs
  <2> QED
    BY <1>5, <2>1, BatchesFacts
<1> HIDE DEF fs
<1>7. \A f : f \in Among(BlockBatches(blocks))
          <=> \E i \in DOMAIN blocks : f \in Range(Fragments(blocks[i]))
  <2>1. \A f : f \in Among(ss) <=> \E i \in DOMAIN blocks : f \in Range(Fragments(blocks[i]))
    BY <1>3 DEF Among
  <2> QED
    BY <1>5, <1>6, <2>1
<1> QED
  BY <1>2, <1>6, <1>7

(***************************************************************************)
(* What is saved, and what was read for it.                                *)
(***************************************************************************)
SavedBatches == IF Now(meta.read) THEN meta.read.batches ELSE {}
Ids == {b.id : b \in BlocksInForce}

\* The blocks of a document are told apart by their ids, and those of a page by its number.
PageShape(p, page) ==
    /\ \A i \in DOMAIN page.blocks : page.blocks[i].id[2] = p
    /\ \A i, j \in DOMAIN page.blocks : page.blocks[i].id = page.blocks[j].id => i = j
    /\ page.mode = "needs_vision" => \A i \in DOMAIN page.blocks : page.blocks[i].id[3] # 0
Shaped == \A p \in Pages : PageShape(p, pages[p])

\* What was read, wherever it is: stored, read by a request that will store it again, in the
\* metadata of the handler, or found by it.
Held(r) ==
    \/ r = meta.read
    \/ \E copy \in asked : r = copy.read
    \/ Busy /\ r = worker.meta.read
    \/ Reading /\ r = worker.found

\* Most steps put what was read nowhere else.
NothingNew == \A r : Held(r)' => Held(r)

\* An answer puts only what it adds to.
OnlyNew(r, findings) ==
    /\ r.batches = worker.found.batches \cup {worker.batch}
    /\ r.entries \subseteq worker.found.entries \cup Matched(findings)
    /\ \A s : Held(s)' => Held(s) \/ s = r

\* What was read of the present text is batches of whole pages whose answers were saved, and
\* findings in blocks that are in force; it says so when a quotation was not found.
Sound(r) ==
    /\ Now(r) =>
          /\ r.batches \subseteq AllBatches
          /\ \A b \in r.batches : /\ Shown(b) \in answered.read
                                  /\ Shown(b) \in answered.unmatched => r.notes
          /\ \A e \in r.entries : e.block \in Ids
    /\ role # "tender" => r.entries = {}
AllSound == \A r : Held(r) => Sound(r)

\* The history is of batches of whole pages, and what is not lost of it is stored.
Remembered ==
    /\ \A x \in answered.read : \E b \in AllBatches : x = Shown(b)
    /\ answered.unmatched \subseteq answered.read
    /\ answered.read # {} => Untranscribed = {}
    /\ \A x \in answered.read \ answered.lost : \E b \in SavedBatches : x = Shown(b)

\* A handler asks for what it has not found.
GoesOn ==
    Reading /\ worker.batch # <<>> =>
        /\ worker.at = "read" /\ Untranscribed = {}
        /\ worker.batch \in AllBatches \ worker.found.batches

\* A handler that is done with reading has read everything.
ReadWhole ==
    Unfinished /\ worker.at # "read" =>
        /\ AllBatches \subseteq worker.found.batches
        /\ role = "tender" => Now(worker.meta.read)

\* What is shown as ready was read whole, and what was found is kept with this text.
SettledWhole ==
    Settled => /\ \A b \in AllBatches : Shown(b) \in answered.read
               /\ role = "tender" => Now(meta.read)

Cited == \A e \in evidence : e.block \in Ids

JInv == /\ Shaped /\ AllSound /\ Remembered /\ GoesOn /\ ReadWhole /\ SettledWhole /\ Cited
        /\ UnmatchedStaysReported

\* The same of the pages that are in force.
LEMMA PageFacts ==
    ASSUME Typed, Shaped, NEW p \in Pages
    PROVE  /\ pages[p].blocks \in Seq(Block)
           /\ Batches(p) \in Seq(Seq(FragmentType)) /\ Packed(Batches(p))
           /\ \A f \in Among(Batches(p)) :
                 \E i \in DOMAIN pages[p].blocks : f.block = pages[p].blocks[i].id
           /\ \A i \in DOMAIN pages[p].blocks : \A n \in 1 .. pages[p].blocks[i].size :
                 \E f \in Among(Batches(p)) :
                    f.block = pages[p].blocks[i].id /\ n \in f.from .. f.to
<1> DEFINE blocks == pages[p].blocks
<1>1. blocks \in Seq(Block)
  BY DEF Typed, Page
<1>2. \A i, j \in DOMAIN blocks : blocks[i].id = blocks[j].id => i = j
  BY DEF Shaped, PageShape
<1>3. Batches(p) = BlockBatches(blocks)
  BY DEF Batches
<1> HIDE DEF blocks
<1>4. /\ BlockBatches(blocks) \in Seq(Seq(FragmentType)) /\ Packed(BlockBatches(blocks))
      /\ \A f \in Among(BlockBatches(blocks)) :
            \E i \in DOMAIN blocks : f.block = blocks[i].id
      /\ \A i \in DOMAIN blocks : \A n \in 1 .. blocks[i].size :
            \E f \in Among(BlockBatches(blocks)) :
               f.block = blocks[i].id /\ n \in f.from .. f.to
  BY <1>1, <1>2, PageBatches
<1> QED
  BY <1>1, <1>3, <1>4 DEF blocks
\* A batch shows blocks in force, and no two show the same.
LEMMA BatchFacts ==
    ASSUME Typed, Shaped, NEW b \in AllBatches
    PROVE  /\ b = <<b[1], b[2]>> /\ b[1] \in Pages /\ b[2] \in DOMAIN Batches(b[1])
           /\ Shown(b) # {}
           /\ \A f \in Shown(b) : f.block \in Ids /\ f.block[2] = b[1]
<1>0. PICK p \in Pages : b \in {<<p, n>> : n \in DOMAIN Batches(p)}
  BY DEF AllBatches
<1>1. PICK n \in DOMAIN Batches(p) : b = <<p, n>>
  BY <1>0
<1>2. b[1] = p /\ b[2] = n /\ Shown(b) = Range(Batches(p)[n])
  BY <1>1 DEF Shown
<1>3. /\ Batches(p) \in Seq(Seq(FragmentType)) /\ Packed(Batches(p))
      /\ \A f \in Among(Batches(p)) :
            \E i \in DOMAIN pages[p].blocks : f.block = pages[p].blocks[i].id
  BY PageFacts
<1>4. Batches(p)[n] \in Seq(FragmentType) /\ Batches(p)[n] # <<>>
  BY <1>3, RangeOf DEF Packed
<1>5. Range(Batches(p)[n]) # {}
  <2>1. Len(Batches(p)[n]) \in Nat /\ Len(Batches(p)[n]) # 0
    BY <1>4, EmptySeq, LenProperties
  <2> DEFINE batch == Batches(p)[n]
  <2>2. batch \in Seq(FragmentType) /\ 1 \in 1 .. Len(batch)
    BY <1>4, <2>1
  <2> HIDE DEF batch
  <2>3. batch[1] \in Range(batch)
    BY <2>2, RangeOf
  <2> QED
    BY <2>3 DEF batch
<1>6. ASSUME NEW f \in Shown(b) PROVE f.block \in Ids /\ f.block[2] = p
  <2>1. f \in Among(Batches(p))
    BY <1>2 DEF Among
  <2>2. PICK i \in DOMAIN pages[p].blocks : f.block = pages[p].blocks[i].id
    BY <1>3, <2>1
  <2>3. pages[p].blocks[i] \in BlocksInForce
    BY DEF BlocksInForce, Range
  <2> QED
    BY <2>2, <2>3 DEF Ids, Shaped, PageShape
<1> QED
  BY <1>1, <1>2, <1>5, <1>6
\* A batch is known by what it shows.
LEMMA BatchesDiffer ==
    ASSUME Typed, Shaped, NEW b \in AllBatches, NEW c \in AllBatches, Shown(b) = Shown(c)
    PROVE  b = c
<1>1. /\ b = <<b[1], b[2]>> /\ b[1] \in Pages /\ b[2] \in DOMAIN Batches(b[1])
      /\ Shown(b) # {} /\ \A f \in Shown(b) : f.block[2] = b[1]
  BY BatchFacts
<1>2. /\ c = <<c[1], c[2]>> /\ c[1] \in Pages /\ c[2] \in DOMAIN Batches(c[1])
      /\ \A f \in Shown(c) : f.block[2] = c[1]
  BY BatchFacts
<1>3. b[1] = c[1]
  BY <1>1, <1>2
<1>4. Packed(Batches(b[1]))
  BY <1>1, PageFacts
<1>5. b[2] = c[2]
  BY <1>1, <1>2, <1>3, <1>4 DEF Packed, Apart, Shown
<1> QED
  BY <1>1, <1>2, <1>3, <1>5
(***************************************************************************)
(* What the invariant says.                                                *)
(***************************************************************************)
\* Every position of a ready document is in a batch that was answered.
LEMMA ReadyIsRead == ASSUME IInv, JInv PROVE ReadyMeansRead
<1> SUFFICES ASSUME Settled, NEW x \in AllPositions(BlocksInForce)
             PROVE  x \in Positions(UNION answered.read)
  BY DEF ReadyMeansRead
<1>1. Typed /\ Shaped
  BY DEF IInv, JInv
<1>2. PICK b \in BlocksInForce : x \in {<<b.id, n>> : n \in 1 .. b.size}
  BY DEF AllPositions
<1>3. PICK n \in 1 .. b.size : x = <<b.id, n>>
  BY <1>2
<1>4. PICK p \in Pages : b \in Range(pages[p].blocks)
  BY DEF BlocksInForce
<1>5. PICK i \in DOMAIN pages[p].blocks : b = pages[p].blocks[i]
  BY <1>4 DEF Range
<1>6. PICK f \in Among(Batches(p)) : f.block = b.id /\ n \in f.from .. f.to
  BY <1>1, <1>5, PageFacts
<1>7. PICK j \in DOMAIN Batches(p) : f \in Range(Batches(p)[j])
  BY <1>6 DEF Among
<1>8. <<p, j>> \in AllBatches /\ Shown(<<p, j>>) = Range(Batches(p)[j])
  BY DEF AllBatches, Shown
<1>9. Shown(<<p, j>>) \in answered.read
  BY <1>8 DEF JInv, SettledWhole
<1>10. f \in UNION answered.read
  BY <1>7, <1>8, <1>9
<1> QED
  BY <1>3, <1>6, <1>10 DEF Positions

\* What is kept of a ready document was found in blocks that are in force.
LEMMA InForce == ASSUME JInv PROVE FindingsCiteTextInForce
<1> SUFFICES ASSUME Settled, NEW e \in meta.read.entries \cup evidence PROVE e.block \in Ids
  BY DEF FindingsCiteTextInForce, Ids
<1>1. CASE e \in evidence
  BY <1>1 DEF JInv, Cited
<1>2. CASE e \in meta.read.entries
  <2>1. Sound(meta.read)
    BY DEF JInv, AllSound, Held
  <2>2. role = "tender"
    BY <1>2, <2>1 DEF Sound
  <2>3. Now(meta.read)
    BY <2>2 DEF JInv, SettledWhole
  <2> QED
    BY <1>2, <2>1, <2>3 DEF Sound
<1> QED
  BY <1>1, <1>2

\* The handler has found what is stored.
LEMMA StoredIsFound ==
    ASSUME IInv, JInv, Reading
    PROVE  SavedBatches \subseteq worker.found.batches
BY DEF SavedBatches, IInv, Ordered, Continues

\* The batch that was sent shows none of what is stored.
LEMMA NotAgain == ASSUME IInv, JInv PROVE SavedBatchesNotAskedAgain
<1> SUFFICES ASSUME Reading, worker.batch # <<>>,
                    Shown(worker.batch) \in answered.read \ answered.lost
             PROVE  FALSE
  BY DEF SavedBatchesNotAskedAgain, Reading
<1>1. worker.batch \in AllBatches \ worker.found.batches
  BY DEF JInv, GoesOn
<1>2. PICK b \in SavedBatches : Shown(worker.batch) = Shown(b)
  BY DEF JInv, Remembered
<1>3. Sound(meta.read)
  BY DEF JInv, AllSound, Held
<1>4. b \in AllBatches
  BY <1>2, <1>3 DEF Sound, SavedBatches
<1>5. b \in worker.found.batches
  BY <1>2, StoredIsFound
<1> QED
  BY <1>1, <1>2, <1>4, <1>5, BatchesDiffer DEF IInv, JInv

(***************************************************************************)
(* Steps.                                                                  *)
(***************************************************************************)
\* What depends on the pages only.
LEMMA PagesFrame ==
    ASSUME pages' = pages
    PROVE  /\ AllBatches' = AllBatches /\ Untranscribed' = Untranscribed /\ Ids' = Ids
           /\ Shaped' = Shaped /\ \A b : Shown(b)' = Shown(b)
<1>1. \A p : Batches(p)' = Batches(p)
  BY DEF Batches
<1>2. AllBatches' = AllBatches
  BY <1>1 DEF AllBatches
<1>3. \A b : Shown(b)' = Shown(b)
  BY <1>1 DEF Shown
<1>4. Untranscribed' = Untranscribed /\ Ids' = Ids /\ Shaped' = Shaped
  BY DEF Untranscribed, Ids, BlocksInForce, Shaped
<1> QED
  BY <1>2, <1>3, <1>4

\* Steps that neither change the text nor answer anything.
LEMMA SameText ==
    ASSUME JInv, UNCHANGED <<role, rev, pages, evidence>>, meta'.text = meta.text,
           answered'.read = answered.read, answered'.unmatched = answered.unmatched,
           \A r : Held(r)' => Held(r),
           \A x \in answered'.read \ answered'.lost : \E b \in SavedBatches' : x = Shown(b),
           GoesOn', ReadWhole', SettledWhole', UnmatchedStaysReported'
    PROVE  JInv'
<1>1. /\ AllBatches' = AllBatches /\ Untranscribed' = Untranscribed /\ Ids' = Ids
      /\ Shaped' = Shaped /\ \A b : Shown(b)' = Shown(b)
  BY PagesFrame
<1>2. Shaped' /\ Cited'
  BY <1>1 DEF JInv, Cited
<1>3. \A r : Now(r)' <=> Now(r)
  BY DEF Now
<1>4. \A r : Sound(r)' <=> Sound(r)
  BY <1>1, <1>3 DEF Sound
<1>5. AllSound'
  BY <1>4 DEF JInv, AllSound
<1>6. Remembered'
  BY <1>1 DEF JInv, Remembered
<1> QED
  BY <1>2, <1>5, <1>6 DEF JInv

\* Those that store nothing, or what continues what was stored.
LEMMA MoreStored ==
    ASSUME JInv, UNCHANGED <<rev, answered>>, meta'.text = meta.text,
           Continues(meta'.read, meta.read)
    PROVE  \A x \in answered'.read \ answered'.lost : \E b \in SavedBatches' : x = Shown(b)
<1>1. \A r : Now(r)' <=> Now(r)
  BY DEF Now
<1>2. SavedBatches \subseteq SavedBatches'
  BY <1>1 DEF SavedBatches, Continues
<1> QED
  BY <1>2 DEF JInv, Remembered

\* A status that changes, or the end of a job.
LEMMA StatusKeeps == ASSUME IInv, JInv, StatusChange PROVE JInv' /\ NothingNew
<1>1. /\ meta'.read = meta.read /\ meta'.text = meta.text
      /\ UNCHANGED <<role, rev, pages, evidence, asked, answered>>
  BY DEF StatusChange, Agree
<1>2. \/ worker' = worker
      \/ ~Busy' /\ ~Reading'
      \/ worker'.meta = meta' /\ ~Reading'
  BY DEF StatusChange, Reading, Idle, IsParse, Busy
<1>3. (Busy' => (Busy /\ worker' = worker) \/ worker'.meta.read = meta.read)
      /\ (Reading' => Reading /\ worker' = worker)
  BY <1>1, <1>2 DEF Reading, Busy
<1>4. \A r : Held(r)' => Held(r)
  BY <1>1, <1>3 DEF Held
<1>5. Continues(meta'.read, meta.read)
  BY <1>1 DEF Continues
<1>6. \A x \in answered'.read \ answered'.lost : \E b \in SavedBatches' : x = Shown(b)
  BY <1>1, <1>5, MoreStored
<1>7. /\ AllBatches' = AllBatches /\ Untranscribed' = Untranscribed
      /\ \A b : Shown(b)' = Shown(b)
  BY <1>1, PagesFrame
<1>8. \A r : Now(r)' <=> Now(r)
  BY <1>1 DEF Now
<1>9. GoesOn'
  BY <1>3, <1>7 DEF JInv, GoesOn
<1>10. ReadWhole'
  BY <1>1, <1>3, <1>7, <1>8 DEF JInv, ReadWhole, Unfinished
<1>11. (Settled' => Settled) /\ (meta'.ai = "ready" => meta.ai = "ready")
  BY DEF StatusChange, Settled, Unready
<1>12. SettledWhole'
  BY <1>1, <1>7, <1>8, <1>11 DEF JInv, SettledWhole
<1>13. UnmatchedStaysReported'
  BY <1>1, <1>11 DEF JInv, UnmatchedStaysReported
<1> QED
  BY <1>1, <1>4, <1>6, <1>9, <1>10, <1>12, <1>13, SameText DEF NothingNew

\* Another text: nothing of it was read yet.
LEMMA NewTextKeeps ==
    ASSUME JInv, Shaped', answered' = NoAnswers, ~Reading', ~Settled', role' = role,
           \A r : Held(r)' => Held(r) /\ ~Now(r)', \A e \in evidence' : e.block \in Ids'
    PROVE  JInv'
<1>1. answered'.read = {} /\ answered'.unmatched = {}
  BY DEF NoAnswers
<1>2. Remembered' /\ UnmatchedStaysReported'
  BY <1>1 DEF Remembered, UnmatchedStaysReported
<1>3. GoesOn' /\ ReadWhole' /\ SettledWhole' /\ Cited'
  BY DEF GoesOn, ReadWhole, Unfinished, SettledWhole, Cited
<1>4. ASSUME NEW r, Held(r)' PROVE Sound(r)'
  <2>1. Sound(r) /\ ~Now(r)'
    BY <1>4 DEF JInv, AllSound
  <2> QED
    BY <2>1 DEF Sound
<1>5. AllSound'
  BY <1>4 DEF AllSound
<1> QED
  BY <1>2, <1>3, <1>5 DEF JInv

\* A request for another text: what was read before is of a former one.
LEMMA RequestedText ==
    ASSUME IInv, NewText
    PROVE  \A r : Held(r)' => Held(r) /\ ~Now(r)'
<1>1. ~Busy' /\ ~Reading' /\ asked' = {} /\ meta'.read = meta.read
  BY DEF NewText, Busy, Reading
<1>2. meta.read.text # meta'.text
  BY DEF NewText, IInv, Typed, IsCopy, IsMeta
<1> QED
  BY <1>1, <1>2 DEF Held, Now

\* A corrected page has one block, with an id of its own.
LEMMA CorrectKeeps == ASSUME IInv, JInv, NEW p \in Pages, Correct(p) PROVE JInv' /\ NothingNew
<1>1. NewText
  BY CorrectChange
<1>2. \A r : Held(r)' => Held(r) /\ ~Now(r)'
  BY <1>1, RequestedText
<1> DEFINE page == [mode |-> "manual",
                    blocks |-> <<[id |-> <<rev, p, -(meta.text + 1)>>, size |-> Transcript]>>]
<1>3. PageShape(p, page)
  BY DEF PageShape
<1>4. Shaped'
  <2>1. pages' = [pages EXCEPT ![p] = page] /\ pages \in [Pages -> Page]
    BY DEF Correct, IInv, Typed
  <2> HIDE DEF page
  <2>2. \A q \in Pages : pages'[q] = IF q = p THEN page ELSE pages[q]
    BY <2>1
  <2> QED
    BY <1>3, <2>2 DEF JInv, Shaped
<1>5. ~Reading' /\ ~Settled' /\ evidence' = {} /\ answered' = NoAnswers /\ role' = role
  BY <1>1 DEF NewText, Correct, Reading, Busy, Settled, Unready
<1> QED
  BY <1>2, <1>4, <1>5, NewTextKeeps DEF NothingNew

\* A request to read the same text again.
LEMMA InterpretKeeps == ASSUME IInv, JInv, Interpret PROVE JInv' /\ NothingNew
<1>1. NewText
  BY InterpretChange
<1>2. \A r : Held(r)' => Held(r) /\ ~Now(r)'
  BY <1>1, RequestedText
<1>3. UNCHANGED <<pages, evidence>>
  BY DEF Interpret
<1>4. Shaped' /\ Ids' = Ids
  BY <1>3, PagesFrame DEF JInv
<1>5. ~Reading' /\ ~Settled' /\ answered' = NoAnswers /\ role' = role
  BY <1>1 DEF NewText, Reading, Busy, Settled, Unready
<1>6. \A e \in evidence' : e.block \in Ids'
  BY <1>3, <1>4 DEF JInv, Cited
<1> QED
  BY <1>2, <1>4, <1>5, <1>6, NewTextKeeps DEF NothingNew

\* A parse numbers the blocks of each page.
LEMMA FinishParseKeeps == ASSUME IInv, JInv, FinishParse PROVE JInv' /\ NothingNew
<1>1. Busy /\ worker.at = "parse"
  BY DEF FinishParse, At
<1>2. IsParse(worker) /\ IsCopy(worker.meta) /\ IsMeta(worker.meta) /\ rev \in Nat
  BY <1>1 DEF IInv, Typed, IsProcess, Busy, IsCopy
<1>3. IsMeta([worker.meta EXCEPT !.parse = "parsed"])
      /\ Agree([worker.meta EXCEPT !.parse = "parsed"], worker.meta)
  BY <1>2, StatusFacts
<1>4. IsMeta(meta') /\ Agree(meta', [worker.meta EXCEPT !.parse = "parsed"]) /\ Unready(meta')
  BY <1>3, QueuedFacts DEF FinishParse
<1>5. meta'.read = worker.meta.read /\ ~Settled'
  BY <1>3, <1>4 DEF Agree, Settled, Unready
<1>6. rev' = rev + 1 /\ answered' = NoAnswers /\ evidence' = {} /\ role' = role
      /\ asked' = asked /\ pages' = [p \in Pages |-> ParsedPage(rev', p)]
  BY DEF FinishParse
<1>7. worker' = [job |-> "parse", at |-> "done", meta |-> worker.meta]
  BY <1>2 DEF FinishParse, IsParse
<1>8. ~Reading' /\ worker'.meta = worker.meta
  BY <1>7 DEF Reading
<1>9. \A r : Held(r)' => Held(r) /\ ~Now(r)'
  <2>1. \A r : Held(r)' => Held(r) /\ r.rev \in 0 .. rev
    <3>1. \A copy \in asked : IsCopy(copy)
      BY DEF IInv, Typed
    <3>2. \A copy \in asked : copy.read.rev \in 0 .. rev
      BY <3>1 DEF IsCopy
    <3>3. worker.meta.read.rev \in 0 .. rev
      BY <1>2 DEF IsCopy
    <3> QED
      BY <1>1, <1>5, <1>6, <1>8, <3>2, <3>3 DEF Held
  <2>2. \A n \in 0 .. rev : n # rev'
    BY <1>2, <1>6
  <2> QED
    BY <2>1, <2>2 DEF Now
<1>10. ASSUME NEW p \in Pages PROVE PageShape(p, pages'[p])
  <2> DEFINE blocks == [n \in DOMAIN Layout[p] |-> [id |-> <<rev', p, n>>, size |-> Layout[p][n]]]
  <2>1. pages'[p].blocks = blocks
    BY <1>6 DEF ParsedPage
  <2>2. DOMAIN Layout[p] = 1 .. Len(Layout[p])
    BY PageAssumption, RangeOf DEF Pages
  <2>3. \A n \in DOMAIN Layout[p] : blocks[n].id = <<rev', p, n>>
    OBVIOUS
  <2>4. DOMAIN blocks = DOMAIN Layout[p]
    OBVIOUS
  <2>5. \A n \in 1 .. Len(Layout[p]) : n # 0
    OBVIOUS
  <2> HIDE DEF blocks
  <2>6. \A n \in DOMAIN blocks : /\ blocks[n].id = <<rev', p, n>> /\ n # 0
                                 /\ blocks[n].id[2] = p /\ blocks[n].id[3] = n
    BY <2>2, <2>3, <2>4, <2>5
  <2> QED
    BY <2>1, <2>6 DEF PageShape
<1>11. Shaped'
  BY <1>10 DEF Shaped
<1> QED
  BY <1>5, <1>6, <1>8, <1>9, <1>11, NewTextKeeps DEF NothingNew

\* A request that reads the metadata holds what is stored.
LEMMA ProcessReadKeeps == ASSUME IInv, JInv, ProcessRead PROVE JInv' /\ NothingNew
<1>1. asked' = {meta} /\ UNCHANGED <<role, rev, pages, meta, evidence, worker, answered>>
  BY DEF ProcessRead
<1>2. Busy' = Busy /\ Reading' = Reading /\ Unfinished' = Unfinished /\ Settled' = Settled
  BY <1>1 DEF Busy, Reading, Unfinished, Settled
<1>3. \A r : Held(r)' => Held(r)
  BY <1>1, <1>2 DEF Held
<1>4. Continues(meta'.read, meta.read)
  BY <1>1 DEF Continues
<1>5. \A x \in answered'.read \ answered'.lost : \E b \in SavedBatches' : x = Shown(b)
  BY <1>1, <1>4, MoreStored
<1>6. /\ AllBatches' = AllBatches /\ Untranscribed' = Untranscribed
      /\ \A b : Shown(b)' = Shown(b)
  BY <1>1, PagesFrame
<1>7. \A r : Now(r)' <=> Now(r)
  BY <1>1 DEF Now
<1>8. GoesOn' /\ ReadWhole' /\ SettledWhole' /\ UnmatchedStaysReported'
  BY <1>1, <1>2, <1>6, <1>7
     DEF JInv, GoesOn, ReadWhole, SettledWhole, UnmatchedStaysReported
<1> QED
  BY <1>1, <1>3, <1>5, <1>8, SameText DEF NothingNew

\* One that stores what it had read: what is stored no more is lost.
LEMMA ProcessStoreKeeps == ASSUME IInv, JInv, ProcessStore PROVE JInv' /\ NothingNew
<1>1. PICK copy \in asked :
          /\ meta' = Queued(copy) /\ asked' = {}
          /\ answered' = [answered EXCEPT
                            !.lost = (@ \cup {Shown(b) : b \in Resumed(meta, rev).batches})
                                        \ {Shown(b) : b \in Resumed(copy, rev).batches}]
          /\ UNCHANGED <<role, rev, pages, evidence, worker>>
  BY DEF ProcessStore
<1>2. IsCopy(copy) /\ IsMeta(copy)
  BY DEF IInv, Typed, IsCopy
<1>3. IsMeta(meta') /\ Agree(meta', copy) /\ Unready(meta')
  BY <1>1, <1>2, QueuedFacts
<1>4. meta'.read = copy.read /\ meta'.text = meta.text /\ copy.text = meta.text /\ ~Settled'
      /\ meta'.ai # "ready"
  BY <1>2, <1>3 DEF Agree, IsCopy, Settled, Unready
<1>5. Busy' = Busy /\ Reading' = Reading /\ Unfinished' = Unfinished
  BY <1>1 DEF Busy, Reading, Unfinished
<1>6. \A r : Held(r)' => Held(r)
  BY <1>1, <1>4, <1>5 DEF Held
<1>7. /\ AllBatches' = AllBatches /\ Untranscribed' = Untranscribed
      /\ \A b : Shown(b)' = Shown(b)
  BY <1>1, PagesFrame
<1>8. \A r : Now(r)' <=> Now(r)
  BY <1>1, <1>4 DEF Now
<1>9. Resumed(meta, rev).batches = SavedBatches
  BY DEF Resumed, SavedBatches, Now, NothingRead
<1>10. Resumed(copy, rev).batches = SavedBatches'
  BY <1>4, <1>8 DEF Resumed, SavedBatches, Now, NothingRead
<1>11. /\ answered'.read = answered.read /\ answered'.unmatched = answered.unmatched
       /\ answered'.lost = (answered.lost \cup {Shown(b) : b \in SavedBatches})
                              \ {Shown(b) : b \in SavedBatches'}
  BY <1>1, <1>9, <1>10 DEF IInv, Typed, IsAnswered
<1>12. ASSUME NEW x \in answered'.read \ answered'.lost PROVE \E b \in SavedBatches' : x = Shown(b)
  <2>1. CASE x \in answered.lost
    BY <1>11, <2>1
  <2>2. CASE x \notin answered.lost
    <3>1. \E b \in SavedBatches : x = Shown(b)
      BY <1>11, <2>2 DEF JInv, Remembered
    <3> QED
      BY <1>11, <3>1
  <2> QED
    BY <2>1, <2>2
<1>13. GoesOn' /\ ReadWhole'
  BY <1>1, <1>5, <1>7, <1>8 DEF JInv, GoesOn, ReadWhole
<1>14. SettledWhole' /\ UnmatchedStaysReported'
  BY <1>4 DEF SettledWhole, UnmatchedStaysReported
<1> QED
  BY <1>1, <1>4, <1>6, <1>11, <1>12, <1>13, <1>14, SameText DEF NothingNew

\* A job goes on from what is stored for this text.
LEMMA BeginProcessKeeps ==
    ASSUME IInv, JInv, BeginProcess
    PROVE  JInv' /\ \A r : Held(r)' => Held(r) \/ r = Resumed(meta, rev)
<1>1. IsMeta(meta) /\ meta' = [meta EXCEPT !.ai = "running"]
      /\ UNCHANGED <<role, rev, pages, evidence, asked, answered>>
  BY DEF BeginProcess, IInv, Typed, IsCopy
<1>2. IsMeta(meta') /\ Agree(meta', meta) /\ meta'.ai = "running"
  BY <1>1, StatusFacts
<1>3. meta'.read = meta.read /\ meta'.text = meta.text /\ ~Settled' /\ meta'.ai # "ready"
  BY <1>2 DEF Agree, Settled
<1>4. worker' = [job |-> "process", at |-> "read", meta |-> meta',
                 found |-> Resumed(meta, rev), batch |-> <<>>]
  BY DEF BeginProcess
<1>5. /\ worker'.at = "read" /\ worker'.batch = <<>> /\ worker'.found = Resumed(meta, rev)
      /\ worker'.meta = meta'
  BY <1>4
<1>6. \/ Resumed(meta, rev) = meta.read
      \/ Resumed(meta, rev).batches = {} /\ Resumed(meta, rev).entries = {}
  BY DEF Resumed, NothingRead
<1> DEFINE fresh == Resumed(meta, rev)
<1>7. Sound(fresh)
  <2>1. Sound(meta.read)
    BY DEF JInv, AllSound, Held
  <2> QED
    BY <1>6, <2>1 DEF Sound
<1>8. \A r : Held(r)' => Held(r) \/ r = fresh
  BY <1>1, <1>3, <1>5 DEF Held
<1> HIDE DEF fresh
<1>9. /\ AllBatches' = AllBatches /\ Untranscribed' = Untranscribed /\ Ids' = Ids
      /\ Shaped' = Shaped /\ \A b : Shown(b)' = Shown(b)
  BY <1>1, PagesFrame
<1>10. \A r : Now(r)' <=> Now(r)
  BY <1>1, <1>3 DEF Now
<1>11. \A r : Sound(r)' <=> Sound(r)
  BY <1>1, <1>9, <1>10 DEF Sound
<1>12. AllSound'
  BY <1>7, <1>8, <1>11 DEF JInv, AllSound
<1>13. SavedBatches' = SavedBatches
  BY <1>3, <1>10 DEF SavedBatches
<1>14. Remembered' /\ Cited'
  BY <1>1, <1>9, <1>13 DEF JInv, Remembered, Cited
<1>15. GoesOn' /\ ReadWhole' /\ SettledWhole' /\ UnmatchedStaysReported'
  BY <1>3, <1>5 DEF GoesOn, ReadWhole, SettledWhole, UnmatchedStaysReported
<1> QED
  BY <1>8, <1>9, <1>12, <1>14, <1>15 DEF JInv, fresh

\* A batch is sent that was not found.
LEMMA AskKeeps == ASSUME IInv, JInv, Ask PROVE JInv' /\ NothingNew
<1>1. Busy /\ worker.at = "read"
  BY DEF Ask, At
<1>2. IsProcess(worker) /\ worker.job = "process" /\ Reading /\ ~Settled
  BY <1>1, ProcessFacts
<1>3. PICK b \in AllBatches \ worker.found.batches : worker' = [worker EXCEPT !.batch = b]
  BY DEF Ask
<1>4. worker' = [job |-> "process", at |-> "read", meta |-> worker.meta,
                 found |-> worker.found, batch |-> b]
  BY <1>1, <1>2, <1>3 DEF IsProcess
<1>5. worker'.at = "read" /\ worker'.batch = b /\ worker'.found = worker.found
      /\ worker'.meta = worker.meta
  BY <1>4
<1>6. UNCHANGED <<role, rev, pages, evidence, meta, asked, answered>> /\ Untranscribed = {}
  BY DEF Ask
<1>7. \A r : Held(r)' => Held(r)
  BY <1>1, <1>2, <1>5, <1>6 DEF Held
<1>8. Continues(meta'.read, meta.read)
  BY <1>6 DEF Continues
<1>9. \A x \in answered'.read \ answered'.lost : \E c \in SavedBatches' : x = Shown(c)
  BY <1>6, <1>8, MoreStored
<1>10. AllBatches' = AllBatches /\ Untranscribed' = Untranscribed
  BY <1>6, PagesFrame
<1>11. GoesOn' /\ ReadWhole'
  BY <1>3, <1>5, <1>6, <1>10 DEF GoesOn, ReadWhole
<1>12. SettledWhole' /\ UnmatchedStaysReported'
  BY <1>2, <1>6 DEF SettledWhole, UnmatchedStaysReported, Settled
<1> QED
  BY <1>6, <1>7, <1>9, <1>11, <1>12, SameText DEF NothingNew

\* The rest of a job, once everything was read.
LEMMA AfterReading ==
    ASSUME IInv, JInv, Unfinished, worker.at # "read",
           UNCHANGED <<role, rev, pages, evidence, asked, answered>>,
           meta'.text = meta.text, meta'.read \in {meta.read, worker.meta.read},
           worker'.at # "read", worker'.found = worker.found, worker'.batch = worker.batch,
           worker'.meta.read = worker.meta.read,
           Settled' => meta'.read = worker.meta.read,
           meta'.ai = "ready" => ~worker.found.notes
    PROVE  JInv' /\ NothingNew
<1>1. Reading /\ Busy /\ Now(worker.found) /\ Continues(worker.meta.read, meta.read)
  BY DEF Unfinished, Reading, IInv, Ordered
<1>2. AllBatches \subseteq worker.found.batches /\ (role = "tender" => Now(worker.meta.read))
  BY DEF JInv, ReadWhole
<1>3. Held(worker.found)
  BY <1>1 DEF Held
<1>4. \A b \in AllBatches : /\ Shown(b) \in answered.read
                            /\ Shown(b) \in answered.unmatched => worker.found.notes
  BY <1>1, <1>2, <1>3 DEF JInv, AllSound, Sound
<1>5. \A r : Held(r)' => Held(r)
  BY <1>1 DEF Held
<1>6. Continues(meta'.read, meta.read)
  BY <1>1 DEF Continues
<1>7. \A x \in answered'.read \ answered'.lost : \E c \in SavedBatches' : x = Shown(c)
  BY <1>6, MoreStored
<1>8. /\ AllBatches' = AllBatches /\ Untranscribed' = Untranscribed
      /\ \A b : Shown(b)' = Shown(b)
  BY PagesFrame
<1>9. \A r : Now(r)' <=> Now(r)
  BY DEF Now
<1>10. worker.batch = <<>>
  BY <1>1 DEF JInv, GoesOn
<1>11. GoesOn' /\ ReadWhole'
  BY <1>2, <1>8, <1>9, <1>10 DEF GoesOn, ReadWhole
<1>12. SettledWhole'
  BY <1>2, <1>4, <1>8, <1>9 DEF SettledWhole
<1>13. UnmatchedStaysReported'
  <2> SUFFICES ASSUME meta'.ai = "ready", NEW x \in answered.unmatched PROVE FALSE
    BY DEF UnmatchedStaysReported
  <2>1. \E b \in AllBatches : x = Shown(b)
    BY DEF JInv, Remembered
  <2> QED
    BY <1>4, <2>1
<1> QED
  BY <1>5, <1>7, <1>11, <1>12, <1>13, SameText DEF NothingNew

\* Indexing.
LEMMA IndexKeeps == ASSUME IInv, JInv, Index PROVE JInv' /\ NothingNew
<1> DEFINE rebuild == chunks.fragments = {} \/ OutOfDate(worker.meta)
           at == IF role = "evidence" THEN "embed" ELSE "finish"
           indexed == [worker.meta EXCEPT !.index = worker.meta.text]
           kept == IF rebuild THEN meta' ELSE worker.meta
<1>1. Busy /\ worker.at = "index"
  BY DEF Index, At
<1>2. /\ IsProcess(worker) /\ worker.job = "process" /\ Unfinished /\ ~Settled
      /\ IsCopy(worker.meta) /\ worker.meta.ai = "running"
  BY <1>1, ProcessFacts
<1>3. /\ UNCHANGED <<role, rev, pages, evidence, asked, answered>>
      /\ meta' = IF rebuild THEN indexed ELSE meta
      /\ worker' = [worker EXCEPT !.at = at, !.meta = kept]
  BY DEF Index
<1>4. worker' = [job |-> "process", at |-> at, meta |-> kept, found |-> worker.found,
                 batch |-> worker.batch]
  <2> HIDE DEF at, kept
  <2> QED
    BY <1>2, <1>3 DEF IsProcess
<1>5. worker'.at # "read" /\ worker'.found = worker.found /\ worker'.batch = worker.batch
      /\ worker'.meta = kept
  BY <1>4
<1>6. /\ indexed.read = worker.meta.read /\ indexed.text = meta.text
      /\ indexed.ai = "running"
  BY <1>2 DEF IsMeta, IsCopy
<1> HIDE DEF indexed
<1>7. /\ meta'.read \in {meta.read, worker.meta.read} /\ meta'.text = meta.text
      /\ ~Settled' /\ meta'.ai # "ready" /\ kept.read = worker.meta.read
  BY <1>2, <1>3, <1>6 DEF Settled
<1> HIDE DEF kept, rebuild, at
<1> QED
  BY <1>1, <1>2, <1>3, <1>5, <1>7, AfterReading

\* The vectors.
LEMMA EmbedKeeps == ASSUME IInv, JInv, Embed PROVE JInv' /\ NothingNew
<1>1. Busy /\ worker.at = "embed"
  BY DEF Embed, At
<1>2. /\ IsProcess(worker) /\ worker.job = "process" /\ Unfinished
      /\ IsCopy(worker.meta) /\ IsMeta(worker.meta) /\ worker.meta.ai = "running"
  BY <1>1, ProcessFacts DEF IsCopy
<1>3. /\ UNCHANGED <<role, rev, pages, evidence, asked, answered>>
      /\ meta' = [worker.meta EXCEPT !.embedding = jobs.process.model]
      /\ worker' = [worker EXCEPT !.at = "finish", !.meta = meta']
  BY DEF Embed
<1>4. Agree(meta', worker.meta) /\ meta'.ai = "running"
  BY <1>2, <1>3, StatusFacts
<1>5. meta'.read = worker.meta.read /\ meta'.text = meta.text /\ meta'.ai # "ready"
  BY <1>2, <1>4 DEF Agree, IsCopy
<1>6. worker' = [job |-> "process", at |-> "finish", meta |-> meta', found |-> worker.found,
                 batch |-> worker.batch]
  BY <1>2, <1>3 DEF IsProcess
<1>7. /\ worker'.at # "read" /\ worker'.found = worker.found /\ worker'.batch = worker.batch
      /\ worker'.meta.read = worker.meta.read
  BY <1>5, <1>6
<1> QED
  BY <1>1, <1>2, <1>3, <1>5, <1>7, AfterReading

\* The end of a job that read everything.
LEMMA FinishKeeps == ASSUME IInv, JInv, Finish PROVE JInv' /\ NothingNew
<1> DEFINE unclear == worker.found.notes \/ (role = "evidence" /\ evidence = {} /\ ~archived)
           ai == IF unclear THEN "needs_review" ELSE "ready"
<1>1. Busy /\ worker.at = "finish"
  BY DEF Finish, At
<1>2. /\ IsProcess(worker) /\ worker.job = "process" /\ Unfinished
      /\ IsCopy(worker.meta) /\ IsMeta(worker.meta)
  BY <1>1, ProcessFacts DEF IsCopy
<1>3. /\ UNCHANGED <<role, rev, pages, evidence, asked, answered>>
      /\ meta' = [worker.meta EXCEPT !.ai = ai]
      /\ worker' = [worker EXCEPT !.at = "done", !.meta = meta']
  BY DEF Finish
<1>4. ai = "ready" => ~worker.found.notes
  OBVIOUS
<1> HIDE DEF ai
<1>5. Agree(meta', worker.meta) /\ meta'.ai = ai
  BY <1>2, <1>3, StatusFacts
<1>6. meta'.read = worker.meta.read /\ meta'.text = meta.text
  BY <1>2, <1>5 DEF Agree, IsCopy
<1>7. worker' = [job |-> "process", at |-> "done", meta |-> meta', found |-> worker.found,
                 batch |-> worker.batch]
  BY <1>2, <1>3 DEF IsProcess
<1>8. /\ worker'.at # "read" /\ worker'.found = worker.found /\ worker'.batch = worker.batch
      /\ worker'.meta.read = worker.meta.read
  BY <1>6, <1>7
<1> QED
  BY <1>1, <1>2, <1>3, <1>4, <1>5, <1>6, <1>8, AfterReading

\* A handler that finds nothing more to ask for has read everything.
LEMMA ReadDoneKeeps == ASSUME IInv, JInv, ReadDone PROVE JInv' /\ NothingNew
<1>1. Busy /\ worker.at = "read"
  BY DEF ReadDone, At
<1>2. /\ IsProcess(worker) /\ worker.job = "process" /\ Reading /\ ~Settled
      /\ IsCopy(worker.meta) /\ IsMeta(worker.meta) /\ worker.meta.ai = "running"
      /\ Now(worker.found)
      /\ Continues(worker.meta.read, meta.read) /\ Continues(worker.found, worker.meta.read)
  BY <1>1, ProcessFacts DEF IsCopy
<1>3. /\ UNCHANGED <<role, rev, pages, evidence, asked, answered>> /\ worker.batch = <<>>
      /\ AllBatches \subseteq worker.found.batches
      /\ worker' = [worker EXCEPT !.at = "index",
                                  !.meta = IF role = "tender" THEN meta' ELSE @]
      /\ meta' = IF role = "tender" THEN Saved(worker.found, worker.meta) ELSE meta
  BY DEF ReadDone
<1> DEFINE kept == IF role = "tender" THEN meta' ELSE worker.meta
<1>4. worker' = [job |-> "process", at |-> "index", meta |-> kept, found |-> worker.found,
                 batch |-> worker.batch]
  BY <1>2, <1>3 DEF IsProcess
<1>5. worker'.found = worker.found /\ worker'.batch = <<>> /\ worker'.meta = kept
  BY <1>3, <1>4
<1>6. /\ meta'.text = meta.text /\ ~Settled' /\ meta'.ai # "ready"
      /\ meta'.read \in {meta.read, worker.found}
      /\ kept.read \in {worker.meta.read, worker.found}
      /\ role = "tender" => kept.read = worker.found
      /\ Continues(meta'.read, meta.read)
  <2>1. Continues(worker.found, meta.read) /\ Continues(meta.read, meta.read)
    BY <1>2 DEF Continues
  <2>2. CASE role = "tender"
    <3>1. meta'.read = worker.found /\ meta'.text = meta.text /\ meta'.ai = "running"
      BY <1>2, <1>3, <2>2, SavedFacts DEF IsCopy
    <3>2. kept = meta'
      BY <2>2
    <3> QED
      BY <2>1, <3>1, <3>2 DEF Settled
  <2>3. CASE role # "tender"
    <3>1. meta' = meta /\ kept = worker.meta
      BY <1>3, <2>3
    <3> QED
      BY <1>2, <2>1, <2>3, <3>1 DEF Settled
  <2> QED
    BY <2>2, <2>3
<1> HIDE DEF kept
<1>7. \A r : Held(r)' => Held(r)
  BY <1>1, <1>2, <1>3, <1>5, <1>6 DEF Held
<1>8. \A x \in answered'.read \ answered'.lost : \E c \in SavedBatches' : x = Shown(c)
  BY <1>3, <1>6, MoreStored
<1>9. AllBatches' = AllBatches
  BY <1>3, PagesFrame
<1>10. \A r : Now(r)' <=> Now(r)
  BY <1>3, <1>6 DEF Now
<1>11. GoesOn' /\ ReadWhole'
  BY <1>2, <1>3, <1>5, <1>6, <1>9, <1>10 DEF GoesOn, ReadWhole
<1>12. SettledWhole' /\ UnmatchedStaysReported'
  BY <1>6 DEF SettledWhole, UnmatchedStaysReported
<1> QED
  BY <1>3, <1>6, <1>7, <1>8, <1>11, <1>12, SameText DEF NothingNew

\* A page that is transcribed was not read yet.
LEMMA TranscribeKeeps == ASSUME IInv, JInv, Transcribe PROVE JInv' /\ NothingNew
<1>1. Busy /\ worker.at = "read"
  BY DEF Transcribe, At
<1>2. Unfinished /\ ~Settled
  BY <1>1, ProcessFacts
<1>3. UNCHANGED <<role, rev, meta, evidence, worker, asked, answered>> /\ worker.batch = <<>>
  BY DEF Transcribe
<1>4. Untranscribed # {}
  BY DEF Transcribe
<1>5. PICK p \in Untranscribed :
          pages' = [pages EXCEPT ![p] =
                      [mode |-> "vision",
                       blocks |-> <<[id |-> <<rev, p, 0>>, size |-> Transcript]>> \o @.blocks]]
  BY DEF Transcribe
<1> DEFINE old == pages[p].blocks
           first == [id |-> <<rev, p, 0>>, size |-> Transcript]
           new == <<first>> \o old
           page == [mode |-> "vision", blocks |-> new]
<1>6. /\ p \in Pages /\ pages \in [Pages -> Page] /\ old \in Seq(Block)
      /\ pages' = [pages EXCEPT ![p] = page]
      /\ PageShape(p, pages[p]) /\ pages[p].mode = "needs_vision"
  <2>1. p \in Pages /\ pages[p].mode = "needs_vision"
    BY DEF Untranscribed
  <2> QED
    BY <1>5, <2>1 DEF IInv, Typed, Page, JInv, Shaped
<1>7. \A q \in Pages : pages'[q] = IF q = p THEN page ELSE pages[q]
  <2> HIDE DEF page
  <2> QED
    BY <1>6
<1>8. /\ Len(new) = Len(old) + 1 /\ Len(old) \in Nat /\ new[1] = first
      /\ \A i \in 2 .. Len(old) + 1 : new[i] = old[i - 1] /\ i - 1 \in 1 .. Len(old)
      /\ DOMAIN new = 1 .. Len(old) + 1 /\ DOMAIN old = 1 .. Len(old)
  <2> HIDE DEF first, old
  <2> DEFINE T == Block \cup {first}
  <2>1. old \in Seq(T) /\ <<first>> \in Seq(T) /\ Len(<<first>>) = 1 /\ <<first>>[1] = first
    BY <1>6, SeqMonotonic
  <2> HIDE DEF T
  <2>2. /\ new \in Seq(T) /\ Len(new) = 1 + Len(old) /\ Len(old) \in Nat
        /\ \A i \in 1 .. 1 + Len(old) : new[i] = IF i <= 1 THEN <<first>>[i] ELSE old[i - 1]
    BY <2>1, ConcatProperties, LenProperties
  <2>3. DOMAIN new = 1 .. Len(new) /\ DOMAIN old = 1 .. Len(old)
    BY <2>1, <2>2, LenProperties
  <2> HIDE DEF new
  <2> QED
    BY <2>1, <2>2, <2>3
<1>9. first.id[2] = p /\ first.id[3] = 0 /\ first.id = <<rev, p, 0>>
  OBVIOUS
<1> HIDE DEF first, new, old
<1>10. page.blocks = new /\ page.mode = "vision"
  OBVIOUS
<1> HIDE DEF page
<1>11. \A i \in 1 .. Len(old) : old[i].id[2] = p /\ old[i].id[3] # 0
  BY <1>6, <1>8 DEF PageShape, old
<1>12. \A i \in 1 .. Len(old) + 1 : i = 1 \/ i \in 2 .. Len(old) + 1
  BY <1>8
<1>13. PageShape(p, page)
  <2>1. \A i \in 1 .. Len(old) + 1 : new[i].id[2] = p
    BY <1>8, <1>9, <1>11, <1>12
  <2>2. ASSUME NEW i \in 1 .. Len(old) + 1, NEW j \in 1 .. Len(old) + 1, new[i].id = new[j].id
        PROVE  i = j
    <3>1. CASE i = 1 /\ j \in 2 .. Len(old) + 1
      BY <1>8, <1>9, <1>11, <2>2, <3>1
    <3>2. CASE j = 1 /\ i \in 2 .. Len(old) + 1
      BY <1>8, <1>9, <1>11, <2>2, <3>2
    <3>3. CASE i \in 2 .. Len(old) + 1 /\ j \in 2 .. Len(old) + 1
      <4>1. old[i - 1].id = old[j - 1].id
        BY <1>8, <2>2, <3>3
      <4>2. i - 1 = j - 1
        BY <1>6, <1>8, <3>3, <4>1 DEF PageShape, old
      <4> QED
        BY <4>2
    <3> QED
      BY <1>12, <3>1, <3>2, <3>3
  <2> QED
    BY <1>8, <1>10, <2>1, <2>2 DEF PageShape
<1>14. Shaped'
  BY <1>7, <1>13 DEF JInv, Shaped
<1>15. Ids \subseteq Ids'
  <2> SUFFICES ASSUME NEW q \in Pages, NEW i \in DOMAIN pages[q].blocks
               PROVE  \E j \in DOMAIN pages'[q].blocks : pages'[q].blocks[j] = pages[q].blocks[i]
    BY DEF Ids, BlocksInForce, Range
  <2>1. CASE q = p
    <3>1. i \in 1 .. Len(old) /\ pages'[q].blocks = new
      BY <1>7, <1>8, <1>10, <2>1 DEF old
    <3>2. i + 1 \in 2 .. Len(old) + 1 /\ (i + 1) - 1 = i /\ i + 1 \in 1 .. Len(old) + 1
      BY <1>8, <3>1
    <3>3. new[i + 1] = old[i] /\ i + 1 \in DOMAIN new
      BY <1>8, <3>2
    <3> QED
      BY <2>1, <3>1, <3>3 DEF old
  <2>2. CASE q # p
    BY <1>7, <2>2
  <2> QED
    BY <2>1, <2>2
<1>16. answered.read = {} /\ answered.unmatched = {}
  BY <1>4 DEF JInv, Remembered
<1>17. Remembered'
  BY <1>3, <1>16 DEF Remembered
<1>18. Busy' = Busy /\ Reading' = Reading /\ Unfinished' = Unfinished /\ Settled' = Settled
  BY <1>3 DEF Busy, Reading, Unfinished, Settled
<1>19. ASSUME NEW r, Held(r)' PROVE Sound(r)'
  <2>1. Held(r) /\ (Now(r)' <=> Now(r))
    BY <1>3, <1>18, <1>19 DEF Held, Now
  <2>2. Sound(r)
    BY <2>1 DEF JInv, AllSound
  <2>3. Now(r) => r.batches = {} /\ \A e \in r.entries : e.block \in Ids'
    BY <1>15, <1>16, <2>2 DEF Sound
  <2> QED
    BY <1>3, <2>1, <2>2, <2>3 DEF Sound
<1>20. AllSound' /\ Cited'
  BY <1>3, <1>15, <1>19 DEF JInv, AllSound, Cited
<1>21. GoesOn' /\ ReadWhole' /\ SettledWhole' /\ UnmatchedStaysReported'
  BY <1>1, <1>2, <1>3, <1>16, <1>18
     DEF GoesOn, ReadWhole, SettledWhole, UnmatchedStaysReported
<1>22. NothingNew
  BY <1>3, <1>18 DEF NothingNew, Held
<1> QED
  BY <1>14, <1>17, <1>20, <1>21, <1>22 DEF JInv

\* An answer is saved with its batch; what was found in it cites what was shown.
LEMMA AnswerKeeps ==
    ASSUME IInv, JInv, NEW findings, NEW reading, NEW split, Answer(findings, reading, split)
    PROVE  JInv' /\ \E r : OnlyNew(r, findings)
<1> DEFINE unmatched == Matched(findings) # findings
           batches == worker.found.batches \cup {worker.batch}
           notes == worker.found.notes \/ unmatched
           entries == IF role = "tender" THEN Merged(worker.found.entries, Matched(findings))
                                         ELSE worker.found.entries
           lines == IF Len(split) = 1 THEN worker.found.reading \cup reading
                                      ELSE worker.found.reading
           found == Added(worker.found, batches, notes, entries, lines)
<1>1. Busy /\ worker.at = "read" /\ worker.batch # <<>>
  BY DEF Answer, At
<1>2. /\ IsProcess(worker) /\ worker.job = "process" /\ Reading
      /\ IsCopy(worker.meta) /\ IsMeta(worker.meta) /\ worker.meta.ai = "running"
      /\ IsRead(worker.found) /\ Now(worker.found)
      /\ Continues(worker.meta.read, meta.read) /\ Continues(worker.found, worker.meta.read)
  BY <1>1, ProcessFacts DEF IsCopy
<1>3. Untranscribed = {} /\ worker.batch \in AllBatches \ worker.found.batches
  BY <1>1, <1>2 DEF JInv, GoesOn
<1>4. \A f \in Matched(findings) : f.block \in Ids
  <2>1. findings \subseteq Findings(Batches(worker.batch[1])[worker.batch[2]])
    BY DEF Answer
  <2>2. \A f \in Matched(findings) :
            f.block \in {g.block : g \in Range(Batches(worker.batch[1])[worker.batch[2]])}
    BY <2>1 DEF Matched, Findings
  <2>3. \A f \in Shown(worker.batch) : f.block \in Ids
    BY <1>3, BatchFacts DEF IInv, JInv
  <2> QED
    BY <2>2, <2>3 DEF Shown
<1>5. /\ meta' = Saved(found, worker.meta)
      /\ worker' = [worker EXCEPT !.batch = <<>>, !.found = found, !.meta = meta']
      /\ answered'.read = answered.read \cup {Shown(worker.batch)}
      /\ answered'.unmatched = IF unmatched THEN answered.unmatched \cup {Shown(worker.batch)}
                               ELSE answered.unmatched \ {Shown(worker.batch)}
      /\ answered'.lost = answered.lost \ {Shown(b) : b \in found.batches}
      /\ evidence' = evidence \/ evidence' = evidence \cup Matched(findings)
      /\ UNCHANGED <<role, rev, pages, asked>>
  BY DEF Answer, Added, Shown
<1>6. found = [rev |-> worker.found.rev, text |-> worker.found.text, batches |-> batches,
               notes |-> notes, entries |-> entries, reading |-> lines]
  <2>1. notes \in BOOLEAN
    OBVIOUS
  <2> HIDE DEF batches, entries, lines, notes
  <2> QED
    BY <1>2, <2>1, AddedFacts
<1>7. /\ \A e \in entries : e \in worker.found.entries \/ e \in Matched(findings)
      /\ role # "tender" => entries = worker.found.entries
  BY DEF Merged
<1>8. \A b : b \in batches <=> b \in worker.found.batches \/ b = worker.batch
  OBVIOUS
<1>9. (unmatched => notes) /\ (worker.found.notes => notes)
  OBVIOUS
<1> HIDE DEF found, batches, entries, lines, notes, unmatched
<1>10. /\ found.rev = rev /\ found.text = meta.text /\ found.notes = notes
       /\ found.batches = batches /\ found.entries = entries
  BY <1>2, <1>6 DEF Now
<1>11. meta'.read = found /\ meta'.text = meta.text /\ meta'.ai = "running"
  BY <1>2, <1>5, SavedFacts DEF IsCopy
<1>12. worker' = [job |-> "process", at |-> "read", meta |-> meta', found |-> found,
                 batch |-> <<>>]
  BY <1>1, <1>2, <1>5 DEF IsProcess
<1>13. /\ worker'.at = "read" /\ worker'.found = found /\ worker'.batch = <<>>
       /\ worker'.meta.read = found
  BY <1>11, <1>12
<1>14. /\ AllBatches' = AllBatches /\ Untranscribed' = Untranscribed /\ Ids' = Ids
       /\ Shaped' = Shaped /\ \A b : Shown(b)' = Shown(b)
  BY <1>5, PagesFrame
<1>15. (\A r : Now(r)' <=> Now(r)) /\ Now(found)
  BY <1>5, <1>10, <1>11 DEF Now
<1>16. ASSUME NEW b \in AllBatches, Shown(b) = Shown(worker.batch) PROVE b = worker.batch
  BY <1>3, <1>16, BatchesDiffer DEF IInv, JInv
<1>17. ASSUME NEW r, r = found PROVE Sound(r)'
  <2>1. Sound(worker.found)
    BY <1>2 DEF JInv, AllSound, Held
  <2>2. ASSUME NEW b \in batches
        PROVE  /\ b \in AllBatches /\ Shown(b) \in answered'.read
               /\ Shown(b) \in answered'.unmatched => notes
    <3>1. CASE b \in worker.found.batches
      <4>1. /\ b \in AllBatches /\ Shown(b) \in answered.read
            /\ Shown(b) \in answered.unmatched => worker.found.notes
        BY <1>2, <2>1, <3>1 DEF Sound
      <4>2. Shown(b) # Shown(worker.batch)
        BY <1>3, <1>16, <3>1, <4>1
      <4> QED
        BY <1>5, <1>9, <4>1, <4>2
    <3>2. CASE b = worker.batch
      BY <1>3, <1>5, <1>9, <3>2
    <3> QED
      BY <1>8, <3>1, <3>2
  <2>3. \A e \in entries : e.block \in Ids
    BY <1>2, <1>4, <1>7, <2>1 DEF Sound
  <2>4. role # "tender" => entries = {}
    BY <1>7, <2>1 DEF Sound
  <2> QED
    BY <1>5, <1>10, <1>14, <1>17, <2>2, <2>3, <2>4 DEF Sound
<1>18. ASSUME NEW r, Held(r), Now(r) => r.batches \subseteq worker.found.batches
       PROVE  Sound(r)'
  <2>1. Sound(r)
    BY <1>18 DEF JInv, AllSound
  <2>2. ASSUME Now(r), NEW b \in r.batches
        PROVE  /\ b \in AllBatches /\ Shown(b) \in answered'.read
               /\ Shown(b) \in answered'.unmatched => r.notes
    <3>1. /\ b \in AllBatches /\ Shown(b) \in answered.read
          /\ Shown(b) \in answered.unmatched => r.notes
      BY <2>1, <2>2 DEF Sound
    <3>2. Shown(b) # Shown(worker.batch)
      BY <1>3, <1>16, <1>18, <2>2, <3>1
    <3> QED
      BY <1>5, <3>1, <3>2
  <2> QED
    BY <1>5, <1>14, <1>15, <2>1, <2>2 DEF Sound
<1>19. \A r : Held(r)' => r = found \/ \E copy \in asked : r = copy.read
  BY <1>5, <1>11, <1>13 DEF Held
<1>20. \A copy \in asked : Held(copy.read) /\ Continues(worker.found, copy.read)
  <2>1. \A copy \in asked : Continues(meta.read, copy.read)
    BY DEF IInv, Ordered
  <2> QED
    BY <1>2, <2>1 DEF Continues, Held
<1>21. ASSUME NEW r, Held(r)' PROVE Sound(r)'
  <2>1. CASE r = found
    BY <1>17, <2>1
  <2>2. CASE \E copy \in asked : r = copy.read
    BY <1>18, <1>20, <2>2 DEF Continues
  <2> QED
    BY <1>19, <1>21, <2>1, <2>2
<1>22. AllSound'
  BY <1>21 DEF AllSound
<1>23. SavedBatches' = batches
  BY <1>10, <1>11, <1>15 DEF SavedBatches
<1>24. Remembered'
  <2>1. \A x \in answered'.read : \E b \in AllBatches : x = Shown(b)
    BY <1>3, <1>5 DEF JInv, Remembered
  <2>2. answered'.unmatched \subseteq answered'.read
    BY <1>5 DEF JInv, Remembered
  <2>3. ASSUME NEW x \in answered'.read \ answered'.lost PROVE \E b \in batches : x = Shown(b)
    <3>1. CASE x = Shown(worker.batch)
      BY <1>8, <3>1
    <3>2. CASE x \in answered.lost
      BY <1>5, <1>10, <2>3, <3>2
    <3>3. CASE x \in answered.read \ answered.lost
      <4>1. PICK b \in SavedBatches : x = Shown(b)
        BY <3>3 DEF JInv, Remembered
      <4> QED
        BY <1>2, <1>8, <4>1, StoredIsFound
    <3> QED
      BY <1>5, <3>1, <3>2, <3>3
  <2> QED
    BY <1>3, <1>14, <1>23, <2>1, <2>2, <2>3 DEF Remembered
<1>25. Cited'
  BY <1>4, <1>5, <1>14 DEF JInv, Cited
<1>26. GoesOn' /\ ReadWhole' /\ SettledWhole' /\ UnmatchedStaysReported'
  BY <1>11, <1>13 DEF GoesOn, ReadWhole, SettledWhole, Settled, UnmatchedStaysReported
<1>27. OnlyNew(found, findings)
  BY <1>7, <1>10, <1>19 DEF OnlyNew, Held, batches
<1>28. JInv'
  BY <1>14, <1>22, <1>24, <1>25, <1>26 DEF JInv
<1> QED
  BY <1>27, <1>28

\* Before the first parse there is nothing.
LEMMA InitRead == Init => JInv
<1> SUFFICES ASSUME Init PROVE JInv
  OBVIOUS
<1>1. /\ rev = 0 /\ pages = [p \in Pages |-> NoText] /\ worker = Idle /\ answered = NoAnswers
      /\ evidence = {} /\ asked = {}
  BY DEF Init
<1>2. meta = [parse |-> "none", ai |-> "none", auto |-> FALSE, text |-> 0,
              read |-> NothingRead, index |-> 0, embedding |-> "none"]
  BY DEF Init
<1>3. meta.ai = "none" /\ meta.read = NothingRead
  BY <1>2
<1>4. NothingRead.batches = {} /\ NothingRead.entries = {}
  BY DEF NothingRead
<1>5. answered.read = {} /\ answered.unmatched = {}
  BY <1>1 DEF NoAnswers
<1>6. Shaped
  BY <1>1 DEF Shaped, PageShape, NoText
<1>7. ~Busy /\ ~Reading /\ ~Unfinished /\ ~Settled
  BY <1>1, <1>3 DEF Busy, Reading, Unfinished, Settled
<1>8. \A r : Held(r) => r = NothingRead
  BY <1>1, <1>3, <1>7 DEF Held
<1>9. AllSound
  BY <1>4, <1>8 DEF AllSound, Sound
<1>10. Remembered /\ UnmatchedStaysReported
  BY <1>5 DEF Remembered, UnmatchedStaysReported
<1>11. GoesOn /\ ReadWhole /\ SettledWhole /\ Cited
  BY <1>1, <1>7 DEF GoesOn, ReadWhole, SettledWhole, Cited
<1> QED
  BY <1>6, <1>9, <1>10, <1>11 DEF JInv

\* Every step keeps it.
LEMMA NextKeeps == ASSUME IInv, JInv, [Next]_vars PROVE JInv'
<1>1. CASE BeginParse \/ FinishParse
  BY <1>1, BeginParseChange, StatusKeeps, FinishParseKeeps
<1>2. CASE BeginProcess \/ Transcribe \/ Ask \/ Answers
  BY <1>2, BeginProcessKeeps, TranscribeKeeps, AskKeeps, AnswerKeeps DEF Answers
<1>3. CASE ReadDone \/ Index \/ Embed \/ Finish
  BY <1>3, ReadDoneKeeps, IndexKeeps, EmbedKeeps, FinishKeeps
<1>4. CASE Complete \/ StopProcess \/ \E crash \in BOOLEAN : StopParse(crash)
  BY <1>4, CompleteChange, StopProcessChange, StopParseChange, StatusKeeps
<1>5. CASE Reparse \/ ProcessRead \/ ProcessStore
  BY <1>5, ReparseChange, StatusKeeps, ProcessReadKeeps, ProcessStoreKeeps
<1>6. CASE Interpret \/ \E p \in Pages : Correct(p)
  BY <1>6, InterpretKeeps, CorrectKeeps
<1>7. CASE \E kind \in {"parse", "process"} : Cancel(kind)
  BY <1>7, CancelChange, StatusKeeps
<1>8. CASE \E s \in {"off", "unconfigured"} \cup Embeddings : Configure(s)
  BY <1>8, ConfigureChange, StatusKeeps
<1>9. CASE UNCHANGED vars
  BY <1>9, StutterChange, StatusKeeps
<1> QED
  BY <1>1, <1>2, <1>3, <1>4, <1>5, <1>6, <1>7, <1>8, <1>9, Zenon DEF Next

(***************************************************************************)
(* What follows for a document that is ready, and for what is sent.        *)
(***************************************************************************)
\* The invariant, with that of Ingestion_proofs.
LEMMA ReadingInvariant == Spec => [](IInv /\ JInv)
<1>1. IInv /\ JInv /\ [Next]_vars => JInv'
  BY NextKeeps
<1> QED
  BY Invariant, InitRead, <1>1, PTL DEF Spec

\* A document that is shown as ready was read whole: however long its blocks are and however
\* they are divided into fragments and batches, every position of the text in force was in a
\* batch whose answer was saved (_block_batches, process_document_job).
THEOREM ReadyDocumentsWereRead == Spec => []ReadyMeansRead
<1>1. IInv /\ JInv => ReadyMeansRead
  BY ReadyIsRead
<1> QED
  BY ReadingInvariant, <1>1, PTL

\* What analyses get from a ready document quotes blocks of its present text, after any
\* corrections, parses and repeated jobs (the cache of requirements and the facts of the
\* present revision, in process_document_job and correct_page_text).
THEOREM FindingsQuotePresentText == Spec => []FindingsCiteTextInForce
<1>1. JInv => FindingsCiteTextInForce
  BY InForce
<1> QED
  BY ReadingInvariant, <1>1, PTL

\* A batch whose answer is saved is not sent again in the same text: no two batches show the
\* same, and a job goes on from what any earlier one saved (process_document_job).  Left out
\* are the batches POST /process has stored older metadata over, until an answer brings them
\* back: these may be sent again.
THEOREM NothingIsPaidForTwice == Spec => []SavedBatchesNotAskedAgain
<1>1. IInv /\ JInv => SavedBatchesNotAskedAgain
  BY NotAgain
<1> QED
  BY ReadingInvariant, <1>1, PTL

\* A document with a quotation that was not found is not shown as ready, whichever job met
\* it and whichever finished the document, and whatever older metadata a request stored in
\* between (extraction.py's coverage_notes, kept with the batches they are of).
THEOREM UnmatchedReported == Spec => []UnmatchedStaysReported
<1>1. JInv => UnmatchedStaysReported
  BY DEF JInv
<1> QED
  BY ReadingInvariant, <1>1, PTL

(***************************************************************************)
(* Types: of the jobs, of what is stored about the document, and of what   *)
(* is found in it.                                                         *)
(***************************************************************************)
Kinds == {"parse", "process"}
Job == [status : {"none", "queued", "running"}, attempts : 0 .. MaxAttempts,
        cancel : BOOLEAN, model : {"none"} \cup Embeddings]

\* A parse that is queued may still be tried, and one that runs may add a revision.
Queueing ==
    /\ jobs = [parse |-> jobs.parse, process |-> jobs.process]
    /\ jobs.parse \in Job /\ jobs.process \in Job
    /\ \A k \in Kinds : jobs[k].status = "running" <=> Busy /\ worker.job = k
    /\ jobs.parse.status = "queued" => jobs.parse.attempts < MaxAttempts
    /\ rev \in 0 .. MaxRevision
    /\ Busy /\ worker.job = "parse" /\ worker.at = "parse" => rev < MaxRevision

IsJob(j) == j = [status |-> j.status, attempts |-> j.attempts, cancel |-> j.cancel,
                 model |-> j.model]

\* Changes of one field, or of two.
LEMMA JobFacts ==
    ASSUME NEW j, IsJob(j), NEW x
    PROVE  /\ [j EXCEPT !.status = x] = [status |-> x, attempts |-> j.attempts,
                                         cancel |-> j.cancel, model |-> j.model]
           /\ [j EXCEPT !.cancel = x] = [status |-> j.status, attempts |-> j.attempts,
                                         cancel |-> x, model |-> j.model]
BY DEF IsJob

\* A job that is queued.
LEMMA QueuedJobFacts ==
    ASSUME NEW j, IsJob(j), NEW x, NEW y
    PROVE  [j EXCEPT !.status = x, !.model = y]
           = [status |-> x, attempts |-> j.attempts, cancel |-> j.cancel, model |-> y]
<1> DEFINE k == [j EXCEPT !.status = x]
<1>1. [j EXCEPT !.status = x, !.model = y] = [k EXCEPT !.model = y]
  OBVIOUS
<1>2. k = [status |-> x, attempts |-> j.attempts, cancel |-> j.cancel, model |-> j.model]
  BY JobFacts
<1> HIDE DEF k
<1> QED
  BY <1>1, <1>2

\* A job that is started.
LEMMA StartedJobFacts ==
    ASSUME NEW j, IsJob(j), NEW x
    PROVE  [j EXCEPT !.status = x, !.attempts = @ + 1]
           = [status |-> x, attempts |-> j.attempts + 1, cancel |-> j.cancel, model |-> j.model]
<1> DEFINE k == [j EXCEPT !.status = x]
<1>1. [j EXCEPT !.status = x, !.attempts = @ + 1] = [k EXCEPT !.attempts = @ + 1]
  OBVIOUS
<1>2. k = [status |-> x, attempts |-> j.attempts, cancel |-> j.cancel, model |-> j.model]
  BY JobFacts
<1> HIDE DEF k
<1> QED
  BY <1>1, <1>2

\* A document without a job.
LEMMA NoJobFacts ==
    /\ IsJob(NoJob) /\ NoJob \in Job /\ NoJob.status = "none" /\ NoJob.attempts = 0
    /\ NoJob.cancel \in BOOLEAN
BY BoundAssumption DEF NoJob, IsJob, Job

\* A job in progress is kept, and a new one has not been tried.
LEMMA EnqueuedFacts ==
    ASSUME NEW job \in Job, NEW model \in {"none"} \cup Embeddings
    PROVE  /\ Enqueued(job, model) \in Job
           /\ Enqueued(job, model).status = "running" <=> job.status = "running"
           /\ job.status = "queued" => Enqueued(job, model) = job
           /\ Enqueued(job, model) = job \/ Enqueued(job, model).attempts = 0
<1>1. CASE Active(job)
  BY <1>1 DEF Enqueued
<1>2. CASE ~Active(job)
  <2> DEFINE new == [NoJob EXCEPT !.status = "queued", !.model = model]
  <2>1. Enqueued(job, model) = new /\ job.status \notin {"queued", "running"}
    BY <1>2 DEF Enqueued, Active
  <2>2. new = [status |-> "queued", attempts |-> NoJob.attempts, cancel |-> NoJob.cancel,
               model |-> model]
    BY NoJobFacts, QueuedJobFacts
  <2> HIDE DEF new
  <2> QED
    BY <2>1, <2>2, NoJobFacts, BoundAssumption DEF Job
<1> QED
  BY <1>1, <1>2

\* Queueing the reading leaves the parse alone, and a reading that runs.
LEMMA ProcessingFacts ==
    ASSUME Queueing
    PROVE  /\ Processing(jobs) = [parse |-> jobs.parse, process |-> Processing(jobs).process]
           /\ Processing(jobs).process \in Job
           /\ Processing(jobs).process.status = "running" <=> jobs.process.status = "running"
<1>1. jobs = [parse |-> jobs.parse, process |-> jobs.process] /\ jobs.process \in Job
  BY DEF Queueing
<1>2. CASE service \in Embeddings
  <2> DEFINE job == Enqueued(jobs.process, service)
  <2>1. job \in Job /\ (job.status = "running" <=> jobs.process.status = "running")
    BY <1>1, <1>2, EnqueuedFacts
  <2>2. Processing(jobs) = [jobs EXCEPT !.process = job]
    BY <1>2 DEF Processing
  <2> HIDE DEF job
  <2> QED
    BY <1>1, <2>1, <2>2
<1>3. CASE service \notin Embeddings
  BY <1>1, <1>3 DEF Processing
<1> QED
  BY <1>2, <1>3

\* A step that leaves the parse and the revision alone, and stops or starts no job.
LEMMA QueueFrame ==
    ASSUME Queueing, UNCHANGED rev,
           jobs' = [parse |-> jobs.parse, process |-> jobs'.process], jobs'.process \in Job,
           jobs'.process.status = "running" <=> jobs.process.status = "running",
           Busy' = Busy, worker'.job = worker.job,
           worker'.at = "parse" => worker.at = "parse"
    PROVE  Queueing'
<1>1. jobs'.parse = jobs.parse
  OBVIOUS
<1> QED
  BY <1>1 DEF Queueing, Kinds

\* The worker takes a job.
LEMMA QueueBegin ==
    ASSUME IInv, Queueing, BeginParse \/ BeginProcess PROVE Queueing'
<1>1. /\ jobs = [parse |-> jobs.parse, process |-> jobs.process]
      /\ jobs.parse \in Job /\ jobs.process \in Job /\ rev \in 0 .. MaxRevision
      /\ jobs.parse.status = "running" <=> Busy /\ worker.job = "parse"
      /\ jobs.process.status = "running" <=> Busy /\ worker.job = "process"
      /\ jobs.parse.status = "queued" => jobs.parse.attempts < MaxAttempts
      /\ IsJob(jobs.parse) /\ IsJob(jobs.process) /\ MaxAttempts \in Nat
  BY BoundAssumption DEF Queueing, Kinds, Job, IsJob
<1>2. ~Busy
  BY DEF BeginParse, BeginProcess
<1>3. CASE BeginParse
  <2> DEFINE new == [jobs.parse EXCEPT !.status = "running", !.attempts = @ + 1]
  <2>1. /\ jobs' = [jobs EXCEPT !.parse.status = "running", !.parse.attempts = @ + 1]
        /\ jobs.parse.status = "queued" /\ rev < MaxRevision /\ rev' = rev
        /\ worker' = [job |-> "parse", at |-> "parse", meta |-> meta']
    BY <1>3 DEF BeginParse
  <2>2. [jobs EXCEPT !.parse.status = "running", !.parse.attempts = @ + 1]
          = [parse |-> new, process |-> jobs.process]
    <3> DEFINE begun == [jobs.parse EXCEPT !.status = "running"]
               js == [jobs EXCEPT !.parse.status = "running"]
    <3>1. [jobs EXCEPT !.parse.status = "running", !.parse.attempts = @ + 1]
            = [js EXCEPT !.parse.attempts = @ + 1]
      OBVIOUS
    <3>2. js = [parse |-> begun, process |-> jobs.process]
      BY <1>1
    <3>3. new = [begun EXCEPT !.attempts = @ + 1]
      OBVIOUS
    <3> HIDE DEF js, begun, new
    <3>4. [js EXCEPT !.parse.attempts = @ + 1]
            = [parse |-> [begun EXCEPT !.attempts = @ + 1], process |-> jobs.process]
      BY <3>2
    <3> QED
      BY <3>1, <3>3, <3>4
  <2>3. new = [status |-> "running", attempts |-> jobs.parse.attempts + 1,
               cancel |-> jobs.parse.cancel, model |-> jobs.parse.model]
    BY <1>1, StartedJobFacts
  <2> HIDE DEF new
  <2>4. jobs' = [parse |-> new, process |-> jobs.process]
    BY <2>1, <2>2
  <2>5. new \in Job /\ new.status = "running"
    BY <1>1, <2>1, <2>3 DEF Job
  <2>6. worker'.job = "parse" /\ Busy'
    BY <2>1, <1>3 DEF Busy, Idle
  <2>7. jobs'.parse = new /\ jobs'.process = jobs.process
    BY <2>4
  <2>8. \A k \in Kinds : jobs'[k].status = "running" <=> Busy' /\ worker'.job = k
    BY <1>1, <1>2, <2>5, <2>6, <2>7 DEF Kinds
  <2> QED
    BY <1>1, <2>1, <2>4, <2>5, <2>7, <2>8 DEF Queueing
<1>4. CASE BeginProcess
  <2> DEFINE new == [jobs.process EXCEPT !.status = "running"]
  <2>1. /\ jobs' = [jobs EXCEPT !.process.status = "running"] /\ rev' = rev
        /\ worker' = [job |-> "process", at |-> "read", meta |-> meta',
                      found |-> Resumed(meta, rev), batch |-> <<>>]
    BY <1>4 DEF BeginProcess
  <2>2. new = [status |-> "running", attempts |-> jobs.process.attempts,
               cancel |-> jobs.process.cancel, model |-> jobs.process.model]
    BY <1>1, JobFacts
  <2>3. jobs' = [parse |-> jobs.parse, process |-> new]
    BY <1>1, <2>1
  <2> HIDE DEF new
  <2>4. new \in Job /\ new.status = "running"
    BY <1>1, <2>2 DEF Job
  <2>5. worker'.job = "process" /\ Busy'
    BY <2>1 DEF Busy, Idle
  <2> QED
    BY <1>1, <1>2, <2>1, <2>3, <2>4, <2>5 DEF Queueing, Kinds
<1> QED
  BY <1>3, <1>4

\* The end of a parse queues the reading.
LEMMA QueueParsed == ASSUME IInv, Queueing, FinishParse PROVE Queueing'
<1>1. Busy /\ worker.at = "parse"
  BY DEF FinishParse, At
<1>2. IsParse(worker) /\ worker.job = "parse"
  BY <1>1 DEF IInv, Typed, IsProcess, IsParse, Busy
<1>3. jobs' = Processing(jobs) /\ rev' = rev + 1 /\ worker' = [worker EXCEPT !.at = "done"]
  BY DEF FinishParse
<1>4. worker' = [job |-> "parse", at |-> "done", meta |-> worker.meta]
  BY <1>2, <1>3 DEF IsParse
<1>5. worker'.job = "parse" /\ worker'.at = "done" /\ Busy'
  BY <1>4 DEF Busy, Idle
<1>6. rev' \in 0 .. MaxRevision
  BY <1>1, <1>2, <1>3, BoundAssumption DEF Queueing
<1> QED
  BY <1>1, <1>2, <1>3, <1>5, <1>6, ProcessingFacts DEF Queueing, Kinds

\* The steps of a handler that do not end it.
LEMMA QueueHandler ==
    ASSUME IInv, Queueing,
           Transcribe \/ Ask \/ Answers \/ ReadDone \/ Index \/ Embed \/ Finish
    PROVE  Queueing'
<1>1. Busy /\ worker.at \in {"read", "index", "embed", "finish"} /\ UNCHANGED <<jobs, rev>>
  BY DEF Transcribe, Ask, Answers, Answer, ReadDone, Index, Embed, Finish, At
<1>2. IsProcess(worker) /\ worker.job = "process"
  BY <1>1, ProcessFacts
<1>3. worker' = worker \/ \E at \in {"read", "index", "embed", "finish", "done"} :
                              \E m, found, batch :
          worker' = [job |-> "process", at |-> at, meta |-> m, found |-> found, batch |-> batch]
  <2>1. CASE Transcribe
    BY <2>1 DEF Transcribe
  <2>2. CASE Ask
    BY <1>2, <2>2 DEF Ask, IsProcess
  <2>3. CASE Answers
    <3>1. PICK findings, reading, split : Answer(findings, reading, split)
      BY <2>3 DEF Answers
    <3>2. \E found : worker' = [worker EXCEPT !.batch = <<>>, !.found = found, !.meta = meta']
      BY <3>1 DEF Answer
    <3> QED
      BY <1>2, <3>2 DEF IsProcess
  <2>4. CASE ReadDone
    <3>1. \E m : worker' = [worker EXCEPT !.at = "index", !.meta = m]
      BY <2>4 DEF ReadDone
    <3> QED
      BY <1>2, <3>1 DEF IsProcess
  <2>5. CASE Index
    <3>1. \E m : \E at \in {"embed", "finish"} : worker' = [worker EXCEPT !.at = at, !.meta = m]
      BY <2>5 DEF Index
    <3> QED
      BY <1>2, <3>1 DEF IsProcess
  <2>6. CASE Embed \/ Finish
    <3>1. \E m : \E at \in {"finish", "done"} : worker' = [worker EXCEPT !.at = at, !.meta = m]
      BY <2>6 DEF Embed, Finish
    <3> QED
      BY <1>2, <3>1 DEF IsProcess
  <2> QED
    BY <2>1, <2>2, <2>3, <2>4, <2>5, <2>6
<1>4. worker'.job = "process" /\ Busy'
  BY <1>1, <1>2, <1>3 DEF Busy, Idle
<1>5. jobs' = jobs
  BY <1>1
<1> QED
  BY <1>1, <1>2, <1>4, <1>5 DEF Queueing, Kinds

\* The end of a job: it is done, canceled, failed or queued once more.
LEMMA QueueEnd ==
    ASSUME IInv, Queueing, Complete \/ StopProcess \/ \E crash \in BOOLEAN : StopParse(crash)
    PROVE  Queueing'
<1>1. /\ jobs = [parse |-> jobs.parse, process |-> jobs.process]
      /\ jobs.parse \in Job /\ jobs.process \in Job /\ rev \in 0 .. MaxRevision
      /\ jobs.parse.status = "running" <=> Busy /\ worker.job = "parse"
      /\ jobs.process.status = "running" <=> Busy /\ worker.job = "process"
      /\ jobs.parse.status = "queued" => jobs.parse.attempts < MaxAttempts
      /\ IsJob(jobs.parse) /\ IsJob(jobs.process)
  BY DEF Queueing, Kinds, Job, IsJob
<1>2. worker' = Idle /\ rev' = rev /\ Busy /\ ~Busy'
  BY DEF Complete, StopProcess, StopParse, At, Busy
<1>3. worker.job \in {"parse", "process"}
  BY <1>2 DEF IInv, Typed, IsParse, IsProcess, Busy
<1>4. NoJob \in Job /\ NoJob.status = "none"
  BY NoJobFacts
<1>5. CASE worker.job = "parse" /\ jobs' = [jobs EXCEPT !.parse = NoJob]
  <2>1. jobs' = [parse |-> NoJob, process |-> jobs.process]
    BY <1>1, <1>5
  <2> QED
    BY <1>1, <1>2, <1>4, <1>5, <2>1 DEF Queueing, Kinds
<1>6. CASE worker.job = "process" /\ jobs' = [jobs EXCEPT !.process = NoJob]
  <2>1. jobs' = [parse |-> jobs.parse, process |-> NoJob]
    BY <1>1, <1>6
  <2> QED
    BY <1>1, <1>2, <1>4, <1>6, <2>1 DEF Queueing, Kinds
<1>7. CASE /\ worker.job = "parse" /\ jobs.parse.attempts < MaxAttempts
           /\ jobs' = [jobs EXCEPT !.parse = [@ EXCEPT !.status = "queued"]]
  <2> DEFINE new == [jobs.parse EXCEPT !.status = "queued"]
  <2>1. new = [status |-> "queued", attempts |-> jobs.parse.attempts,
               cancel |-> jobs.parse.cancel, model |-> jobs.parse.model]
    BY <1>1, JobFacts
  <2>2. jobs' = [parse |-> new, process |-> jobs.process]
    BY <1>1, <1>7
  <2> HIDE DEF new
  <2>3. new \in Job /\ new.status = "queued" /\ new.attempts < MaxAttempts
    BY <1>1, <1>7, <2>1 DEF Job
  <2> QED
    BY <1>1, <1>2, <1>7, <2>2, <2>3 DEF Queueing, Kinds
<1>8. CASE Complete
  <2>1. jobs' = [jobs EXCEPT ![worker.job] = NoJob]
    BY <1>8 DEF Complete
  <2> QED
    BY <1>3, <1>5, <1>6, <2>1
<1>9. CASE StopProcess
  BY <1>6, <1>9 DEF StopProcess
<1>10. ASSUME NEW crash \in BOOLEAN, StopParse(crash) PROVE Queueing'
  <2>1. \/ jobs' = [jobs EXCEPT !.parse = NoJob]
        \/ /\ jobs.parse.attempts < MaxAttempts
           /\ jobs' = [jobs EXCEPT !.parse = [@ EXCEPT !.status = "queued"]]
    BY <1>10 DEF StopParse
  <2> QED
    BY <1>5, <1>7, <1>10, <2>1 DEF StopParse
<1> QED
  BY <1>8, <1>9, <1>10

\* Requests do not stop a job, and start none.
LEMMA QueueRequest ==
    ASSUME IInv, Queueing,
           Reparse \/ ProcessRead \/ ProcessStore \/ Interpret
             \/ (\E p \in Pages : Correct(p))
             \/ (\E k \in Kinds : Cancel(k))
             \/ (\E s \in {"off", "unconfigured"} \cup Embeddings : Configure(s))
    PROVE  Queueing'
<1>1. /\ jobs = [parse |-> jobs.parse, process |-> jobs.process]
      /\ jobs.parse \in Job /\ jobs.process \in Job /\ rev \in 0 .. MaxRevision
      /\ jobs.parse.status = "running" <=> Busy /\ worker.job = "parse"
      /\ jobs.process.status = "running" <=> Busy /\ worker.job = "process"
      /\ jobs.parse.status = "queued" => jobs.parse.attempts < MaxAttempts
      /\ IsJob(jobs.parse) /\ IsJob(jobs.process)
  BY DEF Queueing, Kinds, Job, IsJob
<1>2. worker' = worker /\ rev' = rev /\ Busy' = Busy
  BY DEF Reparse, ProcessRead, ProcessStore, Interpret, Correct, Cancel, Configure, Busy
<1>3. NoJob \in Job /\ NoJob.status = "none"
  BY NoJobFacts
<1>4. CASE jobs' = Processing(jobs)
  BY <1>2, <1>4, ProcessingFacts, QueueFrame
<1>5. CASE Reparse
  <2> DEFINE new == Enqueued(jobs.parse, "none")
  <2>1. jobs' = [parse |-> new, process |-> jobs.process] /\ ~Busy
    BY <1>1, <1>5 DEF Reparse
  <2>2. /\ new \in Job /\ (new.status = "running" <=> jobs.parse.status = "running")
        /\ new = jobs.parse \/ new.attempts = 0
    BY <1>1, EnqueuedFacts
  <2> HIDE DEF new
  <2>3. new.status = "queued" => new.attempts < MaxAttempts
    BY <1>1, <2>2, BoundAssumption
  <2> QED
    BY <1>1, <1>2, <2>1, <2>2, <2>3 DEF Queueing, Kinds
<1>6. CASE jobs' = jobs
  BY <1>2, <1>6 DEF Queueing, Kinds
<1>7. ASSUME NEW s \in {"off", "unconfigured"} \cup Embeddings, Configure(s) PROVE Queueing'
  <2>1. \/ s \in Embeddings /\ jobs' = [jobs EXCEPT !.process = Enqueued(@, s)]
        \/ jobs' = jobs
    BY <1>7 DEF Configure
  <2>2. CASE s \in Embeddings /\ jobs' = [jobs EXCEPT !.process = Enqueued(@, s)]
    <3> DEFINE new == Enqueued(jobs.process, s)
    <3>1. jobs' = [parse |-> jobs.parse, process |-> new]
      BY <1>1, <2>2
    <3>2. new \in Job /\ (new.status = "running" <=> jobs.process.status = "running")
      BY <1>1, <2>2, EnqueuedFacts
    <3> HIDE DEF new
    <3> QED
      BY <1>2, <3>1, <3>2, QueueFrame
  <2> QED
    BY <1>6, <2>1, <2>2
<1>8. ASSUME NEW k \in Kinds, Cancel(k) PROVE Queueing'
  <2>1. \/ jobs[k].status = "queued" /\ jobs' = [jobs EXCEPT ![k] = NoJob]
        \/ jobs[k].status # "queued" /\ jobs' = [jobs EXCEPT ![k].cancel = TRUE]
    BY <1>8 DEF Cancel
  <2> DEFINE canceled(j) == [j EXCEPT !.cancel = TRUE]
  <2>2. ASSUME NEW j, IsJob(j), j \in Job
        PROVE  /\ canceled(j) \in Job /\ canceled(j).status = j.status
               /\ canceled(j).attempts = j.attempts
    <3>1. \E c \in BOOLEAN : canceled(j) = [j EXCEPT !.cancel = c]
      OBVIOUS
    <3>2. PICK c \in BOOLEAN : canceled(j) = [j EXCEPT !.cancel = c]
      BY <3>1
    <3>3. canceled(j) = [status |-> j.status, attempts |-> j.attempts, cancel |-> c,
                         model |-> j.model]
      BY <2>2, <3>2, JobFacts
    <3> HIDE DEF canceled
    <3> QED
      BY <2>2, <3>3 DEF Job
  <2>3. CASE k = "parse"
    <3>1. \/ jobs.parse.status = "queued" /\ jobs' = [parse |-> NoJob, process |-> jobs.process]
          \/ jobs' = [parse |-> canceled(jobs.parse), process |-> jobs.process]
      BY <1>1, <2>1, <2>3
    <3> HIDE DEF canceled
    <3> QED
      BY <1>1, <1>2, <1>3, <2>2, <3>1 DEF Queueing, Kinds
  <2>4. CASE k = "process"
    <3>1. \/ jobs.process.status = "queued" /\ jobs' = [parse |-> jobs.parse, process |-> NoJob]
          \/ jobs' = [parse |-> jobs.parse, process |-> canceled(jobs.process)]
      BY <1>1, <2>1, <2>4
    <3> HIDE DEF canceled
    <3> QED
      BY <1>1, <1>2, <1>3, <2>2, <3>1 DEF Queueing, Kinds
  <2> QED
    BY <2>3, <2>4 DEF Kinds
<1>9. CASE ProcessStore \/ Interpret \/ \E p \in Pages : Correct(p)
  BY <1>4, <1>9 DEF ProcessStore, Interpret, Correct
<1>10. CASE ProcessRead
  BY <1>6, <1>10 DEF ProcessRead
<1> QED
  BY <1>5, <1>7, <1>8, <1>9, <1>10

\* A new document waits to be parsed.
LEMMA QueueInit == Init => Queueing
<1> SUFFICES ASSUME Init PROVE Queueing
  OBVIOUS
<1>1. /\ jobs = [parse |-> Enqueued(NoJob, "none"), process |-> NoJob] /\ rev = 0 /\ worker = Idle
  BY DEF Init
<1> DEFINE new == Enqueued(NoJob, "none")
<1>2. NoJob \in Job /\ NoJob.status = "none" /\ NoJob.attempts = 0
  BY NoJobFacts
<1>3. /\ new \in Job /\ (new.status = "running" <=> NoJob.status = "running")
      /\ new = NoJob \/ new.attempts = 0
  BY <1>2, EnqueuedFacts
<1> HIDE DEF new
<1>4. jobs = [parse |-> new, process |-> NoJob]
  BY <1>1 DEF new
<1>5. ~Busy
  BY <1>1 DEF Busy
<1> QED
  BY <1>1, <1>2, <1>3, <1>4, <1>5, BoundAssumption DEF Queueing, Kinds

\* Every step.
LEMMA QueueStep == ASSUME IInv, Queueing, [Next]_vars PROVE Queueing'
<1>1. CASE UNCHANGED vars
  BY <1>1 DEF vars, Queueing, Kinds, Busy
<1>2. CASE Next
  BY <1>2, QueueBegin, QueueParsed, QueueHandler, QueueEnd, QueueRequest, Zenon DEF
     Next, Kinds
<1> QED
  BY <1>1, <1>2

Parses == {"none", "queued", "running", "parsed", "failed", "canceled"}
Readings == {"none", "pending", "waiting_api", "waiting_config", "queued", "running",
             "ready", "needs_review", "failed", "canceled"}
States(m) == m.parse \in Parses /\ m.ai \in Readings

\* What is stored, and the copies of it a handler or a request will store.
Stated ==
    /\ States(meta) /\ (Busy => States(worker.meta)) /\ \A copy \in asked : States(copy)
    /\ meta.text \in 0 .. MaxTextVersion

\* A change of one field.
LEMMA StatesFacts ==
    ASSUME NEW m, IsMeta(m), States(m), NEW x
    PROVE  /\ x \in Parses => States([m EXCEPT !.parse = x])
           /\ x \in Readings => States([m EXCEPT !.ai = x])
           /\ States([m EXCEPT !.auto = x]) /\ States([m EXCEPT !.text = x])
           /\ States([m EXCEPT !.index = x]) /\ States([m EXCEPT !.embedding = x])
           /\ States(Saved(x, m))
<1>1. /\ x \in Parses => States([m EXCEPT !.parse = x])
      /\ x \in Readings => States([m EXCEPT !.ai = x])
  BY DEF IsMeta, States
<1>2. /\ States([m EXCEPT !.auto = x]) /\ States([m EXCEPT !.text = x])
      /\ States([m EXCEPT !.index = x]) /\ States([m EXCEPT !.embedding = x])
  BY DEF IsMeta, States
<1>3. States(Saved(x, m))
  BY DEF IsMeta, States, Saved
<1> QED
  BY <1>1, <1>2, <1>3

\* Of two.
LEMMA TwoStates ==
    ASSUME NEW m, IsMeta(m), States(m), NEW x \in Readings, NEW y
    PROVE  States([m EXCEPT !.ai = x, !.auto = y])
<1> DEFINE n == [m EXCEPT !.ai = x]
<1>1. IsMeta(n) /\ States(n)
  BY StatusFacts, StatesFacts
<1>2. [m EXCEPT !.ai = x, !.auto = y] = [n EXCEPT !.auto = y]
  OBVIOUS
<1> HIDE DEF n
<1> QED
  BY <1>1, <1>2, StatesFacts

\* What queue_document_processing stores.
LEMMA QueuedStates ==
    ASSUME NEW m, IsMeta(m), States(m)
    PROVE  States(Queued(m))
<1>1. \/ Queued(m) = [m EXCEPT !.ai = "waiting_api", !.auto = FALSE]
      \/ Queued(m) = [m EXCEPT !.ai = "waiting_config", !.auto = TRUE]
      \/ Queued(m) = [m EXCEPT !.ai = "queued", !.auto = TRUE]
  BY Zenon DEF Queued
<1>2. \E x \in Readings : \E y : Queued(m) = [m EXCEPT !.ai = x, !.auto = y]
  BY <1>1, Zenon DEF Readings
<1>3. PICK x \in Readings : \E y : Queued(m) = [m EXCEPT !.ai = x, !.auto = y]
  BY <1>2
<1>4. PICK y : Queued(m) = [m EXCEPT !.ai = x, !.auto = y]
  BY <1>3
<1> DEFINE n == [m EXCEPT !.ai = x, !.auto = y]
<1>5. States(n)
  BY TwoStates
<1> HIDE DEF n
<1>6. Queued(m) = n
  BY <1>4 DEF n
<1> QED
  BY <1>5, <1>6

\* The steps of the handlers but for an answer.
LEMMA HandlerStates ==
    ASSUME IInv, Stated,
           BeginParse \/ FinishParse \/ BeginProcess \/ Transcribe \/ Ask
             \/ ReadDone \/ Index \/ Embed \/ Finish
    PROVE  Stated'
<1>1. /\ IsMeta(meta) /\ States(meta) /\ meta.text \in 0 .. MaxTextVersion
      /\ Busy => IsMeta(worker.meta) /\ States(worker.meta) /\ worker.meta.text = meta.text
      /\ worker = Idle \/ IsParse(worker) \/ IsProcess(worker)
      /\ (\A copy \in asked : States(copy)) /\ asked' = asked
  BY DEF IInv, Typed, IsCopy, Stated, BeginParse, FinishParse, BeginProcess, Transcribe, Ask,
     ReadDone, Index, Embed, Finish
<1>2. CASE BeginParse
  <2>1. /\ meta' = [meta EXCEPT !.parse = "running"]
        /\ worker' = [job |-> "parse", at |-> "parse", meta |-> meta']
    BY <1>2 DEF BeginParse
  <2>2. States(meta') /\ Agree(meta', meta)
    BY <1>1, <2>1, StatusFacts, StatesFacts DEF Parses
  <2> QED
    BY <1>1, <2>1, <2>2 DEF Stated, Agree
<1>3. CASE BeginProcess
  <2>1. /\ meta' = [meta EXCEPT !.ai = "running"]
        /\ worker' = [job |-> "process", at |-> "read", meta |-> meta',
                      found |-> Resumed(meta, rev), batch |-> <<>>]
    BY <1>3 DEF BeginProcess
  <2>2. States(meta') /\ Agree(meta', meta)
    BY <1>1, <2>1, StatusFacts, StatesFacts DEF Readings
  <2> QED
    BY <1>1, <2>1, <2>2 DEF Stated, Agree
<1>4. CASE FinishParse
  <2> DEFINE n == [worker.meta EXCEPT !.parse = "parsed"]
  <2>1. meta' = Queued(n) /\ worker' = [worker EXCEPT !.at = "done"] /\ Busy /\ worker.at = "parse"
    BY <1>4 DEF FinishParse, At
  <2>2. IsMeta(n) /\ States(n) /\ Agree(n, worker.meta)
    BY <1>1, <2>1, StatusFacts, StatesFacts DEF Parses
  <2> HIDE DEF n
  <2>3. States(meta') /\ Agree(meta', n)
    BY <2>1, <2>2, QueuedStates, QueuedFacts
  <2>4. worker' = [job |-> "parse", at |-> "done", meta |-> worker.meta]
    BY <1>1, <2>1 DEF IsParse, IsProcess, Busy
  <2> QED
    BY <1>1, <2>1, <2>2, <2>3, <2>4 DEF Stated, Agree
<1>5. CASE Transcribe
  BY <1>5 DEF Transcribe, Stated, Busy
<1>6. ASSUME Busy, worker.at \in {"read", "index", "embed", "finish"},
             NEW at, NEW m, NEW batch, States(m), States(meta'), meta'.text = meta.text,
             worker' = [job |-> "process", at |-> at, meta |-> m, found |-> worker.found,
                        batch |-> batch]
      PROVE  Stated'
  BY <1>1, <1>6 DEF Stated
<1>7. CASE Ask
  <2>1. /\ Busy /\ worker.at = "read" /\ meta' = meta
        /\ \E b : worker' = [worker EXCEPT !.batch = b]
    BY <1>7 DEF Ask, At
  <2>2. IsProcess(worker) /\ worker.job = "process"
    BY <2>1, ProcessFacts
  <2>3. \E b : worker' = [job |-> "process", at |-> "read", meta |-> worker.meta,
                          found |-> worker.found, batch |-> b]
    BY <2>1, <2>2 DEF IsProcess
  <2> QED
    BY <1>1, <1>6, <2>1, <2>3
<1>8. CASE ReadDone
  <2> DEFINE kept == IF role = "tender" THEN meta' ELSE worker.meta
  <2>1. /\ Busy /\ worker.at = "read"
        /\ meta' = IF role = "tender" THEN Saved(worker.found, worker.meta) ELSE meta
        /\ worker' = [worker EXCEPT !.at = "index",
                                    !.meta = IF role = "tender" THEN meta' ELSE @]
    BY <1>8 DEF ReadDone, At
  <2>2. IsProcess(worker) /\ worker.job = "process"
    BY <2>1, ProcessFacts
  <2>3. worker' = [job |-> "process", at |-> "index", meta |-> kept, found |-> worker.found,
                   batch |-> worker.batch]
    BY <2>1, <2>2 DEF IsProcess
  <2>4. meta' = meta \/ meta' = Saved(worker.found, worker.meta)
    BY <2>1
  <2>5. States(meta') /\ meta'.text = meta.text
    BY <1>1, <2>1, <2>4, SavedFacts, StatesFacts
  <2>6. States(kept)
    BY <1>1, <2>1, <2>5
  <2> HIDE DEF kept
  <2> QED
    BY <1>6, <2>1, <2>3, <2>5, <2>6
<1>9. CASE Index
  <2> DEFINE rebuild == chunks.fragments = {} \/ OutOfDate(worker.meta)
             at == IF role = "evidence" THEN "embed" ELSE "finish"
             indexed == [worker.meta EXCEPT !.index = worker.meta.text]
             kept == IF rebuild THEN meta' ELSE worker.meta
  <2>1. /\ Busy /\ worker.at = "index"
        /\ meta' = IF rebuild THEN indexed ELSE meta
        /\ worker' = [worker EXCEPT !.at = at, !.meta = kept]
    BY <1>9 DEF Index, At
  <2>2. IsProcess(worker) /\ worker.job = "process"
    BY <2>1, ProcessFacts
  <2>3. worker' = [job |-> "process", at |-> at, meta |-> kept, found |-> worker.found,
                   batch |-> worker.batch]
    <3> HIDE DEF at, kept
    <3> QED
      BY <2>1, <2>2 DEF IsProcess
  <2>4. States(indexed) /\ indexed.text = meta.text
    BY <1>1, <2>1, StatesFacts DEF IsMeta
  <2> HIDE DEF indexed, rebuild
  <2>5. States(meta') /\ meta'.text = meta.text
    BY <1>1, <2>1, <2>4
  <2>6. States(kept)
    BY <1>1, <2>1, <2>5
  <2> HIDE DEF kept, at
  <2> QED
    BY <1>6, <2>1, <2>3, <2>5, <2>6
<1>10. CASE Embed
  <2>1. /\ Busy /\ worker.at = "embed"
        /\ meta' = [worker.meta EXCEPT !.embedding = jobs.process.model]
        /\ worker' = [worker EXCEPT !.at = "finish", !.meta = meta']
    BY <1>10 DEF Embed, At
  <2>2. IsProcess(worker) /\ worker.job = "process"
    BY <2>1, ProcessFacts
  <2>3. worker' = [job |-> "process", at |-> "finish", meta |-> meta', found |-> worker.found,
                   batch |-> worker.batch]
    BY <2>1, <2>2 DEF IsProcess
  <2>4. States(meta') /\ Agree(meta', worker.meta)
    BY <1>1, <2>1, StatesFacts, StatusFacts
  <2>5. meta'.text = meta.text
    BY <1>1, <2>1, <2>4 DEF Agree
  <2> QED
    BY <1>6, <2>1, <2>3, <2>4, <2>5
<1>11. CASE Finish
  <2>1. /\ Busy /\ worker.at = "finish"
        /\ \E ai \in {"ready", "needs_review"} : meta' = [worker.meta EXCEPT !.ai = ai]
        /\ worker' = [worker EXCEPT !.at = "done", !.meta = meta']
    BY <1>11 DEF Finish, At
  <2>2. IsProcess(worker) /\ worker.job = "process"
    BY <2>1, ProcessFacts
  <2>3. worker' = [job |-> "process", at |-> "done", meta |-> meta', found |-> worker.found,
                   batch |-> worker.batch]
    BY <2>1, <2>2 DEF IsProcess
  <2>4. PICK ai \in Readings : meta' = [worker.meta EXCEPT !.ai = ai]
    BY <2>1 DEF Readings
  <2>5. States(meta') /\ Agree(meta', worker.meta)
    BY <1>1, <2>1, <2>4, StatesFacts, StatusFacts
  <2>6. meta'.text = meta.text
    BY <1>1, <2>1, <2>5 DEF Agree
  <2> QED
    BY <1>6, <2>1, <2>3, <2>5, <2>6
<1> QED
  BY <1>2, <1>3, <1>4, <1>5, <1>7, <1>8, <1>9, <1>10, <1>11

\* An answer.
LEMMA AnswerStates ==
    ASSUME IInv, Stated, NEW findings, NEW reading, NEW split, Answer(findings, reading, split)
    PROVE  Stated'
<1>1. Busy /\ worker.at = "read"
  BY DEF Answer, At
<1>2. /\ IsProcess(worker) /\ worker.job = "process" /\ IsMeta(worker.meta) /\ States(worker.meta)
      /\ worker.meta.text = meta.text /\ meta.text \in 0 .. MaxTextVersion
      /\ (\A copy \in asked : States(copy)) /\ asked' = asked
  BY <1>1, ProcessFacts DEF Stated, IsCopy, Answer
<1>3. \E found : /\ meta' = Saved(found, worker.meta)
                 /\ worker' = [worker EXCEPT !.batch = <<>>, !.found = found, !.meta = meta']
  BY DEF Answer
<1>4. PICK found : /\ meta' = Saved(found, worker.meta)
                   /\ worker' = [worker EXCEPT !.batch = <<>>, !.found = found, !.meta = meta']
  BY <1>3
<1>5. worker' = [job |-> "process", at |-> "read", meta |-> meta', found |-> found,
                 batch |-> <<>>]
  BY <1>1, <1>2, <1>4 DEF IsProcess
<1>6. States(meta') /\ meta'.text = meta.text
  BY <1>2, <1>4, SavedFacts, StatesFacts
<1> QED
  BY <1>2, <1>5, <1>6 DEF Stated

\* Requests and the end of jobs.
LEMMA RequestStates ==
    ASSUME IInv, Stated,
           Reparse \/ ProcessRead \/ ProcessStore \/ Interpret
             \/ (\E p \in Pages : Correct(p))
             \/ (\E k \in Kinds : Cancel(k))
             \/ (\E s \in {"off", "unconfigured"} \cup Embeddings : Configure(s))
             \/ Complete \/ StopProcess \/ (\E crash \in BOOLEAN : StopParse(crash))
    PROVE  Stated'
<1>1. /\ IsMeta(meta) /\ States(meta) /\ meta.text \in 0 .. MaxTextVersion
      /\ Busy => States(worker.meta)
      /\ \A copy \in asked : IsMeta(copy) /\ States(copy) /\ copy.text = meta.text
  BY DEF IInv, Typed, IsCopy, Stated
<1>2. (worker' = worker \/ worker' = Idle) /\ asked' \subseteq asked \cup {meta}
  BY DEF Reparse, ProcessRead, ProcessStore, Interpret, Correct, Cancel, Configure, Complete,
     StopProcess, StopParse
<1>3. (Busy' => States(worker'.meta)) /\ \A copy \in asked' : States(copy)
  BY <1>1, <1>2 DEF Busy
<1>4. CASE meta' = meta
  BY <1>1, <1>3, <1>4 DEF Stated
<1>5. CASE \E x \in Parses : meta' = [meta EXCEPT !.parse = x]
  <2>1. PICK x \in Parses : meta' = [meta EXCEPT !.parse = x]
    BY <1>5
  <2>2. States(meta') /\ Agree(meta', meta)
    BY <1>1, <2>1, StatesFacts, StatusFacts
  <2> QED
    BY <1>1, <1>3, <2>2 DEF Stated, Agree
<1>6. CASE \E x \in Readings : meta' = [meta EXCEPT !.ai = x]
  <2>1. PICK x \in Readings : meta' = [meta EXCEPT !.ai = x]
    BY <1>6
  <2>2. States(meta') /\ Agree(meta', meta)
    BY <1>1, <2>1, StatesFacts, StatusFacts
  <2> QED
    BY <1>1, <1>3, <2>2 DEF Stated, Agree
<1>7. CASE ProcessStore
  <2>1. PICK copy \in asked : meta' = Queued(copy)
    BY <1>7 DEF ProcessStore
  <2>2. States(meta') /\ Agree(meta', copy)
    BY <1>1, <2>1, QueuedStates, QueuedFacts
  <2> QED
    BY <1>1, <1>3, <2>2 DEF Stated, Agree
<1>8. CASE Reparse
  <2> DEFINE n == [meta EXCEPT !.parse = "queued"]
  <2>1. meta' = [n EXCEPT !.ai = "pending"]
    BY <1>8 DEF Reparse
  <2>2. IsMeta(n) /\ States(n) /\ Agree(n, meta)
    BY <1>1, StatesFacts, StatusFacts DEF Parses
  <2> HIDE DEF n
  <2>3. States(meta') /\ Agree(meta', n)
    BY <2>1, <2>2, StatesFacts, StatusFacts DEF Readings
  <2> QED
    BY <1>1, <1>3, <2>2, <2>3 DEF Stated, Agree
<1>9. CASE Interpret
  <2> DEFINE n == [meta EXCEPT !.text = @ + 1]
  <2>1. meta' = Queued(n) /\ meta.text < MaxTextVersion
    BY <1>9 DEF Interpret
  <2>2. IsMeta(n) /\ States(n) /\ n.text = meta.text + 1
    BY <1>1, NewTextFacts, StatesFacts
  <2> HIDE DEF n
  <2>3. States(meta') /\ meta'.text = meta.text + 1
    BY <2>1, <2>2, QueuedStates, QueuedFacts DEF Agree
  <2> QED
    BY <1>1, <1>3, <2>1, <2>3, BoundAssumption DEF Stated
<1>10. ASSUME NEW p \in Pages, Correct(p) PROVE Stated'
  <2> DEFINE m == [meta EXCEPT !.parse = "parsed"]
             n == [meta EXCEPT !.parse = "parsed", !.text = @ + 1]
  <2>1. meta' = Queued(n) /\ meta.text < MaxTextVersion
    BY <1>10 DEF Correct
  <2>2. n = [m EXCEPT !.text = @ + 1] /\ IsMeta(m) /\ States(m)
    BY <1>1, StatesFacts, StatusFacts DEF Parses
  <2>3. IsMeta(n) /\ n.text = meta.text + 1
    BY <1>1, CorrectedFacts
  <2> HIDE DEF m, n
  <2>4. States(n)
    BY <2>2, StatesFacts
  <2>5. States(meta') /\ meta'.text = meta.text + 1
    BY <2>1, <2>3, <2>4, QueuedStates, QueuedFacts DEF Agree
  <2> QED
    BY <1>1, <1>3, <2>1, <2>5, BoundAssumption DEF Stated
<1>11. ASSUME NEW s, Configure(s) PROVE Stated'
  <2> DEFINE n == [meta EXCEPT !.ai = "queued", !.auto = TRUE]
  <2>1. meta' = n \/ meta' = meta
    BY <1>11, Zenon DEF Configure
  <2>2. /\ States(n) /\ Agree(n, meta)
    BY <1>1, TwoStates, TwoStatusFacts, Zenon DEF Readings
  <2> HIDE DEF n
  <2> QED
    BY <1>1, <1>3, <1>4, <2>1, <2>2 DEF Stated, Agree
<1>12. ASSUME NEW k \in Kinds, Cancel(k) PROVE Stated'
  <2>1. \/ meta' = [meta EXCEPT !.parse = "canceled"]
        \/ meta' = [meta EXCEPT !.ai = "canceled"]
        \/ meta' = meta
    BY <1>12, Zenon DEF Cancel
  <2> QED
    BY <1>4, <1>5, <1>6, <2>1 DEF Parses, Readings
<1>13. ASSUME NEW crash \in BOOLEAN, StopParse(crash) PROVE Stated'
  <2>1. \/ meta' = [meta EXCEPT !.parse = "canceled"]
        \/ meta' = [meta EXCEPT !.parse = "queued"]
        \/ meta' = meta
        \/ meta' = [meta EXCEPT !.parse = "failed"]
    BY <1>13, Zenon DEF StopParse
  <2> QED
    BY <1>4, <1>5, <2>1 DEF Parses
<1>14. CASE Complete \/ ProcessRead \/ StopProcess
  <2>1. \/ meta' = meta
        \/ meta' = [meta EXCEPT !.ai = "canceled"] \/ meta' = [meta EXCEPT !.ai = "failed"]
    BY <1>14, Zenon DEF Complete, ProcessRead, StopProcess
  <2> QED
    BY <1>4, <1>6, <2>1 DEF Readings
<1> QED
  BY <1>7, <1>8, <1>9, <1>10, <1>11, <1>12, <1>13, <1>14

\* A new document.
LEMMA StatesInit == Init => Stated
<1> SUFFICES ASSUME Init PROVE Stated
  OBVIOUS
<1>1. worker = Idle /\ asked = {}
      /\ meta = [parse |-> "none", ai |-> "none", auto |-> FALSE, text |-> 0,
                 read |-> NothingRead, index |-> 0, embedding |-> "none"]
  BY DEF Init
<1>2. meta.parse = "none" /\ meta.ai = "none" /\ meta.text = 0 /\ ~Busy /\ asked = {}
  BY <1>1 DEF Busy
<1> QED
  BY <1>2, BoundAssumption DEF Stated, States, Parses, Readings

\* Every step.
LEMMA StatesStep == ASSUME IInv, Stated, [Next]_vars PROVE Stated'
<1>1. CASE UNCHANGED vars
  BY <1>1 DEF vars, Stated, Busy
<1>2. CASE Answers
  BY <1>2, AnswerStates DEF Answers
<1>3. CASE Next
  BY <1>2, <1>3, HandlerStates, RequestStates, Zenon DEF Next, Kinds
<1> QED
  BY <1>1, <1>3

Found == [what : Statements, block : BlockIds]
Located(r) == r.batches \subseteq BatchIds /\ r.entries \subseteq Found

\* What is found has its place in the document; before it is parsed it has no page.
Placed ==
    /\ Ids \subseteq BlockIds /\ evidence \subseteq Found
    /\ \A r : Held(r) => Located(r)
    /\ Untranscribed # {} => rev > 0

\* The id of a block of a page.
LEMMA BlockIdFacts ==
    ASSUME NEW r \in 1 .. MaxRevision, NEW p \in Pages,
           NEW n \in -MaxTextVersion .. Len(Layout[p])
    PROVE  <<r, p, n>> \in BlockIds
<1> DEFINE Of(i, q) == {<<i, q, m>> : m \in -MaxTextVersion .. Len(Layout[q])}
<1>1. <<r, p, n>> \in Of(r, p)
  OBVIOUS
<1>2. BlockIds = UNION {Of(i, q) : i \in 1 .. MaxRevision, q \in Pages}
  BY DEF BlockIds
<1> HIDE DEF Of
<1> QED
  BY <1>1, <1>2

\* The number of a batch of a page.
LEMMA BatchIdFacts ==
    ASSUME Typed, Shaped PROVE AllBatches \subseteq BatchIds
<1> SUFFICES ASSUME NEW b \in AllBatches PROVE b \in BatchIds
  OBVIOUS
<1>1. b = <<b[1], b[2]>> /\ b[1] \in Pages /\ b[2] \in DOMAIN Batches(b[1])
  BY BatchFacts
<1>2. Batches(b[1]) \in Seq(Seq(FragmentType))
  BY <1>1, PageFacts
<1>3. b[2] \in Nat \ {0}
  BY <1>1, <1>2, RangeOf
<1> QED
  BY <1>1, <1>3 DEF BatchIds

\* Steps that leave the pages alone.
LEMMA PlacedFrame ==
    ASSUME Placed, UNCHANGED <<rev, pages, evidence>>, \A r : Held(r)' => Located(r)
    PROVE  Placed'
<1>1. Ids' = Ids /\ Untranscribed' = Untranscribed
  BY PagesFrame
<1>2. \A r : Located(r)' <=> Located(r)
  BY DEF Located, Found, BlockIds, BatchIds
<1> QED
  BY <1>1, <1>2 DEF Placed, Found, BlockIds

\* A status that changes.
LEMMA PlacedStatus == ASSUME IInv, JInv, Placed, StatusChange PROVE Placed'
<1>1. UNCHANGED <<rev, pages, evidence>>
  BY DEF StatusChange
<1>2. \A r : Held(r)' => Held(r)
  BY StatusKeeps DEF NothingNew
<1> QED
  BY <1>1, <1>2, PlacedFrame DEF Placed

\* A request for the document to be processed.
LEMMA PlacedProcess == ASSUME IInv, JInv, Placed, ProcessRead \/ ProcessStore PROVE Placed'
<1>1. UNCHANGED <<rev, pages, evidence>>
  BY DEF ProcessRead, ProcessStore
<1>2. \A r : Held(r)' => Held(r)
  BY ProcessReadKeeps, ProcessStoreKeeps DEF NothingNew
<1> QED
  BY <1>1, <1>2, PlacedFrame DEF Placed

\* The block of a corrected page.
LEMMA PlacedCorrect ==
    ASSUME IInv, Queueing, Stated, Placed, NEW p \in Pages, Correct(p) PROVE Placed'
<1>1. /\ rev > 0 /\ meta.text < MaxTextVersion /\ ~Busy /\ worker' = worker /\ rev' = rev
      /\ evidence' = {}
  BY DEF Correct
<1>2. \A r : Held(r)' => Held(r)
  BY CorrectChange, RequestedText
<1> DEFINE block == [id |-> <<rev, p, -(meta.text + 1)>>, size |-> Transcript]
           page == [mode |-> "manual", blocks |-> <<block>>]
<1>3. rev \in 1 .. MaxRevision /\ meta.text \in 0 .. MaxTextVersion - 1
  BY <1>1, BoundAssumption DEF Queueing, Stated
<1>4. Len(Layout[p]) \in Nat
  BY PageAssumption, LenProperties, ElementOfSeq DEF Pages
<1>5. -(meta.text + 1) \in -MaxTextVersion .. Len(Layout[p])
  BY <1>3, <1>4, BoundAssumption
<1>6. block.id \in BlockIds
  BY <1>3, <1>5, BlockIdFacts
<1>7. pages' = [pages EXCEPT ![p] = page] /\ pages \in [Pages -> Page]
  BY DEF Correct, IInv, Typed
<1>8. page.mode = "manual" /\ Range(page.blocks) = {block}
  BY DEF Range
<1> HIDE DEF page, block
<1>9. \A q \in Pages : pages'[q] = IF q = p THEN page ELSE pages[q]
  BY <1>7
<1>10. Ids' \subseteq Ids \cup {block.id}
  BY <1>8, <1>9 DEF Ids, BlocksInForce
<1>11. Ids' \subseteq BlockIds' /\ BlockIds' = BlockIds /\ Found' = Found
  <2>1. BlockIds' = BlockIds
    BY DEF BlockIds
  <2>2. Ids' \subseteq BlockIds
    BY <1>6, <1>10 DEF Placed
  <2> QED
    BY <2>1, <2>2 DEF Found
<1>12. \A r : Located(r)' <=> Located(r)
  BY <1>11 DEF Located, BatchIds
<1>13. \A r : Held(r)' => Located(r)
  BY <1>2 DEF Placed
<1> QED
  BY <1>1, <1>11, <1>12, <1>13 DEF Placed

\* A request to read the same text again.
LEMMA PlacedInterpret == ASSUME IInv, Placed, Interpret PROVE Placed'
<1>1. \A r : Held(r)' => Held(r)
  BY InterpretChange, RequestedText
<1>2. UNCHANGED <<rev, pages, evidence>>
  BY DEF Interpret
<1> QED
  BY <1>1, <1>2, PlacedFrame DEF Placed

\* The blocks of a new revision.
LEMMA PlacedParsed == ASSUME IInv, JInv, Queueing, Placed, FinishParse PROVE Placed'
<1>1. Busy /\ worker.at = "parse"
  BY DEF FinishParse, At
<1>2. IsParse(worker) /\ worker.job = "parse" /\ rev \in 0 .. MaxRevision /\ rev < MaxRevision
  BY <1>1 DEF IInv, Typed, IsProcess, IsParse, Busy, Queueing
<1>3. \A r : Held(r)' => Held(r)
  BY FinishParseKeeps DEF NothingNew
<1>6. rev' = rev + 1 /\ evidence' = {}
      /\ pages' = [p \in Pages |-> ParsedPage(rev', p)]
  BY DEF FinishParse
<1>9. rev' \in 1 .. MaxRevision
  BY <1>2, <1>6, BoundAssumption
<1>10. ASSUME NEW p \in Pages, NEW b \in Range(pages'[p].blocks) PROVE b.id \in BlockIds
  <2>1. Layout[p] \in Seq(Nat)
    BY PageAssumption, ElementOfSeq DEF Pages
  <2>2. DOMAIN Layout[p] = 1 .. Len(Layout[p]) /\ Len(Layout[p]) \in Nat
    BY <2>1, LenProperties
  <2>3. pages'[p].blocks = [n \in DOMAIN Layout[p] |-> [id |-> <<rev', p, n>>, size |-> Layout[p][n]]]
    BY <1>6 DEF ParsedPage
  <2>4. PICK i \in DOMAIN Layout[p] : b.id = <<rev', p, i>>
    BY <2>3 DEF Range
  <2>5. i \in -MaxTextVersion .. Len(Layout[p])
    BY <2>2, BoundAssumption
  <2> QED
    BY <1>9, <2>4, <2>5, BlockIdFacts
<1>11. Ids' \subseteq BlockIds
  BY <1>10 DEF Ids, BlocksInForce
<1>12. \A r : Located(r)' <=> Located(r)
  BY DEF Located, Found, BlockIds, BatchIds
<1> QED
  BY <1>3, <1>6, <1>9, <1>11, <1>12 DEF Placed, Found, BlockIds

\* The block of a transcribed page.
LEMMA PlacedTranscribe == ASSUME IInv, Queueing, Placed, Transcribe PROVE Placed'
<1>1. UNCHANGED <<rev, meta, evidence, worker, asked>>
  BY DEF Transcribe
<1>2. PICK p \in Untranscribed :
          pages' = [pages EXCEPT ![p] =
                      [mode |-> "vision",
                       blocks |-> <<[id |-> <<rev, p, 0>>, size |-> Transcript]>> \o @.blocks]]
  BY DEF Transcribe
<1> DEFINE block == [id |-> <<rev, p, 0>>, size |-> Transcript]
           old == pages[p].blocks
           page == [mode |-> "vision", blocks |-> <<block>> \o old]
           T == Block \cup {block}
<1>3. p \in Pages /\ rev > 0 /\ rev \in 0 .. MaxRevision
  BY <1>2 DEF Untranscribed, Placed, Queueing
<1>4. pages' = [pages EXCEPT ![p] = page] /\ pages \in [Pages -> Page] /\ old \in Seq(Block)
  BY <1>2, <1>3 DEF IInv, Typed, Page
<1>5. Len(Layout[p]) \in Nat
  BY <1>3, PageAssumption, LenProperties, ElementOfSeq DEF Pages
<1>6. block.id \in BlockIds
  <2>1. 0 \in -MaxTextVersion .. Len(Layout[p]) /\ rev \in 1 .. MaxRevision
    BY <1>3, <1>5, BoundAssumption
  <2>2. <<rev, p, 0>> \in BlockIds
    BY <1>3, <2>1, BlockIdFacts
  <2> QED
    BY <2>2
<1> HIDE DEF block, old
<1>7. old \in Seq(T) /\ <<block>> \in Seq(T) /\ Range(<<block>>) = {block}
  BY <1>4, SeqMonotonic DEF Range
<1>8. Range(<<block>> \o old) = {block} \cup Range(old)
  <2> DEFINE first == <<block>>
  <2>1. first \in Seq(T) /\ Range(first) = {block}
    BY <1>7
  <2> HIDE DEF first, T
  <2>2. Range(first \o old) = Range(first) \cup Range(old)
    BY <1>7, <2>1, ConcatFacts
  <2> QED
    BY <2>1, <2>2 DEF first
<1>9. page.mode = "vision" /\ Range(page.blocks) = {block} \cup Range(old)
  BY <1>8
<1> HIDE DEF page
<1>10. \A q \in Pages : pages'[q] = IF q = p THEN page ELSE pages[q]
  BY <1>4
<1>11. Ids' \subseteq Ids \cup {block.id}
  BY <1>3, <1>9, <1>10 DEF Ids, BlocksInForce, old
<1>12. Ids' \subseteq BlockIds' /\ BlockIds' = BlockIds /\ Found' = Found
  <2>1. BlockIds' = BlockIds
    BY DEF BlockIds
  <2>2. Ids' \subseteq BlockIds
    BY <1>6, <1>11 DEF Placed
  <2> QED
    BY <2>1, <2>2 DEF Found
<1>13. \A r : Held(r)' => Held(r)
  BY <1>1 DEF Held, Reading, Busy
<1>14. \A r : Located(r)' <=> Located(r)
  BY <1>12 DEF Located, BatchIds
<1> QED
  BY <1>1, <1>3, <1>12, <1>13, <1>14 DEF Placed

\* The steps of process_document_job that find nothing.
LEMMA PlacedHandler ==
    ASSUME IInv, JInv, Placed, BeginProcess \/ Ask \/ ReadDone \/ Index \/ Embed \/ Finish
    PROVE  Placed'
<1>1. UNCHANGED <<rev, pages, evidence>>
  BY DEF BeginProcess, Ask, ReadDone, Index, Embed, Finish
<1>2. CASE BeginProcess
  <2>1. \A r : Held(r)' => Held(r) \/ r = Resumed(meta, rev)
    BY <1>2, BeginProcessKeeps
  <2>2. Located(meta.read)
    BY DEF Placed, Held
  <2>3. Located(Resumed(meta, rev))
    BY <2>2 DEF Resumed, Located, NothingRead
  <2> QED
    BY <1>1, <2>1, <2>3, PlacedFrame DEF Placed
<1>3. CASE Ask \/ ReadDone \/ Index \/ Embed \/ Finish
  <2>1. \A r : Held(r)' => Held(r)
    BY <1>3, AskKeeps, ReadDoneKeeps, IndexKeeps, EmbedKeeps, FinishKeeps DEF NothingNew
  <2> QED
    BY <1>1, <2>1, PlacedFrame DEF Placed
<1> QED
  BY <1>2, <1>3

\* What an answer adds was found in the batch.
LEMMA PlacedAnswer ==
    ASSUME IInv, JInv, Placed, NEW findings, NEW reading, NEW split,
           Answer(findings, reading, split)
    PROVE  Placed'
<1>1. Busy /\ worker.at = "read" /\ worker.batch # <<>>
  BY DEF Answer, At
<1>2. Reading /\ Located(worker.found)
  BY <1>1, ProcessFacts DEF Placed, Held
<1>3. worker.batch \in AllBatches
  BY <1>1, <1>2 DEF JInv, GoesOn
<1>4. Matched(findings) \subseteq Found
  <2>1. findings \subseteq Findings(Batches(worker.batch[1])[worker.batch[2]])
    BY DEF Answer
  <2>2. ASSUME NEW f \in Matched(findings) PROVE f \in Found
    <3>1. f \in Findings(Batches(worker.batch[1])[worker.batch[2]]) /\ f.block # Unmatched
      BY <2>1, <2>2 DEF Matched
    <3>2. /\ f = [what |-> f.what, block |-> f.block] /\ f.what \in Statements
          /\ f.block \in {g.block : g \in Range(Batches(worker.batch[1])[worker.batch[2]])}
      BY <3>1 DEF Findings
    <3>3. \A g \in Shown(worker.batch) : g.block \in Ids
      BY <1>3, BatchFacts DEF IInv, JInv
    <3>4. f.block \in BlockIds
      BY <3>2, <3>3 DEF Shown, Placed
    <3> QED
      BY <3>2, <3>4 DEF Found
  <2> QED
    BY <2>2
<1>5. /\ evidence' = evidence \/ evidence' = evidence \cup Matched(findings)
      /\ UNCHANGED <<rev, pages>>
  BY DEF Answer
<1>6. PICK found : OnlyNew(found, findings)
  BY AnswerKeeps
<1>7. Located(found)
  <2>1. worker.batch \in BatchIds
    BY <1>3, BatchIdFacts DEF IInv, JInv
  <2> QED
    BY <1>2, <1>4, <1>6, <2>1 DEF OnlyNew, Located
<1>8. Ids' = Ids /\ Untranscribed' = Untranscribed
  BY <1>5, PagesFrame
<1>9. BlockIds' = BlockIds
  BY DEF BlockIds
<1>10. evidence' \subseteq Found
  BY <1>4, <1>5 DEF Placed
<1>11. \A r : Held(r)' => Located(r)
  BY <1>6, <1>7 DEF Placed, OnlyNew
<1>12. \A r : Located(r)' <=> Located(r)
  BY <1>9 DEF Located, Found, BatchIds
<1> QED
  BY <1>5, <1>8, <1>9, <1>10, <1>11, <1>12 DEF Placed, Found

\* A new document has no pages.
LEMMA PlacedInit == Init => Placed
<1> SUFFICES ASSUME Init PROVE Placed
  OBVIOUS
<1>1. /\ pages = [p \in Pages |-> NoText] /\ worker = Idle /\ evidence = {} /\ asked = {}
      /\ meta = [parse |-> "none", ai |-> "none", auto |-> FALSE, text |-> 0,
                 read |-> NothingRead, index |-> 0, embedding |-> "none"]
  BY DEF Init
<1>2. Ids = {} /\ Untranscribed = {}
  BY <1>1 DEF Ids, BlocksInForce, Untranscribed, NoText, Range
<1>3. meta.read = NothingRead
  BY <1>1
<1>4. \A r : Held(r) => r = NothingRead
  BY <1>1, <1>3 DEF Held, Reading, Busy
<1>5. Located(NothingRead)
  BY DEF Located, NothingRead
<1> QED
  BY <1>1, <1>2, <1>4, <1>5 DEF Placed

\* Every step.
LEMMA PlacedStep ==
    ASSUME IInv, JInv, Queueing, Stated, Placed, [Next]_vars PROVE Placed'
<1>1. CASE BeginParse \/ FinishParse
  BY <1>1, BeginParseChange, PlacedStatus, PlacedParsed
<1>2. CASE Transcribe \/ Answers
  BY <1>2, PlacedTranscribe, PlacedAnswer DEF Answers
<1>3. CASE BeginProcess \/ Ask \/ ReadDone \/ Index \/ Embed \/ Finish
  BY <1>3, PlacedHandler
<1>4. CASE Complete \/ StopProcess \/ \E crash \in BOOLEAN : StopParse(crash)
  BY <1>4, CompleteChange, StopProcessChange, StopParseChange, PlacedStatus
<1>5. CASE Reparse \/ ProcessRead \/ ProcessStore \/ Interpret \/ \E p \in Pages : Correct(p)
  BY <1>5, ReparseChange, PlacedStatus, PlacedProcess, PlacedInterpret, PlacedCorrect
<1>6. CASE \E kind \in {"parse", "process"} : Cancel(kind)
  BY <1>6, CancelChange, PlacedStatus
<1>7. CASE \E s \in {"off", "unconfigured"} \cup Embeddings : Configure(s)
  BY <1>7, ConfigureChange, PlacedStatus
<1>8. CASE UNCHANGED vars
  BY <1>8, StutterChange, PlacedStatus
<1> QED
  BY <1>1, <1>2, <1>3, <1>4, <1>5, <1>6, <1>7, <1>8, Zenon DEF Next

\* Nothing changes the role of a document, the service is one that can be configured, and
\* facts were archived or not.
Services ==
    /\ role \in Roles /\ service \in {"off", "unconfigured"} \cup Embeddings
    /\ archived \in BOOLEAN

\* Every step.
LEMMA ServicesStep == Services /\ [Next]_vars => Services'
<1> SUFFICES ASSUME Services, [Next]_vars PROVE Services'
  OBVIOUS
<1>1. CASE Next
  <2>1. role' = role
    BY <1>1 DEF Next, BeginParse, FinishParse, BeginProcess, Transcribe, Ask, Answers,
       Answer,
                ReadDone, Index, Embed, Finish, Complete, StopProcess, StopParse, Reparse,
                ProcessRead, ProcessStore, Interpret, Correct, Cancel, Configure
  <2>2. service' = service \/ service' \in {"off", "unconfigured"} \cup Embeddings
    BY <1>1 DEF Next, BeginParse, FinishParse, BeginProcess, Transcribe, Ask, Answers,
       Answer,
                ReadDone, Index, Embed, Finish, Complete, StopProcess, StopParse, Reparse,
                ProcessRead, ProcessStore, Interpret, Correct, Cancel, Configure
  <2>3. \/ archived' \in {archived, FALSE}
        \/ archived' = (archived \/ evidence # {})
    BY <1>1 DEF Next, BeginParse, FinishParse, BeginProcess, Transcribe, Ask, Answers,
       Answer,
                ReadDone, Index, Embed, Finish, Complete, StopProcess, StopParse, Reparse,
                ProcessRead, ProcessStore, Interpret, Correct, Cancel, Configure
  <2>4. archived' \in BOOLEAN
    BY <2>3 DEF Services
  <2> QED
    BY <2>1, <2>2, <2>4 DEF Services
<1>2. CASE UNCHANGED vars
  BY <1>2 DEF vars, Services
<1> QED
  BY <1>1, <1>2

\* Together these are the types.
LEMMA TypesOK ==
    ASSUME IInv, Queueing, Stated, Placed, Services PROVE TypeOK
<1>1. ASSUME NEW p \in Pages
      PROVE  /\ pages[p].mode \in {"none", "text", "needs_vision", "vision", "manual"}
             /\ {b.id : b \in Range(pages[p].blocks)} \subseteq BlockIds
  <2>1. pages[p] \in Page
    BY DEF IInv, Typed
  <2>2. {b.id : b \in Range(pages[p].blocks)} \subseteq Ids
    BY DEF Ids, BlocksInForce
  <2> QED
    BY <2>1, <2>2 DEF Page, Placed
<1>2. /\ meta.parse \in Parses /\ meta.ai \in Readings /\ meta.text \in 0 .. MaxTextVersion
      /\ meta.read.batches \subseteq BatchIds /\ meta.read.entries \subseteq Found
      /\ evidence \subseteq Found /\ \A copy \in asked : copy.text = meta.text
  BY DEF Stated, States, Placed, Held, Located, IInv, Typed, IsCopy
<1>3. ASSUME NEW k \in {"parse", "process"}
      PROVE  /\ jobs[k].status \in {"none", "queued", "running"}
             /\ jobs[k].attempts \in 0 .. MaxAttempts
             /\ jobs[k].status = "running" <=> Busy /\ worker.job = k
  <2>1. jobs[k] \in Job
    BY DEF Queueing
  <2> QED
    BY <2>1 DEF Queueing, Kinds, Job
<1>4. rev \in 0 .. MaxRevision
  BY DEF Queueing
<1> QED
  BY <1>1, <1>2, <1>3, <1>4 DEF TypeOK, Services, Parses, Readings, Found

\* The invariants hold.
LEMMA TypeInvariant == Spec => [](Queueing /\ Stated /\ Placed /\ Services)
<1>1. Init => Services
  BY DEF Init, Services
<1>2. IInv /\ Queueing /\ [Next]_vars => Queueing'
  BY QueueStep
<1>3. IInv /\ Stated /\ [Next]_vars => Stated'
  BY StatesStep
<1>4. IInv /\ JInv /\ Queueing /\ Stated /\ Placed /\ [Next]_vars => Placed'
  BY PlacedStep
<1> QED
  BY QueueInit, StatesInit, PlacedInit, ReadingInvariant, ServicesStep,
     <1>1, <1>2, <1>3, <1>4, PTL DEF Spec

\* Every variable keeps its type, whatever the bounds: statuses, the places of what is found
\* and, as the worker takes one job at a time, a running job for each handler at work and
\* none without one (process_document_job, enqueue and _process_one).
THEOREM TypeCorrect == Spec => []TypeOK
<1>1. IInv /\ Queueing /\ Stated /\ Placed /\ Services => TypeOK
  BY TypesOK
<1> QED
  BY Invariant, TypeInvariant, <1>1, PTL
=============================================================================
