------------------------------ MODULE DataLemmas ------------------------------
(***************************************************************************)
(* Lemmas on the data the models are built from, for the proofs of several  *)
(* components: induction over an interval, the least and the largest of a   *)
(* set of positions, functions defined by recursion, and the elements of    *)
(* joined and flattened sequences.  Everything rests on the first           *)
(* lemma: a set of 1..n that holds 1 and is closed under successor would    *)
(* otherwise be mapped into itself, injectively and not onto.               *)
(***************************************************************************)
EXTENDS Integers, SequencesExt, FiniteSetTheorems, SequenceTheorems, TLAPS

-----------------------------------------------------------------------------
(* Finite induction *)

\* A set that holds 1 and the successor of each of its members below n holds n.
LEMMA ReachesEnd ==
    ASSUME NEW n \in Nat \ {0}, NEW S \in SUBSET (1..n), 1 \in S,
           \A i \in S : i < n => i + 1 \in S
    PROVE  n \in S
<1> SUFFICES ASSUME n \notin S PROVE FALSE
  OBVIOUS
<1> DEFINE next == [i \in S |-> i + 1]
<1>1. IsFiniteSet(S)
  <2>1. IsFiniteSet(1..n)
    BY FS_Interval
  <2> QED
    BY <2>1, FS_Subset
<1>2. next \in Injection(S, S)
  <2>1. \A i \in S : i \in 1..n /\ i < n /\ i + 1 \in S
    OBVIOUS
  <2>2. next \in [S -> S]
    BY <2>1
  <2>3. \A a, b \in S : next[a] = next[b] => a = b
    BY <2>1
  <2> HIDE DEF next
  <2> QED
    BY <2>2, <2>3 DEF Injection, IsInjective
<1>3. next \in Surjection(S, S)
  BY <1>1, <1>2, FS_Injection
<1>4. PICK i \in S : next[i] = 1
  BY <1>3 DEF Surjection
<1>5. i \in 1..n /\ next[i] = i + 1
  OBVIOUS
<1> QED
  BY <1>4, <1>5

LEMMA FiniteInduction ==
    ASSUME NEW n \in Nat \ {0}, NEW S \in SUBSET (1..n), 1 \in S,
           \A i \in S : i < n => i + 1 \in S
    PROVE  S = 1..n
<1> SUFFICES ASSUME NEW m \in 1..n PROVE m \in S
  OBVIOUS
<1> DEFINE T == S \cap (1..m)
<1>1. m \in Nat \ {0} /\ T \in SUBSET (1..m) /\ 1 \in T
  OBVIOUS
<1>2. ASSUME NEW i \in T, i < m PROVE i + 1 \in T
  <2>1. i \in S /\ i \in 1..m /\ i < n /\ m <= n
    BY <1>2
  <2>2. i + 1 \in S
    BY <2>1
  <2> QED
    BY <1>2, <2>1, <2>2
<1>3. m \in T
  <2> HIDE DEF T
  <2> QED
    BY <1>1, <1>2, ReachesEnd
<1> QED
  BY <1>3

\* The same over m..n.
LEMMA IntervalInduction ==
    ASSUME NEW m \in Int, NEW n \in Int, m <= n, NEW S \in SUBSET (m..n), m \in S,
           \A i \in S : i < n => i + 1 \in S
    PROVE  S = m..n
<1> DEFINE k == n - m + 1
           T == {i \in 1..k : i + m - 1 \in S}
<1>1. k \in Nat \ {0}
  OBVIOUS
<1>2. 1 \in T
  OBVIOUS
<1>3. ASSUME NEW i \in T, i < k PROVE i + 1 \in T
  <2>1. i \in 1..k /\ i + m - 1 \in S /\ i + m - 1 < n
    BY <1>3
  <2>2. (i + m - 1) + 1 \in S
    BY <2>1
  <2>3. (i + m - 1) + 1 = (i + 1) + m - 1 /\ i + 1 \in 1..k
    BY <1>3, <2>1
  <2> QED
    BY <2>2, <2>3
<1>4. T = 1..k
  <2>1. T \in SUBSET (1..k)
    OBVIOUS
  <2> HIDE DEF T, k
  <2> QED
    BY <1>1, <1>2, <1>3, <2>1, FiniteInduction
<1>5. ASSUME NEW i \in m..n PROVE i \in S
  <2>1. i - m + 1 \in 1..k
    OBVIOUS
  <2>2. (i - m + 1) + m - 1 \in S
    BY <1>4, <2>1
  <2> QED
    BY <2>2
<1> QED
  BY <1>5

\* A set of positions has a least and a largest one.
LEMMA LeastPosition ==
    ASSUME NEW n \in Nat, NEW S \in SUBSET (1..n), S # {}
    PROVE  Min(S) \in S /\ \A i \in S : Min(S) <= i
<1>1. \E x \in S : \A y \in S : x <= y
  <2> SUFFICES ASSUME \A x \in S : \E y \in S : y < x PROVE FALSE
    OBVIOUS
  <2> DEFINE T == {i \in 1..n : \A j \in 1..i : j \notin S}
  <2>1. n \in Nat \ {0}
    <3>1. PICK x \in S : TRUE
      OBVIOUS
    <3> QED
      BY <3>1
  <2>2. 1 \in T
    <3>1. 1 \in 1..n /\ \A j \in 1..1 : j = 1
      BY <2>1
    <3>2. 1 \notin S
      <4> SUFFICES ASSUME 1 \in S PROVE FALSE
        OBVIOUS
      <4>1. PICK y \in S : y < 1
        OBVIOUS
      <4> QED
        BY <4>1
    <3> QED
      BY <3>1, <3>2
  <2>3. ASSUME NEW i \in T, i < n PROVE i + 1 \in T
    <3>1. i \in 1..n /\ \A j \in 1..i : j \notin S
      OBVIOUS
    <3>2. i + 1 \notin S
      BY <3>1
    <3>3. \A j \in 1..(i + 1) : j \in 1..i \/ j = i + 1
      BY <3>1
    <3> QED
      BY <2>3, <3>1, <3>2, <3>3
  <2>4. T = 1..n
    <3>1. T \in SUBSET (1..n)
      OBVIOUS
    <3> HIDE DEF T
    <3> QED
      BY <2>1, <2>2, <2>3, <3>1, FiniteInduction
  <2>5. n \in T
    BY <2>1, <2>4
  <2> QED
    BY <2>5
<1> QED
  BY <1>1 DEF Min

LEMMA LargestPosition ==
    ASSUME NEW n \in Nat, NEW S \in SUBSET (1..n), S # {}
    PROVE  Max(S) \in S /\ \A i \in S : Max(S) >= i
<1> DEFINE T == {i \in 1..n : n + 1 - i \in S}
<1>1. T \in SUBSET (1..n) /\ T # {}
  <2>1. PICK i \in S : TRUE
    OBVIOUS
  <2>2. n + 1 - i \in 1..n /\ n + 1 - (n + 1 - i) = i
    OBVIOUS
  <2> QED
    BY <2>1, <2>2
<1>2. PICK x \in T : \A y \in T : x <= y
  <2> HIDE DEF T
  <2> QED
    BY <1>1, LeastPosition
<1>3. n + 1 - x \in S /\ x \in 1..n
  OBVIOUS
<1>4. ASSUME NEW i \in S PROVE n + 1 - x >= i
  <2>1. n + 1 - i \in 1..n /\ n + 1 - (n + 1 - i) = i
    OBVIOUS
  <2>2. x <= n + 1 - i
    BY <1>2, <2>1
  <2> QED
    BY <1>3, <2>1, <2>2
<1>5. \E z \in S : \A y \in S : z >= y
  BY <1>3, <1>4
<1> QED
  BY <1>5 DEF Max

-----------------------------------------------------------------------------
(* Recursion over an interval *)

\* step takes a position of m..n behind the first and a value in D to a value in D.
Steps(step, D, m, n) == \A i \in (m + 1)..n, d \in D : step[<<i, d>>] \in D

\* f starts with a at m and goes on by step up to n.
Recursion(f, a, step, D, m, n) ==
    /\ f \in [m..n -> D]
    /\ \A i \in m..n : f[i] = IF i = m THEN a ELSE step[<<i, f[i - 1]>>]

LEMMA RecursionExists ==
    ASSUME NEW D, NEW a \in D, NEW m \in Int, NEW n \in Int, m <= n,
           NEW step, Steps(step, D, m, n)
    PROVE  \E f : Recursion(f, a, step, D, m, n)
<1> USE DEF Steps, Recursion
<1> DEFINE Is(f, k) == Recursion(f, a, step, D, m, k)
           S == {k \in m..n : \E f : Is(f, k)}
<1>1. m \in S
  <2>1. m \in m..n
    OBVIOUS
  <2>2. \A i \in m..m : i = m
    OBVIOUS
  <2>3. Is([i \in m..m |-> a], m)
    BY <2>2
  <2> QED
    BY <2>1, <2>3
<1>2. ASSUME NEW k \in S, k < n PROVE k + 1 \in S
  <2>1. k \in m..n /\ k + 1 \in m..n /\ k + 1 \in (m + 1)..n
    BY <1>2
  <2>2. PICK f : Is(f, k)
    OBVIOUS
  <2> DEFINE d == step[<<k + 1, f[k]>>]
             g == [i \in m..(k + 1) |-> IF i = k + 1 THEN d ELSE f[i]]
  <2>3. f[k] \in D /\ d \in D
    BY <2>1, <2>2
  <2>4. \A i \in m..k : i \in m..(k + 1) /\ i # k + 1 /\ f[i] \in D /\ g[i] = f[i]
    BY <2>1, <2>2
  <2>5. \A i \in m..(k + 1) : i = k + 1 \/ i \in m..k
    BY <2>1
  <2>6. k + 1 \in m..(k + 1) /\ g[k + 1] = d /\ k + 1 # m /\ (k + 1) - 1 = k
    BY <2>1
  <2>7. g \in [m..(k + 1) -> D]
    BY <2>3, <2>4, <2>5
  <2>8. \A i \in m..k : f[i] = IF i = m THEN a ELSE step[<<i, f[i - 1]>>]
    BY <2>2
  <2> HIDE DEF g, d
  <2>9. ASSUME NEW i \in m..(k + 1)
        PROVE  g[i] = IF i = m THEN a ELSE step[<<i, g[i - 1]>>]
    <3>1. CASE i = k + 1
      <4>1. g[i - 1] = f[k] /\ k \in m..k
        BY <2>1, <2>4, <2>6, <3>1
      <4> QED
        BY <2>6, <3>1, <4>1 DEF d
    <3>2. CASE i \in m..k /\ i # m
      <4>1. i - 1 \in m..k
        BY <2>1, <3>2
      <4>2. g[i] = f[i] /\ g[i - 1] = f[i - 1]
        BY <2>4, <3>2, <4>1
      <4> QED
        BY <2>8, <3>2, <4>2
    <3>3. CASE i = m
      <4>1. m \in m..k
        BY <2>1
      <4> QED
        BY <2>4, <2>8, <3>3, <4>1
    <3> QED
      BY <2>5, <3>1, <3>2, <3>3
  <2> QED
    BY <2>1, <2>7, <2>9
<1>3. S = m..n
  <2>1. S \in SUBSET (m..n)
    OBVIOUS
  <2> HIDE DEF S
  <2> QED
    BY <1>1, <1>2, <2>1, IntervalInduction
<1>4. PICK f : Is(f, n)
  BY <1>3
<1> QED
  BY <1>4

-----------------------------------------------------------------------------
(* The elements of a sequence *)

LEMMA EmptyElements == ToSet(<<>>) = {}
BY EmptySeq, LenProperties DEF ToSet

LEMMA SingleElement == ASSUME NEW X, NEW x \in X PROVE <<x>> \in Seq(X) /\ ToSet(<<x>>) = {x}
BY DEF ToSet

LEMMA JoinedElements ==
    ASSUME NEW X, NEW s \in Seq(X), NEW t \in Seq(X)
    PROVE  s \o t \in Seq(X) /\ ToSet(s \o t) = ToSet(s) \cup ToSet(t)
<1>1. /\ Len(s) \in Nat /\ DOMAIN s = 1..Len(s) /\ Len(t) \in Nat /\ DOMAIN t = 1..Len(t)
      /\ s \o t \in Seq(X) /\ DOMAIN (s \o t) = 1..(Len(s) + Len(t))
      /\ \A i \in 1..(Len(s) + Len(t)) :
            (s \o t)[i] = IF i <= Len(s) THEN s[i] ELSE t[i - Len(s)]
  BY LenProperties, ConcatProperties
<1> DEFINE j == s \o t
<1> HIDE DEF j
<1>2. ASSUME NEW x \in ToSet(j) PROVE x \in ToSet(s) \cup ToSet(t)
  <2>1. PICK i \in 1..(Len(s) + Len(t)) : x = j[i]
    BY <1>1 DEF ToSet, j
  <2>2. CASE i <= Len(s)
    BY <1>1, <2>1, <2>2 DEF ToSet, j
  <2>3. CASE i > Len(s)
    <3>1. i - Len(s) \in 1..Len(t) /\ x = t[i - Len(s)]
      BY <1>1, <2>1, <2>3 DEF j
    <3> QED
      BY <1>1, <3>1 DEF ToSet
  <2> QED
    BY <1>1, <2>1, <2>2, <2>3
<1>3. ASSUME NEW x \in ToSet(s) PROVE x \in ToSet(j)
  <2>1. PICK i \in 1..Len(s) : x = s[i]
    BY <1>1 DEF ToSet
  <2>2. i \in 1..(Len(s) + Len(t)) /\ j[i] = x
    BY <1>1, <2>1 DEF j
  <2> QED
    BY <1>1, <2>2 DEF ToSet, j
<1>4. ASSUME NEW x \in ToSet(t) PROVE x \in ToSet(j)
  <2>1. PICK i \in 1..Len(t) : x = t[i]
    BY <1>1 DEF ToSet
  <2>2. i + Len(s) \in 1..(Len(s) + Len(t)) /\ ~(i + Len(s) <= Len(s)) /\ (i + Len(s)) - Len(s) = i
    BY <1>1
  <2>3. j[i + Len(s)] = x
    BY <1>1, <2>1, <2>2 DEF j
  <2> QED
    BY <1>1, <2>2, <2>3 DEF ToSet, j
<1> QED
  BY <1>1, <1>2, <1>3, <1>4 DEF j

LEMMA AppendedElements ==
    ASSUME NEW X, NEW s \in Seq(X), NEW x \in X
    PROVE  Append(s, x) \in Seq(X) /\ ToSet(Append(s, x)) = ToSet(s) \cup {x}
<1>1. /\ Len(s) \in Nat /\ DOMAIN s = 1..Len(s)
      /\ Append(s, x) \in Seq(X) /\ DOMAIN Append(s, x) = 1..(Len(s) + 1)
      /\ \A i \in 1..Len(s) : Append(s, x)[i] = s[i]
      /\ Append(s, x)[Len(s) + 1] = x
  BY LenProperties, AppendProperties
<1>2. \A i : i \in 1..(Len(s) + 1) <=> i \in 1..Len(s) \/ i = Len(s) + 1
  BY <1>1
<1> QED
  BY <1>1, <1>2 DEF ToSet

\* FlattenSeq, for sequences of sequences over X.
LEMMA FlattenedElements ==
    ASSUME NEW X, NEW ss \in Seq(Seq(X))
    PROVE  /\ FlattenSeq(ss) \in Seq(X)
           /\ ToSet(FlattenSeq(ss)) = UNION {ToSet(ss[i]) : i \in 1..Len(ss)}
<1>1. Len(ss) \in Nat /\ DOMAIN ss = 1..Len(ss) /\ \A i \in 1..Len(ss) : ss[i] \in Seq(X)
  BY LenProperties, ElementOfSeq
<1>2. CASE Len(ss) = 0
  <2>1. ss = <<>>
    BY <1>2, EmptySeq
  <2>2. FlattenSeq(ss) = <<>>
    BY <1>2, <2>1 DEF FlattenSeq
  <2> QED
    BY <1>2, <2>2, EmptySeq, EmptyElements
<1>3. CASE Len(ss) # 0
  <2> DEFINE n == Len(ss)
             step == [p \in (1..n) \X Seq(X) |-> p[2] \o ss[p[1]]]
  <2>1. n \in Nat \ {0} /\ 1 \in 1..n
    BY <1>1, <1>3
  <2>2. ASSUME NEW i \in 1..n, NEW d \in Seq(X)
        PROVE  step[<<i, d>>] = d \o ss[i] /\ d \o ss[i] \in Seq(X)
    BY <1>1, JoinedElements
  <2>3. PICK f : Recursion(f, ss[1], step, Seq(X), 1, n)
    <3> HIDE DEF step, n
    <3>1. ss[1] \in Seq(X)
      BY <1>1, <2>1 DEF n
    <3>2. 1 \in Int /\ n \in Int /\ 1 <= n
      BY <2>1
    <3>3. Steps(step, Seq(X), 1, n)
      <4>1. (1 + 1)..n \subseteq 1..n
        BY <2>1
      <4> QED
        BY <2>2, <4>1 DEF Steps
    <3> QED
      BY <3>1, <3>2, <3>3, RecursionExists
  <2>4. \A i \in 1..n : i # 1 => step[<<i, f[i - 1]>>] = f[i - 1] \o ss[i]
    <3> HIDE DEF step
    <3> SUFFICES ASSUME NEW i \in 1..n, i # 1 PROVE step[<<i, f[i - 1]>>] = f[i - 1] \o ss[i]
      OBVIOUS
    <3>1. i - 1 \in 1..n
      BY <2>1
    <3>2. f[i - 1] \in Seq(X)
      BY <2>3, <3>1 DEF Recursion
    <3> QED
      BY <2>2, <3>1, <3>2
  <2> HIDE DEF step
  <2> DEFINE Eq(g) == g = [i \in 1..Len(ss) |-> IF i = 1 THEN ss[i] ELSE g[i - 1] \o ss[i]]
  <2>5. Eq(f)
    BY <2>3, <2>4 DEF Recursion
  <2>6. PICK g : Eq(g) /\ FlattenSeq(ss) = g[Len(ss)]
    <3>1. FlattenSeq(ss) = (CHOOSE g : Eq(g))[Len(ss)]
      BY <1>3 DEF FlattenSeq
    <3>2. Eq(CHOOSE g : Eq(g))
      BY <2>5
    <3> QED
      BY <3>1, <3>2
  <2>7. \A i \in 1..n : g[i] = IF i = 1 THEN ss[i] ELSE g[i - 1] \o ss[i]
    BY <2>6
  <2> HIDE DEF Eq
  <2> DEFINE S == {i \in 1..n : g[i] \in Seq(X)
                                /\ ToSet(g[i]) = UNION {ToSet(ss[j]) : j \in 1..i}}
  <2>8. 1 \in S
    BY <1>1, <2>1, <2>7
  <2>9. ASSUME NEW i \in S, i < n PROVE i + 1 \in S
    <3>1. i \in 1..n /\ i + 1 \in 1..n /\ i + 1 # 1 /\ (i + 1) - 1 = i
      BY <2>1, <2>9
    <3>2. g[i] \in Seq(X) /\ ToSet(g[i]) = UNION {ToSet(ss[j]) : j \in 1..i}
      OBVIOUS
    <3>3. g[i + 1] = g[i] \o ss[i + 1]
      BY <2>7, <3>1
    <3>4. g[i + 1] \in Seq(X) /\ ToSet(g[i + 1]) = ToSet(g[i]) \cup ToSet(ss[i + 1])
      BY <1>1, <3>1, <3>2, <3>3, JoinedElements
    <3>5. \A j : j \in 1..(i + 1) <=> j \in 1..i \/ j = i + 1
      BY <3>1
    <3>6. UNION {ToSet(ss[j]) : j \in 1..(i + 1)} =
          (UNION {ToSet(ss[j]) : j \in 1..i}) \cup ToSet(ss[i + 1])
      BY <3>5
    <3> QED
      BY <3>1, <3>2, <3>4, <3>6
  <2>10. S = 1..n
    <3>1. S \in SUBSET (1..n)
      OBVIOUS
    <3> HIDE DEF S, n
    <3> QED
      BY <2>1, <2>8, <2>9, <3>1, FiniteInduction
  <2>11. n \in S
    <3> HIDE DEF S
    <3> QED
      BY <2>1, <2>10
  <2> QED
    BY <2>6, <2>11
<1> QED
  BY <1>2, <1>3
===============================================================================
