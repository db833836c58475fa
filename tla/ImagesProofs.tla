----------------------------- MODULE ImagesProofs -----------------------------
(***************************************************************************)
(* Splitting an image reference inverts writing it (image.go), for every    *)
(* registry, path, tag and digest of the grammar: where the first and the   *)
(* last separator of a joined string are, what lies before and behind it,   *)
(* and then SplitImage and SplitImageName part by part.                     *)
(***************************************************************************)
EXTENDS Images, DataLemmas

Str == Seq(Tokens)

-----------------------------------------------------------------------------
(* Positions *)

LEMMA FirstPosition ==
    ASSUME NEW s \in Str, NEW t
    PROVE  /\ IndexByte(s, t) \in 0..Len(s)
           /\ IndexByte(s, t) = 0 <=> ~Contains(s, t)
           /\ IndexByte(s, t) # 0 => s[IndexByte(s, t)] = t
           /\ \A i \in 1..Len(s) : s[i] = t => IndexByte(s, t) <= i
<1> DEFINE I == {i \in 1..Len(s) : s[i] = t}
<1>1. Len(s) \in Nat /\ I \in SUBSET (1..Len(s))
  BY LenProperties DEF Str
<1>2. IndexByte(s, t) = IF I # {} THEN Min(I) ELSE 0
  BY DEF IndexByte, SelectInSeq
<1>3. I = {} <=> ~Contains(s, t)
  BY DEF Contains
<1>4. \A i \in 1..Len(s) : s[i] = t <=> i \in I
  OBVIOUS
<1> HIDE DEF I
<1>5. I # {} => Min(I) \in I /\ \A i \in I : Min(I) <= i
  BY <1>1, LeastPosition
<1>6. CASE I = {}
  BY <1>1, <1>2, <1>3, <1>4, <1>6
<1>7. CASE I # {}
  <2>1. IndexByte(s, t) \in I /\ \A i \in I : IndexByte(s, t) <= i
    BY <1>2, <1>5, <1>7
  <2>2. IndexByte(s, t) \in 1..Len(s)
    BY <1>1, <2>1
  <2> QED
    BY <1>1, <1>3, <1>4, <1>7, <2>1, <2>2
<1> QED
  BY <1>6, <1>7

LEMMA LastPosition ==
    ASSUME NEW s \in Str, NEW t
    PROVE  /\ LastIndex(s, t) \in 0..Len(s)
           /\ LastIndex(s, t) = 0 <=> ~Contains(s, t)
           /\ LastIndex(s, t) # 0 => s[LastIndex(s, t)] = t
           /\ \A i \in 1..Len(s) : s[i] = t => LastIndex(s, t) >= i
<1> DEFINE I == {i \in 1..Len(s) : s[i] = t}
<1>1. Len(s) \in Nat /\ I \in SUBSET (1..Len(s))
  BY LenProperties DEF Str
<1>2. LastIndex(s, t) = IF I # {} THEN Max(I) ELSE 0
  BY DEF LastIndex, SelectLastInSeq
<1>3. I = {} <=> ~Contains(s, t)
  BY DEF Contains
<1>4. \A i \in 1..Len(s) : s[i] = t <=> i \in I
  OBVIOUS
<1> HIDE DEF I
<1>5. I # {} => Max(I) \in I /\ \A i \in I : Max(I) >= i
  BY <1>1, LargestPosition
<1>6. CASE I = {}
  BY <1>1, <1>2, <1>3, <1>4, <1>6
<1>7. CASE I # {}
  <2>1. LastIndex(s, t) \in I /\ \A i \in I : LastIndex(s, t) >= i
    BY <1>2, <1>5, <1>7
  <2>2. LastIndex(s, t) \in 1..Len(s)
    BY <1>1, <2>1
  <2> QED
    BY <1>1, <1>3, <1>4, <1>7, <2>1, <2>2
<1> QED
  BY <1>6, <1>7

\* Two strings one after the other.
LEMMA Joined ==
    ASSUME NEW s \in Str, NEW u \in Str
    PROVE  /\ s \o u \in Str /\ Len(s) \in Nat /\ Len(u) \in Nat
           /\ Len(s \o u) = Len(s) + Len(u)
           /\ \A i \in 1..Len(s) : (s \o u)[i] = s[i]
           /\ \A i \in 1..Len(u) : (s \o u)[Len(s) + i] = u[i]
           /\ \A t : Contains(s \o u, t) <=> Contains(s, t) \/ Contains(u, t)
<1>1. /\ s \o u \in Str /\ Len(s) \in Nat /\ Len(u) \in Nat
      /\ Len(s \o u) = Len(s) + Len(u)
      /\ \A i \in 1..(Len(s) + Len(u)) :
            (s \o u)[i] = IF i <= Len(s) THEN s[i] ELSE u[i - Len(s)]
  BY ConcatProperties, LenProperties DEF Str
<1> DEFINE j == s \o u
<1> HIDE DEF j
<1>2. \A i \in 1..Len(s) : j[i] = s[i] /\ i \in 1..(Len(s) + Len(u))
  BY <1>1 DEF j
<1>3. ASSUME NEW i \in 1..Len(u)
      PROVE  j[Len(s) + i] = u[i] /\ Len(s) + i \in 1..(Len(s) + Len(u))
  <2>1. Len(s) + i \in 1..(Len(s) + Len(u)) /\ ~(Len(s) + i <= Len(s)) /\ (Len(s) + i) - Len(s) = i
    BY <1>1
  <2> QED
    BY <1>1, <2>1 DEF j
<1>4. \A i \in 1..(Len(s) + Len(u)) : i \in 1..Len(s) \/ (i - Len(s) \in 1..Len(u) /\ i = Len(s) + (i - Len(s)))
  BY <1>1
<1>5. ASSUME NEW t PROVE Contains(j, t) <=> Contains(s, t) \/ Contains(u, t)
  <2>1. ASSUME Contains(j, t) PROVE Contains(s, t) \/ Contains(u, t)
    BY <1>1, <1>2, <1>3, <1>4, <2>1 DEF Contains, j
  <2>2. ASSUME Contains(s, t) \/ Contains(u, t) PROVE Contains(j, t)
    BY <1>1, <1>2, <1>3, <2>2 DEF Contains, j
  <2> QED
    BY <2>1, <2>2
<1> QED
  BY <1>1, <1>2, <1>3, <1>5 DEF j

LEMMA Single ==
    ASSUME NEW x \in Tokens
    PROVE  <<x>> \in Str /\ Len(<<x>>) = 1 /\ <<x>>[1] = x /\ \A t : Contains(<<x>>, t) <=> x = t
<1>1. <<x>> \in Str
  BY DEF Str
<1>2. Len(<<x>>) = 1
  OBVIOUS
<1>3. <<x>>[1] = x
  OBVIOUS
<1> DEFINE one == <<x>>
<1> HIDE DEF one
<1>4. 1 \in 1..Len(one) /\ \A i \in 1..Len(one) : i = 1
  BY <1>2 DEF one
<1>5. \A t : Contains(one, t) <=> x = t
  BY <1>3, <1>4 DEF Contains, one
<1> QED
  BY <1>1, <1>2, <1>3, <1>5 DEF one

LEMMA Nothing == <<>> \in Str /\ Len(<<>>) = 0 /\ \A t : ~Contains(<<>>, t)
BY EmptySeq DEF Str, Contains

\* What lies behind position n.
LEMMA Behind ==
    ASSUME NEW s \in Str, NEW n \in 0..Len(s)
    PROVE  /\ After(s, n) \in Str /\ Len(After(s, n)) = Len(s) - n
           /\ \A i \in 1..(Len(s) - n) : After(s, n)[i] = s[n + i]
<1>1. Len(s) \in Nat /\ \A i \in 1..Len(s) : s[i] \in Tokens
  BY LenProperties, ElementOfSeq DEF Str
<1>2. n + 1 \in Int /\ Len(s) \in Int /\ \A i \in (n + 1)..Len(s) : s[i] \in Tokens
  BY <1>1
<1>3. /\ SubSeq(s, n + 1, Len(s)) \in Str
      /\ Len(SubSeq(s, n + 1, Len(s))) = IF n + 1 <= Len(s) THEN Len(s) - (n + 1) + 1 ELSE 0
      /\ \A i \in 1..(Len(s) - (n + 1) + 1) : SubSeq(s, n + 1, Len(s))[i] = s[n + 1 + i - 1]
  BY <1>2, SubSeqProperties DEF Str
<1> QED
  BY <1>1, <1>3 DEF After

\* Cut in two, a joined string is its parts again.
LEMMA Cut ==
    ASSUME NEW s \in Str, NEW u \in Str
    PROVE  SubSeq(s \o u, 1, Len(s)) = s /\ After(s \o u, Len(s)) = u
<1> DEFINE j == s \o u
<1>1. /\ j \in Str /\ Len(s) \in Nat /\ Len(u) \in Nat /\ Len(j) = Len(s) + Len(u)
      /\ \A i \in 1..Len(s) : j[i] = s[i]
      /\ \A i \in 1..Len(u) : j[Len(s) + i] = u[i]
  BY Joined
<1> HIDE DEF j
<1>2. SubSeq(j, 1, Len(s)) = s
  <2>1. \A i \in 1..Len(s) : j[i] \in Tokens
    BY <1>1, ElementOfSeq DEF Str
  <2>2. /\ SubSeq(j, 1, Len(s)) \in Str
        /\ Len(SubSeq(j, 1, Len(s))) = IF 1 <= Len(s) THEN Len(s) - 1 + 1 ELSE 0
        /\ \A i \in 1..(Len(s) - 1 + 1) : SubSeq(j, 1, Len(s))[i] = j[1 + i - 1]
    BY <1>1, <2>1, SubSeqProperties DEF Str
  <2> DEFINE b == SubSeq(j, 1, Len(s))
  <2>3. Len(b) = Len(s) /\ \A i \in 1..Len(s) : b[i] = s[i]
    BY <1>1, <2>2
  <2> HIDE DEF b
  <2>4. b = s
    BY <2>2, <2>3, SeqEqual DEF Str, b
  <2> QED
    BY <2>4 DEF b
<1>3. After(j, Len(s)) = u
  <2>1. /\ After(j, Len(s)) \in Str /\ Len(After(j, Len(s))) = Len(u)
        /\ \A i \in 1..Len(u) : After(j, Len(s))[i] = u[i]
    <3>1. Len(s) \in 0..Len(j) /\ Len(j) - Len(s) = Len(u)
      BY <1>1
    <3> QED
      BY <1>1, <3>1, Behind
  <2> QED
    BY <2>1, SeqEqual DEF Str
<1> QED
  BY <1>2, <1>3 DEF j

-----------------------------------------------------------------------------
(* Separators *)

\* Two strings around a separator: it is where it was put, and cuts them apart again.
LEMMA Separated ==
    ASSUME NEW s \in Str, NEW u \in Str, NEW t \in Tokens
    PROVE  LET j == s \o (<<t>> \o u)
               n == Len(s) + 1
           IN  /\ j \in Str /\ n \in 1..Len(j) /\ j[n] = t
               /\ Before(j, n) = s /\ After(j, n) = u
               /\ ~Contains(s, t) => IndexByte(j, t) = n
               /\ ~Contains(u, t) => LastIndex(j, t) = n
               /\ \A x : Contains(j, x) <=> Contains(s, x) \/ x = t \/ Contains(u, x)
<1> DEFINE one == <<t>>
           v == one \o u
           j == s \o v
           n == Len(s) + 1
<1>1. /\ one \in Str /\ Len(one) = 1 /\ one[1] = t /\ \A x : Contains(one, x) <=> t = x
  BY Single
<1> HIDE DEF one
<1>2. /\ v \in Str /\ Len(u) \in Nat /\ Len(v) = 1 + Len(u)
      /\ \A i \in 1..Len(one) : v[i] = one[i]
      /\ \A i \in 1..Len(u) : v[Len(one) + i] = u[i]
      /\ \A x : Contains(v, x) <=> Contains(one, x) \/ Contains(u, x)
  <2>1. one \in Str /\ u \in Str
    BY <1>1
  <2>2. /\ one \o u \in Str /\ Len(u) \in Nat /\ Len(one \o u) = Len(one) + Len(u)
        /\ \A i \in 1..Len(one) : (one \o u)[i] = one[i]
        /\ \A i \in 1..Len(u) : (one \o u)[Len(one) + i] = u[i]
        /\ \A x : Contains(one \o u, x) <=> Contains(one, x) \/ Contains(u, x)
    BY <2>1, Joined
  <2>3. Len(one) + Len(u) = 1 + Len(u)
    BY <1>1
  <2> QED
    BY <2>2, <2>3
<1>3. SubSeq(v, 1, Len(one)) = one /\ After(v, Len(one)) = u
  BY <1>1, Cut
<1> HIDE DEF v
<1>4. /\ j \in Str /\ Len(s) \in Nat /\ Len(j) = Len(s) + Len(v)
      /\ \A i \in 1..Len(s) : j[i] = s[i]
      /\ \A i \in 1..Len(v) : j[Len(s) + i] = v[i]
      /\ \A x : Contains(j, x) <=> Contains(s, x) \/ Contains(v, x)
  BY <1>2, Joined
<1>5. SubSeq(j, 1, Len(s)) = s /\ After(j, Len(s)) = v
  BY <1>2, Cut
<1> HIDE DEF j
<1>6. v[1] = t /\ \A i \in 1..Len(u) : v[1 + i] = u[i]
  <2>1. 1 \in 1..Len(one)
    BY <1>1
  <2> QED
    BY <1>1, <1>2, <2>1
<1>7. n \in 1..Len(j) /\ j[n] = t
  <2>1. 1 \in 1..Len(v)
    BY <1>2
  <2> QED
    BY <1>2, <1>4, <1>6, <2>1
<1>8. Before(j, n) = s
  <2>1. n - 1 = Len(s)
    BY <1>4
  <2> QED
    BY <1>5, <2>1 DEF Before
<1>9. \A i \in 1..Len(u) : n + i \in 1..Len(j) /\ j[n + i] = u[i]
  <2> TAKE i \in 1..Len(u)
  <2>1. 1 + i \in 1..Len(v) /\ Len(s) + (1 + i) = n + i /\ n + i \in 1..Len(j)
    BY <1>2, <1>4
  <2>2. j[Len(s) + (1 + i)] = v[1 + i]
    BY <1>4, <2>1
  <2>3. v[1 + i] = u[i]
    BY <1>6
  <2> QED
    BY <2>1, <2>2, <2>3
<1>10. After(j, n) = u
  <2>1. n \in 0..Len(j) /\ Len(j) - n = Len(u)
    BY <1>2, <1>4, <1>7
  <2>2. /\ After(j, n) \in Str /\ Len(After(j, n)) = Len(u)
        /\ \A i \in 1..Len(u) : After(j, n)[i] = u[i]
    BY <1>4, <1>9, <2>1, Behind
  <2> QED
    BY <2>2, SeqEqual DEF Str
<1>11. ASSUME ~Contains(s, t) PROVE IndexByte(j, t) = n
  <2>1. /\ IndexByte(j, t) \in 0..Len(j) /\ IndexByte(j, t) # 0
        /\ j[IndexByte(j, t)] = t /\ IndexByte(j, t) <= n
    <3>1. Contains(j, t)
      BY <1>7 DEF Contains
    <3> QED
      BY <1>4, <1>7, <3>1, FirstPosition
  <2>2. \A i \in 1..Len(s) : j[i] # t
    BY <1>4, <1>11 DEF Contains
  <2>3. ~(IndexByte(j, t) \in 1..Len(s))
    BY <2>1, <2>2
  <2> QED
    BY <1>4, <2>1, <2>3
<1>12. ASSUME ~Contains(u, t) PROVE LastIndex(j, t) = n
  <2>1. /\ LastIndex(j, t) \in 0..Len(j) /\ LastIndex(j, t) # 0
        /\ j[LastIndex(j, t)] = t /\ LastIndex(j, t) >= n
    <3>1. Contains(j, t)
      BY <1>7 DEF Contains
    <3> QED
      BY <1>4, <1>7, <3>1, LastPosition
  <2>2. \A i \in 1..Len(u) : j[n + i] # t
    BY <1>9, <1>12 DEF Contains
  <2>3. ASSUME LastIndex(j, t) # n PROVE FALSE
    <3> DEFINE m == LastIndex(j, t)
    <3>1. m \in 0..Len(j) /\ m # 0 /\ m >= n /\ m # n /\ j[m] = t
      BY <2>1, <2>3
    <3> HIDE DEF m
    <3>2. m - n \in 1..Len(u) /\ n + (m - n) = m
      BY <1>2, <1>4, <3>1
    <3> QED
      BY <2>2, <3>1, <3>2
  <2> QED
    BY <2>3
<1>13. \A x : Contains(j, x) <=> Contains(s, x) \/ x = t \/ Contains(u, x)
  BY <1>1, <1>2, <1>4
<1> QED
  BY <1>4, <1>7, <1>8, <1>10, <1>11, <1>12, <1>13 DEF j, v, one

\* What is added behind, without the separator, moves neither its last place nor what
\* follows it.
LEMMA Trailing ==
    ASSUME NEW s \in Str, NEW u \in Str, NEW t, ~Contains(u, t)
    PROVE  /\ LastIndex(s \o u, t) = LastIndex(s, t)
           /\ After(s \o u, LastIndex(s, t)) = After(s, LastIndex(s, t)) \o u
<1> DEFINE j == s \o u
           l == LastIndex(s, t)
<1>1. /\ j \in Str /\ Len(s) \in Nat /\ Len(u) \in Nat /\ Len(j) = Len(s) + Len(u)
      /\ \A i \in 1..Len(s) : j[i] = s[i]
      /\ \A i \in 1..Len(u) : j[Len(s) + i] = u[i]
      /\ (Contains(j, t) <=> Contains(s, t) \/ Contains(u, t))
  BY Joined
<1> HIDE DEF j
<1>2. /\ l \in 0..Len(s) /\ (l = 0 <=> ~Contains(s, t)) /\ (l # 0 => s[l] = t)
      /\ \A i \in 1..Len(s) : s[i] = t => l >= i
  BY LastPosition
<1> HIDE DEF l
<1>3. LastIndex(j, t) = l
  <2> DEFINE m == LastIndex(j, t)
  <2>1. /\ m \in 0..Len(j) /\ (m = 0 <=> ~Contains(j, t)) /\ (m # 0 => j[m] = t)
        /\ \A i \in 1..Len(j) : j[i] = t => m >= i
    BY <1>1, LastPosition
  <2> HIDE DEF m
  <2>2. CASE ~Contains(s, t)
    BY <1>1, <1>2, <2>1, <2>2 DEF m
  <2>3. CASE Contains(s, t)
    <3>1. l \in 1..Len(s) /\ j[l] = t /\ l \in 1..Len(j)
      BY <1>1, <1>2, <2>3
    <3>2. m \in 1..Len(j) /\ m >= l /\ j[m] = t
      BY <1>1, <2>1, <3>1
    <3>3. ASSUME m > Len(s) PROVE FALSE
      <4>1. m - Len(s) \in 1..Len(u) /\ Len(s) + (m - Len(s)) = m
        BY <1>1, <3>2, <3>3
      <4>2. u[m - Len(s)] = t
        BY <1>1, <3>2, <4>1
      <4> QED
        BY <4>1, <4>2 DEF Contains
    <3>4. m \in 1..Len(s)
      BY <1>1, <3>2, <3>3
    <3>5. s[m] = t
      BY <1>1, <3>2, <3>4
    <3>6. l >= m
      BY <1>2, <3>4, <3>5
    <3> QED
      BY <1>1, <3>1, <3>2, <3>4, <3>6 DEF m
  <2> QED
    BY <2>2, <2>3
<1>4. After(j, l) = After(s, l) \o u
  <2> DEFINE a == After(s, l)
  <2>1. a \in Str /\ Len(a) = Len(s) - l /\ \A i \in 1..(Len(s) - l) : a[i] = s[l + i]
    BY <1>2, Behind
  <2> HIDE DEF a
  <2>2. /\ a \o u \in Str /\ Len(a \o u) = Len(a) + Len(u)
        /\ \A i \in 1..Len(a) : (a \o u)[i] = a[i]
        /\ \A i \in 1..Len(u) : (a \o u)[Len(a) + i] = u[i]
    BY <2>1, Joined
  <2>3. /\ After(j, l) \in Str /\ Len(After(j, l)) = Len(j) - l
        /\ \A i \in 1..(Len(j) - l) : After(j, l)[i] = j[l + i]
    <3>1. l \in 0..Len(j)
      BY <1>1, <1>2
    <3> QED
      BY <1>1, <3>1, Behind
  <2>4. ASSUME NEW i \in 1..(Len(j) - l) PROVE After(j, l)[i] = (a \o u)[i]
    <3>1. CASE i <= Len(a)
      <4>1. i \in 1..Len(a) /\ i \in 1..(Len(s) - l) /\ l + i \in 1..Len(s)
        BY <1>1, <1>2, <2>1, <2>4, <3>1
      <4> QED
        BY <1>1, <2>1, <2>2, <2>3, <4>1
    <3>2. CASE i > Len(a)
      <4>1. /\ i - Len(a) \in 1..Len(u) /\ Len(a) + (i - Len(a)) = i
            /\ Len(s) + (i - Len(a)) = l + i
        BY <1>1, <1>2, <2>1, <2>4, <3>2
      <4>2. j[l + i] = u[i - Len(a)] /\ (a \o u)[i] = u[i - Len(a)]
        BY <1>1, <2>2, <4>1
      <4> QED
        BY <2>3, <4>2
    <3>3. i <= Len(a) \/ i > Len(a)
      BY <1>1, <1>2, <2>1
    <3> QED
      BY <3>1, <3>2, <3>3
  <2>5. Len(After(j, l)) = Len(a \o u) /\ Len(After(j, l)) = Len(j) - l
    BY <1>1, <1>2, <2>1, <2>2, <2>3
  <2>6. After(j, l) = a \o u
    BY <2>2, <2>3, <2>4, <2>5, SeqEqual DEF Str
  <2> QED
    BY <2>6 DEF a
<1> QED
  BY <1>3, <1>4 DEF j, l

-----------------------------------------------------------------------------
(* The parts of a reference *)

Repo(r) == (IF r.registry = <<>> THEN <<>> ELSE r.registry \o <<"/">>) \o r.path
TagPart(r) == IF r.tag = <<>> THEN <<>> ELSE <<":">> \o r.tag
DigestPart(r) == IF r.digest = <<>> THEN <<>> ELSE <<"@">> \o r.digest

Separators == {"/", ":", "@", ".", "docker-pullable://", "library"}

LEMMA Grammar ==
    /\ Separators \subseteq Tokens
    /\ \A p \in Registries \cup Paths \cup Tags \cup ContentDigests : p \in Str /\ p # <<>>
    /\ \A p \in Registries : /\ LooksLikeHost(p) /\ ~Contains(p, "/") /\ ~Contains(p, "@")
                              /\ p[1] # "docker-pullable://"
    /\ \A p \in Paths : ~Contains(p, ":") /\ ~Contains(p, "@")
    /\ \A p \in Tags : ~Contains(p, "/") /\ ~Contains(p, "@")
    /\ \A p \in ContentDigests : ~Contains(p, "@")
<1>1. Separators \subseteq Tokens
  BY ImagesAssumption DEF Separators
<1>2. \A p \in Registries \cup Paths \cup Tags \cup ContentDigests : p \in Str /\ p # <<>>
  BY ImagesAssumption DEF Str
<1>3. \A p \in Registries : /\ LooksLikeHost(p) /\ ~Contains(p, "/") /\ ~Contains(p, "@")
                            /\ p[1] # "docker-pullable://"
  BY ImagesAssumption DEF Without
<1>4. \A p \in Paths : ~Contains(p, ":") /\ ~Contains(p, "@")
  BY ImagesAssumption DEF Without
<1>5. \A p \in Tags : ~Contains(p, "/") /\ ~Contains(p, "@")
  BY ImagesAssumption DEF Without
<1>6. \A p \in ContentDigests : ~Contains(p, "@")
  BY ImagesAssumption DEF Without
<1> QED
  BY <1>1, <1>2, <1>3, <1>4, <1>5, <1>6

LEMMA ReferenceParts ==
    ASSUME NEW r \in References
    PROVE  /\ r.registry \in Registries \/ r.registry = <<>>
           /\ r.path \in Paths
           /\ r.tag \in Tags \/ r.tag = <<>>
           /\ r.digest \in ContentDigests \/ r.digest = <<>>
           /\ r.registry = <<>> /\ Contains(r.path, "/")
                => ~LooksLikeHost(Before(r.path, IndexByte(r.path, "/")))
BY DEF References

\* With a registry, the first slash of the repository sets it off.
LEMMA WithRegistry ==
    ASSUME NEW r, r.registry \in Registries, r.path \in Str
    PROVE  LET n == Len(r.registry) + 1
           IN  /\ Repo(r) \in Str /\ n \in 2..Len(Repo(r)) /\ Repo(r)[n] = "/"
               /\ Repo(r)[1] = r.registry[1]
               /\ IndexByte(Repo(r), "/") = n
               /\ Before(Repo(r), n) = r.registry /\ After(Repo(r), n) = r.path
               /\ \A x : Contains(Repo(r), x)
                            <=> Contains(r.registry, x) \/ x = "/" \/ Contains(r.path, x)
<1> DEFINE g == r.registry
           p == r.path
           j == g \o (<<"/">> \o p)
           n == Len(g) + 1
<1>1. g \in Str /\ g # <<>> /\ p \in Str /\ ~Contains(g, "/") /\ "/" \in Tokens
  BY Grammar DEF Separators
<1>2. <<"/">> \in Str
  BY <1>1, Single
<1>3. Repo(r) = j
  <2>1. Repo(r) = (g \o <<"/">>) \o p
    BY <1>1 DEF Repo
  <2>2. \A a, b, c \in Str : (a \o b) \o c = a \o (b \o c)
    BY ConcatAssociative DEF Str
  <2>3. (g \o <<"/">>) \o p = j
    BY <1>1, <1>2, <2>2
  <2> QED
    BY <2>1, <2>3
<1> HIDE DEF g, p
<1>4. /\ j \in Str /\ n \in 1..Len(j) /\ j[n] = "/"
      /\ Before(j, n) = g /\ After(j, n) = p
      /\ IndexByte(j, "/") = n
      /\ \A x : Contains(j, x) <=> Contains(g, x) \/ x = "/" \/ Contains(p, x)
  BY <1>1, Separated
<1>5. Len(g) \in Nat /\ Len(g) # 0
  BY <1>1, LenProperties, EmptySeq DEF Str
<1>6. j[1] = g[1]
  <2>1. <<"/">> \o p \in Str
    BY <1>1, <1>2, Joined
  <2>2. \A i \in 1..Len(g) : j[i] = g[i]
    BY <1>1, <2>1, Joined
  <2> HIDE DEF j
  <2> QED
    BY <1>5, <2>2
<1> HIDE DEF j
<1>7. n \in 2..Len(j)
  BY <1>4, <1>5
<1> QED
  BY <1>3, <1>4, <1>6, <1>7 DEF g, p

LEMMA WithoutRegistry ==
    ASSUME NEW r, r.registry = <<>>, r.path \in Str
    PROVE  Repo(r) = r.path
BY ConcatEmptySeq DEF Repo, Str

LEMMA RepoString ==
    ASSUME NEW r, r.registry \in Registries \/ r.registry = <<>>, r.path \in Paths
    PROVE  /\ Repo(r) \in Str /\ Len(Repo(r)) \in Nat /\ Len(Repo(r)) # 0
           /\ ~Contains(Repo(r), "@")
           /\ ~Contains(After(Repo(r), LastIndex(Repo(r), "/")), ":")
<1>1. r.path \in Str /\ r.path # <<>> /\ ~Contains(r.path, ":") /\ ~Contains(r.path, "@")
  BY Grammar
<1>2. CASE r.registry = <<>>
  <2> DEFINE p == r.path
             l == LastIndex(p, "/")
  <2>1. Repo(r) = p
    BY <1>1, <1>2, WithoutRegistry
  <2>2. p \in Str /\ p # <<>> /\ ~Contains(p, ":") /\ ~Contains(p, "@")
    BY <1>1
  <2> HIDE DEF p
  <2>3. Len(p) \in Nat /\ Len(p) # 0
    BY <2>2, LenProperties, EmptySeq DEF Str
  <2>4. l \in 0..Len(p)
    BY <2>2, LastPosition
  <2> HIDE DEF l
  <2>5. /\ Len(After(p, l)) = Len(p) - l
        /\ \A i \in 1..(Len(p) - l) : After(p, l)[i] = p[l + i]
    BY <2>2, <2>4, Behind
  <2>6. \A i \in 1..(Len(p) - l) : l + i \in 1..Len(p)
    BY <2>3, <2>4
  <2>7. ~Contains(After(p, l), ":")
    BY <2>2, <2>5, <2>6 DEF Contains
  <2> QED
    BY <2>1, <2>2, <2>3, <2>7 DEF l
<1>3. CASE r.registry \in Registries
  <2> DEFINE p == r.path
             j == Repo(r)
             n == Len(r.registry) + 1
             l == LastIndex(j, "/")
  <2>1. /\ j \in Str /\ n \in 2..Len(j) /\ j[n] = "/" /\ After(j, n) = p
        /\ \A x : Contains(j, x) <=> Contains(r.registry, x) \/ x = "/" \/ Contains(p, x)
    BY <1>1, <1>3, WithRegistry
  <2>2. p \in Str /\ ~Contains(p, ":") /\ ~Contains(p, "@") /\ ~Contains(r.registry, "@")
    BY <1>1, <1>3, Grammar
  <2> HIDE DEF p, j, n
  <2>3. Len(j) \in Nat /\ n \in 1..Len(j) /\ n \in 0..Len(j)
    BY <2>1, LenProperties DEF Str
  <2>4. l \in 0..Len(j) /\ l >= n
    BY <2>1, <2>3, LastPosition
  <2> HIDE DEF l
  <2>5. /\ Len(p) = Len(j) - n
        /\ \A i \in 1..(Len(j) - n) : p[i] = j[n + i]
    BY <2>1, <2>3, Behind
  <2>6. /\ Len(After(j, l)) = Len(j) - l
        /\ \A i \in 1..(Len(j) - l) : After(j, l)[i] = j[l + i]
    BY <2>1, <2>4, Behind
  <2>7. ASSUME NEW i \in 1..(Len(j) - l)
        PROVE  After(j, l)[i] # ":"
    <3>1. (l - n) + i \in 1..(Len(j) - n) /\ n + ((l - n) + i) = l + i
      BY <2>3, <2>4
    <3>2. p[(l - n) + i] = j[l + i]
      BY <2>5, <3>1
    <3>3. p[(l - n) + i] # ":"
      BY <2>2, <2>5, <3>1 DEF Contains
    <3> QED
      BY <2>6, <3>2, <3>3
  <2>8. ~Contains(After(j, l), ":")
    BY <2>6, <2>7 DEF Contains
  <2>9. ~Contains(j, "@")
    BY <2>1, <2>2
  <2> QED
    BY <2>1, <2>3, <2>8, <2>9 DEF l, j
<1> QED
  BY <1>2, <1>3

-----------------------------------------------------------------------------
(* SplitImage *)

\* The colon colonAfter finds behind the last slash is the one before the tag.
LEMMA ColonOfTheTag ==
    ASSUME NEW j \in Str, ~Contains(After(j, LastIndex(j, "/")), ":"),
           NEW tag \in Str, ~Contains(tag, "/")
    PROVE  /\ ColonAfter(j, LastIndex(j, "/")) = 0
           /\ LET k == j \o (<<":">> \o tag)
              IN  /\ LastIndex(k, "/") = LastIndex(j, "/")
                  /\ ColonAfter(k, LastIndex(k, "/")) = Len(j) + 1
<1> DEFINE l == LastIndex(j, "/")
           a == After(j, l)
           u == <<":">> \o tag
           k == j \o u
<1>1. l \in 0..Len(j) /\ Len(j) \in Nat
  BY LastPosition, LenProperties DEF Str
<1>2. a \in Str /\ Len(a) = Len(j) - l /\ ~Contains(a, ":")
  BY <1>1, Behind
<1>3. ColonAfter(j, l) = 0
  <2>1. IndexByte(a, ":") = 0
    BY <1>2, FirstPosition
  <2> QED
    BY <2>1 DEF ColonAfter
<1>4. ":" \in Tokens /\ ":" # "/"
  BY Grammar DEF Separators
<1>5. u \in Str /\ ~Contains(u, "/")
  <2>1. <<":">> \in Str /\ ~Contains(<<":">>, "/")
    BY <1>4, Single
  <2> QED
    BY <2>1, Joined
<1>6. LastIndex(k, "/") = l /\ After(k, l) = a \o u
  BY <1>5, Trailing
<1>7. IndexByte(a \o u, ":") = Len(a) + 1
  BY <1>2, <1>4, Separated
<1> HIDE DEF l, a, u, k
<1>8. ColonAfter(k, l) = Len(j) + 1
  <2>1. Len(a) + 1 # 0 /\ l + (Len(a) + 1) = Len(j) + 1
    BY <1>1, <1>2
  <2> QED
    BY <1>6, <1>7, <2>1 DEF ColonAfter
<1> QED
  BY <1>3, <1>6, <1>8 DEF l, k, u

\* The variables of SplitImage: what comes before "@", and the spec's own parts.
RefOf(spec) == LET at == LastIndex(spec, "@") IN IF at = 0 THEN spec ELSE Before(spec, at)
OwnParts(spec) ==
    LET at  == LastIndex(spec, "@")
        ref == RefOf(spec)
        c   == ColonAfter(ref, LastIndex(ref, "/"))
    IN  [repo |-> IF c = 0 THEN ref ELSE Before(ref, c),
         tag |-> IF c = 0 THEN <<>> ELSE After(ref, c),
         digest |-> IF at = 0 THEN <<>> ELSE After(spec, at)]

LEMMA SplitInSteps ==
    ASSUME NEW spec, NEW imageID
    PROVE  LET own  == OwnParts(spec)
               id   == TrimPrefix(imageID, <<"docker-pullable://">>)
               idAt == LastIndex(id, "@")
               takes == ~Contains(own.repo, "/") \/ ~Contains(own.repo, ".")
           IN  SplitImage(spec, imageID) =
                 IF own.digest # <<>> \/ idAt = 0 THEN own
                 ELSE [own EXCEPT !.digest = After(id, idAt),
                                  !.repo = IF takes /\ idAt > 1 THEN Before(id, idAt) ELSE @]
BY DEF SplitImage, OwnParts, RefOf

LEMMA WrittenInParts ==
    ASSUME NEW r PROVE Written(r) = (Repo(r) \o TagPart(r)) \o DigestPart(r)
BY DEF Written, Repo, TagPart, DigestPart

\* Behind the repository: the tag.
LEMMA TagSplitsOff ==
    ASSUME NEW r \in References
    PROVE  LET k == Repo(r) \o TagPart(r)
               c == ColonAfter(k, LastIndex(k, "/"))
           IN  /\ k \in Str /\ ~Contains(k, "@")
               /\ (IF c = 0 THEN k ELSE Before(k, c)) = Repo(r)
               /\ (IF c = 0 THEN <<>> ELSE After(k, c)) = r.tag
<1> DEFINE j == Repo(r)
           k == j \o TagPart(r)
           c == ColonAfter(k, LastIndex(k, "/"))
<1>1. /\ r.registry \in Registries \/ r.registry = <<>>
      /\ r.path \in Paths
      /\ r.tag \in Tags \/ r.tag = <<>>
  BY ReferenceParts
<1>2. /\ j \in Str /\ Len(j) \in Nat /\ ~Contains(j, "@")
      /\ ~Contains(After(j, LastIndex(j, "/")), ":")
  BY <1>1, RepoString
<1> HIDE DEF j
<1>3. r.tag \in Str /\ ~Contains(r.tag, "/") /\ ~Contains(r.tag, "@")
  BY <1>1, Grammar, Nothing
<1>4. ":" \in Tokens /\ ":" # "@"
  BY Grammar DEF Separators
<1>5. CASE r.tag = <<>>
  <2>1. k = j
    BY <1>2, <1>5, ConcatEmptySeq DEF TagPart, Str
  <2>2. ColonAfter(j, LastIndex(j, "/")) = 0
    BY <1>2, <1>3, ColonOfTheTag
  <2>3. c = 0
    BY <2>1, <2>2
  <2> HIDE DEF k, c
  <2>4. /\ k \in Str /\ ~Contains(k, "@")
        /\ (IF c = 0 THEN k ELSE Before(k, c)) = j
        /\ (IF c = 0 THEN <<>> ELSE After(k, c)) = r.tag
    BY <1>2, <1>5, <2>1, <2>3
  <2> QED
    BY <2>4 DEF j, k, c
<1>6. CASE r.tag # <<>>
  <2>1. k = j \o (<<":">> \o r.tag)
    BY <1>6 DEF TagPart
  <2>2. c = Len(j) + 1
    BY <1>2, <1>3, <2>1, ColonOfTheTag
  <2>3. /\ k \in Str /\ Before(k, Len(j) + 1) = j /\ After(k, Len(j) + 1) = r.tag
        /\ (Contains(k, "@") <=> Contains(j, "@") \/ "@" = ":" \/ Contains(r.tag, "@"))
    BY <1>2, <1>3, <1>4, <2>1, Separated
  <2> HIDE DEF k, c
  <2>4. /\ k \in Str /\ ~Contains(k, "@")
        /\ (IF c = 0 THEN k ELSE Before(k, c)) = j
        /\ (IF c = 0 THEN <<>> ELSE After(k, c)) = r.tag
    BY <1>2, <1>3, <1>4, <2>2, <2>3
  <2> QED
    BY <2>4 DEF j, k, c
<1> QED
  BY <1>5, <1>6

\* Behind the last "@": the digest.
LEMMA DigestSplitsOff ==
    ASSUME NEW r, NEW k \in Str, ~Contains(k, "@"),
           r.digest \in ContentDigests \/ r.digest = <<>>
    PROVE  LET w  == k \o DigestPart(r)
               at == LastIndex(w, "@")
           IN  /\ w \in Str /\ RefOf(w) = k
               /\ (IF at = 0 THEN <<>> ELSE After(w, at)) = r.digest
               /\ r.digest # <<>> => at = Len(k) + 1 /\ After(w, at) = r.digest /\ Before(w, at) = k
<1> DEFINE w == k \o DigestPart(r)
           at == LastIndex(w, "@")
<1>1. r.digest \in Str /\ ~Contains(r.digest, "@") /\ "@" \in Tokens
  BY Grammar, Nothing DEF Separators
<1>2. Len(k) \in Nat
  BY LenProperties DEF Str
<1>3. CASE r.digest = <<>>
  <2>1. w = k
    BY <1>3, ConcatEmptySeq DEF DigestPart, Str
  <2>2. LastIndex(k, "@") = 0
    BY LastPosition
  <2> QED
    BY <1>3, <2>1, <2>2 DEF RefOf
<1>4. CASE r.digest # <<>>
  <2>1. w = k \o (<<"@">> \o r.digest)
    BY <1>4 DEF DigestPart
  <2>2. w \in Str /\ at = Len(k) + 1 /\ Before(w, Len(k) + 1) = k /\ After(w, Len(k) + 1) = r.digest
    BY <1>1, <2>1, Separated
  <2> HIDE DEF w
  <2>3. RefOf(w) = k
    BY <1>2, <2>2 DEF RefOf
  <2> QED
    BY <1>2, <2>2, <2>3 DEF w
<1> QED
  BY <1>3, <1>4

\* What the spec says itself is what was written.
LEMMA OwnPartsAreTheReference ==
    ASSUME NEW r \in References
    PROVE  OwnParts(Written(r)) = [repo |-> Repo(r), tag |-> r.tag, digest |-> r.digest]
<1> DEFINE k == Repo(r) \o TagPart(r)
           c == ColonAfter(k, LastIndex(k, "/"))
           w == k \o DigestPart(r)
           at == LastIndex(w, "@")
<1>1. /\ k \in Str /\ ~Contains(k, "@")
      /\ (IF c = 0 THEN k ELSE Before(k, c)) = Repo(r)
      /\ (IF c = 0 THEN <<>> ELSE After(k, c)) = r.tag
  BY TagSplitsOff
<1>2. Written(r) = w
  BY WrittenInParts
<1> HIDE DEF k
<1>3. RefOf(w) = k /\ (IF at = 0 THEN <<>> ELSE After(w, at)) = r.digest
  BY <1>1, ReferenceParts, DigestSplitsOff
<1> HIDE DEF w
<1>4. OwnParts(w) = [repo |-> IF c = 0 THEN k ELSE Before(k, c),
                     tag |-> IF c = 0 THEN <<>> ELSE After(k, c),
                     digest |-> IF at = 0 THEN <<>> ELSE After(w, at)]
  BY <1>3 DEF OwnParts
<1> QED
  BY <1>1, <1>2, <1>3, <1>4

\* strings.TrimPrefix of the prefix some runtimes put before an id.
LEMMA Unprefixed ==
    ASSUME NEW v \in Str
    PROVE  /\ TrimPrefix(<<"docker-pullable://">> \o v, <<"docker-pullable://">>) = v
           /\ v = <<>> \/ v[1] # "docker-pullable://"
                => TrimPrefix(v, <<"docker-pullable://">>) = v
<1> DEFINE p == <<"docker-pullable://">>
<1>1. /\ p \in Str /\ Len(p) = 1 /\ p[1] = "docker-pullable://"
  <2>1. "docker-pullable://" \in Tokens
    BY Grammar DEF Separators
  <2> QED
    BY <2>1, Single
<1> HIDE DEF p
<1>2. SubSeq(p, 1, Len(p)) = p
  <2>1. p \o <<>> = p
    BY <1>1, ConcatEmptySeq DEF Str
  <2> QED
    BY <1>1, <2>1, Nothing, Cut
<1>3. TrimPrefix(p \o v, p) = v
  <2>1. SubSeq(p \o v, 1, Len(p)) = p /\ After(p \o v, Len(p)) = v
    BY <1>1, Cut
  <2>2. Len(v) \in Nat /\ Len(p \o v) = Len(p) + Len(v)
    BY <1>1, Joined
  <2>3. Len(p) <= Len(p \o v)
    BY <1>1, <2>2
  <2> QED
    BY <1>2, <2>1, <2>3 DEF TrimPrefix, IsPrefix
<1>4. ASSUME v = <<>> \/ v[1] # "docker-pullable://" PROVE ~IsPrefix(p, v)
  <2>1. CASE v = <<>>
    BY <1>1, <2>1, Nothing DEF IsPrefix
  <2>2. CASE v # <<>> /\ v[1] # "docker-pullable://"
    <3>1. Len(v) \in Nat /\ Len(v) # 0
      BY <2>2, LenProperties, EmptySeq DEF Str
    <3>2. \A i \in 1..1 : v[i] \in Tokens
      BY <3>1, ElementOfSeq DEF Str
    <3>3. SubSeq(v, 1, 1)[1] = v[1]
      BY <3>2, SubSeqProperties
    <3> QED
      BY <1>1, <1>2, <2>2, <3>3 DEF IsPrefix
  <2> QED
    BY <1>4, <2>1, <2>2
<1> QED
  BY <1>3, <1>4 DEF TrimPrefix, p

-----------------------------------------------------------------------------
(* SplitImageName *)

\* The registry of a repository and the rest of it.
LEMMA NameOfTheRepository ==
    ASSUME NEW r, r.registry \in Registries \/ r.registry = <<>>, r.path \in Str,
           r.registry = <<>> /\ Contains(r.path, "/")
              => ~LooksLikeHost(Before(r.path, IndexByte(r.path, "/")))
    PROVE  /\ SplitImageName(Repo(r)).registry = Named(r).registry
           /\ SplitImageName(Repo(r)).image = Named(r).image
<1> DEFINE j == Repo(r)
           i == IndexByte(j, "/")
           first == Before(j, i)
           host == IF i > 1 /\ LooksLikeHost(first) THEN first ELSE <<>>
           path == IF host = <<>> THEN j ELSE After(j, i)
<1>1. /\ SplitImageName(j).registry = host
      /\ SplitImageName(j).image = IF host = <<"docker", ".", "io">>
                                   THEN TrimPrefix(path, <<"library", "/">>) ELSE path
  BY DEF SplitImageName
<1>2. host = r.registry /\ path = r.path
  <2>1. CASE r.registry = <<>>
    <3>1. j = r.path
      BY <2>1, WithoutRegistry
    <3>2. host = <<>>
      <4>1. i = 0 <=> ~Contains(r.path, "/")
        BY <3>1, FirstPosition
      <4>2. CASE i = 0
        BY <4>2
      <4>3. CASE i # 0
        <5>1. ~LooksLikeHost(first)
          BY <2>1, <3>1, <4>1, <4>3
        <5> QED
          BY <5>1
      <4> QED
        BY <4>2, <4>3
    <3> HIDE DEF host
    <3> QED
      BY <2>1, <3>1, <3>2
  <2>2. CASE r.registry \in Registries
    <3>1. /\ Len(r.registry) + 1 \in 2..Len(j)
          /\ i = Len(r.registry) + 1
          /\ Before(j, Len(r.registry) + 1) = r.registry /\ After(j, Len(r.registry) + 1) = r.path
      BY <2>2, WithRegistry
    <3>2. LooksLikeHost(r.registry) /\ r.registry # <<>>
      BY <2>2, Grammar
    <3>3. first = r.registry /\ After(j, i) = r.path
      BY <3>1
    <3>4. i > 1
      BY <3>1
    <3> HIDE DEF i, first
    <3>5. host = r.registry
      BY <3>2, <3>3, <3>4
    <3> HIDE DEF host
    <3> QED
      BY <3>2, <3>3, <3>5
  <2> QED
    BY <2>1, <2>2
<1> HIDE DEF host, path, j
<1>3. /\ SplitImageName(j).registry = r.registry
      /\ SplitImageName(j).image = IF r.registry = Hub
                                   THEN TrimPrefix(r.path, <<"library", "/">>) ELSE r.path
  BY <1>1, <1>2 DEF Hub
<1> QED
  BY <1>3 DEF Named, j

-----------------------------------------------------------------------------
(* The kubelet's id *)

\* An id names a registry, and a repository that its digest is set off from.
LEMMA IdParts ==
    ASSUME NEW i \in References, NEW d \in ContentDigests,
           NEW prefix \in {<<>>, <<"docker-pullable://">>}
    PROVE  LET of   == Pulled(i, d)
               id   == TrimPrefix(prefix \o Written(of), <<"docker-pullable://">>)
               idAt == LastIndex(id, "@")
           IN  /\ of.registry \in Registries /\ of.path \in Str /\ of.digest = d
               /\ idAt > 1 /\ After(id, idAt) = d /\ Before(id, idAt) = Repo(of)
<1> DEFINE of == Pulled(i, d)
<1>1. /\ i.registry \in Registries \/ i.registry = <<>>
      /\ i.path \in Paths
  BY ReferenceParts
<1>2. of.registry \in Registries
  BY <1>1, ImagesAssumption DEF Pulled
<1>3. of.path \in Str
  <2>1. i.path \in Str
    BY <1>1, Grammar
  <2>2. "library" \in Tokens /\ "/" \in Tokens
    BY Grammar DEF Separators
  <2>3. <<"library", "/">> \in Str
    <3>1. \A x, y \in Tokens : <<x, y>> \in Str
      BY DEF Str
    <3> QED
      BY <2>2, <3>1
  <2>4. <<"library", "/">> \o i.path \in Str
    BY <2>1, <2>3, Joined
  <2>5. of.path \in {<<"library", "/">> \o i.path, i.path}
    BY DEF Pulled
  <2> QED
    BY <2>1, <2>4, <2>5
<1>4. of.tag = <<>> /\ of.digest = d /\ d # <<>> /\ d \in Str
  BY Grammar DEF Pulled
<1> HIDE DEF of
<1>5. /\ Repo(of) \in Str /\ Len(Repo(of)) \in Nat /\ Len(Repo(of)) # 0
      /\ Repo(of)[1] # "docker-pullable://"
  <2>1. /\ Repo(of) \in Str /\ Len(of.registry) + 1 \in 2..Len(Repo(of))
        /\ Repo(of)[1] = of.registry[1]
    BY <1>2, <1>3, WithRegistry
  <2>2. Len(Repo(of)) \in Nat /\ Len(Repo(of)) # 0
    BY <2>1, LenProperties DEF Str
  <2>3. of.registry[1] # "docker-pullable://"
    BY <1>2, Grammar
  <2> QED
    BY <2>1, <2>2, <2>3
<1>6. ~Contains(d, "@") /\ "@" \in Tokens
  BY Grammar DEF Separators
<1> DEFINE k == Repo(of)
           v == k \o (<<"@">> \o d)
<1>7. Written(of) = v
  <2>1. Written(of) = (k \o TagPart(of)) \o DigestPart(of)
    BY WrittenInParts
  <2>2. k \o TagPart(of) = k
    BY <1>4, <1>5, ConcatEmptySeq DEF TagPart, Str
  <2>3. DigestPart(of) = <<"@">> \o d
    BY <1>4 DEF DigestPart
  <2> QED
    BY <2>1, <2>2, <2>3
<1>8. k \in Str /\ Len(k) \in Nat /\ Len(k) # 0 /\ k[1] # "docker-pullable://"
  BY <1>5
<1> HIDE DEF k
<1>9. /\ v \in Str /\ LastIndex(v, "@") = Len(k) + 1
      /\ Before(v, Len(k) + 1) = k /\ After(v, Len(k) + 1) = d
  BY <1>4, <1>6, <1>8, Separated
<1>10. v[1] # "docker-pullable://"
  <2>1. <<"@">> \in Str
    BY <1>6, Single
  <2>2. <<"@">> \o d \in Str
    BY <1>4, <2>1, Joined
  <2>3. \A n \in 1..Len(k) : v[n] = k[n]
    BY <1>8, <2>2, Joined
  <2> HIDE DEF v
  <2> QED
    BY <1>8, <2>3
<1> HIDE DEF v
<1>11. TrimPrefix(prefix \o v, <<"docker-pullable://">>) = v
  <2>1. CASE prefix = <<>>
    <3>1. prefix \o v = v
      BY <1>9, <2>1, ConcatEmptySeq DEF Str
    <3> QED
      BY <1>9, <1>10, <3>1, Unprefixed
  <2>2. CASE prefix = <<"docker-pullable://">>
    BY <1>9, <2>2, Unprefixed
  <2> QED
    BY <2>1, <2>2
<1>12. Len(k) + 1 > 1
  BY <1>8
<1> QED
  BY <1>2, <1>3, <1>4, <1>7, <1>9, <1>11, <1>12 DEF of, k

-----------------------------------------------------------------------------
(* The description *)

\* SplitImageName of what SplitImage returned.
LEMMA Description ==
    ASSUME NEW spec, NEW imageID, NEW repo, NEW tag, NEW digest,
           SplitImage(spec, imageID) = [repo |-> repo, tag |-> tag, digest |-> digest]
    PROVE  Describe(spec, imageID) =
             [registry |-> SplitImageName(repo).registry, image |-> SplitImageName(repo).image,
              tag |-> tag, digest |-> digest]
BY DEF Describe

\* With no id resolved, the parts written come back.
LEMMA DescribesUnresolved ==
    ASSUME NEW r \in References
    PROVE  Describe(Written(r), <<>> \o Written(NoImage)) = Says(r, NoImage)
<1> DEFINE imageID == <<>> \o Written(NoImage)
           p == <<"docker-pullable://">>
<1>1. imageID = <<>>
  <2>1. \A s \in Str : s \o <<>> = s /\ <<>> \o s = s
    BY ConcatEmptySeq DEF Str
  <2>2. Written(NoImage) = ((<<>> \o <<>>) \o <<>>) \o <<>>
    BY DEF Written, NoImage
  <2> QED
    BY <2>1, <2>2, Nothing
<1> HIDE DEF imageID
<1>2. TrimPrefix(imageID, p) = <<>> /\ LastIndex(<<>>, "@") = 0
  <2>1. TrimPrefix(<<>>, p) = <<>>
    BY Nothing, Unprefixed
  <2>2. LastIndex(<<>>, "@") = 0
    BY Nothing, LastPosition
  <2> QED
    BY <1>1, <2>1, <2>2
<1>3. SplitImage(Written(r), imageID) = OwnParts(Written(r))
  BY <1>2, SplitInSteps
<1>4. SplitImage(Written(r), imageID) = [repo |-> Repo(r), tag |-> r.tag, digest |-> r.digest]
  BY <1>3, OwnPartsAreTheReference
<1>5. Describe(Written(r), imageID) =
        [registry |-> SplitImageName(Repo(r)).registry, image |-> SplitImageName(Repo(r)).image,
         tag |-> r.tag, digest |-> r.digest]
  BY <1>4, Description
<1>6. /\ SplitImageName(Repo(r)).registry = Named(r).registry
      /\ SplitImageName(Repo(r)).image = Named(r).image
  <2>1. r.path \in Str
    BY ReferenceParts, Grammar
  <2> QED
    BY <2>1, ReferenceParts, NameOfTheRepository
<1>7. Says(r, NoImage) = [registry |-> Named(r).registry, image |-> Named(r).image,
                          tag |-> r.tag, digest |-> r.digest]
  <2>1. NoImage.digest = <<>>
    BY DEF NoImage
  <2> QED
    BY <2>1 DEF Says
<1> QED
  BY <1>5, <1>6, <1>7 DEF imageID

\* With an id resolved for r, or for another image unless the code overlooks r's registry.
LEMMA DescribesResolved ==
    ASSUME NEW r \in References, NEW i \in References, NEW d \in ContentDigests,
           NEW prefix \in {<<>>, <<"docker-pullable://">>},
           r.registry # <<>> /\ r.digest = <<>> /\ ~Contains(r.registry \o r.path, ".")
              => Pulled(i, d) = Pulled(r, d)
    PROVE  Describe(Written(r), prefix \o Written(Pulled(i, d))) = Says(r, Pulled(i, d))
<1> DEFINE of == Pulled(i, d)
           imageID == prefix \o Written(of)
           id == TrimPrefix(imageID, <<"docker-pullable://">>)
           idAt == LastIndex(id, "@")
           own == OwnParts(Written(r))
           takes == ~Contains(Repo(r), "/") \/ ~Contains(Repo(r), ".")
           named(w) == [registry |-> Named(w).registry, image |-> Named(w).image,
                        tag |-> r.tag, digest |-> IF r.digest = <<>> THEN d ELSE r.digest]
<1>1. /\ r.registry \in Registries \/ r.registry = <<>>
      /\ r.path \in Paths /\ r.path \in Str
      /\ r.registry = <<>> /\ Contains(r.path, "/")
            => ~LooksLikeHost(Before(r.path, IndexByte(r.path, "/")))
  BY ReferenceParts, Grammar
<1>2. /\ of.registry \in Registries /\ of.registry # <<>> /\ of.path \in Str /\ of.digest = d
      /\ idAt > 1 /\ idAt # 0 /\ After(id, idAt) = d /\ Before(id, idAt) = Repo(of)
  <2>1. /\ of.registry \in Registries /\ of.path \in Str /\ of.digest = d
        /\ idAt > 1 /\ After(id, idAt) = d /\ Before(id, idAt) = Repo(of)
    BY IdParts
  <2>2. of.registry # <<>>
    BY <2>1, Grammar
  <2> HIDE DEF idAt
  <2>3. idAt # 0
    BY <2>1
  <2> QED
    BY <2>1, <2>2, <2>3
<1>3. own = [repo |-> Repo(r), tag |-> r.tag, digest |-> r.digest]
  BY OwnPartsAreTheReference
<1>4. SplitImage(Written(r), imageID) =
        IF own.digest # <<>> \/ idAt = 0 THEN own
        ELSE [own EXCEPT !.digest = After(id, idAt),
                         !.repo = IF (~Contains(own.repo, "/") \/ ~Contains(own.repo, "."))
                                     /\ idAt > 1 THEN Before(id, idAt) ELSE @]
  BY SplitInSteps
<1>5. /\ SplitImageName(Repo(r)).registry = Named(r).registry
      /\ SplitImageName(Repo(r)).image = Named(r).image
  BY <1>1, NameOfTheRepository
<1>6. /\ SplitImageName(Repo(of)).registry = Named(of).registry
      /\ SplitImageName(Repo(of)).image = Named(of).image
  BY <1>2, NameOfTheRepository
<1>7. of # NoImage
  BY <1>2 DEF NoImage
<1>8. Says(r, of) = named(IF r.digest = <<>> /\ r.registry = <<>>
                              /\ ~(Contains(r.path, "/") /\ Contains(r.path, "."))
                           THEN of ELSE r)
  BY <1>2, <1>7 DEF Says
<1> HIDE DEF of, imageID, id, idAt, own
<1>9. CASE r.digest # <<>>
  <2>1. SplitImage(Written(r), imageID) = [repo |-> Repo(r), tag |-> r.tag, digest |-> r.digest]
    BY <1>3, <1>4, <1>9
  <2>2. Describe(Written(r), imageID) = named(r)
    BY <1>5, <1>9, <2>1, Description
  <2> QED
    BY <1>8, <1>9, <2>2 DEF of, imageID
<1>10. CASE r.digest = <<>>
  <2>1. SplitImage(Written(r), imageID) =
           [repo |-> IF takes THEN Repo(of) ELSE Repo(r), tag |-> r.tag, digest |-> d]
    BY <1>2, <1>3, <1>4, <1>10
  <2>2. CASE takes
    <3>1. SplitImage(Written(r), imageID) = [repo |-> Repo(of), tag |-> r.tag, digest |-> d]
      BY <2>1, <2>2
    <3>2. Describe(Written(r), imageID) = named(of)
      BY <1>6, <1>10, <3>1, Description
    <3>3. CASE r.registry = <<>>
      <4>1. Repo(r) = r.path
        BY <1>1, <3>3, WithoutRegistry
      <4> QED
        BY <1>8, <1>10, <2>2, <3>2, <3>3, <4>1 DEF of, imageID
    <3>4. CASE r.registry # <<>>
      <4>1. \A x : Contains(Repo(r), x)
                     <=> Contains(r.registry, x) \/ x = "/" \/ Contains(r.path, x)
        BY <1>1, <3>4, WithRegistry
      <4>2. ~Contains(r.registry, ".") /\ ~Contains(r.path, ".")
        BY <2>2, <4>1
      <4>3. ~Contains(r.registry \o r.path, ".")
        <5>1. r.registry \in Str
          BY <1>1, <3>4, Grammar
        <5> QED
          BY <1>1, <4>2, <5>1, Joined
      <4>4. of = Pulled(r, d)
        BY <1>10, <3>4, <4>3 DEF of
      <4>5. r.registry # Hub
        <5>1. Contains(Hub, ".")
          <6>1. Hub[2] = "." /\ Len(Hub) = 3
            BY DEF Hub
          <6> QED
            BY <6>1 DEF Contains
        <5> QED
          BY <4>2, <5>1
      <4>6. of.registry = r.registry /\ of.path = r.path
        BY <3>4, <4>4, <4>5 DEF Pulled
      <4>7. Named(of) = Named(r)
        BY <4>6 DEF Named
      <4> QED
        BY <1>8, <3>2, <3>4, <4>7 DEF of, imageID
    <3> QED
      BY <3>3, <3>4
  <2>3. CASE ~takes
    <3>1. SplitImage(Written(r), imageID) = [repo |-> Repo(r), tag |-> r.tag, digest |-> d]
      BY <2>1, <2>3
    <3>2. Describe(Written(r), imageID) = named(r)
      BY <1>5, <1>10, <3>1, Description
    <3>3. ~(r.registry = <<>> /\ ~(Contains(r.path, "/") /\ Contains(r.path, ".")))
      BY <1>1, <2>3, WithoutRegistry
    <3> QED
      BY <1>8, <3>2, <3>3 DEF of, imageID
  <2> QED
    BY <2>2, <2>3
<1> QED
  BY <1>9, <1>10
===============================================================================
