------------------------- MODULE SubsequencesProofs -------------------------
(***************************************************************************)
(* What the proofs about waiting lines need to know of sequences: who is   *)
(* in a line, and in it once, after somebody joins it, is served, or is    *)
(* taken out of it.                                                        *)
(***************************************************************************)
EXTENDS Subsequences, FiniteSetTheorems, FunctionTheorems, SequenceTheorems, TLAPS

\* A finite set of numbers is enumerated by Nth: every rank belongs to one of
\* them, and different ranks to different ones.
LEMMA NthEnumerates ==
    ASSUME NEW I \in SUBSET Nat, IsFiniteSet(I)
    PROVE  /\ Cardinality(I) \in Nat
           /\ \A k \in 1 .. Cardinality(I) : Nth(I, k) \in I
           /\ \A k, l \in 1 .. Cardinality(I) : Nth(I, k) = Nth(I, l) => k = l
           /\ \A i \in I : \E k \in 1 .. Cardinality(I) : Nth(I, k) = i
<1> DEFINE Below(i) == {j \in I : j <= i}
           Rank(i) == Cardinality(Below(i))
           rank == [i \in I |-> Rank(i)]
           N == Cardinality(I)
<1>1. N \in Nat
  BY FS_CardinalityType
<1>2. \A i \in I : IsFiniteSet(Below(i)) /\ Rank(i) \in 1 .. N
  <2> TAKE i \in I
  <2>1. Below(i) \in SUBSET I /\ i \in Below(i)
    OBVIOUS
  <2>2. IsFiniteSet(Below(i)) /\ Rank(i) <= N
    BY <2>1, FS_Subset
  <2>3. Rank(i) \in Nat
    BY <2>2, FS_CardinalityType
  <2>4. Rank(i) # 0
    BY <2>1, <2>2, FS_EmptySet
  <2> QED
    BY <1>1, <2>2, <2>3, <2>4
<1>3. ASSUME NEW i \in I, NEW j \in I, i < j PROVE Rank(i) # Rank(j)
  <2>1. i \in Nat /\ j \in Nat /\ \A k \in I : k \in Nat
    OBVIOUS
  <2>2. Below(i) \subseteq Below(j) /\ j \in Below(j) /\ j \notin Below(i)
    <3>1. \A k \in I : k <= i => k <= j
      BY <1>3, <2>1
    <3>2. j <= j /\ ~(j <= i)
      BY <1>3, <2>1
    <3> QED
      BY <3>1, <3>2
  <2> QED
    BY <1>2, <2>2, FS_Subset
<1>4. rank \in Injection(I, 1 .. N)
  <2> SUFFICES ASSUME NEW i \in I, NEW j \in I, Rank(i) = Rank(j) PROVE i = j
    BY <1>2 DEF Injection, IsInjective
  <2> QED
    BY <1>3
<1>5. IsFiniteSet(1 .. N) /\ Cardinality(1 .. N) = N
  BY <1>1, FS_Interval
<1>6. rank \in Surjection(I, 1 .. N)
  BY <1>4, <1>5, FS_Injection
<1>7. ASSUME NEW k \in 1 .. N PROVE Nth(I, k) \in I /\ Rank(Nth(I, k)) = k
  <2>1. \E i \in I : Rank(i) = k
    BY <1>6 DEF Surjection
  <2> QED
    BY <2>1 DEF Nth
<1>8. ASSUME NEW i \in I PROVE \E k \in 1 .. N : Nth(I, k) = i
  <2>1. Rank(i) \in 1 .. N
    BY <1>2
  <2>2. Nth(I, Rank(i)) \in I /\ Rank(Nth(I, Rank(i))) = Rank(i)
    BY <1>7, <2>1
  <2>3. Nth(I, Rank(i)) = i
    <3> DEFINE j == Nth(I, Rank(i))
    <3>1. j \in I /\ Rank(j) = Rank(i) /\ i \in Nat /\ j \in Nat
      BY <2>2
    <3>2. ~(i < j) /\ ~(j < i)
      BY <1>3, <3>1
    <3> QED
      BY <3>1, <3>2
  <2> QED
    BY <2>1, <2>3
<1> QED
  BY <1>1, <1>7, <1>8

\* Only keeps those of S, all of them and nobody twice.
LEMMA OnlyProperties ==
    ASSUME NEW A, NEW s \in Seq(A), Distinct(s), NEW S
    PROVE  /\ Only(s, S) \in Seq(A)
           /\ Elements(Only(s, S)) = Elements(s) \cap S
           /\ Distinct(Only(s, S))
<1> DEFINE I == Positions(s, S)
<1>1. I \in SUBSET Nat /\ I \subseteq 1 .. Len(s) /\ IsFiniteSet(I)
  <2>1. I \in SUBSET (1 .. Len(s)) /\ Len(s) \in Nat
    BY DEF Positions
  <2>2. IsFiniteSet(1 .. Len(s))
    BY <2>1, FS_Interval
  <2>3. IsFiniteSet(I)
    BY <2>1, <2>2, FS_Subset
  <2> QED
    BY <2>1, <2>3
<1>2. /\ Cardinality(I) \in Nat
      /\ \A k \in 1 .. Cardinality(I) : Nth(I, k) \in I
      /\ \A k, l \in 1 .. Cardinality(I) : Nth(I, k) = Nth(I, l) => k = l
      /\ \A i \in I : \E k \in 1 .. Cardinality(I) : Nth(I, k) = i
  <2> HIDE DEF I
  <2> QED
    BY <1>1, NthEnumerates
<1> DEFINE t == [k \in 1 .. Cardinality(I) |-> s[Nth(I, k)]]
<1>3. t = Only(s, S)
  BY DEF Only
<1>4. \A i \in I : i \in DOMAIN s /\ s[i] \in S /\ s[i] \in A
  BY <1>1 DEF Positions
<1>5. t \in Seq(A) /\ DOMAIN t = 1 .. Cardinality(I)
  BY <1>2, <1>4, IsASeq
<1>6. Distinct(t)
  BY <1>2, <1>4, <1>5 DEF Distinct
<1>7. Elements(t) = Elements(s) \cap S
  <2>1. ASSUME NEW x \in Elements(t) PROVE x \in Elements(s) \cap S
    BY <1>2, <1>4, <2>1 DEF Elements
  <2>2. ASSUME NEW x \in Elements(s), x \in S PROVE x \in Elements(t)
    <3>1. PICK i \in DOMAIN s : s[i] = x
      BY DEF Elements
    <3>2. i \in I
      BY <3>1, <2>2 DEF Positions
    <3>3. PICK k \in 1 .. Cardinality(I) : Nth(I, k) = i
      BY <1>2, <3>2
    <3> QED
      BY <3>1, <3>3 DEF Elements
  <2> QED
    BY <2>1, <2>2
<1> QED
  BY <1>3, <1>5, <1>6, <1>7

\* The first of a line is in it, and in what follows it no more.
LEMMA HeadTailElements ==
    ASSUME NEW A, NEW s \in Seq(A), s # <<>>
    PROVE  /\ Head(s) \in A /\ Tail(s) \in Seq(A)
           /\ Elements(s) = {Head(s)} \cup Elements(Tail(s))
           /\ Distinct(s) => Head(s) \notin Elements(Tail(s)) /\ Distinct(Tail(s))
<1>1. /\ Len(s) \in Nat \ {0} /\ DOMAIN s = 1 .. Len(s)
      /\ Tail(s) \in Seq(A) /\ DOMAIN Tail(s) = 1 .. Len(s) - 1
      /\ \A i \in 1 .. Len(s) - 1 : Tail(s)[i] = s[i + 1]
      /\ Head(s) = s[1] /\ Head(s) \in A
  OBVIOUS
<1>2. Elements(s) = {Head(s)} \cup Elements(Tail(s))
  <2>1. ASSUME NEW i \in DOMAIN s PROVE s[i] \in {Head(s)} \cup Elements(Tail(s))
    <3>1. CASE i = 1
      BY <1>1, <3>1
    <3>2. CASE i # 1
      <4>1. i - 1 \in DOMAIN Tail(s) /\ Tail(s)[i - 1] = s[i]
        BY <1>1, <3>2
      <4> QED
        BY <4>1 DEF Elements
    <3> QED
      BY <3>1, <3>2
  <2>2. ASSUME NEW i \in DOMAIN Tail(s) PROVE Tail(s)[i] \in Elements(s)
    <3>1. i + 1 \in DOMAIN s /\ Tail(s)[i] = s[i + 1]
      BY <1>1
    <3> QED
      BY <3>1 DEF Elements
  <2>3. Head(s) \in Elements(s)
    BY <1>1 DEF Elements
  <2> QED
    BY <2>1, <2>2, <2>3 DEF Elements
<1>3. ASSUME Distinct(s) PROVE Head(s) \notin Elements(Tail(s)) /\ Distinct(Tail(s))
  BY <1>1, <1>3 DEF Distinct, Elements
<1> QED
  BY <1>1, <1>2, <1>3

\* Two lines, one behind the other.
LEMMA ConcatElements ==
    ASSUME NEW A, NEW s \in Seq(A), NEW t \in Seq(A)
    PROVE  /\ s \o t \in Seq(A)
           /\ Elements(s \o t) = Elements(s) \cup Elements(t)
           /\ Distinct(s) /\ Distinct(t) /\ Elements(s) \cap Elements(t) = {}
                => Distinct(s \o t)
<1>1. /\ Len(s) \in Nat /\ Len(t) \in Nat
      /\ DOMAIN s = 1 .. Len(s) /\ DOMAIN t = 1 .. Len(t)
      /\ s \o t \in Seq(A) /\ DOMAIN (s \o t) = 1 .. Len(s) + Len(t)
      /\ \A i \in 1 .. Len(s) : (s \o t)[i] = s[i]
      /\ \A i \in Len(s) + 1 .. Len(s) + Len(t) : (s \o t)[i] = t[i - Len(s)]
  BY ConcatProperties
<1>2. ASSUME NEW i \in DOMAIN (s \o t)
      PROVE  (s \o t)[i] \in Elements(s) \cup Elements(t)
  BY <1>1 DEF Elements
<1>3. ASSUME NEW i \in DOMAIN s PROVE s[i] \in Elements(s \o t)
  <2>1. i \in DOMAIN (s \o t) /\ (s \o t)[i] = s[i]
    BY <1>1
  <2> QED
    BY <2>1 DEF Elements
<1>4. ASSUME NEW i \in DOMAIN t PROVE t[i] \in Elements(s \o t)
  <2>1. i + Len(s) \in DOMAIN (s \o t) /\ (s \o t)[i + Len(s)] = t[i]
    BY <1>1
  <2> QED
    BY <2>1 DEF Elements
<1>5. Elements(s \o t) = Elements(s) \cup Elements(t)
  BY <1>2, <1>3, <1>4 DEF Elements
<1>6. ASSUME Distinct(s), Distinct(t), Elements(s) \cap Elements(t) = {}
      PROVE  Distinct(s \o t)
  <2> SUFFICES ASSUME NEW i \in DOMAIN (s \o t), NEW j \in DOMAIN (s \o t),
                      (s \o t)[i] = (s \o t)[j], i <= j
               PROVE  i = j
    BY <1>1 DEF Distinct
  <2>1. CASE j <= Len(s)
    BY <1>1, <1>6, <2>1 DEF Distinct
  <2>2. CASE i > Len(s)
    <3>1. i - Len(s) \in DOMAIN t /\ j - Len(s) \in DOMAIN t
      BY <1>1, <2>2
    <3>2. t[i - Len(s)] = t[j - Len(s)]
      BY <1>1, <2>2
    <3> QED
      BY <1>1, <1>6, <3>1, <3>2 DEF Distinct
  <2>3. CASE i <= Len(s) /\ j > Len(s)
    <3>1. i \in DOMAIN s /\ j - Len(s) \in DOMAIN t /\ s[i] = t[j - Len(s)]
      BY <1>1, <2>3
    <3> QED
      BY <1>6, <3>1 DEF Elements
  <2> QED
    BY <1>1, <2>1, <2>2, <2>3
<1> QED
  BY <1>1, <1>5, <1>6

\* Somebody joins a line.
LEMMA SingleElements ==
    ASSUME NEW A, NEW a \in A
    PROVE  <<a>> \in Seq(A) /\ Elements(<<a>>) = {a} /\ Distinct(<<a>>)
  BY DEF Elements, Distinct

\* A line is cut in two: everybody is in one part, nobody in both.
LEMMA SubSeqElements ==
    ASSUME NEW A, NEW s \in Seq(A), NEW n \in 0 .. Len(s)
    PROVE  LET f == SubSeq(s, 1, n)
               r == SubSeq(s, n + 1, Len(s))
           IN  /\ f \in Seq(A) /\ r \in Seq(A)
               /\ Elements(s) = Elements(f) \cup Elements(r)
               /\ Distinct(s) => /\ Distinct(f) /\ Distinct(r)
                                 /\ Elements(f) \cap Elements(r) = {}
<1> DEFINE f == SubSeq(s, 1, n)
           r == SubSeq(s, n + 1, Len(s))
<1>1. /\ Len(s) \in Nat /\ DOMAIN s = 1 .. Len(s)
      /\ f \in Seq(A) /\ DOMAIN f = 1 .. n /\ \A i \in 1 .. n : f[i] = s[i]
      /\ r \in Seq(A) /\ DOMAIN r = 1 .. Len(s) - n
      /\ \A i \in 1 .. Len(s) - n : r[i] = s[n + i]
  BY SubSeqProperties
<1> HIDE DEF f, r
<1>2. ASSUME NEW i \in DOMAIN s PROVE s[i] \in Elements(f) \cup Elements(r)
  <2>1. CASE i <= n
    BY <1>1, <2>1 DEF Elements
  <2>2. CASE i > n
    <3>1. i - n \in DOMAIN r /\ r[i - n] = s[i]
      BY <1>1, <2>2
    <3> QED
      BY <3>1 DEF Elements
  <2> QED
    BY <1>1, <2>1, <2>2
<1>3. Elements(f) \subseteq Elements(s) /\ Elements(r) \subseteq Elements(s)
  <2>1. ASSUME NEW i \in DOMAIN f PROVE f[i] \in Elements(s)
    BY <1>1 DEF Elements
  <2>2. ASSUME NEW i \in DOMAIN r PROVE r[i] \in Elements(s)
    <3>1. n + i \in DOMAIN s /\ r[i] = s[n + i]
      BY <1>1
    <3> QED
      BY <3>1 DEF Elements
  <2> QED
    BY <2>1, <2>2 DEF Elements
<1>4. ASSUME Distinct(s)
      PROVE  Distinct(f) /\ Distinct(r) /\ Elements(f) \cap Elements(r) = {}
  <2>1. Distinct(f)
    BY <1>1, <1>4 DEF Distinct
  <2>2. Distinct(r)
    <3> SUFFICES ASSUME NEW i \in DOMAIN r, NEW j \in DOMAIN r, r[i] = r[j]
                 PROVE  i = j
      BY DEF Distinct
    <3>1. n + i \in DOMAIN s /\ n + j \in DOMAIN s /\ s[n + i] = s[n + j]
      BY <1>1
    <3>2. n + i = n + j
      BY <1>4, <3>1 DEF Distinct
    <3> QED
      BY <1>1, <3>2
  <2>3. ASSUME NEW i \in DOMAIN f, NEW j \in DOMAIN r PROVE f[i] # r[j]
    <3>1. i \in DOMAIN s /\ n + j \in DOMAIN s /\ i # n + j
      BY <1>1
    <3> QED
      BY <1>1, <1>4, <3>1 DEF Distinct
  <2> QED
    BY <2>1, <2>2, <2>3 DEF Elements
<1>5. Elements(s) = Elements(f) \cup Elements(r)
  BY <1>2, <1>3 DEF Elements
<1> QED
  BY <1>1, <1>4, <1>5 DEF f, r
=============================================================================
