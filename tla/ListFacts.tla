----------------------------- MODULE ListFacts -----------------------------
(***************************************************************************)
(* What the proofs need to know of lists: the places of a list after an    *)
(* element was put in or taken out, lists without repetition, and          *)
(* induction along the places.                                             *)
(***************************************************************************)
EXTENDS Integers, Sequences, FiniteSets, SequencesExt, FiniteSetTheorems, SequenceTheorems,
        TLAPS

\* The elements of a list.
Elems(s) == {s[i] : i \in 1..Len(s)}

\* No element is on the list twice.
Distinct(s) == \A i, j \in 1..Len(s) : s[i] = s[j] => i = j

\* The list r is s with t put in at place p.
Placed(r, s, p, t) ==
    /\ Len(r) = Len(s) + 1
    /\ r[p] = t
    /\ \A i \in 1..(Len(s) + 1) : i # p => r[i] = s[IF i < p THEN i ELSE i - 1]

\* The list r is s without the element at place k.
Without(r, s, k) ==
    /\ Len(r) = Len(s) - 1
    /\ \A i \in 1..(Len(s) - 1) : r[i] = s[IF i < k THEN i ELSE i + 1]

\* A list without repetition is as long as the set of its elements is large.
LEMMA DistinctCounts ==
    ASSUME NEW S, NEW s \in Seq(S), Distinct(s)
    PROVE  IsFiniteSet(Elems(s)) /\ Cardinality(Elems(s)) = Len(s)
<1>1. Len(s) \in Nat /\ s \in [1..Len(s) -> Elems(s)]
  BY LenProperties DEF Elems
<1>2. s \in Bijection(1..Len(s), Elems(s))
  <2>1. s \in Injection(1..Len(s), Elems(s))
    BY <1>1 DEF Distinct, Injection, IsInjective
  <2>2. s \in Surjection(1..Len(s), Elems(s))
    BY <1>1 DEF Elems, Surjection
  <2>3. QED
    BY <2>1, <2>2 DEF Bijection
<1>3. ExistsBijection(1..Len(s), Elems(s))
  BY <1>2 DEF ExistsBijection
<1>4. IsFiniteSet(1..Len(s)) /\ Cardinality(1..Len(s)) = Len(s)
  BY <1>1, FS_Interval
<1>5. QED
  BY <1>3, <1>4, FS_Bijection

\* A set of places that is not empty has a least member.
LEMMA MinFacts ==
    ASSUME NEW P \in SUBSET Nat, P # {}
    PROVE  Min(P) \in P /\ \A y \in P : Min(P) <= y
<1>1. PICK x \in P : \A y \in P : ~(y < x)
  <2>1. \A y, x \in Nat : y < x => <<y, x>> \in OpToRel(<, Nat)
    BY DEF OpToRel
  <2>2. \E x \in P : \A y \in P : <<y, x>> \notin OpToRel(<, Nat)
    BY NatLessThanWellFounded, WFMin
  <2>3. QED
    BY <2>1, <2>2, Zenon
<1>2. \A y \in P : x <= y
  BY <1>1
<1>3. QED
  BY <1>2 DEF Min

\* Induction up to n, for the set of the numbers that have a property.
LEMMA InductionTo ==
    ASSUME NEW n \in Nat, NEW P, 0 \in P, \A i \in 0..(n - 1) : i \in P => i + 1 \in P
    PROVE  \A i \in 0..n : i \in P
<1> DEFINE C == (0..n) \ P
<1>1. SUFFICES ASSUME C # {} PROVE FALSE
  OBVIOUS
<1>2. C \in SUBSET Nat
  OBVIOUS
<1> DEFINE m == Min(C)
<1>3. m \in C /\ \A y \in C : m <= y
  BY <1>1, <1>2, MinFacts
<1> HIDE DEF m
<1>4. m \in 0..n /\ m \notin P /\ m # 0
  BY <1>3
<1>5. m - 1 \in 0..(n - 1) /\ m - 1 \in 0..n /\ ~(m <= m - 1) /\ (m - 1) + 1 = m
  BY <1>4
<1>6. m - 1 \in P
  BY <1>3, <1>5
<1>7. QED
  BY <1>4, <1>5, <1>6

\* A list with the element at a place taken out.
LEMMA RemovedAt ==
    ASSUME NEW S, NEW s \in Seq(S), NEW k \in 1..Len(s)
    PROVE  RemoveAt(s, k) \in Seq(S) /\ Without(RemoveAt(s, k), s, k)
<1> DEFINE a == SubSeq(s, 1, k - 1)
           b == SubSeq(s, k + 1, Len(s))
<1>1. Len(s) \in Nat /\ \A i \in 1..Len(s) : s[i] \in S
  BY LenProperties, ElementOfSeq
<1>2. a \in Seq(S) /\ Len(a) = k - 1 /\ \A i \in 1..(k - 1) : a[i] = s[i]
  BY <1>1, SubSeqProperties
<1>3. b \in Seq(S) /\ Len(b) = Len(s) - k /\ \A i \in 1..(Len(s) - k) : b[i] = s[k + i]
  BY <1>1, SubSeqProperties
<1> HIDE DEF a, b
<1>4. /\ a \o b \in Seq(S) /\ Len(a \o b) = Len(s) - 1
      /\ \A i \in 1..(Len(s) - 1) : (a \o b)[i] = IF i <= k - 1 THEN a[i] ELSE b[i - (k - 1)]
  BY <1>1, <1>2, <1>3, ConcatProperties
<1>5. \A i \in 1..(Len(s) - 1) : (a \o b)[i] = s[IF i < k THEN i ELSE i + 1]
  <2>1. TAKE i \in 1..(Len(s) - 1)
  <2>2. CASE i < k
    BY <1>1, <1>2, <1>4, <2>2
  <2>3. CASE ~(i < k)
    <3>1. i - (k - 1) \in 1..(Len(s) - k) /\ k + (i - (k - 1)) = i + 1
      BY <1>1, <2>3
    <3>2. QED
      BY <1>1, <1>3, <1>4, <2>3, <3>1
  <2>4. QED
    BY <2>2, <2>3
<1>6. RemoveAt(s, k) = a \o b
  BY DEF RemoveAt, a, b
<1>7. QED
  BY <1>4, <1>5, <1>6 DEF Without

\* A list with an element put in at a place.
LEMMA InsertedAt ==
    ASSUME NEW S, NEW s \in Seq(S), NEW k \in 1..(Len(s) + 1), NEW t \in S
    PROVE  InsertAt(s, k, t) \in Seq(S) /\ Placed(InsertAt(s, k, t), s, k, t)
<1> DEFINE a == SubSeq(s, 1, k - 1)
           b == SubSeq(s, k, Len(s))
           c == a \o <<t>>
<1>1. Len(s) \in Nat /\ \A i \in 1..Len(s) : s[i] \in S
  BY LenProperties, ElementOfSeq
<1>2. a \in Seq(S) /\ Len(a) = k - 1 /\ \A i \in 1..(k - 1) : a[i] = s[i]
  BY <1>1, SubSeqProperties
<1>3. b \in Seq(S) /\ Len(b) = Len(s) - k + 1 /\ \A i \in 1..(Len(s) - k + 1) : b[i] = s[k + i - 1]
  BY <1>1, SubSeqProperties
<1> HIDE DEF a, b
<1>4. <<t>> \in Seq(S) /\ Len(<<t>>) = 1 /\ <<t>>[1] = t
  OBVIOUS
<1>5. /\ c \in Seq(S) /\ Len(c) = k /\ c[k] = t
      /\ \A i \in 1..(k - 1) : c[i] = s[i]
  <2>1. Len(a) + Len(<<t>>) = k
    BY <1>1, <1>2, <1>4
  <2>2. /\ c \in Seq(S) /\ Len(c) = k
        /\ \A i \in 1..k : c[i] = IF i <= Len(a) THEN a[i] ELSE <<t>>[i - Len(a)]
    BY <1>2, <1>4, <2>1, ConcatProperties
  <2> HIDE DEF c
  <2>3. k - Len(a) = 1 /\ k \in 1..k /\ ~(k <= Len(a))
    BY <1>1, <1>2
  <2>4. c[k] = t
    BY <1>4, <2>2, <2>3
  <2>5. \A i \in 1..(k - 1) : c[i] = s[i]
    BY <1>1, <1>2, <2>2
  <2>6. QED
    BY <2>2, <2>4, <2>5
<1> HIDE DEF c
<1>6. /\ c \o b \in Seq(S) /\ Len(c \o b) = Len(s) + 1
      /\ \A i \in 1..(Len(s) + 1) : (c \o b)[i] = IF i <= k THEN c[i] ELSE b[i - k]
  <2>1. Len(c) + Len(b) = Len(s) + 1
    BY <1>1, <1>3, <1>5
  <2>2. QED
    <3>1. /\ c \o b \in Seq(S) /\ Len(c \o b) = Len(c) + Len(b)
          /\ \A i \in 1..(Len(c) + Len(b)) :
               (c \o b)[i] = IF i <= Len(c) THEN c[i] ELSE b[i - Len(c)]
      BY <1>3, <1>5, ConcatProperties
    <3>2. QED
      BY <1>5, <2>1, <3>1
<1>7. ASSUME NEW i \in 1..(Len(s) + 1), i # k
      PROVE  (c \o b)[i] = s[IF i < k THEN i ELSE i - 1]
  <2>1. CASE i < k
    BY <1>1, <1>5, <1>6, <2>1
  <2>2. CASE ~(i < k)
    <3>1. i - k \in 1..(Len(s) - k + 1) /\ k + (i - k) - 1 = i - 1
      BY <1>1, <1>7, <2>2
    <3>2. QED
      BY <1>1, <1>3, <1>6, <1>7, <2>2, <3>1
  <2>3. QED
    BY <2>1, <2>2
<1>8. InsertAt(s, k, t) = c \o b
  BY DEF InsertAt, a, b, c
<1>9. (c \o b)[k] = t
  BY <1>1, <1>5, <1>6
<1>10. QED
  BY <1>6, <1>7, <1>8, <1>9 DEF Placed

\* RemoveFirst takes out one place that holds the element, if there is one.
LEMMA RemovedFirst ==
    ASSUME NEW S, NEW s \in Seq(S), NEW t, t \in Elems(s)
    PROVE  \E k \in 1..Len(s) :
             s[k] = t /\ RemoveFirst(s, t) \in Seq(S) /\ Without(RemoveFirst(s, t), s, k)
<1> DEFINE P == {i \in 1..Len(s) : s[i] = t}
           k == Min(P)
<1>1. k \in 1..Len(s) /\ s[k] = t
  <2>1. P \in SUBSET Nat /\ P # {}
    BY LenProperties DEF Elems
  <2>2. k \in P
    BY <2>1, MinFacts
  <2>3. QED
    BY <2>2
<1>2. RemoveFirst(s, t) = RemoveAt(s, k)
  BY DEF RemoveFirst, SelectInSeq, Elems
<1> HIDE DEF k
<1>3. QED
  BY <1>1, <1>2, RemovedAt

\* The function g on 0..n begins with x and goes from each value to the next by F.
Recurs(g, n, S, x, F) ==
    g \in [0..n -> S] /\ g[0] = x /\ \A i \in 1..n : g[i] = F[<<i, g[i - 1]>>]

\* There is a function with a given beginning and step.
LEMMA Recursion ==
    ASSUME NEW n \in Nat, NEW S, NEW x \in S, NEW F \in [(1..n) \X S -> S]
    PROVE  \E g : Recurs(g, n, S, x, F)
<1> DEFINE Fits(m, g) == g[0] = x /\ \A i \in 1..m : g[i] = F[<<i, g[i - 1]>>]
           P == {m \in 0..n : \E g \in [0..m -> S] : Fits(m, g)}
<1>1. 0 \in P
  <2> DEFINE g == [i \in 0..0 |-> x]
  <2>1. g \in [0..0 -> S] /\ Fits(0, g)
    OBVIOUS
  <2> HIDE DEF g, Fits
  <2>2. 0 \in 0..n
    OBVIOUS
  <2>3. QED
    BY <2>1, <2>2
<1>2. ASSUME NEW m \in 0..(n - 1), m \in P PROVE m + 1 \in P
  <2>1. PICK g \in [0..m -> S] : Fits(m, g)
    BY <1>2
  <2>2. m \in Nat /\ m \in 0..m /\ m + 1 \in 1..n /\ m + 1 \in 0..n
    OBVIOUS
  <2> DEFINE y == F[<<m + 1, g[m]>>]
             h == [i \in 0..(m + 1) |-> IF i = m + 1 THEN y ELSE g[i]]
  <2>3. y \in S
    BY <2>2
  <2> HIDE DEF y
  <2>4. h \in [0..(m + 1) -> S]
    BY <2>2, <2>3
  <2>5. h[m + 1] = y /\ \A i \in 0..m : h[i] = g[i]
    BY <2>2
  <2> HIDE DEF h
  <2>6. Fits(m + 1, h)
    <3>1. h[0] = x
      BY <2>1, <2>2, <2>5
    <3>2. ASSUME NEW i \in 1..(m + 1) PROVE h[i] = F[<<i, h[i - 1]>>]
      <4>1. CASE i = m + 1
        <5>1. i - 1 = m /\ h[i - 1] = g[m]
          BY <2>2, <2>5, <4>1
        <5>2. QED
          BY <2>5, <4>1, <5>1 DEF y
      <4>2. CASE i # m + 1
        <5>1. i \in 1..m /\ i \in 0..m /\ i - 1 \in 0..m
          BY <2>2, <4>2
        <5>2. QED
          BY <2>1, <2>5, <5>1
      <4>3. QED
        BY <4>1, <4>2
    <3>3. QED
      BY <3>1, <3>2
  <2> HIDE DEF Fits
  <2>7. QED
    BY <2>2, <2>4, <2>6
<1>3. \A m \in 0..n : m \in P
  <2>1. \A m \in 0..(n - 1) : m \in P => m + 1 \in P
    BY <1>2
  <2> HIDE DEF P
  <2>2. QED
    BY <1>1, <2>1, InductionTo
<1>4. PICK g \in [0..n -> S] : Fits(n, g)
  BY <1>3
<1>5. Recurs(g, n, S, x, F)
  BY <1>4 DEF Recurs
<1>6. QED
  BY <1>5
=============================================================================
