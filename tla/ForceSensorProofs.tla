------------------------- MODULE ForceSensorProofs -------------------------
(***************************************************************************)
(* Proofs about the force sensor, for any samples, any number of reads and *)
(* of calibrations: the bubble sort finds the median, the rings hold the   *)
(* last five samples and medians, so that a read returns what the filter   *)
(* is meant to compute, and the statistics agree with the panel.           *)
(***************************************************************************)
EXTENDS ForceSensor, ListFacts

-----------------------------------------------------------------------------
(* Arrangements *)

\* f and g lead from S to T and back.
Mutual(f, g, S, T) ==
    /\ f \in [S -> T] /\ g \in [T -> S]
    /\ \A i \in S : g[f[i]] = i
    /\ \A k \in T : f[g[k]] = k

\* b has on S the values that a has on T, each as often.
Arranged(b, a, S, T) == \E f, g : Mutual(f, g, S, T) /\ \A i \in S : b[i] = a[f[i]]

\* Values keep as they are arranged again.
LEMMA ArrangedTwice ==
    ASSUME NEW S, NEW T, NEW U, NEW a, NEW b, NEW c, Arranged(c, b, S, T), Arranged(b, a, T, U)
    PROVE  Arranged(c, a, S, U)
<1>1. PICK f, g : Mutual(f, g, S, T) /\ \A i \in S : c[i] = b[f[i]]
  BY DEF Arranged
<1>2. PICK h, k : Mutual(h, k, T, U) /\ \A i \in T : b[i] = a[h[i]]
  BY DEF Arranged
<1> DEFINE x == [i \in S |-> h[f[i]]]
           y == [i \in U |-> g[k[i]]]
<1>3. \A i \in S : f[i] \in T /\ h[f[i]] \in U /\ g[f[i]] = i /\ k[h[f[i]]] = f[i]
  BY <1>1, <1>2 DEF Mutual
<1>4. \A i \in U : k[i] \in T /\ g[k[i]] \in S /\ h[k[i]] = i /\ f[g[k[i]]] = k[i]
  BY <1>1, <1>2 DEF Mutual
<1>5. Mutual(x, y, S, U)
  BY <1>3, <1>4 DEF Mutual
<1>6. \A i \in S : c[i] = a[x[i]]
  BY <1>1, <1>2, <1>3
<1> HIDE DEF x, y
<1>7. QED
  BY <1>5, <1>6 DEF Arranged

\* How many values of a on S are in V.
HowMany(a, S, V) == Cardinality({i \in S : a[i] \in V})

\* As many values satisfy a condition, given by the set that they are in.
LEMMA ArrangedCounts ==
    ASSUME NEW S, NEW T, NEW a, NEW b, NEW V, IsFiniteSet(S), Arranged(b, a, S, T)
    PROVE  IsFiniteSet(T) /\ HowMany(a, T, V) = HowMany(b, S, V)
<1>1. PICK f, g : Mutual(f, g, S, T) /\ \A i \in S : b[i] = a[f[i]]
  BY DEF Arranged
<1> DEFINE A == {i \in S : b[i] \in V}
           B == {k \in T : a[k] \in V}
<1>2. ASSUME NEW X \in SUBSET S, NEW Y \in SUBSET T,
             \A i \in X : f[i] \in Y, \A k \in Y : g[k] \in X
      PROVE  ExistsBijection(X, Y)
  <2> DEFINE e == [i \in X |-> f[i]]
  <2>1. e \in [X -> Y]
    BY <1>2
  <2>2. \A i, j \in X : e[i] = e[j] => i = j
    BY <1>1 DEF Mutual
  <2>3. \A k \in Y : \E i \in X : e[i] = k
    <3>1. TAKE k \in Y
    <3>2. g[k] \in X /\ e[g[k]] = k
      BY <1>1, <1>2 DEF Mutual
    <3> HIDE DEF e
    <3>3. QED
      BY <3>2
  <2> HIDE DEF e
  <2>4. e \in Bijection(X, Y)
    BY <2>1, <2>2, <2>3 DEF Bijection, Injection, Surjection, IsInjective
  <2>5. QED
    BY <2>4 DEF ExistsBijection
<1>3. ExistsBijection(S, T)
  BY <1>1, <1>2 DEF Mutual
<1>4. ExistsBijection(A, B)
  <2>1. A \in SUBSET S /\ B \in SUBSET T
    OBVIOUS
  <2>2. \A i \in A : f[i] \in B
    BY <1>1 DEF Mutual
  <2>3. ASSUME NEW k \in B PROVE g[k] \in A
    <3>1. g[k] \in S /\ f[g[k]] = k
      BY <1>1 DEF Mutual
    <3>2. b[g[k]] = a[k]
      BY <1>1, <3>1
    <3>3. QED
      BY <3>1, <3>2
  <2> HIDE DEF A, B
  <2>4. QED
    BY <1>2, <2>1, <2>2, <2>3
<1>5. IsFiniteSet(A)
  BY FS_Subset
<1>6. QED
  BY <1>3, <1>4, <1>5, FS_Bijection DEF HowMany

-----------------------------------------------------------------------------
(* The bubble sort *)

\* A comparison exchanges two neighbours or nothing.
LEMMA SwappedFacts ==
    ASSUME NEW n \in Nat, NEW a \in [1..n -> Int], NEW j \in 1..(n - 1)
    PROVE  LET r == Swapped(a, j)
           IN  /\ r \in [1..n -> Int] /\ Arranged(r, a, 1..n, 1..n)
               /\ \A i \in 1..n : i # j /\ i # j + 1 => r[i] = a[i]
               /\ \/ r[j] = a[j] /\ r[j + 1] = a[j + 1]
                  \/ r[j] = a[j + 1] /\ r[j + 1] = a[j]
               /\ r[j] <= r[j + 1]
<1> DEFINE r == Swapped(a, j)
<1>1. j \in 1..n /\ j + 1 \in 1..n /\ j # j + 1 /\ a[j] \in Int /\ a[j + 1] \in Int
  OBVIOUS
<1>2. CASE a[j] > a[j + 1]
  <2>1. r = [a EXCEPT ![j] = a[j + 1], ![j + 1] = a[j]]
    BY <1>2 DEF Swapped
  <2> HIDE DEF r
  <2>2. /\ r \in [1..n -> Int] /\ r[j] = a[j + 1] /\ r[j + 1] = a[j]
        /\ \A i \in 1..n : i # j /\ i # j + 1 => r[i] = a[i]
    BY <1>1, <2>1
  <2> DEFINE f == [i \in 1..n |-> IF i = j THEN j + 1 ELSE IF i = j + 1 THEN j ELSE i]
  <2>3. Mutual(f, f, 1..n, 1..n)
    BY <1>1 DEF Mutual
  <2>4. \A i \in 1..n : r[i] = a[f[i]]
    BY <1>1, <2>2
  <2> HIDE DEF f
  <2>5. Arranged(r, a, 1..n, 1..n)
    BY <2>3, <2>4 DEF Arranged
  <2>6. r[j] <= r[j + 1]
    BY <1>1, <1>2, <2>2
  <2>7. QED
    BY <2>2, <2>5, <2>6 DEF r
<1>3. CASE ~(a[j] > a[j + 1])
  <2>1. r = a
    BY <1>3 DEF Swapped
  <2> DEFINE f == [i \in 1..n |-> i]
  <2>2. Mutual(f, f, 1..n, 1..n) /\ \A i \in 1..n : a[i] = a[f[i]]
    BY DEF Mutual
  <2> HIDE DEF f
  <2>3. Arranged(a, a, 1..n, 1..n)
    BY <2>2 DEF Arranged
  <2>4. a[j] <= a[j + 1]
    BY <1>1, <1>3
  <2> HIDE DEF r
  <2>5. QED
    BY <2>1, <2>3, <2>4 DEF r
<1>4. QED
  BY <1>2, <1>3

\* The values r after j comparisons of a pass over a: the largest of the first j + 1 has
\* come to their end, and the rest is as it was.
Bubbled(r, a, n, j) ==
    /\ r \in [1..n -> Int] /\ Arranged(r, a, 1..n, 1..n)
    /\ \A i \in 1..(j + 1) : r[i] <= r[j + 1]
    /\ \A i \in 1..(j + 1) : \E k \in 1..(j + 1) : r[i] = a[k]
    /\ \A i \in 1..n : i > j + 1 => r[i] = a[i]

\* One comparison more.
LEMMA BubbledMore ==
    ASSUME NEW n \in Nat, NEW a \in [1..n -> Int], NEW j \in 1..(n - 1), NEW s,
           Bubbled(s, a, n, j - 1)
    PROVE  Bubbled(Swapped(s, j), a, n, j)
<1> DEFINE r == Swapped(s, j)
<1>1. /\ s \in [1..n -> Int] /\ Arranged(s, a, 1..n, 1..n)
      /\ \A i \in 1..j : s[i] <= s[j]
      /\ \A i \in 1..j : \E k \in 1..j : s[i] = a[k]
      /\ \A i \in 1..n : i > j => s[i] = a[i]
  <2>1. (j - 1) + 1 = j
    OBVIOUS
  <2>2. QED
    BY <2>1 DEF Bubbled
<1>2. /\ r \in [1..n -> Int] /\ Arranged(r, s, 1..n, 1..n)
      /\ \A i \in 1..n : i # j /\ i # j + 1 => r[i] = s[i]
      /\ \/ r[j] = s[j] /\ r[j + 1] = s[j + 1]
         \/ r[j] = s[j + 1] /\ r[j + 1] = s[j]
      /\ r[j] <= r[j + 1]
  BY <1>1, SwappedFacts
<1> HIDE DEF r
<1>3. j \in 1..n /\ j + 1 \in 1..n /\ \A i \in 1..(j + 1) : i \in 1..n
  OBVIOUS
<1>4. Arranged(r, a, 1..n, 1..n)
  BY <1>1, <1>2, ArrangedTwice
<1>5. ASSUME NEW i \in 1..(j + 1) PROVE r[i] <= r[j + 1]
  <2>1. CASE i = j + 1
    BY <1>2, <1>3, <2>1
  <2>2. CASE i = j
    BY <1>2, <2>2
  <2>3. CASE i # j /\ i # j + 1
    <3>1. i \in 1..j /\ i \in 1..n
      BY <2>3
    <3>2. r[i] = s[i] /\ s[i] <= s[j] /\ s[i] \in Int /\ s[j] \in Int
      BY <1>1, <1>2, <1>3, <2>3, <3>1
    <3>3. s[j] <= r[j + 1]
      BY <1>1, <1>2, <1>3
    <3>4. r[j + 1] \in Int
      BY <1>2, <1>3
    <3>5. QED
      BY <3>2, <3>3, <3>4
  <2>4. QED
    BY <2>1, <2>2, <2>3
<1>6. ASSUME NEW i \in 1..(j + 1) PROVE \E k \in 1..(j + 1) : r[i] = a[k]
  <2>1. \A m \in 1..(j + 1) : \E k \in 1..(j + 1) : s[m] = a[k]
    <3>1. TAKE m \in 1..(j + 1)
    <3>2. CASE m = j + 1
      <4>1. s[m] = a[m]
        BY <1>1, <1>3, <3>2
      <4>2. QED
        BY <4>1
    <3>3. CASE m # j + 1
      <4>1. m \in 1..j
        BY <3>3
      <4>2. PICK k \in 1..j : s[m] = a[k]
        BY <1>1, <4>1
      <4>3. k \in 1..(j + 1)
        OBVIOUS
      <4>4. QED
        BY <4>2, <4>3
    <3>4. QED
      BY <3>2, <3>3
  <2>2. j \in 1..(j + 1) /\ j + 1 \in 1..(j + 1) /\ i \in 1..n
    OBVIOUS
  <2>3. r[i] = s[i] \/ r[i] = s[j] \/ r[i] = s[j + 1]
    BY <1>2, <2>2
  <2>4. QED
    BY <2>1, <2>2, <2>3
<1>7. \A i \in 1..n : i > j + 1 => r[i] = a[i]
  BY <1>1, <1>2
<1>8. QED
  BY <1>2, <1>4, <1>5, <1>6, <1>7 DEF Bubbled, r

\* A pass of m comparisons.
LEMMA PassFacts ==
    ASSUME NEW n \in Nat \ {0}, NEW a \in [1..n -> Int], NEW m \in 0..(n - 1)
    PROVE  Bubbled(Pass(a, m), a, n, m)
<1> DEFINE S == [1..n -> Int]
           F == [e \in (1..m) \X S |-> Swapped(e[2], e[1])]
           p == CHOOSE q : q = [j \in 0..m |-> IF j = 0 THEN a ELSE Swapped(q[j - 1], j)]
<1>1. \A e \in (1..m) \X S : Swapped(e[2], e[1]) \in S
  <2>1. ASSUME NEW e \in (1..m) \X S PROVE Swapped(e[2], e[1]) \in S
    <3>1. e[1] \in 1..m /\ e[2] \in S
      OBVIOUS
    <3>2. e[1] \in 1..(n - 1)
      BY <3>1
    <3>3. QED
      BY <3>1, <3>2, SwappedFacts
  <2>2. QED
    BY <2>1
<1>2. F \in [(1..m) \X S -> S]
  BY <1>1
<1>3. \A j \in 1..m : \A s \in S : F[<<j, s>>] = Swapped(s, j)
  OBVIOUS
<1>4. PICK g : Recurs(g, m, S, a, F)
  <2> HIDE DEF F, S
  <2>1. a \in S /\ m \in Nat
    BY DEF S
  <2>2. QED
    BY <1>2, <2>1, Recursion
<1>5. g = [j \in 0..m |-> IF j = 0 THEN a ELSE Swapped(g[j - 1], j)]
  <2> HIDE DEF F, S
  <2> USE <1>4 DEF Recurs
  <2>1. ASSUME NEW j \in 0..m PROVE g[j] = IF j = 0 THEN a ELSE Swapped(g[j - 1], j)
    <3>1. CASE j = 0
      BY <3>1
    <3>2. CASE j # 0
      <4>1. j \in 1..m /\ j - 1 \in 0..m
        BY <3>2
      <4>2. g[j - 1] \in S
        BY <4>1
      <4>3. QED
        BY <1>3, <3>2, <4>1, <4>2
    <3>3. QED
      BY <3>1, <3>2
  <2>2. QED
    BY <2>1
<1>6. p = [j \in 0..m |-> IF j = 0 THEN a ELSE Swapped(p[j - 1], j)]
  <2>1. \E q : q = [j \in 0..m |-> IF j = 0 THEN a ELSE Swapped(q[j - 1], j)]
    BY <1>5, Zenon
  <2>2. QED
    BY <2>1, Zenon
<1>7. Pass(a, m) = p[m]
  BY DEF Pass
<1> HIDE DEF p
<1>8. p[0] = a /\ \A j \in 1..m : p[j] = Swapped(p[j - 1], j)
  <2>1. \A j \in 0..m : p[j] = IF j = 0 THEN a ELSE Swapped(p[j - 1], j)
    BY <1>6
  <2>2. 0 \in 0..m /\ \A j \in 1..m : j \in 0..m /\ j # 0
    OBVIOUS
  <2>3. QED
    BY <2>1, <2>2
<1> DEFINE Q == {j \in 0..m : Bubbled(p[j], a, n, j)}
<1>9. 0 \in Q
  <2> DEFINE f == [i \in 1..n |-> i]
  <2>1. Mutual(f, f, 1..n, 1..n) /\ \A i \in 1..n : a[i] = a[f[i]]
    BY DEF Mutual
  <2> HIDE DEF f
  <2>2. Arranged(a, a, 1..n, 1..n)
    BY <2>1 DEF Arranged
  <2>3. /\ 0 + 1 = 1 /\ 1..1 = {1} /\ 1 \in 1..n /\ a[1] \in Int /\ a[1] <= a[1]
    OBVIOUS
  <2>4. Bubbled(a, a, n, 0)
    BY <2>2, <2>3 DEF Bubbled
  <2>5. 0 \in 0..m
    OBVIOUS
  <2>6. QED
    BY <1>8, <2>4, <2>5
<1>10. ASSUME NEW j \in 0..(m - 1), j \in Q PROVE j + 1 \in Q
  <2>1. j + 1 \in 1..m /\ j + 1 \in 0..m /\ j + 1 \in 1..(n - 1) /\ (j + 1) - 1 = j
    OBVIOUS
  <2>2. Bubbled(p[j], a, n, (j + 1) - 1)
    BY <1>10, <2>1
  <2>3. Bubbled(Swapped(p[j], j + 1), a, n, j + 1)
    BY <2>1, <2>2, BubbledMore
  <2>4. p[j + 1] = Swapped(p[j], j + 1)
    BY <1>8, <2>1
  <2>5. QED
    BY <2>1, <2>3, <2>4
<1>11. m \in Q
  <2>1. \A j \in 0..(m - 1) : j \in Q => j + 1 \in Q
    BY <1>10
  <2> HIDE DEF Q
  <2>2. m \in Nat /\ m \in 0..m
    OBVIOUS
  <2>3. QED
    BY <1>9, <2>1, <2>2, InductionTo
<1>12. QED
  BY <1>7, <1>11

\* After i passes over a: the last i values of r are in their places.
Settled(r, a, n, i) ==
    /\ r \in [1..n -> Int] /\ Arranged(r, a, 1..n, 1..n)
    /\ \A x, y \in 1..n : x < y /\ y > n - i => r[x] <= r[y]

\* One pass more.
LEMMA SettledMore ==
    ASSUME NEW n \in Nat \ {0}, NEW a \in [1..n -> Int], NEW i \in 1..(n - 1), NEW s,
           Settled(s, a, n, i - 1)
    PROVE  Settled(Pass(s, n - i), a, n, i)
<1> DEFINE m == n - i
           r == Pass(s, m)
<1>1. m \in 0..(n - 1) /\ m + 1 \in 1..n /\ n - (i - 1) = m + 1
  OBVIOUS
<1>2. /\ s \in [1..n -> Int] /\ Arranged(s, a, 1..n, 1..n)
      /\ \A x, y \in 1..n : x < y /\ y > m + 1 => s[x] <= s[y]
  BY <1>1 DEF Settled
<1> HIDE DEF m
<1>3. Bubbled(r, s, n, m)
  BY <1>1, <1>2, PassFacts
<1> HIDE DEF r
<1>4. /\ r \in [1..n -> Int] /\ Arranged(r, s, 1..n, 1..n)
      /\ \A x \in 1..(m + 1) : r[x] <= r[m + 1]
      /\ \A x \in 1..(m + 1) : \E k \in 1..(m + 1) : r[x] = s[k]
      /\ \A x \in 1..n : x > m + 1 => r[x] = s[x]
  BY <1>3 DEF Bubbled
<1>5. Arranged(r, a, 1..n, 1..n)
  BY <1>2, <1>4, ArrangedTwice
<1>6. ASSUME NEW x \in 1..n, NEW y \in 1..n, x < y, y > m PROVE r[x] <= r[y]
  <2>1. CASE y = m + 1
    <3>1. x \in 1..(m + 1)
      BY <1>1, <1>6, <2>1
    <3>2. QED
      BY <1>4, <2>1, <3>1
  <2>2. CASE y > m + 1
    <3>1. r[y] = s[y]
      BY <1>4, <2>2
    <3>2. CASE x > m + 1
      BY <1>2, <1>4, <1>6, <2>2, <3>1, <3>2
    <3>3. CASE ~(x > m + 1)
      <4>1. x \in 1..(m + 1)
        BY <1>1, <3>3
      <4>2. PICK k \in 1..(m + 1) : r[x] = s[k]
        BY <1>4, <4>1
      <4>3. k \in 1..n /\ k < y
        BY <1>1, <2>2
      <4>4. QED
        BY <1>2, <2>2, <3>1, <4>2, <4>3
    <3>4. QED
      BY <3>2, <3>3
  <2>3. QED
    BY <1>1, <1>6, <2>1, <2>2
<1>7. QED
  BY <1>4, <1>5, <1>6 DEF Settled, r, m

\* The sort arranges the values in ascending order.
LEMMA SortedFacts ==
    ASSUME NEW n \in Nat \ {0}, NEW a \in [1..n -> Int]
    PROVE  /\ Sorted(a, n) \in [1..n -> Int] /\ Arranged(Sorted(a, n), a, 1..n, 1..n)
           /\ \A x, y \in 1..n : x < y => Sorted(a, n)[x] <= Sorted(a, n)[y]
<1> DEFINE m == n - 1
           S == [1..n -> Int]
           F == [e \in (1..m) \X S |-> Pass(e[2], n - e[1])]
           p == CHOOSE q : q = [j \in 0..(n - 1) |-> IF j = 0 THEN a ELSE Pass(q[j - 1], n - j)]
<1>1. \A e \in (1..m) \X S : Pass(e[2], n - e[1]) \in S
  <2>1. ASSUME NEW e \in (1..m) \X S PROVE Pass(e[2], n - e[1]) \in S
    <3>1. e[1] \in 1..m /\ e[2] \in S
      OBVIOUS
    <3>2. n - e[1] \in 0..(n - 1)
      BY <3>1
    <3>3. Bubbled(Pass(e[2], n - e[1]), e[2], n, n - e[1])
      BY <3>1, <3>2, PassFacts
    <3>4. QED
      BY <3>3 DEF Bubbled
  <2>2. QED
    BY <2>1
<1>2. F \in [(1..m) \X S -> S]
  BY <1>1
<1>3. \A j \in 1..m : \A s \in S : F[<<j, s>>] = Pass(s, n - j)
  OBVIOUS
<1>4. PICK g : Recurs(g, m, S, a, F)
  <2>1. a \in S /\ m \in Nat
    OBVIOUS
  <2> HIDE DEF F, S, m
  <2>2. QED
    BY <1>2, <2>1, Recursion
<1>5. g = [j \in 0..(n - 1) |-> IF j = 0 THEN a ELSE Pass(g[j - 1], n - j)]
  <2> HIDE DEF F, S
  <2> USE <1>4 DEF Recurs
  <2>1. ASSUME NEW j \in 0..m PROVE g[j] = IF j = 0 THEN a ELSE Pass(g[j - 1], n - j)
    <3>1. CASE j = 0
      BY <3>1
    <3>2. CASE j # 0
      <4>1. j \in 1..m /\ j - 1 \in 0..m
        BY <3>2
      <4>2. g[j - 1] \in S
        BY <4>1
      <4>3. QED
        BY <1>3, <3>2, <4>1, <4>2
    <3>3. QED
      BY <3>1, <3>2
  <2>2. QED
    BY <2>1
<1>6. p = [j \in 0..(n - 1) |-> IF j = 0 THEN a ELSE Pass(p[j - 1], n - j)]
  <2>1. \E q : q = [j \in 0..(n - 1) |-> IF j = 0 THEN a ELSE Pass(q[j - 1], n - j)]
    BY <1>5, Zenon
  <2>2. QED
    BY <2>1, Zenon
<1>7. Sorted(a, n) = p[n - 1]
  BY DEF Sorted
<1> HIDE DEF p
<1>8. p[0] = a /\ \A j \in 1..m : p[j] = Pass(p[j - 1], n - j)
  <2>1. \A j \in 0..(n - 1) : p[j] = IF j = 0 THEN a ELSE Pass(p[j - 1], n - j)
    BY <1>6
  <2>2. 0 \in 0..(n - 1) /\ \A j \in 1..m : j \in 0..(n - 1) /\ j # 0
    OBVIOUS
  <2>3. QED
    BY <2>1, <2>2
<1> DEFINE Q == {j \in 0..m : Settled(p[j], a, n, j)}
<1>9. 0 \in Q
  <2> DEFINE f == [i \in 1..n |-> i]
  <2>1. Mutual(f, f, 1..n, 1..n) /\ \A i \in 1..n : a[i] = a[f[i]]
    BY DEF Mutual
  <2> HIDE DEF f
  <2>2. Arranged(a, a, 1..n, 1..n)
    BY <2>1 DEF Arranged
  <2>3. \A y \in 1..n : ~(y > n - 0)
    OBVIOUS
  <2>4. Settled(a, a, n, 0)
    BY <2>2, <2>3 DEF Settled
  <2>5. 0 \in 0..m
    OBVIOUS
  <2>6. QED
    BY <1>8, <2>4, <2>5
<1>10. ASSUME NEW j \in 0..(m - 1), j \in Q PROVE j + 1 \in Q
  <2>1. j + 1 \in 1..m /\ j + 1 \in 0..m /\ j + 1 \in 1..(n - 1) /\ (j + 1) - 1 = j
    OBVIOUS
  <2>2. Settled(p[j], a, n, (j + 1) - 1)
    BY <1>10, <2>1
  <2>3. Settled(Pass(p[j], n - (j + 1)), a, n, j + 1)
    BY <2>1, <2>2, SettledMore
  <2>4. p[j + 1] = Pass(p[j], n - (j + 1))
    BY <1>8, <2>1
  <2>5. QED
    BY <2>1, <2>3, <2>4
<1>11. m \in Q
  <2>1. \A j \in 0..(m - 1) : j \in Q => j + 1 \in Q
    BY <1>10
  <2>2. m \in Nat /\ m \in 0..m
    OBVIOUS
  <2> HIDE DEF Q, m
  <2>3. QED
    BY <1>9, <2>1, <2>2, InductionTo
<1>12. Settled(Sorted(a, n), a, n, n - 1)
  BY <1>7, <1>11
<1>13. \A x, y \in 1..n : x < y => y > n - (n - 1)
  OBVIOUS
<1>14. QED
  BY <1>12, <1>13 DEF Settled

-----------------------------------------------------------------------------
(* Medians and sums *)

\* v has at most half of the values of A on T below it, and more than half not above.
Middle(v, A, T, half) ==
    /\ Cardinality({k \in T : A[k] < v}) <= half
    /\ Cardinality({k \in T : A[k] <= v}) > half

\* calculate_median finds it.
LEMMA MedianFacts ==
    ASSUME NEW n \in Nat \ {0}, NEW a \in [1..n -> Int], NEW T, NEW A, Arranged(a, A, 1..n, T)
    PROVE  LET v == Median(a, n)
           IN  /\ v \in Int /\ IsFiniteSet(T) /\ Cardinality(T) = n
               /\ \A k \in T : A[k] \in Int
               /\ \E k \in T : v = A[k]
               /\ Middle(v, A, T, n \div 2)
<1> DEFINE b == Sorted(a, n)
           h == n \div 2
           v == b[h + 1]
<1>1. h \in Nat /\ h + 1 \in 1..n
  OBVIOUS
<1>2. /\ b \in [1..n -> Int] /\ Arranged(b, a, 1..n, 1..n)
      /\ \A x, y \in 1..n : x < y => b[x] <= b[y]
  BY SortedFacts
<1> HIDE DEF b, h
<1>3. v \in Int /\ Median(a, n) = v
  BY <1>1, <1>2 DEF Median, b, h
<1>4. Arranged(b, A, 1..n, T)
  BY <1>2, ArrangedTwice
<1>5. PICK f, g : Mutual(f, g, 1..n, T) /\ \A i \in 1..n : b[i] = A[f[i]]
  BY <1>4 DEF Arranged
<1>6. \A k \in T : g[k] \in 1..n /\ A[k] = b[g[k]] /\ A[k] \in Int
  BY <1>2, <1>5 DEF Mutual
<1>7. \E k \in T : v = A[k]
  <2>1. f[h + 1] \in T /\ v = A[f[h + 1]]
    BY <1>1, <1>5 DEF Mutual
  <2>2. QED
    BY <2>1
<1>8. IsFiniteSet(1..n) /\ Cardinality(1..n) = n
  BY FS_Interval
<1> HIDE DEF v
<1>9. ASSUME NEW V
      PROVE  IsFiniteSet(T) /\ HowMany(A, T, V) = HowMany(b, 1..n, V)
  BY <1>4, <1>8, ArrangedCounts
<1>10. IsFiniteSet(T) /\ Cardinality(T) = n
  <2>1. {k \in T : A[k] \in Int} = T /\ {i \in 1..n : b[i] \in Int} = 1..n
    BY <1>2, <1>6
  <2>2. QED
    BY <1>8, <1>9, <2>1 DEF HowMany
<1>11. Cardinality({k \in T : A[k] < v}) <= h
  <2> DEFINE V == {x \in Int : x < v}
             B == {i \in 1..n : b[i] \in V}
  <2>1. {k \in T : A[k] < v} = {k \in T : A[k] \in V}
    BY <1>6
  <2>2. B \subseteq 1..h
    <3>1. ASSUME NEW i \in 1..n, b[i] < v, ~(i <= h) PROVE FALSE
      <4>1. i = h + 1 \/ h + 1 < i
        BY <1>1, <3>1
      <4>2. v <= b[i]
        BY <1>1, <1>2, <1>3, <4>1 DEF v
      <4>3. b[i] \in Int
        BY <1>2
      <4>4. QED
        BY <1>3, <3>1, <4>2, <4>3
    <3>2. QED
      BY <1>1, <3>1
  <2>3. IsFiniteSet(1..h) /\ Cardinality(1..h) = h
    BY <1>1, FS_Interval
  <2>4. Cardinality(B) <= h
    BY <2>2, <2>3, FS_Subset
  <2>5. QED
    BY <1>9, <2>1, <2>4 DEF HowMany
<1>12. Cardinality({k \in T : A[k] <= v}) > h
  <2> DEFINE V == {x \in Int : x <= v}
             B == {i \in 1..n : b[i] \in V}
  <2>1. {k \in T : A[k] <= v} = {k \in T : A[k] \in V}
    BY <1>6
  <2>2. 1..(h + 1) \subseteq B
    <3>1. ASSUME NEW i \in 1..(h + 1) PROVE i \in 1..n /\ b[i] \in Int /\ b[i] <= v
      <4>1. i \in 1..n
        BY <1>1
      <4>2. CASE i = h + 1
        BY <1>2, <1>3, <4>1, <4>2 DEF v
      <4>3. CASE i < h + 1
        BY <1>1, <1>2, <4>1, <4>3 DEF v
      <4>4. QED
        BY <1>1, <4>2, <4>3, <4>1
    <3>2. QED
      BY <3>1
  <2>3. IsFiniteSet(B)
    BY <1>8, FS_Subset
  <2>4. Cardinality(1..(h + 1)) = h + 1
    BY <1>1, FS_Interval
  <2> HIDE DEF B
  <2>5. Cardinality(1..(h + 1)) <= Cardinality(B)
    BY <2>2, <2>3, FS_Subset
  <2>6. Cardinality(B) \in Nat
    BY <2>3, FS_CardinalityType
  <2>7. Cardinality(B) > h
    BY <1>1, <2>4, <2>5, <2>6
  <2>8. QED
    BY <1>9, <2>1, <2>7 DEF B, HowMany
<1>13. QED
  BY <1>3, <1>6, <1>7, <1>10, <1>11, <1>12 DEF Middle, h

\* There is one median.
LEMMA MiddleUnique ==
    ASSUME NEW T, IsFiniteSet(T), NEW A, \A k \in T : A[k] \in Int, NEW half \in Nat,
           NEW v \in Int, NEW w \in Int, Middle(v, A, T, half), Middle(w, A, T, half)
    PROVE  v = w
<1>1. ASSUME NEW x \in Int, NEW y \in Int, Middle(x, A, T, half), Middle(y, A, T, half), x < y
      PROVE  FALSE
  <2> DEFINE P == {k \in T : A[k] <= x}
             Q == {k \in T : A[k] < y}
  <2>1. P \subseteq Q
    BY <1>1
  <2>2. IsFiniteSet(P) /\ IsFiniteSet(Q)
    BY FS_Subset
  <2>3. Cardinality(P) > half /\ Cardinality(Q) <= half
    BY <1>1 DEF Middle
  <2> HIDE DEF P, Q
  <2>4. Cardinality(P) <= Cardinality(Q) /\ Cardinality(P) \in Nat /\ Cardinality(Q) \in Nat
    BY <2>1, <2>2, FS_Subset, FS_CardinalityType
  <2>5. QED
    BY <2>3, <2>4
<1>2. v < w \/ w < v \/ v = w
  OBVIOUS
<1>3. QED
  BY <1>1, <1>2

\* s is the sequence of the partial sums of f.
Partial(s, f, n) ==
    s \in [0..n -> Int] /\ s[0] = 0 /\ \A i \in 1..n : s[i] = s[i - 1] + f[i - 1]

\* The sum is the last of them.
LEMMA TotalFacts ==
    ASSUME NEW n \in Nat, NEW f, \A i \in 0..(n - 1) : f[i] \in Int
    PROVE  \E s : Partial(s, f, n) /\ Total(f, n) = s[n]
<1> DEFINE F == [e \in (1..n) \X Int |-> e[2] + f[e[1] - 1]]
           p == CHOOSE q : q = [j \in 0..n |-> IF j = 0 THEN 0 ELSE q[j - 1] + f[j - 1]]
<1>1. \A j \in 1..n : f[j - 1] \in Int
  OBVIOUS
<1>2. F \in [(1..n) \X Int -> Int] /\ \A j \in 1..n : \A x \in Int : F[<<j, x>>] = x + f[j - 1]
  <2>1. \A e \in (1..n) \X Int : e[1] \in 1..n /\ e[2] \in Int
    OBVIOUS
  <2>2. QED
    BY <1>1, <2>1
<1>3. PICK g : Recurs(g, n, Int, 0, F)
  <2> HIDE DEF F
  <2>1. 0 \in Int
    OBVIOUS
  <2>2. QED
    BY <1>2, <2>1, Recursion
<1>4. g = [j \in 0..n |-> IF j = 0 THEN 0 ELSE g[j - 1] + f[j - 1]]
  <2> HIDE DEF F
  <2> USE <1>3 DEF Recurs
  <2>1. ASSUME NEW j \in 0..n PROVE g[j] = IF j = 0 THEN 0 ELSE g[j - 1] + f[j - 1]
    <3>1. CASE j = 0
      BY <3>1
    <3>2. CASE j # 0
      <4>1. j \in 1..n /\ j - 1 \in 0..n
        BY <3>2
      <4>2. g[j - 1] \in Int
        BY <4>1
      <4>3. QED
        BY <1>2, <3>2, <4>1, <4>2
    <3>3. QED
      BY <3>1, <3>2
  <2>2. QED
    BY <2>1
<1>5. p = [j \in 0..n |-> IF j = 0 THEN 0 ELSE p[j - 1] + f[j - 1]]
  <2>1. \E q : q = [j \in 0..n |-> IF j = 0 THEN 0 ELSE q[j - 1] + f[j - 1]]
    BY <1>4, Zenon
  <2>2. QED
    BY <2>1, Zenon
<1>6. Total(f, n) = p[n]
  BY DEF Total
<1> HIDE DEF p
<1>7. p[0] = 0 /\ \A j \in 1..n : p[j] = p[j - 1] + f[j - 1]
  <2>1. \A j \in 0..n : p[j] = IF j = 0 THEN 0 ELSE p[j - 1] + f[j - 1]
    BY <1>5
  <2>2. 0 \in 0..n /\ \A j \in 1..n : j \in 0..n /\ j # 0
    OBVIOUS
  <2>3. QED
    BY <2>1, <2>2
<1> DEFINE Q == {j \in 0..n : p[j] \in Int}
<1>8. 0 \in Q /\ \A j \in 0..(n - 1) : j \in Q => j + 1 \in Q
  <2>1. 0 \in Q
    BY <1>7
  <2>2. ASSUME NEW j \in 0..(n - 1), j \in Q PROVE j + 1 \in Q
    <3>1. j + 1 \in 1..n /\ (j + 1) - 1 = j /\ j + 1 \in 0..n
      OBVIOUS
    <3>2. p[j + 1] = p[j] + f[j]
      BY <1>7, <3>1
    <3>3. QED
      BY <2>2, <3>1, <3>2
  <2>3. QED
    BY <2>1, <2>2
<1>9. \A j \in 0..n : j \in Q
  <2> HIDE DEF Q
  <2>1. QED
    BY <1>8, InductionTo
<1>10. p \in [0..n -> Int]
  <2>1. \A j \in 0..n : p[j] \in Int
    BY <1>9
  <2>2. p = [j \in 0..n |-> p[j]]
    BY <1>5
  <2>3. QED
    BY <2>1, <2>2
<1>11. Partial(p, f, n)
  BY <1>7, <1>10 DEF Partial
<1>12. QED
  BY <1>6, <1>11

-----------------------------------------------------------------------------
(* The rings *)

\* The slot of the k-th sample or median.
Slot(k) == (k - 1) % Window

\* The number of samples in a ring after n reads.
Filled(n) == IF n < Window THEN n ELSE Window

\* A remainder, by the quotient that goes with it.
LEMMA SlotFacts ==
    ASSUME NEW k \in Nat \ {0}
    PROVE  Slot(k) \in Slots /\ \E q \in Nat : k - 1 = Window * q + Slot(k)
<1> DEFINE q == (k - 1) \div Window
<1>1. q \in Nat /\ k - 1 = Window * q + Slot(k) /\ Slot(k) \in Slots
  BY DEF Slot, Slots, Window
<1>2. QED
  BY <1>1

\* Positions less than the length of the ring apart are in the same slot only if equal.
LEMMA SlotsApart ==
    ASSUME NEW j \in Nat \ {0}, NEW k \in Nat \ {0}, k - j < Window, j - k < Window,
           Slot(j) = Slot(k)
    PROVE  j = k
<1>1. PICK q \in Nat : k - 1 = Window * q + Slot(k)
  BY SlotFacts
<1>2. PICK p \in Nat : j - 1 = Window * p + Slot(j)
  BY SlotFacts
<1>3. Slot(k) \in 0..4
  BY SlotFacts DEF Slots, Window
<1>4. QED
  BY <1>1, <1>2, <1>3 DEF Window

\* Every slot that is filled holds one of the latest positions.
LEMMA SlotTaken ==
    ASSUME NEW n \in Nat \ {0}, NEW i \in 0..(Filled(n) - 1)
    PROVE  \E k \in Latest(n) : Slot(k) = i
<1> DEFINE d == (n - 1 - i) % 5
           q == (n - 1 - i) \div 5
           k == n - d
<1>1. n - 1 - i \in Nat /\ i \in 0..4
  BY DEF Filled, Window
<1>2. d \in 0..4 /\ q \in Nat /\ n - 1 - i = 5 * q + d
  BY <1>1
<1> HIDE DEF d, q
<1>3. k \in Latest(n) /\ k - 1 = 5 * q + i
  BY <1>1, <1>2 DEF Latest, Window
<1>4. Slot(k) = i
  BY <1>1, <1>2, <1>3 DEF Slot, Window
<1> HIDE DEF k
<1>5. QED
  BY <1>3, <1>4

\* The latest positions have slots that are filled.
LEMMA SlotFilled ==
    ASSUME NEW n \in Nat \ {0}, NEW k \in Latest(n)
    PROVE  k \in Nat \ {0} /\ Slot(k) \in 0..(Filled(n) - 1)
<1>1. k \in 1..n /\ k > n - 5
  BY DEF Latest, Window
<1>2. CASE n < 5
  <2>1. Slot(k) = k - 1
    BY <1>1, <1>2 DEF Slot, Window
  <2>2. QED
    BY <1>1, <1>2, <2>1 DEF Filled, Window
<1>3. CASE ~(n < 5)
  BY <1>1, <1>3, SlotFacts DEF Slots, Filled, Window
<1>4. QED
  BY <1>2, <1>3

\* Channel c of the latest of the samples s, up to the k-th.
Column(s, c, k) == [i \in Latest(k) |-> s[i][c]]

\* A ring that holds the latest samples in their slots has their values, in some order.
LEMMA RingArranged ==
    ASSUME NEW n \in Nat \ {0}, NEW h, NEW s, NEW c, \A k \in Latest(n) : h[Slot(k)] = s[k]
    PROVE  Arranged([i \in 1..Filled(n) |-> h[i - 1][c]], Column(s, c, n), 1..Filled(n), Latest(n))
<1> DEFINE F == Filled(n)
           T == Latest(n)
           f == [i \in 1..F |-> CHOOSE k \in T : Slot(k) = i - 1]
           g == [k \in T |-> Slot(k) + 1]
           b == [i \in 1..F |-> h[i - 1][c]]
<1>1. F \in Nat
  BY DEF Filled, Window
<1>2. \A i \in 1..F : f[i] \in T /\ Slot(f[i]) = i - 1
  <2>1. TAKE i \in 1..F
  <2>2. i - 1 \in 0..(F - 1)
    BY <1>1
  <2>3. \E k \in T : Slot(k) = i - 1
    BY <2>2, SlotTaken
  <2> HIDE DEF F, T
  <2>4. QED
    BY <2>3
<1>3. \A k \in T : k \in Nat \ {0} /\ g[k] \in 1..F /\ g[k] - 1 = Slot(k)
  <2>1. TAKE k \in T
  <2>2. k \in Nat \ {0} /\ Slot(k) \in 0..(F - 1)
    BY SlotFilled
  <2> HIDE DEF F, T
  <2>3. QED
    BY <1>1, <2>2
<1>4. ASSUME NEW j \in T, NEW k \in T, Slot(j) = Slot(k) PROVE j = k
  <2>1. k - j < Window /\ j - k < Window
    BY DEF Latest, Window
  <2>2. QED
    BY <1>3, <1>4, <2>1, SlotsApart
<1> HIDE DEF F, T
<1>5. f \in [1..F -> T] /\ g \in [T -> 1..F]
  BY <1>2, <1>3
<1>6. \A i \in 1..F : g[f[i]] = i
  BY <1>1, <1>2
<1> HIDE DEF f
<1>7. \A k \in T : f[g[k]] = k
  <2>1. TAKE k \in T
  <2>2. g[k] \in 1..F /\ g[k] - 1 = Slot(k)
    BY <1>3
  <2> HIDE DEF g
  <2>3. f[g[k]] \in T /\ Slot(f[g[k]]) = Slot(k)
    BY <1>2, <2>2
  <2>4. QED
    BY <1>4, <2>3
<1> HIDE DEF g
<1>8. Mutual(f, g, 1..F, T)
  BY <1>5, <1>6, <1>7 DEF Mutual
<1>9. \A i \in 1..F : b[i] = Column(s, c, n)[f[i]]
  <2>1. TAKE i \in 1..F
  <2>2. f[i] \in Latest(n) /\ h[i - 1] = s[f[i]]
    BY <1>2 DEF T
  <2>3. QED
    BY <2>2 DEF Column
<1> HIDE DEF b
<1>10. Arranged(b, Column(s, c, n), 1..F, T)
  BY <1>8, <1>9 DEF Arranged
<1>11. QED
  BY <1>10 DEF b, F, T

\* The sum over a ring is the sum in the order of the positions.
LEMMA RingTotal ==
    ASSUME NEW n \in Nat \ {0}, NEW m, NEW r,
           \A k \in 0..n : m[k] \in Int /\ (k \notin Latest(n) => m[k] = 0),
           \A i \in Slots : r[i] \in Int,
           \A k \in Latest(n) : r[Slot(k)] = m[k]
    PROVE  Total(m, n + 1) = Total(r, Filled(n))
<1> DEFINE F == Filled(n)
<1>1. F \in 1..5 /\ \A i \in 0..(F - 1) : i \in Slots
  BY DEF Filled, Slots, Window
<1>2. PICK s : Partial(s, m, n + 1) /\ Total(m, n + 1) = s[n + 1]
  <2>1. n + 1 \in Nat /\ \A k \in 0..((n + 1) - 1) : m[k] \in Int
    OBVIOUS
  <2>2. QED
    BY <2>1, TotalFacts
<1>3. PICK t : Partial(t, r, F) /\ Total(r, F) = t[F]
  <2>1. F \in Nat /\ \A i \in 0..(F - 1) : r[i] \in Int
    BY <1>1
  <2>2. QED
    BY <2>1, TotalFacts
<1>4. /\ s[0] = 0 /\ \A k \in 0..(n + 1) : s[k] \in Int
      /\ \A k \in 0..n : s[k + 1] = s[k] + m[k]
  <2>1. \A k \in 0..n : k + 1 \in 1..(n + 1) /\ (k + 1) - 1 = k
    OBVIOUS
  <2>2. QED
    BY <1>2, <2>1 DEF Partial
<1>5. /\ t[0] = 0 /\ \A k \in 0..F : t[k] \in Int
      /\ \A k \in 0..(F - 1) : t[k + 1] = t[k] + r[k]
  <2>1. \A k \in 0..(F - 1) : k + 1 \in 1..F /\ (k + 1) - 1 = k
    BY <1>1
  <2>2. QED
    BY <1>3, <2>1 DEF Partial
<1>6. CASE n < 5
  <2>1. F = n /\ s[1] = 0
    <3>1. 0 \notin Latest(n) /\ 0 \in 0..n /\ 0 + 1 = 1
      BY DEF Latest
    <3>2. QED
      BY <1>4, <1>6, <3>1 DEF Filled, Window
  <2> DEFINE Q == {k \in 0..n : s[k + 1] = t[k]}
  <2>2. 0 \in Q
    BY <1>5, <2>1
  <2>3. ASSUME NEW k \in 0..(n - 1), k \in Q PROVE k + 1 \in Q
    <3>1. k + 1 \in 0..n /\ k + 1 \in Latest(n) /\ Slot(k + 1) = k
      BY <1>6 DEF Latest, Slot, Window
    <3>2. s[(k + 1) + 1] = s[k + 1] + m[k + 1] /\ r[k] = m[k + 1]
      BY <1>4, <3>1
    <3>3. t[k + 1] = t[k] + r[k]
      BY <1>5, <2>1
    <3>4. s[(k + 1) + 1] = t[k + 1]
      BY <2>3, <3>2, <3>3
    <3>5. QED
      BY <3>1, <3>4
  <2>4. n \in Q
    <3>1. \A k \in 0..(n - 1) : k \in Q => k + 1 \in Q
      BY <2>3
    <3> HIDE DEF Q
    <3>2. \A k \in 0..n : k \in Q
      BY <2>2, <3>1, InductionTo
    <3>3. QED
      BY <3>2
  <2>5. QED
    BY <1>2, <1>3, <2>1, <2>4
<1>7. CASE ~(n < 5)
  <2>1. F = 5 /\ n - 4 \in Nat
    BY <1>7 DEF Filled, Window
  <2> DEFINE Q == {k \in 0..(n - 4) : s[k] = 0}
  <2>2. 0 \in Q
    BY <1>4, <2>1
  <2>3. ASSUME NEW k \in 0..((n - 4) - 1), k \in Q PROVE k + 1 \in Q
    <3>1. k \in 0..n /\ k + 1 \in 0..(n - 4) /\ k \notin Latest(n)
      BY <2>1 DEF Latest, Window
    <3>2. s[k + 1] = s[k] + m[k] /\ m[k] = 0
      BY <1>4, <3>1
    <3>3. QED
      BY <2>3, <3>1, <3>2
  <2>4. n - 4 \in Q
    <3>1. \A k \in 0..((n - 4) - 1) : k \in Q => k + 1 \in Q
      BY <2>3
    <3>2. n - 4 \in 0..(n - 4)
      BY <2>1
    <3> HIDE DEF Q
    <3>3. \A k \in 0..(n - 4) : k \in Q
      BY <2>1, <2>2, <3>1, InductionTo
    <3>4. QED
      BY <3>2, <3>3
  <2>5. s[n + 1] = m[n - 4] + m[n - 3] + m[n - 2] + m[n - 1] + m[n]
    <3>1. s[n - 4] = 0
      BY <2>4
    <3>2. /\ s[n - 3] = s[n - 4] + m[n - 4] /\ s[n - 2] = s[n - 3] + m[n - 3]
          /\ s[n - 1] = s[n - 2] + m[n - 2] /\ s[n] = s[n - 1] + m[n - 1]
          /\ s[n + 1] = s[n] + m[n]
      <4>1. /\ n - 4 \in 0..n /\ n - 3 \in 0..n /\ n - 2 \in 0..n /\ n - 1 \in 0..n /\ n \in 0..n
            /\ (n - 4) + 1 = n - 3 /\ (n - 3) + 1 = n - 2 /\ (n - 2) + 1 = n - 1 /\ (n - 1) + 1 = n
        BY <2>1
      <4>2. QED
        BY <1>4, <4>1
    <3>3. /\ m[n - 4] \in Int /\ m[n - 3] \in Int /\ m[n - 2] \in Int
          /\ m[n - 1] \in Int /\ m[n] \in Int
      BY <2>1
    <3>4. QED
      BY <3>1, <3>2, <3>3
  <2>6. t[5] = r[0] + r[1] + r[2] + r[3] + r[4]
    <3>1. /\ t[1] = t[0] + r[0] /\ t[2] = t[1] + r[1] /\ t[3] = t[2] + r[2]
          /\ t[4] = t[3] + r[3] /\ t[5] = t[4] + r[4]
      BY <1>5, <2>1
    <3>2. r[0] \in Int /\ r[1] \in Int /\ r[2] \in Int /\ r[3] \in Int /\ r[4] \in Int
      BY DEF Slots, Window
    <3>3. QED
      BY <1>5, <3>1, <3>2
  <2>7. r[0] \in Int /\ r[1] \in Int /\ r[2] \in Int /\ r[3] \in Int /\ r[4] \in Int
    BY DEF Slots, Window
  <2>8. /\ m[n - 4] = r[Slot(n - 4)] /\ m[n - 3] = r[Slot(n - 3)] /\ m[n - 2] = r[Slot(n - 2)]
        /\ m[n - 1] = r[Slot(n - 1)] /\ m[n] = r[Slot(n)]
    <3>1. /\ n - 4 \in Latest(n) /\ n - 3 \in Latest(n) /\ n - 2 \in Latest(n)
          /\ n - 1 \in Latest(n) /\ n \in Latest(n)
      <4>1. \A k \in 1..n : k > n - 5 => k \in Latest(n)
        BY DEF Latest, Window
      <4>2. \A k \in {n - 4, n - 3, n - 2, n - 1, n} : k \in 1..n /\ k > n - 5
        BY <1>7
      <4>3. QED
        BY <4>1, <4>2
    <3>2. QED
      BY <3>1
  <2>9. \/ Slot(n) = 0 /\ Slot(n - 1) = 4 /\ Slot(n - 2) = 3 /\ Slot(n - 3) = 2 /\ Slot(n - 4) = 1
        \/ Slot(n) = 1 /\ Slot(n - 1) = 0 /\ Slot(n - 2) = 4 /\ Slot(n - 3) = 3 /\ Slot(n - 4) = 2
        \/ Slot(n) = 2 /\ Slot(n - 1) = 1 /\ Slot(n - 2) = 0 /\ Slot(n - 3) = 4 /\ Slot(n - 4) = 3
        \/ Slot(n) = 3 /\ Slot(n - 1) = 2 /\ Slot(n - 2) = 1 /\ Slot(n - 3) = 0 /\ Slot(n - 4) = 4
        \/ Slot(n) = 4 /\ Slot(n - 1) = 3 /\ Slot(n - 2) = 2 /\ Slot(n - 3) = 1 /\ Slot(n - 4) = 0
    BY <2>1 DEF Slot, Window
  <2>10. m[n - 4] + m[n - 3] + m[n - 2] + m[n - 1] + m[n] = r[0] + r[1] + r[2] + r[3] + r[4]
    BY <2>7, <2>8, <2>9
  <2>11. QED
    BY <1>2, <1>3, <2>1, <2>5, <2>6, <2>10
<1>8. QED
  BY <1>6, <1>7

-----------------------------------------------------------------------------
(* The inductive invariant *)

\* v is the median of channel c over the latest of the samples s, up to the k-th, and
\* one of their values.
Chosen(v, s, c, k) ==
    /\ \E i \in Latest(k) : v = s[i][c]
    /\ Middle(v, Column(s, c, k), Latest(k), Cardinality(Latest(k)) \div 2)

\* Types; the index counts the samples.
Typed == TypeOK /\ history_index = Len(samples)

\* The first ring holds the latest samples, each in its slot.
Ringed == \A k \in Latest(Len(samples)) : history[Slot(k)] = samples[k]

\* The second holds the medians of the same age.
Smoothed ==
    \A k \in Latest(Len(samples)) : \A c \in Channels :
        Chosen(smoothed_history[Slot(k)][c], samples, c, k)

\* What the last read returned is the mean over the second ring.
Returned ==
    Len(samples) > 0 => \A c \in Channels :
        data[c] = Total([i \in Slots |-> smoothed_history[i][c]], history_count) \div history_count

IInv == Typed /\ Ringed /\ Smoothed /\ Returned /\ StatsConsistent

\* There are as many latest positions as slots filled.
LEMMA LatestFacts ==
    ASSUME NEW n \in Nat
    PROVE  IsFiniteSet(Latest(n)) /\ Cardinality(Latest(n)) = Filled(n) /\ Filled(n) \in 0..5
<1>1. CASE n < 5
  <2>1. Latest(n) = 1..n /\ Filled(n) = n
    BY <1>1 DEF Latest, Filled, Window
  <2>2. QED
    BY <1>1, <2>1, FS_Interval
<1>2. CASE ~(n < 5)
  <2>1. Latest(n) = (n - 4)..n /\ Filled(n) = 5
    BY <1>2 DEF Latest, Filled, Window
  <2>2. n - 4 \in Int /\ n \in Int /\ ~(n - 4 > n) /\ n - (n - 4) + 1 = 5
    OBVIOUS
  <2>3. IsFiniteSet((n - 4)..n) /\ Cardinality((n - 4)..n) = 5
    BY <2>2, FS_Interval
  <2>4. QED
    BY <2>1, <2>3
<1>3. QED
  BY <1>1, <1>2

\* What the second ring holds is the median that the filter is meant to take.
LEMMA ChosenIsMedian ==
    ASSUME NEW k \in Nat, NEW c, \A i \in Latest(k) : samples[i][c] \in Int,
           NEW v, Chosen(v, samples, c, k)
    PROVE  MedianOf(c, k) = v /\ v \in Int
<1> DEFINE T == Latest(k)
           A == Column(samples, c, k)
           half == Cardinality(T) \div 2
           V == {samples[i][c] : i \in T}
<1>1. \A i \in T : A[i] = samples[i][c] /\ A[i] \in Int
  BY DEF Column
<1>2. half \in Nat /\ IsFiniteSet(T)
  BY LatestFacts
<1>3. v \in V /\ v \in Int /\ Middle(v, A, T, half)
  BY DEF Chosen
<1>4. ASSUME NEW w PROVE IsMedian(w, c, k) <=> Middle(w, A, T, half)
  <2>1. /\ {i \in T : samples[i][c] < w} = {i \in T : A[i] < w}
        /\ {i \in T : samples[i][c] <= w} = {i \in T : A[i] <= w}
    BY <1>1
  <2> HIDE DEF A
  <2>2. QED
    BY <2>1 DEF IsMedian, Middle
<1>5. MedianOf(c, k) = CHOOSE w \in V : IsMedian(w, c, k)
  BY DEF MedianOf
<1> HIDE DEF T, A, half
<1>6. \A w \in V : IsMedian(w, c, k) => w = v
  <2>1. TAKE w \in V
  <2>2. HAVE IsMedian(w, c, k)
  <2>3. w \in Int
    BY <1>1
  <2>4. Middle(w, A, T, half)
    BY <1>4, <2>2
  <2>5. \A i \in T : A[i] \in Int
    BY <1>1
  <2>6. QED
    BY <1>2, <1>3, <2>3, <2>4, <2>5, MiddleUnique
<1>7. IsMedian(v, c, k)
  BY <1>3, <1>4
<1> HIDE DEF V
<1>8. QED
  BY <1>3, <1>5, <1>6, <1>7

\* The samples are integers.
LEMMA SampleTypes ==
    ASSUME Typed
    PROVE  /\ Len(samples) \in Nat /\ samples \in Seq(Samples)
           /\ \A k \in 1..Len(samples) : samples[k] \in Samples
           /\ \A k \in 1..Len(samples) : \A c \in Channels : samples[k][c] \in Int
           /\ \A k \in Latest(Len(samples)) : k \in 1..Len(samples) /\ Slot(k) \in Slots
<1>1. samples \in Seq(Samples)
  BY DEF Typed, TypeOK
<1>2. Len(samples) \in Nat /\ \A k \in 1..Len(samples) : samples[k] \in Samples
  BY <1>1, LenProperties, ElementOfSeq
<1>3. \A x \in Samples : \A c \in Channels : x[c] \in Int
  BY DEF Samples
<1>4. \A k \in Latest(Len(samples)) : k \in 1..Len(samples)
  BY DEF Latest
<1>5. \A k \in 1..Len(samples) : Slot(k) \in Slots
  BY <1>2, SlotFacts
<1>6. QED
  BY <1>1, <1>2, <1>3, <1>4, <1>5

\* The rings in order are all that the filter's result needs.
LEMMA FilterFromRings ==
    ASSUME Typed, Smoothed, Returned
    PROVE  FilterMatchesReference
<1> DEFINE n == Len(samples)
<1>1. SUFFICES ASSUME n > 0, NEW c \in Channels
               PROVE  LET m == [k \in 0..n |-> IF k \in Latest(n) THEN MedianOf(c, k) ELSE 0]
                      IN data[c] = Total(m, n + 1) \div Cardinality(Latest(n))
  BY DEF FilterMatchesReference
<1> DEFINE m == [k \in 0..n |-> IF k \in Latest(n) THEN MedianOf(c, k) ELSE 0]
           r == [i \in Slots |-> smoothed_history[i][c]]
<1>2. /\ n \in Nat \ {0} /\ \A k \in Latest(n) : k \in 1..n /\ Slot(k) \in Slots
      /\ \A k \in 1..n : samples[k][c] \in Int
  BY <1>1, SampleTypes
<1>3. \A i \in Slots : r[i] \in Int
  BY DEF Typed, TypeOK, Samples
<1>4. ASSUME NEW k \in Latest(n) PROVE MedianOf(c, k) = r[Slot(k)] /\ MedianOf(c, k) \in Int
  <2>1. Slot(k) \in Slots /\ k \in Nat
    BY <1>2
  <2>2. \A i \in Latest(k) : samples[i][c] \in Int
    BY <1>2 DEF Latest
  <2>3. r[Slot(k)] = smoothed_history[Slot(k)][c]
    BY <2>1
  <2> HIDE DEF r, n
  <2>4. Chosen(r[Slot(k)], samples, c, k)
    BY <1>1, <2>3 DEF Smoothed, n
  <2>5. QED
    BY <2>1, <2>2, <2>4, ChosenIsMedian
<1>5. history_count = Filled(n) /\ Cardinality(Latest(n)) = Filled(n)
  BY <1>2, LatestFacts DEF Typed, TypeOK, Filled
<1>6. data[c] = Total(r, Filled(n)) \div Filled(n)
  BY <1>1, <1>5 DEF Returned
<1> HIDE DEF r
<1>7. \A k \in 0..n : m[k] \in Int /\ (k \notin Latest(n) => m[k] = 0)
  BY <1>4
<1>8. \A k \in Latest(n) : r[Slot(k)] = m[k]
  BY <1>2, <1>4
<1> HIDE DEF m, n
<1>9. Total(m, n + 1) = Total(r, Filled(n))
  BY <1>2, <1>3, <1>7, <1>8, RingTotal
<1>10. QED
  BY <1>5, <1>6, <1>9 DEF m

LEMMA Start == Init => IInv
<1> SUFFICES ASSUME Init PROVE IInv
  OBVIOUS
<1> USE DEF Init
<1>1. samples = << >> /\ Len(samples) = 0 /\ samples \in Seq(Samples)
  OBVIOUS
<1>2. Latest(Len(samples)) = {}
  BY <1>1 DEF Latest
<1>3. Zero \in Samples /\ offset \in Samples
  BY DEF Zero, Samples, Channels, Gravity
<1>4. TypeOK
  <2>1. 0 \in 0..MaxReads /\ 0 \in 0..MaxCalibrations /\ 0 < Window
    BY ForceSensorAssumption DEF Window
  <2>2. panel \in [force : Nat, count : Nat, max : Nat]
    OBVIOUS
  <2>3. history \in [Slots -> Samples] /\ smoothed_history \in [Slots -> Samples]
    BY <1>3
  <2>4. QED
    BY <1>1, <1>3, <2>1, <2>2, <2>3 DEF TypeOK
<1>5. Typed
  BY <1>1, <1>4 DEF Typed
<1>6. Ringed /\ Smoothed /\ Returned
  BY <1>1, <1>2 DEF Ringed, Smoothed, Returned
<1>7. StatsConsistent
  BY DEF StatsConsistent
<1>8. QED
  BY <1>5, <1>6, <1>7 DEF IInv

\* The filter's part of the state after a read.
LEMMA ReadStep ==
    ASSUME Typed, Ringed, Smoothed, NEW raw \in Raw, Len(samples) < MaxReads, ReadData(raw)
    PROVE  /\ samples' \in Seq(Samples) /\ Len(samples') = history_index'
           /\ history_index' \in 0..MaxReads /\ history_count' = Filled(history_index')
           /\ history' \in [Slots -> Samples] /\ smoothed_history' \in [Slots -> Samples]
           /\ data' \in Samples
           /\ Ringed' /\ Smoothed' /\ Returned'
<1> DEFINE n == Len(samples) + 1
           sample == [c \in Channels |-> raw[c] - offset[c]]
           F == Filled(n)
<1>1. /\ Len(samples) \in Nat /\ n \in Nat \ {0} /\ n <= MaxReads /\ MaxReads \in Nat
      /\ n - 1 = Len(samples) /\ history_index = n - 1
      /\ samples \in Seq(Samples) /\ \A k \in 1..(n - 1) : samples[k] \in Samples
  BY SampleTypes, ForceSensorAssumption DEF Typed
<1>2. sample \in Samples
  BY ForceSensorAssumption DEF Typed, TypeOK, Samples
<1>3. CountSample(history_count) = F /\ F \in 1..5
  BY <1>1 DEF Typed, TypeOK, CountSample, Filled, Window
<1>4. SmoothSlot(n) = Slot(n) /\ (n - 1) % Window = Slot(n) /\ Slot(n) \in Slots
  BY <1>1, SlotFacts DEF SmoothSlot, Slot
<1> DEFINE median == [c \in Channels |-> Median([i \in 1..F |-> history'[i - 1][c]], F)]
<1>5. /\ history' = [history EXCEPT ![Slot(n)] = sample]
      /\ history_index' = n /\ history_count' = F
      /\ smoothed_history' = [smoothed_history EXCEPT ![Slot(n)] = median]
      /\ data' = [c \in Channels |-> Total([i \in Slots |-> smoothed_history'[i][c]], F) \div F]
      /\ samples' = Append(samples, sample)
  <2> DEFINE C == CountSample(history_count)
             H == [history EXCEPT ![history_index % Window] = sample]
             M(h) == [c \in Channels |-> Median([i \in 1..C |-> h[i - 1][c]], C)]
             Q(h) == [smoothed_history EXCEPT ![SmoothSlot(history_index + 1)] = M(h)]
             D(q) == [c \in Channels |-> Total([i \in Slots |-> q[i][c]], C) \div C]
  <2>1. /\ history' = H /\ smoothed_history' = Q(H) /\ data' = D(Q(H))
        /\ history_index' = history_index + 1 /\ history_count' = C
        /\ samples' = Append(samples, sample)
    BY DEF ReadData
  <2>2. history_index + 1 = n /\ history_index % Window = Slot(n) /\ C = F
    BY <1>1, <1>3, <1>4
  <2>3. smoothed_history' = Q(history') /\ data' = D(smoothed_history')
    <3> HIDE DEF H, Q, D
    <3>1. QED
      BY <2>1
  <2> HIDE DEF sample, n, F, C
  <2>4. history' = [history EXCEPT ![Slot(n)] = sample]
    BY <2>1, <2>2
  <2> HIDE DEF H
  <2>5. M(history') = median /\ SmoothSlot(history_index + 1) = Slot(n)
    BY <1>4, <2>2
  <2> HIDE DEF M, median
  <2>6. smoothed_history' = [smoothed_history EXCEPT ![Slot(n)] = median]
    BY <2>3, <2>5
  <2>7. QED
    BY <2>1, <2>2, <2>3, <2>4, <2>6
<1> HIDE DEF sample, F, median
<1>6. /\ samples' \in Seq(Samples) /\ Len(samples') = n
      /\ \A k \in 1..(n - 1) : samples'[k] = samples[k]
      /\ samples'[n] = sample
  BY <1>1, <1>2, <1>5, AppendProperties
<1> HIDE DEF n
<1>7. history' \in [Slots -> Samples]
  BY <1>2, <1>5 DEF Typed, TypeOK
<1>8. \A k \in Latest(n) :
          /\ k \in 1..n /\ k \in Nat \ {0} /\ Slot(k) \in Slots
          /\ k # n => k \in Latest(n - 1) /\ k \in 1..(n - 1) /\ Slot(k) # Slot(n)
  <2>1. TAKE k \in Latest(n)
  <2>2. k \in 1..n /\ k > n - 5 /\ k \in Nat \ {0}
    BY <1>1 DEF Latest, Window
  <2>3. Slot(k) \in Slots
    BY <2>2, SlotFacts
  <2>4. ASSUME k # n PROVE k \in Latest(n - 1) /\ k \in 1..(n - 1) /\ Slot(k) # Slot(n)
    <3>1. k \in 1..(n - 1) /\ k > (n - 1) - 5 /\ n - k < 5 /\ k - n < 5
      BY <1>1, <2>2, <2>4
    <3>2. k \in Latest(n - 1)
      BY <3>1 DEF Latest, Window
    <3>3. Slot(k) # Slot(n)
      BY <1>1, <2>2, <2>4, <3>1, SlotsApart DEF Window
    <3>4. QED
      BY <3>1, <3>2, <3>3
  <2>5. QED
    BY <2>2, <2>3, <2>4
<1>9. Ringed'
  <2>1. ASSUME NEW k \in Latest(n) PROVE history'[Slot(k)] = samples'[k]
    <3>1. CASE k = n
      BY <1>4, <1>5, <1>6, <3>1 DEF Typed, TypeOK
    <3>2. CASE k # n
      <4>1. k \in Latest(n - 1) /\ k \in 1..(n - 1) /\ Slot(k) # Slot(n) /\ Slot(k) \in Slots
        BY <1>8, <3>2
      <4>2. history'[Slot(k)] = history[Slot(k)]
        BY <1>5, <4>1 DEF Typed, TypeOK
      <4>3. history[Slot(k)] = samples[k]
        BY <1>1, <4>1 DEF Ringed
      <4>4. QED
        BY <1>6, <4>1, <4>2, <4>3
    <3>3. QED
      BY <3>1, <3>2
  <2>2. QED
    BY <1>6, <2>1 DEF Ringed
<1>10. ASSUME NEW c \in Channels PROVE median[c] \in Int /\ Chosen(median[c], samples', c, n)
  <2> DEFINE a == [i \in 1..F |-> history'[i - 1][c]]
             A == Column(samples', c, n)
             T == Latest(n)
  <2>1. \A k \in T : history'[Slot(k)] = samples'[k]
    BY <1>6, <1>9 DEF Ringed
  <2>2. Arranged(a, A, 1..F, T)
    BY <1>1, <2>1, RingArranged DEF F
  <2>3. a \in [1..F -> Int]
    <3>1. ASSUME NEW i \in 1..F PROVE history'[i - 1][c] \in Int
      <4>1. i - 1 \in Slots
        BY <1>3 DEF Slots, Window
      <4>2. QED
        BY <1>7, <4>1 DEF Samples
    <3>2. QED
      BY <3>1
  <2>4. median[c] = Median(a, F)
    BY DEF median
  <2>5. \A k \in T : A[k] = samples'[k][c]
    BY DEF Column
  <2> HIDE DEF a, A, T
  <2>6. F \in Nat \ {0}
    BY <1>3
  <2>7. /\ median[c] \in Int /\ Cardinality(T) = F
        /\ \E k \in T : median[c] = A[k]
        /\ Middle(median[c], A, T, F \div 2)
    BY <2>2, <2>3, <2>4, <2>6, MedianFacts
  <2>8. QED
    BY <2>5, <2>7 DEF Chosen, A, T
<1>11. median \in Samples
  BY <1>10 DEF Samples, median
<1>12. smoothed_history' \in [Slots -> Samples]
  BY <1>5, <1>11 DEF Typed, TypeOK
<1>13. Smoothed'
  <2>1. ASSUME NEW k \in Latest(n), NEW c \in Channels
        PROVE  Chosen(smoothed_history'[Slot(k)][c], samples', c, k)
    <3>1. CASE k = n
      <4>1. smoothed_history'[Slot(k)] = median
        BY <1>4, <1>5, <3>1 DEF Typed, TypeOK
      <4>2. QED
        BY <1>10, <3>1, <4>1
    <3>2. CASE k # n
      <4>1. k \in Latest(n - 1) /\ k \in 1..(n - 1) /\ Slot(k) # Slot(n) /\ Slot(k) \in Slots
        BY <1>8, <3>2
      <4>2. smoothed_history'[Slot(k)] = smoothed_history[Slot(k)]
        BY <1>5, <4>1 DEF Typed, TypeOK
      <4> DEFINE v == smoothed_history[Slot(k)][c]
      <4>3. Chosen(v, samples, c, k)
        BY <1>1, <4>1 DEF Smoothed
      <4>4. \A i \in Latest(k) : samples'[i] = samples[i]
        BY <1>1, <1>6, <4>1 DEF Latest
      <4>5. Column(samples', c, k) = Column(samples, c, k)
        BY <4>4 DEF Column
      <4> HIDE DEF v
      <4>6. Chosen(v, samples', c, k)
        BY <4>3, <4>4, <4>5 DEF Chosen
      <4>7. QED
        BY <4>2, <4>6 DEF v
    <3>3. QED
      BY <3>1, <3>2
  <2>2. QED
    BY <1>6, <2>1 DEF Smoothed
<1>14. data' \in Samples
  <2>1. ASSUME NEW c \in Channels
        PROVE  Total([i \in Slots |-> smoothed_history'[i][c]], F) \in Int
    <3> DEFINE r == [i \in Slots |-> smoothed_history'[i][c]]
    <3>1. \A i \in Slots : r[i] \in Int
      BY <1>12 DEF Samples
    <3>2. F \in Nat /\ \A i \in 0..(F - 1) : i \in Slots
      BY <1>3 DEF Slots, Window
    <3> HIDE DEF r
    <3>3. PICK s : Partial(s, r, F) /\ Total(r, F) = s[F]
      BY <3>1, <3>2, TotalFacts
    <3>4. Total(r, F) \in Int
      BY <3>2, <3>3 DEF Partial
    <3>5. QED
      BY <3>4 DEF r
  <2>2. \A x \in Int : x \div F \in Int
    BY <1>3
  <2>3. QED
    BY <1>5, <2>1, <2>2 DEF Samples
<1>15. Returned'
  BY <1>5 DEF Returned
<1>16. QED
  BY <1>1, <1>5, <1>6, <1>7, <1>9, <1>12, <1>13, <1>14, <1>15 DEF F

\* The square of a magnitude is a number of its units squared.
LEMMA NormFacts ==
    ASSUME NEW f \in Samples
    PROVE  NormSq(f) \in Nat
<1>1. f.fx \in Int /\ f.fz \in Int
  BY DEF Samples, Channels
<1>2. \A x \in Int : x * x \in Int /\ x * x >= 0
  OBVIOUS
<1>3. QED
  BY <1>1, <1>2 DEF NormSq

LEMMA MainTurnStep ==
    ASSUME IInv, NEW raw \in Raw, MainTurn(raw)
    PROVE  IInv'
<1> USE DEF IInv
<1>1. /\ samples' \in Seq(Samples) /\ Len(samples') = history_index'
      /\ history_index' \in 0..MaxReads /\ history_count' = Filled(history_index')
      /\ history' \in [Slots -> Samples] /\ smoothed_history' \in [Slots -> Samples]
      /\ data' \in Samples
      /\ Ringed' /\ Smoothed' /\ Returned'
  BY ReadStep DEF MainTurn
<1>2. offset' = offset /\ calibrations' = calibrations
  BY DEF MainTurn
<1> DEFINE sq == NormSq(data')
<1>3. sq \in Nat
  BY <1>1, NormFacts
<1> HIDE DEF sq
<1>4. /\ hit_count' \in Nat /\ max_force_session' \in Nat
      /\ panel' \in [force : Nat, count : Nat, max : Nat]
      /\ StatsConsistent'
  <2> USE DEF Typed, TypeOK
  <2>1. CASE IsHit(data') /\ CountHit(NormSq(data')) /\ UpdateHitVisual(NormSq(data'))
    <3>1. sq >= 10000
      BY <2>1 DEF IsHit, FORCE_THRESHOLD, sq
    <3>2. /\ hit_count' = hit_count + 1
          /\ max_force_session' = IF sq > max_force_session THEN sq ELSE max_force_session
          /\ panel' = [force |-> sq, count |-> hit_count', max |-> max_force_session']
      BY <2>1 DEF CountHit, UpdateHitVisual, sq
    <3>3. /\ hit_count' \in Nat /\ hit_count' > 0
          /\ max_force_session' \in Nat /\ max_force_session' > 0 /\ sq <= max_force_session'
      BY <1>3, <3>1, <3>2
    <3>4. panel' \in [force : Nat, count : Nat, max : Nat]
      BY <1>3, <3>2, <3>3
    <3>5. StatsConsistent'
      BY <3>2, <3>3 DEF StatsConsistent
    <3>6. QED
      BY <3>3, <3>4, <3>5
  <2>2. CASE ~IsHit(data') /\ UNCHANGED stats
    BY <2>2 DEF stats, StatsConsistent
  <2>3. QED
    BY <2>1, <2>2 DEF MainTurn
<1>5. Typed'
  BY <1>1, <1>2, <1>4 DEF Typed, TypeOK, Filled
<1>6. QED
  BY <1>1, <1>4, <1>5

\* Nothing but a read touches the rings.
LEMMA RingsKept ==
    ASSUME Ringed, Smoothed, Returned, UNCHANGED <<ring, data, samples>>
    PROVE  Ringed' /\ Smoothed' /\ Returned'
BY DEF Ringed, Smoothed, Returned, ring

LEMMA ResetSessionStep ==
    ASSUME IInv, ResetSession
    PROVE  IInv'
<1> USE DEF IInv, ResetSession
<1>1. Ringed' /\ Smoothed' /\ Returned'
  BY RingsKept
<1>2. Typed'
  BY DEF ResetStats, ring, Typed, TypeOK
<1>3. StatsConsistent'
  BY DEF ResetStats, StatsConsistent
<1>4. QED
  BY <1>1, <1>2, <1>3

LEMMA CalibrateStep ==
    ASSUME IInv, NEW raw \in Raw, Calibrate(raw)
    PROVE  IInv'
<1> USE DEF IInv, Calibrate
<1>1. Ringed' /\ Smoothed' /\ Returned'
  BY RingsKept
<1>2. offset' \in Samples
  <2> DEFINE mean == [c \in Channels |-> ((cal_samples - 1) * Rest[c] + raw[c]) \div cal_samples]
  <2>1. \A c \in Channels : Rest[c] \in Int /\ raw[c] \in Int
    BY ForceSensorAssumption DEF Samples
  <2>2. mean \in [Channels -> Int]
    BY <2>1 DEF cal_samples
  <2>3. offset' = [mean EXCEPT !.fz = @ + Gravity]
    OBVIOUS
  <2> HIDE DEF mean
  <2>4. mean["fz"] + Gravity \in Int
    BY <2>2 DEF Channels, Gravity
  <2>5. offset' = [mean EXCEPT !["fz"] = mean["fz"] + Gravity]
    BY <2>3
  <2>6. QED
    BY <2>2, <2>4, <2>5 DEF Samples
<1>3. Typed'
  BY <1>2, ForceSensorAssumption DEF ring, stats, Typed, TypeOK
<1>4. StatsConsistent'
  BY DEF stats, StatsConsistent
<1>5. QED
  BY <1>1, <1>3, <1>4

LEMMA Invariance == Spec => []IInv
<1>1. IInv /\ [Next]_vars => IInv'
  <2> SUFFICES ASSUME IInv, [Next]_vars PROVE IInv'
    OBVIOUS
  <2>1. ASSUME NEW raw \in Raw, MainTurn(raw) PROVE IInv'
    BY <2>1, MainTurnStep
  <2>2. ASSUME NEW raw \in Raw, Calibrate(raw) PROVE IInv'
    BY <2>2, CalibrateStep
  <2>3. CASE ResetSession
    BY <2>3, ResetSessionStep
  <2>4. CASE UNCHANGED vars
    BY <2>4 DEF vars, ring, stats, IInv, Typed, TypeOK, Ringed, Smoothed, Returned, StatsConsistent
  <2>5. QED
    BY <2>1, <2>2, <2>3, <2>4 DEF Next
<1>2. QED
  BY Start, <1>1, PTL DEF Spec

-----------------------------------------------------------------------------
(* The results *)

\* Every value has its type, and the ring counts the samples read, up to its length.
THEOREM TypeCorrect == Spec => []TypeOK
<1>1. IInv => TypeOK
  BY DEF IInv, Typed
<1>2. QED
  BY Invariance, <1>1, PTL

\* gk_sensor_read_data returns the mean of the last five medians, each of the last five
\* samples, however many samples were read and whatever they were: the bubble sort, the
\* two rings with their shared index and the count of samples compute the filter.
THEOREM FilterCorrect == Spec => []FilterMatchesReference
<1>1. IInv => FilterMatchesReference
  BY FilterFromRings DEF IInv
<1>2. QED
  BY Invariance, <1>1, PTL

\* The hit count, the session's maximum and the panel agree after every turn of the main
\* task, every reset of the session and every calibration.
THEOREM StatsAgree == Spec => []StatsConsistent
<1>1. IInv => StatsConsistent
  BY DEF IInv
<1>2. QED
  BY Invariance, <1>1, PTL

\* The gravity offset has the wrong sign (force_sensor.c:87 and 337): the force that
\* gk_sensor_read_data computes from a sample at rest, -9.81 N on fz, counts as a hit, with
\* the offsets of gk_sensor_init and with those of a calibration made at rest.
THEOREM RestCounts ==
    ASSUME Rest = [fx |-> 0, fz |-> -Gravity]
    PROVE  /\ Init => IsHit([c \in Channels |-> Rest[c] - offset[c]])
           /\ Calibrate(Rest) => IsHit([c \in Channels |-> Rest[c] - offset'[c]])
<1> USE DEF Channels, Gravity, IsHit, NormSq, FORCE_THRESHOLD
<1>1. Rest.fx = 0 /\ Rest.fz = -196
  OBVIOUS
<1>2. ASSUME Init PROVE IsHit([c \in Channels |-> Rest[c] - offset[c]])
  <2>1. offset.fx = 0 /\ offset.fz = 196
    BY <1>2 DEF Init
  <2>2. QED
    BY <1>1, <2>1
<1>3. ASSUME Calibrate(Rest) PROVE IsHit([c \in Channels |-> Rest[c] - offset'[c]])
  <2> DEFINE mean == [c \in Channels |-> ((cal_samples - 1) * Rest[c] + Rest[c]) \div cal_samples]
  <2>1. offset' = [mean EXCEPT !.fz = @ + Gravity]
    BY <1>3 DEF Calibrate
  <2>2. mean.fx = 0 /\ mean.fz = -196
    BY <1>1 DEF cal_samples
  <2>3. offset'.fx = 0 /\ offset'.fz = 0
    BY <2>1, <2>2
  <2>4. QED
    BY <1>1, <2>3
<1>4. QED
  BY <1>2, <1>3
=============================================================================
