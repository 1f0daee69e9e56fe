--------------------------- MODULE EventBusProofs ---------------------------
(***************************************************************************)
(* Proofs about publish and subscribe, for any subscribers, publishers and *)
(* number of subscriptions and publications: the order of a dispatch, that *)
(* a one-time subscription is called once, and that a publication reaches  *)
(* the subscriptions in force, and no other, unless a node was created     *)
(* behind a lookup.                                                        *)
(***************************************************************************)
EXTENDS EventBus, ListFacts

-----------------------------------------------------------------------------
(* Lists of subscriptions *)

\* No two entries of a list are of the same subscriber, and none have the same id.
Single(list) ==
    \A i, j \in 1..Len(list) :
        list[i].sub = list[j].sub \/ list[i].id = list[j].id => i = j

\* Emergencies first, the others in the order of their subscription.
InOrder(list) ==
    \A i, j \in 1..Len(list) :
        i < j => /\ SubType[list[j].sub] = "EMERGENCY" => SubType[list[i].sub] = "EMERGENCY"
                 /\ SubType[list[i].sub] # "EMERGENCY" => list[i].id < list[j].id

\* In the order of subscription.
Ascending(list) == \A i, j \in 1..Len(list) : i < j => list[i].id < list[j].id

\* The ids on a list.
Ids(list) == {list[i].id : i \in 1..Len(list)}


\* Subscribers and ids of a list are those of its entries.
LEMMA ByEntry ==
    ASSUME NEW list
    PROVE  SubsOf(list) = {e.sub : e \in Elems(list)} /\ Ids(list) = {e.id : e \in Elems(list)}
BY DEF SubsOf, Ids, Elems

\* An entry's fields.
LEMMA EntryFields ==
    ASSUME NEW list \in Seq(Entries)
    PROVE  /\ Len(list) \in Nat
           /\ \A i \in 1..Len(list) : /\ list[i] \in Entries /\ list[i].sub \in Subs
                                      /\ list[i].id \in 1..MaxSubs /\ list[i].id \in Nat
<1>1. Len(list) \in Nat /\ \A i \in 1..Len(list) : list[i] \in Entries
  BY LenProperties, ElementOfSeq
<1>2. \A e \in Entries : e.sub \in Subs /\ e.id \in 1..MaxSubs /\ e.id \in Nat
  BY DEF Entries
<1>3. QED
  BY <1>1, <1>2

\* What is left when one entry is taken out.
LEMMA TakenOut ==
    ASSUME NEW s \in Seq(Entries), NEW r \in Seq(Entries), NEW k \in 1..Len(s), Without(r, s, k)
    PROVE  /\ Elems(r) \subseteq Elems(s)
           /\ Elems(s) \subseteq Elems(r) \cup {s[k]}
           /\ Single(s) => Single(r) /\ s[k].sub \notin SubsOf(r) /\ s[k].id \notin Ids(r)
           /\ InOrder(s) => InOrder(r)
           /\ Ascending(s) => Ascending(r)
<1> DEFINE old(i) == IF i < k THEN i ELSE i + 1
<1>1. Len(s) \in Nat /\ Len(r) = Len(s) - 1 /\ \A i \in 1..Len(r) : r[i] = s[old(i)]
  BY LenProperties DEF Without
<1>2. /\ \A i \in 1..Len(r) : old(i) \in 1..Len(s) /\ old(i) # k
      /\ \A i, j \in 1..Len(r) : i < j => old(i) < old(j)
      /\ \A i, j \in 1..Len(r) : old(i) = old(j) => i = j
  BY <1>1
<1>3. \A j \in 1..Len(s) : j # k => \E i \in 1..Len(r) : old(i) = j
  <2>1. ASSUME NEW j \in 1..Len(s), j < k PROVE j \in 1..Len(r) /\ old(j) = j
    BY <1>1, <2>1
  <2>2. ASSUME NEW j \in 1..Len(s), j > k PROVE j - 1 \in 1..Len(r) /\ old(j - 1) = j
    BY <1>1, <2>2
  <2>3. \A j \in 1..Len(s) : j = k \/ j < k \/ j > k
    BY <1>1
  <2> HIDE DEF old
  <2>4. QED
    BY <2>1, <2>2, <2>3
<1> HIDE DEF old
<1>4. Elems(r) \subseteq Elems(s)
  BY <1>1, <1>2 DEF Elems
<1>5. Elems(s) \subseteq Elems(r) \cup {s[k]}
  <2>1. ASSUME NEW j \in 1..Len(s), j # k PROVE s[j] \in Elems(r)
    <3>1. PICK i \in 1..Len(r) : old(i) = j
      BY <1>3, <2>1
    <3>2. r[i] = s[j]
      BY <1>1, <3>1
    <3>3. QED
      BY <3>2 DEF Elems
  <2>2. QED
    BY <2>1 DEF Elems
<1>6. ASSUME Single(s) PROVE Single(r) /\ s[k].sub \notin SubsOf(r) /\ s[k].id \notin Ids(r)
  <2>1. Single(r)
    <3>1. SUFFICES ASSUME NEW i \in 1..Len(r), NEW j \in 1..Len(r),
                          r[i].sub = r[j].sub \/ r[i].id = r[j].id
                   PROVE  i = j
      BY DEF Single
    <3>2. /\ old(i) \in 1..Len(s) /\ old(j) \in 1..Len(s)
          /\ r[i] = s[old(i)] /\ r[j] = s[old(j)]
      BY <1>1, <1>2
    <3>3. old(i) = old(j)
      BY <1>6, <3>1, <3>2 DEF Single
    <3>4. QED
      BY <1>2, <3>3
  <2>2. \A i \in 1..Len(r) : r[i].sub # s[k].sub /\ r[i].id # s[k].id
    BY <1>1, <1>2, <1>6 DEF Single
  <2>3. QED
    BY <2>1, <2>2 DEF SubsOf, Ids
<1>7. ASSUME InOrder(s) PROVE InOrder(r)
  <2>1. SUFFICES ASSUME NEW i \in 1..Len(r), NEW j \in 1..Len(r), i < j
                 PROVE  /\ SubType[r[j].sub] = "EMERGENCY" => SubType[r[i].sub] = "EMERGENCY"
                        /\ SubType[r[i].sub] # "EMERGENCY" => r[i].id < r[j].id
    BY DEF InOrder
  <2>2. /\ old(i) \in 1..Len(s) /\ old(j) \in 1..Len(s) /\ old(i) < old(j)
        /\ r[i] = s[old(i)] /\ r[j] = s[old(j)]
    BY <1>1, <1>2, <2>1
  <2>3. QED
    BY <1>7, <2>2 DEF InOrder
<1>8. Ascending(s) => Ascending(r)
  BY <1>1, <1>2 DEF Ascending
<1>9. QED
  BY <1>4, <1>5, <1>6, <1>7, <1>8

\* What there is when one entry is put in.
LEMMA PutIn ==
    ASSUME NEW s \in Seq(Entries), NEW r \in Seq(Entries), NEW p \in 1..(Len(s) + 1),
           NEW e \in Entries, Placed(r, s, p, e)
    PROVE  /\ Elems(r) = Elems(s) \cup {e}
           /\ Single(s) /\ e.sub \notin SubsOf(s) /\ e.id \notin Ids(s) => Single(r)
           /\ InOrder(s) /\ p = 1 /\ SubType[e.sub] = "EMERGENCY" => InOrder(r)
           /\ /\ InOrder(s) /\ p = Len(s) + 1 /\ SubType[e.sub] # "EMERGENCY"
              /\ \A x \in Ids(s) : x < e.id
              => InOrder(r)
           /\ /\ Ascending(s) /\ p = Len(s) + 1 /\ \A x \in Ids(s) : x < e.id
              => Ascending(r)
<1> DEFINE old(i) == IF i < p THEN i ELSE i - 1
<1>1. /\ Len(s) \in Nat /\ Len(r) = Len(s) + 1 /\ r[p] = e /\ p \in 1..Len(r)
      /\ \A i \in 1..Len(r) : i # p => r[i] = s[old(i)]
  BY LenProperties DEF Placed
<1>2. /\ \A i \in 1..Len(r) : i # p => old(i) \in 1..Len(s)
      /\ \A i, j \in 1..Len(r) :
           i # p /\ j # p => (i < j => old(i) < old(j)) /\ (old(i) = old(j) => i = j)
  BY <1>1
<1>3. \A j \in 1..Len(s) : \E i \in 1..Len(r) : i # p /\ old(i) = j
  <2>1. ASSUME NEW j \in 1..Len(s), j < p PROVE j \in 1..Len(r) /\ j # p /\ old(j) = j
    BY <1>1, <2>1
  <2>2. ASSUME NEW j \in 1..Len(s), j >= p PROVE j + 1 \in 1..Len(r) /\ j + 1 # p /\ old(j + 1) = j
    BY <1>1, <2>2
  <2>3. \A j \in 1..Len(s) : j < p \/ j >= p
    BY <1>1
  <2> HIDE DEF old
  <2>4. QED
    BY <2>1, <2>2, <2>3
<1> HIDE DEF old
<1>4. Elems(r) = Elems(s) \cup {e}
  <2>1. \A i \in 1..Len(r) : r[i] \in Elems(s) \cup {e}
    BY <1>1, <1>2 DEF Elems
  <2>2. ASSUME NEW j \in 1..Len(s) PROVE s[j] \in Elems(r)
    <3>1. PICK i \in 1..Len(r) : i # p /\ old(i) = j
      BY <1>3
    <3>2. r[i] = s[j]
      BY <1>1, <3>1
    <3>3. QED
      BY <3>2 DEF Elems
  <2>3. e \in Elems(r)
    BY <1>1 DEF Elems
  <2>4. QED
    BY <2>1, <2>2, <2>3 DEF Elems
<1>5. ASSUME Single(s), e.sub \notin SubsOf(s), e.id \notin Ids(s) PROVE Single(r)
  <2>1. \A i \in 1..Len(r) : i # p => r[i].sub # e.sub /\ r[i].id # e.id
    BY <1>1, <1>2, <1>5 DEF SubsOf, Ids
  <2>2. \A i, j \in 1..Len(r) : i # p /\ j # p /\ (r[i].sub = r[j].sub \/ r[i].id = r[j].id) => i = j
    BY <1>1, <1>2, <1>5 DEF Single
  <2>3. QED
    BY <1>1, <2>1, <2>2 DEF Single
<1>6. ASSUME InOrder(s), p = 1, SubType[e.sub] = "EMERGENCY" PROVE InOrder(r)
  <2>1. SUFFICES ASSUME NEW i \in 1..Len(r), NEW j \in 1..Len(r), i < j
                 PROVE  /\ SubType[r[j].sub] = "EMERGENCY" => SubType[r[i].sub] = "EMERGENCY"
                        /\ SubType[r[i].sub] # "EMERGENCY" => r[i].id < r[j].id
    BY DEF InOrder
  <2>2. j # p
    BY <1>1, <1>6, <2>1
  <2>3. CASE i = p
    BY <1>1, <1>6, <2>3
  <2>4. CASE i # p
    <3>1. /\ old(i) \in 1..Len(s) /\ old(j) \in 1..Len(s) /\ old(i) < old(j)
          /\ r[i] = s[old(i)] /\ r[j] = s[old(j)]
      BY <1>1, <1>2, <2>1, <2>2, <2>4
    <3>2. QED
      BY <1>6, <3>1 DEF InOrder
  <2>5. QED
    BY <2>3, <2>4
<1>7. ASSUME InOrder(s), p = Len(s) + 1, SubType[e.sub] # "EMERGENCY", \A x \in Ids(s) : x < e.id
      PROVE  InOrder(r)
  <2>1. SUFFICES ASSUME NEW i \in 1..Len(r), NEW j \in 1..Len(r), i < j
                 PROVE  /\ SubType[r[j].sub] = "EMERGENCY" => SubType[r[i].sub] = "EMERGENCY"
                        /\ SubType[r[i].sub] # "EMERGENCY" => r[i].id < r[j].id
    BY DEF InOrder
  <2>2. i # p
    BY <1>1, <1>7, <2>1
  <2>3. CASE j = p
    <3>1. old(i) \in 1..Len(s) /\ r[i] = s[old(i)]
      BY <1>1, <1>2, <2>2
    <3>2. r[i].id \in Ids(s)
      BY <3>1 DEF Ids
    <3>3. QED
      BY <1>1, <1>7, <2>3, <3>2
  <2>4. CASE j # p
    <3>1. /\ old(i) \in 1..Len(s) /\ old(j) \in 1..Len(s) /\ old(i) < old(j)
          /\ r[i] = s[old(i)] /\ r[j] = s[old(j)]
      BY <1>1, <1>2, <2>1, <2>2, <2>4
    <3>2. QED
      BY <1>7, <3>1 DEF InOrder
  <2>5. QED
    BY <2>3, <2>4
<1>8. ASSUME Ascending(s), p = Len(s) + 1, \A x \in Ids(s) : x < e.id PROVE Ascending(r)
  <2>1. SUFFICES ASSUME NEW i \in 1..Len(r), NEW j \in 1..Len(r), i < j
                 PROVE  r[i].id < r[j].id
    BY DEF Ascending
  <2>2. i # p
    BY <1>1, <1>8, <2>1
  <2>3. CASE j = p
    <3>1. old(i) \in 1..Len(s) /\ r[i] = s[old(i)]
      BY <1>1, <1>2, <2>2
    <3>2. r[i].id \in Ids(s)
      BY <3>1 DEF Ids
    <3>3. QED
      BY <1>1, <1>8, <2>3, <3>2
  <2>4. CASE j # p
    <3>1. /\ old(i) \in 1..Len(s) /\ old(j) \in 1..Len(s) /\ old(i) < old(j)
          /\ r[i] = s[old(i)] /\ r[j] = s[old(j)]
      BY <1>1, <1>2, <2>1, <2>2, <2>4
    <3>2. QED
      BY <1>8, <3>1 DEF Ascending
  <2>5. QED
    BY <2>3, <2>4
<1>9. QED
  BY <1>4, <1>5, <1>6, <1>7, <1>8

\* An entry added at the end, or in front, is put in at a place.
LEMMA EndsArePlaces ==
    ASSUME NEW s \in Seq(Entries), NEW e \in Entries
    PROVE  /\ Append(s, e) \in Seq(Entries) /\ Placed(Append(s, e), s, Len(s) + 1, e)
           /\ <<e>> \o s \in Seq(Entries) /\ Placed(<<e>> \o s, s, 1, e)
<1>1. Len(s) \in Nat
  BY LenProperties
<1>2. Append(s, e) \in Seq(Entries) /\ Placed(Append(s, e), s, Len(s) + 1, e)
  <2> DEFINE r == Append(s, e)
  <2>1. /\ r \in Seq(Entries) /\ Len(r) = Len(s) + 1 /\ r[Len(s) + 1] = e
        /\ \A i \in 1..Len(s) : r[i] = s[i]
    BY AppendProperties
  <2> HIDE DEF r
  <2>2. \A i \in 1..(Len(s) + 1) :
          i # Len(s) + 1 => r[i] = s[IF i < Len(s) + 1 THEN i ELSE i - 1]
    BY <1>1, <2>1
  <2>3. QED
    BY <2>1, <2>2 DEF Placed, r
<1>3. <<e>> \o s \in Seq(Entries) /\ Placed(<<e>> \o s, s, 1, e)
  <2> DEFINE r == <<e>> \o s
  <2>1. <<e>> \in Seq(Entries) /\ Len(<<e>>) = 1 /\ <<e>>[1] = e
    OBVIOUS
  <2>2. /\ r \in Seq(Entries) /\ Len(r) = 1 + Len(s)
        /\ \A i \in 1..(1 + Len(s)) : r[i] = IF i <= 1 THEN <<e>>[i] ELSE s[i - 1]
    BY <2>1, ConcatProperties
  <2> HIDE DEF r
  <2>3. 1 \in 1..(1 + Len(s)) /\ 1 + Len(s) = Len(s) + 1
    BY <1>1
  <2>4. r[1] = e
    BY <2>1, <2>2, <2>3
  <2>5. \A i \in 1..(Len(s) + 1) : i # 1 => r[i] = s[IF i < 1 THEN i ELSE i - 1]
    BY <1>1, <2>2, <2>3
  <2>6. QED
    BY <2>2, <2>3, <2>4, <2>5 DEF Placed, r
<1>4. QED
  BY <1>2, <1>3

\* The list r has the entries of s and e, still one for a subscriber.
Grown(r, s, e) ==
    /\ r \in Seq(Entries)
    /\ Elems(r) = Elems(s) \cup {e}
    /\ Single(r)

\* A new entry goes to the front or to the end of a node's list as its type says.
LEMMA Joined ==
    ASSUME NEW s \in Seq(Entries), NEW e \in Entries, Single(s), InOrder(s),
           e.sub \notin SubsOf(s), \A x \in Ids(s) : x < e.id, NEW r,
           r = IF SubType[e.sub] = "EMERGENCY" THEN <<e>> \o s ELSE Append(s, e)
    PROVE  Grown(r, s, e) /\ InOrder(r)
<1>1. Len(s) \in Nat /\ e.id \in Nat
  BY LenProperties DEF Entries
<1>2. e.id \notin Ids(s)
  BY <1>1
<1>3. CASE SubType[e.sub] = "EMERGENCY"
  <2>1. r \in Seq(Entries) /\ Placed(r, s, 1, e) /\ 1 \in 1..(Len(s) + 1)
    BY <1>1, <1>3, EndsArePlaces
  <2>2. QED
    BY <1>2, <1>3, <2>1, PutIn DEF Grown
<1>4. CASE SubType[e.sub] # "EMERGENCY"
  <2>1. r \in Seq(Entries) /\ Placed(r, s, Len(s) + 1, e)
    BY <1>4, EndsArePlaces
  <2>2. Len(s) + 1 \in 1..(Len(s) + 1)
    BY <1>1
  <2>3. QED
    BY <1>2, <1>4, <2>1, <2>2, PutIn DEF Grown
<1>5. QED
  BY <1>3, <1>4

\* A new entry goes to the end of the free list.
LEMMA JoinedFree ==
    ASSUME NEW s \in Seq(Entries), NEW e \in Entries, Single(s), Ascending(s),
           e.sub \notin SubsOf(s), \A x \in Ids(s) : x < e.id
    PROVE  Grown(Append(s, e), s, e) /\ Ascending(Append(s, e))
<1>1. Len(s) \in Nat /\ e.id \in Nat
  BY LenProperties DEF Entries
<1>2. e.id \notin Ids(s)
  BY <1>1
<1>3. Append(s, e) \in Seq(Entries) /\ Placed(Append(s, e), s, Len(s) + 1, e)
  BY EndsArePlaces
<1>4. Len(s) + 1 \in 1..(Len(s) + 1)
  BY <1>1
<1>5. QED
  BY <1>2, <1>3, <1>4, PutIn DEF Grown

\* Unsubscribing takes out the entry of that subscriber, and nothing else.
LEMMA Unlisted ==
    ASSUME NEW s \in Seq(Entries), NEW u, Single(s), NEW r, r = DelSubscribe(s, u)
    PROVE  /\ r \in Seq(Entries) /\ Single(r)
           /\ Elems(r) \subseteq Elems(s)
           /\ SubsOf(r) = SubsOf(s) \ {u}
           /\ InOrder(s) => InOrder(r)
           /\ Ascending(s) => Ascending(r)
<1> DEFINE P == {i \in 1..Len(s) : s[i].sub = u}
           k == Min(P)
<1>1. CASE u \notin SubsOf(s)
  <2>1. r = s
    BY <1>1 DEF DelSubscribe, RemoveFirstMatch, SubsOf
  <2>2. QED
    BY <1>1, <2>1
<1>2. CASE u \in SubsOf(s)
  <2>1. k \in 1..Len(s) /\ s[k].sub = u
    <3>1. P \in SUBSET Nat /\ P # {}
      BY <1>2, LenProperties DEF SubsOf
    <3>2. k \in P
      BY <3>1, MinFacts
    <3>3. QED
      BY <3>2
  <2>2. r = RemoveAt(s, k)
    BY <1>2 DEF DelSubscribe, RemoveFirstMatch, SelectInSeq, SubsOf
  <2> HIDE DEF k
  <2>3. r \in Seq(Entries) /\ Without(r, s, k)
    BY <2>1, <2>2, RemovedAt
  <2>4. /\ Elems(r) \subseteq Elems(s) /\ Elems(s) \subseteq Elems(r) \cup {s[k]}
        /\ Single(r) /\ s[k].sub \notin SubsOf(r)
        /\ InOrder(s) => InOrder(r)
        /\ Ascending(s) => Ascending(r)
    BY <2>1, <2>3, TakenOut
  <2>5. SubsOf(r) = SubsOf(s) \ {u}
    BY <2>1, <2>4, ByEntry
  <2>6. QED
    BY <2>3, <2>4, <2>5
<1>3. QED
  BY <1>1, <1>2

\* One turn of the loop of _event_node_create_init, that builds the list from what the
\* turns before left.
Turn(free, g, n) ==
    IF n = 0 THEN << >>
    ELSE IF SubType[free[n].sub] = "EMERGENCY" THEN <<free[n]>> \o g[n - 1]
    ELSE Append(g[n - 1], free[n])

\* The loop computes a list for each of its turns.
LEMMA LoopDefined ==
    ASSUME NEW free
    PROVE  Len(free) \in Nat =>
             \E g : /\ Collected(free) = g[Len(free)]
                    /\ \A n \in 0..Len(free) : g[n] = Turn(free, g, n)
<1> SUFFICES ASSUME Len(free) \in Nat
             PROVE  \E g : /\ Collected(free) = g[Len(free)]
                           /\ \A n \in 0..Len(free) : g[n] = Turn(free, g, n)
  OBVIOUS
<1> DEFINE Built(m) == \E g : g = [n \in 0..m |-> Turn(free, g, n)]
           P == {m \in Nat : Built(m)}
<1>1. 0 \in P
  <2> DEFINE g == [n \in 0..0 |-> << >>]
  <2>1. g = [n \in 0..0 |-> Turn(free, g, n)]
    BY DEF Turn
  <2>2. QED
    BY <2>1
<1>2. ASSUME NEW m \in 0..(Len(free) - 1), m \in P PROVE m + 1 \in P
  <2>1. PICK g : g = [n \in 0..m |-> Turn(free, g, n)]
    BY <1>2
  <2> DEFINE h == [n \in 0..(m + 1) |-> IF n = m + 1 THEN Turn(free, g, n) ELSE g[n]]
  <2>2. \A n \in 0..m : h[n] = g[n] /\ g[n] = Turn(free, g, n)
    BY <2>1
  <2>3. \A n \in 0..(m + 1) : n # 0 => h[n - 1] = g[n - 1]
    BY <2>2
  <2>4. \A n \in 0..(m + 1) : Turn(free, h, n) = Turn(free, g, n)
    BY <2>3 DEF Turn
  <2>5. \A n \in 0..(m + 1) : h[n] = Turn(free, h, n)
    <3>1. TAKE n \in 0..(m + 1)
    <3>2. CASE n = m + 1
      BY <2>4, <3>2
    <3>3. CASE n \in 0..m
      BY <2>2, <2>4, <3>3
    <3>4. QED
      BY <3>2, <3>3
  <2>6. h = [n \in 0..(m + 1) |-> Turn(free, h, n)]
    <3>1. h = [n \in 0..(m + 1) |-> h[n]]
      OBVIOUS
    <3> HIDE DEF h
    <3>2. QED
      BY <2>5, <3>1
  <2>7. m + 1 \in Nat
    BY <1>2
  <2> HIDE DEF h
  <2>8. Built(m + 1)
    BY <2>6, Zenon
  <2> HIDE DEF Built
  <2>9. QED
    BY <2>7, <2>8
<1>3. Built(Len(free))
  <2> HIDE DEF Built
  <2>1. \A m \in 0..Len(free) : m \in P
    <3>1. \A m \in 0..(Len(free) - 1) : m \in P => m + 1 \in P
      BY <1>2
    <3> HIDE DEF P
    <3>2. QED
      BY <1>1, <3>1, InductionTo
  <2>2. QED
    BY <2>1
<1> DEFINE root == CHOOSE g : g = [n \in 0..Len(free) |-> Turn(free, g, n)]
<1>4. root = [n \in 0..Len(free) |-> Turn(free, root, n)]
  BY <1>3
<1>5. Collected(free) = root[Len(free)]
  BY DEF Collected, Turn
<1> HIDE DEF root
<1>6. \A n \in 0..Len(free) : root[n] = Turn(free, root, n)
  BY <1>4
<1>7. QED
  BY <1>5, <1>6

\* The list of a new node has the free subscriptions, in the order of a dispatch.
LEMMA CollectedAll ==
    ASSUME NEW free \in Seq(Entries), Single(free), Ascending(free)
    PROVE  LET r == Collected(free)
           IN  r \in Seq(Entries) /\ Single(r) /\ InOrder(r) /\ Elems(r) = Elems(free)
<1>1. Len(free) \in Nat /\ \A i \in 1..Len(free) : free[i] \in Entries /\ free[i].id \in Nat
  BY EntryFields
<1>2. PICK g : /\ Collected(free) = g[Len(free)]
               /\ \A n \in 0..Len(free) : g[n] = Turn(free, g, n)
  BY <1>1, LoopDefined
<1> DEFINE First(n) == {free[i] : i \in 1..n}
           Good(n) == /\ g[n] \in Seq(Entries) /\ Single(g[n]) /\ InOrder(g[n])
                      /\ Elems(g[n]) = First(n)
           P == {n \in 0..Len(free) : Good(n)}
<1>3. 0 \in P
  <2>1. 0 \in 0..Len(free)
    BY <1>1
  <2>2. g[0] = << >>
    <3>1. g[0] = Turn(free, g, 0)
      BY <1>2, <2>1
    <3>2. Turn(free, g, 0) = << >>
      BY DEF Turn
    <3>3. QED
      BY <3>1, <3>2
  <2>3. << >> \in Seq(Entries) /\ Elems(<< >>) = {} /\ First(0) = {}
    BY DEF Elems
  <2>4. Single(<< >>) /\ InOrder(<< >>)
    BY DEF Single, InOrder
  <2> HIDE DEF First
  <2>5. Good(0)
    BY <2>2, <2>3, <2>4
  <2> HIDE DEF Good
  <2>6. QED
    BY <2>1, <2>5
<1>4. ASSUME NEW n \in 0..(Len(free) - 1), n \in P PROVE n + 1 \in P
  <2> DEFINE s == g[n]
             e == free[n + 1]
             r == g[n + 1]
  <2>1. n + 1 \in 0..Len(free) /\ n + 1 \in 1..Len(free) /\ n + 1 # 0 /\ (n + 1) - 1 = n /\ n \in Nat
    BY <1>1
  <2>2. r = IF SubType[e.sub] = "EMERGENCY" THEN <<e>> \o s ELSE Append(s, e)
    BY <1>2, <2>1 DEF Turn
  <2>3. s \in Seq(Entries) /\ Single(s) /\ InOrder(s) /\ Elems(s) = First(n)
    BY <1>4
  <2>4. e \in Entries
    BY <1>1, <2>1
  <2>5. \A i \in 1..n : free[i].id < e.id /\ free[i].sub # e.sub
    <3>1. \A i \in 1..n : i \in 1..Len(free) /\ i < n + 1
      BY <1>1
    <3>2. QED
      BY <2>1, <3>1 DEF Ascending, Single
  <2>6. e.sub \notin SubsOf(s) /\ \A x \in Ids(s) : x < e.id
    <3>1. \A y \in Elems(s) : y.id < e.id /\ y.sub # e.sub
      BY <2>3, <2>5
    <3>2. QED
      BY <3>1, ByEntry
  <2>7. First(n + 1) = First(n) \cup {e}
    <3>1. 1..(n + 1) = (1..n) \cup {n + 1}
      BY <2>1
    <3>2. QED
      BY <3>1
  <2> HIDE DEF s, e, r, First
  <2>8. Grown(r, s, e) /\ InOrder(r)
    BY <2>2, <2>3, <2>4, <2>6, Joined
  <2>9. Good(n + 1)
    BY <2>3, <2>7, <2>8 DEF Grown, r
  <2>10. QED
    BY <2>1, <2>9
<1>5. \A n \in 0..Len(free) : n \in P
  <2>1. \A n \in 0..(Len(free) - 1) : n \in P => n + 1 \in P
    BY <1>4
  <2> HIDE DEF P
  <2>2. QED
    BY <1>1, <1>3, <2>1, InductionTo
<1>6. Good(Len(free))
  BY <1>1, <1>5
<1>7. First(Len(free)) = Elems(free)
  BY DEF Elems
<1>8. QED
  BY <1>2, <1>6, <1>7

-----------------------------------------------------------------------------
(* The inductive invariant *)

Nodes == 1..Len(event_root)

Typed ==
    /\ event_root \in Seq(Seq(Entries))
    /\ free_subscribe_root \in Seq(Entries)
    /\ mutex \in Seq(Publishers \cup {Nobody}) /\ Len(mutex) = Len(event_root)
    /\ at \in [Threads -> {"idle", "subscribe", "unsubscribe", "create", "publish",
                           "dispatch", "return"}]
    /\ found \in [Threads -> 0..Len(event_root)]
    /\ todo \in [Publishers -> Seq(Entries)]
    /\ entered \in 0..MaxSubs
    /\ published \in 0..MaxPubs
    /\ subscribed \subseteq Subs
    /\ unsubscribed \subseteq Subs
    /\ owed \in [Publishers -> SUBSET Subs]
    /\ used \subseteq 1..MaxSubs
    /\ overtaken \in BOOLEAN

\* A publisher past its lookup has a node; one that dispatches has its mutex, and what
\* it has still to call is on the node's list.
Holding ==
    \A p \in Publishers :
        /\ at[p] = "create" => found[p] = 0
        /\ at[p] \in {"publish", "dispatch", "return"} => found[p] # 0
        /\ at[p] # "dispatch" => todo[p] = << >>
        /\ at[p] = "dispatch" => /\ mutex[found[p]] = p
                                /\ Elems(todo[p]) \subseteq Elems(event_root[found[p]])

\* Each list by itself.
Ordered ==
    /\ Single(free_subscribe_root) /\ Ascending(free_subscribe_root)
    /\ \A n \in Nodes : Single(event_root[n]) /\ InOrder(event_root[n])
    /\ \A p \in Publishers : Single(todo[p]) /\ InOrder(todo[p])

\* An id is given once: no two lists have it, and none has one that was used up.
Apart ==
    /\ \A x \in used : x <= entered
    /\ \A x \in Ids(free_subscribe_root) : x <= entered /\ x \notin used
    /\ \A n \in Nodes : \A x \in Ids(event_root[n]) :
         /\ x <= entered /\ x \notin used /\ x \notin Ids(free_subscribe_root)
         /\ \A m \in Nodes : m # n => x \notin Ids(event_root[m])

\* The list that holds the subscriptions while there is at most one node.
Current == IF event_root = << >> THEN free_subscribe_root ELSE event_root[1]

\* What is between a subscriber's two calls.
Turns ==
    /\ \A s \in unsubscribed : s \notin subscribed /\ at[s] # "subscribe"
    /\ \A s \in subscribed : at[s] # "unsubscribe"
    /\ \A p \in Publishers : owed[p] \subseteq {s \in subscribed : SubType[s] = "NORMAL"}
    /\ \A s \in Subs : at[s] \in {"idle", "subscribe", "unsubscribe"}
    /\ \A p \in Publishers : at[p] \notin {"subscribe", "unsubscribe"}

\* While no node was created behind a lookup there is one list,
OneList ==
    ~overtaken =>
        /\ Len(event_root) <= 1
        /\ event_root # << >> =>
             /\ free_subscribe_root = << >>
             /\ \A t \in Threads : at[t] \in {"subscribe", "unsubscribe", "create"} => found[t] # 0

\* with every subscription that is in force and none that was withdrawn,
InForce ==
    ~overtaken =>
        /\ \A s \in subscribed : SubType[s] = "NORMAL" => s \in SubsOf(Current)
        /\ SubsOf(Current) \cap unsubscribed = {}

\* and a dispatch has still to call what it owes, and nobody that withdrew.
Reaching ==
    ~overtaken =>
        \A p \in Publishers :
             /\ at[p] = "dispatch" => owed[p] \subseteq SubsOf(todo[p])
             /\ at[p] = "return" => owed[p] = {}
             /\ SubsOf(todo[p]) \cap unsubscribed = {}

IInv == /\ Typed /\ Holding /\ Ordered /\ Apart /\ Turns
        /\ OneList /\ InForce /\ Reaching

-----------------------------------------------------------------------------
(* What a step does to the lists *)

\* The list r of node n replaces the one it had.
Replaced(n, r) ==
    /\ n \in Nodes /\ r \in Seq(Entries)
    /\ event_root' = [event_root EXCEPT ![n] = r]

\* Every other node keeps its list.
LEMMA OthersKept ==
    ASSUME NEW n, NEW r, event_root \in Seq(Seq(Entries)), Replaced(n, r)
    PROVE  /\ event_root' \in Seq(Seq(Entries)) /\ Len(event_root') = Len(event_root)
           /\ Nodes' = Nodes /\ event_root'[n] = r
           /\ \A m \in Nodes : m # n => event_root'[m] = event_root[m]
<1>1. n \in 1..Len(event_root) /\ r \in Seq(Entries)
  BY DEF Replaced, Nodes
<1>2. /\ event_root' \in Seq(Seq(Entries)) /\ Len(event_root') = Len(event_root)
      /\ \A j \in 1..Len(event_root) : event_root'[j] = IF j = n THEN r ELSE event_root[j]
  BY <1>1, ExceptSeq DEF Replaced
<1>3. QED
  BY <1>1, <1>2 DEF Nodes

\* The list r is s, with e on it unless its subscriber was.
Entered(r, s, e) ==
    /\ r \in Seq(Entries) /\ Single(r)
    /\ Elems(r) \subseteq Elems(s) \cup {e}
    /\ SubsOf(r) = SubsOf(s) \cup {e.sub}

\* A subscription is entered into a node's list,
LEMMA EnteredNode ==
    ASSUME NEW s \in Seq(Entries), NEW e \in Entries, Single(s), InOrder(s),
           \A x \in Ids(s) : x < e.id
    PROVE  Entered(AddSubscribe(s, e), s, e) /\ InOrder(AddSubscribe(s, e))
<1> DEFINE r == AddSubscribe(s, e)
<1>1. CASE e.sub \in SubsOf(s)
  <2>1. r = s
    BY <1>1 DEF AddSubscribe
  <2> HIDE DEF r
  <2>2. QED
    BY <1>1, <2>1 DEF Entered, r
<1>2. CASE e.sub \notin SubsOf(s)
  <2>1. r = IF SubType[e.sub] = "EMERGENCY" THEN <<e>> \o s ELSE Append(s, e)
    BY <1>2 DEF AddSubscribe
  <2> HIDE DEF r
  <2>2. Grown(r, s, e) /\ InOrder(r)
    BY <1>2, <2>1, Joined
  <2>3. SubsOf(r) = SubsOf(s) \cup {e.sub}
    BY <2>2, ByEntry DEF Grown
  <2>4. QED
    BY <2>2, <2>3 DEF Grown, Entered, r
<1>3. QED
  BY <1>1, <1>2

\* or into the free list.
LEMMA EnteredFree ==
    ASSUME NEW s \in Seq(Entries), NEW e \in Entries, Single(s), Ascending(s),
           \A x \in Ids(s) : x < e.id
    PROVE  Entered(AddFreeSubscribe(s, e), s, e) /\ Ascending(AddFreeSubscribe(s, e))
<1> DEFINE r == AddFreeSubscribe(s, e)
<1>1. CASE e.sub \in SubsOf(s)
  <2>1. r = s
    BY <1>1 DEF AddFreeSubscribe
  <2> HIDE DEF r
  <2>2. QED
    BY <1>1, <2>1 DEF Entered, r
<1>2. CASE e.sub \notin SubsOf(s)
  <2>1. r = Append(s, e)
    BY <1>2 DEF AddFreeSubscribe
  <2> HIDE DEF r
  <2>2. Grown(r, s, e) /\ Ascending(r)
    BY <1>2, <2>1, JoinedFree
  <2>3. SubsOf(r) = SubsOf(s) \cup {e.sub}
    BY <2>2, ByEntry DEF Grown
  <2>4. QED
    BY <2>2, <2>3 DEF Grown, Entered, r
<1>3. QED
  BY <1>1, <1>2

\* The number a subscription gets is above all in use.
NewEntry(s) == [sub |-> s, id |-> entered + 1]

\* A subscription goes to the list its lookup found, and the rest stays.
LEMMA SubscribeLists ==
    ASSUME Typed, Ordered, Apart, NEW s \in Subs, Subscribe(s)
    PROVE  LET e == NewEntry(s)
           IN  \/ /\ found[s] = 0 /\ UNCHANGED event_root
                  /\ Entered(free_subscribe_root', free_subscribe_root, e)
                  /\ Ascending(free_subscribe_root')
               \/ /\ found[s] # 0 /\ mutex[found[s]] = Nobody
                  /\ UNCHANGED free_subscribe_root
                  /\ \E r : /\ Replaced(found[s], r) /\ InOrder(r)
                            /\ Entered(r, event_root[found[s]], e)
<1> DEFINE e == NewEntry(s)
           n == found[s]
<1>1. e \in Entries /\ e.sub = s /\ e.id = entered + 1 /\ entered \in Nat
  BY EventBusAssumption DEF Typed, Subscribe, NewEntry, Entries
<1>2. n \in 0..Len(event_root)
  BY DEF Typed, Threads
<1>3. CASE n = 0
  <2>1. UNCHANGED event_root /\ free_subscribe_root' = AddFreeSubscribe(free_subscribe_root, e)
    BY <1>3 DEF Subscribe, NewEntry
  <2>2. \A x \in Ids(free_subscribe_root) : x < e.id
    <3>1. \A x \in Ids(free_subscribe_root) : x \in Nat /\ x <= entered
      BY EntryFields DEF Typed, Apart, Ids
    <3>2. QED
      BY <1>1, <3>1
  <2> HIDE DEF e
  <2>3. Entered(free_subscribe_root', free_subscribe_root, e) /\ Ascending(free_subscribe_root')
    BY <1>1, <2>1, <2>2, EnteredFree DEF Typed, Ordered
  <2>4. QED
    BY <1>3, <2>1, <2>3 DEF e
<1>4. CASE n # 0
  <2> DEFINE old == event_root[n]
             r == AddSubscribe(old, e)
  <2>1. /\ UNCHANGED free_subscribe_root /\ mutex[n] = Nobody
        /\ event_root' = [event_root EXCEPT ![n] = r]
    BY <1>4 DEF Subscribe, NewEntry
  <2>2. n \in 1..Len(event_root) /\ n \in Nodes
    <3>1. Len(event_root) \in Nat
      BY LenProperties DEF Typed
    <3>2. QED
      BY <1>2, <1>4, <3>1 DEF Nodes
  <2>3. old \in Seq(Entries) /\ Single(old) /\ InOrder(old)
    BY <2>2, ElementOfSeq DEF Typed, Ordered
  <2>4. \A x \in Ids(old) : x < e.id
    <3> HIDE DEF e
    <3>1. \A x \in Ids(old) : x \in Nat /\ x <= entered
      <4>1. \A x \in Ids(old) : x <= entered
        BY <2>2 DEF Apart
      <4> HIDE DEF old
      <4>2. \A x \in Ids(old) : x \in Nat
        BY <2>3, EntryFields DEF Ids
      <4>3. QED
        BY <4>1, <4>2
    <3>2. QED
      BY <1>1, <3>1
  <2> HIDE DEF e, old
  <2>5. Entered(r, old, e) /\ InOrder(r)
    BY <1>1, <2>3, <2>4, EnteredNode
  <2> HIDE DEF r
  <2>6. Replaced(n, r)
    BY <2>1, <2>2, <2>5 DEF Replaced, Entered
  <2>7. QED
    BY <1>4, <2>1, <2>5, <2>6 DEF e, old
<1>5. QED
  BY <1>3, <1>4

\* Unsubscribing takes the subscriber off the list its lookup found.
LEMMA UnsubscribeLists ==
    ASSUME Typed, Ordered, NEW s \in Subs, Unsubscribe(s)
    PROVE  \/ /\ found[s] = 0 /\ UNCHANGED event_root
              /\ free_subscribe_root' = DelSubscribe(free_subscribe_root, s)
              /\ free_subscribe_root' \in Seq(Entries)
           \/ /\ found[s] # 0 /\ mutex[found[s]] = Nobody
              /\ UNCHANGED free_subscribe_root
              /\ Replaced(found[s], DelSubscribe(event_root[found[s]], s))
<1> DEFINE n == found[s]
<1>1. n \in 0..Len(event_root) /\ Len(event_root) \in Nat
  BY LenProperties DEF Typed, Threads
<1>2. CASE n = 0
  <2>1. UNCHANGED event_root /\ free_subscribe_root' = DelSubscribe(free_subscribe_root, s)
    BY <1>2 DEF Unsubscribe
  <2>2. free_subscribe_root' \in Seq(Entries)
    BY <2>1, Unlisted DEF Typed, Ordered
  <2>3. QED
    BY <1>2, <2>1, <2>2
<1>3. CASE n # 0
  <2> DEFINE old == event_root[n]
             r == DelSubscribe(old, s)
  <2>1. /\ UNCHANGED free_subscribe_root /\ mutex[n] = Nobody
        /\ event_root' = [event_root EXCEPT ![n] = r]
    BY <1>3 DEF Unsubscribe
  <2>2. n \in 1..Len(event_root) /\ n \in Nodes
    BY <1>1, <1>3 DEF Nodes
  <2>3. old \in Seq(Entries) /\ Single(old)
    BY <2>2, ElementOfSeq DEF Typed, Ordered
  <2> HIDE DEF old
  <2>4. r \in Seq(Entries)
    BY <2>3, Unlisted
  <2>5. QED
    BY <1>3, <2>1, <2>2, <2>4 DEF Replaced, old
<1>4. QED
  BY <1>2, <1>3

\* The list r is s without its entry e.
Cut(r, s, e) ==
    /\ r \in Seq(Entries) /\ Single(r) /\ InOrder(r)
    /\ Elems(r) \subseteq Elems(s) /\ Elems(s) \subseteq Elems(r) \cup {e}
    /\ e.sub \notin SubsOf(r) /\ e.id \notin Ids(r)

\* A callback was called: the pass goes on with the rest,
LEMMA RestCut ==
    ASSUME NEW s \in Seq(Entries), s # << >>, Single(s), InOrder(s)
    PROVE  Head(s) \in Entries /\ Head(s) \in Elems(s) /\ Cut(Tail(s), s, Head(s))
<1>1. Len(s) \in Nat \ {0}
  BY EmptySeq
<1>2. 1 \in 1..Len(s) /\ Head(s) = s[1]
  BY <1>1
<1>3. /\ Head(s) \in Entries /\ Tail(s) \in Seq(Entries) /\ Len(Tail(s)) = Len(s) - 1
      /\ \A i \in 1..Len(Tail(s)) : Tail(s)[i] = s[i + 1]
  BY HeadTailProperties
<1> DEFINE r == Tail(s)
<1> HIDE DEF r
<1>4. Without(r, s, 1)
  BY <1>1, <1>3 DEF Without, r
<1>5. r \in Seq(Entries)
  BY <1>3 DEF r
<1>6. Head(s) \in Elems(s)
  BY <1>2 DEF Elems
<1>7. Cut(r, s, Head(s))
  <2>1. /\ Elems(r) \subseteq Elems(s) /\ Elems(s) \subseteq Elems(r) \cup {s[1]}
        /\ Single(r) /\ s[1].sub \notin SubsOf(r) /\ s[1].id \notin Ids(r) /\ InOrder(r)
    BY <1>2, <1>4, <1>5, TakenOut
  <2>2. QED
    BY <1>2, <1>5, <2>1 DEF Cut
<1>8. QED
  BY <1>3, <1>6, <1>7 DEF r

\* and a one-time subscription is taken off the node's list.
LEMMA EntryCut ==
    ASSUME NEW s \in Seq(Entries), NEW e \in Elems(s), Single(s), InOrder(s)
    PROVE  Cut(RemoveFirst(s, e), s, e)
<1> DEFINE r == RemoveFirst(s, e)
<1>1. PICK k \in 1..Len(s) : s[k] = e /\ r \in Seq(Entries) /\ Without(r, s, k)
  BY RemovedFirst
<1> HIDE DEF r
<1>2. /\ Elems(r) \subseteq Elems(s) /\ Elems(s) \subseteq Elems(r) \cup {s[k]}
      /\ Single(r) /\ s[k].sub \notin SubsOf(r) /\ s[k].id \notin Ids(r) /\ InOrder(r)
  BY <1>1, TakenOut
<1>3. QED
  BY <1>1, <1>2 DEF Cut, r

\* One turn of a dispatch.
LEMMA DispatchLists ==
    ASSUME Typed, Holding, Ordered, NEW p \in Publishers, DispatchOne(p)
    PROVE  LET e == Head(todo[p])
               n == found[p]
           IN  /\ n \in Nodes /\ mutex[n] = p
               /\ e \in Entries /\ e \in Elems(todo[p]) /\ e \in Elems(event_root[n])
               /\ Cut(todo'[p], todo[p], e)
               /\ \A q \in Publishers : q # p => todo'[q] = todo[q]
               /\ \/ /\ SubType[e.sub] = "ONETIME" /\ used' = used \cup {e.id}
                     /\ \E r : Replaced(n, r) /\ Cut(r, event_root[n], e)
                  \/ SubType[e.sub] # "ONETIME" /\ UNCHANGED <<event_root, used>>
<1> DEFINE s == todo[p]
           e == Head(s)
           n == found[p]
<1>1. s \in Seq(Entries) /\ s # << >> /\ Single(s) /\ InOrder(s)
  BY DEF Typed, Ordered, DispatchOne
<1>2. todo'[p] = Tail(s) /\ \A q \in Publishers : q # p => todo'[q] = todo[q]
  BY DEF Typed, DispatchOne
<1>3. n \in Nodes /\ mutex[n] = p /\ Elems(s) \subseteq Elems(event_root[n])
  <2>1. n \in 0..Len(event_root) /\ Len(event_root) \in Nat
    BY LenProperties DEF Typed, Threads
  <2>2. n # 0 /\ mutex[n] = p /\ Elems(s) \subseteq Elems(event_root[n])
    BY DEF Holding, DispatchOne
  <2>3. QED
    BY <2>1, <2>2 DEF Nodes
<1>4. e \in Entries /\ e \in Elems(s) /\ Cut(todo'[p], s, e)
  <2> HIDE DEF s
  <2>1. QED
    BY <1>1, <1>2, RestCut
<1>5. /\ SubType[e.sub] = "ONETIME" =>
           used' = used \cup {e.id} /\ event_root' = [event_root EXCEPT ![n] = RemoveFirst(@, e)]
      /\ SubType[e.sub] # "ONETIME" => UNCHANGED <<event_root, used>>
  BY DEF DispatchOne
<1>6. CASE SubType[e.sub] = "ONETIME"
  <2> DEFINE old == event_root[n]
             r == RemoveFirst(old, e)
  <2>1. event_root' = [event_root EXCEPT ![n] = r]
    BY <1>5, <1>6
  <2>2. old \in Seq(Entries) /\ Single(old) /\ InOrder(old)
    BY <1>3, ElementOfSeq DEF Typed, Ordered, Nodes
  <2>3. e \in Elems(old)
    BY <1>3, <1>4
  <2> HIDE DEF old, e
  <2>4. Cut(r, old, e)
    BY <2>2, <2>3, EntryCut
  <2> HIDE DEF r
  <2>5. Replaced(n, r)
    BY <1>3, <2>1, <2>4 DEF Replaced, Cut
  <2>6. QED
    BY <1>2, <1>3, <1>4, <1>5, <1>6, <2>4, <2>5 DEF old, e
<1>7. CASE SubType[e.sub] # "ONETIME"
  <2> HIDE DEF e
  <2>1. QED
    BY <1>2, <1>3, <1>4, <1>5, <1>7 DEF e
<1>8. QED
  BY <1>6, <1>7

\* A new node stands behind the others, with the free subscriptions.
LEMMA CreateLists ==
    ASSUME Typed, Ordered, NEW p \in Publishers, CreateNode(p)
    PROVE  LET n == Len(event_root) + 1
           IN  /\ event_root' \in Seq(Seq(Entries)) /\ Len(event_root') = n
               /\ Nodes' = Nodes \cup {n} /\ n \notin Nodes
               /\ \A m \in Nodes : event_root'[m] = event_root[m]
               /\ Single(event_root'[n]) /\ InOrder(event_root'[n])
               /\ Elems(event_root'[n]) = Elems(free_subscribe_root)
               /\ free_subscribe_root' = << >>
<1> DEFINE r == Collected(free_subscribe_root)
<1>1. r \in Seq(Entries) /\ Single(r) /\ InOrder(r) /\ Elems(r) = Elems(free_subscribe_root)
  BY CollectedAll DEF Typed, Ordered
<1>2. event_root' = Append(event_root, r) /\ free_subscribe_root' = << >>
  BY DEF CreateNode
<1> HIDE DEF r
<1>3. event_root \in Seq(Seq(Entries)) /\ Len(event_root) \in Nat
  BY LenProperties DEF Typed
<1>4. /\ event_root' \in Seq(Seq(Entries)) /\ Len(event_root') = Len(event_root) + 1
      /\ event_root'[Len(event_root) + 1] = r
      /\ \A m \in 1..Len(event_root) : event_root'[m] = event_root[m]
  BY <1>1, <1>2, <1>3, AppendProperties
<1>5. Nodes' = Nodes \cup {Len(event_root) + 1} /\ Len(event_root) + 1 \notin Nodes
  BY <1>3, <1>4 DEF Nodes
<1>6. QED
  BY <1>1, <1>2, <1>4, <1>5 DEF Nodes

\* A lookup finds the first node, if there is one.
LEMMA LookupFound ==
    ASSUME Typed
    PROVE  /\ Lookup \in 0..Len(event_root) /\ Len(event_root) \in Nat
           /\ Lookup = 0 <=> event_root = << >>
<1>1. Len(event_root) \in Nat /\ (event_root # << >> => Len(event_root) \in Nat \ {0})
  BY EmptySeq, LenProperties DEF Typed
<1>2. QED
  BY <1>1 DEF Lookup

-----------------------------------------------------------------------------
(* Each part of the invariant is kept *)

\* The steps that change no list.
Quiet ==
    \/ \E s \in Subs : SubscribeLookup(s) \/ UnsubscribeLookup(s)
    \/ \E p \in Publishers : PublishLookup(p) \/ DispatchEnd(p) \/ PublishReturn(p)

\* They leave the lists, the passes and the ids as they are.
LEMMA QuietLists ==
    ASSUME Quiet
    PROVE  UNCHANGED <<event_root, free_subscribe_root, todo, entered, used, overtaken>>
BY DEF Quiet, SubscribeLookup, UnsubscribeLookup, PublishLookup, DispatchEnd, PublishReturn

\* The steps there are.
LEMMA Steps ==
    ASSUME Next
    PROVE  \/ Quiet
           \/ \E s \in Subs : Subscribe(s) \/ Unsubscribe(s)
           \/ \E p \in Publishers : CreateNode(p) \/ DispatchBegin(p) \/ DispatchOne(p)
BY DEF Next, Quiet

\* A subscriber is no publisher, and the holder of a free mutex is neither.
LEMMA Apartness == /\ \A s \in Subs : s \in Threads /\ s \notin Publishers
                   /\ \A p \in Publishers : p \in Threads /\ p \notin Subs /\ p # Nobody
BY EventBusAssumption DEF Threads

\* Types, while subscribing and unsubscribing,
LEMMA TypedSubs ==
    ASSUME IInv, NEW s \in Subs,
           SubscribeLookup(s) \/ Subscribe(s) \/ UnsubscribeLookup(s) \/ Unsubscribe(s)
    PROVE  Typed'
<1> USE DEF IInv
<1>1. s \in Threads
  BY Apartness
<1>2. CASE SubscribeLookup(s)
  BY <1>1, <1>2, LookupFound DEF Typed, SubscribeLookup
<1>3. CASE Subscribe(s)
  <2>1. /\ event_root' \in Seq(Seq(Entries)) /\ Len(event_root') = Len(event_root)
        /\ free_subscribe_root' \in Seq(Entries)
    <3>1. CASE found[s] = 0
      BY <1>3, <3>1, SubscribeLists DEF Typed, Entered
    <3>2. CASE found[s] # 0
      <4>1. UNCHANGED free_subscribe_root /\ \E r : Replaced(found[s], r)
        BY <1>3, <3>2, SubscribeLists
      <4>2. QED
        BY <4>1, OthersKept DEF Typed
    <3>3. QED
      BY <3>1, <3>2
  <2>2. Len(event_root) \in Nat /\ entered' \in 0..MaxSubs
    BY <1>3, EventBusAssumption, LenProperties DEF Typed, Subscribe
  <2>3. QED
    BY <1>1, <1>3, <2>1, <2>2 DEF Typed, Subscribe
<1>4. CASE UnsubscribeLookup(s)
  BY <1>1, <1>4, LookupFound DEF Typed, UnsubscribeLookup
<1>5. CASE Unsubscribe(s)
  <2>1. /\ event_root' \in Seq(Seq(Entries)) /\ Len(event_root') = Len(event_root)
        /\ free_subscribe_root' \in Seq(Entries)
    <3>1. CASE found[s] = 0
      BY <1>5, <3>1, UnsubscribeLists DEF Typed
    <3>2. CASE found[s] # 0
      <4>1. UNCHANGED free_subscribe_root /\ \E r : Replaced(found[s], r)
        BY <1>5, <3>2, UnsubscribeLists
      <4>2. QED
        BY <4>1, OthersKept DEF Typed
    <3>3. QED
      BY <3>1, <3>2
  <2>2. Len(event_root) \in Nat
    BY LenProperties DEF Typed
  <2>3. QED
    BY <1>1, <1>5, <2>1, <2>2 DEF Typed, Unsubscribe
<1>6. QED
  BY <1>2, <1>3, <1>4, <1>5

\* and while publishing.
LEMMA TypedPubs ==
    ASSUME IInv, NEW p \in Publishers,
           \/ PublishLookup(p) \/ CreateNode(p) \/ DispatchBegin(p) \/ DispatchOne(p)
           \/ DispatchEnd(p) \/ PublishReturn(p)
    PROVE  Typed'
<1> USE DEF IInv
<1>1. p \in Threads /\ Len(event_root) \in Nat /\ found[p] \in 0..Len(event_root)
  BY Apartness, LenProperties DEF Typed
<1>2. at[p] \in {"publish", "dispatch"} => found[p] \in 1..Len(mutex)
  BY <1>1 DEF Typed, Holding
<1>3. CASE PublishLookup(p)
  <2>1. published' \in 0..MaxPubs
    BY <1>3, EventBusAssumption DEF Typed, PublishLookup
  <2>2. owed' \in [Publishers -> SUBSET Subs]
    BY <1>3 DEF Typed, PublishLookup
  <2>3. QED
    BY <1>1, <1>3, <2>1, <2>2, LookupFound DEF Typed, PublishLookup
<1>4. CASE CreateNode(p)
  <2>1. /\ event_root' \in Seq(Seq(Entries)) /\ Len(event_root') = Len(event_root) + 1
        /\ free_subscribe_root' = << >>
    BY <1>4, CreateLists
  <2>2. mutex' \in Seq(Publishers \cup {Nobody}) /\ Len(mutex') = Len(event_root) + 1
    BY <1>4, AppendProperties DEF Typed, CreateNode
  <2>3. overtaken' \in BOOLEAN
    BY <1>4 DEF CreateNode
  <2>4. found' \in [Threads -> 0..Len(event_root')]
    BY <1>1, <1>4, <2>1 DEF Typed, CreateNode
  <2>5. QED
    BY <1>1, <1>4, <2>1, <2>2, <2>3, <2>4 DEF Typed, CreateNode
<1>5. CASE DispatchBegin(p)
  <2>1. found[p] \in 1..Len(mutex)
    BY <1>2, <1>5 DEF DispatchBegin
  <2>2. mutex' \in Seq(Publishers \cup {Nobody}) /\ Len(mutex') = Len(mutex)
    BY <1>5, <2>1, ExceptSeq DEF Typed, DispatchBegin, Acquire
  <2>3. event_root[found[p]] \in Seq(Entries)
    BY <2>1, ElementOfSeq DEF Typed
  <2>4. QED
    BY <1>1, <1>5, <2>2, <2>3 DEF Typed, DispatchBegin
<1>6. CASE DispatchOne(p)
  <2> DEFINE e == Head(todo[p])
  <2>1. e \in Entries /\ Cut(todo'[p], todo[p], e)
    BY <1>6, DispatchLists
  <2>2. e.id \in 1..MaxSubs
    BY <2>1 DEF Entries
  <2>3. /\ event_root' \in Seq(Seq(Entries)) /\ Len(event_root') = Len(event_root)
        /\ used' \subseteq 1..MaxSubs
    <3>1. CASE SubType[e.sub] = "ONETIME"
      <4>1. used' = used \cup {e.id} /\ \E r : Replaced(found[p], r)
        BY <1>6, <3>1, DispatchLists
      <4>2. QED
        BY <2>2, <4>1, OthersKept DEF Typed
    <3>2. CASE SubType[e.sub] # "ONETIME"
      BY <1>6, <3>2, DispatchLists DEF Typed
    <3>3. QED
      BY <3>1, <3>2
  <2>4. todo' \in [Publishers -> Seq(Entries)]
    <3>1. Tail(todo[p]) \in Seq(Entries)
      BY <1>6, HeadTailProperties DEF Typed, DispatchOne
    <3>2. QED
      BY <1>6, <3>1 DEF Typed, DispatchOne
  <2>5. owed' \in [Publishers -> SUBSET Subs]
    BY <1>6 DEF Typed, DispatchOne
  <2>6. QED
    BY <1>6, <2>3, <2>4, <2>5 DEF Typed, DispatchOne
<1>7. CASE DispatchEnd(p)
  <2>1. found[p] \in 1..Len(mutex)
    BY <1>2, <1>7 DEF DispatchEnd
  <2>2. mutex' \in Seq(Publishers \cup {Nobody}) /\ Len(mutex') = Len(mutex)
    BY <1>7, <2>1, ExceptSeq DEF Typed, DispatchEnd
  <2>3. QED
    BY <1>1, <1>7, <2>2 DEF Typed, DispatchEnd
<1>8. CASE PublishReturn(p)
  BY <1>1, <1>8 DEF Typed, PublishReturn
<1>9. QED
  BY <1>3, <1>4, <1>5, <1>6, <1>7, <1>8

\* Types are kept.
LEMMA TypedKept ==
    ASSUME IInv, Next
    PROVE  Typed'
BY TypedSubs, TypedPubs DEF Next

\* The steps of a subscriber and its calls.
LEMMA TurnsKept ==
    ASSUME IInv, Next
    PROVE  Turns'
<1> USE DEF IInv
<1>1. Subs \subseteq Threads /\ Publishers \subseteq Threads /\ Subs \cap Publishers = {}
  BY EventBusAssumption DEF Threads
<1>2. ASSUME NEW s \in Subs, SubscribeLookup(s) PROVE Turns'
  BY <1>1, <1>2 DEF Typed, Turns, SubscribeLookup
<1>3. ASSUME NEW s \in Subs, Subscribe(s) PROVE Turns'
  BY <1>1, <1>3 DEF Typed, Turns, Subscribe
<1>4. ASSUME NEW s \in Subs, UnsubscribeLookup(s) PROVE Turns'
  BY <1>1, <1>4 DEF Typed, Turns, UnsubscribeLookup
<1>5. ASSUME NEW s \in Subs, Unsubscribe(s) PROVE Turns'
  BY <1>1, <1>5 DEF Typed, Turns, Unsubscribe
<1>6. ASSUME NEW p \in Publishers, PublishLookup(p) PROVE Turns'
  BY <1>1, <1>6 DEF Typed, Turns, PublishLookup
<1>7. ASSUME NEW p \in Publishers, CreateNode(p) PROVE Turns'
  BY <1>1, <1>7 DEF Typed, Turns, CreateNode
<1>8. ASSUME NEW p \in Publishers, DispatchBegin(p) PROVE Turns'
  BY <1>1, <1>8 DEF Typed, Turns, DispatchBegin
<1>9. ASSUME NEW p \in Publishers, DispatchOne(p) PROVE Turns'
  BY <1>1, <1>9 DEF Typed, Turns, DispatchOne
<1>10. ASSUME NEW p \in Publishers, DispatchEnd(p) PROVE Turns'
  BY <1>1, <1>10 DEF Typed, Turns, DispatchEnd
<1>11. ASSUME NEW p \in Publishers, PublishReturn(p) PROVE Turns'
  BY <1>1, <1>11 DEF Typed, Turns, PublishReturn
<1>12. QED
  BY <1>2, <1>3, <1>4, <1>5, <1>6, <1>7, <1>8, <1>9, <1>10, <1>11 DEF Next

\* A pass and the mutex it holds.
LEMMA HoldingKept ==
    ASSUME IInv, Next
    PROVE  Holding'
<1> USE DEF IInv
<1> DEFINE Held(p) ==
             /\ at[p] = "create" => found[p] = 0
             /\ at[p] \in {"publish", "dispatch", "return"} => found[p] # 0
             /\ at[p] # "dispatch" => todo[p] = << >>
             /\ at[p] = "dispatch" => /\ mutex[found[p]] = p
                                      /\ Elems(todo[p]) \subseteq Elems(event_root[found[p]])
<1>1. /\ Subs \subseteq Threads /\ Publishers \subseteq Threads /\ Subs \cap Publishers = {}
      /\ Nobody \notin Publishers /\ Len(event_root) \in Nat
  BY EventBusAssumption, LenProperties DEF Typed, Threads
<1>2. \A q \in Publishers : Held(q)
  BY DEF Holding
<1>3. \A q \in Publishers : at[q] = "dispatch" => found[q] \in Nodes /\ mutex[found[q]] = q
  BY <1>1, <1>2 DEF Typed, Nodes
<1>4. SUFFICES ASSUME NEW q \in Publishers PROVE Held(q)'
  BY DEF Holding
<1>5. ASSUME NEW s \in Subs, SubscribeLookup(s) \/ UnsubscribeLookup(s) PROVE Held(q)'
  BY <1>1, <1>2, <1>5 DEF Typed, SubscribeLookup, UnsubscribeLookup
<1>6. ASSUME NEW s \in Subs, Subscribe(s) \/ Unsubscribe(s) PROVE Held(q)'
  <2>1. at'[q] = at[q] /\ found'[q] = found[q] /\ todo' = todo /\ mutex' = mutex
    BY <1>1, <1>6 DEF Typed, Subscribe, Unsubscribe
  <2>2. ASSUME at[q] = "dispatch" PROVE event_root'[found[q]] = event_root[found[q]]
    <3>1. CASE UNCHANGED event_root
      BY <3>1
    <3>2. CASE ~UNCHANGED event_root
      <4>1. mutex[found[s]] = Nobody /\ \E r : Replaced(found[s], r)
        BY <1>6, <3>2, SubscribeLists, UnsubscribeLists
      <4>2. found[s] # found[q]
        BY <1>1, <1>3, <2>2, <4>1
      <4>3. QED
        BY <1>3, <2>2, <4>1, <4>2, OthersKept DEF Typed
    <3>3. QED
      BY <3>1, <3>2
  <2>3. QED
    BY <1>2, <2>1, <2>2
<1>7. ASSUME NEW p \in Publishers, PublishLookup(p) PROVE Held(q)'
  <2>1. CASE q = p
    <3>1. /\ at'[q] = IF Lookup = 0 THEN "create" ELSE "publish"
          /\ found'[q] = Lookup /\ todo' = todo /\ at[q] = "idle"
      BY <1>1, <1>7, <2>1 DEF Typed, PublishLookup
    <3>2. todo'[q] = << >>
      BY <1>2, <3>1
    <3>3. QED
      BY <3>1, <3>2
  <2>2. CASE q # p
    BY <1>1, <1>2, <1>7, <2>2 DEF Typed, PublishLookup
  <2>3. QED
    BY <2>1, <2>2
<1>8. ASSUME NEW p \in Publishers, CreateNode(p) PROVE Held(q)'
  <2>1. CASE q = p
    <3>1. /\ at'[q] = "publish" /\ found'[q] = Len(event_root) + 1 /\ todo' = todo
          /\ at[q] = "create"
      BY <1>1, <1>8, <2>1 DEF Typed, CreateNode
    <3>2. todo'[q] = << >> /\ found'[q] # 0
      BY <1>1, <1>2, <3>1
    <3>3. QED
      BY <3>1, <3>2
  <2>2. CASE q # p
    <3>1. at'[q] = at[q] /\ found'[q] = found[q] /\ todo' = todo
      BY <1>1, <1>8, <2>2 DEF Typed, CreateNode
    <3>2. ASSUME at[q] = "dispatch"
          PROVE  event_root'[found[q]] = event_root[found[q]] /\ mutex'[found[q]] = mutex[found[q]]
      <4>1. found[q] \in Nodes /\ found[q] \in 1..Len(mutex)
        BY <1>3, <3>2 DEF Typed, Nodes
      <4>2. mutex' = Append(mutex, Nobody)
        BY <1>8 DEF CreateNode
      <4>3. mutex'[found[q]] = mutex[found[q]]
        BY <4>1, <4>2, AppendProperties DEF Typed
      <4>4. QED
        BY <1>8, <4>1, <4>3, CreateLists
    <3>3. QED
      BY <1>2, <3>1, <3>2
  <2>3. QED
    BY <2>1, <2>2
<1>9. ASSUME NEW p \in Publishers, DispatchBegin(p) PROVE Held(q)'
  <2> DEFINE n == found[p]
  <2>1. /\ n \in 1..Len(mutex) /\ mutex[n] = Nobody
        /\ mutex' = [mutex EXCEPT ![n] = p]
    BY <1>1, <1>2, <1>9 DEF Typed, DispatchBegin, Acquire
  <2>2. mutex'[n] = p /\ \A m \in 1..Len(mutex) : m # n => mutex'[m] = mutex[m]
    BY <1>9, <2>1, ExceptSeq DEF Typed
  <2>3. CASE q = p
    <3>1. /\ at'[q] = "dispatch" /\ found'[q] = n /\ n # 0
          /\ todo'[q] = event_root[n] /\ event_root' = event_root
      BY <1>1, <1>2, <1>9, <2>3 DEF Typed, DispatchBegin
    <3>2. QED
      BY <2>2, <2>3, <3>1
  <2>4. CASE q # p
    <3>1. /\ at'[q] = at[q] /\ found'[q] = found[q] /\ todo'[q] = todo[q]
          /\ event_root' = event_root
      BY <1>1, <1>9, <2>4 DEF Typed, DispatchBegin
    <3>2. ASSUME at[q] = "dispatch" PROVE mutex'[found[q]] = mutex[found[q]]
      <4>1. found[q] \in 1..Len(mutex) /\ found[q] # n
        BY <1>1, <1>3, <2>1, <3>2 DEF Typed, Nodes
      <4>2. QED
        BY <2>2, <4>1
    <3>3. QED
      BY <1>2, <3>1, <3>2
  <2>5. QED
    BY <2>3, <2>4
<1>10. ASSUME NEW p \in Publishers, DispatchOne(p) PROVE Held(q)'
  <2> DEFINE n == found[p]
             e == Head(todo[p])
  <2>1. /\ at'[q] = at[q] /\ found'[q] = found[q] /\ mutex' = mutex /\ at[p] = "dispatch"
        /\ q # p => todo'[q] = todo[q]
    BY <1>1, <1>10 DEF Typed, DispatchOne
  <2>2. /\ n \in Nodes /\ mutex[n] = p /\ Cut(todo'[p], todo[p], e)
        /\ \/ \E r : Replaced(n, r) /\ Cut(r, event_root[n], e)
           \/ UNCHANGED event_root
    BY <1>10, DispatchLists
  <2>3. CASE q = p
    <3>1. Elems(todo'[p]) \subseteq Elems(event_root'[n])
      <4>1. /\ Elems(todo[p]) \subseteq Elems(event_root[n])
            /\ Elems(todo'[p]) \subseteq Elems(todo[p])
            /\ e.id \notin Ids(todo'[p])
        BY <1>2, <2>1, <2>2 DEF Cut
      <4>2. e \notin Elems(todo'[p])
        <5> HIDE DEF e
        <5>1. QED
          BY <4>1, ByEntry
      <4>3. CASE UNCHANGED event_root
        BY <4>1, <4>3
      <4>4. CASE ~UNCHANGED event_root
        <5>1. PICK r : Replaced(n, r) /\ Cut(r, event_root[n], e)
          BY <2>2, <4>4
        <5>2. event_root'[n] = r /\ Elems(event_root[n]) \subseteq Elems(r) \cup {e}
          BY <5>1, OthersKept DEF Typed, Cut
        <5>3. QED
          BY <4>1, <4>2, <5>2
      <4>5. QED
        BY <4>3, <4>4
    <3>2. QED
      BY <1>2, <2>1, <2>3, <3>1
  <2>4. CASE q # p
    <3>1. ASSUME at[q] = "dispatch" PROVE event_root'[found[q]] = event_root[found[q]]
      <4>1. found[q] \in Nodes /\ found[q] # n
        BY <1>3, <2>2, <2>4, <3>1
      <4>2. QED
        BY <2>2, <4>1, OthersKept DEF Typed
    <3>2. QED
      BY <1>2, <2>1, <2>4, <3>1
  <2>5. QED
    BY <2>3, <2>4
<1>11. ASSUME NEW p \in Publishers, DispatchEnd(p) PROVE Held(q)'
  <2> DEFINE n == found[p]
  <2>1. /\ n \in 1..Len(mutex) /\ mutex[n] = p
        /\ mutex' = [mutex EXCEPT ![n] = Nobody]
    BY <1>3, <1>11 DEF Typed, Nodes, DispatchEnd
  <2>2. \A m \in 1..Len(mutex) : m # n => mutex'[m] = mutex[m]
    BY <1>11, <2>1, ExceptSeq DEF Typed
  <2>3. CASE q = p
    <3>1. /\ at'[q] = "return" /\ found'[q] = n /\ n # 0 /\ todo'[q] = << >>
      BY <1>1, <1>2, <1>11, <2>3 DEF Typed, DispatchEnd
    <3>2. QED
      BY <3>1
  <2>4. CASE q # p
    <3>1. /\ at'[q] = at[q] /\ found'[q] = found[q] /\ todo'[q] = todo[q]
          /\ event_root' = event_root
      BY <1>1, <1>11, <2>4 DEF Typed, DispatchEnd
    <3>2. ASSUME at[q] = "dispatch" PROVE mutex'[found[q]] = mutex[found[q]]
      <4>1. found[q] \in 1..Len(mutex) /\ found[q] # n
        BY <1>1, <1>3, <2>1, <2>4, <3>2 DEF Typed, Nodes
      <4>2. QED
        BY <2>2, <4>1
    <3>3. QED
      BY <1>2, <3>1, <3>2
  <2>5. QED
    BY <2>3, <2>4
<1>12. ASSUME NEW p \in Publishers, PublishReturn(p) PROVE Held(q)'
  BY <1>1, <1>2, <1>12 DEF Typed, PublishReturn
<1> HIDE DEF Held
<1>13. QED
  BY <1>5, <1>6, <1>7, <1>8, <1>9, <1>10, <1>11, <1>12 DEF Next

\* Every list and every pass keeps its order, and one entry for a subscriber.
LEMMA OrderedKept ==
    ASSUME IInv, Next
    PROVE  Ordered'
<1> USE DEF IInv
<1> DEFINE Free == Single(free_subscribe_root) /\ Ascending(free_subscribe_root)
           Of(n) == Single(event_root[n]) /\ InOrder(event_root[n])
           Pass(p) == Single(todo[p]) /\ InOrder(todo[p])
<1>1. Free /\ (\A n \in Nodes : Of(n)) /\ (\A p \in Publishers : Pass(p))
  BY DEF Ordered
<1>2. ASSUME Free', \A n \in Nodes' : Of(n)', \A p \in Publishers : Pass(p)'
      PROVE  Ordered'
  BY <1>2 DEF Ordered
<1>3. ASSUME UNCHANGED event_root PROVE \A n \in Nodes' : Of(n)'
  BY <1>1, <1>3 DEF Nodes
<1>4. ASSUME NEW n, NEW r, Replaced(n, r), Single(r), InOrder(r) PROVE \A m \in Nodes' : Of(m)'
  <2>1. Nodes' = Nodes /\ event_root'[n] = r
        /\ \A m \in Nodes : m # n => event_root'[m] = event_root[m]
    BY <1>4, OthersKept DEF Typed
  <2>2. QED
    BY <1>1, <1>4, <2>1
<1>5. CASE Quiet
  BY <1>5, QuietLists DEF Ordered, Nodes
<1>6. ASSUME NEW s \in Subs, Subscribe(s) PROVE Ordered'
  <2>1. \A p \in Publishers : Pass(p)'
    BY <1>1, <1>6 DEF Subscribe
  <2>2. CASE found[s] = 0
    <3>1. UNCHANGED event_root /\ Free'
      BY <1>6, <2>2, SubscribeLists DEF Entered
    <3>2. QED
      BY <1>2, <1>3, <2>1, <3>1
  <2>3. CASE found[s] # 0
    <3>1. UNCHANGED free_subscribe_root
      BY <1>6, <2>3, SubscribeLists
    <3>2. PICK r : /\ Replaced(found[s], r) /\ InOrder(r)
                   /\ Entered(r, event_root[found[s]], NewEntry(s))
      BY <1>6, <2>3, SubscribeLists
    <3>3. \A m \in Nodes' : Of(m)'
      BY <1>4, <3>2 DEF Entered
    <3>4. QED
      BY <1>1, <1>2, <2>1, <3>1, <3>3
  <2>4. QED
    BY <2>2, <2>3
<1>7. ASSUME NEW s \in Subs, Unsubscribe(s) PROVE Ordered'
  <2>1. \A p \in Publishers : Pass(p)'
    BY <1>1, <1>7 DEF Unsubscribe
  <2>2. CASE found[s] = 0
    <3>1. UNCHANGED event_root /\ free_subscribe_root' = DelSubscribe(free_subscribe_root, s)
      BY <1>7, <2>2, UnsubscribeLists
    <3>2. Free'
      BY <1>1, <3>1, Unlisted DEF Typed
    <3>3. QED
      BY <1>2, <1>3, <2>1, <3>1, <3>2
  <2>3. CASE found[s] # 0
    <3> DEFINE n == found[s]
               r == DelSubscribe(event_root[n], s)
    <3>1. UNCHANGED free_subscribe_root /\ Replaced(n, r)
      BY <1>7, <2>3, UnsubscribeLists
    <3>2. n \in Nodes
      BY <3>1 DEF Replaced
    <3>3. event_root[n] \in Seq(Entries) /\ Of(n)
      BY <1>1, <3>2, ElementOfSeq DEF Typed, Nodes
    <3>4. Single(r) /\ InOrder(r)
      BY <3>3, Unlisted
    <3> HIDE DEF r, Of
    <3>5. \A m \in Nodes' : Of(m)'
      BY <1>4, <3>1, <3>4
    <3>6. QED
      BY <1>1, <1>2, <2>1, <3>1, <3>5
  <2>4. QED
    BY <2>2, <2>3
<1>8. ASSUME NEW p \in Publishers, CreateNode(p) PROVE Ordered'
  <2>1. \A q \in Publishers : Pass(q)'
    BY <1>1, <1>8 DEF CreateNode
  <2>2. Single(<< >>) /\ Ascending(<< >>)
    BY DEF Single, Ascending
  <2>3. Free'
    BY <1>8, <2>2, CreateLists
  <2>4. \A n \in Nodes' : Of(n)'
    <3>1. TAKE n \in Nodes'
    <3>2. CASE n \in Nodes
      BY <1>1, <1>8, <3>2, CreateLists
    <3>3. CASE n = Len(event_root) + 1
      BY <1>8, <3>3, CreateLists
    <3>4. QED
      BY <1>8, <3>1, <3>2, <3>3, CreateLists
  <2>5. QED
    BY <1>2, <2>1, <2>3, <2>4
<1>9. ASSUME NEW p \in Publishers, DispatchBegin(p) PROVE Ordered'
  <2>1. UNCHANGED <<event_root, free_subscribe_root>>
    BY <1>9 DEF DispatchBegin
  <2>2. found[p] \in Nodes
    BY <1>9, Apartness, LenProperties DEF Typed, Holding, DispatchBegin, Nodes
  <2>3. /\ todo'[p] = event_root[found[p]]
        /\ \A q \in Publishers : q # p => todo'[q] = todo[q]
    BY <1>9 DEF Typed, DispatchBegin
  <2>4. \A q \in Publishers : Pass(q)'
    BY <1>1, <2>2, <2>3
  <2>5. QED
    BY <1>1, <1>2, <1>3, <2>1, <2>4
<1>10. ASSUME NEW p \in Publishers, DispatchOne(p) PROVE Ordered'
  <2> DEFINE n == found[p]
             e == Head(todo[p])
  <2>1. UNCHANGED free_subscribe_root
    BY <1>10 DEF DispatchOne
  <2>2. /\ Cut(todo'[p], todo[p], e)
        /\ \A q \in Publishers : q # p => todo'[q] = todo[q]
        /\ \/ \E r : Replaced(n, r) /\ Cut(r, event_root[n], e)
           \/ UNCHANGED event_root
    BY <1>10, DispatchLists
  <2>3. \A q \in Publishers : Pass(q)'
    BY <1>1, <2>2 DEF Cut
  <2>4. \A m \in Nodes' : Of(m)'
    <3>1. CASE UNCHANGED event_root
      BY <1>3, <3>1
    <3>2. CASE ~UNCHANGED event_root
      <4>1. PICK r : Replaced(n, r) /\ Cut(r, event_root[n], e)
        BY <2>2, <3>2
      <4>2. QED
        BY <1>4, <4>1 DEF Cut
    <3>3. QED
      BY <3>1, <3>2
  <2>5. QED
    BY <1>1, <1>2, <2>1, <2>3, <2>4
<1>11. QED
  BY <1>5, <1>6, <1>7, <1>8, <1>9, <1>10, Steps

\* An id stays on one list.
LEMMA ApartKept ==
    ASSUME IInv, Next
    PROVE  Apart'
<1> USE DEF IInv
<1> DEFINE F == Ids(free_subscribe_root)
           I(n) == Ids(event_root[n])
           J(n) == Ids(event_root'[n])
<1>1. /\ \A x \in used : x <= entered
      /\ \A x \in F : x <= entered /\ x \notin used
      /\ \A n \in Nodes : \A x \in I(n) :
           /\ x <= entered /\ x \notin used /\ x \notin F
           /\ \A m \in Nodes : m # n => x \notin I(m)
  BY DEF Apart
<1>2. ASSUME /\ \A x \in used' : x <= entered'
             /\ \A x \in F' : x <= entered' /\ x \notin used'
             /\ \A n \in Nodes' : \A x \in J(n) :
                  /\ x <= entered' /\ x \notin used' /\ x \notin F'
                  /\ \A m \in Nodes' : m # n => x \notin J(m)
      PROVE  Apart'
  BY <1>2 DEF Apart
<1>3. /\ entered \in Nat /\ \A x \in used : x \in Nat
      /\ \A x \in F : x \in Nat
      /\ \A n \in Nodes : \A x \in I(n) : x \in Nat
  <2>1. entered \in Nat /\ \A x \in used : x \in Nat
    BY EventBusAssumption DEF Typed
  <2>2. \A x \in F : x \in Nat
    BY EntryFields DEF Typed, Ids
  <2>3. ASSUME NEW n \in Nodes PROVE \A x \in I(n) : x \in Nat
    <3> DEFINE list == event_root[n]
    <3>1. list \in Seq(Entries)
      BY ElementOfSeq DEF Typed, Nodes
    <3> HIDE DEF list
    <3>2. \A x \in Ids(list) : x \in Nat
      BY <3>1, EntryFields DEF Ids
    <3>3. QED
      BY <3>2 DEF list
  <2>4. QED
    BY <2>1, <2>2, <2>3
<1>4. ASSUME NEW r, NEW s, Elems(r) \subseteq Elems(s) PROVE Ids(r) \subseteq Ids(s)
  BY <1>4, ByEntry
<1>5. ASSUME NEW n, NEW r, Replaced(n, r)
      PROVE  Nodes' = Nodes /\ J(n) = Ids(r) /\ \A m \in Nodes : m # n => J(m) = I(m)
  BY <1>5, OthersKept DEF Typed
<1>6. ASSUME UNCHANGED event_root PROVE Nodes' = Nodes /\ \A m \in Nodes : J(m) = I(m)
  BY <1>6 DEF Nodes
<1>7. CASE Quiet
  BY <1>7, QuietLists DEF Apart, Nodes
<1>8. ASSUME NEW s \in Subs, Subscribe(s) PROVE Apart'
  <2> DEFINE e == NewEntry(s)
  <2>1. entered' = entered + 1 /\ used' = used /\ e.id = entered + 1
    BY <1>8 DEF Subscribe, NewEntry
  <2>2. ASSUME NEW r, NEW l, Entered(r, l, e) PROVE Ids(r) \subseteq Ids(l) \cup {entered + 1}
    BY <2>1, <2>2, ByEntry DEF Entered
  <2>3. CASE found[s] = 0
    <3>1. UNCHANGED event_root /\ Entered(free_subscribe_root', free_subscribe_root, e)
      BY <1>8, <2>3, SubscribeLists
    <3>2. F' \subseteq F \cup {entered + 1}
      BY <2>2, <3>1
    <3>3. Nodes' = Nodes /\ \A m \in Nodes : J(m) = I(m)
      BY <1>6, <3>1
    <3> HIDE DEF F, I, J
    <3>4. QED
      BY <1>1, <1>2, <1>3, <2>1, <3>2, <3>3
  <2>4. CASE found[s] # 0
    <3> DEFINE n == found[s]
    <3>1. UNCHANGED free_subscribe_root
      BY <1>8, <2>4, SubscribeLists
    <3>2. PICK r : Replaced(n, r) /\ Entered(r, event_root[n], e)
      BY <1>8, <2>4, SubscribeLists
    <3>3. n \in Nodes
      BY <3>2 DEF Replaced
    <3>4. J(n) \subseteq I(n) \cup {entered + 1}
      BY <1>5, <2>2, <3>2
    <3>5. Nodes' = Nodes /\ \A m \in Nodes : m # n => J(m) = I(m)
      BY <1>5, <3>2
    <3>6. F' = F
      BY <3>1
    <3> HIDE DEF F, I, J, n
    <3>7. QED
      BY <1>1, <1>2, <1>3, <2>1, <3>3, <3>4, <3>5, <3>6
  <2>5. QED
    BY <2>3, <2>4
<1>9. ASSUME NEW s \in Subs, Unsubscribe(s) PROVE Apart'
  <2>1. entered' = entered /\ used' = used
    BY <1>9 DEF Unsubscribe
  <2>2. CASE found[s] = 0
    <3>1. UNCHANGED event_root /\ free_subscribe_root' = DelSubscribe(free_subscribe_root, s)
      BY <1>9, <2>2, UnsubscribeLists
    <3>2. Elems(free_subscribe_root') \subseteq Elems(free_subscribe_root)
      BY <3>1, Unlisted DEF Typed, Ordered
    <3>3. F' \subseteq F
      BY <1>4, <3>2
    <3>4. Nodes' = Nodes /\ \A m \in Nodes : J(m) = I(m)
      BY <1>6, <3>1
    <3> HIDE DEF F, I, J
    <3>5. QED
      BY <1>1, <1>2, <2>1, <3>3, <3>4
  <2>3. CASE found[s] # 0
    <3> DEFINE n == found[s]
               old == event_root[n]
               r == DelSubscribe(old, s)
    <3>1. UNCHANGED free_subscribe_root /\ Replaced(n, r)
      BY <1>9, <2>3, UnsubscribeLists
    <3>2. n \in Nodes
      BY <3>1 DEF Replaced
    <3>3. old \in Seq(Entries) /\ Single(old)
      BY <3>2, ElementOfSeq DEF Typed, Ordered, Nodes
    <3>4. Elems(r) \subseteq Elems(old)
      <4> HIDE DEF old
      <4>1. QED
        BY <3>3, Unlisted
    <3>5. Nodes' = Nodes /\ J(n) \subseteq I(n) /\ \A m \in Nodes : m # n => J(m) = I(m)
      <4> HIDE DEF r
      <4>1. QED
        BY <1>4, <1>5, <3>1, <3>4
    <3>6. F' = F
      BY <3>1
    <3> HIDE DEF F, I, J, n
    <3>7. QED
      BY <1>1, <1>2, <2>1, <3>2, <3>5, <3>6
  <2>4. QED
    BY <2>2, <2>3
<1>10. ASSUME NEW p \in Publishers, CreateNode(p) PROVE Apart'
  <2> DEFINE n == Len(event_root) + 1
  <2>1. entered' = entered /\ used' = used
    BY <1>10 DEF CreateNode
  <2>2. Nodes' = Nodes \cup {n} /\ n \notin Nodes /\ \A m \in Nodes : J(m) = I(m)
    BY <1>10, CreateLists
  <2>3. Elems(event_root'[n]) = Elems(free_subscribe_root) /\ free_subscribe_root' = << >>
    BY <1>10, CreateLists
  <2>4. J(n) = F
    <3> HIDE DEF n
    <3>1. QED
      BY <2>3, ByEntry
  <2>5. F' = {}
    BY <2>3 DEF Ids
  <2> HIDE DEF F, I, J, n
  <2>6. QED
    BY <1>1, <1>2, <2>1, <2>2, <2>4, <2>5
<1>11. ASSUME NEW p \in Publishers, DispatchBegin(p) PROVE Apart'
  BY <1>11 DEF Apart, DispatchBegin, Nodes
<1>12. ASSUME NEW p \in Publishers, DispatchOne(p) PROVE Apart'
  <2> DEFINE n == found[p]
             e == Head(todo[p])
  <2>1. entered' = entered /\ F' = F
    BY <1>12 DEF DispatchOne
  <2>2. n \in Nodes /\ e \in Elems(event_root[n])
    BY <1>12, DispatchLists
  <2>3. CASE SubType[e.sub] = "ONETIME"
    <3>1. used' = used \cup {e.id}
      BY <1>12, <2>3, DispatchLists
    <3>2. PICK r : Replaced(n, r) /\ Cut(r, event_root[n], e)
      BY <1>12, <2>3, DispatchLists
    <3> HIDE DEF e
    <3>3. e.id \in I(n)
      BY <2>2, ByEntry
    <3>4. /\ Nodes' = Nodes /\ J(n) \subseteq I(n) /\ e.id \notin J(n)
          /\ \A m \in Nodes : m # n => J(m) = I(m)
      BY <1>4, <1>5, <3>2 DEF Cut
    <3> HIDE DEF F, I, J, n
    <3>5. QED
      BY <1>1, <1>2, <2>1, <2>2, <3>1, <3>3, <3>4
  <2>4. CASE SubType[e.sub] # "ONETIME"
    <3>1. UNCHANGED <<event_root, used>>
      BY <1>12, <2>4, DispatchLists
    <3>2. Nodes' = Nodes /\ \A m \in Nodes : J(m) = I(m)
      BY <1>6, <3>1
    <3> HIDE DEF F, I, J, n
    <3>3. QED
      BY <1>1, <1>2, <2>1, <3>1, <3>2
  <2>5. QED
    BY <2>3, <2>4
<1>13. QED
  BY <1>7, <1>8, <1>9, <1>10, <1>11, <1>12, Steps

-----------------------------------------------------------------------------
(* While no node was created behind a lookup *)

\* Only the creation of a node can overtake a lookup.
LEMMA OvertakenStays ==
    ASSUME IInv, Next, ~overtaken'
    PROVE  ~overtaken
BY DEF Next, SubscribeLookup, Subscribe, UnsubscribeLookup, Unsubscribe, PublishLookup,
       CreateNode, DispatchBegin, DispatchOne, DispatchEnd, PublishReturn

\* A thread between its lookup and its critical section works on the list in force.
LEMMA WorksOnCurrent ==
    ASSUME IInv, ~overtaken, NEW t \in Threads
    PROVE  /\ found[t] # 0 => found[t] = 1 /\ event_root # << >> /\ Current = event_root[1]
           /\ at[t] \in {"subscribe", "unsubscribe", "create"} /\ found[t] = 0 =>
                event_root = << >> /\ Current = free_subscribe_root
<1> USE DEF IInv
<1>1. /\ Len(event_root) \in Nat /\ Len(event_root) <= 1 /\ found[t] \in 0..Len(event_root)
      /\ event_root # << >> => Len(event_root) \in Nat \ {0}
      /\ Len(<< >>) = 0
  BY LenProperties, EmptySeq DEF Typed, OneList
<1>2. ASSUME found[t] # 0 PROVE found[t] = 1 /\ event_root # << >>
  BY <1>1, <1>2
<1>3. ASSUME at[t] \in {"subscribe", "unsubscribe", "create"}, found[t] = 0
      PROVE  event_root = << >>
  BY <1>3 DEF OneList
<1>4. QED
  BY <1>2, <1>3 DEF Current

\* The node a publisher creates unnoticed is the first.
LEMMA CreatesFirst ==
    ASSUME IInv, NEW p \in Publishers, CreateNode(p), ~overtaken
    PROVE  event_root = << >> /\ Len(event_root') = 1 /\ event_root' # << >>
           /\ free_subscribe_root' = << >>
           /\ Elems(event_root'[1]) = Elems(free_subscribe_root)
<1> USE DEF IInv
<1>1. event_root = << >>
  BY Apartness, WorksOnCurrent DEF Holding, CreateNode
<1>2. Len(event_root) = 0 /\ Len(event_root) + 1 = 1
  BY <1>1
<1>3. /\ Len(event_root') = 1 /\ free_subscribe_root' = << >>
      /\ Elems(event_root'[1]) = Elems(free_subscribe_root)
  BY <1>2, CreateLists
<1>4. event_root' # << >>
  BY <1>3
<1>5. QED
  BY <1>1, <1>3, <1>4

\* There is one list.
LEMMA OneListKept ==
    ASSUME IInv, Next
    PROVE  OneList'
<1> USE DEF IInv
<1>1. SUFFICES ASSUME ~overtaken' PROVE OneList'
  BY DEF OneList
<1>2. ~overtaken
  BY <1>1, OvertakenStays
<1> DEFINE Calls == \A t \in Threads :
                      at[t] \in {"subscribe", "unsubscribe", "create"} => found[t] # 0
<1>3. Len(event_root) <= 1 /\ (event_root # << >> => free_subscribe_root = << >> /\ Calls)
  BY <1>2 DEF OneList
<1>4. ASSUME Len(event_root') <= 1, event_root' # << >> => free_subscribe_root' = << >> /\ Calls'
      PROVE  OneList'
  BY <1>4 DEF OneList
<1>5. Subs \subseteq Threads /\ Publishers \subseteq Threads
  BY DEF Threads
<1>6. CASE Quiet
  <2>1. UNCHANGED <<event_root, free_subscribe_root>>
    BY <1>6, QuietLists
  <2>2. ASSUME event_root # << >>, Calls PROVE Calls'
    <3>1. Lookup # 0
      BY <2>2, LookupFound
    <3>2. QED
      BY <1>5, <1>6, <2>2, <3>1
         DEF Typed, Quiet, SubscribeLookup, UnsubscribeLookup, PublishLookup, DispatchEnd,
             PublishReturn
  <2> HIDE DEF Calls
  <2>3. QED
    BY <1>3, <1>4, <2>1, <2>2
<1>7. ASSUME NEW s \in Subs, Subscribe(s) \/ Unsubscribe(s) PROVE OneList'
  <2>1. Calls => Calls'
    BY <1>5, <1>7 DEF Typed, Subscribe, Unsubscribe
  <2>2. CASE found[s] = 0
    <3>1. event_root = << >>
      BY <1>2, <1>5, <1>7, <2>2, WorksOnCurrent DEF Subscribe, Unsubscribe
    <3>2. UNCHANGED event_root
      BY <1>7, <2>2, SubscribeLists, UnsubscribeLists
    <3> HIDE DEF Calls
    <3>3. QED
      BY <1>3, <1>4, <3>1, <3>2
  <2>3. CASE found[s] # 0
    <3>1. event_root # << >>
      BY <1>2, <1>5, <2>3, WorksOnCurrent
    <3>2. UNCHANGED free_subscribe_root /\ \E r : Replaced(found[s], r)
      BY <1>7, <2>3, SubscribeLists, UnsubscribeLists
    <3>3. Len(event_root') = Len(event_root)
      BY <3>2, OthersKept DEF Typed
    <3> HIDE DEF Calls
    <3>4. QED
      BY <1>3, <1>4, <2>1, <3>1, <3>2, <3>3
  <2>4. QED
    BY <2>2, <2>3
<1>8. ASSUME NEW p \in Publishers, CreateNode(p) PROVE OneList'
  <2>1. Len(event_root') = 1 /\ free_subscribe_root' = << >>
    BY <1>2, <1>8, CreatesFirst
  <2>2. \A t \in Threads \ {p} :
          ~(found[t] = 0 /\ at[t] \in {"subscribe", "unsubscribe", "create"})
    BY <1>1, <1>8 DEF CreateNode
  <2>3. \A t \in Threads \ {p} : found'[t] = found[t] /\ at'[t] = at[t]
    BY <1>8 DEF Typed, CreateNode
  <2>4. at'[p] = "publish"
    BY <1>5, <1>8 DEF Typed, CreateNode
  <2>5. Calls'
    BY <2>2, <2>3, <2>4
  <2> HIDE DEF Calls
  <2>6. QED
    BY <1>4, <2>1, <2>5
<1>9. ASSUME NEW p \in Publishers, DispatchBegin(p) PROVE OneList'
  <2>1. UNCHANGED <<event_root, free_subscribe_root, found>>
    BY <1>9 DEF DispatchBegin
  <2>2. Calls => Calls'
    BY <1>5, <1>9 DEF Typed, DispatchBegin
  <2> HIDE DEF Calls
  <2>3. QED
    BY <1>3, <1>4, <2>1, <2>2
<1>10. ASSUME NEW p \in Publishers, DispatchOne(p) PROVE OneList'
  <2>1. UNCHANGED <<free_subscribe_root, found, at>>
    BY <1>10 DEF DispatchOne
  <2>2. Calls => Calls'
    BY <2>1
  <2>3. at[p] = "dispatch"
    BY <1>10 DEF DispatchOne
  <2>4. event_root # << >>
    BY <1>2, <1>5, <2>3, WorksOnCurrent DEF Holding
  <2>5. Len(event_root') = Len(event_root)
    BY <1>10, DispatchLists, OthersKept DEF Typed
  <2> HIDE DEF Calls
  <2>6. QED
    BY <1>3, <1>4, <2>1, <2>2, <2>4, <2>5
<1>11. QED
  BY <1>6, <1>7, <1>8, <1>9, <1>10, Steps

\* What a step does to the list in force.
LEMMA CurrentChanges ==
    ASSUME IInv, Next, ~overtaken'
    PROVE  /\ \A s \in Subs : Subscribe(s) => SubsOf(Current') = SubsOf(Current) \cup {s}
           /\ \A s \in Subs : Unsubscribe(s) => SubsOf(Current') = SubsOf(Current) \ {s}
           /\ \A p \in Publishers : CreateNode(p) => SubsOf(Current') = SubsOf(Current)
           /\ \A p \in Publishers : DispatchOne(p) =>
                /\ SubsOf(Current') \subseteq SubsOf(Current)
                /\ \A s \in SubsOf(Current) : s \in SubsOf(Current') \/ SubType[s] = "ONETIME"
           /\ \A p \in Publishers : DispatchBegin(p) => Current' = Current
           /\ Quiet => Current' = Current
<1> USE DEF IInv
<1>1. ~overtaken
  BY OvertakenStays
<1>2. Subs \subseteq Threads /\ Publishers \subseteq Threads
  BY DEF Threads
<1>3. ASSUME UNCHANGED <<event_root, free_subscribe_root>> PROVE Current' = Current
  BY <1>3 DEF Current
<1>4. ASSUME NEW r, Replaced(1, r), event_root # << >> PROVE Current' = r
  <2>1. event_root'[1] = r /\ Len(event_root') = Len(event_root)
    BY <1>4, OthersKept DEF Typed
  <2>2. Len(event_root) # 0
    BY <1>4, EmptySeq DEF Typed
  <2>3. event_root' # << >>
    BY <2>1, <2>2
  <2>4. QED
    BY <2>1, <2>3 DEF Current
<1>5. ASSUME NEW s \in Subs, Subscribe(s) PROVE SubsOf(Current') = SubsOf(Current) \cup {s}
  <2>1. at[s] = "subscribe" /\ NewEntry(s).sub = s
    BY <1>5 DEF Subscribe, NewEntry
  <2>2. CASE found[s] = 0
    <3>1. event_root = << >> /\ Current = free_subscribe_root
      BY <1>1, <1>2, <2>1, <2>2, WorksOnCurrent
    <3>2. UNCHANGED event_root /\ Entered(free_subscribe_root', free_subscribe_root, NewEntry(s))
      BY <1>5, <2>2, SubscribeLists
    <3>3. Current' = free_subscribe_root'
      BY <3>1, <3>2 DEF Current
    <3>4. QED
      BY <2>1, <3>1, <3>2, <3>3 DEF Entered
  <2>3. CASE found[s] # 0
    <3>1. found[s] = 1 /\ event_root # << >> /\ Current = event_root[1]
      BY <1>1, <1>2, <2>3, WorksOnCurrent
    <3>2. PICK r : Replaced(1, r) /\ Entered(r, event_root[1], NewEntry(s))
      BY <1>5, <2>3, <3>1, SubscribeLists
    <3>3. Current' = r
      BY <1>4, <3>1, <3>2
    <3>4. QED
      BY <2>1, <3>1, <3>2, <3>3 DEF Entered
  <2>4. QED
    BY <2>2, <2>3
<1>6. ASSUME NEW s \in Subs, Unsubscribe(s) PROVE SubsOf(Current') = SubsOf(Current) \ {s}
  <2>1. at[s] = "unsubscribe"
    BY <1>6 DEF Unsubscribe
  <2>2. CASE found[s] = 0
    <3>1. event_root = << >> /\ Current = free_subscribe_root
      BY <1>1, <1>2, <2>1, <2>2, WorksOnCurrent
    <3>2. UNCHANGED event_root /\ free_subscribe_root' = DelSubscribe(free_subscribe_root, s)
      BY <1>6, <2>2, UnsubscribeLists
    <3>3. Current' = free_subscribe_root'
      BY <3>1, <3>2 DEF Current
    <3>4. SubsOf(free_subscribe_root') = SubsOf(free_subscribe_root) \ {s}
      BY <3>2, Unlisted DEF Typed, Ordered
    <3>5. QED
      BY <3>1, <3>3, <3>4
  <2>3. CASE found[s] # 0
    <3> DEFINE r == DelSubscribe(event_root[1], s)
    <3>1. found[s] = 1 /\ event_root # << >> /\ Current = event_root[1]
      BY <1>1, <1>2, <2>3, WorksOnCurrent
    <3>2. Replaced(1, r)
      BY <1>6, <2>3, <3>1, UnsubscribeLists
    <3>3. 1 \in Nodes
      BY <3>2 DEF Replaced
    <3>4. event_root[1] \in Seq(Entries) /\ Single(event_root[1])
      BY <3>3, ElementOfSeq DEF Typed, Ordered, Nodes
    <3>5. SubsOf(r) = SubsOf(event_root[1]) \ {s}
      BY <3>4, Unlisted
    <3> HIDE DEF r
    <3>6. Current' = r
      BY <1>4, <3>1, <3>2
    <3>7. QED
      BY <3>1, <3>5, <3>6
  <2>4. QED
    BY <2>2, <2>3
<1>7. ASSUME NEW p \in Publishers, CreateNode(p) PROVE SubsOf(Current') = SubsOf(Current)
  <2>1. /\ event_root = << >> /\ event_root' # << >>
        /\ Elems(event_root'[1]) = Elems(free_subscribe_root)
    BY <1>1, <1>7, CreatesFirst
  <2>2. Current = free_subscribe_root /\ Current' = event_root'[1]
    BY <2>1 DEF Current
  <2>3. QED
    BY <2>1, <2>2, ByEntry
<1>8. ASSUME NEW p \in Publishers, DispatchOne(p)
      PROVE  /\ SubsOf(Current') \subseteq SubsOf(Current)
             /\ \A s \in SubsOf(Current) : s \in SubsOf(Current') \/ SubType[s] = "ONETIME"
  <2> DEFINE e == Head(todo[p])
  <2>1. found[p] # 0
    BY <1>8 DEF Holding, DispatchOne
  <2>2. found[p] = 1 /\ event_root # << >> /\ Current = event_root[1]
    BY <1>1, <1>2, <2>1, WorksOnCurrent
  <2>3. CASE SubType[e.sub] = "ONETIME"
    <3>1. PICK r : Replaced(1, r) /\ Cut(r, event_root[1], e)
      BY <1>8, <2>2, <2>3, DispatchLists
    <3>2. Current' = r
      BY <1>4, <2>2, <3>1
    <3>3. Elems(r) \subseteq Elems(event_root[1]) /\ Elems(event_root[1]) \subseteq Elems(r) \cup {e}
      BY <3>1 DEF Cut
    <3> HIDE DEF e
    <3>4. SubsOf(r) \subseteq SubsOf(event_root[1]) /\ SubsOf(event_root[1]) \subseteq SubsOf(r) \cup {e.sub}
      BY <3>3, ByEntry
    <3>5. QED
      BY <2>2, <2>3, <3>2, <3>4
  <2>4. CASE SubType[e.sub] # "ONETIME"
    <3>1. UNCHANGED <<event_root, free_subscribe_root>>
      BY <1>8, <2>4, DispatchLists DEF DispatchOne
    <3>2. QED
      BY <1>3, <3>1
  <2>5. QED
    BY <2>3, <2>4
<1>9. ASSUME NEW p \in Publishers, DispatchBegin(p) PROVE Current' = Current
  BY <1>3, <1>9 DEF DispatchBegin
<1>10. ASSUME Quiet PROVE Current' = Current
  BY <1>3, <1>10, QuietLists
<1>11. QED
  BY <1>5, <1>6, <1>7, <1>8, <1>9, <1>10

\* The list in force has the subscriptions in force.
LEMMA InForceKept ==
    ASSUME IInv, Next
    PROVE  InForce'
<1> USE DEF IInv
<1>1. SUFFICES ASSUME ~overtaken' PROVE InForce'
  BY DEF InForce
<1>2. ~overtaken
  BY <1>1, OvertakenStays
<1> DEFINE C == SubsOf(Current)
           D == SubsOf(Current')
<1>3. (\A s \in subscribed : SubType[s] = "NORMAL" => s \in C) /\ C \cap unsubscribed = {}
  BY <1>2 DEF InForce
<1>4. ASSUME \A s \in subscribed' : SubType[s] = "NORMAL" => s \in D, D \cap unsubscribed' = {}
      PROVE  InForce'
  BY <1>4 DEF InForce
<1>5. Subs \cap Publishers = {}
  BY EventBusAssumption
<1>6. CASE Quiet
  <2>1. D = C
    BY <1>1, <1>6, CurrentChanges
  <2>2. subscribed' \subseteq subscribed /\ unsubscribed' \subseteq unsubscribed
    BY <1>6 DEF Quiet, SubscribeLookup, UnsubscribeLookup, PublishLookup, DispatchEnd, PublishReturn
  <2> HIDE DEF C, D
  <2>3. QED
    BY <1>3, <1>4, <2>1, <2>2
<1>7. ASSUME NEW s \in Subs, Subscribe(s) PROVE InForce'
  <2>1. D = C \cup {s}
    BY <1>1, <1>7, CurrentChanges
  <2>2. subscribed' = subscribed \cup {s} /\ unsubscribed' = unsubscribed /\ s \notin unsubscribed
    BY <1>7 DEF Subscribe, Turns
  <2> HIDE DEF C, D
  <2>3. QED
    BY <1>3, <1>4, <2>1, <2>2
<1>8. ASSUME NEW s \in Subs, Unsubscribe(s) PROVE InForce'
  <2>1. D = C \ {s}
    BY <1>1, <1>8, CurrentChanges
  <2>2. subscribed' = subscribed /\ unsubscribed' = unsubscribed \cup {s} /\ s \notin subscribed
    BY <1>8 DEF Unsubscribe, Turns
  <2> HIDE DEF C, D
  <2>3. QED
    BY <1>3, <1>4, <2>1, <2>2
<1>9. ASSUME NEW p \in Publishers, CreateNode(p) \/ DispatchBegin(p) \/ DispatchOne(p)
      PROVE  InForce'
  <2>1. D \subseteq C /\ \A s \in C : s \in D \/ SubType[s] = "ONETIME"
    BY <1>1, <1>9, CurrentChanges
  <2>2. subscribed' = subscribed /\ unsubscribed' = unsubscribed
    BY <1>9 DEF CreateNode, DispatchBegin, DispatchOne
  <2> HIDE DEF C, D
  <2>3. QED
    BY <1>3, <1>4, <2>1, <2>2
<1>10. QED
  BY <1>6, <1>7, <1>8, <1>9, Steps

\* A pass has still to call what it owes.
LEMMA ReachingKept ==
    ASSUME IInv, Next
    PROVE  Reaching'
<1> USE DEF IInv
<1>1. SUFFICES ASSUME ~overtaken', NEW q \in Publishers
               PROVE  /\ at'[q] = "dispatch" => owed'[q] \subseteq SubsOf(todo'[q])
                      /\ at'[q] = "return" => owed'[q] = {}
                      /\ SubsOf(todo'[q]) \cap unsubscribed' = {}
  BY DEF Reaching
<1>2. ~overtaken
  BY <1>1, OvertakenStays
<1>3. /\ at[q] = "dispatch" => owed[q] \subseteq SubsOf(todo[q])
      /\ at[q] = "return" => owed[q] = {}
      /\ SubsOf(todo[q]) \cap unsubscribed = {}
  BY <1>2 DEF Reaching
<1>4. /\ Subs \subseteq Threads /\ Publishers \subseteq Threads /\ Subs \cap Publishers = {}
      /\ Nobody \notin Publishers
  BY EventBusAssumption DEF Threads
<1>5. SubsOf(<< >>) = {}
  BY DEF SubsOf
<1>6. ASSUME NEW s \in Subs, SubscribeLookup(s) \/ Subscribe(s)
      PROVE  /\ at'[q] = at[q] /\ owed'[q] = owed[q] /\ todo'[q] = todo[q]
             /\ unsubscribed' \subseteq unsubscribed
  BY <1>4, <1>6 DEF Typed, SubscribeLookup, Subscribe
<1>7. ASSUME NEW s \in Subs, UnsubscribeLookup(s)
      PROVE  /\ at'[q] = at[q] /\ owed'[q] = owed[q] \ {s} /\ todo'[q] = todo[q]
             /\ unsubscribed' = unsubscribed
  BY <1>4, <1>7 DEF Typed, UnsubscribeLookup
<1>8. ASSUME NEW s \in Subs, Unsubscribe(s)
      PROVE  at'[q] = at[q] /\ owed'[q] = owed[q] /\ todo'[q] = << >> /\ at[q] # "dispatch"
  <2>1. at'[q] = at[q] /\ owed'[q] = owed[q] /\ todo'[q] = todo[q] /\ at[s] = "unsubscribe"
    BY <1>4, <1>8 DEF Typed, Unsubscribe
  <2>2. at[q] # "dispatch"
    <3>1. SUFFICES ASSUME at[q] = "dispatch" PROVE FALSE
      OBVIOUS
    <3>2. found[q] # 0 /\ mutex[found[q]] = q
      BY <3>1 DEF Holding
    <3>3. found[q] = 1 /\ event_root # << >>
      BY <1>2, <1>4, <3>2, WorksOnCurrent
    <3>4. found[s] # 0
      BY <1>2, <1>4, <2>1, <3>3, WorksOnCurrent
    <3>5. found[s] = 1
      BY <1>2, <1>4, <3>4, WorksOnCurrent
    <3>6. mutex[found[s]] = Nobody
      BY <1>8, <3>4, UnsubscribeLists
    <3>7. QED
      BY <1>4, <3>2, <3>3, <3>5, <3>6
  <2>3. todo[q] = << >>
    BY <2>2 DEF Holding
  <2>4. QED
    BY <2>1, <2>2, <2>3
<1>9. ASSUME NEW p \in Publishers, PublishLookup(p) \/ CreateNode(p)
      PROVE  /\ todo'[q] = todo[q] /\ unsubscribed' = unsubscribed
             /\ at'[q] \in {"dispatch", "return"} => at'[q] = at[q] /\ owed'[q] = owed[q]
  BY <1>4, <1>9 DEF Typed, PublishLookup, CreateNode
<1>10. ASSUME NEW p \in Publishers, DispatchBegin(p)
       PROVE  /\ unsubscribed' = unsubscribed /\ owed'[q] = owed[q]
              /\ q # p => at'[q] = at[q] /\ todo'[q] = todo[q]
              /\ q = p => at'[q] = "dispatch" /\ todo'[q] = Current
  <2>1. /\ unsubscribed' = unsubscribed /\ owed'[q] = owed[q] /\ at[p] = "publish"
        /\ q # p => at'[q] = at[q] /\ todo'[q] = todo[q]
        /\ q = p => at'[q] = "dispatch" /\ todo'[q] = event_root[found[p]]
    BY <1>4, <1>10 DEF Typed, DispatchBegin
  <2>2. found[p] # 0
    BY <2>1 DEF Holding
  <2>3. event_root[found[p]] = Current
    BY <1>2, <1>4, <2>2, WorksOnCurrent
  <2>4. QED
    BY <2>1, <2>3
<1>11. ASSUME NEW p \in Publishers, DispatchOne(p)
       PROVE  /\ unsubscribed' = unsubscribed /\ at'[q] = at[q]
              /\ SubsOf(todo'[q]) \subseteq SubsOf(todo[q])
              /\ owed[q] \subseteq SubsOf(todo[q]) => owed'[q] \subseteq SubsOf(todo'[q])
              /\ owed'[q] \subseteq owed[q]
  <2> DEFINE e == Head(todo[p])
  <2>1. /\ unsubscribed' = unsubscribed /\ at'[q] = at[q]
        /\ q = p => owed'[q] = owed[q] \ {e.sub}
        /\ q # p => owed'[q] = owed[q] /\ todo'[q] = todo[q]
    BY <1>11 DEF Typed, DispatchOne
  <2>2. Cut(todo'[p], todo[p], e)
    BY <1>11, DispatchLists
  <2> HIDE DEF e
  <2>3. /\ SubsOf(todo'[p]) \subseteq SubsOf(todo[p])
        /\ SubsOf(todo[p]) \subseteq SubsOf(todo'[p]) \cup {e.sub}
    BY <2>2, ByEntry DEF Cut
  <2>4. QED
    BY <2>1, <2>3
<1>12. ASSUME NEW p \in Publishers, DispatchEnd(p)
       PROVE  /\ unsubscribed' = unsubscribed /\ todo'[q] = todo[q] /\ owed'[q] = owed[q]
              /\ q # p => at'[q] = at[q]
              /\ q = p => at'[q] = "return" /\ at[q] = "dispatch" /\ todo[q] = << >>
  BY <1>4, <1>12 DEF Typed, DispatchEnd
<1>13. ASSUME NEW p \in Publishers, PublishReturn(p)
       PROVE  /\ unsubscribed' = unsubscribed /\ todo'[q] = todo[q]
              /\ at'[q] \in {"dispatch", "return"} => at'[q] = at[q] /\ owed'[q] = owed[q]
  BY <1>4, <1>13 DEF Typed, PublishReturn
<1>14. owed[q] \subseteq SubsOf(Current) /\ SubsOf(Current) \cap unsubscribed = {}
  BY <1>2 DEF Turns, InForce
<1>15. CASE \E s \in Subs : SubscribeLookup(s) \/ Subscribe(s)
  BY <1>3, <1>6, <1>15
<1>16. CASE \E s \in Subs : UnsubscribeLookup(s)
  BY <1>3, <1>7, <1>16
<1>17. CASE \E s \in Subs : Unsubscribe(s)
  BY <1>3, <1>5, <1>8, <1>17
<1>18. CASE \E p \in Publishers : PublishLookup(p) \/ CreateNode(p) \/ PublishReturn(p)
  BY <1>3, <1>9, <1>13, <1>18
<1>19. CASE \E p \in Publishers : DispatchBegin(p)
  <2>1. PICK p \in Publishers : DispatchBegin(p)
    BY <1>19
  <2>2. CASE q = p
    BY <1>10, <1>14, <2>1, <2>2
  <2>3. CASE q # p
    BY <1>3, <1>10, <2>1, <2>3
  <2>4. QED
    BY <2>2, <2>3
<1>20. CASE \E p \in Publishers : DispatchOne(p)
  BY <1>3, <1>11, <1>20
<1>21. CASE \E p \in Publishers : DispatchEnd(p)
  <2>1. PICK p \in Publishers : DispatchEnd(p)
    BY <1>21
  <2>2. CASE q = p
    BY <1>3, <1>5, <1>12, <2>1, <2>2
  <2>3. CASE q # p
    BY <1>3, <1>12, <2>1, <2>3
  <2>4. QED
    BY <2>2, <2>3
<1>22. QED
  BY <1>15, <1>16, <1>17, <1>18, <1>19, <1>20, <1>21 DEF Next

\* It holds at the start: there is no list with anything on it.
LEMMA InitInv ==
    ASSUME Init
    PROVE  IInv
<1>1. Len(<< >>) = 0 /\ Nodes = {} /\ Current = << >>
  BY DEF Init, Nodes, Current
<1>2. /\ Single(<< >>) /\ InOrder(<< >>) /\ Ascending(<< >>)
      /\ Ids(<< >>) = {} /\ SubsOf(<< >>) = {}
  BY DEF Single, InOrder, Ascending, Ids, SubsOf
<1>3. Typed
  <2>1. /\ << >> \in Seq(Seq(Entries)) /\ << >> \in Seq(Entries)
        /\ << >> \in Seq(Publishers \cup {Nobody})
    BY EmptySeq
  <2>2. 0 \in 0..MaxSubs /\ 0 \in 0..MaxPubs /\ 0 \in 0..Len(<< >>)
    BY <1>1, EventBusAssumption
  <2>3. QED
    BY <2>1, <2>2 DEF Init, Typed
<1>4. Holding
  BY DEF Init, Holding, Threads
<1>5. Ordered
  BY <1>1, <1>2 DEF Init, Ordered
<1>6. Apart
  BY <1>1, <1>2 DEF Init, Apart
<1>7. Turns
  BY DEF Init, Turns, Threads
<1>8. OneList
  BY <1>1 DEF Init, OneList
<1>9. InForce
  BY <1>1, <1>2 DEF Init, InForce
<1>10. Reaching
  BY <1>2 DEF Init, Reaching, Threads
<1>11. QED
  BY <1>3, <1>4, <1>5, <1>6, <1>7, <1>8, <1>9, <1>10 DEF IInv

\* Every step keeps it.
LEMMA StepInv ==
    ASSUME IInv, [Next]_vars
    PROVE  IInv'
<1>1. CASE Next
  BY <1>1, TypedKept, HoldingKept, OrderedKept, ApartKept, TurnsKept, OneListKept, InForceKept,
     ReachingKept DEF IInv
<1>2. CASE UNCHANGED vars
  BY <1>2 DEF vars, IInv, Typed, Holding, Ordered, Apart, Turns, OneList, InForce, Reaching,
              Nodes, Current
<1>3. QED
  BY <1>1, <1>2

-----------------------------------------------------------------------------
(* Theorems *)

\* The invariant holds in every reachable state.
THEOREM Invariance == Spec => []IInv
<1>1. Init => IInv
  BY InitInv
<1>2. IInv /\ [Next]_vars => IInv'
  BY StepInv
<1>3. QED
  BY <1>1, <1>2, PTL DEF Spec

\* A list with one entry for a subscriber is as long as it has subscribers.
LEMMA SingleCounts ==
    ASSUME NEW list \in Seq(Entries), Single(list)
    PROVE  Len(list) = Cardinality(SubsOf(list))
<1> DEFINE f == [i \in 1..Len(list) |-> list[i].sub]
<1>1. Len(list) \in Nat /\ \A i \in 1..Len(list) : list[i].sub \in Subs
  BY EntryFields
<1>2. f \in Seq(Subs) /\ Len(f) = Len(list)
  BY <1>1
<1>3. Distinct(f)
  BY <1>2 DEF Distinct, Single
<1>4. Elems(f) = SubsOf(list)
  BY <1>2 DEF Elems, SubsOf
<1> HIDE DEF f
<1>5. QED
  BY <1>2, <1>3, <1>4, DistinctCounts

\* Types; no list ever holds two subscriptions of one subscriber, whatever subscribing,
\* unsubscribing and collecting the free list do in between.
THEOREM TypeCorrect == Spec => []TypeOK
<1>1. ASSUME IInv PROVE TypeOK
  <2>1. \A list \in Lists : list \in Seq(Entries) /\ Single(list)
    <3>1. \A n \in 1..Len(event_root) : event_root[n] \in Seq(Entries) /\ Single(event_root[n])
      BY <1>1, ElementOfSeq DEF IInv, Typed, Ordered, Nodes
    <3>2. QED
      BY <1>1, <3>1 DEF IInv, Typed, Ordered, Lists
  <2>2. \A list \in Lists : Len(list) = Cardinality(SubsOf(list))
    BY <2>1, SingleCounts
  <2>3. QED
    BY <1>1, <2>1, <2>2 DEF IInv, Typed, TypeOK
<1>2. QED
  BY <1>1, Invariance, PTL

\* Every dispatch calls the emergencies first and the others by the order in which they
\* subscribed, also those that came through the free list.
THEOREM CalledInOrder == Spec => []DispatchOrder
<1>1. ASSUME IInv PROVE DispatchOrder
  BY <1>1 DEF IInv, Ordered, InOrder, DispatchOrder
<1>2. QED
  BY <1>1, Invariance, PTL

\* After a one-time subscription was called no list and no publisher's pass has it.
THEOREM CalledOnce == Spec => []OneTimeOnce
<1>1. ASSUME IInv PROVE OneTimeOnce
  <2>1. \A n \in Nodes : \A x \in Ids(event_root[n]) : x \notin used
    BY <1>1 DEF IInv, Apart
  <2>2. \A list \in Lists : \A x \in Ids(list) : x \notin used
    BY <1>1, <2>1 DEF IInv, Apart, Lists, Nodes
  <2>3. \A p \in Publishers : \A x \in Ids(todo[p]) : x \notin used
    <3>1. TAKE p \in Publishers
    <3>2. CASE at[p] = "dispatch"
      <4> DEFINE n == found[p]
      <4>1. n \in Nodes /\ Elems(todo[p]) \subseteq Elems(event_root[n])
        BY <1>1, <3>2, Apartness, LenProperties DEF IInv, Typed, Holding, Nodes
      <4>2. Ids(todo[p]) \subseteq Ids(event_root[n])
        BY <4>1, ByEntry
      <4>3. QED
        BY <2>1, <4>1, <4>2
    <3>3. CASE at[p] # "dispatch"
      <4>1. todo[p] = << >>
        BY <1>1, <3>3 DEF IInv, Holding
      <4>2. QED
        BY <4>1 DEF Ids
    <3>4. QED
      BY <3>2, <3>3
  <2>4. QED
    BY <2>2, <2>3 DEF OneTimeOnce, Ids
<1>2. QED
  BY <1>1, Invariance, PTL

\* Unless a node was created between the lookup and the critical section of another call,
\* a publication calls every normal subscription that was in force when it began and was
\* not withdrawn.
THEOREM Heard == Spec => []HeardUnlessOvertaken
<1>1. ASSUME IInv PROVE HeardUnlessOvertaken
  BY <1>1 DEF IInv, Typed, Reaching, HeardUnlessOvertaken, EveryPublicationHeard
<1>2. QED
  BY <1>1, Invariance, PTL

\* Under the same condition nobody is called after its unsubscribe has returned.
THEOREM Quieted == Spec => []QuietUnlessOvertaken
<1>1. ASSUME IInv PROVE QuietUnlessOvertaken
  BY <1>1 DEF IInv, Typed, Reaching, QuietUnlessOvertaken
<1>2. QED
  BY <1>1, Invariance, PTL
=============================================================================
