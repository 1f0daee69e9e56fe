---------------------------- MODULE MatopProofs ----------------------------
(***************************************************************************)
(* Proofs about the MQTT service and the requests over it, for any threads *)
(* and any numbers of messages, faults, records, packet identifiers and    *)
(* identifiers of requests: what the lists, appended to and walked without *)
(* a lock, still guarantee.                                                *)
(***************************************************************************)
EXTENDS Matop, ListFacts

-----------------------------------------------------------------------------
(* The inductive invariant *)

\* The entries on the list h when n are the next pointers.
BehindIn(n, h) ==
    LET b[k \in 0..MaxEntries] == IF k = 0 THEN h ELSE IF b[k - 1] = 0 THEN 0 ELSE n[b[k - 1]]
    IN b
ChainIn(n, h) == {BehindIn(n, h)[k] : k \in 0..MaxEntries} \ {0}

Kinds == {"pub", "req"}

\* The list of each kind.
Lists == [k \in Kinds |-> IF k = "pub" THEN publish_list ELSE message_list]

\* The kind of each entry.
KindOf == [e \in Entries |-> entry[e].kind]

\* The entries that were taken from their list or given back.
Gone == freed \union {e \in Entries : reports[e] # <<>>}

\* The thread is between the read of the head and the store.
Appends(t) == at[t].pc \in {"first", "walk", "link"}

\* What may have happened to an entry so that nothing is promised of it.
Excused == {e \in Entries : e \in overlapped \union forgotten \/ Stale(e)}

\* The entries in the hands of threads.
Hands ==
    /\ \A t \in Threads :
         /\ at[t].pc # "idle" => at[t].e \in Entries /\ KindOf[at[t].e] \in {"plain", "pub", "req"}
         /\ at[t].pc = "id" => KindOf[at[t].e] = "req"
         /\ at[t].pc = "head" \/ Appends(t) => KindOf[at[t].e] \in Kinds
         /\ at[t].pc \in {"walk", "link"} =>
              at[t].last \in Accepted /\ KindOf[at[t].last] = KindOf[at[t].e]
    /\ \A t, u \in Threads :
         t # u /\ at[t].pc # "idle" /\ at[u].pc # "idle" => at[t].e # at[u].e

\* Every pointer leads to an entry of its kind whose call has returned.
Shape ==
    /\ \A k \in Kinds : Lists[k] # 0 => Lists[k] \in Accepted /\ KindOf[Lists[k]] = k
    /\ \A x \in Entries : next[x] # 0 =>
         x \in Accepted /\ next[x] \in Accepted /\ KindOf[next[x]] = KindOf[x]

\* No pointer of a list, or of an entry that is still there, leads to one that is gone,
\* and no two of them to the same entry.
Alive ==
    /\ \A x \in Gone : x \in Accepted \/ KindOf[x] = "refused"
    /\ \A k \in Kinds : Lists[k] \notin Gone
    /\ \A x \in Entries \ Gone : next[x] # 0 =>
         /\ next[x] \notin Gone
         /\ \A k \in Kinds : next[x] # Lists[k]
         /\ \A y \in Entries \ Gone : next[y] = next[x] => y = x

\* Two threads that append to the same list: both entries are marked.  A thread whose
\* entry is not marked is at an entry that is still there.
Marked ==
    /\ \A t, u \in Threads :
         t # u /\ Appends(t) /\ Appends(u) /\ KindOf[at[t].e] = KindOf[at[u].e] =>
             at[t].e \in overlapped
    /\ \A t \in Threads :
         at[t].pc \in {"walk", "link"} /\ at[t].e \notin overlapped => at[t].last \notin Gone

\* What the store at the end of an append may cut off is marked.
CutOff ==
    \A t \in Threads :
        /\ at[t].pc = "first" => ChainIn(next, Lists[KindOf[at[t].e]]) \subseteq overlapped
        /\ at[t].pc = "link" => ChainIn(next, next[at[t].last]) \subseteq overlapped

\* An append that nothing has disturbed is on the way to the end of the list.
OnTheWay ==
    \A t \in Threads : Appends(t) /\ at[t].e \notin Excused =>
        LET list == Lists[KindOf[at[t].e]]
        IN /\ at[t].pc = "first" => list = 0
           /\ at[t].pc \in {"walk", "link"} => at[t].last \in ChainIn(next, list)
           /\ at[t].pc = "link" => next[at[t].last] = 0

\* An entry whose call has returned is on its list, or gone, or excused.
Kept == \A e \in Accepted : e \in Gone \/ e \in Excused \/ e \in ChainIn(next, Lists[KindOf[e]])

Core == Hands /\ Shape /\ Alive /\ Marked /\ CutOff /\ OnTheWay /\ Kept

\* The pointers do not lead in a circle.
Ranked == \E r \in [Entries -> Nat] : \A x \in Entries : next[x] # 0 => r[x] < r[next[x]]

\* The walk of the loop, and the entry between its removal and its release.
Cursor ==
    /\ loop.pc \in {"scan", "freetail"} =>
         loop.prev = 0 \/ (loop.prev \in Accepted \ Gone /\ KindOf[loop.prev] = "pub")
    /\ loop.pc \in {"freetail", "free", "freematop"} =>
         loop.victim \in Entries /\ reports[loop.victim] # <<>>
    /\ loop.pc = "freetail" => reports[loop.victim] = <<0>> /\ KindOf[loop.victim] = "pub"

\* Faults are counted, and identifiers bounded.
Counted ==
    /\ epoch <= faults + (IF ctx.connected THEN 1 ELSE 0)
    /\ ctx.connected => ctx.client
    /\ loop.pc = "connected" => epoch > 0
    /\ \A e \in Entries : entry[e].conn <= epoch /\ (KindOf[e] = "req" => entry[e].conn <= Generation)
    /\ \A e \in Entries : KindOf[e] = "none" => entry[e] = NoEntry
    /\ \A e \in Entries : KindOf[e] = "req" =>
         entry[e].draw <= e /\ entry[e].msgid = entry[e].draw % ReqIds
    /\ \A f \in Fresh : id_cnt < f /\ \A e \in Entries \ Fresh : e < f

\* Publications of the connection that wait for an acknowledgement have different
\* identifiers, and one that is about to be sent has none.
Packets ==
    /\ \A e, f \in Outstanding : entry[e].msgid = entry[f].msgid => e = f
    /\ \A t \in Threads : at[t].pc = "send" /\ IsPub(t) => entry[at[t].e].msgid = 0

\* Requests of the connection that drew their number alone have different ones.
Drawn ==
    /\ \A t, u \in Threads : t # u /\ at[t].pc = "id" /\ at[u].pc = "id" => at[t].e \in overlapped
    /\ \A x \in Entries :
         /\ KindOf[x] = "req" /\ entry[x].conn = Generation /\ x \notin overlapped
         /\ \A t \in Threads : at[t].pc = "id" => at[t].e # x
         => /\ entry[x].draw <= id_cnt
            /\ \A t \in Threads : at[t].pc = "id" => entry[at[t].e].draw > entry[x].draw
    /\ \A x, y \in Entries :
         /\ KindOf[x] = "req" /\ KindOf[y] = "req" /\ x # y
         /\ entry[x].conn = entry[y].conn /\ entry[x].draw = entry[y].draw
         => x \in overlapped \/ y \in overlapped

\* The identifier of the entry is there to stay.
Fixed(e) == e \in Entries /\ KindOf[e] # "none" /\ (KindOf[e] = "pub" => entry[e].msgid # 0)

\* What callbacks were told; what was acknowledged is a publication that was sent.
Heard ==
    /\ \A e \in Entries : \A a \in Told(e) \ {0} : Fixed(e) /\ Fixed(a)
    /\ AnswersFit
    /\ \A e \in acked : Fixed(e) /\ KindOf[e] = "pub"

\* The entries that the loop can still come to, from the head of the list or from where its
\* walk is, and those that a thread may still put there.
Reach ==
    ChainIn(next, publish_list) \union InHand \union
        IF loop.pc \in {"scan", "freetail"} THEN ChainIn(next, Current) ELSE {}

\* Acknowledged publications that no callback was told of and that were in nobody's hands
\* then: they are lost.
Silent ==
    {e \in acked : e \notin early /\ reports[e] = <<>> /\ \A f \in Entries : e \notin Told(f)}

\* What is lost does not come back.
Silence == Silent \intersect Reach = {}

\* The invariant is kept in two parts: what every step keeps by itself, and Silence, which a
\* step keeps because the first part holds before and after it.
Base ==
    /\ TypeOK /\ Core /\ Ranked /\ Cursor /\ Counted /\ Packets /\ Drawn /\ Heard
    /\ ReportedOnce /\ FreedReported /\ CrashCauses

IInv == Base /\ Silence

-----------------------------------------------------------------------------
(* Chains *)

\* The step from a pointer to the next.
Follow(n, x) == IF x = 0 THEN 0 ELSE n[x]

LEMMA BehindFacts ==
    ASSUME NEW n \in [Entries -> Pointer], NEW h \in Pointer
    PROVE  /\ BehindIn(n, h) \in [0..MaxEntries -> Pointer] /\ BehindIn(n, h)[0] = h
           /\ \A k \in 1..MaxEntries : BehindIn(n, h)[k] = Follow(n, BehindIn(n, h)[k - 1])
<1> DEFINE M == MaxEntries
           F == [e \in (1..M) \X Pointer |-> Follow(n, e[2])]
           p == CHOOSE q : q = [k \in 0..M |->
                    IF k = 0 THEN h ELSE IF q[k - 1] = 0 THEN 0 ELSE n[q[k - 1]]]
<1>1. M \in Nat /\ 0 \in 0..M
  BY MqttServiceAssumption
<1>2. \A x \in Pointer : Follow(n, x) \in Pointer
  BY <1>1 DEF Follow, Pointer, Entries
<1>3. F \in [(1..M) \X Pointer -> Pointer] /\ \A k \in 1..M : \A x \in Pointer : F[<<k, x>>] = Follow(n, x)
  BY <1>2
<1>4. PICK g : Recurs(g, M, Pointer, h, F)
  <2> HIDE DEF F, M
  <2>1. QED
    BY <1>1, <1>3, Recursion
<1>5. g = [k \in 0..M |-> IF k = 0 THEN h ELSE IF g[k - 1] = 0 THEN 0 ELSE n[g[k - 1]]]
  <2> HIDE DEF F
  <2> USE <1>4 DEF Recurs
  <2>1. ASSUME NEW k \in 0..M
        PROVE  g[k] = IF k = 0 THEN h ELSE IF g[k - 1] = 0 THEN 0 ELSE n[g[k - 1]]
    <3>1. CASE k = 0
      BY <3>1
    <3>2. CASE k # 0
      <4>1. k \in 1..M /\ k - 1 \in 0..M
        BY <1>1, <3>2
      <4>2. g[k - 1] \in Pointer
        BY <4>1
      <4>3. QED
        BY <1>3, <3>2, <4>1, <4>2 DEF Follow
    <3>3. QED
      BY <3>1, <3>2
  <2>2. QED
    BY <2>1
<1>6. p = [k \in 0..M |-> IF k = 0 THEN h ELSE IF p[k - 1] = 0 THEN 0 ELSE n[p[k - 1]]]
  <2>1. \E q : q = [k \in 0..M |-> IF k = 0 THEN h ELSE IF q[k - 1] = 0 THEN 0 ELSE n[q[k - 1]]]
    BY <1>5, Zenon
  <2>2. QED
    BY <2>1, Zenon
<1>7. BehindIn(n, h) = p
  BY DEF BehindIn
<1> HIDE DEF p
<1>8. p[0] = h /\ \A k \in 1..M : p[k] = Follow(n, p[k - 1])
  <2>1. \A k \in 0..M : p[k] = IF k = 0 THEN h ELSE IF p[k - 1] = 0 THEN 0 ELSE n[p[k - 1]]
    BY <1>6
  <2>2. 0 \in 0..M /\ \A k \in 1..M : k \in 0..M /\ k # 0
    BY <1>1
  <2>3. QED
    BY <2>1, <2>2 DEF Follow
<1> DEFINE Q == {k \in 0..M : p[k] \in Pointer}
<1>9. 0 \in Q /\ \A k \in 0..(M - 1) : k \in Q => k + 1 \in Q
  <2>1. 0 \in Q
    BY <1>1, <1>8
  <2>2. ASSUME NEW k \in 0..(M - 1), k \in Q PROVE k + 1 \in Q
    <3>1. k + 1 \in 1..M /\ (k + 1) - 1 = k /\ k + 1 \in 0..M
      BY <1>1
    <3>2. p[k + 1] = Follow(n, p[k])
      BY <1>8, <3>1
    <3>3. QED
      BY <1>2, <2>2, <3>1, <3>2
  <2>3. QED
    BY <2>1, <2>2
<1>10. \A k \in 0..M : p[k] \in Pointer
  <2> HIDE DEF Q, M
  <2>1. \A k \in 0..M : k \in Q
    BY <1>1, <1>9, InductionTo
  <2>2. QED
    BY <2>1 DEF Q
<1>11. p \in [0..M -> Pointer]
  <2>1. p = [k \in 0..M |-> p[k]]
    BY <1>6
  <2>2. QED
    BY <1>10, <2>1
<1>12. QED
  BY <1>7, <1>8, <1>11

\* The set C is what can be reached from h: the least set that has h and is closed
\* under the pointers.
Closed(n, h, C) == (h # 0 => h \in C) /\ \A x \in C : n[x] # 0 => n[x] \in C

LEMMA ChainClosed ==
    ASSUME NEW n \in [Entries -> Pointer], NEW h \in Pointer
    PROVE  ChainIn(n, h) \subseteq Entries /\ Closed(n, h, ChainIn(n, h))
<1> DEFINE M == MaxEntries
           b == BehindIn(n, h)
           C == ChainIn(n, h)
<1>1. M \in Nat /\ 0 \in 0..M /\ M \in 0..M
  BY MqttServiceAssumption
<1>2. /\ b \in [0..M -> Pointer] /\ b[0] = h
      /\ \A k \in 1..M : b[k] = Follow(n, b[k - 1])
  BY BehindFacts
<1> HIDE DEF b
<1>3. \A x : x \in C <=> x # 0 /\ \E k \in 0..M : x = b[k]
  BY DEF ChainIn, b
<1>4. C \subseteq Entries
  BY <1>2, <1>3 DEF Pointer, Entries
<1>5. h # 0 => h \in C
  BY <1>1, <1>2, <1>3
<1>6. ASSUME NEW x \in C, n[x] # 0 PROVE n[x] \in C
  <2>1. PICK k \in 0..M : x = b[k] /\ x # 0
    BY <1>3
  <2>2. CASE k < M
    <3>1. k + 1 \in 1..M /\ k + 1 \in 0..M /\ (k + 1) - 1 = k
      BY <1>1, <2>2
    <3>2. b[k + 1] = n[x]
      BY <1>2, <2>1, <3>1 DEF Follow
    <3>3. QED
      BY <1>3, <1>6, <3>1, <3>2
  <2>3. CASE k = M
    <3>1. ASSUME NEW j \in 0..M, b[j] = 0 PROVE FALSE
      <4> DEFINE Q == {i \in 0..(M - j) : b[j + i] = 0}
      <4>1. M - j \in Nat /\ j + 0 = j /\ M - j \in 0..(M - j) /\ j + (M - j) = M /\ 0 \in 0..(M - j)
        BY <1>1
      <4>2. 0 \in Q
        BY <3>1, <4>1
      <4>3. ASSUME NEW i \in 0..((M - j) - 1), i \in Q PROVE i + 1 \in Q
        <5>1. /\ j + (i + 1) \in 1..M /\ (j + (i + 1)) - 1 = j + i
              /\ i + 1 \in 0..(M - j)
          BY <1>1
        <5>2. b[j + (i + 1)] = Follow(n, b[j + i])
          BY <1>2, <5>1
        <5>3. QED
          BY <4>3, <5>1, <5>2 DEF Follow
      <4>4. \A i \in 0..((M - j) - 1) : i \in Q => i + 1 \in Q
        BY <4>3
      <4>5. M - j \in Q
        <5> HIDE DEF Q, M
        <5>1. \A i \in 0..(M - j) : i \in Q
          BY <4>1, <4>2, <4>4, InductionTo
        <5>2. QED
          BY <4>1, <5>1
      <4>6. b[M] = 0
        BY <4>1, <4>5
      <4>7. QED
        BY <2>1, <2>3, <4>6
    <3>2. b \in [0..M -> Entries]
      BY <1>2, <3>1 DEF Pointer, Entries
    <3>3. PICK i \in 0..M, j \in 0..M : i < j /\ b[i] = b[j]
      <4>1. ASSUME \A i, j \in 0..M : b[i] = b[j] => i = j PROVE FALSE
        <5>1. b \in Injection(0..M, Entries)
          BY <3>2, <4>1 DEF Injection, IsInjective
        <5>2. IsFiniteSet(0..M) /\ Cardinality(0..M) = M + 1 /\ IsFiniteSet(Entries) /\ Cardinality(Entries) = M
          <6>1. /\ IsFiniteSet(0..M) /\ Cardinality(0..M) = IF 0 > M THEN 0 ELSE M - 0 + 1
                /\ IsFiniteSet(1..M) /\ Cardinality(1..M) = IF 1 > M THEN 0 ELSE M - 1 + 1
            BY <1>1, FS_Interval
          <6>2. QED
            BY <1>1, <6>1 DEF Entries
        <5>3. Cardinality(0..M) <= Cardinality(Entries)
          <6>1. \A S, T, f : f \in Injection(S, T) /\ IsFiniteSet(T) => Cardinality(S) <= Cardinality(T)
            BY FS_Injection, Zenon
          <6>2. QED
            BY <5>1, <5>2, <6>1
        <5>5. QED
          BY <1>1, <5>2, <5>3
      <4>2. PICK i \in 0..M, j \in 0..M : b[i] = b[j] /\ i # j
        BY <4>1
      <4>3. i < j \/ j < i
        BY <1>1, <4>2
      <4>4. QED
        BY <4>2, <4>3
    <3> DEFINE Q == {m \in 0..(M - j) : b[i + m] = b[j + m]}
    <3>4. M - j \in Nat /\ i + 0 = i /\ j + 0 = j /\ M - j \in 0..(M - j) /\ j + (M - j) = M /\ 0 \in 0..(M - j)
      BY <1>1
    <3>5. 0 \in Q
      BY <3>3, <3>4
    <3>6. ASSUME NEW m \in 0..((M - j) - 1), m \in Q PROVE m + 1 \in Q
      <4>1. /\ i + (m + 1) \in 1..M /\ (i + (m + 1)) - 1 = i + m
            /\ j + (m + 1) \in 1..M /\ (j + (m + 1)) - 1 = j + m
            /\ m + 1 \in 0..(M - j)
        BY <1>1, <3>3
      <4>2. b[i + (m + 1)] = Follow(n, b[i + m]) /\ b[j + (m + 1)] = Follow(n, b[j + m])
        BY <1>2, <4>1
      <4>3. QED
        BY <3>6, <4>1, <4>2
    <3>7. \A m \in 0..((M - j) - 1) : m \in Q => m + 1 \in Q
      BY <3>6
    <3>8. M - j \in Q
      <4> HIDE DEF Q, M
      <4>1. \A m \in 0..(M - j) : m \in Q
        BY <3>4, <3>5, <3>7, InductionTo
      <4>2. QED
        BY <3>4, <4>1
    <3>9. b[i + (M - j)] = x
      BY <2>1, <2>3, <3>4, <3>8
    <3> HIDE DEF Q
    <3>10. i + (M - j) + 1 \in 1..M /\ (i + (M - j) + 1) - 1 = i + (M - j) /\ i + (M - j) + 1 \in 0..M
      BY <1>1, <3>3
    <3>11. b[i + (M - j) + 1] = n[x]
      BY <1>2, <2>1, <3>9, <3>10 DEF Follow
    <3>12. QED
      BY <1>3, <1>6, <3>10, <3>11
  <2>4. QED
    BY <1>1, <2>2, <2>3
<1>7. QED
  BY <1>4, <1>5, <1>6 DEF Closed

LEMMA ChainLeast ==
    ASSUME NEW n \in [Entries -> Pointer], NEW h \in Pointer, NEW S, Closed(n, h, S)
    PROVE  ChainIn(n, h) \subseteq S
<1> DEFINE M == MaxEntries
           b == BehindIn(n, h)
           Q == {k \in 0..M : b[k] = 0 \/ b[k] \in S}
<1>1. M \in Nat /\ 0 \in 0..M
  BY MqttServiceAssumption
<1>2. /\ b \in [0..M -> Pointer] /\ b[0] = h
      /\ \A k \in 1..M : b[k] = Follow(n, b[k - 1])
  BY BehindFacts
<1>3. ChainIn(n, h) = {b[k] : k \in 0..M} \ {0}
  BY DEF ChainIn
<1> HIDE DEF b
<1>4. 0 \in Q
  BY <1>1, <1>2 DEF Closed
<1>5. \A k \in 0..(M - 1) : k \in Q => k + 1 \in Q
  <2>1. ASSUME NEW k \in 0..(M - 1), k \in Q PROVE k + 1 \in Q
    <3>1. k + 1 \in 1..M /\ (k + 1) - 1 = k /\ k + 1 \in 0..M
      BY <1>1
    <3>2. b[k + 1] = Follow(n, b[k])
      BY <1>2, <3>1
    <3>3. QED
      BY <2>1, <3>1, <3>2 DEF Follow, Closed
  <2>2. QED
    BY <2>1
<1>6. \A k \in 0..M : k \in Q
  <2> HIDE DEF Q, M
  <2>1. QED
    BY <1>1, <1>4, <1>5, InductionTo
<1>7. QED
  BY <1>3, <1>6

LEMMA ChainNull ==
    ASSUME NEW n \in [Entries -> Pointer]
    PROVE  ChainIn(n, 0) = {}
<1>1. 0 \in Pointer /\ Closed(n, 0, {})
  BY MqttServiceAssumption DEF Pointer, Closed
<1>2. QED
  BY <1>1, ChainLeast

\* An entry of a list that is not its head has another one before it.
LEMMA ChainInner ==
    ASSUME NEW n \in [Entries -> Pointer], NEW h \in Pointer,
           NEW x \in ChainIn(n, h), x # h
    PROVE  \E p \in ChainIn(n, h) : p # x /\ n[p] = x
<1>1. SUFFICES ASSUME \A p \in ChainIn(n, h) : p # x => n[p] # x PROVE FALSE
  OBVIOUS
<1>2. Closed(n, h, ChainIn(n, h) \ {x})
  BY <1>1, ChainClosed DEF Closed
<1>3. QED
  BY <1>2, ChainLeast

\* The list from an entry on is a part of the list.
LEMMA ChainFrom ==
    ASSUME NEW n \in [Entries -> Pointer], NEW h \in Pointer, NEW x \in ChainIn(n, h)
    PROVE  ChainIn(n, x) \subseteq ChainIn(n, h) /\ ChainIn(n, n[x]) \subseteq ChainIn(n, h)
<1>1. x \in Entries /\ x \in Pointer /\ n[x] \in Pointer
  BY ChainClosed DEF Entries, Pointer
<1>2. Closed(n, x, ChainIn(n, h)) /\ Closed(n, n[x], ChainIn(n, h))
  BY ChainClosed DEF Closed
<1>3. QED
  BY <1>1, <1>2, ChainLeast

\* The entry e is taken from behind p, or from the head.
LEMMA ChainWithout ==
    ASSUME NEW n \in [Entries -> Pointer], NEW h \in Pointer, NEW e \in Entries,
           NEW p \in Entries, n[p] = e, p # e,
           NEW m, m = [n EXCEPT ![p] = n[e]]
    PROVE  /\ m \in [Entries -> Pointer]
           /\ ChainIn(m, h) \subseteq ChainIn(n, h)
           /\ ChainIn(n, h) \ {e} \subseteq ChainIn(m, h)
<1>1. /\ m \in [Entries -> Pointer] /\ m[p] = n[e] /\ m[e] = n[e]
      /\ \A x \in Entries : x # p => m[x] = n[x]
  OBVIOUS
<1>2. ChainIn(n, h) \subseteq Entries /\ Closed(n, h, ChainIn(n, h))
  BY ChainClosed
<1>3. ChainIn(m, h) \subseteq Entries /\ Closed(m, h, ChainIn(m, h))
  BY <1>1, ChainClosed
<1>4. e # 0
  BY DEF Entries
<1>5. ChainIn(m, h) \subseteq ChainIn(n, h)
  <2>1. Closed(m, h, ChainIn(n, h))
    BY <1>1, <1>2, <1>4 DEF Closed
  <2>2. QED
    BY <1>1, <2>1, ChainLeast
<1>6. ChainIn(n, h) \ {e} \subseteq ChainIn(m, h)
  <2>1. CASE p \in ChainIn(m, h)
    <3>1. Closed(n, h, ChainIn(m, h) \union {e})
      BY <1>1, <1>3, <2>1 DEF Closed
    <3>2. QED
      BY <3>1, ChainLeast
  <2>2. CASE p \notin ChainIn(m, h)
    <3>1. Closed(n, h, ChainIn(m, h))
      BY <1>1, <1>3, <2>2 DEF Closed
    <3>2. QED
      BY <3>1, ChainLeast
  <2>3. QED
    BY <2>1, <2>2
<1>7. QED
  BY <1>1, <1>5, <1>6

LEMMA ChainRest ==
    ASSUME NEW n \in [Entries -> Pointer], NEW e \in Entries
    PROVE  /\ e \in ChainIn(n, e)
           /\ ChainIn(n, n[e]) \subseteq ChainIn(n, e)
           /\ ChainIn(n, e) \subseteq ChainIn(n, n[e]) \union {e}
<1>1. e \in Pointer /\ e # 0 /\ n[e] \in Pointer
  BY DEF Entries, Pointer
<1>2. e \in ChainIn(n, e)
  BY <1>1, ChainClosed DEF Closed
<1>3. Closed(n, e, ChainIn(n, n[e]) \union {e})
  BY <1>1, ChainClosed DEF Closed
<1>4. QED
  BY <1>1, <1>2, <1>3, ChainFrom, ChainLeast

\* The entry e, behind which there is nothing, is put behind p.
LEMMA ChainLinked ==
    ASSUME NEW n \in [Entries -> Pointer], NEW h \in Pointer, NEW e \in Entries,
           NEW p \in Entries, n[e] = 0, p # e,
           NEW m, m = [n EXCEPT ![p] = e]
    PROVE  /\ m \in [Entries -> Pointer]
           /\ ChainIn(m, h) \subseteq ChainIn(n, h) \union {e}
           /\ ChainIn(n, h) \subseteq ChainIn(m, h) \union ChainIn(n, n[p])
           /\ p \in ChainIn(m, h) => e \in ChainIn(m, h)
           /\ p \notin ChainIn(n, h) => ChainIn(m, h) \subseteq ChainIn(n, h)
<1>1. /\ m \in [Entries -> Pointer] /\ m[p] = e /\ m[e] = 0
      /\ \A x \in Entries : x # p => m[x] = n[x]
  BY DEF Entries, Pointer
<1>2. ChainIn(n, h) \subseteq Entries /\ Closed(n, h, ChainIn(n, h))
  BY ChainClosed
<1>3. ChainIn(m, h) \subseteq Entries /\ Closed(m, h, ChainIn(m, h))
  BY <1>1, ChainClosed
<1>4. ChainIn(n, n[p]) \subseteq Entries /\ Closed(n, n[p], ChainIn(n, n[p]))
  BY ChainClosed
<1>5. e # 0
  BY DEF Entries
<1>6. ChainIn(m, h) \subseteq ChainIn(n, h) \union {e}
  <2>1. Closed(m, h, ChainIn(n, h) \union {e})
    BY <1>1, <1>2 DEF Closed
  <2>2. QED
    BY <1>1, <2>1, ChainLeast
<1>7. ChainIn(n, h) \subseteq ChainIn(m, h) \union ChainIn(n, n[p])
  <2>1. Closed(n, h, ChainIn(m, h) \union ChainIn(n, n[p]))
    BY <1>1, <1>3, <1>4 DEF Closed
  <2>2. QED
    BY <2>1, ChainLeast
<1>8. p \in ChainIn(m, h) => e \in ChainIn(m, h)
  BY <1>1, <1>3, <1>5 DEF Closed
<1>9. p \notin ChainIn(n, h) => ChainIn(m, h) \subseteq ChainIn(n, h)
  <2>1. SUFFICES ASSUME p \notin ChainIn(n, h) PROVE ChainIn(m, h) \subseteq ChainIn(n, h)
    OBVIOUS
  <2>2. Closed(m, h, ChainIn(n, h))
    BY <1>1, <1>2, <2>1 DEF Closed
  <2>3. QED
    BY <1>1, <2>2, ChainLeast
<1>10. QED
  BY <1>1, <1>6, <1>7, <1>8, <1>9

-----------------------------------------------------------------------------
(* What the walks along a list find *)

LEMMA ChainState == \A h : Chain(h) = ChainIn(next, h) /\ Behind(h) = BehindIn(next, h)
BY DEF Chain, ChainIn, Behind, BehindIn

\* FirstOf finds an entry of the set if there is one on the list.
LEMMA FirstOfFacts ==
    ASSUME next \in [Entries -> Pointer], NEW h \in Pointer, NEW S \in SUBSET Entries
    PROVE  /\ FirstOf(h, S) = 0 => ChainIn(next, h) \intersect S = {}
           /\ FirstOf(h, S) # 0 => FirstOf(h, S) \in ChainIn(next, h) \intersect S
<1> DEFINE b == Behind(h)
           hits == {k \in 0..MaxEntries : b[k] \in S}
           k0 == CHOOSE k \in hits : \A j \in hits : k <= j
<1>1. ChainIn(next, h) = {b[k] : k \in 0..MaxEntries} \ {0}
  BY ChainState DEF Chain
<1>2. FirstOf(h, S) = IF hits = {} THEN 0 ELSE b[k0]
  BY DEF FirstOf
<1>3. 0 \notin S
  BY DEF Entries
<1>4. hits # {} => k0 \in hits
  <2>1. SUFFICES ASSUME hits # {} PROVE k0 \in hits
    OBVIOUS
  <2>2. hits \in SUBSET Nat
    OBVIOUS
  <2> HIDE DEF hits
  <2>3. \E k \in hits : \A j \in hits : k <= j
    BY <2>1, <2>2, MinFacts
  <2>4. QED
    BY <2>3, Zenon
<1> HIDE DEF b, k0
<1>5. QED
  BY <1>1, <1>2, <1>3, <1>4

\* Before finds the pointer to an entry of the list.
LEMMA BeforeFacts ==
    ASSUME next \in [Entries -> Pointer], NEW h \in Pointer, NEW e \in ChainIn(next, h)
    PROVE  \/ Before(h, e) = 0 /\ h = e
           \/ Before(h, e) \in ChainIn(next, h) /\ next[Before(h, e)] = e /\ h # e
<1>1. CASE h = e
  BY <1>1 DEF Before
<1>2. CASE h # e
  <2>1. \E p \in ChainIn(next, h) : next[p] = e
    BY <1>2, ChainInner
  <2>2. \E p \in Chain(h) : next[p] = e
    BY <2>1, ChainState
  <2>3. Before(h, e) \in Chain(h) /\ next[Before(h, e)] = e
    BY <1>2, <2>2, Zenon DEF Before
  <2>4. QED
    BY <1>2, <2>3, ChainState
<1>3. QED
  BY <1>1, <1>2

-----------------------------------------------------------------------------
(* Steps that preserve Core, by what they do to the lists *)

\* Accepted for the kinds k and the threads a.
AcceptedIn(k, a) ==
    {e \in Entries : k[e] \in Kinds /\ \A t \in Threads : a[t].pc # "idle" => a[t].e # e}

LEMMA AcceptedFacts == Accepted = AcceptedIn(KindOf, at) /\ Accepted' = AcceptedIn(KindOf', at')
BY DEF Accepted, AcceptedIn, KindOf, Kinds, InHand

LEMMA ListTypes ==
    ASSUME TypeOK
    PROVE  /\ next \in [Entries -> Pointer] /\ 0 \in Pointer /\ Entries \subseteq Pointer /\ 0 \notin Entries
           /\ "pub" \in Kinds /\ "req" \in Kinds /\ Lists["pub"] = publish_list /\ Lists["req"] = message_list
           /\ \A k \in Kinds : k \in {"pub", "req"} /\ Lists[k] \in Pointer
           /\ \A e \in Pointer : e # 0 => e \in Entries
BY MqttServiceAssumption DEF TypeOK, Lists, Kinds, Entries, Pointer

\* What is reached from an accepted entry is accepted and of its kind, and still there
\* when the entry is.
LEMMA ChainMembers ==
    ASSUME TypeOK, Core, NEW h \in Accepted, NEW x \in ChainIn(next, h)
    PROVE  x \in Accepted /\ KindOf[x] = KindOf[h] /\ (h \notin Gone => x \notin Gone)
<1>1. next \in [Entries -> Pointer] /\ h \in Entries /\ h \in Pointer /\ h # 0 /\ Accepted \subseteq Entries
  BY ListTypes DEF Accepted
<1> DEFINE S == {y \in Accepted : KindOf[y] = KindOf[h]}
<1>2. Closed(next, h, S)
  BY <1>1 DEF Core, Shape, Closed
<1>3. x \in S
  BY <1>1, <1>2, ChainLeast
<1>4. ASSUME h \notin Gone PROVE x \notin Gone
  <2>1. Closed(next, h, S \ Gone)
    BY <1>1, <1>4 DEF Core, Shape, Alive, Closed
  <2>2. QED
    BY <1>1, <2>1, ChainLeast
<1>5. QED
  BY <1>3, <1>4

\* The same for the lists.
LEMMA ListMembers ==
    ASSUME TypeOK, Core, NEW k \in Kinds, NEW x \in ChainIn(next, Lists[k])
    PROVE  x \in Accepted /\ KindOf[x] = k /\ x \notin Gone
<1>1. Lists[k] # 0
  BY ListTypes, ChainNull
<1>2. Lists[k] \in Accepted /\ KindOf[Lists[k]] = k /\ Lists[k] \notin Gone
  BY <1>1 DEF Core, Shape, Alive
<1>3. QED
  BY <1>2, ChainMembers

\* Nothing moves; more may be excused.
LEMMA CoreSame ==
    ASSUME TypeOK, Core, at' = at, next' = next, Lists' = Lists, KindOf' = KindOf, Gone' = Gone,
           overlapped \subseteq overlapped', Excused \subseteq Excused'
    PROVE  Core'
<1>1. Accepted' = Accepted
  BY AcceptedFacts
<1>2. \A t \in Threads : Appends(t)' <=> Appends(t)
  BY DEF Appends
<1>3. Hands'
  BY <1>1, <1>2 DEF Core, Hands
<1>4. Shape' /\ Alive'
  BY <1>1 DEF Core, Shape, Alive
<1>5. Marked'
  BY <1>2 DEF Core, Marked
<1>6. CutOff'
  BY DEF Core, CutOff
<1>7. OnTheWay'
  BY <1>2 DEF Core, OnTheWay
<1>8. Kept'
  BY <1>1 DEF Core, Kept
<1>9. QED
  BY <1>3, <1>4, <1>5, <1>6, <1>7, <1>8 DEF Core

\* The thread t goes from one step to the next before the append.
LEMMA CoreGoesOn ==
    ASSUME TypeOK, Core, NEW t \in Threads, at[t].pc \in {"id", "send"},
           NEW q \in {"send", "head"}, q = "head" => KindOf[at[t].e] \in Kinds,
           at' = [at EXCEPT ![t].pc = q],
           next' = next, Lists' = Lists, KindOf' = KindOf, Gone' = Gone,
           overlapped \subseteq overlapped', Excused \subseteq Excused'
    PROVE  Core'
<1>1. /\ at'[t].pc = q /\ at'[t].e = at[t].e
      /\ \A u \in Threads : u # t => at'[u] = at[u]
  BY DEF TypeOK
<1>2. Accepted' = Accepted
  BY <1>1, AcceptedFacts DEF AcceptedIn
<1>3. \A u \in Threads : Appends(u)' => Appends(u) /\ u # t /\ at'[u] = at[u]
  BY <1>1 DEF Appends
<1>4. Hands'
  <2>1. \A u, v \in Threads :
          u # v /\ at'[u].pc # "idle" /\ at'[v].pc # "idle" => at'[u].e # at'[v].e
    BY <1>1 DEF Core, Hands
  <2>2. QED
    BY <1>1, <1>2, <1>3, <2>1 DEF Core, Hands
<1>5. Shape' /\ Alive'
  BY <1>2 DEF Core, Shape, Alive
<1>6. Marked'
  BY <1>1, <1>3 DEF Core, Marked
<1>7. CutOff'
  BY <1>1 DEF Core, CutOff
<1>8. OnTheWay'
  BY <1>1, <1>3 DEF Core, OnTheWay
<1>9. Kept'
  BY <1>2 DEF Core, Kept
<1>10. QED
  BY <1>4, <1>5, <1>6, <1>7, <1>8, <1>9 DEF Core

\* The thread t allocates the entry e.
LEMMA CoreAlloc ==
    ASSUME TypeOK, Core, NEW t \in Threads, at[t].pc = "idle",
           NEW e \in Fresh, NEW k \in {"plain", "pub", "req"}, NEW q \in {"id", "send", "head"},
           q = "head" => k = "pub", q = "id" => k = "req",
           at' = [at EXCEPT ![t] = [pc |-> q, e |-> e, last |-> 0]],
           KindOf' = [KindOf EXCEPT ![e] = k],
           next' = next, Lists' = Lists, Gone' = Gone,
           overlapped \subseteq overlapped', Excused \subseteq Excused'
    PROVE  Core'
<1>1. /\ at'[t].pc = q /\ at'[t].e = e
      /\ \A u \in Threads : u # t => at'[u] = at[u]
  BY DEF TypeOK
<1>2. e \in Entries /\ KindOf[e] = "none" /\ KindOf = [x \in Entries |-> KindOf[x]]
  BY DEF Fresh, KindOf
<1>3. KindOf'[e] = k /\ \A x \in Entries : x # e => KindOf'[x] = KindOf[x]
  BY <1>2
<1>4. Accepted' = Accepted /\ e \notin Accepted
  BY <1>1, <1>2, <1>3, AcceptedFacts DEF AcceptedIn, Kinds
<1>5. \A u \in Threads : Appends(u)' => Appends(u) /\ u # t /\ at'[u] = at[u]
  BY <1>1 DEF Appends
<1>6. \A u \in Threads : u # t /\ at[u].pc # "idle" => at[u].e \in Entries /\ at[u].e # e
  BY <1>2 DEF Core, Hands
<1>7. \A x \in Accepted : x \in Entries /\ KindOf'[x] = KindOf[x]
  BY <1>3, <1>4 DEF Accepted
<1>8. \A u \in Threads : Appends(u)' => at'[u].e = at[u].e /\ KindOf'[at'[u].e] = KindOf[at[u].e]
  BY <1>3, <1>5, <1>6 DEF Appends
<1>9. Hands'
  <2>1. \A u, v \in Threads :
          u # v /\ at'[u].pc # "idle" /\ at'[v].pc # "idle" => at'[u].e # at'[v].e
    BY <1>1, <1>6 DEF Core, Hands
  <2>2. \A u \in Threads : u # t /\ at'[u].pc # "idle" => KindOf'[at'[u].e] = KindOf[at[u].e]
    BY <1>1, <1>3, <1>6
  <2>3. /\ at'[t].pc # "idle" => at'[t].e \in Entries /\ KindOf'[at'[t].e] \in {"plain", "pub", "req"}
        /\ at'[t].pc = "id" => KindOf'[at'[t].e] = "req"
        /\ at'[t].pc = "head" \/ Appends(t)' => KindOf'[at'[t].e] \in Kinds
        /\ at'[t].pc \notin {"walk", "link"}
    BY <1>1, <1>2, <1>3, <1>5 DEF Kinds
  <2>4. QED
    BY <1>1, <1>4, <1>5, <1>7, <2>1, <2>2, <2>3 DEF Core, Hands, Appends
<1>10. Shape'
  BY <1>4, <1>7 DEF Core, Shape
<1>11. Alive'
  <2>1. e \notin Gone
    BY <1>2, <1>4 DEF Core, Alive
  <2>2. \A x \in Gone : x \in Accepted' \/ KindOf'[x] = "refused"
    BY <1>2, <1>3, <1>4, <2>1 DEF Core, Alive
  <2>3. QED
    BY <2>2 DEF Core, Alive
<1>12. Marked'
  BY <1>5, <1>8 DEF Core, Marked, Appends
<1>13. CutOff'
  BY <1>5, <1>8 DEF Core, CutOff, Appends
<1>14. OnTheWay'
  BY <1>5, <1>8 DEF Core, OnTheWay
<1>15. Kept'
  BY <1>4, <1>7 DEF Core, Kept
<1>16. QED
  BY <1>9, <1>10, <1>11, <1>12, <1>13, <1>14, <1>15 DEF Core

\* The thread t is done with an entry that is not to be on a list.
LEMMA CoreLeave ==
    ASSUME TypeOK, Core, NEW t \in Threads, at[t].pc = "send",
           NEW k \in {"plain", "refused"}, KindOf' = [KindOf EXCEPT ![at[t].e] = k],
           at' = [at EXCEPT ![t] = Idle],
           next' = next, Lists' = Lists,
           Gone' = IF k = "refused" THEN Gone \union {at[t].e} ELSE Gone,
           overlapped \subseteq overlapped', Excused \ {at[t].e} \subseteq Excused'
    PROVE  Core'
<1> DEFINE e == at[t].e
<1>1. /\ at'[t].pc = "idle"
      /\ \A u \in Threads : u # t => at'[u] = at[u]
  BY DEF TypeOK, Idle
<1>2. e \in Entries /\ e \notin Accepted /\ KindOf = [x \in Entries |-> KindOf[x]]
  BY AcceptedFacts DEF AcceptedIn, Core, Hands, KindOf
<1>3. KindOf'[e] = k /\ \A x \in Entries : x # e => KindOf'[x] = KindOf[x]
  BY <1>2
<1>4. \A u \in Threads : u # t /\ at[u].pc # "idle" => at[u].e \in Entries /\ at[u].e # e
  BY DEF Core, Hands
<1>5. Accepted' = Accepted
  <2>1. k \notin Kinds
    BY DEF Kinds
  <2>2. QED
    BY <1>1, <1>2, <1>3, <2>1, AcceptedFacts DEF AcceptedIn
<1>6. \A u \in Threads : Appends(u)' => Appends(u) /\ u # t /\ at'[u] = at[u]
  BY <1>1 DEF Appends
<1>7. \A x \in Accepted : x \in Entries /\ x # e /\ KindOf'[x] = KindOf[x] /\ (x \in Gone' <=> x \in Gone)
  BY <1>2, <1>3 DEF Accepted
<1>8. \A u \in Threads : Appends(u)' =>
        at'[u].e = at[u].e /\ at[u].e # e /\ KindOf'[at'[u].e] = KindOf[at[u].e]
  BY <1>3, <1>4, <1>6 DEF Appends
<1> HIDE DEF e
<1>9. Hands'
  <2>1. \A u, v \in Threads :
          u # v /\ at'[u].pc # "idle" /\ at'[v].pc # "idle" => at'[u].e # at'[v].e
    BY <1>1 DEF Core, Hands
  <2>2. \A u \in Threads : u # t /\ at'[u].pc # "idle" => KindOf'[at'[u].e] = KindOf[at[u].e]
    BY <1>1, <1>3, <1>4
  <2>3. QED
    BY <1>1, <1>5, <1>6, <1>7, <2>1, <2>2 DEF Core, Hands, Appends
<1>10. Shape'
  BY <1>5, <1>7 DEF Core, Shape
<1>11. Alive'
  <2>1. \A x \in Gone' : x \in Accepted' \/ KindOf'[x] = "refused"
    <3>1. TAKE x \in Gone'
    <3>2. CASE x = e
      <4>1. e \notin Gone
        BY <1>2 DEF Core, Alive, Hands, e
      <4>2. QED
        BY <1>3, <3>1, <3>2, <4>1
    <3>3. CASE x # e
      BY <1>2, <1>3, <1>5, <3>1, <3>3 DEF Core, Alive, e
    <3>4. QED
      BY <3>2, <3>3
  <2>2. \A x \in Gone : x \in Gone'
    OBVIOUS
  <2>3. \A i \in Kinds : Lists[i] \notin Gone'
    BY <1>2, <1>7, ListTypes DEF Core, Alive, Shape, e
  <2>4. \A x \in Entries \ Gone' : next[x] # 0 => next[x] \notin Gone'
    BY <1>7, <2>2 DEF Core, Alive, Shape
  <2>5. QED
    BY <2>1, <2>2, <2>3, <2>4 DEF Core, Alive
<1>12. Marked'
  <2>1. \A u, v \in Threads :
         u # v /\ Appends(u)' /\ Appends(v)' /\ KindOf'[at'[u].e] = KindOf'[at'[v].e] =>
             at'[u].e \in overlapped'
    BY <1>6, <1>8 DEF Core, Marked
  <2>2. \A u \in Threads : at'[u].pc \in {"walk", "link"} => Appends(u)' /\ at[u].last \in Accepted
    BY <1>6 DEF Appends, Core, Hands
  <2>3. QED
    BY <1>6, <1>7, <2>1, <2>2 DEF Core, Marked
<1>13. CutOff'
  BY <1>6, <1>8 DEF Core, CutOff, Appends
<1>14. OnTheWay'
  BY <1>6, <1>8 DEF Core, OnTheWay, e
<1>15. Kept'
  BY <1>5, <1>7 DEF Core, Kept, e
<1>16. QED
  BY <1>9, <1>10, <1>11, <1>12, <1>13, <1>14, <1>15 DEF Core

\* The thread t reads the head of its list.
LEMMA CoreRead ==
    ASSUME TypeOK, Core, NEW t \in Threads, at[t].pc = "head",
           NEW k \in Kinds, k = KindOf[at[t].e],
           at'[t].pc \in {"first", "walk"}, at'[t].pc = "first" <=> Lists[k] = 0,
           at'[t].e = at[t].e, at'[t].last = Lists[k],
           \A u \in Threads : u # t => at'[u] = at[u],
           next' = next, Lists' = Lists, KindOf' = KindOf, Gone' = Gone,
           overlapped \subseteq overlapped', Excused \subseteq Excused',
           \A u \in Threads : Appends(u) /\ KindOf[at[u].e] = k =>
               at[u].e \in overlapped' /\ at[t].e \in overlapped'
    PROVE  Core'
<1>1. /\ at'[t].pc \in {"first", "walk"} /\ (at'[t].pc = "first" <=> Lists[k] = 0)
      /\ at'[t].e = at[t].e /\ at'[t].last = Lists[k]
      /\ \A u \in Threads : u # t => at'[u] = at[u]
  OBVIOUS
<1>2. Accepted' = Accepted
  BY <1>1, AcceptedFacts DEF AcceptedIn
<1>3. \A u \in Threads : at'[u].e = at[u].e /\ (u # t => at'[u] = at[u] /\ (Appends(u)' <=> Appends(u)))
  BY <1>1 DEF Appends
<1>4. at'[t].pc = "walk" => Lists[k] # 0 /\ Lists[k] \in Accepted /\ KindOf[Lists[k]] = k /\ Lists[k] \notin Gone
  BY <1>1 DEF Core, Shape, Alive
<1>5. Hands'
  <2>1. \A u, v \in Threads :
          u # v /\ at'[u].pc # "idle" /\ at'[v].pc # "idle" => at'[u].e # at'[v].e
    BY <1>1 DEF Core, Hands
  <2>2. /\ at'[t].e \in Entries /\ KindOf[at'[t].e] \in {"plain", "pub", "req"}
        /\ at'[t].pc # "id" /\ KindOf[at'[t].e] \in Kinds
        /\ at'[t].pc \in {"walk", "link"} =>
              at'[t].last \in Accepted /\ KindOf[at'[t].last] = KindOf[at'[t].e]
    BY <1>1, <1>4 DEF Core, Hands
  <2>3. QED
    BY <1>2, <1>3, <2>1, <2>2 DEF Core, Hands
<1>6. Shape' /\ Alive'
  BY <1>2 DEF Core, Shape, Alive
<1>7. Marked'
  <2>1. ASSUME NEW u \in Threads, NEW v \in Threads, u # v, Appends(u)', Appends(v)',
               KindOf[at[u].e] = KindOf[at[v].e]
        PROVE  at[u].e \in overlapped'
    BY <1>3, <2>1 DEF Core, Marked
  <2>2. QED
    BY <1>1, <1>3, <1>4, <2>1 DEF Core, Marked
<1>8. CutOff'
  BY <1>1, <1>3, ListTypes, ChainNull DEF Core, CutOff
<1>9. OnTheWay'
  <2>1. at'[t].pc = "walk" => Lists[k] \in ChainIn(next, Lists[k])
    BY <1>4, ListTypes, ChainClosed DEF Closed
  <2>2. QED
    BY <1>1, <1>3, <2>1 DEF Core, OnTheWay
<1>10. Kept'
  BY <1>2 DEF Core, Kept
<1>11. QED
  BY <1>5, <1>6, <1>7, <1>8, <1>9, <1>10 DEF Core

\* The thread t takes a step of its walk.
LEMMA CoreWalk ==
    ASSUME TypeOK, Core, NEW t \in Threads, at[t].pc = "walk",
           at' = IF next[at[t].last] # 0
                 THEN [at EXCEPT ![t].last = next[@]]
                 ELSE [at EXCEPT ![t].pc = "link"],
           next' = next, Lists' = Lists, KindOf' = KindOf, Gone' = Gone,
           overlapped' = overlapped, Excused' = Excused
    PROVE  Core'
<1> DEFINE l == at[t].last
<1>1. /\ at'[t].e = at[t].e /\ at'[t].pc = (IF next[l] # 0 THEN "walk" ELSE "link")
      /\ at'[t].last = IF next[l] # 0 THEN next[l] ELSE l
      /\ \A u \in Threads : u # t => at'[u] = at[u]
  BY DEF TypeOK
<1>2. /\ l \in Accepted /\ l \in Entries /\ KindOf[l] = KindOf[at[t].e] /\ Appends(t)
      /\ KindOf[at[t].e] \in Kinds
  BY DEF Core, Hands, Accepted, Appends
<1>3. next[l] # 0 => next[l] \in Accepted /\ KindOf[next[l]] = KindOf[at[t].e] /\ (l \notin Gone => next[l] \notin Gone)
  BY <1>2 DEF Core, Shape, Alive
<1>4. Accepted' = Accepted
  BY <1>1, AcceptedFacts DEF AcceptedIn
<1>5. \A u \in Threads : at'[u].e = at[u].e /\ (Appends(u)' <=> Appends(u)) /\ (u # t => at'[u] = at[u])
  BY <1>1 DEF Appends
<1>6. Hands'
  <2>1. \A u, v \in Threads :
          u # v /\ at'[u].pc # "idle" /\ at'[v].pc # "idle" => at'[u].e # at'[v].e
    BY <1>1 DEF Core, Hands
  <2>2. /\ at'[t].e \in Entries /\ KindOf[at'[t].e] \in {"plain", "pub", "req"}
        /\ at'[t].pc # "id" /\ KindOf[at'[t].e] \in Kinds
        /\ at'[t].last \in Accepted /\ KindOf[at'[t].last] = KindOf[at'[t].e]
    BY <1>1, <1>2, <1>3 DEF Core, Hands
  <2>3. ASSUME NEW u \in Threads
        PROVE  /\ at'[u].pc # "idle" => at'[u].e \in Entries /\ KindOf[at'[u].e] \in {"plain", "pub", "req"}
               /\ at'[u].pc = "id" => KindOf[at'[u].e] = "req"
               /\ at'[u].pc = "head" \/ Appends(u)' => KindOf[at'[u].e] \in Kinds
               /\ at'[u].pc \in {"walk", "link"} =>
                    at'[u].last \in Accepted /\ KindOf[at'[u].last] = KindOf[at'[u].e]
    <3>1. CASE u = t
      BY <2>2, <3>1
    <3>2. CASE u # t
      BY <1>5, <3>2 DEF Core, Hands
    <3>3. QED
      BY <3>1, <3>2
  <2>4. QED
    BY <1>4, <2>1, <2>3 DEF Hands
<1>7. Shape' /\ Alive'
  BY <1>4 DEF Core, Shape, Alive
<1>8. Marked'
  <2>1. at'[t].e \notin overlapped => at'[t].last \notin Gone
    BY <1>1, <1>2, <1>3 DEF Core, Marked
  <2>2. QED
    BY <1>5, <2>1 DEF Core, Marked
<1>9. CutOff'
  <2>1. next[l] = 0 => ChainIn(next, next[l]) = {}
    BY ListTypes, ChainNull
  <2>2. QED
    BY <1>1, <1>5, <2>1 DEF Core, CutOff
<1>10. OnTheWay'
  <2> DEFINE C == ChainIn(next, Lists[KindOf[at[t].e]])
  <2>1. C \subseteq Entries /\ \A x \in C : next[x] # 0 => next[x] \in C
    BY <1>2, ListTypes, ChainClosed DEF Closed
  <2>2. at[t].e \notin Excused => l \in C
    BY <1>2 DEF Core, OnTheWay
  <2>3. at[t].e \notin Excused => at'[t].last \in C
    BY <1>1, <2>1, <2>2
  <2>4. QED
    BY <1>1, <1>5, <2>3 DEF Core, OnTheWay
<1>11. Kept'
  BY <1>4 DEF Core, Kept
<1>12. QED
  BY <1>6, <1>7, <1>8, <1>9, <1>10, <1>11 DEF Core

\* What every append that ends does to the threads.
LEMMA AppendEnds ==
    ASSUME TypeOK, Core, NEW t \in Threads, Appends(t), KindOf' = KindOf, at' = [at EXCEPT ![t] = Idle]
    PROVE  /\ at'[t].pc = "idle" /\ \A u \in Threads : u # t => at'[u] = at[u]
           /\ at[t].e \in Entries /\ KindOf[at[t].e] \in Kinds /\ at[t].e \notin Accepted
           /\ at[t].e \notin Gone /\ next[at[t].e] = 0
           /\ Accepted' = Accepted \union {at[t].e}
           /\ \A u \in Threads : Appends(u)' => Appends(u) /\ u # t /\ at'[u] = at[u] /\ at[u].e # at[t].e
           /\ \A u \in Threads : Appends(u)' /\ KindOf[at[u].e] = KindOf[at[t].e] =>
                at[u].e \in overlapped /\ at[t].e \in overlapped
           /\ Hands'
<1>1. at'[t].pc = "idle" /\ \A u \in Threads : u # t => at'[u] = at[u]
  BY DEF TypeOK, Idle
<1>2. at[t].pc # "idle" /\ at[t].e \in Entries /\ KindOf[at[t].e] \in Kinds
  BY DEF Core, Hands, Appends
<1>3. at[t].e \notin Accepted
  BY <1>2, AcceptedFacts DEF AcceptedIn
<1>4. at[t].e \notin Gone /\ next[at[t].e] = 0
  BY <1>2, <1>3 DEF Core, Alive, Shape, Kinds
<1>5. Accepted' = Accepted \union {at[t].e}
  <2>1. \A u \in Threads : u # t /\ at[u].pc # "idle" => at[u].e # at[t].e
    BY <1>2 DEF Core, Hands
  <2>2. QED
    BY <1>1, <1>2, <2>1, AcceptedFacts DEF AcceptedIn
<1>6. \A u \in Threads : Appends(u)' => Appends(u) /\ u # t /\ at'[u] = at[u] /\ at[u].e # at[t].e
  <2>1. \A u \in Threads : Appends(u)' => Appends(u) /\ u # t /\ at'[u] = at[u] /\ at[u].pc # "idle"
    BY <1>1 DEF Appends
  <2>2. QED
    BY <1>2, <2>1 DEF Core, Hands
<1>7. \A u \in Threads : Appends(u)' /\ KindOf[at[u].e] = KindOf[at[t].e] =>
        at[u].e \in overlapped /\ at[t].e \in overlapped
  BY <1>6 DEF Core, Marked
<1>8. Hands'
  <2>1. \A u, v \in Threads :
          u # v /\ at'[u].pc # "idle" /\ at'[v].pc # "idle" => at'[u].e # at'[v].e
    BY <1>1 DEF Core, Hands
  <2>2. QED
    BY <1>1, <1>5, <1>6, <2>1 DEF Core, Hands, Appends
<1>9. QED
  BY <1>1, <1>2, <1>3, <1>4, <1>5, <1>6, <1>7, <1>8

\* The thread t stores its entry as the head of the list k.
LEMMA CoreFirst ==
    ASSUME TypeOK, Core, NEW t \in Threads, at[t].pc = "first",
           NEW k \in Kinds, k = KindOf[at[t].e],
           at' = [at EXCEPT ![t] = Idle],
           Lists'[k] = at[t].e, \A i \in Kinds : i # k => Lists'[i] = Lists[i],
           next' = next, KindOf' = KindOf, Gone' = Gone, overlapped' = overlapped, Excused' = Excused
    PROVE  Core'
<1> DEFINE e == at[t].e
<1>1. Appends(t)
  BY DEF Appends
<1>2. /\ at'[t].pc = "idle" /\ \A u \in Threads : u # t => at'[u] = at[u]
      /\ e \in Entries /\ KindOf[e] \in Kinds /\ e \notin Accepted
      /\ e \notin Gone /\ next[e] = 0
      /\ Accepted' = Accepted \union {e}
      /\ \A u \in Threads : Appends(u)' => Appends(u) /\ u # t /\ at'[u] = at[u] /\ at[u].e # e
      /\ \A u \in Threads : Appends(u)' /\ KindOf[at[u].e] = KindOf[e] =>
           at[u].e \in overlapped /\ e \in overlapped
      /\ Hands'
  BY <1>1, AppendEnds
<1>3. ChainIn(next, e) = {e}
  BY <1>2, ListTypes, ChainRest, ChainNull
<1>4. k = KindOf[e] /\ Lists'[k] = e /\ ChainIn(next, Lists[k]) \subseteq overlapped
  BY DEF Core, CutOff
<1> HIDE DEF e
<1>5. Shape'
  BY <1>2, <1>4 DEF Core, Shape
<1>6. Alive'
  <2>1. \A x \in Entries : next[x] # 0 => next[x] # e
    BY <1>2 DEF Core, Shape
  <2>2. QED
    BY <1>2, <1>4, <2>1 DEF Core, Alive
<1>7. Marked'
  BY <1>2 DEF Core, Marked, Appends
<1>8. CutOff'
  BY <1>2, <1>3, <1>4 DEF Core, CutOff, Appends, Hands
<1>9. OnTheWay'
  <2>1. \A u \in Threads : Appends(u)' /\ at[u].e \notin Excused =>
          KindOf[at[u].e] \in Kinds /\ KindOf[at[u].e] # k
    <3>1. \A u \in Threads : Appends(u)' => KindOf[at[u].e] \in Kinds /\ at[u].e \in Entries
      BY <1>2 DEF Core, Hands, Appends
    <3>2. \A x \in Entries : x \in overlapped => x \in Excused
      BY DEF Excused
    <3>3. QED
      BY <1>2, <1>4, <3>1, <3>2
  <2>2. QED
    BY <1>2, <2>1 DEF Core, OnTheWay
<1>10. Kept'
  <2>1. \A x \in Accepted : x \in Entries /\ KindOf[x] \in Kinds
    BY AcceptedFacts DEF AcceptedIn
  <2>2. ASSUME NEW x \in Accepted, x \notin Gone, x \notin Excused
        PROVE  x \in ChainIn(next, Lists'[KindOf[x]])
    <3>1. x \in ChainIn(next, Lists[KindOf[x]])
      BY <2>2 DEF Core, Kept
    <3>2. x \notin overlapped
      BY <2>1, <2>2 DEF Excused
    <3>3. QED
      BY <1>4, <2>1, <3>1, <3>2
  <2>3. QED
    BY <1>2, <1>3, <1>4, <2>2 DEF Kept
<1>11. QED
  BY <1>2, <1>5, <1>6, <1>7, <1>8, <1>9, <1>10 DEF Core

\* The thread t stores its entry behind the last one of its walk.
LEMMA CoreLink ==
    ASSUME TypeOK, Core, NEW t \in Threads, at[t].pc = "link",
           at' = [at EXCEPT ![t] = Idle], next' = [next EXCEPT ![at[t].last] = at[t].e],
           Lists' = Lists, KindOf' = KindOf, Gone' = Gone, overlapped' = overlapped, Excused' = Excused
    PROVE  Core'
<1> DEFINE e == at[t].e
           l == at[t].last
           k == KindOf[e]
<1>1. Appends(t)
  BY DEF Appends
<1>2. /\ at'[t].pc = "idle" /\ \A u \in Threads : u # t => at'[u] = at[u]
      /\ e \in Entries /\ k \in Kinds /\ e \notin Accepted
      /\ e \notin Gone /\ next[e] = 0
      /\ Accepted' = Accepted \union {e}
      /\ \A u \in Threads : Appends(u)' => Appends(u) /\ u # t /\ at'[u] = at[u] /\ at[u].e # e
      /\ \A u \in Threads : Appends(u)' /\ KindOf[at[u].e] = k =>
           at[u].e \in overlapped /\ e \in overlapped
      /\ Hands'
  BY <1>1, AppendEnds
<1>3. l \in Accepted /\ l \in Entries /\ KindOf[l] = k /\ l # e
  BY <1>2 DEF Core, Hands, Accepted
<1>4. /\ next'[l] = e /\ \A x \in Entries : x # l => next'[x] = next[x]
      /\ next \in [Entries -> Pointer] /\ e # 0
  BY <1>3, ListTypes, <1>2
<1>5. ASSUME NEW h \in Pointer
      PROVE  /\ ChainIn(next', h) \subseteq ChainIn(next, h) \union {e}
             /\ ChainIn(next, h) \subseteq ChainIn(next', h) \union ChainIn(next, next[l])
             /\ l \in ChainIn(next', h) => e \in ChainIn(next', h)
             /\ l \notin ChainIn(next, h) => ChainIn(next', h) \subseteq ChainIn(next, h)
  <2>1. next' = [next EXCEPT ![l] = e]
    OBVIOUS
  <2> HIDE DEF e, l
  <2>2. e \in Entries /\ l \in Entries /\ next[e] = 0 /\ l # e /\ next \in [Entries -> Pointer]
    BY <1>2, <1>3, <1>4
  <2>3. QED
    BY <2>1, <2>2, ChainLinked, Zenon
<1>6. ChainIn(next, next[l]) \subseteq overlapped
  BY DEF Core, CutOff
<1>7. e \notin Excused => l \in ChainIn(next, Lists[k]) /\ next[l] = 0
  BY <1>1 DEF Core, OnTheWay
<1>8. \A u \in Threads : Appends(u)' =>
         /\ at'[u].e = at[u].e /\ at'[u].pc = at[u].pc /\ at'[u].last = at[u].last
         /\ KindOf[at[u].e] \in Kinds
         /\ at[u].pc \in {"walk", "link"} =>
              at[u].last \in Accepted /\ at[u].last \in Entries /\ KindOf[at[u].last] = KindOf[at[u].e]
  BY <1>2 DEF Core, Hands, Accepted
<1>9. ASSUME NEW h \in Pointer, h # 0 => h \in Accepted /\ KindOf[h] # k
      PROVE  l \notin ChainIn(next, h) /\ ChainIn(next, h) \intersect ChainIn(next, next[l]) = {}
  <2>1. \A x \in ChainIn(next, h) : KindOf[x] # k
    BY <1>4, <1>9, ChainMembers, ChainNull
  <2>2. \A x \in ChainIn(next, next[l]) : KindOf[x] = k
    <3>1. next[l] # 0 => next[l] \in Accepted /\ KindOf[next[l]] = k
      BY <1>3 DEF Core, Shape
    <3>2. QED
      BY <1>4, <3>1, ChainMembers, ChainNull
  <2>3. QED
    BY <1>3, <2>1, <2>2
<1> HIDE DEF e, l, k
<1>10. Shape'
  BY <1>2, <1>3, <1>4 DEF Core, Shape, k
<1>11. Alive'
  <2>1. \A x \in Entries : next[x] # 0 => next[x] # e
    BY <1>2 DEF Core, Shape
  <2>2. \A i \in Kinds : Lists[i] # e
    BY <1>2, <1>4 DEF Core, Shape
  <2>3. \A x \in Gone : x \in Accepted' \/ KindOf[x] = "refused"
    BY <1>2 DEF Core, Alive
  <2>4. QED
    BY <1>2, <1>4, <2>1, <2>2, <2>3 DEF Core, Alive
<1>12. Marked'
  BY <1>2 DEF Core, Marked, Appends
<1>13. CutOff'
  <2>1. ASSUME NEW u \in Threads, at'[u].pc = "first"
        PROVE  ChainIn(next', Lists[KindOf[at[u].e]]) \subseteq overlapped
    <3> DEFINE i == KindOf[at[u].e]
    <3>1. Appends(u)' /\ at[u].pc = "first" /\ i \in Kinds
      BY <1>2, <1>8, <2>1 DEF Appends
    <3>2. ChainIn(next, Lists[i]) \subseteq overlapped
      BY <3>1 DEF Core, CutOff
    <3>3. CASE i = k
      BY <1>2, <1>5, <3>1, <3>2, <3>3, ListTypes
    <3>4. CASE i # k
      <4>1. l \notin ChainIn(next, Lists[i])
        BY <1>9, <3>1, <3>4, ListTypes DEF Core, Shape
      <4>2. QED
        BY <1>5, <3>1, <3>2, <4>1, ListTypes
    <3>5. QED
      BY <3>3, <3>4
  <2>2. ASSUME NEW u \in Threads, at'[u].pc = "link"
        PROVE  ChainIn(next', next'[at[u].last]) \subseteq overlapped
    <3> DEFINE i == KindOf[at[u].e]
               m == at[u].last
    <3>1. Appends(u)' /\ at[u].pc = "link" /\ i \in Kinds /\ m \in Accepted /\ m \in Entries /\ KindOf[m] = i
      BY <1>2, <1>8, <2>2 DEF Appends
    <3>2. ChainIn(next, next[m]) \subseteq overlapped
      BY <3>1 DEF Core, CutOff
    <3>3. next[m] \in Pointer /\ (next[m] # 0 => next[m] \in Accepted /\ KindOf[next[m]] = i)
      BY <1>4, <3>1 DEF Core, Shape
    <3> HIDE DEF m, i
    <3>4. CASE m = l
      <4>1. e \in Pointer /\ ChainIn(next', e) \subseteq ChainIn(next, e) \union {e}
        BY <1>2, <1>5, ListTypes
      <4>2. ChainIn(next, e) \subseteq {e}
        BY <1>2, <1>4, ChainRest, ChainNull
      <4>3. e \in overlapped
        BY <1>2, <1>3, <3>1, <3>4 DEF i
      <4>4. QED
        BY <1>4, <3>4, <4>1, <4>2, <4>3 DEF m
    <3>5. CASE m # l /\ i = k
      <4>1. next'[m] = next[m] /\ e \in overlapped
        BY <1>2, <1>4, <3>1, <3>5 DEF i
      <4>2. ChainIn(next', next[m]) \subseteq ChainIn(next, next[m]) \union {e}
        BY <1>5, <3>3
      <4>3. QED
        BY <3>2, <4>1, <4>2 DEF m
    <3>6. CASE m # l /\ i # k
      <4>1. l \notin ChainIn(next, next[m])
        BY <1>9, <3>3, <3>6
      <4>2. QED
        BY <1>4, <1>5, <3>1, <3>2, <3>3, <3>6, <4>1 DEF m
    <3>7. QED
      BY <3>4, <3>5, <3>6
  <2>3. \A u \in Threads : at'[u].pc \in {"first", "link"} => at'[u] = at[u]
    BY <1>2
  <2>4. QED
    BY <2>1, <2>2, <2>3 DEF CutOff
<1>14. OnTheWay'
  <2>1. ASSUME NEW u \in Threads, Appends(u)', at[u].e \notin Excused
        PROVE  LET list == Lists[KindOf[at[u].e]]
               IN /\ at[u].pc = "first" => list = 0
                  /\ at[u].pc \in {"walk", "link"} => at[u].last \in ChainIn(next', list)
                  /\ at[u].pc = "link" => next'[at[u].last] = 0
    <3> DEFINE i == KindOf[at[u].e]
               m == at[u].last
    <3>1. /\ at[u].pc = "first" => Lists[i] = 0
          /\ at[u].pc \in {"walk", "link"} => m \in ChainIn(next, Lists[i])
          /\ at[u].pc = "link" => next[m] = 0
      BY <1>2, <2>1 DEF Core, OnTheWay
    <3>2. i \in Kinds /\ i # k
      <4>1. i \in Kinds /\ at[u].e \in Entries
        BY <1>2, <2>1 DEF Core, Hands, Appends
      <4>2. at[u].e \notin overlapped
        BY <2>1, <4>1 DEF Excused
      <4>3. QED
        BY <1>2, <2>1, <4>1, <4>2
    <3>3. Lists[i] \in Pointer /\ (Lists[i] # 0 => Lists[i] \in Accepted /\ KindOf[Lists[i]] # k)
      BY <3>2, ListTypes DEF Core, Shape
    <3>4. /\ l \notin ChainIn(next, Lists[i])
          /\ ChainIn(next, Lists[i]) \intersect ChainIn(next, next[l]) = {}
      BY <1>9, <3>3
    <3>5. ChainIn(next, Lists[i]) \subseteq ChainIn(next', Lists[i])
      BY <1>5, <3>3, <3>4
    <3>6. at[u].pc = "link" => m # l /\ m \in Entries
      BY <1>8, <2>1, <3>1, <3>4
    <3>7. QED
      BY <1>4, <3>1, <3>5, <3>6
  <2>2. \A u \in Threads : Appends(u)' => at'[u] = at[u]
    BY <1>2
  <2>3. ASSUME NEW u \in Threads, Appends(u)', at'[u].e \notin Excused
        PROVE  LET list == Lists[KindOf[at'[u].e]]
               IN /\ at'[u].pc = "first" => list = 0
                  /\ at'[u].pc \in {"walk", "link"} => at'[u].last \in ChainIn(next', list)
                  /\ at'[u].pc = "link" => next'[at'[u].last] = 0
    BY <2>1, <2>2, <2>3
  <2>4. QED
    BY <2>3 DEF OnTheWay
<1>15. Kept'
  <2>1. \A x \in Accepted : x \in Entries /\ KindOf[x] \in Kinds
    BY AcceptedFacts DEF AcceptedIn
  <2>2. ASSUME NEW x \in Accepted, x \notin Gone, x \notin Excused
        PROVE  x \in ChainIn(next', Lists[KindOf[x]])
    <3>1. x \in ChainIn(next, Lists[KindOf[x]])
      BY <2>2 DEF Core, Kept
    <3>2. x \notin overlapped
      BY <2>1, <2>2 DEF Excused
    <3>3. Lists[KindOf[x]] \in Pointer
      BY <2>1, ListTypes
    <3>4. QED
      BY <1>5, <1>6, <3>1, <3>2, <3>3
  <2>3. e \notin Excused => e \in ChainIn(next', Lists[k])
    <3>1. SUFFICES ASSUME e \notin Excused PROVE e \in ChainIn(next', Lists[k])
      OBVIOUS
    <3>2. l \in ChainIn(next, Lists[k]) /\ next[l] = 0
      BY <1>7, <3>1
    <3>3. ChainIn(next, next[l]) = {} /\ Lists[k] \in Pointer
      BY <1>2, <1>4, <3>2, ChainNull, ListTypes
    <3>4. QED
      BY <1>5, <3>2, <3>3
  <2>4. QED
    BY <1>2, <2>2, <2>3 DEF Kept, k
<1>16. QED
  BY <1>2, <1>10, <1>11, <1>12, <1>13, <1>14, <1>15 DEF Core

LEMMA GoneEntries ==
    ASSUME TypeOK
    PROVE  Gone \subseteq Entries /\ 0 \notin Gone
<1>1. freed \subseteq Entries
  BY DEF TypeOK
<1>2. Gone \subseteq Entries
  BY <1>1 DEF Gone
<1>3. QED
  BY <1>2 DEF Entries

\* The entry e is taken from the list k.
LEMMA CoreRemove ==
    ASSUME TypeOK, Core, Ranked,
           NEW k \in Kinds, NEW e \in Accepted, e \notin Gone, KindOf[e] = k,
           NEW p \in Pointer,
           \/ p = 0 /\ Lists[k] = e
           \/ p \in Entries /\ p \notin Gone /\ next[p] = e,
           Lists'[k] = (IF p = 0 THEN next[e] ELSE Lists[k]),
           \A i \in Kinds : i # k => Lists'[i] = Lists[i],
           next' = IF p = 0 THEN next ELSE [next EXCEPT ![p] = next[e]],
           at' = at, KindOf' = KindOf, Gone' = Gone \union {e},
           overlapped \subseteq overlapped', Excused \subseteq Excused',
           \A t \in Threads : Appends(t) /\ KindOf[at[t].e] = k => at[t].e \in overlapped'
    PROVE  Core' /\ Ranked' /\ p # e
<1>1. /\ e \in Entries /\ e # 0 /\ next \in [Entries -> Pointer] /\ 0 \notin Gone /\ Accepted \subseteq Entries
      /\ 0 \notin Entries
  BY GoneEntries, ListTypes DEF Accepted
<1>2. PICK r \in [Entries -> Nat] : \A x \in Entries : next[x] # 0 => r[x] < r[next[x]]
  BY DEF Ranked
<1>3. \A x \in Entries : next[x] # x
  BY <1>1, <1>2
<1>4. p # e
  BY <1>1, <1>3
<1>5. p # 0 => p \in Entries /\ p \notin Gone /\ next[p] = e
  BY <1>1
<1>6. p = 0 => Lists[k] = e
  BY <1>1
<1>7. p = 0 => next' = next
  OBVIOUS
<1>8. p # 0 => next'[p] = next[e] /\ (\A x \in Entries : x # p => next'[x] = next[x])
  BY <1>1, <1>5
<1>9. \A x \in Entries : next'[x] = IF x = p THEN next[e] ELSE next[x]
  BY <1>1, <1>7, <1>8
<1>10. Ranked'
  <2>1. ASSUME NEW x \in Entries, next'[x] # 0 PROVE r[x] < r[next'[x]]
    <3>1. CASE x # p
      BY <1>2, <1>9, <2>1, <3>1
    <3>2. CASE x = p
      <4>1. next[p] = e /\ next[e] # 0 /\ next'[x] = next[e] /\ next[e] \in Entries
        BY <1>1, <1>5, <1>9, <2>1, <3>2, ListTypes
      <4>2. r[p] < r[e] /\ r[e] < r[next[e]] /\ r[p] \in Nat /\ r[e] \in Nat /\ r[next[e]] \in Nat
        BY <1>1, <1>2, <3>2, <4>1
      <4>3. QED
        BY <3>2, <4>1, <4>2
    <3>3. QED
      BY <3>1, <3>2
  <2>2. QED
    BY <2>1 DEF Ranked
<1>11. ASSUME NEW h \in Pointer
       PROVE  /\ ChainIn(next', h) \subseteq ChainIn(next, h)
              /\ ChainIn(next, h) \ {e} \subseteq ChainIn(next', h)
  <2>1. CASE p = 0
    BY <1>7, <2>1
  <2>2. CASE p # 0
    <3>1. next' = [next EXCEPT ![p] = next[e]] /\ p \in Entries /\ next[p] = e
      BY <1>5, <2>2
    <3>2. QED
      BY <1>1, <1>4, <3>1, ChainWithout, Zenon
  <2>3. QED
    BY <2>1, <2>2
<1>12. next[e] \in Pointer /\ (next[e] # 0 => next[e] \in Accepted /\ KindOf[next[e]] = k /\ next[e] \notin Gone)
  BY <1>1 DEF Core, Shape, Alive
<1>13. Accepted' = Accepted
  BY AcceptedFacts
<1>14. \A t \in Threads : Appends(t)' <=> Appends(t)
  BY DEF Appends
<1>15. \A i \in Kinds : Lists'[i] = IF i = k /\ p = 0 THEN next[e] ELSE Lists[i]
  OBVIOUS
<1>16. \A i \in Kinds : Lists[i] \in Pointer /\ (Lists[i] # 0 => Lists[i] \in Accepted /\ KindOf[Lists[i]] = i)
  BY ListTypes DEF Core, Shape
<1>17. \A i \in Kinds : /\ ChainIn(next', Lists'[i]) \subseteq ChainIn(next, Lists[i])
                        /\ ChainIn(next, Lists[i]) \ {e} \subseteq ChainIn(next', Lists'[i])
  <2>1. TAKE i \in Kinds
  <2>2. CASE i = k /\ p = 0
    <3>1. Lists'[i] = next[e] /\ next' = next /\ Lists[i] = e
      BY <1>6, <1>7, <1>15, <2>2
    <3>2. QED
      BY <1>1, <3>1, ChainRest
  <2>3. CASE ~(i = k /\ p = 0)
    BY <1>11, <1>15, <1>16, <2>3
  <2>4. QED
    BY <2>2, <2>3
<1>18. \A t \in Threads : Appends(t) =>
         /\ KindOf[at[t].e] \in Kinds /\ at[t].e \in Entries
         /\ KindOf[at[t].e] = k => at[t].e \in overlapped' /\ at[t].e \in Excused'
         /\ at[t].pc \in {"walk", "link"} =>
              at[t].last \in Accepted /\ at[t].last \in Entries /\ KindOf[at[t].last] = KindOf[at[t].e]
  <2>1. \A x \in Entries : x \in overlapped' => x \in Excused'
    BY DEF Excused
  <2>2. \A t \in Threads : Appends(t) =>
         /\ KindOf[at[t].e] \in Kinds /\ at[t].e \in Entries
         /\ at[t].pc \in {"walk", "link"} =>
              at[t].last \in Accepted /\ at[t].last \in Entries /\ KindOf[at[t].last] = KindOf[at[t].e]
    BY DEF Core, Hands, Appends, Accepted
  <2>3. QED
    BY <2>1, <2>2
<1>19. Hands'
  BY <1>13, <1>14 DEF Core, Hands
<1>20. Shape'
  <2>1. \A i \in Kinds : Lists'[i] # 0 => Lists'[i] \in Accepted /\ KindOf[Lists'[i]] = i
    BY <1>12, <1>15, <1>16
  <2>2. \A x \in Entries : next'[x] # 0 =>
          x \in Accepted /\ next'[x] \in Accepted /\ KindOf[next'[x]] = KindOf[x]
    <3>1. p # 0 => p \in Accepted /\ KindOf[p] = k
      BY <1>1, <1>5 DEF Core, Shape
    <3>2. QED
      BY <1>1, <1>9, <1>12, <3>1 DEF Core, Shape
  <2>3. QED
    BY <1>13, <2>1, <2>2 DEF Shape
<1>21. Alive'
  <2>1. \A x \in Entries : x \notin Gone /\ x # p /\ x # e => next[x] # e
    BY <1>1, <1>5, <1>6 DEF Core, Alive
  <2>2. \A i \in Kinds : Lists'[i] \notin Gone'
    <3>1. \A i \in Kinds : Lists[i] # e \/ (i = k /\ p = 0)
      BY <1>1, <1>5, <1>16 DEF Core, Alive
    <3>2. \A i \in Kinds : Lists[i] \notin Gone
      BY DEF Core, Alive
    <3>3. QED
      BY <1>1, <1>3, <1>12, <1>15, <3>1, <3>2
  <2>3. ASSUME NEW x \in Entries \ Gone', next'[x] # 0
        PROVE  /\ next'[x] \notin Gone'
               /\ \A i \in Kinds : next'[x] # Lists'[i]
               /\ \A y \in Entries \ Gone' : next'[y] = next'[x] => y = x
    <3>1. x \in Entries \ Gone /\ x # e
      BY <2>3
    <3>2. CASE x = p
      <4>1. next'[x] = next[e] /\ next[e] # 0 /\ next[e] # e /\ p # 0
        BY <1>1, <1>3, <1>9, <2>3, <3>2
      <4>2. /\ next[e] \notin Gone
            /\ \A i \in Kinds : next[e] # Lists[i]
            /\ \A y \in Entries \ Gone : next[y] = next[e] => y = e
        BY <1>1, <4>1 DEF Core, Alive
      <4>3. \A y \in Entries \ Gone' : y # p => next'[y] # next[e]
        BY <1>9, <4>2
      <4>4. QED
        BY <1>15, <3>2, <4>1, <4>2, <4>3
    <3>3. CASE x # p
      <4>1. next'[x] = next[x] /\ next[x] # 0 /\ next[x] # e
        BY <1>9, <2>1, <2>3, <3>1, <3>3
      <4>2. /\ next[x] \notin Gone
            /\ \A i \in Kinds : next[x] # Lists[i]
            /\ \A y \in Entries \ Gone : next[y] = next[x] => y = x
        BY <3>1, <4>1 DEF Core, Alive
      <4>3. next[e] # next[x]
        BY <1>1, <3>1, <4>2
      <4>4. QED
        BY <1>9, <1>15, <4>1, <4>2, <4>3
    <3>4. QED
      BY <3>2, <3>3
  <2>4. \A x \in Gone' : x \in Accepted \/ KindOf[x] = "refused"
    BY DEF Core, Alive
  <2>5. QED
    BY <1>13, <2>2, <2>3, <2>4 DEF Alive
<1>22. Marked'
  <2>1. \A t \in Threads : at[t].pc \in {"walk", "link"} /\ at[t].e \notin overlapped' => at[t].last \notin Gone'
    <3>1. TAKE t \in Threads
    <3>2. HAVE at[t].pc \in {"walk", "link"} /\ at[t].e \notin overlapped'
    <3>3. Appends(t)
      BY <3>2 DEF Appends
    <3>4. at[t].last # e
      BY <1>18, <3>2, <3>3
    <3>5. at[t].last \notin Gone
      BY <3>2 DEF Core, Marked
    <3>6. QED
      BY <3>4, <3>5
  <2>2. QED
    BY <1>14, <2>1 DEF Core, Marked
<1>23. CutOff'
  <2>1. \A t \in Threads : at[t].pc \in {"first", "link"} => Appends(t)
    BY DEF Appends
  <2>2. \A t \in Threads : at[t].pc = "first" => ChainIn(next', Lists'[KindOf[at[t].e]]) \subseteq overlapped'
    BY <1>17, <1>18, <2>1 DEF Core, CutOff
  <2>3. ASSUME NEW t \in Threads, at[t].pc = "link"
        PROVE  ChainIn(next', next'[at[t].last]) \subseteq overlapped'
    <3>1. ChainIn(next, next[at[t].last]) \subseteq overlapped' /\ at[t].last \in Entries
      BY <1>18, <2>1, <2>3 DEF Core, CutOff
    <3>2. CASE at[t].last # p
      BY <1>1, <1>9, <1>11, <3>1, <3>2
    <3>3. CASE at[t].last = p
      <4>1. next[at[t].last] = e /\ next'[at[t].last] = next[e]
        BY <1>1, <1>5, <1>9, <3>1, <3>3
      <4>2. ChainIn(next', next[e]) \subseteq ChainIn(next, next[e])
        BY <1>11, <1>12
      <4>3. ChainIn(next, next[e]) \subseteq ChainIn(next, e)
        BY <1>1, ChainRest
      <4>4. QED
        BY <3>1, <4>1, <4>2, <4>3
    <3>4. QED
      BY <3>2, <3>3
  <2>4. QED
    BY <2>2, <2>3 DEF CutOff
<1>24. OnTheWay'
  <2>1. ASSUME NEW t \in Threads, Appends(t), at[t].e \notin Excused'
        PROVE  LET list == Lists'[KindOf[at[t].e]]
               IN /\ at[t].pc = "first" => list = 0
                  /\ at[t].pc \in {"walk", "link"} => at[t].last \in ChainIn(next', list)
                  /\ at[t].pc = "link" => next'[at[t].last] = 0
    <3> DEFINE i == KindOf[at[t].e]
               m == at[t].last
    <3>1. i \in Kinds /\ i # k /\ Lists'[i] = Lists[i]
      BY <1>15, <1>18, <2>1
    <3>2. at[t].e \notin Excused
      BY <2>1
    <3>3. /\ at[t].pc = "first" => Lists[i] = 0
          /\ at[t].pc \in {"walk", "link"} => m \in ChainIn(next, Lists[i])
          /\ at[t].pc = "link" => next[m] = 0
      BY <2>1, <3>2 DEF Core, OnTheWay
    <3>4. at[t].pc \in {"walk", "link"} => m # e /\ m \in Entries
      BY <1>18, <2>1, <3>1
    <3>5. at[t].pc = "link" => m # p
      BY <1>1, <1>5, <3>3, <3>4
    <3>6. QED
      BY <1>9, <1>17, <3>1, <3>3, <3>4, <3>5
  <2>2. QED
    BY <1>14, <2>1 DEF OnTheWay
<1>25. Kept'
  <2>1. \A x \in Accepted : KindOf[x] \in Kinds
    BY AcceptedFacts DEF AcceptedIn
  <2>2. QED
    BY <1>13, <1>17, <2>1 DEF Core, Kept
<1>26. QED
  BY <1>4, <1>10, <1>19, <1>20, <1>21, <1>22, <1>23, <1>24, <1>25 DEF Core

\* The list k is dropped; its entries are given back or only forgotten.
LEMMA CoreDrop ==
    ASSUME TypeOK, Core, NEW k \in Kinds, NEW D, D = {} \/ D = ChainIn(next, Lists[k]),
           Lists'[k] = 0, \A i \in Kinds : i # k => Lists'[i] = Lists[i],
           next' = next, at' = at, KindOf' = KindOf, Gone' = Gone \union D,
           overlapped \subseteq overlapped', Excused \subseteq Excused',
           ChainIn(next, Lists[k]) \subseteq Excused',
           \A t \in Threads : Appends(t) /\ KindOf[at[t].e] = k =>
               at[t].e \in Excused' /\ (D # {} => at[t].e \in overlapped')
    PROVE  Core'
<1>1. Accepted' = Accepted /\ \A t \in Threads : Appends(t)' <=> Appends(t)
  BY AcceptedFacts DEF Appends
<1>2. next \in [Entries -> Pointer] /\ 0 \notin Gone /\ 0 \notin Entries /\ \A i \in Kinds : Lists[i] \in Pointer
  BY GoneEntries, ListTypes
<1>3. \A x \in D : x \in Accepted /\ x \in Entries /\ KindOf[x] = k /\ x \notin Gone
  BY ListMembers DEF Accepted
<1>4. ChainIn(next, Lists'[k]) = {}
  BY <1>2, ChainNull
<1>5. Hands'
  BY <1>1 DEF Core, Hands
<1>6. Shape'
  BY <1>1 DEF Core, Shape
<1>7. Alive'
  <2>1. \A x \in Gone' : x \in Accepted \/ KindOf[x] = "refused"
    BY <1>3 DEF Core, Alive
  <2>2. \A i \in Kinds : Lists'[i] \notin Gone'
    BY <1>2, <1>3 DEF Core, Alive, Shape
  <2>3. ASSUME NEW x \in Entries, x \notin Gone', next[x] # 0
        PROVE  next[x] \notin Gone' /\ (\A i \in Kinds : next[x] # Lists'[i])
               /\ \A y \in Entries \ Gone' : next[y] = next[x] => y = x
    <3>1. /\ next[x] \notin Gone /\ (\A i \in Kinds : next[x] # Lists[i])
          /\ \A y \in Entries \ Gone : next[y] = next[x] => y = x
      BY <2>3 DEF Core, Alive
    <3>2. next[x] \notin D
      <4>1. SUFFICES ASSUME next[x] \in D PROVE FALSE
        OBVIOUS
      <4>2. PICK q \in D : next[q] = next[x]
        BY <1>2, <3>1, <4>1, ChainInner
      <4>3. q = x
        BY <1>3, <3>1, <4>2
      <4>4. QED
        BY <2>3, <4>2, <4>3
    <3>3. QED
      BY <2>3, <3>1, <3>2
  <2>4. QED
    BY <1>1, <2>1, <2>2, <2>3 DEF Alive
<1>8. Marked'
  <2>1. ASSUME NEW t \in Threads, at[t].pc \in {"walk", "link"}, at[t].e \notin overlapped'
        PROVE  at[t].last \notin Gone'
    <3>1. Appends(t) /\ at[t].last \notin Gone /\ KindOf[at[t].last] = KindOf[at[t].e]
      BY <2>1 DEF Core, Marked, Hands, Appends
    <3>2. QED
      BY <1>3, <2>1, <3>1
  <2>2. QED
    BY <1>1, <2>1 DEF Core, Marked
<1>9. CutOff'
  <2>1. \A t \in Threads : at[t].pc = "first" => KindOf[at[t].e] \in Kinds
    BY DEF Core, Hands, Appends
  <2>2. QED
    BY <1>4, <2>1 DEF Core, CutOff
<1>10. OnTheWay'
  <2>1. \A t \in Threads : Appends(t) /\ at[t].e \notin Excused' =>
          KindOf[at[t].e] \in Kinds /\ KindOf[at[t].e] # k
    BY DEF Core, Hands
  <2>2. QED
    BY <1>1, <2>1 DEF Core, OnTheWay
<1>11. Kept'
  <2>1. \A x \in Accepted : KindOf[x] \in Kinds
    BY AcceptedFacts DEF AcceptedIn
  <2>2. QED
    BY <1>1, <2>1 DEF Core, Kept
<1>12. QED
  BY <1>5, <1>6, <1>7, <1>8, <1>9, <1>10, <1>11 DEF Core

LEMMA RankedLink ==
    ASSUME TypeOK, Core, Ranked, NEW t \in Threads, at[t].pc = "link",
           next' = [next EXCEPT ![at[t].last] = at[t].e]
    PROVE  Ranked'
<1> DEFINE e == at[t].e
           l == at[t].last
<1>1. l \in Accepted /\ l \in Entries /\ e \in Entries /\ e \notin Accepted /\ next \in [Entries -> Pointer]
  BY AcceptedFacts, ListTypes DEF AcceptedIn, Core, Hands
<1>2. next' = [next EXCEPT ![l] = e]
  OBVIOUS
<1>3. PICK r \in [Entries -> Nat] : \A x \in Entries : next[x] # 0 => r[x] < r[next[x]]
  BY DEF Ranked
<1> DEFINE s == [r EXCEPT ![e] = r[l] + 1]
<1> HIDE DEF e, l
<1>4. s \in [Entries -> Nat] /\ s[e] = r[l] + 1 /\ \A x \in Entries : x # e => s[x] = r[x]
  BY <1>1, <1>3
<1>5. ASSUME NEW x \in Entries, next'[x] # 0 PROVE s[x] < s[next'[x]]
  <2>1. CASE x = l
    <3>1. next'[x] = e /\ x # e /\ r[l] \in Nat
      BY <1>1, <1>2, <1>3, <2>1
    <3>2. s[x] = r[l] /\ s[next'[x]] = r[l] + 1
      BY <1>4, <2>1, <3>1
    <3>3. QED
      BY <3>1, <3>2
  <2>2. CASE x # l
    <3>1. next'[x] = next[x] /\ next[x] # 0
      BY <1>1, <1>2, <1>5, <2>2
    <3>2. x \in Accepted /\ next[x] \in Accepted /\ next[x] \in Entries
      BY <3>1, ListTypes DEF Core, Shape, Accepted
    <3> HIDE DEF s
    <3>3. s[x] = r[x] /\ s[next[x]] = r[next[x]]
      BY <1>1, <1>4, <3>2
    <3>4. QED
      BY <1>3, <3>1, <3>3
  <2>3. QED
    BY <2>1, <2>2
<1> HIDE DEF s
<1>6. QED
  BY <1>4, <1>5 DEF Ranked

-----------------------------------------------------------------------------
(* What steps that do not concern a part of the invariant do to it *)

\* What is excused stays so.
LEMMA ExcusedGrows ==
    ASSUME TypeOK, Counted, NEW X,
           overlapped \subseteq overlapped', forgotten \subseteq forgotten',
           \A e \in Entries \ X : KindOf[e] = "req" => KindOf'[e] = "req" /\ entry'[e].conn = entry[e].conn,
           (epoch' = epoch /\ (ctx'.connected => ctx.connected)) \/ epoch' = epoch + 1
    PROVE  Excused \ X \subseteq Excused' /\ \A e \in Entries \ X : Stale(e) => Stale(e)'
<1>1. ASSUME NEW e \in Entries \ X, Stale(e) PROVE Stale(e)'
  <2>1. entry[e].kind = "req" /\ (entry[e].conn # epoch \/ ~ctx.connected)
    BY <1>1 DEF Stale
  <2>2. entry'[e].kind = "req" /\ entry'[e].conn = entry[e].conn
    BY <2>1 DEF KindOf
  <2>3. entry[e].conn \in Nat /\ epoch \in Nat /\ entry[e].conn <= epoch
    <3>1. entry[e].conn \in 0..MaxFaults + 1 /\ epoch \in 0..MaxFaults + 1
      BY DEF TypeOK
    <3>2. entry[e].conn <= epoch
      BY DEF Counted
    <3>3. QED
      BY <3>1, <3>2, MqttServiceAssumption
  <2>4. QED
    BY <2>1, <2>2, <2>3 DEF Stale
<1>2. QED
  BY <1>1 DEF Excused

LEMMA CursorFrame ==
    ASSUME Cursor, loop' = loop, reports' = reports,
           \A x \in Accepted \ Gone : x \in Accepted' \ Gone',
           \A x \in Entries : KindOf[x] = "pub" => KindOf'[x] = "pub"
    PROVE  Cursor'
<1>1. \A x \in Accepted : x \in Entries
  BY DEF Accepted
<1>2. QED
  BY <1>1 DEF Cursor

LEMMA PacketsFrame ==
    ASSUME Packets, entry' = entry, epoch' = epoch, acked \subseteq acked',
           \A t \in Threads : at'[t].pc = "send" /\ IsPub(t)' => at'[t] = at[t]
    PROVE  Packets'
<1>1. Outstanding' \subseteq Outstanding
  BY DEF Outstanding
<1>2. ASSUME NEW t \in Threads, at'[t].pc = "send", IsPub(t)' PROVE entry[at'[t].e].msgid = 0
  BY <1>2 DEF Packets, IsPub
<1>3. QED
  BY <1>1, <1>2 DEF Packets

LEMMA DrawnFrame ==
    ASSUME Core, Drawn, id_cnt' = id_cnt, Generation' = Generation, overlapped \subseteq overlapped',
           \A x \in Entries : KindOf'[x] = "req" => KindOf[x] = "req" /\ entry'[x] = entry[x],
           \A t \in Threads : /\ at'[t].pc = "id" <=> at[t].pc = "id"
                              /\ at[t].pc = "id" => at'[t] = at[t] /\ entry'[at[t].e] = entry[at[t].e]
    PROVE  Drawn'
<1>1. \A t, u \in Threads : t # u /\ at'[t].pc = "id" /\ at'[u].pc = "id" => at'[t].e \in overlapped'
  BY DEF Drawn
<1>2. ASSUME NEW x \in Entries, KindOf'[x] = "req", entry'[x].conn = Generation', x \notin overlapped',
             \A t \in Threads : at'[t].pc = "id" => at'[t].e # x
      PROVE  /\ entry'[x].draw <= id_cnt'
             /\ \A t \in Threads : at'[t].pc = "id" => entry'[at'[t].e].draw > entry'[x].draw
  <2>1. KindOf[x] = "req" /\ entry'[x] = entry[x] /\ x \notin overlapped /\ entry[x].conn = Generation
    BY <1>2
  <2>2. \A t \in Threads : at[t].pc = "id" => at[t].e # x
    BY <1>2
  <2>3. /\ entry[x].draw <= id_cnt
        /\ \A t \in Threads : at[t].pc = "id" => entry[at[t].e].draw > entry[x].draw
    BY <2>1, <2>2 DEF Drawn
  <2>4. QED
    BY <2>1, <2>3
<1>3. \A x, y \in Entries :
         /\ KindOf'[x] = "req" /\ KindOf'[y] = "req" /\ x # y
         /\ entry'[x].conn = entry'[y].conn /\ entry'[x].draw = entry'[y].draw
         => x \in overlapped' \/ y \in overlapped'
  BY DEF Drawn
<1>4. QED
  BY <1>1, <1>2, <1>3 DEF Drawn

LEMMA HeardFrame ==
    ASSUME Heard, reports' = reports, \A a \in acked' : a \in acked \/ (Fixed(a) /\ KindOf[a] = "pub"),
           overlapped \subseteq overlapped', early \subseteq early',
           \A x : Fixed(x) => /\ Fixed(x)' /\ entry'[x].conn = entry[x].conn
                              /\ entry'[x].draw = entry[x].draw
                              /\ KindOf'[x] = "pub" <=> KindOf[x] = "pub"
    PROVE  Heard'
<1>1. \A e : Told(e)' = Told(e)
  BY DEF Told
<1>2. \A e : Missed(e) => Missed(e)'
  BY <1>1 DEF Missed
<1>3. \A e \in Entries : \A a \in Told(e) \ {0} : Fixed(e) /\ Fixed(a)
  BY DEF Heard
<1>4. AnswersFit'
  <2>1. ASSUME NEW e \in Entries, NEW a \in Told(e) \ {0}
        PROVE  \/ a = e
               \/ entry'[a].conn # entry'[e].conn
               \/ IF entry'[e].kind = "pub" THEN Missed(e)' 
                  ELSE {a, e} \intersect overlapped' # {} \/ CameRound(a, e)'
    <3>1. /\ entry'[a].conn = entry[a].conn /\ entry'[e].conn = entry[e].conn
          /\ KindOf'[e] = "pub" <=> KindOf[e] = "pub"
          /\ CameRound(a, e)' <=> CameRound(a, e)
      BY <1>3 DEF CameRound
    <3>2. entry'[e].kind = "pub" <=> entry[e].kind = "pub"
      BY <3>1 DEF KindOf
    <3>3. \/ a = e
          \/ entry[a].conn # entry[e].conn
          \/ IF entry[e].kind = "pub" THEN Missed(e) 
             ELSE {a, e} \intersect overlapped # {} \/ CameRound(a, e)
      BY DEF Heard, AnswersFit
    <3>4. QED
      BY <1>2, <3>1, <3>2, <3>3
  <2>2. QED
    BY <1>1, <2>1 DEF AnswersFit
<1>5. \A a \in acked' : Fixed(a)' /\ KindOf'[a] = "pub"
  BY DEF Heard
<1>6. QED
  BY <1>1, <1>3, <1>4, <1>5 DEF Heard

LEMMA SilenceFrame ==
    ASSUME Heard, Silence, Silent' \subseteq Silent, Reach' \subseteq Reach \union Fresh
    PROVE  Silence'
<1>1. \A e \in Silent : e \notin Fresh
  BY DEF Silent, Heard, Fixed, Fresh, KindOf
<1>2. QED
  BY <1>1 DEF Silence

\* Nobody is told anything.
LEMMA SilentSame ==
    ASSUME reports' = reports, acked' \subseteq acked, early \subseteq early'
    PROVE  Silent' \subseteq Silent
<1>1. \A e : Told(e)' = Told(e)
  BY DEF Told
<1>2. QED
  BY <1>1 DEF Silent

LEMMA FreedFrame ==
    ASSUME FreedReported, reports' = reports, freed \subseteq Entries,
           \A e \in freed : KindOf[e] = "refused" => KindOf'[e] = "refused",
           \A e \in freed : Stale(e) => Stale(e)',
           \A e \in freed' \ freed : e \in Entries /\ (reports[e] # <<>> \/ KindOf'[e] = "refused" \/ Stale(e)')
    PROVE  FreedReported'
<1>1. \A e \in Entries : KindOf[e] = entry[e].kind /\ KindOf'[e] = entry'[e].kind
  BY DEF KindOf
<1>2. QED
  BY <1>1 DEF FreedReported

LEMMA PacketTypes ==
    ASSUME TypeOK, NEW n \in Nat
    PROVE  PacketsAfter(n) \in 1..MaxPacketId
<1>1. packet \in 1..MaxPacketId /\ MaxPacketId \in Nat /\ MaxPacketId > 0
  BY MqttServiceAssumption DEF TypeOK
<1>2. (packet - 1 + n) % MaxPacketId \in 0..(MaxPacketId - 1)
  BY <1>1
<1>3. QED
  BY <1>1, <1>2 DEF PacketsAfter

\* More faults, and a connection that stays as it is.
LEMMA CountedFrame ==
    ASSUME TypeOK, Counted, entry' = entry, id_cnt' = id_cnt, epoch' = epoch,
           ctx'.connected = ctx.connected, ctx'.client = ctx.client \/ ~ctx.connected,
           loop'.pc = "connected" <=> loop.pc = "connected",
           faults' \in Nat, faults <= faults'
    PROVE  Counted'
<1>1. Generation' = Generation /\ KindOf' = KindOf /\ Fresh' = Fresh
  BY DEF Generation, KindOf, Fresh
<1>2. faults \in Nat /\ epoch \in Nat
  BY MqttServiceAssumption DEF TypeOK
<1>3. epoch' <= faults' + (IF ctx'.connected THEN 1 ELSE 0)
  <2>1. epoch <= faults + (IF ctx.connected THEN 1 ELSE 0)
    BY DEF Counted
  <2> DEFINE c == IF ctx.connected THEN 1 ELSE 0
  <2>2. c \in Nat /\ c = IF ctx'.connected THEN 1 ELSE 0
    OBVIOUS
  <2>3. epoch <= faults + c
    BY <2>1
  <2> HIDE DEF c
  <2>4. \A i, j, k, l \in Nat : i <= j + k /\ j <= l => i <= l + k
    OBVIOUS
  <2>5. c \in Nat
    BY <2>2
  <2>6. epoch <= faults' + c
    BY <1>2, <2>3, <2>4, <2>5
  <2>7. QED
    BY <2>2, <2>6
<1>4. QED
  BY <1>1, <1>3 DEF Counted

\* A step that leaves the lists and the messages alone, except that memory whose owner was
\* told is given back.
LEMMA QuietKeeps ==
    ASSUME IInv, TypeOK', Cursor', CrashCauses',
           UNCHANGED <<publish_list, message_list, entry, next, at, epoch, id_cnt, reports, overlapped, forgotten>>,
           acked \subseteq acked', early \subseteq early',
           \A a \in acked' \ acked : Fixed(a) /\ KindOf[a] = "pub",
           ctx'.connected = ctx.connected, ctx'.client = ctx.client \/ ~ctx.connected,
           loop'.pc = "connected" <=> loop.pc = "connected",
           faults <= faults',
           freed \subseteq freed', \A e \in freed' \ freed : e \in Entries /\ reports[e] # <<>>
    PROVE  Base'
<1>1. TypeOK /\ Core /\ Ranked /\ Counted /\ Packets /\ Drawn /\ Heard /\ ReportedOnce /\ FreedReported
  BY DEF IInv, Base
<1>2. KindOf' = KindOf /\ Lists' = Lists /\ Generation' = Generation
  BY DEF KindOf, Lists, Generation
<1>3. Gone' = Gone
  BY DEF Gone
<1>4. Excused \subseteq Excused' /\ \A e \in Entries : Stale(e) => Stale(e)'
  BY DEF Excused, Stale
<1>5. Core'
  BY <1>1, <1>2, <1>3, <1>4, CoreSame
<1>6. Ranked'
  BY <1>1 DEF Ranked
<1>7. faults' \in Nat
  BY MqttServiceAssumption DEF TypeOK
<1>8. Counted'
  BY <1>1, <1>7, CountedFrame
<1>9. Packets'
  BY <1>1, PacketsFrame
<1>10. Drawn'
  BY <1>1, <1>2, DrawnFrame
<1>11. Heard'
  <2>1. \A x : Fixed(x) => Fixed(x)'
    BY <1>2 DEF Fixed
  <2>2. \A a \in acked' : a \in acked \/ (Fixed(a) /\ KindOf[a] = "pub")
    OBVIOUS
  <2>3. QED
    BY <1>1, <1>2, <2>1, <2>2, HeardFrame
<1>12. ReportedOnce'
  BY <1>1 DEF ReportedOnce
<1>13. FreedReported'
  <2>1. freed \subseteq Entries
    BY <1>1 DEF TypeOK
  <2>2. QED
    BY <1>1, <1>2, <1>4, <2>1, FreedFrame
<1>14. QED
  BY <1>5, <1>6, <1>8, <1>9, <1>10, <1>11, <1>12, <1>13 DEF IInv, Base

\* The same, for the walk of the loop while nothing moves.
LEMMA CursorMoves ==
    ASSUME TypeOK, Core, Cursor, UNCHANGED <<entry, at, reports, freed>>,
           loop'.pc \in {"scan", "freetail"} =>
               loop'.prev = 0 \/ (loop'.prev \in Accepted \ Gone /\ KindOf[loop'.prev] = "pub"),
           loop'.pc \notin {"freetail", "free", "freematop"}
    PROVE  Cursor'
<1>1. KindOf' = KindOf /\ Gone' = Gone
  BY DEF KindOf, Gone
<1>2. Accepted' = Accepted
  BY <1>1, AcceptedFacts
<1>3. QED
  BY <1>1, <1>2 DEF Cursor

\* The entry the walk of the loop is at.
LEMMA CurrentFacts ==
    ASSUME TypeOK, Core, Cursor, loop.pc \in {"scan", "freetail"}, Current # 0
    PROVE  /\ Current \in Accepted /\ Current \in Entries /\ Current \notin Gone /\ KindOf[Current] = "pub"
           /\ \/ loop.prev = 0 /\ Lists["pub"] = Current
              \/ loop.prev \in Entries /\ loop.prev \notin Gone /\ next[loop.prev] = Current
<1>1. Lists["pub"] = publish_list /\ "pub" \in Kinds
  BY ListTypes
<1>2. CASE loop.prev = 0
  <2>1. Current = publish_list
    BY <1>2 DEF Current
  <2>2. QED
    BY <1>1, <1>2, <2>1 DEF Core, Shape, Alive, Accepted
<1>3. CASE loop.prev # 0
  <2>1. Current = next[loop.prev] /\ loop.prev \in Accepted \ Gone /\ KindOf[loop.prev] = "pub" /\ loop.prev \in Entries
    BY <1>3 DEF Current, Cursor, Accepted
  <2>2. QED
    BY <2>1 DEF Core, Shape, Alive, Accepted
<1>4. QED
  BY <1>2, <1>3

LEMMA CrashKeeps ==
    ASSUME IInv, Running, UNCHANGED matop,
           \/ \E t \in Threads : PublishSendNull(t)
           \/ \E t \in Threads : at[t].pc \in {"walk", "link"} /\ at[t].last \in freed /\ Crash("freed")
    PROVE  Base'
<1> USE DEF Crash, connection, lists, history, matop
<1>1. TypeOK /\ Core /\ Cursor /\ CrashCauses
  BY DEF IInv, Base
<1>2. PICK why \in {"client", "freed"} : Crash(why) /\ (why = "client" => ~ctx.client) /\ (why = "freed" => overlapped # {})
  <2>1. CASE \E t \in Threads : PublishSendNull(t)
    BY <2>1 DEF PublishSendNull
  <2>2. ASSUME NEW t \in Threads, at[t].pc \in {"walk", "link"}, at[t].last \in freed, Crash("freed")
        PROVE  overlapped # {}
    BY <1>1, <2>2 DEF Core, Marked, Gone
  <2>3. QED
    BY <2>1, <2>2
<1>3. TypeOK'
  BY <1>1, <1>2 DEF TypeOK
<1>4. Cursor'
  <2>1. KindOf' = KindOf /\ Gone' = Gone
    BY <1>2 DEF KindOf, Gone
  <2>2. Accepted' = Accepted
    BY <1>2, <2>1, AcceptedFacts
  <2>3. QED
    BY <1>1, <1>2, <2>1, <2>2 DEF Cursor
<1>5. CrashCauses'
  BY <1>2 DEF CrashCauses
<1>6. faults <= faults'
  BY <1>1, <1>2, MqttServiceAssumption DEF TypeOK
<1>7. QED
  BY <1>2, <1>3, <1>4, <1>5, <1>6, QuietKeeps

\* The steps of the loop that change nothing but where it is.
LEMMA LoopKeeps ==
    ASSUME IInv, UNCHANGED matop,
           \/ StartFails \/ ConnectFails \/ LoopBegin \/ ScanEnd \/ ScanPass \/ YieldEnd \/ MatopQuiet
    PROVE  Base'
<1> USE DEF connection, lists, history, matop
<1>1. TypeOK /\ Core /\ Cursor /\ CrashCauses
  BY DEF IInv, Base
<1>2. /\ UNCHANGED <<publish_list, message_list, entry, next, at, epoch, id_cnt, history, freed,
                     reports, packet, unsent, expired, dead, faults, ready>>
      /\ Running
  BY DEF StartFails, ConnectFails, LoopBegin, ScanEnd, ScanPass, YieldEnd, MatopQuiet
<1>3. ctx' = ctx \/ (~ctx.connected /\ ctx' = [ctx EXCEPT !.manual = FALSE])
  BY DEF StartFails, ConnectFails, LoopBegin, ScanEnd, ScanPass, YieldEnd, MatopQuiet
<1>4. /\ ctx' \in [client : BOOLEAN, connected : BOOLEAN, manual : BOOLEAN]
      /\ ctx'.connected = ctx.connected /\ ctx'.client = ctx.client
  BY <1>1, <1>3 DEF TypeOK
<1>5. /\ loop' \in [pc : {"top", "connected", "scan", "freetail", "yield", "free", "matop", "freematop"},
                    prev : Pointer, victim : Pointer]
      /\ loop'.pc = "connected" <=> loop.pc = "connected"
      /\ loop'.pc \notin {"freetail", "free", "freematop"}
      /\ loop'.pc = "scan" => loop'.prev = 0 \/ (loop.pc = "scan" /\ loop'.prev = Current /\ Current # 0)
  <2>1. CASE StartFails
    BY <1>1, <2>1 DEF StartFails, TypeOK
  <2>2. CASE ConnectFails
    BY <1>1, <2>2 DEF ConnectFails, TypeOK
  <2>3. CASE LoopBegin
    BY <1>1, <2>3, ListTypes DEF LoopBegin, TypeOK
  <2>4. CASE ScanEnd
    BY <1>1, <2>4, ListTypes DEF ScanEnd, TypeOK
  <2>5. CASE ScanPass
    <3>1. Current \in Pointer
      BY <1>1, <2>5, CurrentFacts, ListTypes DEF ScanPass
    <3>2. QED
      BY <1>1, <2>5, <3>1 DEF ScanPass, TypeOK
  <2>6. CASE YieldEnd
    BY <1>1, <2>6 DEF YieldEnd, TypeOK
  <2>7. CASE MatopQuiet
    BY <1>1, <2>7, ListTypes DEF MatopQuiet, TypeOK, Top
  <2>8. QED
    BY <2>1, <2>2, <2>3, <2>4, <2>5, <2>6, <2>7
<1>6. TypeOK'
  BY <1>1, <1>2, <1>4, <1>5 DEF TypeOK
<1>7. Cursor'
  <2>1. loop'.pc \in {"scan", "freetail"} =>
          loop'.prev = 0 \/ (loop'.prev \in Accepted \ Gone /\ KindOf[loop'.prev] = "pub")
    BY <1>1, <1>5, CurrentFacts
  <2>2. QED
    BY <1>1, <1>2, <1>5, <2>1, CursorMoves
<1>8. CrashCauses'
  BY <1>2 DEF CrashCauses, Running
<1>9. faults <= faults'
  BY <1>1, <1>2, MqttServiceAssumption DEF TypeOK
<1>10. QED
  BY <1>2, <1>4, <1>5, <1>6, <1>7, <1>8, <1>9, QuietKeeps

LEMMA ExpireKeeps ==
    ASSUME IInv, NEW e \in Entries, Expire(e), UNCHANGED matop
    PROVE  Base'
<1> USE DEF connection, history, matop
<1>1. TypeOK /\ Core /\ Cursor /\ CrashCauses
  BY DEF IInv, Base
<1>2. /\ UNCHANGED <<publish_list, message_list, entry, next, at, epoch, id_cnt, history, freed,
                     reports, packet, unsent, dead, faults, ready, ctx, loop>>
      /\ Running /\ expired' = expired \union {e}
  BY DEF Expire
<1>3. TypeOK'
  BY <1>1, <1>2 DEF TypeOK
<1>4. Cursor'
  <2>1. KindOf' = KindOf /\ Gone' = Gone
    BY <1>2 DEF KindOf, Gone
  <2>2. Accepted' = Accepted
    BY <1>2, <2>1, AcceptedFacts
  <2>3. QED
    BY <1>1, <1>2, <2>1, <2>2, CursorFrame
<1>5. CrashCauses'
  BY <1>2 DEF CrashCauses, Running
<1>6. faults <= faults'
  BY <1>1, <1>2, MqttServiceAssumption DEF TypeOK
<1>7. QED
  BY <1>2, <1>3, <1>4, <1>5, <1>6, QuietKeeps

\* The memory of an entry is given back.
LEMMA FreeKeeps ==
    ASSUME IInv, UNCHANGED matop, FreeTimeout \/ FreeAnswered \/ FreeMatop
    PROVE  Base'
<1> USE DEF connection, history, matop
<1>1. TypeOK /\ Core /\ Cursor /\ CrashCauses
  BY DEF IInv, Base
<1>2. /\ UNCHANGED <<publish_list, message_list, entry, next, at, epoch, id_cnt, history, ctx,
                     reports, packet, unsent, expired, faults, ready>>
      /\ Running /\ freed' = freed \union {loop.victim}
      /\ loop.pc \in {"freetail", "free", "freematop"}
  BY DEF FreeTimeout, FreeAnswered, FreeMatop
<1>3. loop.victim \in Entries /\ reports[loop.victim] # <<>>
  BY <1>1, <1>2 DEF Cursor
<1>4. \/ loop' = loop /\ dead' = "tail" /\ loop.pc = "freetail"
      \/ /\ dead' = dead
         /\ \/ loop' = [pc |-> "scan", prev |-> Current, victim |-> 0] /\ Current # 0 /\ loop.pc = "freetail"
            \/ loop' = [pc |-> "yield", prev |-> 0, victim |-> 0]
            \/ loop' = Top
  BY DEF FreeTimeout, FreeAnswered, FreeMatop
<1>5. Current # 0 /\ loop.pc = "freetail" =>
        Current \in Pointer /\ Current \in Accepted \ Gone /\ KindOf[Current] = "pub"
  BY <1>1, CurrentFacts, ListTypes
<1>6. TypeOK'
  <2>1. loop' \in [pc : {"top", "connected", "scan", "freetail", "yield", "free", "matop", "freematop"},
                   prev : Pointer, victim : Pointer]
    BY <1>1, <1>4, <1>5, ListTypes DEF TypeOK, Top
  <2>2. dead' \in {"no", "client", "freed", "tail"} /\ freed' \subseteq Entries
    BY <1>1, <1>2, <1>3, <1>4 DEF TypeOK
  <2>3. QED
    BY <1>1, <1>2, <2>1, <2>2 DEF TypeOK
<1>7. KindOf' = KindOf /\ Gone' = Gone
  BY <1>2, <1>3 DEF KindOf, Gone
<1>8. Accepted' = Accepted
  BY <1>2, <1>7, AcceptedFacts
<1>9. Cursor'
  <2>1. CASE loop' = loop
    BY <1>1, <1>2, <1>7, <1>8, <2>1, CursorFrame
  <2>2. CASE loop' # loop
    <3>1. /\ loop'.pc \in {"scan", "yield", "top"}
          /\ loop'.pc = "scan" => loop'.prev \in Accepted \ Gone /\ KindOf[loop'.prev] = "pub"
      BY <1>4, <1>5, <2>2 DEF Top
    <3>2. QED
      BY <1>7, <1>8, <3>1 DEF Cursor
  <2>3. QED
    BY <2>1, <2>2
<1>10. CrashCauses'
  <2>1. loop.pc = "freetail" => entry[loop.victim].kind = "pub" /\ reports[loop.victim] = <<0>>
    BY <1>1, <1>3 DEF Cursor, KindOf
  <2>2. QED
    BY <1>1, <1>2, <1>3, <1>4, <2>1 DEF CrashCauses, Running
<1>11. faults <= faults'
  BY <1>1, <1>2, MqttServiceAssumption DEF TypeOK
<1>12. loop'.pc # "connected" /\ loop.pc # "connected"
  BY <1>2, <1>4 DEF Top
<1>13. QED
  BY <1>2, <1>3, <1>6, <1>9, <1>10, <1>11, <1>12, QuietKeeps

-----------------------------------------------------------------------------
(* The steps of the threads *)

\* A thread moves an entry that stays as it is.
LEMMA ThreadKeeps ==
    ASSUME IInv, TypeOK', Core', Ranked', Running,
           UNCHANGED <<entry, freed, reports, acked, early, forgotten, epoch, loop, dead, id_cnt, ctx, faults>>,
           overlapped \subseteq overlapped', Accepted \subseteq Accepted',
           \A t \in Threads : /\ at'[t].pc \in {"id", "send"} => at'[t] = at[t]
                              /\ at[t].pc = "id" => at'[t] = at[t]
    PROVE  Base'
<1>1. TypeOK /\ Core /\ Cursor /\ Counted /\ Packets /\ Drawn /\ Heard /\ ReportedOnce /\ FreedReported
  BY DEF IInv, Base
<1>2. KindOf' = KindOf /\ Gone' = Gone /\ Generation' = Generation
  BY DEF KindOf, Gone, Generation
<1>3. Cursor'
  BY <1>1, <1>2, CursorFrame
<1>4. Counted'
  <2>1. faults \in Nat /\ faults <= faults
    BY <1>1, MqttServiceAssumption DEF TypeOK
  <2>2. QED
    BY <1>1, <2>1, CountedFrame
<1>5. Packets'
  BY <1>1, PacketsFrame
<1>6. Drawn'
  BY <1>1, <1>2, DrawnFrame
<1>7. Heard'
  <2>1. \A x : Fixed(x) => Fixed(x)'
    BY <1>2 DEF Fixed
  <2>2. QED
    BY <1>1, <1>2, <2>1, HeardFrame
<1>8. ReportedOnce'
  BY <1>1 DEF ReportedOnce
<1>9. FreedReported'
  <2>1. freed \subseteq Entries
    BY <1>1 DEF TypeOK
  <2>2. \A e \in Entries : Stale(e) => Stale(e)'
    BY DEF Stale
  <2>3. QED
    BY <1>1, <1>2, <2>1, <2>2, FreedFrame
<1>10. CrashCauses'
  BY DEF CrashCauses, Running
<1>11. QED
  BY <1>3, <1>4, <1>5, <1>6, <1>7, <1>8, <1>9, <1>10 DEF IInv, Base

LEMMA ReadKeeps ==
    ASSUME IInv, NEW t \in Threads, UNCHANGED matop,
           NEW k \in Kinds, entry[at[t].e].kind = k, AppendRead(t, Lists[k])
    PROVE  Base'
<1> USE DEF connection, lists, matop
<1>1. TypeOK /\ Core /\ Ranked
  BY DEF IInv, Base
<1>2. /\ Running /\ at[t].pc = "head"
      /\ at' = [at EXCEPT ![t].pc = IF Lists[k] = 0 THEN "first" ELSE "walk", ![t].last = Lists[k]]
      /\ UNCHANGED <<ctx, packet, unsent, epoch, publish_list, entry, next, freed, expired, loop, dead, faults,
                     acked, early, reports, forgotten, message_list, id_cnt, ready>>
  BY DEF AppendRead
<1>3. at[t].e \in Entries /\ KindOf[at[t].e] = k /\ Lists[k] \in Pointer
  BY <1>1, <1>2, ListTypes DEF Core, Hands, KindOf
<1>4. Appending(k) \subseteq Entries /\ \A u \in Threads : Appends(u) /\ KindOf[at[u].e] = k => at[u].e \in Appending(k)
  <2>1. \A u \in Threads : Appends(u) => at[u].e \in Entries /\ KindOf[at[u].e] = entry[at[u].e].kind
    BY <1>1 DEF Core, Hands, Appends, KindOf
  <2>2. QED
    BY <2>1 DEF Appending, Appends
<1>5. /\ overlapped \subseteq overlapped' /\ overlapped' \subseteq overlapped \union Appending(k) \union {at[t].e}
      /\ Appending(k) # {} => Appending(k) \union {at[t].e} \subseteq overlapped'
  <2>1. PICK b \in BOOLEAN : overlapped' = overlapped \union
                 IF Appending(k) # {} \/ b THEN Appending(k) \union {at[t].e} ELSE {}
    BY DEF AppendRead
  <2>2. QED
    BY <2>1
<1>6. /\ at' \in [Threads -> [pc : {"idle", "id", "send", "head", "first", "walk", "link"},
                              e : Pointer, last : Pointer]]
      /\ at'[t].pc \in {"first", "walk"} /\ (at'[t].pc = "first" <=> Lists[k] = 0)
      /\ at'[t].e = at[t].e /\ at'[t].last = Lists[k]
      /\ \A u \in Threads : u # t => at'[u] = at[u]
  <2>1. at \in [Threads -> [pc : {"idle", "id", "send", "head", "first", "walk", "link"},
                            e : Pointer, last : Pointer]]
    BY <1>1 DEF TypeOK
  <2> DEFINE q == IF Lists[k] = 0 THEN "first" ELSE "walk"
  <2>2. at' = [at EXCEPT ![t].pc = q, ![t].last = Lists[k]] /\ q \in {"first", "walk"} /\ (q = "first" <=> Lists[k] = 0)
    BY DEF AppendRead
  <2> HIDE DEF q
  <2>3. QED
    BY <1>3, <2>1, <2>2
<1>7. TypeOK'
  <2>1. overlapped' \subseteq Entries
    BY <1>1, <1>3, <1>4, <1>5 DEF TypeOK
  <2>2. QED
    BY <1>1, <1>2, <1>6, <2>1 DEF TypeOK
<1>8. KindOf' = KindOf /\ Lists' = Lists /\ Gone' = Gone
  BY <1>2 DEF KindOf, Lists, Gone
<1>9. Excused \subseteq Excused'
  BY <1>2, <1>5 DEF Excused, Stale
<1>10. Core'
  <2>1. \A u \in Threads : Appends(u) /\ KindOf[at[u].e] = k =>
          at[u].e \in overlapped' /\ at[t].e \in overlapped'
    BY <1>4, <1>5
  <2>2. QED
    BY <1>1, <1>2, <1>3, <1>5, <1>6, <1>8, <1>9, <2>1, CoreRead
<1>11. Ranked'
  BY <1>1, <1>2 DEF Ranked
<1>12. Accepted' = Accepted
  BY <1>2, <1>6, <1>8, AcceptedFacts DEF AcceptedIn
<1>13. \A u \in Threads : /\ at'[u].pc \in {"id", "send"} => at'[u] = at[u]
                          /\ at[u].pc = "id" => at'[u] = at[u]
  BY <1>2, <1>6
<1>14. QED
  BY <1>2, <1>5, <1>7, <1>10, <1>11, <1>12, <1>13, ThreadKeeps

LEMMA FirstKeeps ==
    ASSUME IInv, NEW t \in Threads, Running, at[t].pc = "first",
           NEW k \in Kinds, entry[at[t].e].kind = k,
           at' = [at EXCEPT ![t] = Idle],
           publish_list' = (IF k = "pub" THEN at[t].e ELSE publish_list),
           message_list' = (IF k = "req" THEN at[t].e ELSE message_list),
           UNCHANGED <<connection, entry, next, freed, expired, loop, dead, faults, history, id_cnt, ready>>
    PROVE  Base'
<1> USE DEF connection, history
<1>1. TypeOK /\ Core /\ Ranked
  BY DEF IInv, Base
<1>2. Appends(t) /\ at[t].e \in Entries /\ KindOf[at[t].e] = k
  BY <1>1 DEF Core, Hands, KindOf, Appends
<1>3. at' \in [Threads -> [pc : {"idle", "id", "send", "head", "first", "walk", "link"},
                           e : Pointer, last : Pointer]]
  BY <1>1, ListTypes DEF TypeOK, Idle
<1>4. TypeOK'
  <2>1. publish_list' \in Pointer /\ message_list' \in Pointer
    BY <1>1, <1>2, ListTypes DEF TypeOK
  <2>2. QED
    BY <1>1, <1>3, <2>1 DEF TypeOK
<1>5. KindOf' = KindOf /\ Gone' = Gone /\ Excused' = Excused
  BY DEF KindOf, Gone, Excused, Stale
<1>6. Lists'[k] = at[t].e /\ \A i \in Kinds : i # k => Lists'[i] = Lists[i]
  BY DEF Lists, Kinds
<1>7. Core'
  BY <1>1, <1>2, <1>5, <1>6, CoreFirst
<1>8. Ranked'
  BY <1>1 DEF Ranked
<1>9. /\ at'[t].pc = "idle" /\ \A u \in Threads : u # t => at'[u] = at[u]
      /\ Accepted' = Accepted \union {at[t].e}
  BY <1>1, <1>2, <1>5, AppendEnds
<1>10. \A u \in Threads : /\ at'[u].pc \in {"id", "send"} => at'[u] = at[u]
                          /\ at[u].pc = "id" => at'[u] = at[u]
  BY <1>9
<1>11. QED
  BY <1>4, <1>7, <1>8, <1>9, <1>10, ThreadKeeps

LEMMA WalkKeeps ==
    ASSUME IInv, NEW t \in Threads, AppendWalk(t), UNCHANGED matop
    PROVE  Base'
<1> USE DEF connection, lists, history, matop
<1>1. TypeOK /\ Core /\ Ranked
  BY DEF IInv, Base
<1>2. Running /\ at[t].pc = "walk"
  BY DEF AppendWalk
<1>3. CASE at[t].last \in freed
  <2>1. Crash("freed")
    BY <1>3 DEF AppendWalk
  <2>2. QED
    BY <1>2, <1>3, <2>1, CrashKeeps
<1>4. CASE at[t].last \notin freed
  <2>1. /\ at' = IF next[at[t].last] # 0
                 THEN [at EXCEPT ![t].last = next[@]]
                 ELSE [at EXCEPT ![t].pc = "link"]
        /\ UNCHANGED <<ctx, packet, unsent, epoch, publish_list, entry, next, freed, expired, loop, dead, faults, acked,
                       early, reports, overlapped, forgotten, message_list, id_cnt, ready>>
    BY <1>4 DEF AppendWalk
  <2>2. at[t].last \in Entries /\ next[at[t].last] \in Pointer
    BY <1>1, <1>2, ListTypes DEF Core, Hands, Accepted
  <2>3. at' \in [Threads -> [pc : {"idle", "id", "send", "head", "first", "walk", "link"},
                             e : Pointer, last : Pointer]]
    <3>1. at \in [Threads -> [pc : {"idle", "id", "send", "head", "first", "walk", "link"},
                              e : Pointer, last : Pointer]]
      BY <1>1 DEF TypeOK
    <3>2. CASE next[at[t].last] # 0
      <4>1. at' = [at EXCEPT ![t].last = next[at[t].last]]
        BY <2>1, <3>1, <3>2
      <4>2. QED
        BY <2>2, <3>1, <4>1
    <3>3. CASE next[at[t].last] = 0
      <4>1. at' = [at EXCEPT ![t].pc = "link"]
        BY <2>1, <3>3
      <4>2. QED
        BY <3>1, <4>1
    <3>4. QED
      BY <3>2, <3>3
  <2>4. /\ at'[t].pc \in {"walk", "link"} /\ at'[t].e = at[t].e
        /\ \A u \in Threads : u # t => at'[u] = at[u]
    BY <1>1, <1>2, <2>1 DEF TypeOK
  <2>5. TypeOK'
    BY <1>1, <2>1, <2>3 DEF TypeOK
  <2>6. KindOf' = KindOf /\ Lists' = Lists /\ Gone' = Gone /\ Excused' = Excused
    BY <2>1 DEF KindOf, Lists, Gone, Excused, Stale
  <2>7. Core'
    BY <1>1, <1>2, <2>1, <2>6, CoreWalk
  <2>8. Ranked'
    BY <1>1, <2>1 DEF Ranked
  <2>9. Accepted' = Accepted
    BY <1>2, <2>4, <2>6, AcceptedFacts DEF AcceptedIn
  <2>10. \A u \in Threads : /\ at'[u].pc \in {"id", "send"} => at'[u] = at[u]
                            /\ at[u].pc = "id" => at'[u] = at[u]
    BY <1>2, <2>4
  <2>11. QED
    BY <1>2, <2>1, <2>5, <2>7, <2>8, <2>9, <2>10, ThreadKeeps
<1>5. QED
  BY <1>3, <1>4

LEMMA LinkKeeps ==
    ASSUME IInv, NEW t \in Threads, AppendLink(t), UNCHANGED matop
    PROVE  Base'
<1> USE DEF connection, lists, history, matop
<1>1. TypeOK /\ Core /\ Ranked
  BY DEF IInv, Base
<1>2. Running /\ at[t].pc = "link"
  BY DEF AppendLink
<1>3. CASE at[t].last \in freed
  <2>1. Crash("freed")
    BY <1>3 DEF AppendLink
  <2>2. QED
    BY <1>2, <1>3, <2>1, CrashKeeps
<1>4. CASE at[t].last \notin freed
  <2>1. /\ next' = [next EXCEPT ![at[t].last] = at[t].e] /\ at' = [at EXCEPT ![t] = Idle]
        /\ UNCHANGED <<ctx, packet, unsent, epoch, publish_list, entry, freed, expired, loop, dead, faults, acked,
                       early, reports, overlapped, forgotten, message_list, id_cnt, ready>>
    BY <1>4 DEF AppendLink
  <2>2. at[t].last \in Entries /\ at[t].e \in Entries /\ Appends(t) /\ at[t].e \in Pointer
    BY <1>1, <1>2, ListTypes DEF Core, Hands, Accepted, Appends
  <2>3. at' \in [Threads -> [pc : {"idle", "id", "send", "head", "first", "walk", "link"},
                             e : Pointer, last : Pointer]]
    BY <1>1, <2>1, ListTypes DEF TypeOK, Idle
  <2>4. next' \in [Entries -> Pointer]
    BY <1>1, <2>1, <2>2, ListTypes
  <2>5. TypeOK'
    BY <1>1, <2>1, <2>3, <2>4 DEF TypeOK
  <2>6. KindOf' = KindOf /\ Lists' = Lists /\ Gone' = Gone /\ Excused' = Excused
    BY <2>1 DEF KindOf, Lists, Gone, Excused, Stale
  <2>7. Core'
    BY <1>1, <1>2, <2>1, <2>6, CoreLink
  <2>8. Ranked'
    BY <1>1, <1>2, <2>1, RankedLink
  <2>9. /\ at'[t].pc = "idle" /\ \A u \in Threads : u # t => at'[u] = at[u]
        /\ Accepted' = Accepted \union {at[t].e}
    BY <1>1, <2>1, <2>2, <2>6, AppendEnds
  <2>10. \A u \in Threads : /\ at'[u].pc \in {"id", "send"} => at'[u] = at[u]
                            /\ at[u].pc = "id" => at'[u] = at[u]
    BY <1>2, <2>9
  <2>11. QED
    BY <1>2, <2>1, <2>5, <2>7, <2>8, <2>9, <2>10, ThreadKeeps
<1>5. QED
  BY <1>3, <1>4

\* The message e is written.
LEMMA CountedEntry ==
    ASSUME TypeOK, Counted, NEW e \in Entries, \A x \in Entries : x # e => entry'[x] = entry[x],
           e \in Fresh => \A f \in Fresh : e <= f,
           entry'[e].kind # "none", entry'[e].conn <= epoch,
           entry'[e].kind = "req" => /\ entry'[e].conn <= Generation /\ entry'[e].draw <= e
                                    /\ entry'[e].msgid = entry'[e].draw % ReqIds,
           UNCHANGED <<id_cnt, epoch, ctx>>,
           loop'.pc = "connected" <=> loop.pc = "connected",
           faults' \in Nat, faults <= faults'
    PROVE  Counted'
<1>1. Generation' = Generation
  BY DEF Generation
<1>2. \A x \in Entries : KindOf[x] = entry[x].kind /\ KindOf'[x] = entry'[x].kind
  BY DEF KindOf
<1>3. Fresh' = Fresh \ {e}
  BY DEF Fresh
<1>4. faults \in Nat /\ epoch \in Nat
  BY MqttServiceAssumption DEF TypeOK
<1>5. epoch' <= faults' + (IF ctx'.connected THEN 1 ELSE 0)
  <2> DEFINE c == IF ctx.connected THEN 1 ELSE 0
  <2>1. c \in Nat /\ c = IF ctx'.connected THEN 1 ELSE 0
    OBVIOUS
  <2>2. epoch <= faults + c
    BY DEF Counted
  <2> HIDE DEF c
  <2>3. \A i, j, k, l \in Nat : i <= j + k /\ j <= l => i <= l + k
    OBVIOUS
  <2>4. epoch <= faults' + c
    BY <1>4, <2>1, <2>2, <2>3
  <2>5. QED
    BY <2>1, <2>4
<1>6. \A x \in Entries : entry'[x].conn <= epoch /\ (KindOf'[x] = "req" => entry'[x].conn <= Generation)
  BY <1>2 DEF Counted
<1>7. \A x \in Entries : KindOf'[x] = "none" => entry'[x] = NoEntry
  BY <1>2 DEF Counted
<1>8. \A x \in Entries : KindOf'[x] = "req" =>
        entry'[x].draw <= x /\ entry'[x].msgid = entry'[x].draw % ReqIds
  BY <1>2 DEF Counted
<1>9. ASSUME NEW f \in Fresh' PROVE id_cnt < f /\ \A x \in Entries \ Fresh' : x < f
  <2>1. f \in Fresh /\ f # e /\ f \in Int /\ e \in Int
    BY <1>3 DEF Fresh, Entries
  <2>2. id_cnt < f /\ \A x \in Entries \ Fresh : x < f
    BY <2>1 DEF Counted
  <2>3. e < f
    <3>1. CASE e \in Fresh
      BY <2>1, <3>1
    <3>2. CASE e \notin Fresh
      BY <2>2, <3>2
    <3>3. QED
      BY <3>1, <3>2
  <2>4. QED
    BY <1>3, <2>2, <2>3
<1>10. QED
  BY <1>1, <1>5, <1>6, <1>7, <1>8, <1>9 DEF Counted

LEMMA PacketsEntry ==
    ASSUME Packets, NEW e \in Entries, \A x \in Entries : x # e => entry'[x] = entry[x],
           UNCHANGED <<epoch, acked>>,
           e \in Outstanding' => \A f \in Outstanding : entry[f].msgid # entry'[e].msgid,
           \A t \in Threads : at'[t].pc = "send" /\ IsPub(t)' =>
               \/ at'[t] = at[t] /\ at[t].e \in Entries \ {e}
               \/ entry'[at'[t].e].msgid = 0
    PROVE  Packets'
<1>1. \A x \in Outstanding' : x # e => x \in Outstanding /\ entry'[x].msgid = entry[x].msgid
  BY DEF Outstanding
<1>2. \A x, y \in Outstanding' : entry'[x].msgid = entry'[y].msgid => x = y
  BY <1>1 DEF Packets
<1>3. ASSUME NEW t \in Threads, at'[t].pc = "send", IsPub(t)' PROVE entry'[at'[t].e].msgid = 0
  BY <1>3 DEF Packets, IsPub
<1>4. QED
  BY <1>2, <1>3 DEF Packets

\* What is left to show of a step that writes a message.
LEMMA EntryKeeps ==
    ASSUME IInv, TypeOK', Core', Ranked', Cursor', Counted', Packets', Drawn', Running,
           UNCHANGED <<reports, acked, early, forgotten, epoch, dead, ctx>>,
           overlapped \subseteq overlapped',
           NEW e \in Entries, e \notin freed, \A x \in Entries : x # e => entry'[x] = entry[x],
           Fixed(e) => /\ KindOf'[e] # "none" /\ entry'[e].conn = entry[e].conn
                       /\ entry'[e].draw = entry[e].draw
                       /\ KindOf'[e] # "pub" /\ KindOf[e] # "pub",
           freed \subseteq freed', freed' # freed => freed' = freed \union {e} /\ KindOf'[e] = "refused"
    PROVE  Base'
<1>1. TypeOK /\ Heard /\ ReportedOnce /\ FreedReported
  BY DEF IInv, Base
<1>2. \A x \in Entries : KindOf[x] = entry[x].kind /\ KindOf'[x] = entry'[x].kind
  BY DEF KindOf
<1>3. Heard'
  <2>1. ASSUME NEW x, Fixed(x)
        PROVE  /\ Fixed(x)' /\ entry'[x].conn = entry[x].conn /\ entry'[x].draw = entry[x].draw
               /\ KindOf'[x] = "pub" <=> KindOf[x] = "pub"
    <3>1. x \in Entries
      BY <2>1 DEF Fixed
    <3>2. CASE x = e
      BY <2>1, <3>1, <3>2 DEF Fixed
    <3>3. CASE x # e
      <4>1. entry'[x] = entry[x] /\ KindOf'[x] = KindOf[x]
        BY <1>2, <3>1, <3>3
      <4>2. QED
        BY <2>1, <4>1 DEF Fixed
    <3>4. QED
      BY <3>2, <3>3
  <2>2. QED
    BY <1>1, <2>1, HeardFrame
<1>4. ReportedOnce'
  BY <1>1 DEF ReportedOnce
<1>5. FreedReported'
  <2>1. freed \subseteq Entries
    BY <1>1 DEF TypeOK
  <2>2. \A x \in freed : entry'[x] = entry[x] /\ KindOf'[x] = KindOf[x]
    BY <1>2, <2>1
  <2>3. \A x \in freed : Stale(x) => Stale(x)'
    BY <2>2 DEF Stale
  <2>4. QED
    BY <1>1, <2>1, <2>2, <2>3, FreedFrame
<1>6. CrashCauses'
  BY DEF CrashCauses, Running
<1>7. QED
  BY <1>3, <1>4, <1>5, <1>6 DEF IInv, Base

\* An entry in the hands of a thread that has not begun to append is not gone.
LEMMA InHandFacts ==
    ASSUME TypeOK, Core, NEW t \in Threads, at[t].pc # "idle"
    PROVE  /\ at[t].e \in Entries /\ at[t].e \notin Accepted /\ at[t].e \notin Gone /\ at[t].e \notin freed
           /\ at[t].e \notin Fresh /\ KindOf[at[t].e] = entry[at[t].e].kind
<1>1. at[t].e \in Entries /\ KindOf[at[t].e] \in {"plain", "pub", "req"}
  BY DEF Core, Hands
<1>2. at[t].e \notin Accepted
  BY <1>1, AcceptedFacts DEF AcceptedIn
<1>3. at[t].e \notin Gone
  BY <1>1, <1>2 DEF Core, Alive
<1>4. QED
  BY <1>1, <1>2, <1>3 DEF Gone, Fresh, KindOf

LEMMA FreshFacts ==
    ASSUME IInv, NEW e \in Fresh
    PROVE  e \in Entries /\ e \notin Accepted /\ e \notin Gone /\ e \notin freed /\ entry[e] = NoEntry
<1>1. TypeOK /\ Core /\ Counted
  BY DEF IInv, Base
<1>2. e \in Entries /\ KindOf[e] = "none"
  BY DEF Fresh, KindOf
<1>3. e \notin Accepted
  BY <1>2, AcceptedFacts DEF AcceptedIn, Kinds
<1>4. QED
  BY <1>1, <1>2, <1>3 DEF Core, Alive, Gone, Counted

\* mqtt_client_publish for the publication e, which has no identifier.
LEMMA SentFacts ==
    ASSUME IInv, NEW e \in Entries, entry[e].kind = "pub", entry[e].msgid = 0, Publish(e)
    PROVE  /\ entry' \in [Entries -> [kind : {"none", "plain", "pub", "req", "refused"},
                                      msgid : 0..ReqIds + MaxPacketId, draw : 0..MaxEntries, conn : 0..MaxFaults + 1]]
           /\ \A x \in Entries : x # e => entry'[x] = entry[x]
           /\ entry'[e].kind = "pub" /\ entry'[e].conn <= epoch
           /\ entry'[e].msgid = 0 \/ (entry'[e].msgid = packet /\ Sendable)
           /\ KindOf' = KindOf /\ ~Fixed(e)
           /\ packet' \in 1..MaxPacketId /\ unsent' \subseteq 1..MaxPacketId /\ UNCHANGED <<ctx, epoch>>
           /\ faults' \in 0..MaxFaults /\ faults' \in Nat /\ faults <= faults'
<1>1. TypeOK /\ Counted
  BY DEF IInv, Base
<1>2. /\ packet' = PacketsAfter(1) /\ ctx' = ctx /\ epoch' = epoch
      /\ unsent' = unsent \/ unsent' = unsent \union {packet}
      /\ \/ Sendable /\ entry' = [entry EXCEPT ![e].msgid = packet, ![e].conn = epoch] /\ faults' = faults
         \/ entry' = entry /\ (faults' = faults \/ (faults < MaxFaults /\ faults' = faults + 1))
  BY DEF Publish, Sent
<1>3. packet' \in 1..MaxPacketId /\ unsent' \subseteq 1..MaxPacketId
  BY <1>1, <1>2, PacketTypes DEF TypeOK
<1>4. faults' \in 0..MaxFaults /\ faults' \in Nat /\ faults <= faults'
  BY <1>1, <1>2, MqttServiceAssumption DEF TypeOK
<1>5. /\ packet \in 0..ReqIds + MaxPacketId /\ epoch \in 0..MaxFaults + 1 /\ epoch \in Nat
      /\ entry \in [Entries -> [kind : {"none", "plain", "pub", "req", "refused"},
                                msgid : 0..ReqIds + MaxPacketId, draw : 0..MaxEntries, conn : 0..MaxFaults + 1]]
  BY <1>1, MqttServiceAssumption, ReqIdsAssumption DEF TypeOK
<1>6. ~Fixed(e)
  BY DEF Fixed, KindOf
<1>7. CASE entry' = entry
  <2>1. entry[e].conn <= epoch
    BY <1>1 DEF Counted
  <2>2. KindOf' = KindOf
    BY <1>7 DEF KindOf
  <2>3. QED
    BY <1>2, <1>3, <1>4, <1>5, <1>6, <1>7, <2>1, <2>2
<1>8. CASE Sendable /\ entry' = [entry EXCEPT ![e].msgid = packet, ![e].conn = epoch]
  <2> DEFINE T == [kind : {"none", "plain", "pub", "req", "refused"},
                   msgid : 0..ReqIds + MaxPacketId, draw : 0..MaxEntries, conn : 0..MaxFaults + 1]
             m == [entry EXCEPT ![e].msgid = packet]
  <2>1. entry' = [m EXCEPT ![e].conn = epoch]
    BY <1>8
  <2>2. /\ m \in [Entries -> T] /\ m[e].kind = "pub" /\ m[e].msgid = packet
        /\ \A x \in Entries : x # e => m[x] = entry[x]
    BY <1>5
  <2>3. /\ entry' \in [Entries -> [kind : {"none", "plain", "pub", "req", "refused"},
                                   msgid : 0..ReqIds + MaxPacketId, draw : 0..MaxEntries, conn : 0..MaxFaults + 1]]
        /\ \A x \in Entries : x # e => entry'[x] = entry[x]
        /\ entry'[e].kind = "pub" /\ entry'[e].conn = epoch /\ entry'[e].msgid = packet
    <3> HIDE DEF m
    <3>1. QED
      BY <1>5, <2>1, <2>2
  <2>4. KindOf' = KindOf
    <3>1. \A x \in Entries : entry'[x].kind = entry[x].kind
      BY <2>3
    <3>2. QED
      BY <3>1 DEF KindOf
  <2>5. QED
    BY <1>2, <1>3, <1>4, <1>5, <1>6, <1>8, <2>3, <2>4
<1>9. QED
  BY <1>2, <1>7, <1>8

\* It is sent by its thread, or from the list.
LEMMA SendKeeps ==
    ASSUME IInv, NEW e \in Entries, entry[e].kind = "pub", entry[e].msgid = 0, e \notin freed, Publish(e),
           TypeOK', Core', Cursor', Running,
           UNCHANGED <<publish_list, next, freed, expired, dead, history, matop>>,
           loop'.pc = "connected" <=> loop.pc = "connected",
           \A t \in Threads : /\ at'[t].pc = "send" => at'[t] = at[t] /\ (IsPub(t)' => at[t].e \in Entries \ {e})
                              /\ at'[t].pc = "id" <=> at[t].pc = "id"
                              /\ at[t].pc = "id" => at'[t] = at[t] /\ at[t].e \in Entries \ {e}
    PROVE  Base'
<1> USE DEF history, matop
<1>1. TypeOK /\ Core /\ Ranked /\ Counted /\ Packets /\ Drawn
  BY DEF IInv, Base
<1>2. /\ \A x \in Entries : x # e => entry'[x] = entry[x]
      /\ entry'[e].kind = "pub" /\ entry'[e].conn <= epoch
      /\ entry'[e].msgid = 0 \/ (entry'[e].msgid = packet /\ Sendable)
      /\ KindOf' = KindOf /\ ~Fixed(e)
      /\ UNCHANGED <<ctx, epoch>>
      /\ faults' \in Nat /\ faults <= faults'
  BY SentFacts
<1>3. Ranked'
  BY <1>1 DEF Ranked
<1>4. Counted'
  <2>1. e \notin Fresh
    BY DEF Fresh
  <2>2. QED
    BY <1>1, <1>2, <2>1, CountedEntry
<1>5. Packets'
  <2>1. e \in Outstanding' => \A f \in Outstanding : entry[f].msgid # entry'[e].msgid
    BY <1>2 DEF Outstanding, Sendable
  <2>2. QED
    BY <1>1, <1>2, <2>1, PacketsEntry
<1>6. Drawn'
  <2>1. KindOf[e] = "pub"
    BY DEF KindOf
  <2>2. \A x \in Entries : KindOf'[x] = "req" => KindOf[x] = "req" /\ entry'[x] = entry[x]
    BY <1>2, <2>1
  <2>3. Generation' = Generation
    BY <1>2 DEF Generation
  <2>4. \A t \in Threads : /\ at'[t].pc = "id" <=> at[t].pc = "id"
                           /\ at[t].pc = "id" => at'[t] = at[t] /\ entry'[at[t].e] = entry[at[t].e]
    BY <1>2
  <2>5. QED
    BY <1>1, <2>2, <2>3, <2>4, DrawnFrame
<1>7. QED
  BY <1>2, <1>3, <1>4, <1>5, <1>6, EntryKeeps

LEMMA PublishSendKeeps ==
    ASSUME IInv, NEW t \in Threads, PublishSend(t), UNCHANGED matop
    PROVE  Base'
<1> USE DEF history, matop
<1>1. TypeOK /\ Core /\ Packets /\ Cursor /\ Counted
  BY DEF IInv, Base
<1> DEFINE e == at[t].e
<1>2. /\ Running /\ at[t].pc = "send" /\ entry[e].kind = "pub" /\ Publish(e)
      /\ at' = [at EXCEPT ![t].pc = "head"]
      /\ UNCHANGED <<publish_list, next, freed, expired, loop, dead, acked, early, reports, overlapped, forgotten,
                     message_list, id_cnt, ready>>
  BY DEF PublishSend, IsPub
<1>3. /\ e \in Entries /\ e \notin Accepted /\ e \notin Gone /\ e \notin freed /\ KindOf[e] = "pub"
      /\ entry[e].msgid = 0
  BY <1>1, <1>2, InHandFacts DEF Packets, IsPub
<1>4. /\ entry' \in [Entries -> [kind : {"none", "plain", "pub", "req", "refused"},
                                 msgid : 0..ReqIds + MaxPacketId, draw : 0..MaxEntries, conn : 0..MaxFaults + 1]]
      /\ \A x \in Entries : x # e => entry'[x] = entry[x]
      /\ KindOf' = KindOf /\ packet' \in 1..MaxPacketId /\ unsent' \subseteq 1..MaxPacketId /\ UNCHANGED <<ctx, epoch>> /\ faults' \in 0..MaxFaults
  BY <1>2, <1>3, SentFacts
<1>5. /\ at' \in [Threads -> [pc : {"idle", "id", "send", "head", "first", "walk", "link"},
                              e : Pointer, last : Pointer]]
      /\ at'[t].pc = "head" /\ at'[t].e = e /\ \A u \in Threads : u # t => at'[u] = at[u]
  BY <1>1, <1>2 DEF TypeOK
<1>6. TypeOK'
  BY <1>1, <1>2, <1>4, <1>5 DEF TypeOK
<1>7. Lists' = Lists /\ Gone' = Gone
  BY <1>2 DEF Lists, Gone
<1>8. Core'
  <2>1. \A x \in Entries \ {} : KindOf[x] = "req" => KindOf'[x] = "req" /\ entry'[x].conn = entry[x].conn
    BY <1>3, <1>4
  <2>2. Excused \ {} \subseteq Excused'
    BY <1>1, <1>2, <1>4, <2>1, ExcusedGrows
  <2>3. KindOf[at[t].e] \in Kinds
    BY <1>3 DEF Kinds
  <2>4. QED
    BY <1>1, <1>2, <1>4, <1>7, <2>2, <2>3, CoreGoesOn
<1>9. Accepted' = Accepted
  BY <1>2, <1>4, <1>5, AcceptedFacts DEF AcceptedIn
<1>10. Cursor'
  BY <1>1, <1>2, <1>4, <1>7, <1>9, CursorFrame
<1>11. \A u \in Threads : u # t /\ at[u].pc # "idle" => at[u].e \in Entries \ {e}
  BY <1>1, <1>2 DEF Core, Hands
<1>12. \A u \in Threads : /\ at'[u].pc = "send" => at'[u] = at[u] /\ (IsPub(u)' => at[u].e \in Entries \ {e})
                          /\ at'[u].pc = "id" <=> at[u].pc = "id"
                          /\ at[u].pc = "id" => at'[u] = at[u] /\ at[u].e \in Entries \ {e}
  BY <1>2, <1>5, <1>11
<1> HIDE DEF e
<1>13. QED
  BY <1>2, <1>3, <1>6, <1>8, <1>10, <1>12, SendKeeps

LEMMA ScanSendKeeps ==
    ASSUME IInv, ScanSend, UNCHANGED matop
    PROVE  Base'
<1> USE DEF history, matop
<1>1. TypeOK /\ Core /\ Packets /\ Cursor /\ Counted
  BY DEF IInv, Base
<1> DEFINE e == Current
<1>2. /\ Running /\ loop.pc = "scan" /\ e # 0 /\ entry[e].msgid = 0 /\ Publish(e)
      /\ loop' = [loop EXCEPT !.prev = e]
      /\ UNCHANGED <<publish_list, next, freed, expired, at, dead, acked, early, reports, overlapped, forgotten,
                     message_list, id_cnt, ready>>
  BY DEF ScanSend
<1>3. e \in Entries /\ e \in Accepted /\ e \notin Gone /\ e \notin freed /\ KindOf[e] = "pub" /\ entry[e].kind = "pub"
  BY <1>1, <1>2, CurrentFacts DEF Gone, KindOf
<1> HIDE DEF e
<1>4. /\ entry' \in [Entries -> [kind : {"none", "plain", "pub", "req", "refused"},
                                 msgid : 0..ReqIds + MaxPacketId, draw : 0..MaxEntries, conn : 0..MaxFaults + 1]]
      /\ \A x \in Entries : x # e => entry'[x] = entry[x]
      /\ KindOf' = KindOf /\ packet' \in 1..MaxPacketId /\ unsent' \subseteq 1..MaxPacketId /\ UNCHANGED <<ctx, epoch>> /\ faults' \in 0..MaxFaults
  BY <1>2, <1>3, SentFacts
<1>5. /\ loop' \in [pc : {"top", "connected", "scan", "freetail", "yield", "free", "matop", "freematop"},
                    prev : Pointer, victim : Pointer]
      /\ loop'.pc = "scan" /\ loop'.prev = e
  BY <1>1, <1>2, <1>3, ListTypes DEF TypeOK
<1>6. TypeOK'
  BY <1>1, <1>2, <1>4, <1>5 DEF TypeOK
<1>7. Lists' = Lists /\ Gone' = Gone
  BY <1>2 DEF Lists, Gone
<1>8. Core'
  <2>1. \A x \in Entries \ {} : KindOf[x] = "req" => KindOf'[x] = "req" /\ entry'[x].conn = entry[x].conn
    BY <1>3, <1>4
  <2>2. Excused \ {} \subseteq Excused'
    BY <1>1, <1>2, <1>4, <2>1, ExcusedGrows
  <2>3. QED
    BY <1>1, <1>2, <1>4, <1>7, <2>2, CoreSame
<1>9. Accepted' = Accepted
  BY <1>2, <1>4, AcceptedFacts
<1>10. Cursor'
  BY <1>3, <1>4, <1>5, <1>7, <1>9 DEF Cursor
<1>11. \A u \in Threads : at[u].pc # "idle" => at[u].e \in Entries \ {e}
  BY <1>1, <1>3, InHandFacts
<1>12. \A u \in Threads : /\ at'[u].pc = "send" => at'[u] = at[u] /\ (IsPub(u)' => at[u].e \in Entries \ {e})
                          /\ at'[u].pc = "id" <=> at[u].pc = "id"
                          /\ at[u].pc = "id" => at'[u] = at[u] /\ at[u].e \in Entries \ {e}
  BY <1>2, <1>11
<1>13. loop'.pc = "connected" <=> loop.pc = "connected"
  BY <1>2, <1>5
<1>14. QED
  BY <1>2, <1>3, <1>6, <1>8, <1>10, <1>12, <1>13, SendKeeps

LEMMA PublishPlainKeeps ==
    ASSUME IInv, NEW t \in Threads, PublishPlain(t), UNCHANGED matop
    PROVE  Base'
<1> USE DEF lists, history, matop
<1>1. TypeOK /\ Core /\ Ranked
  BY DEF IInv, Base
<1>2. /\ Running /\ at[t].pc = "send" /\ entry[at[t].e].kind = "plain"
      /\ packet' = PacketsAfter(1) /\ at' = [at EXCEPT ![t] = Idle]
      /\ UNCHANGED <<ctx, unsent, epoch, publish_list, entry, next, freed, expired, loop, dead, faults, acked,
                     early, reports, overlapped, forgotten, message_list, id_cnt, ready>>
  BY DEF PublishPlain
<1>3. at[t].e \in Entries /\ KindOf[at[t].e] = "plain" /\ at[t].e \notin Accepted
  BY <1>1, <1>2, InHandFacts
<1>4. /\ at' \in [Threads -> [pc : {"idle", "id", "send", "head", "first", "walk", "link"},
                              e : Pointer, last : Pointer]]
      /\ at'[t].pc = "idle" /\ \A u \in Threads : u # t => at'[u] = at[u]
  BY <1>1, <1>2, ListTypes DEF TypeOK, Idle
<1>5. TypeOK'
  <2>1. packet' \in 1..MaxPacketId
    BY <1>1, <1>2, PacketTypes
  <2>2. QED
    BY <1>1, <1>2, <1>4, <2>1 DEF TypeOK
<1>6. KindOf' = KindOf /\ Lists' = Lists /\ Gone' = Gone /\ Excused' = Excused
  BY <1>2 DEF KindOf, Lists, Gone, Excused, Stale
<1>7. KindOf' = [KindOf EXCEPT ![at[t].e] = "plain"]
  BY <1>3, <1>6 DEF KindOf
<1>8. Core'
  <2>1. Gone' = IF "plain" = "refused" THEN Gone \union {at[t].e} ELSE Gone
    BY <1>6
  <2>2. QED
    BY <1>1, <1>2, <1>6, <1>7, <2>1, CoreLeave
<1>9. Ranked'
  BY <1>1, <1>2 DEF Ranked
<1>10. Accepted' = Accepted
  BY <1>3, <1>4, <1>6, AcceptedFacts DEF AcceptedIn, Kinds
<1>11. \A u \in Threads : /\ at'[u].pc \in {"id", "send"} => at'[u] = at[u]
                          /\ at[u].pc = "id" => at'[u] = at[u]
  BY <1>2, <1>4
<1>12. QED
  BY <1>2, <1>5, <1>8, <1>9, <1>10, <1>11, ThreadKeeps

LEMMA RequestSendKeeps ==
    ASSUME IInv, NEW t \in Threads, RequestSend(t)
    PROVE  Base'
<1> USE DEF lists, history, matop
<1>1. TypeOK /\ Core /\ Ranked
  BY DEF IInv, Base
<1>2. /\ Running /\ at[t].pc = "send" /\ entry[at[t].e].kind = "req"
      /\ packet' = PacketsAfter(1) /\ at' = [at EXCEPT ![t].pc = "head"]
      /\ UNCHANGED <<ctx, unsent, epoch, publish_list, entry, next, freed, expired, loop, dead, faults, acked,
                     early, reports, overlapped, forgotten, message_list, id_cnt, ready>>
  BY DEF RequestSend, IsReq
<1>3. at[t].e \in Entries /\ KindOf[at[t].e] \in Kinds
  BY <1>1, <1>2, InHandFacts DEF Kinds
<1>4. /\ at' \in [Threads -> [pc : {"idle", "id", "send", "head", "first", "walk", "link"},
                              e : Pointer, last : Pointer]]
      /\ at'[t].pc = "head" /\ at'[t].e = at[t].e /\ \A u \in Threads : u # t => at'[u] = at[u]
  BY <1>1, <1>2 DEF TypeOK
<1>5. TypeOK'
  <2>1. packet' \in 1..MaxPacketId
    BY <1>1, <1>2, PacketTypes
  <2>2. QED
    BY <1>1, <1>2, <1>4, <2>1 DEF TypeOK
<1>6. KindOf' = KindOf /\ Lists' = Lists /\ Gone' = Gone /\ Excused' = Excused
  BY <1>2 DEF KindOf, Lists, Gone, Excused, Stale
<1>7. Core'
  BY <1>1, <1>2, <1>3, <1>6, CoreGoesOn
<1>8. Ranked'
  BY <1>1, <1>2 DEF Ranked
<1>9. Accepted' = Accepted
  BY <1>2, <1>4, <1>6, AcceptedFacts DEF AcceptedIn
<1>10. \A u \in Threads : /\ at'[u].pc \in {"id", "send"} => at'[u] = at[u]
                          /\ at[u].pc = "id" => at'[u] = at[u]
  BY <1>2, <1>4
<1>11. QED
  BY <1>2, <1>5, <1>7, <1>8, <1>9, <1>10, ThreadKeeps

LEMMA RequestRefusedKeeps ==
    ASSUME IInv, NEW t \in Threads, RequestRefused(t)
    PROVE  Base'
<1> USE DEF history, matop
<1>1. TypeOK /\ Core /\ Ranked /\ Cursor /\ Counted /\ Packets /\ Drawn
  BY DEF IInv, Base
<1> DEFINE e == at[t].e
<1>2. /\ Running /\ at[t].pc = "send" /\ entry[e].kind = "req"
      /\ packet' = PacketsAfter(1) /\ at' = [at EXCEPT ![t] = Idle]
      /\ entry' = [entry EXCEPT ![e].kind = "refused"] /\ freed' = freed \union {e}
      /\ faults' = faults \/ (faults < MaxFaults /\ faults' = faults + 1)
      /\ UNCHANGED <<ctx, unsent, epoch, publish_list, next, expired, loop, dead, acked,
                     early, reports, overlapped, forgotten, message_list, id_cnt, ready>>
  BY DEF RequestRefused, IsReq
<1>3. e \in Entries /\ KindOf[e] = "req" /\ e \notin Accepted /\ e \notin freed /\ e \notin Fresh
  BY <1>1, <1>2, InHandFacts
<1>4. /\ at' \in [Threads -> [pc : {"idle", "id", "send", "head", "first", "walk", "link"},
                              e : Pointer, last : Pointer]]
      /\ at'[t].pc = "idle" /\ \A u \in Threads : u # t => at'[u] = at[u]
  BY <1>1, <1>2, ListTypes DEF TypeOK, Idle
<1>5. /\ entry' \in [Entries -> [kind : {"none", "plain", "pub", "req", "refused"},
                                 msgid : 0..ReqIds + MaxPacketId, draw : 0..MaxEntries, conn : 0..MaxFaults + 1]]
      /\ entry'[e].kind = "refused" /\ entry'[e].conn = entry[e].conn /\ entry'[e].draw = entry[e].draw
      /\ \A x \in Entries : x # e => entry'[x] = entry[x]
  <2>1. /\ entry \in [Entries -> [kind : {"none", "plain", "pub", "req", "refused"},
                                  msgid : 0..ReqIds + MaxPacketId, draw : 0..MaxEntries, conn : 0..MaxFaults + 1]]
        /\ e \in Entries /\ entry' = [entry EXCEPT ![e].kind = "refused"]
    BY <1>1, <1>2, <1>3 DEF TypeOK
  <2> HIDE DEF e
  <2>2. QED
    BY <2>1
<1>6. faults' \in 0..MaxFaults /\ faults' \in Nat /\ faults <= faults'
  BY <1>1, <1>2, MqttServiceAssumption DEF TypeOK
<1>7. TypeOK'
  <2>1. packet' \in 1..MaxPacketId /\ freed' \subseteq Entries
    BY <1>1, <1>2, <1>3, PacketTypes DEF TypeOK
  <2>2. QED
    BY <1>1, <1>2, <1>4, <1>5, <1>6, <2>1 DEF TypeOK
<1>8. Lists' = Lists /\ Gone' = Gone \union {e}
  BY <1>2 DEF Lists, Gone
<1>9. KindOf' = [KindOf EXCEPT ![e] = "refused"]
  BY <1>3, <1>5 DEF KindOf
<1>10. KindOf'[e] = "refused" /\ \A x \in Entries : x # e => KindOf'[x] = KindOf[x]
  BY <1>3, <1>5 DEF KindOf
<1>11. Core'
  <2>1. \A x \in Entries \ {e} : KindOf[x] = "req" => KindOf'[x] = "req" /\ entry'[x].conn = entry[x].conn
    BY <1>5, <1>10
  <2>2. Excused \ {e} \subseteq Excused'
    BY <1>1, <1>2, <2>1, ExcusedGrows
  <2>3. Gone' = IF "refused" = "refused" THEN Gone \union {at[t].e} ELSE Gone
    BY <1>8
  <2>4. QED
    BY <1>1, <1>2, <1>8, <1>9, <2>2, <2>3, CoreLeave
<1>12. Ranked'
  BY <1>1, <1>2 DEF Ranked
<1>13. Accepted \subseteq Accepted' /\ e \notin Accepted
  BY <1>3, <1>4, <1>10, AcceptedFacts DEF AcceptedIn, Kinds
<1>14. Cursor'
  BY <1>1, <1>2, <1>3, <1>8, <1>10, <1>13, CursorFrame
<1>15. \A u \in Threads : u # t /\ at[u].pc # "idle" => at[u].e \in Entries \ {e}
  BY <1>1, <1>2 DEF Core, Hands
<1> HIDE DEF e
<1>16. Counted'
  <2>1. entry[e].conn <= epoch
    BY <1>1, <1>3 DEF Counted
  <2>2. QED
    BY <1>1, <1>2, <1>3, <1>5, <1>6, <2>1, CountedEntry
<1>17. Packets'
  <2>1. e \notin Outstanding'
    BY <1>5 DEF Outstanding
  <2>2. \A u \in Threads : at'[u].pc = "send" /\ IsPub(u)' => at'[u] = at[u] /\ at[u].e \in Entries \ {e}
    BY <1>4, <1>15
  <2>3. QED
    BY <1>1, <1>2, <1>3, <1>5, <2>1, <2>2, PacketsEntry
<1>18. Drawn'
  <2>1. Generation' = Generation
    BY <1>2 DEF Generation
  <2>2. \A x \in Entries : KindOf'[x] = "req" => KindOf[x] = "req" /\ entry'[x] = entry[x]
    BY <1>5, <1>10
  <2>3. \A u \in Threads : /\ at'[u].pc = "id" <=> at[u].pc = "id"
                           /\ at[u].pc = "id" => at'[u] = at[u] /\ entry'[at[u].e] = entry[at[u].e]
    BY <1>2, <1>4, <1>5, <1>15
  <2>4. QED
    BY <1>1, <1>2, <2>1, <2>2, <2>3, DrawnFrame
<1>19. QED
  BY <1>2, <1>3, <1>5, <1>7, <1>10, <1>11, <1>12, <1>14, <1>16, <1>17, <1>18, EntryKeeps

LEMMA RequestIdKeeps ==
    ASSUME IInv, NEW t \in Threads, RequestId(t)
    PROVE  Base'
<1> USE DEF connection, lists, history
<1>1. TypeOK /\ Core /\ Ranked /\ Cursor /\ Counted /\ Packets /\ Drawn
  BY DEF IInv, Base
<1> DEFINE e == at[t].e
<1>2. /\ Running /\ at[t].pc = "id" /\ id_cnt' = entry[e].draw /\ at' = [at EXCEPT ![t].pc = "send"]
      /\ UNCHANGED <<ctx, packet, unsent, epoch, publish_list, entry, next, freed, expired, loop, dead, faults, acked,
                     early, reports, overlapped, forgotten, message_list, ready>>
  BY DEF RequestId
<1>3. /\ e \in Entries /\ KindOf[e] = "req" /\ entry[e].kind = "req" /\ e \notin Accepted /\ e \notin freed
      /\ e \notin Fresh
  BY <1>1, <1>2, InHandFacts DEF Core, Hands
<1>4. /\ at' \in [Threads -> [pc : {"idle", "id", "send", "head", "first", "walk", "link"},
                              e : Pointer, last : Pointer]]
      /\ at'[t].pc = "send" /\ at'[t].e = e /\ \A u \in Threads : u # t => at'[u] = at[u]
  BY <1>1, <1>2 DEF TypeOK
<1>5. id_cnt' \in 0..MaxEntries /\ id_cnt' <= e
  <2>1. entry[e].draw \in 0..MaxEntries
    BY <1>1, <1>3 DEF TypeOK
  <2>2. entry[e].draw <= e
    BY <1>1, <1>3 DEF Counted
  <2>3. QED
    BY <1>2, <1>3, <2>1, <2>2, MqttServiceAssumption DEF Entries
<1>6. TypeOK'
  BY <1>1, <1>2, <1>4, <1>5 DEF TypeOK
<1>7. KindOf' = KindOf /\ Lists' = Lists /\ Gone' = Gone /\ Excused' = Excused /\ Generation' = Generation /\ Fresh' = Fresh
  BY <1>2 DEF KindOf, Lists, Gone, Excused, Stale, Generation, Fresh
<1>8. Core'
  BY <1>1, <1>2, <1>7, CoreGoesOn
<1>9. Ranked'
  BY <1>1, <1>2 DEF Ranked
<1>10. Accepted' = Accepted
  BY <1>2, <1>4, <1>7, AcceptedFacts DEF AcceptedIn
<1>11. Cursor'
  BY <1>1, <1>2, <1>7, <1>10, CursorFrame
<1> HIDE DEF e
<1>12. Counted'
  <2>1. \A f \in Fresh : id_cnt' < f
    <3>1. TAKE f \in Fresh
    <3>2. e < f /\ f \in Int /\ e \in Int /\ id_cnt' \in Int
      BY <1>1, <1>3, <1>5 DEF Counted, Fresh, Entries
    <3>3. QED
      BY <1>5, <3>2
  <2>2. QED
    BY <1>1, <1>2, <1>7, <2>1 DEF Counted
<1>13. Packets'
  <2>1. \A u \in Threads : at'[u].pc = "send" /\ IsPub(u)' => at'[u] = at[u]
    BY <1>2, <1>3, <1>4 DEF IsPub
  <2>2. QED
    BY <1>1, <1>2, <2>1, PacketsFrame
<1>14. Drawn'
  <2>1. \A u \in Threads : at'[u].pc = "id" => at'[u] = at[u] /\ u # t /\ e \in overlapped
    BY <1>1, <1>2, <1>4 DEF Drawn, e
  <2>2. ASSUME NEW x \in Entries, KindOf[x] = "req", entry[x].conn = Generation, x \notin overlapped,
               \A u \in Threads : at'[u].pc = "id" => at'[u].e # x
        PROVE  /\ entry[x].draw <= id_cnt'
               /\ \A u \in Threads : at'[u].pc = "id" => entry[at'[u].e].draw > entry[x].draw
    <3>1. CASE x = e
      <4>1. entry[x].draw = id_cnt' /\ id_cnt' \in Nat
        BY <1>2, <1>5, <3>1 DEF e
      <4>2. QED
        BY <2>1, <2>2, <3>1, <4>1
    <3>2. CASE x # e
      <4>1. \A u \in Threads : at[u].pc = "id" => at[u].e # x
        BY <1>4, <2>2, <3>2 DEF e
      <4>2. \A u \in Threads : at[u].pc = "id" => entry[at[u].e].draw > entry[x].draw
        BY <1>1, <2>2, <4>1 DEF Drawn
      <4>3. id_cnt' > entry[x].draw /\ id_cnt' \in Nat /\ entry[x].draw \in Nat
        <5>1. entry[x].draw \in 0..MaxEntries
          BY <1>1 DEF TypeOK
        <5>2. QED
          BY <1>2, <1>5, <4>2, <5>1, MqttServiceAssumption DEF e
      <4>4. QED
        BY <2>1, <4>2, <4>3
    <3>3. QED
      BY <3>1, <3>2
  <2>3. \A u, v \in Threads : u # v /\ at'[u].pc = "id" /\ at'[v].pc = "id" => at'[u].e \in overlapped
    BY <1>1, <2>1 DEF Drawn
  <2>4. QED
    BY <1>1, <1>2, <1>7, <2>2, <2>3 DEF Drawn
<1>15. QED
  <2>1. \A x \in Entries : x # e => entry'[x] = entry[x]
    BY <1>2
  <2>2. QED
    BY <1>2, <1>3, <1>6, <1>7, <1>8, <1>9, <1>11, <1>12, <1>13, <1>14, <2>1, EntryKeeps

\* A thread begins with a message: the entry e is allocated and written.
LEMMA AllocKeeps ==
    ASSUME IInv, NEW t \in Threads, Running, at[t].pc = "idle",
           NEW e \in Fresh, \A f \in Fresh : e <= f,
           NEW k \in {"plain", "pub", "req"}, NEW q \in {"id", "send", "head"},
           q = "head" => k = "pub", q = "id" <=> k = "req",
           at' = [at EXCEPT ![t] = [pc |-> q, e |-> e, last |-> 0]],
           entry' \in [Entries -> [kind : {"none", "plain", "pub", "req", "refused"},
                                   msgid : 0..ReqIds + MaxPacketId, draw : 0..MaxEntries, conn : 0..MaxFaults + 1]],
           entry'[e].kind = k, \A x \in Entries : x # e => entry'[x] = entry[x],
           k = "req" => /\ entry'[e].msgid = (id_cnt + 1) % ReqIds /\ entry'[e].draw = id_cnt + 1
                      /\ entry'[e].conn = Generation,
           k # "req" => entry'[e].msgid = 0 /\ entry'[e].conn = 0,
           overlapped \subseteq overlapped', overlapped' \subseteq Entries,
           k = "req" => \A u \in Threads : at[u].pc = "id" => at[u].e \in overlapped' /\ e \in overlapped',
           UNCHANGED <<connection, publish_list, next, freed, expired, loop, dead, faults,
                       acked, early, reports, forgotten, matop>>
    PROVE  Base'
<1> USE DEF connection, matop
<1>1. TypeOK /\ Core /\ Ranked /\ Cursor /\ Counted /\ Packets /\ Drawn
  BY DEF IInv, Base
<1>2. e \in Entries /\ e \notin Accepted /\ e \notin Gone /\ e \notin freed /\ entry[e] = NoEntry /\ e \in Nat
  BY FreshFacts DEF Entries
<1>3. /\ at' \in [Threads -> [pc : {"idle", "id", "send", "head", "first", "walk", "link"},
                              e : Pointer, last : Pointer]]
      /\ at'[t].pc = q /\ at'[t].e = e /\ \A u \in Threads : u # t => at'[u] = at[u]
  <2>1. /\ at \in [Threads -> [pc : {"idle", "id", "send", "head", "first", "walk", "link"},
                               e : Pointer, last : Pointer]]
        /\ e \in Pointer /\ 0 \in Pointer
    BY <1>1, <1>2, ListTypes DEF TypeOK
  <2>2. [pc |-> q, e |-> e, last |-> 0] \in [pc : {"idle", "id", "send", "head", "first", "walk", "link"},
                                             e : Pointer, last : Pointer]
    BY <2>1
  <2>3. QED
    BY <2>1, <2>2
<1>4. TypeOK'
  BY <1>1, <1>3 DEF TypeOK
<1>5. Lists' = Lists /\ Gone' = Gone /\ Generation' = Generation
  BY DEF Lists, Gone, Generation
<1>6. KindOf[e] = "none" /\ KindOf'[e] = k /\ \A x \in Entries : x # e => KindOf'[x] = KindOf[x]
  <2>1. entry[e].kind = "none"
    BY <1>2 DEF NoEntry
  <2>2. \A x \in Entries : KindOf[x] = entry[x].kind /\ KindOf'[x] = entry'[x].kind
    BY DEF KindOf
  <2>3. KindOf[e] = "none" /\ KindOf'[e] = k
    BY <1>2, <2>1, <2>2
  <2>4. \A x \in Entries : x # e => KindOf'[x] = KindOf[x]
    BY <2>2
  <2>5. QED
    BY <2>3, <2>4
<1>7. KindOf' = [KindOf EXCEPT ![e] = k]
  <2>1. KindOf = [x \in Entries |-> KindOf[x]] /\ KindOf' = [x \in Entries |-> KindOf'[x]]
    BY DEF KindOf
  <2>2. QED
    BY <1>2, <1>6, <2>1
<1>8. Core'
  <2>1. \A x \in Entries \ {} : KindOf[x] = "req" => KindOf'[x] = "req" /\ entry'[x].conn = entry[x].conn
    BY <1>6
  <2>2. Excused \ {} \subseteq Excused'
    BY <1>1, <2>1, ExcusedGrows
  <2>3. QED
    BY <1>1, <1>5, <1>7, <2>2, CoreAlloc
<1>9. Ranked'
  BY <1>1 DEF Ranked
<1>10. Accepted \subseteq Accepted'
  <2>1. ASSUME NEW x \in Accepted PROVE x \in Accepted'
    <3>1. /\ x \in Entries /\ x # e /\ KindOf[x] \in Kinds
          /\ \A u \in Threads : at[u].pc # "idle" => at[u].e # x
      BY <1>2, AcceptedFacts DEF AcceptedIn
    <3>2. KindOf'[x] \in Kinds /\ \A u \in Threads : at'[u].pc # "idle" => at'[u].e # x
      BY <1>3, <1>6, <3>1
    <3>3. QED
      BY <3>1, <3>2, AcceptedFacts DEF AcceptedIn
  <2>2. QED
    BY <2>1
<1>11. Cursor'
  BY <1>1, <1>5, <1>6, <1>10, CursorFrame
<1>12. \A u \in Threads : u # t /\ at[u].pc # "idle" => at[u].e \in Entries \ {e}
  BY <1>1, InHandFacts
<1>13. Generation \in Nat /\ Generation <= epoch /\ id_cnt \in Nat /\ epoch \in Nat
  BY <1>1, MqttServiceAssumption DEF TypeOK, Counted, Generation
<1>14. Counted'
  <2>1. faults \in Nat /\ faults <= faults
    BY <1>1, MqttServiceAssumption DEF TypeOK
  <2>2. id_cnt < e
    BY <1>1 DEF Counted
  <2>3. id_cnt + 1 <= e
    BY <1>2, <1>13, <2>2
  <2>4. entry'[e].conn <= epoch
    BY <1>13
  <2>5. k = "req" => /\ entry'[e].conn <= Generation /\ entry'[e].draw <= e
                      /\ entry'[e].msgid = entry'[e].draw % ReqIds
    BY <1>13, <2>3
  <2>6. QED
    BY <1>1, <1>2, <2>1, <2>4, <2>5, CountedEntry
<1>15. Packets'
  <2>1. e \notin Outstanding'
    BY DEF Outstanding
  <2>2. \A u \in Threads : at'[u].pc = "send" /\ IsPub(u)' =>
          (at'[u] = at[u] /\ at[u].e \in Entries \ {e}) \/ entry'[at'[u].e].msgid = 0
    BY <1>3, <1>12
  <2>3. QED
    BY <1>1, <1>2, <2>1, <2>2, PacketsEntry
<1>16. Drawn'
  <2>1. \A u \in Threads : u # t /\ at[u].pc = "id" =>
          at'[u] = at[u] /\ at[u].e \in Entries /\ at[u].e # e /\ entry'[at[u].e] = entry[at[u].e]
    BY <1>3, <1>12
  <2>2. \A u \in Threads : at'[u].pc = "id" => (u = t /\ k = "req") \/ (u # t /\ at[u].pc = "id" /\ at'[u] = at[u])
    BY <1>3
  <2>3. ASSUME NEW u \in Threads, NEW v \in Threads, u # v, at'[u].pc = "id", at'[v].pc = "id"
        PROVE  at'[u].e \in overlapped'
    <3>1. CASE u # t /\ v # t
      BY <1>1, <2>2, <2>3, <3>1 DEF Drawn
    <3>2. CASE u = t \/ v = t
      BY <1>3, <2>2, <2>3, <3>2
    <3>3. QED
      BY <3>1, <3>2
  <2>4. \A x \in Entries : /\ entry[x].kind = "req" /\ entry[x].conn = Generation /\ x \notin overlapped
                           /\ \A u \in Threads : at[u].pc = "id" => at[u].e # x
                           => /\ entry[x].draw <= id_cnt
                              /\ \A u \in Threads : at[u].pc = "id" => entry[at[u].e].draw > entry[x].draw
    BY <1>1 DEF Drawn, KindOf
  <2>5. ASSUME NEW x \in Entries, KindOf'[x] = "req", entry'[x].conn = Generation, x \notin overlapped',
               \A u \in Threads : at'[u].pc = "id" => at'[u].e # x
        PROVE  /\ entry'[x].draw <= id_cnt
               /\ \A u \in Threads : at'[u].pc = "id" => entry'[at'[u].e].draw > entry'[x].draw
    <3>1. x # e
      BY <1>3, <1>6, <2>5
    <3>2. entry'[x] = entry[x] /\ entry[x].kind = "req" /\ x \notin overlapped
      BY <2>5, <3>1 DEF KindOf
    <3>3. \A u \in Threads : at[u].pc = "id" => at[u].e # x
      BY <2>1, <2>5
    <3>4. /\ entry[x].draw <= id_cnt
          /\ \A u \in Threads : at[u].pc = "id" => entry[at[u].e].draw > entry[x].draw
      BY <2>4, <2>5, <3>2, <3>3
    <3>5. entry[x].draw \in Nat
      <4>1. entry[x].draw \in 0..MaxEntries
        BY <1>1 DEF TypeOK
      <4>2. QED
        BY <4>1
    <3>6. ASSUME NEW u \in Threads, at'[u].pc = "id" PROVE entry'[at'[u].e].draw > entry[x].draw
      <4>1. CASE u = t
        <5>1. entry'[at'[u].e].draw = id_cnt + 1
          BY <1>3, <2>2, <3>6, <4>1
        <5>2. QED
          BY <1>13, <3>4, <3>5, <5>1
      <4>2. CASE u # t
        BY <2>1, <2>2, <3>4, <3>6, <4>2
      <4>3. QED
        BY <4>1, <4>2
    <3>7. QED
      BY <3>2, <3>4, <3>6
  <2>6. ASSUME NEW y \in Entries, y # e, entry[y].kind = "req", k = "req",
               entry[y].conn = Generation, entry[y].draw = id_cnt + 1
        PROVE  y \in overlapped'
    <3>1. SUFFICES ASSUME y \notin overlapped' PROVE FALSE
      OBVIOUS
    <3>2. \A u \in Threads : at[u].pc = "id" => at[u].e # y
      BY <3>1, <2>6
    <3>3. entry[y].draw <= id_cnt
      BY <2>4, <2>6, <3>1, <3>2
    <3>4. QED
      BY <1>13, <2>6, <3>3
  <2>7. ASSUME NEW x \in Entries, NEW y \in Entries, KindOf'[x] = "req", KindOf'[y] = "req", x # y,
               entry'[x].conn = entry'[y].conn, entry'[x].draw = entry'[y].draw
        PROVE  x \in overlapped' \/ y \in overlapped'
    <3>1. KindOf'[x] = entry'[x].kind /\ KindOf'[y] = entry'[y].kind
      BY DEF KindOf
    <3>2. CASE x # e /\ y # e
      <4>1. KindOf[x] = "req" /\ KindOf[y] = "req" /\ entry[x] = entry'[x] /\ entry[y] = entry'[y]
        BY <1>6, <2>7, <3>2
      <4>2. QED
        BY <1>1, <2>7, <4>1 DEF Drawn
    <3>3. CASE x = e
      BY <2>6, <2>7, <3>1, <3>3
    <3>4. CASE y = e
      BY <2>6, <2>7, <3>1, <3>4
    <3>5. QED
      BY <3>2, <3>3, <3>4
  <2>8. QED
    BY <1>5, <2>3, <2>5, <2>7 DEF Drawn
<1>17. QED
  <2>1. ~Fixed(e)
    BY <1>6 DEF Fixed
  <2>2. QED
    BY <1>2, <1>4, <1>8, <1>9, <1>11, <1>14, <1>15, <1>16, <2>1, EntryKeeps

LEMMA PublishBeginKeeps ==
    ASSUME IInv, NEW t \in Threads, NEW how \in {"plain", "sync", "async"}, PublishBegin(t, how), UNCHANGED matop
    PROVE  Base'
<1>1. TypeOK
  BY DEF IInv, Base
<1> DEFINE k == IF how = "plain" THEN "plain" ELSE "pub"
           q == IF how = "async" THEN "head" ELSE "send"
<1>2. PICK e \in Fresh : /\ \A f \in Fresh : e <= f
                         /\ entry' = [entry EXCEPT ![e].kind = k]
                         /\ at' = [at EXCEPT ![t] = [pc |-> q, e |-> e, last |-> 0]]
  BY DEF PublishBegin
<1>3. /\ Running /\ at[t].pc = "idle" /\ overlapped' = overlapped
      /\ UNCHANGED <<connection, publish_list, next, freed, expired, loop, dead, faults,
                     acked, early, reports, forgotten, matop>>
  BY DEF PublishBegin, history
<1>4. /\ k \in {"plain", "pub"} /\ q \in {"send", "head"} /\ (q = "head" => k = "pub")
  OBVIOUS
<1> HIDE DEF k, q
<1>5. /\ entry \in [Entries -> [kind : {"none", "plain", "pub", "req", "refused"},
                                msgid : 0..ReqIds + MaxPacketId, draw : 0..MaxEntries, conn : 0..MaxFaults + 1]]
      /\ e \in Entries /\ entry[e].msgid = 0 /\ entry[e].conn = 0 /\ overlapped \subseteq Entries
  BY <1>1, FreshFacts DEF TypeOK, NoEntry
<1>6. /\ entry' \in [Entries -> [kind : {"none", "plain", "pub", "req", "refused"},
                                 msgid : 0..ReqIds + MaxPacketId, draw : 0..MaxEntries, conn : 0..MaxFaults + 1]]
      /\ entry'[e].kind = k /\ entry'[e].msgid = 0 /\ entry'[e].conn = 0
      /\ \A x \in Entries : x # e => entry'[x] = entry[x]
  BY <1>2, <1>4, <1>5
<1>7. q \in {"id", "send", "head"} /\ k \in {"plain", "pub", "req"} /\ k # "req" /\ q # "id"
  BY <1>4
<1>8. /\ \A f \in Fresh : e <= f
      /\ (q = "head" => k = "pub") /\ (q = "id" <=> k = "req")
      /\ k = "req" => /\ entry'[e].msgid = (id_cnt + 1) % ReqIds /\ entry'[e].draw = id_cnt + 1
                    /\ entry'[e].conn = Generation
      /\ k # "req" => entry'[e].msgid = 0 /\ entry'[e].conn = 0
      /\ overlapped \subseteq overlapped' /\ overlapped' \subseteq Entries
      /\ k = "req" => \A u \in Threads : at[u].pc = "id" => at[u].e \in overlapped' /\ e \in overlapped'
  BY <1>2, <1>3, <1>4, <1>5, <1>6, <1>7
<1>9. at' = [at EXCEPT ![t] = [pc |-> q, e |-> e, last |-> 0]]
  BY <1>2
<1>10. QED
  BY <1>3, <1>6, <1>7, <1>8, <1>9, AllocKeeps, Zenon

LEMMA RequestBeginKeeps ==
    ASSUME IInv, NEW t \in Threads, RequestBegin(t)
    PROVE  Base'
<1>1. TypeOK /\ Core /\ Counted
  BY DEF IInv, Base
<1> DEFINE others == {at[u].e : u \in {v \in Threads : at[v].pc = "id"}}
<1>2. PICK e \in Fresh : /\ \A f \in Fresh : e <= f
                         /\ entry' = [entry EXCEPT ![e] = [kind |-> "req", msgid |-> (id_cnt + 1) % ReqIds,
                                                           draw |-> id_cnt + 1, conn |-> Generation]]
                         /\ at' = [at EXCEPT ![t] = [pc |-> "id", e |-> e, last |-> 0]]
                         /\ overlapped' = overlapped \union IF others # {} THEN others \union {e} ELSE {}
  BY DEF RequestBegin
<1>3. /\ Running /\ at[t].pc = "idle"
      /\ UNCHANGED <<connection, publish_list, next, freed, expired, loop, dead, faults,
                     acked, early, reports, forgotten, matop>>
  BY DEF RequestBegin
<1>4. e \in Entries /\ overlapped \subseteq Entries
  BY <1>1 DEF TypeOK, Fresh
<1>5. /\ id_cnt + 1 \in 0..MaxEntries /\ (id_cnt + 1) % ReqIds \in 0..ReqIds + MaxPacketId
      /\ Generation \in 0..MaxFaults + 1
  <2>1. id_cnt \in 0..MaxEntries /\ epoch \in 0..MaxFaults + 1 /\ (loop.pc = "connected" => epoch > 0)
    BY <1>1 DEF TypeOK, Counted
  <2>2. id_cnt < e /\ e \in 1..MaxEntries
    BY <1>1, <1>4 DEF Counted, Entries
  <2>3. id_cnt + 1 \in 0..MaxEntries
    BY <2>1, <2>2, MqttServiceAssumption
  <2>4. (id_cnt + 1) % ReqIds \in 0..(ReqIds - 1)
    BY <2>3, ReqIdsAssumption
  <2>5. Generation \in 0..MaxFaults + 1
    BY <2>1, MqttServiceAssumption DEF Generation
  <2>6. QED
    BY <2>3, <2>4, <2>5, MqttServiceAssumption, ReqIdsAssumption
<1>6. /\ entry' \in [Entries -> [kind : {"none", "plain", "pub", "req", "refused"},
                                 msgid : 0..ReqIds + MaxPacketId, draw : 0..MaxEntries, conn : 0..MaxFaults + 1]]
      /\ entry'[e].kind = "req" /\ entry'[e].msgid = (id_cnt + 1) % ReqIds
      /\ entry'[e].draw = id_cnt + 1 /\ entry'[e].conn = Generation
      /\ \A x \in Entries : x # e => entry'[x] = entry[x]
  BY <1>1, <1>2, <1>4, <1>5 DEF TypeOK
<1>7. \A u \in Threads : at[u].pc = "id" => at[u].e \in others
  OBVIOUS
<1>8. others \subseteq Entries
  BY <1>1, InHandFacts
<1> HIDE DEF others
<1>9. /\ overlapped \subseteq overlapped' /\ overlapped' \subseteq Entries
      /\ \A u \in Threads : at[u].pc = "id" => at[u].e \in overlapped' /\ e \in overlapped'
  BY <1>2, <1>4, <1>7, <1>8
<1> DEFINE k == "req"
           q == "id"
<1>10. /\ k \in {"plain", "pub", "req"} /\ q \in {"id", "send", "head"} /\ k = "req" /\ q = "id"
       /\ at' = [at EXCEPT ![t] = [pc |-> q, e |-> e, last |-> 0]] /\ entry'[e].kind = k
  BY <1>2, <1>6
<1> HIDE DEF k, q
<1>11. e \in Fresh /\ \A f \in Fresh : e <= f
  BY <1>2
<1>12. /\ q = "head" => k = "pub"
       /\ q = "id" <=> k = "req"
       /\ k # "req" => entry'[e].msgid = 0 /\ entry'[e].conn = 0
  BY <1>10
<1>13. QED
  BY <1>3, <1>6, <1>9, <1>10, <1>11, <1>12, AllocKeeps

-----------------------------------------------------------------------------
(* The steps that call a callback *)

LEMMA ToldAfter ==
    ASSUME TypeOK, NEW e \in Entries, reports[e] = <<>>, NEW by \in Pointer,
           reports' = [reports EXCEPT ![e] = Append(@, by)]
    PROVE  /\ Told(e) = {} /\ Told(e)' = {by}
           /\ \A x \in Entries : x # e => Told(x)' = Told(x)
           /\ reports'[e] = <<by>> /\ \A x \in Entries : x # e => reports'[x] = reports[x]
           /\ reports' \in [Entries -> Seq(Pointer)]
<1>1. reports \in [Entries -> Seq(Pointer)]
  BY DEF TypeOK
<1>2. Append(<<>>, by) = <<by>> /\ <<by>> \in Seq(Pointer) /\ Len(<<by>>) = 1 /\ <<by>>[1] = by /\ Len(<<>>) = 0
  OBVIOUS
<1>3. reports'[e] = Append(reports[e], by) /\ \A x \in Entries : x # e => reports'[x] = reports[x]
  BY <1>1
<1>4. reports'[e] = <<by>>
  BY <1>2, <1>3
<1>5. reports' \in [Entries -> Seq(Pointer)]
  <2>1. reports' = [reports EXCEPT ![e] = <<by>>]
    BY <1>2
  <2>2. QED
    BY <1>1, <1>2, <2>1
<1>6. Told(e) = {}
  BY <1>2 DEF Told
<1>7. Told(e)' = {by}
  BY <1>2, <1>4 DEF Told
<1>8. \A x \in Entries : x # e => Told(x)' = Told(x)
  BY <1>3 DEF Told
<1>9. QED
  BY <1>3, <1>4, <1>5, <1>6, <1>7, <1>8

\* The callback of e may be told the fate of a.
Fits(e, a) ==
    /\ Fixed(e) /\ Fixed(a)
    /\ \/ a = e
       \/ entry[a].conn # entry[e].conn
       \/ IF entry[e].kind = "pub" THEN Missed(e)
          ELSE {a, e} \intersect overlapped # {} \/ CameRound(a, e)

LEMMA HeardTold ==
    ASSUME Heard, NEW e \in Entries, NEW by, Told(e) = {}, Told(e)' = {by},
           \A x \in Entries : x # e => Told(x)' = Told(x),
           entry' = entry, overlapped \subseteq overlapped', early \subseteq early',
           by # 0 => Fits(e, by),
           acked \subseteq acked', \A a \in acked' \ acked : Fixed(a) /\ KindOf[a] = "pub"
    PROVE  Heard'
<1>1. \A x \in Entries : Told(x) \subseteq Told(x)'
  OBVIOUS
<1>2. \A x : Missed(x) => Missed(x)'
  BY <1>1 DEF Missed
<1>3. \A x : Fixed(x) <=> Fixed(x)'
  BY DEF Fixed, KindOf
<1>4. ASSUME NEW x \in Entries, NEW a \in Told(x)' \ {0}
      PROVE  /\ Fixed(x)' /\ Fixed(a)'
             /\ \/ a = x
                \/ entry[a].conn # entry[x].conn
                \/ IF entry[x].kind = "pub" THEN Missed(x)'
                   ELSE {a, x} \intersect overlapped' # {} \/ CameRound(a, x)
  <2>1. CASE x = e
    <3>1. a = by /\ by # 0
      BY <2>1
    <3>2. QED
      BY <1>2, <1>3, <2>1, <3>1 DEF Fits
  <2>2. CASE x # e
    <3>1. a \in Told(x) \ {0}
      BY <2>2
    <3>2. /\ Fixed(x) /\ Fixed(a)
          /\ \/ a = x
             \/ entry[a].conn # entry[x].conn
             \/ IF entry[x].kind = "pub" THEN Missed(x)
                ELSE {a, x} \intersect overlapped # {} \/ CameRound(a, x)
      BY <3>1 DEF Heard, AnswersFit
    <3>3. QED
      BY <1>2, <1>3, <3>2
  <2>3. QED
    BY <2>1, <2>2
<1>5. AnswersFit'
  <2>1. \A a, x : CameRound(a, x)' <=> CameRound(a, x)
    BY DEF CameRound
  <2>2. QED
    BY <1>4, <2>1 DEF AnswersFit
<1>6. \A a \in acked' : Fixed(a)' /\ KindOf'[a] = "pub"
  BY <1>3 DEF Heard, KindOf
<1>7. QED
  BY <1>4, <1>5, <1>6 DEF Heard

\* The callback of e is called with `by', and e leaves the list k.
LEMMA RemoveKeeps ==
    ASSUME IInv, Running,
           NEW k \in Kinds, NEW e \in Accepted, e \notin Gone, KindOf[e] = k,
           NEW p \in Pointer,
           \/ p = 0 /\ Lists[k] = e
           \/ p \in Entries /\ p \notin Gone /\ next[p] = e,
           NEW by \in Pointer, reports' = [reports EXCEPT ![e] = Append(@, by)],
           publish_list' = (IF k = "pub" THEN HeadWithout(publish_list, p, e) ELSE publish_list),
           message_list' = (IF k = "req" THEN HeadWithout(message_list, p, e) ELSE message_list),
           next' = NextWithout(p, e), expired' = expired \ {e},
           overlapped' = overlapped \union Appending(k),
           NEW q \in {"freetail", "free", "freematop"}, NEW r \in {0, p},
           loop' = [pc |-> q, prev |-> r, victim |-> e],
           q = "freetail" => by = 0 /\ k = "pub" /\ (p # 0 => KindOf[p] = "pub" /\ p \in Accepted),
           loop.pc # "connected",
           UNCHANGED <<connection, entry, freed, at, dead, faults, forgotten, id_cnt, ready>>,
           acked \subseteq acked', acked' \subseteq Entries, early \subseteq early', early' \subseteq Entries,
           by # 0 => Fits(e, by),
           \A a \in acked' \ acked : Fixed(a) /\ KindOf[a] = "pub"
    PROVE  Base'
<1> USE DEF connection
<1>1. TypeOK /\ Core /\ Ranked /\ Cursor /\ Counted /\ Packets /\ Drawn /\ Heard /\ ReportedOnce /\ FreedReported
  BY DEF IInv, Base
<1>2. e \in Entries /\ reports[e] = <<>> /\ e \in Pointer /\ e # 0 /\ next[e] \in Pointer
  BY <1>1, ListTypes DEF Accepted, Gone
<1>3. /\ Told(e) = {} /\ Told(e)' = {by}
      /\ \A x \in Entries : x # e => Told(x)' = Told(x)
      /\ reports'[e] = <<by>> /\ \A x \in Entries : x # e => reports'[x] = reports[x]
      /\ reports' \in [Entries -> Seq(Pointer)]
  BY <1>1, <1>2, ToldAfter
<1>4. /\ Appending(k) \subseteq Entries
      /\ \A t \in Threads : Appends(t) /\ KindOf[at[t].e] = k => at[t].e \in Appending(k)
  <2>1. \A t \in Threads : Appends(t) => at[t].e \in Entries /\ KindOf[at[t].e] = entry[at[t].e].kind
    BY <1>1 DEF Core, Hands, Appends, KindOf
  <2>2. QED
    BY <2>1 DEF Appending, Appends
<1>5. TypeOK'
  <2>1. publish_list' \in Pointer /\ message_list' \in Pointer
    BY <1>1, <1>2 DEF HeadWithout, TypeOK
  <2>2. next' \in [Entries -> Pointer]
    BY <1>1, <1>2 DEF NextWithout, TypeOK
  <2>3. expired' \subseteq Entries /\ overlapped' \subseteq Entries
    BY <1>1, <1>4 DEF TypeOK
  <2>4. loop' \in [pc : {"top", "connected", "scan", "freetail", "yield", "free", "matop", "freematop"},
                   prev : Pointer, victim : Pointer]
    BY <1>1, <1>2, ListTypes
  <2>5. QED
    BY <1>1, <1>3, <2>1, <2>2, <2>3, <2>4 DEF TypeOK
<1>6. KindOf' = KindOf
  BY DEF KindOf
<1>7. Gone' = Gone \union {e}
  <2>1. \A x \in Entries : reports'[x] # <<>> <=> reports[x] # <<>> \/ x = e
    BY <1>2, <1>3
  <2>2. QED
    BY <1>2, <2>1 DEF Gone
<1>8. Excused \subseteq Excused' /\ \A x \in Entries : Stale(x) => Stale(x)'
  BY DEF Excused, Stale
<1>9. /\ Lists'[k] = (IF p = 0 THEN next[e] ELSE Lists[k])
      /\ \A i \in Kinds : i # k => Lists'[i] = Lists[i]
  BY DEF Lists, Kinds, HeadWithout
<1>10. Core' /\ Ranked' /\ p # e
  <2>1. next' = IF p = 0 THEN next ELSE [next EXCEPT ![p] = next[e]]
    BY DEF NextWithout
  <2>2. \A t \in Threads : Appends(t) /\ KindOf[at[t].e] = k => at[t].e \in overlapped'
    BY <1>4
  <2>3. overlapped \subseteq overlapped' /\ at' = at
    OBVIOUS
  <2>4. QED
    BY <1>1, <1>6, <1>7, <1>8, <1>9, <2>1, <2>2, <2>3, CoreRemove
<1>11. Accepted' = Accepted
  BY <1>6, AcceptedFacts
<1>12. Cursor'
  <2>1. loop'.pc = q /\ loop'.victim = e /\ loop'.prev = r
    OBVIOUS
  <2>2. r # 0 => r = p /\ p \notin Gone'
    BY <1>7, <1>10
  <2>3. QED
    BY <1>2, <1>3, <1>6, <1>11, <2>1, <2>2 DEF Cursor
<1>13. Counted'
  <2>1. faults \in Nat /\ faults <= faults
    BY <1>1, MqttServiceAssumption DEF TypeOK
  <2>2. loop'.pc # "connected"
    OBVIOUS
  <2>3. QED
    BY <1>1, <2>1, <2>2, CountedFrame
<1>14. Packets'
  BY <1>1, PacketsFrame
<1>15. Drawn'
  <2>1. Generation' = Generation
    BY DEF Generation
  <2>2. QED
    BY <1>1, <1>6, <2>1, DrawnFrame
<1>16. Heard'
  <2>1. overlapped \subseteq overlapped'
    OBVIOUS
  <2>2. Heard /\ e \in Entries /\ Told(e) = {} /\ Told(e)' = {by}
    BY <1>1, <1>2, <1>3
  <2>3. \A x \in Entries : x # e => Told(x)' = Told(x)
    BY <1>3
  <2>4. entry' = entry
    OBVIOUS
  <2>5. QED
    BY <2>1, <2>2, <2>3, <2>4, HeardTold, Zenon
<1>17. ReportedOnce'
  <2>1. Len(<<by>>) = 1
    OBVIOUS
  <2>2. QED
    BY <1>1, <1>3, <2>1 DEF ReportedOnce
<1>18. FreedReported'
  <2>1. freed \subseteq Entries
    BY <1>1 DEF TypeOK
  <2>2. \A x \in Entries : reports[x] # <<>> => reports'[x] # <<>>
    BY <1>2, <1>3
  <2>3. QED
    BY <1>1, <1>8, <2>1, <2>2 DEF FreedReported
<1>19. CrashCauses'
  BY DEF CrashCauses, Running
<1>20. QED
  BY <1>5, <1>10, <1>12, <1>13, <1>14, <1>15, <1>16, <1>17, <1>18, <1>19 DEF IInv, Base

LEMMA ScanTimeoutKeeps ==
    ASSUME IInv, ScanTimeout, UNCHANGED matop
    PROVE  Base'
<1> USE DEF connection, matop
<1>1. TypeOK /\ Core /\ Cursor
  BY DEF IInv, Base
<1> DEFINE e == Current
           p == loop.prev
           k == "pub"
           q == "freetail"
           by == 0
<1>2. /\ Running /\ loop.pc = "scan" /\ e \in expired
      /\ reports' = [reports EXCEPT ![e] = Append(@, by)]
      /\ publish_list' = HeadWithout(publish_list, p, e) /\ message_list' = message_list
      /\ next' = NextWithout(p, e) /\ expired' = expired \ {e} /\ overlapped' = overlapped \union Appending(k)
      /\ loop' = [pc |-> q, prev |-> p, victim |-> e]
      /\ UNCHANGED <<connection, entry, freed, at, dead, faults, forgotten, id_cnt, ready, acked, early>>
  BY DEF ScanTimeout, RemovePub
<1>3. e # 0
  BY <1>1, <1>2, ListTypes DEF TypeOK
<1>4. /\ e \in Accepted /\ e \notin Gone /\ KindOf[e] = k
      /\ (p = 0 /\ Lists[k] = e) \/ (p \in Entries /\ p \notin Gone /\ next[p] = e)
  BY <1>1, <1>2, <1>3, CurrentFacts
<1>5. p \in Pointer /\ (p # 0 => KindOf[p] = "pub" /\ p \in Accepted)
  BY <1>1, <1>2 DEF Cursor, TypeOK
<1>6. k \in Kinds /\ k = "pub" /\ k # "req" /\ q \in {"freetail", "free", "freematop"} /\ by \in Pointer /\ by = 0
  BY <1>1, ListTypes
<1>7. /\ publish_list' = (IF k = "pub" THEN HeadWithout(publish_list, p, e) ELSE publish_list)
      /\ message_list' = (IF k = "req" THEN HeadWithout(message_list, p, e) ELSE message_list)
  BY <1>2
<1>8. loop.pc # "connected" /\ acked \subseteq Entries /\ early \subseteq Entries
  BY <1>1, <1>2 DEF TypeOK
<1> HIDE DEF e, p, k, q, by
<1>9. QED
  BY <1>2, <1>4, <1>5, <1>6, <1>7, <1>8, RemoveKeeps

\* An entry found on the list k, and the pointer to it.
LEMMA FoundFacts ==
    ASSUME TypeOK, Core, NEW k \in Kinds, NEW e \in ChainIn(next, Lists[k])
    PROVE  /\ e \in Accepted /\ e \in Entries /\ e \notin Gone /\ KindOf[e] = k /\ entry[e].kind = k
           /\ Told(e) = {} /\ Before(Lists[k], e) \in Pointer
           /\ \/ Before(Lists[k], e) = 0 /\ Lists[k] = e
              \/ /\ Before(Lists[k], e) \in Entries /\ Before(Lists[k], e) \notin Gone
                 /\ next[Before(Lists[k], e)] = e
<1>1. e \in Accepted /\ e \in Entries /\ e \notin Gone /\ KindOf[e] = k
  BY ListMembers DEF Accepted
<1>2. next \in [Entries -> Pointer] /\ Lists[k] \in Pointer
  BY ListTypes
<1>3. \/ Before(Lists[k], e) = 0 /\ Lists[k] = e
      \/ Before(Lists[k], e) \in ChainIn(next, Lists[k]) /\ next[Before(Lists[k], e)] = e
  BY <1>2, BeforeFacts
<1>4. \A x \in ChainIn(next, Lists[k]) : x \in Entries /\ x \notin Gone
  BY ListMembers DEF Accepted
<1>5. reports[e] = <<>>
  BY <1>1 DEF Gone
<1>6. Told(e) = {}
  BY <1>5 DEF Told
<1>7. QED
  BY <1>1, <1>3, <1>4, <1>6, ListTypes DEF KindOf

LEMMA PubackKeeps ==
    ASSUME IInv, NEW a \in Entries, Puback(a), UNCHANGED matop
    PROVE  Base'
<1> USE DEF connection, matop
<1>1. TypeOK /\ Core /\ Cursor /\ Packets /\ Heard
  BY DEF IInv, Base
<1> DEFINE S == {x \in Entries : Acknowledges(entry[a].msgid, x)}
           e == FirstOf(publish_list, S)
<1>2. /\ Running /\ loop.pc = "yield" /\ a \in Outstanding /\ acked' = acked \union {a}
      /\ early' = (IF a \in InHand THEN early \union {a} ELSE early)
      /\ UNCHANGED <<ctx, packet, unsent, epoch, entry, freed, at, dead, faults, forgotten, message_list, id_cnt, ready>>
      /\ IF e = 0
         THEN UNCHANGED <<reports, publish_list, next, expired, overlapped, loop>>
         ELSE RemovePub(e, Before(publish_list, e), a, "free")
  BY DEF Puback
<1>3. next \in [Entries -> Pointer] /\ publish_list \in Pointer /\ Lists["pub"] = publish_list /\ "pub" \in Kinds
  BY <1>1, ListTypes
<1>4. S \in SUBSET Entries /\ a \in S /\ \A x \in S : entry[x].msgid = entry[a].msgid
  BY DEF Acknowledges
<1>5. entry[a].kind = "pub" /\ KindOf[a] = "pub" /\ entry[a].msgid # 0 /\ entry[a].conn = epoch /\ Fixed(a)
  BY <1>2 DEF Outstanding, Fixed, KindOf
<1>6. /\ e = 0 => ChainIn(next, publish_list) \intersect S = {}
      /\ e # 0 => e \in ChainIn(next, publish_list) \intersect S
  BY <1>3, <1>4, FirstOfFacts
<1>7. acked \subseteq acked' /\ acked' \subseteq Entries /\ early \subseteq early' /\ early' \subseteq Entries
  BY <1>1, <1>2 DEF TypeOK
<1> HIDE DEF S, e
<1>8. CASE e = 0
  <2>1. UNCHANGED <<reports, publish_list, next, expired, overlapped, loop>>
    BY <1>2, <1>8
  <2>2. \A x \in acked' \ acked : Fixed(x) /\ KindOf[x] = "pub"
    BY <1>2, <1>5
  <2>3. TypeOK'
    BY <1>1, <1>2, <1>7, <2>1 DEF TypeOK
  <2>4. Cursor'
    <3>1. KindOf' = KindOf /\ Gone' = Gone
      BY <1>2, <2>1 DEF KindOf, Gone
    <3>2. Accepted' = Accepted
      BY <1>2, <3>1, AcceptedFacts
    <3>3. QED
      BY <1>1, <1>2, <2>1, <3>1, <3>2, CursorFrame
  <2>5. CrashCauses'
    BY <1>2 DEF CrashCauses, Running
  <2>6. faults <= faults'
    BY <1>1, <1>2, MqttServiceAssumption DEF TypeOK
  <2>7. QED
    BY <1>2, <1>7, <2>1, <2>2, <2>3, <2>4, <2>5, <2>6, QuietKeeps
<1>9. CASE e # 0
  <2> DEFINE p == Before(publish_list, e)
             k == "pub"
             q == "free"
             r == 0
  <2>1. RemovePub(e, p, a, "free")
    BY <1>2, <1>9
  <2>2. e \in ChainIn(next, Lists["pub"]) /\ e \in S
    BY <1>3, <1>6, <1>9
  <2>3. /\ e \in Accepted /\ e \in Entries /\ e \notin Gone /\ KindOf[e] = k /\ entry[e].kind = "pub"
        /\ Told(e) = {} /\ p \in Pointer
        /\ (p = 0 /\ Lists[k] = e) \/ (p \in Entries /\ p \notin Gone /\ next[p] = e)
    BY <1>1, <1>3, <2>2, FoundFacts
  <2>4. Fits(e, a)
    <3>1. Fixed(e)
      BY <1>4, <1>5, <2>2, <2>3 DEF Fixed
    <3>2. ASSUME a # e, entry[a].conn = entry[e].conn PROVE Missed(e)
      <4>1. e \in acked
        <5>1. SUFFICES ASSUME e \notin acked PROVE FALSE
          OBVIOUS
        <5>2. e \in Outstanding
          BY <1>4, <1>5, <2>2, <2>3, <3>2, <5>1 DEF Outstanding
        <5>3. QED
          BY <1>1, <1>2, <1>4, <2>2, <3>2, <5>2 DEF Packets
      <4>2. e \in early \/ \E f \in Entries : e \in Told(f)
        <5>1. e \in Reach /\ Silence
          BY <1>3, <2>2 DEF Reach, IInv
        <5>2. reports[e] = <<>>
          BY <2>3 DEF Gone
        <5>3. QED
          BY <4>1, <5>1, <5>2 DEF Silence, Silent
      <4>3. QED
        BY <2>3, <4>2 DEF Missed
    <3>3. QED
      BY <1>5, <2>3, <3>1, <3>2 DEF Fits
  <2>5. /\ reports' = [reports EXCEPT ![e] = Append(@, a)]
        /\ publish_list' = HeadWithout(publish_list, p, e)
        /\ next' = NextWithout(p, e) /\ expired' = expired \ {e} /\ overlapped' = overlapped \union Appending(k)
        /\ loop' = [pc |-> q, prev |-> p, victim |-> e]
    BY <2>1 DEF RemovePub
  <2>6. /\ k \in Kinds /\ k = "pub" /\ k # "req" /\ q \in {"freetail", "free", "freematop"} /\ q # "freetail"
        /\ a \in Pointer /\ loop.pc # "connected"
    BY <1>1, <1>2, ListTypes
  <2>7. /\ publish_list' = (IF k = "pub" THEN HeadWithout(publish_list, p, e) ELSE publish_list)
        /\ message_list' = (IF k = "req" THEN HeadWithout(message_list, p, e) ELSE message_list)
    BY <1>2, <2>5
  <2>8. \A x \in acked' \ acked : Fixed(x) /\ KindOf[x] = "pub"
    BY <1>2, <1>5
  <2> HIDE DEF p, k, q
  <2>9. UNCHANGED <<connection, entry, freed, at, dead, faults, forgotten, id_cnt, ready>> /\ Running
    BY <1>2
  <2>10. QED
    BY <1>7, <2>3, <2>4, <2>5, <2>6, <2>7, <2>8, <2>9, RemoveKeeps
<1>10. QED
  BY <1>8, <1>9

\* A request is taken from its list with what its callback is told.
LEMMA RemoveReqKeeps ==
    ASSUME IInv, Running, loop.pc # "connected", NEW e \in ChainIn(next, Lists["req"]),
           NEW by \in Pointer, by # 0 => Fits(e, by), NEW q \in {"free", "freematop"}, RemoveReq(e, by, q),
           UNCHANGED <<connection, publish_list, entry, freed, at, dead, faults, acked, early,
                       forgotten, id_cnt, ready>>
    PROVE  Base'
<1> USE DEF connection
<1>1. TypeOK /\ Core
  BY DEF IInv, Base
<1> DEFINE p == Before(message_list, e)
           k == "req"
           r == 0
<1>2. "req" \in Kinds /\ Lists["req"] = message_list
  BY <1>1, ListTypes
<1>3. /\ e \in Accepted /\ e \in Entries /\ e \notin Gone /\ KindOf[e] = k
      /\ p \in Pointer
      /\ (p = 0 /\ Lists[k] = e) \/ (p \in Entries /\ p \notin Gone /\ next[p] = e)
  BY <1>1, <1>2, FoundFacts
<1>4. /\ reports' = [reports EXCEPT ![e] = Append(@, by)]
      /\ message_list' = HeadWithout(message_list, p, e)
      /\ next' = NextWithout(p, e) /\ expired' = expired \ {e} /\ overlapped' = overlapped \union Appending(k)
      /\ loop' = [pc |-> q, prev |-> r, victim |-> e]
  BY DEF RemoveReq
<1>5. /\ k \in Kinds /\ k = "req" /\ k # "pub" /\ q \in {"freetail", "free", "freematop"} /\ q # "freetail"
      /\ r \in {0, p} /\ acked \subseteq Entries /\ early \subseteq Entries
  BY <1>1, <1>2 DEF TypeOK
<1>6. /\ publish_list' = (IF k = "pub" THEN HeadWithout(publish_list, p, e) ELSE publish_list)
      /\ message_list' = (IF k = "req" THEN HeadWithout(message_list, p, e) ELSE message_list)
  BY <1>4
<1> HIDE DEF p, k, r
<1>7. acked' \subseteq Entries /\ early' \subseteq Entries /\ \A x \in acked' \ acked : Fixed(x) /\ KindOf[x] = "pub"
  BY <1>5
<1>8. QED
  BY <1>3, <1>4, <1>5, <1>6, <1>7, RemoveKeeps

\* Two numbers that are cut down to the same one are the same or far apart.
LEMMA SameCut ==
    ASSUME NEW N \in Nat \ {0}, NEW x \in Nat, NEW y \in Nat, x % N = y % N, x # y
    PROVE  x >= y + N \/ y >= x + N
<1> DEFINE i == x \div N
           j == y \div N
           c == x % N
<1>1. i \in Int /\ j \in Int /\ c \in Int /\ x = N * i + c /\ y = N * j + c
  OBVIOUS
<1> HIDE DEF i, j, c
<1>2. i # j
  BY <1>1
<1>3. ASSUME NEW a \in Int, NEW b \in Int, a > b PROVE N * a >= N * b + N
  <2>1. N * (a - (b + 1)) >= 0
    BY <1>3
  <2>2. N * (a - (b + 1)) = N * a - N * b - N
    OBVIOUS
  <2>3. N * a \in Int /\ N * b \in Int
    OBVIOUS
  <2>4. QED
    BY <2>1, <2>2, <2>3
<1>4. CASE i > j
  <2>1. N * i >= N * j + N /\ N * i \in Int /\ N * j \in Int
    BY <1>1, <1>3, <1>4
  <2>2. QED
    BY <1>1, <2>1
<1>5. CASE j > i
  <2>1. N * j >= N * i + N /\ N * i \in Int /\ N * j \in Int
    BY <1>1, <1>3, <1>5
  <2>2. QED
    BY <1>1, <2>1
<1>6. QED
  BY <1>1, <1>2, <1>4, <1>5

LEMMA AnswerKeeps ==
    ASSUME IInv, NEW a \in Entries, Answer(a)
    PROVE  Base'
<1> USE DEF connection
<1>1. TypeOK /\ Core /\ Drawn /\ Counted
  BY DEF IInv, Base
<1> DEFINE S == {x \in Entries : entry[x].msgid = entry[a].msgid}
           e == FirstOf(message_list, S)
<1>2. /\ Running /\ loop.pc # "connected" /\ entry[a].kind = "req"
      /\ e # 0 /\ RemoveReq(e, a, "free")
      /\ UNCHANGED <<connection, publish_list, entry, freed, at, dead, faults, acked, early,
                     forgotten, id_cnt, ready>>
  BY DEF Answer, Answerable
<1>3. next \in [Entries -> Pointer] /\ message_list \in Pointer /\ Lists["req"] = message_list /\ "req" \in Kinds
  BY <1>1, ListTypes
<1>4. S \in SUBSET Entries /\ \A x \in S : entry[x].msgid = entry[a].msgid
  OBVIOUS
<1>5. e \in ChainIn(next, Lists["req"]) /\ e \in S
  BY <1>2, <1>3, <1>4, FirstOfFacts
<1> HIDE DEF S, e
<1>6. e \in Entries /\ KindOf[e] = "req" /\ entry[e].kind = "req" /\ KindOf[a] = "req"
  BY <1>1, <1>2, <1>3, <1>5, FoundFacts DEF KindOf
<1>7. Fits(e, a)
  <2>1. ASSUME a # e, entry[a].conn = entry[e].conn
        PROVE  {a, e} \intersect overlapped # {} \/ CameRound(a, e)
    <3>1. CASE entry[a].draw = entry[e].draw
      BY <1>1, <1>6, <2>1, <3>1 DEF Drawn
    <3>2. CASE entry[a].draw # entry[e].draw
      <4>1. entry[a].draw \in Nat /\ entry[e].draw \in Nat
        <5>1. entry[a].draw \in 0..MaxEntries /\ entry[e].draw \in 0..MaxEntries
          BY <1>1, <1>6 DEF TypeOK
        <5>2. QED
          BY <5>1
      <4>2. entry[a].draw % ReqIds = entry[e].draw % ReqIds
        BY <1>1, <1>4, <1>5, <1>6 DEF Counted
      <4>3. QED
        BY <3>2, <4>1, <4>2, ReqIdsAssumption, SameCut DEF CameRound
    <3>3. QED
      BY <3>1, <3>2
  <2>2. QED
    BY <1>6, <2>1 DEF Fits, Fixed
<1>8. a \in Pointer
  BY <1>1, ListTypes
<1>9. QED
  BY <1>2, <1>5, <1>7, <1>8, RemoveReqKeeps

LEMMA MatopTimeoutKeeps ==
    ASSUME IInv, MatopTimeout
    PROVE  Base'
<1> USE DEF connection
<1>1. TypeOK /\ Core
  BY DEF IInv, Base
<1> DEFINE e == FirstOf(message_list, expired)
           by == 0
<1>2. /\ Running /\ loop.pc # "connected" /\ e # 0 /\ RemoveReq(e, by, "freematop")
      /\ UNCHANGED <<connection, publish_list, entry, freed, at, dead, faults, acked, early,
                     forgotten, id_cnt, ready>>
  BY DEF MatopTimeout, OnTimeout
<1>3. next \in [Entries -> Pointer] /\ message_list \in Pointer /\ Lists["req"] = message_list
      /\ expired \in SUBSET Entries /\ by \in Pointer /\ by = 0
  BY <1>1, ListTypes DEF TypeOK
<1>4. e \in ChainIn(next, Lists["req"])
  BY <1>2, <1>3, FirstOfFacts
<1> HIDE DEF e, by
<1>5. QED
  BY <1>2, <1>3, <1>4, RemoveReqKeeps

-----------------------------------------------------------------------------
(* The connection comes and goes *)

\* A list is given up: its head is cleared, and what was on it may be given back.
LEMMA DropKeeps ==
    ASSUME IInv, TypeOK', Counted', Drawn', Running',
           NEW k \in Kinds, NEW D, D = {} \/ D = ChainIn(next, Lists[k]),
           Lists'[k] = 0, \A i \in Kinds : i # k => Lists'[i] = Lists[i],
           UNCHANGED <<entry, next, at, reports, acked, early, epoch>>,
           ctx'.connected => ctx.connected,
           overlapped \subseteq overlapped', forgotten \subseteq forgotten',
           freed' = freed \union D, \A e \in D : Stale(e)',
           ChainIn(next, Lists[k]) \subseteq Excused',
           \A t \in Threads : Appends(t) /\ KindOf[at[t].e] = k =>
               at[t].e \in Excused' /\ (D # {} => at[t].e \in overlapped'),
           loop'.pc \notin {"scan", "freetail", "free", "freematop"}
    PROVE  Base'
<1>1. /\ TypeOK /\ Core /\ Ranked /\ Cursor /\ Counted /\ Packets /\ Drawn /\ Heard
      /\ ReportedOnce /\ FreedReported /\ CrashCauses
  BY DEF IInv, Base
<1>2. KindOf' = KindOf /\ Gone' = Gone \union D
  BY DEF KindOf, Gone
<1>3. \A e \in Entries \ {} : KindOf[e] = "req" => KindOf'[e] = "req" /\ entry'[e].conn = entry[e].conn
  BY <1>2
<1>4. Excused \subseteq Excused' /\ \A e \in Entries : Stale(e) => Stale(e)'
  <2>1. Excused \ {} \subseteq Excused' /\ \A e \in Entries \ {} : Stale(e) => Stale(e)'
    BY <1>1, <1>3, ExcusedGrows
  <2>2. QED
    BY <2>1
<1>5. Core'
  BY <1>1, <1>2, <1>4, CoreDrop
<1>6. Ranked'
  BY <1>1 DEF Ranked
<1>7. Cursor'
  BY DEF Cursor
<1>8. Packets'
  BY <1>1, PacketsFrame
<1>9. Heard'
  <2>1. \A x : Fixed(x) => /\ Fixed(x)' /\ entry'[x].conn = entry[x].conn
                           /\ entry'[x].draw = entry[x].draw
                           /\ KindOf'[x] = "pub" <=> KindOf[x] = "pub"
    BY <1>2 DEF Fixed
  <2>2. QED
    BY <1>1, <2>1, HeardFrame
<1>10. ReportedOnce'
  BY <1>1 DEF ReportedOnce
<1>11. FreedReported'
  <2>1. freed \subseteq Entries /\ D \subseteq Entries
    <3>1. D \subseteq Entries
      BY <1>1, ListTypes, ChainClosed
    <3>2. QED
      BY <1>1, <3>1 DEF TypeOK
  <2>2. QED
    BY <1>1, <1>2, <1>4, <2>1, FreedFrame
<1>12. CrashCauses'
  BY DEF CrashCauses, Running
<1>13. QED
  BY <1>1, <1>5, <1>6, <1>7, <1>8, <1>9, <1>10, <1>11, <1>12 DEF IInv, Base

\* The loss of the connection and tuya_mqtt_stop: every request is given back.
LEMMA DisconnectKeeps ==
    ASSUME IInv, Disconnected, Lose(2) \/ \E n \in {0, 2}, destroy \in BOOLEAN : Stop(n, destroy)
    PROVE  Base'
<1> DEFINE k == "req"
           D == ChainIn(next, message_list)
<1>1. TypeOK /\ Core /\ Cursor /\ Counted /\ Drawn
  BY DEF IInv, Base
<1>2. /\ UNCHANGED <<unsent, publish_list, entry, next, at, reports, acked, early, epoch, expired, dead,
                     forgotten, id_cnt, ready>>
      /\ Running /\ loop.pc \in {"yield", "top"} /\ loop'.pc \in {"matop", "top"}
      /\ faults < MaxFaults /\ faults' = faults + 1
      /\ loop' = loop \/ loop' = [loop EXCEPT !.pc = "matop"]
      /\ message_list' = 0 /\ overlapped' = overlapped \union Appending("req")
  <2>1. CASE Lose(2)
    BY <1>1, <2>1 DEF Lose, Disconnected, TypeOK
  <2>2. CASE \E n \in {0, 2}, destroy \in BOOLEAN : Stop(n, destroy)
    BY <1>1, <2>2 DEF Stop, Disconnected, TypeOK
  <2>3. QED
    BY <2>1, <2>2
<1>3. /\ ctx' \in [client : BOOLEAN, connected : BOOLEAN, manual : BOOLEAN]
      /\ ~ctx'.connected
  <2>1. CASE Lose(2)
    BY <1>1, <2>1 DEF Lose, TypeOK
  <2>2. ASSUME NEW n \in {0, 2}, NEW destroy \in BOOLEAN, Stop(n, destroy)
        PROVE  ctx' \in [client : BOOLEAN, connected : BOOLEAN, manual : BOOLEAN] /\ ~ctx'.connected
    <3>1. ctx' = [client |-> ~destroy, connected |-> FALSE, manual |-> TRUE]
      BY <2>2 DEF Stop
    <3>2. QED
      BY <3>1
  <2>3. QED
    BY <2>1, <2>2
<1>4. freed' = freed \union D
  BY ChainState DEF Disconnected
<1>5. packet' \in 1..MaxPacketId
  <2>1. PacketsAfter(2) \in 1..MaxPacketId /\ \A n \in {0, 2} : PacketsAfter(1 + n) \in 1..MaxPacketId
    <3>1. \A n \in {0, 2} : 1 + n \in Nat
      OBVIOUS
    <3>2. QED
      BY <1>1, <3>1, PacketTypes
  <2>2. QED
    BY <2>1 DEF Lose, Stop
<1>6. D \subseteq Entries /\ Appending("req") \subseteq Entries
  <2>1. D \subseteq Entries
    BY <1>1, ListTypes, ChainClosed
  <2>2. Appending("req") \subseteq Entries
    BY <1>1 DEF Core, Hands, Appending
  <2>3. QED
    BY <2>1, <2>2
<1>7. TypeOK'
  <2>1. faults' \in 0..MaxFaults
    BY <1>1, <1>2, MqttServiceAssumption DEF TypeOK
  <2>2. /\ freed' \subseteq Entries /\ overlapped' \subseteq Entries
        /\ message_list' \in Pointer
        /\ loop' \in [pc : {"top", "connected", "scan", "freetail", "yield", "free", "matop", "freematop"},
                      prev : Pointer, victim : Pointer]
    BY <1>1, <1>2, <1>4, <1>6, ListTypes DEF TypeOK
  <2> HIDE DEF D
  <2>3. QED
    BY <1>1, <1>2, <1>3, <1>5, <2>1, <2>2 DEF TypeOK
<1>8. KindOf' = KindOf /\ Generation' = Generation /\ Fresh' = Fresh
  BY <1>2 DEF KindOf, Generation, Fresh
<1>9. Counted'
  <2>1. epoch <= faults'
    <3>1. epoch \in Nat /\ faults \in Nat /\ (epoch <= faults \/ epoch <= faults + 1)
      BY <1>1, MqttServiceAssumption DEF TypeOK, Counted
    <3>2. QED
      BY <1>2, <3>1
  <2>2. faults' + 0 = faults'
    BY <1>1, <1>2, MqttServiceAssumption DEF TypeOK
  <2>3. epoch' <= faults' + (IF ctx'.connected THEN 1 ELSE 0)
    BY <1>2, <1>3, <2>1, <2>2
  <2>4. QED
    BY <1>1, <1>2, <1>3, <1>8, <2>3 DEF Counted
<1>10. Drawn'
  BY <1>1, <1>2, <1>8, DrawnFrame
<1>11. Running'
  BY <1>2 DEF Running
<1>12. k \in Kinds /\ Lists[k] = message_list /\ Lists'[k] = 0 /\ \A i \in Kinds : i # k => Lists'[i] = Lists[i]
  BY <1>2 DEF Kinds, Lists
<1>13. \A e \in Entries : KindOf[e] = k => Stale(e)' /\ e \in Excused'
  BY <1>2, <1>3 DEF Stale, Excused, KindOf
<1>14. \A e \in D : e \in Entries /\ KindOf[e] = k
  <2> HIDE DEF k
  <2>1. QED
    BY <1>1, <1>6, <1>12, ListMembers
<1>15. ASSUME NEW t \in Threads, Appends(t), KindOf[at[t].e] = k
       PROVE  at[t].e \in Excused' /\ at[t].e \in overlapped'
  <2>1. at[t].e \in Entries
    BY <1>1, <1>15 DEF Core, Hands, Appends
  <2>2. at[t].e \in Appending("req")
    BY <1>15, <2>1 DEF Appending, Appends, KindOf
  <2>3. QED
    BY <1>2, <1>13, <1>15, <2>1, <2>2
<1> HIDE DEF k, D
<1>16. D = ChainIn(next, Lists[k])
  BY <1>12 DEF D
<1>17. D \subseteq Excused' /\ \A e \in D : Stale(e)'
  BY <1>13, <1>14
<1>18. QED
  BY <1>2, <1>3, <1>4, <1>7, <1>9, <1>10, <1>11, <1>12, <1>15, <1>16, <1>17, DropKeeps

\* matop_serice_init: the list of the requests is forgotten, whose connections are over.
LEMMA MatopInitKeeps ==
    ASSUME IInv, MatopInit
    PROVE  Base'
<1> DEFINE k == "req"
           D == {}
<1> USE DEF lists, history
<1>1. TypeOK /\ Core /\ Cursor /\ Counted /\ Drawn
  BY DEF IInv, Base
<1>2. /\ UNCHANGED <<ctx, unsent, epoch, publish_list, entry, next, freed, expired, at, dead, acked, early,
                     reports, overlapped, forgotten>>
      /\ Running /\ loop.pc = "connected" /\ loop' = [loop EXCEPT !.pc = "matop"]
      /\ message_list' = 0 /\ id_cnt' = 0 /\ ready' \in BOOLEAN
      /\ faults' = faults \/ (faults < MaxFaults /\ faults' = faults + 1)
  BY DEF MatopInit
<1>3. packet' \in 1..MaxPacketId
  <2>1. PacketsAfter(2) \in 1..MaxPacketId /\ PacketsAfter(1) \in 1..MaxPacketId
    BY <1>1, PacketTypes
  <2>2. QED
    BY <2>1 DEF MatopInit
<1>4. faults' \in 0..MaxFaults /\ faults <= faults' /\ 0 \in 0..MaxEntries
  BY <1>1, <1>2, MqttServiceAssumption DEF TypeOK
<1>5. /\ message_list' \in Pointer /\ loop'.pc = "matop"
      /\ loop' \in [pc : {"top", "connected", "scan", "freetail", "yield", "free", "matop", "freematop"},
                    prev : Pointer, victim : Pointer]
  BY <1>1, <1>2, ListTypes DEF TypeOK
<1>6. TypeOK'
  BY <1>1, <1>2, <1>3, <1>4, <1>5 DEF TypeOK
<1>7. KindOf' = KindOf /\ Fresh' = Fresh
  BY <1>2 DEF KindOf, Fresh
<1>8. Generation = epoch - 1 /\ Generation' = epoch /\ epoch \in Nat
  BY <1>1, <1>2, <1>5, MqttServiceAssumption DEF Generation, TypeOK
<1>9. \A e \in Entries : entry[e].conn \in Nat
  BY <1>1, MqttServiceAssumption DEF TypeOK
<1>10. \A e \in Entries : KindOf[e] = "req" => entry[e].conn # epoch
  BY <1>1, <1>8, <1>9 DEF Counted
<1>11. Counted'
  <2> DEFINE c == IF ctx.connected THEN 1 ELSE 0
  <2>1. epoch' <= faults' + c
    <3>1. epoch <= faults + c /\ c \in Nat /\ faults \in Nat /\ faults' \in Nat
      BY <1>1, <1>4, MqttServiceAssumption DEF Counted, TypeOK
    <3> HIDE DEF c
    <3>2. QED
      BY <1>2, <1>4, <1>8, <3>1
  <2>2. \A e \in Entries : entry[e].conn <= epoch
    BY <1>1 DEF Counted
  <2>3. \A f \in Fresh : 0 < f
    BY DEF Fresh, Entries
  <2>4. QED
    BY <1>1, <1>2, <1>5, <1>7, <1>8, <2>1, <2>2, <2>3 DEF Counted
<1>12. Drawn'
  <2>1. \A x \in Entries : ~(KindOf'[x] = "req" /\ entry'[x].conn = Generation')
    BY <1>2, <1>7, <1>8, <1>10
  <2>2. QED
    BY <1>1, <1>2, <1>7, <2>1 DEF Drawn
<1>13. Running'
  BY <1>2 DEF Running
<1>14. k \in Kinds /\ Lists[k] = message_list /\ Lists'[k] = 0 /\ \A i \in Kinds : i # k => Lists'[i] = Lists[i]
  BY <1>2 DEF Kinds, Lists
<1>15. \A e \in Entries : KindOf[e] = k => e \in Excused'
  BY <1>2, <1>10 DEF Stale, Excused, KindOf
<1>16. ChainIn(next, Lists[k]) \subseteq Excused'
  <2> HIDE DEF k
  <2>1. \A e \in ChainIn(next, Lists[k]) : e \in Entries /\ KindOf[e] = k
    BY <1>1, <1>14, ListMembers DEF Accepted
  <2>2. QED
    BY <1>15, <2>1
<1>17. \A t \in Threads : Appends(t) /\ KindOf[at[t].e] = k =>
           at[t].e \in Excused' /\ (D # {} => at[t].e \in overlapped')
  BY <1>1, <1>15 DEF Core, Hands, Appends
<1>18. D = {} /\ freed' = freed \union D /\ \A e \in D : Stale(e)'
  BY <1>2
<1> HIDE DEF k, D
<1>19. QED
  BY <1>2, <1>5, <1>6, <1>11, <1>12, <1>13, <1>14, <1>16, <1>17, <1>18, DropKeeps

\* tuya_mqtt_init: the list of the publications is forgotten.
LEMMA ReInitKeeps ==
    ASSUME IInv, ReInit, UNCHANGED matop
    PROVE  Base'
<1> DEFINE k == "pub"
           D == {}
<1> USE DEF matop
<1>1. TypeOK /\ Core /\ Cursor /\ Counted /\ Drawn
  BY DEF IInv, Base
<1>2. /\ UNCHANGED <<epoch, entry, next, freed, expired, loop, at, dead, faults, acked, early,
                     reports, overlapped, message_list, id_cnt, ready>>
      /\ Running /\ loop.pc = "top" /\ ~ctx.client
      /\ ctx' = [client |-> TRUE, connected |-> FALSE, manual |-> TRUE]
      /\ publish_list' = 0 /\ packet' = 1 /\ unsent' = {}
      /\ forgotten' = forgotten \union ChainIn(next, publish_list) \union Appending("pub")
  BY ChainState DEF ReInit
<1>3. ChainIn(next, publish_list) \subseteq Entries /\ Appending("pub") \subseteq Entries
  <2>1. ChainIn(next, publish_list) \subseteq Entries
    BY <1>1, ListTypes, ChainClosed
  <2>2. Appending("pub") \subseteq Entries
    BY <1>1 DEF Core, Hands, Appending
  <2>3. QED
    BY <2>1, <2>2
<1>4. TypeOK'
  <2>1. /\ packet' \in 1..MaxPacketId /\ publish_list' \in Pointer /\ forgotten' \subseteq Entries
        /\ ctx' \in [client : BOOLEAN, connected : BOOLEAN, manual : BOOLEAN]
    BY <1>1, <1>2, <1>3, ListTypes, MqttServiceAssumption DEF TypeOK
  <2>2. QED
    BY <1>1, <1>2, <2>1 DEF TypeOK
<1>5. KindOf' = KindOf /\ Fresh' = Fresh /\ Generation' = Generation
  BY <1>2 DEF KindOf, Fresh, Generation
<1>6. ~ctx.connected /\ ~ctx'.connected /\ ctx'.client
  BY <1>1, <1>2 DEF Counted
<1>7. Counted'
  BY <1>1, <1>2, <1>5, <1>6 DEF Counted
<1>8. Drawn'
  BY <1>1, <1>2, <1>5, DrawnFrame
<1>9. Running'
  BY <1>2 DEF Running
<1>10. k \in Kinds /\ Lists[k] = publish_list /\ Lists'[k] = 0 /\ \A i \in Kinds : i # k => Lists'[i] = Lists[i]
  BY <1>2 DEF Kinds, Lists
<1>11. ChainIn(next, Lists[k]) \subseteq Excused'
  BY <1>2, <1>3, <1>10 DEF Excused
<1>12. \A t \in Threads : Appends(t) /\ KindOf[at[t].e] = k =>
           at[t].e \in Excused' /\ (D # {} => at[t].e \in overlapped')
  <2>1. ASSUME NEW t \in Threads, Appends(t), KindOf[at[t].e] = k PROVE at[t].e \in Excused'
    <3>1. at[t].e \in Entries
      BY <1>1, <2>1 DEF Core, Hands, Appends
    <3>2. at[t].e \in Appending("pub")
      BY <2>1, <3>1 DEF Appending, Appends, KindOf
    <3>3. QED
      BY <1>2, <3>1, <3>2 DEF Excused
  <2>2. QED
    BY <2>1
<1>13. /\ D = {} /\ freed' = freed \union D /\ (\A e \in D : Stale(e)')
       /\ loop'.pc = "top" /\ forgotten \subseteq forgotten'
  BY <1>2
<1> HIDE DEF k, D
<1>14. QED
  BY <1>2, <1>4, <1>6, <1>7, <1>8, <1>9, <1>10, <1>11, <1>12, <1>13, DropKeeps

\* A connection begins: whatever is told of the requests of the last one, it is excused.
LEMMA ConnectedKeeps ==
    ASSUME IInv, Connected
    PROVE  Base'
<1> USE DEF lists, history, matop
<1>1. /\ TypeOK /\ Core /\ Ranked /\ Cursor /\ Counted /\ Packets /\ Drawn /\ Heard
      /\ ReportedOnce /\ FreedReported /\ CrashCauses
  BY DEF IInv, Base
<1>2. /\ UNCHANGED <<publish_list, message_list, entry, next, freed, expired, at, dead, faults, acked,
                     early, reports, overlapped, forgotten, id_cnt, ready>>
      /\ Running /\ loop.pc = "top" /\ ctx.client /\ ~ctx.connected
      /\ loop' = [loop EXCEPT !.pc = "connected"]
      /\ ctx' = [ctx EXCEPT !.connected = TRUE, !.manual = FALSE]
      /\ epoch' = epoch + 1 /\ packet' = PacketsAfter(1) /\ unsent' = {}
  BY DEF Connected, ConnectOk
<1>3. /\ ctx' \in [client : BOOLEAN, connected : BOOLEAN, manual : BOOLEAN]
      /\ ctx'.client /\ ctx'.connected
      /\ loop' \in [pc : {"top", "connected", "scan", "freetail", "yield", "free", "matop", "freematop"},
                    prev : Pointer, victim : Pointer]
      /\ loop'.pc = "connected"
  BY <1>1, <1>2 DEF TypeOK
<1>4. epoch \in Nat /\ faults \in Nat /\ epoch <= faults /\ faults <= MaxFaults
  <2>1. epoch \in Nat /\ faults \in Nat /\ faults <= MaxFaults /\ epoch <= faults + 0
    BY <1>1, <1>2, MqttServiceAssumption DEF TypeOK, Counted
  <2>2. QED
    BY <2>1
<1>5. TypeOK'
  <2>1. packet' \in 1..MaxPacketId
    BY <1>1, <1>2, PacketTypes
  <2>2. epoch' \in 0..MaxFaults + 1
    BY <1>2, <1>4, MqttServiceAssumption
  <2>3. QED
    BY <1>1, <1>2, <1>3, <2>1, <2>2 DEF TypeOK
<1>6. KindOf' = KindOf /\ Gone' = Gone /\ Lists' = Lists /\ Fresh' = Fresh
  BY <1>2 DEF KindOf, Gone, Lists, Fresh
<1>7. Generation' = Generation /\ Generation = epoch
  BY <1>2, <1>3, <1>4 DEF Generation
<1>8. Excused \subseteq Excused' /\ \A e \in Entries : Stale(e) => Stale(e)'
  <2>1. \A e \in Entries \ {} : KindOf[e] = "req" => KindOf'[e] = "req" /\ entry'[e].conn = entry[e].conn
    BY <1>2, <1>6
  <2>2. Excused \ {} \subseteq Excused' /\ \A e \in Entries \ {} : Stale(e) => Stale(e)'
    BY <1>1, <1>2, <2>1, ExcusedGrows
  <2>3. QED
    BY <2>2
<1>9. Core'
  BY <1>1, <1>2, <1>6, <1>8, CoreSame
<1>10. Ranked'
  BY <1>1, <1>2 DEF Ranked
<1>11. Cursor'
  BY <1>3 DEF Cursor
<1>12. \A e \in Entries : entry[e].conn \in Nat /\ entry[e].conn <= epoch
  BY <1>1, MqttServiceAssumption DEF TypeOK, Counted
<1>13. Counted'
  <2>1. epoch' <= faults' + 1 /\ epoch' > 0 /\ \A e \in Entries : entry[e].conn <= epoch'
    BY <1>2, <1>4, <1>12
  <2>2. epoch' <= faults' + (IF ctx'.connected THEN 1 ELSE 0)
    BY <1>3, <2>1
  <2>3. QED
    BY <1>1, <1>2, <1>3, <1>6, <1>7, <2>1, <2>2 DEF Counted
<1>14. Packets'
  <2>1. Outstanding' = {}
    BY <1>2, <1>4, <1>12 DEF Outstanding
  <2>2. \A t \in Threads : IsPub(t)' <=> IsPub(t)
    BY <1>2 DEF IsPub
  <2>3. QED
    BY <1>1, <1>2, <2>1, <2>2 DEF Packets
<1>15. Drawn'
  BY <1>1, <1>2, <1>6, <1>7, DrawnFrame
<1>16. Heard'
  <2>1. \A x : Fixed(x) => /\ Fixed(x)' /\ entry'[x].conn = entry[x].conn
                           /\ entry'[x].draw = entry[x].draw
                           /\ KindOf'[x] = "pub" <=> KindOf[x] = "pub"
    BY <1>2, <1>6 DEF Fixed
  <2>2. QED
    BY <1>1, <1>2, <2>1, HeardFrame
<1>17. ReportedOnce'
  BY <1>1, <1>2 DEF ReportedOnce
<1>18. FreedReported'
  <2>1. freed \subseteq Entries
    BY <1>1 DEF TypeOK
  <2>2. QED
    BY <1>1, <1>2, <1>6, <1>8, <2>1, FreedFrame
<1>19. CrashCauses'
  BY <1>2 DEF CrashCauses, Running
<1>20. QED
  BY <1>5, <1>9, <1>10, <1>11, <1>13, <1>14, <1>15, <1>16, <1>17, <1>18, <1>19 DEF IInv, Base

-----------------------------------------------------------------------------
(* The whole *)

LEMMA InitHolds == InitMatop => IInv
<1> SUFFICES ASSUME InitMatop PROVE IInv
  OBVIOUS
<1>1. /\ ctx = [client |-> TRUE, connected |-> FALSE, manual |-> TRUE]
      /\ publish_list = 0 /\ message_list = 0 /\ id_cnt = 0 /\ ready = FALSE
      /\ entry = [e \in Entries |-> NoEntry] /\ next = [e \in Entries |-> 0]
      /\ freed = {} /\ expired = {} /\ packet = 1 /\ unsent = {} /\ loop = Top /\ at = [t \in Threads |-> Idle]
      /\ dead = "no" /\ faults = 0 /\ epoch = 0
      /\ acked = {} /\ early = {} /\ overlapped = {} /\ forgotten = {}
      /\ reports = [e \in Entries |-> <<>>]
  BY DEF InitMatop, Init
<1>2. 0 \in Pointer /\ 0 \in 0..ReqIds + MaxPacketId /\ 0 \in 0..MaxFaults + 1 /\ 0 \in 0..MaxFaults
      /\ 0 \in 0..MaxEntries /\ 1 \in 1..MaxPacketId
  BY MqttServiceAssumption, ReqIdsAssumption DEF Pointer
<1>3. TypeOK
  <2>1. reports \in [Entries -> Seq(Pointer)]
    BY <1>1
  <2>2. /\ ctx \in [client : BOOLEAN, connected : BOOLEAN, manual : BOOLEAN]
        /\ entry \in [Entries -> [kind : {"none", "plain", "pub", "req", "refused"},
                                  msgid : 0..ReqIds + MaxPacketId, draw : 0..MaxEntries, conn : 0..MaxFaults + 1]]
        /\ next \in [Entries -> Pointer]
    BY <1>1, <1>2 DEF NoEntry
  <2>3. /\ loop \in [pc : {"top", "connected", "scan", "freetail", "yield", "free", "matop", "freematop"},
                     prev : Pointer, victim : Pointer]
        /\ at \in [Threads -> [pc : {"idle", "id", "send", "head", "first", "walk", "link"},
                               e : Pointer, last : Pointer]]
    BY <1>1, <1>2 DEF Top, Idle
  <2>4. QED
    BY <1>1, <1>2, <2>1, <2>2, <2>3 DEF TypeOK
<1>4. /\ \A t \in Threads : at[t].pc = "idle"
      /\ \A e \in Entries : entry[e] = NoEntry /\ KindOf[e] = "none" /\ next[e] = 0 /\ reports[e] = <<>>
      /\ loop.pc = "top" /\ ~ctx.connected
  BY <1>1 DEF Idle, KindOf, NoEntry, Top
<1>5. Gone = {} /\ Accepted = {} /\ (\A k \in Kinds : Lists[k] = 0) /\ \A t \in Threads : ~Appends(t)
  <2>1. Accepted = {}
    BY <1>4 DEF Accepted, KindOf
  <2>2. QED
    BY <1>1, <1>4, <2>1 DEF Gone, Lists, Kinds, Appends
<1>6. Core
  BY <1>4, <1>5 DEF Core, Hands, Shape, Alive, Marked, CutOff, OnTheWay, Kept
<1>7. Ranked
  <2>1. [x \in Entries |-> 0] \in [Entries -> Nat]
    OBVIOUS
  <2>2. QED
    BY <1>4, <2>1 DEF Ranked
<1>8. Cursor
  BY <1>4 DEF Cursor
<1>9. Counted
  <2>1. Generation = 0
    BY <1>1, <1>4 DEF Generation
  <2>2. \A e \in Entries : 0 < e /\ entry[e].conn = 0
    BY <1>4 DEF NoEntry, Entries
  <2>3. Fresh = Entries
    BY <1>4 DEF Fresh, KindOf
  <2>4. QED
    BY <1>1, <1>4, <2>1, <2>2, <2>3 DEF Counted
<1>10. Packets /\ Drawn
  <2>1. Outstanding = {}
    BY <1>4 DEF Outstanding, NoEntry
  <2>2. QED
    BY <1>4, <2>1 DEF Packets, Drawn
<1>11. Heard /\ ReportedOnce
  <2>1. \A e \in Entries : Len(reports[e]) = 0
    BY <1>4
  <2>2. \A e \in Entries : Told(e) = {}
    BY <2>1 DEF Told
  <2>3. QED
    BY <1>1, <2>1, <2>2 DEF Heard, AnswersFit, ReportedOnce
<1>12. FreedReported /\ CrashCauses
  BY <1>1 DEF FreedReported, CrashCauses
<1>13. Silence
  BY <1>1 DEF Silence, Silent
<1>14. QED
  BY <1>3, <1>6, <1>7, <1>8, <1>9, <1>10, <1>11, <1>12, <1>13 DEF IInv, Base

\* tuya_mqtt_destory: only the client goes.
LEMMA DestroyKeeps ==
    ASSUME IInv, Destroy, UNCHANGED matop
    PROVE  Base'
<1> USE DEF lists, history, matop
<1>1. TypeOK /\ Core /\ Cursor
  BY DEF IInv, Base
<1>2. /\ UNCHANGED <<publish_list, message_list, entry, next, at, epoch, id_cnt, reports, overlapped, forgotten>>
      /\ UNCHANGED <<packet, unsent, freed, expired, loop, dead, acked, early, ready>>
      /\ Running /\ ~ctx.connected /\ ctx' = [ctx EXCEPT !.client = FALSE]
      /\ faults < MaxFaults /\ faults' = faults + 1
  BY DEF Destroy
<1>3. /\ ctx' \in [client : BOOLEAN, connected : BOOLEAN, manual : BOOLEAN]
      /\ ctx'.connected = ctx.connected
  BY <1>1, <1>2 DEF TypeOK
<1>4. faults' \in 0..MaxFaults /\ faults <= faults'
  BY <1>1, <1>2, MqttServiceAssumption DEF TypeOK
<1>5. TypeOK'
  BY <1>1, <1>2, <1>3, <1>4 DEF TypeOK
<1>6. Cursor'
  <2>1. KindOf' = KindOf /\ Gone' = Gone
    BY <1>2 DEF KindOf, Gone
  <2>2. Accepted' = Accepted
    BY <1>2, <2>1, AcceptedFacts
  <2>3. QED
    BY <1>1, <1>2, <2>1, <2>2, CursorFrame
<1>7. CrashCauses'
  BY <1>2 DEF CrashCauses, Running
<1>8. QED
  BY <1>2, <1>3, <1>4, <1>5, <1>6, <1>7, QuietKeeps

LEMMA StutterKeeps ==
    ASSUME IInv, UNCHANGED allvars
    PROVE  Base'
<1> USE DEF allvars, vars, connection, lists, history, matop
<1>1. TypeOK /\ Core /\ Cursor /\ CrashCauses
  BY DEF IInv, Base
<1>2. /\ UNCHANGED <<publish_list, message_list, entry, next, at, epoch, id_cnt, reports, overlapped, forgotten>>
      /\ UNCHANGED <<ctx, packet, unsent, freed, expired, loop, dead, faults, acked, early, ready>>
  OBVIOUS
<1>3. TypeOK'
  BY <1>1, <1>2 DEF TypeOK
<1>4. Cursor'
  <2>1. KindOf' = KindOf /\ Gone' = Gone
    BY <1>2 DEF KindOf, Gone
  <2>2. Accepted' = Accepted
    BY <1>2, <2>1, AcceptedFacts
  <2>3. QED
    BY <1>1, <1>2, <2>1, <2>2, CursorFrame
<1>5. CrashCauses'
  BY <1>1, <1>2 DEF CrashCauses
<1>6. faults <= faults'
  BY <1>1, <1>2, MqttServiceAssumption DEF TypeOK
<1>7. QED
  BY <1>2, <1>3, <1>4, <1>5, <1>6, QuietKeeps

LEMMA ThreadNextKeeps ==
    ASSUME IInv, NEW t \in Threads, ThreadNext(t)
    PROVE  Base'
<1>1. TypeOK
  BY DEF IInv, Base
<1>2. /\ "pub" \in Kinds /\ "req" \in Kinds /\ Lists["pub"] = publish_list /\ Lists["req"] = message_list
  BY <1>1, ListTypes
<1>3. CASE PublisherStep(t) /\ UNCHANGED matop
  <2>1. ASSUME NEW how \in {"plain", "sync", "async"}, PublishBegin(t, how) PROVE Base'
    BY <1>3, <2>1, PublishBeginKeeps
  <2>2. CASE PublishSend(t)
    BY <1>3, <2>2, PublishSendKeeps
  <2>3. CASE PublishPlain(t)
    BY <1>3, <2>3, PublishPlainKeeps
  <2>4. CASE PublishSendNull(t)
    <3>1. Running
      BY <2>4 DEF PublishSendNull
    <3>2. QED
      BY <1>3, <2>4, <3>1, CrashKeeps
  <2>5. CASE PublishRead(t)
    <3> DEFINE k == "pub"
    <3>1. k \in Kinds /\ entry[at[t].e].kind = k /\ AppendRead(t, Lists[k])
      BY <1>2, <2>5 DEF PublishRead, IsPub
    <3> HIDE DEF k
    <3>2. QED
      BY <1>3, <3>1, ReadKeeps
  <2>6. CASE PublishFirst(t)
    <3> DEFINE k == "pub"
    <3>1. /\ k \in Kinds /\ entry[at[t].e].kind = k /\ Running /\ at[t].pc = "first"
          /\ at' = [at EXCEPT ![t] = Idle]
          /\ publish_list' = (IF k = "pub" THEN at[t].e ELSE publish_list)
          /\ message_list' = (IF k = "req" THEN at[t].e ELSE message_list)
          /\ UNCHANGED <<connection, entry, next, freed, expired, loop, dead, faults, history, id_cnt, ready>>
      BY <1>2, <1>3, <2>6 DEF PublishFirst, IsPub, matop
    <3> HIDE DEF k
    <3>2. QED
      BY <3>1, FirstKeeps
  <2>7. CASE AppendWalk(t)
    BY <1>3, <2>7, WalkKeeps
  <2>8. CASE AppendLink(t)
    BY <1>3, <2>8, LinkKeeps
  <2>9. QED
    BY <1>3, <2>1, <2>2, <2>3, <2>4, <2>5, <2>6, <2>7, <2>8 DEF PublisherStep
<1>4. CASE RequestBegin(t)
  BY <1>4, RequestBeginKeeps
<1>5. CASE RequestId(t)
  BY <1>5, RequestIdKeeps
<1>6. CASE RequestSend(t)
  BY <1>6, RequestSendKeeps
<1>7. CASE RequestRefused(t)
  BY <1>7, RequestRefusedKeeps
<1>8. CASE RequestRead(t)
  <2> DEFINE k == "req"
  <2>1. k \in Kinds /\ entry[at[t].e].kind = k /\ AppendRead(t, Lists[k]) /\ UNCHANGED matop
    BY <1>2, <1>8 DEF RequestRead, IsReq
  <2> HIDE DEF k
  <2>2. QED
    BY <2>1, ReadKeeps
<1>9. CASE RequestFirst(t)
  <2> DEFINE k == "req"
  <2>1. /\ k \in Kinds /\ entry[at[t].e].kind = k /\ Running /\ at[t].pc = "first"
        /\ at' = [at EXCEPT ![t] = Idle]
        /\ publish_list' = (IF k = "pub" THEN at[t].e ELSE publish_list)
        /\ message_list' = (IF k = "req" THEN at[t].e ELSE message_list)
        /\ UNCHANGED <<connection, entry, next, freed, expired, loop, dead, faults, history, id_cnt, ready>>
    BY <1>2, <1>9 DEF RequestFirst, IsReq, lists
  <2> HIDE DEF k
  <2>2. QED
    BY <2>1, FirstKeeps
<1>10. QED
  BY <1>3, <1>4, <1>5, <1>6, <1>7, <1>8, <1>9 DEF ThreadNext

LEMMA LoopNextKeeps ==
    ASSUME IInv, LoopNext
    PROVE  Base'
<1>1. CASE LoopStep /\ UNCHANGED matop
  <2>1. CASE StartFails \/ ConnectFails \/ LoopBegin \/ ScanEnd \/ ScanPass \/ YieldEnd
    BY <1>1, <2>1, LoopKeeps
  <2>2. CASE ScanTimeout
    BY <1>1, <2>2, ScanTimeoutKeeps
  <2>3. CASE FreeTimeout \/ FreeAnswered
    BY <1>1, <2>3, FreeKeeps
  <2>4. CASE ScanSend
    BY <1>1, <2>4, ScanSendKeeps
  <2>5. ASSUME NEW e \in Entries, Puback(e) PROVE Base'
    BY <1>1, <2>5, PubackKeeps
  <2>6. QED
    BY <1>1, <2>1, <2>2, <2>3, <2>4, <2>5 DEF LoopStep
<1>2. ASSUME NEW e \in Entries, Answer(e) PROVE Base'
  BY <1>2, AnswerKeeps
<1>3. CASE MatopInit
  BY <1>3, MatopInitKeeps
<1>4. CASE MatopTimeout
  BY <1>4, MatopTimeoutKeeps
<1>5. CASE FreeMatop
  <2>1. UNCHANGED matop
    BY <1>5 DEF FreeMatop
  <2>2. QED
    BY <1>5, <2>1, FreeKeeps
<1>6. CASE MatopQuiet
  <2>1. UNCHANGED matop
    BY <1>6 DEF MatopQuiet
  <2>2. QED
    BY <1>6, <2>1, LoopKeeps
<1>7. QED
  BY <1>1, <1>2, <1>3, <1>4, <1>5, <1>6 DEF LoopNext

\* Every step of the threads, of the loop, of the connection and of the clock keeps the
\* first part of the invariant.
LEMMA BaseKeeps ==
    ASSUME IInv, [Next]_allvars
    PROVE  Base'
<1>1. ASSUME NEW t \in Threads, ThreadNext(t) PROVE Base'
  BY <1>1, ThreadNextKeeps
<1>2. CASE LoopNext
  BY <1>2, LoopNextKeeps
<1>3. CASE Connected
  BY <1>3, ConnectedKeeps
<1>4. CASE LoseConnection \/ StopService
  <2>1. Disconnected /\ (Lose(2) \/ \E n \in {0, 2}, destroy \in BOOLEAN : Stop(n, destroy))
    BY <1>4 DEF LoseConnection, StopService
  <2>2. QED
    BY <2>1, DisconnectKeeps
<1>5. CASE (Destroy \/ ReInit) /\ UNCHANGED matop
  BY <1>5, DestroyKeeps, ReInitKeeps
<1>6. ASSUME NEW e \in Entries, Expire(e), UNCHANGED matop PROVE Base'
  BY <1>6, ExpireKeeps
<1>7. CASE UNCHANGED allvars
  BY <1>7, StutterKeeps
<1>8. QED
  BY <1>1, <1>2, <1>3, <1>4, <1>5, <1>6, <1>7 DEF Next

-----------------------------------------------------------------------------
(* What is lost does not come back *)

\* Whatever the loop can come to leads on to what it can come to.
LEMMA ReachClosed ==
    ASSUME TypeOK, Core, Cursor, NEW R, R = Reach \union Fresh
    PROVE  /\ R \subseteq Entries /\ InHand \subseteq R
           /\ publish_list # 0 => publish_list \in R
           /\ loop.pc \in {"scan", "freetail"} /\ Current # 0 => Current \in R
           /\ \A x \in R : next[x] # 0 => next[x] \in R
<1>1. next \in [Entries -> Pointer] /\ publish_list \in Pointer
  BY ListTypes DEF TypeOK
<1>2. InHand \subseteq Entries /\ \A x \in InHand \union Fresh : x \notin Accepted
  BY InHandFacts DEF InHand, Accepted, Fresh
<1>3. \A x \in InHand \union Fresh : x \in Entries /\ next[x] = 0
  BY <1>2 DEF Core, Shape, Fresh
<1>4. loop.pc \in {"scan", "freetail"} => Current \in Pointer
  BY <1>1, CurrentFacts, ListTypes
<1>5. /\ ChainIn(next, publish_list) \subseteq Entries
      /\ Closed(next, publish_list, ChainIn(next, publish_list))
  BY <1>1, ChainClosed
<1>6. loop.pc \in {"scan", "freetail"} =>
        ChainIn(next, Current) \subseteq Entries /\ Closed(next, Current, ChainIn(next, Current))
  BY <1>1, <1>4, ChainClosed
<1>7. CASE loop.pc \in {"scan", "freetail"}
  <2>1. R = ChainIn(next, publish_list) \union ChainIn(next, Current) \union InHand \union Fresh
    BY <1>7 DEF Reach
  <2>2. QED
    BY <1>3, <1>5, <1>6, <1>7, <2>1 DEF Closed
<1>8. CASE loop.pc \notin {"scan", "freetail"}
  <2>1. R = ChainIn(next, publish_list) \union InHand \union Fresh
    BY <1>8 DEF Reach
  <2>2. QED
    BY <1>3, <1>5, <1>8, <2>1 DEF Closed
<1>9. QED
  BY <1>7, <1>8

\* A step that changes the pointers only to what could be reached before.
LEMMA ReachFrame ==
    ASSUME TypeOK, Core, Cursor, TypeOK', Core', Cursor', NEW R, R = Reach \union Fresh,
           InHand' \subseteq R,
           publish_list' # 0 => publish_list' \in R,
           loop'.pc \in {"scan", "freetail"} /\ Current' # 0 => Current' \in R,
           \A x \in R : next'[x] # 0 => next'[x] \in R
    PROVE  Reach' \subseteq R
<1>1. next' \in [Entries -> Pointer] /\ publish_list' \in Pointer
  BY DEF TypeOK
<1>2. ChainIn(next', publish_list') \subseteq R
  BY <1>1, ChainLeast DEF Closed
<1>3. loop'.pc \in {"scan", "freetail"} => ChainIn(next', Current') \subseteq R
  <2>1. loop'.pc \in {"scan", "freetail"} => Current' \in Pointer
    BY <1>1 DEF Current, Cursor, Accepted
  <2>2. QED
    BY <1>1, <2>1, ChainLeast DEF Closed
<1>4. QED
  BY <1>2, <1>3 DEF Reach

\* The thread t takes an entry, keeps it or is done with it.
LEMMA HandsMove ==
    ASSUME NEW t \in Threads, \A u \in Threads : u # t => at'[u] = at[u],
           at'[t].pc = "idle" \/ at'[t].e \in Fresh \/ (at[t].pc # "idle" /\ at'[t].e = at[t].e)
    PROVE  InHand' \subseteq InHand \union Fresh
BY DEF InHand

\* The steps of a thread.
LEMMA ThreadReach ==
    ASSUME IInv, Base', NEW t \in Threads, ThreadNext(t)
    PROVE  Reach' \subseteq Reach \union Fresh
<1> DEFINE R == Reach \union Fresh
<1> USE DEF connection, lists, history, matop
<1>1. TypeOK /\ Core /\ Cursor /\ TypeOK' /\ Core' /\ Cursor'
  BY DEF IInv, Base
<1>2. /\ R \subseteq Entries /\ InHand \subseteq R
      /\ publish_list # 0 => publish_list \in R
      /\ loop.pc \in {"scan", "freetail"} /\ Current # 0 => Current \in R
      /\ \A x \in R : next[x] # 0 => next[x] \in R
  BY <1>1, ReachClosed
<1>3. at \in [Threads -> [pc : {"idle", "id", "send", "head", "first", "walk", "link"},
                          e : Pointer, last : Pointer]]
  BY <1>1 DEF TypeOK
<1>4. Fresh \subseteq R
  OBVIOUS
<1> HIDE DEF R
<1>5. ASSUME UNCHANGED <<publish_list, next, loop>>, InHand' \subseteq InHand \union Fresh
      PROVE  Reach' \subseteq R
  <2>1. Current' = Current
    BY <1>5 DEF Current
  <2>2. QED
    BY <1>1, <1>2, <1>4, <1>5, <2>1, ReachFrame DEF R
<1>6. ASSUME NEW how \in {"plain", "sync", "async"}, PublishBegin(t, how) PROVE Reach' \subseteq R
  <2>1. PICK e \in Fresh : at' = [at EXCEPT ![t] = [pc |-> IF how = "async" THEN "head" ELSE "send",
                                                    e |-> e, last |-> 0]]
    BY <1>6 DEF PublishBegin
  <2>2. UNCHANGED <<publish_list, next, loop>>
    BY <1>6 DEF PublishBegin
  <2>3. (\A u \in Threads : u # t => at'[u] = at[u]) /\ at'[t].e \in Fresh
    BY <1>3, <2>1
  <2>4. QED
    BY <1>5, <2>2, <2>3, HandsMove
<1>7. CASE PublishSend(t) \/ PublishPlain(t) \/ PublishSendNull(t)
  <2>1. UNCHANGED <<publish_list, next, loop>>
    BY <1>7 DEF PublishSend, PublishPlain, PublishSendNull, Crash
  <2>2. at' = at \/ (at[t].pc = "send" /\ at' = [at EXCEPT ![t].pc = "head"]) \/ at' = [at EXCEPT ![t] = Idle]
    BY <1>7 DEF PublishSend, PublishPlain, PublishSendNull, Crash
  <2>3. CASE at' = at
    BY <1>5, <2>1, <2>3 DEF InHand, R
  <2>4. CASE at[t].pc = "send" /\ at' = [at EXCEPT ![t].pc = "head"]
    <3>1. (\A u \in Threads : u # t => at'[u] = at[u]) /\ at[t].pc # "idle" /\ at'[t].e = at[t].e
      BY <1>3, <2>4
    <3>2. QED
      BY <1>5, <2>1, <3>1, HandsMove DEF R
  <2>5. CASE at' = [at EXCEPT ![t] = Idle]
    <3>1. (\A u \in Threads : u # t => at'[u] = at[u]) /\ at'[t].pc = "idle"
      BY <1>3, <2>5 DEF Idle
    <3>2. QED
      BY <1>5, <2>1, <3>1, HandsMove DEF R
  <2>6. QED
    BY <2>2, <2>3, <2>4, <2>5
<1>8. ASSUME NEW list \in Pointer, AppendRead(t, list) PROVE Reach' \subseteq R
  <2> DEFINE q == IF list = 0 THEN "first" ELSE "walk"
  <2>1. UNCHANGED <<publish_list, next, loop>> /\ at[t].pc = "head" /\ at' = [at EXCEPT ![t].pc = q, ![t].last = list]
    BY <1>8 DEF AppendRead
  <2> HIDE DEF q
  <2>2. (\A u \in Threads : u # t => at'[u] = at[u]) /\ at[t].pc # "idle" /\ at'[t].e = at[t].e
    BY <1>3, <2>1
  <2>3. QED
    BY <1>5, <2>1, <2>2, HandsMove
<1>9. CASE PublishFirst(t)
  <2>1. /\ at[t].pc = "first" /\ publish_list' = at[t].e /\ at' = [at EXCEPT ![t] = Idle]
        /\ UNCHANGED <<next, loop>>
    BY <1>9 DEF PublishFirst
  <2>2. at[t].e \in R
    BY <1>2, <2>1 DEF InHand
  <2>3. InHand' \subseteq InHand \union Fresh
    BY <1>3, <2>1, HandsMove DEF Idle
  <2>4. Current' = Current \/ Current' = at[t].e
    BY <2>1 DEF Current
  <2>5. InHand' \subseteq R /\ (publish_list' # 0 => publish_list' \in R)
    BY <1>2, <1>4, <2>1, <2>2, <2>3
  <2>6. loop'.pc \in {"scan", "freetail"} /\ Current' # 0 => Current' \in R
    BY <1>2, <2>1, <2>2, <2>4
  <2>7. \A x \in R : next'[x] # 0 => next'[x] \in R
    BY <1>2, <2>1
  <2>8. QED
    BY <1>1, <2>5, <2>6, <2>7, ReachFrame DEF R
<1>10. CASE AppendWalk(t)
  <2>1. UNCHANGED <<publish_list, next, loop>> /\ at[t].pc = "walk"
    BY <1>10 DEF AppendWalk, Crash
  <2>2. at' = at \/ at' = [at EXCEPT ![t].last = next[at[t].last]] \/ at' = [at EXCEPT ![t].pc = "link"]
    BY <1>3, <1>10 DEF AppendWalk, Crash
  <2>3. CASE at' = at
    BY <1>5, <2>1, <2>3 DEF InHand, R
  <2>4. CASE at' # at
    <3>1. (\A u \in Threads : u # t => at'[u] = at[u]) /\ at[t].pc # "idle" /\ at'[t].e = at[t].e
      BY <1>3, <2>1, <2>2, <2>4
    <3>2. QED
      BY <1>5, <2>1, <3>1, HandsMove DEF R
  <2>5. QED
    BY <2>3, <2>4
<1>11. CASE AppendLink(t)
  <2>1. CASE UNCHANGED <<publish_list, next, loop, at>>
    <3>1. InHand' = InHand
      BY <2>1 DEF InHand
    <3>2. QED
      BY <1>5, <2>1, <3>1 DEF R
  <2>2. CASE ~UNCHANGED <<publish_list, next, loop, at>>
    <3>1. /\ at[t].pc = "link" /\ next' = [next EXCEPT ![at[t].last] = at[t].e] /\ at' = [at EXCEPT ![t] = Idle]
          /\ UNCHANGED <<publish_list, loop>>
      BY <1>11, <2>2 DEF AppendLink, Crash
    <3>2. at[t].e \in R
      BY <1>2, <3>1 DEF InHand
    <3>3. InHand' \subseteq InHand \union Fresh
      BY <1>3, <3>1, HandsMove DEF Idle
    <3>4. \A x \in Entries : next'[x] = next[x] \/ next'[x] = at[t].e
      BY <1>1, <3>1 DEF TypeOK
    <3>5. loop.pc \in {"scan", "freetail"} => Current' = Current \/ Current' = at[t].e
      BY <1>1, <3>1, <3>4 DEF Current, Cursor, Accepted
    <3>6. QED
      BY <1>1, <1>2, <1>4, <3>1, <3>2, <3>3, <3>4, <3>5, ReachFrame DEF R
  <2>3. QED
    BY <2>1, <2>2
<1>12. CASE RequestBegin(t)
  <2>1. PICK e \in Fresh : at' = [at EXCEPT ![t] = [pc |-> "id", e |-> e, last |-> 0]]
    BY <1>12 DEF RequestBegin
  <2>2. UNCHANGED <<publish_list, next, loop>>
    BY <1>12 DEF RequestBegin
  <2>3. (\A u \in Threads : u # t => at'[u] = at[u]) /\ at'[t].e \in Fresh
    BY <1>3, <2>1
  <2>4. QED
    BY <1>5, <2>2, <2>3, HandsMove DEF R
<1>13. CASE RequestId(t) \/ RequestSend(t) \/ RequestRefused(t) \/ RequestFirst(t)
  <2>1. UNCHANGED <<publish_list, next, loop>> /\ at[t].pc # "idle"
    BY <1>13 DEF RequestId, RequestSend, RequestRefused, RequestFirst
  <2>2. at' = [at EXCEPT ![t].pc = "send"] \/ at' = [at EXCEPT ![t].pc = "head"] \/ at' = [at EXCEPT ![t] = Idle]
    BY <1>13 DEF RequestId, RequestSend, RequestRefused, RequestFirst
  <2>3. CASE at' = [at EXCEPT ![t] = Idle]
    <3>1. (\A u \in Threads : u # t => at'[u] = at[u]) /\ at'[t].pc = "idle"
      BY <1>3, <2>3 DEF Idle
    <3>2. QED
      BY <1>5, <2>1, <3>1, HandsMove DEF R
  <2>4. CASE at' = [at EXCEPT ![t].pc = "send"] \/ at' = [at EXCEPT ![t].pc = "head"]
    <3>1. (\A u \in Threads : u # t => at'[u] = at[u]) /\ at[t].pc # "idle" /\ at'[t].e = at[t].e
      BY <1>3, <2>1, <2>4
    <3>2. QED
      BY <1>5, <2>1, <3>1, HandsMove DEF R
  <2>5. QED
    BY <2>2, <2>3, <2>4
<1>14. CASE PublishRead(t)
  <2>1. publish_list \in Pointer /\ AppendRead(t, publish_list)
    BY <1>1, <1>14 DEF TypeOK, PublishRead
  <2>2. QED
    BY <1>8, <2>1 DEF R
<1>15. CASE RequestRead(t)
  <2>1. message_list \in Pointer /\ AppendRead(t, message_list)
    BY <1>1, <1>15 DEF TypeOK, RequestRead
  <2>2. QED
    BY <1>8, <2>1 DEF R
<1>16. QED
  BY <1>6, <1>7, <1>9, <1>10, <1>11, <1>12, <1>13, <1>14, <1>15 DEF ThreadNext, PublisherStep, R

\* An entry is taken from a list.
LEMMA RemoveReach ==
    ASSUME IInv, Base', at' = at, NEW e \in Entries, NEW p \in Pointer,
           next' = NextWithout(p, e), p # 0 => p \in Entries /\ next[p] = e,
           publish_list' = publish_list \/ (publish_list = e /\ publish_list' = next[e]),
           loop'.pc \in {"scan", "freetail"} => e \in Reach /\ Current' = next[e]
    PROVE  Reach' \subseteq Reach \union Fresh
<1> DEFINE R == Reach \union Fresh
<1>1. TypeOK /\ Core /\ Cursor /\ TypeOK' /\ Core' /\ Cursor'
  BY DEF IInv, Base
<1>2. /\ R \subseteq Entries /\ InHand \subseteq R
      /\ publish_list # 0 => publish_list \in R
      /\ loop.pc \in {"scan", "freetail"} /\ Current # 0 => Current \in R
      /\ \A x \in R : next[x] # 0 => next[x] \in R
  BY <1>1, ReachClosed
<1>3. \A x \in Entries : next'[x] = next[x] \/ (x = p /\ p # 0 /\ next'[x] = next[e])
  BY <1>1 DEF NextWithout, TypeOK
<1>4. \A x \in R : next'[x] # 0 => next'[x] \in R
  <2>1. TAKE x \in R
  <2>2. CASE next'[x] = next[x]
    BY <1>2, <2>2
  <2>3. CASE x = p /\ p # 0 /\ next'[x] = next[e]
    <3>1. e \in R
      BY <1>1, <1>2, <2>3, ListTypes
    <3>2. QED
      BY <1>2, <2>3, <3>1
  <2>4. QED
    BY <1>2, <1>3, <2>2, <2>3
<1>5. e \in Reach => e \in R
  OBVIOUS
<1> HIDE DEF R
<1>6. publish_list' # 0 => publish_list' \in R
  BY <1>1, <1>2, ListTypes
<1>7. loop'.pc \in {"scan", "freetail"} /\ Current' # 0 => Current' \in R
  BY <1>2, <1>5
<1>8. InHand' = InHand
  BY DEF InHand
<1>9. QED
  BY <1>1, <1>2, <1>4, <1>6, <1>7, <1>8, ReachFrame DEF R

\* A step of the loop along its walk, or anything else that leaves the lists and the hands
\* alone.
LEMMA StillReach ==
    ASSUME IInv, UNCHANGED <<next, at>>, publish_list' \in {0, publish_list},
           loop'.pc \notin {"scan", "freetail"} \/
               /\ publish_list' = publish_list
               /\ \/ loop' = loop
                  \/ loop'.pc = "scan" /\ loop'.prev = 0
                  \/ loop.pc \in {"scan", "freetail"} /\ loop'.prev = Current /\ Current # 0
    PROVE  Reach' \subseteq Reach \union Fresh
<1>1. TypeOK /\ Core /\ Cursor
  BY DEF IInv, Base
<1>2. next \in [Entries -> Pointer] /\ ChainIn(next, 0) = {} /\ InHand' = InHand
  BY <1>1, ListTypes, ChainNull DEF InHand
<1>3. ChainIn(next, publish_list') \subseteq ChainIn(next, publish_list)
  BY <1>2
<1>4. CASE loop'.pc \notin {"scan", "freetail"}
  BY <1>2, <1>3, <1>4 DEF Reach
<1>5. CASE publish_list' = publish_list /\ loop' = loop
  BY <1>2, <1>5 DEF Reach, Current
<1>6. CASE publish_list' = publish_list /\ loop'.prev = 0
  <2>1. Current' = publish_list
    BY <1>6 DEF Current
  <2>2. QED
    BY <1>2, <1>6, <2>1 DEF Reach
<1>7. CASE loop.pc \in {"scan", "freetail"} /\ loop'.prev = Current /\ Current # 0 /\ publish_list' = publish_list
  <2>1. Current' = next[Current] /\ Current \in Entries
    BY <1>1, <1>7, CurrentFacts DEF Current
  <2>2. ChainIn(next, next[Current]) \subseteq ChainIn(next, Current)
    BY <1>2, <2>1, ChainRest
  <2>3. QED
    BY <1>2, <1>7, <2>1, <2>2 DEF Reach
<1>8. QED
  BY <1>4, <1>5, <1>6, <1>7

\* The steps that call no callback and bring no acknowledgement, and the others.
LEMMA Callbacks ==
    ASSUME [Next]_allvars
    PROVE  \/ UNCHANGED <<reports, acked, early>>
           \/ \E a \in Entries : (Puback(a) /\ UNCHANGED matop) \/ Answer(a)
           \/ (ScanTimeout /\ UNCHANGED matop) \/ MatopTimeout
<1> USE DEF connection, lists, history, matop
<1>1. ASSUME NEW t \in Threads, ThreadNext(t) PROVE UNCHANGED <<reports, acked, early>>
  <2>1. CASE PublisherStep(t)
    BY <2>1 DEF PublisherStep, PublishBegin, PublishSend, PublishPlain, PublishSendNull, PublishRead,
                PublishFirst, AppendRead, AppendWalk, AppendLink, Crash
  <2>2. QED
    BY <1>1, <2>1 DEF ThreadNext, RequestBegin, RequestId, RequestSend, RequestRefused, RequestRead,
                      RequestFirst, AppendRead
<1>2. CASE LoopNext
  BY <1>2 DEF LoopNext, LoopStep, StartFails, ConnectFails, LoopBegin, ScanEnd, FreeTimeout, ScanSend,
              ScanPass, FreeAnswered, YieldEnd, MatopInit, FreeMatop, MatopQuiet
<1>3. CASE Connected \/ LoseConnection \/ StopService \/ (Destroy \/ ReInit)
  BY <1>3 DEF Connected, ConnectOk, LoseConnection, Lose, StopService, Stop, Destroy, ReInit
<1>4. ASSUME NEW e \in Entries, Expire(e) PROVE UNCHANGED <<reports, acked, early>>
  BY <1>4 DEF Expire
<1>5. CASE UNCHANGED allvars
  BY <1>5 DEF allvars, vars
<1>6. QED
  BY <1>1, <1>2, <1>3, <1>4, <1>5 DEF Next

\* What an acknowledgement, an answer or a timeout does: the callback of e is told `by'.
Tells(e, by) ==
    /\ e \in Entries /\ by \in Pointer /\ e \notin Gone
    /\ reports' = [reports EXCEPT ![e] = Append(@, by)]

LEMMA TellsFacts ==
    ASSUME TypeOK, NEW e, NEW by, Tells(e, by)
    PROVE  /\ reports[e] = <<>> /\ Told(e) = {} /\ Told(e)' = {by}
           /\ \A x \in Entries : x # e => Told(x)' = Told(x) /\ reports'[x] = reports[x]
<1>1. e \in Entries /\ by \in Pointer /\ reports[e] = <<>> /\ reports' = [reports EXCEPT ![e] = Append(@, by)]
  BY DEF Tells, Gone
<1>2. QED
  BY <1>1, ToldAfter

LEMMA ScanTimeoutTells ==
    ASSUME IInv, Base', ScanTimeout
    PROVE  /\ Tells(Current, 0) /\ Current \in Reach /\ UNCHANGED <<acked, early>>
           /\ Reach' \subseteq Reach \union Fresh
<1> DEFINE e == Current
           p == loop.prev
<1>1. TypeOK /\ Core /\ Cursor
  BY DEF IInv, Base
<1>2. /\ loop.pc = "scan" /\ e \in expired /\ reports' = [reports EXCEPT ![e] = Append(@, 0)]
      /\ publish_list' = HeadWithout(publish_list, p, e) /\ next' = NextWithout(p, e)
      /\ loop' = [pc |-> "freetail", prev |-> p, victim |-> e] /\ UNCHANGED <<at, acked, early>>
  BY DEF ScanTimeout, RemovePub
<1>3. e # 0 /\ e \in Entries
  BY <1>1, <1>2, ListTypes DEF TypeOK
<1>4. /\ e \notin Gone /\ p \in Pointer
      /\ (p = 0 /\ publish_list = e) \/ (p \in Entries /\ next[p] = e)
  BY <1>1, <1>2, <1>3, CurrentFacts, ListTypes
<1>5. next \in [Entries -> Pointer] /\ 0 \in Pointer /\ 0 \notin Entries
  BY <1>1, ListTypes
<1>6. e \in Reach
  BY <1>2, <1>3, <1>5, ChainRest DEF Reach
<1>7. publish_list' = publish_list \/ (publish_list = e /\ publish_list' = next[e])
  BY <1>2, <1>4, <1>5 DEF HeadWithout
<1>8. Current' = next[e]
  BY <1>2, <1>4, <1>5 DEF Current, HeadWithout, NextWithout
<1> HIDE DEF e, p
<1>9. Reach' \subseteq Reach \union Fresh
  BY <1>2, <1>3, <1>4, <1>5, <1>6, <1>7, <1>8, RemoveReach
<1>10. QED
  BY <1>2, <1>3, <1>4, <1>5, <1>6, <1>9 DEF Tells, e

\* A request is told `by'.
LEMMA RemoveReqTells ==
    ASSUME IInv, Base', NEW S \in SUBSET Entries, NEW e, e = FirstOf(message_list, S), e # 0,
           NEW by \in Pointer, NEW q \in {"free", "freematop"}, RemoveReq(e, by, q),
           UNCHANGED <<publish_list, at>>
    PROVE  Tells(e, by) /\ KindOf[e] = "req" /\ Reach' \subseteq Reach \union Fresh
<1> DEFINE p == Before(message_list, e)
<1>1. TypeOK /\ Core
  BY DEF IInv, Base
<1>2. /\ next \in [Entries -> Pointer] /\ message_list \in Pointer /\ Lists["req"] = message_list /\ "req" \in Kinds
      /\ 0 \notin Entries
  BY <1>1, ListTypes
<1>3. e \in ChainIn(next, Lists["req"])
  BY <1>2, FirstOfFacts
<1>4. /\ e \in Entries /\ e \notin Gone /\ KindOf[e] = "req" /\ p \in Pointer
      /\ p = 0 \/ (p \in Entries /\ next[p] = e)
  BY <1>1, <1>2, <1>3, FoundFacts
<1>5. /\ reports' = [reports EXCEPT ![e] = Append(@, by)] /\ next' = NextWithout(p, e)
      /\ loop' = [pc |-> q, prev |-> 0, victim |-> e]
  BY DEF RemoveReq
<1>6. loop'.pc \notin {"scan", "freetail"}
  BY <1>5
<1> HIDE DEF p
<1>7. Reach' \subseteq Reach \union Fresh
  BY <1>4, <1>5, <1>6, RemoveReach
<1>8. QED
  BY <1>4, <1>5, <1>7 DEF Tells

\* A publication is told of the acknowledgement of a, or nobody is.
LEMMA PubackTells ==
    ASSUME IInv, Base', NEW a \in Entries, Puback(a)
    PROVE  /\ acked' = acked \union {a} /\ early' = (IF a \in InHand THEN early \union {a} ELSE early)
           /\ Reach' \subseteq Reach \union Fresh
           /\ \/ \E e : Tells(e, a)
              \/ reports' = reports /\ Reach' = Reach /\ (a \in InHand \/ a \notin Reach)
<1> USE DEF connection
<1> DEFINE S == {x \in Entries : Acknowledges(entry[a].msgid, x)}
           e == FirstOf(publish_list, S)
           p == Before(publish_list, e)
<1>1. TypeOK /\ Core
  BY DEF IInv, Base
<1>2. /\ loop.pc = "yield" /\ acked' = acked \union {a} /\ at' = at
      /\ early' = (IF a \in InHand THEN early \union {a} ELSE early)
      /\ IF e = 0
         THEN UNCHANGED <<reports, publish_list, next, loop>>
         ELSE RemovePub(e, p, a, "free")
  BY DEF Puback
<1>3. /\ next \in [Entries -> Pointer] /\ publish_list \in Pointer /\ Lists["pub"] = publish_list /\ "pub" \in Kinds
      /\ a \in Pointer /\ 0 \notin Entries
  BY <1>1, ListTypes
<1>4. S \in SUBSET Entries /\ a \in S
  BY DEF Acknowledges
<1>5. /\ e = 0 => ChainIn(next, publish_list) \intersect S = {}
      /\ e # 0 => e \in ChainIn(next, publish_list)
  BY <1>3, <1>4, FirstOfFacts
<1> HIDE DEF S, e
<1>6. CASE e = 0
  <2>1. UNCHANGED <<reports, publish_list, next, loop>>
    BY <1>2, <1>6
  <2>2. Reach = ChainIn(next, publish_list) \union InHand
    BY <1>2 DEF Reach
  <2>3. Reach' = Reach
    BY <1>2, <2>1 DEF Reach, InHand
  <2>4. QED
    BY <1>2, <1>4, <1>5, <1>6, <2>1, <2>2, <2>3
<1>7. CASE e # 0
  <2>1. /\ e \in Entries /\ e \notin Gone /\ p \in Pointer
        /\ (p = 0 /\ publish_list = e) \/ (p \in Entries /\ next[p] = e)
    BY <1>1, <1>3, <1>5, <1>7, FoundFacts
  <2>2. /\ reports' = [reports EXCEPT ![e] = Append(@, a)] /\ next' = NextWithout(p, e)
        /\ publish_list' = HeadWithout(publish_list, p, e)
        /\ loop' = [pc |-> "free", prev |-> p, victim |-> e]
    BY <1>2, <1>7 DEF RemovePub
  <2>3. publish_list' = publish_list \/ (publish_list = e /\ publish_list' = next[e])
    BY <1>3, <2>1, <2>2 DEF HeadWithout
  <2>4. loop'.pc \notin {"scan", "freetail"}
    BY <2>2
  <2> HIDE DEF p
  <2>5. Reach' \subseteq Reach \union Fresh
    BY <1>2, <1>3, <2>1, <2>2, <2>3, <2>4, RemoveReach
  <2>6. Tells(e, a)
    BY <1>3, <2>1, <2>2 DEF Tells
  <2>7. QED
    BY <1>2, <2>5, <2>6
<1>8. QED
  BY <1>6, <1>7

\* The loop, the connection and the clock, when no callback is called.
LEMMA QuietReach ==
    ASSUME IInv,
           \/ StartFails \/ ConnectFails \/ LoopBegin \/ ScanEnd \/ FreeTimeout \/ ScanSend \/ ScanPass
           \/ FreeAnswered \/ YieldEnd \/ MatopInit \/ FreeMatop \/ MatopQuiet
           \/ Connected \/ LoseConnection \/ StopService \/ Destroy \/ ReInit
           \/ (\E e \in Entries : Expire(e)) \/ UNCHANGED allvars
    PROVE  Reach' \subseteq Reach \union Fresh
<1> USE DEF connection, lists, history, matop
<1>1. loop \in [pc : {"top", "connected", "scan", "freetail", "yield", "free", "matop", "freematop"},
                prev : Pointer, victim : Pointer]
  BY DEF IInv, Base, TypeOK
<1>2. CASE StartFails \/ ConnectFails \/ LoopBegin \/ ScanEnd \/ ScanSend \/ ScanPass \/ YieldEnd
  <2>1. UNCHANGED <<next, at, publish_list>>
    BY <1>2 DEF StartFails, ConnectFails, LoopBegin, ScanEnd, ScanSend, ScanPass, YieldEnd
  <2>2. \/ loop' = loop
        \/ \E q \in {"matop", "yield"}, r \in {0, loop.prev} : loop' = [loop EXCEPT !.pc = q, !.prev = r]
        \/ loop' = [loop EXCEPT !.pc = "scan", !.prev = 0]
        \/ loop.pc = "scan" /\ loop' = [loop EXCEPT !.prev = Current] /\ Current # 0
    <3>1. [loop EXCEPT !.pc = "matop"] = [loop EXCEPT !.pc = "matop", !.prev = loop.prev]
      BY <1>1
    <3>2. QED
      BY <1>2, <3>1 DEF StartFails, ConnectFails, LoopBegin, ScanEnd, ScanSend, ScanPass, YieldEnd
  <2>3. \/ loop' = loop \/ loop'.pc \in {"matop", "yield"} \/ (loop'.pc = "scan" /\ loop'.prev = 0)
        \/ loop.pc = "scan" /\ loop'.prev = Current /\ Current # 0
    BY <1>1, <2>2
  <2>4. QED
    BY <2>1, <2>3, StillReach
<1>3. CASE FreeTimeout \/ FreeAnswered \/ FreeMatop \/ MatopQuiet
  <2>1. UNCHANGED <<next, at, publish_list>>
    BY <1>3 DEF FreeTimeout, FreeAnswered, FreeMatop, MatopQuiet
  <2>2. \/ loop' = loop \/ loop'.pc \in {"yield", "top"}
        \/ loop.pc = "freetail" /\ loop'.prev = Current /\ Current # 0
    BY <1>3 DEF FreeTimeout, FreeAnswered, FreeMatop, MatopQuiet, Top
  <2>3. QED
    BY <2>1, <2>2, StillReach
<1>4. CASE MatopInit \/ Connected \/ LoseConnection \/ StopService \/ Destroy \/ ReInit
  <2>1. UNCHANGED <<next, at>> /\ publish_list' \in {0, publish_list}
    BY <1>4 DEF MatopInit, Connected, ConnectOk, LoseConnection, Lose, StopService, Stop, Destroy, ReInit
  <2>2. loop'.pc \notin {"scan", "freetail"}
    <3>1. (loop' = loop /\ loop.pc = "top") \/ \E q \in {"matop", "connected"} : loop' = [loop EXCEPT !.pc = q]
      BY <1>4 DEF MatopInit, Connected, ConnectOk, LoseConnection, Lose, StopService, Stop, Destroy, ReInit
    <3>2. QED
      BY <1>1, <3>1
  <2>3. QED
    BY <2>1, <2>2, StillReach
<1>5. CASE (\E e \in Entries : Expire(e)) \/ UNCHANGED allvars
  <2>1. UNCHANGED <<next, at, publish_list, loop>>
    BY <1>5 DEF Expire, allvars, vars
  <2>2. QED
    BY <2>1, StillReach
<1>6. QED
  BY <1>2, <1>3, <1>4, <1>5

\* Every step keeps what is lost out of reach.
LEMMA SilenceKeeps ==
    ASSUME IInv, Base', [Next]_allvars
    PROVE  Silence'
<1>1. TypeOK /\ Heard /\ Silence
  BY DEF IInv, Base
<1>2. ASSUME NEW e, NEW by, Tells(e, by), acked' \subseteq acked \union {by}, early \subseteq early'
      PROVE  Silent' \subseteq Silent
  <2>1. /\ e \in Entries /\ Told(e) = {} /\ Told(e)' = {by} /\ reports[e] = <<>>
        /\ \A x \in Entries : x # e => Told(x)' = Told(x) /\ reports'[x] = reports[x]
    BY <1>1, <1>2, TellsFacts DEF Tells
  <2>2. \A x \in Entries : Told(x) \subseteq Told(x)'
    BY <2>1
  <2>3. ASSUME NEW x \in Silent' PROVE x \in Silent
    <3>1. x \in acked' /\ x \notin early' /\ reports'[x] = <<>> /\ \A f \in Entries : x \notin Told(f)'
      BY DEF Silent
    <3>2. x \in acked
      BY <1>2, <2>1, <3>1
    <3>3. x \in Entries
      BY <1>1, <3>2 DEF TypeOK
    <3>4. reports[x] = <<>>
      BY <2>1, <3>1, <3>3
    <3>5. QED
      BY <1>2, <2>2, <3>1, <3>2, <3>4 DEF Silent
  <2>4. QED
    BY <2>3
<1>3. CASE ScanTimeout
  <2>1. Tells(Current, 0) /\ UNCHANGED <<acked, early>> /\ Reach' \subseteq Reach \union Fresh
    BY <1>3, ScanTimeoutTells
  <2>2. Silent' \subseteq Silent
    BY <1>2, <2>1
  <2>3. QED
    BY <1>1, <2>1, <2>2, SilenceFrame
<1>4. ASSUME NEW a \in Entries, Answer(a) PROVE Silence'
  <2> DEFINE S == {x \in Entries : entry[x].msgid = entry[a].msgid}
             e == FirstOf(message_list, S)
  <2>1. e # 0 /\ RemoveReq(e, a, "free") /\ UNCHANGED <<publish_list, at, acked, early>>
    BY <1>4 DEF Answer
  <2>2. S \in SUBSET Entries /\ a \in Pointer
    BY <1>1, ListTypes
  <2> HIDE DEF S
  <2>3. Tells(e, a) /\ Reach' \subseteq Reach \union Fresh
    BY <2>1, <2>2, RemoveReqTells
  <2> HIDE DEF e
  <2>4. Silent' \subseteq Silent
    BY <1>2, <2>1, <2>3
  <2>5. QED
    BY <1>1, <2>3, <2>4, SilenceFrame
<1>5. CASE MatopTimeout
  <2> DEFINE e == FirstOf(message_list, expired)
  <2>1. e # 0 /\ RemoveReq(e, 0, "freematop") /\ UNCHANGED <<publish_list, at, acked, early>>
    BY <1>5 DEF MatopTimeout, OnTimeout
  <2>2. expired \in SUBSET Entries /\ 0 \in Pointer
    BY <1>1, ListTypes DEF TypeOK
  <2>3. Tells(e, 0) /\ Reach' \subseteq Reach \union Fresh
    BY <2>1, <2>2, RemoveReqTells
  <2> HIDE DEF e
  <2>4. Silent' \subseteq Silent
    BY <1>2, <2>1, <2>3
  <2>5. QED
    BY <1>1, <2>3, <2>4, SilenceFrame
<1>6. ASSUME NEW a \in Entries, Puback(a) PROVE Silence'
  <2>1. /\ acked' = acked \union {a} /\ early' = (IF a \in InHand THEN early \union {a} ELSE early)
        /\ Reach' \subseteq Reach \union Fresh
        /\ \/ \E e : Tells(e, a)
           \/ reports' = reports /\ Reach' = Reach /\ (a \in InHand \/ a \notin Reach)
    BY <1>6, PubackTells
  <2>2. acked' \subseteq acked \union {a} /\ early \subseteq early'
    BY <2>1
  <2>3. ASSUME NEW e, Tells(e, a) PROVE Silence'
    <3>1. Silent' \subseteq Silent
      BY <1>2, <2>2, <2>3
    <3>2. QED
      BY <1>1, <2>1, <3>1, SilenceFrame
  <2>4. CASE reports' = reports /\ Reach' = Reach /\ (a \in InHand \/ a \notin Reach)
    <3>1. \A e : Told(e)' = Told(e)
      BY <2>4 DEF Told
    <3>2. Silent' \subseteq Silent \union {a} /\ (a \in InHand => a \notin Silent')
      BY <2>1, <2>4, <3>1 DEF Silent
    <3>3. QED
      BY <1>1, <2>4, <3>2 DEF Silence
  <2>5. QED
    BY <2>1, <2>3, <2>4
<1>7. CASE UNCHANGED <<reports, acked, early>> /\ Reach' \subseteq Reach \union Fresh
  <2>1. Silent' \subseteq Silent
    BY <1>7, SilentSame
  <2>2. QED
    BY <1>1, <1>7, <2>1, SilenceFrame
<1>8. ASSUME NEW t \in Threads, ThreadNext(t) PROVE Reach' \subseteq Reach \union Fresh
  BY <1>8, ThreadReach
<1>9. CASE UNCHANGED <<reports, acked, early>>
  <2>1. \/ Reach' \subseteq Reach \union Fresh \/ ScanTimeout \/ MatopTimeout
        \/ \E a \in Entries : Puback(a) \/ Answer(a)
    BY <1>8, QuietReach DEF Next, LoopNext, LoopStep
  <2>2. QED
    BY <1>3, <1>4, <1>5, <1>6, <1>7, <1>9, <2>1
<1>10. QED
  BY <1>3, <1>4, <1>5, <1>6, <1>9, Callbacks

\* Every step keeps both parts.
LEMMA NextKeeps == IInv /\ [Next]_allvars => IInv'
BY BaseKeeps, SilenceKeeps DEF IInv

-----------------------------------------------------------------------------
(* The theorems *)

\* The invariant holds in every reachable state, whatever the threads, the broker and the
\* clock do: what the unlocked lists of mqtt_service.c and matop_service.c still keep.
THEOREM Invariance == Spec => []IInv
<1>1. QED
  BY InitHolds, NextKeeps, PTL DEF Spec

\* Pointers are NULL or entries, packet identifiers stay between 1 and the largest one, and
\* the identifiers and the connections of the entries stay in their bounds.
THEOREM TypeAlways == Spec => []TypeOK
<1>1. IInv => TypeOK
  BY DEF IInv, Base
<1>2. QED
  BY <1>1, Invariance, PTL

\* The walks of tuya_mqtt_loop, mqtt_client_puback_cb, matop_serice_yield and of the answers
\* never meet an entry that was given back, whatever the appending threads did to the lists.
THEOREM ListsAliveAlways == Spec => []ListsAlive
<1>1. IInv => ListsAlive
  <2> SUFFICES ASSUME IInv PROVE ListsAlive
    OBVIOUS
  <2>1. TypeOK /\ Core
    BY DEF IInv, Base
  <2>2. \A k \in Kinds : \A x \in ChainIn(next, Lists[k]) : x \notin Gone
    BY <2>1, ListMembers
  <2>3. \A x \in Chain(publish_list) \union Chain(message_list) : x \notin Gone
    BY <2>1, <2>2, ListTypes, ChainState
  <2>4. QED
    BY <2>3 DEF ListsAlive, Gone
<1>2. QED
  BY <1>1, Invariance, PTL

\* A publication or a request whose call returned OK waits on its list until its callback is
\* called, unless it was appended while another thread used the list, the list was zeroed,
\* or its connection ended.
THEOREM AcceptedReachableAlways == Spec => []AcceptedReachable
<1>1. IInv => AcceptedReachable
  <2> SUFFICES ASSUME IInv, NEW e \in Accepted
               PROVE  \/ reports[e] # <<>>
                      \/ e \in Chain(IF entry[e].kind = "pub" THEN publish_list ELSE message_list)
                      \/ e \in overlapped \union forgotten
                      \/ Stale(e)
    BY DEF AcceptedReachable
  <2>1. TypeOK /\ Core /\ FreedReported
    BY DEF IInv, Base
  <2>2. e \in Entries /\ entry[e].kind \in Kinds /\ KindOf[e] = entry[e].kind
    BY DEF Accepted, Kinds, KindOf
  <2>3. Lists[KindOf[e]] = IF entry[e].kind = "pub" THEN publish_list ELSE message_list
    BY <2>2 DEF Lists
  <2>4. e \in Gone => reports[e] # <<>> \/ Stale(e)
    BY <2>1, <2>2 DEF Gone, FreedReported, Kinds
  <2>5. e \in Excused => e \in overlapped \union forgotten \/ Stale(e)
    BY DEF Excused
  <2>6. e \in Gone \/ e \in Excused \/ e \in Chain(Lists[KindOf[e]])
    BY <2>1, ChainState DEF Core, Kept
  <2>7. QED
    BY <2>3, <2>4, <2>5, <2>6
<1>2. QED
  BY <1>1, Invariance, PTL

\* The callback of a publication or a request is called at most once.
THEOREM ReportedOnceAlways == Spec => []ReportedOnce
<1>1. IInv => ReportedOnce
  BY DEF IInv, Base
<1>2. QED
  BY <1>1, Invariance, PTL

\* A callback is told the fate of its own message; every exception is one in which the
\* identifiers of the code cannot tell two messages apart: another connection, a missed
\* acknowledgement, two threads drawing at a time, or a number cut down to 16 bits.
THEOREM AnswersFitAlways == Spec => []AnswersFit
<1>1. IInv => AnswersFit
  BY DEF IInv, Base, Heard
<1>2. QED
  BY <1>1, Invariance, PTL

\* The callback of a publication whose acknowledgement has come is not told of a timeout,
\* unless the acknowledgement came while the sender still had the publication in hand, or
\* was taken for that of another one.
THEOREM TimeoutsHonestAlways == Spec => TimeoutsHonest
<1> DEFINE Honest == \A e \in acked : 0 \in Told(e)' => 0 \in Told(e) \/ Missed(e)
<1>1. ASSUME IInv, [Next]_allvars PROVE Honest
  <2> SUFFICES ASSUME NEW e \in acked, 0 \in Told(e)', 0 \notin Told(e) PROVE Missed(e)
    OBVIOUS
  <2>1. TypeOK /\ Heard /\ Silence /\ Base'
    BY <1>1, BaseKeeps DEF IInv, Base
  <2>2. e \in Entries /\ KindOf[e] = "pub" /\ 0 \notin Entries
    BY <2>1, ListTypes DEF Heard, Fixed
  <2>3. ASSUME NEW x, NEW by, Tells(x, by) PROVE x = e /\ by = 0 /\ reports[e] = <<>> /\ Told(e) = {}
    BY <2>1, <2>2, <2>3, TellsFacts
  <2>4. ASSUME UNCHANGED <<reports, acked, early>> PROVE FALSE
    BY <2>4 DEF Told
  <2>5. ASSUME NEW a \in Entries, Puback(a) PROVE FALSE
    <3>1. (\E x : Tells(x, a)) \/ reports' = reports
      BY <1>1, <2>1, <2>5, PubackTells
    <3>2. QED
      BY <2>2, <2>3, <3>1 DEF Told
  <2>6. ASSUME NEW a \in Entries, Answer(a) PROVE FALSE
    <3> DEFINE S == {x \in Entries : entry[x].msgid = entry[a].msgid}
               x == FirstOf(message_list, S)
    <3>1. x # 0 /\ RemoveReq(x, a, "free") /\ UNCHANGED <<publish_list, at>>
      BY <2>6 DEF Answer
    <3>2. S \in SUBSET Entries /\ a \in Pointer
      BY <2>1, ListTypes
    <3> HIDE DEF S
    <3>3. Tells(x, a)
      BY <1>1, <2>1, <3>1, <3>2, RemoveReqTells
    <3>4. QED
      BY <2>2, <2>3, <3>3
  <2>7. ASSUME MatopTimeout PROVE FALSE
    <3> DEFINE x == FirstOf(message_list, expired)
    <3>1. x # 0 /\ RemoveReq(x, 0, "freematop") /\ UNCHANGED <<publish_list, at>>
      BY <2>7 DEF MatopTimeout, OnTimeout
    <3>2. expired \in SUBSET Entries /\ 0 \in Pointer
      BY <2>1, ListTypes DEF TypeOK
    <3>3. Tells(x, 0) /\ KindOf[x] = "req"
      BY <1>1, <2>1, <3>1, <3>2, RemoveReqTells
    <3>4. QED
      BY <2>2, <2>3, <3>3
  <2>8. ASSUME ScanTimeout PROVE Missed(e)
    <3>1. Tells(Current, 0) /\ Current \in Reach
      BY <1>1, <2>1, <2>8, ScanTimeoutTells
    <3>2. e \in Reach /\ reports[e] = <<>> /\ Told(e) = {}
      BY <2>3, <3>1
    <3>3. e \notin Silent
      BY <2>1, <3>2 DEF Silence
    <3>4. QED
      BY <3>2, <3>3 DEF Silent, Missed
  <2>9. QED
    BY <1>1, <2>4, <2>5, <2>6, <2>7, <2>8, Callbacks
<1>2. IInv /\ [Next]_allvars => [Honest]_allvars
  BY <1>1
<1>3. QED
  BY <1>2, Invariance, PTL DEF Spec, TimeoutsHonest

\* An entry is given back only after its callback was called, or when its request was
\* refused or its connection ended.
THEOREM FreedReportedAlways == Spec => []FreedReported
<1>1. IInv => FreedReported
  BY DEF IInv, Base
<1>2. QED
  BY <1>1, Invariance, PTL

\* The service follows a bad pointer only after an append met another operation on the list,
\* after a publication timed out, or after the client was destroyed.
THEOREM CrashCausesAlways == Spec => []CrashCauses
<1>1. IInv => CrashCauses
  BY DEF IInv, Base
<1>2. QED
  BY <1>1, Invariance, PTL
=============================================================================
