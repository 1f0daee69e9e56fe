--------------------------- MODULE SwTimerProofs ---------------------------
(***************************************************************************)
(* Proofs about the software timers, for any timers, owners, intervals and *)
(* number of calls: both lists and both counters always agree, the list of *)
(* running timers stays sorted, and the thread never sleeps past the first *)
(* expiry.                                                                 *)
(***************************************************************************)
EXTENDS SwTimer, ListFacts

-----------------------------------------------------------------------------
(* Lists without repetition, and what detaching and attaching do to them *)

\* The list is in order of the times that w gives.
Sorted(s, w) == \A i, j \in 1..Len(s) : i < j => w[s[i]] <= w[s[j]]

\* The place p of the list is one for a timer that expires at e.
Fits(s, w, e, p) ==
    /\ p \in 1..(Len(s) + 1)
    /\ \A i \in 1..Len(s) : i < p => w[s[i]] <= e
    /\ \A i \in 1..Len(s) : i >= p => w[s[i]] >= e

\* The times v are those of w, but for t.
Retimed(v, w, t, e) == v = [w EXCEPT ![t] = e]

\* The list r has the timers of s and t, in the order of the times v.
Holds(r, s, t, v) ==
    /\ r \in Seq(Timers) /\ Distinct(r) /\ Sorted(r, v)
    /\ Elems(r) = Elems(s) \cup {t}
    /\ Len(r) = IF t \in Elems(s) THEN Len(s) ELSE Len(s) + 1

\* The order of a list depends only on the times of its elements.
LEMMA SortedElsewhere ==
    ASSUME NEW s, NEW w, NEW v, Sorted(s, w), \A x \in Elems(s) : v[x] = w[x]
    PROVE  Sorted(s, v)
BY DEF Sorted, Elems

\* Detaching takes out just the one timer and keeps the order.
LEMMA Detached ==
    ASSUME NEW S, NEW s \in Seq(S), Distinct(s), NEW t, NEW r, r = RemoveFirst(s, t)
    PROVE  /\ r \in Seq(S) /\ Distinct(r)
           /\ Elems(r) = Elems(s) \ {t}
           /\ Len(r) = IF t \in Elems(s) THEN Len(s) - 1 ELSE Len(s)
           /\ \A w \in [S -> Nat] : Sorted(s, w) => Sorted(r, w)
<1>1. Len(s) \in Nat
  BY LenProperties
<1>2. CASE t \notin Elems(s)
  <2>1. r = s
    BY <1>2 DEF RemoveFirst, Elems
  <2>2. QED
    BY <1>2, <2>1
<1>3. CASE t \in Elems(s)
  <2>1. PICK k \in 1..Len(s) : s[k] = t /\ r \in Seq(S) /\ Without(r, s, k)
    BY <1>3, RemovedFirst
  <2> DEFINE old(i) == IF i < k THEN i ELSE i + 1
  <2>3. /\ r \in Seq(S) /\ Len(r) = Len(s) - 1
        /\ \A i \in 1..Len(r) : r[i] = s[old(i)]
    BY <2>1 DEF Without
  <2>4. /\ \A i \in 1..Len(r) : old(i) \in 1..Len(s) /\ old(i) # k
        /\ \A i, j \in 1..Len(r) : i < j => old(i) < old(j)
        /\ \A i, j \in 1..Len(r) : old(i) = old(j) => i = j
        /\ \A j \in 1..Len(s) : j # k => \E i \in 1..Len(r) : old(i) = j
    <3>1. \A j \in 1..Len(s) : j # k => \E i \in 1..Len(r) : old(i) = j
      <4>1. ASSUME NEW j \in 1..Len(s), j < k PROVE j \in 1..Len(r) /\ old(j) = j
        BY <1>1, <2>1, <2>3, <4>1
      <4>2. ASSUME NEW j \in 1..Len(s), j > k PROVE j - 1 \in 1..Len(r) /\ old(j - 1) = j
        BY <1>1, <2>1, <2>3, <4>2
      <4>3. \A j \in 1..Len(s) : j = k \/ j < k \/ j > k
        BY <1>1, <2>1
      <4> HIDE DEF old
      <4>4. QED
        BY <4>1, <4>2, <4>3
    <3>2. QED
      BY <1>1, <2>1, <2>3, <3>1
  <2> HIDE DEF old
  <2>5. Distinct(r)
    BY <2>3, <2>4 DEF Distinct
  <2>6. Elems(r) = Elems(s) \ {t}
    <3>1. \A i \in 1..Len(r) : r[i] \in Elems(s) /\ r[i] # t
      BY <2>1, <2>3, <2>4 DEF Elems, Distinct
    <3>2. ASSUME NEW j \in 1..Len(s), s[j] # t PROVE s[j] \in Elems(r)
      <4>1. PICK i \in 1..Len(r) : old(i) = j
        BY <2>1, <2>4, <3>2
      <4>2. r[i] = s[j]
        BY <2>3, <4>1
      <4>3. QED
        BY <4>2 DEF Elems
    <3>3. Elems(r) \subseteq Elems(s) \ {t}
      <4>1. \A x \in Elems(r) : \E i \in 1..Len(r) : x = r[i]
        BY DEF Elems
      <4>2. QED
        BY <3>1, <4>1
    <3>4. Elems(s) \ {t} \subseteq Elems(r)
      <4>1. \A x \in Elems(s) : \E j \in 1..Len(s) : x = s[j]
        BY DEF Elems
      <4>2. QED
        BY <3>2, <4>1
    <3>5. QED
      BY <3>3, <3>4
  <2>7. \A w \in [S -> Nat] : Sorted(s, w) => Sorted(r, w)
    <3>1. TAKE w \in [S -> Nat]
    <3>2. HAVE Sorted(s, w)
    <3>3. ASSUME NEW i \in 1..Len(r), NEW j \in 1..Len(r), i < j
          PROVE  w[r[i]] <= w[r[j]]
      <4>1. old(i) \in 1..Len(s) /\ old(j) \in 1..Len(s) /\ old(i) < old(j)
        BY <2>4, <3>3
      <4>2. w[s[old(i)]] <= w[s[old(j)]]
        BY <3>2, <4>1 DEF Sorted
      <4>3. QED
        BY <2>3, <4>2
    <3>4. QED
      BY <3>3 DEF Sorted
  <2>8. QED
    BY <1>3, <2>3, <2>5, <2>6, <2>7
<1>4. QED
  BY <1>2, <1>3

\* Where __timer_attach puts a timer: behind those that expire before it, in front of
\* the others.
LEMMA PositionFacts ==
    ASSUME NEW S, NEW s \in Seq(S), NEW w \in [S -> Nat], NEW e \in Nat, Sorted(s, w)
    PROVE  /\ Position(s, w, e) \in 1..(Len(s) + 1)
           /\ \A i \in 1..Len(s) : i < Position(s, w, e) => w[s[i]] < e
           /\ \A i \in 1..Len(s) : i >= Position(s, w, e) => w[s[i]] >= e
<1> DEFINE later == {i \in 1..Len(s) : w[s[i]] >= e}
           p == Position(s, w, e)
<1>1. Len(s) \in Nat /\ \A i \in 1..Len(s) : w[s[i]] \in Nat
  BY LenProperties, ElementOfSeq
<1>2. p = IF later = {} THEN Len(s) + 1 ELSE Min(later)
  BY DEF Position
<1>3. CASE later = {}
  BY <1>1, <1>2, <1>3
<1>4. CASE later # {}
  <2>1. later \in SUBSET Nat
    BY <1>1
  <2>2. p \in later /\ \A i \in later : p <= i
    BY <1>2, <1>4, <2>1, MinFacts
  <2> HIDE DEF p
  <2>3. p \in 1..Len(s) /\ w[s[p]] >= e
    BY <2>2
  <2>4. \A i \in 1..Len(s) : i < p => w[s[i]] < e
    BY <1>1, <2>2, <2>3
  <2>5. \A i \in 1..Len(s) : i >= p => w[s[i]] >= e
    <3>1. TAKE i \in 1..Len(s)
    <3>2. CASE i = p
      BY <2>3, <3>2
    <3>3. CASE p < i
      <4>1. w[s[p]] <= w[s[i]]
        BY <2>3, <3>3 DEF Sorted
      <4>2. QED
        BY <1>1, <2>3, <4>1
    <3>4. QED
      BY <1>1, <2>3, <3>2, <3>3
  <2>6. QED
    BY <1>1, <2>3, <2>4, <2>5 DEF p
<1>5. QED
  BY <1>3, <1>4

\* A timer put in at its place: the list stays without repetition and in order.
LEMMA InsertedSorted ==
    ASSUME NEW S, NEW s \in Seq(S), Distinct(s), NEW t \in S, t \notin Elems(s),
           NEW w \in [S -> Nat], NEW e \in Nat, NEW p, Sorted(s, w), Fits(s, w, e, p),
           NEW r \in Seq(S), Placed(r, s, p, t), NEW v, Retimed(v, w, t, e)
    PROVE  Distinct(r) /\ Elems(r) = Elems(s) \cup {t} /\ Sorted(r, v)
<1> DEFINE old(i) == IF i < p THEN i ELSE i - 1
<1>1. Len(s) \in Nat /\ \A i \in 1..Len(s) : s[i] \in S /\ s[i] # t
  BY LenProperties, ElementOfSeq DEF Elems
<1>0. p \in 1..(Len(s) + 1)
  BY DEF Fits
<1>2. /\ Len(r) = Len(s) + 1 /\ r[p] = t
      /\ \A i \in 1..Len(r) : i # p => r[i] = s[old(i)]
  BY DEF Placed
<1>3. /\ \A i \in 1..Len(r) : i # p => old(i) \in 1..Len(s)
      /\ \A i, j \in 1..Len(r) :
           i # p /\ j # p => (i < j => old(i) < old(j)) /\ (old(i) = old(j) => i = j)
      /\ \A i \in 1..Len(r) : i # p => (i < p <=> old(i) < p) /\ (i > p <=> old(i) >= p)
  <2>1. Len(r) \in Nat /\ Len(r) = Len(s) + 1 /\ p \in Int
    BY <1>0, <1>1, <1>2
  <2>2. \A i \in 1..Len(r) : i # p => old(i) \in 1..Len(s)
    BY <1>0, <1>1, <2>1
  <2>3. \A i, j \in 1..Len(r) :
          i # p /\ j # p => (i < j => old(i) < old(j)) /\ (old(i) = old(j) => i = j)
    BY <2>1
  <2>4. \A i \in 1..Len(r) : i # p => (i < p <=> old(i) < p) /\ (i > p <=> old(i) >= p)
    BY <2>1
  <2>5. QED
    BY <2>2, <2>3, <2>4
<1>4. \A j \in 1..Len(s) : \E i \in 1..Len(r) : i # p /\ old(i) = j
  <2>1. ASSUME NEW j \in 1..Len(s), j < p PROVE j \in 1..Len(r) /\ j # p /\ old(j) = j
    BY <1>0, <1>1, <1>2, <2>1
  <2>2. ASSUME NEW j \in 1..Len(s), j >= p PROVE j + 1 \in 1..Len(r) /\ j + 1 # p /\ old(j + 1) = j
    BY <1>0, <1>1, <1>2, <2>2
  <2>3. \A j \in 1..Len(s) : j < p \/ j >= p
    BY <1>0, <1>1
  <2> HIDE DEF old
  <2>4. QED
    BY <2>1, <2>2, <2>3
<1> HIDE DEF old
<1>5. p \in 1..Len(r)
  BY <1>0, <1>1, <1>2
<1>6. Distinct(r)
  <2>1. \A i \in 1..Len(r) : i # p => r[i] # r[p]
    BY <1>1, <1>2, <1>3
  <2>2. \A i, j \in 1..Len(r) : i # p /\ j # p /\ r[i] = r[j] => i = j
    BY <1>2, <1>3 DEF Distinct
  <2>3. QED
    BY <2>1, <2>2 DEF Distinct
<1>7. Elems(r) = Elems(s) \cup {t}
  <2>1. \A i \in 1..Len(r) : r[i] \in Elems(s) \cup {t}
    BY <1>2, <1>3 DEF Elems
  <2>2. ASSUME NEW j \in 1..Len(s) PROVE s[j] \in Elems(r)
    <3>1. PICK i \in 1..Len(r) : i # p /\ old(i) = j
      BY <1>4
    <3>2. r[i] = s[j]
      BY <1>2, <3>1
    <3>3. QED
      BY <3>2 DEF Elems
  <2>3. t \in Elems(r)
    BY <1>2, <1>5 DEF Elems
  <2>4. QED
    BY <2>1, <2>2, <2>3 DEF Elems
<1>8. Sorted(r, v)
  <2>1. v[t] = e /\ \A i \in 1..Len(s) : v[s[i]] = w[s[i]] /\ w[s[i]] \in Nat
    BY <1>1 DEF Retimed
  <2>2. SUFFICES ASSUME NEW i \in 1..Len(r), NEW j \in 1..Len(r), i < j
                 PROVE  v[r[i]] <= v[r[j]]
    BY DEF Sorted
  <2>3. CASE i = p
    <3>1. j # p /\ j > p
      BY <1>0, <1>2, <2>2, <2>3
    <3>2. old(j) \in 1..Len(s) /\ old(j) >= p /\ r[j] = s[old(j)]
      BY <1>2, <1>3, <3>1
    <3>3. QED
      BY <1>2, <2>1, <2>3, <3>2 DEF Fits
  <2>4. CASE j = p
    <3>1. i # p /\ i < p
      BY <1>0, <1>2, <2>2, <2>4
    <3>2. old(i) \in 1..Len(s) /\ old(i) < p /\ r[i] = s[old(i)]
      BY <1>2, <1>3, <3>1
    <3>3. QED
      BY <1>2, <2>1, <2>4, <3>2 DEF Fits
  <2>5. CASE i # p /\ j # p
    <3>1. /\ old(i) \in 1..Len(s) /\ old(j) \in 1..Len(s) /\ old(i) < old(j)
          /\ r[i] = s[old(i)] /\ r[j] = s[old(j)]
      BY <1>2, <1>3, <2>2, <2>5
    <3>2. w[s[old(i)]] <= w[s[old(j)]]
      BY <3>1 DEF Sorted
    <3>3. v[s[old(i)]] = w[s[old(i)]] /\ v[s[old(j)]] = w[s[old(j)]]
      BY <2>1, <3>1
    <3>4. QED
      BY <3>1, <3>2, <3>3
  <2>6. QED
    BY <2>3, <2>4, <2>5
<1>9. QED
  BY <1>6, <1>7, <1>8

\* __timer_attach: the timer is on the list once, wherever it was, and in its place.
LEMMA Attached ==
    ASSUME NEW s \in Seq(Timers), Distinct(s), NEW t \in Timers,
           NEW w \in [Timers -> Nat], NEW e \in Nat, Sorted(s, w), NEW v, Retimed(v, w, t, e)
    PROVE  LET o == RemoveFirst(s, t)
           IN Holds(InsertAt(o, Position(o, w, e), t), s, t, v)
<1> DEFINE o == RemoveFirst(s, t)
           p == Position(o, w, e)
           r == InsertAt(o, p, t)
<1>1. /\ o \in Seq(Timers) /\ Distinct(o) /\ Elems(o) = Elems(s) \ {t} /\ Sorted(o, w)
      /\ Len(o) = IF t \in Elems(s) THEN Len(s) - 1 ELSE Len(s)
  BY Detached
<1> HIDE DEF o
<1>2. Fits(o, w, e, p)
  <2>1. \A i \in 1..Len(o) : w[o[i]] \in Nat
    BY <1>1, ElementOfSeq
  <2>2. /\ p \in 1..(Len(o) + 1)
        /\ \A i \in 1..Len(o) : i < p => w[o[i]] < e
        /\ \A i \in 1..Len(o) : i >= p => w[o[i]] >= e
    BY <1>1, PositionFacts
  <2> HIDE DEF p
  <2>3. QED
    <3>1. \A i \in 1..Len(o) : i < p => w[o[i]] <= e
      BY <2>1, <2>2
    <3>2. QED
      BY <2>2, <3>1 DEF Fits
<1> HIDE DEF p
<1>3. r \in Seq(Timers) /\ Placed(r, o, p, t)
  BY <1>1, <1>2, InsertedAt DEF Fits
<1> HIDE DEF r
<1>4. t \notin Elems(o)
  BY <1>1
<1>5. Distinct(r) /\ Elems(r) = Elems(o) \cup {t} /\ Sorted(r, v)
  BY <1>1, <1>2, <1>3, <1>4, InsertedSorted
<1>6. Len(s) \in Nat /\ Len(r) = Len(o) + 1
  BY <1>3, LenProperties DEF Placed
<1>7. Holds(r, s, t, v)
  BY <1>1, <1>3, <1>5, <1>6 DEF Holds
<1>8. QED
  BY <1>7 DEF r, p, o

\* A running timer that is triggered goes to the front.
LEMMA PutFirst ==
    ASSUME NEW s \in Seq(Timers), Distinct(s), NEW t \in Elems(s),
           NEW w \in [Timers -> Nat], Sorted(s, w), NEW v, Retimed(v, w, t, 0)
    PROVE  Holds(<<t>> \o RemoveFirst(s, t), s, t, v)
<1> DEFINE o == RemoveFirst(s, t)
           r == <<t>> \o o
<1>1. /\ o \in Seq(Timers) /\ Distinct(o) /\ Elems(o) = Elems(s) \ {t} /\ Sorted(o, w)
      /\ Len(o) = Len(s) - 1
  BY Detached
<1> HIDE DEF o
<1>2. t \in Timers /\ t \notin Elems(o) /\ Len(s) \in Nat
  <2>1. PICK i \in 1..Len(s) : s[i] = t
    BY DEF Elems
  <2>2. QED
    BY <1>1, <2>1, ElementOfSeq, LenProperties
<1>3. r \in Seq(Timers) /\ Placed(r, o, 1, t)
  <2>1. <<t>> \in Seq(Timers) /\ Len(<<t>>) = 1 /\ <<t>>[1] = t
    BY <1>2
  <2>2. /\ r \in Seq(Timers) /\ Len(r) = 1 + Len(o)
        /\ \A i \in 1..(1 + Len(o)) : r[i] = IF i <= 1 THEN <<t>>[i] ELSE o[i - 1]
    BY <1>1, <2>1, ConcatProperties
  <2> HIDE DEF r
  <2>3. QED
    <3>1. 1 \in 1..(1 + Len(o)) /\ 1 + Len(o) = Len(o) + 1
      BY <1>1, <1>2
    <3>2. r[1] = t
      BY <2>1, <2>2, <3>1
    <3>3. \A i \in 1..(Len(o) + 1) : i # 1 => r[i] = o[IF i < 1 THEN i ELSE i - 1]
      BY <1>1, <1>2, <2>2, <3>1
    <3>4. QED
      BY <2>2, <3>1, <3>2, <3>3 DEF Placed
<1> HIDE DEF r
<1>4. Fits(o, w, 0, 1)
  <2>1. \A i \in 1..Len(o) : w[o[i]] \in Nat
    BY <1>1, ElementOfSeq
  <2>2. QED
    BY <1>1, <1>2, <2>1 DEF Fits
<1>5. Distinct(r) /\ Elems(r) = Elems(o) \cup {t} /\ Sorted(r, v)
  BY <1>1, <1>2, <1>3, <1>4, InsertedSorted
<1>6. Len(r) = Len(o) + 1
  BY <1>3 DEF Placed
<1>7. Holds(r, s, t, v)
  BY <1>1, <1>2, <1>3, <1>5, <1>6 DEF Holds
<1>8. QED
  BY <1>7 DEF r, o

-----------------------------------------------------------------------------
(* The inductive invariant *)

\* Timers that are allocated and not under deletion.
Live == exists \ Deleting

CallRecords == [at : {"idle", "start", "post", "delete"}, on : Timers \cup {NoTimer},
                ms : 0..MaxNow]

\* What the variables hold; what bounds the two counters is in ListInv.
Typed ==
    /\ now \in 0..MaxNow
    /\ exists \subseteq Timers
    /\ list_active \in Seq(Timers)
    /\ list_standby \subseteq Timers
    /\ expire_time \in [Timers -> Nat]
    /\ interval \in [Timers -> Nat]
    /\ is_running \in [Timers -> BOOLEAN]
    /\ type \in [Timers -> Types]
    /\ sem \in 0..SemMax
    /\ tpc \in {"arm", "wait", "read", "lock", "fire", "callback"}
    /\ nowMS \in 0..MaxNow
    /\ next_expired \in Nat \cup {FOREVER}
    /\ wakeAt \in Nat \cup {FOREVER}
    /\ timer \in Timers \cup {NoTimer}
    /\ call \in [Threads -> CallRecords]
    /\ calls \in 0..MaxCalls

\* A call works on an allocated timer that no other thread works on, and a client only
\* works on its own.
Exclusive ==
    \A c \in Threads :
        /\ call[c].at = "idle" => call[c].on = NoTimer
        /\ call[c].at # "idle" =>
             /\ call[c].on \in exists
             /\ c # TimerThread => Owner[call[c].on] = c
             /\ \A d \in Threads : d # c => call[d].on # call[c].on

\* The two lists divide the live timers as is_running says, the list of running
\* timers is sorted, and the counters count them.
ListInv ==
    /\ Distinct(list_active)
    /\ Sorted(list_active, expire_time)
    /\ running_cnt = Len(list_active)
    /\ total_cnt = Cardinality(Live)
    /\ Elems(list_active) \cap list_standby = {}
    /\ Elems(list_active) \cup list_standby = Live
    /\ \A t \in Live : is_running[t] <=> t \in Elems(list_active)

IInv == Typed /\ Exclusive /\ ListInv /\ NoLostWakeup

-----------------------------------------------------------------------------
(* Calls *)

\* A thread's step in a call changes no other thread's.
LEMMA CallSet ==
    ASSUME Typed, NEW c \in Threads, NEW r \in CallRecords, call' = [call EXCEPT ![c] = r]
    PROVE  /\ call' \in [Threads -> CallRecords]
           /\ call'[c] = r
           /\ \A d \in Threads : d # c => call'[d] = call[d]
BY DEF Typed

\* The records that the calls use.
LEMMA CallRecordsUsed ==
    /\ Idle \in CallRecords /\ Idle.at = "idle" /\ Idle.on = NoTimer
    /\ \A t \in Timers, at \in {"start", "post", "delete"}, ms \in 0..MaxNow :
         LET r == [at |-> at, on |-> t, ms |-> ms]
         IN r \in CallRecords /\ r.at = at /\ r.on = t
BY SwTimerAssumption DEF Idle, CallRecords

\* Nobody else works on the timer that a call begins with, so it is not being deleted.
LEMMA BeginFree ==
    ASSUME Exclusive, NEW c \in Threads, NEW t \in Timers, BeginCall(c, t)
    PROVE  /\ call[c].at = "idle" /\ t \in exists /\ t \in Live
           /\ \A d \in Threads : call[d].on # t
           /\ c # TimerThread => Owner[t] = c
<1>1. /\ call[c].at = "idle" /\ t \in exists
      /\ c = TimerThread => tpc = "callback" /\ call[Owner[t]].on # t
      /\ c # TimerThread => c = Owner[t] /\ call[TimerThread].on # t
  BY DEF BeginCall
<1>2. ASSUME NEW d \in Threads PROVE call[d].on # t
  <2>1. CASE call[d].at = "idle"
    BY <2>1, SwTimerAssumption DEF Exclusive
  <2>2. CASE call[d].at # "idle" /\ d # TimerThread
    <3>1. Owner[call[d].on] = d
      BY <2>2 DEF Exclusive
    <3>2. CASE c = TimerThread
      BY <1>1, <3>1, <3>2
    <3>3. CASE c # TimerThread
      BY <1>1, <2>2, <3>1, <3>3
    <3>4. QED
      BY <3>2, <3>3
  <2>3. CASE call[d].at # "idle" /\ d = TimerThread
    BY <1>1, <2>3
  <2>4. QED
    BY <2>1, <2>2, <2>3
<1>3. t \in Live
  BY <1>1, <1>2 DEF Live, Deleting
<1>4. QED
  BY <1>1, <1>2, <1>3

\* A call that is not a deletion is on a live timer.
LEMMA CallOnLive ==
    ASSUME Exclusive, NEW c \in Threads, call[c].at \in {"start", "post"}
    PROVE  call[c].on \in Live
<1>1. call[c].on \in exists /\ \A d \in Threads : d # c => call[d].on # call[c].on
  BY DEF Exclusive
<1>2. QED
  BY <1>1 DEF Live, Deleting

\* A call begins.
LEMMA ExclusiveBegin ==
    ASSUME Typed, Exclusive, NEW c \in Threads, NEW t \in Timers, BeginCall(c, t),
           NEW r \in CallRecords, r.at # "idle", r.on = t,
           call' = [call EXCEPT ![c] = r], exists' = exists
    PROVE  Exclusive'
<1>1. /\ call'[c] = r
      /\ \A d \in Threads : d # c => call'[d] = call[d]
  BY CallSet
<1>2. /\ t \in exists /\ \A d \in Threads : call[d].on # t
      /\ c # TimerThread => Owner[t] = c
  BY BeginFree
<1>3. ASSUME NEW d \in Threads, d # c
      PROVE  /\ call'[d].at = "idle" => call'[d].on = NoTimer
             /\ call'[d].at # "idle" =>
                  /\ call'[d].on \in exists'
                  /\ d # TimerThread => Owner[call'[d].on] = d
                  /\ \A b \in Threads : b # d => call'[b].on # call'[d].on
  <2>1. call'[d] = call[d]
    BY <1>1, <1>3
  <2>2. ASSUME call[d].at # "idle", NEW b \in Threads, b # d
        PROVE  call'[b].on # call[d].on
    <3>1. CASE b = c
      BY <1>1, <1>2, <3>1
    <3>2. CASE b # c
      BY <1>1, <2>2, <3>2 DEF Exclusive
    <3>3. QED
      BY <3>1, <3>2
  <2>3. QED
    BY <2>1, <2>2 DEF Exclusive
<1>4. /\ call'[c].at # "idle"
      /\ call'[c].on \in exists'
      /\ c # TimerThread => Owner[call'[c].on] = c
      /\ \A b \in Threads : b # c => call'[b].on # call'[c].on
  BY <1>1, <1>2
<1>5. QED
  BY <1>3, <1>4 DEF Exclusive

\* A call goes on with its timer.
LEMMA ExclusiveOn ==
    ASSUME Typed, Exclusive, NEW c \in Threads, call[c].at # "idle",
           NEW r \in CallRecords, r.at # "idle", r.on = call[c].on,
           call' = [call EXCEPT ![c] = r], exists' = exists
    PROVE  Exclusive'
<1>1. /\ call'[c] = r
      /\ \A d \in Threads : d # c => call'[d] = call[d]
  BY CallSet
<1>2. \A d \in Threads : call'[d].on = call[d].on /\ (call'[d].at = "idle" <=> call[d].at = "idle")
  BY <1>1
<1>3. QED
  BY <1>2 DEF Exclusive

\* A call ends, and frees the timer that it deleted.
LEMMA ExclusiveEnd ==
    ASSUME Typed, Exclusive, NEW c \in Threads, call[c].at # "idle",
           call' = [call EXCEPT ![c] = Idle],
           exists' = exists \/ exists' = exists \ {call[c].on}
    PROVE  Exclusive'
<1>1. /\ call'[c] = Idle /\ Idle.at = "idle" /\ Idle.on = NoTimer
      /\ \A d \in Threads : d # c => call'[d] = call[d]
  BY CallSet, CallRecordsUsed
<1>2. ASSUME NEW d \in Threads, d # c
      PROVE  /\ call'[d].at = "idle" => call'[d].on = NoTimer
             /\ call'[d].at # "idle" =>
                  /\ call'[d].on \in exists'
                  /\ d # TimerThread => Owner[call'[d].on] = d
                  /\ \A b \in Threads : b # d => call'[b].on # call'[d].on
  <2>1. call'[d] = call[d]
    BY <1>1, <1>2
  <2>2. call[c].on # call[d].on
    BY <1>2 DEF Exclusive
  <2>3. call[d].at # "idle" => call[d].on \in exists'
    BY <2>2 DEF Exclusive
  <2>4. ASSUME call[d].at # "idle", NEW b \in Threads, b # d
        PROVE  call'[b].on # call[d].on
    <3>1. CASE b = c
      BY <1>1, <2>4, <3>1, SwTimerAssumption DEF Exclusive, Typed
    <3>2. CASE b # c
      BY <1>1, <2>4, <3>2 DEF Exclusive
    <3>3. QED
      BY <3>1, <3>2
  <2>5. QED
    BY <2>1, <2>3, <2>4 DEF Exclusive
<1>3. QED
  BY <1>1, <1>2 DEF Exclusive

-----------------------------------------------------------------------------
(* Who is live *)

\* A step of a call that neither begins nor ends a deletion.
LEMMA LiveSame ==
    ASSUME Typed, NEW c \in Threads, NEW r \in CallRecords, r.at # "delete",
           call[c].at # "delete", call' = [call EXCEPT ![c] = r], exists' = exists
    PROVE  Live' = Live
<1>1. /\ call'[c] = r
      /\ \A d \in Threads : d # c => call'[d] = call[d]
  BY CallSet
<1>2. \A d \in Threads : (call'[d].at = "delete" <=> call[d].at = "delete")
                          /\ (call[d].at = "delete" => call'[d].on = call[d].on)
  BY <1>1
<1>3. Deleting' = Deleting
  BY <1>2 DEF Deleting
<1>4. QED
  BY <1>3 DEF Live

\* tal_sw_timer_delete takes its timer out.
LEMMA LiveDelete ==
    ASSUME Typed, NEW c \in Threads, NEW t \in Timers, call[c].at = "idle", exists' = exists,
           call' = [call EXCEPT ![c] = [at |-> "delete", on |-> t, ms |-> 0]]
    PROVE  Live' = Live \ {t}
<1> DEFINE r == [at |-> "delete", on |-> t, ms |-> 0]
<1>1. r \in CallRecords /\ r.at = "delete" /\ r.on = t
  BY SwTimerAssumption DEF CallRecords
<1>2. /\ call'[c] = r
      /\ \A d \in Threads : d # c => call'[d] = call[d]
  BY <1>1, CallSet
<1> HIDE DEF r
<1>3. Deleting' = Deleting \cup {t}
  <2>1. ASSUME NEW d \in Threads, call[d].at = "delete"
        PROVE  call'[d].at = "delete" /\ call'[d].on = call[d].on
    BY <1>2, <2>1
  <2>2. ASSUME NEW d \in Threads, call'[d].at = "delete"
        PROVE  call'[d].on = t \/ (call[d].at = "delete" /\ call[d].on = call'[d].on)
    BY <1>1, <1>2, <2>2
  <2>3. QED
    BY <1>1, <1>2, <2>1, <2>2 DEF Deleting
<1>4. QED
  BY <1>3 DEF Live

\* Freeing a timer after its deletion.
LEMMA LiveFree ==
    ASSUME Typed, Exclusive, NEW c \in Threads, call[c].at = "delete",
           call' = [call EXCEPT ![c] = Idle], exists' = exists \ {call[c].on}
    PROVE  Live' = Live
<1>1. /\ call'[c].at = "idle"
      /\ \A d \in Threads : d # c => call'[d] = call[d]
  BY CallSet, CallRecordsUsed
<1>2. Deleting = Deleting' \cup {call[c].on}
  <2>1. ASSUME NEW d \in Threads, call[d].at = "delete"
        PROVE  d = c \/ (call'[d].at = "delete" /\ call'[d].on = call[d].on)
    BY <1>1, <2>1
  <2>2. ASSUME NEW d \in Threads, call'[d].at = "delete"
        PROVE  call[d].at = "delete" /\ call[d].on = call'[d].on
    BY <1>1, <2>2
  <2>3. QED
    BY <2>1, <2>2 DEF Deleting
<1>3. QED
  BY <1>2 DEF Live

\* tal_sw_timer_create: nobody is in a call on a timer that does not exist.
LEMMA LiveCreate ==
    ASSUME Typed, Exclusive, NEW t \in Timers, t \notin exists,
           exists' = exists \cup {t}, call' = call
    PROVE  Live' = Live \cup {t} /\ t \notin Live
<1>1. \A d \in Threads : call[d].at = "delete" => call[d].on # t
  BY DEF Exclusive
<1>2. t \notin Deleting /\ Deleting' = Deleting
  BY <1>1 DEF Deleting
<1>3. QED
  BY <1>2 DEF Live

-----------------------------------------------------------------------------
(* The lists *)

\* The live timers are finitely many.
LEMMA LiveFinite ==
    ASSUME Typed
    PROVE  /\ IsFiniteSet(Live) /\ Cardinality(Live) \in Nat
           /\ Cardinality(Live) <= Cardinality(Timers)
<1>1. Live \in SUBSET Timers
  BY DEF Live, Typed
<1>2. QED
  BY <1>1, FS_Subset, FS_CardinalityType, SwTimerAssumption

\* A timer is started, or starts again.
LEMMA AttachKeeps ==
    ASSUME Typed, ListInv, NEW t \in Live, NEW e \in Nat, Attach(t, e),
           expire_time' = [expire_time EXCEPT ![t] = e],
           list_standby' = list_standby \ {t},
           \A x \in Live : is_running'[x] <=> (x = t \/ is_running[x]),
           running_cnt' = IF is_running[t] THEN running_cnt ELSE running_cnt + 1,
           total_cnt' = total_cnt, Live' = Live
    PROVE  ListInv' /\ list_active' \in Seq(Timers)
<1>1. t \in Timers
  BY DEF Live, Typed
<1>2. /\ list_active \in Seq(Timers) /\ Distinct(list_active)
      /\ expire_time \in [Timers -> Nat] /\ Sorted(list_active, expire_time)
      /\ Retimed(expire_time', expire_time, t, e)
  BY DEF Typed, ListInv, Retimed
<1>3. Holds(list_active', list_active, t, expire_time')
  BY <1>1, <1>2, Attached DEF Attach, Detach
<1>4. is_running[t] <=> t \in Elems(list_active)
  BY DEF ListInv
<1>5. Elems(list_active') = Elems(list_active) \cup {t}
  BY <1>3 DEF Holds
<1>6. running_cnt' = Len(list_active')
  BY <1>3, <1>4 DEF Holds, ListInv
<1>7. \A x \in Live' : is_running'[x] <=> x \in Elems(list_active')
  BY <1>5 DEF ListInv
<1>8. /\ Elems(list_active') \cap list_standby' = {}
      /\ Elems(list_active') \cup list_standby' = Live'
  BY <1>5 DEF ListInv
<1>9. /\ Distinct(list_active') /\ Sorted(list_active', expire_time')
      /\ list_active' \in Seq(Timers)
  BY <1>3 DEF Holds
<1>10. total_cnt' = Cardinality(Live')
  BY DEF ListInv
<1>11. QED
  BY <1>6, <1>7, <1>8, <1>9, <1>10 DEF ListInv, Elems, Distinct, Sorted

\* A running timer stops.
LEMMA StopKeeps ==
    ASSUME Typed, ListInv, NEW t \in Elems(list_active), StopRunning(t),
           expire_time' = expire_time, total_cnt' = total_cnt, Live' = Live
    PROVE  ListInv' /\ list_active' \in Seq(Timers)
<1>1. t \in Live /\ t \in Timers
  BY DEF ListInv, Live, Typed
<1>2. /\ list_active' \in Seq(Timers) /\ Distinct(list_active')
      /\ Elems(list_active') = Elems(list_active) \ {t}
      /\ Len(list_active') = Len(list_active) - 1
      /\ Sorted(list_active', expire_time)
  BY Detached DEF Typed, ListInv, StopRunning, Detach
<1>3. running_cnt' = Len(list_active')
  BY <1>2 DEF ListInv, StopRunning
<1>4. \A x \in Live : is_running'[x] <=> (x # t /\ is_running[x])
  BY <1>1 DEF StopRunning, Typed, Live
<1>5. \A x \in Live' : is_running'[x] <=> x \in Elems(list_active')
  BY <1>2, <1>4 DEF ListInv
<1>6. /\ Elems(list_active') \cap list_standby' = {}
      /\ Elems(list_active') \cup list_standby' = Live'
  BY <1>1, <1>2 DEF ListInv, StopRunning
<1>7. total_cnt' = Cardinality(Live') /\ Sorted(list_active', expire_time')
  BY <1>2 DEF ListInv
<1>8. QED
  BY <1>2, <1>3, <1>5, <1>6, <1>7 DEF ListInv, Elems, Distinct, Sorted

\* Nothing of the lists changes.
LEMMA ListsSame ==
    ASSUME ListInv, Live' = Live, UNCHANGED <<list_active, list_standby, expire_time, is_running,
                                            total_cnt, running_cnt>>
    PROVE  ListInv'
BY DEF ListInv, Elems, Distinct, Sorted

-----------------------------------------------------------------------------
(* The actions: types, calls and lists *)

\* All of the invariant but what concerns the wait.
Core == Typed /\ Exclusive /\ ListInv

\* At first there is no timer and no call.
LEMMA InitCore == Init => Core
<1> SUFFICES ASSUME Init PROVE Core
  OBVIOUS
<1>1. /\ call \in [Threads -> CallRecords]
      /\ \A c \in Threads : call[c].at = "idle" /\ call[c].on = NoTimer
  BY CallRecordsUsed DEF Init
<1>2. Typed
  BY <1>1, SwTimerAssumption DEF Init, Typed, Types, SemMax, FOREVER
<1>3. Exclusive
  BY <1>1 DEF Exclusive
<1>4. Live = {}
  BY DEF Init, Live
<1>5. /\ Len(list_active) = 0 /\ Elems(list_active) = {}
      /\ Distinct(list_active) /\ Sorted(list_active, expire_time)
  BY DEF Init, Elems, Distinct, Sorted
<1>6. ListInv
  BY <1>4, <1>5, FS_EmptySet DEF Init, ListInv
<1>7. QED
  BY <1>2, <1>3, <1>6 DEF Core

\* A new timer is on the standby list.
LEMMA CreateCore ==
    ASSUME Core, NEW t \in Timers, Create(t)
    PROVE  Core'
<1> USE DEF Core
<1>1. /\ t \notin exists /\ exists' = exists \cup {t} /\ list_standby' = list_standby \cup {t}
      /\ expire_time' = [expire_time EXCEPT ![t] = 0]
      /\ is_running' = [is_running EXCEPT ![t] = FALSE]
      /\ total_cnt' = total_cnt + 1
      /\ UNCHANGED <<list_active, running_cnt, call>>
  BY DEF Create
<1>2. Live' = Live \cup {t} /\ t \notin Live
  BY <1>1, LiveCreate
<1>3. Typed'
  BY DEF Create, Typed, thread, Types
<1>4. Exclusive'
  BY <1>1 DEF Exclusive
<1>5. t \notin Elems(list_active) /\ t \notin list_standby
  BY <1>2 DEF ListInv
<1>6. \A x \in Elems(list_active) : expire_time'[x] = expire_time[x]
  <2>1. Elems(list_active) \subseteq Timers
    BY DEF ListInv, Live, Typed
  <2>2. QED
    BY <1>1, <1>5, <2>1 DEF Typed
<1>7. Sorted(list_active, expire_time')
  BY <1>6, SortedElsewhere DEF ListInv
<1>8. total_cnt' = Cardinality(Live')
  BY <1>1, <1>2, LiveFinite, FS_AddElement DEF ListInv
<1>9. \A x \in Live : is_running'[x] = is_running[x]
  BY <1>1, <1>2 DEF Live, Typed
<1>10. is_running'[t] = FALSE
  BY <1>1 DEF Typed
<1>11. \A x \in Live' : is_running'[x] <=> x \in Elems(list_active)
  BY <1>2, <1>5, <1>9, <1>10 DEF ListInv
<1>12. ListInv'
  BY <1>1, <1>2, <1>5, <1>7, <1>8, <1>11 DEF ListInv, Elems, Distinct, Sorted
<1>13. QED
  BY <1>3, <1>4, <1>12

\* A start that has only read the clock leaves the lists alone.
LEMMA StartReadCore ==
    ASSUME Core, NEW c \in Threads, NEW t \in Timers, StartRead(c, t)
    PROVE  Core'
<1> USE DEF Core
<1> DEFINE r == [at |-> "start", on |-> t, ms |-> now]
<1>1. r \in CallRecords /\ r.at = "start" /\ r.on = t
  BY CallRecordsUsed DEF Typed
<1>2. /\ BeginCall(c, t) /\ call' = [call EXCEPT ![c] = r]
      /\ UNCHANGED <<now, sem>> /\ UNCHANGED lists /\ UNCHANGED thread
  BY DEF StartRead
<1> HIDE DEF r
<1>3. call[c].at = "idle" /\ calls' = calls + 1 /\ calls < MaxCalls
  BY <1>2 DEF BeginCall
<1>4. call' \in [Threads -> CallRecords]
  BY <1>1, <1>2, CallSet
<1>5. Typed'
  BY <1>2, <1>3, <1>4, SwTimerAssumption DEF Typed, lists, thread
<1>6. Exclusive'
  BY <1>1, <1>2, ExclusiveBegin DEF lists
<1>7. Live' = Live
  BY <1>1, <1>2, <1>3, LiveSame DEF lists
<1>8. ListInv'
  BY <1>2, <1>7, ListsSame DEF lists
<1>9. QED
  BY <1>5, <1>6, <1>8

\* A start puts its timer in its place on the list of running timers.
LEMMA StartCore ==
    ASSUME Core, NEW c \in Threads, NEW time_ms \in Intervals, NEW timer_type \in Types,
           Start(c, time_ms, timer_type)
    PROVE  Core'
<1> USE DEF Core
<1> DEFINE t == call[c].on
           i == IF time_ms # 0 THEN time_ms ELSE interval[t]
           e == call[c].ms + i
           r == [at |-> "post", on |-> t, ms |-> 0]
<1>1. /\ call[c].at = "start"
      /\ is_running' = [is_running EXCEPT ![t] = TRUE]
      /\ running_cnt' = IF is_running[t] THEN running_cnt ELSE running_cnt + 1
      /\ interval' = [interval EXCEPT ![t] = i]
      /\ type' = [type EXCEPT ![t] = timer_type]
      /\ expire_time' = [expire_time EXCEPT ![t] = e]
      /\ list_standby' = list_standby \ {t}
      /\ Attach(t, e)
      /\ call' = [call EXCEPT ![c] = r]
      /\ UNCHANGED <<now, exists, total_cnt, sem, calls>> /\ UNCHANGED thread
  BY DEF Start, LeaveToPost
<1>2. t \in Live /\ t \in Timers
  BY <1>1, CallOnLive DEF Live, Typed
<1>3. call[c].ms \in Nat /\ interval[t] \in Nat
  BY <1>2, SwTimerAssumption DEF Typed, CallRecords
<1>4. i \in Nat /\ e \in Nat
  BY <1>3, SwTimerAssumption
<1>5. r \in CallRecords /\ r.at = "post" /\ r.on = t
  BY <1>2, SwTimerAssumption DEF CallRecords
<1> HIDE DEF t, i, e, r
<1>6. call' \in [Threads -> CallRecords]
  BY <1>1, <1>5, CallSet
<1>7. Exclusive'
  BY <1>1, <1>5, ExclusiveOn DEF t
<1>8. Live' = Live
  BY <1>1, <1>5, LiveSame
<1>9. \A x \in Live : is_running'[x] <=> (x = t \/ is_running[x])
  BY <1>1, <1>2 DEF Live, Typed
<1>10. ListInv' /\ list_active' \in Seq(Timers)
  BY <1>1, <1>2, <1>4, <1>8, <1>9, AttachKeeps
<1>11. /\ expire_time' \in [Timers -> Nat] /\ interval' \in [Timers -> Nat]
       /\ type' \in [Timers -> Types] /\ list_standby' \subseteq Timers
  BY <1>1, <1>2, <1>4 DEF Typed
<1>12. is_running' \in [Timers -> BOOLEAN]
  BY <1>1, <1>2 DEF Typed
<1>13. Typed'
  BY <1>1, <1>6, <1>10, <1>11, <1>12 DEF Typed, thread
<1>14. QED
  BY <1>7, <1>10, <1>13

\* A stop moves a running timer and leaves another where it is.
LEMMA StopCore ==
    ASSUME Core, NEW c \in Threads, NEW t \in Timers, Stop(c, t)
    PROVE  Core'
<1> USE DEF Core
<1> DEFINE r == [at |-> "post", on |-> t, ms |-> 0]
<1>1. r \in CallRecords /\ r.at = "post" /\ r.on = t
  BY SwTimerAssumption DEF CallRecords
<1>2. /\ BeginCall(c, t) /\ call' = [call EXCEPT ![c] = r]
      /\ UNCHANGED <<now, exists, expire_time, interval, type, total_cnt, sem>>
      /\ UNCHANGED thread
  BY DEF Stop, LeaveToPost
<1> HIDE DEF r
<1>3. call[c].at = "idle" /\ calls' = calls + 1 /\ calls < MaxCalls
  BY <1>2 DEF BeginCall
<1>4. call' \in [Threads -> CallRecords]
  BY <1>1, <1>2, CallSet
<1>5. Exclusive'
  BY <1>1, <1>2, ExclusiveBegin
<1>6. Live' = Live
  BY <1>1, <1>2, <1>3, LiveSame
<1>7. t \in Live
  BY <1>2, BeginFree
<1>8. /\ ListInv' /\ list_active' \in Seq(Timers)
      /\ is_running' \in [Timers -> BOOLEAN] /\ list_standby' \subseteq Timers
  <2>1. CASE is_running[t] /\ StopRunning(t)
    <3>1. t \in Elems(list_active)
      BY <1>7, <2>1 DEF ListInv
    <3>2. ListInv' /\ list_active' \in Seq(Timers)
      BY <1>2, <1>6, <2>1, <3>1, StopKeeps
    <3>3. is_running' \in [Timers -> BOOLEAN] /\ list_standby' \subseteq Timers
      BY <2>1 DEF StopRunning, Typed
    <3>4. QED
      BY <3>2, <3>3
  <2>2. CASE UNCHANGED <<is_running, running_cnt, list_active, list_standby>>
    <3>1. ListInv'
      BY <1>2, <1>6, <2>2, ListsSame
    <3>2. QED
      BY <2>2, <3>1 DEF Typed
  <2>3. QED
    BY <2>1, <2>2 DEF Stop
<1>9. Typed'
  BY <1>2, <1>3, <1>4, <1>8, SwTimerAssumption DEF Typed, thread
<1>10. QED
  BY <1>5, <1>8, <1>9

\* A trigger moves a running timer to the front.
LEMMA TriggerCore ==
    ASSUME Core, NEW c \in Threads, NEW t \in Timers, Trigger(c, t)
    PROVE  Core'
<1> USE DEF Core
<1> DEFINE r == [at |-> "post", on |-> t, ms |-> 0]
<1>1. r \in CallRecords /\ r.at = "post" /\ r.on = t
  BY SwTimerAssumption DEF CallRecords
<1>2. /\ BeginCall(c, t) /\ call' = [call EXCEPT ![c] = r]
      /\ expire_time' = [expire_time EXCEPT ![t] = 0]
      /\ list_active' = IF is_running[t] THEN <<t>> \o Detach(t) ELSE list_active
      /\ UNCHANGED <<now, exists, list_standby, interval, is_running, type, total_cnt,
                     running_cnt, sem>>
      /\ UNCHANGED thread
  BY DEF Trigger, LeaveToPost
<1> HIDE DEF r
<1>3. call[c].at = "idle" /\ calls' = calls + 1 /\ calls < MaxCalls
  BY <1>2 DEF BeginCall
<1>4. call' \in [Threads -> CallRecords]
  BY <1>1, <1>2, CallSet
<1>5. Exclusive'
  BY <1>1, <1>2, ExclusiveBegin
<1>6. Live' = Live
  BY <1>1, <1>2, <1>3, LiveSame
<1>7. t \in Live
  BY <1>2, BeginFree
<1>8. /\ list_active' \in Seq(Timers) /\ Distinct(list_active')
      /\ Sorted(list_active', expire_time')
      /\ Elems(list_active') = Elems(list_active) /\ Len(list_active') = Len(list_active)
  <2>1. CASE is_running[t]
    <3>1. t \in Elems(list_active)
      BY <1>7, <2>1 DEF ListInv
    <3>2. /\ list_active \in Seq(Timers) /\ Distinct(list_active)
          /\ expire_time \in [Timers -> Nat] /\ Sorted(list_active, expire_time)
          /\ Retimed(expire_time', expire_time, t, 0)
      BY <1>2 DEF Typed, ListInv, Retimed
    <3>3. Holds(list_active', list_active, t, expire_time')
      BY <1>2, <2>1, <3>1, <3>2, PutFirst DEF Detach
    <3>4. QED
      BY <3>1, <3>3 DEF Holds
  <2>2. CASE ~is_running[t]
    <3>1. t \notin Elems(list_active) /\ list_active' = list_active
      BY <1>2, <1>7, <2>2 DEF ListInv
    <3>2. \A x \in Elems(list_active) : expire_time'[x] = expire_time[x]
      <4>1. Elems(list_active) \subseteq Timers
        BY DEF ListInv, Live, Typed
      <4>2. QED
        BY <1>2, <3>1, <4>1 DEF Typed
    <3>3. Sorted(list_active, expire_time')
      BY <3>2, SortedElsewhere DEF ListInv
    <3>4. QED
      BY <3>1, <3>3 DEF ListInv, Typed
  <2>3. QED
    BY <2>1, <2>2
<1>9. ListInv'
  <2>1. /\ running_cnt' = Len(list_active') /\ total_cnt' = Cardinality(Live')
        /\ Elems(list_active') \cap list_standby' = {}
        /\ Elems(list_active') \cup list_standby' = Live'
    BY <1>2, <1>6, <1>8 DEF ListInv
  <2>2. \A x \in Live' : is_running'[x] <=> x \in Elems(list_active')
    BY <1>2, <1>6, <1>8 DEF ListInv
  <2>3. QED
    BY <1>8, <2>1, <2>2 DEF ListInv, Elems, Distinct, Sorted
<1>10. expire_time' \in [Timers -> Nat]
  BY <1>2 DEF Typed
<1>11. Typed'
  BY <1>2, <1>3, <1>4, <1>8, <1>10, SwTimerAssumption DEF Typed, thread
<1>12. QED
  BY <1>5, <1>9, <1>11

\* A deletion takes its timer off both lists before the timer is freed.
LEMMA DeleteCore ==
    ASSUME Core, NEW c \in Threads, NEW t \in Timers, Delete(c, t)
    PROVE  Core'
<1> USE DEF Core
<1> DEFINE r == [at |-> "delete", on |-> t, ms |-> 0]
<1>1. r \in CallRecords /\ r.at = "delete" /\ r.on = t
  BY SwTimerAssumption DEF CallRecords
<1>2. /\ BeginCall(c, t) /\ call' = [call EXCEPT ![c] = r]
      /\ list_active' = Detach(t)
      /\ list_standby' = list_standby \ {t}
      /\ total_cnt' = total_cnt - 1
      /\ running_cnt' = IF is_running[t] THEN running_cnt - 1 ELSE running_cnt
      /\ UNCHANGED <<now, exists, expire_time, interval, is_running, type, sem>>
      /\ UNCHANGED thread
  BY DEF Delete
<1>3. call[c].at = "idle" /\ calls' = calls + 1 /\ calls < MaxCalls
  BY <1>2 DEF BeginCall
<1>4. call' \in [Threads -> CallRecords]
  BY <1>1, <1>2, CallSet
<1>5. Exclusive'
  BY <1>1, <1>2, ExclusiveBegin
<1>6. Live' = Live \ {t}
  BY <1>2, <1>3, LiveDelete
<1> HIDE DEF r
<1>7. t \in Live
  BY <1>2, BeginFree
<1>8. is_running[t] <=> t \in Elems(list_active)
  BY <1>7 DEF ListInv
<1>9. /\ list_active' \in Seq(Timers) /\ Distinct(list_active')
      /\ Elems(list_active') = Elems(list_active) \ {t}
      /\ Len(list_active') = IF t \in Elems(list_active)
                             THEN Len(list_active) - 1 ELSE Len(list_active)
      /\ Sorted(list_active', expire_time')
  BY <1>2, Detached DEF Typed, ListInv, Detach
<1>10. ListInv'
  <2>1. running_cnt' = Len(list_active')
    BY <1>2, <1>8, <1>9 DEF ListInv
  <2>2. total_cnt' = Cardinality(Live')
    BY <1>2, <1>6, <1>7, LiveFinite, FS_RemoveElement DEF ListInv
  <2>3. /\ Elems(list_active') \cap list_standby' = {}
        /\ Elems(list_active') \cup list_standby' = Live'
    BY <1>2, <1>6, <1>9 DEF ListInv
  <2>4. \A x \in Live' : is_running'[x] <=> x \in Elems(list_active')
    BY <1>2, <1>6, <1>9 DEF ListInv
  <2>5. QED
    BY <1>9, <2>1, <2>2, <2>3, <2>4 DEF ListInv, Elems, Distinct, Sorted
<1>11. Typed'
  BY <1>2, <1>3, <1>4, <1>9, SwTimerAssumption DEF Typed, thread
<1>12. QED
  BY <1>5, <1>10, <1>11

\* The post leaves the lists alone; a timer that is freed is on neither.
LEMMA PostCore ==
    ASSUME Core, NEW c \in Threads, Post(c)
    PROVE  Core'
<1> USE DEF Core
<1>1. /\ call[c].at \in {"post", "delete"} /\ call' = [call EXCEPT ![c] = Idle]
      /\ exists' = IF call[c].at = "delete" THEN exists \ {call[c].on} ELSE exists
      /\ UNCHANGED <<now, list_active, list_standby, expire_time, interval, is_running,
                     type, total_cnt, running_cnt, calls>>
      /\ UNCHANGED thread
  BY DEF Post
<1>2. Idle \in CallRecords /\ Idle.at = "idle"
  BY CallRecordsUsed
<1>3. call' \in [Threads -> CallRecords]
  BY <1>1, <1>2, CallSet
<1>4. Exclusive'
  BY <1>1, ExclusiveEnd
<1>5. Live' = Live
  <2>1. CASE call[c].at = "delete"
    BY <1>1, <2>1, LiveFree
  <2>2. CASE call[c].at = "post"
    BY <1>1, <1>2, <2>2, LiveSame
  <2>3. QED
    BY <1>1, <2>1, <2>2
<1>6. ListInv'
  BY <1>1, <1>5, ListsSame
<1>7. sem' \in 0..SemMax
  BY DEF Post, PostSem, Typed, SemMax
<1>8. exists' \subseteq Timers
  BY <1>1 DEF Typed
<1>9. Typed'
  BY <1>1, <1>3, <1>7, <1>8 DEF Typed, thread
<1>10. QED
  BY <1>4, <1>6, <1>9

\* The first running timer is one of the list's.
LEMMA HeadRuns ==
    ASSUME Typed, list_active # << >>
    PROVE  Head(list_active) \in Elems(list_active) /\ Head(list_active) \in Timers
<1>1. list_active \in Seq(Timers)
  BY DEF Typed
<1>2. Len(list_active) \in Nat \ {0} /\ Head(list_active) = list_active[1]
  BY <1>1, EmptySeq
<1>3. 1 \in 1..Len(list_active)
  BY <1>2
<1>4. Head(list_active) \in Timers
  BY <1>1, HeadTailProperties
<1>5. QED
  BY <1>2, <1>3, <1>4 DEF Elems

\* The thread's steps: a dispatched timer stops or is put back in its new place.
LEMMA ThreadCore ==
    ASSUME Core, ThreadStep
    PROVE  Core'
<1> USE DEF Core
<1>1. ASSUME UNCHANGED <<exists, call>> PROVE Exclusive' /\ Live' = Live
  BY <1>1 DEF Exclusive, Live, Deleting
<1>2. CASE ThreadArm
  <2>1. Typed'
    BY <1>2, SwTimerAssumption DEF ThreadArm, Typed, lists, FOREVER
  <2>2. QED
    BY <1>1, <1>2, <2>1, ListsSame DEF ThreadArm, lists
<1>3. CASE ThreadWake
  <2>1. Typed'
    BY <1>3 DEF ThreadWake, Typed, lists, SemMax
  <2>2. QED
    BY <1>1, <1>3, <2>1, ListsSame DEF ThreadWake, lists
<1>4. CASE ThreadRead
  <2>1. Typed'
    BY <1>4 DEF ThreadRead, Typed, lists
  <2>2. QED
    BY <1>1, <1>4, <2>1, ListsSame DEF ThreadRead, lists
<1>5. CASE DispatchNone
  <2>1. next_expired' \in Nat \cup {FOREVER}
    <3>1. CASE UNCHANGED next_expired
      BY <3>1 DEF Typed
    <3>2. CASE /\ list_active # << >>
               /\ expire_time[Head(list_active)] > nowMS
               /\ next_expired' = expire_time[Head(list_active)] - nowMS
      <4>1. expire_time[Head(list_active)] \in Nat /\ nowMS \in Nat
        BY <3>2, HeadTailProperties, SwTimerAssumption DEF Typed
      <4>2. QED
        BY <3>2, <4>1
    <3>3. QED
      BY <1>5, <3>1, <3>2 DEF DispatchNone
  <2>2. Typed'
    BY <1>5, <2>1 DEF DispatchNone, Typed, lists
  <2>3. QED
    BY <1>1, <1>5, <2>2, ListsSame DEF DispatchNone, lists
<1>6. CASE DispatchExpired
  <2> DEFINE t == Head(list_active)
  <2>1. /\ list_active # << >> /\ timer' = t /\ tpc' = "fire"
        /\ \/ StopRunning(t) /\ UNCHANGED expire_time
           \/ CycleAgain(t)
        /\ UNCHANGED <<now, exists, interval, type, total_cnt, sem, nowMS, next_expired,
                       wakeAt, call, calls>>
    BY <1>6 DEF DispatchExpired
  <2>2. t \in Elems(list_active) /\ t \in Timers
    BY <2>1, HeadRuns
  <2> HIDE DEF t
  <2>3. t \in Live /\ is_running[t] /\ t \notin list_standby
    BY <2>2 DEF ListInv
  <2>4. Exclusive' /\ Live' = Live
    BY <1>1, <2>1
  <2>5. /\ ListInv' /\ list_active' \in Seq(Timers)
        /\ is_running' \in [Timers -> BOOLEAN] /\ list_standby' \subseteq Timers
        /\ expire_time' \in [Timers -> Nat]
    <3>1. CASE StopRunning(t) /\ UNCHANGED expire_time
      <4>1. ListInv' /\ list_active' \in Seq(Timers)
        BY <2>1, <2>2, <2>4, <3>1, StopKeeps
      <4>2. is_running' \in [Timers -> BOOLEAN] /\ list_standby' \subseteq Timers
        BY <2>2, <3>1 DEF StopRunning, Typed
      <4>3. QED
        BY <3>1, <4>1, <4>2 DEF Typed
    <3>2. CASE CycleAgain(t)
      <4> DEFINE e == nowMS + interval[t]
      <4>1. e \in Nat
        BY <2>2, SwTimerAssumption DEF Typed
      <4>2. /\ expire_time' = [expire_time EXCEPT ![t] = e] /\ Attach(t, e)
            /\ UNCHANGED <<list_standby, is_running, running_cnt>>
        BY <3>2 DEF CycleAgain
      <4> HIDE DEF e
      <4>3. list_standby' = list_standby \ {t}
        BY <2>3, <4>2
      <4>4. \A x \in Live : is_running'[x] <=> (x = t \/ is_running[x])
        BY <2>3, <4>2
      <4>5. running_cnt' = IF is_running[t] THEN running_cnt ELSE running_cnt + 1
        BY <2>3, <4>2
      <4>6. ListInv' /\ list_active' \in Seq(Timers)
        BY <2>1, <2>3, <2>4, <4>1, <4>2, <4>3, <4>4, <4>5, AttachKeeps
      <4>7. QED
        BY <2>2, <4>1, <4>2, <4>6 DEF Typed
    <3>3. QED
      BY <2>1, <3>1, <3>2
  <2>6. Typed'
    BY <2>1, <2>2, <2>5 DEF Typed
  <2>7. QED
    BY <2>4, <2>5, <2>6
<1>7. CASE Fire
  <2>1. Typed'
    BY <1>7 DEF Fire, Typed, lists
  <2>2. QED
    BY <1>1, <1>7, <2>1, ListsSame DEF Fire, lists
<1>8. CASE CallbackEnd
  <2>1. Typed'
    BY <1>8 DEF CallbackEnd, Typed, lists
  <2>2. QED
    BY <1>1, <1>8, <2>1, ListsSame DEF CallbackEnd, lists
<1>9. QED
  BY <1>2, <1>3, <1>4, <1>5, <1>6, <1>7, <1>8 DEF ThreadStep

\* Every step keeps types, calls and lists.
LEMMA NextCore == Core /\ [Next]_vars => Core'
<1> SUFFICES ASSUME Core, [Next]_vars PROVE Core'
  OBVIOUS
<1>1. ASSUME UNCHANGED <<exists, call>> PROVE Exclusive' /\ Live' = Live
  BY <1>1 DEF Core, Exclusive, Live, Deleting
<1>2. CASE Tick
  <2>1. Typed'
    BY <1>2, SwTimerAssumption DEF Tick, Core, Typed, lists, thread
  <2>2. QED
    BY <1>1, <1>2, <2>1, ListsSame DEF Tick, Core, lists
<1>3. CASE UNCHANGED vars
  <2>1. Typed'
    BY <1>3 DEF vars, Core, Typed, lists, thread
  <2>2. QED
    BY <1>1, <1>3, <2>1, ListsSame DEF vars, Core, lists
<1>4. QED
  BY <1>2, <1>3, CreateCore, StartReadCore, StartCore, StopCore, TriggerCore, DeleteCore,
     PostCore, ThreadCore DEF Next

-----------------------------------------------------------------------------
(* No wakeup is lost *)

\* While a caller has still to post, nothing is promised.
LEMMA PostingHolds ==
    ASSUME Typed, NEW c \in Threads, NEW t \in Timers, NEW at \in {"post", "delete"},
           call' = [call EXCEPT ![c] = [at |-> at, on |-> t, ms |-> 0]]
    PROVE  NoLostWakeup'
<1> DEFINE r == [at |-> at, on |-> t, ms |-> 0]
<1>1. r \in CallRecords /\ r.at = at
  BY SwTimerAssumption DEF CallRecords
<1>2. call'[c] = r
  BY <1>1, CallSet
<1> HIDE DEF r
<1>3. c \in Posting'
  BY <1>1, <1>2 DEF Posting
<1>4. QED
  BY <1>3 DEF NoLostWakeup

\* Neither the thread's timeout nor what it depends on has changed.
LEMMA PromiseKept ==
    ASSUME NoLostWakeup, tpc' \in {"arm", "wait"} => tpc \in {"arm", "wait"},
           sem' = 0 => sem = 0, Posting' = {} => Posting = {},
           UNCHANGED <<list_active, next_expired, nowMS>>,
           list_active # << >> => expire_time'[Head(list_active)] = expire_time[Head(list_active)]
    PROVE  NoLostWakeup'
BY DEF NoLostWakeup

\* Every change of the list leaves a caller that has still to post, or a token.
LEMMA NextWakeup == Core /\ NoLostWakeup /\ [Next]_vars => NoLostWakeup'
<1> SUFFICES ASSUME Core, NoLostWakeup, [Next]_vars PROVE NoLostWakeup'
  OBVIOUS
<1>0. Typed /\ Exclusive /\ ListInv
  BY DEF Core
<1>1. ASSUME UNCHANGED call PROVE Posting' = Posting
  BY <1>1 DEF Posting
<1>2. ASSUME NEW t \in Timers, Create(t) PROVE NoLostWakeup'
  <2>1. /\ t \notin exists /\ expire_time' = [expire_time EXCEPT ![t] = 0]
        /\ UNCHANGED <<list_active, sem, call>> /\ UNCHANGED thread
    BY <1>2 DEF Create
  <2>2. list_active # << >> => expire_time'[Head(list_active)] = expire_time[Head(list_active)]
    <3>1. Elems(list_active) \subseteq exists
      BY <1>0 DEF ListInv, Live
    <3>2. QED
      BY <1>0, <2>1, <3>1, HeadRuns DEF Typed
  <2>3. QED
    BY <1>1, <2>1, <2>2, PromiseKept DEF thread
<1>3. ASSUME NEW c \in Threads, NEW t \in Timers, StartRead(c, t) PROVE NoLostWakeup'
  <2> DEFINE r == [at |-> "start", on |-> t, ms |-> now]
  <2>1. r \in CallRecords
    BY <1>0, CallRecordsUsed DEF Typed
  <2>2. /\ call[c].at = "idle" /\ call' = [call EXCEPT ![c] = r]
        /\ UNCHANGED <<sem>> /\ UNCHANGED lists /\ UNCHANGED thread
    BY <1>3 DEF StartRead, BeginCall
  <2> HIDE DEF r
  <2>3. \A d \in Threads : d # c => call'[d] = call[d]
    BY <1>0, <2>1, <2>2, CallSet
  <2>4. Posting \subseteq Posting'
    BY <2>2, <2>3 DEF Posting
  <2>5. QED
    BY <2>2, <2>4, PromiseKept DEF lists, thread
<1>4. ASSUME NEW c \in Threads, NEW time_ms \in Intervals, NEW timer_type \in Types,
             Start(c, time_ms, timer_type)
      PROVE  NoLostWakeup'
  <2>1. /\ call[c].at = "start"
        /\ call' = [call EXCEPT ![c] = [at |-> "post", on |-> call[c].on, ms |-> 0]]
    BY <1>4 DEF Start, LeaveToPost
  <2>2. call[c].on \in Timers
    BY <1>0, <2>1, CallOnLive DEF Live, Typed
  <2>3. QED
    BY <1>0, <2>1, <2>2, PostingHolds
<1>5. ASSUME NEW c \in Threads, NEW t \in Timers, Stop(c, t) \/ Trigger(c, t) \/ Delete(c, t)
      PROVE  NoLostWakeup'
  <2>1. \E at \in {"post", "delete"} : call' = [call EXCEPT ![c] = [at |-> at, on |-> t, ms |-> 0]]
    BY <1>5 DEF Stop, Trigger, Delete, LeaveToPost
  <2>2. QED
    BY <1>0, <2>1, PostingHolds
<1>6. ASSUME NEW c \in Threads, Post(c) PROVE NoLostWakeup'
  <2>1. sem' # 0
    BY <1>0, <1>6 DEF Post, PostSem, Typed, SemMax
  <2>2. QED
    BY <2>1 DEF NoLostWakeup
<1>7. CASE ThreadStep
  <2>1. CASE ThreadArm
    BY <1>1, <2>1, PromiseKept DEF ThreadArm, lists
  <2>2. CASE ThreadWake \/ ThreadRead \/ DispatchExpired \/ Fire \/ CallbackEnd
    <3>1. tpc' \notin {"arm", "wait"}
      BY <2>2 DEF ThreadWake, ThreadRead, DispatchExpired, Fire, CallbackEnd
    <3>2. QED
      BY <3>1 DEF NoLostWakeup
  <2>3. CASE DispatchNone
    <3>1. SUFFICES ASSUME list_active' # << >>
                   PROVE  /\ next_expired' # FOREVER
                          /\ nowMS' + next_expired' <= expire_time'[Head(list_active')]
      BY DEF NoLostWakeup
    <3>2. UNCHANGED <<list_active, expire_time, nowMS>>
      BY <2>3 DEF DispatchNone, lists
    <3>3. /\ expire_time[Head(list_active)] > nowMS
          /\ next_expired' = expire_time[Head(list_active)] - nowMS
      BY <2>3, <3>1, <3>2 DEF DispatchNone
    <3>4. expire_time[Head(list_active)] \in Nat /\ nowMS \in Nat
      BY <1>0, <3>1, <3>2, HeadRuns, SwTimerAssumption DEF Typed
    <3>5. QED
      BY <3>2, <3>3, <3>4 DEF FOREVER
  <2>4. QED
    BY <1>7, <2>1, <2>2, <2>3 DEF ThreadStep
<1>8. CASE Tick
  BY <1>1, <1>8, PromiseKept DEF Tick, lists, thread
<1>9. CASE UNCHANGED vars
  BY <1>1, <1>9, PromiseKept DEF vars, lists, thread
<1>10. QED
  BY <1>2, <1>3, <1>4, <1>5, <1>6, <1>7, <1>8, <1>9 DEF Next

-----------------------------------------------------------------------------
(* The theorems *)

\* The inductive invariant holds throughout.
LEMMA Inductive == Spec => []IInv
<1>1. Init => IInv
  <2>1. Init => NoLostWakeup
    BY DEF Init, NoLostWakeup
  <2>2. QED
    BY <2>1, InitCore DEF IInv, Core
<1>2. IInv /\ [Next]_vars => IInv'
  <2>1. IInv <=> Core /\ NoLostWakeup
    BY DEF IInv, Core
  <2>2. IInv' <=> Core' /\ NoLostWakeup'
    BY DEF IInv, Core
  <2>3. QED
    BY <2>1, <2>2, NextCore, NextWakeup
<1>3. QED
  BY <1>1, <1>2, PTL DEF Spec

\* The running timers are as many as the list of them is long.
LEMMA ActiveCounted ==
    ASSUME Typed, ListInv
    PROVE  /\ Active = Elems(list_active)
           /\ Cardinality(Active) = Len(list_active)
           /\ Cardinality(Active) <= Cardinality(Timers)
<1>1. Active = Elems(list_active)
  BY DEF Active, Elems
<1>2. Cardinality(Active) = Len(list_active)
  BY <1>1, DistinctCounts DEF Typed, ListInv
<1>3. Active \in SUBSET Timers
  BY <1>1 DEF ListInv, Live, Typed
<1>4. QED
  BY <1>1, <1>2, <1>3, FS_Subset, SwTimerAssumption

\* TypeOK: every variable keeps its type, and neither counter of s_timer_mgr leaves
\* 0..Cardinality(Timers) however creations, starts, expiries, stops and deletions mix.
THEOREM TypeCorrect == Spec => []TypeOK
<1>1. IInv => TypeOK
  <2> SUFFICES ASSUME IInv PROVE TypeOK
    OBVIOUS
  <2>1. Typed /\ ListInv
    BY DEF IInv
  <2>2. total_cnt \in 0..Cardinality(Timers)
    <3>1. Cardinality(Timers) \in Nat
      BY FS_CardinalityType, SwTimerAssumption
    <3>2. QED
      BY <2>1, <3>1, LiveFinite DEF ListInv
  <2>3. running_cnt \in 0..Cardinality(Timers)
    <3>1. Cardinality(Timers) \in Nat
      BY FS_CardinalityType, SwTimerAssumption
    <3>2. Len(list_active) \in Nat
      BY <2>1, LenProperties DEF Typed
    <3>3. QED
      BY <2>1, <3>1, <3>2, ActiveCounted DEF ListInv
  <2>4. QED
    BY <2>1, <2>2, <2>3 DEF Typed, TypeOK, CallRecords
<1>2. QED
  BY <1>1, Inductive, PTL

\* ActiveSorted: start, re-arming, trigger, stop and deletion all leave the list that
\* the thread reads from its head in order of expiry.
THEOREM StaysSorted == Spec => []ActiveSorted
<1>1. IInv => ActiveSorted
  BY DEF IInv, ListInv, Sorted, ActiveSorted
<1>2. QED
  BY <1>1, Inductive, PTL

\* ListsConsistent: a live timer is on the one list that is_running names, once, and
\* both counters count.
THEOREM ListsAgree == Spec => []ListsConsistent
<1>1. IInv => ListsConsistent
  <2> SUFFICES ASSUME IInv PROVE ListsConsistent
    OBVIOUS
  <2>1. Typed /\ ListInv
    BY DEF IInv
  <2>2. Active = Elems(list_active) /\ Cardinality(Active) = Len(list_active)
    BY <2>1, ActiveCounted
  <2>3. Live = exists \ Deleting
    BY DEF Live
  <2>4. QED
    BY <2>1, <2>2, <2>3 DEF ListInv, ListsConsistent
<1>2. QED
  BY <1>1, Inductive, PTL

\* NoLostWakeup: with no token and no caller about to post one, the thread's timeout
\* ends no later than the first running timer expires.
THEOREM WakesInTime == Spec => []NoLostWakeup
<1>1. IInv => NoLostWakeup
  BY DEF IInv
<1>2. QED
  BY <1>1, Inductive, PTL
=============================================================================
