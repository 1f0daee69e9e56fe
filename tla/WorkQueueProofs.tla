--------------------------- MODULE WorkQueueProofs ---------------------------
(***************************************************************************)
(* Proofs about WorkQueue, for any clients, callbacks, arguments, queue    *)
(* length and number of acceptances.                                       *)
(***************************************************************************)
EXTENDS WorkQueue, TLAPS, FiniteSetTheorems, SequenceTheorems

-----------------------------------------------------------------------------
(* Facts about the list *)

\* An insertion at either end adds one element (tuya_queue_input, _instant).
LEMMA EnqueueFacts ==
    ASSUME NEW item \in Items, queue \in Seq(Items), Enqueue(item)
    PROVE  /\ queue' \in Seq(Items)
           /\ Len(queue') = Len(queue) + 1
           /\ queue_free > 0
           /\ queue_free' = queue_free - 1
           /\ queue' = Append(queue, item) \/ queue' = <<item>> \o queue
<1>1. CASE item.instant
  <2>1. queue' = <<item>> \o queue
    BY <1>1 DEF Enqueue
  <2>2. <<item>> \in Seq(Items) /\ Len(<<item>>) = 1
    OBVIOUS
  <2> QED
    BY <2>1, <2>2 DEF Enqueue
<1>2. CASE ~item.instant
  BY <1>2 DEF Enqueue
<1> QED
  BY <1>1, <1>2

\* tuya_queue_output takes an element only from a list that has one.
LEMMA TakeFrontFacts ==
    ASSUME queue \in Seq(Items), queue_free \in 0..QueueLen, SlotsCounted, TakeFront
    PROVE  /\ queue # << >>
           /\ Head(queue) \in Items
           /\ queue' = Tail(queue)
           /\ queue' \in Seq(Items)
           /\ Len(queue') = Len(queue) - 1
           /\ queue_free' = queue_free + 1
           /\ queue_free < QueueLen
           /\ work_item' = Head(queue)
<1>1. Len(queue) > 0
  BY WorkQueueAssumption DEF TakeFront, SlotsCounted
<1> QED
  BY <1>1 DEF TakeFront

-----------------------------------------------------------------------------
(* Types *)

Typed == TypeOK /\ SlotsCounted

LEMMA TypedInit == Init => Typed
<1> SUFFICES ASSUME Init PROVE Typed
  OBVIOUS
<1>1. /\ queue \in Seq(Items) /\ ran \in Seq(Items)
      /\ Len(queue) = 0
  BY DEF Init
<1>2. call \in [Threads -> {"idle", "post"}]
  BY DEF Init
<1>3. /\ queue_free \in 0..QueueLen /\ sem \in 0..QueueLen
      /\ accepted \in 0..MaxItems /\ cancelled \in SUBSET (1..MaxItems)
  BY WorkQueueAssumption DEF Init
<1>4. /\ thrdRunSta \in ThreadStates /\ nodeFreed \in BOOLEAN /\ wpc \in WorkerSteps
      /\ rel \in ReleaseSteps /\ work_item \in Items \cup {NoItem}
  BY DEF Init, ThreadStates, WorkerSteps, ReleaseSteps
<1>5. SlotsCounted
  BY <1>1, WorkQueueAssumption DEF Init, SlotsCounted
<1> QED
  BY <1>1, <1>2, <1>3, <1>4, <1>5 DEF Typed, TypeOK

LEMMA TypedSchedule ==
    ASSUME Typed, NEW t \in Threads, NEW cb \in Cbs, NEW data \in Datas \cup {NULL},
           NEW instant \in BOOLEAN, Schedule(t, cb, data, instant)
    PROVE  Typed'
<1> DEFINE item == [id |-> accepted + 1, cb |-> cb, data |-> data, instant |-> instant]
<1>1. item \in Items /\ accepted' \in 0..MaxItems
  BY WorkQueueAssumption DEF Typed, TypeOK, Schedule, Items
<1>2. Enqueue(item)
  BY DEF Schedule
<1>3. /\ queue' \in Seq(Items)
      /\ Len(queue') = Len(queue) + 1
      /\ queue_free > 0
      /\ queue_free' = queue_free - 1
  <2> HIDE DEF item
  <2> QED
    BY <1>1, <1>2, EnqueueFacts DEF Typed, TypeOK
<1>4. call' \in [Threads -> {"idle", "post"}]
  BY DEF Typed, TypeOK, Schedule
<1>5. TypeOK'
  BY <1>1, <1>3, <1>4, WorkQueueAssumption DEF Typed, TypeOK, Schedule
<1>6. SlotsCounted'
  BY <1>3, WorkQueueAssumption DEF Typed, TypeOK, SlotsCounted
<1> QED
  BY <1>5, <1>6 DEF Typed

LEMMA TypedCancel ==
    ASSUME Typed, NEW t \in Threads, NEW cb \in Cbs \cup {NULL},
           NEW data \in Datas \cup {NULL}, Cancel(t, cb, data)
    PROVE  Typed'
<1>1. \A i \in 1..Len(queue) : queue[i] \in Items /\ Disarmed(queue[i]) \in Items
  <2> SUFFICES ASSUME NEW i \in 1..Len(queue)
               PROVE  queue[i] \in Items /\ Disarmed(queue[i]) \in Items
    OBVIOUS
  <2>1. queue[i] \in Items
    BY DEF Typed, TypeOK
  <2> QED
    BY <2>1 DEF Disarmed, Items
<1>2. queue' \in Seq(Items) /\ Len(queue') = Len(queue)
  <2>1. queue' = [i \in 1..Len(queue) |->
                    IF IsSame(queue[i], cb, data) THEN Disarmed(queue[i]) ELSE queue[i]]
    BY DEF Cancel
  <2>2. Len(queue) \in Nat
    BY DEF Typed, TypeOK
  <2> QED
    BY <1>1, <2>1, <2>2
<1>3. cancelled' \in SUBSET (1..MaxItems)
  <2>1. \A i \in 1..Len(queue) : queue[i].id \in 1..MaxItems
    BY <1>1 DEF Items
  <2> QED
    BY <2>1 DEF Typed, TypeOK, Cancel
<1> QED
  BY <1>2, <1>3 DEF Typed, TypeOK, SlotsCounted, Cancel

LEMMA TypedNext == Typed /\ [Next]_vars => Typed'
<1> SUFFICES ASSUME Typed, [Next]_vars PROVE Typed'
  OBVIOUS
<1> USE WorkQueueAssumption
<1>1. ASSUME NEW t \in Threads, NEW cb \in Cbs, NEW data \in Datas \cup {NULL},
             NEW instant \in BOOLEAN, Schedule(t, cb, data, instant)
      PROVE  Typed'
  BY <1>1, TypedSchedule
<1>2. ASSUME NEW t \in Threads, SchedulePost(t)
      PROVE  Typed'
  BY <1>2 DEF Typed, TypeOK, SlotsCounted, SchedulePost, PostSem
<1>3. ASSUME NEW t \in Threads, NEW cb \in Cbs \cup {NULL}, NEW data \in Datas \cup {NULL},
             Cancel(t, cb, data)
      PROVE  Typed'
  BY <1>3, TypedCancel
<1>4. CASE WorkerStep
  <2>1. CASE WorkerStart
    BY <2>1 DEF Typed, TypeOK, SlotsCounted, WorkerStart, ThreadStates, WorkerSteps
  <2>2. CASE WorkerCheck
    BY <2>2 DEF Typed, TypeOK, SlotsCounted, WorkerCheck, WorkerSteps
  <2>3. CASE WorkerWait
    BY <2>3 DEF Typed, TypeOK, SlotsCounted, WorkerWait, WorkerSteps
  <2>4. CASE WorkerOutputEmpty
    BY <2>4 DEF Typed, TypeOK, SlotsCounted, WorkerOutputEmpty, WorkerSteps
  <2>5. CASE WorkerOutput
    <3>1. /\ Head(queue) \in Items
          /\ queue' \in Seq(Items)
          /\ Len(queue') = Len(queue) - 1
          /\ queue_free' = queue_free + 1
          /\ queue_free < QueueLen
          /\ work_item' = Head(queue)
      BY <2>5, TakeFrontFacts DEF Typed, TypeOK, WorkerOutput
    <3>2. ran' \in Seq(Items) /\ wpc' \in WorkerSteps
      <4>1. Append(ran, Head(queue)) \in Seq(Items) /\ ran \in Seq(Items)
        BY <3>1 DEF Typed, TypeOK
      <4>2. \/ wpc' = "run" /\ ran' = Append(ran, Head(queue))
            \/ wpc' = "check" /\ ran' = ran
        BY <2>5 DEF WorkerOutput
      <4> QED
        BY <4>1, <4>2 DEF WorkerSteps
    <3>3. queue_free' \in 0..QueueLen /\ SlotsCounted'
      BY <3>1 DEF Typed, TypeOK, SlotsCounted
    <3> QED
      BY <2>5, <3>1, <3>2, <3>3 DEF Typed, TypeOK, WorkerOutput
  <2>6. CASE WorkerRunEnd
    BY <2>6 DEF Typed, TypeOK, SlotsCounted, WorkerRunEnd, WorkerSteps
  <2>7. CASE WorkerPoll
    BY <2>7 DEF Typed, TypeOK, SlotsCounted, WorkerPoll, WorkerSteps
  <2>8. CASE WorkerExit
    BY <2>8 DEF Typed, TypeOK, SlotsCounted, WorkerExit, ThreadStates, WorkerSteps
  <2>9. CASE WorkerReap
    BY <2>9 DEF Typed, TypeOK, SlotsCounted, WorkerReap, WorkerSteps
  <2> QED
    BY <1>4, <2>1, <2>2, <2>3, <2>4, <2>5, <2>6, <2>7, <2>8, <2>9 DEF WorkerStep
<1>5. CASE ReleaseStep
  <2>1. CASE ReleaseBegin
    BY <2>1 DEF Typed, TypeOK, SlotsCounted, ReleaseBegin, ReleaseSteps
  <2>2. CASE ReleaseStop
    BY <2>2 DEF Typed, TypeOK, SlotsCounted, ReleaseStop, ReleaseSteps, ThreadStates
  <2>3. CASE ReleasePost
    BY <2>3 DEF Typed, TypeOK, SlotsCounted, ReleasePost, PostSem, ReleaseSteps
  <2>4. CASE ReleaseFree
    BY <2>4 DEF Typed, TypeOK, SlotsCounted, ReleaseFree, ReleaseSteps
  <2> QED
    BY <1>5, <2>1, <2>2, <2>3, <2>4 DEF ReleaseStep
<1>6. CASE UNCHANGED vars
  BY <1>6 DEF Typed, TypeOK, SlotsCounted, vars
<1> QED
  BY <1>1, <1>2, <1>3, <1>4, <1>5, <1>6 DEF Next

\* Every variable keeps its type.  The counter of free slots must agree with
\* the list (SlotsCounted): tuya_queue_output looks only at the counter.
THEOREM TypeCorrect == Spec => []TypeOK
<1>1. Typed => TypeOK
  BY DEF Typed
<1> QED
  BY <1>1, TypedInit, TypedNext, PTL DEF Spec

-----------------------------------------------------------------------------
(* Tokens *)

LEMMA ThreadsFinite == IsFiniteSet(Threads)
BY WorkQueueAssumption, FS_AddElement DEF Threads

\* The number of threads about to post, over the steps that change it.
LEMMA PostingFacts ==
    ASSUME TypeOK
    PROVE  /\ IsFiniteSet(Posting)
           /\ Cardinality(Posting) \in Nat
           /\ \A t \in Posting : Cardinality(Posting) >= 1
           /\ call' = call => Posting' = Posting
           /\ \A t \in Threads :
                call[t] = "idle" /\ call' = [call EXCEPT ![t] = "post"]
                    => Cardinality(Posting') = Cardinality(Posting) + 1
           /\ \A t \in Threads :
                call[t] = "post" /\ call' = [call EXCEPT ![t] = "idle"]
                    => Cardinality(Posting') = Cardinality(Posting) - 1
<1>1. IsFiniteSet(Posting)
  BY ThreadsFinite, FS_Subset DEF Posting
<1>2. Cardinality(Posting) \in Nat
  BY <1>1, FS_CardinalityType
<1>3. \A t \in Posting : Cardinality(Posting) >= 1
  BY <1>1, <1>2, FS_EmptySet
<1>4. call' = call => Posting' = Posting
  BY DEF Posting
<1>5. ASSUME NEW t \in Threads, call[t] = "idle", call' = [call EXCEPT ![t] = "post"]
      PROVE  Cardinality(Posting') = Cardinality(Posting) + 1
  <2>1. t \notin Posting /\ Posting' = Posting \cup {t}
    BY <1>5 DEF Posting, TypeOK
  <2> QED
    BY <1>1, <2>1, FS_AddElement
<1>6. ASSUME NEW t \in Threads, call[t] = "post", call' = [call EXCEPT ![t] = "idle"]
      PROVE  Cardinality(Posting') = Cardinality(Posting) - 1
  <2>1. t \in Posting /\ Posting' = Posting \ {t}
    BY <1>6 DEF Posting, TypeOK
  <2> QED
    BY <1>1, <2>1, FS_RemoveElement
<1> QED
  BY <1>1, <1>2, <1>3, <1>4, <1>5, <1>6

LEMMA WakeupInit == Init => NoLostWakeup
<1> SUFFICES ASSUME Init PROVE NoLostWakeup
  OBVIOUS
<1>1. Posting = {}
  BY DEF Init, Posting
<1>2. Len(queue) = 0 /\ Tokens = 0
  BY <1>1, FS_EmptySet DEF Init, Tokens
<1> QED
  BY <1>2 DEF NoLostWakeup

LEMMA WakeupNext == Typed /\ NoLostWakeup /\ [Next]_vars => NoLostWakeup'
<1> SUFFICES ASSUME Typed, NoLostWakeup, [Next]_vars PROVE NoLostWakeup'
  OBVIOUS
<1> DEFINE n == Cardinality(Posting)
           out == IF wpc = "output" THEN 1 ELSE 0
<1>n. n \in Nat /\ out \in Nat /\ Tokens = sem + out + n
  BY PostingFacts DEF Typed, Tokens
<1>t. /\ sem \in 0..QueueLen /\ queue_free \in 0..QueueLen
      /\ Len(queue) \in Nat /\ QueueLen \in Nat
      /\ queue_free + Len(queue) = QueueLen
      /\ rel \in ReleaseSteps
  BY WorkQueueAssumption DEF Typed, TypeOK, SlotsCounted
<1>c. call' = call => n' = n
  BY PostingFacts DEF Typed
<1>k. Tokens' = sem' + out' + n'
  BY DEF Tokens
<1> HIDE DEF n, out
<1>1. ASSUME NEW t \in Threads, NEW cb \in Cbs, NEW data \in Datas \cup {NULL},
             NEW instant \in BOOLEAN, Schedule(t, cb, data, instant)
      PROVE  NoLostWakeup'
  <2> DEFINE item == [id |-> accepted + 1, cb |-> cb, data |-> data, instant |-> instant]
  <2>1. item \in Items /\ Enqueue(item)
    BY <1>1, WorkQueueAssumption DEF Typed, TypeOK, Schedule, Items
  <2>2. Len(queue') = Len(queue) + 1
    <3> HIDE DEF item
    <3> QED
      BY <2>1, EnqueueFacts DEF Typed, TypeOK
  <2>3. n' = n + 1
    BY <1>1, PostingFacts DEF Typed, Schedule, MayCall, n
  <2>4. out' = out
    BY <1>1 DEF Schedule, out
  <2> QED
    BY <1>1, <1>n, <1>t, <1>k, <2>2, <2>3, <2>4 DEF Schedule, NoLostWakeup
<1>2. ASSUME NEW t \in Threads, SchedulePost(t)
      PROVE  NoLostWakeup'
  <2>1. n' = n - 1 /\ n >= 1
    <3>1. t \in Posting
      BY <1>2 DEF SchedulePost, Posting
    <3> QED
      BY <1>2, <3>1, PostingFacts DEF Typed, SchedulePost, n
  <2>2. out' = out /\ queue' = queue /\ rel' = rel
    BY <1>2 DEF SchedulePost, out
  <2>3. sem' = IF sem < QueueLen THEN sem + 1 ELSE sem
    BY <1>2 DEF SchedulePost, PostSem
  <2>4. CASE sem < QueueLen
    BY <1>n, <1>t, <1>k, <2>1, <2>2, <2>3, <2>4 DEF NoLostWakeup
  <2>5. CASE ~(sem < QueueLen)
    \* The semaphore is full: the queue cannot be longer than it counts.
    BY <1>n, <1>t, <1>k, <2>1, <2>2, <2>3, <2>5 DEF NoLostWakeup
  <2> QED
    BY <2>4, <2>5
<1>3. ASSUME NEW t \in Threads, NEW cb \in Cbs \cup {NULL}, NEW data \in Datas \cup {NULL},
             Cancel(t, cb, data)
      PROVE  NoLostWakeup'
  <2>1. Len(queue') = Len(queue)
    BY <1>3, <1>t DEF Cancel
  <2>2. out' = out /\ sem' = sem /\ rel' = rel /\ call' = call
    BY <1>3 DEF Cancel, out
  <2> QED
    BY <1>n, <1>c, <1>k, <2>1, <2>2 DEF NoLostWakeup
<1>4. CASE WorkerStep
  <2>1. CASE \/ WorkerStart \/ WorkerCheck \/ WorkerRunEnd \/ WorkerPoll \/ WorkerExit
             \/ WorkerReap
    <3>1. /\ out' = 0 /\ out = 0
          /\ sem' = sem /\ queue' = queue /\ rel' = rel /\ call' = call
      BY <2>1 DEF WorkerStart, WorkerCheck, WorkerRunEnd, WorkerPoll, WorkerExit, WorkerReap, out
    <3> QED
      BY <1>n, <1>c, <1>k, <3>1 DEF NoLostWakeup
  <2>2. CASE WorkerWait
    <3>1. /\ out = 0 /\ out' = 1 /\ sem > 0 /\ sem' = sem - 1
          /\ queue' = queue /\ rel' = rel /\ call' = call
      BY <2>2 DEF WorkerWait, out
    <3> QED
      BY <1>n, <1>t, <1>c, <1>k, <3>1 DEF NoLostWakeup
  <2>3. CASE WorkerOutputEmpty
    <3>1. /\ out = 1 /\ out' = 0 /\ Len(queue) = 0
          /\ sem' = sem /\ queue' = queue /\ rel' = rel /\ call' = call
      BY <2>3, <1>t DEF WorkerOutputEmpty, out
    <3> QED
      BY <1>n, <1>t, <1>c, <1>k, <3>1 DEF NoLostWakeup
  <2>4. CASE WorkerOutput
    <3>1. Len(queue') = Len(queue) - 1
      BY <2>4, TakeFrontFacts DEF Typed, TypeOK, WorkerOutput
    <3>2. out = 1 /\ out' = 0 /\ sem' = sem /\ rel' = rel /\ call' = call
      BY <2>4 DEF WorkerOutput, out
    <3> QED
      BY <1>n, <1>t, <1>c, <1>k, <3>1, <3>2 DEF NoLostWakeup
  <2> QED
    BY <1>4, <2>1, <2>2, <2>3, <2>4 DEF WorkerStep
<1>5. CASE ReleaseStep
  <2>0. out' = out /\ call' = call
    BY <1>5 DEF ReleaseStep, ReleaseBegin, ReleaseStop, ReleasePost, ReleaseFree, out
  <2>1. CASE ReleaseBegin \/ ReleaseStop
    <3>1. /\ sem' = sem /\ queue' = queue
          /\ rel \in {"none", "unlinked"}
      BY <2>1 DEF ReleaseBegin, ReleaseStop
    <3> QED
      BY <1>n, <1>t, <1>c, <1>k, <2>0, <3>1 DEF NoLostWakeup
  <2>2. CASE ReleasePost
    <3>1. /\ sem' = IF sem < QueueLen THEN sem + 1 ELSE sem
          /\ queue' = queue /\ rel = "stopped" /\ rel' = "polling"
      BY <2>2 DEF ReleasePost, PostSem
    <3> QED
      BY <1>n, <1>t, <1>c, <1>k, <2>0, <3>1 DEF NoLostWakeup
  <2>3. CASE ReleaseFree
    BY <2>3 DEF ReleaseFree, NoLostWakeup
  <2> QED
    BY <1>5, <2>1, <2>2, <2>3 DEF ReleaseStep
<1>6. CASE UNCHANGED vars
  BY <1>6, <1>n, <1>c, <1>k DEF vars, NoLostWakeup, out
<1> QED
  BY <1>1, <1>2, <1>3, <1>4, <1>5, <1>6 DEF Next

\* No accepted work waits without a wakeup, whatever the length of the queue and
\* however many threads are between their insertion and their post.
THEOREM WakeupNeverLost == Spec => []NoLostWakeup
<1>1. Init => Typed /\ NoLostWakeup
  BY TypedInit, WakeupInit
<1>2. (Typed /\ NoLostWakeup) /\ [Next]_vars => (Typed /\ NoLostWakeup)'
  BY TypedNext, WakeupNext
<1> QED
  BY <1>1, <1>2, PTL DEF Spec

-----------------------------------------------------------------------------
(* Release *)

\* How the three parties to the handshake keep step: the state that the worker
\* and tal_thread_delete both write, where the worker is, and the release.
Handshake ==
    /\ thrdRunSta = "EMPTY" <=> wpc = "start"
    /\ thrdRunSta = "DELETE" <=> wpc \in {"reap", "gone"}
    /\ nodeFreed <=> wpc = "gone"
    /\ wpc = "exit" => thrdRunSta = "STOP"
    /\ thrdRunSta = "EMPTY" => rel = "none"
    /\ rel \in {"none", "unlinked"} <=> thrdRunSta \in {"EMPTY", "RUNNING"}
    /\ rel = "released" => wpc \in {"reap", "gone"}

LEMMA HandshakeInit == Init => Handshake
BY DEF Init, Handshake

LEMMA HandshakeNext == Typed /\ Handshake /\ [Next]_vars => Handshake'
<1> SUFFICES ASSUME Typed, Handshake, [Next]_vars PROVE Handshake'
  OBVIOUS
<1>t. thrdRunSta \in ThreadStates /\ wpc \in WorkerSteps /\ rel \in ReleaseSteps
  BY DEF Typed, TypeOK
<1>1. ASSUME NEW t \in Threads, NEW cb \in Cbs, NEW data \in Datas \cup {NULL},
             NEW instant \in BOOLEAN, Schedule(t, cb, data, instant)
      PROVE  Handshake'
  BY <1>1 DEF Schedule, Handshake
<1>2. ASSUME NEW t \in Threads, SchedulePost(t)
      PROVE  Handshake'
  BY <1>2 DEF SchedulePost, Handshake
<1>3. ASSUME NEW t \in Threads, NEW cb \in Cbs \cup {NULL}, NEW data \in Datas \cup {NULL},
             Cancel(t, cb, data)
      PROVE  Handshake'
  BY <1>3 DEF Cancel, Handshake
<1>4. CASE WorkerStep
  <2>1. CASE WorkerStart
    BY <2>1, <1>t DEF WorkerStart, Handshake, ReleaseSteps
  <2>2. CASE WorkerCheck \/ WorkerWait \/ WorkerOutputEmpty \/ WorkerOutput \/ WorkerRunEnd
    BY <2>2, <1>t DEF WorkerCheck, WorkerWait, WorkerOutputEmpty, WorkerOutput, WorkerRunEnd,
                      Handshake
  <2>3. CASE WorkerPoll
    BY <2>3, <1>t DEF WorkerPoll, Handshake
  <2>4. CASE WorkerExit
    BY <2>4, <1>t DEF WorkerExit, Handshake
  <2>5. CASE WorkerReap
    BY <2>5, <1>t DEF WorkerReap, Handshake
  <2> QED
    BY <1>4, <2>1, <2>2, <2>3, <2>4, <2>5 DEF WorkerStep
<1>5. CASE ReleaseStep
  <2>1. CASE ReleaseBegin
    BY <2>1, <1>t DEF ReleaseBegin, Handshake
  <2>2. CASE ReleaseStop
    BY <2>2, <1>t DEF ReleaseStop, Handshake, ThreadStates
  <2>3. CASE ReleasePost
    BY <2>3, <1>t DEF ReleasePost, Handshake
  <2>4. CASE ReleaseFree
    <3>1. wpc \in {"reap", "gone"}
      \* What the poll can have read: the state, or a freed record of a gone worker.
      BY <2>4 DEF ReleaseFree, ObservedStates, Handshake
    <3> QED
      BY <2>4, <3>1 DEF ReleaseFree, Handshake
  <2> QED
    BY <1>5, <2>1, <2>2, <2>3, <2>4 DEF ReleaseStep
<1>6. CASE UNCHANGED vars
  BY <1>6 DEF vars, Handshake
<1> QED
  BY <1>1, <1>2, <1>3, <1>4, <1>5, <1>6 DEF Next

\* tal_workqueue_release frees the queue and the semaphore only after the worker
\* has left the loop that uses them.
THEOREM FreedAfterWorker == Spec => []WorkerGoneBeforeFree
<1>1. Init => Typed /\ Handshake
  BY TypedInit, HandshakeInit
<1>2. (Typed /\ Handshake) /\ [Next]_vars => (Typed /\ Handshake)'
  BY TypedNext, HandshakeNext
<1>3. Handshake => WorkerGoneBeforeFree
  BY DEF Handshake, WorkerGoneBeforeFree
<1> QED
  BY <1>1, <1>2, <1>3, PTL DEF Spec

-----------------------------------------------------------------------------
(* Refinement *)

LEMMA DispatchInitially == Init => Dispatch!DispatchInit
BY DEF Init, Dispatch!DispatchInit

LEMMA DispatchStep ==
    Typed /\ Handshake /\ [Next]_vars => [Dispatch!DispatchNext]_(Dispatch!dispatchVars)
<1> SUFFICES ASSUME Typed, Handshake, [Next]_vars
             PROVE  Dispatch!DispatchNext \/ UNCHANGED Dispatch!dispatchVars
  OBVIOUS
<1>1. ASSUME NEW t \in Threads, NEW cb \in Cbs, NEW data \in Datas \cup {NULL},
             NEW instant \in BOOLEAN, Schedule(t, cb, data, instant)
      PROVE  Dispatch!DispatchNext
  <2> DEFINE item == [id |-> accepted + 1, cb |-> cb, data |-> data, instant |-> instant]
  <2>1. item \in Items /\ Enqueue(item)
    BY <1>1, WorkQueueAssumption DEF Typed, TypeOK, Schedule, Items
  <2> HIDE DEF item
  <2>2. Len(queue) < QueueLen /\ queue' \in {Append(queue, item), <<item>> \o queue}
    BY <2>1, EnqueueFacts, WorkQueueAssumption DEF Typed, TypeOK, SlotsCounted
  <2>3. rel # "released"
    BY <1>1 DEF Schedule, MayCall, Handshake
  <2>4. rel' = rel /\ wpc' = wpc /\ work_item' = work_item /\ ran' = ran
    BY <1>1 DEF Schedule
  <2>5. Dispatch!Accept(item)
    BY <2>2, <2>3, <2>4 DEF Dispatch!Accept
  <2> QED
    BY <2>1, <2>5 DEF Dispatch!DispatchNext
<1>2. ASSUME NEW t \in Threads, SchedulePost(t)
      PROVE  UNCHANGED Dispatch!dispatchVars
  BY <1>2 DEF SchedulePost, Dispatch!dispatchVars
<1>3. ASSUME NEW t \in Threads, NEW cb \in Cbs \cup {NULL}, NEW data \in Datas \cup {NULL},
             Cancel(t, cb, data)
      PROVE  Dispatch!DispatchNext
  <2> DEFINE S == {i \in 1..Len(queue) : IsSame(queue[i], cb, data)}
  <2>1. S \in SUBSET (1..Len(queue))
    OBVIOUS
  <2>2. queue' = [i \in 1..Len(queue) |->
                    IF i \in S THEN [queue[i] EXCEPT !.cb = NULL] ELSE queue[i]]
    BY <1>3 DEF Cancel, Disarmed
  <2>3. rel # "released"
    BY <1>3 DEF Cancel, MayCall, Handshake
  <2>4. rel' = rel /\ wpc' = wpc /\ work_item' = work_item /\ ran' = ran
    BY <1>3 DEF Cancel
  <2> HIDE DEF S
  <2>5. Dispatch!Disarm
    BY <2>1, <2>2, <2>3, <2>4 DEF Dispatch!Disarm
  <2> QED
    BY <2>5 DEF Dispatch!DispatchNext
<1>4. CASE WorkerStep
  <2>1. CASE \/ WorkerStart \/ WorkerCheck \/ WorkerWait \/ WorkerOutputEmpty \/ WorkerPoll
             \/ WorkerExit \/ WorkerReap
    <3>1. /\ wpc # "run" /\ wpc' # "run"
          /\ queue' = queue /\ ran' = ran /\ rel' = rel
      BY <2>1 DEF WorkerStart, WorkerCheck, WorkerWait, WorkerOutputEmpty, WorkerPoll,
                  WorkerExit, WorkerReap
    <3> QED
      BY <3>1 DEF Dispatch!dispatchVars
  <2>2. CASE WorkerOutput
    <3>1. queue # << >> /\ queue' = Tail(queue) /\ work_item' = Head(queue)
      BY <2>2, TakeFrontFacts DEF Typed, TypeOK, WorkerOutput
    <3>2. wpc = "output" /\ rel # "released" /\ rel' = rel
      BY <2>2 DEF WorkerOutput, Handshake
    <3>3. \/ Head(queue).cb # NULL /\ wpc' = "run" /\ ran' = Append(ran, Head(queue))
          \/ Head(queue).cb = NULL /\ wpc' = "check" /\ ran' = ran
      BY <2>2 DEF WorkerOutput
    <3>4. Dispatch!Start
      BY <3>1, <3>2, <3>3 DEF Dispatch!Start
    <3> QED
      BY <3>4 DEF Dispatch!DispatchNext
  <2>3. CASE WorkerRunEnd
    <3>1. wpc = "run" /\ wpc' = "check" /\ queue' = queue /\ ran' = ran /\ rel' = rel
      BY <2>3 DEF WorkerRunEnd
    <3>2. CASE work_item # NULL
      BY <3>1, <3>2 DEF Dispatch!Finish, Dispatch!DispatchNext
    <3>3. CASE work_item = NULL
      BY <3>1, <3>3 DEF Dispatch!dispatchVars
    <3> QED
      BY <3>2, <3>3
  <2> QED
    BY <1>4, <2>1, <2>2, <2>3 DEF WorkerStep
<1>5. CASE ReleaseStep
  <2>1. CASE ReleaseBegin \/ ReleaseStop \/ ReleasePost
    <3>1. /\ rel # "released" /\ rel' # "released"
          /\ queue' = queue /\ ran' = ran /\ wpc' = wpc /\ work_item' = work_item
      BY <2>1 DEF ReleaseBegin, ReleaseStop, ReleasePost
    <3> QED
      BY <3>1 DEF Dispatch!dispatchVars
  <2>2. CASE ReleaseFree
    <3>1. wpc \in {"reap", "gone"}
      BY <2>2 DEF ReleaseFree, ObservedStates, Handshake
    <3>2. /\ rel = "polling" /\ rel' = "released" /\ queue' = << >>
          /\ ran' = ran /\ wpc' = wpc /\ work_item' = work_item
      BY <2>2 DEF ReleaseFree
    <3>3. Dispatch!Close
      BY <3>1, <3>2 DEF Dispatch!Close
    <3> QED
      BY <3>3 DEF Dispatch!DispatchNext
  <2> QED
    BY <1>5, <2>1, <2>2 DEF ReleaseStep
<1>6. CASE UNCHANGED vars
  BY <1>6 DEF vars, Dispatch!dispatchVars
<1> QED
  BY <1>1, <1>2, <1>3, <1>4, <1>5, <1>6 DEF Next

\* Semaphore, thread states and program counters hidden, the workqueue behaves
\* as the dispatcher of WorkDispatch: bounded, one callback at a time, from the
\* front, closed only when idle.
THEOREM DispatchImplemented == Spec => DispatchRefined
<1>1. Init => Typed /\ Handshake
  BY TypedInit, HandshakeInit
<1>2. (Typed /\ Handshake) /\ [Next]_vars => (Typed /\ Handshake)'
  BY TypedNext, HandshakeNext
<1> QED
  BY <1>1, <1>2, DispatchInitially, DispatchStep, PTL
  DEF Spec, DispatchRefined, Dispatch!DispatchSpec

-----------------------------------------------------------------------------
(* The work that was accepted is neither lost, repeated nor reordered *)

\* Every acceptance has an id of its own, in the list or among the work that ran.
Unique ==
    /\ \A i \in 1..Len(queue) : queue[i].id <= accepted
    /\ \A i \in 1..Len(ran) : ran[i].id <= accepted
    /\ \A i, j \in 1..Len(queue) : queue[i].id = queue[j].id => i = j
    /\ \A i, j \in 1..Len(ran) : ran[i].id = ran[j].id => i = j
    /\ \A i \in 1..Len(ran), j \in 1..Len(queue) : ran[i].id # queue[j].id

\* The work that a cancel found is the waiting work that has no callback any more.
Disarming ==
    /\ \A n \in cancelled : n <= accepted
    /\ \A i \in 1..Len(queue) : queue[i].id \in cancelled <=> queue[i].cb = NULL
    /\ \A i \in 1..Len(ran) : ran[i].id \notin cancelled

\* Work scheduled to the back: in the list, and what ran before what is in the list.
Ordered ==
    /\ \A i, j \in 1..Len(ran) :
         i < j /\ ~ran[i].instant /\ ~ran[j].instant => ran[i].id < ran[j].id
    /\ \A i, j \in 1..Len(queue) :
         i < j /\ ~queue[i].instant /\ ~queue[j].instant => queue[i].id < queue[j].id
    /\ \A i \in 1..Len(ran), j \in 1..Len(queue) :
         ~ran[i].instant /\ ~queue[j].instant => ran[i].id < queue[j].id

\* Until the release frees the list nothing disappears.
Covered ==
    rel # "released" =>
        \A n \in 1..accepted :
            \/ n \in cancelled
            \/ \E i \in 1..Len(ran) : ran[i].id = n
            \/ \E i \in 1..Len(queue) : queue[i].id = n

WorkInv == Unique /\ Disarming /\ Ordered /\ Covered

-----------------------------------------------------------------------------
(* What each operation does to the list, place by place *)

\* Every place holds an item with an id, a callback or NULL, and a policy.
LEMMA PlaceFacts ==
    ASSUME Typed
    PROVE  /\ Len(queue) \in Nat /\ Len(ran) \in Nat /\ accepted \in Nat
           /\ \A i \in 1..Len(queue) : queue[i] \in Items /\ queue[i].id \in Nat \ {0}
           /\ \A i \in 1..Len(ran) : ran[i] \in Items /\ ran[i].id \in Nat \ {0}
<1>1. queue \in Seq(Items) /\ ran \in Seq(Items) /\ accepted \in Nat
  BY DEF Typed, TypeOK
<1>2. \A item \in Items : item.id \in Nat \ {0}
  BY DEF Items
<1>3. QED
  BY <1>1, <1>2

\* tuya_queue_input adds behind, tuya_queue_input_instant in front.
LEMMA EnqueuePlaces ==
    ASSUME NEW item \in Items, queue \in Seq(Items), Enqueue(item)
    PROVE  /\ Len(queue') = Len(queue) + 1
           /\ ~item.instant => /\ queue'[Len(queue) + 1] = item
                               /\ \A i \in 1..Len(queue) : queue'[i] = queue[i]
           /\ item.instant => /\ queue'[1] = item
                              /\ \A i \in 2..(Len(queue) + 1) : queue'[i] = queue[i - 1]
<1>1. CASE item.instant
  <2>1. queue' = <<item>> \o queue
    BY <1>1 DEF Enqueue
  <2>2. <<item>> \in Seq(Items) /\ Len(<<item>>) = 1 /\ <<item>>[1] = item
    OBVIOUS
  <2>3. QED
    BY <1>1, <2>1, <2>2, ConcatProperties
<1>2. CASE ~item.instant
  BY <1>2, AppendProperties DEF Enqueue
<1>3. QED
  BY <1>1, <1>2

-----------------------------------------------------------------------------
(* Scheduling *)

\* The new item has an id that no other has and is the latest of those scheduled to the
\* back.
LEMMA ScheduleKeeps ==
    ASSUME Typed, WorkInv, NEW t \in Threads, NEW cb \in Cbs, NEW data \in Datas \cup {NULL},
           NEW instant \in BOOLEAN, Schedule(t, cb, data, instant)
    PROVE  WorkInv'
<1> DEFINE item == [id |-> accepted + 1, cb |-> cb, data |-> data, instant |-> instant]
           n == Len(queue)
<1>1. item \in Items /\ item.id = accepted + 1 /\ item.cb = cb /\ item.instant = instant
  BY WorkQueueAssumption DEF Typed, TypeOK, Schedule, Items
<1>2. Enqueue(item) /\ accepted' = accepted + 1 /\ UNCHANGED <<ran, cancelled, rel>>
  BY DEF Schedule
<1>3. cb # NULL
  BY WorkQueueAssumption
<1> HIDE DEF item
<1>4. n \in Nat /\ queue \in Seq(Items)
  BY DEF Typed, TypeOK
<1> DEFINE at == IF instant THEN 1 ELSE n + 1
           old(i) == IF i < at THEN i ELSE i - 1
<1>5. /\ Len(queue') = n + 1 /\ at \in 1..(n + 1) /\ queue'[at] = item
      /\ \A i \in 1..(n + 1) : i # at => old(i) \in 1..n /\ queue'[i] = queue[old(i)]
      /\ \A i, j \in 1..(n + 1) : i # at /\ j # at => (i < j <=> old(i) < old(j)) /\ (i = j <=> old(i) = old(j))
      /\ ~instant => at = n + 1
  BY <1>1, <1>2, <1>4, EnqueuePlaces
<1> HIDE DEF at, old
<1>6. /\ accepted \in Nat /\ Len(ran) \in Nat
      /\ \A i \in 1..n : queue[i].id \in Nat
      /\ \A i \in 1..Len(ran) : ran[i].id \in Nat
  BY PlaceFacts
<1>7. \A i \in 1..(n + 1) : i # at =>
        /\ queue'[i].id = queue[old(i)].id /\ queue'[i].id <= accepted /\ queue'[i].id \in Nat
        /\ queue'[i].cb = queue[old(i)].cb
        /\ queue'[i].instant = queue[old(i)].instant
  BY <1>5, <1>6 DEF WorkInv, Unique
<1>8. /\ queue'[at].id = accepted + 1 /\ queue'[at].cb = cb /\ queue'[at].instant = instant
  BY <1>1, <1>5
<1>9. Unique'
  <2>1. \A i \in 1..(n + 1) : queue'[i].id <= accepted + 1
    <3>1. SUFFICES ASSUME NEW i \in 1..(n + 1) PROVE queue'[i].id <= accepted + 1
      OBVIOUS
    <3>2. CASE i = at
      BY <1>6, <1>8, <3>2
    <3>3. CASE i # at
      BY <1>6, <1>7, <3>3
    <3>4. QED
      BY <3>2, <3>3
  <2>2. \A i, j \in 1..(n + 1) : queue'[i].id = queue'[j].id => i = j
    <3>1. SUFFICES ASSUME NEW i \in 1..(n + 1), NEW j \in 1..(n + 1), queue'[i].id = queue'[j].id
                   PROVE  i = j
      OBVIOUS
    <3>2. CASE i # at /\ j # at
      <4>1. /\ old(i) \in 1..n /\ old(j) \in 1..n
            /\ queue[old(i)].id = queue[old(j)].id
        BY <1>5, <1>7, <3>1, <3>2
      <4>2. old(i) = old(j)
        BY <4>1 DEF WorkInv, Unique
      <4>3. QED
        BY <1>5, <3>2, <4>2
    <3>3. CASE i = at \/ j = at
      BY <1>6, <1>7, <1>8, <3>1, <3>3
    <3>4. QED
      BY <3>2, <3>3
  <2>3. \A i \in 1..Len(ran), j \in 1..(n + 1) : ran[i].id # queue'[j].id
    <3>1. SUFFICES ASSUME NEW i \in 1..Len(ran), NEW j \in 1..(n + 1)
                   PROVE  ran[i].id # queue'[j].id
      OBVIOUS
    <3>2. ran[i].id <= accepted
      BY DEF WorkInv, Unique
    <3>3. CASE j = at
      BY <1>6, <1>8, <3>2, <3>3
    <3>4. CASE j # at
      BY <1>5, <1>7, <3>4 DEF WorkInv, Unique
    <3>5. QED
      BY <3>3, <3>4
  <2>4. \A i \in 1..Len(ran) : ran[i].id <= accepted + 1
    BY <1>6 DEF WorkInv, Unique
  <2>5. QED
    BY <1>2, <1>5, <2>1, <2>2, <2>3, <2>4 DEF WorkInv, Unique
<1>10. Disarming'
  <2>1. \A m \in cancelled : m <= accepted + 1 /\ m # accepted + 1
    <3>1. SUFFICES ASSUME NEW m \in cancelled PROVE m <= accepted + 1 /\ m # accepted + 1
      OBVIOUS
    <3>2. m \in 1..MaxItems
      BY DEF Typed, TypeOK
    <3>3. m <= accepted
      BY DEF WorkInv, Disarming
    <3>4. QED
      BY <1>6, <3>2, <3>3
  <2>2. \A i \in 1..(n + 1) : queue'[i].id \in cancelled <=> queue'[i].cb = NULL
    BY <1>3, <1>5, <1>7, <1>8, <2>1 DEF WorkInv, Disarming
  <2>3. QED
    BY <1>2, <1>5, <2>1, <2>2 DEF WorkInv, Disarming
<1>11. Ordered'
  <2>1. ASSUME NEW i \in 1..(n + 1), NEW j \in 1..(n + 1),
               i < j, ~queue'[i].instant, ~queue'[j].instant
        PROVE  queue'[i].id < queue'[j].id
    <3>1. i # at
      BY <1>5, <1>8, <2>1
    <3>2. CASE j = at
      BY <1>6, <1>7, <1>8, <3>1, <3>2
    <3>3. CASE j # at
      <4>1. old(i) \in 1..n /\ old(j) \in 1..n /\ old(i) < old(j)
        BY <1>5, <2>1, <3>1, <3>3
      <4>2. ~queue[old(i)].instant /\ ~queue[old(j)].instant
        BY <1>7, <2>1, <3>1, <3>3
      <4>3. queue[old(i)].id < queue[old(j)].id
        BY <4>1, <4>2 DEF WorkInv, Ordered
      <4>4. QED
        BY <1>7, <3>1, <3>3, <4>3
    <3>4. QED
      BY <3>2, <3>3
  <2>2. ASSUME NEW i \in 1..Len(ran), NEW j \in 1..(n + 1),
               ~ran[i].instant, ~queue'[j].instant
        PROVE  ran[i].id < queue'[j].id
    <3>1. ran[i].id <= accepted
      BY DEF WorkInv, Unique
    <3>2. CASE j = at
      BY <1>6, <1>8, <3>1, <3>2
    <3>3. CASE j # at
      BY <1>5, <1>7, <2>2, <3>3 DEF WorkInv, Ordered
    <3>4. QED
      BY <3>2, <3>3
  <2>3. QED
    BY <1>2, <1>5, <2>1, <2>2 DEF WorkInv, Ordered
<1>12. Covered'
  <2>1. SUFFICES ASSUME rel # "released", NEW m \in 1..(accepted + 1)
                 PROVE  \/ m \in cancelled
                        \/ \E i \in 1..Len(ran) : ran[i].id = m
                        \/ \E i \in 1..(n + 1) : queue'[i].id = m
    BY <1>2, <1>5 DEF Covered
  <2>2. CASE m = accepted + 1
    BY <1>5, <1>8, <2>2
  <2>3. ASSUME NEW k \in 1..n, queue[k].id = m
        PROVE  \E i \in 1..(n + 1) : queue'[i].id = m
    <3>1. \E i \in 1..(n + 1) : i # at /\ old(i) = k
      BY <1>4 DEF at, old
    <3>2. QED
      BY <1>7, <2>3, <3>1
  <2>4. CASE m # accepted + 1
    BY <1>6, <2>1, <2>3, <2>4 DEF WorkInv, Covered
  <2>5. QED
    BY <2>2, <2>4
<1>13. QED
  BY <1>9, <1>10, <1>11, <1>12 DEF WorkInv

-----------------------------------------------------------------------------
(* Cancelling *)

\* A cancel takes the callback of what it finds and nothing else.
LEMMA CancelKeeps ==
    ASSUME Typed, WorkInv, NEW t \in Threads, NEW cb \in Cbs \cup {NULL},
           NEW data \in Datas \cup {NULL}, Cancel(t, cb, data)
    PROVE  WorkInv'
<1> DEFINE n == Len(queue)
           found(i) == IsSame(queue[i], cb, data)
<1>1. n \in Nat /\ \A i \in 1..n : queue[i] \in Items /\ queue[i].id \in Nat
  BY PlaceFacts
<1>2. queue' = [i \in 1..n |-> IF found(i) THEN Disarmed(queue[i]) ELSE queue[i]]
  BY DEF Cancel
<1>3. cancelled' = cancelled \cup {queue[i].id : i \in {j \in 1..n : found(j)}}
  BY DEF Cancel
<1>4. UNCHANGED <<ran, accepted, rel>>
  BY DEF Cancel
<1> HIDE DEF found
<1>5. Len(queue') = n
  BY <1>1, <1>2
<1>6. \A i \in 1..n : /\ queue'[i].id = queue[i].id
                      /\ queue'[i].instant = queue[i].instant
                      /\ queue'[i].cb = IF found(i) THEN NULL ELSE queue[i].cb
  BY <1>1, <1>2 DEF Disarmed, Items
<1>7. Unique'
  BY <1>4, <1>5, <1>6 DEF WorkInv, Unique
<1>8. Ordered'
  <2>1. \A i \in 1..n : ~queue'[i].instant => ~queue[i].instant
    BY <1>6
  <2>2. QED
    BY <1>4, <1>5, <1>6, <2>1 DEF WorkInv, Ordered
<1>9. Disarming'
  <2>1. \A m \in cancelled' : m <= accepted
    BY <1>3 DEF WorkInv, Unique, Disarming
  <2>2. \A i \in 1..n : queue'[i].id \in cancelled' <=> queue[i].id \in cancelled \/ found(i)
    BY <1>3, <1>6 DEF WorkInv, Unique
  <2>3. \A i \in 1..n : queue'[i].id \in cancelled' <=> queue'[i].cb = NULL
    BY <1>6, <2>2 DEF WorkInv, Disarming
  <2>4. \A i \in 1..Len(ran) : ran[i].id \notin cancelled'
    BY <1>3 DEF WorkInv, Unique, Disarming
  <2>5. QED
    BY <1>4, <1>5, <2>1, <2>3, <2>4 DEF Disarming
<1>10. Covered'
  BY <1>3, <1>4, <1>5, <1>6 DEF WorkInv, Covered
<1>11. QED
  BY <1>7, <1>8, <1>9, <1>10 DEF WorkInv

-----------------------------------------------------------------------------
(* The worker takes the front item *)

\* What is taken is called, or was disarmed; what was scheduled to the back and is still
\* in the list was accepted later.
LEMMA OutputKeeps ==
    ASSUME Typed, WorkInv, WorkerOutput
    PROVE  WorkInv'
<1> DEFINE n == Len(queue)
           k == Len(ran)
           item == queue[1]
<1>1. /\ n \in Nat /\ k \in Nat /\ accepted \in Nat
      /\ queue \in Seq(Items) /\ ran \in Seq(Items)
      /\ \A i \in 1..n : queue[i].id \in Nat \ {0}
      /\ \A i \in 1..k : ran[i].id \in Nat \ {0}
  BY PlaceFacts DEF Typed, TypeOK
<1>2. TakeFront /\ UNCHANGED <<accepted, cancelled, rel>>
  BY DEF WorkerOutput
<1>3. queue # <<>> /\ queue' = Tail(queue)
  BY <1>1, <1>2, TakeFrontFacts DEF Typed, TypeOK
<1>4. 1 \in 1..n /\ Head(queue) = item /\ item \in Items
  BY <1>1, <1>3
<1>5. Len(queue') = n - 1 /\ \A i \in 1..(n - 1) : queue'[i] = queue[i + 1]
  BY <1>1, <1>3, HeadTailProperties
<1>6. \A i \in 1..(n - 1) : i + 1 \in 1..n /\ i + 1 # 1
  BY <1>1
<1>7. \/ item.cb = NULL /\ ran' = ran
      \/ item.cb # NULL /\ Len(ran') = k + 1 /\ ran'[k + 1] = item
         /\ \A i \in 1..k : ran'[i] = ran[i]
  <2>1. CASE item.cb = NULL
    BY <1>4, <2>1 DEF WorkerOutput
  <2>2. CASE item.cb # NULL
    <3>1. ran' = Append(ran, item)
      BY <1>4, <2>2 DEF WorkerOutput
    <3>2. QED
      BY <1>1, <1>4, <2>2, <3>1, AppendProperties
  <2>3. QED
    BY <2>1, <2>2
<1>8. Len(ran') \in Nat /\ k <= Len(ran') /\ (item.cb # NULL => Len(ran') = k + 1)
  BY <1>1, <1>7
<1>9. \A i \in 1..Len(ran') : \/ i \in 1..k /\ ran'[i] = ran[i]
                              \/ i = k + 1 /\ ran'[i] = item /\ item.cb # NULL
  BY <1>1, <1>7
<1>10. \A i \in 1..k : i \in 1..Len(ran') /\ ran'[i] = ran[i]
  BY <1>1, <1>7
<1>11. /\ item.id \in Nat /\ item.id <= accepted
       /\ \A i \in 1..(n - 1) : queue'[i].id # item.id
       /\ \A i \in 1..k : ran[i].id # item.id
  BY <1>1, <1>4, <1>5, <1>6 DEF WorkInv, Unique
<1> HIDE DEF item, n, k
<1>12. Unique'
  <2>1. /\ \A i \in 1..(n - 1) : queue'[i].id <= accepted
        /\ \A i, j \in 1..(n - 1) : queue'[i].id = queue'[j].id => i = j
    <3>1. \A i \in 1..(n - 1) : queue'[i].id <= accepted
      BY <1>5, <1>6 DEF WorkInv, Unique, n
    <3>2. ASSUME NEW i \in 1..(n - 1), NEW j \in 1..(n - 1), queue'[i].id = queue'[j].id
          PROVE  i = j
      <4>1. i + 1 = j + 1
        BY <1>5, <1>6, <3>2 DEF WorkInv, Unique, n
      <4>2. QED
        BY <4>1
    <3>3. QED
      BY <3>1, <3>2
  <2>2. \A i \in 1..Len(ran') : ran'[i].id <= accepted
    BY <1>9, <1>11 DEF WorkInv, Unique, k
  <2>3. \A i, j \in 1..Len(ran') : ran'[i].id = ran'[j].id => i = j
    BY <1>9, <1>11 DEF WorkInv, Unique, k
  <2>4. \A i \in 1..Len(ran'), j \in 1..(n - 1) : ran'[i].id # queue'[j].id
    <3>1. ASSUME NEW i \in 1..k, NEW j \in 1..(n - 1) PROVE ran[i].id # queue'[j].id
      BY <1>5, <1>6 DEF WorkInv, Unique, n, k
    <3>2. QED
      BY <1>9, <1>11, <3>1
  <2>5. QED
    BY <1>2, <1>5, <2>1, <2>2, <2>3, <2>4 DEF Unique
<1>13. Disarming'
  <2>1. \A i \in 1..(n - 1) : queue'[i].id \in cancelled <=> queue'[i].cb = NULL
    BY <1>5, <1>6 DEF WorkInv, Disarming, n
  <2>2. item.id \in cancelled <=> item.cb = NULL
    BY <1>4 DEF WorkInv, Disarming, n, item
  <2>3. \A i \in 1..Len(ran') : ran'[i].id \notin cancelled
    BY <1>9, <2>2 DEF WorkInv, Disarming, k
  <2>4. QED
    BY <1>2, <1>5, <2>1, <2>3 DEF WorkInv, Disarming
<1>14. Ordered'
  <2>1. ASSUME NEW i \in 1..(n - 1), NEW j \in 1..(n - 1),
               i < j, ~queue'[i].instant, ~queue'[j].instant
        PROVE  queue'[i].id < queue'[j].id
    <3>1. i + 1 < j + 1
      BY <2>1
    <3>2. QED
      BY <1>5, <1>6, <2>1, <3>1 DEF WorkInv, Ordered, n
  <2>2. \A i \in 1..k : ~ran[i].instant /\ ~item.instant => ran[i].id < item.id
    BY <1>4 DEF WorkInv, Ordered, n, k, item
  <2>3. \A j \in 1..(n - 1) : ~item.instant /\ ~queue'[j].instant => item.id < queue'[j].id
    <3>1. SUFFICES ASSUME NEW j \in 1..(n - 1), ~item.instant, ~queue'[j].instant
                   PROVE  item.id < queue'[j].id
      OBVIOUS
    <3>2. 1 < j + 1 /\ j + 1 \in 1..n /\ 1 \in 1..n /\ queue'[j] = queue[j + 1]
      BY <1>1, <1>4, <1>5, <1>6
    <3>3. QED
      BY <3>1, <3>2 DEF WorkInv, Ordered, n, item
  <2>4. ASSUME NEW i \in 1..Len(ran'), NEW j \in 1..Len(ran'),
               i < j, ~ran'[i].instant, ~ran'[j].instant
        PROVE  ran'[i].id < ran'[j].id
    <3>1. i \in 1..k /\ ran'[i] = ran[i]
      BY <1>1, <1>8, <1>9, <2>4
    <3>2. CASE j \in 1..k /\ ran'[j] = ran[j]
      BY <2>4, <3>1, <3>2 DEF WorkInv, Ordered, k
    <3>3. CASE ran'[j] = item
      BY <2>2, <2>4, <3>1, <3>3
    <3>4. QED
      BY <1>9, <3>2, <3>3
  <2>5. ASSUME NEW i \in 1..Len(ran'), NEW j \in 1..(n - 1),
               ~ran'[i].instant, ~queue'[j].instant
        PROVE  ran'[i].id < queue'[j].id
    <3>1. CASE i \in 1..k /\ ran'[i] = ran[i]
      BY <1>5, <1>6, <2>5, <3>1 DEF WorkInv, Ordered, n, k
    <3>2. CASE ran'[i] = item
      BY <2>3, <2>5, <3>2
    <3>3. QED
      BY <1>9, <3>1, <3>2
  <2>6. QED
    BY <1>5, <2>1, <2>4, <2>5 DEF Ordered
<1>15. Covered'
  <2>1. SUFFICES ASSUME rel # "released", NEW m \in 1..accepted
                 PROVE  \/ m \in cancelled
                        \/ \E i \in 1..Len(ran') : ran'[i].id = m
                        \/ \E i \in 1..(n - 1) : queue'[i].id = m
    BY <1>2, <1>5 DEF Covered
  <2>2. CASE \E i \in 1..k : ran[i].id = m
    BY <1>10, <2>2
  <2>3. CASE m = item.id
    <3>1. CASE item.cb = NULL
      BY <1>4, <2>3, <3>1 DEF WorkInv, Disarming, n, item
    <3>2. CASE item.cb # NULL
      <4>1. k + 1 \in 1..Len(ran') /\ k + 1 \notin 1..k
        BY <1>1, <1>8, <3>2
      <4>2. QED
        BY <1>9, <2>3, <4>1
    <3>3. QED
      BY <3>1, <3>2
  <2>4. ASSUME NEW i \in 1..n, queue[i].id = m, m # item.id
        PROVE  \E j \in 1..(n - 1) : queue'[j].id = m
    <3>1. i - 1 \in 1..(n - 1) /\ (i - 1) + 1 = i
      BY <1>1, <2>4 DEF item
    <3>2. QED
      BY <1>5, <2>4, <3>1
  <2>5. QED
    BY <2>1, <2>2, <2>3, <2>4 DEF WorkInv, Covered, n, k
<1>16. QED
  BY <1>12, <1>13, <1>14, <1>15 DEF WorkInv

-----------------------------------------------------------------------------
(* The invariant and the theorems *)

\* A new workqueue has accepted nothing.
LEMMA WorkInit == Init => WorkInv
<1> SUFFICES ASSUME Init PROVE WorkInv
  OBVIOUS
<1>1. Len(queue) = 0 /\ Len(ran) = 0 /\ accepted = 0 /\ cancelled = {}
  BY DEF Init
<1>2. QED
  BY <1>1 DEF WorkInv, Unique, Disarming, Ordered, Covered

\* Every step keeps the invariant; the release of the list only forgets what waits.
LEMMA WorkNext == Typed /\ WorkInv /\ [Next]_vars => WorkInv'
<1> SUFFICES ASSUME Typed, WorkInv, [Next]_vars PROVE WorkInv'
  OBVIOUS
<1>1. ASSUME NEW t \in Threads, NEW cb \in Cbs, NEW data \in Datas \cup {NULL},
             NEW instant \in BOOLEAN, Schedule(t, cb, data, instant)
      PROVE  WorkInv'
  BY <1>1, ScheduleKeeps
<1>2. ASSUME NEW t \in Threads, NEW cb \in Cbs \cup {NULL}, NEW data \in Datas \cup {NULL},
             Cancel(t, cb, data)
      PROVE  WorkInv'
  BY <1>2, CancelKeeps
<1>3. CASE WorkerOutput
  BY <1>3, OutputKeeps
<1>4. CASE ReleaseFree
  <2>1. Len(queue') = 0 /\ rel' = "released" /\ UNCHANGED <<accepted, ran, cancelled>>
    BY <1>4 DEF ReleaseFree
  <2>2. QED
    BY <2>1 DEF WorkInv, Unique, Disarming, Ordered, Covered
<1>5. ASSUME UNCHANGED <<queue, accepted, ran, cancelled>>, rel' = "released" => rel = "released",
             rel = "released" => rel' = "released"
      PROVE  WorkInv'
  BY <1>5 DEF WorkInv, Unique, Disarming, Ordered, Covered
<1>6. ASSUME NEW t \in Threads, SchedulePost(t)
      PROVE  WorkInv'
  BY <1>5, <1>6 DEF SchedulePost
<1>7. CASE WorkerStep /\ ~WorkerOutput
  BY <1>5, <1>7 DEF WorkerStep, WorkerStart, WorkerCheck, WorkerWait, WorkerOutputEmpty,
                    WorkerRunEnd, WorkerPoll, WorkerExit, WorkerReap
<1>8. CASE ReleaseBegin \/ ReleaseStop \/ ReleasePost
  BY <1>5, <1>8 DEF ReleaseBegin, ReleaseStop, ReleasePost
<1>9. CASE UNCHANGED vars
  BY <1>5, <1>9 DEF vars
<1>10. QED
  BY <1>1, <1>2, <1>3, <1>4, <1>6, <1>7, <1>8, <1>9 DEF Next, ReleaseStep

\* The types and the invariant hold throughout.
LEMMA WorkHolds == Spec => [](Typed /\ WorkInv)
<1>1. Init => Typed /\ WorkInv
  BY TypedInit, WorkInit
<1>2. (Typed /\ WorkInv) /\ [Next]_vars => (Typed /\ WorkInv)'
  BY TypedNext, WorkNext
<1>3. QED
  BY <1>1, <1>2, PTL DEF Spec

\* The places of the list and of the history are numbered from 1.
LEMMA Domains == Typed => DOMAIN queue = 1..Len(queue) /\ DOMAIN ran = 1..Len(ran)
  BY DEF Typed, TypeOK

\* Whatever is scheduled, cancelled, run and posted in whatever order: each accepted piece
\* of work is called at most once, and none disappears before the release.
THEOREM NothingLost == Spec => []WorkAccounted
<1>1. Typed /\ WorkInv => WorkAccounted
  BY Domains DEF WorkInv, Unique, Covered, WorkAccounted, IdsOf
<1>2. QED
  BY <1>1, WorkHolds, PTL

\* Work that tal_workqueue_cancel found waiting is never called.
THEOREM CancelHolds == Spec => []CancelledNeverRuns
<1>1. Typed /\ WorkInv => CancelledNeverRuns
  BY Domains DEF WorkInv, Disarming, CancelledNeverRuns, IdsOf
<1>2. QED
  BY <1>1, WorkHolds, PTL

\* tal_workqueue_schedule keeps the order of acceptance, whatever is put in front or
\* cancelled in between.
THEOREM OrderKept == Spec => []BackInOrder
<1>1. Typed /\ WorkInv => BackInOrder
  BY Domains DEF WorkInv, Ordered, BackInOrder
<1>2. QED
  BY <1>1, WorkHolds, PTL
=============================================================================
