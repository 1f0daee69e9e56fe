------------------------------ MODULE WorkQueue ------------------------------
(***************************************************************************)
(* A workqueue: src/tal_system/src/tal_workqueue.c over the bounded list   *)
(* of tools/porting/adapter/utilities/src/tuya_queue.c, a counting         *)
(* semaphore and the worker thread of src/tal_system/src/tal_thread.c.     *)
(*                                                                         *)
(* Accepting work takes two steps, the insertion under the queue's mutex   *)
(* and the post of the semaphore, and every other thread may run between   *)
(* them.  The worker's loop, the callback it is in, and the handshake of   *)
(* tal_workqueue_release with the worker's thread are steps of their own.  *)
(* Callers stop calling before one of them releases the workqueue; the     *)
(* callback that is running then may still schedule.                       *)
(***************************************************************************)
EXTENDS Integers, Sequences, FiniteSets

CONSTANTS Clients,    \* threads that hold the handle of the workqueue
          Worker,     \* the thread of the workqueue
          Cbs,        \* work callbacks
          Datas,      \* work arguments other than NULL
          NULL,       \* the null pointer
          QueueLen,   \* queue_len of tal_workqueue_create
          MaxItems    \* bound: how many pieces of work are accepted in all

ASSUME WorkQueueAssumption ==
    /\ IsFiniteSet(Clients)
    /\ Worker \notin Clients
    /\ NULL \notin Cbs
    /\ NULL \notin Datas
    /\ QueueLen \in Nat \ {0}
    /\ MaxItems \in Nat

VARIABLES
    queue,        \* the list of the TUYA_QUEUE_T
    queue_free,   \* its free slots
    sem,          \* count of the semaphore, at most QueueLen
    thrdRunSta,   \* state in the worker's THRD_MANAGE
    nodeFreed,    \* that THRD_MANAGE has been freed
    wpc,          \* where the worker is
    work_item,    \* the worker's local copy of the item it took
    call,         \* per thread: outside a call, or between insertion and post
    rel,          \* progress of tal_workqueue_release
    accepted,     \* history: how many pieces of work were accepted
    ran,          \* history: the work whose callback was called, in order
    cancelled     \* history: ids of waiting work that a cancel matched

vars == <<queue, queue_free, sem, thrdRunSta, nodeFreed, wpc, work_item, call,
          rel, accepted, ran, cancelled>>

Threads == Clients \cup {Worker}

\* id and instant are history: which acceptance this is and by which policy.
Items == [id : 1..MaxItems, cb : Cbs \cup {NULL}, data : Datas \cup {NULL}, instant : BOOLEAN]

\* The zeroed local variable of the worker.
NoItem == [id |-> 0, cb |-> NULL, data |-> NULL, instant |-> FALSE]

ThreadStates == {"EMPTY", "RUNNING", "STOP", "DELETE"}
WorkerSteps == {"start", "check", "wait", "output", "run", "poll", "exit", "reap", "gone"}
ReleaseSteps == {"none", "unlinked", "stopped", "polling", "released"}

\* tal_workqueue_create: empty list, semaphore at 0 of QueueLen, thread created.
Init ==
    /\ queue = << >>
    /\ queue_free = QueueLen
    /\ sem = 0
    /\ thrdRunSta = "EMPTY"
    /\ nodeFreed = FALSE
    /\ wpc = "start"
    /\ work_item = NoItem
    /\ call = [t \in Threads |-> "idle"]
    /\ rel = "none"
    /\ accepted = 0
    /\ ran = << >>
    /\ cancelled = {}

-----------------------------------------------------------------------------
(* Callers *)

\* A client may call until the release begins, the worker from a callback.
MayCall(t) ==
    /\ call[t] = "idle"
    /\ IF t = Worker THEN wpc = "run" ELSE rel = "none"

\* Mutants of Enqueue: no check for a free slot; everything goes to the front.
EnqueueUnchecked(item) ==
    /\ queue' = IF item.instant THEN <<item>> \o queue ELSE Append(queue, item)
    /\ queue_free' = queue_free - 1

EnqueueFront(item) ==
    /\ queue_free > 0
    /\ queue' = <<item>> \o queue
    /\ queue_free' = queue_free - 1

\* tuya_queue_input and tuya_queue_input_instant: insertion under the mutex.
Enqueue(item) ==
    /\ queue_free > 0
    /\ queue' = IF item.instant THEN <<item>> \o queue ELSE Append(queue, item)
    /\ queue_free' = queue_free - 1

\* tal_workqueue_schedule and _schedule_instant up to the post.  A full queue,
\* like a failed allocation, returns an error and changes nothing.
Schedule(t, cb, data, instant) ==
    /\ MayCall(t)
    /\ accepted < MaxItems
    /\ Enqueue([id |-> accepted + 1, cb |-> cb, data |-> data, instant |-> instant])
    /\ accepted' = accepted + 1
    /\ call' = [call EXCEPT ![t] = "post"]
    /\ UNCHANGED <<sem, thrdRunSta, nodeFreed, wpc, work_item, rel, ran, cancelled>>

\* Mutants of PostSem: a binary semaphore; a maximum one too small.
PostSemBinary == sem' = 1

PostSemOffByOne == sem' = IF sem < QueueLen - 1 THEN sem + 1 ELSE sem

\* A semaphore at its maximum refuses the post and keeps its count.
PostSem == sem' = IF sem < QueueLen THEN sem + 1 ELSE sem

\* The tal_semaphore_post that ends a schedule.
SchedulePost(t) ==
    /\ call[t] = "post"
    /\ PostSem
    /\ call' = [call EXCEPT ![t] = "idle"]
    /\ UNCHANGED <<queue, queue_free, thrdRunSta, nodeFreed, wpc, work_item, rel,
                   accepted, ran, cancelled>>

\* __work_cancel_traverse: the same callback, or the same argument, suffices.
IsSame(item, cb, data) ==
    \/ cb # NULL /\ cb = item.cb
    \/ data # NULL /\ data = item.data

\* Mutant of Disarmed: clears the argument in place of the callback.
DisarmedData(item) == [item EXCEPT !.data = NULL]

Disarmed(item) == [item EXCEPT !.cb = NULL]

\* tal_workqueue_cancel: a matching item loses its callback but keeps its slot.
Cancel(t, cb, data) ==
    /\ MayCall(t)
    /\ cb # NULL \/ data # NULL
    /\ queue' = [i \in 1..Len(queue) |->
                   IF IsSame(queue[i], cb, data) THEN Disarmed(queue[i]) ELSE queue[i]]
    /\ cancelled' = cancelled \cup
                      {queue[i].id : i \in {j \in 1..Len(queue) : IsSame(queue[j], cb, data)}}
    /\ UNCHANGED <<queue_free, sem, thrdRunSta, nodeFreed, wpc, work_item, call, rel,
                   accepted, ran>>

-----------------------------------------------------------------------------
(* The worker: __WrapRunFunc around __work_thread_cb *)

\* The new thread marks itself RUNNING, without the mutex, and enters the loop.
WorkerStart ==
    /\ wpc = "start"
    /\ thrdRunSta' = "RUNNING"
    /\ wpc' = "check"
    /\ UNCHANGED <<queue, queue_free, sem, nodeFreed, work_item, call, rel, accepted,
                   ran, cancelled>>

\* The loop condition: tal_thread_get_state.
WorkerCheck ==
    /\ wpc = "check"
    /\ wpc' = IF thrdRunSta = "RUNNING" THEN "wait" ELSE "poll"
    /\ UNCHANGED <<queue, queue_free, sem, thrdRunSta, nodeFreed, work_item, call, rel,
                   accepted, ran, cancelled>>

\* tal_semaphore_wait with SEM_WAIT_FOREVER.
WorkerWait ==
    /\ wpc = "wait"
    /\ sem > 0
    /\ sem' = sem - 1
    /\ wpc' = "output"
    /\ UNCHANGED <<queue, queue_free, thrdRunSta, nodeFreed, work_item, call, rel,
                   accepted, ran, cancelled>>

\* Mutant of TakeFront: copies the front item and leaves it in the list.
PeekFront ==
    /\ queue_free < QueueLen
    /\ work_item' = Head(queue)
    /\ UNCHANGED <<queue, queue_free>>

\* tuya_queue_output: copies the front item out and frees its slot.
TakeFront ==
    /\ queue_free < QueueLen
    /\ work_item' = Head(queue)
    /\ queue' = Tail(queue)
    /\ queue_free' = queue_free + 1

\* tuya_queue_output found nothing: sleep and loop.
WorkerOutputEmpty ==
    /\ wpc = "output"
    /\ ~(queue_free < QueueLen)
    /\ wpc' = "check"
    /\ UNCHANGED <<queue, queue_free, sem, thrdRunSta, nodeFreed, work_item, call, rel,
                   accepted, ran, cancelled>>

\* tuya_queue_output delivered the front item; its callback is called if it has one.
WorkerOutput ==
    /\ wpc = "output"
    /\ TakeFront
    /\ IF Head(queue).cb # NULL
       THEN wpc' = "run" /\ ran' = Append(ran, Head(queue))
       ELSE wpc' = "check" /\ UNCHANGED ran
    /\ UNCHANGED <<sem, thrdRunSta, nodeFreed, call, rel, accepted, cancelled>>

\* The callback returns.
WorkerRunEnd ==
    /\ wpc = "run"
    /\ call[Worker] = "idle"
    /\ wpc' = "check"
    /\ UNCHANGED <<queue, queue_free, sem, thrdRunSta, nodeFreed, work_item, call, rel,
                   accepted, ran, cancelled>>

\* The thread polls its state until tal_thread_delete has set STOP.
WorkerPoll ==
    /\ wpc = "poll"
    /\ thrdRunSta = "STOP"
    /\ wpc' = "exit"
    /\ UNCHANGED <<queue, queue_free, sem, thrdRunSta, nodeFreed, work_item, call, rel,
                   accepted, ran, cancelled>>

WorkerExit ==
    /\ wpc = "exit"
    /\ thrdRunSta' = "DELETE"
    /\ wpc' = "reap"
    /\ UNCHANGED <<queue, queue_free, sem, nodeFreed, work_item, call, rel, accepted,
                   ran, cancelled>>

\* __free_all_del_thrd_node frees the THRD_MANAGE of the thread that calls it.
WorkerReap ==
    /\ wpc = "reap"
    /\ nodeFreed' = TRUE
    /\ wpc' = "gone"
    /\ UNCHANGED <<queue, queue_free, sem, thrdRunSta, work_item, call, rel, accepted,
                   ran, cancelled>>

WorkerStep ==
    \/ WorkerStart \/ WorkerCheck \/ WorkerWait \/ WorkerOutputEmpty \/ WorkerOutput
    \/ WorkerRunEnd \/ WorkerPoll \/ WorkerExit \/ WorkerReap

-----------------------------------------------------------------------------
(* tal_workqueue_release *)

\* tal_thread_delete, first critical section: refused while the state is EMPTY.
ReleaseBegin ==
    /\ rel = "none"
    /\ \A t \in Clients : call[t] = "idle"
    /\ thrdRunSta # "EMPTY"
    /\ rel' = "unlinked"
    /\ UNCHANGED <<queue, queue_free, sem, thrdRunSta, nodeFreed, wpc, work_item, call,
                   accepted, ran, cancelled>>

\* tal_thread_delete, second critical section: __add_del_thrd_node.
ReleaseStop ==
    /\ rel = "unlinked"
    /\ thrdRunSta' = "STOP"
    /\ rel' = "stopped"
    /\ UNCHANGED <<queue, queue_free, sem, nodeFreed, wpc, work_item, call, accepted,
                   ran, cancelled>>

\* The post that lets a waiting worker see the new state; its result is ignored.
ReleasePost ==
    /\ rel = "stopped"
    /\ PostSem
    /\ rel' = "polling"
    /\ UNCHANGED <<queue, queue_free, thrdRunSta, nodeFreed, wpc, work_item, call,
                   accepted, ran, cancelled>>

\* Mutant of ObservedStates: the poll takes STOP for DELETE.
ObservedStopAsDelete == IF thrdRunSta = "STOP" THEN {"DELETE"} ELSE {thrdRunSta}

\* What tal_thread_get_state can return: anything once the node has been freed.
ObservedStates == IF nodeFreed THEN ThreadStates ELSE {thrdRunSta}

\* The poll saw DELETE: queue, semaphore and workqueue are freed.
ReleaseFree ==
    /\ rel = "polling"
    /\ "DELETE" \in ObservedStates
    /\ queue' = << >>
    /\ queue_free' = QueueLen
    /\ rel' = "released"
    /\ UNCHANGED <<sem, thrdRunSta, nodeFreed, wpc, work_item, call, accepted, ran,
                   cancelled>>

ReleaseStep == ReleaseBegin \/ ReleaseStop \/ ReleasePost \/ ReleaseFree

-----------------------------------------------------------------------------
Next ==
    \/ \E t \in Threads, cb \in Cbs, data \in Datas \cup {NULL}, instant \in BOOLEAN :
         Schedule(t, cb, data, instant)
    \/ \E t \in Threads : SchedulePost(t)
    \/ \E t \in Threads, cb \in Cbs \cup {NULL}, data \in Datas \cup {NULL} :
         Cancel(t, cb, data)
    \/ WorkerStep
    \/ ReleaseStep

Spec == Init /\ [][Next]_vars

\* The scheduler runs every thread that can run, and callbacks return.
Fairness == WF_vars(WorkerStep) /\ \A t \in Threads : WF_vars(SchedulePost(t))

FairSpec == Spec /\ Fairness

-----------------------------------------------------------------------------
(* Properties *)

\* The types; the counter of free slots and that of the semaphore stay in range,
\* so that a full queue refuses work and a full semaphore drops no more than a post.
TypeOK ==
    /\ queue \in Seq(Items)
    /\ queue_free \in 0..QueueLen
    /\ sem \in 0..QueueLen
    /\ thrdRunSta \in ThreadStates
    /\ nodeFreed \in BOOLEAN
    /\ wpc \in WorkerSteps
    /\ work_item \in Items \cup {NoItem}
    /\ call \in [Threads -> {"idle", "post"}]
    /\ rel \in ReleaseSteps
    /\ accepted \in 0..MaxItems
    /\ ran \in Seq(Items)
    /\ cancelled \in SUBSET (1..MaxItems)

\* The counter of free slots and the list agree.
SlotsCounted == queue_free + Len(queue) = QueueLen

\* Threads between the insertion of their item and the post for it.
Posting == {t \in Threads : call[t] = "post"}

\* Tokens: in the semaphore, taken by the worker, or about to be posted.
Tokens == sem + (IF wpc = "output" THEN 1 ELSE 0) + Cardinality(Posting)

\* Every queued item has a token, so no item is ever left behind a sleeping
\* worker; until the release posts its own there is exactly one token per item,
\* so no schedule's post meets a full semaphore.
NoLostWakeup ==
    /\ rel # "released" => Len(queue) <= Tokens
    /\ rel \in {"none", "unlinked", "stopped"} => Len(queue) = Tokens

IdsOf(s) == {s[i].id : i \in DOMAIN s}

\* Each accepted piece of work is called at most once, and never waits again
\* after it was called; until the release frees the queue, every accepted piece
\* waits, was called, or was disarmed by a cancel: none disappears.
WorkAccounted ==
    /\ \A i, j \in DOMAIN ran : ran[i].id = ran[j].id => i = j
    /\ IdsOf(ran) \cap IdsOf(queue) = {}
    /\ rel # "released" => 1..accepted \subseteq IdsOf(ran) \cup IdsOf(queue) \cup cancelled

\* Work that a cancel found waiting is never called afterwards.
CancelledNeverRuns == cancelled \cap IdsOf(ran) = {}

\* Work scheduled to the back is called in the order in which it was accepted,
\* whatever instant work and cancellations come between.
BackInOrder ==
    \A i, j \in DOMAIN ran :
        i < j /\ ~ran[i].instant /\ ~ran[j].instant => ran[i].id < ran[j].id

\* The workqueue is freed only after the worker has left the loop that uses it.
WorkerGoneBeforeFree == rel = "released" => wpc \in {"reap", "gone"}

\* Accepted work is called or cancelled unless the workqueue is released.
EveryItemHandled ==
    \A n \in 1..MaxItems :
        (accepted >= n) ~> (n \in IdsOf(ran) \cup cancelled \/ rel # "none")

\* The dispatcher seen in the workqueue: an item waits while it is in the list and
\* runs while the worker is in its callback.
Dispatch == INSTANCE WorkDispatch WITH
    Capacity <- QueueLen,
    pending <- queue,
    current <- IF wpc = "run" THEN work_item ELSE NULL,
    started <- ran,
    closed <- (rel = "released")

\* The workqueue implements the dispatcher that tal_workqueue.h promises: each of
\* its steps starts, finishes, accepts, disarms or closes, or changes nothing there.
DispatchRefined == Dispatch!DispatchSpec

\* tal_thread_get_state "retrieves the current state of a thread": the poll of
\* tal_workqueue_release reads the state of a thread whose record still exists.
PollReadsLiveThread == rel = "polling" => ~nodeFreed
=============================================================================
