------------------------------- MODULE SwTimer -------------------------------
(***************************************************************************)
(* The software timers of src/tal_system/src/tal_sw_timer.c: a list of     *)
(* running timers kept in order of expiry, a list of the others, and the   *)
(* sys_timer thread that sleeps on a semaphore until the first expiry or   *)
(* until a caller has changed the list.                                    *)
(*                                                                         *)
(* Every operation changes the lists under the mutex and posts the         *)
(* semaphore after it has left the mutex; the thread reads the clock       *)
(* before it takes the mutex and calls the callback after it has left it.  *)
(* Each of these is a step.  A timer belongs to a client, which makes no   *)
(* two calls on it at once; a callback may use any timer that exists and   *)
(* that its owner is not busy with.                                        *)
(***************************************************************************)
EXTENDS Integers, Sequences, FiniteSets, SequencesExt

CONSTANTS Timers,       \* addresses a TIMER_T can have
          Clients,      \* threads that own timers
          Owner,        \* the client that each timer belongs to
          TimerThread,  \* the sys_timer thread
          Intervals,    \* values of time_ms that callers use; 0 keeps the old one
          MaxNow,       \* bound: the last clock reading of the model
          MaxCalls,     \* bound: calls that start, stop, trigger or delete
          NoTimer       \* no timer: the NULL of a TIMER_ID

ASSUME SwTimerAssumption ==
    /\ IsFiniteSet(Timers)
    /\ Owner \in [Timers -> Clients]
    /\ TimerThread \notin Clients
    /\ Intervals \subseteq Nat
    /\ MaxNow \in Nat
    /\ MaxCalls \in Nat
    /\ NoTimer \notin Timers

FOREVER == -1          \* SEM_WAIT_FOREVER
SemMax == 2            \* the maximum that tal_sw_timer_init gives the semaphore
Threads == Clients \cup {TimerThread}
Types == {"ONCE", "CYCLE"}

VARIABLES
    now,            \* the system clock, in ms
    exists,         \* timers that are allocated
    list_active,    \* running timers
    list_standby,   \* timers that are not running
    expire_time, interval, is_running, type,     \* fields of each TIMER_T
    total_cnt, running_cnt,
    sem,
    tpc,            \* where the sys_timer thread is
    nowMS,          \* its last clock reading
    next_expired,   \* its next timeout
    wakeAt,         \* when the wait it is in times out
    timer,          \* the timer it dispatches
    call,           \* per thread: the call it is in
    calls           \* how many calls were made

lists == <<exists, list_active, list_standby, expire_time, interval, is_running, type,
           total_cnt, running_cnt>>
thread == <<tpc, nowMS, next_expired, wakeAt, timer>>
vars == <<now, lists, sem, thread, call, calls>>

Idle == [at |-> "idle", on |-> NoTimer, ms |-> 0]

Init ==
    /\ now = 0
    /\ exists = {}
    /\ list_active = << >>
    /\ list_standby = {}
    /\ expire_time = [t \in Timers |-> 0]
    /\ interval = [t \in Timers |-> 0]
    /\ is_running = [t \in Timers |-> FALSE]
    /\ type = [t \in Timers |-> "ONCE"]
    /\ total_cnt = 0
    /\ running_cnt = 0
    /\ sem = 0
    /\ tpc = "arm"
    /\ nowMS = 0
    /\ next_expired = FOREVER
    /\ wakeAt = FOREVER
    /\ timer = NoTimer
    /\ call = [c \in Threads |-> Idle]
    /\ calls = 0

-----------------------------------------------------------------------------
(* The list of running timers *)

\* tuya_list_del unlinks the one node of the timer, if it is on this list.
Detach(t) == RemoveFirst(list_active, t)

\* Mutant of Position: looks for a timer that expires strictly later, and is off by one.
PositionLate(s, when, e) ==
    LET later == {i \in 1..Len(s) : when[s[i]] > e + 1}
    IN IF later = {} THEN Len(s) + 1 ELSE Min(later)

\* __timer_attach: before the first timer that expires no earlier.
Position(s, when, e) ==
    LET later == {i \in 1..Len(s) : when[s[i]] >= e}
    IN IF later = {} THEN Len(s) + 1 ELSE Min(later)

Attach(t, e) ==
    LET others == Detach(t)
    IN list_active' = InsertAt(others, Position(others, expire_time, e), t)

-----------------------------------------------------------------------------
(* The callers *)

\* A call on t begins: by its owner, or by a callback while the owner is not busy.
BeginCall(c, t) ==
    /\ calls < MaxCalls
    /\ calls' = calls + 1
    /\ t \in exists
    /\ call[c].at = "idle"
    /\ IF c = TimerThread
       THEN tpc = "callback" /\ call[Owner[t]].on # t
       ELSE c = Owner[t] /\ (call[TimerThread].on # t)

\* Leave the mutex, with the post still to come.
LeaveToPost(c, t) == call' = [call EXCEPT ![c] = [at |-> "post", on |-> t, ms |-> 0]]

\* tal_sw_timer_create: a zeroed TIMER_T on the standby list; no post.
Create(t) ==
    /\ t \notin exists
    /\ call[Owner[t]].at = "idle"
    /\ exists' = exists \cup {t}
    /\ list_standby' = list_standby \cup {t}
    /\ expire_time' = [expire_time EXCEPT ![t] = 0]
    /\ interval' = [interval EXCEPT ![t] = 0]
    /\ is_running' = [is_running EXCEPT ![t] = FALSE]
    /\ type' = [type EXCEPT ![t] = "ONCE"]
    /\ total_cnt' = total_cnt + 1
    /\ UNCHANGED <<now, list_active, running_cnt, sem, thread, call, calls>>

\* tal_sw_timer_start reads the clock before it takes the mutex.
StartRead(c, t) ==
    /\ BeginCall(c, t)
    /\ call' = [call EXCEPT ![c] = [at |-> "start", on |-> t, ms |-> now]]
    /\ UNCHANGED <<now, lists, sem, thread>>

\* The rest of tal_sw_timer_start under the mutex.  A cyclic timer is started
\* with a cycle other than 0.
Start(c, time_ms, timer_type) ==
    LET t == call[c].on
        i == IF time_ms # 0 THEN time_ms ELSE interval[t]
        e == call[c].ms + i
    IN /\ call[c].at = "start"
       /\ timer_type = "CYCLE" => i # 0
       /\ is_running' = [is_running EXCEPT ![t] = TRUE]
       /\ running_cnt' = IF is_running[t] THEN running_cnt ELSE running_cnt + 1
       /\ interval' = [interval EXCEPT ![t] = i]
       /\ type' = [type EXCEPT ![t] = timer_type]
       /\ expire_time' = [expire_time EXCEPT ![t] = e]
       /\ list_standby' = list_standby \ {t}
       /\ Attach(t, e)
       /\ LeaveToPost(c, t)
       /\ UNCHANGED <<now, exists, total_cnt, sem, thread, calls>>

\* Mutant of StopRunning: the count of running timers is not adjusted.
StopKeepsCount(t) ==
    /\ is_running' = [is_running EXCEPT ![t] = FALSE]
    /\ list_active' = Detach(t)
    /\ list_standby' = list_standby \cup {t}
    /\ UNCHANGED running_cnt

StopRunning(t) ==
    /\ is_running' = [is_running EXCEPT ![t] = FALSE]
    /\ running_cnt' = running_cnt - 1
    /\ list_active' = Detach(t)
    /\ list_standby' = list_standby \cup {t}

\* tal_sw_timer_stop: a timer that is not running stays where it is.
Stop(c, t) ==
    /\ BeginCall(c, t)
    /\ \/ is_running[t] /\ StopRunning(t)
       \/ ~is_running[t] /\ UNCHANGED <<is_running, running_cnt, list_active, list_standby>>
    /\ LeaveToPost(c, t)
    /\ UNCHANGED <<now, exists, expire_time, interval, type, total_cnt, sem, thread>>

\* tal_sw_timer_trigger: a running timer becomes the first to expire.
Trigger(c, t) ==
    /\ BeginCall(c, t)
    /\ expire_time' = [expire_time EXCEPT ![t] = 0]
    /\ list_active' = IF is_running[t] THEN <<t>> \o Detach(t) ELSE list_active
    /\ LeaveToPost(c, t)
    /\ UNCHANGED <<now, exists, list_standby, interval, is_running, type, total_cnt,
                   running_cnt, sem, thread>>

\* tal_sw_timer_delete under the mutex; the TIMER_T is freed after the post.
Delete(c, t) ==
    /\ BeginCall(c, t)
    /\ list_active' = Detach(t)
    /\ list_standby' = list_standby \ {t}
    /\ total_cnt' = total_cnt - 1
    /\ running_cnt' = IF is_running[t] THEN running_cnt - 1 ELSE running_cnt
    /\ call' = [call EXCEPT ![c] = [at |-> "delete", on |-> t, ms |-> 0]]
    /\ UNCHANGED <<now, exists, expire_time, interval, is_running, type, sem, thread>>

\* Mutant of PostSem: the post is lost when the thread has not yet gone to wait.
PostSemIfWaiting == sem' = IF tpc = "wait" /\ sem < SemMax THEN sem + 1 ELSE sem

PostSem == sem' = IF sem < SemMax THEN sem + 1 ELSE sem

\* The tal_semaphore_post that ends a call; a deletion then frees the timer.
Post(c) ==
    /\ call[c].at \in {"post", "delete"}
    /\ PostSem
    /\ exists' = IF call[c].at = "delete" THEN exists \ {call[c].on} ELSE exists
    /\ call' = [call EXCEPT ![c] = Idle]
    /\ UNCHANGED <<now, list_active, list_standby, expire_time, interval, is_running,
                   type, total_cnt, running_cnt, thread, calls>>

-----------------------------------------------------------------------------
(* The sys_timer thread: __timer_thread_cb and __timer_dispatch *)

\* tal_semaphore_wait begins: its timeout counts from here.
ThreadArm ==
    /\ tpc = "arm"
    /\ tpc' = "wait"
    /\ wakeAt' = IF next_expired = FOREVER THEN FOREVER ELSE now + next_expired
    /\ UNCHANGED <<now, lists, sem, nowMS, next_expired, timer, call, calls>>

\* The wait ends, with a token or by its timeout.  When the model's clock stands
\* still at MaxNow a finite timeout still elapses.
ThreadWake ==
    /\ tpc = "wait"
    /\ \/ sem > 0 /\ sem' = sem - 1
       \/ wakeAt # FOREVER /\ (now >= wakeAt \/ now = MaxNow) /\ UNCHANGED sem
    /\ tpc' = "read"
    /\ next_expired' = FOREVER
    /\ wakeAt' = FOREVER
    /\ UNCHANGED <<now, lists, nowMS, timer, call, calls>>

\* The dispatch loop reads the clock, before it takes the mutex.
ThreadRead ==
    /\ tpc = "read"
    /\ nowMS' = now
    /\ tpc' = "lock"
    /\ UNCHANGED <<now, lists, sem, next_expired, wakeAt, timer, call, calls>>

\* Under the mutex: no timer runs, or the first one has not expired.
DispatchNone ==
    /\ tpc = "lock"
    /\ \/ list_active = << >> /\ UNCHANGED next_expired
       \/ /\ list_active # << >>
          /\ expire_time[Head(list_active)] > nowMS
          /\ next_expired' = expire_time[Head(list_active)] - nowMS
    /\ tpc' = "arm"
    /\ UNCHANGED <<now, lists, sem, nowMS, wakeAt, timer, call, calls>>

\* Mutant of CycleAgain: the new expiry is set but the timer keeps its place.
CycleInPlace(t) ==
    /\ expire_time' = [expire_time EXCEPT ![t] = nowMS + interval[t]]
    /\ UNCHANGED <<list_active, list_standby, is_running, running_cnt>>

\* A cyclic timer expires again one interval after the clock reading.
CycleAgain(t) ==
    /\ expire_time' = [expire_time EXCEPT ![t] = nowMS + interval[t]]
    /\ Attach(t, nowMS + interval[t])
    /\ UNCHANGED <<list_standby, is_running, running_cnt>>

\* Under the mutex: the first timer has expired.  A one-shot timer stops.
DispatchExpired ==
    /\ tpc = "lock"
    /\ list_active # << >>
    /\ LET t == Head(list_active)
       IN /\ expire_time[t] <= nowMS
          /\ \/ type[t] = "ONCE" /\ StopRunning(t) /\ UNCHANGED expire_time
             \/ type[t] = "CYCLE" /\ CycleAgain(t)
          /\ timer' = t
    /\ tpc' = "fire"
    /\ UNCHANGED <<now, exists, interval, type, total_cnt, sem, nowMS, next_expired,
                   wakeAt, call, calls>>

\* The callback is called outside the mutex, with what the TIMER_T holds by now.
Fire ==
    /\ tpc = "fire"
    /\ tpc' = "callback"
    /\ UNCHANGED <<now, lists, sem, nowMS, next_expired, wakeAt, timer, call, calls>>

\* It returns and the loop looks for the next expired timer.
CallbackEnd ==
    /\ tpc = "callback"
    /\ call[TimerThread].at = "idle"
    /\ tpc' = "read"
    /\ timer' = NoTimer
    /\ UNCHANGED <<now, lists, sem, nowMS, next_expired, wakeAt, call, calls>>

ThreadStep ==
    \/ ThreadArm \/ ThreadWake \/ ThreadRead \/ DispatchNone \/ DispatchExpired
    \/ Fire \/ CallbackEnd

Tick ==
    /\ now < MaxNow
    /\ now' = now + 1
    /\ UNCHANGED <<lists, sem, thread, call, calls>>

Next ==
    \/ \E t \in Timers : Create(t)
    \/ \E c \in Threads, t \in Timers :
         StartRead(c, t) \/ Stop(c, t) \/ Trigger(c, t) \/ Delete(c, t)
    \/ \E c \in Threads, time_ms \in Intervals, timer_type \in Types :
         Start(c, time_ms, timer_type)
    \/ \E c \in Threads : Post(c)
    \/ ThreadStep
    \/ Tick

Spec == Init /\ [][Next]_vars

\* The scheduler runs the thread and the callers inside a call; time passes.
Fairness ==
    /\ WF_vars(ThreadStep)
    /\ WF_vars(Tick)
    /\ \A c \in Threads : WF_vars(Post(c))
    /\ \A c \in Threads :
         WF_vars(\E time_ms \in Intervals, timer_type \in Types : Start(c, time_ms, timer_type))

FairSpec == Spec /\ Fairness

-----------------------------------------------------------------------------
(* Properties *)

Active == {list_active[i] : i \in 1..Len(list_active)}

\* The types; neither counter of s_timer_mgr goes below 0 or above the timers there are.
TypeOK ==
    /\ now \in 0..MaxNow
    /\ exists \subseteq Timers
    /\ list_active \in Seq(Timers)
    /\ list_standby \subseteq Timers
    /\ expire_time \in [Timers -> Nat]
    /\ interval \in [Timers -> Nat]
    /\ is_running \in [Timers -> BOOLEAN]
    /\ type \in [Timers -> Types]
    /\ total_cnt \in 0..Cardinality(Timers)
    /\ running_cnt \in 0..Cardinality(Timers)
    /\ sem \in 0..SemMax
    /\ tpc \in {"arm", "wait", "read", "lock", "fire", "callback"}
    /\ nowMS \in 0..MaxNow
    /\ next_expired \in Nat \cup {FOREVER}
    /\ wakeAt \in Nat \cup {FOREVER}
    /\ timer \in Timers \cup {NoTimer}
    /\ call \in [Threads -> [at : {"idle", "start", "post", "delete"},
                             on : Timers \cup {NoTimer}, ms : 0..MaxNow]]
    /\ calls \in 0..MaxCalls

\* The running timers stay in order of expiry, whichever of start, re-arming,
\* trigger and deletion touched them last: the thread only looks at the first.
ActiveSorted ==
    \A i, j \in 1..Len(list_active) :
        i < j => expire_time[list_active[i]] <= expire_time[list_active[j]]

\* Timers under deletion are on no list though still allocated.
Deleting == {call[c].on : c \in {d \in Threads : call[d].at = "delete"}}

\* Both counters say how long the lists are, every live timer is on exactly the
\* list its is_running flag names, and none is on a list twice.
ListsConsistent ==
    /\ running_cnt = Len(list_active)
    /\ Cardinality(Active) = Len(list_active)
    /\ Active \cap list_standby = {}
    /\ Active \cup list_standby = exists \ Deleting
    /\ total_cnt = Cardinality(exists \ Deleting)
    /\ \A t \in exists \ Deleting : is_running[t] <=> t \in Active

Posting == {c \in Threads : call[c].at \in {"post", "delete"}}

\* The thread never sleeps past the first expiry: while it goes to wait or
\* waits, with no token and no caller about to post one, its timeout ends no
\* later than the first running timer needs.
NoLostWakeup ==
    tpc \in {"arm", "wait"} /\ sem = 0 /\ Posting = {} /\ list_active # << >> =>
        /\ next_expired # FOREVER
        /\ nowMS + next_expired <= expire_time[Head(list_active)]

Expired(t) == t \in Active /\ expire_time[t] <= now

\* A running timer that has expired is dispatched, or is stopped or restarted.
ExpiredDispatched == \A t \in Timers : Expired(t) ~> ~Expired(t)
=============================================================================
