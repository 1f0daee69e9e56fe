# TLA+ models of gk-bag

The repository is the firmware of a smart punching bag (`apps/gk_bag`) on the
TuyaOpen SDK (`src/`, `tools/porting`, with `apps/`, `boards/` and `examples/`
around it). These modules model the parts whose correctness depends on
interleavings, boundaries or failures: the SDK's workqueue, timers, event bus,
cloud client, MQTT service with its requests and network manager, and the bag's
own sensor pipeline. TLC checks them on small
instances; TLAPS proves the safety invariants of all of them for every value of the
constants.

Paths below are relative to the repository.

## 1. The system

| component | state | operations | hard because |
|---|---|---|---|
| Workqueue, `src/tal_system/src/tal_workqueue.c` over `tools/porting/adapter/utilities/src/tuya_queue.c` | bounded list, counting semaphore, a worker thread | create, schedule, schedule instant, cancel, release | insertion and post are two steps; cancel races the worker; release must outlast it |
| Thread life cycle, `tal_thread.c` | state of a thread record, list of records to delete | start, delete, get_state, self-release | the thread frees the record that others poll |
| Delayed work, `tal_workqueue.c:329-444` | a timer and a work item | start, stop, cancel | timer thread against worker |
| Software timers, `tal_sw_timer.c` | sorted active list, standby list, counters, semaphore, a thread | create, start, stop, trigger, delete, dispatch | sleep with a timeout computed earlier; callbacks outside the mutex |
| Event bus, `tal_event.c` | events with subscribers, subscribers without event | subscribe, unsubscribe, publish | lookup without a mutex |
| Force sensor and main task, `apps/gk_bag/src/force_sensor.c`, `main.c` | offsets, two rings, session statistics | init, read, hit point, calibrate, reset | warm-up, wrap-around, signs |
| GUI and user data, `apps/gk_bag/src/gui_main.c`, `user_auth.c` | pages, labels, one user record | show page, update hit page, login, logout | values copied from other parts |
| Cloud client, `src/tuya_cloud_service/cloud/tuya_iot.c` | state and next state, activation flag, flash, binding, token semaphore | yield (17 states), start, stop, reset, reconnect, token event | one field written by many threads; power failures; every server may fail |
| MQTT service, `mqtt_service.c`, `src/libmqtt/src/mqtt_client_wrapper.c` | context flags, client, subscribe and publish lists | init, start, stop, loop, destroy, publish | life cycle flags and pointers are separate; the list is walked and appended to by different threads without a lock |
| MATOP requests, `matop_service.c` | list of requests, last identifier | init, request, answer, timeout, destroy | the same list discipline; identifiers start again at every connection and have 16 bits of a 32-bit counter |
| Network manager, `src/tuya_cloud_service/netmgr` | links in order of priority, active link and status; the Wi-Fi link's state, back-off place, timer and credentials | set, event, timer, connect and disconnect messages | four threads write one state without a lock |
| Others | | | key value store, HTTP services, upgrade, health, LAN, Bluetooth, pairing, schema, AI client, peripherals, CLI, log: see `PROJECT.json` |

They interact by calls (a client schedules work; the cloud client drives the
MQTT context), by callbacks on the other side's thread (timer callbacks, work
callbacks, event subscribers, MQTT callbacks), by semaphores (workqueue, timer
thread, token) and by plain shared fields (`nextstate`, `thrdRunSta`). LVGL,
lwIP, mbedTLS, NimBLE, coreMQTT, coreHTTP and littlefs are third-party and
outside the project. What the modelled code uses of them is marked external, or, for
the packet identifiers and publish records of coreMQTT, taken from its source.

What makes each part correct:

- *workqueue*: accepted work is run once, or cancelled, or the queue released;
  ordinary work runs in order; nothing is used after it was freed;
- *timers*: no expired timer is slept over; lists, flags and counters agree;
- *event bus*: whoever subscribed is called, in order, once if one-time, and not
  after unsubscribing;
- *force sensor*: the rings compute the filter they stand for; the statistics
  agree with each other and the panel; rest should be no hit, and is one (section 5);
- *MQTT service, MATOP*: every message that was accepted gets its callback, once,
  with its own result; nothing is lost from a list or used after it was freed;
- *network manager*: it names the right link when things have settled; a link that
  was asked for is tried until it is up or closed, with the credentials set last;
- *cloud client*: an activated client has its activation in flash whenever the
  power fails; only an activated client is online; it always gets somewhere.

The hazards behind these, each at its line, are in `PROJECT.json`.

## 2. Modules and their correspondence to the code

**WorkQueue** (`MCWorkQueue`, `WorkQueueProofs`). `queue`, `queue_free` are
the fields of `TUYA_QUEUE_T`, `sem` the semaphore, `thrdRunSta` and `nodeFreed`
the worker's `THRD_MANAGE`. `Schedule` is the insertion (`__enqueue`),
`SchedulePost` the post after it; `call[t]` says that thread t is between them.
The worker steps through `start, check, wait, output, run, poll, exit, reap,
gone` (`wpc`): `__WrapRunFunc` and `__work_thread_cb`. While it is in `run` its
callback may schedule and cancel too. `Cancel` is one step, as it holds the
queue's mutex. `ReleaseBegin`, `ReleaseStop`, `ReleasePost`, `ReleaseFree` are
`tal_thread_delete` and `tal_workqueue_release`; a state read from a freed record
(`ObservedStates`) is arbitrary. Clients stop calling when one of them releases:
the API has no other protection, so this is the contract the model assumes.
An allocation that fails in `__enqueue` changes nothing and is a stuttering step.
`accepted`, `ran`, `cancelled` and the fields `id`, `instant` are history.

**WorkDispatch** is what a workqueue promises: accepted work waits in a bounded
list, is started from the front one at a time, can be disarmed while it waits,
until the queue is closed. `WorkQueue!Dispatch` instantiates it with
`pending <- queue`, `current <-` the worker's item while in a callback,
`started <- ran`, `closed <- rel = "released"`.

**SwTimer** (`MCSwTimer`, `SwTimerProofs`). `list_active` is a sequence, `list_standby` a set: its
order is never used. An operation is its critical section followed by `Post`;
`StartRead` separates the clock reading of `tal_sw_timer_start` from its critical
section. The thread steps through `arm, wait, read, lock, fire, callback`.
A timer has an owner that makes no two calls on it at once, and that starts no cyclic
timer with interval 0: `tal_sw_timer_start` does not check this, the timer thread
would call such a timer for ever, and the model takes it for the caller's duty.
`tal_sw_timer_is_running` and `remain_time_get` only read.

**EventBus** (`MCEventBus`, `EventBusProofs`). One event name; `event_root` has one list per node
of that name, because two may come to exist. Each call is its lookup
(`_event_node_get`, unlocked) and its critical section; a dispatch is one step
per callback with the event's mutex held. `Collected` is the loop of
`_event_node_create_init` over the free list. `owed`, `used`, `overtaken` and the
like are history.

**ForceSensor** (`MCForceSensor`, `ForceSensorProofs`). `MainTurn` is one turn of `gk_bag_main_task`:
`ReadData` (`gk_sensor_read_data`), the threshold and statistics of
`gk_calculate_hit_point`, and the labels of `gk_gui_update_hit_visual`. Forces are
integers in twentieths of a newton and quotients are rounded down, as `\div`
does; the reference definition rounds the same way. Six channels are filtered
alike and independently: two are kept. Magnitudes are compared as squares. The
position of a hit, a formula over the torques, is left out. `Swapped`, `Pass` and
`Sorted` are the bubble sort of `calculate_median`, comparison by comparison; the
reference, `MedianOf`, speaks of the numbers of values below and not above.

**IotClient** (`MCIotClient`, `IotClientProofs`). One action per state of `tuya_iot_yield`, split
where another thread or a power failure can tell the difference: the token wait,
the two writes and the two deletions in flash. `Begin` is
`client->state = client->nextstate`; an action that ends a turn writes
`nextstate` or leaves it alone. Callers ask for a reset (write, then check of the
state), a stop, and a start or reconnection (check, then write). The answers of
network, servers and broker are nondeterministic; `dead` records a NULL
dereference, after which only `Reboot` is possible. The MQTT context is reduced to
`is_inited`, client, `is_connected`, `manual_disconnect`. A write or deletion of
one key in flash is atomic, as littlefs provides. Events sent to the
application are left out: they change nothing here.

**MqttService** and **Matop** (`MCMatop`, `MatopProofs`). `MqttService` is the connection and the
publish list; `Matop` extends it with the requests, with what the connection
callbacks of `tuya_iot.c` do to them, and with the next-state relation of both.
The thread of `tuya_iot_yield` steps through `top, (connected,) scan, freetail,
yield, free, matop, freematop` (`loop`): reconnection, the for loop over the
publications, `mqtt_client_yield` with its callbacks, `matop_serice_yield`. Other
threads (`at`) publish - plain, synchronously or asynchronously - and ask; an
append is the read of the head, one step per `next` pointer followed, and the
store. An entry is a heap object used once; `freed` holds the entries given back.
Following a freed or a NULL pointer is undefined behaviour: `dead` records it and
the behaviour ends. There is no clock: `Expire` lets an entry's timeout pass at
any moment. A call of coreMQTT is one step; what it knows is the next packet
identifier and its records of publications of QoS 1 (`core_mqtt_state.c`): those whose
acknowledgement it waits for (`Outstanding`) and those it could not send (`unsent`), whose
record stays until the next connection clears them all. A publication of QoS 1 fails
when there is no free record (`MaxRecords`, 10 in the code) or its identifier is in one;
one of QoS 0 has no record. A request's number is `id_cnt + 1` (`draw`), of which its
identifier keeps 16 bits (`ReqIds` values). The server answers any request that was sent,
at any time, any number of times. `StopService` asks neither whether the service was started
nor whether it is connected, as `tuya_mqtt_stop` does not; it may go on to
`tuya_mqtt_destory`, and `Destroy` is that call alone. An entry joins `early` when
its acknowledgement comes while its sender still has it in hand; one that comes after
the timeout was reported leaves `early` alone.
`acked`, `early`, `reports`, `overlapped`, `forgotten`, `epoch` are history.
Allocation failures are left out.

**WifiConn** and **NetMgr** (`MCNetMgr`, `NetMgrProofs`). `WifiConn` is `netconn_wifi.c`: messages on
the system work queue (`WorkConnect`, `WorkStart`, `WorkDisconnect`,
`WorkStopped`), the timer's handler, the driver's event handler, and the callers of
`netconn_wifi_set`. A handler is split between the test of `conn.stat` and what it
stores, because any of the other threads may store in between. The radio driver is
external: an attempt succeeds, fails or stays silent, a network may be lost, and
events are reported one after the other. The timer fires at any time after the
handler that set it has ended (its intervals are a second or more).
`NetMgr` adds the wired link and `__netmgr_event_cb`: `Read` is the choice of the
active link, `Store` the assignments, and two calls may overlap. The two reads of
the links in one call are one step: a change between them has a call of its own
that follows. The wired driver and a caller of `NETCONN_CMD_PRI` are one thread.
That command stores the priority (`pri`) and calls `__netmgr_event_cb`; it does not
sort the list again, so the order stays what `__netmgr_conn_register` made it.
(`netconn_wifi_get` overwrites the stored priority too; nothing reads it, and this is left
out.) A message for connect or disconnect may fail to be allocated or queued, in `Close` as
in the others. `unused` says whether the last credentials were set without a message
and why: the link was up (`linkup`), or the message failed (`nomsg`). `due`, `unused`, `both`,
`torn` are history.

## 3. Runs

All runs switch deadlock checking off: the models stop when their bounds on calls,
samples or events are used up.

| run | result | bounds and states | what it shows |
|---|---|---|---|
| `workqueue` | pass | 2 clients, 2 slots, 3 items, 2 callbacks, 1 argument; 281,307 | `NoLostWakeup`, `WorkAccounted`, `CancelledNeverRuns`, `BackInOrder`, `WorkerGoneBeforeFree`, `EveryItemHandled`, `DispatchRefined` |
| `workqueue_release_poll` | violation | 1 client or more | `PollReadsLiveThread`: release polls a record the worker has freed |
| `swtimer` | pass | 2 timers, 2 owners, 3 calls, intervals 0 and 1, clock to 2; 231,414 | `ActiveSorted`, `ListsConsistent`, `NoLostWakeup`, `ExpiredDispatched` |
| `eventbus` | pass | 3 subscribers, one of each type, 2 publishers, 3 subscriptions, 2 publications; 1,443,495 | `DispatchOrder`, `OneTimeOnce`, `HeardUnlessOvertaken`, `QuietUnlessOvertaken` |
| `eventbus_heard` | violation | same | `EveryPublicationHeard`: an event created between lookup and entry |
| `force_sensor` | pass | 3 raw samples, 7 reads, 1 calibration; 794,586 | `FilterMatchesReference`, `StatsConsistent` |
| `iot_client` | pass | 2 callers, 2 calls, 1 power failure; 174,019 | `ActivatedIsStored`, `OnlineOnlyActivated`, `ConnectHasClient`, `KeepsSettling` |
| `iot_lost_reset` | violation | 2 callers, 1 call | `ResetIsNext`: a turn's end overwrites the reset |
| `iot_stop_twice` | violation | 2 callers, 2 calls | `ClientNeverNull`: a stop after a stop |
| `mqtt_service` | pass | 2 threads, 2 publications or requests, 6 packet identifiers, 2 records, 2 request identifiers, 1 fault; 647,991 | `ListsAlive`, `AcceptedReachable`, `ReportedOnce`, `AnswersFit`, `TimeoutsHonest`, `FreedReported`, `CrashCauses`, `EverySettled` |
| `netmgr` | pass | 2 calls, 1 fault, table of 2, 2 sets of credentials, 2 messages; 5,900,004 | `ManagerAgrees`, `BackoffInTable`, `CredentialsUsed`, `NeverStranded` |
| `wifi_credentials` | violation | same | `CredentialsReconnect`: credentials set while the link is up are not used |

Why the bounds are enough. *Workqueue*: three items for two slots fill the queue,
make it refuse, and let one be cancelled, one instant and one scheduled by a
callback; a semaphore of maximum 2 can overflow. The proofs below remove the
bounds. *Timers*: with two timers every insertion is before, after or equal; three
calls allow start, re-start, trigger or delete between any two steps of the
thread. *Events*: two publishers create two nodes; three subscriptions exercise
the order and the transfer from the free list. Publishers are symmetric.
*Sensor*: seven reads pass the warm-up (five) and wrap both rings, with the
samples at rest, a strike, and a pull that brings the result under the
threshold. *Cloud client*: two calls and one power failure meet at every step of
every state. *MQTT service*: two entries make a list with a head, a tail and a
removal at either end while the other is appended; one fault is a loss, a stop, a
destruction or a failed send, so that two connections exist and with six packet
identifiers the second uses those of the first again. A failed send and a waiting
publication use up the two records. Request identifiers come round only with three
requests or more: the safety properties also hold with one thread, three entries and
two identifiers (10.6 million states), and there `AnswersFit` fails without its
exception `CameRound`; the theorem covers every number. *Network manager*: two calls and one fault
meet at every step of the three threads; a table of two intervals reaches its end
after one failure. It was also checked with two faults.

Fairness. `WorkQueue`: the worker thread, and a caller between insertion and post,
are eventually scheduled (weak fairness; preemptive threads). Nothing forces a
client to call. `SwTimer`: the same for the timer thread and for callers inside a
call, and the clock advances. `IotClient`: the application calls
`tuya_iot_yield` in a loop (weak fairness of the turn) and callers finish their
calls; memory, network, endpoint, activation, flash and broker succeed again and
again when asked again and again (strong fairness on each): nothing in the code
can make them, and without it no client gets online. The arrival of a token is
not assumed: a client may wait in `TOKEN_PENDING` for ever. `Matop`: threads finish
the calls they have begun, the loop keeps turning and the clock runs (weak
fairness); a broker that is asked again and again accepts a connection in the end
(strong fairness). No acknowledgement and no answer is assumed: timeouts settle
what stays silent. `NetMgr` states no fairness: `NeverStranded` says instead that
in every state at rest something is left that goes on.

`KeepsSettling` allows the client to remain where a failed `tuya_mqtt_init` leaves
it (`MQTT_CONNECT_START` refused by every `tuya_mqtt_start`): no turn retries the
initialisation. It also allows a client that crashed; `iot_stop_twice` shows one
way, and the binding freed under a late token (`tuya_iot.c:830`) is another.

`HeardUnlessOvertaken` and `QuietUnlessOvertaken` say exactly when the event bus
is reliable: as long as no event is created between the lookup and the critical
section of another call on it. `eventbus_heard` shows that the condition is needed.

The properties of `mqtt_service` and `netmgr` name their exceptions, and each
exception is reached by the code as it is:

- an append that meets another operation on the list (`overlapped`) may lose an
  entry or write to freed memory: nothing is locked;
- a publication that times out as the last of the list leaves the for loop of
  `tuya_mqtt_loop` with a NULL pointer (`dead = "tail"`); when it is not the last,
  the entry behind it is passed over until the next turn;
- an acknowledgement that arrives while the sender of a synchronous publication has
  not yet put it on the list finds nothing, and the publication is later reported as
  timed out (`early`). An acknowledgement that comes after the report of the timeout
  finds nothing either, and is no exception: `TimeoutsHonest` is about reports made
  after the acknowledgement, so it is an action property;
- `tuya_mqtt_init` zeroes a list that `tuya_mqtt_destory` has left alone
  (`forgotten`); a request made before `matop_serice_init` runs for a new connection
  is dropped in the same way, and one that waits when a connection ends is freed
  without a call of its callback (`Stale`);
- publications outlive a connection while the broker's session does not, and
  request identifiers start at 1 again, so that an acknowledgement or a late answer
  can meet an older or newer message under the same identifier (`AnswersFit`);
- the 16 bits of a request's identifier are the same for two requests that lie 65536
  apart, so that a late answer to the first goes to the second (`CameRound`);
- the same happens within one connection, on instances larger than the run's: a
  publication that missed its acknowledgement (`Missed`) still waits when the packet
  identifiers come round, and takes the acknowledgement of the next one with its
  identifier; and two threads that draw a request identifier at once store `id_cnt` in
  either order, so that it may fall back and a later request share the identifier of an
  earlier one. It takes one packet identifier, or four requests of two threads; the
  attempt to prove `AnswersFit` without these exceptions brought out both;
- two overlapping calls of `__netmgr_event_cb` may leave the older result (`torn`)
  until the next one;
- credentials set while the link is up are stored and not used, although the comment at
  `netconn_wifi.c:381` says that they cause a disconnect and connect: the run
  `wifi_credentials` checks the comment's claim and fails. Credentials set in another
  state are not used when their message cannot be allocated or queued, as
  `netconn_wifi_set` ignores that failure;
- a retry is lost when a message cannot be queued, when the timer's store overwrites
  the state of a new attempt, or when the event of the old link stops the time limit
  of the new attempt (`due = "lost"`); two threads that back off at the same time may
  pass the end of the table (`both`).

`ManagerAgrees` speaks of the order in which the links were registered, whatever their
priorities are now. After a caller has put the radio above the wire the manager still
names the wire; `netconn_wifi.c:370` says that setting the priority makes the active
connection be negotiated again. The property says what the code does, and its
holding is the evidence for the finding in section 5.

An exception that is the hazard itself is no check of that hazard. In `PROJECT.json` such
a hazard (the append race, the lost acknowledgement, the overwritten state of the radio,
two calls of the manager's callback) lists the properties that bound its damage, or
none, and a note says what they leave open.

Each property has a mutant: a definition of the model changed as a plausible bug
would change the code (a dropped limit, an off-by-one, a missing reset), defined
beside the original, under which the property fails.

## 4. Proofs

The theorems hold for every value of the constants that the named assumption of the
module allows: any finite sets of clients, timers, subscribers and publishers, any
queue length above 0, any intervals, samples and bounds on calls. Each rests on an
inductive invariant that TLC checked first; the proof that a step keeps it has one
case per action. The invariants below are what the properties alone lack.

**ListFacts** is about lists: the places of a list after an element was put in or
taken out (`RemovedAt`, `InsertedAt` and their like), and lists without repetition. It
also proves induction up to a number from the least element of a set of numbers
(`MinFacts`, `InductionTo`) and from it that a recursive function with a given step
exists (`Recursion`). The induction theorems of the library take an operator as a
parameter, which the installed provers cannot instantiate; here the property is a
*set* of numbers. This makes the loops of the code provable: `Collected` of `EventBus`,
the bubble sort and the sums of `ForceSensor`.

**WorkQueueProofs** (`WorkQueueAssumption`):

- `TypeCorrect`: `Spec => []TypeOK`. `TypeOK` is not inductive: that an enqueue
  keeps `queue_free` at 0 or more is its guard, but that a dequeue keeps it at
  `QueueLen` or less needs `queue_free + Len(queue) = QueueLen`. The invariant is
  `Typed == TypeOK /\ SlotsCounted`.
- `WakeupNeverLost`: `Spec => []NoLostWakeup`. Tokens are counted in three
  places: the semaphore, the worker between wait and output, and the threads
  about to post. Before release there are as many as items, so that the
  semaphore is never full when an item's post comes; after release's own post there
  may be more, never fewer. `PostingFacts` supplies the cardinality steps.
- `FreedAfterWorker`: `Spec => []WorkerGoneBeforeFree`, from `Handshake`, which
  ties the thread's state, the worker's position and the progress of release
  together. Release may read the state from a freed record; then the worker is
  already gone, so that even an arbitrary value does no harm to this property.
- `DispatchImplemented`: `Spec => DispatchRefined`, the initial state and one step
  per action, under `Typed` and `Handshake`.

- `NothingLost` (`WorkAccounted`), `CancelHolds` (`CancelledNeverRuns`) and `OrderKept`
  (`BackInOrder`). The properties speak of what ran; the invariant `WorkInv` speaks of
  list and log together: identifiers are unique over both (`Unique`), the cancelled items
  on the list are those without a callback (`Disarming`), ordinary work is in order on
  the list, in the log, and in the log before the list (`Ordered`), and nothing accepted
  is missing (`Covered`).

**SwTimerProofs** (assumptions of `SwTimer`): `TypeCorrect`, `StaysSorted`
(`ActiveSorted`), `ListsAgree` (`ListsConsistent`), `WakesInTime` (`NoLostWakeup`). `ListInv`
is stronger than the lists' properties: the active list has no timer twice, the two
lists divide the live timers, the counters count them. `Exclusive` says that a call
works on a live timer that nobody else works on; without it a post after a deletion
could not be told from one before. `InsertedSorted` and `Attached` are the lemmas about
the insertion loop; `PromiseKept` is the argument of `NoLostWakeup`: whoever puts a
timer in front of what the thread waits for still has to post.

**EventBusProofs**: `TypeCorrect`, `CalledInOrder` (`DispatchOrder`), `CalledOnce`
(`OneTimeOnce`), `Heard` (`HeardUnlessOvertaken`), `Quieted` (`QuietUnlessOvertaken`). `Apart`
keeps the lists of different nodes, the free list and the used one-time
subscriptions disjoint; `Holding` ties a dispatch to the node whose mutex it
has. The last two theorems need that as long as nobody was overtaken there is at most
one node and one list (`OneList`), that it has exactly the subscriptions in force
(`InForce`), and that what a dispatch still owes is in what it still has to call
(`Reaching`). `CollectedAll` proves what the loop over the free list returns.

**ForceSensorProofs**: `TypeCorrect`, `FilterCorrect` (`FilterMatchesReference`),
`StatsAgree` (`StatsConsistent`), `RestCounts`. The invariant says which sample and which median each
slot of the two rings holds (`Ringed`, `Smoothed`: position k is in slot
`(k - 1) % Window`) and that the last result is the mean over the second ring
(`Returned`). `SortedFacts` proves the bubble sort: after i passes the last i values are in
their places, and the values are those of the beginning, in another order
(`Arranged`). Counting values does not depend on their order (`ArrangedCounts`), so the
sorted array's middle is a median of the ring and of the samples (`MedianFacts`,
`RingArranged`); there is only one (`MiddleUnique`). `RingTotal` is the same for the sum, which
the code takes in the order of the slots. The numbers are integers: rounding of
floats is outside the model and the theorem. `RestCounts` is about one sample: the force
computed at rest counts as a hit, after `gk_sensor_init` and after a calibration made
at rest, because the gravity offset has the wrong sign.

**IotClientProofs**: `TypeCorrect`, `ActivationStored` (`ActivatedIsStored`), `OnlineActivated`
(`OnlineOnlyActivated`), `ConnectsWithClient` (`ConnectHasClient`). `Stored` follows the two
writes and the two deletions in flash; `Owned` says that an initialised context has a
client only while the client is activated; `Routed` says where `state` and `nextstate` may
lead while it has none, whatever other threads write into `nextstate`.

**NetMgrProofs**: `TypeCorrect`, `BackoffWithinTable` (`BackoffInTable`), `CredentialsInUse`
(`CredentialsUsed`), `LinkPursued` (`NeverStranded`), `ManagerUpToDate` (`ManagerAgrees`).
`BackoffBound` counts what the timer and the driver are about to add to the place in the
table; `StatusFollows` relates the radio to the status through the events still to be
reported; `MarkedUp`, `LastConnects` and `Pursued` follow a link that was asked for
through message, attempt, timer and event; `ManagerFollows` says that, unless two calls
met, the links as they are have been stored, or read by the only call under way, or a
call is still to come. `CredentialsUsed` and `ManagerAgrees` are proved with the exceptions
and in the reading given in section 3.

**MatopProofs** (`MqttServiceAssumption`, `ReqIdsAssumption`): every safety property of `Matop`,
for any threads and any numbers of messages, records, packet identifiers, request
identifiers and faults: `TypeAlways`, `ListsAliveAlways`,
`AcceptedReachableAlways`, `ReportedOnceAlways`, `AnswersFitAlways`,
`TimeoutsHonestAlways`, `FreedReportedAlways`, `CrashCausesAlways`. All follow from one
invariant, `IInv == Base /\ Silence` (`Invariance`), because each of the properties needs the shape of lists
that threads append to while the loop takes entries out:

- `Hands`, `Shape`: pointers, and the places where threads stand in their walk, lead to
  accepted entries of the list's kind, and no entry is in two hands;
- `Alive`: no list and no entry that is still there leads to one that is gone (reported
  or freed), and no two of them to the same one. Hence the loop never meets a
  freed entry, and a callback is called once: a removed entry cannot be found again;
- `Marked`, `CutOff`: two threads on one list are both marked as overlapped; a thread
  that is not marked stands at a live entry; and whatever the store that ends an append
  may cut off is marked. `CrashCauses` needs the second, `AcceptedReachable` the third;
- `OnTheWay`, `Kept`: an undisturbed append stands on the list, and at its end when it is
  about to store; an accepted entry is on its list, gone or excused;
- `Ranked`: the pointers do not lead in a circle, so that taking an entry out by changing
  one pointer takes out that entry and no other;
- `Cursor`, `Counted`, `Packets`, `Drawn`, `Heard`: the loop's place between two steps, the
  bounds of identifiers and connections, the identifiers of one connection that differ,
  and what the callbacks were told so far;
- `Silence`: an acknowledged publication that was not in its sender's hand then, and of
  which no callback was told, is out of the loop's reach: not on the list, not behind the
  place of its walk, in nobody's hands. It is kept because an
  entry that is off the list does not come back (the lemmas of the section "What is lost
  does not come back"). `TimeoutsHonest` needs it: the loop takes timeouts from the list.

A list is a chain of pointers, `Chain`, defined by a recursive function over the steps. The
lemmas from `BehindFacts` to `ChainLinked` show that it is the least set that has the
head and is closed under `next` (with a counting argument: a chain of more steps
than entries comes back to where it was), and what becomes of it when a pointer
is changed. From there on no proof speaks of steps. `CoreRead`, `CoreWalk`, `CoreLink`, `CoreFirst`,
`CoreRemove` and `CoreDrop` are the steps of the list discipline; the lemmas named
`...Keeps` apply them to the actions. TLC checked the invariant, except `Ranked` (it
quantifies over all functions into the naturals), with two threads and two entries.

Only model-checked:

- `EveryItemHandled`, `ExpiredDispatched`, `KeepsSettling` and `EverySettled`: liveness
  under fairness is beyond the prover;
- the properties of the five runs that show a violation: they are false.

## 5. Findings

Five places where the code contradicts its own comments, each with a run and an
entry in `PROJECT.json`: `tal_workqueue.c:297`, `tal_event.c:435`,
`tuya_iot.c:685`, `mqtt_service.c:507`, `netconn_wifi.c:384` (`wifi_credentials`).

Two more without a violation run. `netconn_wifi.c:373`: the priority of a link is stored
and nothing is negotiated again; `ManagerAgrees` of the run `netmgr` and the theorem
`ManagerUpToDate` show it. `force_sensor.c:87`: the sign of the gravity offset, which its comment
means to compensate gravity; the theorem `RestCounts` shows that the force at rest passes the
threshold of line 11, the least force that is to count as a hit.

## 6. Plan

Done: the modules above, in the order workqueue, timers, event bus, sensor,
cloud client, MQTT service with MATOP, network manager; the theorems of section 4.
Every invariant of a passing run is now a theorem. What a continuation would add:

1. Delayed work, as a composition of `WorkQueue` and `SwTimer`.
2. The subscriptions and protocol handlers of the MQTT service, with the dispatch of
   received messages.

## 7. Not modelled

Drawing and layout, message formats and encryption, HTTP and TLS, data point
parsing, Bluetooth, LAN and pairing protocols, upgrade, AI services, device
drivers, and everything third-party or generated: they are input and output, data
handling without concurrency of their own, or code that is not the project's.
Delayed work (`tal_workqueue.c:329-444`) is a thin layer over two modelled parts and
has no module of its own. Login, register and logout of `user_auth.c` have no caller;
the pages of the GUI are built and shown in one thread and keep nothing but
widgets. The cellular link has the shape of the wired one and the lowest priority.
The lists of MQTT subscriptions and protocol handlers, filled while a connection is
set up and read when a message comes in, are not modelled. `PROJECT.json` gives the reason for each.
