------------------------------ MODULE WifiConn ------------------------------
(***************************************************************************)
(* The Wi-Fi link, src/tuya_cloud_service/netmgr/netconn_wifi.c: it joins  *)
(* the network it is given and joins it again when it is lost.             *)
(*                                                                         *)
(* Its state conn.stat is read and written, without a lock, by the thread  *)
(* of the system work queue (connect and disconnect messages), by the      *)
(* thread of the software timers (back off and retry), by the thread of    *)
(* the radio driver (events) and by the callers of netconn_wifi_set.  A    *)
(* handler that tests conn.stat and stores it later does so in two steps.  *)
(* The driver is external: it tries, answers or stays silent, loses the    *)
(* network, and reports its events one by one and in order.                *)
(***************************************************************************)
EXTENDS Integers, Sequences

CONSTANTS TableSize,    \* intervals in the back-off table, 6 in the code
          MaxCreds,     \* bound: sets of credentials
          MaxAsks,      \* bound: calls of netconn_wifi_set
          MaxFaults,    \* bound: failed calls, silent or failed attempts, losses
          MaxQueue      \* bound: messages that wait, but for those of the driver

ASSUME WifiConnAssumption ==
    /\ TableSize \in Nat \ {0}
    /\ MaxCreds \in Nat \ {0}
    /\ MaxAsks \in Nat
    /\ MaxFaults \in Nat
    /\ MaxQueue \in Nat \ {0}

VARIABLES
    stat, count, timer, creds,  \* wifi->conn: its timer is armed or not
    status,         \* wifi->base.status
    queue,          \* the messages on the system work queue
    wrk, tmr, ev,   \* where the three threads are
    radio,          \* external: the station, and the credentials it uses
    events,         \* external: the events that the driver will report
    asks, faults,   \* history
    due,            \* history: the link was asked for and not closed since;
                    \* "lost" when a retry has been lost since
    unused,         \* history: credentials were set without a message, as the
                    \* link was up or as there was no room for one
    both            \* history: two threads backed off at the same time

conn == <<stat, count, timer, creds, status, queue>>
world == <<radio, events>>
bounds == <<asks, faults>>
history == <<due, unused, both>>
wifivars == <<conn, wrk, tmr, ev, world, bounds, history>>

Stats == {"REDAY", "CHECK", "LINKUP", "WAIT", "STOP"}

RadioOff == [st |-> "off", creds |-> 0, mute |-> FALSE]

\* netconn_wifi_open: an activated device reads its credentials, if it has any,
\* and asks for the link.
InitWifi ==
    /\ stat = "REDAY" /\ count = 0 /\ timer = FALSE /\ status = "DOWN"
    /\ \/ creds = 0 /\ queue = <<>>
       \/ creds \in {0, 1} /\ queue = <<"CONNECT">>
    /\ wrk = "idle"
    /\ tmr = [pc |-> "idle", grow |-> FALSE]
    /\ ev = [pc |-> "idle", grow |-> FALSE]
    /\ radio = RadioOff
    /\ events = <<>>
    /\ asks = 0 /\ faults = 0
    /\ due = IF queue = <<>> THEN "no" ELSE "link"
    /\ unused = "no" /\ both = FALSE

-----------------------------------------------------------------------------
(* The driver *)

\* tal_wifi_station_disconnect: leaving a network is reported.
Leave ==
    /\ radio' = RadioOff
    /\ events' = IF radio.st = "up" THEN Append(events, "DOWN") ELSE events

QueueRoom == Len(queue) < MaxQueue

Fault == faults < MaxFaults /\ faults' = faults + 1

RadioUp ==
    /\ events = <<>>
    /\ radio.st = "trying" /\ ~radio.mute /\ radio.creds # 0
    /\ radio' = [radio EXCEPT !.st = "up"]
    /\ events' = Append(events, "UP")
    /\ UNCHANGED <<conn, wrk, tmr, ev, bounds, history>>

\* An attempt fails; one without credentials always does.
RadioFails ==
    /\ events = <<>>
    /\ radio.st = "trying" /\ ~radio.mute
    /\ IF radio.creds = 0 THEN UNCHANGED faults ELSE Fault
    /\ radio' = RadioOff
    /\ events' = Append(events, "DOWN")
    /\ UNCHANGED <<conn, wrk, tmr, ev, asks, history>>

RadioLost ==
    /\ events = <<>>
    /\ radio.st = "up"
    /\ Fault
    /\ radio' = RadioOff
    /\ events' = Append(events, "DOWN")
    /\ UNCHANGED <<conn, wrk, tmr, ev, asks, history>>

-----------------------------------------------------------------------------
(* Work *)

\* __netconn_wifi_connect in state s: nothing to do when the link is up;
\* otherwise a message, unless there is no room for it.
Connect(s) ==
    \/ s = "LINKUP" /\ UNCHANGED <<queue, faults>>
    \/ s # "LINKUP" /\ queue' = Append(queue, "CONNECT") /\ UNCHANGED faults
    \/ s # "LINKUP" /\ Fault /\ UNCHANGED queue

\* History: a thread retries, or a retry is lost.
Retried == due' = IF due = "no" THEN "no" ELSE IF queue' = queue THEN "lost" ELSE "link"
LostIf(cond) == due' = IF cond /\ due = "link" THEN "lost" ELSE due

\* Mutant of WorkConnect: the attempt has no time limit.
WorkConnectUntimed ==
    /\ wrk = "idle" /\ queue # <<>> /\ Head(queue) = "CONNECT"
    /\ queue' = Tail(queue)
    /\ Leave
    /\ wrk' = "connect"
    /\ UNCHANGED <<stat, count, timer, creds, status, tmr, ev, bounds, history>>

\* __netconn_wifi_connect_process, CONNECT: a new attempt has its time limit ...
WorkConnect ==
    /\ wrk = "idle" /\ queue # <<>> /\ Head(queue) = "CONNECT"
    /\ queue' = Tail(queue)
    /\ Leave
    /\ timer' = TRUE
    /\ wrk' = "connect"
    /\ UNCHANGED <<stat, count, creds, status, tmr, ev, bounds, history>>

\* ... and is started.
WorkStart ==
    /\ wrk = "connect"
    /\ stat' = "CHECK"
    /\ \E mute \in BOOLEAN :
          /\ IF mute THEN Fault ELSE UNCHANGED faults
          /\ radio' = [st |-> "trying", creds |-> creds, mute |-> mute]
    /\ wrk' = "idle"
    /\ unused' = "no"
    /\ UNCHANGED <<count, timer, creds, status, queue, tmr, ev, events, asks, due, both>>

\* DISCONNECT: the station leaves ...
WorkDisconnect ==
    /\ wrk = "idle" /\ queue # <<>> /\ Head(queue) = "DISCONNECT"
    /\ queue' = Tail(queue)
    /\ timer' = FALSE
    /\ count' = 0
    /\ stat' = "STOP"
    /\ Leave
    /\ wrk' = "stopped"
    /\ UNCHANGED <<creds, status, tmr, ev, bounds, history>>

\* ... and 1.5 s are left for its event.
WorkStopped ==
    /\ wrk = "stopped"
    /\ timer' = TRUE
    /\ wrk' = "idle"
    /\ UNCHANGED <<stat, count, creds, status, queue, tmr, ev, world, bounds, history>>

-----------------------------------------------------------------------------
(* Back off: the timer is set from the table, then the place in the table *)
(* moves on and the state becomes WAIT.                                   *)

\* Mutants of Grows: one too far, or without an end.
GrowsFar == count < TableSize
GrowsAlways == TRUE

Grows == count < TableSize - 1

TimerIdle == [pc |-> "idle", grow |-> FALSE]

\* __netconn_wifi_conn_timer tests the state ...  An interval is a second at
\* least: the timer does not fire while the handler that set it is under way.
TimerFires ==
    /\ QueueRoom
    /\ timer /\ tmr.pc = "idle" /\ wrk = "idle" /\ ev.pc # "wait"
    /\ \/ /\ stat = "WAIT"
          /\ Connect(stat) /\ Retried
          /\ timer' = FALSE
          /\ tmr' = [pc |-> "check", grow |-> FALSE]
          /\ UNCHANGED both
       \/ /\ stat = "STOP"
          /\ timer' = FALSE
          /\ tmr' = [pc |-> "ready", grow |-> FALSE]
          /\ UNCHANGED <<queue, faults, due, both>>
       \/ /\ stat = "CHECK"
          /\ timer' = TRUE
          /\ tmr' = [pc |-> "wait", grow |-> Grows]
          /\ UNCHANGED <<queue, faults, due, both>>
       \/ /\ stat \in {"REDAY", "LINKUP"}
          /\ timer' = FALSE
          /\ UNCHANGED <<tmr, queue, faults, due, both>>
    /\ UNCHANGED <<stat, count, creds, status, wrk, ev, world, asks, unused>>

\* ... and stores what follows, whatever the state is by now.
TimerStores ==
    /\ tmr.pc # "idle"
    /\ count' = IF tmr.grow THEN count + 1 ELSE count
    /\ stat' = CASE tmr.pc = "check" -> "CHECK"
                 [] tmr.pc = "ready" -> "REDAY"
                 [] tmr.pc = "wait" -> "WAIT"
    /\ LostIf(tmr.pc = "ready" /\ stat # "STOP")
    /\ tmr' = TimerIdle
    /\ UNCHANGED <<timer, creds, status, queue, wrk, ev, world, bounds, unused, both>>

\* __netconn_wifi_event stops the timer and tests the state.
EventConnected ==
    /\ ev.pc = "idle" /\ events # <<>> /\ Head(events) = "UP"
    /\ events' = Tail(events)
    /\ timer' = FALSE
    /\ count' = 0
    /\ stat' = "LINKUP"
    /\ status' = "UP"
    /\ ev' = [pc |-> "notify", grow |-> FALSE]
    /\ UNCHANGED <<creds, queue, wrk, tmr, radio, bounds, history>>

EventDown ==
    /\ ev.pc = "idle" /\ events # <<>> /\ Head(events) = "DOWN"
    /\ events' = Tail(events)
    /\ \/ /\ stat \in {"CHECK", "WAIT"}
          /\ timer' = TRUE
          /\ ev' = [pc |-> "wait", grow |-> Grows]
          /\ both' = (both \/ tmr.pc = "wait")
       \/ /\ stat = "LINKUP"
          /\ timer' = FALSE
          /\ ev' = [pc |-> "ready", grow |-> FALSE]
          /\ UNCHANGED both
       \/ /\ stat \in {"REDAY", "STOP"}
          /\ timer' = FALSE
          /\ ev' = [pc |-> "down", grow |-> FALSE]
          /\ UNCHANGED both
    /\ LostIf(wrk = "connect" /\ ~timer')
    /\ UNCHANGED <<stat, count, creds, status, queue, wrk, tmr, radio, bounds, unused>>

\* It stores what follows; a link that was up is asked for again.
EventStores ==
    /\ ev.pc \in {"wait", "ready", "down"}
    /\ count' = IF ev.grow THEN count + 1 ELSE count
    /\ \/ /\ ev.pc = "wait"
          /\ stat' = "WAIT"
          /\ UNCHANGED <<queue, faults, due>>
       \/ /\ ev.pc = "ready"
          /\ stat' = "REDAY"
          /\ Connect("REDAY") /\ Retried
       \/ /\ ev.pc = "down"
          /\ UNCHANGED <<stat, queue, faults, due>>
    /\ status' = "DOWN"
    /\ ev' = [pc |-> "notify", grow |-> FALSE]
    /\ UNCHANGED <<timer, creds, wrk, tmr, world, asks, unused, both>>

-----------------------------------------------------------------------------
(* netconn_wifi_set and the other entry points, in any thread *)

Ask == QueueRoom /\ asks < MaxAsks /\ asks' = asks + 1

\* NETCONN_CMD_SSID_PSWD, and __netconn_wifi_netcfg_finish after pairing.
SetCredentials ==
    /\ Ask
    /\ creds' \in 1..MaxCreds
    /\ Connect(stat)
    /\ unused' = IF queue' # queue THEN "no" ELSE IF stat = "LINKUP" THEN "linkup" ELSE "nomsg"
    /\ due' = IF queue' = queue /\ (stat # "LINKUP" \/ queue # <<>>) THEN "lost" ELSE "link"
    /\ UNCHANGED <<stat, count, timer, status, wrk, tmr, ev, world, both>>

\* NETCONN_CMD_CLOSE: __netconn_wifi_disconnect, nothing to do for a link that
\* is closed or was never asked for; otherwise a message, if there is room.
Close ==
    /\ Ask
    /\ due' = "no"
    /\ \/ stat \in {"STOP", "REDAY"} /\ UNCHANGED <<queue, faults>>
       \/ stat \notin {"STOP", "REDAY"} /\ queue' = Append(queue, "DISCONNECT") /\ UNCHANGED faults
       \/ stat \notin {"STOP", "REDAY"} /\ Fault /\ UNCHANGED queue
    /\ UNCHANGED <<stat, count, timer, creds, status, wrk, tmr, ev, world, unused, both>>

\* NETCONN_CMD_RESET erases the credentials; __wifi_reset_event_cb stops the
\* timer, and erases them if the device is activated.
ResetFields ==
    /\ stat' = "STOP"
    /\ \/ UNCHANGED timer /\ creds' = 0
       \/ timer' = FALSE /\ creds' \in {creds, 0}

\* Mutant of Reset: the station keeps the network whose credentials are erased.
ResetStays ==
    /\ Ask
    /\ due' = "no"
    /\ ResetFields
    /\ UNCHANGED <<count, status, queue, wrk, tmr, ev, world, faults, unused, both>>

Reset ==
    /\ Ask
    /\ due' = "no"
    /\ ResetFields
    /\ Leave
    /\ UNCHANGED <<count, status, queue, wrk, tmr, ev, faults, unused, both>>

WifiStep ==
    \/ RadioUp \/ RadioFails \/ RadioLost
    \/ WorkConnect \/ WorkStart \/ WorkDisconnect \/ WorkStopped
    \/ TimerFires \/ TimerStores
    \/ EventConnected \/ EventDown \/ EventStores
    \/ SetCredentials \/ Close \/ Reset

WifiQuiet == wrk = "idle" /\ tmr.pc = "idle" /\ ev.pc = "idle" /\ queue = <<>> /\ events = <<>>
=============================================================================
