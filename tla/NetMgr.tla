------------------------------- MODULE NetMgr -------------------------------
(***************************************************************************)
(* The network manager, netmgr.c in src/tuya_cloud_service/netmgr, over    *)
(* its Wi-Fi link and its wired link (netconn_wired.c).                    *)
(*                                                                         *)
(* Every change of a link ends in __netmgr_event_cb, in the thread of the  *)
(* change: it looks for the first link of the list that is up and compares *)
(* it with what the manager has stored.  The list is in the order of the   *)
(* priorities the links were registered with; one that is set later is     *)
(* stored in the link and moves nothing.  The manager creates a mutex and  *)
(* never takes it.                                                         *)
(***************************************************************************)
EXTENDS WifiConn, FiniteSets

VARIABLES
    wired,          \* s_netmgr_wired.base.status
    pri,            \* base.pri of the links
    mgr,            \* s_netmgr: the active link and its status
    cb,             \* the calls of __netmgr_event_cb under way
    torn            \* history: two of the calls met since one ran alone

netvars == <<wired, pri, mgr, cb, torn>>
vars == <<wifivars, netvars>>

\* The priorities of s_netmgr_wired and s_netmgr_wifi, and one a caller sets.
Pri == [WIRED |-> 2, WIFI |-> 1]
SetPri == 3

\* __netmgr_conn_register: before the first link of a lower priority.
Register(links, l) ==
    LET k == Cardinality({i \in DOMAIN links : Pri[links[i]] >= Pri[l]})
    IN SubSeq(links, 1, k) \o <<l>> \o SubSeq(links, k + 1, Len(links))

\* netmgr_init with both links.
Links == Register(Register(<<>>, "WIRED"), "WIFI")

\* The calls of the radio's thread, and of the wired driver or a caller.
Callbacks == {"wifi", "other"}
NoCall == [pc |-> "idle", active |-> "WIRED", status |-> "DOWN"]

Init ==
    /\ InitWifi
    /\ wired = "DOWN"
    /\ pri = Pri
    /\ mgr = [active |-> Links[1], status |-> "DOWN"]
    /\ cb = [c \in Callbacks |-> NoCall]
    /\ torn = FALSE

LinkStatus(l, w, f) == IF l = "WIRED" THEN w ELSE f

\* Mutant of Active: the last link that is up.
ActiveLast(w, f) ==
    LET up == {i \in DOMAIN Links : LinkStatus(Links[i], w, f) = "UP"}
        l == Links[IF up = {} THEN 1 ELSE CHOOSE i \in up : \A j \in up : i >= j]
    IN [active |-> l, status |-> LinkStatus(l, w, f)]

\* __get_active_conn, and __get_netmgr_status of what it returns: the first
\* link that is up, otherwise the first one.
Active(w, f) ==
    LET up == {i \in DOMAIN Links : LinkStatus(Links[i], w, f) = "UP"}
        l == Links[IF up = {} THEN 1 ELSE CHOOSE i \in up : \A j \in up : i <= j]
    IN [active |-> l, status |-> LinkStatus(l, w, f)]

Met(c) == \E d \in Callbacks \ {c} : cb[d].pc # "idle"

\* A call begins: the state of the links is read.
Read(c) ==
    LET a == Active(wired, status)
    IN /\ cb' = [cb EXCEPT ![c] = [pc |-> "store", active |-> a.active, status |-> a.status]]
       /\ torn' = Met(c)

\* What differs is stored, and published.
Store(c) ==
    /\ cb[c].pc = "store"
    /\ mgr' = [active |-> cb[c].active, status |-> cb[c].status]
    /\ cb' = [cb EXCEPT ![c] = NoCall]
    /\ ev' = IF c = "wifi" THEN TimerIdle ELSE ev
    /\ UNCHANGED <<conn, wrk, tmr, world, bounds, history, wired, pri, torn>>

\* The last step of __netconn_wifi_event.
WifiNotifies ==
    /\ ev.pc = "notify"
    /\ Read("wifi")
    /\ ev' = [ev EXCEPT !.pc = "called"]
    /\ UNCHANGED <<conn, wrk, tmr, world, bounds, history, wired, pri, mgr>>

\* __netconn_wired_event: a plug is put in or pulled ...
WiredEvent ==
    /\ cb["other"].pc = "idle"
    /\ Ask
    /\ wired' = IF wired = "UP" THEN "DOWN" ELSE "UP"
    /\ cb' = [cb EXCEPT !["other"] = [NoCall EXCEPT !.pc = "notify"]]
    /\ UNCHANGED <<conn, wrk, tmr, ev, world, faults, history, pri, mgr, torn>>

\* ... and the manager told.
WiredNotifies ==
    /\ cb["other"].pc = "notify"
    /\ Read("other")
    /\ UNCHANGED <<wifivars, wired, pri, mgr>>

\* NETCONN_CMD_PRI of either link: the priority is stored and the manager told;
\* the list keeps the order of the registration.
SetPriority ==
    /\ cb["other"].pc = "idle"
    /\ Ask
    /\ \E l \in DOMAIN pri : pri' = [pri EXCEPT ![l] = SetPri]
    /\ Read("other")
    /\ UNCHANGED <<conn, wrk, tmr, ev, world, faults, history, wired, mgr>>

Next ==
    \/ WifiStep /\ UNCHANGED netvars
    \/ WifiNotifies \/ WiredEvent \/ WiredNotifies \/ SetPriority
    \/ \E c \in Callbacks : Store(c)

Spec == Init /\ [][Next]_vars

-----------------------------------------------------------------------------
(* Properties *)

TypeOK ==
    /\ stat \in Stats /\ count \in 0..TableSize /\ timer \in BOOLEAN
    /\ creds \in 0..MaxCreds /\ status \in {"UP", "DOWN"}
    /\ queue \in Seq({"CONNECT", "DISCONNECT"})
    /\ wrk \in {"idle", "connect", "stopped"}
    /\ tmr \in [pc : {"idle", "check", "ready", "wait"}, grow : BOOLEAN]
    /\ ev \in [pc : {"idle", "wait", "ready", "down", "notify", "called"}, grow : BOOLEAN]
    /\ radio \in [st : {"off", "trying", "up"}, creds : 0..MaxCreds, mute : BOOLEAN]
    /\ events \in Seq({"UP", "DOWN"})
    /\ asks \in 0..MaxAsks /\ faults \in 0..MaxFaults
    /\ due \in {"no", "link", "lost"} /\ unused \in {"no", "linkup", "nomsg"} /\ both \in BOOLEAN
    /\ wired \in {"UP", "DOWN"} /\ torn \in BOOLEAN
    /\ pri \in [{"WIRED", "WIFI"} -> 0..SetPri]
    /\ mgr \in [active : {"WIRED", "WIFI"}, status : {"UP", "DOWN"}]
    /\ cb \in [Callbacks -> [pc : {"idle", "notify", "store"}, active : {"WIRED", "WIFI"},
                             status : {"UP", "DOWN"}]]

Quiet == WifiQuiet /\ \A c \in Callbacks : cb[c].pc = "idle"

\* When nothing is under way the manager is up exactly if the radio or the wire
\* is, and names the first of its list that is up, the wire before the radio as
\* they were registered, however the threads, the messages and the events came
\* before, unless two calls of __netmgr_event_cb met and no call has run alone
\* since.  It says so of every pri: after NETCONN_CMD_PRI has put the radio
\* above the wire the manager still names the wire, where the comment on
\* netconn_wifi.c:370 has the active connection negotiated anew.
ManagerAgrees ==
    Quiet /\ ~torn =>
        /\ mgr.status = "UP" <=> wired = "UP" \/ radio.st = "up"
        /\ mgr.active = "WIFI" <=> wired = "DOWN" /\ radio.st = "up"

\* The place in the back-off table stays within it, unless the timer and the
\* driver have both advanced it at the same time.
BackoffInTable == count < TableSize \/ both

\* A station that has come to rest in a network is in the one whose credentials
\* were set last, and in none after a reset, with two exceptions: they were set
\* while the link was up, when netconn_wifi_set stores them and does nothing
\* else, or in another state and the message for them could not be allocated or
\* put on the work queue, whose failure netconn_wifi_set ignores.
CredentialsUsed == WifiQuiet /\ radio.st = "up" => radio.creds = creds \/ unused # "no"

\* What the comment on NETCONN_CMD_SSID_PSWD says, netconn_wifi.c:381: setting
\* them makes the station leave its network and join the new one.  So the first
\* exception should not be there.
CredentialsReconnect ==
    WifiQuiet /\ radio.st = "up" => radio.creds = creds \/ unused = "nomsg"

\* A link that was asked for and not closed is never given up: it is up, is
\* being tried or has a retry on its timer.  A retry is lost only where `due'
\* says so: no room for a message; credentials set while a message waits and the
\* link is up; the 1.5 s of a closed link ending during a new attempt, whose
\* state they overwrite; an event that stops the time limit of an attempt before
\* the attempt is marked.
NeverStranded ==
    WifiQuiet /\ due = "link" =>
        radio.st = "up" \/ timer \/ (radio.st = "trying" /\ ~radio.mute)
=============================================================================
