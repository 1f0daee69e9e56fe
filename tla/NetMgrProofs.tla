---------------------------- MODULE NetMgrProofs ----------------------------
(***************************************************************************)
(* Proofs about the network manager and its Wi-Fi link, for a back-off     *)
(* table of any size and any number of calls, faults and messages.         *)
(***************************************************************************)
EXTENDS NetMgr, TLAPS, FiniteSetTheorems, SequenceTheorems

-----------------------------------------------------------------------------
(* The inductive invariants *)

\* What a thread that is backing off will add to the place in the table.
Adds(t) == IF t.grow THEN 1 ELSE 0

\* The place in the table, counting what the timer and the driver are about to add:
\* only the two together can take it past the last interval, and by no more than one.
BackoffBound ==
    /\ tmr.grow => tmr.pc = "wait"
    /\ ev.grow => ev.pc = "wait"
    /\ count + Adds(tmr) + Adds(ev) <= IF both THEN TableSize ELSE TableSize - 1

\* A station that tries or is in a network uses the credentials set last, or they
\* were set without a message, or a message waits that will make it leave.
CredentialsBound == radio.st # "off" => radio.creds = creds \/ unused # "no" \/ queue # <<>>

\* The station is in a network exactly if the last event that is still to be
\* reported, or else the status, says so.
Arriving ==
    IF events # <<>> THEN events[Len(events)] = "UP"
    ELSE ev.pc \notin {"wait", "ready", "down"} /\ status = "UP"

StatusFollows ==
    /\ radio.st = "up" <=> Arriving
    /\ wrk = "connect" => radio.st = "off"

\* The work queue ends with a connect message if the link is to be had.
LastConnects == due = "link" /\ queue # <<>> => queue[Len(queue)] = "CONNECT"

\* A link that is marked up was reported up, and no loss of it is being handled but by
\* the branch that asks for it again.
MarkedUp == stat = "LINKUP" => status = "UP" /\ ev.pc \notin {"wait", "down"}

\* A link that is to be had and that no message and no handler is about to ask for: an
\* attempt that is being started has its time limit or an event that will bring it back;
\* otherwise the link is not marked as closed, and it is up, tried, on the timer, or has
\* an event to come.
Pursued ==
    due = "link" /\ queue = <<>> /\ ev.pc # "ready" =>
        IF wrk = "connect" THEN timer \/ events # <<>>
        ELSE /\ stat \notin {"STOP", "REDAY"}
             /\ \/ radio.st = "up" \/ timer \/ events # <<>>
                \/ radio.st = "trying" /\ ~radio.mute

Current(a) == a.active = Active(wired, status).active /\ a.status = Active(wired, status).status

\* The radio's thread is in __netmgr_event_cb exactly if its handler called it.
CallTracked == cb["wifi"].pc = IF ev.pc = "called" THEN "store" ELSE "idle"

\* Unless two calls met: a call is still to read the links, or the only call under way
\* has read them as they are, or there is none and the manager has them as they are.
ManagerFollows ==
    \/ torn
    \/ ev.pc = "notify"
    \/ cb["other"].pc = "notify"
    \/ \E c \in Callbacks : cb[c].pc = "store" /\ ~Met(c) /\ Current(cb[c])
    \/ (\A c \in Callbacks : cb[c].pc = "idle") /\ Current(mgr)

-----------------------------------------------------------------------------
(* Types *)

Threads == [pc : {"idle", "check", "ready", "wait"}, grow : BOOLEAN]
Events == [pc : {"idle", "wait", "ready", "down", "notify", "called"}, grow : BOOLEAN]
Radios == [st : {"off", "trying", "up"}, creds : 0..MaxCreds, mute : BOOLEAN]

\* The variables of the Wi-Fi link, and those of the manager.
WifiTypes ==
    /\ stat \in Stats /\ count \in 0..TableSize /\ timer \in BOOLEAN
    /\ creds \in 0..MaxCreds /\ status \in {"UP", "DOWN"}
    /\ queue \in Seq({"CONNECT", "DISCONNECT"})
    /\ wrk \in {"idle", "connect", "stopped"}
    /\ tmr \in Threads
    /\ ev \in Events
    /\ radio \in Radios
    /\ events \in Seq({"UP", "DOWN"})
    /\ asks \in 0..MaxAsks /\ faults \in 0..MaxFaults
    /\ due \in {"no", "link", "lost"} /\ unused \in {"no", "linkup", "nomsg"} /\ both \in BOOLEAN

NetTypes ==
    /\ wired \in {"UP", "DOWN"} /\ torn \in BOOLEAN
    /\ pri \in [{"WIRED", "WIFI"} -> 0..SetPri]
    /\ mgr \in [active : {"WIRED", "WIFI"}, status : {"UP", "DOWN"}]
    /\ cb \in [Callbacks -> [pc : {"idle", "notify", "store"}, active : {"WIRED", "WIFI"},
                             status : {"UP", "DOWN"}]]

\* Together they are TypeOK.
LEMMA TypeParts == TypeOK <=> WifiTypes /\ NetTypes
  BY DEF TypeOK, WifiTypes, NetTypes, Threads, Events, Radios

\* The station off, trying and up, and what the driver queues when it leaves.
LEMMA RadioFacts ==
    ASSUME WifiTypes
    PROVE  /\ RadioOff \in Radios /\ RadioOff.st = "off"
           /\ [radio EXCEPT !.st = "up"] \in Radios
           /\ [radio EXCEPT !.st = "up"].st = "up"
           /\ [radio EXCEPT !.st = "up"].creds = radio.creds
           /\ \A mute \in BOOLEAN :
                 /\ [st |-> "trying", creds |-> creds, mute |-> mute] \in Radios
                 /\ [st |-> "trying", creds |-> creds, mute |-> mute].st = "trying"
                 /\ [st |-> "trying", creds |-> creds, mute |-> mute].creds = creds
<1>1. radio \in Radios /\ creds \in 0..MaxCreds /\ 0 \in 0..MaxCreds
  BY WifiConnAssumption DEF WifiTypes
<1>2. RadioOff \in Radios /\ RadioOff.st = "off"
  BY <1>1 DEF RadioOff, Radios
<1>3. /\ [radio EXCEPT !.st = "up"] \in Radios
      /\ [radio EXCEPT !.st = "up"].st = "up"
      /\ [radio EXCEPT !.st = "up"].creds = radio.creds
  BY <1>1 DEF Radios
<1>4. ASSUME NEW mute \in BOOLEAN
      PROVE  [st |-> "trying", creds |-> creds, mute |-> mute] \in Radios
  BY <1>1 DEF Radios
<1>5. QED
  BY <1>2, <1>3, <1>4

\* The three kinds of state of the timer's and of the driver's thread.
LEMMA ThreadFacts ==
    ASSUME NEW g \in BOOLEAN
    PROVE  /\ \A p \in {"idle", "check", "ready", "wait"} :
                 /\ [pc |-> p, grow |-> g] \in Threads
                 /\ [pc |-> p, grow |-> g].pc = p /\ [pc |-> p, grow |-> g].grow = g
           /\ \A p \in {"idle", "wait", "ready", "down", "notify", "called"} :
                 /\ [pc |-> p, grow |-> g] \in Events
                 /\ [pc |-> p, grow |-> g].pc = p /\ [pc |-> p, grow |-> g].grow = g
  BY DEF Threads, Events

\* tal_wifi_station_disconnect.
LEMMA LeaveFacts ==
    ASSUME WifiTypes, Leave
    PROVE  /\ radio' \in Radios /\ radio'.st = "off"
           /\ events' \in Seq({"UP", "DOWN"})
           /\ radio.st = "up" => events' # <<>> /\ events'[Len(events')] = "DOWN"
           /\ radio.st # "up" => events' = events
  BY RadioFacts DEF WifiTypes, Leave

\* __netconn_wifi_connect leaves a message or leaves the queue alone.
LEMMA ConnectFacts ==
    ASSUME WifiTypes, NEW s, Connect(s)
    PROVE  /\ queue' \in Seq({"CONNECT", "DISCONNECT"}) /\ faults' \in 0..MaxFaults
           /\ queue' = queue \/ queue' # <<>>
<1>1. queue \in Seq({"CONNECT", "DISCONNECT"}) /\ faults \in 0..MaxFaults
  BY DEF WifiTypes
<1>2. queue' = queue \/ queue' = Append(queue, "CONNECT")
  BY DEF Connect
<1>3. faults' = faults \/ Fault
  BY DEF Connect
<1>4. faults' \in 0..MaxFaults
  BY <1>1, <1>3, WifiConnAssumption DEF Fault
<1>5. QED
  BY <1>1, <1>2, <1>4

\* Every step of the Wi-Fi link keeps the types; that the place in the table does not
\* leave it by more than one needs BackoffBound.
LEMMA TypedWifi == WifiTypes /\ BackoffBound /\ WifiStep => WifiTypes'
<1> SUFFICES ASSUME WifiTypes, BackoffBound, WifiStep PROVE WifiTypes'
  OBVIOUS
<1> USE WifiConnAssumption
    DEF WifiTypes, Stats, conn, world, bounds, history
<1>1. CASE RadioUp
  BY <1>1, RadioFacts DEF RadioUp
<1>2. CASE RadioFails
  BY <1>2, RadioFacts DEF RadioFails, Fault
<1>3. CASE RadioLost
  BY <1>3, RadioFacts DEF RadioLost, Fault
<1>4. CASE WorkConnect
  <2>1. radio' \in Radios /\ events' \in Seq({"UP", "DOWN"})
    BY <1>4, LeaveFacts DEF WorkConnect
  <2>2. queue' \in Seq({"CONNECT", "DISCONNECT"})
    BY <1>4 DEF WorkConnect
  <2>3. QED
    BY <1>4, <2>1, <2>2 DEF WorkConnect
<1>5. CASE WorkStart
  <2>1. radio' \in Radios /\ faults' \in 0..MaxFaults
    <3>1. PICK mute \in BOOLEAN :
            /\ Fault \/ UNCHANGED faults
            /\ radio' = [st |-> "trying", creds |-> creds, mute |-> mute]
      BY <1>5, Zenon DEF WorkStart
    <3>2. radio' \in Radios
      BY <3>1, RadioFacts
    <3>3. QED
      BY <3>1, <3>2 DEF Fault
  <2>2. unused' \in {"no", "linkup", "nomsg"}
    BY <1>5 DEF WorkStart
  <2>3. QED
    BY <1>5, <2>1, <2>2 DEF WorkStart
<1>6. CASE WorkDisconnect
  <2>1. radio' \in Radios /\ events' \in Seq({"UP", "DOWN"})
    BY <1>6, LeaveFacts DEF WorkDisconnect
  <2>2. queue' \in Seq({"CONNECT", "DISCONNECT"})
    BY <1>6 DEF WorkDisconnect
  <2>3. timer' \in BOOLEAN
    BY <1>6 DEF WorkDisconnect
  <2>4. QED
    BY <1>6, <2>1, <2>2, <2>3 DEF WorkDisconnect
<1>7. CASE WorkStopped
  BY <1>7 DEF WorkStopped
<1>8. CASE TimerFires
  <2>1. queue' \in Seq({"CONNECT", "DISCONNECT"}) /\ faults' \in 0..MaxFaults
    BY <1>8, ConnectFacts DEF TimerFires
  <2>2. timer' \in BOOLEAN
    BY <1>8 DEF TimerFires
  <2>3. tmr' \in Threads
    <3>1. Grows \in BOOLEAN
      BY DEF Grows
    <3>2. \/ \E g \in BOOLEAN, p \in {"check", "ready", "wait"} : tmr' = [pc |-> p, grow |-> g]
          \/ tmr' = tmr
      BY <1>8, <3>1, Zenon DEF TimerFires
    <3>3. CASE tmr' = tmr
      BY <3>3
    <3>4. ASSUME NEW g \in BOOLEAN, NEW p \in {"check", "ready", "wait"},
                 tmr' = [pc |-> p, grow |-> g]
          PROVE  tmr' \in Threads
      BY <3>4 DEF Threads
    <3>5. QED
      BY <3>2, <3>3, <3>4
  <2>4. due' \in {"no", "link", "lost"} /\ UNCHANGED both
    BY <1>8 DEF TimerFires, Retried
  <2>5. QED
    BY <1>8, <2>1, <2>2, <2>3, <2>4 DEF TimerFires
<1>9. CASE TimerStores
  <2>1. count' \in 0..TableSize
    <3>1. count' = IF tmr.grow THEN count + 1 ELSE count
      BY <1>9 DEF TimerStores
    <3>2. count \in 0..TableSize /\ (tmr.grow => count + 1 <= TableSize)
      BY DEF BackoffBound, Adds
    <3>3. QED
      BY <3>1, <3>2
  <2>2. stat' \in Stats
    BY <1>9 DEF TimerStores, Threads
  <2>3. due' \in {"no", "link", "lost"} /\ tmr' \in Threads
    BY <1>9, ThreadFacts DEF TimerStores, LostIf, TimerIdle
  <2>4. QED
    BY <1>9, <2>1, <2>2, <2>3 DEF TimerStores
<1>10. CASE EventConnected
  <2>1. ev' \in Events
    BY <1>10, ThreadFacts DEF EventConnected
  <2>2. events' \in Seq({"UP", "DOWN"})
    BY <1>10 DEF EventConnected
  <2>3. timer' \in BOOLEAN
    BY <1>10 DEF EventConnected
  <2>4. QED
    BY <1>10, <2>1, <2>2, <2>3 DEF EventConnected
<1>11. CASE EventDown
  <2>1. ev' \in Events
    <3>1. Grows \in BOOLEAN
      BY DEF Grows
    <3>2. \E g \in BOOLEAN, p \in {"wait", "ready", "down"} : ev' = [pc |-> p, grow |-> g]
      BY <1>11, <3>1, Zenon DEF EventDown
    <3>3. ASSUME NEW g \in BOOLEAN, NEW p \in {"wait", "ready", "down"},
                 ev' = [pc |-> p, grow |-> g]
          PROVE  ev' \in Events
      BY <3>3 DEF Events
    <3>4. QED
      BY <3>2, <3>3
  <2>2. events' \in Seq({"UP", "DOWN"})
    BY <1>11 DEF EventDown
  <2>3. timer' \in BOOLEAN /\ both' \in BOOLEAN
    BY <1>11 DEF EventDown
  <2>4. due' \in {"no", "link", "lost"}
    BY <1>11 DEF EventDown, LostIf
  <2>5. QED
    BY <1>11, <2>1, <2>2, <2>3, <2>4 DEF EventDown
<1>12. CASE EventStores
  <2>1. queue' \in Seq({"CONNECT", "DISCONNECT"}) /\ faults' \in 0..MaxFaults
    <3>1. Connect("REDAY") \/ UNCHANGED <<queue, faults>>
      BY <1>12, Zenon DEF EventStores
    <3>2. QED
      BY <3>1, ConnectFacts
  <2>2. count' \in 0..TableSize
    <3>1. count' = IF ev.grow THEN count + 1 ELSE count
      BY <1>12 DEF EventStores
    <3>2. count \in 0..TableSize /\ (ev.grow => count + 1 <= TableSize)
      BY DEF BackoffBound, Adds
    <3>3. QED
      BY <3>1, <3>2
  <2>3. ev' \in Events
    BY <1>12, ThreadFacts DEF EventStores
  <2>4. due' \in {"no", "link", "lost"} /\ stat' \in Stats
    BY <1>12 DEF EventStores, Retried
  <2>5. QED
    BY <1>12, <2>1, <2>2, <2>3, <2>4 DEF EventStores
<1>13. CASE SetCredentials
  <2>1. queue' \in Seq({"CONNECT", "DISCONNECT"}) /\ faults' \in 0..MaxFaults
    BY <1>13, ConnectFacts DEF SetCredentials
  <2>2. asks' \in 0..MaxAsks /\ creds' \in 0..MaxCreds
    BY <1>13 DEF SetCredentials, Ask
  <2>3. unused' \in {"no", "linkup", "nomsg"} /\ due' \in {"no", "link", "lost"}
    BY <1>13 DEF SetCredentials
  <2>4. QED
    BY <1>13, <2>1, <2>2, <2>3 DEF SetCredentials
<1>14. CASE Close
  <2>1. queue' \in Seq({"CONNECT", "DISCONNECT"}) /\ faults' \in 0..MaxFaults
    <3>1. queue' = queue \/ queue' = Append(queue, "DISCONNECT")
      BY <1>14 DEF Close
    <3>2. faults' = faults \/ Fault
      BY <1>14 DEF Close
    <3>3. QED
      BY <3>1, <3>2 DEF Fault
  <2>2. asks' \in 0..MaxAsks
    BY <1>14 DEF Close, Ask
  <2>3. QED
    BY <1>14, <2>1, <2>2 DEF Close
<1>15. CASE Reset
  <2>1. radio' \in Radios /\ events' \in Seq({"UP", "DOWN"})
    BY <1>15, LeaveFacts DEF Reset
  <2>2. timer' \in BOOLEAN
    BY <1>15 DEF Reset, ResetFields
  <2>3. asks' \in 0..MaxAsks /\ creds' \in 0..MaxCreds /\ stat' \in Stats
    BY <1>15 DEF Reset, ResetFields, Ask
  <2>4. QED
    BY <1>15, <2>1, <2>2, <2>3 DEF Reset
<1>16. QED
  BY <1>1, <1>2, <1>3, <1>4, <1>5, <1>6, <1>7, <1>8, <1>9, <1>10, <1>11, <1>12,
     <1>13, <1>14, <1>15 DEF WifiStep

-----------------------------------------------------------------------------
(* The manager's links *)

\* netmgr_init registers the wire before Wi-Fi, whose priority is lower.
LEMMA LinksOrder == Links = <<"WIRED", "WIFI">>
<1>1. Register(<<>>, "WIRED") = <<"WIRED">>
  <2>1. {i \in DOMAIN <<>> : Pri[(<<>>)[i]] >= Pri["WIRED"]} = {}
    OBVIOUS
  <2>2. Cardinality({}) = 0
    BY FS_EmptySet
  <2>3. Register(<<>>, "WIRED")
          = SubSeq(<<>>, 1, 0) \o <<"WIRED">> \o SubSeq(<<>>, 0 + 1, Len(<<>>))
    BY <2>1, <2>2 DEF Register
  <2>4. SubSeq(<<>>, 1, 0) = <<>> /\ SubSeq(<<>>, 0 + 1, Len(<<>>)) = <<>>
    OBVIOUS
  <2>5. QED
    BY <2>3, <2>4
<1>2. Register(<<"WIRED">>, "WIFI") = <<"WIRED", "WIFI">>
  <2>1. {i \in DOMAIN <<"WIRED">> : Pri[<<"WIRED">>[i]] >= Pri["WIFI"]} = {1}
    BY DEF Pri
  <2>2. Cardinality({1}) = 1
    BY FS_Singleton
  <2>3. Register(<<"WIRED">>, "WIFI")
          = SubSeq(<<"WIRED">>, 1, 1) \o <<"WIFI">> \o SubSeq(<<"WIRED">>, 1 + 1, Len(<<"WIRED">>))
    BY <2>1, <2>2 DEF Register
  <2>4. SubSeq(<<"WIRED">>, 1, 1) = <<"WIRED">>
    BY <<"WIRED">> \in Seq({"WIRED"}), Len(<<"WIRED">>) = 1, SubSeqFull
  <2>5. SubSeq(<<"WIRED">>, 1 + 1, Len(<<"WIRED">>)) = <<>>
    BY Len(<<"WIRED">>) = 1, 1 + 1 = 2, SubSeq(<<"WIRED">>, 2, 1) = <<>>
  <2>6. QED
    BY <2>3, <2>4, <2>5
<1>3. QED
  BY <1>1, <1>2 DEF Links

\* __get_active_conn: the wire if it is up, otherwise Wi-Fi if that is, otherwise the wire.
LEMMA ActiveFacts ==
    ASSUME NEW w \in {"UP", "DOWN"}, NEW f \in {"UP", "DOWN"}
    PROVE  /\ Active(w, f).active = IF w = "DOWN" /\ f = "UP" THEN "WIFI" ELSE "WIRED"
           /\ Active(w, f).status = IF w = "UP" \/ f = "UP" THEN "UP" ELSE "DOWN"
<1> DEFINE up == {i \in DOMAIN Links : LinkStatus(Links[i], w, f) = "UP"}
           l == Links[IF up = {} THEN 1 ELSE CHOOSE i \in up : \A j \in up : i <= j]
<1>1. Active(w, f) = [active |-> l, status |-> LinkStatus(l, w, f)]
  BY DEF Active
<1>2. up = {i \in {1, 2} : IF i = 1 THEN w = "UP" ELSE f = "UP"}
  BY LinksOrder DEF LinkStatus
<1>3. CASE w = "UP"
  <2>1. 1 \in up /\ \A j \in up : 1 <= j
    BY <1>2, <1>3
  <2>2. \A i \in up : (\A j \in up : i <= j) => i = 1
    BY <1>2, <2>1
  <2>3. l = "WIRED"
    BY <2>1, <2>2, LinksOrder
  <2>4. QED
    BY <1>1, <1>3, <2>3 DEF LinkStatus
<1>4. CASE w = "DOWN" /\ f = "UP"
  <2>1. up = {2}
    BY <1>2, <1>4
  <2>2. l = "WIFI"
    BY <2>1, LinksOrder
  <2>3. QED
    BY <1>1, <1>4, <2>2 DEF LinkStatus
<1>5. CASE w = "DOWN" /\ f = "DOWN"
  <2>1. up = {}
    BY <1>2, <1>5
  <2>2. l = "WIRED"
    BY <2>1, LinksOrder
  <2>3. QED
    BY <1>1, <1>5, <2>2 DEF LinkStatus
<1>6. QED
  BY <1>3, <1>4, <1>5

-----------------------------------------------------------------------------
(* What the manager does to the link *)

NetStep ==
    \/ WifiNotifies \/ WiredEvent \/ WiredNotifies \/ SetPriority
    \/ \E c \in Callbacks : Store(c)

\* __netmgr_event_cb and the wired link leave the Wi-Fi link alone, except that the
\* handler of the radio's event goes on to it and ends with it.
LEMMA NetKeeps ==
    ASSUME WifiTypes, NetStep
    PROVE  /\ UNCHANGED <<stat, count, timer, creds, status, queue, wrk, tmr, radio, events,
                          faults, due, unused, both>>
           /\ asks' \in 0..MaxAsks
           /\ ev' \in Events
           /\ \/ ev' = ev
              \/ ev.pc = "notify" /\ ev'.pc = "called" /\ ev'.grow = ev.grow
              \/ cb["wifi"].pc = "store" /\ ev'.pc = "idle" /\ ~ev'.grow
<1> USE WifiConnAssumption DEF WifiTypes, Ask, conn, world, bounds, history, wifivars
<1>1. CASE WifiNotifies
  BY <1>1 DEF WifiNotifies, Events
<1>2. CASE WiredEvent
  BY <1>2 DEF WiredEvent
<1>3. CASE WiredNotifies
  BY <1>3 DEF WiredNotifies
<1>4. CASE SetPriority
  BY <1>4 DEF SetPriority
<1>5. ASSUME NEW c \in Callbacks, Store(c)
      PROVE  /\ UNCHANGED <<stat, count, timer, creds, status, queue, wrk, tmr, radio, events,
                             faults, due, unused, both, asks>>
             /\ \/ ev' = ev
                \/ cb["wifi"].pc = "store" /\ ev' = TimerIdle
  BY <1>5 DEF Store
<1>6. TimerIdle \in Events /\ TimerIdle.pc = "idle" /\ ~TimerIdle.grow
  BY DEF TimerIdle, Events
<1>7. QED
  BY <1>1, <1>2, <1>3, <1>4, <1>5, <1>6 DEF NetStep

\* The calls of __netmgr_event_cb keep the manager's types.
LEMMA TypedNet == WifiTypes /\ NetTypes /\ NetStep => NetTypes'
<1> SUFFICES ASSUME WifiTypes, NetTypes, NetStep PROVE NetTypes'
  OBVIOUS
<1> DEFINE Calls == [pc : {"idle", "notify", "store"}, active : {"WIRED", "WIFI"},
                     status : {"UP", "DOWN"}]
<1>1. NoCall \in Calls /\ [NoCall EXCEPT !.pc = "notify"] \in Calls
  BY DEF NoCall
<1>2. ASSUME NEW c \in Callbacks, Read(c) PROVE cb' \in [Callbacks -> Calls] /\ torn' \in BOOLEAN
  <2>1. [pc |-> "store", active |-> Active(wired, status).active,
         status |-> Active(wired, status).status] \in Calls
    BY ActiveFacts DEF WifiTypes, NetTypes
  <2>2. cb' \in [Callbacks -> Calls]
    BY <1>2, <2>1 DEF Read, NetTypes
  <2>3. torn' \in BOOLEAN
    BY <1>2 DEF Read, Met
  <2>4. QED
    BY <2>2, <2>3
<1> HIDE DEF Calls
<1>3. "wifi" \in Callbacks /\ "other" \in Callbacks
  BY DEF Callbacks
<1>4. cb \in [Callbacks -> Calls]
  BY DEF NetTypes, Calls
<1> DEFINE Pris == [{"WIRED", "WIFI"} -> 0..SetPri]
<1>5. pri' \in Pris
  <2>1. pri \in Pris
    BY DEF NetTypes
  <2>2. ASSUME NEW l \in DOMAIN pri, pri' = [pri EXCEPT ![l] = SetPri] PROVE pri' \in Pris
    <3>1. SetPri \in 0..SetPri
      BY DEF SetPri
    <3>2. QED
      BY <2>1, <2>2, <3>1
  <2>3. UNCHANGED pri \/ \E l \in DOMAIN pri : pri' = [pri EXCEPT ![l] = SetPri]
    BY DEF NetStep, WifiNotifies, WiredEvent, WiredNotifies, SetPriority, Store
  <2>4. QED
    BY <2>1, <2>2, <2>3
<1>6. SUFFICES cb' \in [Callbacks -> Calls] /\ torn' \in BOOLEAN /\ wired' \in {"UP", "DOWN"}
               /\ mgr' \in [active : {"WIRED", "WIFI"}, status : {"UP", "DOWN"}]
  BY <1>5 DEF NetTypes, Calls
<1>7. CASE WifiNotifies
  BY <1>2, <1>3, <1>7 DEF WifiNotifies, NetTypes
<1>8. CASE WiredEvent
  BY <1>1, <1>3, <1>4, <1>8 DEF WiredEvent, NetTypes
<1>9. CASE WiredNotifies
  BY <1>2, <1>3, <1>9 DEF WiredNotifies, NetTypes
<1>10. CASE SetPriority
  BY <1>2, <1>3, <1>10 DEF SetPriority, NetTypes
<1>11. ASSUME NEW c \in Callbacks, Store(c)
       PROVE  cb' \in [Callbacks -> Calls] /\ torn' \in BOOLEAN /\ wired' \in {"UP", "DOWN"}
              /\ mgr' \in [active : {"WIRED", "WIFI"}, status : {"UP", "DOWN"}]
  <2>1. cb[c].active \in {"WIRED", "WIFI"} /\ cb[c].status \in {"UP", "DOWN"}
    BY <1>11 DEF NetTypes
  <2>2. cb' \in [Callbacks -> Calls]
    BY <1>1, <1>4, <1>11 DEF Store
  <2>3. mgr' \in [active : {"WIRED", "WIFI"}, status : {"UP", "DOWN"}]
    BY <1>11, <2>1 DEF Store
  <2>4. QED
    BY <1>11, <2>2, <2>3 DEF Store, NetTypes
<1>12. QED
  BY <1>7, <1>8, <1>9, <1>10, <1>11 DEF NetStep

-----------------------------------------------------------------------------
(* The steps of the Wi-Fi link keep the invariants *)

\* The place in the table: the timer does not fire while the driver backs off, so only
\* an event during the timer's back off can find the place that the timer is leaving.
LEMMA BackoffWifi == WifiTypes /\ BackoffBound /\ WifiStep => BackoffBound'
<1> SUFFICES ASSUME WifiTypes, BackoffBound, WifiStep PROVE BackoffBound'
  OBVIOUS
<1> USE WifiConnAssumption DEF BackoffBound, Adds
<1>1. tmr.grow \in BOOLEAN /\ ev.grow \in BOOLEAN /\ count \in Nat /\ both \in BOOLEAN
  BY DEF WifiTypes, Threads, Events
<1>2. CASE TimerFires
  <2>1. UNCHANGED <<count, ev, both>>
    BY <1>2 DEF TimerFires
  <2>2. CASE tmr'.grow
    <3>1. tmr'.pc = "wait" /\ count < TableSize - 1 /\ ev.pc # "wait"
      BY <1>1, <1>2, <2>2 DEF TimerFires, Grows
    <3>2. QED
      BY <1>1, <2>1, <2>2, <3>1
  <2>3. CASE ~tmr'.grow
    BY <1>1, <2>1, <2>3
  <2>4. QED
    BY <2>2, <2>3
<1>3. CASE TimerStores
  <2>1. ~tmr'.grow /\ UNCHANGED <<ev, both>>
    BY <1>3 DEF TimerStores, TimerIdle
  <2>2. count' = IF tmr.grow THEN count + 1 ELSE count
    BY <1>3 DEF TimerStores
  <2>3. QED
    BY <1>1, <2>1, <2>2
<1>4. CASE EventConnected
  <2>1. ~ev'.grow /\ UNCHANGED <<tmr, both>> /\ count' = 0
    BY <1>4 DEF EventConnected, history
  <2>2. QED
    BY <1>1, <2>1
<1>5. CASE EventDown
  <2>1. UNCHANGED <<count, tmr>> /\ ~ev.grow
    BY <1>5 DEF EventDown
  <2>2. CASE stat \in {"CHECK", "WAIT"}
    <3>1. ev'.pc = "wait" /\ ev'.grow = Grows /\ both' = (both \/ tmr.pc = "wait")
      BY <1>5, <2>2 DEF EventDown
    <3>2. CASE count < TableSize - 1
      BY <1>1, <2>1, <3>1, <3>2 DEF Grows
    <3>3. CASE ~(count < TableSize - 1)
      BY <1>1, <2>1, <3>1, <3>3 DEF Grows
    <3>4. QED
      BY <3>2, <3>3
  <2>3. CASE stat \notin {"CHECK", "WAIT"}
    <3>1. ~ev'.grow /\ both' = both
      BY <1>5, <2>3 DEF EventDown
    <3>2. QED
      BY <1>1, <2>1, <3>1
  <2>4. QED
    BY <2>2, <2>3
<1>6. CASE EventStores
  <2>1. ~ev'.grow /\ UNCHANGED <<tmr, both>>
    BY <1>6 DEF EventStores
  <2>2. count' = IF ev.grow THEN count + 1 ELSE count
    BY <1>6 DEF EventStores
  <2>3. QED
    BY <1>1, <2>1, <2>2
<1>7. CASE WorkDisconnect
  <2>1. count' = 0 /\ UNCHANGED <<tmr, ev, both>>
    BY <1>7 DEF WorkDisconnect, history
  <2>2. QED
    BY <1>1, <2>1
<1>8. CASE \/ RadioUp \/ RadioFails \/ RadioLost \/ WorkConnect \/ WorkStart \/ WorkStopped
           \/ SetCredentials \/ Close \/ Reset
  <2>1. UNCHANGED <<count, tmr, ev, both>>
    BY <1>8 DEF RadioUp, RadioFails, RadioLost, WorkConnect, WorkStart, WorkStopped,
                SetCredentials, Close, Reset, conn, history
  <2>2. QED
    BY <2>1
<1>9. QED
  BY <1>2, <1>3, <1>4, <1>5, <1>6, <1>7, <1>8 DEF WifiStep

\* The credentials in use: whatever changes them leaves a message, says so or makes the
\* station leave, and taking a message always makes it leave.
LEMMA CredentialsWifi == WifiTypes /\ CredentialsBound /\ WifiStep => CredentialsBound'
<1> SUFFICES ASSUME WifiTypes, CredentialsBound, WifiStep PROVE CredentialsBound'
  OBVIOUS
<1> USE DEF CredentialsBound
<1>1. CASE RadioUp
  BY <1>1, RadioFacts DEF RadioUp, conn, history
<1>2. CASE RadioFails \/ RadioLost
  BY <1>2, RadioFacts DEF RadioFails, RadioLost
<1>3. CASE WorkConnect \/ WorkDisconnect \/ Reset
  BY <1>3, LeaveFacts DEF WorkConnect, WorkDisconnect, Reset
<1>4. CASE WorkStart
  BY <1>4 DEF WorkStart
<1>5. CASE SetCredentials
  <2>1. queue' = queue => unused' # "no"
    BY <1>5 DEF SetCredentials
  <2>2. QED
    BY <1>5, <2>1, ConnectFacts DEF SetCredentials, world
<1>6. CASE TimerFires
  <2>1. queue' = queue \/ queue' # <<>>
    BY <1>6, ConnectFacts DEF TimerFires
  <2>2. QED
    BY <1>6, <2>1 DEF TimerFires, world
<1>7. CASE EventStores
  <2>1. queue' = queue \/ queue' # <<>>
    BY <1>7, ConnectFacts DEF EventStores
  <2>2. QED
    BY <1>7, <2>1 DEF EventStores, world
<1>8. CASE Close
  <2>1. queue' = queue \/ queue' # <<>>
    BY <1>8 DEF Close, WifiTypes
  <2>2. QED
    BY <1>8, <2>1 DEF Close, world
<1>9. CASE WorkStopped \/ TimerStores \/ EventConnected \/ EventDown
  BY <1>9 DEF WorkStopped, TimerStores, EventConnected, EventDown, world, history
<1>10. QED
  BY <1>1, <1>2, <1>3, <1>4, <1>5, <1>6, <1>7, <1>8, <1>9 DEF WifiStep

\* The last element of a sequence, when one is added behind and when one is taken in front.
LEMMA LastFacts ==
    ASSUME NEW S, NEW q \in Seq(S)
    PROVE  /\ \A e \in S : Append(q, e) # <<>> /\ Append(q, e)[Len(Append(q, e))] = e
           /\ q # <<>> /\ Tail(q) # <<>> => Tail(q)[Len(Tail(q))] = q[Len(q)]
           /\ q # <<>> /\ Tail(q) = <<>> => Head(q) = q[Len(q)]
<1>1. ASSUME NEW e \in S
      PROVE  Append(q, e) # <<>> /\ Append(q, e)[Len(Append(q, e))] = e
  BY AppendProperties
<1>2. ASSUME q # <<>>
      PROVE  /\ Tail(q) # <<>> => Tail(q)[Len(Tail(q))] = q[Len(q)]
             /\ Tail(q) = <<>> => Head(q) = q[Len(q)]
  <2>1. /\ Tail(q) \in Seq(S) /\ Len(Tail(q)) = Len(q) - 1
        /\ \A i \in 1..Len(Tail(q)) : Tail(q)[i] = q[i + 1]
    BY <1>2, HeadTailProperties
  <2>2. CASE Tail(q) = <<>>
    <3>1. Len(q) - 1 = 0 /\ Len(q) \in Nat
      BY <2>1, <2>2, LenProperties, Len(<<>>) = 0
    <3>2. Len(q) = 1
      BY <3>1
    <3>3. QED
      BY <1>2, <2>2, <3>2, Head(q) = q[1]
  <2>3. CASE Tail(q) # <<>>
    <3>1. Len(Tail(q)) \in Nat \ {0}
      BY <2>1, <2>3, EmptySeq
    <3>2. QED
      BY <2>1, <2>3, <3>1
  <2>4. QED
    BY <2>2, <2>3
<1>3. QED
  BY <1>1, <1>2

\* The status and the station: the driver reports in order, and every way out of a
\* network is reported.
LEMMA StatusWifi == WifiTypes /\ StatusFollows /\ WifiStep => StatusFollows'
<1> SUFFICES ASSUME WifiTypes, StatusFollows, WifiStep PROVE StatusFollows'
  OBVIOUS
<1> USE DEF StatusFollows, Arriving
<1>1. ASSUME NEW e \in {"UP", "DOWN"}
      PROVE  /\ Append(events, e) # <<>>
             /\ Append(events, e)[Len(Append(events, e))] = e
  BY LastFacts DEF WifiTypes
<1>2. CASE RadioUp
  BY <1>1, <1>2, RadioFacts DEF RadioUp
<1>3. CASE RadioFails \/ RadioLost
  BY <1>1, <1>3, RadioFacts DEF RadioFails, RadioLost
<1>4. CASE WorkConnect \/ WorkDisconnect \/ Reset
  <2>1. UNCHANGED <<ev, status>> /\ Leave
    BY <1>4 DEF WorkConnect, WorkDisconnect, Reset
  <2>2. QED
    BY <2>1, LeaveFacts
<1>5. CASE WorkStart
  <2>1. UNCHANGED <<ev, status, events>> /\ radio'.st = "trying" /\ wrk' = "idle" /\ radio.st = "off"
    BY <1>5 DEF WorkStart
  <2>2. QED
    BY <2>1
<1>6. ASSUME events # <<>>, events' = Tail(events)
      PROVE  /\ events' # <<>> => events'[Len(events')] = events[Len(events)]
             /\ events' = <<>> => Head(events) = events[Len(events)]
  BY <1>6, LastFacts DEF WifiTypes
<1>7. CASE EventConnected
  BY <1>6, <1>7 DEF EventConnected
<1>8. CASE EventDown
  <2>1. ev'.pc \in {"wait", "ready", "down"} /\ UNCHANGED <<radio, wrk>>
    BY <1>8 DEF EventDown
  <2>2. QED
    BY <1>6, <1>8, <2>1 DEF EventDown
<1>9. CASE EventStores
  BY <1>9 DEF EventStores, world
<1>10. CASE WorkStopped \/ TimerFires \/ TimerStores \/ SetCredentials \/ Close
  <2>1. UNCHANGED <<radio, events, ev, status>> /\ (wrk' = wrk \/ wrk' = "idle")
    BY <1>10 DEF WorkStopped, TimerFires, TimerStores, SetCredentials, Close, world
  <2>2. QED
    BY <2>1
<1>11. QED
  BY <1>2, <1>3, <1>4, <1>5, <1>7, <1>8, <1>9, <1>10 DEF WifiStep

\* The message of __netconn_wifi_connect is the last of the queue.
LEMMA MessageFacts ==
    ASSUME WifiTypes, NEW s, Connect(s), queue' # queue
    PROVE  queue' # <<>> /\ queue'[Len(queue')] = "CONNECT"
  BY LastFacts DEF WifiTypes, Connect

\* The mark of a link that is up: only the driver sets it, and it clears it in the handler
\* that stores the loss.
LEMMA MarkedWifi == WifiTypes /\ MarkedUp /\ WifiStep => MarkedUp'
<1> SUFFICES ASSUME WifiTypes, MarkedUp, WifiStep PROVE MarkedUp'
  OBVIOUS
<1> USE DEF MarkedUp
<1>1. CASE EventConnected
  BY <1>1 DEF EventConnected
<1>2. CASE EventDown
  BY <1>2 DEF EventDown
<1>3. CASE EventStores
  BY <1>3 DEF EventStores
<1>4. CASE TimerStores
  <2>1. stat' # "LINKUP"
    BY <1>4 DEF TimerStores, WifiTypes, Threads
  <2>2. QED
    BY <2>1
<1>5. CASE WorkStart \/ WorkDisconnect \/ Reset
  BY <1>5 DEF WorkStart, WorkDisconnect, Reset, ResetFields
<1>6. CASE \/ RadioUp \/ RadioFails \/ RadioLost \/ WorkConnect \/ WorkStopped \/ TimerFires
           \/ SetCredentials \/ Close
  BY <1>6 DEF RadioUp, RadioFails, RadioLost, WorkConnect, WorkStopped, TimerFires,
              SetCredentials, Close, conn
<1>7. QED
  BY <1>1, <1>2, <1>3, <1>4, <1>5, <1>6 DEF WifiStep

\* The end of the work queue: what is added while the link is to be had is a connect
\* message.
LEMMA LastWifi == WifiTypes /\ LastConnects /\ WifiStep => LastConnects'
<1> SUFFICES ASSUME WifiTypes, LastConnects, WifiStep PROVE LastConnects'
  OBVIOUS
<1> USE DEF LastConnects
<1>1. CASE WorkConnect \/ WorkDisconnect
  <2>1. UNCHANGED due /\ queue # <<>> /\ queue' = Tail(queue)
    BY <1>1 DEF WorkConnect, WorkDisconnect, history
  <2>2. QED
    BY <2>1, LastFacts DEF WifiTypes
<1>2. CASE TimerFires
  <2>1. CASE stat = "WAIT"
    <3>1. Connect(stat) /\ Retried
      BY <1>2, <2>1 DEF TimerFires
    <3>2. QED
      BY <3>1, MessageFacts DEF Retried
  <2>2. CASE stat # "WAIT"
    BY <1>2, <2>2 DEF TimerFires
  <2>3. QED
    BY <2>1, <2>2
<1>3. CASE EventStores
  <2>1. CASE ev.pc = "ready"
    <3>1. Connect("REDAY") /\ Retried
      BY <1>3, <2>1 DEF EventStores
    <3>2. QED
      BY <3>1, MessageFacts DEF Retried
  <2>2. CASE ev.pc # "ready"
    BY <1>3, <2>2 DEF EventStores
  <2>3. QED
    BY <2>1, <2>2
<1>4. CASE SetCredentials
  <2>1. Connect(stat) /\ (due' = "link" => queue' # queue \/ queue = <<>>)
    BY <1>4 DEF SetCredentials
  <2>2. QED
    BY <2>1, MessageFacts
<1>5. CASE Close \/ Reset
  BY <1>5 DEF Close, Reset
<1>6. CASE \/ RadioUp \/ RadioFails \/ RadioLost \/ WorkStart \/ WorkStopped
           \/ TimerStores \/ EventConnected \/ EventDown
  <2>1. UNCHANGED queue /\ (due' = due \/ due' = "lost")
    BY <1>6 DEF RadioUp, RadioFails, RadioLost, WorkStart, WorkStopped, TimerStores,
                EventConnected, EventDown, LostIf, conn, history
  <2>2. QED
    BY <2>1
<1>7. QED
  BY <1>1, <1>2, <1>3, <1>4, <1>5, <1>6 DEF WifiStep

\* The pursuit of the link.
LEMMA PursuedWifi ==
    WifiTypes /\ StatusFollows /\ MarkedUp /\ LastConnects /\ Pursued /\ WifiStep => Pursued'
<1> SUFFICES ASSUME WifiTypes, StatusFollows, MarkedUp, LastConnects, Pursued, WifiStep,
                    due' = "link", queue' = <<>>, ev'.pc # "ready"
             PROVE  IF wrk' = "connect" THEN timer' \/ events' # <<>>
                    ELSE /\ stat' \notin {"STOP", "REDAY"}
                         /\ \/ radio'.st = "up" \/ timer' \/ events' # <<>>
                            \/ radio'.st = "trying" /\ ~radio'.mute
  BY DEF Pursued
<1> USE DEF Pursued
<1>1. stat = "LINKUP" /\ ev.pc # "ready" => radio.st = "up" \/ events # <<>>
  BY DEF MarkedUp, StatusFollows, Arriving
<1>2. CASE RadioUp
  <2>1. events' # <<>> /\ UNCHANGED <<stat, queue, ev, wrk, due>>
    BY <1>2 DEF RadioUp, conn, history, WifiTypes
  <2>2. QED
    BY <2>1
<1>3. CASE RadioFails \/ RadioLost
  <2>1. events' # <<>> /\ UNCHANGED <<stat, queue, ev, wrk, due>>
    BY <1>3 DEF RadioFails, RadioLost, conn, history, WifiTypes
  <2>2. QED
    BY <2>1
<1>4. CASE WorkConnect
  BY <1>4 DEF WorkConnect
<1>5. CASE WorkStart
  <2>1. /\ wrk = "connect" /\ wrk' = "idle" /\ stat' = "CHECK"
        /\ UNCHANGED <<timer, queue, ev, events, due>>
    BY <1>5 DEF WorkStart
  <2>2. QED
    BY <2>1
<1>6. CASE WorkDisconnect
  <2>1. queue # <<>> /\ Head(queue) = "DISCONNECT" /\ queue' = Tail(queue) /\ due = "link"
    BY <1>6 DEF WorkDisconnect, history
  <2>2. Head(queue) = queue[Len(queue)]
    BY <2>1, LastFacts DEF WifiTypes
  <2>3. QED
    BY <2>1, <2>2 DEF LastConnects
<1>7. CASE WorkStopped
  <2>1. wrk = "stopped" /\ timer' /\ wrk' = "idle" /\ UNCHANGED <<stat, queue, ev, due>>
    BY <1>7 DEF WorkStopped, history
  <2>2. QED
    BY <2>1
<1>8. CASE TimerFires
  <2>1. /\ wrk = "idle" /\ UNCHANGED <<stat, wrk, ev, radio, events>>
    BY <1>8 DEF TimerFires, world
  <2>2. CASE stat = "WAIT"
    <3>1. Connect(stat) /\ Retried
      BY <1>8, <2>2 DEF TimerFires
    <3>2. queue' # queue
      BY <3>1 DEF Retried
    <3>3. QED
      BY <3>1, <3>2, MessageFacts
  <2>3. CASE stat = "CHECK"
    BY <1>8, <2>1, <2>3 DEF TimerFires
  <2>4. CASE stat \in {"STOP", "REDAY"}
    BY <1>8, <2>1, <2>4 DEF TimerFires
  <2>5. CASE stat = "LINKUP"
    BY <1>1, <2>1, <2>5
  <2>6. QED
    BY <2>2, <2>3, <2>4, <2>5 DEF WifiTypes, Stats
<1>9. CASE TimerStores
  <2>1. UNCHANGED <<timer, queue, wrk, ev, radio, events>>
    BY <1>9 DEF TimerStores, world
  <2>2. due = "link"
    BY <1>9 DEF TimerStores, LostIf
  <2>3. CASE tmr.pc = "ready"
    <3>1. stat = "STOP"
      BY <1>9, <2>3 DEF TimerStores, LostIf
    <3>2. QED
      BY <2>1, <2>2, <3>1
  <2>4. CASE tmr.pc # "ready"
    <3>1. stat' \notin {"STOP", "REDAY"}
      BY <1>9, <2>4 DEF TimerStores, WifiTypes, Threads
    <3>2. QED
      BY <2>1, <2>2, <3>1
  <2>5. QED
    BY <2>3, <2>4
<1>10. CASE EventConnected
  <2>1. /\ stat' = "LINKUP" /\ UNCHANGED <<queue, wrk, radio, due>>
        /\ events # <<>> /\ events' = Tail(events) /\ Head(events) = "UP"
    BY <1>10 DEF EventConnected, history
  <2>2. events' = <<>> => radio.st = "up"
    BY <2>1, LastFacts DEF WifiTypes, StatusFollows, Arriving
  <2>3. QED
    BY <2>1, <2>2 DEF StatusFollows
<1>11. CASE EventDown
  <2>1. UNCHANGED <<stat, queue, wrk, radio>> /\ ev.pc = "idle"
    BY <1>11 DEF EventDown
  <2>2. due = "link" /\ (wrk = "connect" => timer')
    BY <1>11 DEF EventDown, LostIf
  <2>3. wrk # "connect" => stat \in {"CHECK", "WAIT"}
    BY <1>11, <2>1, <2>2 DEF EventDown
  <2>4. wrk # "connect" => timer'
    BY <1>11, <2>3 DEF EventDown
  <2>5. QED
    BY <2>1, <2>2, <2>3, <2>4
<1>12. CASE EventStores
  <2>1. UNCHANGED <<timer, wrk, radio, events>>
    BY <1>12 DEF EventStores, world
  <2>2. CASE ev.pc = "ready"
    <3>1. Connect("REDAY") /\ Retried
      BY <1>12, <2>2 DEF EventStores
    <3>2. queue' # queue
      BY <3>1 DEF Retried
    <3>3. QED
      BY <3>1, <3>2, MessageFacts
  <2>3. CASE ev.pc # "ready"
    <3>1. UNCHANGED <<queue, due>> /\ (stat' = stat \/ stat' = "WAIT")
      BY <1>12, <2>3 DEF EventStores
    <3>2. QED
      BY <2>1, <2>3, <3>1
  <2>4. QED
    BY <2>2, <2>3
<1>13. CASE SetCredentials
  <2>1. UNCHANGED <<stat, timer, wrk, ev, radio, events>> /\ Connect(stat)
    BY <1>13 DEF SetCredentials, world
  <2>2. queue' = queue
    BY <2>1, MessageFacts
  <2>3. stat = "LINKUP"
    BY <1>13, <2>2 DEF SetCredentials
  <2>4. QED
    BY <1>1, <2>1, <2>3 DEF StatusFollows
<1>14. CASE Close \/ Reset
  BY <1>14 DEF Close, Reset
<1>15. QED
  BY <1>2, <1>3, <1>4, <1>5, <1>6, <1>7, <1>8, <1>9, <1>10, <1>11, <1>12, <1>13, <1>14
     DEF WifiStep

\* The manager: an event that changes the status tells it before it ends.
LEMMA ManagerWifi ==
    WifiTypes /\ CallTracked /\ ManagerFollows /\ WifiStep /\ UNCHANGED netvars
      => CallTracked' /\ ManagerFollows'
<1> SUFFICES ASSUME WifiTypes, CallTracked, ManagerFollows, WifiStep, UNCHANGED netvars
             PROVE  CallTracked' /\ ManagerFollows'
  OBVIOUS
<1>1. CASE EventConnected \/ EventDown \/ EventStores
  <2>1. /\ ev.pc # "called" /\ ev'.pc # "called"
        /\ ev.pc # "notify" /\ (ev'.pc = "notify" \/ UNCHANGED status)
    BY <1>1 DEF EventConnected, EventDown, EventStores
  <2>2. QED
    BY <2>1 DEF CallTracked, ManagerFollows, netvars, Met, Current
<1>2. CASE ~(EventConnected \/ EventDown \/ EventStores)
  <2>1. UNCHANGED <<ev, status>>
    BY <1>2 DEF WifiStep, RadioUp, RadioFails, RadioLost, WorkConnect, WorkStart,
                WorkDisconnect, WorkStopped, TimerFires, TimerStores, SetCredentials, Close,
                Reset, conn
  <2>2. QED
    BY <2>1 DEF CallTracked, ManagerFollows, netvars, Met, Current
<1>3. QED
  BY <1>1, <1>2

-----------------------------------------------------------------------------
(* The steps of the manager keep them *)

\* A call reads the links as they are; if it is the only one under way it stores them
\* as they are, or a change since has a call of its own.
LEMMA ManagerNet ==
    WifiTypes /\ NetTypes /\ CallTracked /\ ManagerFollows /\ NetStep
      => CallTracked' /\ ManagerFollows'
<1> SUFFICES ASSUME WifiTypes, NetTypes, CallTracked, ManagerFollows, NetStep
             PROVE  CallTracked' /\ ManagerFollows'
  OBVIOUS
<1> USE DEF CallTracked, ManagerFollows, Callbacks, Met, Current
<1>1. cb \in [Callbacks -> [pc : {"idle", "notify", "store"}, active : {"WIRED", "WIFI"},
                           status : {"UP", "DOWN"}]]
  BY DEF NetTypes
<1>2. UNCHANGED status
  BY NetKeeps
<1>3. ASSUME NEW c \in Callbacks, Read(c), UNCHANGED <<wired, mgr>>
      PROVE  /\ (cb[c].pc = "store" /\ Current(cb[c]))'
             /\ \A d \in Callbacks \ {c} : cb'[d] = cb[d]
             /\ torn' \/ ~Met(c)'
  <2>1. cb'[c] = [pc |-> "store", active |-> Active(wired, status).active,
                  status |-> Active(wired, status).status]
    BY <1>1, <1>3 DEF Read
  <2>2. \A d \in Callbacks \ {c} : cb'[d] = cb[d]
    BY <1>1, <1>3 DEF Read
  <2>3. torn' = Met(c)
    BY <1>3 DEF Read
  <2>4. QED
    BY <1>2, <1>3, <2>1, <2>2, <2>3
<1>4. CASE WifiNotifies
  BY <1>3, <1>4 DEF WifiNotifies
<1>5. CASE WiredEvent
  BY <1>1, <1>5 DEF WiredEvent, NoCall
<1>6. CASE WiredNotifies
  BY <1>3, <1>6 DEF WiredNotifies, wifivars
<1>7. CASE SetPriority
  BY <1>3, <1>7 DEF SetPriority
<1>8. CASE Store("wifi")
  BY <1>1, <1>2, <1>8 DEF Store, NoCall, TimerIdle
<1>9. CASE Store("other")
  BY <1>1, <1>2, <1>9 DEF Store, NoCall
<1>10. QED
  BY <1>4, <1>5, <1>6, <1>7, <1>8, <1>9 DEF NetStep

-----------------------------------------------------------------------------
(* The invariant and the theorems *)

IInv ==
    /\ WifiTypes /\ NetTypes
    /\ BackoffBound /\ CredentialsBound /\ StatusFollows
    /\ MarkedUp /\ LastConnects /\ Pursued
    /\ CallTracked /\ ManagerFollows

\* netmgr_init and netconn_wifi_open establish it.
LEMMA InvariantInit == Init => IInv
<1> SUFFICES ASSUME Init PROVE IInv
  OBVIOUS
<1> USE WifiConnAssumption DEF Init, InitWifi
<1>1. WifiTypes
  <2>1. queue \in Seq({"CONNECT", "DISCONNECT"})
    <3>1. <<>> \in Seq({"CONNECT", "DISCONNECT"}) /\ <<"CONNECT">> \in Seq({"CONNECT", "DISCONNECT"})
      OBVIOUS
    <3>2. QED
      BY <3>1
  <2>2. events \in Seq({"UP", "DOWN"})
    OBVIOUS
  <2>3. radio \in Radios /\ tmr \in Threads /\ ev \in Events
    BY DEF RadioOff, Radios, Threads, Events
  <2>4. timer \in BOOLEAN /\ unused \in {"no", "linkup", "nomsg"} /\ both \in BOOLEAN
    OBVIOUS
  <2>5. /\ stat \in Stats /\ count \in 0..TableSize /\ creds \in 0..MaxCreds
        /\ status \in {"UP", "DOWN"} /\ wrk \in {"idle", "connect", "stopped"}
        /\ asks \in 0..MaxAsks /\ faults \in 0..MaxFaults /\ due \in {"no", "link", "lost"}
    BY DEF Stats
  <2>6. QED
    BY <2>1, <2>2, <2>3, <2>4, <2>5 DEF WifiTypes
<1>2. NetTypes
  <2>1. mgr = [active |-> "WIRED", status |-> "DOWN"]
    BY LinksOrder
  <2>2. torn \in BOOLEAN
    OBVIOUS
  <2>3. Pri \in [{"WIRED", "WIFI"} -> 0..SetPri]
    BY DEF Pri, SetPri
  <2>4. QED
    BY <2>1, <2>2, <2>3 DEF NetTypes, NoCall
<1>3. BackoffBound
  BY DEF BackoffBound, Adds
<1>4. CredentialsBound /\ StatusFollows
  BY DEF CredentialsBound, StatusFollows, Arriving, RadioOff
<1>5. CallTracked
  BY DEF CallTracked, NoCall, Callbacks
<1>6. ManagerFollows
  <2>1. mgr.active = "WIRED" /\ mgr.status = "DOWN"
    BY LinksOrder
  <2>2. Current(mgr)
    BY <2>1, ActiveFacts DEF Current
  <2>3. QED
    BY <2>2 DEF ManagerFollows, NoCall
<1>7. MarkedUp /\ LastConnects /\ Pursued
  BY DEF MarkedUp, LastConnects, Pursued
<1>8. QED
  BY <1>1, <1>2, <1>3, <1>4, <1>5, <1>6, <1>7 DEF IInv

\* Every step keeps it.
LEMMA InvariantNext == IInv /\ [Next]_vars => IInv'
<1> SUFFICES ASSUME IInv, [Next]_vars PROVE IInv'
  OBVIOUS
<1> USE DEF IInv
<1>1. CASE WifiStep /\ UNCHANGED netvars
  <2>1. NetTypes'
    BY <1>1 DEF NetTypes, netvars
  <2>2. QED
    BY <1>1, <2>1, TypedWifi, BackoffWifi, CredentialsWifi, StatusWifi, MarkedWifi,
       LastWifi, PursuedWifi, ManagerWifi
<1>2. CASE NetStep
  <2>1. WifiTypes'
    BY <1>2, NetKeeps DEF WifiTypes
  <2>2. BackoffBound'
    <3>1. Adds(ev') \in {0, Adds(ev)} /\ (ev'.grow => ev' = ev)
      BY <1>2, NetKeeps DEF Adds, BackoffBound
    <3>2. Adds(ev) \in {0, 1} /\ Adds(tmr) \in {0, 1} /\ count \in Nat /\ TableSize \in Nat
      BY WifiConnAssumption DEF WifiTypes, Adds
    <3>3. UNCHANGED <<count, tmr, both>>
      BY <1>2, NetKeeps
    <3>4. Adds(tmr') = Adds(tmr)
      BY <3>3
    <3>5. QED
      BY <3>1, <3>2, <3>3, <3>4 DEF BackoffBound
  <2>3. CredentialsBound'
    BY <1>2, NetKeeps DEF CredentialsBound
  <2>4. StatusFollows'
    BY <1>2, NetKeeps DEF StatusFollows, Arriving, CallTracked
  <2>5. MarkedUp' /\ LastConnects' /\ Pursued'
    BY <1>2, NetKeeps DEF MarkedUp, LastConnects, Pursued, CallTracked
  <2>6. QED
    BY <1>2, <2>1, <2>2, <2>3, <2>4, <2>5, TypedNet, ManagerNet
<1>3. CASE UNCHANGED vars
  BY <1>3 DEF vars, wifivars, netvars, conn, world, bounds, history, WifiTypes, NetTypes,
              BackoffBound, Adds, CredentialsBound, StatusFollows, Arriving, MarkedUp,
              LastConnects, Pursued, CallTracked, ManagerFollows, Met, Current
<1>4. QED
  BY <1>1, <1>2, <1>3 DEF Next, NetStep

\* The invariant holds throughout.
LEMMA Invariant == Spec => []IInv
<1>1. QED
  BY InvariantInit, InvariantNext, PTL DEF Spec

\* In every state of every behaviour the variables have their types; the place in the
\* back-off table, conn.count of netconn_wifi.c, passes the last interval by one at most.
THEOREM TypeCorrect == Spec => []TypeOK
<1>1. IInv => TypeOK
  BY TypeParts DEF IInv
<1>2. QED
  BY Invariant, <1>1, PTL

\* For a table of any size, the place in the back-off table stays within it unless the
\* timer and the driver have backed off at the same time.
THEOREM BackoffWithinTable == Spec => []BackoffInTable
<1>1. IInv => BackoffInTable
  BY WifiConnAssumption DEF IInv, BackoffBound, BackoffInTable, Adds, WifiTypes
<1>2. QED
  BY Invariant, <1>1, PTL

\* A station at rest in a network is in the one whose credentials were given to
\* netconn_wifi_set last, unless they were given while the link was up, or the message
\* for them could not be allocated or put on the work queue.
THEOREM CredentialsInUse == Spec => []CredentialsUsed
<1>1. IInv => CredentialsUsed
  BY DEF IInv, CredentialsBound, CredentialsUsed, WifiQuiet
<1>2. QED
  BY Invariant, <1>1, PTL

\* A link that was asked for and not closed is at rest only if it is up, is being tried or
\* has a retry on its timer, except where a retry was lost as `due' says.
THEOREM LinkPursued == Spec => []NeverStranded
<1>1. IInv => NeverStranded
  BY DEF IInv, Pursued, NeverStranded, WifiQuiet
<1>2. QED
  BY Invariant, <1>1, PTL

\* At rest the manager is up exactly if the wire or the radio is, and names the first of
\* them that is up in the order they were registered in, whatever priorities were set
\* since, unless two calls of __netmgr_event_cb met and none has run alone since.
THEOREM ManagerUpToDate == Spec => []ManagerAgrees
<1>1. ASSUME IInv, Quiet, ~torn
      PROVE  /\ mgr.status = "UP" <=> wired = "UP" \/ radio.st = "up"
             /\ mgr.active = "WIFI" <=> wired = "DOWN" /\ radio.st = "up"
  <2>1. radio.st = "up" <=> status = "UP"
    BY <1>1 DEF IInv, StatusFollows, Arriving, Quiet, WifiQuiet
  <2>2. Current(mgr)
    BY <1>1 DEF IInv, ManagerFollows, Quiet, WifiQuiet, Callbacks
  <2>3. wired \in {"UP", "DOWN"} /\ status \in {"UP", "DOWN"}
    BY <1>1 DEF IInv, WifiTypes, NetTypes
  <2>4. QED
    BY <2>1, <2>2, <2>3, ActiveFacts DEF Current
<1>2. IInv => ManagerAgrees
  BY <1>1 DEF ManagerAgrees
<1>3. QED
  BY Invariant, <1>2, PTL
=============================================================================
