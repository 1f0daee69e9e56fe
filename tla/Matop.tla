------------------------------- MODULE Matop -------------------------------
(***************************************************************************)
(* Requests to the cloud over MQTT, matop_service.c in                     *)
(* src/tuya_cloud_service/cloud, composed with the MQTT service whose      *)
(* connection callbacks (mqtt_client_connected_on and                      *)
(* mqtt_client_disconnect_on of tuya_iot.c) start and end it.              *)
(*                                                                         *)
(* A request gets the next identifier, is sent, and is then appended to    *)
(* message_list in the same way as a publication: without a lock.  The     *)
(* thread of tuya_iot_yield takes answers and timeouts from the list.      *)
(* The service is zeroed at every connection, so identifiers start at 1    *)
(* again, and come round after 65536 requests: the counter has 32 bits,    *)
(* the identifier 16.  The server may answer late, twice or never.         *)
(***************************************************************************)
EXTENDS MqttService

CONSTANT ReqIds     \* 65536 in the code: the identifier of a request is a uint16_t

ASSUME ReqIdsAssumption == ReqIds \in Nat \ {0}

VARIABLES
    message_list,   \* the head of the list of requests
    id_cnt,         \* the number of the last request
    ready           \* matop_serice_init came to its end

matop == <<message_list, id_cnt, ready>>
allvars == <<vars, matop>>

InitMatop == Init /\ message_list = 0 /\ id_cnt = 0 /\ ready = FALSE

-----------------------------------------------------------------------------
(* The callbacks of the connection *)

Connected == ConnectOk /\ UNCHANGED matop

\* matop_serice_init: the context is zeroed and the two topics subscribed to;
\* when the first subscription fails the topic of the requests stays empty.
MatopInit ==
    /\ Running /\ loop.pc = "connected"
    /\ message_list' = 0
    /\ id_cnt' = 0
    /\ \/ packet' = PacketsAfter(2) /\ ready' = TRUE /\ UNCHANGED faults
       \/ /\ faults < MaxFaults /\ faults' = faults + 1
          /\ packet' = PacketsAfter(1) /\ ready' = FALSE
    /\ loop' = [loop EXCEPT !.pc = "matop"]
    /\ UNCHANGED <<ctx, unsent, epoch, lists, at, dead, history>>

\* The connections that matop_serice_init has run for.
Generation == IF loop.pc = "connected" THEN epoch - 1 ELSE epoch

\* Mutant of Disconnected: the publications are freed too.
DisconnectedAll ==
    /\ freed' = freed \union Chain(message_list) \union Chain(publish_list)
    /\ message_list' = 0
    /\ overlapped' = overlapped \union Appending("req")
    /\ UNCHANGED <<id_cnt, ready>>

\* matop_serice_destory: two topics are left and every request is freed.
Disconnected ==
    /\ freed' = freed \union Chain(message_list)
    /\ message_list' = 0
    /\ overlapped' = overlapped \union Appending("req")
    /\ UNCHANGED <<id_cnt, ready>>

\* Before the first matop_serice_init there is no topic to leave.
LoseConnection == Lose(2) /\ Disconnected
StopService ==
    \E destroy \in BOOLEAN : Stop(IF Generation > 0 THEN 2 ELSE 0, destroy) /\ Disconnected

-----------------------------------------------------------------------------
(* matop_service_request_async, in a thread *)

\* The context is only used after the first matop_serice_init.  ++matop->id_cnt:
\* the value is read and cut down to the identifier ...
RequestBegin(t) ==
    /\ Running /\ at[t].pc = "idle"
    /\ Generation > 0
    /\ \E e \in Fresh :
          /\ \A f \in Fresh : e <= f
          /\ entry' = [entry EXCEPT ![e] = [kind |-> "req", msgid |-> (id_cnt + 1) % ReqIds,
                                            draw |-> id_cnt + 1, conn |-> Generation]]
          /\ at' = [at EXCEPT ![t] = [pc |-> "id", e |-> e, last |-> 0]]
          /\ LET others == {at[u].e : u \in {v \in Threads : at[v].pc = "id"}}
             IN overlapped' = overlapped \union
                   IF others # {} THEN others \union {e} ELSE {}
    /\ UNCHANGED <<connection, publish_list, next, freed, expired, loop, dead, faults,
                   acked, early, reports, forgotten, matop>>

\* ... and stored.
RequestId(t) ==
    /\ Running /\ at[t].pc = "id"
    /\ id_cnt' = entry[at[t].e].draw
    /\ at' = [at EXCEPT ![t].pc = "send"]
    /\ UNCHANGED <<connection, lists, loop, dead, faults, history, message_list, ready>>

IsReq(t) == entry[at[t].e].kind = "req"

\* matop_request_send, with QoS 0: no packet identifier is in its way.
RequestSend(t) ==
    /\ Running /\ at[t].pc = "send" /\ IsReq(t)
    /\ ctx.client /\ ctx.connected /\ ready
    /\ packet' = PacketsAfter(1)
    /\ at' = [at EXCEPT ![t].pc = "head"]
    /\ UNCHANGED <<ctx, unsent, epoch, lists, loop, dead, faults, history, matop>>

\* matop_request_send fails: the handle is freed and the caller told.
RequestRefused(t) ==
    /\ Running /\ at[t].pc = "send" /\ IsReq(t)
    /\ ctx.client
    /\ IF ctx.connected /\ ready THEN faults < MaxFaults /\ faults' = faults + 1
                            ELSE UNCHANGED faults
    /\ packet' = PacketsAfter(1)
    /\ entry' = [entry EXCEPT ![at[t].e].kind = "refused"]
    /\ freed' = freed \union {at[t].e}
    /\ at' = [at EXCEPT ![t] = Idle]
    /\ UNCHANGED <<ctx, unsent, epoch, publish_list, next, expired, loop, dead, history,
                   matop>>

RequestRead(t) ==
    /\ at[t].pc = "head" /\ IsReq(t) /\ AppendRead(t, message_list)
    /\ UNCHANGED matop

RequestFirst(t) ==
    /\ Running /\ at[t].pc = "first" /\ IsReq(t)
    /\ message_list' = at[t].e
    /\ at' = [at EXCEPT ![t] = Idle]
    /\ UNCHANGED <<connection, lists, loop, dead, faults, history, id_cnt, ready>>

-----------------------------------------------------------------------------
(* The thread of tuya_iot_yield *)

\* A request leaves the list after its callback.
RemoveReq(e, by, pc) ==
    LET prev == Before(message_list, e)
    IN /\ reports' = [reports EXCEPT ![e] = Append(@, by)]
       /\ message_list' = HeadWithout(message_list, prev, e)
       /\ next' = NextWithout(prev, e)
       /\ expired' = expired \ {e}
       /\ overlapped' = overlapped \union Appending("req")
       /\ loop' = [pc |-> pc, prev |-> 0, victim |-> e]

\* The requests that were sent, whatever became of them since: the server may
\* answer them.
Answerable ==
    {e \in Entries : /\ entry[e].kind = "req"
                     /\ \A t \in Threads : at[t].e = e => at[t].pc \notin {"id", "send"}}

\* matop_service_data_receive_cb and matop_service_file_rawdata_receive_cb:
\* the answer to e goes to the first request with its identifier, if any.
Answer(e) ==
    /\ Running /\ loop.pc = "yield" /\ ctx.connected /\ ready
    /\ e \in Answerable
    /\ LET hit == FirstOf(message_list, {x \in Entries : entry[x].msgid = entry[e].msgid})
       IN hit # 0 /\ RemoveReq(hit, e, "free")
    /\ UNCHANGED <<connection, publish_list, entry, freed, at, dead, faults, acked, early,
                   forgotten, id_cnt, ready>>

\* Mutant of OnTimeout: the request stays on the list.
OnTimeoutKept(e) ==
    /\ reports' = [reports EXCEPT ![e] = Append(@, 0)]
    /\ loop' = [loop EXCEPT !.pc = "top"]
    /\ UNCHANGED <<message_list, next, expired, overlapped>>

OnTimeout(e) == RemoveReq(e, 0, "freematop")

\* matop_serice_yield reports at most one timeout.
MatopTimeout ==
    /\ Running /\ loop.pc = "matop"
    /\ LET hit == FirstOf(message_list, expired)
       IN hit # 0 /\ OnTimeout(hit)
    /\ UNCHANGED <<connection, publish_list, entry, freed, at, dead, faults, acked, early,
                   forgotten, id_cnt, ready>>

FreeMatop ==
    /\ Running /\ loop.pc = "freematop"
    /\ freed' = freed \union {loop.victim}
    /\ loop' = Top
    /\ UNCHANGED <<connection, publish_list, entry, next, expired, at, dead, faults, history,
                   matop>>

MatopQuiet ==
    /\ Running /\ loop.pc = "matop"
    /\ Chain(message_list) \intersect expired = {}
    /\ loop' = Top
    /\ UNCHANGED <<connection, lists, at, dead, faults, history, matop>>

-----------------------------------------------------------------------------

ThreadNext(t) ==
    \/ PublisherStep(t) /\ UNCHANGED matop
    \/ RequestBegin(t) \/ RequestId(t) \/ RequestSend(t) \/ RequestRefused(t)
    \/ RequestRead(t) \/ RequestFirst(t)

LoopNext ==
    \/ LoopStep /\ UNCHANGED matop
    \/ \E e \in Entries : Answer(e)
    \/ MatopInit \/ MatopTimeout \/ FreeMatop \/ MatopQuiet

Next ==
    \/ \E t \in Threads : ThreadNext(t)
    \/ LoopNext
    \/ Connected \/ LoseConnection \/ StopService
    \/ (Destroy \/ ReInit) /\ UNCHANGED matop
    \/ \E e \in Entries : Expire(e) /\ UNCHANGED matop

Spec == InitMatop /\ [][Next]_allvars

\* Threads go on with what they have begun, the thread of tuya_iot_yield keeps
\* turning and the clock runs.  A broker that is asked for a connection again
\* and again accepts one in the end.
Fairness ==
    /\ \A t \in Threads : WF_allvars(at[t].pc # "idle" /\ ThreadNext(t))
    /\ WF_allvars(LoopNext)
    /\ SF_allvars(Connected)
    /\ \A e \in Entries : WF_allvars(Expire(e) /\ UNCHANGED matop)

FairSpec == Spec /\ Fairness

-----------------------------------------------------------------------------
(* Properties *)

TypeOK ==
    /\ ctx \in [client : BOOLEAN, connected : BOOLEAN, manual : BOOLEAN]
    /\ publish_list \in Pointer /\ message_list \in Pointer
    /\ entry \in [Entries -> [kind : {"none", "plain", "pub", "req", "refused"},
                              msgid : 0..ReqIds + MaxPacketId, draw : 0..MaxEntries,
                              conn : 0..MaxFaults + 1]]
    /\ next \in [Entries -> Pointer]
    /\ freed \subseteq Entries /\ expired \subseteq Entries
    /\ packet \in 1..MaxPacketId /\ unsent \subseteq 1..MaxPacketId
    /\ loop \in [pc : {"top", "connected", "scan", "freetail", "yield", "free", "matop",
                       "freematop"},
                 prev : Pointer, victim : Pointer]
    /\ at \in [Threads -> [pc : {"idle", "id", "send", "head", "first", "walk", "link"},
                           e : Pointer, last : Pointer]]
    /\ dead \in {"no", "client", "freed", "tail"}
    /\ faults \in 0..MaxFaults /\ epoch \in 0..MaxFaults + 1
    /\ acked \subseteq Entries /\ early \subseteq Entries
    /\ overlapped \subseteq Entries /\ forgotten \subseteq Entries
    /\ reports \in [Entries -> Seq(Pointer)]
    /\ id_cnt \in 0..MaxEntries /\ ready \in BOOLEAN

\* Neither list ever leads to memory that was given back: of the threads that
\* use the lists only an appending one can meet a freed entry, never the loop.
ListsAlive ==
    Running => (Chain(publish_list) \union Chain(message_list)) \intersect freed = {}

\* The entries whose call has returned OK.
Accepted == {e \in Entries : entry[e].kind \in {"pub", "req"}} \ InHand

\* The connection a request was made on is over, or its successor had not yet
\* started the service anew.
Stale(e) == entry[e].kind = "req" /\ (entry[e].conn # epoch \/ ~ctx.connected)

\* An accepted publication or request is on its list until its callback is
\* called.  It can get lost only when another thread used the list while it was
\* being appended, when tuya_mqtt_init zeroes the list, or, for a request, when
\* its connection ends.
AcceptedReachable ==
    Running =>
    \A e \in Accepted :
        \/ reports[e] # <<>>
        \/ e \in Chain(IF entry[e].kind = "pub" THEN publish_list ELSE message_list)
        \/ e \in overlapped \union forgotten
        \/ Stale(e)

\* A callback is called at most once, however acknowledgements, answers,
\* timeouts and losses of the connection are ordered.
ReportedOnce == \A e \in Entries : Len(reports[e]) <= 1

Told(e) == {reports[e][i] : i \in 1..Len(reports[e])}

\* The acknowledgement of e came while its sender still had it in hand, not yet
\* on the list, or was taken for that of another publication.
Missed(e) == e \in early \/ \E f \in Entries \ {e} : e \in Told(f)

\* So many requests lie between a and e that the identifiers have come round.
CameRound(a, e) ==
    entry[a].draw >= entry[e].draw + ReqIds \/ entry[e].draw >= entry[a].draw + ReqIds

\* What a callback is told is the fate of its own message.  It hears that of
\* another one only across connections, when identifiers start again while the
\* older message still waits (or is answered late).  Within a connection, a
\* publication whose own acknowledgement was missed may hear that of a later one
\* with the same identifier; a request may hear the answer of one that drew the
\* same number because two threads drew at a time, or whose number is so far
\* away that its 16 bits are the same.
AnswersFit ==
    \A e \in Entries : \A a \in Told(e) \ {0} :
        \/ a = e
        \/ entry[a].conn # entry[e].conn
        \/ IF entry[e].kind = "pub" THEN Missed(e)
           ELSE {a, e} \intersect overlapped # {} \/ CameRound(a, e)

\* Once the acknowledgement of a publication has come, its callback is not told
\* of a timeout, unless the acknowledgement was missed.  (One that comes after
\* the timeout was reported finds nobody: it is not reported again.)
TimeoutsHonest ==
    [][\A e \in acked : 0 \in Told(e)' => 0 \in Told(e) \/ Missed(e)]_allvars

\* Nothing is given back before its callback was called, except a request that
\* was refused or whose connection ended: a publication outlives the
\* connection.
FreedReported ==
    \A e \in freed : reports[e] # <<>> \/ entry[e].kind = "refused" \/ Stale(e)

\* The ways in which the service can follow a bad pointer: an append that met
\* another operation on the list, a publication that timed out, a destroyed
\* client.  An acknowledgement or an answer is never one of them.
CrashCauses ==
    /\ dead = "freed" => overlapped # {}
    /\ dead = "tail" => \E e \in Entries : entry[e].kind = "pub" /\ reports[e] = <<0>>
    /\ dead = "client" => ~ctx.client

GivenUp(e) ==
    \/ ~Running \/ ~ctx.client
    \/ e \in overlapped \union forgotten \union freed
    \/ entry[e].kind = "req" /\ entry[e].conn # epoch

\* Every accepted publication or request gets its callback, over losses and
\* reconnections, unless it got lost in one of the ways above or the client is
\* destroyed.
EverySettled ==
    \A e \in Entries :
        (e \in Accepted /\ reports[e] = <<>>) ~> (reports[e] # <<>> \/ GivenUp(e))
=============================================================================
