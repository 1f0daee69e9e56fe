---------------------------- MODULE MqttService ----------------------------
(***************************************************************************)
(* The MQTT service of src/tuya_cloud_service/cloud/mqtt_service.c over    *)
(* the client wrapper of src/libmqtt/src/mqtt_client_wrapper.c: the        *)
(* connection, and the linked list of publications that wait for their     *)
(* acknowledgement.                                                        *)
(*                                                                         *)
(* One thread, the one of tuya_iot_yield, runs tuya_mqtt_loop and walks    *)
(* the list; any other thread may publish and append to it.  The LOCK and  *)
(* UNLOCK of the source are comments: nothing is locked, so every read or  *)
(* write of a shared pointer is a step of its own.  What the callbacks of  *)
(* a connection add to its actions is in Matop.                            *)
(*                                                                         *)
(* An entry is a heap object that is used once: 0 is NULL, and `freed'     *)
(* holds the entries given back.  A thread that follows a freed or a NULL  *)
(* pointer has undefined behaviour: `dead' says which, and nothing is      *)
(* claimed of what follows.                                                *)
(***************************************************************************)
EXTENDS Integers, Sequences, FiniteSets

CONSTANTS Threads,      \* the threads that publish and ask
          MaxEntries,   \* bound: publications and requests
          MaxPacketId,  \* 65535 in the code
          MaxRecords,   \* MQTT_STATE_ARRAY_MAX_COUNT: 10 in the code
          MaxFaults     \* bound: failed sends, losses and stops

ASSUME MqttServiceAssumption ==
    /\ MaxEntries \in Nat
    /\ MaxPacketId \in Nat \ {0} /\ MaxRecords \in Nat
    /\ MaxFaults \in Nat

Entries == 1..MaxEntries
Pointer == 0..MaxEntries

VARIABLES
    ctx,            \* mqtt_client # NULL, is_connected and manual_disconnect
    publish_list,   \* its head
    entry,          \* what each entry holds
    next,           \* the next pointer of each entry
    freed,          \* the entries given back to the heap
    expired,        \* the entries whose timeout the clock has passed
    packet,         \* nextPacketId of the MQTT library
    unsent,         \* identifiers of its records of publications that could
                    \* not be sent
    loop,           \* the thread of tuya_iot_yield
    at,             \* the other threads
    dead,           \* what was dereferenced, if anything bad was
    faults,         \* history: faults so far
    epoch,          \* history: connections so far
    acked,          \* history: publications that the broker acknowledged
    early,          \* history: ... while their sender still had them in hand
    reports,        \* history: per entry the calls of its callback: 0 for a
                    \* failure, e for the answer to entry e
    overlapped,     \* history: entries whose append met another list operation
    forgotten       \* history: entries whose list tuya_mqtt_init zeroed

connection == <<ctx, packet, unsent, epoch>>
lists == <<publish_list, entry, next, freed, expired>>
history == <<acked, early, reports, overlapped, forgotten>>
vars == <<connection, lists, loop, at, dead, faults, history>>

\* draw is the full value that the identifier of a request was cut down from.
NoEntry == [kind |-> "none", msgid |-> 0, draw |-> 0, conn |-> 0]
Idle == [pc |-> "idle", e |-> 0, last |-> 0]
Top == [pc |-> "top", prev |-> 0, victim |-> 0]

\* tuya_mqtt_init has been called.
Init ==
    /\ ctx = [client |-> TRUE, connected |-> FALSE, manual |-> TRUE]
    /\ publish_list = 0
    /\ entry = [e \in Entries |-> NoEntry]
    /\ next = [e \in Entries |-> 0]
    /\ freed = {} /\ expired = {}
    /\ packet = 1 /\ unsent = {}
    /\ loop = Top
    /\ at = [t \in Threads |-> Idle]
    /\ dead = "no"
    /\ faults = 0 /\ epoch = 0
    /\ acked = {} /\ early = {} /\ overlapped = {} /\ forgotten = {}
    /\ reports = [e \in Entries |-> <<>>]

-----------------------------------------------------------------------------
(* Lists *)

\* The entry k steps behind the entry h; 0 from the end on.
Behind(h) ==
    LET b[k \in 0..MaxEntries] ==
            IF k = 0 THEN h ELSE IF b[k - 1] = 0 THEN 0 ELSE next[b[k - 1]]
    IN b

Chain(h) == {Behind(h)[k] : k \in 0..MaxEntries} \ {0}

\* The first entry on the list h that is one of S, or 0.
FirstOf(h, S) ==
    LET hits == {k \in 0..MaxEntries : Behind(h)[k] \in S}
    IN IF hits = {} THEN 0 ELSE Behind(h)[CHOOSE k \in hits : \A j \in hits : k <= j]

\* The entry whose next pointer leads to e on the list h; 0 is the head itself.
Before(h, e) == IF h = e THEN 0 ELSE CHOOSE p \in Chain(h) : next[p] = e

\* Mutants of HeadWithout: the head is left, or the rest of the list is lost.
HeadKept(h, prev, e) == h
HeadCleared(h, prev, e) == IF prev = 0 THEN 0 ELSE h

\* *next_handle = entry->next: what becomes of the head and of the pointers.
HeadWithout(h, prev, e) == IF prev = 0 THEN next[e] ELSE h
NextWithout(prev, e) == IF prev = 0 THEN next ELSE [next EXCEPT ![prev] = next[e]]

Appending(kind) ==
    {at[t].e : t \in {u \in Threads : /\ at[u].pc \in {"first", "walk", "link"}
                                      /\ entry[at[u].e].kind = kind}}
InHand == {at[t].e : t \in {u \in Threads : at[u].pc # "idle"}}
Fresh == {e \in Entries : entry[e].kind = "none"}

\* Mutant of PacketsAfter: the identifier wraps to 0, which is not one.
PacketsAfterToZero(n) == (packet + n) % MaxPacketId

\* MQTT_GetPacketId n times.
PacketsAfter(n) == ((packet - 1 + n) % MaxPacketId) + 1

\* Publications of this connection that the library has a record of and whose
\* acknowledgement it waits for.
Outstanding == {e \in Entries : /\ entry[e].kind = "pub" /\ entry[e].msgid # 0
                                /\ entry[e].conn = epoch /\ e \notin acked}

\* MQTT_Publish can succeed: the transport is open, a record is free and none
\* has the same packet identifier.
Sendable ==
    /\ ctx.connected
    /\ packet \notin unsent /\ \A e \in Outstanding : entry[e].msgid # packet
    /\ Cardinality(Outstanding) + Cardinality(unsent) < MaxRecords

\* mqtt_client_publish for entry e: it returns the identifier, or 0.  When the
\* send fails its record stays until the next connection; one that is made
\* without a connection never meets another send.
Sent(e) == entry' = [entry EXCEPT ![e].msgid = packet, ![e].conn = epoch]
Publish(e) ==
    /\ ctx.client
    /\ packet' = PacketsAfter(1)
    /\ \/ Sendable /\ Sent(e) /\ UNCHANGED <<faults, unsent>>
       \/ ~Sendable /\ UNCHANGED <<entry, faults, unsent>>
       \/ /\ Sendable /\ faults < MaxFaults /\ faults' = faults + 1
          /\ unsent' = unsent \union {packet} /\ UNCHANGED entry
    /\ UNCHANGED <<ctx, epoch>>

-----------------------------------------------------------------------------
(* tuya_mqtt_client_publish_common and the functions over it, in a thread *)

Running == dead = "no"
Crash(why) == dead' = why /\ UNCHANGED <<connection, lists, loop, at, faults, history>>

\* The connection is up when it is looked at; the handle is allocated, unless
\* the publication is a plain one, without a callback.
PublishBegin(t, how) ==
    /\ Running /\ at[t].pc = "idle"
    /\ ctx.connected
    /\ \E e \in Fresh :
          /\ \A f \in Fresh : e <= f
          /\ entry' = [entry EXCEPT ![e].kind = IF how = "plain" THEN "plain" ELSE "pub"]
          /\ at' = [at EXCEPT ![t] = [pc |-> IF how = "async" THEN "head" ELSE "send",
                                      e |-> e, last |-> 0]]
    /\ UNCHANGED <<connection, publish_list, next, freed, expired, loop, dead, faults,
                   history>>

IsPub(t) == entry[at[t].e].kind = "pub"

\* async == false: the caller sends it before it is on the list.
PublishSend(t) ==
    /\ Running /\ at[t].pc = "send" /\ IsPub(t)
    /\ Publish(at[t].e)
    /\ at' = [at EXCEPT ![t].pc = "head"]
    /\ UNCHANGED <<publish_list, next, freed, expired, loop, dead, history>>

\* cb == NULL: sent with QoS 0 and forgotten.
PublishPlain(t) ==
    /\ Running /\ at[t].pc = "send" /\ entry[at[t].e].kind = "plain"
    /\ ctx.client
    /\ packet' = PacketsAfter(1)
    /\ at' = [at EXCEPT ![t] = Idle]
    /\ UNCHANGED <<ctx, unsent, epoch, lists, loop, dead, faults, history>>

PublishSendNull(t) ==
    /\ Running /\ at[t].pc = "send" /\ ~ctx.client
    /\ Crash("client")

\* if (list == NULL) ... else last = list.
AppendRead(t, list) ==
    /\ Running /\ at[t].pc = "head"
    /\ at' = [at EXCEPT ![t].pc = IF list = 0 THEN "first" ELSE "walk", ![t].last = list]
    /\ LET kind == entry[at[t].e].kind
           removing == loop.victim # 0 /\ entry[loop.victim].kind = kind
       IN overlapped' = overlapped \union
             IF Appending(kind) # {} \/ removing
             THEN Appending(kind) \union {at[t].e} ELSE {}
    /\ UNCHANGED <<connection, lists, loop, dead, faults, acked, early, reports, forgotten>>

PublishRead(t) == at[t].pc = "head" /\ IsPub(t) /\ AppendRead(t, publish_list)

PublishFirst(t) ==
    /\ Running /\ at[t].pc = "first" /\ IsPub(t)
    /\ publish_list' = at[t].e
    /\ at' = [at EXCEPT ![t] = Idle]
    /\ UNCHANGED <<connection, entry, next, freed, expired, loop, dead, faults, history>>

\* while (last->next != NULL) last = last->next
AppendWalk(t) ==
    /\ Running /\ at[t].pc = "walk"
    /\ IF at[t].last \in freed
       THEN Crash("freed")
       ELSE /\ at' = IF next[at[t].last] # 0
                     THEN [at EXCEPT ![t].last = next[@]]
                     ELSE [at EXCEPT ![t].pc = "link"]
            /\ UNCHANGED <<connection, lists, loop, dead, faults, history>>

\* last->next = handle
AppendLink(t) ==
    /\ Running /\ at[t].pc = "link"
    /\ IF at[t].last \in freed
       THEN Crash("freed")
       ELSE /\ next' = [next EXCEPT ![at[t].last] = at[t].e]
            /\ at' = [at EXCEPT ![t] = Idle]
            /\ UNCHANGED <<connection, publish_list, entry, freed, expired, loop, dead,
                           faults, history>>

\* The clock passes the timeout of an entry.  It may do so before the entry is
\* on its list, but nobody looks at the timeout until then.
Expire(e) ==
    /\ Running
    /\ entry[e].kind \in {"pub", "req"} /\ e \notin expired \union freed \union InHand
    /\ reports[e] = <<>>
    /\ expired' = expired \union {e}
    /\ UNCHANGED <<connection, publish_list, entry, next, freed, loop, at, dead, faults,
                   history>>

-----------------------------------------------------------------------------
(* tuya_mqtt_loop, and the calls of its thread between two of them.  n is  *)
(* the number of packets that the callbacks of the connection send.        *)

\* Mutant of ConnectOk: the service stays in the manual state.
ConnectOkManual ==
    /\ Running /\ loop.pc = "top"
    /\ ctx.client /\ ~ctx.connected
    /\ ctx' = [ctx EXCEPT !.connected = TRUE]
    /\ epoch' = epoch + 1
    /\ packet' = PacketsAfter(1) /\ unsent' = {}
    /\ loop' = [loop EXCEPT !.pc = "connected"]
    /\ UNCHANGED <<lists, at, dead, faults, history>>

\* mqtt_client_connect succeeds, with a new session and no records, and
\* mqtt_client_connected_cb runs, up to the callback on_connected.
ConnectOk ==
    /\ Running /\ loop.pc = "top"
    /\ ctx.client /\ ~ctx.connected
    /\ ctx' = [ctx EXCEPT !.connected = TRUE, !.manual = FALSE]
    /\ epoch' = epoch + 1
    /\ packet' = PacketsAfter(1) /\ unsent' = {}
    /\ loop' = [loop EXCEPT !.pc = "connected"]
    /\ UNCHANGED <<lists, at, dead, faults, history>>

\* It fails: in tuya_mqtt_start, which has left the manual state ...
StartFails ==
    /\ Running /\ loop.pc = "top"
    /\ ctx.client /\ ~ctx.connected /\ ctx.manual
    /\ ctx' = [ctx EXCEPT !.manual = FALSE]
    /\ UNCHANGED <<packet, unsent, epoch, lists, loop, at, dead, faults, history>>

\* ... or in tuya_mqtt_loop, which goes on to the next turn.
ConnectFails ==
    /\ Running /\ loop.pc = "top"
    /\ ctx.client /\ ~ctx.connected /\ ~ctx.manual
    /\ loop' = [loop EXCEPT !.pc = "matop"]
    /\ UNCHANGED <<connection, lists, at, dead, faults, history>>

LoopBegin ==
    /\ Running /\ loop.pc = "top"
    /\ ctx.connected /\ ~ctx.manual
    /\ loop' = [loop EXCEPT !.pc = "scan", !.prev = 0]
    /\ UNCHANGED <<connection, lists, at, dead, faults, history>>

\* *next_handle
Current == IF loop.prev = 0 THEN publish_list ELSE next[loop.prev]

ScanEnd ==
    /\ Running /\ loop.pc = "scan" /\ Current = 0
    /\ loop' = [loop EXCEPT !.pc = "yield", !.prev = 0]
    /\ UNCHANGED <<connection, lists, at, dead, faults, history>>

\* The callback of e is called with `by' and e leaves the publish list; the
\* memory is given back in the next step.
RemovePub(e, prev, by, pc) ==
    /\ reports' = [reports EXCEPT ![e] = Append(@, by)]
    /\ publish_list' = HeadWithout(publish_list, prev, e)
    /\ next' = NextWithout(prev, e)
    /\ expired' = expired \ {e}
    /\ overlapped' = overlapped \union Appending("pub")
    /\ loop' = [pc |-> pc, prev |-> prev, victim |-> e]

ScanTimeout ==
    /\ Running /\ loop.pc = "scan" /\ Current \in expired
    /\ RemovePub(Current, loop.prev, 0, "freetail")
    /\ UNCHANGED <<connection, entry, freed, at, dead, faults, acked, early, forgotten>>

\* The for loop then steps over the entry that has taken the place of the one
\* it freed; there may be none.
FreeTimeout ==
    /\ Running /\ loop.pc = "freetail"
    /\ freed' = freed \union {loop.victim}
    /\ IF Current = 0
       THEN dead' = "tail" /\ UNCHANGED loop
       ELSE loop' = [pc |-> "scan", prev |-> Current, victim |-> 0] /\ UNCHANGED dead
    /\ UNCHANGED <<connection, publish_list, entry, next, expired, at, faults, history>>

\* An entry that was never sent is sent; every other one is passed.
ScanSend ==
    /\ Running /\ loop.pc = "scan" /\ Current # 0 /\ Current \notin expired
    /\ entry[Current].msgid = 0
    /\ Publish(Current)
    /\ loop' = [loop EXCEPT !.prev = Current]
    /\ UNCHANGED <<publish_list, next, freed, expired, at, dead, history>>

ScanPass ==
    /\ Running /\ loop.pc = "scan" /\ Current # 0 /\ Current \notin expired
    /\ entry[Current].msgid # 0
    /\ loop' = [loop EXCEPT !.prev = Current]
    /\ UNCHANGED <<connection, lists, at, dead, faults, history>>

\* Mutants of Acknowledges: any publication that was sent will do, or only the
\* head of the list is looked at.
AcknowledgesAny(msgid, e) == entry[e].msgid # 0
AcknowledgesHead(msgid, e) == entry[e].msgid = msgid /\ e = publish_list

Acknowledges(msgid, e) == entry[e].msgid = msgid

\* mqtt_client_yield delivers the acknowledgement of publication e, and
\* mqtt_client_puback_cb looks for the first entry with its identifier.
Puback(e) ==
    /\ Running /\ loop.pc = "yield" /\ ctx.connected
    /\ e \in Outstanding
    /\ acked' = acked \union {e}
    /\ early' = IF e \in InHand THEN early \union {e} ELSE early
    /\ LET hit == FirstOf(publish_list, {x \in Entries : Acknowledges(entry[e].msgid, x)})
       IN IF hit = 0
          THEN UNCHANGED <<reports, publish_list, next, expired, overlapped, loop>>
          ELSE RemovePub(hit, Before(publish_list, hit), e, "free")
    /\ UNCHANGED <<connection, entry, freed, at, dead, faults, forgotten>>

\* Mutant of FreeAnswered: without the break the for loop steps on.
FreeAnsweredOn ==
    /\ Running /\ loop.pc = "free"
    /\ freed' = freed \union {loop.victim}
    /\ dead' = IF Current = 0 THEN "tail" ELSE "no"
    /\ loop' = [pc |-> "yield", prev |-> 0, victim |-> 0]
    /\ UNCHANGED <<connection, publish_list, entry, next, expired, at, faults, history>>

\* tal_free after an acknowledgement or an answer, then break.
FreeAnswered ==
    /\ Running /\ loop.pc = "free"
    /\ freed' = freed \union {loop.victim}
    /\ loop' = [pc |-> "yield", prev |-> 0, victim |-> 0]
    /\ UNCHANGED <<connection, publish_list, entry, next, expired, at, dead, faults, history>>

YieldEnd ==
    /\ Running /\ loop.pc = "yield"
    /\ loop' = [loop EXCEPT !.pc = "matop"]
    /\ UNCHANGED <<connection, lists, at, dead, faults, history>>

\* MQTT_ProcessLoop fails: mqtt_client_disconnect and mqtt_client_disconnected_cb.
Lose(n) ==
    /\ Running /\ loop.pc = "yield"
    /\ faults < MaxFaults /\ faults' = faults + 1
    /\ ctx' = [ctx EXCEPT !.connected = FALSE]
    /\ packet' = PacketsAfter(n)
    /\ loop' = [loop EXCEPT !.pc = "matop"]
    /\ UNCHANGED <<unsent, epoch, publish_list, entry, next, expired, at, dead, acked,
                   early, reports, forgotten>>

\* tuya_mqtt_stop, for a reconnection; or followed by tuya_mqtt_destory, for
\* a reset or a stop of the client.  It asks neither whether the service was
\* started nor whether it is connected.  (Without a client it follows a NULL
\* pointer: IotClient.)
Stop(n, destroy) ==
    /\ Running /\ loop.pc = "top"
    /\ ctx.client
    /\ faults < MaxFaults /\ faults' = faults + 1
    /\ ctx' = [client |-> ~destroy, connected |-> FALSE, manual |-> TRUE]
    /\ packet' = PacketsAfter(1 + n)
    /\ UNCHANGED <<unsent, epoch, publish_list, entry, next, expired, loop, at, dead, acked,
                   early, reports, forgotten>>

\* tuya_mqtt_destory alone: a reset without a connection.
Destroy ==
    /\ Running /\ loop.pc = "top"
    /\ ctx.client /\ ~ctx.connected
    /\ faults < MaxFaults /\ faults' = faults + 1
    /\ ctx' = [ctx EXCEPT !.client = FALSE]
    /\ UNCHANGED <<packet, unsent, epoch, lists, loop, at, dead, history>>

\* tuya_mqtt_init after a tuya_mqtt_destory: the context is zeroed, with the
\* publications that are on its list.
ReInit ==
    /\ Running /\ loop.pc = "top"
    /\ ~ctx.client
    /\ ctx' = [client |-> TRUE, connected |-> FALSE, manual |-> TRUE]
    /\ packet' = 1 /\ unsent' = {}
    /\ publish_list' = 0
    /\ forgotten' = forgotten \union Chain(publish_list) \union Appending("pub")
    /\ UNCHANGED <<epoch, entry, next, freed, expired, loop, at, dead, faults, acked, early,
                   reports, overlapped>>

\* The steps that Matop adds nothing to.
PublisherStep(t) ==
    \/ \E how \in {"plain", "sync", "async"} : PublishBegin(t, how)
    \/ PublishSend(t) \/ PublishPlain(t) \/ PublishSendNull(t)
    \/ PublishRead(t) \/ PublishFirst(t)
    \/ AppendWalk(t) \/ AppendLink(t)

LoopStep ==
    \/ StartFails \/ ConnectFails \/ LoopBegin
    \/ ScanEnd \/ ScanTimeout \/ FreeTimeout \/ ScanSend \/ ScanPass
    \/ FreeAnswered \/ YieldEnd
    \/ \E e \in Entries : Puback(e)
=============================================================================
