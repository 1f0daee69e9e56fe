----------------------------- MODULE IotClient -----------------------------
(***************************************************************************)
(* The state machine of the cloud client, tuya_iot_yield in                *)
(* src/tuya_cloud_service/cloud/tuya_iot.c, with the part of the MQTT      *)
(* context (mqtt_service.c) that it drives and the activation data that it *)
(* keeps in flash.                                                         *)
(*                                                                         *)
(* One thread calls tuya_iot_yield in a loop.  A turn copies nextstate to  *)
(* state, works for as long as the network takes, and usually ends by      *)
(* writing nextstate.  Other threads (buttons, CLI, link changes) write    *)
(* nextstate without a lock at any moment of a turn.  The power may fail   *)
(* at any moment too: only what is in flash survives.                      *)
(***************************************************************************)
EXTENDS Integers, FiniteSets

CONSTANTS Callers,      \* the other threads
          MaxAsks,      \* bound: their calls
          MaxReboots    \* bound: power failures

ASSUME IotClientAssumption ==
    /\ MaxAsks \in Nat
    /\ MaxReboots \in Nat

VARIABLES
    state, nextstate,
    pc,             \* where the thread of tuya_iot_yield is in its turn
    is_activated,
    flash,          \* which keys of the activation are stored
    binding,        \* client->binding: "null", "zeroed" or "filled"
    listening,      \* the one-time subscription to EVENT_LINK_ACTIVATE
    token,          \* token_get: its semaphore, of maximum 1, and its result
    mqctx,          \* the MQTT context
    at,             \* per caller: the check it has made and not yet acted on
    dead,           \* what dereferenced NULL, if anything did
    asks, reboots,  \* history: calls and power failures so far
    due             \* history: a reset was asked for since the last turn began

vars == <<state, nextstate, pc, is_activated, flash, binding, listening, token, mqctx,
          at, dead, asks, reboots, due>>

States == {"IDLE", "START", "DATA_LOAD", "ENDPOINT_GET", "ENDPOINT_UPDATE", "TOKEN_PENDING",
           "ACTIVATING", "NETWORK_CHECK", "NETWORK_RECONNECT", "STARTUP_UPDATE",
           "MQTT_CONNECT_START", "MQTT_CONNECTING", "MQTT_RECONNECT", "MQTT_YIELD",
           "RESTART", "RESET", "STOP"}

\* A context that was never initialised, and what tuya_mqtt_init makes of it.
NoMqtt == [inited |-> FALSE, client |-> FALSE, connected |-> FALSE, manual |-> FALSE]

\* Mutant of NewMqtt: a failed mqtt_client_new goes unnoticed.
NewMqttUnchecked == [inited |-> TRUE, client |-> FALSE, connected |-> FALSE, manual |-> TRUE]

NewMqtt == [inited |-> TRUE, client |-> TRUE, connected |-> FALSE, manual |-> TRUE]

\* Mutant of Readable: the schema is not looked for.
ReadableData(keys) == "data" \in keys

\* activated_data_read and schema_instance_create both succeed.
Readable(keys) == {"schema", "data"} \subseteq keys

\* tuya_iot_init and the tuya_iot_start that follows it.
Boot(keys) ==
    [state |-> "IDLE", nextstate |-> "START", pc |-> "top", is_activated |-> Readable(keys),
     binding |-> "null", listening |-> FALSE, token |-> [sem |-> 0, result |-> "OK"],
     mqctx |-> NoMqtt]

Init ==
    /\ flash = {}
    /\ LET b == Boot(flash)
       IN /\ state = b.state /\ nextstate = b.nextstate /\ pc = b.pc
          /\ is_activated = b.is_activated /\ binding = b.binding
          /\ listening = b.listening /\ token = b.token /\ mqctx = b.mqctx
    /\ at = [c \in Callers |-> "idle"]
    /\ dead = "no"
    /\ asks = 0
    /\ reboots = 0
    /\ due = "no"

-----------------------------------------------------------------------------
(* The thread of tuya_iot_yield *)

\* A turn begins.
Begin ==
    /\ pc = "top" /\ dead = "no"
    /\ state' = nextstate
    /\ pc' = "body"
    /\ due' = IF due = "asked" THEN "now" ELSE "no"
    /\ UNCHANGED <<nextstate, is_activated, flash, binding, listening, token, mqctx, at,
                   dead, asks, reboots>>

In(s) == pc = "body" /\ state = s /\ dead = "no"

\* The turn ends with next as the next state, or without writing it.
EndWith(next) == nextstate' = next /\ pc' = "top"
End == pc' = "top" /\ UNCHANGED nextstate

client == <<is_activated, flash, binding, listening, token>>
rest == <<state, at, asks, reboots, due>>

\* Turns that only choose where to go: the answers of the network and of the
\* servers are external.
Go(s, next) == In(s) /\ EndWith(next) /\ UNCHANGED <<client, mqctx, dead, rest>>

Restart == Go("RESTART", "START")

Start == Go("START", IF is_activated THEN "NETWORK_CHECK" ELSE "DATA_LOAD")

NetworkUp ==
    \/ Go("NETWORK_CHECK", IF is_activated THEN "ENDPOINT_GET" ELSE "ENDPOINT_UPDATE")
    \/ Go("NETWORK_RECONNECT", "MQTT_CONNECT_START")

EndpointOk ==
    \/ Go("ENDPOINT_GET", "STARTUP_UPDATE")
    \/ Go("ENDPOINT_UPDATE", IF is_activated THEN "STARTUP_UPDATE" ELSE "ACTIVATING")

EndpointMissing == Go("ENDPOINT_GET", "ENDPOINT_UPDATE")

\* Turns that leave nextstate alone: an idle client, or a network or server
\* that does not answer.
StayPut ==
    /\ In("IDLE") \/ In("NETWORK_CHECK") \/ In("NETWORK_RECONNECT") \/ In("ENDPOINT_UPDATE")
    /\ End
    /\ UNCHANGED <<client, mqctx, dead, rest>>

\* STATE_DATA_LOAD: room for the token, and a one-time subscription to it ...
DataLoad ==
    /\ In("DATA_LOAD")
    /\ IF is_activated
       THEN EndWith("NETWORK_CHECK") /\ UNCHANGED <<binding, listening>>
       ELSE binding' = "zeroed" /\ listening' = TRUE /\ EndWith("TOKEN_PENDING")
    /\ UNCHANGED <<is_activated, flash, token, mqctx, dead, rest>>

\* ... unless there is no memory for it.
DataLoadNoMemory ==
    /\ In("DATA_LOAD")
    /\ ~is_activated
    /\ binding' = "null"
    /\ End
    /\ UNCHANGED <<is_activated, flash, listening, token, mqctx, dead, rest>>

\* STATE_TOKEN_PENDING: the pairing methods are started and the wait begins.
TokenWait ==
    /\ In("TOKEN_PENDING")
    /\ pc' = "wait"
    /\ UNCHANGED <<nextstate, client, mqctx, dead, rest>>

\* The semaphore was posted ...
TokenWoken ==
    /\ pc = "wait" /\ dead = "no"
    /\ token.sem = 1
    /\ token' = [token EXCEPT !.sem = 0]
    /\ pc' = "woken"
    /\ UNCHANGED <<nextstate, is_activated, flash, binding, listening, mqctx, dead, rest>>

\* ... and the result is read; one other than OPRT_OK ends the turn.
TokenRead ==
    /\ pc = "woken" /\ dead = "no"
    /\ \/ token.result = "OK" /\ pc' = "got" /\ UNCHANGED binding
       \/ token.result # "OK" /\ pc' = "top" /\ binding' = "null"
    /\ UNCHANGED <<nextstate, is_activated, flash, listening, token, mqctx, dead, rest>>

\* The token is passed on; its record is dereferenced.
TokenGot ==
    /\ pc = "got" /\ dead = "no"
    /\ IF binding = "null"
       THEN dead' = "binding" /\ UNCHANGED <<pc, nextstate>>
       ELSE EndWith("NETWORK_CHECK") /\ UNCHANGED dead
    /\ UNCHANGED <<client, mqctx, rest>>

\* STATE_ACTIVATING: the activation request, and the schema, stored first.
ActivateRequest ==
    /\ In("ACTIVATING")
    /\ IF binding = "null"
       THEN dead' = "binding" /\ UNCHANGED <<pc, flash>>
       ELSE flash' = flash \cup {"schema"} /\ pc' = "save" /\ UNCHANGED dead
    /\ UNCHANGED <<nextstate, is_activated, binding, listening, token, mqctx, rest>>

\* The request failed, or its answer could not be parsed or stored.
ActivateFail ==
    /\ \/ In("ACTIVATING") /\ binding # "null" /\ (EndWith("RESTART") \/ End)
       \/ pc = "save" /\ dead = "no" /\ End
    /\ UNCHANGED <<client, mqctx, dead, rest>>

ActivateSave ==
    /\ pc = "save" /\ dead = "no"
    /\ flash' = flash \cup {"data"}
    /\ pc' = "saved"
    /\ UNCHANGED <<nextstate, is_activated, binding, listening, token, mqctx, dead, rest>>

\* What was stored is read back; a failure to build the schema asks for a reset.
ActivateDone ==
    /\ pc = "saved" /\ dead = "no"
    /\ binding' = "null"
    /\ \/ is_activated' = TRUE /\ EndWith("STARTUP_UPDATE")
       \/ EndWith("RESET") /\ UNCHANGED is_activated
    /\ UNCHANGED <<flash, listening, token, mqctx, dead, rest>>

-----------------------------------------------------------------------------
(* Turns that use the MQTT context *)

\* STATE_STARTUP_UPDATE: tuya_mqtt_init, whose failure, before or after it got
\* a client, is not looked at.
StartupUpdate ==
    /\ In("STARTUP_UPDATE")
    /\ mqctx' \in {NewMqtt, NoMqtt, [NoMqtt EXCEPT !.client = TRUE]}
    /\ EndWith("MQTT_CONNECT_START")
    /\ UNCHANGED <<client, dead, rest>>

\* mqtt_client_connect, called from STATE_MQTT_CONNECT_START (tuya_mqtt_start)
\* or, when the connection was lost, from STATE_MQTT_YIELD (tuya_mqtt_loop).
Connecting ==
    /\ In("MQTT_CONNECT_START") \/ (In("MQTT_YIELD") /\ ~mqctx.manual /\ ~mqctx.connected)
    /\ mqctx.inited

\* Mutant of Connected: the callback forgets to set the flag.
ConnectedUnset(m) == [m EXCEPT !.manual = FALSE]

\* tuya_mqtt_start clears manual_disconnect, mqtt_client_connected_cb sets is_connected.
Connected(m) == [m EXCEPT !.connected = TRUE, !.manual = FALSE]

ConnectOk ==
    /\ Connecting
    /\ mqctx' = Connected(mqctx)
    /\ IF state = "MQTT_YIELD" THEN End ELSE EndWith("MQTT_CONNECTING")
    /\ UNCHANGED <<client, dead, rest>>

\* The broker does not answer, or refuses: then mqtt_client_unbind_on resets.
ConnectFail ==
    /\ Connecting
    /\ mqctx' = [mqctx EXCEPT !.manual = FALSE]
    /\ End \/ EndWith("RESET")
    /\ UNCHANGED <<client, dead, rest>>

\* tuya_mqtt_start refuses a context that was not initialised.
ConnectRefused ==
    /\ In("MQTT_CONNECT_START")
    /\ ~mqctx.inited
    /\ End
    /\ UNCHANGED <<client, mqctx, dead, rest>>

ConnectWait ==
    /\ In("MQTT_CONNECTING")
    /\ IF mqctx.connected THEN EndWith("MQTT_YIELD") ELSE End
    /\ UNCHANGED <<client, mqctx, dead, rest>>

\* STATE_MQTT_YIELD with a connection: traffic, a reset command, or its loss.
\* tuya_mqtt_loop does nothing for a context that is not to be connected.
Yield ==
    /\ In("MQTT_YIELD")
    /\ IF ~mqctx.inited \/ mqctx.manual
       THEN End /\ UNCHANGED mqctx
       ELSE /\ mqctx.connected
            /\ End \/ EndWith("RESET")
            /\ mqctx' \in {mqctx, [mqctx EXCEPT !.connected = FALSE]}
    /\ UNCHANGED <<client, dead, rest>>

\* tuya_mqtt_stop and tuya_mqtt_destory, which keeps is_inited.
StopMqtt(m) == IF m.inited THEN [m EXCEPT !.connected = FALSE, !.manual = TRUE] ELSE m
DestroyMqtt(m) == IF m.inited THEN [m EXCEPT !.client = FALSE] ELSE m

\* tuya_mqtt_stop dereferences the client of an initialised context.
StopsNull == mqctx.inited /\ ~mqctx.client

Reconnect ==
    /\ In("MQTT_RECONNECT")
    /\ \/ StopsNull /\ dead' = "mqtt" /\ UNCHANGED <<pc, nextstate, mqctx>>
       \/ /\ ~StopsNull
          /\ mqctx' = StopMqtt(mqctx)
          /\ EndWith("MQTT_CONNECT_START") \/ EndWith("NETWORK_RECONNECT")
          /\ UNCHANGED dead
    /\ UNCHANGED <<client, rest>>

Stop ==
    /\ In("STOP")
    /\ \/ StopsNull /\ dead' = "mqtt" /\ UNCHANGED <<pc, nextstate, mqctx>>
       \/ ~StopsNull /\ mqctx' = DestroyMqtt(StopMqtt(mqctx)) /\ EndWith("IDLE") /\ UNCHANGED dead
    /\ UNCHANGED <<client, rest>>

\* Mutant of Released: the connection is not stopped first.
ReleasedOpen(m) == DestroyMqtt(m)

\* run_state_reset stops a connection of an activated client, and destroys.
Released(m) == DestroyMqtt(IF is_activated /\ m.connected THEN StopMqtt(m) ELSE m)

\* STATE_RESET up to tuya_iot_activated_data_remove, which returns at once
\* when the client is not activated.
Reset ==
    /\ In("RESET")
    /\ mqctx' = Released(mqctx)
    /\ IF is_activated THEN pc' = "erase" /\ UNCHANGED nextstate ELSE EndWith("RESTART")
    /\ UNCHANGED <<client, dead, rest>>

\* The rest of it: the schema and the activation data are deleted in turn.
EraseSchema ==
    /\ pc = "erase" /\ dead = "no"
    /\ flash' = flash \ {"schema"}
    /\ pc' = "erased"
    /\ UNCHANGED <<nextstate, is_activated, binding, listening, token, mqctx, dead, rest>>

EraseData ==
    /\ pc = "erased" /\ dead = "no"
    /\ flash' = flash \ {"data"}
    /\ is_activated' = FALSE
    /\ EndWith("RESTART")
    /\ UNCHANGED <<binding, listening, token, mqctx, dead, rest>>

TurnStep ==
    \/ Begin \/ Restart \/ Start \/ NetworkUp \/ EndpointOk \/ EndpointMissing \/ StayPut
    \/ DataLoad \/ DataLoadNoMemory \/ TokenWait \/ TokenWoken \/ TokenRead \/ TokenGot
    \/ ActivateRequest \/ ActivateFail \/ ActivateSave \/ ActivateDone
    \/ StartupUpdate \/ ConnectOk \/ ConnectFail \/ ConnectRefused
    \/ ConnectWait \/ Yield \/ Reconnect \/ Stop \/ Reset \/ EraseSchema \/ EraseData

-----------------------------------------------------------------------------
(* The other threads *)

Ask(c) ==
    /\ dead = "no"
    /\ at[c] = "idle"
    /\ asks < MaxAsks
    /\ asks' = asks + 1

quiet == <<state, pc, is_activated, flash, binding, listening, mqctx, dead, reboots>>

\* Mutant of PostToken: the semaphore has no maximum.
PostTokenCounting(result) == [sem |-> token.sem + 1, result |-> result]

\* A result for the thread that waits for a token, and a post of its semaphore.
PostToken(result) == [sem |-> 1, result |-> result]

\* tuya_iot_reset: the application is told and nextstate written; then the
\* state decides whether a thread waiting for a token must be woken.
AskReset(c) ==
    /\ Ask(c)
    /\ nextstate' = "RESET"
    /\ due' = "asked"
    /\ at' = [at EXCEPT ![c] = "reset"]
    /\ UNCHANGED <<quiet, token>>

AskResetWake(c) ==
    /\ at[c] = "reset" /\ dead = "no"
    /\ token' = IF state = "TOKEN_PENDING" THEN PostToken("ERR") ELSE token
    /\ at' = [at EXCEPT ![c] = "idle"]
    /\ UNCHANGED <<quiet, nextstate, asks, due>>

\* tuya_iot_reconnect, on a change of link, and tuya_iot_start read the state ...
AskIn(c, s, then) ==
    /\ Ask(c)
    /\ state = s
    /\ at' = [at EXCEPT ![c] = then]
    /\ UNCHANGED <<quiet, nextstate, token, due>>

\* ... and then write nextstate.
AskWrite(c) ==
    /\ at[c] \in {"MQTT_RECONNECT", "START"} /\ dead = "no"
    /\ nextstate' = at[c]
    /\ at' = [at EXCEPT ![c] = "idle"]
    /\ UNCHANGED <<quiet, token, asks, due>>

AskStop(c) ==
    /\ Ask(c)
    /\ nextstate' = "STOP"
    /\ UNCHANGED <<quiet, token, at, due>>

\* EVENT_LINK_ACTIVATE is published: tuya_iot_token_activate_evt.
TokenArrives ==
    /\ listening /\ dead = "no"
    /\ listening' = FALSE
    /\ IF binding = "null"
       THEN dead' = "binding" /\ UNCHANGED <<binding, token>>
       ELSE /\ binding' = "filled"
            /\ token' = PostToken("OK")
            /\ UNCHANGED dead
    /\ UNCHANGED <<state, nextstate, pc, is_activated, flash, mqctx, at, asks, reboots, due>>

\* The power fails, or the watchdog restarts a dead device; only flash survives.
Reboot ==
    /\ reboots < MaxReboots
    /\ reboots' = reboots + 1
    /\ LET b == Boot(flash)
       IN /\ state' = b.state /\ nextstate' = b.nextstate /\ pc' = b.pc
          /\ is_activated' = b.is_activated /\ binding' = b.binding
          /\ listening' = b.listening /\ token' = b.token /\ mqctx' = b.mqctx
    /\ at' = [c \in Callers |-> "idle"]
    /\ dead' = "no"
    /\ due' = "no"
    /\ UNCHANGED <<flash, asks>>

Next ==
    \/ TurnStep
    \/ \E c \in Callers :
         \/ AskReset(c) \/ AskResetWake(c) \/ AskStop(c) \/ AskWrite(c)
         \/ AskIn(c, "MQTT_YIELD", "MQTT_RECONNECT") \/ AskIn(c, "IDLE", "START")
    \/ TokenArrives
    \/ Reboot

Spec == Init /\ [][Next]_vars

\* The application keeps calling tuya_iot_yield, callers finish their calls, and
\* memory, network, servers and broker are there again and again if asked again and
\* again.
Fairness ==
    /\ WF_vars(TurnStep)
    /\ \A c \in Callers : WF_vars(AskResetWake(c)) /\ WF_vars(AskWrite(c))
    /\ SF_vars(DataLoad) /\ SF_vars(NetworkUp) /\ SF_vars(EndpointOk)
    /\ SF_vars(ActivateRequest) /\ SF_vars(ActivateSave) /\ SF_vars(ConnectOk)

FairSpec == Spec /\ Fairness

-----------------------------------------------------------------------------
(* Properties *)

\* The types; the token semaphore of tuya_iot_init never holds more than its maximum.
TypeOK ==
    /\ state \in States /\ nextstate \in States
    /\ pc \in {"top", "body", "wait", "woken", "got", "save", "saved", "erase", "erased"}
    /\ is_activated \in BOOLEAN
    /\ flash \subseteq {"schema", "data"}
    /\ binding \in {"null", "zeroed", "filled"}
    /\ listening \in BOOLEAN
    /\ token \in [sem : 0..1, result : {"OK", "ERR"}]
    /\ mqctx \in [inited : BOOLEAN, client : BOOLEAN, connected : BOOLEAN, manual : BOOLEAN]
    /\ at \in [Callers -> {"idle", "reset", "MQTT_RECONNECT", "START"}]
    /\ dead \in {"no", "binding", "mqtt"}
    /\ asks \in 0..MaxAsks
    /\ reboots \in 0..MaxReboots
    /\ due \in {"no", "asked", "now"}

\* A client that calls itself activated has both keys in flash, whenever the
\* power failed while they were being stored or deleted one after the other.
ActivatedIsStored == is_activated /\ pc \notin {"erase", "erased"} => flash = {"schema", "data"}

\* A device that was reset or unbound is not left connected to the broker, and
\* only an activated one ever is.
OnlineOnlyActivated == mqctx.connected => is_activated /\ mqctx.client

\* mqtt_client_connect is never called on a client that a reset or a stop freed,
\* though tuya_mqtt_start and tuya_mqtt_loop test only is_inited: every way from a
\* destroyed context to a connection passes tuya_mqtt_init or a fatal tuya_mqtt_stop.
ConnectHasClient == Connecting => mqctx.client

\* The states in which the client may stay: online, stopped, or waiting to be
\* paired; and where it stays after a failed tuya_mqtt_init, which no turn retries.
Settled ==
    \/ state \in {"MQTT_YIELD", "IDLE", "TOKEN_PENDING"}
    \/ state = "MQTT_CONNECT_START" /\ ~mqctx.inited

\* Whatever is asked of it and whatever fails on the way, the client always gets
\* to such a state again, or has crashed.
KeepsSettling == []<>(Settled \/ dead # "no")

\* tuya_iot_reset "5. Sets the next state to STATE_RESET": the turn that begins
\* next is the reset.
ResetIsNext == due = "now" => state = "RESET"

\* tuya_mqtt_stop returns "0 on success, or a negative error code on failure": it
\* never uses the client that tuya_mqtt_destory freed.
ClientNeverNull == dead # "mqtt"
=============================================================================
