-------------------------- MODULE IotClientProofs --------------------------
(***************************************************************************)
(* Proofs about the cloud client, for any number of threads that call it,  *)
(* of calls they make and of power failures.                               *)
(***************************************************************************)
EXTENDS IotClient, TLAPS

\* The states from which mqtt_client_connect is called or that lead to it without
\* passing tuya_mqtt_init.
Linking == {"MQTT_CONNECT_START", "MQTT_CONNECTING", "NETWORK_RECONNECT", "MQTT_YIELD"}

\* The states that only an activated client is sent to and that lead to tuya_mqtt_init.
Starting == {"ENDPOINT_GET", "STARTUP_UPDATE"}

\* What nextstate may hold while a reset or a stop is under way: what the turn
\* began with, or what another thread wrote since.
Asked == {"RESET", "STOP", "MQTT_RECONNECT", "START"}

\* Flash, as activate_json_string_parse fills it and the removal empties it.
Stored ==
    /\ pc = "save" => "schema" \in flash
    /\ pc = "saved" => flash = {"schema", "data"}
    /\ ActivatedIsStored

\* An initialised context has a client only while the client is activated.
Owned ==
    /\ mqctx.inited /\ mqctx.client => is_activated
    /\ mqctx.connected => mqctx.inited /\ mqctx.client
    /\ pc \in {"erase", "erased"} => ~(mqctx.inited /\ mqctx.client)

\* Where the client may be and go while its context has no client.
Routed ==
    /\ pc \in {"erase", "erased"} => state = "RESET"
    /\ state \in {"RESET", "STOP"} /\ pc # "top" => nextstate \in Asked
    /\ state \in Starting \/ nextstate \in Starting => is_activated
    /\ mqctx.inited /\ ~mqctx.client => state \notin Linking /\ nextstate \notin Linking

IInv == TypeOK /\ Stored /\ Owned /\ Routed

-----------------------------------------------------------------------------
(* The MQTT context *)

Mqtt == [inited : BOOLEAN, client : BOOLEAN, connected : BOOLEAN, manual : BOOLEAN]

\* tuya_mqtt_stop keeps the client and leaves an initialised context unconnected.
LEMMA StopFacts ==
    ASSUME NEW m \in Mqtt
    PROVE  /\ StopMqtt(m) \in Mqtt
           /\ StopMqtt(m).inited = m.inited
           /\ StopMqtt(m).client = m.client
           /\ StopMqtt(m).connected => m.connected /\ ~m.inited
  BY DEF Mqtt, StopMqtt

\* tuya_mqtt_destory frees the client of an initialised context and no more.
LEMMA DestroyFacts ==
    ASSUME NEW m \in Mqtt
    PROVE  /\ DestroyMqtt(m) \in Mqtt
           /\ DestroyMqtt(m).inited = m.inited
           /\ DestroyMqtt(m).connected = m.connected
           /\ ~(DestroyMqtt(m).inited /\ DestroyMqtt(m).client)
  BY DEF Mqtt, DestroyMqtt

\* Gaining and losing the connection changes neither is_inited nor the client.
LEMMA ConnectionFacts ==
    ASSUME NEW m \in Mqtt
    PROVE  /\ Connected(m) \in Mqtt
           /\ Connected(m).inited = m.inited
           /\ Connected(m).client = m.client
           /\ [m EXCEPT !.manual = FALSE] \in Mqtt
           /\ [m EXCEPT !.manual = FALSE].inited = m.inited
           /\ [m EXCEPT !.manual = FALSE].client = m.client
           /\ [m EXCEPT !.manual = FALSE].connected = m.connected
           /\ [m EXCEPT !.connected = FALSE] \in Mqtt
           /\ [m EXCEPT !.connected = FALSE].inited = m.inited
           /\ [m EXCEPT !.connected = FALSE].client = m.client
           /\ ~[m EXCEPT !.connected = FALSE].connected
  BY DEF Mqtt, Connected

\* What tuya_mqtt_init leaves: a usable context, or one that is not initialised.
LEMMA NewFacts ==
    /\ NewMqtt \in Mqtt /\ NewMqtt.client /\ ~NewMqtt.connected
    /\ NoMqtt \in Mqtt /\ ~NoMqtt.inited /\ ~NoMqtt.connected
    /\ [NoMqtt EXCEPT !.client = TRUE] \in Mqtt
    /\ ~[NoMqtt EXCEPT !.client = TRUE].inited
    /\ ~[NoMqtt EXCEPT !.client = TRUE].connected
  BY DEF Mqtt, NewMqtt, NoMqtt

-----------------------------------------------------------------------------
(* Types *)

\* tuya_iot_init starts with everything in its place.
LEMMA TypedInit == Init => TypeOK
  BY IotClientAssumption DEF Init, Boot, NoMqtt, Readable, TypeOK, States

\* Every turn of tuya_iot_yield keeps the types.
LEMMA TypedTurn == TypeOK /\ TurnStep => TypeOK'
<1> SUFFICES ASSUME TypeOK, TurnStep PROVE TypeOK'
  OBVIOUS
<1> USE DEF TypeOK, States, In, End, EndWith, client, rest
<1>1. CASE Begin
  BY <1>1 DEF Begin
<1>2. CASE Restart
  BY <1>2 DEF Restart, Go
<1>3. CASE Start
  BY <1>3 DEF Start, Go
<1>4. CASE NetworkUp
  BY <1>4 DEF NetworkUp, Go
<1>5. CASE EndpointOk
  BY <1>5 DEF EndpointOk, Go
<1>6. CASE EndpointMissing
  BY <1>6 DEF EndpointMissing, Go
<1>7. CASE StayPut
  BY <1>7 DEF StayPut
<1>8. CASE DataLoad
  <2>1. binding' \in {"null", "zeroed", "filled"} /\ listening' \in BOOLEAN
    BY <1>8 DEF DataLoad
  <2>2. nextstate' \in States /\ pc' = "top"
    BY <1>8 DEF DataLoad
  <2>3. QED
    BY <1>8, <2>1, <2>2 DEF DataLoad
<1>9. CASE DataLoadNoMemory
  BY <1>9 DEF DataLoadNoMemory
<1>10. CASE TokenWait
  BY <1>10 DEF TokenWait
<1>11. CASE TokenWoken
  BY <1>11 DEF TokenWoken
<1>12. CASE TokenRead
  BY <1>12 DEF TokenRead
<1>13. CASE TokenGot
  BY <1>13 DEF TokenGot
<1>14. CASE ActivateRequest
  <2>1. flash' \subseteq {"schema", "data"}
    <3>1. CASE binding = "null"
      BY <1>14, <3>1 DEF ActivateRequest
    <3>2. CASE binding # "null"
      <4>1. flash' = flash \cup {"schema"}
        BY <1>14, <3>2 DEF ActivateRequest
      <4>2. QED
        BY <4>1
    <3>3. QED
      BY <3>1, <3>2
  <2>2. QED
    BY <1>14, <2>1 DEF ActivateRequest
<1>15. CASE ActivateFail
  BY <1>15 DEF ActivateFail
<1>16. CASE ActivateSave
  BY <1>16 DEF ActivateSave
<1>17. CASE ActivateDone
  <2>1. is_activated' \in BOOLEAN
    BY <1>17 DEF ActivateDone
  <2>2. nextstate' \in States /\ pc' = "top"
    BY <1>17 DEF ActivateDone
  <2>3. QED
    BY <1>17, <2>1, <2>2 DEF ActivateDone
<1>18. CASE StartupUpdate
  <2>1. mqctx' \in Mqtt
    BY <1>18, NewFacts DEF StartupUpdate
  <2>2. QED
    BY <1>18, <2>1 DEF StartupUpdate, Mqtt
<1>19. CASE ConnectOk
  <2>1. mqctx' \in Mqtt
    BY <1>19, ConnectionFacts DEF ConnectOk, Mqtt
  <2>2. QED
    BY <1>19, <2>1 DEF ConnectOk, Mqtt
<1>20. CASE ConnectFail
  <2>1. mqctx' \in Mqtt
    BY <1>20, ConnectionFacts DEF ConnectFail, Mqtt
  <2>2. QED
    BY <1>20, <2>1 DEF ConnectFail, Mqtt
<1>21. CASE ConnectRefused
  BY <1>21 DEF ConnectRefused
<1>22. CASE ConnectWait
  BY <1>22 DEF ConnectWait
<1>23. CASE Yield
  <2>1. mqctx' \in Mqtt
    BY <1>23, ConnectionFacts DEF Yield, Mqtt
  <2>2. QED
    BY <1>23, <2>1 DEF Yield, Mqtt
<1>24. CASE Reconnect
  <2>1. mqctx' \in Mqtt
    BY <1>24, StopFacts DEF Reconnect, Mqtt
  <2>2. QED
    BY <1>24, <2>1 DEF Reconnect, Mqtt
<1>25. CASE Stop
  <2>1. mqctx' \in Mqtt
    BY <1>25, StopFacts, DestroyFacts DEF Stop, Mqtt
  <2>2. QED
    BY <1>25, <2>1 DEF Stop, Mqtt
<1>26. CASE Reset
  <2>1. mqctx' \in Mqtt
    BY <1>26, StopFacts, DestroyFacts DEF Reset, Mqtt, Released
  <2>2. QED
    BY <1>26, <2>1 DEF Reset, Mqtt
<1>27. CASE EraseSchema
  BY <1>27 DEF EraseSchema
<1>28. CASE EraseData
  <2>1. is_activated' \in BOOLEAN
    BY <1>28 DEF EraseData
  <2>2. flash' \subseteq {"schema", "data"}
    BY <1>28 DEF EraseData
  <2>3. QED
    BY <1>28, <2>1, <2>2 DEF EraseData
<1>29. QED
  BY <1>1, <1>2, <1>3, <1>4, <1>5, <1>6, <1>7, <1>8, <1>9, <1>10, <1>11, <1>12, <1>13, <1>14, <1>15, <1>16, <1>17, <1>18, <1>19, <1>20, <1>21, <1>22, <1>23, <1>24, <1>25, <1>26, <1>27, <1>28 DEF TurnStep

\* The other threads and power failures keep the types.
LEMMA TypedNext == TypeOK /\ [Next]_vars => TypeOK'
<1> SUFFICES ASSUME TypeOK, [Next]_vars PROVE TypeOK'
  OBVIOUS
<1> USE IotClientAssumption DEF TypeOK, States, Ask, quiet
<1>1. CASE TurnStep
  BY <1>1, TypedTurn
<1>2. ASSUME NEW c \in Callers, AskReset(c) PROVE TypeOK'
  BY <1>2 DEF AskReset
<1>3. ASSUME NEW c \in Callers, AskResetWake(c) PROVE TypeOK'
  BY <1>3 DEF AskResetWake, PostToken
<1>4. ASSUME NEW c \in Callers, AskStop(c) PROVE TypeOK'
  BY <1>4 DEF AskStop
<1>5. ASSUME NEW c \in Callers, AskWrite(c) PROVE TypeOK'
  BY <1>5 DEF AskWrite
<1>6. ASSUME NEW c \in Callers,
             AskIn(c, "MQTT_YIELD", "MQTT_RECONNECT") \/ AskIn(c, "IDLE", "START")
      PROVE  TypeOK'
  <2>1. CASE AskIn(c, "MQTT_YIELD", "MQTT_RECONNECT")
    BY <2>1 DEF AskIn
  <2>2. CASE AskIn(c, "IDLE", "START")
    BY <2>2 DEF AskIn
  <2>3. QED
    BY <1>6, <2>1, <2>2
<1>7. CASE TokenArrives
  <2>1. token' \in [sem : 0..1, result : {"OK", "ERR"}]
    BY <1>7 DEF TokenArrives, PostToken
  <2>2. listening' \in BOOLEAN
    BY <1>7 DEF TokenArrives
  <2>3. QED
    BY <1>7, <2>1, <2>2 DEF TokenArrives
<1>8. CASE Reboot
  BY <1>8 DEF Reboot, Boot, NoMqtt, Readable
<1>9. CASE UNCHANGED vars
  BY <1>9 DEF vars
<1>10. QED
  BY <1>1, <1>2, <1>3, <1>4, <1>5, <1>6, <1>7, <1>8, <1>9 DEF Next

-----------------------------------------------------------------------------
(* The inductive invariant *)

\* The two keys are all there is in flash.
LEMMA BothKeys ==
    ASSUME NEW keys, keys \subseteq {"schema", "data"}
    PROVE  /\ {"schema", "data"} \subseteq keys => keys = {"schema", "data"}
           /\ "schema" \in keys => keys \cup {"data"} = {"schema", "data"}
  OBVIOUS

\* A first boot finds nothing in flash and no context.
LEMMA SafeInit == Init => Stored /\ Owned /\ Routed
<1> SUFFICES ASSUME Init PROVE Stored /\ Owned /\ Routed
  OBVIOUS
<1>1. /\ state = "IDLE" /\ nextstate = "START" /\ pc = "top" /\ mqctx = NoMqtt
      /\ ~is_activated
  BY DEF Init, Boot, Readable
<1>2. QED
  BY <1>1, NewFacts DEF Stored, ActivatedIsStored, Owned, Routed, Linking, Starting

\* Every step of a turn keeps the invariant.
LEMMA SafeTurn == IInv /\ TurnStep => Stored' /\ Owned' /\ Routed'
<1> SUFFICES ASSUME IInv, TurnStep PROVE Stored' /\ Owned' /\ Routed'
  OBVIOUS
<1> USE DEF IInv, TypeOK, Stored, ActivatedIsStored, Owned, Routed, Linking, Starting, Asked,
            In, End, EndWith, client, rest
<1>1. CASE Begin
  BY <1>1 DEF Begin
<1>2. CASE Restart
  BY <1>2 DEF Restart, Go
<1>3. CASE Start
  BY <1>3 DEF Start, Go
<1>4. CASE NetworkUp
  BY <1>4 DEF NetworkUp, Go
<1>5. CASE EndpointOk
  BY <1>5 DEF EndpointOk, Go
<1>6. CASE EndpointMissing
  BY <1>6 DEF EndpointMissing, Go
<1>7. CASE StayPut
  BY <1>7 DEF StayPut
<1>8. CASE DataLoad
  BY <1>8 DEF DataLoad
<1>9. CASE DataLoadNoMemory
  BY <1>9 DEF DataLoadNoMemory
<1>10. CASE TokenWait
  BY <1>10 DEF TokenWait
<1>11. CASE TokenWoken
  BY <1>11 DEF TokenWoken
<1>12. CASE TokenRead
  BY <1>12 DEF TokenRead
<1>13. CASE TokenGot
  BY <1>13 DEF TokenGot
<1>14. CASE ActivateRequest
  BY <1>14 DEF ActivateRequest
<1>15. CASE ActivateFail
  BY <1>15 DEF ActivateFail
<1>16. CASE ActivateSave
  <2>1. flash' = {"schema", "data"}
    BY <1>16, BothKeys DEF ActivateSave
  <2>2. QED
    BY <1>16, <2>1 DEF ActivateSave
<1>17. CASE ActivateDone
  BY <1>17 DEF ActivateDone
<1>18. CASE StartupUpdate
  <2>1. ~mqctx'.connected /\ (mqctx'.inited => mqctx'.client)
    <3>1. CASE mqctx' = NewMqtt
      BY <3>1, NewFacts
    <3>2. CASE mqctx' = NoMqtt
      BY <3>2, NewFacts
    <3>3. CASE mqctx' = [NoMqtt EXCEPT !.client = TRUE]
      BY <3>3, NewFacts
    <3>4. QED
      BY <1>18, <3>1, <3>2, <3>3 DEF StartupUpdate
  <2>2. is_activated
    BY <1>18 DEF StartupUpdate
  <2>3. QED
    BY <1>18, <2>1, <2>2 DEF StartupUpdate
<1>19. CASE ConnectOk
  BY <1>19 DEF ConnectOk, Connecting, Connected
<1>20. CASE ConnectFail
  BY <1>20 DEF ConnectFail, Connecting
<1>21. CASE ConnectRefused
  BY <1>21 DEF ConnectRefused
<1>22. CASE ConnectWait
  BY <1>22 DEF ConnectWait
<1>23. CASE Yield
  BY <1>23 DEF Yield
<1>24. CASE Reconnect
  <2>1. mqctx \in Mqtt
    BY DEF Mqtt
  <2>2. CASE StopsNull
    BY <1>24, <2>2 DEF Reconnect
  <2>3. CASE ~StopsNull
    BY <1>24, <2>1, <2>3, StopFacts DEF Reconnect, StopsNull
  <2>4. QED
    BY <2>2, <2>3
<1>25. CASE Stop
  <2>1. mqctx \in Mqtt
    BY DEF Mqtt
  <2>2. CASE StopsNull
    BY <1>25, <2>2 DEF Stop
  <2>3. CASE ~StopsNull
    BY <1>25, <2>1, <2>3, StopFacts, DestroyFacts DEF Stop, StopsNull
  <2>4. QED
    BY <2>2, <2>3
<1>26. CASE Reset
  BY <1>26 DEF Reset, Released, StopMqtt, DestroyMqtt
<1>27. CASE EraseSchema
  BY <1>27 DEF EraseSchema
<1>28. CASE EraseData
  BY <1>28 DEF EraseData
<1>29. QED
  BY <1>1, <1>2, <1>3, <1>4, <1>5, <1>6, <1>7, <1>8, <1>9, <1>10, <1>11, <1>12, <1>13, <1>14, <1>15, <1>16, <1>17, <1>18, <1>19, <1>20, <1>21, <1>22, <1>23, <1>24, <1>25, <1>26, <1>27, <1>28 DEF TurnStep

\* So do the other threads, which write only nextstate and the token, and a boot, which
\* trusts flash.
LEMMA SafeNext == IInv /\ [Next]_vars => IInv'
<1> SUFFICES ASSUME IInv, [Next]_vars PROVE Stored' /\ Owned' /\ Routed'
  BY TypedNext DEF IInv
<1> USE DEF IInv, TypeOK, Stored, ActivatedIsStored, Owned, Routed, Linking, Starting, Asked,
            Ask, quiet
<1>1. CASE TurnStep
  BY <1>1, SafeTurn
<1>2. ASSUME NEW c \in Callers, AskReset(c) PROVE Stored' /\ Owned' /\ Routed'
  BY <1>2 DEF AskReset
<1>3. ASSUME NEW c \in Callers, AskResetWake(c) PROVE Stored' /\ Owned' /\ Routed'
  BY <1>3 DEF AskResetWake, PostToken
<1>4. ASSUME NEW c \in Callers, AskStop(c) PROVE Stored' /\ Owned' /\ Routed'
  BY <1>4 DEF AskStop
<1>5. ASSUME NEW c \in Callers, AskWrite(c) PROVE Stored' /\ Owned' /\ Routed'
  BY <1>5 DEF AskWrite
<1>6. ASSUME NEW c \in Callers,
             AskIn(c, "MQTT_YIELD", "MQTT_RECONNECT") \/ AskIn(c, "IDLE", "START")
      PROVE  Stored' /\ Owned' /\ Routed'
  BY <1>6 DEF AskIn
<1>7. CASE TokenArrives
  BY <1>7 DEF TokenArrives
<1>8. CASE Reboot
  <2>1. /\ state' = "IDLE" /\ nextstate' = "START" /\ pc' = "top" /\ mqctx' = NoMqtt
        /\ is_activated' = Readable(flash) /\ flash' = flash
    BY <1>8 DEF Reboot, Boot
  <2>2. is_activated' => flash' = {"schema", "data"}
    BY <2>1, BothKeys DEF Readable
  <2>3. QED
    BY <2>1, <2>2, NewFacts
<1>9. CASE UNCHANGED vars
  BY <1>9 DEF vars
<1>10. QED
  BY <1>1, <1>2, <1>3, <1>4, <1>5, <1>6, <1>7, <1>8, <1>9 DEF Next

-----------------------------------------------------------------------------
(* Theorems *)

\* In every state of every behaviour the variables have their types; the semaphore
\* that tuya_iot_yield waits on for a token never holds more than one post.
THEOREM TypeCorrect == Spec => []TypeOK
<1>1. QED
  BY TypedInit, TypedNext, PTL DEF Spec

\* The inductive invariant holds throughout.
LEMMA Safe == Spec => []IInv
<1>1. Init => IInv
  BY TypedInit, SafeInit DEF IInv
<1>2. QED
  BY <1>1, SafeNext, PTL DEF Spec

\* A client that calls itself activated has the schema and the activation data in
\* flash, whenever the power fails in activate_json_string_parse or in the removal.
THEOREM ActivationStored == Spec => []ActivatedIsStored
<1>1. IInv => ActivatedIsStored
  BY DEF IInv, Stored
<1>2. QED
  BY Safe, <1>1, PTL

\* The client is connected to the broker only while it is activated and has a client:
\* neither run_state_reset nor an unbinding leaves a connection behind.
THEOREM OnlineActivated == Spec => []OnlineOnlyActivated
<1>1. IInv => OnlineOnlyActivated
  BY DEF IInv, Owned, OnlineOnlyActivated, TypeOK
<1>2. QED
  BY Safe, <1>1, PTL

\* tuya_mqtt_start and tuya_mqtt_loop never connect through a client that
\* tuya_mqtt_destory freed, although they test is_inited and not the client.
THEOREM ConnectsWithClient == Spec => []ConnectHasClient
<1>1. IInv => ConnectHasClient
  BY DEF IInv, Routed, Linking, ConnectHasClient, Connecting, In
<1>2. QED
  BY Safe, <1>1, PTL
=============================================================================
