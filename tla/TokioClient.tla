----------------------------- MODULE TokioClient -----------------------------
(***************************************************************************)
(* The MQTT v5.0 client over a byte stream                                 *)
(* (examples/tokio-mqtt/src/client.rs): one task that drives a Session.    *)
(*                                                                         *)
(* A call of the client runs from one await to the next.  `call.at` names  *)
(* the await it is suspended at, `out` the packet it is writing, and       *)
(* `reading` tells a read that is under way from the head of the receive   *)
(* loop, where Keep Alive and the deadline are judged.  While the task has *)
(* something to do the clock stands still: the code between two awaits     *)
(* takes no time, and neither does a write.                                *)
(*                                                                         *)
(* The server and the stream are external.  The server follows the         *)
(* protocol but may answer late or never, publish at any time, repeat a    *)
(* PUBLISH that was not acknowledged, leave, or die.                       *)
(***************************************************************************)
EXTENDS Session, Integers

CONSTANTS
    KeepAliveArg,  \* keep_alive_secs of connect
    CallTimeout,   \* the 10 s of recv_while_connected, and of recv_publish
    MinTick,       \* the 200 ms keep_alive_tick is at least
    ServerIds,     \* packet identifiers the server publishes with
    WildcardFilters, SharedFilters,  \* filters with a wildcard, and $share/ ones
    PublishSize,   \* size of an encoded PUBLISH
    MaxPublishes,  \* bound: messages with QoS 1 or 2 the server publishes
    MaxUnread,     \* bound: packets nobody has read when one with QoS 0 is added
    Settings       \* what application and server may do, and the other bounds:
                   \*   connacks: ConnackParams the server's CONNACK may carry
                   \*   calls: the calls the application makes
                   \*   serverQos: QoS levels the server publishes with
                   \*   maxCalls: calls, with connect
                   \*   maxRepeats: PUBLISHes the server repeats
                   \*   maxStream: no message with QoS 0 comes after this time
                   \*   maxStart: no call is made after this time
                   \*   maxNow: the clock stops here

ASSUME TokioAssumption ==
    /\ KeepAliveArg \in 0..U16Max
    /\ CallTimeout \in Nat /\ MinTick \in Nat
    /\ MaxPublishes \in Nat /\ MaxUnread \in Nat
    /\ ServerIds \subseteq PacketIds
    /\ \A s \in Settings : s.connacks \subseteq ConnackParams /\ s.maxCalls \in Nat \ {0}

VARIABLES
    setting,    \* one of Settings, for all of the behaviour
    call,       \* the await the current call is suspended at
    reading,    \* a read with a timeout is under way
    wake,       \* when that timeout fires
    out,        \* the packet being written
    result,     \* how the last call ended; "None" while one is under way
    unsettled,  \* identifiers of calls that `?` left without an abort
    dropped,    \* packets that a call read and let fall
    forgotten,  \* messages of the server whose incoming flow abort_publish ended
    calls,      \* calls made so far
    now,        \* clock
    toServer, toClient,  \* the two directions of the stream
    open,       \* the stream is up
    alive,      \* the server answers
    quietSince, \* when the server died or the current call began
    serverFlow, \* per identifier: the message the server has in flight
    published,  \* messages with QoS 1 or 2 the server has published
    repeats,    \* PUBLISHes the server has repeated
    delivered,  \* per such message: how often the application was given it
    completed   \* QoS 2 messages for which the server has seen a PUBCOMP

lossVars == <<unsettled, dropped, forgotten>>
taskVars == <<call, reading, wake, out, result, lossVars, calls>>
serverVars == <<alive, quietSince, serverFlow, published, repeats, completed>>
wireVars == <<toServer, toClient, open>>
tokioVars == <<sessionVars, taskVars, serverVars, wireVars, now, delivered>>

Messages == 1..MaxPublishes

-----------------------------------------------------------------------------
(***************************************************************************)
(* Packets                                                                 *)
(***************************************************************************)

\* ok: a reason code below 0x80; msg: the message of a PUBLISH with QoS 1 or 2.
\* Messages with QoS 0 are not told apart.
Packet(type, id) ==
    [type |-> type, id |-> id, qos |-> "AtMostOnce", msg |-> 0, ok |-> TRUE]
PublishPacket(qos, id, msg) ==
    [type |-> "Publish", id |-> id, qos |-> qos, msg |-> msg, ok |-> TRUE]

\* What is being written: the packet, the await that follows, the message the
\* application is given then, and whether the receive quota is freed then
Writing(packet, then, msg, settles) ==
    [packet |-> packet, then |-> then, msg |-> msg, settles |-> settles]
NoWrite == Writing(Packet("None", 0), "Idle", 0, FALSE)

NoCall == [at |-> "Idle", id |-> 0, qos |-> "AtMostOnce", msg |-> 0, deadline |-> 0]

AckTypes == {"Connack", "Puback", "Pubrec", "Pubcomp", "Suback", "Unsuback"}
PublishAwaits == {"AwaitPuback", "AwaitPubrec", "AwaitPubcomp"}
\* The awaits inside recv_while_connected
Receiving ==
    PublishAwaits \cup {"AwaitSuback", "AwaitUnsuback", "RecvPublish", "AwaitPubrel"}
Looping == Receiving \cup {"Loop"}

TokioTypeOK ==
    /\ SessionTypeOK
    /\ call \in [at : Looping \cup {"Idle", "Configured", "AwaitConnack",
                    "RegisterPublish", "ValidatePublish", "RegisterSubscribe",
                    "RegisterUnsubscribe"},
                 id : 0..U16Max, qos : QoSLevels, msg : 0..MaxPublishes,
                  deadline : Nat]
    /\ reading \in BOOLEAN
    /\ wake \in Nat /\ now \in Nat
    /\ unsettled \subseteq PacketIds
    /\ \A p \in dropped : p.type \in AckTypes \cup
           {"Publish", "Pubrel", "Pingresp", "Disconnect"}
    /\ forgotten \subseteq 0..MaxPublishes
    /\ calls \in 0..setting.maxCalls
    /\ open \in BOOLEAN /\ alive \in BOOLEAN
    /\ serverFlow \in [PacketIds ->
           [qos : QoSLevels, msg : 0..MaxPublishes, released : BOOLEAN]]
    /\ delivered \in [Messages -> Nat]
    /\ completed \subseteq Messages

NoServerFlow == [qos |-> "AtMostOnce", msg |-> 0, released |-> FALSE]

\* connect_tcp and connect_tls: a stream, a new v5 session and an idle client
TokioInit ==
    /\ SessionInit
    /\ setting \in Settings
    /\ IsV5 /\ ~clientIdEmpty /\ cleanStart
    /\ call = NoCall /\ reading = FALSE /\ wake = 0 /\ out = NoWrite
    /\ result = "Ok" /\ unsettled = {} /\ dropped = {} /\ forgotten = {}
    /\ calls = 0 /\ now = 0
    /\ toServer = << >> /\ toClient = << >> /\ open = TRUE
    /\ alive = TRUE /\ quietSince = 0
    /\ serverFlow = [id \in PacketIds |-> NoServerFlow]
    /\ published = 0 /\ repeats = 0 /\ completed = {}
    /\ delivered = [m \in Messages |-> 0]

-----------------------------------------------------------------------------
(***************************************************************************)
(* The steps of a call                                                     *)
(***************************************************************************)

\* The call returns.
Finish(outcome) ==
    /\ call' = NoCall
    /\ reading' = FALSE
    /\ wake' = 0
    /\ result' = outcome
    /\ out' = NoWrite
    /\ UNCHANGED calls

\* Mutant: the time that remains is taken for the deadline.
AwaitRemaining(at, id) ==
    /\ call' = [call EXCEPT !.at = at, !.id = id, !.deadline = CallTimeout - now]
    /\ reading' = FALSE
    /\ UNCHANGED <<wake, result, calls>>

\* The call goes on at another await, with its timeout started anew.
Await(at, id) ==
    /\ call' = [call EXCEPT !.at = at, !.id = id, !.deadline = now + CallTimeout]
    /\ reading' = FALSE
    /\ UNCHANGED <<wake, result, calls>>

\* Mutant: a request that failed is not withdrawn.
AbandonNothing == UNCHANGED sessionVars

\* What the callers of recv_while_connected and send_packet do with an error:
\* a request that was registered is withdrawn.
Abandon ==
    IF call.at \in PublishAwaits \cup {"ValidatePublish"} THEN AbortPublish(call.id)
    ELSE IF call.at = "AwaitSuback" THEN AbortSubscribe(call.id)
    ELSE IF call.at = "AwaitUnsuback" THEN AbortUnsubscribe(call.id)
    ELSE UNCHANGED sessionVars

\* The message that recv_publish keeps until the PUBREL comes
Held == IF call.msg = 0 THEN {} ELSE {PublishPacket("ExactlyOnce", call.id, call.msg)}

\* abort_publish releases the identifier in both directions: with the call's
\* own flow it ends a flow in which the server uses the same identifier.
Aborting(at) ==
    forgotten' = forgotten \cup
        (IF call.at \in at /\ HasIncoming(call.id) THEN {serverFlow[call.id].msg} ELSE {})

\* The call ends with an error; what it has read or keeps is lost.
FailDropping(error, packets) ==
    /\ Abandon
    /\ Finish(error)
    /\ dropped' = dropped \cup packets \cup Held
    /\ Aborting(PublishAwaits \cup {"ValidatePublish"})
    /\ UNCHANGED unsettled

Fail(error) == FailDropping(error, {})

\* An error of handle_incoming passes through await_puback and its like by `?`:
\* nothing is withdrawn.
FailUnsettled(error) ==
    /\ Finish(error)
    /\ unsettled' = unsettled \cup
           (IF call.at \in PublishAwaits THEN {call.id} ELSE {})
    /\ UNCHANGED <<dropped, forgotten>>

Idle == call.at = "Idle" /\ out = NoWrite

\* A call of the application begins; `result` is left to the caller.
StartCall(name) ==
    /\ Idle
    /\ name \in setting.calls
    /\ connectionState = "Connected"
    /\ calls < setting.maxCalls /\ now <= setting.maxStart
    /\ calls' = calls + 1
    /\ quietSince' = now
    /\ UNCHANGED <<wake, lossVars, now, wireVars, delivered, alive,
                   serverFlow, published, repeats, completed>>

-----------------------------------------------------------------------------
(***************************************************************************)
(* connect and disconnect                                                  *)
(***************************************************************************)

\* connect_with_options: a new session, configured
CallConnect ==
    /\ Idle
    /\ connectionState = "Disconnected" /\ calls = 0 /\ now <= setting.maxStart
    /\ ConfigureForConnect([keepAliveSecs |-> KeepAliveArg,
           sessionExpiryInterval |-> 0, topicAliasMaximum |-> 0,
           receiveMaximum |-> U16Max, maximumPacketSize |-> 0])
    /\ call' = [call EXCEPT !.at = "Configured"]
    /\ calls' = 1
    /\ result' = "None"
    /\ UNCHANGED <<reading, wake, out, lossVars, serverVars, wireVars,
                   now, delivered>>

\* connect_with_options: connect_sent, then CONNECT is written.
StartConnect ==
    /\ call.at = "Configured"
    /\ ConnectSent
    /\ call' = [call EXCEPT !.at = "AwaitConnack", !.deadline = now + CallTimeout]
    /\ out' = Writing(Packet("Connect", 0), "AwaitConnack", 0, FALSE)
    /\ reading' = TRUE
    /\ wake' = now + CallTimeout
    /\ UNCHANGED <<result, lossVars, calls, serverVars, wireVars, now, delivered>>

\* connect_with_options: the answer.  Anything but CONNACK ends the call.
ConnackRead(p) ==
    /\ call.at = "AwaitConnack"
    /\ \/ /\ p.type = "Connack"
          /\ \E c \in setting.connacks :
                \/ ApplyConnack(c) /\ Finish("Ok")
                \/ ~ConnackAccepted(c) /\ UNCHANGED sessionVars /\ Finish("Connack")
       \/ /\ p.type # "Connack"
          /\ UNCHANGED sessionVars
          /\ Finish("UnexpectedPacket")
    /\ UNCHANGED <<lossVars, delivered>>

\* disconnect
CallDisconnect ==
    /\ StartCall("Disconnect")
    /\ DisconnectSent
    /\ out' = Writing(Packet("Disconnect", 0), "Idle", 0, FALSE)
    /\ result' = "None"
    /\ UNCHANGED <<call, reading>>

-----------------------------------------------------------------------------
(***************************************************************************)
(* publish, subscribe and unsubscribe up to the write                      *)
(***************************************************************************)

\* The name of a call of publish with each QoS level
PublishCall(qos) ==
    CASE qos = "AtMostOnce" -> "PublishQos0"
      [] qos = "AtLeastOnce" -> "PublishQos1"
      [] qos = "ExactlyOnce" -> "PublishQos2"

\* allocate_packet_id at the head of a call, or PacketIdExhausted
AllocateFor(name, at, qos) ==
    /\ StartCall(name)
    /\ \/ \E id \in PacketIds :
             /\ AllocatePacketId(id)
             /\ call' = [call EXCEPT !.at = at, !.id = id, !.qos = qos]
             /\ result' = "None"
       \/ /\ AllocatePacketIdFails
          /\ result' = "PacketIdExhausted"
          /\ UNCHANGED call
    /\ UNCHANGED <<reading, out>>

\* publish with QoS 0 has no identifier and waits for nothing.
CallPublishQos0(retain) ==
    /\ StartCall("PublishQos0")
    /\ \/ /\ ValidatePublish("AtMostOnce", retain, PublishSize)
          /\ out' = Writing(PublishPacket("AtMostOnce", 0, 0), "Idle", 0, FALSE)
          /\ result' = "None"
       \/ /\ ~ValidatePublish("AtMostOnce", retain, PublishSize)
          /\ result' = "ServerCapability"
          /\ UNCHANGED out
    /\ UNCHANGED <<sessionVars, call, reading>>

CallPublish(qos) == AllocateFor(PublishCall(qos), "RegisterPublish", qos)

TaskStep == UNCHANGED <<serverVars, wireVars, now>>

\* publish: publish_sent; without quota the identifier is released.
RegisterPublish ==
    /\ call.at = "RegisterPublish"
    /\ \/ /\ PublishSent(call.qos, call.id)
          /\ call' = [call EXCEPT !.at = "ValidatePublish"]
          /\ UNCHANGED <<reading, wake, out, result, calls>>
       \/ /\ ~CanSend
          /\ ReleasePacketId(call.id)
          /\ Finish("FlowControl")
    /\ TaskStep
    /\ UNCHANGED <<lossVars, delivered>>

\* publish: validate_outgoing_publish, then the write and the await after it
WritePublish(retain) ==
    /\ call.at = "ValidatePublish"
    /\ \/ /\ ~ValidatePublish(call.qos, retain, PublishSize)
          /\ Fail("ServerCapability")
       \/ /\ ValidatePublish(call.qos, retain, PublishSize)
          /\ LET at == IF call.qos = "AtLeastOnce" THEN "AwaitPuback" ELSE "AwaitPubrec"
             IN  /\ Await(at, call.id)
                 /\ out' = Writing(PublishPacket(call.qos, call.id, 0), at, 0, FALSE)
          /\ UNCHANGED <<sessionVars, lossVars>>
    /\ TaskStep
    /\ UNCHANGED delivered

CallSubscribe == AllocateFor("Subscribe", "RegisterSubscribe", "AtMostOnce")

\* subscribe: a refused capability ends the call by `?`, and the identifier
\* that was allocated stays allocated.
RegisterSubscribe(entries) ==
    /\ call.at = "RegisterSubscribe"
    /\ \/ /\ ~ValidateSubscribe(entries, WildcardFilters, SharedFilters)
          /\ Finish("ServerCapability")
          /\ unsettled' = unsettled \cup {call.id}
          /\ UNCHANGED <<dropped, forgotten>>
          /\ UNCHANGED sessionVars
       \/ /\ ValidateSubscribe(entries, WildcardFilters, SharedFilters)
          /\ SubscribeSent(call.id, entries)
          /\ Await("AwaitSuback", call.id)
          /\ out' = Writing(Packet("Subscribe", call.id), "AwaitSuback", 0, FALSE)
          /\ UNCHANGED lossVars
    /\ TaskStep
    /\ UNCHANGED delivered

CallUnsubscribe == AllocateFor("Unsubscribe", "RegisterUnsubscribe", "AtMostOnce")

RegisterUnsubscribe(filters) ==
    /\ call.at = "RegisterUnsubscribe"
    /\ UnsubscribeSent(call.id, filters)
    /\ Await("AwaitUnsuback", call.id)
    /\ out' = Writing(Packet("Unsubscribe", call.id), "AwaitUnsuback", 0, FALSE)
    /\ TaskStep
    /\ UNCHANGED <<lossVars, delivered>>

\* recv_publish with a duration, and run_subscribe_loop, which has none
CallReceive(name, at) ==
    /\ StartCall(name)
    /\ call' = [call EXCEPT !.at = at,
                           !.deadline = IF at = "Loop" THEN 0 ELSE now + CallTimeout]
    /\ result' = "None"
    /\ UNCHANGED <<sessionVars, reading, out>>

-----------------------------------------------------------------------------
(***************************************************************************)
(* send_packet                                                             *)
(***************************************************************************)

\* What the session is told once the packet is written: activity, or
\* pingreq_sent; puback_sent, pubrec_sent and pubcomp_sent; disconnected
Written(p, settles) ==
    /\ IF p.type = "Pingreq" THEN KaPingreqSent(now) ELSE KaActivity(now)
    /\ IF p.type = "Puback" THEN QosPubackSent(p.id) ELSE UNCHANGED qosVars
    /\ IF settles THEN FcPublishAckSent ELSE UNCHANGED fcVars
    /\ connectionState' = IF p.type = "Disconnect" THEN "Disconnected" ELSE connectionState
    /\ UNCHANGED <<pidVars, subVars, authVars, identityVars, clientIdEmpty,
                   sessionExpiryInterval, maxPacketSize, ownMaximum,
                   peerMaximum, serverCapabilities>>

\* A write to a stream that is down may still be taken by the system.
WriteSucceeds ==
    /\ out # NoWrite
    /\ toServer' = IF open THEN Append(toServer, out.packet) ELSE toServer
    /\ Written(out.packet, out.settles)
    /\ delivered' = IF out.msg = 0 THEN delivered
                    ELSE [delivered EXCEPT ![out.msg] = @ + 1]
    /\ out' = NoWrite
    /\ dropped' = IF out.packet.type = "Pingreq" THEN dropped \ {Packet("Pingresp", 0)}
                  ELSE dropped
    /\ IF out.then = "Idle"
       THEN /\ call' = NoCall
            /\ result' = "Ok"
            /\ wake' = 0
       ELSE /\ call' = [call EXCEPT !.at = out.then]
            /\ UNCHANGED <<result, wake>>
    /\ UNCHANGED <<reading, unsettled, forgotten, calls, toClient, open, serverVars, now>>

\* An error of the write.  The answers to received packets are written inside
\* handle_incoming and recv_publish, which withdraw nothing.
WriteFails ==
    /\ out # NoWrite
    /\ ~open
    /\ IF out.packet.type \in {"Puback", "Pubrec", "Pubcomp"}
       THEN FailUnsettled("Io") /\ UNCHANGED sessionVars
       ELSE Fail("Io")
    /\ TaskStep
    /\ UNCHANGED delivered

-----------------------------------------------------------------------------
(***************************************************************************)
(* recv_while_connected: the head of the loop, and the read                *)
(***************************************************************************)

\* Mutant: the next PINGREQ is sent before the old one is judged.
PingBeforeTimeout ==
    IF ShouldSendPingreq(now) THEN "SendPingreq"
    ELSE IF HasTimedOut(now) THEN "TimedOut" ELSE "Fine"

\* check_keep_alive: the timeout is judged before the next PINGREQ.
CheckKeepAlive ==
    IF HasTimedOut(now) THEN "TimedOut"
    ELSE IF ShouldSendPingreq(now) THEN "SendPingreq" ELSE "Fine"

\* Mutant: the deadline is computed anew in every turn of the loop.
PastDeadlineNever == FALSE

\* remaining.is_zero(); run_subscribe_loop has no deadline.
PastDeadline == call.at # "Loop" /\ now >= call.deadline

\* keep_alive_tick: a quarter of the Keep Alive time
KeepAliveTick ==
    LET quarter == (keepAliveSecs * MsPerSec) \div 4
    IN  IF keepAliveSecs = 0 THEN MsPerSec
        ELSE IF quarter < MinTick THEN MinTick ELSE quarter

\* timeout(wait, ...) with wait = remaining.min(keep_alive_tick())
NextWake ==
    IF call.at # "Loop" /\ call.deadline < now + KeepAliveTick
    THEN call.deadline ELSE now + KeepAliveTick

\* recv_publish looks at its deadline before it calls recv_while_connected, so
\* that both errors are possible when both are due.
LoopHead ==
    /\ call.at \in Looping /\ ~reading /\ out = NoWrite
    /\ \/ CheckKeepAlive = "TimedOut" /\ Fail("KeepAliveTimeout")
       \/ /\ CheckKeepAlive = "SendPingreq"
          /\ out' = Writing(Packet("Pingreq", 0), call.at, 0, FALSE)
          /\ UNCHANGED <<sessionVars, call, reading, wake, result, lossVars, calls>>
       \/ /\ PastDeadline
          /\ CheckKeepAlive = "Fine" \/ call.at \in {"RecvPublish", "AwaitPubrel"}
          /\ Fail("Timeout")
       \/ /\ CheckKeepAlive = "Fine" /\ ~PastDeadline
          /\ reading' = TRUE
          /\ wake' = NextWake
          /\ UNCHANGED <<sessionVars, call, out, result, lossVars, calls>>
    /\ TaskStep
    /\ UNCHANGED delivered

\* The timeout of the read fires: the loop goes round, but recv_packet, which
\* waits for CONNACK, returns.
WaitOver ==
    /\ reading /\ out = NoWrite /\ toClient = << >>
    /\ now >= wake
    /\ IF call.at = "AwaitConnack"
       THEN Finish("Timeout")
       ELSE /\ reading' = FALSE
            /\ UNCHANGED <<call, wake, out, result, calls>>
    /\ TaskStep
    /\ UNCHANGED <<sessionVars, lossVars, delivered>>

\* try_recv_ready and recv_packet: a read of 0 bytes is the end of the stream.
ReadEnd ==
    /\ reading /\ out = NoWrite /\ toClient = << >> /\ ~open
    /\ Fail("Disconnected")
    /\ TaskStep
    /\ UNCHANGED delivered

-----------------------------------------------------------------------------
(***************************************************************************)
(* Packets that arrive                                                     *)
(***************************************************************************)

\* The call goes on waiting: await_puback and its like start a new timeout;
\* run_subscribe_loop may find the next packet in the bytes it has read.
Resume ==
    /\ call' = IF call.at \in PublishAwaits
               THEN [call EXCEPT !.deadline = now + CallTimeout] ELSE call
    /\ reading' \in IF call.at = "Loop" THEN BOOLEAN ELSE {FALSE}
    /\ UNCHANGED <<wake, result, lossVars, calls>>

\* Mutant: a repeated PUBLISH is given to the application again.
GivenAlways(p) == p.msg

\* Mutant: is_duplicate is asked after the flow was recorded.
GivenNever(p) == IF p.qos = "ExactlyOnce" THEN 0 ELSE p.msg

\* The message the application is given: a repetition with QoS 2 is not.
Given(p) == IF p.qos = "ExactlyOnce" /\ HasIncoming(p.id) THEN 0 ELSE p.msg

\* handle_incoming_publish
HandleIncomingPublish(p) ==
    \/ /\ p.qos = "AtMostOnce"
       /\ Resume
       /\ UNCHANGED <<sessionVars, out, delivered>>
    \/ /\ p.qos # "AtMostOnce" /\ MayReceivePublish(p.id)
       /\ HandlePublish(p.qos, p.id)
       /\ Resume
       /\ out' = IF p.qos = "AtLeastOnce"
                 THEN Writing(Packet("Puback", p.id), call.at, Given(p), TRUE)
                 ELSE Writing(Packet("Pubrec", p.id), call.at, Given(p), FALSE)
       /\ UNCHANGED delivered
    \/ /\ p.qos # "AtMostOnce" /\ ~MayReceivePublish(p.id)
       /\ FailUnsettled("FlowControl")
       /\ UNCHANGED <<sessionVars, delivered>>

\* handle_incoming, PUBREL
HandleIncomingPubrel(p) ==
    /\ HandlePubrel(p.id)
    /\ \/ /\ PubrelResult(p.id) \in {"SendPubcomp", "ResendPubcomp"}
          /\ Resume
          /\ out' = Writing(Packet("Pubcomp", p.id), call.at, 0,
                            PubrelResult(p.id) = "SendPubcomp")
       \/ /\ PubrelResult(p.id) = "StateMismatch"
          /\ FailUnsettled("Flow")
    /\ UNCHANGED delivered

\* handle_incoming, DISCONNECT: disconnect_received, and then abort_publish in
\* the calls that wait for an acknowledgement
HandleIncomingDisconnect ==
    /\ connectionState' = "Disconnected"
    /\ IF call.at \in PublishAwaits
       THEN /\ IF IsActive(call.id) THEN FcPublishAcked ELSE UNCHANGED fcVars
            /\ QosRelease(call.id)
            /\ PidRelease(call.id)
       ELSE UNCHANGED <<fcVars, qosVars, pidVars>>
    /\ Finish(IF call.at = "Loop" THEN "Ok" ELSE "Disconnected")
    /\ Aborting(PublishAwaits)
    /\ UNCHANGED <<subVars, kaVars, authVars, identityVars, clientIdEmpty,
                   sessionExpiryInterval, maxPacketSize, ownMaximum, peerMaximum,
                   serverCapabilities, unsettled, dropped, delivered>>

\* handle_incoming.  Acknowledgements nobody waits for are errors.
HandleIncoming(p) ==
    \/ p.type = "Publish" /\ HandleIncomingPublish(p)
    \/ p.type = "Pubrel" /\ HandleIncomingPubrel(p)
    \/ p.type = "Disconnect" /\ HandleIncomingDisconnect
    \/ p.type = "Pingresp" /\ PingrespReceived /\ Resume /\ UNCHANGED <<out, delivered>>
    \/ /\ p.type \in AckTypes
       /\ FailUnsettled("UnexpectedPacket")
       /\ UNCHANGED <<sessionVars, delivered>>

-----------------------------------------------------------------------------
(***************************************************************************)
(* What each await does with the packet it was waiting for                 *)
(***************************************************************************)

\* The end of await_puback and await_pubcomp
AckRead(ack, handled) ==
    /\ IF ack = "Complete"
       THEN handled /\ Finish("Ok") /\ UNCHANGED lossVars
       ELSE IF ack = "None"
       THEN Fail("UnexpectedPacket")
       ELSE UNCHANGED sessionVars /\ FailUnsettled("Flow")
    /\ UNCHANGED delivered

\* await_puback
AwaitPuback(p) ==
    /\ call.at = "AwaitPuback"
    /\ \/ /\ p.type = "Puback" /\ p.id = call.id
          /\ AckRead(PubackResult(p.id), HandlePuback(p.id))
       \/ ~(p.type = "Puback" /\ p.id = call.id) /\ HandleIncoming(p)

\* await_qos2_completion
AwaitQos2Completion(p) ==
    /\ call.at = "AwaitPubrec"
    /\ \/ /\ p.type = "Pubrec" /\ p.id = call.id
          /\ CASE PubrecResult(p.id, ~p.ok) = "SendPubrel" ->
                    /\ HandlePubrec(p.id, ~p.ok)
                    /\ Await("AwaitPubcomp", p.id)
                    /\ out' = Writing(Packet("Pubrel", p.id), "AwaitPubcomp", 0, FALSE)
                    /\ UNCHANGED lossVars
               [] PubrecResult(p.id, ~p.ok) = "Aborted" ->
                    /\ HandlePubrec(p.id, ~p.ok)
                    /\ Finish("PublishRejected")
                    /\ UNCHANGED lossVars
               [] PubrecResult(p.id, ~p.ok) = "None" -> Fail("PublishRejected")
               [] OTHER -> UNCHANGED sessionVars /\ FailUnsettled("Flow")
          /\ UNCHANGED delivered
       \/ ~(p.type = "Pubrec" /\ p.id = call.id) /\ HandleIncoming(p)

\* await_pubcomp
AwaitPubcomp(p) ==
    /\ call.at = "AwaitPubcomp"
    /\ \/ /\ p.type = "Pubcomp" /\ p.id = call.id
          /\ AckRead(PubcompResult(p.id), HandlePubcomp(p.id))
       \/ ~(p.type = "Pubcomp" /\ p.id = call.id) /\ HandleIncoming(p)

\* The second half of subscribe and unsubscribe: whatever arrives ends the
\* call, and a packet that is not the answer is dropped.
AwaitRequestAck(p) ==
    /\ \/ /\ call.at = "AwaitSuback"
          /\ p.type = "Suback" /\ p.id = call.id /\ p.ok
          /\ HandleSuback(p.id, <<TRUE>>)
          /\ Finish("Ok")
          /\ UNCHANGED lossVars
       \/ /\ call.at = "AwaitUnsuback"
          /\ p.type = "Unsuback" /\ p.id = call.id /\ p.ok
          /\ HandleUnsuback(p.id, <<TRUE>>)
          /\ Finish("Ok")
          /\ UNCHANGED lossVars
       \/ /\ call.at \in {"AwaitSuback", "AwaitUnsuback"}
          /\ ~(/\ p.id = call.id /\ p.ok
               /\ p.type = IF call.at = "AwaitSuback" THEN "Suback" ELSE "Unsuback")
          /\ FailDropping("UnexpectedPacket", {p})
    /\ UNCHANGED delivered

\* recv_publish, PUBLISH: a message with QoS 2 is given to the application
\* after the PUBREL.
ReceivePublish(p) ==
    \/ /\ p.qos = "AtMostOnce"
       /\ Finish("Ok")
       /\ UNCHANGED <<sessionVars, lossVars, delivered>>
    \/ /\ p.qos # "AtMostOnce" /\ MayReceivePublish(p.id)
       /\ HandlePublish(p.qos, p.id)
       /\ reading' = FALSE
       /\ IF p.qos = "AtLeastOnce"
          THEN /\ out' = Writing(Packet("Puback", p.id), "Idle", p.msg, TRUE)
               /\ UNCHANGED call
          ELSE /\ out' = Writing(Packet("Pubrec", p.id), "AwaitPubrel", 0, FALSE)
               /\ call' = [call EXCEPT !.id = p.id, !.msg = Given(p)]
       /\ UNCHANGED <<wake, result, lossVars, calls, delivered>>
    \/ /\ p.qos # "AtMostOnce" /\ ~MayReceivePublish(p.id)
       /\ Fail("FlowControl")
       /\ UNCHANGED delivered

\* recv_publish while it waits for a message
RecvPublish(p) ==
    /\ call.at = "RecvPublish"
    /\ \/ p.type = "Publish" /\ ReceivePublish(p)
       \/ p.type # "Publish" /\ HandleIncoming(p)

\* recv_publish between PUBREC and PUBREL: anything but the PUBREL ends the
\* call, and the message it held is gone.
RecvPublishPubrel(p) ==
    /\ call.at = "AwaitPubrel"
    /\ \/ /\ p.type = "Pubrel" /\ p.id = call.id /\ PubrelResult(p.id) # "StateMismatch"
          /\ HandlePubrel(p.id)
          /\ out' = Writing(Packet("Pubcomp", p.id),
                            IF call.msg = 0 THEN "RecvPublish" ELSE "Idle",
                            call.msg, TRUE)
          /\ reading' = FALSE
          /\ UNCHANGED <<call, wake, result, lossVars, calls>>
       \/ /\ ~(/\ p.type = "Pubrel" /\ p.id = call.id
               /\ PubrelResult(p.id) # "StateMismatch")
          /\ FailDropping("UnexpectedPacket", {p})
    /\ UNCHANGED delivered

\* A packet is there: connect, recv_while_connected or run_subscribe_loop
\* returns it.  toClient is the stream and the buffer of the decoder in one.
\* The code knows one difference: run_subscribe_loop decodes only after a read
\* of its own, so that a packet which came in one chunk with the answer of an
\* earlier call is handled there with the next bytes, and here at once.
ReadPacket ==
    /\ reading /\ out = NoWrite /\ toClient # << >>
    /\ LET p == Head(toClient)
       IN  \/ ConnackRead(p) \/ AwaitPuback(p) \/ AwaitQos2Completion(p)
           \/ AwaitPubcomp(p) \/ AwaitRequestAck(p) \/ RecvPublish(p)
           \/ RecvPublishPubrel(p)
           \/ call.at = "Loop" /\ HandleIncoming(p)
    /\ toClient' = Tail(toClient)
    /\ UNCHANGED <<toServer, open, serverVars, now>>

\* run_subscribe_loop ends on Ctrl+C.
CtrlC ==
    /\ call.at = "Loop" /\ reading /\ out = NoWrite
    /\ Finish("Ok")
    /\ TaskStep
    /\ UNCHANGED <<sessionVars, lossVars, delivered>>

-----------------------------------------------------------------------------
(***************************************************************************)
(* The server and the stream (external).  The server acts while the task   *)
(* waits: what it adds to the stream while the task is busy is not seen    *)
(* before the next read, so that nothing is lost by adding it then.  Only  *)
(* the break of the stream can meet a write.                               *)
(***************************************************************************)

\* The task has a step to take before any time passes.
Busy ==
    \/ out # NoWrite
    \/ call.at # "Idle" /\ ~reading
    \/ reading /\ (toClient # << >> \/ ~open \/ now >= wake)

ClientUnchanged == UNCHANGED <<sessionVars, taskVars, now, delivered>>

\* The answers a server may give to a packet; an empty one is none at all.
Answers(p) ==
    CASE p.type = "Connect" -> {<<Packet("Connack", 0)>>}
      [] p.type = "Publish" /\ p.qos = "AtLeastOnce" -> {<<Packet("Puback", p.id)>>, << >>}
      [] p.type = "Publish" /\ p.qos = "ExactlyOnce" ->
            {<<[Packet("Pubrec", p.id) EXCEPT !.ok = b]>> : b \in BOOLEAN} \cup {<< >>}
      [] p.type = "Pubrel" -> {<<Packet("Pubcomp", p.id)>>}
      [] p.type = "Subscribe" -> {<<[Packet("Suback", p.id) EXCEPT !.ok = b]>> : b \in BOOLEAN}
      [] p.type = "Unsubscribe" -> {<<Packet("Unsuback", p.id)>>}
      [] p.type = "Pingreq" -> {<<Packet("Pingresp", 0)>>}
      [] p.type = "Pubrec" -> {<<Packet("Pubrel", p.id)>>}
      [] OTHER -> {<< >>}

\* The server takes the next packet.
ServerHandles ==
    /\ ~Busy /\ alive /\ open /\ toServer # << >>
    /\ LET p == Head(toServer)
       IN  /\ toServer' = Tail(toServer)
           /\ \E answer \in Answers(p) : toClient' = toClient \o answer
           /\ open' = (p.type # "Disconnect")
           /\ serverFlow' =
                CASE p.type \in {"Puback", "Pubcomp"} ->
                       [serverFlow EXCEPT ![p.id] = NoServerFlow]
                  [] p.type = "Pubrec" -> [serverFlow EXCEPT ![p.id].released = TRUE]
                  [] OTHER -> serverFlow
           /\ completed' = IF p.type = "Pubcomp" /\ serverFlow[p.id].msg # 0
                           THEN completed \cup {serverFlow[p.id].msg} ELSE completed
    /\ UNCHANGED <<alive, quietSince, published, repeats>>
    /\ ClientUnchanged

\* The server publishes a new message with QoS 1 or 2.
ServerPublishes(qos, id) ==
    /\ ~Busy /\ alive /\ open /\ connectionState = "Connected"
    /\ published < MaxPublishes
    /\ qos \in setting.serverQos \ {"AtMostOnce"}
    /\ id \in ServerIds /\ serverFlow[id].msg = 0
    /\ published' = published + 1
    /\ toClient' = Append(toClient, PublishPacket(qos, id, published'))
    /\ serverFlow' = [serverFlow EXCEPT ![id] =
                         [qos |-> qos, msg |-> published', released |-> FALSE]]
    /\ UNCHANGED <<alive, quietSince, repeats, completed, toServer, open>>
    /\ ClientUnchanged

\* It publishes a message with QoS 0: as many, and as fast, as it likes.
ServerStreams ==
    /\ ~Busy /\ alive /\ open /\ connectionState = "Connected"
    /\ "AtMostOnce" \in setting.serverQos
    /\ now <= setting.maxStream /\ Len(toClient) < MaxUnread
    /\ toClient' = Append(toClient, PublishPacket("AtMostOnce", 0, 0))
    /\ UNCHANGED <<toServer, open, serverVars>>
    /\ ClientUnchanged

\* It repeats one that was not acknowledged.
ServerRepeats(id) ==
    /\ ~Busy /\ alive /\ open /\ repeats < setting.maxRepeats
    /\ serverFlow[id].msg # 0 /\ ~serverFlow[id].released
    /\ toClient' = Append(toClient,
                          PublishPacket(serverFlow[id].qos, id, serverFlow[id].msg))
    /\ repeats' = repeats + 1
    /\ UNCHANGED <<alive, quietSince, serverFlow, published, completed, toServer, open>>
    /\ ClientUnchanged

\* It ends the connection with DISCONNECT.
ServerLeaves ==
    /\ ~Busy /\ alive /\ open /\ connectionState = "Connected"
    /\ toClient' = Append(toClient, Packet("Disconnect", 0))
    /\ open' = FALSE
    /\ UNCHANGED <<toServer, serverVars>>
    /\ ClientUnchanged

\* It stops answering, and the stream stays up.
ServerDies ==
    /\ ~Busy /\ alive /\ open
    /\ alive' = FALSE
    /\ quietSince' = now
    /\ UNCHANGED <<serverFlow, published, repeats, completed, wireVars>>
    /\ ClientUnchanged

\* The stream ends; what was on its way to the client may be lost.
Break ==
    /\ open
    /\ open' = FALSE
    /\ toClient' \in {toClient, << >>}
    /\ UNCHANGED <<toServer, serverVars>>
    /\ ClientUnchanged

Tick ==
    /\ ~Busy
    /\ now < setting.maxNow
    /\ now' = now + 1
    /\ UNCHANGED <<sessionVars, taskVars, serverVars, wireVars, delivered>>

-----------------------------------------------------------------------------
(***************************************************************************)
(* The specification                                                       *)
(***************************************************************************)

\* The application makes a call.
ApplicationCalls ==
    \/ CallConnect \/ CallDisconnect
    \/ \E retain \in BOOLEAN : CallPublishQos0(retain)
    \/ \E qos \in QoSLevels \ {"AtMostOnce"} : CallPublish(qos)
    \/ CallSubscribe \/ CallUnsubscribe
    \/ CallReceive("RecvPublish", "RecvPublish")
    \/ CallReceive("RunSubscribeLoop", "Loop")

\* The current call goes on.
TaskNext ==
    \/ StartConnect \/ RegisterPublish
    \/ \E retain \in BOOLEAN : WritePublish(retain)
    \/ \E entries \in SubscribeRequests : RegisterSubscribe(entries)
    \/ \E filters \in UnsubscribeRequests : RegisterUnsubscribe(filters)
    \/ WriteSucceeds \/ WriteFails
    \/ LoopHead \/ WaitOver \/ ReadEnd \/ ReadPacket

ServerNext ==
    \/ ServerHandles \/ ServerLeaves \/ ServerDies \/ Break
    \/ \E qos \in QoSLevels, id \in PacketIds : ServerPublishes(qos, id)
    \/ ServerStreams
    \/ \E id \in PacketIds : ServerRepeats(id)

TokioNext == ApplicationCalls \/ TaskNext \/ CtrlC \/ ServerNext \/ Tick

TokioSpec == TokioInit /\ [][TokioNext /\ UNCHANGED setting]_<<tokioVars, setting>>

\* The runtime polls a task that is ready and time passes; nothing is assumed
\* of the application, the server and the stream.
FairTokioSpec ==
    TokioSpec /\ WF_tokioVars(TaskNext) /\ WF_tokioVars(Tick)

-----------------------------------------------------------------------------
(***************************************************************************)
(* Properties                                                              *)
(***************************************************************************)

\* A call that listens notices within two Keep Alive times, and the ticks that
\* round each of them up, that the server stopped answering (check_keep_alive,
\* recv_while_connected, run_subscribe_loop).
DeadServerNoticed ==
    call.at \in Looping /\ ~alive /\ keepAliveSecs # 0 =>
        now - quietSince <= 2 * (keepAliveSecs * MsPerSec + KeepAliveTick)

\* A call that ended gave its packet identifier back, on every path but those
\* where `?` passes an error on: what else is in use belongs to the call that
\* is under way (publish, subscribe, unsubscribe and their awaits).
CallsSettle == inUse \ unsettled \subseteq {call.id}

\* However often a PUBLISH with QoS 2 arrives, and whichever call reads it, the
\* application is given its message at most once (recv_publish,
\* handle_incoming_publish).  The one way to be given it again: a publish of the
\* client that has the same identifier gives up, and its abort_publish ends the
\* server's flow too.
DeliveredOnce ==
    \A m \in Messages : delivered[m] > 1 =>
        \/ m \in forgotten
        \/ \A id \in PacketIds :
               serverFlow[id].msg = m => serverFlow[id].qos # "ExactlyOnce"

\* await_puback, await_qos2_completion or await_pubcomp reads a packet.
PublishReads ==
    /\ call.at \in PublishAwaits
    /\ toClient # << >> /\ toClient' = Tail(toClient)

\* Every call but run_subscribe_loop comes back (connect and the awaits have
\* timeouts), unless it is a publish to which packets keep coming: each one that
\* await_puback, await_qos2_completion or await_pubcomp reads, a message of the
\* server or a PINGRESP, starts their timeout anew, and nothing bounds how often.
CallsEnd ==
    \/ call.at \notin {"Idle", "Loop"} ~> call.at \in {"Idle", "Loop"}
    \/ []<><<PublishReads>>_tokioVars

\* A PINGREQ that is still waiting for its answer is on its way, or its answer
\* is, or subscribe or unsubscribe read the answer and let it fall: handle_incoming
\* tells the session of every other PINGRESP (pingresp_received), or a server that
\* does answer would be given up.
PingrespRecorded ==
    alive /\ open /\ pingreqSentAt # None =>
        \/ \E i \in DOMAIN toServer : toServer[i].type = "Pingreq"
        \/ \E i \in DOMAIN toClient : toClient[i].type = "Pingresp"
        \/ Packet("Pingresp", 0) \in dropped

\* A QoS 2 message for which the server has seen a PUBCOMP was given to the
\* application, by whichever calls PUBLISH and PUBREL were read.  The one way to
\* lose it: a recv_publish that keeps it back until the PUBREL gave up before.
CompletedMeansDelivered ==
    \A m \in completed : delivered[m] > 0 \/ \E p \in dropped : p.msg = m

=============================================================================
