---------------------------- MODULE SessionClient ----------------------------
(***************************************************************************)
(* A session driven by a caller that keeps to the documented contract, and *)
(* by a server.                                                            *)
(*                                                                         *)
(* The caller registers what it sends before it sends it (allocate, then   *)
(* publish_sent, subscribe_sent or unsubscribe_sent, then the wire) and    *)
(* withdraws it with the matching abort when the wire or a timeout fails.  *)
(* It talks MQTT only while connected and writes the answer to one         *)
(* received packet before it takes the next packet that needs one.         *)
(*                                                                         *)
(* The server may send any PUBLISH and any acknowledgement of a PUBLISH    *)
(* with any identifier at any time; only SUBACK and UNSUBACK are trusted   *)
(* to name a request that is pending, because handle_suback and            *)
(* handle_unsuback release whatever identifier they are given.             *)
(***************************************************************************)
EXTENDS Session, FiniteSets

CONSTANTS
    Configurations,  \* the arguments of configure_for_connect
    ConnackInputs,   \* the CONNACKs the server sends
    PubrecErrors,    \* whether the client answers PUBREC with an error code
    AbortCollisions, \* whether it aborts a flow whose identifier is in use by
                     \* a flow of the other direction
    MaxSeq,          \* bound: no PUBLISH after this many flow events
    MaxNow           \* bound: the clock stops here

ConnectConfigurations ==
    [keepAliveSecs : 0..U16Max, sessionExpiryInterval : Nat,
     topicAliasMaximum : 0..U16Max, receiveMaximum : 0..U16Max,
     maximumPacketSize : Nat]

ASSUME ClientAssumption ==
    /\ Configurations \subseteq ConnectConfigurations
    /\ ConnackInputs \subseteq ConnackParams
    /\ PubrecErrors \subseteq BOOLEAN
    /\ AbortCollisions \in BOOLEAN
    /\ MaxSeq \in Nat
    /\ MaxNow \in Nat

VARIABLES
    held,   \* identifiers allocated and not yet registered or released
    reply,  \* the answer to a received packet that is being written
    now     \* the caller's clock

clientVars == <<held, reply, now>>
vars == <<sessionVars, clientVars>>

NoReply == [type |-> "None", id |-> 0, isError |-> FALSE]
Reply ==
    [type : {"Puback", "Pubrec", "Pubcomp"}, id : PacketIds, isError : BOOLEAN]
        \cup {NoReply}

TypeOK ==
    /\ SessionTypeOK
    /\ held \subseteq PacketIds
    /\ reply \in Reply
    /\ now \in Nat

Init ==
    /\ SessionInit
    /\ held = {}
    /\ reply = NoReply
    /\ now = 0

IsConnected == connectionState = "Connected"

-----------------------------------------------------------------------------
(***************************************************************************)
(* The connection                                                          *)
(***************************************************************************)

Configure ==
    /\ connectionState = "Disconnected"
    /\ \E c \in Configurations : ConfigureForConnect(c)
    /\ UNCHANGED clientVars

\* The caller has registered or released what it allocated.
ReadyToConnect == connectionState = "Disconnected" /\ held = {}

Connect ==
    /\ ReadyToConnect
    /\ ConnectSent
    /\ UNCHANGED clientVars

ConnectWithAuth ==
    /\ ReadyToConnect
    /\ \E method \in AuthMethods : ConnectSentWithAuth(method)
    /\ UNCHANGED clientVars

ConnackArrives ==
    /\ \E p \in ConnackInputs : ApplyConnack(p)
    /\ UNCHANGED clientVars

\* apply_connack returned an error: the caller closes the connection.
ConnackRejected ==
    /\ connectionState = "Connecting"
    /\ \E p \in ConnackInputs : ~ConnackAccepted(p)
    /\ Disconnected
    /\ UNCHANGED clientVars

\* The caller leaves; an answer it was writing is dropped.
Disconnect ==
    /\ IsConnected
    /\ DisconnectSent
    /\ reply' = NoReply
    /\ UNCHANGED <<held, now>>

\* The transport is gone, or a DISCONNECT of the server arrived.
ConnectionLost ==
    /\ connectionState # "Disconnected"
    /\ Disconnected
    /\ reply' = NoReply
    /\ UNCHANGED <<held, now>>

\* The caller starts over with an empty session.
StartOver ==
    /\ connectionState = "Disconnected"
    /\ Reset
    /\ held' = {}
    /\ reply' = NoReply
    /\ UNCHANGED now

-----------------------------------------------------------------------------
(***************************************************************************)
(* Sending                                                                 *)
(***************************************************************************)

Allocate(id) ==
    /\ IsConnected
    /\ AllocatePacketId(id)
    /\ held' = held \cup {id}
    /\ UNCHANGED <<reply, now>>

\* The pool is empty: the caller sends nothing.
AllocateFails ==
    /\ IsConnected
    /\ AllocatePacketIdFails
    /\ UNCHANGED clientVars

\* After an error of publish_sent the caller gives the identifier back.
GiveBack(id) ==
    /\ id \in held
    /\ ReleasePacketId(id)
    /\ held' = held \ {id}
    /\ UNCHANGED <<reply, now>>

\* validate_outgoing_publish: the server's Maximum QoS is respected.
ValidateQos(qos) == QoSValue(qos) <= QoSValue(serverCapabilities.maximumQos)

Publish(qos, id) ==
    /\ IsConnected
    /\ id \in held
    /\ nextSeq < MaxSeq
    /\ ValidateQos(qos)
    /\ PublishSent(qos, id)
    /\ held' = held \ {id}
    /\ UNCHANGED <<reply, now>>

\* The wire failed, or the acknowledgement did not come in time.
GiveUpPublish(id) ==
    /\ HasOutgoing(id)
    /\ HasIncoming(id) => AbortCollisions
    /\ AbortPublish(id)
    /\ UNCHANGED clientVars

PubackArrives(id) ==
    /\ IsConnected
    /\ HandlePuback(id)
    /\ UNCHANGED clientVars

\* MQTT v3.1.1 has no error codes.
PubrecArrives(id, isError) ==
    /\ IsConnected
    /\ isError => IsV5
    /\ HandlePubrec(id, isError)
    /\ UNCHANGED clientVars

PubcompArrives(id) ==
    /\ IsConnected
    /\ HandlePubcomp(id)
    /\ UNCHANGED clientVars

Resend(id) ==
    /\ IsConnected
    /\ ResendPublish(id)
    /\ UNCHANGED clientVars

-----------------------------------------------------------------------------
(***************************************************************************)
(* Receiving                                                               *)
(***************************************************************************)

PublishArrives(qos, id, isError) ==
    /\ IsConnected
    /\ reply = NoReply
    /\ isError => IsV5 /\ qos = "ExactlyOnce"
    /\ HandlePublish(qos, id)
    /\ reply' = [type |-> IF qos = "AtLeastOnce" THEN "Puback" ELSE "Pubrec",
                 id |-> id, isError |-> isError]
    /\ UNCHANGED <<held, now>>

\* The own Receive Maximum is exceeded: DISCONNECT with reason code 0x93.
TooManyPublishes(id) ==
    /\ IsConnected
    /\ reply = NoReply
    /\ ~MayReceivePublish(id)
    /\ DisconnectSent
    /\ UNCHANGED clientVars

PubrelArrives(id) ==
    /\ IsConnected
    /\ reply = NoReply
    /\ HandlePubrel(id)
    /\ reply' = IF PubrelResult(id) = "SendPubcomp"
                THEN [type |-> "Pubcomp", id |-> id, isError |-> FALSE]
                ELSE reply
    /\ UNCHANGED <<held, now>>

\* The answer is on the wire.
ReplySent ==
    /\ \/ reply.type = "Puback" /\ PubackSent(reply.id)
       \/ reply.type = "Pubrec" /\ PubrecSent(reply.isError)
       \/ reply.type = "Pubcomp" /\ PubcompSent
    /\ reply' = NoReply
    /\ UNCHANGED <<held, now>>

-----------------------------------------------------------------------------
(***************************************************************************)
(* Subscriptions                                                           *)
(***************************************************************************)

Subscribe(id, entries) ==
    /\ IsConnected
    /\ id \in held
    /\ SubscribeSent(id, entries)
    /\ held' = held \ {id}
    /\ UNCHANGED <<reply, now>>

Unsubscribe(id, filters) ==
    /\ IsConnected
    /\ id \in held
    /\ UnsubscribeSent(id, filters)
    /\ held' = held \ {id}
    /\ UNCHANGED <<reply, now>>

GiveUpSubscribe(id) ==
    /\ id \in PendingSubscribeIds
    /\ AbortSubscribe(id)
    /\ UNCHANGED clientVars

GiveUpUnsubscribe(id) ==
    /\ id \in PendingUnsubscribeIds
    /\ AbortUnsubscribe(id)
    /\ UNCHANGED clientVars

\* The lists of reason codes a server answers with; a list of the wrong length
\* is a protocol error the code meets by dropping the request.
ReasonLists(request) ==
    UNION {[1..n -> BOOLEAN] : n \in {Len(request), Len(request) + 1}}

SubackArrives(id) ==
    /\ IsConnected
    /\ id \in PendingSubscribeIds
    /\ \E granted \in ReasonLists(pendingSubscribes[id]) : HandleSuback(id, granted)
    /\ UNCHANGED clientVars

\* The UNSUBACK of MQTT v3.1.1 has no reason codes.
UnsubackArrives(id) ==
    /\ IsConnected
    /\ id \in PendingUnsubscribeIds
    /\ \E gone \in IF IsV5 THEN ReasonLists(pendingUnsubscribes[id]) ELSE {<< >>} :
           HandleUnsuback(id, gone)
    /\ UNCHANGED clientVars

-----------------------------------------------------------------------------
(***************************************************************************)
(* Keep Alive and authentication                                           *)
(***************************************************************************)

Tick ==
    /\ now < MaxNow
    /\ now' = now + 1
    /\ UNCHANGED <<sessionVars, held, reply>>

\* Some packet other than PINGREQ was written.
PacketSent ==
    /\ connectionState \in {"Connecting", "Connected"}
    /\ Activity(now)
    /\ UNCHANGED clientVars

SendPingreq ==
    /\ IsConnected
    /\ ShouldSendPingreq(now)
    /\ PingreqSent(now)
    /\ UNCHANGED clientVars

PingrespArrives ==
    /\ IsConnected
    /\ PingrespReceived
    /\ UNCHANGED clientVars

\* AUTH is a packet of MQTT v5.0.
AuthArrives(reason, method) ==
    /\ connectionState \in {"Connecting", "Connected"}
    /\ IsV5
    /\ AuthReceived(reason, method)
    /\ UNCHANGED clientVars

Reauthenticate ==
    /\ IsConnected
    /\ ReauthenticateSent
    /\ UNCHANGED clientVars

-----------------------------------------------------------------------------

ConnectionNext ==
    \/ Configure \/ Connect \/ ConnectWithAuth \/ ConnackArrives
    \/ ConnackRejected \/ Disconnect \/ ConnectionLost \/ StartOver

SendNext ==
    \/ AllocateFails
    \/ \E id \in PacketIds :
          \/ Allocate(id) \/ GiveBack(id) \/ GiveUpPublish(id)
          \/ PubackArrives(id) \/ PubcompArrives(id) \/ Resend(id)
          \/ \E isError \in BOOLEAN : PubrecArrives(id, isError)
          \/ \E qos \in {"AtLeastOnce", "ExactlyOnce"} : Publish(qos, id)

ReceiveNext ==
    \/ ReplySent
    \/ \E id \in PacketIds :
          \/ TooManyPublishes(id) \/ PubrelArrives(id)
          \/ \E qos \in {"AtLeastOnce", "ExactlyOnce"}, isError \in PubrecErrors :
                PublishArrives(qos, id, isError)

SubscriptionNext ==
    \E id \in PacketIds :
       \/ \E entries \in SubscribeRequests : Subscribe(id, entries)
       \/ \E filters \in UnsubscribeRequests : Unsubscribe(id, filters)
       \/ GiveUpSubscribe(id) \/ GiveUpUnsubscribe(id)
       \/ SubackArrives(id) \/ UnsubackArrives(id)

TimerNext == Tick \/ PacketSent \/ SendPingreq \/ PingrespArrives

AuthenticationNext ==
    \/ Reauthenticate
    \/ \E reason \in AuthReasons, method \in AuthMethods \cup {None} :
          AuthArrives(reason, method)

Next ==
    \/ ConnectionNext \/ SendNext \/ ReceiveNext
    \/ SubscriptionNext \/ TimerNext \/ AuthenticationNext

Spec == Init /\ [][Next]_vars

-----------------------------------------------------------------------------
(***************************************************************************)
(* Properties                                                              *)
(***************************************************************************)

(***************************************************************************)
(* Every identifier the pool counts as in use has exactly one owner: the   *)
(* caller that just allocated it, a PUBLISH in flight, a pending SUBSCRIBE *)
(* or a pending UNSUBSCRIBE.  So no identifier leaks, and none is given to *)
(* two packets at once ([MQTT-2.2.1-3]), whatever acknowledgements of      *)
(* PUBLISH the server makes up and however flows are aborted.              *)
(***************************************************************************)
IdOwnership ==
    /\ PoolPartition
    /\ inUse = held \cup OutgoingIds \cup PendingSubscribeIds
                    \cup PendingUnsubscribeIds
    /\ held \cap OutgoingIds = {}
    /\ held \cap PendingSubscribeIds = {}
    /\ held \cap PendingUnsubscribeIds = {}
    /\ OutgoingIds \cap PendingSubscribeIds = {}
    /\ OutgoingIds \cap PendingUnsubscribeIds = {}
    /\ PendingSubscribeIds \cap PendingUnsubscribeIds = {}

(***************************************************************************)
(* Send quota is never lost: outstanding_count stays within the number of  *)
(* flows that consumed quota on this connection, so once those have ended  *)
(* the client can send its full Receive Maximum again.                     *)
(***************************************************************************)
SendQuotaNotLeaked == outstandingCount <= Cardinality(ChargedIds)

(***************************************************************************)
(* The client never has more PUBLISHes of this connection unacknowledged   *)
(* than the server's Receive Maximum ([MQTT-3.3.4-7], quoted by            *)
(* publish_sent).                                                          *)
(***************************************************************************)
ReceiveMaximumRespected == Cardinality(ChargedIds) <= receiveMaximum

(***************************************************************************)
(* The same for a session that starts clean on every connection.           *)
(***************************************************************************)
CleanReceiveMaximumRespected == cleanStart => ReceiveMaximumRespected

\* The incoming flows that still count against the client's Receive Maximum,
\* including the one whose PUBCOMP is being written
UnansweredPublishes ==
    Cardinality(IncomingIds) + (IF reply.type = "Pubcomp" THEN 1 ELSE 0)

(***************************************************************************)
(* incoming_count never exceeds the PUBLISHes that are really unanswered,  *)
(* so a server that keeps to the client's Receive Maximum is never         *)
(* disconnected with 0x93.                                                 *)
(***************************************************************************)
ReceiveQuotaNotLeaked ==
    IsConnected => incomingCount <= UnansweredPublishes

(***************************************************************************)
(* A session that starts clean counts the unanswered PUBLISHes exactly, so *)
(* a server that exceeds the client's Receive Maximum is noticed.          *)
(***************************************************************************)
CleanReceiveQuotaExact ==
    cleanStart /\ IsConnected => incomingCount = UnansweredPublishes

(***************************************************************************)
(* The order of retransmission is the order of events ([MQTT-4.6.0-1],     *)
(* [MQTT-4.6.0-4]): flows that a step leaves in their state keep their     *)
(* order, and a flow that the step starts, or moves on to its PUBREL,      *)
(* comes after all of them.                                                *)
(***************************************************************************)
FlowStays(id) == HasOutgoing(id) /\ outgoing'[id].state = outgoing[id].state
FlowJoins(id) == outgoing'[id].state \notin {"None", outgoing[id].state}

OrderKept ==
    \A i, j \in PacketIds : FlowStays(i) =>
        /\ FlowStays(j) => (ResendBefore(i, j) <=> ResendBefore(i, j)')
        /\ FlowJoins(j) => ResendBefore(i, j)'

RetransmissionOrder == [][OrderKept]_vars

(***************************************************************************)
(* While the client waits for CONNACK nothing of an earlier connection is  *)
(* left: quotas, charges, server limits, capabilities, the alias maximum   *)
(* and an unanswered PINGREQ were all reset by connect_sent.               *)
(***************************************************************************)
FreshConnection ==
    connectionState = "Connecting" =>
        /\ receiveMaximum = U16Max /\ ~initialized
        /\ outstandingCount = 0 /\ incomingCount = 0
        /\ ChargedIds = {}
        /\ peerMaximum = 0
        /\ serverCapabilities = DefaultCapabilities
        /\ pingreqSentAt = None
        /\ authState \in {"Idle", "InitialAuthenticating"}

(***************************************************************************)
(* apply_connack never completes a connection whose authentication has     *)
(* not: a connected client is not in its initial authentication, and only  *)
(* MQTT v5.0 authenticates.                                                *)
(***************************************************************************)
AuthenticatedBeforeConnected ==
    /\ IsConnected => authState # "InitialAuthenticating"
    /\ authState # "Idle" => IsV5

=============================================================================
