------------------------------- MODULE Session -------------------------------
(***************************************************************************)
(* The client session (state/session/): the connection life cycle and the  *)
(* integrated handlers that keep the packet identifier pool, the QoS       *)
(* flows, flow control, the subscriptions, Keep Alive and authentication   *)
(* consistent with each other.                                             *)
(*                                                                         *)
(* One action per public operation that changes state.  An operation that  *)
(* returns an error without changing anything has a guard instead, and     *)
(* the caller (SessionClient) decides what to do when the guard is false.  *)
(*                                                                         *)
(* Of the session's topic alias manager only the two maxima are kept: its  *)
(* tables stay empty, because the session gives no mutable access to it    *)
(* outside of tests.                                                       *)
(***************************************************************************)
EXTENDS PacketIdManager, QosFlowManager, FlowControl, SubscriptionManager,
        KeepAlive, AuthStateMachine

CONSTANT DefaultPacketSize  \* Limits::new().max_packet_size

ASSUME DefaultPacketSizeAssumption == DefaultPacketSize \in Nat \ {0}

VARIABLES
    protocolVersion,        \* protocol_version
    connectionState,        \* connection_state
    clientIdEmpty,          \* client_id.is_empty()
    cleanStart,             \* clean_start
    sessionExpiryInterval,  \* session_expiry_interval
    maxPacketSize,          \* limits.max_packet_size
    ownMaximum,             \* topic_alias_manager.own_maximum
    peerMaximum,            \* topic_alias_manager.peer_maximum
    serverCapabilities      \* server_capabilities

\* What never changes after Session::new
identityVars == <<protocolVersion, cleanStart>>
sesVars == <<protocolVersion, connectionState, clientIdEmpty, cleanStart,
             sessionExpiryInterval, maxPacketSize, ownMaximum, peerMaximum,
             serverCapabilities>>
sessionVars == <<pidVars, qosVars, fcVars, subVars, kaVars, authVars, sesVars>>

ConnectionStates == {"Disconnected", "Connecting", "Connected", "Disconnecting"}

\* The optional features a CONNACK declares available or not
Features == {"Retain", "WildcardSubscription", "SubscriptionIdentifiers",
             "SharedSubscription"}

ServerCapabilities ==
    [maximumPacketSize : Nat \cup {None}, maximumQos : QoSLevels,
     available : [Features -> BOOLEAN]]

\* ServerCapabilities::new()
DefaultCapabilities ==
    [maximumPacketSize |-> None, maximumQos |-> "ExactlyOnce",
     available |-> [f \in Features |-> TRUE]]

\* ConnackParams, with the reason code split into its version and its success
ConnackParams ==
    [version : MqttVersions, success : BOOLEAN, sessionPresent : BOOLEAN,
     sessionExpiryInterval : Nat \cup {None},
     receiveMaximum : 0..U16Max \cup {None},
     topicAliasMaximum : 0..U16Max \cup {None},
     serverKeepAlive : 0..U16Max \cup {None},
     maximumPacketSize : Nat \cup {None},
     maximumQos : QoSLevels \cup {None},
     available : [Features -> BOOLEAN \cup {None}],
     assignedClientIdentifier : {"Empty", "Given", None},
     authenticationMethod : AuthMethods \cup {None}]

SesTypeOK ==
    /\ protocolVersion \in MqttVersions
    /\ connectionState \in ConnectionStates
    /\ clientIdEmpty \in BOOLEAN
    /\ cleanStart \in BOOLEAN
    /\ sessionExpiryInterval \in Nat
    /\ maxPacketSize \in Nat
    /\ ownMaximum \in 0..U16Max
    /\ peerMaximum \in 0..U16Max
    /\ serverCapabilities \in ServerCapabilities

SessionTypeOK ==
    /\ PidTypeOK
    /\ QosTypeOK
    /\ FcTypeOK
    /\ SubTypeOK
    /\ KaTypeOK
    /\ AuthTypeOK
    /\ SesTypeOK

\* Session::new: MQTT v3.1.1 refuses an empty client id without a clean session.
SessionInit ==
    /\ PidInit /\ QosInit /\ FcInit /\ SubInit /\ KaInit /\ AuthInit
    /\ protocolVersion \in MqttVersions
    /\ cleanStart \in BOOLEAN
    /\ clientIdEmpty \in BOOLEAN
    /\ protocolVersion = "V311" /\ clientIdEmpty => cleanStart
    /\ connectionState = "Disconnected"
    /\ sessionExpiryInterval = 0
    /\ maxPacketSize = DefaultPacketSize
    /\ ownMaximum = 0
    /\ peerMaximum = 0
    /\ serverCapabilities = DefaultCapabilities

IsV5 == protocolVersion = "V5"
IsV311 == protocolVersion = "V311"

-----------------------------------------------------------------------------
(***************************************************************************)
(* Connecting                                                              *)
(***************************************************************************)

\* configure_for_connect(c).  A Receive Maximum of 0 is an error that comes
\* after the first three fields were stored; a Maximum Packet Size of 0 leaves
\* the limit as it is.
ConfigureForConnect(c) ==
    /\ KaSetKeepAlive(c.keepAliveSecs)
    /\ sessionExpiryInterval' = c.sessionExpiryInterval
    /\ ownMaximum' = c.topicAliasMaximum
    /\ IF c.receiveMaximum = 0
       THEN UNCHANGED <<fcVars, maxPacketSize>>
       ELSE /\ FcSetOwnReceiveMaximum(c.receiveMaximum)
            /\ maxPacketSize' = IF c.maximumPacketSize > 0
                                THEN c.maximumPacketSize ELSE maxPacketSize
    /\ UNCHANGED <<pidVars, qosVars, subVars, authVars, peerMaximum,
                   identityVars, connectionState,
                   clientIdEmpty, serverCapabilities>>

\* Mutant: the unanswered PINGREQ of the former connection is not forgotten.
ResetKeepsPingreq ==
    /\ FcReset(TRUE)
    /\ QosClearQuotaCharges
    /\ peerMaximum' = 0
    /\ UNCHANGED ownMaximum
    /\ serverCapabilities' = DefaultCapabilities
    /\ UNCHANGED kaVars

\* reset_connection_state, but for the authentication state
ResetConnectionState ==
    /\ FcReset(TRUE)
    /\ QosClearQuotaCharges
    /\ peerMaximum' = 0
    /\ UNCHANGED ownMaximum
    /\ serverCapabilities' = DefaultCapabilities
    /\ KaPingrespReceived

\* connect_sent
ConnectSent ==
    /\ connectionState' = "Connecting"
    /\ ResetConnectionState
    /\ AuthReset
    /\ UNCHANGED <<pidVars, subVars, identityVars, clientIdEmpty,
                   sessionExpiryInterval, maxPacketSize>>

\* connect_sent_with_auth: connect_sent first, then the authentication starts.
ConnectSentWithAuth(method) ==
    /\ IsV5
    /\ connectionState' = "Connecting"
    /\ ResetConnectionState
    /\ AuthConnectWithAuth(method)
    /\ UNCHANGED <<pidVars, subVars, identityVars, clientIdEmpty,
                   sessionExpiryInterval, maxPacketSize>>

\* has_v5_only_fields
HasV5OnlyFields(p) ==
    \/ p.sessionExpiryInterval # None
    \/ p.receiveMaximum # None
    \/ p.topicAliasMaximum # None
    \/ p.serverKeepAlive # None
    \/ p.maximumPacketSize # None
    \/ p.maximumQos # None
    \/ \E f \in Features : p.available[f] # None
    \/ p.assignedClientIdentifier # None
    \/ p.authenticationMethod # None

\* The validation phase of apply_connack: it returns no error.
ConnackAccepted(p) ==
    /\ connectionState = "Connecting"
    /\ p.version = protocolVersion
    /\ IsV311 => ~HasV5OnlyFields(p)
    /\ p.success
    /\ ~(p.sessionPresent /\ cleanStart)
    /\ IsV5 /\ clientIdEmpty => p.assignedClientIdentifier = "Given"
    /\ p.receiveMaximum # 0
    /\ p.maximumPacketSize # 0
    /\ p.maximumQos # "ExactlyOnce"
    /\ IsV5 => AuthConnackAccepted(p.authenticationMethod)

\* unwrap_or: an option that is not given leaves the value as it is.
OrElse(option, value) == IF option = None THEN value ELSE option

\* reset_session_state
ResetSessionState ==
    /\ PidReset
    /\ QosReset
    /\ SubReset

\* connected(session_present)
Connected(sessionPresent) ==
    /\ connectionState' = "Connected"
    /\ IF cleanStart \/ ~sessionPresent
       THEN ResetSessionState
       ELSE UNCHANGED <<pidVars, qosVars, subVars>>

\* apply_connack returning Ok
ApplyConnack(p) ==
    /\ ConnackAccepted(p)
    /\ IF IsV5 THEN AuthConnackReceived ELSE UNCHANGED authVars
    /\ Connected(p.sessionPresent)
    /\ IF p.receiveMaximum = None
       THEN UNCHANGED fcVars ELSE FcSetReceiveMaximum(p.receiveMaximum)
    /\ sessionExpiryInterval' = OrElse(p.sessionExpiryInterval, sessionExpiryInterval)
    /\ peerMaximum' = OrElse(p.topicAliasMaximum, peerMaximum)
    /\ KaSetKeepAlive(OrElse(p.serverKeepAlive, keepAliveSecs))
    /\ serverCapabilities' =
           [maximumPacketSize |-> OrElse(p.maximumPacketSize,
                                         serverCapabilities.maximumPacketSize),
            maximumQos |-> OrElse(p.maximumQos, serverCapabilities.maximumQos),
            available |-> [f \in Features |->
                OrElse(p.available[f], serverCapabilities.available[f])]]
    /\ clientIdEmpty' = (clientIdEmpty /\ p.assignedClientIdentifier # "Given")
    /\ UNCHANGED <<identityVars, maxPacketSize, ownMaximum>>

\* disconnect_sent
DisconnectSent ==
    /\ connectionState' = "Disconnecting"
    /\ UNCHANGED <<pidVars, qosVars, fcVars, subVars, kaVars, authVars,
                   identityVars, clientIdEmpty, sessionExpiryInterval,
                   maxPacketSize, ownMaximum, peerMaximum, serverCapabilities>>

\* disconnect_received and disconnected
Disconnected ==
    /\ connectionState' = "Disconnected"
    /\ UNCHANGED <<pidVars, qosVars, fcVars, subVars, kaVars, authVars,
                   identityVars, clientIdEmpty, sessionExpiryInterval,
                   maxPacketSize, ownMaximum, peerMaximum, serverCapabilities>>

\* reset: everything but the limits and the client's identity
Reset ==
    /\ connectionState' = "Disconnected"
    /\ sessionExpiryInterval' = 0
    /\ PidReset
    /\ QosReset
    /\ FcReset(FALSE)
    /\ SubReset
    /\ ownMaximum' = 0
    /\ peerMaximum' = 0
    /\ KaReset
    /\ AuthReset
    /\ serverCapabilities' = DefaultCapabilities
    /\ UNCHANGED <<identityVars, clientIdEmpty, maxPacketSize>>

-----------------------------------------------------------------------------
(***************************************************************************)
(* Sending PUBLISH packets with QoS 1 and 2                                *)
(***************************************************************************)

\* allocate_packet_id returning Some(id)
AllocatePacketId(id) ==
    /\ PidAllocate(id)
    /\ UNCHANGED <<qosVars, fcVars, subVars, kaVars, authVars, sesVars>>

\* allocate_packet_id returning None
AllocatePacketIdFails ==
    /\ PidExhausted
    /\ UNCHANGED <<qosVars, fcVars, subVars, kaVars, authVars, sesVars>>

\* release_packet_id
ReleasePacketId(id) ==
    /\ PidRelease(id)
    /\ UNCHANGED <<qosVars, fcVars, subVars, kaVars, authVars, sesVars>>

\* publish_sent returning Ok; the error cases change nothing.
PublishSent(qos, id) ==
    /\ qos # "AtMostOnce"
    /\ FcPublishSent
    /\ QosPublishSent(qos, id)
    /\ UNCHANGED <<pidVars, subVars, kaVars, authVars, sesVars>>

\* abort_publish
AbortPublish(id) ==
    /\ IF IsActive(id) THEN FcPublishAcked ELSE UNCHANGED fcVars
    /\ QosRelease(id)
    /\ PidRelease(id)
    /\ UNCHANGED <<subVars, kaVars, authVars, sesVars>>

\* Mutant: the identifier of a flow that ended is not released.
FlowEndedKeepsId(id) ==
    /\ FcPublishAcked
    /\ UNCHANGED pidVars

\* The end of a flow: its quota is given back and its identifier released.
FlowEnded(id) ==
    /\ FcPublishAcked
    /\ PidRelease(id)

\* handle_puback
HandlePuback(id) ==
    /\ QosPubackReceived(id)
    /\ IF PubackResult(id) = "Complete"
       THEN FlowEnded(id) ELSE UNCHANGED <<fcVars, pidVars>>
    /\ UNCHANGED <<subVars, kaVars, authVars, sesVars>>

\* Mutant: quota is given back by every PUBREC that matches its flow.
HandlePubrecReturnsQuota(id, isError) ==
    /\ QosPubrecReceived(id, isError)
    /\ \/ /\ PubrecResult(id, isError) = "Aborted"
          /\ FlowEnded(id)
       \/ /\ PubrecResult(id, isError) = "SendPubrel"
          /\ FcPublishAcked
          /\ UNCHANGED pidVars
       \/ /\ PubrecResult(id, isError) \notin {"Aborted", "SendPubrel"}
          /\ UNCHANGED <<fcVars, pidVars>>
    /\ UNCHANGED <<subVars, kaVars, authVars, sesVars>>

\* Mutant: PUBREC gives the identifier back, before the PUBREL was answered.
HandlePubrecReleases(id, isError) ==
    /\ QosPubrecReceived(id, isError)
    /\ IF PubrecResult(id, isError) \in {"Aborted", "SendPubrel"}
       THEN FlowEnded(id) ELSE UNCHANGED <<fcVars, pidVars>>
    /\ UNCHANGED <<subVars, kaVars, authVars, sesVars>>

\* handle_pubrec
HandlePubrec(id, isError) ==
    /\ QosPubrecReceived(id, isError)
    /\ IF PubrecResult(id, isError) = "Aborted"
       THEN FlowEnded(id) ELSE UNCHANGED <<fcVars, pidVars>>
    /\ UNCHANGED <<subVars, kaVars, authVars, sesVars>>

\* handle_pubcomp
HandlePubcomp(id) ==
    /\ QosPubcompReceived(id)
    /\ IF PubcompResult(id) = "Complete"
       THEN FlowEnded(id) ELSE UNCHANGED <<fcVars, pidVars>>
    /\ UNCHANGED <<subVars, kaVars, authVars, sesVars>>

\* resend_publish answers Ok(None) for a flow that MQTT v5.0 may not repeat.
MayResendPublish(id) ==
    /\ NeedsRetransmission(id) = "ResendPublish"
    /\ outgoing[id].charged => IsV311

\* Mutant: every resent PUBLISH consumes quota, also one that already did.
ResendPublishChargesAgain(id) ==
    /\ MayResendPublish(id)
    /\ FcPublishSent
    /\ QosMarkQuotaCharged(id)
    /\ UNCHANGED <<pidVars, subVars, kaVars, authVars, sesVars>>

\* resend_publish returning Ok(Some(ResendPublish)): a flow that consumed no
\* quota on this connection consumes it now.
ResendPublish(id) ==
    /\ MayResendPublish(id)
    /\ IF outgoing[id].charged
       THEN UNCHANGED <<fcVars, qosVars>>
       ELSE FcPublishSent /\ QosMarkQuotaCharged(id)
    /\ UNCHANGED <<pidVars, subVars, kaVars, authVars, sesVars>>

-----------------------------------------------------------------------------
(***************************************************************************)
(* What the server declared unavailable is not sent                        *)
(***************************************************************************)

\* ServerCapabilities::validate_publish returning Ok
ValidatePublish(qos, retain, size) ==
    /\ QoSValue(qos) <= QoSValue(serverCapabilities.maximumQos)
    /\ retain => serverCapabilities.available["Retain"]
    /\ serverCapabilities.maximumPacketSize # None =>
           size <= serverCapabilities.maximumPacketSize

\* ServerCapabilities::validate_subscribe returning Ok, for filters with a
\* wildcard and filters that begin with "$share/"
ValidateSubscribe(entries, wildcard, shared) ==
    \A i \in DOMAIN entries :
        /\ entries[i].filter \in wildcard =>
               serverCapabilities.available["WildcardSubscription"]
        /\ entries[i].subId # NoSubId =>
               serverCapabilities.available["SubscriptionIdentifiers"]
        /\ entries[i].filter \in shared =>
               serverCapabilities.available["SharedSubscription"]

-----------------------------------------------------------------------------
(***************************************************************************)
(* Receiving PUBLISH packets with QoS 1 and 2                              *)
(***************************************************************************)

\* Whether handle_publish_qos1 and _qos2 return Ok: a repetition is not counted.
MayReceivePublish(id) == HasIncoming(id) \/ CanReceive

\* Mutant: a repeated PUBLISH is counted like a new one.
HandlePublishCountsRepetition(qos, id) ==
    /\ FcPublishReceived
    /\ IF qos = "AtLeastOnce" THEN QosPublishReceivedQos1(id)
                              ELSE QosPublishReceivedQos2(id)
    /\ UNCHANGED <<pidVars, subVars, kaVars, authVars, sesVars>>

\* handle_publish_qos1 and handle_publish_qos2 returning Ok
HandlePublish(qos, id) ==
    /\ MayReceivePublish(id)
    /\ IF HasIncoming(id) THEN UNCHANGED fcVars ELSE FcPublishReceived
    /\ IF qos = "AtLeastOnce" THEN QosPublishReceivedQos1(id)
                              ELSE QosPublishReceivedQos2(id)
    /\ UNCHANGED <<pidVars, subVars, kaVars, authVars, sesVars>>

\* puback_sent
PubackSent(id) ==
    /\ QosPubackSent(id)
    /\ FcPublishAckSent
    /\ UNCHANGED <<pidVars, subVars, kaVars, authVars, sesVars>>

\* Mutant: a PUBREC without an error frees the receive quota, too.
PubrecSentFreesQuota(isError) ==
    /\ FcPublishAckSent
    /\ UNCHANGED <<pidVars, qosVars, subVars, kaVars, authVars, sesVars>>

\* pubrec_sent
PubrecSent(isError) ==
    /\ IF isError THEN FcPublishAckSent ELSE UNCHANGED fcVars
    /\ UNCHANGED <<pidVars, qosVars, subVars, kaVars, authVars, sesVars>>

\* handle_pubrel
HandlePubrel(id) ==
    /\ QosPubrelReceived(id)
    /\ UNCHANGED <<pidVars, fcVars, subVars, kaVars, authVars, sesVars>>

\* Mutant: the end of a QoS 2 flow gives no receive quota back.
PubcompSentKeepsQuota ==
    UNCHANGED <<pidVars, qosVars, fcVars, subVars, kaVars, authVars, sesVars>>

\* pubcomp_sent
PubcompSent ==
    /\ FcPublishAckSent
    /\ UNCHANGED <<pidVars, qosVars, subVars, kaVars, authVars, sesVars>>

-----------------------------------------------------------------------------
(***************************************************************************)
(* Subscriptions                                                           *)
(***************************************************************************)

\* subscribe_sent
SubscribeSent(id, entries) ==
    /\ SubSubscribeSent(id, entries)
    /\ UNCHANGED <<pidVars, qosVars, fcVars, kaVars, authVars, sesVars>>

\* unsubscribe_sent
UnsubscribeSent(id, filters) ==
    /\ SubUnsubscribeSent(id, filters)
    /\ UNCHANGED <<pidVars, qosVars, fcVars, kaVars, authVars, sesVars>>

\* Mutant: the request stays pending after its identifier was released.
AbortSubscribeKeepsPending(id) ==
    /\ PidRelease(id)
    /\ UNCHANGED <<subVars, qosVars, fcVars, kaVars, authVars, sesVars>>

\* abort_subscribe
AbortSubscribe(id) ==
    /\ SubDropPendingSubscribe(id)
    /\ PidRelease(id)
    /\ UNCHANGED <<qosVars, fcVars, kaVars, authVars, sesVars>>

\* abort_unsubscribe
AbortUnsubscribe(id) ==
    /\ SubDropPendingUnsubscribe(id)
    /\ PidRelease(id)
    /\ UNCHANGED <<qosVars, fcVars, kaVars, authVars, sesVars>>

\* handle_suback: the identifier is released whatever the answer.
HandleSuback(id, granted) ==
    /\ SubSubackReceived(id, granted)
    /\ PidRelease(id)
    /\ UNCHANGED <<qosVars, fcVars, kaVars, authVars, sesVars>>

\* handle_unsuback
HandleUnsuback(id, gone) ==
    /\ SubUnsubackReceived(id, gone)
    /\ PidRelease(id)
    /\ UNCHANGED <<qosVars, fcVars, kaVars, authVars, sesVars>>

-----------------------------------------------------------------------------
(***************************************************************************)
(* Keep Alive and authentication                                           *)
(***************************************************************************)

Activity(now) ==
    /\ KaActivity(now)
    /\ UNCHANGED <<pidVars, qosVars, fcVars, subVars, authVars, sesVars>>

PingreqSent(now) ==
    /\ KaPingreqSent(now)
    /\ UNCHANGED <<pidVars, qosVars, fcVars, subVars, authVars, sesVars>>

PingrespReceived ==
    /\ KaPingrespReceived
    /\ UNCHANGED <<pidVars, qosVars, fcVars, subVars, authVars, sesVars>>

AuthReceived(reason, method) ==
    /\ AuthAuthReceived(reason, method)
    /\ UNCHANGED <<pidVars, qosVars, fcVars, subVars, kaVars, sesVars>>

ReauthenticateSent ==
    /\ AuthReauthenticateSent
    /\ UNCHANGED <<pidVars, qosVars, fcVars, subVars, kaVars, sesVars>>

=============================================================================
