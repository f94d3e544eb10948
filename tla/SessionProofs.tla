---------------------------- MODULE SessionProofs ----------------------------
(***************************************************************************)
(* The type invariant of the driven session, the reverse index of its      *)
(* subscriptions, what a new connection starts from, authentication, and   *)
(* the owners of packet identifiers, for every value of the constants.     *)
(***************************************************************************)
EXTENDS SessionClient, ComponentProofs

\* The session touches its components through their operations only.
LEMMA ConnectionComponentStep ==
    ASSUME TypeOK, ConnectionNext
    PROVE  ComponentStep
<1> USE DEF ComponentStep
<1>1. CASE Configure
  BY <1>1, ClientAssumption
     DEF Configure, ConfigureForConnect, ConnectConfigurations, KaNext, FcNext
<1>2. CASE Connect \/ ConnectWithAuth
  BY <1>2, ConnectSentStep DEF Connect, ConnectWithAuth, TypeOK, SessionTypeOK
<1>3. CASE ConnackArrives
  BY <1>3, ClientAssumption, ApplyConnackStep DEF ConnackArrives, TypeOK
<1>4. CASE ConnackRejected \/ ConnectionLost \/ Disconnect
  BY <1>4, DisconnectedStep
     DEF ConnackRejected, ConnectionLost, Disconnect, TypeOK, SessionTypeOK
<1>5. CASE StartOver
  BY <1>5 DEF StartOver, Reset, PidNext, QosNext, FcNext, SubNext, KaNext, AuthNext
<1> QED
  BY <1>1, <1>2, <1>3, <1>4, <1>5 DEF ConnectionNext

LEMMA SendComponentStep ==
    ASSUME SendNext
    PROVE  ComponentStep
<1> USE DEF ComponentStep
<1>1. CASE AllocateFails
  BY <1>1 DEF AllocateFails, AllocatePacketIdFails, PidNext
<1> SUFFICES ASSUME NEW id \in PacketIds,
                    \/ Allocate(id) \/ GiveBack(id) \/ GiveUpPublish(id)
                    \/ PubackArrives(id) \/ PubcompArrives(id) \/ Resend(id)
                    \/ \E isError \in BOOLEAN : PubrecArrives(id, isError)
                    \/ \E qos \in {"AtLeastOnce", "ExactlyOnce"} : Publish(qos, id)
             PROVE  ComponentStep
  BY <1>1 DEF SendNext
<1>2. CASE Allocate(id) \/ GiveBack(id)
  BY <1>2 DEF Allocate, AllocatePacketId, GiveBack, ReleasePacketId, PidNext
<1>3. CASE GiveUpPublish(id)
  BY <1>3 DEF GiveUpPublish, AbortPublish, PidNext, QosNext, FcNext
<1>4. CASE PubackArrives(id)
  BY <1>4 DEF PubackArrives, HandlePuback, FlowEnded, PidNext, QosNext, FcNext
<1>5. CASE PubcompArrives(id)
  BY <1>5 DEF PubcompArrives, HandlePubcomp, FlowEnded, PidNext, QosNext, FcNext
<1>6. CASE Resend(id)
  BY <1>6 DEF Resend, ResendPublish, QosNext, FcNext
<1>7. CASE \E isError \in BOOLEAN : PubrecArrives(id, isError)
  BY <1>7 DEF PubrecArrives, HandlePubrec, FlowEnded, PidNext, QosNext, FcNext
<1>8. CASE \E qos \in {"AtLeastOnce", "ExactlyOnce"} : Publish(qos, id)
  BY <1>8 DEF Publish, PublishSent, QosNext, FcNext
<1> QED
  BY <1>2, <1>3, <1>4, <1>5, <1>6, <1>7, <1>8

LEMMA ReceiveComponentStep ==
    ASSUME reply \in Reply, ReceiveNext
    PROVE  ComponentStep
<1> USE DEF ComponentStep
<1>1. CASE ReplySent
  <2>1. reply.type = "Puback" => reply.id \in PacketIds
    BY DEF Reply, NoReply
  <2> QED
    BY <1>1, <2>1 DEF ReplySent, PubackSent, PubrecSent, PubcompSent, QosNext, FcNext
<1>2. ASSUME NEW id \in PacketIds, TooManyPublishes(id)
      PROVE  ComponentStep
  BY <1>2 DEF TooManyPublishes, DisconnectSent
<1>3. ASSUME NEW id \in PacketIds, PubrelArrives(id)
      PROVE  ComponentStep
  BY <1>3 DEF PubrelArrives, HandlePubrel, QosNext
<1>4. ASSUME NEW id \in PacketIds, NEW qos \in {"AtLeastOnce", "ExactlyOnce"},
             NEW isError \in PubrecErrors, PublishArrives(qos, id, isError)
      PROVE  ComponentStep
  BY <1>4 DEF PublishArrives, HandlePublish, QosNext, FcNext
<1> QED
  BY <1>1, <1>2, <1>3, <1>4 DEF ReceiveNext

LEMMA SubscriptionComponentStep ==
    ASSUME SubscriptionNext
    PROVE  ComponentStep
<1> USE DEF ComponentStep
<1> SUFFICES ASSUME NEW id \in PacketIds,
                    \/ \E entries \in SubscribeRequests : Subscribe(id, entries)
                    \/ \E filters \in UnsubscribeRequests : Unsubscribe(id, filters)
                    \/ GiveUpSubscribe(id) \/ GiveUpUnsubscribe(id)
                    \/ SubackArrives(id) \/ UnsubackArrives(id)
             PROVE  ComponentStep
  BY DEF SubscriptionNext
<1>1. CASE \E entries \in SubscribeRequests : Subscribe(id, entries)
  BY <1>1 DEF Subscribe, SubscribeSent, SubNext
<1>2. CASE \E filters \in UnsubscribeRequests : Unsubscribe(id, filters)
  BY <1>2 DEF Unsubscribe, UnsubscribeSent, SubNext
<1>3. CASE GiveUpSubscribe(id)
  BY <1>3 DEF GiveUpSubscribe, AbortSubscribe, SubNext, PidNext
<1>4. CASE GiveUpUnsubscribe(id)
  BY <1>4 DEF GiveUpUnsubscribe, AbortUnsubscribe, SubNext, PidNext
<1>5. CASE SubackArrives(id)
  <2>1. PICK granted \in ReasonLists(pendingSubscribes[id]) : HandleSuback(id, granted)
    BY <1>5 DEF SubackArrives
  <2>2. granted \in Seq(BOOLEAN)
    BY DEF ReasonLists
  <2> QED
    BY <1>5, <2>1, <2>2 DEF SubackArrives, HandleSuback, SubNext, PidNext
<1>6. CASE UnsubackArrives(id)
  <2>1. PICK gone \in ReasonLists(pendingUnsubscribes[id]) \cup {<< >>} :
            HandleUnsuback(id, gone)
    BY <1>6 DEF UnsubackArrives
  <2>2. gone \in Seq(BOOLEAN)
    <3>1. CASE gone \in ReasonLists(pendingUnsubscribes[id])
      BY <3>1 DEF ReasonLists
    <3>2. CASE gone = << >>
      BY <3>2
    <3> QED
      BY <3>1, <3>2
  <2> QED
    BY <1>6, <2>1, <2>2 DEF UnsubackArrives, HandleUnsuback, SubNext, PidNext
<1> QED
  BY <1>1, <1>2, <1>3, <1>4, <1>5, <1>6

LEMMA TimerComponentStep ==
    ASSUME now \in Nat, TimerNext
    PROVE  ComponentStep
  BY DEF TimerNext, ComponentStep, Tick, PacketSent, Activity, SendPingreq,
     PingreqSent, PingrespArrives, PingrespReceived, KaNext, sessionVars

LEMMA AuthenticationComponentStep ==
    ASSUME AuthenticationNext
    PROVE  ComponentStep
  BY DEF AuthenticationNext, ComponentStep, Reauthenticate, ReauthenticateSent,
     AuthArrives, AuthReceived, AuthNext

LEMMA EveryComponentStep ==
    ASSUME TypeOK, [Next]_vars
    PROVE  ComponentStep
<1>1. CASE UNCHANGED vars
  BY <1>1 DEF vars, sessionVars, ComponentStep
<1> QED
  BY <1>1, ConnectionComponentStep, SendComponentStep, ReceiveComponentStep,
     SubscriptionComponentStep, TimerComponentStep, AuthenticationComponentStep
     DEF Next, TypeOK

-----------------------------------------------------------------------------
(***************************************************************************)
(* Types                                                                   *)
(***************************************************************************)

LEMMA InitTypeOK == Init => TypeOK
  BY SessionInitType DEF Init, TypeOK, Reply

\* The variables of the session itself
LEMMA SesTypeStep ==
    ASSUME TypeOK, [Next]_vars
    PROVE  SesTypeOK'
<1> USE DEF SesTypeOK
<1>0. SesTypeOK
  BY DEF TypeOK, SessionTypeOK
<1>1. CASE UNCHANGED sesVars
  BY <1>0, <1>1 DEF sesVars
<1>2. CASE Configure
  BY <1>0, <1>2, ClientAssumption
     DEF Configure, ConfigureForConnect, ConnectConfigurations, identityVars
<1>3. DefaultCapabilities \in ServerCapabilities
  BY DEF DefaultCapabilities, ServerCapabilities, QoSLevels
<1>4. CASE Connect \/ ConnectWithAuth
  BY <1>0, <1>4, ConnectSentStep DEF Connect, ConnectWithAuth
<1>5. CASE ConnackArrives
  BY <1>5, ClientAssumption, ApplyConnackStep DEF ConnackArrives, TypeOK
<1>6. CASE ConnackRejected \/ ConnectionLost
  BY <1>0, <1>6, DisconnectedStep DEF ConnackRejected, ConnectionLost
<1>7. CASE Disconnect \/ \E id \in PacketIds : TooManyPublishes(id)
  BY <1>0, <1>7, DisconnectedStep DEF Disconnect, TooManyPublishes
<1>8. CASE StartOver
  BY <1>0, <1>3, <1>8, U16MaxAssumption
     DEF StartOver, Reset, ConnectionStates, identityVars
<1>9. CASE SendNext
  <2>1. UNCHANGED sesVars
    BY <1>9 DEF SendNext, AllocateFails, AllocatePacketIdFails, Allocate,
       AllocatePacketId, GiveBack, ReleasePacketId, GiveUpPublish, AbortPublish,
       PubackArrives, HandlePuback, PubcompArrives, HandlePubcomp, Resend,
       ResendPublish, PubrecArrives, HandlePubrec, Publish, PublishSent
  <2> QED
    BY <1>1, <2>1
<1>10. CASE ReceiveNext
  <2>1. UNCHANGED sesVars \/ \E id \in PacketIds : TooManyPublishes(id)
    BY <1>10 DEF ReceiveNext, ReplySent, PubackSent, PubrecSent, PubcompSent,
       PubrelArrives, HandlePubrel, PublishArrives, HandlePublish
  <2> QED
    BY <1>1, <1>7, <2>1
<1>11. CASE SubscriptionNext
  <2>1. UNCHANGED sesVars
    BY <1>11 DEF SubscriptionNext, Subscribe, SubscribeSent, Unsubscribe,
       UnsubscribeSent, GiveUpSubscribe, AbortSubscribe, GiveUpUnsubscribe,
       AbortUnsubscribe, SubackArrives, HandleSuback, UnsubackArrives, HandleUnsuback
  <2> QED
    BY <1>1, <2>1
<1>12. CASE TimerNext \/ AuthenticationNext
  <2>1. UNCHANGED sesVars
    BY <1>12 DEF TimerNext, Tick, PacketSent, Activity, SendPingreq, PingreqSent,
       PingrespArrives, PingrespReceived, AuthenticationNext, Reauthenticate,
       ReauthenticateSent, AuthArrives, AuthReceived, sessionVars
  <2> QED
    BY <1>1, <2>1
<1>13. CASE UNCHANGED vars
  BY <1>1, <1>13 DEF vars, sessionVars
<1> QED
  BY <1>2, <1>4, <1>5, <1>6, <1>7, <1>8, <1>9, <1>10, <1>11, <1>12, <1>13
     DEF Next, ConnectionNext

\* The variables of the caller
LEMMA ClientTypeStep ==
    ASSUME TypeOK, [Next]_vars
    PROVE  held' \subseteq PacketIds /\ reply' \in Reply /\ now' \in Nat
<1>0. held \subseteq PacketIds /\ reply \in Reply /\ now \in Nat
  BY DEF TypeOK
<1> USE <1>0
<1>1. CASE UNCHANGED clientVars
  BY <1>1 DEF clientVars
<1>2. CASE ConnectionNext
  BY <1>1, <1>2 DEF ConnectionNext, Configure, Connect, ConnectWithAuth,
     ConnackArrives, ConnackRejected, Disconnect, ConnectionLost, StartOver, Reply
<1>3. CASE SendNext
  BY <1>1, <1>3 DEF SendNext, AllocateFails, Allocate, GiveBack, GiveUpPublish,
     PubackArrives, PubcompArrives, Resend, PubrecArrives, Publish
<1>4. ASSUME NEW id \in PacketIds, NEW qos \in {"AtLeastOnce", "ExactlyOnce"},
             NEW isError \in PubrecErrors, PublishArrives(qos, id, isError)
      PROVE  held' \subseteq PacketIds /\ reply' \in Reply /\ now' \in Nat
  BY <1>4, ClientAssumption DEF PublishArrives, Reply
<1>5. ASSUME NEW id \in PacketIds, PubrelArrives(id)
      PROVE  held' \subseteq PacketIds /\ reply' \in Reply /\ now' \in Nat
  BY <1>5 DEF PubrelArrives, Reply
<1>6. CASE ReceiveNext
  BY <1>1, <1>4, <1>5, <1>6 DEF ReceiveNext, ReplySent, TooManyPublishes, Reply
<1>7. CASE SubscriptionNext
  BY <1>1, <1>7 DEF SubscriptionNext, Subscribe, Unsubscribe, GiveUpSubscribe,
     GiveUpUnsubscribe, SubackArrives, UnsubackArrives
<1>8. CASE TimerNext \/ AuthenticationNext
  BY <1>1, <1>8 DEF TimerNext, Tick, PacketSent, SendPingreq, PingrespArrives,
     AuthenticationNext, Reauthenticate, AuthArrives
<1>9. CASE UNCHANGED vars
  BY <1>1, <1>9 DEF vars
<1> QED
  BY <1>2, <1>3, <1>6, <1>7, <1>8, <1>9 DEF Next

(***************************************************************************)
(* Type correctness: in particular neither of the two u16 counters of flow *)
(* control leaves its width, and no component ever holds a packet          *)
(* identifier of 0.                                                        *)
(***************************************************************************)
THEOREM TypeCorrect == Spec => []TypeOK
<1>1. TypeOK /\ [Next]_vars => TypeOK'
  <2> SUFFICES ASSUME TypeOK, [Next]_vars PROVE TypeOK'
    OBVIOUS
  <2>1. ComponentStep
    BY EveryComponentStep
  <2>2. SessionTypeOK'
    BY <2>1, SesTypeStep, SessionTypeStep DEF TypeOK
  <2> QED
    BY <2>2, ClientTypeStep DEF TypeOK
<1> QED
  BY <1>1, InitTypeOK, PTL DEF Spec

(***************************************************************************)
(* find_by_subscription_identifier never returns a filter that is not      *)
(* active with that identifier, never misses one and never repeats one,    *)
(* for every set of filters and identifiers and every list of reason codes *)
(* the server answers with.                                                *)
(***************************************************************************)
THEOREM SubscriptionIndexExact == Spec => []ReverseIndexExact
<1>1. Init => ReverseIndexExact
  BY SubscriptionAssumption DEF Init, SessionInit, SubInit, ReverseIndexExact
<1>2. TypeOK /\ ReverseIndexExact /\ [Next]_vars => ReverseIndexExact'
  BY EveryComponentStep, ReverseIndexStep DEF ComponentStep, TypeOK, SessionTypeOK
<1> QED
  BY <1>1, <1>2, TypeCorrect, PTL DEF Spec

-----------------------------------------------------------------------------
(***************************************************************************)
(* What a new connection starts from, and its authentication               *)
(***************************************************************************)

\* Only an idle machine knows no method.
LEMMA AuthMethodStep ==
    ASSUME authState # "Idle" => authMethod \in AuthMethods, [AuthNext]_authVars
    PROVE  (authState # "Idle" => authMethod \in AuthMethods)'
<1>1. CASE \E reason \in AuthReasons, method \in AuthMethods \cup {None} :
               AuthAuthReceived(reason, method)
  BY <1>1 DEF AuthAuthReceived, AuthReceivedResult, AuthLegal, authVars
<1> QED
  BY <1>1 DEF AuthNext, authVars, AuthConnackReceived, AuthReauthenticateSent,
     AuthReset, AuthConnectWithAuth

(***************************************************************************)
(* The expect("auth_method must be set while authenticating") of           *)
(* auth_received and connack_received never panics, whatever AUTH and      *)
(* CONNACK packets arrive.                                                 *)
(***************************************************************************)
THEOREM MethodKnownWhileAuthenticating == Spec => []AuthMethodKnown
<1> DEFINE Inv == authState # "Idle" => authMethod \in AuthMethods
<1>1. Init => Inv
  BY DEF Init, SessionInit, AuthInit
<1>2. TypeOK /\ Inv /\ [Next]_vars => Inv'
  BY EveryComponentStep, AuthMethodStep DEF ComponentStep
<1>3. Inv => AuthMethodKnown
  BY AuthMethodsAssumption DEF AuthMethodKnown
<1> QED
  BY <1>1, <1>2, <1>3, TypeCorrect, PTL DEF Spec

-----------------------------------------------------------------------------

\* Outside of the connection handling nothing but a DISCONNECT moves the
\* connection state.
LEMMA OtherConnectionState ==
    ASSUME [Next]_vars, ~ConnectionNext
    PROVE  /\ UNCHANGED <<protocolVersion, cleanStart, peerMaximum, serverCapabilities>>
           /\ connectionState' \in {connectionState, "Disconnecting"}
<1>1. CASE SendNext
  BY <1>1 DEF SendNext, AllocateFails, AllocatePacketIdFails, Allocate,
     AllocatePacketId, GiveBack, ReleasePacketId, GiveUpPublish, AbortPublish,
     PubackArrives, HandlePuback, PubcompArrives, HandlePubcomp, Resend,
     ResendPublish, PubrecArrives, HandlePubrec, Publish, PublishSent, sesVars
<1>2. CASE ReceiveNext
  BY <1>2 DEF ReceiveNext, ReplySent, PubackSent, PubrecSent, PubcompSent,
     TooManyPublishes, DisconnectSent, PubrelArrives, HandlePubrel,
     PublishArrives, HandlePublish, sesVars, identityVars
<1>3. CASE SubscriptionNext
  BY <1>3 DEF SubscriptionNext, Subscribe, SubscribeSent, Unsubscribe,
     UnsubscribeSent, GiveUpSubscribe, AbortSubscribe, GiveUpUnsubscribe,
     AbortUnsubscribe, SubackArrives, HandleSuback, UnsubackArrives,
     HandleUnsuback, sesVars
<1>4. CASE TimerNext \/ AuthenticationNext \/ UNCHANGED vars
  BY <1>4 DEF TimerNext, Tick, PacketSent, Activity, SendPingreq, PingreqSent,
     PingrespArrives, PingrespReceived, AuthenticationNext, Reauthenticate,
     ReauthenticateSent, AuthArrives, AuthReceived, sessionVars, sesVars, vars
<1> QED
  BY <1>1, <1>2, <1>3, <1>4 DEF Next

\* Only AUTH packets and a re-authentication change the authentication then.
LEMMA OtherAuthentication ==
    ASSUME [Next]_vars, ~ConnectionNext
    PROVE  \/ UNCHANGED authVars
           \/ IsConnected /\ AuthReauthenticateSent
           \/ \E reason \in AuthReasons, method \in AuthMethods \cup {None} :
                 IsV5 /\ AuthAuthReceived(reason, method)
<1>1. CASE SendNext
  BY <1>1 DEF SendNext, AllocateFails, AllocatePacketIdFails, Allocate,
     AllocatePacketId, GiveBack, ReleasePacketId, GiveUpPublish, AbortPublish,
     PubackArrives, HandlePuback, PubcompArrives, HandlePubcomp, Resend,
     ResendPublish, PubrecArrives, HandlePubrec, Publish, PublishSent
<1>2. CASE ReceiveNext
  BY <1>2 DEF ReceiveNext, ReplySent, PubackSent, PubrecSent, PubcompSent,
     TooManyPublishes, DisconnectSent, PubrelArrives, HandlePubrel,
     PublishArrives, HandlePublish
<1>3. CASE SubscriptionNext
  BY <1>3 DEF SubscriptionNext, Subscribe, SubscribeSent, Unsubscribe,
     UnsubscribeSent, GiveUpSubscribe, AbortSubscribe, GiveUpUnsubscribe,
     AbortUnsubscribe, SubackArrives, HandleSuback, UnsubackArrives, HandleUnsuback
<1>4. CASE TimerNext \/ UNCHANGED vars
  BY <1>4 DEF TimerNext, Tick, PacketSent, Activity, SendPingreq, PingreqSent,
     PingrespArrives, PingrespReceived, sessionVars, vars
<1>5. CASE AuthenticationNext
  BY <1>5 DEF AuthenticationNext, Reauthenticate, ReauthenticateSent,
     AuthArrives, AuthReceived
<1> QED
  BY <1>1, <1>2, <1>3, <1>4, <1>5 DEF Next

(***************************************************************************)
(* A CONNACK never completes a connection whose initial authentication is  *)
(* still open, and an MQTT v3.1.1 session never authenticates: the checks  *)
(* of apply_connack, connect_sent_with_auth and auth_received together     *)
(* keep the two state machines in step.                                    *)
(***************************************************************************)
THEOREM AuthenticationInStep == Spec => []AuthenticatedBeforeConnected
<1> USE DEF AuthenticatedBeforeConnected, IsConnected, IsV5
<1>1. Init => AuthenticatedBeforeConnected
  BY DEF Init, SessionInit, AuthInit
<1>2. AuthenticatedBeforeConnected /\ [Next]_vars => AuthenticatedBeforeConnected'
  <2> SUFFICES ASSUME AuthenticatedBeforeConnected, [Next]_vars
               PROVE  AuthenticatedBeforeConnected'
    OBVIOUS
  <2>1. CASE Configure
    BY <2>1 DEF Configure, ConfigureForConnect, authVars, identityVars
  <2>2. CASE Connect
    BY <2>2 DEF Connect, ConnectSent, AuthReset, identityVars
  <2>3. CASE ConnectWithAuth
    BY <2>3 DEF ConnectWithAuth, ConnectSentWithAuth, AuthConnectWithAuth, identityVars
  <2>4. CASE ConnackArrives
    BY <2>4 DEF ConnackArrives, ApplyConnack, Connected, AuthConnackReceived,
       authVars, identityVars
  <2>5. CASE ConnackRejected \/ ConnectionLost \/ Disconnect
    BY <2>5 DEF ConnackRejected, ConnectionLost, Disconnected, Disconnect,
       DisconnectSent, authVars, identityVars
  <2>6. CASE StartOver
    BY <2>6 DEF StartOver, Reset, AuthReset, identityVars
  <2>7. CASE ~ConnectionNext
    <3>1. UNCHANGED protocolVersion /\ connectionState' \in {connectionState, "Disconnecting"}
      BY <2>7, OtherConnectionState
    <3>2. authState' # "Idle" => authState # "Idle"
      BY <2>7, OtherAuthentication DEF authVars, AuthReauthenticateSent,
         AuthAuthReceived, AuthReceivedResult, AuthLegal
    <3>3. authState' = "InitialAuthenticating" => authState = "InitialAuthenticating"
      BY <2>7, OtherAuthentication DEF authVars, AuthReauthenticateSent, AuthAuthReceived
    <3> QED
      BY <3>1, <3>2, <3>3
  <2> QED
    BY <2>1, <2>2, <2>3, <2>4, <2>5, <2>6, <2>7 DEF ConnectionNext
<1> QED
  BY <1>1, <1>2, PTL DEF Spec

-----------------------------------------------------------------------------

\* The part of FreshConnection that connect_sent establishes
Fresh ==
    /\ receiveMaximum = U16Max /\ ~initialized
    /\ outstandingCount = 0 /\ incomingCount = 0
    /\ ChargedIds = {}
    /\ peerMaximum = 0
    /\ serverCapabilities = DefaultCapabilities
    /\ pingreqSentAt = None
    /\ authState \in {"Idle", "InitialAuthenticating"}

LEMMA FreshAfterConnect ==
    ASSUME Connect \/ ConnectWithAuth
    PROVE  Fresh'
<1>1. FcReset(TRUE) /\ QosClearQuotaCharges /\ KaPingrespReceived
      /\ peerMaximum' = 0 /\ serverCapabilities' = DefaultCapabilities
  BY DEF Connect, ConnectWithAuth, ConnectSent, ConnectSentWithAuth, ResetConnectionState
<1>2. /\ receiveMaximum' = U16Max /\ initialized' = FALSE
      /\ outstandingCount' = 0 /\ incomingCount' = 0
      /\ pingreqSentAt' = None
  BY <1>1 DEF FcReset, KaPingrespReceived
<1>3. ChargedIds' = {}
  BY <1>1 DEF QosClearQuotaCharges, ChargedIds
<1>4. authState' \in {"Idle", "InitialAuthenticating"}
  BY DEF Connect, ConnectWithAuth, ConnectSent, ConnectSentWithAuth, AuthReset,
     AuthConnectWithAuth
<1> QED
  BY <1>1, <1>2, <1>3, <1>4 DEF Fresh

\* While the client waits for CONNACK the caller may withdraw what it sent
\* before; that gives back no quota, because none was consumed.
LEMMA FreshWhileConnecting ==
    ASSUME TypeOK, Fresh, connectionState = "Connecting", [Next]_vars, ~ConnectionNext
    PROVE  Fresh'
<1> USE DEF Fresh
<1>1. UNCHANGED <<peerMaximum, serverCapabilities>>
  BY OtherConnectionState
<1>2. authState' \in {"Idle", "InitialAuthenticating"}
  BY OtherAuthentication DEF authVars, IsConnected, AuthAuthReceived,
     AuthReceivedResult, AuthLegal
<1>3. CASE UNCHANGED <<fcVars, outgoing, pingreqSentAt>>
  BY <1>1, <1>2, <1>3 DEF fcVars, ChargedIds
<1>4. ASSUME NEW id \in PacketIds, GiveUpPublish(id)
      PROVE  Fresh'
  <2>1. outgoing' = [outgoing EXCEPT ![id] = NoFlow] /\ UNCHANGED kaVars
    BY <1>4 DEF GiveUpPublish, AbortPublish, QosRelease
  <2>2. ChargedIds' = {}
    BY <2>1 DEF ChargedIds, NoFlow, TypeOK, SessionTypeOK, QosTypeOK
  <2>3. UNCHANGED fcVars
    BY <1>4 DEF GiveUpPublish, AbortPublish, FcPublishAcked, Decremented, fcVars,
       fcReceiveVars
  <2> QED
    BY <1>1, <1>2, <2>1, <2>2, <2>3 DEF fcVars, kaVars
<1>5. CASE SendNext
  BY <1>3, <1>4, <1>5 DEF SendNext, AllocateFails, Allocate, GiveBack,
     ReleasePacketId, PubackArrives, PubcompArrives, Resend, PubrecArrives,
     Publish, IsConnected, qosVars, kaVars
<1>6. CASE ReceiveNext
  <2>1. CASE ReplySent
    <3>1. UNCHANGED <<kaVars, outgoing>>
      BY <2>1 DEF ReplySent, PubackSent, QosPubackSent, PubrecSent, PubcompSent, qosVars
    <3>2. UNCHANGED fcVars
      BY <2>1 DEF ReplySent, PubackSent, PubrecSent, PubcompSent, FcPublishAckSent,
         Decremented, fcVars, fcSendVars
    <3> QED
      BY <1>3, <3>1, <3>2 DEF kaVars
  <2> QED
    BY <1>6, <2>1 DEF ReceiveNext, TooManyPublishes, PubrelArrives,
       PublishArrives, IsConnected
<1>7. CASE SubscriptionNext
  BY <1>3, <1>7 DEF SubscriptionNext, Subscribe, Unsubscribe, GiveUpSubscribe,
     AbortSubscribe, GiveUpUnsubscribe, AbortUnsubscribe, SubackArrives,
     UnsubackArrives, IsConnected, qosVars, kaVars
<1>8. CASE TimerNext
  BY <1>3, <1>8 DEF TimerNext, Tick, PacketSent, Activity, KaActivity, SendPingreq,
     PingrespArrives, IsConnected, sessionVars, qosVars, kaVars
<1>9. CASE AuthenticationNext \/ UNCHANGED vars
  BY <1>3, <1>9 DEF AuthenticationNext, Reauthenticate, ReauthenticateSent,
     AuthArrives, AuthReceived, vars, sessionVars, qosVars, kaVars
<1> QED
  BY <1>5, <1>6, <1>7, <1>8, <1>9 DEF Next

(***************************************************************************)
(* connect_sent leaves nothing of an earlier connection behind, and        *)
(* nothing that may happen before the CONNACK brings any of it back: in    *)
(* particular the quotas of the new connection start full.                 *)
(***************************************************************************)
THEOREM ConnectionStartsFresh == Spec => []FreshConnection
<1>1. Init => FreshConnection
  BY DEF Init, SessionInit, FreshConnection
<1>2. TypeOK /\ FreshConnection /\ [Next]_vars => FreshConnection'
  <2> SUFFICES ASSUME TypeOK, FreshConnection, [Next]_vars,
                      connectionState' = "Connecting"
               PROVE  Fresh'
    BY DEF FreshConnection, Fresh
  <2>1. CASE Connect \/ ConnectWithAuth
    BY <2>1, FreshAfterConnect
  <2>2. CASE ConnectionNext /\ ~(Connect \/ ConnectWithAuth)
    BY <2>2 DEF ConnectionNext, Configure, ConfigureForConnect, ConnackArrives,
       ApplyConnack, Connected, ConnackRejected, Disconnected, Disconnect,
       DisconnectSent, ConnectionLost, StartOver, Reset
  <2>3. CASE ~ConnectionNext
    <3>1. connectionState = "Connecting"
      BY <2>3, OtherConnectionState
    <3>2. Fresh
      BY <3>1 DEF FreshConnection, Fresh
    <3> QED
      BY <2>3, <3>1, <3>2, FreshWhileConnecting
  <2> QED
    BY <2>1, <2>2, <2>3
<1> QED
  BY <1>1, <1>2, TypeCorrect, PTL DEF Spec

-----------------------------------------------------------------------------
(***************************************************************************)
(* The ownership of packet identifiers.                                    *)
(*                                                                         *)
(* IdOwnership is inductive but for one case: the CONNACK that starts a    *)
(* new session empties the pool, so nothing may be held by the caller at   *)
(* that moment.                                                            *)
(***************************************************************************)

\* The caller registered or gave back what it allocated before it connects.
NothingHeldToConnect == connectionState = "Connecting" => held = {}

OwnershipInv == IdOwnership /\ NothingHeldToConnect

LEMMA OutgoingRemoved ==
    ASSUME QosTypeOK, NEW id \in PacketIds,
           outgoing' = [outgoing EXCEPT ![id] = NoFlow]
    PROVE  OutgoingIds' = OutgoingIds \ {id}
  BY DEF QosTypeOK, OutgoingIds, HasOutgoing, NoFlow

LEMMA OutgoingKept ==
    ASSUME QosTypeOK, QosTypeOK',
           \A i \in PacketIds : outgoing'[i].state = "None" <=> outgoing[i].state = "None"
    PROVE  OutgoingIds' = OutgoingIds
  BY DEF OutgoingIds, HasOutgoing

LEMMA OutgoingAdded ==
    ASSUME QosTypeOK, NEW id \in PacketIds, ~HasOutgoing(id),
           NEW qos \in {"AtLeastOnce", "ExactlyOnce"}, QosPublishSent(qos, id)
    PROVE  OutgoingIds' = OutgoingIds \cup {id}
<1> DEFINE flow(state) == [state |-> state, seq |-> nextSeq, charged |-> TRUE]
<1>1. PICK state \in OutgoingStates :
          outgoing' = [outgoing EXCEPT ![id] = flow(state)]
  BY DEF QosPublishSent, OutgoingStates
<1> QED
  BY <1>1 DEF QosTypeOK, OutgoingIds, HasOutgoing, OutgoingStates

LEMMA PendingSubscribeAdded ==
    ASSUME SubTypeOK, NEW id \in PacketIds, NEW entries \in SubscribeRequests,
           SubSubscribeSent(id, entries)
    PROVE  /\ PendingSubscribeIds' = PendingSubscribeIds \cup {id}
           /\ PendingUnsubscribeIds' = PendingUnsubscribeIds
  BY SubscriptionAssumption
     DEF SubTypeOK, SubSubscribeSent, PendingSubscribeIds, PendingUnsubscribeIds

LEMMA PendingUnsubscribeAdded ==
    ASSUME SubTypeOK, NEW id \in PacketIds, NEW filters \in UnsubscribeRequests,
           SubUnsubscribeSent(id, filters)
    PROVE  /\ PendingUnsubscribeIds' = PendingUnsubscribeIds \cup {id}
           /\ PendingSubscribeIds' = PendingSubscribeIds
  BY SubscriptionAssumption
     DEF SubTypeOK, SubUnsubscribeSent, PendingSubscribeIds, PendingUnsubscribeIds

LEMMA PendingSubscribeRemoved ==
    ASSUME SubTypeOK, NEW id \in PacketIds, NEW codes,
           SubDropPendingSubscribe(id) \/ SubSubackReceived(id, codes)
    PROVE  /\ PendingSubscribeIds' = PendingSubscribeIds \ {id}
           /\ PendingUnsubscribeIds' = PendingUnsubscribeIds
<1>1. /\ pendingSubscribes' = [pendingSubscribes EXCEPT ![id] = << >>]
      /\ UNCHANGED pendingUnsubscribes
  BY DEF SubDropPendingSubscribe, SubSubackReceived
<1> QED
  BY <1>1 DEF SubTypeOK, PendingSubscribeIds, PendingUnsubscribeIds

LEMMA PendingUnsubscribeRemoved ==
    ASSUME SubTypeOK, NEW id \in PacketIds, NEW codes,
           SubDropPendingUnsubscribe(id) \/ SubUnsubackReceived(id, codes)
    PROVE  /\ PendingUnsubscribeIds' = PendingUnsubscribeIds \ {id}
           /\ PendingSubscribeIds' = PendingSubscribeIds
<1>1. /\ pendingUnsubscribes' = [pendingUnsubscribes EXCEPT ![id] = << >>]
      /\ UNCHANGED pendingSubscribes
  BY DEF SubDropPendingUnsubscribe, SubUnsubackReceived
<1> QED
  BY <1>1 DEF SubTypeOK, PendingSubscribeIds, PendingUnsubscribeIds

\* An identifier the pool hands out has no owner.
LEMMA AllocatedIsFree ==
    ASSUME PidTypeOK, PoolPartition, NEW id \in PacketIds, PidAllocate(id)
    PROVE  id \notin inUse /\ inUse' = inUse \cup {id}
  BY DEF PidAllocate, PoolPartition, Candidates, FreshIds

LEMMA ReleasedIsFree ==
    ASSUME NEW id \in PacketIds, PidRelease(id)
    PROVE  inUse' = inUse \ {id}
  BY DEF PidRelease

-----------------------------------------------------------------------------
(***************************************************************************)
(* The steps of the caller and of the server, by what they do to owners    *)
(***************************************************************************)

LEMMA ResetOwners ==
    ASSUME PidReset, QosReset, SubReset
    PROVE  /\ inUse' = {}
           /\ OutgoingIds' = {}
           /\ PendingSubscribeIds' = {}
           /\ PendingUnsubscribeIds' = {}
<1>1. OutgoingIds' = {}
  BY DEF QosReset, OutgoingIds, HasOutgoing, NoFlow
<1> QED
  BY <1>1 DEF PidReset, SubReset, PendingSubscribeIds, PendingUnsubscribeIds

\* Owners of identifiers that depend on a component the step leaves alone
LEMMA OwnersKept ==
    /\ UNCHANGED pidVars => UNCHANGED inUse
    /\ UNCHANGED qosVars => UNCHANGED OutgoingIds
    /\ UNCHANGED subVars => UNCHANGED <<PendingSubscribeIds, PendingUnsubscribeIds>>
    /\ UNCHANGED clientVars => UNCHANGED held
  BY DEF pidVars, qosVars, subVars, clientVars, OutgoingIds, HasOutgoing,
     PendingSubscribeIds, PendingUnsubscribeIds

\* A connection that comes and goes changes no owner, unless it resets all.
LEMMA ConnectionOwners ==
    ASSUME TypeOK, TypeOK', OwnershipInv, PoolPartition', ConnectionNext
    PROVE  OwnershipInv'
<1> USE OwnersKept DEF OwnershipInv, NothingHeldToConnect, IdOwnership
<1>1. CASE Configure
  BY <1>1 DEF Configure, ConfigureForConnect
<1>2. CASE Connect \/ ConnectWithAuth
  <2>1. QosClearQuotaCharges /\ UNCHANGED <<pidVars, subVars, held>> /\ held = {}
    BY <1>2 DEF Connect, ConnectWithAuth, ConnectSent, ConnectSentWithAuth,
       ResetConnectionState, ReadyToConnect, clientVars
  <2>2. UNCHANGED OutgoingIds
    BY <2>1, OutgoingKept DEF QosClearQuotaCharges, TypeOK, SessionTypeOK,
       QosTypeOK, OutgoingFlow
  <2> QED
    BY <2>1, <2>2
<1>3. CASE ConnackArrives
  <2>1. connectionState = "Connecting" /\ connectionState' = "Connected"
        /\ UNCHANGED held
    BY <1>3 DEF ConnackArrives, ApplyConnack, ConnackAccepted, Connected, clientVars
  <2>2. CASE UNCHANGED <<pidVars, qosVars, subVars>>
    BY <2>1, <2>2
  <2>3. CASE PidReset /\ QosReset /\ SubReset
    BY <2>1, <2>3, ResetOwners
  <2> QED
    BY <1>3, <2>2, <2>3 DEF ConnackArrives, ApplyConnack, Connected, ResetSessionState
<1>4. CASE ConnackRejected \/ ConnectionLost
  BY <1>4 DEF ConnackRejected, ConnectionLost, Disconnected, clientVars
<1>5. CASE Disconnect
  BY <1>5 DEF Disconnect, DisconnectSent
<1>6. CASE StartOver
  BY <1>6, ResetOwners DEF StartOver, Reset
<1> QED
  BY <1>1, <1>2, <1>3, <1>4, <1>5, <1>6 DEF ConnectionNext

\* An outgoing flow that ends gives its identifier back.
LEMMA EndOfFlow ==
    ASSUME TypeOK, OwnershipInv, PoolPartition', NEW id \in PacketIds,
           HasOutgoing(id), outgoing' = [outgoing EXCEPT ![id] = NoFlow],
           PidRelease(id), UNCHANGED <<subVars, held, connectionState>>
    PROVE  OwnershipInv'
  BY OwnersKept, OutgoingRemoved, ReleasedIsFree
     DEF OwnershipInv, NothingHeldToConnect, IdOwnership, TypeOK, SessionTypeOK, OutgoingIds

LEMMA SendOwners ==
    ASSUME TypeOK, TypeOK', OwnershipInv, PoolPartition', SendNext
    PROVE  OwnershipInv'
<1> USE OwnersKept DEF OwnershipInv, NothingHeldToConnect, IdOwnership
<1>0. PidTypeOK /\ QosTypeOK /\ QosTypeOK'
  BY DEF TypeOK, SessionTypeOK
<1>1. CASE AllocateFails
  BY <1>1 DEF AllocateFails, AllocatePacketIdFails, PidExhausted, sesVars
<1>2. ASSUME NEW id \in PacketIds, Allocate(id)
      PROVE  OwnershipInv'
  BY <1>0, <1>2, AllocatedIsFree DEF Allocate, AllocatePacketId, IsConnected, sesVars
<1>3. ASSUME NEW id \in PacketIds, GiveBack(id)
      PROVE  OwnershipInv'
  BY <1>3, ReleasedIsFree DEF GiveBack, ReleasePacketId, sesVars
<1>4. ASSUME NEW id \in PacketIds, GiveUpPublish(id)
      PROVE  OwnershipInv'
  BY <1>4, EndOfFlow DEF GiveUpPublish, AbortPublish, QosRelease, sesVars, clientVars
<1>5. ASSUME NEW id \in PacketIds, PubackArrives(id)
      PROVE  OwnershipInv'
  <2>1. CASE PubackResult(id) = "Complete"
    <3>1. HasOutgoing(id)
      BY <2>1 DEF PubackResult, Unmatched, HasOutgoing
    <3> QED
      BY <1>5, <2>1, <3>1, EndOfFlow DEF PubackArrives, HandlePuback,
         QosPubackReceived, FlowEnded, sesVars, clientVars
  <2>2. CASE PubackResult(id) # "Complete"
    BY <1>5, <2>2 DEF PubackArrives, HandlePuback, QosPubackReceived, qosVars,
       sesVars, clientVars
  <2> QED
    BY <2>1, <2>2
<1>6. ASSUME NEW id \in PacketIds, PubcompArrives(id)
      PROVE  OwnershipInv'
  <2>1. CASE PubcompResult(id) = "Complete"
    <3>1. HasOutgoing(id)
      BY <2>1 DEF PubcompResult, Unmatched, HasOutgoing
    <3> QED
      BY <1>6, <2>1, <3>1, EndOfFlow DEF PubcompArrives, HandlePubcomp,
         QosPubcompReceived, FlowEnded, sesVars, clientVars
  <2>2. CASE PubcompResult(id) # "Complete"
    BY <1>6, <2>2 DEF PubcompArrives, HandlePubcomp, QosPubcompReceived, qosVars,
       sesVars, clientVars
  <2> QED
    BY <2>1, <2>2
<1>7. ASSUME NEW id \in PacketIds, NEW isError \in BOOLEAN, PubrecArrives(id, isError)
      PROVE  OwnershipInv'
  <2> USE <1>7 DEF PubrecArrives, HandlePubrec
  <2>1. CASE PubrecResult(id, isError) = "Aborted"
    <3>1. isError /\ outgoing[id].state = "AwaitingPubrec"
      BY <2>1 DEF PubrecResult, Unmatched
    <3> QED
      BY <2>1, <3>1, EndOfFlow DEF QosPubrecReceived, FlowEnded, HasOutgoing,
         sesVars, clientVars
  <2>2. CASE PubrecResult(id, isError) # "Aborted"
    <3>1. ~(isError /\ outgoing[id].state = "AwaitingPubrec")
      BY <2>2 DEF PubrecResult
    <3>2. UNCHANGED OutgoingIds
      BY <1>0, <3>1, OutgoingKept DEF QosPubrecReceived, QosTypeOK, OutgoingFlow
    <3> QED
      BY <2>2, <3>2 DEF sesVars, clientVars
  <2> QED
    BY <2>1, <2>2
<1>8. ASSUME NEW id \in PacketIds, Resend(id)
      PROVE  OwnershipInv'
  <2>1. UNCHANGED OutgoingIds
    BY <1>0, <1>8, OutgoingKept DEF Resend, ResendPublish, QosMarkQuotaCharged,
       QosTypeOK, OutgoingFlow
  <2> QED
    BY <1>8, <2>1 DEF Resend, ResendPublish, sesVars, clientVars
<1>9. ASSUME NEW id \in PacketIds, NEW qos \in {"AtLeastOnce", "ExactlyOnce"},
             Publish(qos, id)
      PROVE  OwnershipInv'
  <2>1. ~HasOutgoing(id)
    BY <1>9 DEF Publish, OutgoingIds
  <2>2. OutgoingIds' = OutgoingIds \cup {id}
    BY <1>0, <1>9, <2>1, OutgoingAdded DEF Publish, PublishSent
  <2> QED
    BY <1>9, <2>2 DEF Publish, PublishSent, IsConnected, sesVars
<1> QED
  BY <1>1, <1>2, <1>3, <1>4, <1>5, <1>6, <1>7, <1>8, <1>9 DEF SendNext

\* The flows of the receiving direction own no identifier of the pool.
LEMMA ReceiveOwners ==
    ASSUME OwnershipInv, PoolPartition', ReceiveNext
    PROVE  OwnershipInv'
<1>1. UNCHANGED <<pidVars, subVars, outgoing, held>>
  BY DEF ReceiveNext, ReplySent, PubackSent, QosPubackSent, PubrecSent, PubcompSent,
     TooManyPublishes, DisconnectSent, PubrelArrives, HandlePubrel,
     QosPubrelReceived, PublishArrives, HandlePublish, QosPublishReceivedQos1,
     QosPublishReceivedQos2, qosVars, clientVars
<1>2. connectionState' = "Connecting" => connectionState = "Connecting"
  BY DEF ReceiveNext, ReplySent, PubackSent, PubrecSent, PubcompSent,
     TooManyPublishes, DisconnectSent, PubrelArrives, HandlePubrel,
     PublishArrives, HandlePublish, sesVars
<1> QED
  BY <1>1, <1>2, OwnersKept DEF OwnershipInv, NothingHeldToConnect, IdOwnership,
     OutgoingIds, HasOutgoing

LEMMA SubscriptionOwners ==
    ASSUME TypeOK, OwnershipInv, PoolPartition', SubscriptionNext
    PROVE  OwnershipInv'
<1> USE OwnersKept DEF OwnershipInv, NothingHeldToConnect, IdOwnership
<1>0. SubTypeOK
  BY DEF TypeOK, SessionTypeOK
<1>1. ASSUME NEW id \in PacketIds, NEW entries \in SubscribeRequests,
             Subscribe(id, entries)
      PROVE  OwnershipInv'
  BY <1>0, <1>1, PendingSubscribeAdded DEF Subscribe, SubscribeSent, IsConnected, sesVars
<1>2. ASSUME NEW id \in PacketIds, NEW filters \in UnsubscribeRequests,
             Unsubscribe(id, filters)
      PROVE  OwnershipInv'
  BY <1>0, <1>2, PendingUnsubscribeAdded
     DEF Unsubscribe, UnsubscribeSent, IsConnected, sesVars
<1>3. ASSUME NEW id \in PacketIds, GiveUpSubscribe(id) \/ SubackArrives(id)
      PROVE  OwnershipInv'
  <2>1. PidRelease(id) /\ id \in PendingSubscribeIds
        /\ UNCHANGED <<qosVars, held, connectionState>>
    BY <1>3 DEF GiveUpSubscribe, AbortSubscribe, SubackArrives, HandleSuback,
       sesVars, clientVars
  <2>2. PendingSubscribeIds' = PendingSubscribeIds \ {id} /\ UNCHANGED PendingUnsubscribeIds
    BY <1>0, <1>3, PendingSubscribeRemoved DEF GiveUpSubscribe, AbortSubscribe,
       SubackArrives, HandleSuback
  <2> QED
    BY <2>1, <2>2, ReleasedIsFree
<1>4. ASSUME NEW id \in PacketIds, GiveUpUnsubscribe(id) \/ UnsubackArrives(id)
      PROVE  OwnershipInv'
  <2>1. PidRelease(id) /\ id \in PendingUnsubscribeIds
        /\ UNCHANGED <<qosVars, held, connectionState>>
    BY <1>4 DEF GiveUpUnsubscribe, AbortUnsubscribe, UnsubackArrives, HandleUnsuback,
       sesVars, clientVars
  <2>2. PendingUnsubscribeIds' = PendingUnsubscribeIds \ {id} /\ UNCHANGED PendingSubscribeIds
    BY <1>0, <1>4, PendingUnsubscribeRemoved DEF GiveUpUnsubscribe,
       AbortUnsubscribe, UnsubackArrives, HandleUnsuback
  <2> QED
    BY <2>1, <2>2, ReleasedIsFree
<1> QED
  BY <1>1, <1>2, <1>3, <1>4 DEF SubscriptionNext

LEMMA OtherOwners ==
    ASSUME OwnershipInv, PoolPartition',
           TimerNext \/ AuthenticationNext \/ UNCHANGED vars
    PROVE  OwnershipInv'
<1>1. UNCHANGED <<pidVars, qosVars, subVars, held, connectionState>>
  BY DEF TimerNext, Tick, PacketSent, Activity, SendPingreq, PingreqSent,
     PingrespArrives, PingrespReceived, AuthenticationNext, Reauthenticate,
     ReauthenticateSent, AuthArrives, AuthReceived, sessionVars, sesVars,
     clientVars, vars
<1> QED
  BY <1>1, OwnersKept DEF OwnershipInv, NothingHeldToConnect, IdOwnership

-----------------------------------------------------------------------------

(***************************************************************************)
(* Every identifier in use has exactly one owner, for every size of the    *)
(* pool and whatever the server answers: allocate_packet_id never hands    *)
(* out an identifier that a PUBLISH, a SUBSCRIBE or an UNSUBSCRIBE still   *)
(* uses ([MQTT-2.2.1-3]), and no handler, abort or reset leaks one.        *)
(***************************************************************************)
THEOREM IdentifiersOwned == Spec => []IdOwnership
<1>1. Init => OwnershipInv
  <2> SUFFICES ASSUME Init PROVE OwnershipInv
    OBVIOUS
  <2>1. /\ OutgoingIds = {}
        /\ PendingSubscribeIds = {}
        /\ PendingUnsubscribeIds = {}
    BY DEF Init, SessionInit, QosInit, SubInit, OutgoingIds, HasOutgoing, NoFlow,
       PendingSubscribeIds, PendingUnsubscribeIds
  <2>2. PoolPartition /\ inUse = {} /\ held = {}
    BY DEF Init, SessionInit, PidInit, PoolPartition
  <2> QED
    BY <2>1, <2>2 DEF OwnershipInv, IdOwnership, NothingHeldToConnect
<1>2. TypeOK /\ TypeOK' /\ OwnershipInv /\ [Next]_vars => OwnershipInv'
  <2> SUFFICES ASSUME TypeOK, TypeOK', OwnershipInv, [Next]_vars
               PROVE  OwnershipInv'
    OBVIOUS
  <2>1. PoolPartition'
    BY EveryComponentStep, PoolPartitionStep
       DEF ComponentStep, TypeOK, SessionTypeOK, OwnershipInv, IdOwnership
  <2> QED
    BY <2>1, ConnectionOwners, SendOwners, ReceiveOwners, SubscriptionOwners,
       OtherOwners DEF Next
<1>3. OwnershipInv => IdOwnership
  BY DEF OwnershipInv
<1> QED
  BY <1>1, <1>2, <1>3, TypeCorrect, PTL DEF Spec

=============================================================================
