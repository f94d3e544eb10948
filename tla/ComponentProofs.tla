--------------------------- MODULE ComponentProofs ---------------------------
(***************************************************************************)
(* What every operation of a single component preserves: its types, the    *)
(* partition of the identifier pool, and the reverse index of the          *)
(* subscriptions.  The proofs about the session rest on these, because a   *)
(* step of the session is a step of each component or leaves the component *)
(* alone; for the operations on the connection that is shown here.         *)
(***************************************************************************)
EXTENDS Session, TLAPS, WellFoundedInduction, SequenceTheorems

LEMMA PidTypeStep ==
    ASSUME PidTypeOK, [PidNext]_pidVars
    PROVE  PidTypeOK'
<1>1. CASE PidExhausted
  BY <1>1, U16MaxAssumption DEF PidTypeOK, PidExhausted
<1>2. CASE PidReset
  BY <1>2, U16MaxAssumption DEF PidTypeOK, PidReset
<1>3. ASSUME NEW id \in PacketIds, PidAllocate(id)
      PROVE  PidTypeOK'
  BY <1>3, U16MaxAssumption
     DEF PidTypeOK, PidAllocate, PacketIds
<1>4. ASSUME NEW id \in PacketIds, PidRelease(id)
      PROVE  PidTypeOK'
  BY <1>4 DEF PidTypeOK, PidRelease
<1>5. CASE UNCHANGED pidVars
  BY <1>5 DEF PidTypeOK, pidVars
<1> QED
  BY <1>1, <1>2, <1>3, <1>4, <1>5 DEF PidNext

(***************************************************************************)
(* No operation of the pool hands out an identifier twice or loses one.    *)
(***************************************************************************)
LEMMA PoolPartitionStep ==
    ASSUME PidTypeOK, PoolPartition, [PidNext]_pidVars
    PROVE  PoolPartition'
<1> USE DEF PoolPartition, PidTypeOK, PacketIds
<1>1. CASE PidExhausted
  <2>1. FreshIds = {} /\ freeList = {}
    BY <1>1 DEF PidExhausted, Candidates
  <2>2. nextId = U16Max + 1
    BY <2>1, U16MaxAssumption DEF FreshIds
  <2> QED
    BY <1>1, <2>2 DEF PidExhausted
<1>2. CASE PidReset
  BY <1>2 DEF PidReset
<1>3. ASSUME NEW id \in PacketIds, PidAllocate(id)
      PROVE  PoolPartition'
  <2>1. CASE freeList # {}
    BY <1>3, <2>1 DEF PidAllocate, Candidates
  <2>2. CASE freeList = {}
    <3>1. id \in FreshIds /\ \A other \in FreshIds : id <= other
      BY <1>3, <2>2 DEF PidAllocate, Candidates
    <3>2. id = nextId
      BY <2>2, <3>1, U16MaxAssumption DEF FreshIds
    <3> QED
      BY <1>3, <2>2, <3>2, U16MaxAssumption DEF PidAllocate
  <2> QED
    BY <2>1, <2>2
<1>4. ASSUME NEW id \in PacketIds, PidRelease(id)
      PROVE  PoolPartition'
  BY <1>4 DEF PidRelease
<1>5. CASE UNCHANGED pidVars
  BY <1>5 DEF pidVars
<1> QED
  BY <1>1, <1>2, <1>3, <1>4, <1>5 DEF PidNext

-----------------------------------------------------------------------------

LEMMA FcTypeStep ==
    ASSUME FcTypeOK, [FcNext]_fcVars
    PROVE  FcTypeOK'
<1> USE U16MaxAssumption DEF FcTypeOK
<1>1. CASE FcPublishSent
  BY <1>1 DEF FcPublishSent, CanSend, fcReceiveVars
<1>2. CASE FcPublishAcked
  BY <1>2 DEF FcPublishAcked, Decremented, fcReceiveVars
<1>3. CASE FcPublishReceived
  BY <1>3 DEF FcPublishReceived, CanReceive, fcSendVars
<1>4. CASE FcPublishAckSent
  BY <1>4 DEF FcPublishAckSent, Decremented, fcSendVars
<1>5. ASSUME NEW max \in 0..U16Max, FcSetReceiveMaximum(max)
      PROVE  FcTypeOK'
  BY <1>5 DEF FcSetReceiveMaximum, fcReceiveVars
<1>6. ASSUME NEW max \in 0..U16Max, FcSetOwnReceiveMaximum(max)
      PROVE  FcTypeOK'
  BY <1>6 DEF FcSetOwnReceiveMaximum, fcSendVars
<1>7. CASE FcReset(TRUE) \/ FcReset(FALSE)
  <2>1. /\ receiveMaximum' = U16Max
        /\ outstandingCount' = 0
        /\ initialized' = FALSE
        /\ ownReceiveMaximum' \in {ownReceiveMaximum, U16Max}
        /\ incomingCount' = 0
    BY <1>7, Zenon DEF FcReset
  <2>2. receiveMaximum' \in 1..U16Max
    BY <2>1
  <2>3. outstandingCount' \in 0..U16Max /\ incomingCount' \in 0..U16Max
    BY <2>1
  <2>4. initialized' \in BOOLEAN
    BY <2>1
  <2>5. ownReceiveMaximum' \in 1..U16Max
    BY <2>1
  <2> QED
    BY <2>2, <2>3, <2>4, <2>5
<1>8. CASE UNCHANGED fcVars
  BY <1>8 DEF fcVars
<1> QED
  BY <1>1, <1>2, <1>3, <1>4, <1>5, <1>6, <1>7, <1>8 DEF FcNext

-----------------------------------------------------------------------------

LEMMA NoFlowType == NoFlow \in OutgoingFlow
  BY DEF NoFlow, OutgoingFlow

LEMMA QosTypeStep ==
    ASSUME QosTypeOK, [QosNext]_qosVars
    PROVE  QosTypeOK'
<1> USE NoFlowType DEF QosTypeOK
<1>1. CASE QosReset
  BY <1>1 DEF QosReset
<1>2. CASE QosClearQuotaCharges
  BY <1>2 DEF QosClearQuotaCharges, OutgoingFlow
<1>3. ASSUME NEW id \in PacketIds,
             QosPubackReceived(id) \/ QosPubcompReceived(id) \/ QosRelease(id)
      PROVE  QosTypeOK'
  BY <1>3 DEF QosPubackReceived, QosPubcompReceived, QosRelease
<1>4. ASSUME NEW id \in PacketIds, QosMarkQuotaCharged(id)
      PROVE  QosTypeOK'
  BY <1>4 DEF QosMarkQuotaCharged, OutgoingFlow
<1>5. ASSUME NEW id \in PacketIds,
             \/ QosPublishReceivedQos1(id) \/ QosPublishReceivedQos2(id)
             \/ QosPubackSent(id) \/ QosPubrelReceived(id)
      PROVE  QosTypeOK'
  BY <1>5 DEF QosPublishReceivedQos1, QosPublishReceivedQos2, QosPubackSent,
              QosPubrelReceived, IncomingStates
<1>6. ASSUME NEW id \in PacketIds, NEW isError \in BOOLEAN,
             QosPubrecReceived(id, isError)
      PROVE  QosTypeOK'
  BY <1>6 DEF QosPubrecReceived, OutgoingFlow, OutgoingStates
<1>7. ASSUME NEW id \in PacketIds, NEW qos \in {"AtLeastOnce", "ExactlyOnce"},
             QosPublishSent(qos, id)
      PROVE  QosTypeOK'
  <2>1. CASE HasOutgoing(id)
    BY <1>7, <2>1 DEF QosPublishSent
  <2>2. CASE ~HasOutgoing(id)
    <3> DEFINE flow(state) == [state |-> state, seq |-> nextSeq, charged |-> TRUE]
    <3>1. PICK state \in OutgoingStates :
              /\ outgoing' = [outgoing EXCEPT ![id] = flow(state)]
              /\ nextSeq' = nextSeq + 1
              /\ incoming' = incoming
      BY <1>7, <2>2 DEF QosPublishSent, OutgoingStates
    <3>2. flow(state) \in OutgoingFlow
      BY DEF OutgoingFlow
    <3> QED
      BY <3>1, <3>2
  <2> QED
    BY <2>1, <2>2
<1>8. CASE UNCHANGED qosVars
  BY <1>8 DEF qosVars
<1> QED
  BY <1>1, <1>2, <1>3, <1>4, <1>5, <1>6, <1>7, <1>8 DEF QosNext

-----------------------------------------------------------------------------

\* A non-empty set of positions has a largest one.
LEMMA LargestExists ==
    ASSUME NEW n \in Nat, NEW S \in SUBSET (1..n), S # {}
    PROVE  \E i \in S : \A j \in S : j <= i
<1> DEFINE T == {k \in Nat : n - k \in S}
           Less == {ss \in Nat \X Nat : ss[1] < ss[2]}
<1>1. T \subseteq Nat /\ T # {}
  <2>1. PICK i \in S : TRUE
    OBVIOUS
  <2>2. n - i \in T
    OBVIOUS
  <2> QED
    BY <2>2
<1>2. IsWellFoundedOn(Less, Nat)
  BY NatLessThanWellFounded DEF OpToRel
<1>3. PICK m \in T : \A k \in T : <<k, m>> \notin Less
  <2> HIDE DEF T, Less
  <2> QED
    BY <1>1, <1>2, WFMin
<1>4. \A k \in T : m <= k
  <2> TAKE k \in T
  <2>1. ~(k < m)
    BY <1>3
  <2> QED
    BY <2>1
<1>5. \A j \in S : n - j \in T
  OBVIOUS
<1> QED
  BY <1>4, <1>5

LEMMA SubTypeStep ==
    ASSUME SubTypeOK, [SubNext]_subVars
    PROVE  SubTypeOK'
<1> USE SubscriptionAssumption DEF SubTypeOK
<1>1. CASE SubReset
  BY <1>1 DEF SubReset
<1>2. ASSUME NEW id \in PacketIds,
             SubDropPendingSubscribe(id) \/ SubDropPendingUnsubscribe(id)
      PROVE  SubTypeOK'
  BY <1>2 DEF SubDropPendingSubscribe, SubDropPendingUnsubscribe
<1>3. ASSUME NEW id \in PacketIds, NEW entries \in SubscribeRequests,
             SubSubscribeSent(id, entries)
      PROVE  SubTypeOK'
  BY <1>3 DEF SubSubscribeSent
<1>4. ASSUME NEW id \in PacketIds, NEW filters \in UnsubscribeRequests,
             SubUnsubscribeSent(id, filters)
      PROVE  SubTypeOK'
  BY <1>4 DEF SubUnsubscribeSent
<1>5. ASSUME NEW id \in PacketIds, NEW codes \in Seq(BOOLEAN),
             SubSubackReceived(id, codes)
      PROVE  SubTypeOK'
  <2> DEFINE entries == pendingSubscribes[id]
  <2>1. entries \in Seq(Entries)
    <3>1. entries \in SubscribeRequests \cup {<< >>}
      OBVIOUS
    <3>2. << >> \in Seq(Entries)
      OBVIOUS
    <3> QED
      BY <3>1, <3>2
  <2>2. ActiveAfterSuback(entries, codes) \in [Filters -> SubIds \cup {NoSubId, None}]
    <3> SUFFICES ASSUME NEW f \in Filters, GrantedAt(entries, codes, f) # {}
                 PROVE  LastSubId(entries, GrantedAt(entries, codes, f))
                            \in SubIds \cup {NoSubId}
      BY DEF ActiveAfterSuback
    <3> DEFINE positions == GrantedAt(entries, codes, f)
    <3>1. positions \subseteq 1..Len(entries) /\ Len(entries) \in Nat
      BY <2>1 DEF GrantedAt
    <3>2. \E i \in positions : \A j \in positions : j <= i
      BY <3>1, LargestExists
    <3>3. LastSubId(entries, positions) \in {entries[i].subId : i \in positions}
      BY <3>2 DEF LastSubId
    <3>4. PICK i \in positions : LastSubId(entries, positions) = entries[i].subId
      BY <3>3
    <3>5. entries[i] \in Entries
      BY <2>1, <3>1
    <3> QED
      BY <3>4, <3>5 DEF Entries
  <2>3. SubscriptionIdsAfterSuback(entries, codes) \in [SubIds -> [Filters -> Nat]]
    BY DEF SubscriptionIdsAfterSuback
  <2> QED
    BY <1>5, <2>2, <2>3 DEF SubSubackReceived
<1>6. ASSUME NEW id \in PacketIds, NEW codes \in Seq(BOOLEAN),
             SubUnsubackReceived(id, codes)
      PROVE  SubTypeOK'
  <2>1. /\ pendingUnsubscribes' = [pendingUnsubscribes EXCEPT ![id] = << >>]
        /\ UNCHANGED pendingSubscribes
    BY <1>6 DEF SubUnsubackReceived
  <2>2. active' \in [Filters -> SubIds \cup {NoSubId, None}]
    BY <1>6 DEF SubUnsubackReceived
  <2>3. subscriptionIds' \in [SubIds -> [Filters -> Nat]]
    <3>1. \A removed : SubscriptionIdsWithout(removed) \in [SubIds -> [Filters -> Nat]]
      BY DEF SubscriptionIdsWithout
    <3> QED
      BY <1>6, <3>1 DEF SubUnsubackReceived
  <2> QED
    BY <2>1, <2>2, <2>3
<1>7. CASE UNCHANGED subVars
  BY <1>7 DEF subVars
<1> QED
  BY <1>1, <1>2, <1>3, <1>4, <1>5, <1>6, <1>7 DEF SubNext

(***************************************************************************)
(* No operation of the table leaves a filter in the list of an identifier  *)
(* it is not active with, or twice in a list: whichever identifiers the    *)
(* entries of one SUBSCRIBE repeat, suback_received drops the filter from  *)
(* all of them but the last.                                               *)
(***************************************************************************)
LEMMA ReverseIndexStep ==
    ASSUME SubTypeOK, ReverseIndexExact, [SubNext]_subVars
    PROVE  ReverseIndexExact'
<1> USE SubscriptionAssumption DEF ReverseIndexExact, SubTypeOK
<1>1. CASE SubReset
  BY <1>1 DEF SubReset
<1>2. CASE UNCHANGED <<active, subscriptionIds>>
  BY <1>2
<1>3. ASSUME NEW id \in PacketIds, NEW codes \in Seq(BOOLEAN),
             SubSubackReceived(id, codes)
      PROVE  ReverseIndexExact'
  <2> DEFINE entries == pendingSubscribes[id]
             positions(f) == GrantedAt(entries, codes, f)
             last(f) == LastSubId(entries, positions(f))
  <2>1. CASE Len(codes) = Len(entries)
    <3>1. /\ active' = ActiveAfterSuback(entries, codes)
          /\ subscriptionIds' = SubscriptionIdsAfterSuback(entries, codes)
      BY <1>3, <2>1 DEF SubSubackReceived
    <3> SUFFICES ASSUME NEW s \in SubIds, NEW f \in Filters
                 PROVE  subscriptionIds'[s][f] = IF active'[f] = s THEN 1 ELSE 0
      OBVIOUS
    <3>2. active'[f] = IF positions(f) = {} THEN active[f] ELSE last(f)
      BY <3>1 DEF ActiveAfterSuback
    <3>3. subscriptionIds'[s][f] =
              IF positions(f) = {} THEN subscriptionIds[s][f]
              ELSE (IF s \in DroppedSubIds(entries, positions(f), f)
                    THEN 0 ELSE subscriptionIds[s][f])
                   + (IF s = last(f) THEN 1 ELSE 0)
      BY <3>1 DEF SubscriptionIdsAfterSuback
    <3>4. active[f] \in DroppedSubIds(entries, positions(f), f)
      BY DEF DroppedSubIds
    <3> HIDE DEF positions, last
    <3> QED
      BY <3>2, <3>3, <3>4
  <2>2. CASE Len(codes) # Len(entries)
    BY <1>2, <1>3, <2>2 DEF SubSubackReceived
  <2> QED
    BY <2>1, <2>2
<1>4. ASSUME NEW id \in PacketIds, NEW codes \in Seq(BOOLEAN),
             SubUnsubackReceived(id, codes)
      PROVE  ReverseIndexExact'
  <2> DEFINE removed == Removed(pendingUnsubscribes[id], codes)
  <2>1. CASE codes = << >> \/ Len(codes) = Len(pendingUnsubscribes[id])
    <3>1. /\ active' = [f \in Filters |-> IF f \in removed THEN None ELSE active[f]]
          /\ subscriptionIds' = SubscriptionIdsWithout(removed)
      BY <1>4, <2>1 DEF SubUnsubackReceived
    <3> HIDE DEF removed
    <3> QED
      BY <3>1 DEF SubscriptionIdsWithout
  <2>2. CASE ~(codes = << >> \/ Len(codes) = Len(pendingUnsubscribes[id]))
    BY <1>2, <1>4, <2>2 DEF SubUnsubackReceived
  <2> QED
    BY <2>1, <2>2
<1> QED
  BY <1>1, <1>2, <1>3, <1>4 DEF SubNext, subVars, SubSubscribeSent,
     SubUnsubscribeSent, SubDropPendingSubscribe, SubDropPendingUnsubscribe

-----------------------------------------------------------------------------

LEMMA KaTypeStep ==
    ASSUME KaTypeOK, [KaNext]_kaVars
    PROVE  KaTypeOK'
  BY U16MaxAssumption DEF KaTypeOK, KaNext, kaVars, KaPingrespReceived, KaReset,
     KaSetKeepAlive, KaActivity, KaPingreqSent

LEMMA AuthTypeStep ==
    ASSUME AuthTypeOK, [AuthNext]_authVars
    PROVE  AuthTypeOK'
  BY DEF AuthTypeOK, AuthNext, authVars, AuthStates, AuthConnackReceived,
     AuthReauthenticateSent, AuthReset, AuthConnectWithAuth, AuthAuthReceived

-----------------------------------------------------------------------------
(***************************************************************************)
(* The session's own operations on its connection, as steps of the         *)
(* components                                                              *)
(***************************************************************************)

\* Every component takes a step of its own or is left alone.
ComponentStep ==
    /\ [PidNext]_pidVars
    /\ [QosNext]_qosVars
    /\ [FcNext]_fcVars
    /\ [SubNext]_subVars
    /\ [KaNext]_kaVars
    /\ [AuthNext]_authVars

LEMMA SessionTypeStep ==
    ASSUME SessionTypeOK, ComponentStep, SesTypeOK'
    PROVE  SessionTypeOK'
  BY PidTypeStep, QosTypeStep, FcTypeStep, SubTypeStep, KaTypeStep, AuthTypeStep
     DEF ComponentStep, SessionTypeOK

\* A step that leaves the session's own variables alone keeps its types.
LEMMA SessionTypeKept ==
    ASSUME SessionTypeOK, ComponentStep, UNCHANGED sesVars
    PROVE  SessionTypeOK'
<1>1. SesTypeOK'
  BY DEF SessionTypeOK, SesTypeOK, sesVars
<1> QED
  BY <1>1, SessionTypeStep

LEMMA SessionInitType == SessionInit => SessionTypeOK
<1> SUFFICES ASSUME SessionInit PROVE SessionTypeOK
  OBVIOUS
<1>1. PidTypeOK
  BY U16MaxAssumption DEF SessionInit, PidInit, PidTypeOK
<1>2. QosTypeOK /\ SubTypeOK
  BY NoFlowType DEF SessionInit, QosInit, SubInit, QosTypeOK, SubTypeOK
<1>3. FcTypeOK
  <2>1. receiveMaximum \in 1..U16Max /\ ownReceiveMaximum \in 1..U16Max
    BY U16MaxAssumption DEF SessionInit, FcInit
  <2>2. outstandingCount \in 0..U16Max /\ incomingCount \in 0..U16Max
    BY U16MaxAssumption DEF SessionInit, FcInit
  <2>3. initialized \in BOOLEAN
    BY DEF SessionInit, FcInit
  <2> QED
    BY <2>1, <2>2, <2>3 DEF FcTypeOK
<1>4. KaTypeOK /\ AuthTypeOK
  BY U16MaxAssumption DEF SessionInit, KaInit, AuthInit, KaTypeOK, AuthTypeOK, AuthStates
<1>5. SesTypeOK
  BY U16MaxAssumption, DefaultPacketSizeAssumption
     DEF SessionInit, SesTypeOK, ConnectionStates, MqttVersions,
         ServerCapabilities, DefaultCapabilities, QoSLevels
<1> QED
  BY <1>1, <1>2, <1>3, <1>4, <1>5 DEF SessionTypeOK

\* connect_sent and connect_sent_with_auth
LEMMA ConnectSentStep ==
    ASSUME SesTypeOK,
           ConnectSent \/ \E method \in AuthMethods : ConnectSentWithAuth(method)
    PROVE  ComponentStep /\ SesTypeOK'
<1>1. ComponentStep
  BY DEF ComponentStep, ConnectSent, ConnectSentWithAuth, ResetConnectionState,
     KaNext, FcNext, QosNext, AuthNext
<1>2. DefaultCapabilities \in ServerCapabilities
  BY DEF DefaultCapabilities, ServerCapabilities, QoSLevels
<1>3. /\ connectionState' = "Connecting"
      /\ peerMaximum' = 0
      /\ serverCapabilities' = DefaultCapabilities
      /\ UNCHANGED <<identityVars, clientIdEmpty, sessionExpiryInterval,
                     maxPacketSize, ownMaximum>>
  BY DEF ConnectSent, ConnectSentWithAuth, ResetConnectionState
<1>4. SesTypeOK'
  BY <1>2, <1>3, U16MaxAssumption DEF SesTypeOK, identityVars, ConnectionStates
<1> QED
  BY <1>1, <1>4

\* apply_connack
LEMMA ApplyConnackStep ==
    ASSUME SessionTypeOK, NEW p \in ConnackParams, ApplyConnack(p)
    PROVE  ComponentStep /\ SesTypeOK'
<1> USE DEF SesTypeOK
<1>0. SesTypeOK
  BY DEF SessionTypeOK
<1>1. ComponentStep
  <2>1. OrElse(p.serverKeepAlive, keepAliveSecs) \in 0..U16Max
    BY DEF OrElse, ConnackParams, SessionTypeOK, KaTypeOK
  <2>2. [KaNext]_kaVars
    BY <2>1 DEF ApplyConnack, KaNext
  <2>3. [FcNext]_fcVars
    BY DEF ApplyConnack, FcNext, ConnackParams
  <2> QED
    BY <2>2, <2>3 DEF ComponentStep, ApplyConnack, Connected, ResetSessionState,
       PidNext, QosNext, SubNext, AuthNext
<1>2. sessionExpiryInterval' \in Nat /\ peerMaximum' \in 0..U16Max
  BY <1>0 DEF ApplyConnack, OrElse, ConnackParams
<1>3. serverCapabilities' \in ServerCapabilities
  <2>1. \A f \in Features : OrElse(p.available[f], serverCapabilities.available[f]) \in BOOLEAN
    BY <1>0 DEF OrElse, ConnackParams, ServerCapabilities
  <2>2. OrElse(p.maximumPacketSize, serverCapabilities.maximumPacketSize) \in Nat \cup {None}
    BY <1>0 DEF OrElse, ConnackParams, ServerCapabilities
  <2>3. OrElse(p.maximumQos, serverCapabilities.maximumQos) \in QoSLevels
    BY <1>0 DEF OrElse, ConnackParams, ServerCapabilities
  <2> QED
    BY <2>1, <2>2, <2>3 DEF ApplyConnack, ServerCapabilities
<1>4. clientIdEmpty' \in BOOLEAN
  BY Zenon DEF ApplyConnack
<1> QED
  BY <1>0, <1>1, <1>2, <1>3, <1>4 DEF ApplyConnack, Connected, ConnectionStates, identityVars

\* disconnected, disconnect_received and disconnect_sent
LEMMA DisconnectedStep ==
    ASSUME SesTypeOK, Disconnected \/ DisconnectSent
    PROVE  ComponentStep /\ SesTypeOK'
  BY DEF Disconnected, DisconnectSent, ComponentStep, SesTypeOK, ConnectionStates, identityVars

-----------------------------------------------------------------------------
(***************************************************************************)
(* Packets on their way over a connection, in order                        *)
(***************************************************************************)

Packets(queue) == {queue[i] : i \in 1..Len(queue)}

\* The PUBLISHes are in the order of the flows they belong to.
PublishesInOrder(queue, flows) ==
    \A i, j \in 1..Len(queue) :
        i < j /\ queue[i].type = "PUBLISH" /\ queue[j].type = "PUBLISH"
            => flows[queue[i].id].seq < flows[queue[j].id].seq

LEMMA InOrderKept ==
    ASSUME NEW queue, NEW flows, NEW newFlows,
           PublishesInOrder(queue, flows),
           \A p \in Packets(queue) : p.type = "PUBLISH" =>
               newFlows[p.id].seq = flows[p.id].seq
    PROVE  PublishesInOrder(queue, newFlows)
  BY DEF PublishesInOrder, Packets

LEMMA InOrderAppend ==
    ASSUME NEW S, NEW queue \in Seq(S), NEW packet \in S, NEW flows,
           PublishesInOrder(queue, flows),
           packet.type = "PUBLISH" =>
               \A p \in Packets(queue) : p.type = "PUBLISH" =>
                   flows[p.id].seq < flows[packet.id].seq
    PROVE  PublishesInOrder(Append(queue, packet), flows)
<1>1. Len(queue) \in Nat
  BY LenProperties
<1>2. /\ Len(Append(queue, packet)) = Len(queue) + 1
      /\ \A i \in 1..Len(queue) : Append(queue, packet)[i] = queue[i]
      /\ Append(queue, packet)[Len(queue) + 1] = packet
  BY AppendProperties
<1> SUFFICES ASSUME NEW i \in 1..(Len(queue) + 1), NEW j \in 1..(Len(queue) + 1), i < j,
                    Append(queue, packet)[i].type = "PUBLISH",
                    Append(queue, packet)[j].type = "PUBLISH"
             PROVE  flows[Append(queue, packet)[i].id].seq < flows[Append(queue, packet)[j].id].seq
  BY <1>2 DEF PublishesInOrder
<1>3. i \in 1..Len(queue) /\ Append(queue, packet)[i] = queue[i]
      /\ queue[i] \in Packets(queue)
  BY <1>1, <1>2 DEF Packets
<1>4. CASE j \in 1..Len(queue)
  BY <1>2, <1>3, <1>4 DEF PublishesInOrder
<1>5. CASE j = Len(queue) + 1
  BY <1>2, <1>3, <1>5
<1> QED
  BY <1>1, <1>4, <1>5

LEMMA InOrderTail ==
    ASSUME NEW S, NEW queue \in Seq(S), queue # << >>, NEW flows,
           PublishesInOrder(queue, flows)
    PROVE  /\ PublishesInOrder(Tail(queue), flows)
           /\ Head(queue).type = "PUBLISH" =>
                 \A p \in Packets(queue) : p.type = "PUBLISH" /\ p # Head(queue) =>
                     flows[Head(queue).id].seq < flows[p.id].seq
<1>1. Len(queue) \in Nat /\ Len(queue) >= 1
  BY LenProperties, EmptySeq
<1>2. /\ Head(queue) = queue[1]
      /\ Len(Tail(queue)) = Len(queue) - 1
      /\ \A i \in 1..(Len(queue) - 1) : Tail(queue)[i] = queue[i + 1]
  BY HeadTailProperties
<1>3. ASSUME NEW i \in 1..(Len(queue) - 1), NEW j \in 1..(Len(queue) - 1), i < j,
             queue[i + 1].type = "PUBLISH", queue[j + 1].type = "PUBLISH"
      PROVE  flows[queue[i + 1].id].seq < flows[queue[j + 1].id].seq
  <2>1. i + 1 \in 1..Len(queue) /\ j + 1 \in 1..Len(queue) /\ i + 1 < j + 1
    BY <1>1, <1>3
  <2> QED
    BY <1>3, <2>1 DEF PublishesInOrder
<1>4. ASSUME NEW i \in 1..Len(queue), queue[i] # queue[1],
             queue[1].type = "PUBLISH", queue[i].type = "PUBLISH"
      PROVE  flows[queue[1].id].seq < flows[queue[i].id].seq
  <2>1. 1 \in 1..Len(queue) /\ 1 < i
    BY <1>1, <1>4
  <2> QED
    BY <1>4, <2>1 DEF PublishesInOrder
<1> QED
  BY <1>2, <1>3, <1>4 DEF PublishesInOrder, Packets

=============================================================================
