----------------------------- MODULE QuotaProofs -----------------------------
(***************************************************************************)
(* The order of retransmissions, the send quota, and the receive quota.    *)
(***************************************************************************)
EXTENDS SessionProofs, FiniteSetTheorems

(***************************************************************************)
(* Sequence numbers are handed out in order and never twice.               *)
(***************************************************************************)
SeqsOrdered ==
    /\ \A i \in PacketIds : HasOutgoing(i) => outgoing[i].seq < nextSeq
    /\ \A i, j \in PacketIds :
          HasOutgoing(i) /\ HasOutgoing(j) /\ i # j => outgoing[i].seq # outgoing[j].seq

\* What an operation on the flows does to the outgoing ones: it keeps states
\* and sequence numbers, ends flows, or starts or advances one flow with the
\* next sequence number.
FlowsKept ==
    /\ nextSeq' = nextSeq
    /\ \A i \in PacketIds : /\ outgoing'[i].state \in {outgoing[i].state, "None"}
                            /\ outgoing'[i].state # "None" => outgoing'[i].seq = outgoing[i].seq
FlowMoved(id) ==
    /\ nextSeq' = nextSeq + 1
    /\ outgoing'[id].seq = nextSeq
    /\ outgoing'[id].state # outgoing[id].state
    /\ \A i \in PacketIds \ {id} : outgoing'[i] = outgoing[i]

LEMMA FlowSteps ==
    ASSUME QosTypeOK, [QosNext]_qosVars
    PROVE  QosReset \/ FlowsKept \/ \E id \in PacketIds : FlowMoved(id)
<1> USE DEF QosTypeOK
<1>1. CASE QosClearQuotaCharges
  BY <1>1 DEF QosClearQuotaCharges, FlowsKept, OutgoingFlow
<1>2. ASSUME NEW id \in PacketIds,
             QosPubackReceived(id) \/ QosPubcompReceived(id) \/ QosRelease(id)
      PROVE  FlowsKept
  BY <1>2 DEF QosPubackReceived, QosPubcompReceived, QosRelease, FlowsKept, NoFlow
<1>3. ASSUME NEW id \in PacketIds, QosMarkQuotaCharged(id)
      PROVE  FlowsKept
  BY <1>3 DEF QosMarkQuotaCharged, FlowsKept, OutgoingFlow
<1>4. ASSUME NEW id \in PacketIds,
             \/ QosPublishReceivedQos1(id) \/ QosPublishReceivedQos2(id)
             \/ QosPubackSent(id) \/ QosPubrelReceived(id)
      PROVE  FlowsKept
  BY <1>4 DEF QosPublishReceivedQos1, QosPublishReceivedQos2, QosPubackSent,
     QosPubrelReceived, FlowsKept
<1>5. ASSUME NEW id \in PacketIds, NEW isError \in BOOLEAN,
             QosPubrecReceived(id, isError)
      PROVE  FlowsKept \/ FlowMoved(id)
  BY <1>5 DEF QosPubrecReceived, FlowsKept, FlowMoved, NoFlow, OutgoingFlow
<1>6. ASSUME NEW id \in PacketIds, NEW qos \in {"AtLeastOnce", "ExactlyOnce"},
             QosPublishSent(qos, id)
      PROVE  FlowsKept \/ FlowMoved(id)
  <2>1. CASE HasOutgoing(id)
    BY <1>6, <2>1 DEF QosPublishSent, FlowsKept
  <2>2. CASE ~HasOutgoing(id)
    BY <1>6, <2>2 DEF QosPublishSent, FlowMoved, HasOutgoing
  <2> QED
    BY <2>1, <2>2
<1>7. CASE UNCHANGED qosVars
  BY <1>7 DEF qosVars, FlowsKept
<1> QED
  BY <1>1, <1>2, <1>3, <1>4, <1>5, <1>6, <1>7 DEF QosNext

LEMMA SeqsOrderedStep ==
    ASSUME QosTypeOK, QosTypeOK', SeqsOrdered, [QosNext]_qosVars
    PROVE  SeqsOrdered'
<1> USE DEF SeqsOrdered, HasOutgoing
<1>1. CASE QosReset
  BY <1>1 DEF QosReset, NoFlow
<1>2. CASE FlowsKept
  BY <1>2 DEF FlowsKept
<1>3. ASSUME NEW id \in PacketIds, FlowMoved(id)
      PROVE  SeqsOrdered'
  <2>1. \A i \in PacketIds : outgoing[i].seq \in Nat /\ nextSeq \in Nat
    BY DEF QosTypeOK, OutgoingFlow
  <2>2. \A i \in PacketIds : outgoing'[i].state # "None" =>
            \/ i = id /\ outgoing'[i].seq = nextSeq
            \/ i # id /\ outgoing'[i] = outgoing[i] /\ outgoing[i].seq < nextSeq
    BY <1>3 DEF FlowMoved
  <2>3. nextSeq' = nextSeq + 1
    BY <1>3 DEF FlowMoved
  <2>4. \A i \in PacketIds : outgoing'[i].state # "None" => outgoing'[i].seq < nextSeq'
    BY <2>1, <2>2, <2>3
  <2>5. ASSUME NEW i \in PacketIds, NEW j \in PacketIds, i # j,
               outgoing'[i].state # "None", outgoing'[j].state # "None"
        PROVE  outgoing'[i].seq # outgoing'[j].seq
    BY <2>1, <2>2, <2>5
  <2> QED
    BY <2>4, <2>5
<1> QED
  BY <1>1, <1>2, <1>3, FlowSteps

LEMMA OrderKeptStep ==
    ASSUME QosTypeOK, QosTypeOK', SeqsOrdered, [QosNext]_qosVars
    PROVE  OrderKept
<1> USE DEF SeqsOrdered, HasOutgoing, OrderKept, FlowStays, FlowJoins, ResendBefore
<1>1. CASE QosReset
  BY <1>1 DEF QosReset, NoFlow
<1>2. CASE FlowsKept
  BY <1>2 DEF FlowsKept
<1>3. ASSUME NEW id \in PacketIds, FlowMoved(id)
      PROVE  OrderKept
  BY <1>3 DEF FlowMoved, QosTypeOK, OutgoingFlow
<1> QED
  BY <1>1, <1>2, <1>3, FlowSteps

(***************************************************************************)
(* pending_retransmissions lists PUBLISHes in the order they were sent and *)
(* PUBRELs in the order their PUBRECs came, whatever acknowledgements,     *)
(* aborts, reconnections and reuses of identifiers happen in between.      *)
(***************************************************************************)
THEOREM RetransmissionsInOrder == Spec => RetransmissionOrder
<1>1. Init => SeqsOrdered
  BY DEF Init, SessionInit, QosInit, SeqsOrdered, HasOutgoing, NoFlow
<1>2. TypeOK /\ TypeOK' /\ SeqsOrdered /\ [Next]_vars => SeqsOrdered' /\ [OrderKept]_vars
  BY EveryComponentStep, SeqsOrderedStep, OrderKeptStep
     DEF ComponentStep, TypeOK, SessionTypeOK
<1> QED
  BY <1>1, <1>2, TypeCorrect, PTL DEF Spec, RetransmissionOrder

-----------------------------------------------------------------------------
(***************************************************************************)
(* The send quota.  outstanding_count is compared with the flows that      *)
(* carry a charge.  A flow of a resumed session carries none until it is   *)
(* sent again, and the end of such a flow still gives quota back; so the   *)
(* count is a lower bound in general, and exact for a session that starts  *)
(* clean, whose flows end with the CONNACK at the latest.                  *)
(***************************************************************************)
CleanQuota ==
    \/ OutgoingIds = ChargedIds /\ outstandingCount = Cardinality(ChargedIds)
    \/ ChargedIds = {} /\ outstandingCount = 0 /\ ~IsConnected

QuotaInv ==
    /\ ChargedIds \subseteq OutgoingIds
    /\ SendQuotaNotLeaked
    /\ outstandingCount <= receiveMaximum
    /\ cleanStart => CleanQuota

LEMMA ChargedFinite ==
    IsFiniteSet(ChargedIds) /\ Cardinality(ChargedIds) \in Nat
<1>1. IsFiniteSet(PacketIds)
  BY FS_Interval, U16MaxAssumption DEF PacketIds
<1>2. ChargedIds \in SUBSET PacketIds
  BY DEF ChargedIds
<1> QED
  BY <1>1, <1>2, FS_Subset, FS_CardinalityType

\* The four ways a step bears on the quota
QuotaKept ==
    /\ UNCHANGED <<OutgoingIds, ChargedIds, outstandingCount, receiveMaximum, cleanStart>>
    /\ IsConnected' => IsConnected
QuotaReturned(id) ==
    /\ OutgoingIds' = OutgoingIds \ {id}
    /\ ChargedIds' = ChargedIds \ {id}
    /\ id \in OutgoingIds
    /\ outstandingCount' = Decremented(outstandingCount)
    /\ UNCHANGED <<receiveMaximum, cleanStart>>
    /\ IsConnected' => IsConnected
QuotaConsumed(id) ==
    /\ OutgoingIds' = OutgoingIds \cup {id}
    /\ ChargedIds' = ChargedIds \cup {id}
    /\ id \notin ChargedIds
    /\ outstandingCount < receiveMaximum
    /\ outstandingCount' = outstandingCount + 1
    /\ UNCHANGED <<receiveMaximum, cleanStart>>
    /\ IsConnected
QuotaRestarted ==
    /\ ChargedIds' = {}
    /\ outstandingCount' = 0
    /\ UNCHANGED cleanStart
    /\ cleanStart => OutgoingIds' = {} \/ ~IsConnected'

QuotaStep ==
    \/ QuotaKept \/ QuotaRestarted
    \/ \E id \in PacketIds : QuotaReturned(id) \/ QuotaConsumed(id)

LEMMA QuotaStepInv ==
    ASSUME TypeOK, TypeOK', QuotaInv, QuotaStep
    PROVE  QuotaInv'
<1> USE DEF QuotaInv, SendQuotaNotLeaked, CleanQuota
<1>0. /\ outstandingCount \in Nat /\ receiveMaximum \in Nat /\ receiveMaximum' \in Nat
      /\ Cardinality(ChargedIds) \in Nat
  BY ChargedFinite, U16MaxAssumption DEF TypeOK, SessionTypeOK, FcTypeOK
<1>1. CASE QuotaKept
  BY <1>0, <1>1 DEF QuotaKept
<1>2. CASE QuotaRestarted
  BY <1>0, <1>2, FS_EmptySet DEF QuotaRestarted
<1>3. ASSUME NEW id \in PacketIds, QuotaReturned(id)
      PROVE  QuotaInv'
  <2>1. Cardinality(ChargedIds \ {id}) =
            IF id \in ChargedIds THEN Cardinality(ChargedIds) - 1 ELSE Cardinality(ChargedIds)
    BY ChargedFinite, FS_RemoveElement
  <2>2. Cardinality(ChargedIds \ {id}) \in Nat
    BY ChargedFinite, FS_RemoveElement, FS_CardinalityType
  <2>3. Cardinality(ChargedIds') = Cardinality(ChargedIds \ {id})
    BY <1>3 DEF QuotaReturned
  <2>4. outstandingCount' <= Cardinality(ChargedIds')
    BY <1>0, <1>3, <2>1, <2>2, <2>3 DEF QuotaReturned, Decremented
  <2>5. outstandingCount' <= receiveMaximum' /\ ChargedIds' \subseteq OutgoingIds'
    BY <1>0, <1>3 DEF QuotaReturned, Decremented
  <2>6. CASE OutgoingIds = ChargedIds /\ outstandingCount = Cardinality(ChargedIds)
    <3>1. outstandingCount' = Cardinality(ChargedIds') /\ OutgoingIds' = ChargedIds'
      BY <1>0, <1>3, <2>1, <2>2, <2>3, <2>6 DEF QuotaReturned, Decremented
    <3> QED
      BY <2>4, <2>5, <3>1
  <2>7. CASE ChargedIds = {} /\ outstandingCount = 0 /\ ~IsConnected
    BY <1>3, <2>4, <2>5, <2>7 DEF QuotaReturned, Decremented
  <2>8. CASE ~cleanStart
    BY <1>3, <2>4, <2>5, <2>8 DEF QuotaReturned
  <2> QED
    BY <2>6, <2>7, <2>8
<1>4. ASSUME NEW id \in PacketIds, QuotaConsumed(id)
      PROVE  QuotaInv'
  <2>1. Cardinality(ChargedIds') = Cardinality(ChargedIds) + 1
    BY <1>4, ChargedFinite, FS_AddElement DEF QuotaConsumed
  <2>2. outstandingCount' <= Cardinality(ChargedIds') /\ outstandingCount' <= receiveMaximum'
    BY <1>0, <1>4, <2>1 DEF QuotaConsumed
  <2>3. cleanStart' => CleanQuota'
    BY <1>4, <2>1 DEF QuotaConsumed
  <2>4. ChargedIds' \subseteq OutgoingIds'
    BY <1>4 DEF QuotaConsumed
  <2> QED
    BY <2>2, <2>3, <2>4
<1> QED
  BY <1>1, <1>2, <1>3, <1>4 DEF QuotaStep

-----------------------------------------------------------------------------

LEMMA FlowSets ==
    ASSUME UNCHANGED outgoing
    PROVE  UNCHANGED <<OutgoingIds, ChargedIds>>
  BY DEF OutgoingIds, ChargedIds, HasOutgoing

LEMMA FlowRemovedSets ==
    ASSUME QosTypeOK, NEW id \in PacketIds,
           outgoing' = [outgoing EXCEPT ![id] = NoFlow]
    PROVE  OutgoingIds' = OutgoingIds \ {id} /\ ChargedIds' = ChargedIds \ {id}
  BY DEF QosTypeOK, OutgoingIds, ChargedIds, HasOutgoing, NoFlow

LEMMA ConnectionQuota ==
    ASSUME TypeOK, FreshConnection, ConnectionNext
    PROVE  QuotaStep
<1> USE DEF QuotaStep
<1>1. CASE Configure
  BY <1>1, FlowSets DEF Configure, ConfigureForConnect, FcSetOwnReceiveMaximum,
     QuotaKept, IsConnected, fcVars, fcSendVars, qosVars, identityVars
<1>2. CASE Connect \/ ConnectWithAuth
  <2>1. Fresh'
    BY <1>2, FreshAfterConnect
  <2>2. connectionState' = "Connecting" /\ UNCHANGED cleanStart
    BY <1>2 DEF Connect, ConnectWithAuth, ConnectSent, ConnectSentWithAuth, identityVars
  <2> QED
    BY <2>1, <2>2 DEF Fresh, QuotaRestarted, IsConnected
<1>3. CASE ConnackArrives
  <2>1. PICK p \in ConnackInputs : ApplyConnack(p)
    BY <1>3 DEF ConnackArrives
  <2>2. ChargedIds = {} /\ outstandingCount = 0 /\ UNCHANGED <<outstandingCount, cleanStart>>
    BY <2>1 DEF ApplyConnack, ConnackAccepted, FreshConnection, FcSetReceiveMaximum,
       fcVars, identityVars
  <2>3. CASE QosReset
    <3>1. ChargedIds' = {} /\ OutgoingIds' = {}
      BY <2>3 DEF QosReset, ChargedIds, OutgoingIds, HasOutgoing, NoFlow
    <3> QED
      BY <2>2, <3>1 DEF QuotaRestarted
  <2>4. CASE ~cleanStart /\ UNCHANGED qosVars
    BY <2>2, <2>4, FlowSets DEF QuotaRestarted, qosVars
  <2> QED
    BY <2>1, <2>3, <2>4 DEF ApplyConnack, Connected, ResetSessionState
<1>4. CASE ConnackRejected \/ ConnectionLost \/ Disconnect
  BY <1>4, FlowSets DEF ConnackRejected, ConnectionLost, Disconnected, Disconnect,
     DisconnectSent, QuotaKept, IsConnected, fcVars, qosVars, identityVars
<1>5. CASE StartOver
  <2>1. ChargedIds' = {} /\ OutgoingIds' = {}
    BY <1>5 DEF StartOver, Reset, QosReset, ChargedIds, OutgoingIds, HasOutgoing, NoFlow
  <2>2. outstandingCount' = 0 /\ UNCHANGED cleanStart
    BY <1>5 DEF StartOver, Reset, FcReset, identityVars
  <2> QED
    BY <2>1, <2>2 DEF QuotaRestarted
<1> QED
  BY <1>1, <1>2, <1>3, <1>4, <1>5 DEF ConnectionNext

\* The end of an outgoing flow, by an acknowledgement or by abort_publish
LEMMA EndReturnsQuota ==
    ASSUME QosTypeOK, NEW id \in PacketIds, HasOutgoing(id),
           outgoing' = [outgoing EXCEPT ![id] = NoFlow],
           FcPublishAcked, UNCHANGED sesVars
    PROVE  QuotaReturned(id)
  BY FlowRemovedSets DEF QuotaReturned, FcPublishAcked, OutgoingIds, IsConnected, sesVars

LEMMA SendQuota ==
    ASSUME TypeOK, QuotaInv, IdOwnership, SendNext
    PROVE  QuotaStep
<1> USE DEF QuotaStep
<1>0. QosTypeOK
  BY DEF TypeOK, SessionTypeOK
<1>1. CASE UNCHANGED <<outgoing, fcVars, sesVars>>
  BY <1>1, FlowSets DEF QuotaKept, IsConnected, fcVars, sesVars
<1>2. ASSUME NEW id \in PacketIds, Allocate(id) \/ GiveBack(id)
      PROVE  QuotaStep
  BY <1>1, <1>2 DEF Allocate, AllocatePacketId, GiveBack, ReleasePacketId, qosVars
<1>a. CASE AllocateFails
  BY <1>1, <1>a DEF AllocateFails, AllocatePacketIdFails, qosVars
<1>3. ASSUME NEW id \in PacketIds, GiveUpPublish(id)
      PROVE  QuotaStep
  BY <1>0, <1>3, EndReturnsQuota DEF GiveUpPublish, AbortPublish, IsActive, QosRelease
<1>4. ASSUME NEW id \in PacketIds, PubackArrives(id)
      PROVE  QuotaStep
  <2>1. CASE PubackResult(id) = "Complete"
    BY <1>0, <1>4, <2>1, EndReturnsQuota DEF PubackArrives, HandlePuback, FlowEnded,
       QosPubackReceived, PubackResult, Unmatched, HasOutgoing
  <2>2. CASE PubackResult(id) # "Complete"
    BY <1>1, <1>4, <2>2 DEF PubackArrives, HandlePuback, QosPubackReceived
  <2> QED
    BY <2>1, <2>2
<1>5. ASSUME NEW id \in PacketIds, PubcompArrives(id)
      PROVE  QuotaStep
  <2>1. CASE PubcompResult(id) = "Complete"
    BY <1>0, <1>5, <2>1, EndReturnsQuota DEF PubcompArrives, HandlePubcomp, FlowEnded,
       QosPubcompReceived, PubcompResult, Unmatched, HasOutgoing
  <2>2. CASE PubcompResult(id) # "Complete"
    BY <1>1, <1>5, <2>2 DEF PubcompArrives, HandlePubcomp, QosPubcompReceived
  <2> QED
    BY <2>1, <2>2
<1>6. ASSUME NEW id \in PacketIds, NEW isError \in BOOLEAN, PubrecArrives(id, isError)
      PROVE  QuotaStep
  <2> USE <1>6 DEF PubrecArrives, HandlePubrec
  <2>1. CASE PubrecResult(id, isError) = "Aborted"
    <3>1. isError /\ outgoing[id].state = "AwaitingPubrec"
      BY <2>1 DEF PubrecResult, Unmatched
    <3> QED
      BY <1>0, <2>1, <3>1, EndReturnsQuota DEF FlowEnded, QosPubrecReceived, HasOutgoing
  <2>2. CASE PubrecResult(id, isError) # "Aborted"
    <3>1. ~(isError /\ outgoing[id].state = "AwaitingPubrec")
      BY <2>2 DEF PubrecResult
    <3>2. UNCHANGED <<OutgoingIds, ChargedIds>>
      BY <1>0, <3>1 DEF QosPubrecReceived, QosTypeOK, OutgoingFlow, OutgoingIds,
         ChargedIds, HasOutgoing
    <3> QED
      BY <2>2, <3>2 DEF QuotaKept, IsConnected, fcVars, sesVars
  <2> QED
    BY <2>1, <2>2
<1>7. ASSUME NEW id \in PacketIds, Resend(id)
      PROVE  QuotaStep
  <2> USE <1>7 DEF Resend, ResendPublish
  <2>1. CASE outgoing[id].charged
    BY <1>1, <2>1 DEF qosVars
  <2>2. CASE ~outgoing[id].charged
    <3>1. HasOutgoing(id)
      BY DEF MayResendPublish, NeedsRetransmission, HasOutgoing
    <3>2. outgoing' = [outgoing EXCEPT ![id].charged = TRUE]
      BY <2>2, <3>1 DEF QosMarkQuotaCharged
    <3>3. OutgoingIds' = OutgoingIds \cup {id} /\ ChargedIds' = ChargedIds \cup {id}
      BY <1>0, <3>1, <3>2 DEF QosTypeOK, OutgoingFlow, OutgoingIds, ChargedIds, HasOutgoing
    <3>4. FcPublishSent /\ id \notin ChargedIds
      BY <2>2 DEF ChargedIds
    <3> QED
      BY <3>3, <3>4 DEF QuotaConsumed, FcPublishSent, CanSend, sesVars
  <2> QED
    BY <2>1, <2>2
<1>8. ASSUME NEW id \in PacketIds, NEW qos \in {"AtLeastOnce", "ExactlyOnce"},
             Publish(qos, id)
      PROVE  QuotaStep
  <2> DEFINE flow(state) == [state |-> state, seq |-> nextSeq, charged |-> TRUE]
  <2>0. ~HasOutgoing(id)
    BY <1>8 DEF Publish, IdOwnership, OutgoingIds
  <2>1. PICK state \in OutgoingStates :
            outgoing' = [outgoing EXCEPT ![id] = flow(state)]
    BY <1>8, <2>0 DEF Publish, PublishSent, QosPublishSent, OutgoingStates
  <2>2. OutgoingIds' = OutgoingIds \cup {id} /\ ChargedIds' = ChargedIds \cup {id}
    BY <1>0, <2>1 DEF QosTypeOK, OutgoingIds, ChargedIds, HasOutgoing, OutgoingStates
  <2>3. id \notin ChargedIds
    BY <2>0 DEF QuotaInv, OutgoingIds
  <2> QED
    BY <1>8, <2>2, <2>3 DEF Publish, PublishSent, QuotaConsumed, FcPublishSent,
       CanSend, sesVars
<1> QED
  BY <1>2, <1>a, <1>3, <1>4, <1>5, <1>6, <1>7, <1>8 DEF SendNext

\* The receiving direction has its own counter.
LEMMA ReceiveQuota ==
    ASSUME ReceiveNext
    PROVE  QuotaStep
<1>1. UNCHANGED <<outgoing, outstandingCount, receiveMaximum, cleanStart>>
  BY DEF ReceiveNext, ReplySent, PubackSent, QosPubackSent, PubrecSent, PubcompSent,
     FcPublishAckSent, FcPublishReceived, TooManyPublishes, DisconnectSent,
     PubrelArrives, HandlePubrel, QosPubrelReceived, PublishArrives, HandlePublish,
     QosPublishReceivedQos1, QosPublishReceivedQos2, fcVars, fcSendVars, qosVars,
     sesVars, identityVars
<1>2. IsConnected' => IsConnected
  BY DEF ReceiveNext, ReplySent, PubackSent, PubrecSent, PubcompSent,
     TooManyPublishes, DisconnectSent, PubrelArrives, HandlePubrel,
     PublishArrives, HandlePublish, sesVars, IsConnected
<1> QED
  BY <1>1, <1>2, FlowSets DEF QuotaStep, QuotaKept

LEMMA OtherQuota ==
    ASSUME SubscriptionNext \/ TimerNext \/ AuthenticationNext \/ UNCHANGED vars
    PROVE  QuotaStep
<1>1. CASE SubscriptionNext
  <2>1. UNCHANGED <<qosVars, fcVars, sesVars>>
    BY <1>1 DEF SubscriptionNext, Subscribe, SubscribeSent, Unsubscribe, UnsubscribeSent,
       GiveUpSubscribe, AbortSubscribe, GiveUpUnsubscribe, AbortUnsubscribe,
       SubackArrives, HandleSuback, UnsubackArrives, HandleUnsuback
  <2> QED
    BY <2>1, FlowSets DEF QuotaStep, QuotaKept, IsConnected, qosVars, fcVars, sesVars
<1>2. CASE TimerNext \/ AuthenticationNext \/ UNCHANGED vars
  <2>1. UNCHANGED <<qosVars, fcVars, sesVars>>
    BY <1>2 DEF TimerNext, Tick, PacketSent, Activity, SendPingreq, PingreqSent,
       PingrespArrives, PingrespReceived, AuthenticationNext, Reauthenticate,
       ReauthenticateSent, AuthArrives, AuthReceived, sessionVars, vars
  <2> QED
    BY <2>1, FlowSets DEF QuotaStep, QuotaKept, IsConnected, qosVars, fcVars, sesVars
<1> QED
  BY <1>1, <1>2

\* The inductive invariant, from which both theorems follow
LEMMA QuotaInvariant == Spec => []QuotaInv
<1>1. Init => QuotaInv
  <2> SUFFICES ASSUME Init PROVE QuotaInv
    OBVIOUS
  <2>1. OutgoingIds = {} /\ ChargedIds = {}
    BY DEF Init, SessionInit, QosInit, OutgoingIds, ChargedIds, HasOutgoing, NoFlow
  <2>2. outstandingCount = 0 /\ receiveMaximum \in Nat
    BY U16MaxAssumption DEF Init, SessionInit, FcInit
  <2> QED
    BY <2>1, <2>2, FS_EmptySet DEF QuotaInv, CleanQuota, SendQuotaNotLeaked
<1>2. TypeOK /\ TypeOK' /\ IdOwnership /\ FreshConnection /\ QuotaInv /\ [Next]_vars
          => QuotaInv'
  BY QuotaStepInv, ConnectionQuota, SendQuota, ReceiveQuota, OtherQuota DEF Next
<1> QED
  BY <1>1, <1>2, TypeCorrect, IdentifiersOwned, ConnectionStartsFresh, PTL DEF Spec

(***************************************************************************)
(* Quota taken by publish_sent and resend_publish always comes back: the   *)
(* count never exceeds the flows that carry a charge, for every Receive    *)
(* Maximum, across aborts, error PUBRECs, repeated acknowledgements and    *)
(* resumed sessions.                                                       *)
(***************************************************************************)
THEOREM QuotaNeverLeaks == Spec => []SendQuotaNotLeaked
<1>1. QuotaInv => SendQuotaNotLeaked
  BY DEF QuotaInv
<1> QED
  BY <1>1, QuotaInvariant, PTL

(***************************************************************************)
(* A session that starts clean keeps to the server's Receive Maximum       *)
(* ([MQTT-3.3.4-7], enforced by publish_sent): the count is exact for it.  *)
(***************************************************************************)
THEOREM CleanSessionKeepsReceiveMaximum == Spec => []CleanReceiveMaximumRespected
<1>1. TypeOK /\ QuotaInv => CleanReceiveMaximumRespected
  BY FS_EmptySet, U16MaxAssumption DEF TypeOK, SessionTypeOK, FcTypeOK, QuotaInv,
     CleanQuota, CleanReceiveMaximumRespected, ReceiveMaximumRespected
<1> QED
  BY <1>1, QuotaInvariant, TypeCorrect, PTL

-----------------------------------------------------------------------------
(***************************************************************************)
(* The receive quota.  incoming_count is compared with the incoming flows  *)
(* and the PUBCOMP that is being written.  The count goes down with every  *)
(* PUBACK that is written, so the argument needs that such a PUBACK still  *)
(* has its flow: an answer is written only while connected, and nothing    *)
(* but its own puback_sent ends the flow it belongs to.  abort_publish     *)
(* does when it meets a flow of the other direction under its identifier,  *)
(* which the hypothesis ~AbortCollisions excludes.                         *)
(***************************************************************************)
ReplyHasFlow ==
    /\ reply # NoReply => IsConnected
    /\ reply.type = "Puback" => incoming[reply.id] = "IncomingAwaitingPuback"
    /\ reply.type = "Pubrec" /\ reply.isError => TRUE \in PubrecErrors

ReceiveInv ==
    /\ ReplyHasFlow
    /\ ReceiveQuotaNotLeaked
    /\ TRUE \notin PubrecErrors => CleanReceiveQuotaExact

LEMMA IncomingFinite ==
    /\ IsFiniteSet(IncomingIds) /\ Cardinality(IncomingIds) \in Nat
    /\ Cardinality(IncomingIds') \in Nat
<1>1. IsFiniteSet(PacketIds)
  BY FS_Interval, U16MaxAssumption DEF PacketIds
<1>2. IncomingIds \in SUBSET PacketIds /\ IncomingIds' \in SUBSET PacketIds
  BY DEF IncomingIds
<1> QED
  BY <1>1, <1>2, FS_Subset, FS_CardinalityType

LEMMA IncomingRemoved ==
    ASSUME QosTypeOK, NEW id \in PacketIds, HasIncoming(id),
           incoming' = [incoming EXCEPT ![id] = "None"]
    PROVE  Cardinality(IncomingIds') = Cardinality(IncomingIds) - 1
<1>1. IncomingIds' = IncomingIds \ {id} /\ id \in IncomingIds
  BY DEF QosTypeOK, IncomingIds, HasIncoming
<1> QED
  BY <1>1, IncomingFinite, FS_RemoveElement

\* The incoming side and the answers are left alone.
IncomingKept ==
    /\ UNCHANGED <<incoming, incomingCount, reply, cleanStart>>
    /\ IsConnected' => IsConnected
    /\ reply # NoReply => IsConnected'

LEMMA IncomingKeptInv ==
    ASSUME ReceiveInv, IncomingKept
    PROVE  ReceiveInv'
<1>1. UNCHANGED IncomingIds
  BY DEF IncomingKept, IncomingIds, HasIncoming
<1>2. UNCHANGED UnansweredPublishes
  BY <1>1 DEF IncomingKept, UnansweredPublishes
<1> QED
  BY <1>2 DEF IncomingKept, ReceiveInv, ReplyHasFlow, ReceiveQuotaNotLeaked,
     CleanReceiveQuotaExact

\* Without a connection there is no answer, and nothing is claimed of the count.
LEMMA UnconnectedInv ==
    ASSUME ~IsConnected', reply' = NoReply
    PROVE  ReceiveInv'
  BY DEF ReceiveInv, ReplyHasFlow, ReceiveQuotaNotLeaked, CleanReceiveQuotaExact, NoReply

LEMMA ConnectionReceive ==
    ASSUME TypeOK, FreshConnection, ReceiveInv, ConnectionNext
    PROVE  ReceiveInv'
<1>1. CASE Configure
  <2>1. ~IsConnected' /\ UNCHANGED reply /\ ~IsConnected
    BY <1>1 DEF Configure, ConfigureForConnect, IsConnected, clientVars
  <2> QED
    BY <2>1, UnconnectedInv DEF ReceiveInv, ReplyHasFlow
<1>2. CASE Connect \/ ConnectWithAuth
  <2>1. ~IsConnected' /\ UNCHANGED reply /\ ~IsConnected
    BY <1>2 DEF Connect, ConnectWithAuth, ConnectSent, ConnectSentWithAuth,
       ReadyToConnect, IsConnected, clientVars
  <2> QED
    BY <2>1, UnconnectedInv DEF ReceiveInv, ReplyHasFlow
<1>3. CASE ConnackArrives
  <2>1. PICK p \in ConnackInputs : ApplyConnack(p)
    BY <1>3 DEF ConnackArrives
  <2>2. ~IsConnected /\ UNCHANGED reply
    BY <1>3, <2>1 DEF ConnackArrives, ApplyConnack, ConnackAccepted, IsConnected, clientVars
  <2>3. reply' = NoReply
    BY <2>2 DEF ReceiveInv, ReplyHasFlow
  <2>4. incomingCount' = 0 /\ UNCHANGED cleanStart
    BY <2>1 DEF ApplyConnack, ConnackAccepted, FreshConnection, FcSetReceiveMaximum,
       fcVars, fcReceiveVars, identityVars
  <2>5. UnansweredPublishes' \in Nat
    BY <2>3, IncomingFinite DEF UnansweredPublishes, NoReply
  <2>6. cleanStart => UnansweredPublishes' = 0
    <3>1. cleanStart => QosReset
      BY <2>1 DEF ApplyConnack, Connected, ResetSessionState
    <3>2. cleanStart => IncomingIds' = {}
      BY <3>1 DEF QosReset, IncomingIds, HasIncoming
    <3> QED
      BY <2>3, <3>2, FS_EmptySet DEF UnansweredPublishes, NoReply
  <2>7. ReplyHasFlow'
    BY <2>3 DEF ReplyHasFlow, NoReply
  <2>8. ReceiveQuotaNotLeaked'
    BY <2>4, <2>5 DEF ReceiveQuotaNotLeaked
  <2>9. CleanReceiveQuotaExact'
    BY <2>4, <2>6, Zenon DEF CleanReceiveQuotaExact
  <2> QED
    BY <2>7, <2>8, <2>9 DEF ReceiveInv
<1>4. CASE ConnackRejected
  <2>1. ~IsConnected' /\ UNCHANGED reply /\ ~IsConnected
    BY <1>4 DEF ConnackRejected, Disconnected, IsConnected, clientVars
  <2> QED
    BY <2>1, UnconnectedInv DEF ReceiveInv, ReplyHasFlow
<1>5. CASE ConnectionLost \/ Disconnect \/ StartOver
  BY <1>5, UnconnectedInv DEF ConnectionLost, Disconnected, Disconnect,
     DisconnectSent, StartOver, Reset, IsConnected
<1> QED
  BY <1>1, <1>2, <1>3, <1>4, <1>5 DEF ConnectionNext

\* Sending leaves the flows of the other direction alone.
LEMMA SendReceive ==
    ASSUME TypeOK, ~AbortCollisions, ReceiveInv, SendNext
    PROVE  ReceiveInv'
<1>0. QosTypeOK
  BY DEF TypeOK, SessionTypeOK
<1>1. UNCHANGED <<reply, cleanStart, connectionState>>
  BY DEF SendNext, AllocateFails, AllocatePacketIdFails, Allocate,
     AllocatePacketId, GiveBack, ReleasePacketId, GiveUpPublish, AbortPublish,
     PubackArrives, HandlePuback, PubcompArrives, HandlePubcomp, Resend,
     ResendPublish, PubrecArrives, HandlePubrec, Publish, PublishSent, sesVars, clientVars
<1>2. UNCHANGED incomingCount
  BY DEF SendNext, AllocateFails, AllocatePacketIdFails, Allocate,
     AllocatePacketId, GiveBack, ReleasePacketId, GiveUpPublish, AbortPublish,
     PubackArrives, HandlePuback, PubcompArrives, HandlePubcomp, Resend,
     ResendPublish, PubrecArrives, HandlePubrec, Publish, PublishSent, FlowEnded,
     FcPublishAcked, FcPublishSent, fcVars, fcReceiveVars
<1>3. ASSUME NEW id \in PacketIds, GiveUpPublish(id)
      PROVE  UNCHANGED incoming
  BY <1>0, <1>3 DEF GiveUpPublish, AbortPublish, QosRelease, HasIncoming, QosTypeOK
<1>4. UNCHANGED incoming
  BY <1>3 DEF SendNext, AllocateFails, AllocatePacketIdFails, Allocate,
     AllocatePacketId, GiveBack, ReleasePacketId, PubackArrives, HandlePuback,
     QosPubackReceived, PubcompArrives, HandlePubcomp, QosPubcompReceived, Resend,
     ResendPublish, QosMarkQuotaCharged, PubrecArrives, HandlePubrec,
     QosPubrecReceived, Publish, PublishSent, QosPublishSent, qosVars
<1> QED
  BY <1>1, <1>2, <1>4, IncomingKeptInv
     DEF IncomingKept, IsConnected, ReceiveInv, ReplyHasFlow

\* What a step does to the unanswered PUBLISHes: the answers change hands, one
\* more is counted, or one less.
LEMMA ReceiveReceive ==
    ASSUME TypeOK, ReceiveInv, ReceiveNext
    PROVE  ReceiveInv'
<1> USE DEF ReceiveInv
<1>0. QosTypeOK /\ incomingCount \in Nat /\ reply \in Reply
  BY U16MaxAssumption DEF TypeOK, SessionTypeOK, FcTypeOK
<1>1. ASSUME NEW id \in PacketIds, TooManyPublishes(id)
      PROVE  ReceiveInv'
  BY <1>1, UnconnectedInv DEF TooManyPublishes, DisconnectSent, IsConnected, clientVars
<1>2. ASSUME NEW id \in PacketIds, NEW qos \in {"AtLeastOnce", "ExactlyOnce"},
             NEW isError \in PubrecErrors, PublishArrives(qos, id, isError)
      PROVE  ReceiveInv'
  <2>1. /\ reply = NoReply
        /\ reply' = [type |-> IF qos = "AtLeastOnce" THEN "Puback" ELSE "Pubrec",
                     id |-> id, isError |-> isError]
        /\ IsConnected' /\ IsConnected /\ UNCHANGED cleanStart
    BY <1>2 DEF PublishArrives, HandlePublish, sesVars, IsConnected
  <2>2. incoming' = [incoming EXCEPT ![id] = IF qos = "AtLeastOnce"
                        THEN "IncomingAwaitingPuback" ELSE "AwaitingPubrel"]
    BY <1>2 DEF PublishArrives, HandlePublish, QosPublishReceivedQos1, QosPublishReceivedQos2
  <2>3. ReplyHasFlow'
    <3>1. reply'.type = "Puback" => incoming'[reply'.id] = "IncomingAwaitingPuback"
      BY <1>0, <2>1, <2>2 DEF QosTypeOK
    <3>2. reply'.isError => TRUE \in PubrecErrors
      BY <2>1, ClientAssumption
    <3> QED
      BY <2>1, <3>1, <3>2 DEF ReplyHasFlow
  <2>4. incomingCount' - incomingCount = Cardinality(IncomingIds') - Cardinality(IncomingIds)
    <3>1. IncomingIds' = IncomingIds \cup {id}
      BY <1>0, <2>2 DEF QosTypeOK, IncomingIds, HasIncoming
    <3>2. CASE HasIncoming(id)
      <4>1. UNCHANGED <<IncomingIds, incomingCount>>
        BY <1>2, <3>1, <3>2 DEF PublishArrives, HandlePublish, fcVars, IncomingIds
      <4> QED
        BY <1>0, <4>1, IncomingFinite
    <3>3. CASE ~HasIncoming(id)
      <4>1. incomingCount' = incomingCount + 1 /\ id \notin IncomingIds
        BY <1>2, <3>3 DEF PublishArrives, HandlePublish, FcPublishReceived, IncomingIds
      <4>2. Cardinality(IncomingIds') = Cardinality(IncomingIds) + 1
        BY <3>1, <4>1, IncomingFinite, FS_AddElement
      <4> QED
        BY <1>0, <4>1, <4>2, IncomingFinite
    <3> QED
      BY <3>2, <3>3
  <2>5. /\ UnansweredPublishes = Cardinality(IncomingIds)
        /\ UnansweredPublishes' = Cardinality(IncomingIds')
        /\ incomingCount' \in Nat
    <3>1. incomingCount' \in Nat
      BY <1>0, <1>2 DEF PublishArrives, HandlePublish, FcPublishReceived, fcVars
    <3> QED
      BY <2>1, <3>1, IncomingFinite DEF UnansweredPublishes, NoReply
  <2>6. ReceiveQuotaNotLeaked'
    BY <1>0, <2>1, <2>4, <2>5, IncomingFinite DEF ReceiveQuotaNotLeaked
  <2>7. CleanReceiveQuotaExact => CleanReceiveQuotaExact'
    <3>1. incomingCount = UnansweredPublishes => incomingCount' = UnansweredPublishes'
      BY <1>0, <2>4, <2>5, IncomingFinite
    <3> QED
      BY <2>1, <3>1, Zenon DEF CleanReceiveQuotaExact
  <2> QED
    BY <2>3, <2>6, <2>7
<1>3. ASSUME NEW id \in PacketIds, PubrelArrives(id)
      PROVE  ReceiveInv'
  <2>1. CASE PubrelResult(id) = "SendPubcomp"
    <3>1. /\ reply = NoReply
          /\ reply' = [type |-> "Pubcomp", id |-> id, isError |-> FALSE]
          /\ IsConnected' /\ IsConnected /\ UNCHANGED <<cleanStart, incomingCount>>
      BY <1>3, <2>1 DEF PubrelArrives, HandlePubrel, sesVars, fcVars, IsConnected
    <3>2. HasIncoming(id) /\ incoming' = [incoming EXCEPT ![id] = "None"]
      BY <1>3, <2>1 DEF PubrelArrives, HandlePubrel, QosPubrelReceived, PubrelResult,
         HasIncoming
    <3>3. UnansweredPublishes' = UnansweredPublishes
      <4>1. Cardinality(IncomingIds') = Cardinality(IncomingIds) - 1
        BY <1>0, <3>2, IncomingRemoved
      <4> QED
        BY <3>1, <4>1, IncomingFinite DEF UnansweredPublishes, NoReply
    <3>4. ReplyHasFlow'
      BY <3>1 DEF ReplyHasFlow
    <3>5. CleanReceiveQuotaExact => CleanReceiveQuotaExact'
      BY <3>1, <3>3, Zenon DEF CleanReceiveQuotaExact
    <3> QED
      BY <3>1, <3>3, <3>4, <3>5 DEF ReceiveQuotaNotLeaked
  <2>2. CASE PubrelResult(id) # "SendPubcomp"
    <3>1. IncomingKept
      BY <1>3, <2>2 DEF PubrelArrives, HandlePubrel, QosPubrelReceived, IncomingKept,
         fcVars, sesVars, IsConnected
    <3> QED
      BY <3>1, IncomingKeptInv
  <2> QED
    BY <2>1, <2>2
<1>4. CASE ReplySent
  <2>1. reply' = NoReply /\ UNCHANGED <<cleanStart, connectionState>>
    BY <1>4 DEF ReplySent, PubackSent, PubrecSent, PubcompSent, sesVars
  <2>2. ReplyHasFlow' /\ UnansweredPublishes' = Cardinality(IncomingIds')
    BY <2>1, IncomingFinite DEF ReplyHasFlow, NoReply, UnansweredPublishes
  <2>3. reply # NoReply /\ IsConnected /\ IsConnected'
    BY <1>4, <2>1 DEF ReplySent, NoReply, ReplyHasFlow, IsConnected
  <2>4. incomingCount <= UnansweredPublishes
    BY <2>3 DEF ReceiveQuotaNotLeaked
  <2>5. TRUE \notin PubrecErrors /\ cleanStart => incomingCount = UnansweredPublishes
    BY <2>3, Zenon DEF CleanReceiveQuotaExact
  <2>a. ASSUME NEW before \in Nat, NEW after \in Nat, after = before - 1,
               UnansweredPublishes = before, UnansweredPublishes' = after,
               incomingCount' = Decremented(incomingCount)
        PROVE  /\ incomingCount' <= UnansweredPublishes'
               /\ incomingCount = UnansweredPublishes => incomingCount' = UnansweredPublishes'
    BY <1>0, <2>4, <2>a DEF Decremented
  <2>6. /\ incomingCount' <= UnansweredPublishes'
        /\ TRUE \notin PubrecErrors /\ incomingCount = UnansweredPublishes
               => incomingCount' = UnansweredPublishes'
    <3>1. CASE reply.type = "Puback"
      <4>1. reply.id \in PacketIds /\ HasIncoming(reply.id)
        BY <1>0, <3>1 DEF Reply, NoReply, ReplyHasFlow, HasIncoming
      <4>2. incoming' = [incoming EXCEPT ![reply.id] = "None"]
        BY <1>4, <3>1 DEF ReplySent, PubackSent, QosPubackSent, ReplyHasFlow
      <4>3. incomingCount' = Decremented(incomingCount)
        BY <1>4, <3>1 DEF ReplySent, PubackSent, FcPublishAckSent
      <4>4. Cardinality(IncomingIds') = Cardinality(IncomingIds) - 1
        BY <1>0, <4>1, <4>2, IncomingRemoved
      <4>5. UnansweredPublishes' = UnansweredPublishes - 1 /\ UnansweredPublishes' \in Nat
        BY <2>2, <3>1, <4>4, IncomingFinite DEF UnansweredPublishes
      <4>6. UnansweredPublishes \in Nat
        BY <3>1, IncomingFinite DEF UnansweredPublishes
      <4> QED
        BY <2>a, <4>3, <4>5, <4>6
    <3>2. CASE reply.type = "Pubrec"
      <4>1. UNCHANGED incoming
        BY <1>4, <3>2 DEF ReplySent, PubrecSent, qosVars
      <4>2. UnansweredPublishes' = UnansweredPublishes /\ UnansweredPublishes \in Nat
        BY <2>2, <3>2, <4>1, IncomingFinite DEF UnansweredPublishes, IncomingIds, HasIncoming
      <4>3. CASE reply.isError
        <5>1. incomingCount' = Decremented(incomingCount)
          BY <1>4, <3>2, <4>3 DEF ReplySent, PubrecSent, FcPublishAckSent
        <5>2. incomingCount' <= UnansweredPublishes'
          BY <1>0, <2>4, <4>2, <5>1 DEF Decremented
        <5>3. TRUE \in PubrecErrors
          BY <3>2, <4>3, Zenon DEF ReplyHasFlow
        <5> QED
          BY <5>2, <5>3, Zenon
      <4>4. CASE ~reply.isError
        <5>1. UNCHANGED incomingCount
          BY <1>4, <3>2, <4>4 DEF ReplySent, PubrecSent, fcVars
        <5> QED
          BY <2>4, <4>2, <5>1, Zenon
      <4> QED
        BY <4>3, <4>4
    <3>3. CASE reply.type = "Pubcomp"
      <4>1. UNCHANGED incoming /\ incomingCount' = Decremented(incomingCount)
        BY <1>4, <3>3 DEF ReplySent, PubcompSent, FcPublishAckSent, qosVars
      <4>2. UnansweredPublishes' = UnansweredPublishes - 1 /\ UnansweredPublishes' \in Nat
        BY <2>2, <3>3, <4>1, IncomingFinite DEF UnansweredPublishes, IncomingIds, HasIncoming
      <4>3. UnansweredPublishes \in Nat
        BY <3>3, IncomingFinite DEF UnansweredPublishes
      <4> QED
        BY <2>a, <4>1, <4>2, <4>3
    <3> QED
      BY <1>4, <3>1, <3>2, <3>3 DEF ReplySent
  <2>7. TRUE \notin PubrecErrors => CleanReceiveQuotaExact'
    BY <2>1, <2>5, <2>6, Zenon DEF CleanReceiveQuotaExact
  <2> QED
    BY <2>2, <2>6, <2>7 DEF ReceiveQuotaNotLeaked
<1> QED
  BY <1>1, <1>2, <1>3, <1>4 DEF ReceiveNext

LEMMA OtherReceive ==
    ASSUME ReceiveInv, SubscriptionNext \/ TimerNext \/ AuthenticationNext \/ UNCHANGED vars
    PROVE  ReceiveInv'
<1>1. CASE SubscriptionNext
  <2>1. UNCHANGED <<qosVars, fcVars, sesVars, reply>>
    BY <1>1 DEF SubscriptionNext, Subscribe, SubscribeSent, Unsubscribe, UnsubscribeSent,
       GiveUpSubscribe, AbortSubscribe, GiveUpUnsubscribe, AbortUnsubscribe,
       SubackArrives, HandleSuback, UnsubackArrives, HandleUnsuback, clientVars
  <2> QED
    BY <2>1, IncomingKeptInv DEF IncomingKept, ReceiveInv, ReplyHasFlow, IsConnected,
       qosVars, fcVars, sesVars
<1>2. CASE TimerNext \/ AuthenticationNext \/ UNCHANGED vars
  <2>1. UNCHANGED <<qosVars, fcVars, sesVars, reply>>
    BY <1>2 DEF TimerNext, Tick, PacketSent, Activity, SendPingreq, PingreqSent,
       PingrespArrives, PingrespReceived, AuthenticationNext, Reauthenticate,
       ReauthenticateSent, AuthArrives, AuthReceived, sessionVars, clientVars, vars
  <2> QED
    BY <2>1, IncomingKeptInv DEF IncomingKept, ReceiveInv, ReplyHasFlow, IsConnected,
       qosVars, fcVars, sesVars
<1> QED
  BY <1>1, <1>2

\* The inductive invariant, from which both theorems follow
LEMMA ReceiveInvariant ==
    ASSUME ~AbortCollisions
    PROVE  Spec => []ReceiveInv
<1>1. Init => ReceiveInv
  BY DEF Init, SessionInit, ReceiveInv, ReplyHasFlow, NoReply, IsConnected,
     ReceiveQuotaNotLeaked, CleanReceiveQuotaExact
<1>2. TypeOK /\ FreshConnection /\ ReceiveInv /\ [Next]_vars => ReceiveInv'
  BY ConnectionReceive, SendReceive, ReceiveReceive, OtherReceive DEF Next
<1> QED
  BY <1>1, <1>2, TypeCorrect, ConnectionStartsFresh, PTL DEF Spec

(***************************************************************************)
(* Receive quota always comes back (puback_sent, pubrec_sent,              *)
(* pubcomp_sent): for every Receive Maximum, whatever the server sends and *)
(* repeats, and also when the client answers with error codes, the count   *)
(* stays within the PUBLISHes that are unanswered.  The caller must not    *)
(* abort a flow whose identifier the server uses, too: without that        *)
(* hypothesis a run refutes the claim.                                     *)
(***************************************************************************)
THEOREM ReceiveQuotaReturns ==
    ASSUME ~AbortCollisions
    PROVE  Spec => []ReceiveQuotaNotLeaked
<1>1. ReceiveInv => ReceiveQuotaNotLeaked
  BY DEF ReceiveInv
<1> QED
  BY <1>1, ReceiveInvariant, PTL

(***************************************************************************)
(* A session that starts clean counts the unanswered PUBLISHes exactly     *)
(* (publish_received), so a server that exceeds the Receive Maximum of the *)
(* client is noticed.  The client must not answer PUBREC with an error     *)
(* code: pubrec_sent gives the quota of such a flow back and keeps the     *)
(* flow, which a run shows.                                                *)
(***************************************************************************)
THEOREM CleanReceiveQuotaCounted ==
    ASSUME ~AbortCollisions, TRUE \notin PubrecErrors
    PROVE  Spec => []CleanReceiveQuotaExact
<1>1. ReceiveInv => CleanReceiveQuotaExact
  BY DEF ReceiveInv
<1> QED
  BY <1>1, ReceiveInvariant, PTL

=============================================================================
