---------------------------- MODULE QosFlowManager ----------------------------
(***************************************************************************)
(* The QoS 1 and QoS 2 acknowledgement flows of both directions            *)
(* (state/qos_flow.rs).                                                    *)
(*                                                                         *)
(* The two directions have identifier spaces of their own: the client      *)
(* chooses the identifiers of `outgoing`, the server those of `incoming`.  *)
(* A BTreeMap is a total function here, with the NoFlow entry for an       *)
(* absent key.  Each handler is an action for its effect together with a   *)
(* ...Result operator for the Action or error it returns.                  *)
(***************************************************************************)
EXTENDS MqttTypes

VARIABLES
    outgoing,  \* outgoing: packet id -> OutgoingFlow
    incoming,  \* incoming: packet id -> FlowState
    nextSeq    \* next_seq: the sequence number of the next event

qosVars == <<outgoing, incoming, nextSeq>>

OutgoingStates == {"AwaitingPuback", "AwaitingPubrec", "AwaitingPubcomp"}
IncomingStates == {"AwaitingPubrel", "IncomingAwaitingPuback"}

\* The absent entry of `outgoing`
NoFlow == [state |-> "None", seq |-> 0, charged |-> FALSE]

OutgoingFlow ==
    [state : OutgoingStates \cup {"None"}, seq : Nat, charged : BOOLEAN]

QosTypeOK ==
    /\ outgoing \in [PacketIds -> OutgoingFlow]
    /\ incoming \in [PacketIds -> IncomingStates \cup {"None"}]
    /\ nextSeq \in Nat

QosInit ==
    /\ outgoing = [id \in PacketIds |-> NoFlow]
    /\ incoming = [id \in PacketIds |-> "None"]
    /\ nextSeq = 0

HasOutgoing(id) == outgoing[id].state # "None"

\* has_incoming_flow
HasIncoming(id) == incoming[id] # "None"

\* is_active: a flow in either direction
IsActive(id) == HasOutgoing(id) \/ HasIncoming(id)

OutgoingIds == {id \in PacketIds : HasOutgoing(id)}
IncomingIds == {id \in PacketIds : HasIncoming(id)}

\* The flows that consumed send quota on this Network Connection
ChargedIds == {id \in PacketIds : outgoing[id].charged}

\* What a handler answers when it finds no flow in the state it expects.
Unmatched(id) == IF IsActive(id) THEN "StateMismatch" ELSE "None"

-----------------------------------------------------------------------------
(***************************************************************************)
(* The sending side                                                        *)
(***************************************************************************)

\* publish_sent_qos1 and publish_sent_qos2: nothing happens for a flow that
\* is already there.
QosPublishSent(qos, id) ==
    /\ IF HasOutgoing(id)
       THEN UNCHANGED <<outgoing, nextSeq>>
       ELSE /\ outgoing' = [outgoing EXCEPT ![id] =
                   [state   |-> IF qos = "AtLeastOnce" THEN "AwaitingPuback"
                                                       ELSE "AwaitingPubrec",
                    seq     |-> nextSeq,
                    charged |-> TRUE]]
            /\ nextSeq' = nextSeq + 1
    /\ UNCHANGED incoming

PubackResult(id) ==
    IF outgoing[id].state = "AwaitingPuback" THEN "Complete" ELSE Unmatched(id)

\* Mutant: the incoming flow with the same identifier is forgotten, too.
QosPubackReceivedForgetsBoth(id) ==
    /\ outgoing' = IF PubackResult(id) = "Complete"
                   THEN [outgoing EXCEPT ![id] = NoFlow] ELSE outgoing
    /\ incoming' = IF PubackResult(id) = "Complete"
                   THEN [incoming EXCEPT ![id] = "None"] ELSE incoming
    /\ UNCHANGED nextSeq

\* puback_received
QosPubackReceived(id) ==
    /\ outgoing' = IF PubackResult(id) = "Complete"
                   THEN [outgoing EXCEPT ![id] = NoFlow] ELSE outgoing
    /\ UNCHANGED <<incoming, nextSeq>>

\* isError: the reason code is 0x80 or greater
PubrecResult(id, isError) ==
    IF isError
    THEN IF outgoing[id].state = "AwaitingPubrec"
         THEN "Aborted" ELSE Unmatched(id)
    ELSE IF outgoing[id].state \in {"AwaitingPubrec", "AwaitingPubcomp"}
         THEN "SendPubrel" ELSE Unmatched(id)

\* Mutant: the flow keeps the sequence number of its PUBLISH.
QosPubrecReceivedKeepsSeq(id, isError) ==
    /\ \/ /\ outgoing[id].state = "AwaitingPubrec"
          /\ outgoing' = [outgoing EXCEPT ![id] =
                 IF isError THEN NoFlow ELSE [@ EXCEPT !.state = "AwaitingPubcomp"]]
       \/ /\ outgoing[id].state # "AwaitingPubrec"
          /\ UNCHANGED outgoing
    /\ UNCHANGED <<incoming, nextSeq>>

\* pubrec_received: the first PUBREC ends the flow or moves it on to its PUBREL,
\* with a new sequence number; a repeated or unexpected one changes nothing.
QosPubrecReceived(id, isError) ==
    /\ \/ /\ outgoing[id].state = "AwaitingPubrec"
          /\ isError
          /\ outgoing' = [outgoing EXCEPT ![id] = NoFlow]
          /\ UNCHANGED nextSeq
       \/ /\ outgoing[id].state = "AwaitingPubrec"
          /\ ~isError
          /\ outgoing' = [outgoing EXCEPT ![id].state = "AwaitingPubcomp",
                                          ![id].seq = nextSeq]
          /\ nextSeq' = nextSeq + 1
       \/ /\ outgoing[id].state # "AwaitingPubrec"
          /\ UNCHANGED <<outgoing, nextSeq>>
    /\ UNCHANGED incoming

PubcompResult(id) ==
    IF outgoing[id].state = "AwaitingPubcomp" THEN "Complete" ELSE Unmatched(id)

\* pubcomp_received
QosPubcompReceived(id) ==
    /\ outgoing' = IF PubcompResult(id) = "Complete"
                   THEN [outgoing EXCEPT ![id] = NoFlow] ELSE outgoing
    /\ UNCHANGED <<incoming, nextSeq>>

\* needs_retransmission
NeedsRetransmission(id) ==
    CASE outgoing[id].state \in {"AwaitingPuback", "AwaitingPubrec"} -> "ResendPublish"
      [] outgoing[id].state = "AwaitingPubcomp" -> "ResendPubrel"
      [] OTHER -> "None"

\* Mutant: the order of the map's keys, without the sequence numbers
ResendBeforeById(i, j) == i < j

\* The order of pending_packet_ids, which sorts the pairs (seq, id)
ResendBefore(i, j) ==
    \/ outgoing[i].seq < outgoing[j].seq
    \/ outgoing[i].seq = outgoing[j].seq /\ i < j

\* mark_quota_charged
QosMarkQuotaCharged(id) ==
    /\ outgoing' = IF HasOutgoing(id)
                   THEN [outgoing EXCEPT ![id].charged = TRUE] ELSE outgoing
    /\ UNCHANGED <<incoming, nextSeq>>

\* clear_quota_charges
QosClearQuotaCharges ==
    /\ outgoing' = [id \in PacketIds |-> [outgoing[id] EXCEPT !.charged = FALSE]]
    /\ UNCHANGED <<incoming, nextSeq>>

-----------------------------------------------------------------------------
(***************************************************************************)
(* The receiving side                                                      *)
(***************************************************************************)

\* publish_received_qos1: opens the flow, or keeps it for a repetition
QosPublishReceivedQos1(id) ==
    /\ incoming' = [incoming EXCEPT ![id] = "IncomingAwaitingPuback"]
    /\ UNCHANGED <<outgoing, nextSeq>>

\* publish_received_qos2; the message is a duplicate iff HasIncoming(id)
QosPublishReceivedQos2(id) ==
    /\ incoming' = [incoming EXCEPT ![id] = "AwaitingPubrel"]
    /\ UNCHANGED <<outgoing, nextSeq>>

\* puback_sent
QosPubackSent(id) ==
    /\ incoming' = IF incoming[id] = "IncomingAwaitingPuback"
                   THEN [incoming EXCEPT ![id] = "None"] ELSE incoming
    /\ UNCHANGED <<outgoing, nextSeq>>

\* Mutant: a PUBREL without a flow is not answered again.
PubrelResultWithoutResend(id) ==
    IF incoming[id] = "AwaitingPubrel" THEN "SendPubcomp" ELSE "StateMismatch"

PubrelResult(id) ==
    CASE incoming[id] = "AwaitingPubrel" -> "SendPubcomp"
      [] incoming[id] = "IncomingAwaitingPuback" -> "StateMismatch"
      [] ~HasIncoming(id) /\ HasOutgoing(id) -> "StateMismatch"
      [] ~HasIncoming(id) /\ ~HasOutgoing(id) -> "ResendPubcomp"

\* pubrel_received
QosPubrelReceived(id) ==
    /\ incoming' = IF PubrelResult(id) = "SendPubcomp"
                   THEN [incoming EXCEPT ![id] = "None"] ELSE incoming
    /\ UNCHANGED <<outgoing, nextSeq>>

-----------------------------------------------------------------------------

\* release: forgets the flows of both directions
QosRelease(id) ==
    /\ outgoing' = [outgoing EXCEPT ![id] = NoFlow]
    /\ incoming' = [incoming EXCEPT ![id] = "None"]
    /\ UNCHANGED nextSeq

QosReset ==
    /\ outgoing' = [id \in PacketIds |-> NoFlow]
    /\ incoming' = [id \in PacketIds |-> "None"]
    /\ nextSeq' = 0

QosNext ==
    \/ QosReset \/ QosClearQuotaCharges
    \/ \E id \in PacketIds :
          \/ QosPubackReceived(id) \/ QosPubcompReceived(id)
          \/ QosMarkQuotaCharged(id) \/ QosRelease(id)
          \/ QosPublishReceivedQos1(id) \/ QosPublishReceivedQos2(id)
          \/ QosPubackSent(id) \/ QosPubrelReceived(id)
          \/ \E isError \in BOOLEAN : QosPubrecReceived(id, isError)
          \/ \E qos \in {"AtLeastOnce", "ExactlyOnce"} : QosPublishSent(qos, id)

=============================================================================
