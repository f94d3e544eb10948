----------------------------- MODULE QosDelivery -----------------------------
(***************************************************************************)
(* One direction of message delivery from end to end: a client session     *)
(* that publishes, a server that receives, and a connection between them   *)
(* that may break at any point and lose what it carries.                   *)
(*                                                                         *)
(* The client keeps its session (Clean Start off).  After every CONNACK    *)
(* the application sends what pending_retransmissions lists, in its order, *)
(* before it publishes anything new, and it keeps a copy of each message   *)
(* for that purpose, because the session stores none.  The server is the   *)
(* receiving half of this library's own flow manager.                      *)
(***************************************************************************)
EXTENDS Session, Sequences

CONSTANTS
    Messages,
    OnceMessages,    \* the messages with QoS 2; the others have QoS 1
    ReceiveMaxima,   \* what the server may announce, None for nothing
    MaxBreaks,       \* bound: how often the connection breaks
    TimeoutAborts    \* the application may abort a PUBLISH after a timeout

ASSUME DeliveryAssumption ==
    /\ None \notin Messages
    /\ OnceMessages \subseteq Messages
    /\ ReceiveMaxima \subseteq 1..U16Max \cup {None}
    /\ MaxBreaks \in Nat
    /\ TimeoutAborts \in BOOLEAN

VARIABLES
    stored,        \* the application's copy of the message of each identifier
    writing,       \* the identifier whose PUBLISH is being written, or None
    toResend,      \* the part of pending_retransmissions still to be sent
    offered,       \* the messages the application has tried to publish
    toServer,      \* packets on their way, in order
    toClient,
    peerIncoming,  \* the server's incoming flows
    peerReply,     \* the acknowledgement the server is about to send, or None
    breaks,        \* how often the connection broke
    accepted,      \* the messages written, in their order
    copies,        \* how often each message was handed to the server's application
    completed      \* the messages whose flow ended with an acknowledgement

clientVars == <<stored, writing, toResend, offered>>
wireVars == <<toServer, toClient>>
peerVars == <<peerIncoming, peerReply>>
deliveryVars == <<accepted, copies, completed>>
vars == <<sessionVars, clientVars, wireVars, peerVars, breaks, deliveryVars>>

\* The server's flow manager, of which only the receiving half is used
Peer == INSTANCE QosFlowManager WITH
    incoming <- peerIncoming,
    outgoing <- [id \in PacketIds |-> NoFlow],
    nextSeq  <- 0

Abstract == INSTANCE ReliableDelivery

Publishes == [type : {"PUBLISH"}, id : PacketIds, message : Messages]
Pubrels == [type : {"PUBREL"}, id : PacketIds]
Acks == [type : {"PUBACK", "PUBREC", "PUBCOMP"}, id : PacketIds]

Packet(type, id) == [type |-> type, id |-> id]
PublishPacket(id) == [type |-> "PUBLISH", id |-> id, message |-> stored[id]]

DeliveryTypeOK ==
    /\ SessionTypeOK
    /\ stored \in [PacketIds -> Messages \cup {None}]
    /\ writing \in PacketIds \cup {None}
    /\ toResend \subseteq PacketIds
    /\ offered \subseteq Messages
    /\ toServer \in Seq(Publishes \cup Pubrels)
    /\ toClient \in Seq(Acks)
    /\ Peer!QosTypeOK
    /\ peerReply \in Acks \cup {None}
    /\ breaks \in 0..MaxBreaks
    /\ accepted \in Seq(Messages)
    /\ copies \in [Messages -> Nat]
    /\ completed \subseteq Messages

DeliveryInit ==
    /\ SessionInit
    /\ ~cleanStart
    /\ ~clientIdEmpty
    /\ stored = [id \in PacketIds |-> None]
    /\ writing = None
    /\ toResend = {}
    /\ offered = {}
    /\ toServer = << >>
    /\ toClient = << >>
    /\ Peer!QosInit
    /\ peerReply = None
    /\ breaks = 0
    /\ Abstract!Init

QosOf(m) == IF m \in OnceMessages THEN "ExactlyOnce" ELSE "AtLeastOnce"

-----------------------------------------------------------------------------
(***************************************************************************)
(* The connection                                                          *)
(***************************************************************************)

Open ==
    /\ connectionState = "Disconnected"
    /\ writing = None
    /\ ConnectSent
    /\ UNCHANGED <<clientVars, wireVars, peerVars, breaks, deliveryVars>>

\* The server resumes the session it kept since the first connection.
Connack(max) ==
    [version |-> protocolVersion, success |-> TRUE,
     sessionPresent |-> breaks > 0, receiveMaximum |-> max,
     sessionExpiryInterval |-> None, topicAliasMaximum |-> None,
     serverKeepAlive |-> None, maximumPacketSize |-> None,
     maximumQos |-> None, available |-> [f \in Features |-> None],
     assignedClientIdentifier |-> None, authenticationMethod |-> None]

\* CONNACK arrives; the application asks for pending_retransmissions.
ConnackArrives ==
    /\ \E max \in ReceiveMaxima : ApplyConnack(Connack(max))
    /\ toResend' = {id \in PacketIds : NeedsRetransmission(id) # "None"}
    /\ UNCHANGED <<stored, writing, offered, wireVars, peerVars, breaks, deliveryVars>>

\* The connection breaks and what it carries is lost.
Break ==
    /\ connectionState # "Disconnected"
    /\ breaks < MaxBreaks
    /\ Disconnected
    /\ toServer' = << >>
    /\ toClient' = << >>
    /\ peerReply' = None
    /\ toResend' = {}
    /\ breaks' = breaks + 1
    /\ UNCHANGED <<stored, writing, offered, peerIncoming, deliveryVars>>

-----------------------------------------------------------------------------
(***************************************************************************)
(* The client                                                              *)
(***************************************************************************)

IsConnected == connectionState = "Connected"

ToServer(packet) == toServer' = Append(toServer, packet)

\* allocate_packet_id and publish_sent, before anything is written
Register(m, id) ==
    /\ IsConnected
    /\ writing = None
    /\ toResend = {}
    /\ m \notin offered
    /\ PidAllocate(id)
    /\ FcPublishSent
    /\ QosPublishSent(QosOf(m), id)
    /\ stored' = [stored EXCEPT ![id] = m]
    /\ writing' = id
    /\ offered' = offered \cup {m}
    /\ UNCHANGED <<subVars, kaVars, authVars, sesVars, toResend, wireVars,
                   peerVars, breaks, deliveryVars>>

Write ==
    /\ IsConnected
    /\ writing # None
    /\ ToServer(PublishPacket(writing))
    /\ accepted' = Append(accepted, stored[writing])
    /\ writing' = None
    /\ UNCHANGED <<sessionVars, stored, toResend, offered, toClient, peerVars,
                   breaks, copies, completed>>

\* abort_publish: writing failed, or the acknowledgement took too long.
Abort(id) ==
    /\ HasOutgoing(id)
    /\ id = writing \/ TimeoutAborts
    /\ AbortPublish(id)
    /\ stored' = [stored EXCEPT ![id] = None]
    /\ writing' = IF writing = id THEN None ELSE writing
    /\ toResend' = toResend \ {id}
    /\ UNCHANGED <<offered, wireVars, peerVars, breaks, deliveryVars>>

\* The identifiers still to be resent, in the order of the list
IsNextToResend(id) ==
    /\ id \in toResend
    /\ \A other \in toResend \ {id} : ResendBefore(id, other)

\* resend_publish or resend_pubrel (which changes nothing), and the write
Resend(id) ==
    /\ IsConnected
    /\ IsNextToResend(id)
    /\ \/ /\ ResendPublish(id)
          /\ ToServer(PublishPacket(id))
       \/ /\ NeedsRetransmission(id) = "ResendPubrel"
          /\ ToServer(Packet("PUBREL", id))
          /\ UNCHANGED sessionVars
    /\ toResend' = toResend \ {id}
    /\ UNCHANGED <<stored, writing, offered, toClient, peerVars, breaks, deliveryVars>>

\* The flow of id ends with an acknowledgement.
Completed(id) ==
    /\ stored' = [stored EXCEPT ![id] = None]
    /\ completed' = completed \cup {stored[id]}

\* handle_puback and handle_pubcomp
ClientReceivesFinalAck ==
    /\ IsConnected
    /\ toClient # << >>
    /\ LET ack == Head(toClient)
           result == IF ack.type = "PUBACK" THEN PubackResult(ack.id)
                                            ELSE PubcompResult(ack.id)
       IN  /\ \/ ack.type = "PUBACK"  /\ HandlePuback(ack.id)
              \/ ack.type = "PUBCOMP" /\ HandlePubcomp(ack.id)
           /\ IF result = "Complete" THEN Completed(ack.id)
                                     ELSE UNCHANGED <<stored, completed>>
    /\ toClient' = Tail(toClient)
    /\ UNCHANGED <<writing, toResend, offered, toServer, peerVars, breaks,
                   accepted, copies>>

\* handle_pubrec, and the PUBREL it asks for
ClientReceivesPubrec ==
    /\ IsConnected
    /\ toClient # << >>
    /\ LET ack == Head(toClient)
       IN  /\ ack.type = "PUBREC"
           /\ HandlePubrec(ack.id, FALSE)
           /\ IF PubrecResult(ack.id, FALSE) = "SendPubrel"
              THEN ToServer(Packet("PUBREL", ack.id)) ELSE UNCHANGED toServer
    /\ toClient' = Tail(toClient)
    /\ UNCHANGED <<clientVars, peerVars, breaks, deliveryVars>>

-----------------------------------------------------------------------------
(***************************************************************************)
(* The server                                                              *)
(***************************************************************************)

\* A repeated QoS 2 message is not handed to the application again.
ServerDelivers(packet) ==
    copies' = IF packet.message \in OnceMessages /\ Peer!HasIncoming(packet.id)
              THEN copies ELSE [copies EXCEPT ![packet.message] = @ + 1]

ServerReceivesPublish ==
    /\ peerReply = None
    /\ toServer # << >>
    /\ LET packet == Head(toServer)
       IN  /\ packet.type = "PUBLISH"
           /\ ServerDelivers(packet)
           /\ IF packet.message \in OnceMessages
              THEN /\ Peer!QosPublishReceivedQos2(packet.id)
                   /\ peerReply' = Packet("PUBREC", packet.id)
              ELSE /\ Peer!QosPublishReceivedQos1(packet.id)
                   /\ peerReply' = Packet("PUBACK", packet.id)
    /\ toServer' = Tail(toServer)
    /\ UNCHANGED <<sessionVars, clientVars, toClient, breaks, accepted, completed>>

\* Whether the flow was still there or not, the answer is a PUBCOMP.
ServerReceivesPubrel ==
    /\ peerReply = None
    /\ toServer # << >>
    /\ Head(toServer).type = "PUBREL"
    /\ Peer!QosPubrelReceived(Head(toServer).id)
    /\ peerReply' = Packet("PUBCOMP", Head(toServer).id)
    /\ toServer' = Tail(toServer)
    /\ UNCHANGED <<sessionVars, clientVars, toClient, breaks, deliveryVars>>

ServerAnswers ==
    /\ peerReply # None
    /\ toClient' = Append(toClient, peerReply)
    /\ peerReply' = None
    /\ IF peerReply.type = "PUBACK" THEN Peer!QosPubackSent(peerReply.id)
                                    ELSE UNCHANGED peerIncoming
    /\ UNCHANGED <<sessionVars, clientVars, toServer, breaks, deliveryVars>>

-----------------------------------------------------------------------------

ClientReceives == ClientReceivesFinalAck \/ ClientReceivesPubrec
ServerReceives == ServerReceivesPublish \/ ServerReceivesPubrel
AbortWriting == writing # None /\ Abort(writing)
ResendNext == \E id \in PacketIds : Resend(id)

DeliveryNext ==
    \/ Open \/ ConnackArrives \/ Break \/ Write
    \/ ClientReceives \/ ServerReceives \/ ServerAnswers
    \/ ResendNext
    \/ \E id \in PacketIds : Abort(id) \/ (\E m \in Messages : Register(m, id))

(***************************************************************************)
(* The transport delivers while it is up, both ends handle what arrives,   *)
(* and the application connects again, works off the list of packets to    *)
(* resend and ends what it began to write.  Nobody has to publish.         *)
(***************************************************************************)
DeliveryFairness ==
    /\ WF_vars(Open) /\ WF_vars(ConnackArrives)
    /\ WF_vars(ResendNext) /\ WF_vars(Write \/ AbortWriting)
    /\ WF_vars(ClientReceives) /\ WF_vars(ServerReceives) /\ WF_vars(ServerAnswers)

DeliverySpec == DeliveryInit /\ [][DeliveryNext]_vars /\ DeliveryFairness

-----------------------------------------------------------------------------
(***************************************************************************)
(* Properties                                                              *)
(***************************************************************************)

(***************************************************************************)
(* The session, its retransmission list and its reuse of identifiers       *)
(* deliver as promised: QoS 2 exactly once, QoS 1 at least once, in order, *)
(* complete only after delivery, and everything written is eventually      *)
(* delivered and completed when the connection breaks finitely often.      *)
(***************************************************************************)
DeliversReliably == Abstract!Spec

(***************************************************************************)
(* allocate_packet_id hands out an identifier that is unused: a message    *)
(* whose flow ran to its final acknowledgement (handle_puback,             *)
(* handle_pubcomp) was never taken for an older one by the server.         *)
(***************************************************************************)
CompletedWasDelivered == \A m \in completed : copies[m] > 0

(***************************************************************************)
(* The server holds an open incoming flow only for an identifier that the  *)
(* session still has in use (PacketIdManager::release comes last), so the  *)
(* next allocate never meets it.                                           *)
(***************************************************************************)
PeerFlowsOwned == \A id \in PacketIds : Peer!HasIncoming(id) => id \in inUse

=============================================================================
