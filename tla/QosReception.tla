----------------------------- MODULE QosReception -----------------------------
(***************************************************************************)
(* The other direction of message delivery: a server that publishes, a     *)
(* client session that receives, and a connection that may break at any    *)
(* point.  The client may publish with QoS 1 of its own at the same time;  *)
(* the two directions choose their identifiers independently, from the     *)
(* same range.                                                             *)
(*                                                                         *)
(* The client keeps its session and hands a message to its application     *)
(* when handle_publish_qos1 or handle_publish_qos2 says that it is new.    *)
(* The server is the sending half of this library's own flow manager: it   *)
(* keeps to the client's Receive Maximum and, after a break, resends what  *)
(* is not acknowledged, in the order of sending, before anything new.      *)
(***************************************************************************)
EXTENDS Session, Sequences, FiniteSets

CONSTANTS
    Messages,
    OnceMessages,   \* the messages with QoS 2; the others have QoS 1
    OwnMaxima,      \* Receive Maxima the client may announce
    MaxBreaks,      \* bound: how often the connection breaks
    MaxOwn          \* bound: how often the client publishes

ASSUME ReceptionAssumption ==
    /\ None \notin Messages
    /\ OnceMessages \subseteq Messages
    /\ OwnMaxima \subseteq 1..U16Max
    /\ MaxBreaks \in Nat /\ MaxOwn \in Nat

VARIABLES
    reply,         \* the answer the client is writing
    ownSent,       \* how often the client has published
    peerOutgoing,  \* the server's flows
    peerSeq,       \* the server's next_seq
    peerStored,    \* the server's copy of the message of each identifier
    peerToResend,  \* the flows the server still has to resend
    toServer, toClient,  \* packets on their way, in order
    breaks,        \* how often the connection broke
    accepted,      \* the messages the server has sent, in their order
    copies,        \* how often each message was handed to the application
    completed      \* the messages whose flow ended at the server

clientVars == <<reply, ownSent>>
peerVars == <<peerOutgoing, peerSeq, peerStored, peerToResend>>
wireVars == <<toServer, toClient>>
deliveryVars == <<accepted, copies, completed>>
vars == <<sessionVars, clientVars, peerVars, wireVars, breaks, deliveryVars>>

\* The server's flow manager, of which only the sending half is used
Peer == INSTANCE QosFlowManager WITH
    outgoing <- peerOutgoing,
    incoming <- [id \in PacketIds |-> "None"],
    nextSeq  <- peerSeq

Abstract == INSTANCE ReliableDelivery

\* A packet; message is that of a PUBLISH of the server
Packet(type, id) == [type |-> type, id |-> id, message |-> None]
PublishPacket(id, m) == [type |-> "PUBLISH", id |-> id, message |-> m]

\* An answer of the client; settles: it gives receive quota back
Reply(type, id, settles) == [type |-> type, id |-> id, settles |-> settles]
NoReply == Reply("None", 0, FALSE)

ReceptionTypeOK ==
    /\ SessionTypeOK
    /\ reply \in [type : {"None", "PUBACK", "PUBREC", "PUBCOMP"},
                  id : 0..U16Max, settles : BOOLEAN]
    /\ ownSent \in 0..MaxOwn
    /\ Peer!QosTypeOK
    /\ peerStored \in [PacketIds -> Messages \cup {None}]
    /\ peerToResend \subseteq PacketIds
    /\ copies \in [Messages -> Nat]
    /\ completed \subseteq Messages

ReceptionInit ==
    /\ SessionInit
    /\ ~cleanStart /\ ~clientIdEmpty
    /\ reply = NoReply
    /\ ownSent = 0
    /\ Peer!QosInit
    /\ peerStored = [id \in PacketIds |-> None]
    /\ peerToResend = {}
    /\ toServer = << >> /\ toClient = << >>
    /\ breaks = 0
    /\ Abstract!Init

QosOf(m) == IF m \in OnceMessages THEN "ExactlyOnce" ELSE "AtLeastOnce"

-----------------------------------------------------------------------------
(***************************************************************************)
(* The connection                                                          *)
(***************************************************************************)

\* The client chooses its Receive Maximum for the connection it opens next.
\* MQTT v3.1.1 has none to announce, and the default stays.
Configure(max) ==
    /\ connectionState = "Disconnected"
    /\ IsV5
    /\ ConfigureForConnect([keepAliveSecs |-> 0, sessionExpiryInterval |-> 0,
           topicAliasMaximum |-> 0, receiveMaximum |-> max, maximumPacketSize |-> 0])
    /\ UNCHANGED <<clientVars, peerVars, wireVars, breaks, deliveryVars>>

Open ==
    /\ connectionState = "Disconnected"
    /\ ConnectSent
    /\ UNCHANGED <<clientVars, peerVars, wireVars, breaks, deliveryVars>>

\* The server resumes the session and works out what it has to resend.
Connack ==
    [version |-> protocolVersion, success |-> TRUE,
     sessionPresent |-> breaks > 0, receiveMaximum |-> None,
     sessionExpiryInterval |-> None, topicAliasMaximum |-> None,
     serverKeepAlive |-> None, maximumPacketSize |-> None,
     maximumQos |-> None, available |-> [f \in Features |-> None],
     assignedClientIdentifier |-> None, authenticationMethod |-> None]

ConnackArrives ==
    /\ ApplyConnack(Connack)
    /\ Peer!QosClearQuotaCharges
    /\ peerToResend' = {id \in PacketIds : Peer!NeedsRetransmission(id) # "None"}
    /\ UNCHANGED <<clientVars, peerStored, wireVars, breaks, deliveryVars>>

\* The connection breaks; what it carries and a half-written answer are lost.
Break ==
    /\ connectionState # "Disconnected"
    /\ breaks < MaxBreaks
    /\ Disconnected
    /\ toServer' = << >> /\ toClient' = << >>
    /\ reply' = NoReply
    /\ peerToResend' = {}
    /\ breaks' = breaks + 1
    /\ UNCHANGED <<ownSent, peerOutgoing, peerSeq, peerStored, deliveryVars>>

-----------------------------------------------------------------------------
(***************************************************************************)
(* The server                                                              *)
(***************************************************************************)

IsConnected == connectionState = "Connected"

\* The server keeps to the Receive Maximum of the client's CONNECT.
PeerMaySend == Cardinality(Peer!ChargedIds) < ownReceiveMaximum

ServerPublishes(m, id) ==
    /\ IsConnected /\ peerToResend = {} /\ PeerMaySend
    /\ ~Abstract!IsAccepted(m)
    /\ ~Peer!HasOutgoing(id)
    /\ Peer!QosPublishSent(QosOf(m), id)
    /\ peerStored' = [peerStored EXCEPT ![id] = m]
    /\ toClient' = Append(toClient, PublishPacket(id, m))
    /\ accepted' = Append(accepted, m)
    /\ UNCHANGED <<sessionVars, clientVars, peerToResend, toServer, breaks,
                   copies, completed>>

ServerResends(id) ==
    /\ IsConnected
    /\ id \in peerToResend
    /\ \A other \in peerToResend \ {id} : Peer!ResendBefore(id, other)
    /\ \/ /\ Peer!NeedsRetransmission(id) = "ResendPublish"
          /\ PeerMaySend
          /\ Peer!QosMarkQuotaCharged(id)
          /\ toClient' = Append(toClient, PublishPacket(id, peerStored[id]))
       \/ /\ Peer!NeedsRetransmission(id) = "ResendPubrel"
          /\ toClient' = Append(toClient, Packet("PUBREL", id))
          /\ UNCHANGED <<peerOutgoing, peerSeq>>
    /\ peerToResend' = peerToResend \ {id}
    /\ UNCHANGED <<sessionVars, clientVars, peerStored, toServer, breaks, deliveryVars>>

\* The server takes an acknowledgement of a PUBLISH of its own.
ServerReceivesAck ==
    /\ toServer # << >>
    /\ LET ack == Head(toServer)
       IN  \/ /\ ack.type = "PUBREC"
              /\ Peer!QosPubrecReceived(ack.id, FALSE)
              /\ toClient' = IF Peer!PubrecResult(ack.id, FALSE) = "SendPubrel"
                             THEN Append(toClient, Packet("PUBREL", ack.id)) ELSE toClient
              /\ UNCHANGED <<peerStored, completed>>
           \/ /\ \/ ack.type = "PUBACK"  /\ Peer!QosPubackReceived(ack.id)
                 \/ ack.type = "PUBCOMP" /\ Peer!QosPubcompReceived(ack.id)
              /\ peerStored' = [peerStored EXCEPT ![ack.id] = None]
              /\ completed' = completed \cup ({peerStored[ack.id]} \ {None})
              /\ UNCHANGED toClient
    /\ toServer' = Tail(toServer)
    /\ UNCHANGED <<sessionVars, clientVars, peerToResend, breaks, accepted, copies>>

\* The server takes a PUBLISH of the client.
ServerReceivesPublish ==
    /\ toServer # << >> /\ Head(toServer).type = "PUBLISH"
    /\ toClient' = Append(toClient, Packet("PUBACK", Head(toServer).id))
    /\ toServer' = Tail(toServer)
    /\ UNCHANGED <<sessionVars, clientVars, peerVars, breaks, deliveryVars>>

-----------------------------------------------------------------------------
(***************************************************************************)
(* The client                                                              *)
(***************************************************************************)

\* A packet from the server is handled when the last one was answered.
Takes(type) ==
    /\ IsConnected /\ reply = NoReply
    /\ toClient # << >> /\ Head(toClient).type = type
    /\ toClient' = Tail(toClient)

\* handle_publish_qos1 or handle_publish_qos2; a repeated QoS 2 message is not
\* handed to the application (is_duplicate).
ClientReceivesPublish ==
    /\ Takes("PUBLISH")
    /\ LET id == Head(toClient).id
           m == Head(toClient).message
       IN  /\ HandlePublish(QosOf(m), id)
           /\ copies' = IF m \in OnceMessages /\ HasIncoming(id)
                        THEN copies ELSE [copies EXCEPT ![m] = @ + 1]
           /\ reply' = IF m \in OnceMessages THEN Reply("PUBREC", id, FALSE)
                                             ELSE Reply("PUBACK", id, TRUE)
    /\ UNCHANGED <<ownSent, peerVars, toServer, breaks, accepted, completed>>

\* handle_pubrel.  The PUBCOMP of ResendPubcomp is written without pubcomp_sent;
\* after StateMismatch nothing is written.
ClientReceivesPubrel ==
    /\ Takes("PUBREL")
    /\ LET id == Head(toClient).id
       IN  /\ HandlePubrel(id)
           /\ reply' = IF PubrelResult(id) \in {"SendPubcomp", "ResendPubcomp"}
                       THEN Reply("PUBCOMP", id, PubrelResult(id) = "SendPubcomp")
                       ELSE reply
    /\ UNCHANGED <<ownSent, peerVars, toServer, breaks, deliveryVars>>

\* The answer is written, and puback_sent, pubrec_sent or pubcomp_sent called.
ReplySent ==
    /\ IsConnected /\ reply # NoReply
    /\ \/ reply.type = "PUBACK" /\ PubackSent(reply.id)
       \/ reply.type = "PUBREC" /\ PubrecSent(FALSE)
       \/ reply.type = "PUBCOMP" /\ reply.settles /\ PubcompSent
       \/ reply.type = "PUBCOMP" /\ ~reply.settles /\ UNCHANGED sessionVars
    /\ toServer' = Append(toServer, Packet(reply.type, reply.id))
    /\ reply' = NoReply
    /\ UNCHANGED <<ownSent, peerVars, toClient, breaks, deliveryVars>>

\* allocate_packet_id, publish_sent and the write of a PUBLISH with QoS 1
OwnPublish(id) ==
    /\ IsConnected /\ reply = NoReply
    /\ ownSent < MaxOwn
    /\ PidAllocate(id)
    /\ FcPublishSent
    /\ QosPublishSent("AtLeastOnce", id)
    /\ ownSent' = ownSent + 1
    /\ toServer' = Append(toServer, Packet("PUBLISH", id))
    /\ UNCHANGED <<subVars, kaVars, authVars, sesVars, reply, peerVars, toClient,
                   breaks, deliveryVars>>

\* resend_publish after a reconnection
OwnResend(id) ==
    /\ IsConnected /\ reply = NoReply
    /\ ~outgoing[id].charged
    /\ ResendPublish(id)
    /\ toServer' = Append(toServer, Packet("PUBLISH", id))
    /\ UNCHANGED <<clientVars, peerVars, toClient, breaks, deliveryVars>>

\* handle_puback
ClientReceivesPuback ==
    /\ Takes("PUBACK")
    /\ HandlePuback(Head(toClient).id)
    /\ UNCHANGED <<clientVars, peerVars, toServer, breaks, deliveryVars>>

-----------------------------------------------------------------------------

ServerResendsNext == \E id \in PacketIds : ServerResends(id)
ServerReceives == ServerReceivesAck \/ ServerReceivesPublish
ClientReceives == ClientReceivesPublish \/ ClientReceivesPubrel \/ ClientReceivesPuback

ReceptionNext ==
    \/ Open \/ ConnackArrives \/ Break
    \/ ServerResendsNext \/ ServerReceives \/ ClientReceives \/ ReplySent
    \/ \E max \in OwnMaxima : Configure(max)
    \/ \E id \in PacketIds :
          \/ OwnPublish(id) \/ OwnResend(id)
          \/ \E m \in Messages : ServerPublishes(m, id)

(***************************************************************************)
(* As in QosDelivery: both ends handle what arrives, the client connects   *)
(* again and writes its answers, the server works off what it has to       *)
(* resend.  Nobody has to publish.                                         *)
(***************************************************************************)
ReceptionFairness ==
    /\ WF_vars(Open) /\ WF_vars(ConnackArrives)
    /\ WF_vars(ServerResendsNext) /\ WF_vars(ServerReceives)
    /\ WF_vars(ClientReceives) /\ WF_vars(ReplySent)

ReceptionSpec == ReceptionInit /\ [][ReceptionNext]_vars /\ ReceptionFairness

-----------------------------------------------------------------------------
(***************************************************************************)
(* Properties                                                              *)
(***************************************************************************)

(***************************************************************************)
(* The client receives reliably: a QoS 2 message is given to the           *)
(* application exactly once, a QoS 1 message at least once, before its     *)
(* flow ends at the server, and in order (handle_publish_qos1,             *)
(* handle_publish_qos2, handle_pubrel).  This holds while the client       *)
(* publishes with the same identifiers, too: the end of an outgoing flow   *)
(* leaves the incoming flow alone (handle_puback).                         *)
(***************************************************************************)
ReceivesOnce == Abstract!SafetySpec

(***************************************************************************)
(* Every flow of the server ends, whatever a break lost (handle_pubrel and *)
(* the ResendPubcomp that answers a PUBREL whose PUBCOMP was lost), as     *)
(* long as the client does not publish: a PUBREL that meets an outgoing    *)
(* flow of the same identifier, and no incoming one, is not answered       *)
(* (StateMismatch of pubrel_received).                                     *)
(***************************************************************************)
ReceptionCompletes ==
    \A m \in Messages :
        Abstract!IsAccepted(m) ~> m \in completed \/ ownSent > 0

(***************************************************************************)
(* A server that keeps to the client's Receive Maximum is never refused:   *)
(* publish_received does not fail for the PUBLISH that comes next, on the  *)
(* first connection or on one that resumes half-finished flows.            *)
(***************************************************************************)
HonestServerAccepted ==
    /\ IsConnected /\ toClient # << >>
    /\ Head(toClient).type = "PUBLISH"
    => MayReceivePublish(Head(toClient).id)

=============================================================================
