---------------------------- MODULE DeliveryProofs ----------------------------
(***************************************************************************)
(* The session delivers reliably over a connection that breaks: the safety *)
(* half of ReliableDelivery, for every width of the packet identifier,     *)
(* every set of messages and every number of breaks, as long as the        *)
(* application aborts a PUBLISH only when writing it failed.               *)
(*                                                                         *)
(* DeliveryInv, the inductive invariant, follows every flow through the    *)
(* two ends and the wire: at most one packet of an identifier is under     *)
(* way, and its type tells how far either end has come.                    *)
(***************************************************************************)
EXTENDS QosDelivery, ComponentProofs

DistinctIds(queue) == \A i, j \in 1..Len(queue) : queue[i].id = queue[j].id => i = j

\* The flow waits for the first answer to its PUBLISH.
PublishPending(id) == outgoing[id].state \in {"AwaitingPuback", "AwaitingPubrec"}

Earlier(id, other) == outgoing[id].seq < outgoing[other].seq

IsDelivered(m) == copies[m] > 0

-----------------------------------------------------------------------------
(***************************************************************************)
(* The inductive invariant                                                 *)
(***************************************************************************)

\* The identifiers in use are those of the flows, and each flow has its copy.
Bookkeeping ==
    /\ PoolPartition
    /\ \A id \in PacketIds : id \in inUse <=> HasOutgoing(id)
    /\ \A id \in PacketIds : stored[id] # None <=> HasOutgoing(id)
    /\ \A id \in PacketIds : HasOutgoing(id) => outgoing[id].seq < nextSeq
    /\ \A i, j \in PacketIds : HasOutgoing(i) /\ HasOutgoing(j) /\ i # j =>
          stored[i] # stored[j] /\ outgoing[i].seq # outgoing[j].seq

\* How far the server can be, given the state of the client's flow
EndsAgree(id) ==
    /\ ~HasOutgoing(id) => peerIncoming[id] = "None"
    /\ outgoing[id].state = "AwaitingPuback" =>
          /\ stored[id] \notin OnceMessages
          /\ peerIncoming[id] \in {"None", "IncomingAwaitingPuback"}
          /\ peerIncoming[id] # "None" => IsDelivered(stored[id])
    /\ outgoing[id].state = "AwaitingPubrec" =>
          /\ stored[id] \in OnceMessages
          /\ peerIncoming[id] \in {"None", "AwaitingPubrel"}
          /\ peerIncoming[id] # "None" <=> IsDelivered(stored[id])
    /\ outgoing[id].state = "AwaitingPubcomp" =>
          /\ stored[id] \in OnceMessages
          /\ peerIncoming[id] \in {"None", "AwaitingPubrel"}
          /\ IsDelivered(stored[id])

\* Offered, accepted, delivered and completed messages
MessagesTracked ==
    /\ \A i \in 1..Len(accepted) :
          /\ accepted[i] \in offered
          /\ IsDelivered(accepted[i]) \/ \E id \in PacketIds : stored[id] = accepted[i]
    /\ \A m \in Messages : IsDelivered(m) => Abstract!IsAccepted(m)
    /\ \A m \in completed : IsDelivered(m)
    /\ \A id \in PacketIds : HasOutgoing(id) =>
          /\ stored[id] \in offered
          /\ stored[id] \notin completed
          /\ Abstract!IsAccepted(stored[id]) <=> id # writing

\* The sequence numbers of unanswered flows follow the order of acceptance.
AcceptedInOrder ==
    \A i, j \in 1..Len(accepted), p, q \in PacketIds :
        /\ i < j
        /\ PublishPending(p) /\ stored[p] = accepted[i]
        /\ PublishPending(q) /\ stored[q] = accepted[j]
        => Earlier(p, q)

WritingIsLast ==
    writing # None =>
        /\ PublishPending(writing)
        /\ toResend = {}
        /\ \A id \in PacketIds : PublishPending(id) /\ id # writing => Earlier(id, writing)

ServerPacketOK(packet) ==
    /\ packet.id \notin toResend
    /\ packet.id # writing
    /\ packet.type = "PUBLISH" =>
          /\ PublishPending(packet.id)
          /\ packet.message = stored[packet.id]
          /\ \A id \in toResend : Earlier(packet.id, id)
    /\ packet.type = "PUBREL" => outgoing[packet.id].state = "AwaitingPubcomp"

AckOK(ack) ==
    /\ ack.id \notin toResend
    /\ ack.id # writing
    /\ ack.type = "PUBACK" =>
          outgoing[ack.id].state = "AwaitingPuback" /\ IsDelivered(stored[ack.id])
    /\ ack.type = "PUBREC" =>
          outgoing[ack.id].state = "AwaitingPubrec" /\ peerIncoming[ack.id] = "AwaitingPubrel"
    /\ ack.type = "PUBCOMP" =>
          outgoing[ack.id].state = "AwaitingPubcomp" /\ peerIncoming[ack.id] = "None"

\* At most one packet of an identifier is under way.
OnePacketPerId ==
    /\ DistinctIds(toServer)
    /\ DistinctIds(toClient)
    /\ \A p \in Packets(toServer), c \in Packets(toClient) : p.id # c.id
    /\ peerReply # None =>
          /\ \A p \in Packets(toServer) : p.id # peerReply.id
          /\ \A c \in Packets(toClient) : c.id # peerReply.id

WireOK ==
    /\ PublishesInOrder(toServer, outgoing)
    /\ \A p \in Packets(toServer) : ServerPacketOK(p)
    /\ \A c \in Packets(toClient) :
          AckOK(c) /\ (c.type = "PUBACK" => peerIncoming[c.id] = "None")
    /\ peerReply # None => AckOK(peerReply)

\* The PUBLISH of a message that was not delivered yet is on the wire, or will
\* be sent again.
NothingLost ==
    \A id \in PacketIds :
        IsConnected /\ PublishPending(id) /\ id # writing /\ ~IsDelivered(stored[id]) =>
            \/ id \in toResend
            \/ \E p \in Packets(toServer) : p.type = "PUBLISH" /\ p.id = id

ConnectionFacts ==
    /\ ~cleanStart
    /\ ~IsConnected => /\ toServer = << >> /\ toClient = << >>
                       /\ peerReply = None /\ toResend = {}
    /\ connectionState = "Connecting" => writing = None
    /\ \A id \in toResend : HasOutgoing(id)
    /\ breaks = 0 /\ ~IsConnected => OutgoingIds = {}

DeliveryInv ==
    /\ DeliveryTypeOK
    /\ Bookkeeping
    /\ \A id \in PacketIds : EndsAgree(id)
    /\ MessagesTracked
    /\ AcceptedInOrder
    /\ WritingIsLast
    /\ OnePacketPerId
    /\ WireOK
    /\ NothingLost
    /\ ConnectionFacts

-----------------------------------------------------------------------------
(***************************************************************************)
(* The queues of the wire                                                  *)
(***************************************************************************)

LEMMA EmptyQueue ==
    /\ Packets(<< >>) = {}
    /\ DistinctIds(<< >>)
    /\ \A flows : PublishesInOrder(<< >>, flows)
  BY EmptySeq DEF Packets, DistinctIds, PublishesInOrder

LEMMA QueueAppend ==
    ASSUME NEW S, NEW queue \in Seq(S), NEW packet \in S
    PROVE  /\ Append(queue, packet) \in Seq(S)
           /\ Packets(Append(queue, packet)) = Packets(queue) \cup {packet}
           /\ DistinctIds(queue) /\ (\A p \in Packets(queue) : p.id # packet.id)
                  => DistinctIds(Append(queue, packet))
<1>1. Len(queue) \in Nat
  BY LenProperties
<1>2. /\ Append(queue, packet) \in Seq(S)
      /\ Len(Append(queue, packet)) = Len(queue) + 1
      /\ \A i \in 1..Len(queue) : Append(queue, packet)[i] = queue[i]
      /\ Append(queue, packet)[Len(queue) + 1] = packet
  BY AppendProperties
<1>3. Packets(Append(queue, packet)) = Packets(queue) \cup {packet}
  BY <1>1, <1>2 DEF Packets
<1>4. ASSUME DistinctIds(queue), \A p \in Packets(queue) : p.id # packet.id,
             NEW i \in 1..(Len(queue) + 1), NEW j \in 1..(Len(queue) + 1),
             Append(queue, packet)[i].id = Append(queue, packet)[j].id
      PROVE  i = j
  <2>1. \A k \in 1..Len(queue) : queue[k].id # packet.id
    BY <1>4 DEF Packets
  <2>2. \A k \in 1..(Len(queue) + 1) : k \in 1..Len(queue) \/ k = Len(queue) + 1
    BY <1>1
  <2> QED
    BY <1>2, <1>4, <2>1, <2>2 DEF DistinctIds
<1> QED
  BY <1>2, <1>3, <1>4 DEF DistinctIds

LEMMA QueueTail ==
    ASSUME NEW S, NEW queue \in Seq(S), queue # << >>, DistinctIds(queue)
    PROVE  /\ Tail(queue) \in Seq(S)
           /\ Head(queue) \in Packets(queue)
           /\ Packets(Tail(queue)) = Packets(queue) \ {Head(queue)}
           /\ \A p \in Packets(Tail(queue)) : p.id # Head(queue).id
           /\ DistinctIds(Tail(queue))
<1>1. Len(queue) \in Nat /\ Len(queue) >= 1
  BY LenProperties, EmptySeq
<1>2. /\ Tail(queue) \in Seq(S)
      /\ Head(queue) = queue[1]
      /\ Len(Tail(queue)) = Len(queue) - 1
      /\ \A i \in 1..(Len(queue) - 1) : Tail(queue)[i] = queue[i + 1]
  BY HeadTailProperties
<1>3. Head(queue) \in Packets(queue)
  BY <1>1, <1>2 DEF Packets
<1>4. \A i \in 1..(Len(queue) - 1) : i + 1 \in 1..Len(queue) /\ i + 1 # 1
  BY <1>1
<1>5. \A p \in Packets(Tail(queue)) : p \in Packets(queue) /\ p.id # Head(queue).id
  <2> SUFFICES ASSUME NEW i \in 1..(Len(queue) - 1)
               PROVE  queue[i + 1] \in Packets(queue) /\ queue[i + 1].id # queue[1].id
    BY <1>2 DEF Packets
  <2> QED
    BY <1>1, <1>4 DEF Packets, DistinctIds
<1>6. \A p \in Packets(queue) : p = Head(queue) \/ p \in Packets(Tail(queue))
  <2> SUFFICES ASSUME NEW i \in 1..Len(queue)
               PROVE  queue[i] = Head(queue) \/ queue[i] \in Packets(Tail(queue))
    BY DEF Packets
  <2>1. CASE i = 1
    BY <1>2, <2>1
  <2>2. CASE i # 1
    <3>1. i - 1 \in 1..(Len(queue) - 1) /\ (i - 1) + 1 = i
      BY <1>1, <2>2
    <3>2. Tail(queue)[i - 1] = queue[i]
      BY <1>2, <3>1
    <3> QED
      BY <1>2, <3>1, <3>2 DEF Packets
  <2> QED
    BY <2>1, <2>2
<1>7. DistinctIds(Tail(queue))
  <2> SUFFICES ASSUME NEW i \in 1..(Len(queue) - 1), NEW j \in 1..(Len(queue) - 1),
                      queue[i + 1].id = queue[j + 1].id
               PROVE  i = j
    BY <1>2 DEF DistinctIds
  <2>1. i + 1 = j + 1
    BY <1>4 DEF DistinctIds
  <2> QED
    BY <1>1, <2>1
<1> QED
  BY <1>2, <1>3, <1>5, <1>6, <1>7

-----------------------------------------------------------------------------
(***************************************************************************)
(* The connection                                                          *)
(***************************************************************************)

LEMMA PacketTypes ==
    ASSUME DeliveryTypeOK
    PROVE  /\ \A p \in Packets(toServer) :
                 /\ p \in Publishes \cup Pubrels /\ p.id \in PacketIds
                 /\ p.type \in {"PUBLISH", "PUBREL"}
                 /\ p.type = "PUBLISH" => p.message \in Messages
           /\ \A c \in Packets(toClient) :
                 /\ c \in Acks /\ c.id \in PacketIds
                 /\ c.type \in {"PUBACK", "PUBREC", "PUBCOMP"}
           /\ peerReply # None => peerReply \in Acks /\ peerReply.id \in PacketIds
                                  /\ peerReply.type \in {"PUBACK", "PUBREC", "PUBCOMP"}
<1>1. toServer \in Seq(Publishes \cup Pubrels) /\ toClient \in Seq(Acks)
      /\ peerReply \in Acks \cup {None}
  BY DEF DeliveryTypeOK
<1>2. \A p \in Packets(toServer) : p \in Publishes \cup Pubrels
  BY <1>1, ElementOfSeq DEF Packets
<1>3. \A c \in Packets(toClient) : c \in Acks
  BY <1>1, ElementOfSeq DEF Packets
<1> QED
  BY <1>1, <1>2, <1>3 DEF Publishes, Pubrels, Acks

LEMMA PeerType ==
    Peer!QosTypeOK <=> peerIncoming \in [PacketIds -> IncomingStates \cup {"None"}]
<1>1. /\ Peer!PacketIds = PacketIds /\ Peer!OutgoingFlow = OutgoingFlow
      /\ Peer!IncomingStates = IncomingStates
  BY DEF Peer!PacketIds, PacketIds, Peer!OutgoingFlow, OutgoingFlow,
     Peer!OutgoingStates, OutgoingStates, Peer!IncomingStates, IncomingStates
<1>2. [id \in PacketIds |-> NoFlow] \in [PacketIds -> OutgoingFlow]
  BY NoFlowType
<1> QED
  BY <1>1, <1>2 DEF Peer!QosTypeOK

LEMMA DeliveryInitInv == DeliveryInit => DeliveryInv
<1> SUFFICES ASSUME DeliveryInit PROVE DeliveryInv
  OBVIOUS
<1>1. SessionTypeOK
  BY SessionInitType DEF DeliveryInit
<1>2. /\ outgoing = [id \in PacketIds |-> NoFlow]
      /\ nextId = 1 /\ freeList = {} /\ inUse = {}
      /\ connectionState = "Disconnected" /\ ~cleanStart
      /\ stored = [id \in PacketIds |-> None]
      /\ peerIncoming = [id \in PacketIds |-> "None"]
      /\ writing = None /\ toResend = {} /\ offered = {}
      /\ toServer = << >> /\ toClient = << >> /\ peerReply = None
      /\ breaks = 0
      /\ accepted = << >> /\ copies = [m \in Messages |-> 0] /\ completed = {}
  BY DEF DeliveryInit, SessionInit, PidInit, QosInit, Peer!QosInit, Abstract!Init
<1>3. Peer!QosTypeOK
  BY <1>2, PeerType
<1>4. DeliveryTypeOK
  BY <1>1, <1>2, <1>3, EmptySeq, DeliveryAssumption DEF DeliveryTypeOK
<1>5. \A id \in PacketIds : ~HasOutgoing(id) /\ outgoing[id].state = "None"
  BY <1>2 DEF HasOutgoing, NoFlow
<1>6. Bookkeeping
  BY <1>2, <1>5 DEF Bookkeeping, PoolPartition
<1>7. \A id \in PacketIds : EndsAgree(id)
  BY <1>2, <1>5 DEF EndsAgree
<1>8. Len(accepted) = 0
  BY <1>2, EmptySeq
<1>9. MessagesTracked /\ AcceptedInOrder
  BY <1>2, <1>5, <1>8 DEF MessagesTracked, AcceptedInOrder, IsDelivered
<1>10. WritingIsLast /\ OnePacketPerId /\ WireOK
  BY <1>2, EmptyQueue DEF WritingIsLast, OnePacketPerId, WireOK
<1>11. NothingLost
  BY <1>2 DEF NothingLost, IsConnected
<1>12. ConnectionFacts
  BY <1>2, <1>5 DEF ConnectionFacts, IsConnected, OutgoingIds
<1> QED
  BY <1>4, <1>6, <1>7, <1>9, <1>10, <1>11, <1>12 DEF DeliveryInv

\* A step that changes no flow at either end and delivers nothing
LEMMA FlowsKept ==
    ASSUME DeliveryInv,
           \A id \in PacketIds : /\ outgoing'[id].state = outgoing[id].state
                                 /\ outgoing'[id].seq = outgoing[id].seq,
           nextSeq' = nextSeq, UNCHANGED pidVars,
           UNCHANGED <<stored, writing, offered, peerIncoming, accepted, copies, completed>>
    PROVE  /\ Bookkeeping'
           /\ \A id \in PacketIds : EndsAgree(id)'
           /\ MessagesTracked'
           /\ AcceptedInOrder'
<1>1. \A id \in PacketIds : HasOutgoing(id)' <=> HasOutgoing(id)
  BY DEF HasOutgoing
<1>2. Bookkeeping'
  BY <1>1 DEF DeliveryInv, Bookkeeping, PoolPartition, pidVars
<1>3. \A id \in PacketIds : EndsAgree(id)'
  BY <1>1 DEF DeliveryInv, EndsAgree, IsDelivered
<1>4. MessagesTracked'
  BY <1>1 DEF DeliveryInv, MessagesTracked, IsDelivered, Abstract!IsAccepted
<1>5. AcceptedInOrder'
  BY DEF DeliveryInv, AcceptedInOrder, PublishPending, Earlier
<1> QED
  BY <1>2, <1>3, <1>4, <1>5

\* Without a connection there is nothing on the wire.
LEMMA Unconnected ==
    ASSUME toServer' = << >>, toClient' = << >>, peerReply' = None, ~IsConnected'
    PROVE  OnePacketPerId' /\ WireOK' /\ NothingLost'
  BY EmptyQueue DEF OnePacketPerId, WireOK, NothingLost

LEMMA OpenInv ==
    ASSUME DeliveryInv, Open
    PROVE  DeliveryInv'
<1>1. /\ connectionState = "Disconnected" /\ connectionState' = "Connecting"
      /\ writing = None
      /\ UNCHANGED <<nextSeq, cleanStart>> /\ UNCHANGED pidVars
      /\ outgoing' = [id \in PacketIds |-> [outgoing[id] EXCEPT !.charged = FALSE]]
      /\ UNCHANGED <<stored, writing, toResend, offered, toServer, toClient,
                     peerIncoming, peerReply, breaks, accepted, copies, completed>>
  BY DEF Open, ConnectSent, ResetConnectionState, QosClearQuotaCharges, identityVars,
     clientVars, wireVars, peerVars, deliveryVars
<1>2. SessionTypeOK' /\ outgoing \in [PacketIds -> OutgoingFlow]
  BY ConnectSentStep, SessionTypeStep
     DEF Open, DeliveryInv, DeliveryTypeOK, SessionTypeOK, QosTypeOK
<1>3. DeliveryTypeOK'
  BY <1>1, <1>2 DEF DeliveryInv, DeliveryTypeOK, Peer!QosTypeOK
<1>4. \A id \in PacketIds : /\ outgoing'[id].state = outgoing[id].state
                            /\ outgoing'[id].seq = outgoing[id].seq
  BY <1>1, <1>2 DEF OutgoingFlow
<1>5. /\ toServer' = << >> /\ toClient' = << >> /\ peerReply' = None /\ toResend' = {}
      /\ ~IsConnected' /\ ~IsConnected
  BY <1>1 DEF DeliveryInv, ConnectionFacts, IsConnected
<1>6. OnePacketPerId' /\ WireOK' /\ NothingLost'
  BY <1>5, Unconnected
<1>7. WritingIsLast'
  BY <1>1 DEF WritingIsLast
<1>8. ConnectionFacts'
  <2>1. OutgoingIds' = OutgoingIds
    BY <1>4 DEF OutgoingIds, HasOutgoing
  <2> QED
    BY <1>1, <1>5, <2>1 DEF DeliveryInv, ConnectionFacts
<1> QED
  BY <1>1, <1>3, <1>4, <1>6, <1>7, <1>8, FlowsKept DEF DeliveryInv

LEMMA BreakInv ==
    ASSUME DeliveryInv, Break
    PROVE  DeliveryInv'
<1>1. /\ connectionState' = "Disconnected"
      /\ UNCHANGED <<outgoing, nextSeq, cleanStart>> /\ UNCHANGED pidVars
      /\ breaks < MaxBreaks /\ breaks' = breaks + 1
      /\ toServer' = << >> /\ toClient' = << >> /\ peerReply' = None /\ toResend' = {}
      /\ UNCHANGED <<stored, writing, offered, peerIncoming, accepted, copies, completed>>
  BY DEF Break, Disconnected, identityVars, qosVars, deliveryVars
<1>2. SessionTypeOK'
  BY DisconnectedStep, SessionTypeStep
     DEF Break, DeliveryInv, DeliveryTypeOK, SessionTypeOK
<1>3. DeliveryTypeOK'
  <2>1. breaks \in Nat /\ breaks' \in 0..MaxBreaks
    BY <1>1, DeliveryAssumption DEF DeliveryInv, DeliveryTypeOK
  <2> QED
    BY <1>1, <1>2, <2>1, EmptySeq DEF DeliveryInv, DeliveryTypeOK, Peer!QosTypeOK
<1>4. ~IsConnected'
  BY <1>1 DEF IsConnected
<1>5. OnePacketPerId' /\ WireOK' /\ NothingLost'
  BY <1>1, <1>4, Unconnected
<1>6. WritingIsLast'
  BY <1>1 DEF DeliveryInv, WritingIsLast, PublishPending, Earlier
<1>7. ConnectionFacts'
  <2>1. breaks' # 0
    BY <1>1 DEF DeliveryInv, DeliveryTypeOK
  <2> QED
    BY <1>1, <1>4, <2>1 DEF DeliveryInv, ConnectionFacts
<1> QED
  BY <1>1, <1>3, <1>5, <1>6, <1>7, FlowsKept DEF DeliveryInv

LEMMA ConnackType ==
    ASSUME DeliveryTypeOK, NEW max \in ReceiveMaxima
    PROVE  Connack(max) \in ConnackParams
<1>1. protocolVersion \in MqttVersions
  BY DEF DeliveryTypeOK, SessionTypeOK, SesTypeOK
<1>2. max \in 0..U16Max \cup {None}
  BY DeliveryAssumption, U16MaxAssumption
<1>3. (breaks > 0) \in BOOLEAN
  OBVIOUS
<1>4. [f \in Features |-> None] \in [Features -> BOOLEAN \cup {None}]
  OBVIOUS
<1> QED
  BY <1>1, <1>2, <1>3, <1>4, Zenon DEF Connack, ConnackParams

LEMMA ConnackInv ==
    ASSUME DeliveryInv, ConnackArrives
    PROVE  DeliveryInv'
<1>1. PICK max \in ReceiveMaxima : ApplyConnack(Connack(max))
  BY DEF ConnackArrives
<1>2. SessionTypeOK'
  BY <1>1, ConnackType, ApplyConnackStep, SessionTypeStep DEF DeliveryInv, DeliveryTypeOK
<1>3. /\ connectionState = "Connecting" /\ connectionState' = "Connected"
      /\ UNCHANGED cleanStart
      /\ writing = None /\ ~IsConnected
      /\ toResend' = {id \in PacketIds : NeedsRetransmission(id) # "None"}
      /\ UNCHANGED <<stored, writing, offered, toServer, toClient,
                     peerIncoming, peerReply, breaks, accepted, copies, completed>>
  BY <1>1 DEF ApplyConnack, ConnackAccepted, Connected, ConnackArrives, identityVars,
     wireVars, peerVars, deliveryVars, DeliveryInv, ConnectionFacts, IsConnected
<1>4. DeliveryTypeOK'
  BY <1>2, <1>3 DEF DeliveryInv, DeliveryTypeOK, Peer!QosTypeOK
<1>5. Connack(max).sessionPresent = (breaks > 0)
  BY DEF Connack
<1>6. \/ UNCHANGED pidVars /\ UNCHANGED <<outgoing, nextSeq>>
      \/ breaks = 0 /\ PidReset /\ QosReset
  <2>1. breaks \in Nat /\ ~cleanStart
    BY DEF DeliveryInv, DeliveryTypeOK, ConnectionFacts
  <2>2. CASE breaks > 0
    BY <1>1, <1>5, <2>1, <2>2 DEF ApplyConnack, Connected, qosVars
  <2>3. CASE ~(breaks > 0)
    <3>1. breaks = 0
      BY <2>1, <2>3
    <3>2. ~Connack(max).sessionPresent
      BY <1>5, <2>3, Zenon
    <3>3. PidReset /\ QosReset
      BY <1>1, <3>2, Zenon DEF ApplyConnack, Connected, ResetSessionState
    <3> QED
      BY <3>1, <3>3
  <2> QED
    BY <2>2, <2>3
<1>7. /\ Bookkeeping'
      /\ \A id \in PacketIds : EndsAgree(id)'
      /\ MessagesTracked'
      /\ AcceptedInOrder'
  <2>1. CASE UNCHANGED pidVars /\ UNCHANGED <<outgoing, nextSeq>>
    BY <1>3, <2>1, FlowsKept
  <2>2. CASE breaks = 0 /\ PidReset /\ QosReset
    <3>1. \A id \in PacketIds : outgoing[id].state = "None" /\ ~HasOutgoing(id)
      BY <1>3, <2>2 DEF DeliveryInv, ConnectionFacts, OutgoingIds, HasOutgoing
    <3>2. \A id \in PacketIds : outgoing'[id].state = "None" /\ ~HasOutgoing(id)'
      BY <2>2 DEF QosReset, NoFlow, HasOutgoing
    <3>3. Bookkeeping'
      BY <1>3, <2>2, <3>1, <3>2 DEF DeliveryInv, Bookkeeping, PidReset, PoolPartition
    <3>4. \A id \in PacketIds : EndsAgree(id)'
      BY <1>3, <3>1, <3>2 DEF DeliveryInv, EndsAgree
    <3>5. MessagesTracked'
      BY <1>3, <3>1, <3>2 DEF DeliveryInv, MessagesTracked, IsDelivered, Abstract!IsAccepted
    <3>6. AcceptedInOrder'
      BY <3>2 DEF AcceptedInOrder, PublishPending
    <3> QED
      BY <3>3, <3>4, <3>5, <3>6
  <2> QED
    BY <1>6, <2>1, <2>2
<1>8. \A id \in PacketIds : id \in toResend' <=> HasOutgoing(id)'
  <2>1. \A id \in PacketIds : outgoing[id] \in OutgoingFlow
    BY DEF DeliveryInv, DeliveryTypeOK, SessionTypeOK, QosTypeOK
  <2>2. \A id \in PacketIds : id \in toResend' <=> HasOutgoing(id)
    BY <1>3, <2>1 DEF NeedsRetransmission, HasOutgoing, OutgoingFlow, OutgoingStates
  <2>3. \A id \in PacketIds : HasOutgoing(id)' <=> HasOutgoing(id)
    <3>1. CASE UNCHANGED outgoing
      BY <3>1 DEF HasOutgoing
    <3>2. CASE breaks = 0 /\ QosReset
      BY <1>3, <3>2 DEF DeliveryInv, ConnectionFacts, OutgoingIds, QosReset, NoFlow, HasOutgoing
    <3> QED
      BY <1>6, <3>1, <3>2
  <2> QED
    BY <2>2, <2>3
<1>9. toServer' = << >> /\ toClient' = << >> /\ peerReply' = None
  BY <1>3 DEF DeliveryInv, ConnectionFacts
<1>10. OnePacketPerId' /\ WireOK'
  BY <1>9, EmptyQueue DEF OnePacketPerId, WireOK
<1>11. NothingLost'
  BY <1>8 DEF NothingLost, PublishPending, HasOutgoing
<1>12. WritingIsLast'
  BY <1>3 DEF WritingIsLast
<1>13. ConnectionFacts'
  BY <1>3, <1>8 DEF DeliveryInv, ConnectionFacts, IsConnected
<1> QED
  BY <1>4, <1>7, <1>10, <1>11, <1>12, <1>13 DEF DeliveryInv

-----------------------------------------------------------------------------
(***************************************************************************)
(* The client                                                              *)
(***************************************************************************)

\* What the types say of the values that the steps look at
LEMMA FlowTypes ==
    ASSUME DeliveryTypeOK
    PROVE  /\ SessionTypeOK
           /\ outgoing \in [PacketIds -> OutgoingFlow] /\ nextSeq \in Nat
           /\ \A id \in PacketIds :
                 /\ outgoing[id] \in OutgoingFlow /\ outgoing[id].seq \in Nat
                 /\ outgoing[id].state \in OutgoingStates \cup {"None"}
                 /\ stored[id] \in Messages \cup {None}
                 /\ peerIncoming[id] \in IncomingStates \cup {"None"}
                 /\ id # None
           /\ stored \in [PacketIds -> Messages \cup {None}]
           /\ peerIncoming \in [PacketIds -> IncomingStates \cup {"None"}]
           /\ copies \in [Messages -> Nat]
<1>1. outgoing \in [PacketIds -> OutgoingFlow] /\ nextSeq \in Nat
  BY DEF DeliveryTypeOK, SessionTypeOK, QosTypeOK
<1>2. /\ peerIncoming \in [PacketIds -> IncomingStates \cup {"None"}]
      /\ stored \in [PacketIds -> Messages \cup {None}]
      /\ copies \in [Messages -> Nat]
      /\ SessionTypeOK
  BY PeerType DEF DeliveryTypeOK
<1>3. \A id \in PacketIds : id # None
  BY NoneAssumption, U16MaxAssumption DEF PacketIds
<1>4. \A id \in PacketIds :
          /\ outgoing[id] \in OutgoingFlow /\ outgoing[id].seq \in Nat
          /\ outgoing[id].state \in OutgoingStates \cup {"None"}
  BY <1>1 DEF OutgoingFlow
<1> QED
  BY <1>1, <1>2, <1>3, <1>4

LEMMA AcceptedAppend ==
    ASSUME accepted \in Seq(Messages), NEW m \in Messages,
           accepted' = Append(accepted, m)
    PROVE  /\ accepted' \in Seq(Messages)
           /\ Len(accepted) \in Nat /\ Len(accepted') = Len(accepted) + 1
           /\ \A i \in 1..Len(accepted) : accepted'[i] = accepted[i]
           /\ accepted'[Len(accepted) + 1] = m
           /\ \A x : Abstract!IsAccepted(x)' <=> Abstract!IsAccepted(x) \/ x = m
<1>1. /\ accepted' \in Seq(Messages)
      /\ Len(accepted) \in Nat /\ Len(accepted') = Len(accepted) + 1
      /\ \A i \in 1..Len(accepted) : accepted'[i] = accepted[i]
      /\ accepted'[Len(accepted) + 1] = m
  BY AppendProperties, LenProperties
<1>2. DOMAIN accepted = 1..Len(accepted) /\ DOMAIN accepted' = 1..Len(accepted')
  BY <1>1, LenProperties
<1>3. ASSUME NEW x PROVE Abstract!IsAccepted(x)' <=> Abstract!IsAccepted(x) \/ x = m
  <2>1. \A k \in 1..(Len(accepted) + 1) : k \in 1..Len(accepted) \/ k = Len(accepted) + 1
    BY <1>1
  <2>2. Len(accepted) + 1 \in 1..(Len(accepted) + 1)
        /\ \A k \in 1..Len(accepted) : k \in 1..(Len(accepted) + 1)
    BY <1>1
  <2> QED
    BY <1>1, <1>2, <2>1, <2>2 DEF Abstract!IsAccepted
<1> QED
  BY <1>1, <1>3

LEMMA WriteInv ==
    ASSUME DeliveryInv, Write
    PROVE  DeliveryInv'
<1>1. PICK id : id = writing
  OBVIOUS
<1>p. PICK packet : packet = PublishPacket(id)
  OBVIOUS
<1>2. /\ IsConnected /\ id # None
      /\ toServer' = Append(toServer, packet)
      /\ accepted' = Append(accepted, stored[id])
      /\ writing' = None
      /\ UNCHANGED sessionVars
      /\ UNCHANGED <<stored, toResend, offered, toClient, peerIncoming, peerReply,
                     breaks, copies, completed>>
  BY <1>1, <1>p DEF Write, ToServer, peerVars
<1>3. UNCHANGED <<inUse, freeList, nextId, outgoing, nextSeq, connectionState, cleanStart>>
  BY <1>2 DEF sessionVars, pidVars, qosVars, sesVars
<1>4. /\ id \in PacketIds /\ PublishPending(id) /\ toResend = {}
      /\ \A j \in PacketIds : PublishPending(j) /\ j # id => Earlier(j, id)
  BY <1>1, <1>2 DEF DeliveryInv, DeliveryTypeOK, WritingIsLast
<1>5. DeliveryTypeOK /\ Bookkeeping /\ MessagesTracked /\ OnePacketPerId /\ WireOK
      /\ NothingLost /\ ConnectionFacts /\ AcceptedInOrder
  BY DEF DeliveryInv
<1>6. HasOutgoing(id) /\ stored[id] \in Messages /\ ~Abstract!IsAccepted(stored[id])
  <2>1. HasOutgoing(id)
    BY <1>4 DEF PublishPending, HasOutgoing
  <2> QED
    BY <1>1, <1>4, <1>5, <2>1, FlowTypes DEF Bookkeeping, MessagesTracked
<1>7. /\ packet \in Publishes \cup Pubrels /\ packet.type = "PUBLISH"
      /\ packet.id = id /\ packet.message = stored[id]
  BY <1>p, <1>4, <1>6 DEF PublishPacket, Publishes
<1>8. /\ toServer' \in Seq(Publishes \cup Pubrels)
      /\ Packets(toServer') = Packets(toServer) \cup {packet}
      /\ (\A p \in Packets(toServer) : p.id # id) => DistinctIds(toServer')
  <2>1. toServer \in Seq(Publishes \cup Pubrels) /\ DistinctIds(toServer)
    BY <1>5 DEF DeliveryTypeOK, OnePacketPerId
  <2> QED
    BY <1>2, <1>7, <2>1, QueueAppend
<1>9. accepted \in Seq(Messages)
  BY <1>5 DEF DeliveryTypeOK
<1>10. /\ accepted' \in Seq(Messages)
       /\ Len(accepted) \in Nat /\ Len(accepted') = Len(accepted) + 1
       /\ \A i \in 1..Len(accepted) : accepted'[i] = accepted[i]
       /\ accepted'[Len(accepted) + 1] = stored[id]
       /\ \A x : Abstract!IsAccepted(x)' <=> Abstract!IsAccepted(x) \/ x = stored[id]
  BY <1>2, <1>6, <1>9, AcceptedAppend
<1>11. DeliveryTypeOK'
  <2>1. SessionTypeOK'
    BY <1>2, <1>5, SessionTypeStep
       DEF DeliveryTypeOK, SessionTypeOK, sessionVars, ComponentStep, SesTypeOK, sesVars
  <2> QED
    BY <1>2, <1>5, <1>8, <1>10, <2>1 DEF DeliveryTypeOK, Peer!QosTypeOK
<1>12. Bookkeeping' /\ \A j \in PacketIds : EndsAgree(j)'
  BY <1>2, <1>3 DEF DeliveryInv, Bookkeeping, PoolPartition, HasOutgoing, EndsAgree, IsDelivered
<1>13. MessagesTracked'
  <2>1. ASSUME NEW i \in 1..Len(accepted')
        PROVE  /\ accepted'[i] \in offered'
               /\ IsDelivered(accepted[i])' \/ \E j \in PacketIds : stored'[j] = accepted'[i]
    <3>1. i \in 1..Len(accepted) \/ i = Len(accepted) + 1
      BY <1>10
    <3>2. CASE i \in 1..Len(accepted)
      <4>1. accepted[i] \in offered /\ accepted'[i] = accepted[i]
            /\ (IsDelivered(accepted[i]) \/ \E j \in PacketIds : stored[j] = accepted[i])
        BY <1>5, <1>10, <3>2 DEF MessagesTracked
      <4> QED
        BY <1>2, <4>1 DEF IsDelivered
    <3>3. CASE i = Len(accepted) + 1
      BY <1>2, <1>4, <1>5, <1>6, <1>10, <3>3 DEF MessagesTracked
    <3> QED
      BY <3>1, <3>2, <3>3
  <2>2. \A m \in Messages : IsDelivered(m)' => Abstract!IsAccepted(m)'
    BY <1>2, <1>5, <1>10 DEF MessagesTracked, IsDelivered
  <2>3. \A m \in completed' : IsDelivered(m)'
    BY <1>2, <1>5 DEF MessagesTracked, IsDelivered
  <2>4. ASSUME NEW j \in PacketIds, HasOutgoing(j)'
        PROVE  /\ stored'[j] \in offered' /\ stored'[j] \notin completed'
               /\ Abstract!IsAccepted(stored[j])' <=> j # writing'
    <3>1. HasOutgoing(j)
      BY <1>3, <2>4 DEF HasOutgoing
    <3>2. stored[j] \in offered /\ stored[j] \notin completed
          /\ (Abstract!IsAccepted(stored[j]) <=> j # id)
      BY <1>1, <1>5, <3>1 DEF MessagesTracked
    <3>3. j # None
      BY <1>5, FlowTypes
    <3>4. PICK x : x = stored[j]
      OBVIOUS
    <3>5. Abstract!IsAccepted(x)'
      BY <1>10, <3>2, <3>4
    <3>6. Abstract!IsAccepted(stored[j])'
      BY <1>2, <3>4, <3>5 DEF Abstract!IsAccepted
    <3> QED
      BY <1>2, <3>2, <3>3, <3>6
  <2> QED
    BY <2>1, <2>2, <2>3, <2>4 DEF MessagesTracked
<1>14. AcceptedInOrder'
  <2> SUFFICES ASSUME NEW i \in 1..Len(accepted'), NEW j \in 1..Len(accepted'),
                      NEW p \in PacketIds, NEW q \in PacketIds, i < j,
                      PublishPending(p), stored[p] = accepted'[i],
                      PublishPending(q), stored[q] = accepted'[j]
               PROVE  Earlier(p, q)
    BY <1>2, <1>3 DEF AcceptedInOrder, PublishPending, Earlier
  <2>1. i \in 1..Len(accepted)
    BY <1>10
  <2>2. CASE j \in 1..Len(accepted)
    BY <1>5, <1>10, <2>1, <2>2 DEF AcceptedInOrder
  <2>3. CASE j = Len(accepted) + 1
    <3>1. q = id
      BY <1>4, <1>5, <1>6, <1>10, <2>3 DEF Bookkeeping, PublishPending, HasOutgoing
    <3>2. p # id
      <4>1. Abstract!IsAccepted(stored[p])
        BY <1>9, <1>10, <2>1, LenProperties DEF Abstract!IsAccepted
      <4> QED
        BY <1>6, <4>1
    <3> QED
      BY <1>4, <3>1, <3>2
  <2> QED
    BY <1>10, <2>2, <2>3
<1>15. WritingIsLast'
  BY <1>2 DEF WritingIsLast
<1>16. /\ \A p \in Packets(toServer) : p.id # id
       /\ \A c \in Packets(toClient) : c.id # id
       /\ peerReply # None => peerReply.id # id
  BY <1>1, <1>5 DEF WireOK, ServerPacketOK, AckOK
<1>17. OnePacketPerId'
  BY <1>2, <1>5, <1>7, <1>8, <1>16 DEF OnePacketPerId
<1>18. WireOK'
  <2>1. PublishesInOrder(toServer', outgoing)
    <3>1. \A p \in Packets(toServer) : p.type = "PUBLISH" =>
              outgoing[p.id].seq < outgoing[packet.id].seq
      BY <1>4, <1>5, <1>7, <1>16, PacketTypes DEF WireOK, ServerPacketOK, Earlier
    <3>2. toServer \in Seq(Publishes \cup Pubrels) /\ PublishesInOrder(toServer, outgoing)
      BY <1>5 DEF DeliveryTypeOK, WireOK
    <3> QED
      BY <1>2, <1>7, <3>1, <3>2, InOrderAppend
  <2>2. \A p \in Packets(toServer') : p.id # None /\ ServerPacketOK(p)'
    <3>1. ServerPacketOK(packet)'
      BY <1>2, <1>3, <1>4, <1>5, <1>7, FlowTypes DEF ServerPacketOK, PublishPending
    <3>2. ASSUME NEW p \in Packets(toServer) PROVE ServerPacketOK(p)'
      <4>1. p.id # None
        BY <1>5, PacketTypes, FlowTypes
      <4> QED
        BY <1>2, <1>3, <1>5, <4>1 DEF WireOK, ServerPacketOK, PublishPending, Earlier
    <3> QED
      BY <1>4, <1>5, <1>7, <1>8, <3>1, <3>2, PacketTypes, FlowTypes
  <2>3. ASSUME NEW c, AckOK(c), c.id \in PacketIds PROVE AckOK(c)'
    BY <1>2, <1>3, <1>5, <2>3, FlowTypes DEF AckOK, IsDelivered
  <2> QED
    BY <1>2, <1>3, <1>5, <2>1, <2>2, <2>3, PacketTypes DEF WireOK, AckOK, IsDelivered
<1>19. NothingLost'
  BY <1>1, <1>2, <1>3, <1>5, <1>7, <1>8
     DEF NothingLost, IsConnected, PublishPending, IsDelivered
<1>20. ConnectionFacts'
  BY <1>2, <1>3, <1>5 DEF ConnectionFacts, IsConnected, HasOutgoing
<1> QED
  BY <1>11, <1>12, <1>13, <1>14, <1>15, <1>17, <1>18, <1>19, <1>20 DEF DeliveryInv

LEMMA ResendInv ==
    ASSUME DeliveryInv, NEW id \in PacketIds, Resend(id)
    PROVE  DeliveryInv'
<1>1. DeliveryTypeOK /\ Bookkeeping /\ OnePacketPerId /\ WireOK
      /\ NothingLost /\ ConnectionFacts /\ WritingIsLast
  BY DEF DeliveryInv
<1>2. /\ IsConnected /\ id \in toResend
      /\ \A j \in toResend \ {id} : ResendBefore(id, j)
      /\ toResend' = toResend \ {id}
      /\ UNCHANGED pidVars /\ UNCHANGED sesVars /\ ComponentStep
      /\ UNCHANGED <<stored, writing, offered, toClient, peerIncoming, peerReply,
                     breaks, accepted, copies, completed>>
  BY DEF Resend, IsNextToResend, ResendPublish, sessionVars, peerVars, deliveryVars,
     ComponentStep, FcNext, QosNext
<1>3. UNCHANGED <<connectionState, cleanStart>>
  BY <1>2 DEF sesVars
<1>4. /\ nextSeq' = nextSeq
      /\ \A j \in PacketIds : /\ outgoing'[j].state = outgoing[j].state
                              /\ outgoing'[j].seq = outgoing[j].seq
  <2>1. \/ UNCHANGED <<outgoing, nextSeq>>
        \/ outgoing' = [outgoing EXCEPT ![id].charged = TRUE] /\ nextSeq' = nextSeq
    BY DEF Resend, ResendPublish, QosMarkQuotaCharged, qosVars, sessionVars
  <2>2. CASE UNCHANGED <<outgoing, nextSeq>>
    BY <2>2
  <2>3. CASE outgoing' = [outgoing EXCEPT ![id].charged = TRUE] /\ nextSeq' = nextSeq
    <3>1. outgoing \in [PacketIds -> OutgoingFlow]
      BY <1>1, FlowTypes
    <3> QED
      BY <2>3, <3>1 DEF OutgoingFlow
  <2> QED
    BY <2>1, <2>2, <2>3
<1>5. HasOutgoing(id) /\ stored[id] \in Messages /\ writing = None
  BY <1>1, <1>2, FlowTypes DEF ConnectionFacts, Bookkeeping, WritingIsLast
<1>6. PICK packet \in Publishes \cup Pubrels :
          /\ toServer' = Append(toServer, packet) /\ packet.id = id
          /\ \/ packet.type = "PUBLISH" /\ packet.message = stored[id] /\ PublishPending(id)
             \/ packet.type = "PUBREL" /\ outgoing[id].state = "AwaitingPubcomp"
  <2>1. CASE ResendPublish(id) /\ ToServer(PublishPacket(id))
    <3>1. PublishPending(id)
      BY <2>1 DEF ResendPublish, MayResendPublish, NeedsRetransmission, PublishPending
    <3>2. /\ PublishPacket(id) \in Publishes \cup Pubrels
          /\ PublishPacket(id).id = id /\ PublishPacket(id).type = "PUBLISH"
          /\ PublishPacket(id).message = stored[id]
      BY <1>5 DEF PublishPacket, Publishes
    <3> QED
      BY <2>1, <3>1, <3>2 DEF ToServer
  <2>2. CASE NeedsRetransmission(id) = "ResendPubrel" /\ ToServer(Packet("PUBREL", id))
    <3>1. outgoing[id].state = "AwaitingPubcomp"
      BY <2>2 DEF NeedsRetransmission
    <3>2. /\ Packet("PUBREL", id) \in Publishes \cup Pubrels
          /\ Packet("PUBREL", id).id = id /\ Packet("PUBREL", id).type = "PUBREL"
      BY DEF Packet, Pubrels
    <3> QED
      BY <2>2, <3>1, <3>2 DEF ToServer
  <2> QED
    BY <2>1, <2>2 DEF Resend
<1>7. toServer \in Seq(Publishes \cup Pubrels) /\ DistinctIds(toServer)
      /\ PublishesInOrder(toServer, outgoing)
  BY <1>1 DEF DeliveryTypeOK, OnePacketPerId, WireOK
<1>8. /\ \A p \in Packets(toServer) : p.id # id
      /\ \A c \in Packets(toClient) : c.id # id
      /\ peerReply # None => peerReply.id # id
  BY <1>1, <1>2 DEF WireOK, ServerPacketOK, AckOK
<1>9. /\ toServer' \in Seq(Publishes \cup Pubrels) /\ DistinctIds(toServer')
      /\ Packets(toServer') = Packets(toServer) \cup {packet}
  BY <1>6, <1>7, <1>8, QueueAppend
<1>10. DeliveryTypeOK'
  <2>1. SessionTypeOK'
    BY <1>1, <1>2, SessionTypeKept DEF DeliveryTypeOK
  <2> QED
    BY <1>1, <1>2, <1>9, <2>1 DEF DeliveryTypeOK, Peer!QosTypeOK
<1>11. WritingIsLast'
  BY <1>2, <1>5 DEF WritingIsLast
<1>12. OnePacketPerId'
  BY <1>1, <1>2, <1>6, <1>8, <1>9 DEF OnePacketPerId
<1>13. \A j \in toResend : j # id => Earlier(id, j)
  <2> SUFFICES ASSUME NEW j \in toResend, j # id PROVE Earlier(id, j)
    OBVIOUS
  <2>1. j \in PacketIds /\ HasOutgoing(j)
    BY <1>1 DEF DeliveryTypeOK, ConnectionFacts
  <2>2. outgoing[j].seq # outgoing[id].seq
    BY <1>1, <1>5, <2>1 DEF Bookkeeping
  <2>3. ResendBefore(id, j)
    BY <1>2
  <2> QED
    BY <2>2, <2>3 DEF ResendBefore, Earlier
<1>14. WireOK'
  <2>1. PublishesInOrder(toServer', outgoing')
    <3>1. PublishesInOrder(toServer', outgoing)
      <4>1. \A p \in Packets(toServer) : p.type = "PUBLISH" =>
                outgoing[p.id].seq < outgoing[packet.id].seq
        BY <1>1, <1>2, <1>6 DEF WireOK, ServerPacketOK, Earlier
      <4> QED
        BY <1>6, <1>7, <4>1, InOrderAppend
    <3>2. \A p \in Packets(toServer') : outgoing'[p.id].seq = outgoing[p.id].seq
      BY <1>1, <1>4, <1>6, <1>9, PacketTypes
    <3> QED
      BY <3>1, <3>2, InOrderKept
  <2>2. ServerPacketOK(packet)'
    <3>1. \A j \in toResend' : j \in toResend /\ j # id /\ j \in PacketIds
      BY <1>1, <1>2 DEF DeliveryTypeOK
    <3> QED
      BY <1>1, <1>2, <1>4, <1>5, <1>6, <1>13, <3>1, FlowTypes
         DEF ServerPacketOK, PublishPending, Earlier
  <2>3. ASSUME NEW p \in Packets(toServer) PROVE ServerPacketOK(p)'
    <3>1. ServerPacketOK(p) /\ p.id \in PacketIds /\ toResend \subseteq PacketIds
      BY <1>1, PacketTypes DEF WireOK, DeliveryTypeOK
    <3> QED
      BY <1>2, <1>4, <3>1 DEF ServerPacketOK, PublishPending, Earlier
  <2>4. ASSUME NEW c, AckOK(c), c.id \in PacketIds PROVE AckOK(c)'
    BY <1>2, <1>4, <2>4 DEF AckOK, IsDelivered
  <2>5. \A c \in Packets(toClient') :
            AckOK(c)' /\ (c.type = "PUBACK" => peerIncoming'[c.id] = "None")
    BY <1>1, <1>2, <2>4, PacketTypes DEF WireOK
  <2>6. peerReply' # None => AckOK(peerReply)'
    BY <1>1, <1>2, <1>4, PacketTypes DEF WireOK, AckOK, IsDelivered
  <2> QED
    BY <1>9, <2>1, <2>2, <2>3, <2>5, <2>6 DEF WireOK
<1>15. NothingLost'
  <2> SUFFICES ASSUME NEW j \in PacketIds, PublishPending(j), j # writing,
                      ~IsDelivered(stored[j])
               PROVE  \/ j \in toResend'
                      \/ \E p \in Packets(toServer') : p.type = "PUBLISH" /\ p.id = j
    BY <1>2, <1>4 DEF NothingLost, PublishPending, IsDelivered
  <2>1. CASE j = id
    BY <1>6, <1>9, <2>1 DEF PublishPending
  <2>2. CASE j # id
    BY <1>1, <1>2, <1>9, <2>2 DEF NothingLost
  <2> QED
    BY <2>1, <2>2
<1>16. ConnectionFacts'
  <2>1. \A j \in toResend' : HasOutgoing(j)'
    BY <1>1, <1>2, <1>4 DEF ConnectionFacts, HasOutgoing, DeliveryTypeOK
  <2> QED
    BY <1>1, <1>2, <1>3, <2>1 DEF ConnectionFacts, IsConnected
<1> QED
  BY <1>2, <1>4, <1>10, <1>11, <1>12, <1>14, <1>15, <1>16, FlowsKept DEF DeliveryInv

LEMMA RegisterInv ==
    ASSUME DeliveryInv, NEW m \in Messages, NEW id \in PacketIds, Register(m, id)
    PROVE  DeliveryInv'
<1>1. DeliveryTypeOK /\ Bookkeeping /\ MessagesTracked /\ OnePacketPerId /\ WireOK
      /\ NothingLost /\ ConnectionFacts /\ AcceptedInOrder
  BY DEF DeliveryInv
<1>2. /\ IsConnected /\ writing = None /\ toResend = {} /\ m \notin offered
      /\ stored' = [stored EXCEPT ![id] = m]
      /\ writing' = id
      /\ offered' = offered \cup {m}
      /\ UNCHANGED sesVars /\ ComponentStep
      /\ UNCHANGED <<toResend, toServer, toClient, peerIncoming, peerReply,
                     breaks, accepted, copies, completed>>
  BY DEF Register, QosOf, wireVars, peerVars, deliveryVars, ComponentStep, PidNext,
     FcNext, QosNext
<1>3. UNCHANGED <<connectionState, cleanStart>>
  BY <1>2 DEF sesVars
<1>4. id \notin inUse /\ inUse' = inUse \cup {id}
  BY <1>1 DEF Register, PidAllocate, Candidates, FreshIds, Bookkeeping, PoolPartition
<1>5. ~HasOutgoing(id) /\ stored[id] = None /\ peerIncoming[id] = "None"
  BY <1>1, <1>4 DEF Bookkeeping, DeliveryInv, EndsAgree
<1>6. ~Abstract!IsAccepted(m) /\ ~IsDelivered(m) /\ m \notin completed
  <2>1. accepted \in Seq(Messages)
    BY <1>1 DEF DeliveryTypeOK
  <2>2. \A x : Abstract!IsAccepted(x) => x \in offered
    BY <1>1, <2>1, LenProperties DEF Abstract!IsAccepted, MessagesTracked
  <2> QED
    BY <1>1, <1>2, <2>2 DEF MessagesTracked
<1>7. /\ nextSeq \in Nat /\ nextSeq' = nextSeq + 1
      /\ \A j \in PacketIds : j # id => outgoing'[j] = outgoing[j] /\ stored'[j] = stored[j]
      /\ outgoing'[id].seq = nextSeq
      /\ outgoing'[id].state = IF m \in OnceMessages THEN "AwaitingPubrec" ELSE "AwaitingPuback"
      /\ stored'[id] = m
  <2>1. outgoing \in [PacketIds -> OutgoingFlow] /\ nextSeq \in Nat
        /\ stored \in [PacketIds -> Messages \cup {None}]
    BY <1>1, FlowTypes
  <2>2. outgoing' = [outgoing EXCEPT ![id] =
            [state |-> IF QosOf(m) = "AtLeastOnce" THEN "AwaitingPuback" ELSE "AwaitingPubrec",
             seq |-> nextSeq, charged |-> TRUE]]
        /\ nextSeq' = nextSeq + 1
    BY <1>5 DEF Register, QosPublishSent
  <2> QED
    BY <1>2, <2>1, <2>2 DEF QosOf
<1>8. DeliveryTypeOK'
  <2>1. SessionTypeOK'
    BY <1>1, <1>2, SessionTypeKept DEF DeliveryTypeOK
  <2>2. stored' \in [PacketIds -> Messages \cup {None}]
    BY <1>1, <1>2 DEF DeliveryTypeOK
  <2> QED
    BY <1>1, <1>2, <2>1, <2>2 DEF DeliveryTypeOK, Peer!QosTypeOK
<1>9. /\ HasOutgoing(id)' /\ PublishPending(id)'
      /\ \A j \in PacketIds : j # id =>
            /\ HasOutgoing(j)' <=> HasOutgoing(j)
            /\ PublishPending(j)' <=> PublishPending(j)
            /\ HasOutgoing(j) => outgoing[j].seq \in Nat /\ outgoing[j].seq < nextSeq
                                 /\ stored[j] \in offered
  <2>1. HasOutgoing(id)' /\ PublishPending(id)'
    BY <1>7 DEF HasOutgoing, PublishPending
  <2> QED
    BY <1>1, <1>7, <2>1, FlowTypes
       DEF HasOutgoing, PublishPending, Bookkeeping, MessagesTracked
<1>10. Bookkeeping'
  <2>1. PoolPartition'
    BY <1>1, <1>2, PoolPartitionStep
       DEF Bookkeeping, ComponentStep, DeliveryTypeOK, SessionTypeOK
  <2>2. \A j \in PacketIds : /\ j \in inUse' <=> HasOutgoing(j)'
                             /\ stored'[j] # None <=> HasOutgoing(j)'
    BY <1>1, <1>4, <1>7, <1>9, DeliveryAssumption DEF Bookkeeping
  <2>3. \A j \in PacketIds : HasOutgoing(j)' => outgoing'[j].seq < nextSeq'
    BY <1>7, <1>9
  <2>4. ASSUME NEW j \in PacketIds, NEW k \in PacketIds,
               HasOutgoing(j)', HasOutgoing(k)', j # k
        PROVE  stored'[j] # stored'[k] /\ outgoing'[j].seq # outgoing'[k].seq
    <3>1. CASE j = id
      BY <1>2, <1>7, <1>9, <2>4, <3>1
    <3>2. CASE k = id
      BY <1>2, <1>7, <1>9, <2>4, <3>2
    <3>3. CASE j # id /\ k # id
      BY <1>1, <1>7, <1>9, <2>4, <3>3 DEF Bookkeeping
    <3> QED
      BY <3>1, <3>2, <3>3
  <2> QED
    BY <2>1, <2>2, <2>3, <2>4 DEF Bookkeeping
<1>11. ASSUME NEW j \in PacketIds PROVE EndsAgree(j)'
  <2>1. CASE j = id
    BY <1>2, <1>5, <1>6, <1>7, <1>9, <2>1 DEF EndsAgree, IsDelivered
  <2>2. CASE j # id
    BY <1>2, <1>7, <1>9, <2>2 DEF DeliveryInv, EndsAgree, IsDelivered
  <2> QED
    BY <2>1, <2>2
<1>12. MessagesTracked'
  <2>1. ASSUME NEW i \in 1..Len(accepted')
        PROVE  /\ accepted'[i] \in offered'
               /\ IsDelivered(accepted[i])' \/ \E j \in PacketIds : stored'[j] = accepted'[i]
    <3>1. accepted[i] \in Messages
      BY <1>1, <1>2, ElementOfSeq DEF DeliveryTypeOK
    <3>2. accepted[i] \in offered
          /\ (IsDelivered(accepted[i]) \/ \E j \in PacketIds : stored[j] = accepted[i])
      BY <1>1, <1>2 DEF MessagesTracked
    <3>3. \A j \in PacketIds : stored[j] = accepted[i] => stored'[j] = accepted[i]
      BY <1>5, <1>7, <3>1, DeliveryAssumption
    <3> QED
      BY <1>2, <3>2, <3>3 DEF IsDelivered
  <2>2. /\ \A x \in Messages : IsDelivered(x)' => Abstract!IsAccepted(x)'
        /\ \A x \in completed' : IsDelivered(x)'
    BY <1>1, <1>2 DEF MessagesTracked, IsDelivered, Abstract!IsAccepted
  <2>3. ASSUME NEW j \in PacketIds, HasOutgoing(j)'
        PROVE  /\ stored'[j] \in offered' /\ stored'[j] \notin completed'
               /\ Abstract!IsAccepted(stored[j])' <=> j # writing'
    <3>1. CASE j = id
      BY <1>2, <1>6, <1>7, <3>1 DEF Abstract!IsAccepted
    <3>2. CASE j # id
      <4>1. HasOutgoing(j) /\ stored'[j] = stored[j] /\ j # writing
        BY <1>1, <1>2, <1>7, <1>9, <2>3, <3>2, FlowTypes
      <4> QED
        BY <1>1, <1>2, <3>2, <4>1 DEF MessagesTracked, Abstract!IsAccepted
    <3> QED
      BY <3>1, <3>2
  <2> QED
    BY <2>1, <2>2, <2>3 DEF MessagesTracked
<1>13. AcceptedInOrder'
  <2> SUFFICES ASSUME NEW i \in 1..Len(accepted), NEW j \in 1..Len(accepted),
                      NEW p \in PacketIds, NEW q \in PacketIds, i < j,
                      PublishPending(p)', stored'[p] = accepted[i],
                      PublishPending(q)', stored'[q] = accepted[j]
               PROVE  Earlier(p, q)'
    BY <1>2 DEF AcceptedInOrder
  <2>1. p # id /\ q # id
    <3>1. Abstract!IsAccepted(accepted[i]) /\ Abstract!IsAccepted(accepted[j])
      BY <1>1, LenProperties DEF Abstract!IsAccepted, DeliveryTypeOK
    <3> QED
      BY <1>6, <1>7, <3>1
  <2>2. Earlier(p, q)
    BY <1>1, <1>7, <1>9, <2>1 DEF AcceptedInOrder
  <2> QED
    BY <1>7, <2>1, <2>2 DEF Earlier
<1>14. WritingIsLast'
  <2>1. ASSUME NEW j \in PacketIds, PublishPending(j)', j # id
        PROVE  outgoing'[j].seq < outgoing'[id].seq
    <3>1. HasOutgoing(j)
      BY <1>9, <2>1 DEF PublishPending, HasOutgoing
    <3> QED
      BY <1>7, <1>9, <2>1, <3>1
  <2> QED
    BY <1>2, <1>9, <2>1 DEF WritingIsLast, Earlier
<1>15. /\ \A p \in Packets(toServer) : p.id # id /\ p.id \in PacketIds
       /\ \A c \in Packets(toClient) : c.id # id /\ c.id \in PacketIds
       /\ peerReply # None => peerReply.id # id /\ peerReply.id \in PacketIds
  <2>1. ASSUME NEW p \in Packets(toServer) PROVE HasOutgoing(p.id)
    BY <1>1, PacketTypes DEF WireOK, ServerPacketOK, HasOutgoing, PublishPending
  <2>2. ASSUME NEW c \in Packets(toClient) PROVE HasOutgoing(c.id)
    BY <1>1, PacketTypes DEF WireOK, AckOK, HasOutgoing
  <2>3. peerReply # None => HasOutgoing(peerReply.id)
    BY <1>1, PacketTypes DEF WireOK, AckOK, HasOutgoing
  <2> QED
    BY <1>1, <1>5, <2>1, <2>2, <2>3, PacketTypes
<1>16. OnePacketPerId'
  BY <1>1, <1>2 DEF OnePacketPerId
<1>17. WireOK'
  <2>1. PublishesInOrder(toServer', outgoing')
    <3>1. \A p \in Packets(toServer) : outgoing'[p.id].seq = outgoing[p.id].seq
      BY <1>7, <1>15
    <3> QED
      BY <1>1, <1>2, <3>1, InOrderKept DEF WireOK
  <2>2. \A p \in Packets(toServer') : ServerPacketOK(p)'
    BY <1>1, <1>2, <1>7, <1>9, <1>15 DEF WireOK, ServerPacketOK
  <2>3. ASSUME NEW c, AckOK(c), c.id # id, c.id \in PacketIds PROVE AckOK(c)'
    BY <1>2, <1>7, <2>3 DEF AckOK, IsDelivered
  <2>4. \A c \in Packets(toClient') :
            AckOK(c)' /\ (c.type = "PUBACK" => peerIncoming'[c.id] = "None")
    BY <1>1, <1>2, <1>15, <2>3 DEF WireOK
  <2>5. peerReply' # None => AckOK(peerReply)'
    BY <1>1, <1>2, <1>7, <1>15 DEF WireOK, AckOK, IsDelivered
  <2> QED
    BY <2>1, <2>2, <2>4, <2>5 DEF WireOK
<1>18. NothingLost'
  <2> SUFFICES ASSUME NEW j \in PacketIds, PublishPending(j)', j # id,
                      ~IsDelivered(stored[j])'
               PROVE  \/ j \in toResend'
                      \/ \E p \in Packets(toServer') : p.type = "PUBLISH" /\ p.id = j
    BY <1>2 DEF NothingLost
  <2>1. PublishPending(j) /\ ~IsDelivered(stored[j]) /\ j # writing
    BY <1>1, <1>2, <1>7, <1>9, FlowTypes DEF IsDelivered
  <2> QED
    BY <1>1, <1>2, <2>1 DEF NothingLost
<1>19. ConnectionFacts'
  BY <1>1, <1>2, <1>3 DEF ConnectionFacts, IsConnected
<1> QED
  BY <1>8, <1>10, <1>11, <1>12, <1>13, <1>14, <1>16, <1>17, <1>18, <1>19 DEF DeliveryInv

\* A flow ends at the client: it was delivered and acknowledged, or its PUBLISH
\* was never written.  In both cases the server holds nothing of it.
LEMMA FlowEnds ==
    ASSUME DeliveryInv, NEW id \in PacketIds, HasOutgoing(id), peerIncoming[id] = "None",
           outgoing' = [outgoing EXCEPT ![id] = NoFlow], nextSeq' = nextSeq,
           PidRelease(id),
           stored' = [stored EXCEPT ![id] = None],
           toResend' = toResend, id \notin toResend,
           UNCHANGED <<offered, peerIncoming, accepted, copies>>,
           \/ id = writing /\ writing' = None /\ completed' = completed
           \/ /\ IsDelivered(stored[id]) /\ id # writing /\ writing' = writing
              /\ completed' = completed \cup {stored[id]}
    PROVE  /\ Bookkeeping'
           /\ \A j \in PacketIds : EndsAgree(j)'
           /\ MessagesTracked'
           /\ AcceptedInOrder'
           /\ WritingIsLast'
           /\ \A p : p.id \in PacketIds /\ p.id # id /\ ServerPacketOK(p) => ServerPacketOK(p)'
           /\ \A c : c.id \in PacketIds /\ c.id # id /\ AckOK(c) => AckOK(c)'
           /\ OutgoingIds' = OutgoingIds \ {id}
<1>1. DeliveryTypeOK /\ Bookkeeping /\ MessagesTracked /\ AcceptedInOrder /\ WritingIsLast
      /\ ConnectionFacts
  BY DEF DeliveryInv
<1>2. /\ outgoing'[id].state = "None" /\ ~HasOutgoing(id)' /\ ~PublishPending(id)'
      /\ stored'[id] = None
      /\ \A j \in PacketIds : j # id =>
            /\ outgoing'[j] = outgoing[j] /\ stored'[j] = stored[j]
            /\ HasOutgoing(j)' <=> HasOutgoing(j)
            /\ PublishPending(j)' <=> PublishPending(j)
  <2>1. outgoing \in [PacketIds -> OutgoingFlow]
        /\ stored \in [PacketIds -> Messages \cup {None}]
    BY <1>1, FlowTypes
  <2>2. outgoing'[id] = NoFlow /\ stored'[id] = None
        /\ \A j \in PacketIds : j # id => outgoing'[j] = outgoing[j] /\ stored'[j] = stored[j]
    BY <2>1
  <2>3. NoFlow.state = "None"
    BY DEF NoFlow
  <2> QED
    BY <2>2, <2>3 DEF HasOutgoing, PublishPending
<1>3. stored[id] \in Messages /\ (\A j \in PacketIds : j # None)
      /\ \A j \in PacketIds : j # id /\ HasOutgoing(j) => stored[j] # stored[id]
  BY <1>1, FlowTypes DEF Bookkeeping
<1>4. Bookkeeping'
  <2>1. PoolPartition'
    BY <1>1, PoolPartitionStep DEF PidNext, Bookkeeping, DeliveryTypeOK, SessionTypeOK
  <2>2. \A j \in PacketIds : /\ j \in inUse' <=> HasOutgoing(j)'
                             /\ stored'[j] # None <=> HasOutgoing(j)'
                             /\ HasOutgoing(j)' => outgoing'[j].seq < nextSeq'
    BY <1>1, <1>2 DEF Bookkeeping, PidRelease
  <2>3. \A j, k \in PacketIds : HasOutgoing(j)' /\ HasOutgoing(k)' /\ j # k =>
            stored'[j] # stored'[k] /\ outgoing'[j].seq # outgoing'[k].seq
    BY <1>1, <1>2 DEF Bookkeeping
  <2> QED
    BY <2>1, <2>2, <2>3 DEF Bookkeeping
<1>5. ASSUME NEW j \in PacketIds PROVE EndsAgree(j)'
  <2>1. CASE j = id
    BY <1>2, <2>1 DEF EndsAgree
  <2>2. CASE j # id
    BY <1>2, <2>2 DEF DeliveryInv, EndsAgree, IsDelivered
  <2> QED
    BY <2>1, <2>2
<1>6. MessagesTracked'
  <2>1. ASSUME NEW i \in 1..Len(accepted')
        PROVE  /\ accepted'[i] \in offered'
               /\ IsDelivered(accepted[i])' \/ \E j \in PacketIds : stored'[j] = accepted'[i]
    <3>1. accepted[i] \in offered
          /\ (IsDelivered(accepted[i]) \/ \E j \in PacketIds : stored[j] = accepted[i])
      BY <1>1 DEF MessagesTracked
    <3>2. Abstract!IsAccepted(accepted[i])
      BY <1>1, LenProperties DEF Abstract!IsAccepted, DeliveryTypeOK
    <3>3. stored[id] = accepted[i] => IsDelivered(accepted[i])
      BY <1>1, <3>2 DEF MessagesTracked
    <3> QED
      BY <1>2, <3>1, <3>3 DEF IsDelivered
  <2>2. /\ \A x \in Messages : IsDelivered(x)' => Abstract!IsAccepted(x)'
        /\ \A x \in completed' : IsDelivered(x)'
    BY <1>1 DEF MessagesTracked, IsDelivered, Abstract!IsAccepted
  <2>3. ASSUME NEW j \in PacketIds, HasOutgoing(j)'
        PROVE  /\ stored'[j] \in offered' /\ stored'[j] \notin completed'
               /\ Abstract!IsAccepted(stored[j])' <=> j # writing'
    <3>1. j # id /\ HasOutgoing(j) /\ stored'[j] = stored[j] /\ stored[j] # stored[id]
      BY <1>2, <1>3, <2>3
    <3>2. (j # writing) <=> (j # writing')
      BY <1>3, <3>1
    <3> QED
      BY <1>1, <3>1, <3>2 DEF MessagesTracked, Abstract!IsAccepted
  <2> QED
    BY <2>1, <2>2, <2>3 DEF MessagesTracked
<1>7. AcceptedInOrder'
  BY <1>1, <1>2 DEF AcceptedInOrder, Earlier
<1>8. WritingIsLast'
  <2>1. CASE writing' = None
    BY <2>1 DEF WritingIsLast
  <2>2. CASE writing' = writing /\ writing # None /\ id # writing
    <3>1. writing \in PacketIds
      BY <1>1, <2>2 DEF DeliveryTypeOK
    <3> QED
      BY <1>1, <1>2, <2>2, <3>1 DEF WritingIsLast, Earlier, PublishPending
  <2> QED
    BY <2>1, <2>2
<1>9. ASSUME NEW p, p.id \in PacketIds, p.id # id, ServerPacketOK(p)
      PROVE  ServerPacketOK(p)'
  <2>1. p.id # writing'
    BY <1>3, <1>9 DEF ServerPacketOK
  <2>2. \A j \in toResend : j \in PacketIds /\ j # id
    BY <1>1 DEF DeliveryTypeOK
  <2> QED
    BY <1>2, <1>9, <2>1, <2>2 DEF ServerPacketOK, Earlier
<1>10. ASSUME NEW c, c.id \in PacketIds, c.id # id, AckOK(c)
       PROVE  AckOK(c)'
  <2>1. c.id # writing'
    BY <1>3, <1>10 DEF AckOK
  <2> QED
    BY <1>2, <1>10, <2>1 DEF AckOK, IsDelivered
<1>11. OutgoingIds' = OutgoingIds \ {id}
  BY <1>2 DEF OutgoingIds
<1> QED
  BY <1>4, <1>5, <1>6, <1>7, <1>8, <1>9, <1>10, <1>11

LEMMA AbortInv ==
    ASSUME ~TimeoutAborts, DeliveryInv, NEW id \in PacketIds, Abort(id)
    PROVE  DeliveryInv'
<1>1. DeliveryTypeOK /\ Bookkeeping /\ MessagesTracked /\ OnePacketPerId /\ WireOK
      /\ NothingLost /\ ConnectionFacts /\ WritingIsLast
  BY DEF DeliveryInv
<1>2. /\ HasOutgoing(id) /\ id = writing /\ writing' = None
      /\ outgoing' = [outgoing EXCEPT ![id] = NoFlow] /\ nextSeq' = nextSeq
      /\ PidRelease(id)
      /\ stored' = [stored EXCEPT ![id] = None]
      /\ toResend' = toResend \ {id}
      /\ UNCHANGED sesVars /\ ComponentStep
      /\ UNCHANGED <<offered, toServer, toClient, peerIncoming, peerReply,
                     breaks, accepted, copies, completed>>
  BY DEF Abort, AbortPublish, QosRelease, wireVars, peerVars, deliveryVars,
     ComponentStep, PidNext, FcNext, QosNext
<1>3. UNCHANGED <<connectionState, cleanStart>>
  BY <1>2 DEF sesVars
<1>4. toResend = {} /\ toResend' = toResend /\ PublishPending(id) /\ id # None
  BY <1>1, <1>2, FlowTypes DEF WritingIsLast
<1>5. peerIncoming[id] = "None"
  <2>1. ~IsDelivered(stored[id])
    BY <1>1, <1>2, FlowTypes DEF MessagesTracked, Bookkeeping
  <2> QED
    BY <1>4, <2>1 DEF DeliveryInv, EndsAgree, PublishPending
<1>6. /\ Bookkeeping'
      /\ \A j \in PacketIds : EndsAgree(j)'
      /\ MessagesTracked'
      /\ AcceptedInOrder'
      /\ WritingIsLast'
      /\ \A p : p.id \in PacketIds /\ p.id # id /\ ServerPacketOK(p) => ServerPacketOK(p)'
      /\ \A c : c.id \in PacketIds /\ c.id # id /\ AckOK(c) => AckOK(c)'
      /\ OutgoingIds' = OutgoingIds \ {id}
  BY <1>2, <1>4, <1>5, FlowEnds
<1>7. DeliveryTypeOK'
  <2>1. SessionTypeOK'
    BY <1>1, <1>2, SessionTypeKept DEF DeliveryTypeOK
  <2>2. stored' \in [PacketIds -> Messages \cup {None}]
    BY <1>1, <1>2 DEF DeliveryTypeOK
  <2> QED
    BY <1>1, <1>2, <1>4, <2>1, <2>2 DEF DeliveryTypeOK, Peer!QosTypeOK
<1>8. /\ \A p \in Packets(toServer) : p.id # id /\ p.id \in PacketIds
      /\ \A c \in Packets(toClient) : c.id # id /\ c.id \in PacketIds
      /\ peerReply # None => peerReply.id # id /\ peerReply.id \in PacketIds
  BY <1>1, <1>2, PacketTypes DEF WireOK, ServerPacketOK, AckOK
<1>9. OnePacketPerId'
  BY <1>1, <1>2 DEF OnePacketPerId
<1>10. outgoing \in [PacketIds -> OutgoingFlow] /\ stored \in [PacketIds -> Messages \cup {None}]
  BY <1>1, FlowTypes
<1>11. WireOK'
  <2>1. PublishesInOrder(toServer', outgoing')
    <3>1. \A p \in Packets(toServer) : outgoing'[p.id].seq = outgoing[p.id].seq
      BY <1>2, <1>8, <1>10
    <3> QED
      BY <1>1, <1>2, <3>1, InOrderKept DEF WireOK
  <2>2. \A p \in Packets(toServer') : ServerPacketOK(p)'
    BY <1>1, <1>2, <1>6, <1>8 DEF WireOK
  <2>3. \A c \in Packets(toClient') :
            AckOK(c)' /\ (c.type = "PUBACK" => peerIncoming'[c.id] = "None")
    BY <1>1, <1>2, <1>6, <1>8 DEF WireOK
  <2>4. peerReply' # None => AckOK(peerReply)'
    <3>1. PICK c : c = peerReply
      OBVIOUS
    <3>2. peerReply # None => AckOK(c)'
      BY <1>1, <1>6, <1>8, <3>1 DEF WireOK
    <3> QED
      BY <1>2, <3>1, <3>2 DEF AckOK
  <2> QED
    BY <2>1, <2>2, <2>3, <2>4 DEF WireOK
<1>12. NothingLost'
  <2> SUFFICES ASSUME NEW j \in PacketIds, IsConnected', PublishPending(j)',
                      ~IsDelivered(stored[j])'
               PROVE  \/ j \in toResend'
                      \/ \E p \in Packets(toServer') : p.type = "PUBLISH" /\ p.id = j
    BY DEF NothingLost
  <2>1. j # id
    BY <1>2, <1>10 DEF PublishPending, NoFlow
  <2>2. PublishPending(j) /\ ~IsDelivered(stored[j]) /\ IsConnected
    BY <1>2, <1>3, <1>10, <2>1 DEF PublishPending, IsDelivered, IsConnected
  <2> QED
    BY <1>1, <1>2, <1>4, <2>1, <2>2 DEF NothingLost
<1>13. ConnectionFacts'
  BY <1>1, <1>2, <1>3, <1>4, <1>6 DEF ConnectionFacts, IsConnected
<1> QED
  BY <1>6, <1>7, <1>9, <1>11, <1>12, <1>13 DEF DeliveryInv

\* What the client's head of line is, and what is left behind it
LEMMA TakesAck ==
    ASSUME DeliveryInv, toClient # << >>
    PROVE  /\ Head(toClient) \in Packets(toClient) /\ Head(toClient).id \in PacketIds
           /\ AckOK(Head(toClient))
           /\ Head(toClient).type = "PUBACK" => peerIncoming[Head(toClient).id] = "None"
           /\ Tail(toClient) \in Seq(Acks) /\ DistinctIds(Tail(toClient))
           /\ Packets(Tail(toClient)) \subseteq Packets(toClient)
           /\ \A c \in Packets(Tail(toClient)) : c.id # Head(toClient).id
           /\ \A p \in Packets(toServer) : p.id # Head(toClient).id
           /\ peerReply # None => peerReply.id # Head(toClient).id
<1>1. DeliveryTypeOK /\ OnePacketPerId /\ WireOK
  BY DEF DeliveryInv
<1>2. toClient \in Seq(Acks) /\ DistinctIds(toClient)
  BY <1>1 DEF DeliveryTypeOK, OnePacketPerId
<1>3. /\ Tail(toClient) \in Seq(Acks)
      /\ Head(toClient) \in Packets(toClient)
      /\ Packets(Tail(toClient)) = Packets(toClient) \ {Head(toClient)}
      /\ \A p \in Packets(Tail(toClient)) : p.id # Head(toClient).id
      /\ DistinctIds(Tail(toClient))
  BY <1>2, QueueTail
<1> QED
  BY <1>1, <1>3, PacketTypes DEF OnePacketPerId, WireOK

\* The acknowledgement that ends a flow finds it waiting for just that.
LEMMA FinalAckCompletes ==
    ASSUME DeliveryInv, ClientReceivesFinalAck
    PROVE  \E id \in PacketIds :
              /\ id = Head(toClient).id /\ toClient # << >>
              /\ HasOutgoing(id) /\ peerIncoming[id] = "None" /\ IsDelivered(stored[id])
              /\ outgoing' = [outgoing EXCEPT ![id] = NoFlow] /\ nextSeq' = nextSeq
              /\ PidRelease(id) /\ ComponentStep
              /\ stored' = [stored EXCEPT ![id] = None]
              /\ completed' = completed \cup {stored[id]}
<1>1. toClient # << >>
  BY DEF ClientReceivesFinalAck
<1>2. PICK id \in PacketIds : id = Head(toClient).id
  BY <1>1, TakesAck
<1>3. CASE Head(toClient).type = "PUBACK" /\ HandlePuback(id)
  <2>1. /\ outgoing[id].state = "AwaitingPuback" /\ IsDelivered(stored[id])
        /\ peerIncoming[id] = "None"
    BY <1>1, <1>2, <1>3, TakesAck DEF AckOK
  <2>2. PubackResult(id) = "Complete"
    BY <2>1 DEF PubackResult
  <2>3. /\ outgoing' = [outgoing EXCEPT ![id] = NoFlow] /\ nextSeq' = nextSeq
        /\ PidRelease(id) /\ ComponentStep
    BY <1>3, <2>2 DEF HandlePuback, QosPubackReceived, FlowEnded, ComponentStep,
       PidNext, FcNext, QosNext
  <2>4. Completed(id)
    BY <1>2, <1>3, <2>2 DEF ClientReceivesFinalAck
  <2> QED
    BY <1>1, <1>2, <2>1, <2>3, <2>4 DEF Completed, HasOutgoing
<1>4. CASE Head(toClient).type = "PUBCOMP" /\ HandlePubcomp(id)
  <2>1. /\ outgoing[id].state = "AwaitingPubcomp" /\ IsDelivered(stored[id])
        /\ peerIncoming[id] = "None"
    BY <1>1, <1>2, <1>4, TakesAck DEF AckOK, DeliveryInv, EndsAgree
  <2>2. PubcompResult(id) = "Complete"
    BY <2>1 DEF PubcompResult
  <2>3. /\ outgoing' = [outgoing EXCEPT ![id] = NoFlow] /\ nextSeq' = nextSeq
        /\ PidRelease(id) /\ ComponentStep
    BY <1>4, <2>2 DEF HandlePubcomp, QosPubcompReceived, FlowEnded, ComponentStep,
       PidNext, FcNext, QosNext
  <2>4. Completed(id)
    BY <1>2, <1>4, <2>2 DEF ClientReceivesFinalAck
  <2> QED
    BY <1>1, <1>2, <2>1, <2>3, <2>4 DEF Completed, HasOutgoing
<1> QED
  BY <1>2, <1>3, <1>4 DEF ClientReceivesFinalAck

LEMMA FinalAckInv ==
    ASSUME DeliveryInv, ClientReceivesFinalAck
    PROVE  DeliveryInv'
<1>1. DeliveryTypeOK /\ Bookkeeping /\ OnePacketPerId /\ WireOK
      /\ NothingLost /\ ConnectionFacts
  BY DEF DeliveryInv
<1>2. PICK id \in PacketIds :
         /\ id = Head(toClient).id /\ toClient # << >>
         /\ HasOutgoing(id) /\ peerIncoming[id] = "None" /\ IsDelivered(stored[id])
         /\ outgoing' = [outgoing EXCEPT ![id] = NoFlow] /\ nextSeq' = nextSeq
         /\ PidRelease(id) /\ ComponentStep
         /\ stored' = [stored EXCEPT ![id] = None]
         /\ completed' = completed \cup {stored[id]}
  BY FinalAckCompletes
<1>3. /\ IsConnected /\ toClient' = Tail(toClient)
      /\ UNCHANGED sesVars
      /\ UNCHANGED <<writing, toResend, offered, toServer, peerIncoming, peerReply,
                     breaks, accepted, copies>>
  BY DEF ClientReceivesFinalAck, HandlePuback, HandlePubcomp, peerVars
<1>4. UNCHANGED <<connectionState, cleanStart>>
  BY <1>3 DEF sesVars
<1>5. id \notin toResend /\ id # writing
  BY <1>2, TakesAck DEF AckOK
<1>6. /\ Bookkeeping'
      /\ \A j \in PacketIds : EndsAgree(j)'
      /\ MessagesTracked'
      /\ AcceptedInOrder'
      /\ WritingIsLast'
      /\ \A p : p.id \in PacketIds /\ p.id # id /\ ServerPacketOK(p) => ServerPacketOK(p)'
      /\ \A c : c.id \in PacketIds /\ c.id # id /\ AckOK(c) => AckOK(c)'
      /\ OutgoingIds' = OutgoingIds \ {id}
  BY <1>2, <1>3, <1>5, FlowEnds
<1>7. outgoing \in [PacketIds -> OutgoingFlow] /\ stored \in [PacketIds -> Messages \cup {None}]
      /\ stored[id] \in Messages
  BY <1>1, <1>2, FlowTypes DEF Bookkeeping
<1>8. DeliveryTypeOK'
  <2>1. SessionTypeOK'
    BY <1>1, <1>2, <1>3, SessionTypeKept DEF DeliveryTypeOK
  <2>2. stored' \in [PacketIds -> Messages \cup {None}] /\ completed' \subseteq Messages
    BY <1>1, <1>2, <1>7 DEF DeliveryTypeOK
  <2>3. toClient' \in Seq(Acks)
    BY <1>2, <1>3, TakesAck
  <2> QED
    BY <1>1, <1>3, <2>1, <2>2, <2>3 DEF DeliveryTypeOK, Peer!QosTypeOK
<1>9. /\ \A p \in Packets(toServer) : p.id # id /\ p.id \in PacketIds
      /\ \A c \in Packets(toClient') : c.id # id /\ c.id \in PacketIds /\ c \in Packets(toClient)
      /\ peerReply # None => peerReply.id # id /\ peerReply.id \in PacketIds
      /\ DistinctIds(toClient')
  BY <1>1, <1>2, <1>3, PacketTypes, TakesAck
<1>10. OnePacketPerId'
  BY <1>1, <1>3, <1>9 DEF OnePacketPerId
<1>11. WireOK'
  <2>1. PublishesInOrder(toServer', outgoing')
    <3>1. \A p \in Packets(toServer) : outgoing'[p.id].seq = outgoing[p.id].seq
      BY <1>2, <1>7, <1>9
    <3> QED
      BY <1>1, <1>3, <3>1, InOrderKept DEF WireOK
  <2>2. \A p \in Packets(toServer') : ServerPacketOK(p)'
    BY <1>1, <1>3, <1>6, <1>9 DEF WireOK
  <2>3. \A c \in Packets(toClient') :
            AckOK(c)' /\ (c.type = "PUBACK" => peerIncoming'[c.id] = "None")
    BY <1>1, <1>3, <1>6, <1>9 DEF WireOK
  <2>4. peerReply' # None => AckOK(peerReply)'
    <3>1. PICK c : c = peerReply
      OBVIOUS
    <3>2. peerReply # None => AckOK(c)'
      BY <1>1, <1>6, <1>9, <3>1 DEF WireOK
    <3> QED
      BY <1>3, <3>1, <3>2 DEF AckOK
  <2> QED
    BY <2>1, <2>2, <2>3, <2>4 DEF WireOK
<1>12. NothingLost'
  <2> SUFFICES ASSUME NEW j \in PacketIds, PublishPending(j)', j # writing,
                      ~IsDelivered(stored[j])'
               PROVE  \/ j \in toResend'
                      \/ \E p \in Packets(toServer') : p.type = "PUBLISH" /\ p.id = j
    BY <1>3 DEF NothingLost
  <2>1. j # id
    BY <1>2, <1>7 DEF PublishPending, NoFlow
  <2>2. PublishPending(j) /\ ~IsDelivered(stored[j])
    BY <1>2, <1>3, <1>7, <2>1 DEF PublishPending, IsDelivered
  <2> QED
    BY <1>1, <1>3, <2>2 DEF NothingLost
<1>13. ConnectionFacts'
  <2>1. \A j \in toResend' : HasOutgoing(j)'
    BY <1>1, <1>2, <1>3, <1>5, <1>7 DEF ConnectionFacts, HasOutgoing, DeliveryTypeOK
  <2> QED
    BY <1>1, <1>3, <1>4, <2>1 DEF ConnectionFacts, IsConnected
<1> QED
  BY <1>6, <1>8, <1>10, <1>11, <1>12, <1>13 DEF DeliveryInv

LEMMA PubrecInv ==
    ASSUME DeliveryInv, ClientReceivesPubrec
    PROVE  DeliveryInv'
<1>1. DeliveryTypeOK /\ Bookkeeping /\ MessagesTracked /\ OnePacketPerId /\ WireOK
      /\ NothingLost /\ ConnectionFacts /\ AcceptedInOrder /\ WritingIsLast
  BY DEF DeliveryInv
<1>2. toClient # << >>
  BY DEF ClientReceivesPubrec
<1>3. PICK id \in PacketIds : id = Head(toClient).id
  BY <1>2, TakesAck
<1>4. /\ outgoing[id].state = "AwaitingPubrec" /\ peerIncoming[id] = "AwaitingPubrel"
      /\ id \notin toResend /\ id # writing
  BY <1>2, <1>3, TakesAck DEF ClientReceivesPubrec, AckOK
<1>5. /\ IsConnected /\ toClient' = Tail(toClient)
      /\ HandlePubrec(id, FALSE)
      /\ UNCHANGED sesVars /\ UNCHANGED pidVars /\ ComponentStep
      /\ UNCHANGED <<stored, writing, toResend, offered, peerIncoming, peerReply,
                     breaks, accepted, copies, completed>>
  <2>1. HandlePubrec(id, FALSE)
    BY <1>3 DEF ClientReceivesPubrec
  <2>2. PubrecResult(id, FALSE) # "Aborted"
    BY <1>4 DEF PubrecResult
  <2> QED
    BY <2>1, <2>2 DEF ClientReceivesPubrec, HandlePubrec, clientVars, peerVars, deliveryVars,
       ComponentStep, QosNext
<1>6. UNCHANGED <<connectionState, cleanStart>>
  BY <1>5 DEF sesVars
<1>7. outgoing \in [PacketIds -> OutgoingFlow] /\ nextSeq \in Nat
      /\ \A j \in PacketIds : outgoing[j].seq \in Nat /\ j # None
  BY <1>1, FlowTypes
<1>8. /\ nextSeq' = nextSeq + 1
      /\ outgoing'[id].state = "AwaitingPubcomp" /\ outgoing'[id].seq = nextSeq
      /\ \A j \in PacketIds : j # id => outgoing'[j] = outgoing[j]
  <2>1. /\ outgoing' = [outgoing EXCEPT ![id].state = "AwaitingPubcomp", ![id].seq = nextSeq]
        /\ nextSeq' = nextSeq + 1
    BY <1>4, <1>5 DEF HandlePubrec, QosPubrecReceived
  <2> QED
    BY <1>7, <2>1 DEF OutgoingFlow
<1>9. HasOutgoing(id) /\ PublishPending(id) /\ ~PublishPending(id)'
      /\ \A j \in PacketIds : /\ HasOutgoing(j)' <=> HasOutgoing(j)
                              /\ PublishPending(j)' => PublishPending(j) /\ j # id
                              /\ j # id => (PublishPending(j)' <=> PublishPending(j))
  BY <1>4, <1>8 DEF HasOutgoing, PublishPending
<1>10. PICK packet \in Publishes \cup Pubrels :
          toServer' = Append(toServer, packet) /\ packet.id = id /\ packet.type = "PUBREL"
  <2>1. PubrecResult(id, FALSE) = "SendPubrel"
    BY <1>4 DEF PubrecResult
  <2>2. ToServer(Packet("PUBREL", id))
    BY <1>3, <2>1 DEF ClientReceivesPubrec
  <2>3. /\ Packet("PUBREL", id) \in Publishes \cup Pubrels
        /\ Packet("PUBREL", id).id = id /\ Packet("PUBREL", id).type = "PUBREL"
    BY DEF Packet, Pubrels
  <2> QED
    BY <2>2, <2>3 DEF ToServer
<1>11. toServer \in Seq(Publishes \cup Pubrels) /\ DistinctIds(toServer)
       /\ PublishesInOrder(toServer, outgoing)
  BY <1>1 DEF DeliveryTypeOK, OnePacketPerId, WireOK
<1>12. /\ \A p \in Packets(toServer) : p.id # id /\ p.id \in PacketIds
       /\ \A c \in Packets(toClient') : c.id # id /\ c.id \in PacketIds /\ c \in Packets(toClient)
       /\ peerReply # None => peerReply.id # id /\ peerReply.id \in PacketIds
       /\ DistinctIds(toClient') /\ toClient' \in Seq(Acks)
  BY <1>1, <1>2, <1>3, <1>5, PacketTypes, TakesAck
<1>13. /\ toServer' \in Seq(Publishes \cup Pubrels) /\ DistinctIds(toServer')
       /\ Packets(toServer') = Packets(toServer) \cup {packet}
  BY <1>10, <1>11, <1>12, QueueAppend
<1>14. DeliveryTypeOK'
  <2>1. SessionTypeOK'
    BY <1>1, <1>5, SessionTypeKept DEF DeliveryTypeOK
  <2> QED
    BY <1>1, <1>5, <1>12, <1>13, <2>1 DEF DeliveryTypeOK, Peer!QosTypeOK
<1>15. Bookkeeping'
  <2>1. \A j \in PacketIds : HasOutgoing(j)' => outgoing'[j].seq < nextSeq'
    BY <1>1, <1>7, <1>8, <1>9 DEF Bookkeeping
  <2>2. ASSUME NEW j \in PacketIds, NEW k \in PacketIds,
               HasOutgoing(j), HasOutgoing(k), j # k
        PROVE  stored[j] # stored[k] /\ outgoing'[j].seq # outgoing'[k].seq
    <3>1. /\ stored[j] # stored[k] /\ outgoing[j].seq # outgoing[k].seq
          /\ outgoing[j].seq < nextSeq /\ outgoing[k].seq < nextSeq
      BY <1>1, <2>2 DEF Bookkeeping
    <3> QED
      BY <1>7, <1>8, <2>2, <3>1
  <2> QED
    BY <1>1, <1>5, <1>9, <2>1, <2>2 DEF Bookkeeping, PoolPartition, pidVars
<1>16. ASSUME NEW j \in PacketIds PROVE EndsAgree(j)'
  <2>1. EndsAgree(j)
    BY DEF DeliveryInv
  <2>2. CASE j = id
    BY <1>4, <1>5, <1>8, <1>9, <2>1, <2>2 DEF EndsAgree, IsDelivered
  <2>3. CASE j # id
    BY <1>5, <1>8, <1>9, <2>1, <2>3 DEF EndsAgree, IsDelivered
  <2> QED
    BY <2>2, <2>3
<1>17. MessagesTracked'
  BY <1>1, <1>5, <1>9 DEF MessagesTracked, IsDelivered, Abstract!IsAccepted
<1>18. AcceptedInOrder'
  BY <1>1, <1>5, <1>8, <1>9 DEF AcceptedInOrder, Earlier
<1>19. WritingIsLast'
  <2>1. ASSUME writing # None PROVE writing \in PacketIds
    BY <1>1, <2>1 DEF DeliveryTypeOK
  <2> QED
    BY <1>1, <1>4, <1>5, <1>8, <1>9, <2>1 DEF WritingIsLast, Earlier, PublishPending
<1>20. OnePacketPerId'
  BY <1>1, <1>5, <1>10, <1>12, <1>13 DEF OnePacketPerId
<1>21. WireOK'
  <2>1. PublishesInOrder(toServer', outgoing')
    <3>1. PublishesInOrder(toServer', outgoing)
      BY <1>10, <1>11, InOrderAppend
    <3>2. \A p \in Packets(toServer') : p.type = "PUBLISH" =>
              outgoing'[p.id].seq = outgoing[p.id].seq
      BY <1>8, <1>10, <1>12, <1>13
    <3> QED
      BY <3>1, <3>2, InOrderKept
  <2>2. ServerPacketOK(packet)'
    BY <1>4, <1>5, <1>8, <1>10 DEF ServerPacketOK
  <2>3. ASSUME NEW p \in Packets(toServer) PROVE ServerPacketOK(p)'
    <3>1. \A j \in toResend : j \in PacketIds /\ j # id
      BY <1>1, <1>4 DEF DeliveryTypeOK
    <3> QED
      BY <1>1, <1>5, <1>8, <1>9, <1>12, <3>1 DEF WireOK, ServerPacketOK, Earlier
  <2>4. \A c \in Packets(toClient') :
            AckOK(c)' /\ (c.type = "PUBACK" => peerIncoming'[c.id] = "None")
    BY <1>1, <1>5, <1>8, <1>12 DEF WireOK, AckOK, IsDelivered
  <2>5. peerReply' # None => AckOK(peerReply)'
    BY <1>1, <1>5, <1>8, <1>12 DEF WireOK, AckOK, IsDelivered
  <2> QED
    BY <1>13, <2>1, <2>2, <2>3, <2>4, <2>5 DEF WireOK
<1>22. NothingLost'
  BY <1>1, <1>5, <1>9, <1>13 DEF NothingLost, IsDelivered
<1>23. ConnectionFacts'
  BY <1>1, <1>5, <1>6, <1>9 DEF ConnectionFacts, IsConnected, DeliveryTypeOK
<1> QED
  BY <1>14, <1>15, <1>16, <1>17, <1>18, <1>19, <1>20, <1>21, <1>22, <1>23 DEF DeliveryInv

-----------------------------------------------------------------------------
(***************************************************************************)
(* The server                                                              *)
(***************************************************************************)

\* What the server's head of line is, and what is left behind it
LEMMA TakesPacket ==
    ASSUME DeliveryInv, toServer # << >>
    PROVE  /\ Head(toServer) \in Packets(toServer) /\ Head(toServer).id \in PacketIds
           /\ Head(toServer).type = "PUBLISH" => Head(toServer).message \in Messages
           /\ ServerPacketOK(Head(toServer))
           /\ Tail(toServer) \in Seq(Publishes \cup Pubrels) /\ DistinctIds(Tail(toServer))
           /\ PublishesInOrder(Tail(toServer), outgoing)
           /\ Packets(Tail(toServer)) = Packets(toServer) \ {Head(toServer)}
           /\ \A p \in Packets(Tail(toServer)) : p.id # Head(toServer).id
           /\ \A c \in Packets(toClient) : c.id # Head(toServer).id
           /\ IsConnected
<1>1. DeliveryTypeOK /\ OnePacketPerId /\ WireOK /\ ConnectionFacts
  BY DEF DeliveryInv
<1>2. toServer \in Seq(Publishes \cup Pubrels) /\ DistinctIds(toServer)
      /\ PublishesInOrder(toServer, outgoing)
  BY <1>1 DEF DeliveryTypeOK, OnePacketPerId, WireOK
<1>3. /\ Tail(toServer) \in Seq(Publishes \cup Pubrels)
      /\ Head(toServer) \in Packets(toServer)
      /\ Packets(Tail(toServer)) = Packets(toServer) \ {Head(toServer)}
      /\ \A p \in Packets(Tail(toServer)) : p.id # Head(toServer).id
      /\ DistinctIds(Tail(toServer))
  BY <1>2, QueueTail
<1>4. PublishesInOrder(Tail(toServer), outgoing)
  BY <1>2, InOrderTail
<1> QED
  BY <1>1, <1>3, <1>4, PacketTypes DEF OnePacketPerId, WireOK, ConnectionFacts

\* A step of the server that changes at most the flow of one identifier and
\* delivers at most the message of that identifier
LEMMA ServerStep ==
    ASSUME DeliveryInv, NEW id \in PacketIds, HasOutgoing(id), id # writing,
           UNCHANGED sessionVars,
           UNCHANGED <<stored, writing, toResend, offered, breaks, accepted, completed>>,
           \A j \in PacketIds : j # id => peerIncoming'[j] = peerIncoming[j],
           \A m \in Messages : IsDelivered(m) => IsDelivered(m)',
           \A m \in Messages : IsDelivered(m)' => IsDelivered(m) \/ m = stored[id],
           EndsAgree(id)'
    PROVE  /\ SessionTypeOK'
           /\ Bookkeeping'
           /\ \A j \in PacketIds : EndsAgree(j)'
           /\ MessagesTracked'
           /\ AcceptedInOrder'
           /\ WritingIsLast'
           /\ \A p : ServerPacketOK(p) => ServerPacketOK(p)'
           /\ \A c : c.id \in PacketIds /\ c.id # id /\ AckOK(c) => AckOK(c)'
<1>1. DeliveryTypeOK /\ Bookkeeping /\ MessagesTracked /\ AcceptedInOrder /\ WritingIsLast
  BY DEF DeliveryInv
<1>2. UNCHANGED <<inUse, freeList, nextId, outgoing, nextSeq>>
  BY DEF sessionVars, pidVars, qosVars
<1>3. SessionTypeOK'
  BY <1>1, SessionTypeKept
     DEF DeliveryTypeOK, sessionVars, ComponentStep
<1>4. Bookkeeping'
  BY <1>1, <1>2 DEF Bookkeeping, PoolPartition, HasOutgoing
<1>5. \A j \in PacketIds : HasOutgoing(j) => stored[j] \in Messages
  BY <1>1, FlowTypes DEF Bookkeeping
<1>6. ASSUME NEW j \in PacketIds PROVE EndsAgree(j)'
  <2>1. CASE j # id
    <3>1. EndsAgree(j)
      BY DEF DeliveryInv
    <3>2. HasOutgoing(j) => /\ stored[j] # stored[id]
                            /\ stored[j] \in Messages
      BY <1>1, <1>5, <2>1 DEF Bookkeeping
    <3>3. PICK m : m = stored[j]
      OBVIOUS
    <3>4. HasOutgoing(j) => (IsDelivered(m)' <=> IsDelivered(m))
      BY <3>2, <3>3
    <3>5. HasOutgoing(j) => (IsDelivered(stored[j])' <=> IsDelivered(stored[j]))
      BY <3>3, <3>4 DEF IsDelivered
    <3> QED
      BY <1>2, <2>1, <3>1, <3>5 DEF EndsAgree, HasOutgoing
  <2> QED
    BY <2>1
<1>7. MessagesTracked'
  <2>1. ASSUME NEW i \in 1..Len(accepted)
        PROVE  /\ accepted[i] \in offered
               /\ IsDelivered(accepted[i])' \/ \E j \in PacketIds : stored[j] = accepted[i]
    <3>1. PICK m \in Messages : m = accepted[i]
      BY <1>1, ElementOfSeq DEF DeliveryTypeOK
    <3>2. m \in offered /\ (IsDelivered(m) \/ \E j \in PacketIds : stored[j] = m)
      BY <1>1, <3>1 DEF MessagesTracked
    <3>3. IsDelivered(m)' \/ \E j \in PacketIds : stored[j] = m
      BY <3>2
    <3> QED
      BY <3>1, <3>2, <3>3 DEF IsDelivered
  <2>2. Abstract!IsAccepted(stored[id])
    BY <1>1 DEF MessagesTracked
  <2>3. \A m \in Messages : IsDelivered(m)' => Abstract!IsAccepted(m)
    BY <1>1, <2>2 DEF MessagesTracked
  <2>4. \A m \in completed : IsDelivered(m)'
    BY <1>1 DEF MessagesTracked, DeliveryTypeOK
  <2> QED
    BY <1>1, <1>2, <2>1, <2>3, <2>4
       DEF MessagesTracked, Abstract!IsAccepted, HasOutgoing, IsDelivered
<1>8. AcceptedInOrder' /\ WritingIsLast'
  BY <1>1, <1>2 DEF AcceptedInOrder, WritingIsLast, PublishPending, Earlier
<1>9. \A p : ServerPacketOK(p) => ServerPacketOK(p)'
  BY <1>2 DEF ServerPacketOK, PublishPending, Earlier
<1>10. ASSUME NEW c, c.id \in PacketIds, c.id # id, AckOK(c) PROVE AckOK(c)'
  <2>1. outgoing[c.id].state = "AwaitingPuback" /\ IsDelivered(stored[c.id])
            => IsDelivered(stored[c.id])'
    <3>1. PICK m : m = stored[c.id]
      OBVIOUS
    <3>2. outgoing[c.id].state = "AwaitingPuback" => m \in Messages
      BY <1>5, <1>10, <3>1 DEF HasOutgoing
    <3>3. outgoing[c.id].state = "AwaitingPuback" /\ IsDelivered(m) => IsDelivered(m)'
      BY <3>2
    <3> QED
      BY <3>1, <3>3 DEF IsDelivered
  <2> QED
    BY <1>2, <1>10, <2>1 DEF AckOK
<1> QED
  BY <1>3, <1>4, <1>6, <1>7, <1>8, <1>9, <1>10

LEMMA PeerTypeKept ==
    ASSUME peerIncoming' \in [PacketIds -> IncomingStates \cup {"None"}]
    PROVE  Peer!QosTypeOK'
<1>1. /\ Peer!PacketIds = PacketIds /\ Peer!OutgoingFlow = OutgoingFlow
      /\ Peer!IncomingStates = IncomingStates
  BY DEF Peer!PacketIds, PacketIds, Peer!OutgoingFlow, OutgoingFlow,
     Peer!OutgoingStates, OutgoingStates, Peer!IncomingStates, IncomingStates
<1>2. [id \in PacketIds |-> NoFlow] \in [PacketIds -> OutgoingFlow]
  BY NoFlowType
<1> QED
  BY <1>1, <1>2 DEF Peer!QosTypeOK

\* The server takes a packet and is about to answer it: what that does to the
\* wire follows from what it does to the flow of the packet's identifier.
LEMMA ServerTakes ==
    ASSUME DeliveryInv, NEW id \in PacketIds, NEW reply \in Acks,
           toServer # << >>, id = Head(toServer).id, HasOutgoing(id),
           toServer' = Tail(toServer), toClient' = toClient,
           peerReply = None, peerReply' = reply, reply.id = id,
           UNCHANGED sessionVars,
           UNCHANGED <<stored, writing, toResend, offered, breaks, accepted, completed>>,
           peerIncoming' \in [PacketIds -> IncomingStates \cup {"None"}],
           \A j \in PacketIds : j # id => peerIncoming'[j] = peerIncoming[j],
           copies' \in [Messages -> Nat],
           \A m \in Messages : IsDelivered(m) => IsDelivered(m)',
           \A m \in Messages : IsDelivered(m)' => IsDelivered(m) \/ m = stored[id],
           PublishPending(id) => IsDelivered(stored[id])',
           EndsAgree(id)', AckOK(reply)'
    PROVE  DeliveryInv'
<1>1. DeliveryTypeOK /\ OnePacketPerId /\ WireOK /\ NothingLost /\ ConnectionFacts
  BY DEF DeliveryInv
<1>2. /\ ServerPacketOK(Head(toServer)) /\ IsConnected
      /\ toServer' \in Seq(Publishes \cup Pubrels) /\ DistinctIds(toServer')
      /\ PublishesInOrder(toServer', outgoing)
      /\ Packets(toServer') = Packets(toServer) \ {Head(toServer)}
      /\ \A p \in Packets(toServer') : p.id # id
      /\ \A c \in Packets(toClient) : c.id # id
  BY TakesPacket
<1>3. id # writing
  BY <1>2 DEF ServerPacketOK
<1>4. /\ SessionTypeOK'
      /\ Bookkeeping'
      /\ \A j \in PacketIds : EndsAgree(j)'
      /\ MessagesTracked'
      /\ AcceptedInOrder'
      /\ WritingIsLast'
      /\ \A p : ServerPacketOK(p) => ServerPacketOK(p)'
      /\ \A c : c.id \in PacketIds /\ c.id # id /\ AckOK(c) => AckOK(c)'
  BY <1>3, ServerStep
<1>5. UNCHANGED <<outgoing, connectionState, cleanStart>>
  BY DEF sessionVars, qosVars, sesVars
<1>6. DeliveryTypeOK'
  <2>1. Peer!QosTypeOK'
    BY PeerTypeKept
  <2> QED
    BY <1>1, <1>2, <1>4, <2>1 DEF DeliveryTypeOK
<1>7. OnePacketPerId'
  BY <1>1, <1>2 DEF OnePacketPerId
<1>8. WireOK'
  <2>1. AckOK(peerReply)'
    BY DEF AckOK
  <2>2. \A c \in Packets(toClient') :
            AckOK(c)' /\ (c.type = "PUBACK" => peerIncoming'[c.id] = "None")
    BY <1>1, <1>2, <1>4, PacketTypes DEF WireOK
  <2> QED
    BY <1>1, <1>2, <1>4, <1>5, <2>1, <2>2 DEF WireOK
<1>9. NothingLost'
  <2> SUFFICES ASSUME NEW j \in PacketIds, PublishPending(j)', j # writing,
                      ~IsDelivered(stored[j])'
               PROVE  \/ j \in toResend
                      \/ \E p \in Packets(toServer') : p.type = "PUBLISH" /\ p.id = j
    BY DEF NothingLost
  <2>1. PublishPending(j)
    BY <1>5 DEF PublishPending
  <2>2. j # id
    BY <2>1 DEF IsDelivered
  <2>3. PICK m : m = stored[j]
    OBVIOUS
  <2>4. m \in Messages
    BY <1>1, <2>1, <2>3, FlowTypes DEF DeliveryInv, Bookkeeping, PublishPending, HasOutgoing
  <2>5. ~IsDelivered(m)'
    BY <2>3 DEF IsDelivered
  <2>6. ~IsDelivered(stored[j])
    BY <2>3, <2>4, <2>5
  <2>7. \/ j \in toResend
        \/ \E p \in Packets(toServer) : p.type = "PUBLISH" /\ p.id = j
    BY <1>1, <1>2, <2>1, <2>6 DEF NothingLost
  <2> QED
    BY <1>2, <2>2, <2>7
<1>10. ConnectionFacts'
  BY <1>1, <1>2, <1>5 DEF ConnectionFacts, IsConnected, HasOutgoing
<1> QED
  BY <1>4, <1>6, <1>7, <1>8, <1>9, <1>10 DEF DeliveryInv

LEMMA ServerPublishInv ==
    ASSUME DeliveryInv, ServerReceivesPublish
    PROVE  DeliveryInv'
<1>1. toServer # << >> /\ Head(toServer).type = "PUBLISH" /\ peerReply = None
  BY DEF ServerReceivesPublish
<1>2. PICK packet : packet = Head(toServer)
  OBVIOUS
<1>3. PICK id \in PacketIds : id = packet.id
  BY <1>1, <1>2, TakesPacket
<1>4. DeliveryTypeOK /\ Bookkeeping /\ EndsAgree(id)
  BY DEF DeliveryInv
<1>5. /\ PublishPending(id) /\ packet.message = stored[id]
      /\ id \notin toResend /\ id # writing
  BY <1>1, <1>2, <1>3, TakesPacket DEF ServerPacketOK
<1>6. PICK m : m = stored[id]
  OBVIOUS
<1>7. HasOutgoing(id) /\ m \in Messages
  BY <1>1, <1>2, <1>5, <1>6, TakesPacket DEF PublishPending, HasOutgoing
<1>8. /\ toServer' = Tail(toServer) /\ toClient' = toClient
      /\ UNCHANGED sessionVars
      /\ UNCHANGED <<stored, writing, toResend, offered, breaks, accepted, completed>>
      /\ copies' = IF m \in OnceMessages /\ peerIncoming[id] # "None"
                   THEN copies ELSE [copies EXCEPT ![m] = @ + 1]
      /\ \/ /\ m \in OnceMessages /\ peerReply' = Packet("PUBREC", id)
            /\ peerIncoming' = [peerIncoming EXCEPT ![id] = "AwaitingPubrel"]
         \/ /\ m \notin OnceMessages /\ peerReply' = Packet("PUBACK", id)
            /\ peerIncoming' = [peerIncoming EXCEPT ![id] = "IncomingAwaitingPuback"]
  BY <1>2, <1>3, <1>5, <1>6
     DEF ServerReceivesPublish, ServerDelivers, clientVars, Peer!HasIncoming,
         Peer!QosPublishReceivedQos2, Peer!QosPublishReceivedQos1
<1>9. /\ UNCHANGED outgoing
      /\ peerIncoming \in [PacketIds -> IncomingStates \cup {"None"}]
      /\ copies \in [Messages -> Nat]
  BY <1>4, <1>8, FlowTypes DEF sessionVars, qosVars
<1>10. /\ m \in OnceMessages <=> outgoing[id].state = "AwaitingPubrec"
       /\ m \notin OnceMessages <=> outgoing[id].state = "AwaitingPuback"
  BY <1>4, <1>5, <1>6 DEF EndsAgree, PublishPending
<1>11. /\ copies' \in [Messages -> Nat]
       /\ \A x \in Messages : IsDelivered(x) => IsDelivered(x)'
       /\ \A x \in Messages : IsDelivered(x)' => IsDelivered(x) \/ x = m
       /\ IsDelivered(m)'
  <2>1. CASE m \in OnceMessages /\ peerIncoming[id] # "None"
    BY <1>4, <1>6, <1>8, <1>9, <1>10, <2>1 DEF EndsAgree, IsDelivered
  <2>2. CASE ~(m \in OnceMessages /\ peerIncoming[id] # "None")
    <3>1. copies' = [copies EXCEPT ![m] = @ + 1]
      BY <1>8, <2>2
    <3> QED
      BY <1>7, <1>9, <3>1 DEF IsDelivered
  <2> QED
    BY <2>1, <2>2
<1>12. IsDelivered(stored[id])'
  BY <1>6, <1>8, <1>11 DEF IsDelivered
<1>13. /\ peerIncoming' \in [PacketIds -> IncomingStates \cup {"None"}]
       /\ \A j \in PacketIds : j # id => peerIncoming'[j] = peerIncoming[j]
       /\ m \in OnceMessages => peerIncoming'[id] = "AwaitingPubrel"
       /\ m \notin OnceMessages => peerIncoming'[id] = "IncomingAwaitingPuback"
  BY <1>8, <1>9 DEF IncomingStates
<1>14. EndsAgree(id)'
  BY <1>5, <1>6, <1>7, <1>8, <1>9, <1>10, <1>12, <1>13
     DEF EndsAgree, HasOutgoing, PublishPending
<1>15. PICK reply \in Acks :
          /\ peerReply' = reply /\ reply.id = id
          /\ \/ reply.type = "PUBREC" /\ m \in OnceMessages
             \/ reply.type = "PUBACK" /\ m \notin OnceMessages
  BY <1>8 DEF Packet, Acks
<1>16. AckOK(reply)'
  BY <1>5, <1>8, <1>9, <1>10, <1>12, <1>13, <1>15 DEF AckOK
<1> QED
  BY <1>1, <1>2, <1>3, <1>6, <1>7, <1>8, <1>11, <1>12, <1>13, <1>14, <1>15, <1>16, ServerTakes

LEMMA ServerPubrelInv ==
    ASSUME DeliveryInv, ServerReceivesPubrel
    PROVE  DeliveryInv'
<1>1. toServer # << >> /\ Head(toServer).type = "PUBREL" /\ peerReply = None
  BY DEF ServerReceivesPubrel
<1>2. PICK id \in PacketIds : id = Head(toServer).id
  BY <1>1, TakesPacket
<1>3. DeliveryTypeOK /\ EndsAgree(id)
  BY DEF DeliveryInv
<1>4. outgoing[id].state = "AwaitingPubcomp" /\ id \notin toResend /\ id # writing
  BY <1>1, <1>2, TakesPacket DEF ServerPacketOK
<1>5. /\ peerIncoming[id] \in {"None", "AwaitingPubrel"} /\ HasOutgoing(id)
      /\ ~PublishPending(id)
  BY <1>3, <1>4 DEF EndsAgree, HasOutgoing, PublishPending
<1>6. /\ toServer' = Tail(toServer) /\ toClient' = toClient
      /\ UNCHANGED sessionVars
      /\ UNCHANGED <<stored, writing, toResend, offered, breaks, accepted, copies, completed>>
      /\ peerReply' = Packet("PUBCOMP", id)
      /\ Peer!QosPubrelReceived(id)
  BY <1>2 DEF ServerReceivesPubrel, clientVars, deliveryVars
<1>7. /\ UNCHANGED outgoing
      /\ peerIncoming \in [PacketIds -> IncomingStates \cup {"None"}]
      /\ copies \in [Messages -> Nat]
  BY <1>3, <1>6, FlowTypes DEF sessionVars, qosVars
<1>8. /\ peerIncoming' \in [PacketIds -> IncomingStates \cup {"None"}]
      /\ \A j \in PacketIds : j # id => peerIncoming'[j] = peerIncoming[j]
      /\ peerIncoming'[id] = "None"
  <2>1. CASE peerIncoming[id] = "AwaitingPubrel"
    <3>1. Peer!PubrelResult(id) = "SendPubcomp"
      BY <2>1 DEF Peer!PubrelResult, Peer!HasIncoming
    <3>2. peerIncoming' = [peerIncoming EXCEPT ![id] = "None"]
      BY <1>6, <3>1 DEF Peer!QosPubrelReceived
    <3> QED
      BY <1>7, <3>2
  <2>2. CASE peerIncoming[id] = "None"
    <3>1. ~Peer!HasOutgoing(id) /\ ~Peer!HasIncoming(id)
      BY <2>2 DEF Peer!HasOutgoing, Peer!HasIncoming, NoFlow
    <3>2. Peer!PubrelResult(id) = "ResendPubcomp"
      BY <2>2, <3>1 DEF Peer!PubrelResult
    <3>3. peerIncoming' = peerIncoming
      BY <1>6, <3>2 DEF Peer!QosPubrelReceived
    <3> QED
      BY <1>7, <2>2, <3>3
  <2> QED
    BY <1>5, <2>1, <2>2
<1>9. \A m \in Messages : IsDelivered(m)' <=> IsDelivered(m)
  BY <1>6 DEF IsDelivered
<1>10. EndsAgree(id)'
  BY <1>3, <1>4, <1>6, <1>7, <1>8 DEF EndsAgree, IsDelivered, HasOutgoing
<1>11. PICK reply \in Acks : peerReply' = reply /\ reply.id = id /\ reply.type = "PUBCOMP"
  BY <1>6 DEF Packet, Acks
<1>12. AckOK(reply)'
  BY <1>4, <1>6, <1>7, <1>8, <1>11 DEF AckOK
<1>13. copies' \in [Messages -> Nat]
  BY <1>6, <1>7
<1> QED
  BY <1>1, <1>2, <1>5, <1>6, <1>8, <1>9, <1>10, <1>11, <1>12, <1>13, ServerTakes

LEMMA AnswersInv ==
    ASSUME DeliveryInv, ServerAnswers
    PROVE  DeliveryInv'
<1>1. DeliveryTypeOK /\ OnePacketPerId /\ WireOK /\ NothingLost /\ ConnectionFacts
  BY DEF DeliveryInv
<1>2. PICK reply : reply = peerReply
  OBVIOUS
<1>3. reply \in Acks /\ reply.id \in PacketIds /\ reply # None
      /\ reply.type \in {"PUBACK", "PUBREC", "PUBCOMP"}
  BY <1>1, <1>2, PacketTypes DEF ServerAnswers
<1>4. PICK id \in PacketIds : id = reply.id
  BY <1>3
<1>5. AckOK(reply) /\ id # writing /\ EndsAgree(id) /\ IsConnected
  BY <1>1, <1>2, <1>3, <1>4 DEF WireOK, AckOK, DeliveryInv, ConnectionFacts
<1>6. /\ toClient' = Append(toClient, reply) /\ peerReply' = None /\ toServer' = toServer
      /\ UNCHANGED sessionVars
      /\ UNCHANGED <<stored, writing, toResend, offered, breaks, accepted, copies, completed>>
      /\ IF reply.type = "PUBACK" THEN Peer!QosPubackSent(id) ELSE UNCHANGED peerIncoming
  BY <1>2, <1>4 DEF ServerAnswers, clientVars, deliveryVars
<1>7. /\ UNCHANGED <<outgoing, connectionState, cleanStart>>
      /\ peerIncoming \in [PacketIds -> IncomingStates \cup {"None"}]
  BY <1>1, <1>6, FlowTypes DEF sessionVars, qosVars, sesVars
<1>8. HasOutgoing(id)
  BY <1>3, <1>4, <1>5 DEF AckOK, HasOutgoing
<1>9. /\ peerIncoming' \in [PacketIds -> IncomingStates \cup {"None"}]
      /\ \A j \in PacketIds : j # id => peerIncoming'[j] = peerIncoming[j]
      /\ reply.type = "PUBACK" => peerIncoming'[id] = "None"
      /\ reply.type # "PUBACK" => peerIncoming' = peerIncoming
  <2>1. CASE reply.type = "PUBACK"
    <3>1. peerIncoming[id] \in {"None", "IncomingAwaitingPuback"}
      BY <1>4, <1>5, <2>1 DEF AckOK, EndsAgree
    <3>2. peerIncoming' = IF peerIncoming[id] = "IncomingAwaitingPuback"
                          THEN [peerIncoming EXCEPT ![id] = "None"] ELSE peerIncoming
      BY <1>6, <2>1 DEF Peer!QosPubackSent
    <3> QED
      BY <1>7, <2>1, <3>1, <3>2
  <2>2. CASE reply.type # "PUBACK"
    BY <1>6, <1>7, <2>2
  <2> QED
    BY <2>1, <2>2
<1>10. \A m \in Messages : IsDelivered(m)' <=> IsDelivered(m)
  BY <1>6 DEF IsDelivered
<1>11. EndsAgree(id)'
  <2>1. IsDelivered(stored[id])' <=> IsDelivered(stored[id])
    BY <1>6 DEF IsDelivered
  <2>2. CASE reply.type = "PUBACK"
    <3>1. outgoing[id].state = "AwaitingPuback"
      BY <1>4, <1>5, <2>2 DEF AckOK
    <3> QED
      BY <1>5, <1>6, <1>7, <1>9, <2>1, <2>2, <3>1 DEF EndsAgree, HasOutgoing
  <2>3. CASE reply.type # "PUBACK"
    BY <1>5, <1>6, <1>7, <1>9, <2>1, <2>3 DEF EndsAgree, HasOutgoing
  <2> QED
    BY <2>2, <2>3
<1>12. /\ SessionTypeOK'
       /\ Bookkeeping'
       /\ \A j \in PacketIds : EndsAgree(j)'
       /\ MessagesTracked'
       /\ AcceptedInOrder'
       /\ WritingIsLast'
       /\ \A p : ServerPacketOK(p) => ServerPacketOK(p)'
       /\ \A c : c.id \in PacketIds /\ c.id # id /\ AckOK(c) => AckOK(c)'
  BY <1>5, <1>6, <1>8, <1>9, <1>10, <1>11, ServerStep
<1>13. /\ \A p \in Packets(toServer) : p.id # id
       /\ \A c \in Packets(toClient) : c.id # id
  BY <1>1, <1>2, <1>3, <1>4 DEF OnePacketPerId
<1>14. /\ toClient' \in Seq(Acks) /\ DistinctIds(toClient')
       /\ Packets(toClient') = Packets(toClient) \cup {reply}
  <2>1. toClient \in Seq(Acks) /\ DistinctIds(toClient)
    BY <1>1 DEF DeliveryTypeOK, OnePacketPerId
  <2> QED
    BY <1>3, <1>4, <1>6, <1>13, <2>1, QueueAppend
<1>15. DeliveryTypeOK'
  <2>1. Peer!QosTypeOK'
    BY <1>9, PeerTypeKept
  <2> QED
    BY <1>1, <1>6, <1>12, <1>14, <2>1 DEF DeliveryTypeOK
<1>16. OnePacketPerId'
  BY <1>1, <1>4, <1>6, <1>13, <1>14 DEF OnePacketPerId
<1>17. WireOK'
  <2>1. AckOK(reply)'
    BY <1>4, <1>5, <1>6, <1>7, <1>9 DEF AckOK, IsDelivered
  <2>2. ASSUME NEW c \in Packets(toClient)
        PROVE  AckOK(c)' /\ (c.type = "PUBACK" => peerIncoming'[c.id] = "None")
    BY <1>1, <1>9, <1>12, <1>13, PacketTypes DEF WireOK
  <2> QED
    BY <1>1, <1>4, <1>6, <1>7, <1>9, <1>12, <1>14, <2>1, <2>2 DEF WireOK
<1>18. NothingLost'
  BY <1>1, <1>5, <1>6, <1>7 DEF NothingLost, PublishPending, IsDelivered
<1>19. ConnectionFacts'
  BY <1>1, <1>5, <1>6, <1>7 DEF ConnectionFacts, IsConnected, HasOutgoing
<1> QED
  BY <1>12, <1>15, <1>16, <1>17, <1>18, <1>19 DEF DeliveryInv

-----------------------------------------------------------------------------
(***************************************************************************)
(* The invariant, and what follows from it                                 *)
(***************************************************************************)

LEMMA StutterInv ==
    ASSUME DeliveryInv, UNCHANGED vars
    PROVE  DeliveryInv'
<1>1. /\ UNCHANGED sessionVars
      /\ UNCHANGED <<stored, writing, toResend, offered, toServer, toClient, peerIncoming,
                     peerReply, breaks, accepted, copies, completed>>
  BY DEF vars, clientVars, wireVars, peerVars, deliveryVars
<1>2. /\ UNCHANGED pidVars /\ UNCHANGED sesVars /\ ComponentStep
      /\ UNCHANGED <<outgoing, nextSeq, connectionState, cleanStart>>
  BY <1>1 DEF sessionVars, qosVars, sesVars, ComponentStep
<1>3. DeliveryTypeOK /\ OnePacketPerId /\ WireOK /\ NothingLost /\ ConnectionFacts
      /\ WritingIsLast
  BY DEF DeliveryInv
<1>4. DeliveryTypeOK'
  <2>1. SessionTypeOK'
    BY <1>2, <1>3, SessionTypeKept DEF DeliveryTypeOK
  <2> QED
    BY <1>1, <1>3, <2>1 DEF DeliveryTypeOK, Peer!QosTypeOK
<1>5. /\ Bookkeeping'
      /\ \A id \in PacketIds : EndsAgree(id)'
      /\ MessagesTracked'
      /\ AcceptedInOrder'
  BY <1>1, <1>2, FlowsKept
<1>6. OnePacketPerId' /\ WritingIsLast' /\ NothingLost'
  BY <1>1, <1>2, <1>3
     DEF OnePacketPerId, WritingIsLast, NothingLost, PublishPending, Earlier, IsDelivered,
         IsConnected
<1>7. WireOK'
  BY <1>1, <1>2, <1>3
     DEF WireOK, ServerPacketOK, AckOK, PublishPending, Earlier, IsDelivered
<1>8. ConnectionFacts'
  BY <1>1, <1>2, <1>3 DEF ConnectionFacts, IsConnected, HasOutgoing, OutgoingIds
<1> QED
  BY <1>4, <1>5, <1>6, <1>7, <1>8 DEF DeliveryInv

LEMMA DeliveryInvariant ==
    ASSUME ~TimeoutAborts
    PROVE  DeliverySpec => []DeliveryInv
<1>1. DeliveryInit => DeliveryInv
  BY DeliveryInitInv
<1>2. DeliveryInv /\ [DeliveryNext]_vars => DeliveryInv'
  <2> SUFFICES ASSUME DeliveryInv, [DeliveryNext]_vars PROVE DeliveryInv'
    OBVIOUS
  <2>1. CASE Open
    BY <2>1, OpenInv
  <2>2. CASE ConnackArrives
    BY <2>2, ConnackInv
  <2>3. CASE Break
    BY <2>3, BreakInv
  <2>4. CASE Write
    BY <2>4, WriteInv
  <2>5. CASE ClientReceives
    BY <2>5, FinalAckInv, PubrecInv DEF ClientReceives
  <2>6. CASE ServerReceives
    BY <2>6, ServerPublishInv, ServerPubrelInv DEF ServerReceives
  <2>7. CASE ServerAnswers
    BY <2>7, AnswersInv
  <2>8. CASE ResendNext
    BY <2>8, ResendInv DEF ResendNext
  <2>9. CASE \E id \in PacketIds : Abort(id) \/ \E m \in Messages : Register(m, id)
    BY <2>9, AbortInv, RegisterInv
  <2>10. CASE UNCHANGED vars
    BY <2>10, StutterInv
  <2> QED
    BY <2>1, <2>2, <2>3, <2>4, <2>5, <2>6, <2>7, <2>8, <2>9, <2>10 DEF DeliveryNext
<1> QED
  BY <1>1, <1>2, PTL DEF DeliverySpec

(***************************************************************************)
(* Type correctness of both ends and the wire: the session writes a        *)
(* PUBLISH or a PUBREL (resend_publish, resend_pubrel, handle_pubrec) only *)
(* for an identifier of which the application still holds the message.     *)
(***************************************************************************)
THEOREM DeliveryTypeCorrect ==
    ASSUME ~TimeoutAborts
    PROVE  DeliverySpec => []DeliveryTypeOK
<1>1. DeliveryInv => DeliveryTypeOK
  BY DEF DeliveryInv
<1> QED
  BY <1>1, DeliveryInvariant, PTL

(***************************************************************************)
(* PacketIdManager::release comes after the last use of an identifier: a   *)
(* flow that the server holds open always belongs to an identifier that    *)
(* the session has in use, over any number of breaks.                      *)
(***************************************************************************)
THEOREM PeerFlowsHaveOwner ==
    ASSUME ~TimeoutAborts
    PROVE  DeliverySpec => []PeerFlowsOwned
<1>1. DeliveryInv => PeerFlowsOwned
  BY DEF DeliveryInv, EndsAgree, Bookkeeping, PeerFlowsOwned, Peer!HasIncoming
<1> QED
  BY <1>1, DeliveryInvariant, PTL

(***************************************************************************)
(* Without an abort_publish after a timeout, a message that handle_puback  *)
(* or handle_pubcomp reported as complete has reached the server's         *)
(* application.  (With one, TLC shows how it may not have.)                *)
(***************************************************************************)
THEOREM CompletedWereDelivered ==
    ASSUME ~TimeoutAborts
    PROVE  DeliverySpec => []CompletedWasDelivered
<1>1. DeliveryInv => CompletedWasDelivered
  BY DEF DeliveryInv, MessagesTracked, IsDelivered, CompletedWasDelivered
<1> QED
  BY <1>1, DeliveryInvariant, PTL

-----------------------------------------------------------------------------
(***************************************************************************)
(* The refinement                                                          *)
(***************************************************************************)

\* Everything accepted before the message at the head of the line arrived.
LEMMA DeliveredInOrder ==
    ASSUME DeliveryInv, toServer # << >>, Head(toServer).type = "PUBLISH",
           NEW i \in 1..Len(accepted), accepted[i] = Head(toServer).message,
           NEW j \in 1..(i - 1)
    PROVE  IsDelivered(accepted[j])
<1>1. DeliveryTypeOK /\ Bookkeeping /\ MessagesTracked /\ AcceptedInOrder /\ WireOK
      /\ NothingLost
  BY DEF DeliveryInv
<1>2. PICK id \in PacketIds : id = Head(toServer).id
  BY TakesPacket
<1>3. /\ PublishPending(id) /\ stored[id] = accepted[i] /\ IsConnected
      /\ \A q \in toResend : Earlier(id, q)
  BY <1>2, TakesPacket DEF ServerPacketOK
<1>4. j \in 1..Len(accepted) /\ j < i /\ accepted[j] \in Messages
  <2>1. accepted \in Seq(Messages)
    BY <1>1 DEF DeliveryTypeOK
  <2>2. Len(accepted) \in Nat /\ DOMAIN accepted = 1..Len(accepted)
    BY <2>1, LenProperties
  <2>3. j \in 1..Len(accepted) /\ j < i
    BY <2>2
  <2> QED
    BY <2>1, <2>3, ElementOfSeq
<1> SUFFICES ASSUME ~IsDelivered(accepted[j]) PROVE FALSE
  OBVIOUS
<1>5. PICK q \in PacketIds : stored[q] = accepted[j]
  BY <1>1, <1>4 DEF MessagesTracked
<1>6. HasOutgoing(q) /\ EndsAgree(q)
  BY <1>1, <1>4, <1>5, DeliveryAssumption DEF Bookkeeping, DeliveryInv
<1>7. PublishPending(q)
  BY <1>1, <1>5, <1>6, FlowTypes DEF EndsAgree, PublishPending, HasOutgoing, OutgoingStates
<1>8. Earlier(q, id)
  BY <1>1, <1>3, <1>4, <1>5, <1>7 DEF AcceptedInOrder
<1>9. outgoing[q].seq \in Nat /\ outgoing[id].seq \in Nat
  BY <1>1, FlowTypes
<1>10. ~Earlier(id, q) /\ q # id
  BY <1>8, <1>9 DEF Earlier
<1>11. q # writing
  <2>1. Abstract!IsAccepted(stored[q])
    BY <1>1, <1>4, <1>5, LenProperties DEF DeliveryTypeOK, Abstract!IsAccepted
  <2> QED
    BY <1>1, <1>6, <2>1 DEF MessagesTracked
<1>12. PICK p \in Packets(toServer) : p.type = "PUBLISH" /\ p.id = q
  BY <1>1, <1>3, <1>5, <1>7, <1>10, <1>11 DEF NothingLost
<1>13. toServer \in Seq(Publishes \cup Pubrels) /\ PublishesInOrder(toServer, outgoing)
  BY <1>1 DEF DeliveryTypeOK, WireOK
<1>14. \A x \in Packets(toServer) : x.type = "PUBLISH" /\ x # Head(toServer) =>
           outgoing[Head(toServer).id].seq < outgoing[x.id].seq
  BY <1>13, InOrderTail
<1> QED
  BY <1>2, <1>10, <1>12, <1>14 DEF Earlier

\* The first arrival of a message delivers it, a later one only with QoS 1.
LEMMA ArrivalRefines ==
    ASSUME DeliveryInv, ServerReceivesPublish
    PROVE  \/ \E m \in Messages : Abstract!Deliver(m) \/ Abstract!Redeliver(m)
           \/ UNCHANGED Abstract!deliveryVars
<1>1. toServer # << >> /\ Head(toServer).type = "PUBLISH"
  BY DEF ServerReceivesPublish
<1>2. PICK packet : packet = Head(toServer)
  OBVIOUS
<1>3. PICK id \in PacketIds : id = packet.id
  BY <1>1, <1>2, TakesPacket
<1>4. PICK m \in Messages : m = packet.message
  BY <1>1, <1>2, TakesPacket
<1>5. PublishPending(id) /\ m = stored[id] /\ id # writing
  BY <1>1, <1>2, <1>3, <1>4, TakesPacket DEF ServerPacketOK
<1>6. DeliveryTypeOK /\ EndsAgree(id) /\ MessagesTracked /\ HasOutgoing(id)
  BY <1>5 DEF DeliveryInv, PublishPending, HasOutgoing
<1>7. /\ copies' = IF m \in OnceMessages /\ peerIncoming[id] # "None"
                   THEN copies ELSE [copies EXCEPT ![m] = @ + 1]
      /\ UNCHANGED <<accepted, completed>>
  BY <1>2, <1>3, <1>4 DEF ServerReceivesPublish, ServerDelivers, Peer!HasIncoming
<1>8. copies \in [Messages -> Nat] /\ copies[m] \in Nat /\ accepted \in Seq(Messages)
  BY <1>6 DEF DeliveryTypeOK
<1>9. CASE copies[m] = 0
  <2>1. ~IsDelivered(stored[id])
    BY <1>5, <1>9 DEF IsDelivered
  <2>2. ~(m \in OnceMessages /\ peerIncoming[id] # "None")
    BY <1>5, <1>6, <2>1 DEF EndsAgree, PublishPending
  <2>3. copies' = [copies EXCEPT ![m] = 1]
    BY <1>7, <1>8, <1>9, <2>2
  <2>4. PICK i \in 1..Len(accepted) : accepted[i] = m
    BY <1>5, <1>6, <1>8, LenProperties DEF MessagesTracked, Abstract!IsAccepted
  <2>5. \A j \in 1..(i - 1) : copies[accepted[j]] > 0
    BY <1>1, <1>2, <1>4, <2>4, DeliveredInOrder DEF IsDelivered
  <2>6. Abstract!Deliver(m)
    BY <1>7, <1>8, <1>9, <2>3, <2>4, <2>5, LenProperties DEF Abstract!Deliver
  <2> QED
    BY <2>6
<1>10. CASE copies[m] > 0
  <2>1. IsDelivered(stored[id])
    BY <1>5, <1>10 DEF IsDelivered
  <2>2. CASE m \in OnceMessages
    <3>1. peerIncoming[id] # "None"
      BY <1>5, <1>6, <2>1, <2>2 DEF EndsAgree, PublishPending
    <3> QED
      BY <1>7, <2>2, <3>1 DEF Abstract!deliveryVars
  <2>3. CASE m \notin OnceMessages
    <3>1. m \notin completed
      BY <1>5, <1>6 DEF MessagesTracked
    <3>2. Abstract!Redeliver(m)
      BY <1>7, <1>10, <2>3, <3>1 DEF Abstract!Redeliver
    <3> QED
      BY <3>2
  <2> QED
    BY <2>2, <2>3
<1> QED
  BY <1>8, <1>9, <1>10

LEMMA WriteRefines ==
    ASSUME DeliveryInv, Write
    PROVE  \E m \in Messages : Abstract!Accept(m)
<1>1. PICK id : id = writing
  OBVIOUS
<1>2. /\ id \in PacketIds /\ PublishPending(id)
      /\ DeliveryTypeOK /\ Bookkeeping /\ MessagesTracked
  BY <1>1 DEF Write, DeliveryInv, DeliveryTypeOK, WritingIsLast
<1>3. HasOutgoing(id)
  BY <1>2 DEF PublishPending, HasOutgoing
<1>4. stored[id] \in Messages /\ ~Abstract!IsAccepted(stored[id])
  BY <1>1, <1>2, <1>3, FlowTypes DEF Bookkeeping, MessagesTracked
<1>5. accepted' = Append(accepted, stored[id]) /\ UNCHANGED <<copies, completed>>
  BY <1>1 DEF Write
<1> QED
  BY <1>4, <1>5 DEF Abstract!Accept

LEMMA FinalAckRefines ==
    ASSUME DeliveryInv, ClientReceivesFinalAck
    PROVE  \E m \in Messages : Abstract!Complete(m)
<1>1. PICK id \in PacketIds : /\ HasOutgoing(id) /\ IsDelivered(stored[id])
                              /\ completed' = completed \cup {stored[id]}
  BY FinalAckCompletes
<1>2. stored[id] \in Messages /\ stored[id] \notin completed
  BY <1>1, FlowTypes DEF DeliveryInv, Bookkeeping, MessagesTracked
<1>3. UNCHANGED <<accepted, copies>>
  BY DEF ClientReceivesFinalAck
<1> QED
  BY <1>1, <1>2, <1>3 DEF Abstract!Complete, IsDelivered

(***************************************************************************)
(* The session, its retransmission list (pending_retransmissions) and its  *)
(* reuse of identifiers keep the promise of QoS 1 and QoS 2 over any       *)
(* number of breaks: a message is accepted once, delivered for the first   *)
(* time in the order of acceptance, redelivered only with QoS 1 and only   *)
(* before it completes, and completed once, after its delivery.            *)
(***************************************************************************)
THEOREM DeliveryRefines ==
    ASSUME ~TimeoutAborts
    PROVE  DeliverySpec => Abstract!SafetySpec
<1>1. DeliveryInit => Abstract!Init
  BY DEF DeliveryInit
<1>2. DeliveryInv /\ [DeliveryNext]_vars => [Abstract!Next]_(Abstract!deliveryVars)
  <2> SUFFICES ASSUME DeliveryInv, [DeliveryNext]_vars
               PROVE  Abstract!Next \/ UNCHANGED Abstract!deliveryVars
    OBVIOUS
  <2>1. CASE Write
    BY <2>1, WriteRefines DEF Abstract!Next
  <2>2. CASE ServerReceivesPublish
    BY <2>2, ArrivalRefines DEF Abstract!Next
  <2>3. CASE ClientReceivesFinalAck
    BY <2>3, FinalAckRefines DEF Abstract!Next
  <2>4. CASE UNCHANGED deliveryVars
    BY <2>4 DEF deliveryVars, Abstract!deliveryVars
  <2>5. CASE \/ Open \/ ConnackArrives \/ Break \/ ClientReceivesPubrec
             \/ ServerReceivesPubrel \/ ServerAnswers \/ ResendNext
    BY <2>4, <2>5 DEF Open, ConnackArrives, Break, ClientReceivesPubrec,
       ServerReceivesPubrel, ServerAnswers, ResendNext, Resend
  <2>6. CASE \E id \in PacketIds : Abort(id) \/ \E m \in Messages : Register(m, id)
    BY <2>4, <2>6 DEF Abort, Register
  <2>7. CASE UNCHANGED vars
    BY <2>4, <2>7 DEF vars
  <2> QED
    BY <2>1, <2>2, <2>3, <2>5, <2>6, <2>7
       DEF DeliveryNext, ClientReceives, ServerReceives
<1> QED
  BY <1>1, <1>2, DeliveryInvariant, PTL DEF DeliverySpec, Abstract!SafetySpec

=============================================================================
