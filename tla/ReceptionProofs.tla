---------------------------- MODULE ReceptionProofs ----------------------------
(***************************************************************************)
(* The session receives reliably over a connection that breaks: the safety *)
(* half of ReliableDelivery for the messages of the server, and a server   *)
(* that keeps to the Receive Maximum is never refused, for every width of  *)
(* the packet identifier, every set of messages, every Receive Maximum and *)
(* every number of breaks, whatever the client publishes meanwhile.        *)
(*                                                                         *)
(* ReceptionInv, the inductive invariant, follows every flow of the server *)
(* through the two ends and the wire.  The client's own PUBLISHes and      *)
(* their PUBACKs travel on the same wire and have no part in it.           *)
(***************************************************************************)
EXTENDS QosReception, ComponentProofs, FiniteSetTheorems

\* What the server sends for its flows, and what the client answers
RequestTypes == {"PUBLISH", "PUBREL"}
AnswerTypes == {"PUBACK", "PUBREC", "PUBCOMP"}

Requests == {p \in Packets(toClient) : p.type \in RequestTypes}
Answers == {a \in Packets(toServer) : a.type \in AnswerTypes}

DistinctIds(queue, types) ==
    \A i, j \in 1..Len(queue) :
        /\ queue[i].type \in types /\ queue[j].type \in types
        /\ queue[i].id = queue[j].id
        => i = j

\* The flow waits for the first answer to its PUBLISH.
PublishPending(id) == peerOutgoing[id].state \in {"AwaitingPuback", "AwaitingPubrec"}

Earlier(id, other) == peerOutgoing[id].seq < peerOutgoing[other].seq

IsCharged(id) == peerOutgoing[id].charged

IsDelivered(m) == copies[m] > 0

-----------------------------------------------------------------------------
(***************************************************************************)
(* The inductive invariant                                                 *)
(***************************************************************************)

ToClientPackets ==
    [type : RequestTypes \cup {"PUBACK"}, id : PacketIds, message : Messages \cup {None}]
ToServerPackets ==
    [type : AnswerTypes \cup {"PUBLISH"}, id : PacketIds, message : Messages \cup {None}]

WireTypeOK ==
    /\ ReceptionTypeOK
    /\ toClient \in Seq(ToClientPackets)
    /\ toServer \in Seq(ToServerPackets)
    /\ breaks \in 0..MaxBreaks
    /\ accepted \in Seq(Messages)

\* The server keeps a copy of the message of each of its flows.
Bookkeeping ==
    /\ \A id \in PacketIds : peerStored[id] # None <=> Peer!HasOutgoing(id)
    /\ \A id \in PacketIds : IsCharged(id) => Peer!HasOutgoing(id)
    /\ \A id \in PacketIds : Peer!HasOutgoing(id) => peerOutgoing[id].seq < peerSeq
    /\ \A i, j \in PacketIds : Peer!HasOutgoing(i) /\ Peer!HasOutgoing(j) /\ i # j =>
          peerStored[i] # peerStored[j] /\ peerOutgoing[i].seq # peerOutgoing[j].seq

\* How far the client can be, given the state of the server's flow
EndsAgree(id) ==
    /\ ~Peer!HasOutgoing(id) => incoming[id] = "None"
    /\ peerOutgoing[id].state = "AwaitingPuback" =>
          /\ peerStored[id] \notin OnceMessages
          /\ incoming[id] \in {"None", "IncomingAwaitingPuback"}
          /\ incoming[id] # "None" => IsDelivered(peerStored[id])
    /\ peerOutgoing[id].state = "AwaitingPubrec" =>
          /\ peerStored[id] \in OnceMessages
          /\ incoming[id] \in {"None", "AwaitingPubrel"}
          /\ incoming[id] # "None" <=> IsDelivered(peerStored[id])
    /\ peerOutgoing[id].state = "AwaitingPubcomp" =>
          /\ peerStored[id] \in OnceMessages
          /\ incoming[id] \in {"None", "AwaitingPubrel"}
          /\ IsDelivered(peerStored[id])

\* Accepted, delivered and completed messages
MessagesTracked ==
    /\ \A i \in 1..Len(accepted) :
          IsDelivered(accepted[i]) \/ \E id \in PacketIds : peerStored[id] = accepted[i]
    /\ \A m \in Messages : IsDelivered(m) => Abstract!IsAccepted(m)
    /\ \A m \in completed : IsDelivered(m)
    /\ \A id \in PacketIds : Peer!HasOutgoing(id) =>
          peerStored[id] \notin completed /\ Abstract!IsAccepted(peerStored[id])

\* The sequence numbers of unanswered flows follow the order of acceptance.
AcceptedInOrder ==
    \A i, j \in 1..Len(accepted), p, q \in PacketIds :
        /\ i < j
        /\ PublishPending(p) /\ peerStored[p] = accepted[i]
        /\ PublishPending(q) /\ peerStored[q] = accepted[j]
        => Earlier(p, q)

RequestOK(p) ==
    /\ p.id \notin peerToResend
    /\ p.type = "PUBLISH" =>
          /\ PublishPending(p.id)
          /\ p.message = peerStored[p.id]
          /\ IsCharged(p.id)
          /\ \A id \in peerToResend : Earlier(p.id, id)
    /\ p.type = "PUBREL" =>
          /\ peerOutgoing[p.id].state = "AwaitingPubcomp"
          /\ IsCharged(p.id) => incoming[p.id] = "AwaitingPubrel"

AnswerOK(a) ==
    /\ a.id \notin peerToResend
    /\ a.type = "PUBACK" =>
          peerOutgoing[a.id].state = "AwaitingPuback" /\ IsDelivered(peerStored[a.id])
    /\ a.type = "PUBREC" =>
          peerOutgoing[a.id].state = "AwaitingPubrec" /\ incoming[a.id] = "AwaitingPubrel"
    /\ a.type = "PUBCOMP" =>
          peerOutgoing[a.id].state = "AwaitingPubcomp" /\ incoming[a.id] = "None"

\* At most one packet of a flow of the server is under way.
OnePacketPerId ==
    /\ DistinctIds(toClient, RequestTypes)
    /\ DistinctIds(toServer, AnswerTypes)
    /\ \A p \in Requests, a \in Answers : p.id # a.id
    /\ reply # NoReply =>
          /\ \A p \in Requests : p.id # reply.id
          /\ \A a \in Answers : a.id # reply.id

WireOK ==
    /\ PublishesInOrder(toClient, peerOutgoing)
    /\ \A p \in Requests : RequestOK(p)
    /\ \A a \in Answers :
          AnswerOK(a) /\ (a.type = "PUBACK" => incoming[a.id] = "None")

\* The answer that the client is writing; only a charged flow settles for sure.
ReplyOK ==
    reply # NoReply =>
        /\ reply.id \in PacketIds /\ reply.type \in AnswerTypes
        /\ AnswerOK(reply)
        /\ reply.type = "PUBCOMP" /\ ~reply.settles => ~IsCharged(reply.id)

\* The PUBLISH of a message that was not delivered yet is on the wire, or will
\* be sent again.
NothingLost ==
    \A id \in PacketIds :
        IsConnected /\ PublishPending(id) /\ ~IsDelivered(peerStored[id]) =>
            \/ id \in peerToResend
            \/ \E p \in Requests : p.type = "PUBLISH" /\ p.id = id

ConnectionFacts ==
    /\ ~cleanStart
    /\ ~IsConnected => /\ toServer = << >> /\ toClient = << >>
                       /\ reply = NoReply /\ peerToResend = {}
    /\ \A id \in peerToResend : Peer!HasOutgoing(id) /\ ~IsCharged(id)
    /\ breaks = 0 /\ ~IsConnected => \A id \in PacketIds : ~Peer!HasOutgoing(id)

\* The charged flows whose PUBLISH arrived and whose last answer is not written
Counted ==
    {id \in PacketIds :
        /\ IsCharged(id)
        /\ \A p \in Requests : p.type = "PUBLISH" => p.id # id
        /\ \A a \in Answers : a.type \in {"PUBACK", "PUBCOMP"} => a.id # id}

ChargedFlows == {id \in PacketIds : IsCharged(id)}

\* The client counts no PUBLISH that the server does not count.
QuotaKept ==
    /\ connectionState = "Connecting" => incomingCount = 0
    /\ IsConnected => /\ incomingCount <= Cardinality(Counted)
                      /\ Cardinality(ChargedFlows) <= ownReceiveMaximum

ReceptionInv ==
    /\ WireTypeOK
    /\ Bookkeeping
    /\ \A id \in PacketIds : EndsAgree(id)
    /\ MessagesTracked
    /\ AcceptedInOrder
    /\ OnePacketPerId
    /\ WireOK
    /\ ReplyOK
    /\ NothingLost
    /\ ConnectionFacts
    /\ QuotaKept

-----------------------------------------------------------------------------
(***************************************************************************)
(* The queues of the wire                                                  *)
(***************************************************************************)

LEMMA EmptyQueue ==
    /\ Packets(<< >>) = {}
    /\ \A types : DistinctIds(<< >>, types)
    /\ \A flows : PublishesInOrder(<< >>, flows)
  BY EmptySeq DEF Packets, DistinctIds, PublishesInOrder

LEMMA QueueAppend ==
    ASSUME NEW S, NEW queue \in Seq(S), NEW packet \in S, NEW types
    PROVE  /\ Append(queue, packet) \in Seq(S)
           /\ Packets(Append(queue, packet)) = Packets(queue) \cup {packet}
           /\ /\ DistinctIds(queue, types)
              /\ packet.type \in types =>
                    \A p \in Packets(queue) : p.type \in types => p.id # packet.id
              => DistinctIds(Append(queue, packet), types)
<1>1. Len(queue) \in Nat
  BY LenProperties
<1>2. /\ Append(queue, packet) \in Seq(S)
      /\ Len(Append(queue, packet)) = Len(queue) + 1
      /\ \A i \in 1..Len(queue) : Append(queue, packet)[i] = queue[i]
      /\ Append(queue, packet)[Len(queue) + 1] = packet
  BY AppendProperties
<1>3. Packets(Append(queue, packet)) = Packets(queue) \cup {packet}
  BY <1>1, <1>2 DEF Packets
<1>4. ASSUME DistinctIds(queue, types),
             packet.type \in types =>
                 \A p \in Packets(queue) : p.type \in types => p.id # packet.id,
             NEW i \in 1..(Len(queue) + 1), NEW j \in 1..(Len(queue) + 1),
             Append(queue, packet)[i].type \in types,
             Append(queue, packet)[j].type \in types,
             Append(queue, packet)[i].id = Append(queue, packet)[j].id
      PROVE  i = j
  <2>1. \A k \in 1..Len(queue) :
            packet.type \in types /\ queue[k].type \in types => queue[k].id # packet.id
    BY <1>4 DEF Packets
  <2>2. \A k \in 1..(Len(queue) + 1) : k \in 1..Len(queue) \/ k = Len(queue) + 1
    BY <1>1
  <2> QED
    BY <1>2, <1>4, <2>1, <2>2 DEF DistinctIds
<1> QED
  BY <1>2, <1>3, <1>4 DEF DistinctIds

LEMMA QueueTail ==
    ASSUME NEW S, NEW queue \in Seq(S), queue # << >>, NEW types, DistinctIds(queue, types)
    PROVE  /\ Tail(queue) \in Seq(S)
           /\ Packets(queue) = Packets(Tail(queue)) \cup {Head(queue)}
           /\ Head(queue).type \in types =>
                 \A p \in Packets(Tail(queue)) : p.type \in types => p.id # Head(queue).id
           /\ DistinctIds(Tail(queue), types)
<1>1. Len(queue) \in Nat /\ Len(queue) >= 1
  BY LenProperties, EmptySeq
<1>2. /\ Tail(queue) \in Seq(S)
      /\ Head(queue) = queue[1]
      /\ Len(Tail(queue)) = Len(queue) - 1
      /\ \A i \in 1..(Len(queue) - 1) : Tail(queue)[i] = queue[i + 1]
  BY HeadTailProperties
<1>3. \A i \in 1..(Len(queue) - 1) : i + 1 \in 1..Len(queue) /\ i + 1 # 1
  BY <1>1
<1>4. Packets(queue) = Packets(Tail(queue)) \cup {Head(queue)}
  <2>1. ASSUME NEW i \in 1..Len(queue)
        PROVE  queue[i] = Head(queue) \/ queue[i] \in Packets(Tail(queue))
    <3>1. CASE i = 1
      BY <1>2, <3>1
    <3>2. CASE i # 1
      <4>1. i - 1 \in 1..(Len(queue) - 1) /\ (i - 1) + 1 = i
        BY <1>1, <3>2
      <4>2. Tail(queue)[i - 1] = queue[i]
        BY <1>2, <4>1
      <4> QED
        BY <1>2, <4>1, <4>2 DEF Packets
    <3> QED
      BY <3>1, <3>2
  <2>2. Head(queue) \in Packets(queue)
    BY <1>1, <1>2 DEF Packets
  <2>3. Packets(Tail(queue)) \subseteq Packets(queue)
    BY <1>2, <1>3 DEF Packets
  <2> QED
    BY <2>1, <2>2, <2>3 DEF Packets
<1>5. ASSUME Head(queue).type \in types, NEW i \in 1..(Len(queue) - 1),
             queue[i + 1].type \in types
      PROVE  queue[i + 1].id # Head(queue).id
  BY <1>1, <1>2, <1>3, <1>5 DEF DistinctIds
<1>6. DistinctIds(Tail(queue), types)
  <2> SUFFICES ASSUME NEW i \in 1..(Len(queue) - 1), NEW j \in 1..(Len(queue) - 1),
                      queue[i + 1].type \in types, queue[j + 1].type \in types,
                      queue[i + 1].id = queue[j + 1].id
               PROVE  i = j
    BY <1>2 DEF DistinctIds
  <2>1. i + 1 = j + 1
    BY <1>3 DEF DistinctIds
  <2> QED
    BY <1>1, <2>1
<1> QED
  BY <1>2, <1>4, <1>5, <1>6 DEF Packets

-----------------------------------------------------------------------------
(***************************************************************************)
(* Types                                                                   *)
(***************************************************************************)

LEMMA PeerType ==
    ASSUME Peer!QosTypeOK
    PROVE  peerOutgoing \in [PacketIds -> OutgoingFlow] /\ peerSeq \in Nat
<1>1. Peer!PacketIds = PacketIds /\ Peer!OutgoingFlow = OutgoingFlow
  BY DEF Peer!PacketIds, PacketIds, Peer!OutgoingFlow, OutgoingFlow,
     Peer!OutgoingStates, OutgoingStates
<1> QED
  BY <1>1 DEF Peer!QosTypeOK

LEMMA PeerTypeKept ==
    ASSUME peerOutgoing' \in [PacketIds -> OutgoingFlow], peerSeq' \in Nat
    PROVE  Peer!QosTypeOK'
<1>1. /\ Peer!PacketIds = PacketIds /\ Peer!OutgoingFlow = OutgoingFlow
      /\ Peer!IncomingStates = IncomingStates
  BY DEF Peer!PacketIds, PacketIds, Peer!OutgoingFlow, OutgoingFlow,
     Peer!OutgoingStates, OutgoingStates, Peer!IncomingStates, IncomingStates
<1>2. [id \in PacketIds |-> "None"] \in [PacketIds -> IncomingStates \cup {"None"}]
  OBVIOUS
<1> QED
  BY <1>1, <1>2 DEF Peer!QosTypeOK

\* What the types say of the values that the steps look at
LEMMA FlowTypes ==
    ASSUME WireTypeOK
    PROVE  /\ SessionTypeOK
           /\ peerOutgoing \in [PacketIds -> OutgoingFlow] /\ peerSeq \in Nat
           /\ \A id \in PacketIds :
                 /\ peerOutgoing[id].seq \in Nat
                 /\ peerOutgoing[id].charged \in BOOLEAN
                 /\ peerOutgoing[id].state \in OutgoingStates \cup {"None"}
                 /\ peerStored[id] \in Messages \cup {None}
                 /\ id # None /\ id \in 0..U16Max
           /\ peerStored \in [PacketIds -> Messages \cup {None}]
           /\ incoming \in [PacketIds -> IncomingStates \cup {"None"}]
           /\ incomingCount \in Nat /\ ownReceiveMaximum \in Nat
           /\ copies \in [Messages -> Nat]
<1>1. ReceptionTypeOK
  BY DEF WireTypeOK
<1>2. peerOutgoing \in [PacketIds -> OutgoingFlow] /\ peerSeq \in Nat
  BY <1>1, PeerType DEF ReceptionTypeOK
<1>3. /\ peerStored \in [PacketIds -> Messages \cup {None}]
      /\ copies \in [Messages -> Nat]
      /\ SessionTypeOK
  BY <1>1 DEF ReceptionTypeOK
<1>4. incoming \in [PacketIds -> IncomingStates \cup {"None"}]
  BY <1>3 DEF SessionTypeOK, QosTypeOK
<1>5. incomingCount \in Nat /\ ownReceiveMaximum \in Nat
  BY <1>3, U16MaxAssumption DEF SessionTypeOK, FcTypeOK
<1>6. \A id \in PacketIds : id # None /\ id \in 0..U16Max
  BY NoneAssumption, U16MaxAssumption DEF PacketIds
<1> QED
  BY <1>2, <1>3, <1>4, <1>5, <1>6 DEF OutgoingFlow

LEMMA PacketTypes ==
    ASSUME WireTypeOK
    PROVE  /\ \A p \in Packets(toClient) : p \in ToClientPackets /\ p.id \in PacketIds
           /\ \A a \in Packets(toServer) : a \in ToServerPackets /\ a.id \in PacketIds
<1>1. toClient \in Seq(ToClientPackets) /\ toServer \in Seq(ToServerPackets)
  BY DEF WireTypeOK
<1>2. /\ \A p \in Packets(toClient) : p \in ToClientPackets
      /\ \A a \in Packets(toServer) : a \in ToServerPackets
  BY <1>1, ElementOfSeq DEF Packets
<1> QED
  BY <1>2 DEF ToClientPackets, ToServerPackets

\* A step of the session and the server that keeps every other type
LEMMA WireTypeKept ==
    ASSUME SessionTypeOK',
           reply' \in [type : {"None", "PUBACK", "PUBREC", "PUBCOMP"},
                       id : 0..U16Max, settles : BOOLEAN],
           ownSent' \in 0..MaxOwn,
           peerOutgoing' \in [PacketIds -> OutgoingFlow], peerSeq' \in Nat,
           peerStored' \in [PacketIds -> Messages \cup {None}],
           peerToResend' \subseteq PacketIds,
           copies' \in [Messages -> Nat], completed' \subseteq Messages,
           toClient' \in Seq(ToClientPackets), toServer' \in Seq(ToServerPackets),
           breaks' \in 0..MaxBreaks, accepted' \in Seq(Messages)
    PROVE  WireTypeOK'
<1>1. Peer!QosTypeOK'
  BY PeerTypeKept
<1> QED
  BY <1>1 DEF WireTypeOK, ReceptionTypeOK

LEMMA NoReplyType ==
    NoReply \in [type : {"None", "PUBACK", "PUBREC", "PUBCOMP"},
                 id : 0..U16Max, settles : BOOLEAN]
<1>1. 0 \in 0..U16Max
  BY U16MaxAssumption
<1> QED
  BY <1>1 DEF NoReply, Reply

LEMMA ReplyType ==
    ASSUME NEW type \in AnswerTypes, NEW id \in 0..U16Max, NEW settles \in BOOLEAN
    PROVE  /\ Reply(type, id, settles) \in
                 [type : {"None", "PUBACK", "PUBREC", "PUBCOMP"},
                  id : 0..U16Max, settles : BOOLEAN]
           /\ Reply(type, id, settles).type = type
           /\ Reply(type, id, settles).id = id
           /\ Reply(type, id, settles).settles = settles
<1>1. type \in {"None", "PUBACK", "PUBREC", "PUBCOMP"}
  BY DEF AnswerTypes
<1> QED
  BY <1>1, Zenon DEF Reply

\* Sets of flows are finite.
LEMMA FlowSets ==
    /\ \A S \in SUBSET PacketIds : IsFiniteSet(S) /\ Cardinality(S) \in Nat
    /\ \A S, T \in SUBSET PacketIds : S \subseteq T => Cardinality(S) <= Cardinality(T)
    /\ \A S \in SUBSET PacketIds, id \in PacketIds :
          /\ id \notin S => Cardinality(S \cup {id}) = Cardinality(S) + 1
          /\ id \in S => Cardinality(S \ {id}) = Cardinality(S) - 1
<1>1. IsFiniteSet(PacketIds)
  BY FS_Interval, U16MaxAssumption DEF PacketIds
<1>2. \A S \in SUBSET PacketIds : IsFiniteSet(S) /\ Cardinality(S) \in Nat
  BY <1>1, FS_Subset, FS_CardinalityType
<1>3. \A S, T \in SUBSET PacketIds : S \subseteq T => Cardinality(S) <= Cardinality(T)
  BY <1>2, FS_Subset
<1>4. \A S \in SUBSET PacketIds, id \in PacketIds :
          /\ id \notin S => Cardinality(S \cup {id}) = Cardinality(S) + 1
          /\ id \in S => Cardinality(S \ {id}) = Cardinality(S) - 1
  BY <1>2, FS_AddElement, FS_RemoveElement
<1> QED
  BY <1>2, <1>3, <1>4

LEMMA ReceptionInitInv == ReceptionInit => ReceptionInv
<1> SUFFICES ASSUME ReceptionInit PROVE ReceptionInv
  OBVIOUS
<1>1. /\ peerOutgoing = [id \in PacketIds |-> NoFlow] /\ peerSeq = 0
      /\ Peer!QosTypeOK
  <2>1. /\ Peer!PacketIds = PacketIds /\ Peer!OutgoingFlow = OutgoingFlow
        /\ Peer!IncomingStates = IncomingStates /\ Peer!NoFlow = NoFlow
    BY DEF Peer!PacketIds, PacketIds, Peer!OutgoingFlow, OutgoingFlow, Peer!NoFlow, NoFlow,
       Peer!OutgoingStates, OutgoingStates, Peer!IncomingStates, IncomingStates
  <2>2. [id \in PacketIds |-> "None"] \in [PacketIds -> IncomingStates \cup {"None"}]
    OBVIOUS
  <2> QED
    BY <2>1, <2>2, NoFlowType DEF ReceptionInit, Peer!QosInit, Peer!QosTypeOK
<1>2. /\ peerStored = [id \in PacketIds |-> None] /\ peerToResend = {}
      /\ reply = NoReply /\ ownSent = 0 /\ breaks = 0 /\ ~cleanStart
      /\ toServer = << >> /\ toClient = << >>
      /\ accepted = << >> /\ copies = [m \in Messages |-> 0] /\ completed = {}
      /\ connectionState = "Disconnected"
      /\ incoming = [id \in PacketIds |-> "None"]
  BY DEF ReceptionInit, SessionInit, QosInit, Abstract!Init
<1>3. \A id \in PacketIds : /\ peerOutgoing[id].state = "None" /\ ~Peer!HasOutgoing(id)
                            /\ ~IsCharged(id) /\ ~PublishPending(id)
  BY <1>1 DEF NoFlow, Peer!HasOutgoing, IsCharged, PublishPending
<1>4. WireTypeOK
  <2>1. SessionTypeOK
    BY SessionInitType DEF ReceptionInit
  <2>2. ReceptionTypeOK
    BY <1>1, <1>2, <2>1, NoReplyType, ReceptionAssumption DEF ReceptionTypeOK
  <2> QED
    BY <1>2, <2>2, EmptySeq, ReceptionAssumption DEF WireTypeOK
<1>5. Bookkeeping
  BY <1>2, <1>3 DEF Bookkeeping
<1>6. \A id \in PacketIds : EndsAgree(id)
  BY <1>2, <1>3 DEF EndsAgree
<1>7. MessagesTracked
  BY <1>2, <1>3, EmptySeq DEF MessagesTracked, IsDelivered
<1>8. AcceptedInOrder /\ NothingLost
  BY <1>3 DEF AcceptedInOrder, NothingLost
<1>9. OnePacketPerId /\ WireOK /\ ReplyOK
  BY <1>2, EmptyQueue DEF OnePacketPerId, WireOK, ReplyOK, Requests, Answers
<1>10. ConnectionFacts
  BY <1>2, <1>3 DEF ConnectionFacts
<1>11. QuotaKept
  BY <1>2 DEF QuotaKept, IsConnected
<1> QED
  BY <1>4, <1>5, <1>6, <1>7, <1>8, <1>9, <1>10, <1>11 DEF ReceptionInv

-----------------------------------------------------------------------------
(***************************************************************************)
(* The connection                                                          *)
(***************************************************************************)

\* What does not depend on the wire is kept with the flows and the messages.
LEMMA FlowsKept ==
    ASSUME ReceptionInv,
           \A id \in PacketIds : /\ peerOutgoing'[id].state = peerOutgoing[id].state
                                 /\ peerOutgoing'[id].seq = peerOutgoing[id].seq
                                 /\ IsCharged(id)' => Peer!HasOutgoing(id),
           UNCHANGED <<peerSeq, peerStored, incoming, accepted, copies, completed>>
    PROVE  /\ Bookkeeping'
           /\ \A id \in PacketIds : EndsAgree(id)'
           /\ MessagesTracked'
           /\ AcceptedInOrder'
<1>1. Bookkeeping'
  BY DEF ReceptionInv, Bookkeeping, Peer!HasOutgoing
<1>2. \A id \in PacketIds : EndsAgree(id)'
  BY DEF ReceptionInv, EndsAgree, Peer!HasOutgoing, IsDelivered
<1>3. MessagesTracked'
  BY DEF ReceptionInv, MessagesTracked, Peer!HasOutgoing, IsDelivered, Abstract!IsAccepted
<1>4. AcceptedInOrder'
  BY DEF ReceptionInv, AcceptedInOrder, PublishPending, Earlier
<1> QED
  BY <1>1, <1>2, <1>3, <1>4

\* Without a connection there is nothing on the wire.
LEMMA Unconnected ==
    ASSUME toServer' = << >>, toClient' = << >>, reply' = NoReply, ~IsConnected'
    PROVE  OnePacketPerId' /\ WireOK' /\ ReplyOK' /\ NothingLost'
<1>1. Requests' = {} /\ Answers' = {}
  BY EmptyQueue DEF Requests, Answers
<1>2. NoReply' = NoReply
  BY DEF NoReply, Reply
<1> QED
  BY <1>1, <1>2, EmptyQueue DEF OnePacketPerId, WireOK, ReplyOK, NothingLost

LEMMA OpenInv ==
    ASSUME ReceptionInv, Open
    PROVE  ReceptionInv'
<1>1. WireTypeOK /\ ConnectionFacts /\ Bookkeeping
  BY DEF ReceptionInv
<1>2. /\ connectionState = "Disconnected" /\ connectionState' = "Connecting"
      /\ UNCHANGED <<incoming, cleanStart>> /\ incomingCount' = 0
      /\ UNCHANGED <<reply, ownSent, peerOutgoing, peerSeq, peerStored, peerToResend,
                     toServer, toClient, breaks, accepted, copies, completed>>
  BY DEF Open, ConnectSent, ResetConnectionState, QosClearQuotaCharges, FcReset, identityVars,
     clientVars, wireVars, peerVars, deliveryVars
<1>3. WireTypeOK'
  <2>1. SessionTypeOK'
    BY <1>1, FlowTypes, ConnectSentStep, SessionTypeStep DEF Open, SessionTypeOK
  <2> QED
    BY <1>1, <1>2, <2>1 DEF WireTypeOK, ReceptionTypeOK, Peer!QosTypeOK
<1>4. ~IsConnected /\ ~IsConnected'
  BY <1>2 DEF IsConnected
<1>5. toServer' = << >> /\ toClient' = << >> /\ reply' = NoReply /\ peerToResend' = {}
  BY <1>1, <1>2, <1>4 DEF ConnectionFacts
<1>6. OnePacketPerId' /\ WireOK' /\ ReplyOK' /\ NothingLost'
  BY <1>4, <1>5, Unconnected
<1>7. /\ Bookkeeping' /\ (\A id \in PacketIds : EndsAgree(id)')
      /\ MessagesTracked' /\ AcceptedInOrder'
  BY <1>1, <1>2, FlowsKept DEF Bookkeeping, IsCharged
<1>8. ConnectionFacts'
  BY <1>1, <1>2, <1>4, <1>5 DEF ConnectionFacts, Peer!HasOutgoing, NoReply, Reply
<1>9. QuotaKept'
  BY <1>2, <1>4 DEF QuotaKept
<1> QED
  BY <1>3, <1>6, <1>7, <1>8, <1>9 DEF ReceptionInv

LEMMA BreakInv ==
    ASSUME ReceptionInv, Break
    PROVE  ReceptionInv'
<1>1. WireTypeOK /\ ConnectionFacts /\ Bookkeeping
  BY DEF ReceptionInv
<1>2. /\ connectionState' = "Disconnected"
      /\ UNCHANGED <<incoming, cleanStart>>
      /\ breaks < MaxBreaks /\ breaks' = breaks + 1
      /\ toServer' = << >> /\ toClient' = << >> /\ reply' = NoReply /\ peerToResend' = {}
      /\ UNCHANGED <<ownSent, peerOutgoing, peerSeq, peerStored, accepted, copies, completed>>
  BY DEF Break, Disconnected, qosVars, identityVars, deliveryVars
<1>3. breaks \in Nat /\ breaks' \in 0..MaxBreaks /\ breaks' # 0
  BY <1>1, <1>2, ReceptionAssumption DEF WireTypeOK
<1>4. WireTypeOK'
  <2>1. SessionTypeOK'
    BY <1>1, FlowTypes, DisconnectedStep, SessionTypeStep DEF Break, SessionTypeOK
  <2> QED
    BY <1>1, <1>2, <1>3, <2>1, NoReplyType, EmptySeq
       DEF WireTypeOK, ReceptionTypeOK, Peer!QosTypeOK
<1>5. ~IsConnected'
  BY <1>2 DEF IsConnected
<1>6. OnePacketPerId' /\ WireOK' /\ ReplyOK' /\ NothingLost'
  BY <1>2, <1>5, Unconnected
<1>7. /\ Bookkeeping' /\ (\A id \in PacketIds : EndsAgree(id)')
      /\ MessagesTracked' /\ AcceptedInOrder'
  BY <1>1, <1>2, FlowsKept DEF Bookkeeping, IsCharged
<1>8. ConnectionFacts'
  BY <1>1, <1>2, <1>3, <1>5 DEF ConnectionFacts, NoReply, Reply
<1>9. QuotaKept'
  BY <1>2, <1>5 DEF QuotaKept
<1> QED
  BY <1>4, <1>6, <1>7, <1>8, <1>9 DEF ReceptionInv

LEMMA ConnackType ==
    ASSUME SessionTypeOK
    PROVE  Connack \in ConnackParams
<1>1. protocolVersion \in MqttVersions
  BY DEF SessionTypeOK, SesTypeOK
<1>2. (breaks > 0) \in BOOLEAN
  OBVIOUS
<1>3. [f \in Features |-> None] \in [Features -> BOOLEAN \cup {None}]
  OBVIOUS
<1> QED
  BY <1>1, <1>2, <1>3, Zenon DEF Connack, ConnackParams

LEMMA ConnackInv ==
    ASSUME ReceptionInv, ConnackArrives
    PROVE  ReceptionInv'
<1>1. WireTypeOK /\ ConnectionFacts /\ Bookkeeping
  BY DEF ReceptionInv
<1>2. /\ connectionState = "Connecting" /\ connectionState' = "Connected"
      /\ UNCHANGED cleanStart /\ ~cleanStart
      /\ UNCHANGED <<incomingCount, ownReceiveMaximum>>
      /\ UNCHANGED <<reply, ownSent, peerSeq, peerStored, toServer, toClient, breaks,
                     accepted, copies, completed>>
      /\ peerToResend' = {id \in PacketIds : Peer!NeedsRetransmission(id) # "None"}
  <2>1. Connack.receiveMaximum = None
    BY DEF Connack
  <2>2. UNCHANGED fcVars
    BY <2>1 DEF ConnackArrives, ApplyConnack
  <2> QED
    BY <1>1, <2>2 DEF ConnackArrives, ApplyConnack, ConnackAccepted, Connected, identityVars,
       clientVars, wireVars, deliveryVars, fcVars, Peer!QosClearQuotaCharges, ConnectionFacts
<1>3. ~IsConnected /\ IsConnected'
  BY <1>2 DEF IsConnected
<1>4. /\ peerOutgoing \in [PacketIds -> OutgoingFlow]
      /\ peerOutgoing' =
            [id \in PacketIds |-> [peerOutgoing[id] EXCEPT !.charged = FALSE]]
  <2>1. Peer!PacketIds = PacketIds
    BY DEF Peer!PacketIds, PacketIds
  <2> QED
    BY <1>1, <2>1, FlowTypes DEF ConnackArrives, Peer!QosClearQuotaCharges
<1>5. /\ peerOutgoing' \in [PacketIds -> OutgoingFlow]
      /\ \A id \in PacketIds : /\ peerOutgoing'[id].state = peerOutgoing[id].state
                               /\ peerOutgoing'[id].seq = peerOutgoing[id].seq
                               /\ ~peerOutgoing'[id].charged
  BY <1>4 DEF OutgoingFlow
<1>6. SessionTypeOK'
  BY <1>1, FlowTypes, ConnackType, ApplyConnackStep, SessionTypeStep DEF ConnackArrives
<1>7. WireTypeOK'
  <2>1. peerToResend' \subseteq PacketIds
    BY <1>2
  <2> QED
    BY <1>1, <1>2, <1>5, <1>6, <2>1, PeerTypeKept, PeerType
       DEF WireTypeOK, ReceptionTypeOK
<1>8. UNCHANGED incoming
  <2>1. Connack.sessionPresent = (breaks > 0) /\ breaks \in Nat
    BY <1>1 DEF Connack, WireTypeOK
  <2>2. CASE breaks > 0
    BY <1>2, <2>1, <2>2 DEF ConnackArrives, ApplyConnack, Connected, qosVars
  <2>3. CASE ~(breaks > 0)
    <3>1. breaks = 0
      BY <2>1, <2>3
    <3>2. ~Connack.sessionPresent
      BY <2>1, <2>3, Zenon
    <3>3. incoming' = [id \in PacketIds |-> "None"]
      BY <3>2, Zenon DEF ConnackArrives, ApplyConnack, Connected, ResetSessionState, QosReset
    <3>4. \A id \in PacketIds : incoming[id] = "None"
      BY <1>1, <1>3, <3>1 DEF ReceptionInv, ConnectionFacts, EndsAgree
    <3>5. incoming \in [PacketIds -> IncomingStates \cup {"None"}]
      BY <1>1, FlowTypes
    <3> QED
      BY <3>3, <3>4, <3>5
  <2> QED
    BY <2>2, <2>3
<1>9. /\ Bookkeeping' /\ (\A id \in PacketIds : EndsAgree(id)')
      /\ MessagesTracked' /\ AcceptedInOrder'
  BY <1>2, <1>5, <1>8, FlowsKept DEF IsCharged
<1>10. toServer' = << >> /\ toClient' = << >> /\ reply' = NoReply
  BY <1>1, <1>2, <1>3 DEF ConnectionFacts
<1>11. OnePacketPerId' /\ WireOK' /\ ReplyOK'
  BY <1>10, EmptyQueue DEF OnePacketPerId, WireOK, ReplyOK, Requests, Answers, NoReply, Reply
<1>12. \A id \in PacketIds : id \in peerToResend' <=> Peer!HasOutgoing(id)'
  BY <1>1, <1>2, <1>5, FlowTypes
     DEF Peer!NeedsRetransmission, Peer!HasOutgoing, OutgoingStates
<1>13. NothingLost'
  BY <1>12 DEF NothingLost, PublishPending, Peer!HasOutgoing
<1>14. ConnectionFacts'
  BY <1>1, <1>2, <1>3, <1>5, <1>7, <1>12
     DEF ConnectionFacts, IsCharged, WireTypeOK, ReceptionTypeOK
<1>15. QuotaKept'
  <2>1. Counted' = {} /\ ChargedFlows' = {}
    BY <1>5 DEF Counted, ChargedFlows, IsCharged
  <2>2. Cardinality({}) = 0
    BY FS_EmptySet
  <2>3. incomingCount = 0
    BY <1>2 DEF ReceptionInv, QuotaKept
  <2>4. ownReceiveMaximum \in Nat
    BY <1>1, FlowTypes
  <2> QED
    BY <1>2, <2>1, <2>2, <2>3, <2>4 DEF QuotaKept
<1> QED
  BY <1>7, <1>9, <1>11, <1>13, <1>14, <1>15 DEF ReceptionInv

-----------------------------------------------------------------------------
(***************************************************************************)
(* The client's own PUBLISHes                                              *)
(***************************************************************************)

\* A step that concerns neither the flows of the server nor their packets
LEMMA OwnStep ==
    ASSUME ReceptionInv, SessionTypeOK', ownSent' \in 0..MaxOwn,
           UNCHANGED <<incoming, incomingCount, connectionState, cleanStart, reply,
                       peerOutgoing, peerSeq, peerStored, peerToResend, breaks,
                       accepted, copies, completed>>,
           IsConnected => UNCHANGED ownReceiveMaximum,
           ~IsConnected => UNCHANGED <<toServer, toClient>>,
           toClient' \in Seq(ToClientPackets), toServer' \in Seq(ToServerPackets),
           Requests' = Requests, Answers' = Answers,
           DistinctIds(toClient', RequestTypes), DistinctIds(toServer', AnswerTypes),
           PublishesInOrder(toClient', peerOutgoing)
    PROVE  ReceptionInv'
<1>1. /\ WireTypeOK /\ Bookkeeping /\ OnePacketPerId /\ WireOK /\ ReplyOK /\ NothingLost
      /\ ConnectionFacts /\ QuotaKept
  BY DEF ReceptionInv
<1>2. WireTypeOK'
  BY <1>1, PeerType, WireTypeKept DEF WireTypeOK, ReceptionTypeOK
<1>3. /\ Bookkeeping' /\ (\A id \in PacketIds : EndsAgree(id)')
      /\ MessagesTracked' /\ AcceptedInOrder'
  BY <1>1, FlowsKept DEF Bookkeeping, IsCharged
<1>4. OnePacketPerId'
  BY <1>1 DEF OnePacketPerId, NoReply, Reply
<1>5. WireOK' /\ ReplyOK'
  BY <1>1 DEF WireOK, ReplyOK, RequestOK, AnswerOK, NoReply, Reply, PublishPending, IsCharged,
     Earlier, IsDelivered
<1>6. NothingLost'
  BY <1>1 DEF NothingLost, IsConnected, PublishPending, IsDelivered
<1>7. ConnectionFacts'
  BY <1>1 DEF ConnectionFacts, IsConnected, IsCharged, Peer!HasOutgoing, NoReply, Reply
<1>8. QuotaKept'
  <2>1. Counted' = Counted /\ ChargedFlows' = ChargedFlows
    BY DEF Counted, ChargedFlows, IsCharged
  <2> QED
    BY <1>1, <2>1 DEF QuotaKept, IsConnected
<1> QED
  BY <1>2, <1>3, <1>4, <1>5, <1>6, <1>7, <1>8 DEF ReceptionInv

\* The wire, as the invariant leaves it
LEMMA WireFacts ==
    ASSUME ReceptionInv
    PROVE  /\ toClient \in Seq(ToClientPackets) /\ toServer \in Seq(ToServerPackets)
           /\ DistinctIds(toClient, RequestTypes) /\ DistinctIds(toServer, AnswerTypes)
           /\ PublishesInOrder(toClient, peerOutgoing)
           /\ ownSent \in 0..MaxOwn /\ SessionTypeOK
           /\ ~IsConnected => toServer = << >> /\ toClient = << >>
  BY DEF ReceptionInv, WireTypeOK, ReceptionTypeOK, OnePacketPerId, WireOK, ConnectionFacts

\* An own PUBLISH is written: it is no answer to the server.
LEMMA OwnPublishWritten ==
    ASSUME ReceptionInv, NEW id \in PacketIds,
           toServer' = Append(toServer, Packet("PUBLISH", id))
    PROVE  /\ toServer' \in Seq(ToServerPackets)
           /\ Answers' = Answers
           /\ DistinctIds(toServer', AnswerTypes)
<1>1. PICK packet : packet = Packet("PUBLISH", id)
  OBVIOUS
<1>2. packet \in ToServerPackets /\ packet.type = "PUBLISH"
  BY <1>1 DEF Packet, ToServerPackets
<1>3. packet.type \notin AnswerTypes
  BY <1>2 DEF AnswerTypes
<1>4. /\ toServer' \in Seq(ToServerPackets)
      /\ Packets(toServer') = Packets(toServer) \cup {packet}
      /\ DistinctIds(toServer', AnswerTypes)
  BY <1>1, <1>2, <1>3, WireFacts, QueueAppend
<1> QED
  BY <1>3, <1>4 DEF Answers

LEMMA OwnPublishInv ==
    ASSUME ReceptionInv, NEW id \in PacketIds, OwnPublish(id) \/ OwnResend(id)
    PROVE  ReceptionInv'
<1>1. /\ IsConnected
      /\ toServer' = Append(toServer, Packet("PUBLISH", id))
      /\ ComponentStep /\ UNCHANGED sesVars
      /\ UNCHANGED <<incoming, incomingCount, ownReceiveMaximum>>
      /\ UNCHANGED <<reply, peerOutgoing, peerSeq, peerStored, peerToResend, toClient,
                     breaks, accepted, copies, completed>>
      /\ ownSent' \in 0..MaxOwn
  <2>1. CASE OwnPublish(id)
    <3>1. ownSent' \in 0..MaxOwn
      BY <2>1, WireFacts, ReceptionAssumption DEF OwnPublish
    <3>2. UNCHANGED <<incoming, incomingCount, ownReceiveMaximum>>
      BY <2>1 DEF OwnPublish, FcPublishSent, QosPublishSent, fcReceiveVars
    <3>3. ComponentStep
      BY <2>1 DEF OwnPublish, ComponentStep, PidNext, FcNext, QosNext
    <3> QED
      BY <2>1, <3>1, <3>2, <3>3 DEF OwnPublish, peerVars, deliveryVars
  <2>2. CASE OwnResend(id)
    <3>1. ResendPublish(id) /\ ~outgoing[id].charged
      BY <2>2 DEF OwnResend
    <3>2. FcPublishSent /\ QosMarkQuotaCharged(id)
          /\ UNCHANGED <<pidVars, subVars, kaVars, authVars, sesVars>>
      BY <3>1 DEF ResendPublish
    <3>3. UNCHANGED <<incoming, incomingCount, ownReceiveMaximum>> /\ ComponentStep
      BY <3>2 DEF FcPublishSent, QosMarkQuotaCharged, fcReceiveVars, ComponentStep,
         FcNext, QosNext
    <3> QED
      BY <2>2, <3>2, <3>3, WireFacts DEF OwnResend, clientVars, peerVars, deliveryVars
  <2> QED
    BY <2>1, <2>2
<1>2. SessionTypeOK'
  BY <1>1, WireFacts, SessionTypeKept
<1>3. /\ toServer' \in Seq(ToServerPackets)
      /\ Answers' = Answers
      /\ DistinctIds(toServer', AnswerTypes)
  BY <1>1, OwnPublishWritten
<1>4. Requests' = Requests /\ UNCHANGED <<connectionState, cleanStart>>
  BY <1>1 DEF Requests, sesVars
<1> QED
  BY <1>1, <1>2, <1>3, <1>4, WireFacts, OwnStep

\* A packet of the client's own flows at the head of the line to the client
LEMMA ClientPubackInv ==
    ASSUME ReceptionInv, ClientReceivesPuback
    PROVE  ReceptionInv'
<1>1. /\ IsConnected /\ toClient # << >> /\ Head(toClient).type = "PUBACK"
      /\ toClient' = Tail(toClient)
  BY DEF ClientReceivesPuback, Takes
<1>2. /\ Tail(toClient) \in Seq(ToClientPackets)
      /\ Packets(toClient) = Packets(Tail(toClient)) \cup {Head(toClient)}
      /\ DistinctIds(Tail(toClient), RequestTypes)
  BY <1>1, WireFacts, QueueTail
<1>3. PublishesInOrder(Tail(toClient), peerOutgoing)
  BY <1>1, WireFacts, InOrderTail
<1>4. "PUBACK" \notin RequestTypes
  BY DEF RequestTypes
<1>5. Requests' = Requests
  BY <1>1, <1>2, <1>4 DEF Requests
<1>6. PICK id : id = Head(toClient).id
  OBVIOUS
<1>7. id \in PacketIds
  BY <1>2, <1>6, PacketTypes DEF ReceptionInv
<1>8. /\ HandlePuback(id)
      /\ UNCHANGED <<reply, ownSent, peerOutgoing, peerSeq, peerStored, peerToResend, toServer,
                     breaks, accepted, copies, completed>>
  BY <1>6 DEF ClientReceivesPuback, clientVars, peerVars, deliveryVars
<1>9. /\ ComponentStep /\ UNCHANGED sesVars
      /\ UNCHANGED <<incoming, incomingCount, ownReceiveMaximum>>
  BY <1>7, <1>8 DEF HandlePuback, QosPubackReceived, FlowEnded, FcPublishAcked, fcReceiveVars,
     fcVars, ComponentStep, PidNext, FcNext, QosNext
<1>10. SessionTypeOK'
  BY <1>9, WireFacts, SessionTypeKept
<1>11. Answers' = Answers /\ UNCHANGED <<connectionState, cleanStart>>
  BY <1>8, <1>9 DEF Answers, sesVars
<1> QED
  BY <1>1, <1>2, <1>3, <1>5, <1>8, <1>9, <1>10, <1>11, WireFacts, OwnStep

LEMMA ServerPublishInv ==
    ASSUME ReceptionInv, ServerReceivesPublish
    PROVE  ReceptionInv'
<1>1. /\ toServer # << >> /\ Head(toServer).type = "PUBLISH" /\ toServer' = Tail(toServer)
      /\ toClient' = Append(toClient, Packet("PUBACK", Head(toServer).id))
      /\ UNCHANGED sessionVars
      /\ UNCHANGED <<reply, ownSent, peerOutgoing, peerSeq, peerStored, peerToResend, breaks,
                     accepted, copies, completed>>
  BY DEF ServerReceivesPublish, clientVars, peerVars, deliveryVars
<1>2. /\ Tail(toServer) \in Seq(ToServerPackets)
      /\ Packets(toServer) = Packets(Tail(toServer)) \cup {Head(toServer)}
      /\ DistinctIds(Tail(toServer), AnswerTypes)
  BY <1>1, WireFacts, QueueTail
<1>3. "PUBLISH" \notin AnswerTypes /\ "PUBACK" \notin RequestTypes /\ "PUBACK" # "PUBLISH"
  BY DEF RequestTypes, AnswerTypes
<1>4. Answers' = Answers
  BY <1>1, <1>2, <1>3 DEF Answers
<1>5. PICK packet : packet = Packet("PUBACK", Head(toServer).id)
  OBVIOUS
<1>6. packet \in ToClientPackets /\ packet.type = "PUBACK"
  <2>1. Head(toServer).id \in PacketIds
    BY <1>2, PacketTypes DEF ReceptionInv
  <2> QED
    BY <1>5, <2>1 DEF Packet, ToClientPackets
<1>7. /\ toClient' \in Seq(ToClientPackets)
      /\ Packets(toClient') = Packets(toClient) \cup {packet}
      /\ DistinctIds(toClient', RequestTypes)
  BY <1>1, <1>3, <1>5, <1>6, WireFacts, QueueAppend
<1>8. PublishesInOrder(toClient', peerOutgoing)
  BY <1>1, <1>3, <1>5, <1>6, WireFacts, InOrderAppend
<1>9. Requests' = Requests
  BY <1>3, <1>6, <1>7 DEF Requests
<1>10. /\ UNCHANGED sesVars /\ ComponentStep
       /\ UNCHANGED <<incoming, incomingCount, ownReceiveMaximum, connectionState, cleanStart>>
  BY <1>1 DEF sessionVars, sesVars, qosVars, fcVars, ComponentStep
<1>11. SessionTypeOK'
  BY <1>10, WireFacts, SessionTypeKept
<1> QED
  BY <1>1, <1>2, <1>4, <1>7, <1>8, <1>9, <1>10, <1>11, WireFacts, OwnStep

LEMMA StutterInv ==
    ASSUME ReceptionInv, UNCHANGED vars
    PROVE  ReceptionInv'
<1>1. UNCHANGED sessionVars
      /\ UNCHANGED <<reply, ownSent, peerOutgoing, peerSeq, peerStored, peerToResend, toServer,
                     toClient, breaks, accepted, copies, completed>>
  BY DEF vars, clientVars, wireVars, peerVars, deliveryVars
<1>2. /\ UNCHANGED sesVars /\ ComponentStep
      /\ UNCHANGED <<incoming, incomingCount, ownReceiveMaximum, connectionState, cleanStart>>
  BY <1>1 DEF sessionVars, sesVars, qosVars, fcVars, ComponentStep
<1>3. SessionTypeOK'
  BY <1>2, WireFacts, SessionTypeKept
<1>4. Requests' = Requests /\ Answers' = Answers
  BY <1>1 DEF Requests, Answers
<1> QED
  BY <1>1, <1>2, <1>3, <1>4, WireFacts, OwnStep

\* configure_for_connect, between two connections
LEMMA ConfigureInv ==
    ASSUME ReceptionInv, NEW max \in OwnMaxima, Configure(max)
    PROVE  ReceptionInv'
<1>1. max \in 0..U16Max /\ max # 0 /\ max \in 1..U16Max
  BY ReceptionAssumption, U16MaxAssumption
<1>2. /\ connectionState = "Disconnected"
      /\ KaSetKeepAlive(0) /\ sessionExpiryInterval' = 0 /\ ownMaximum' = 0
      /\ FcSetOwnReceiveMaximum(max) /\ UNCHANGED maxPacketSize
      /\ UNCHANGED <<pidVars, qosVars, subVars, authVars, peerMaximum,
                     identityVars, connectionState, clientIdEmpty, serverCapabilities>>
      /\ UNCHANGED <<reply, ownSent, peerOutgoing, peerSeq, peerStored, peerToResend, toServer,
                     toClient, breaks, accepted, copies, completed>>
  BY <1>1 DEF Configure, ConfigureForConnect, clientVars, wireVars, peerVars, deliveryVars
<1>3. UNCHANGED <<incoming, incomingCount, connectionState, cleanStart>> /\ ~IsConnected
  BY <1>2 DEF qosVars, FcSetOwnReceiveMaximum, identityVars, IsConnected
<1>4. SessionTypeOK'
  <2>1. 0 \in 0..U16Max
    BY U16MaxAssumption
  <2>2. ComponentStep
    BY <1>1, <1>2, <2>1 DEF ComponentStep, KaNext, FcNext
  <2>3. SesTypeOK
    BY WireFacts DEF SessionTypeOK
  <2>4. SesTypeOK'
    BY <1>2, <2>1, <2>3 DEF SesTypeOK, identityVars
  <2> QED
    BY <2>2, <2>4, WireFacts, SessionTypeStep
<1>5. Requests' = Requests /\ Answers' = Answers
  BY <1>2 DEF Requests, Answers
<1> QED
  BY <1>2, <1>3, <1>4, <1>5, WireFacts, OwnStep

-----------------------------------------------------------------------------
(***************************************************************************)
(* The server                                                              *)
(***************************************************************************)

\* The server sends the packet of a flow that has nothing under way.
LEMMA RequestSent ==
    ASSUME ReceptionInv, NEW id \in PacketIds, NEW packet \in ToClientPackets,
           packet.id = id, packet.type \in RequestTypes,
           IsConnected,
           UNCHANGED <<incoming, incomingCount, ownReceiveMaximum, connectionState, cleanStart,
                       reply, breaks, copies>>,
           \A j \in PacketIds : j # id =>
               peerOutgoing'[j] = peerOutgoing[j] /\ peerStored'[j] = peerStored[j],
           peerToResend' = peerToResend \ {id},
           toClient' = Append(toClient, packet),
           Answers' \subseteq Answers, DistinctIds(toServer', AnswerTypes),
           \A p \in Requests : p.id # id,
           \A a \in Answers' : a.id # id,
           reply # NoReply => reply.id # id,
           RequestOK(packet)',
           packet.type = "PUBLISH" =>
               \A p \in Requests : p.type = "PUBLISH" =>
                   peerOutgoing[p.id].seq < peerOutgoing'[id].seq,
           IsCharged(id) => IsCharged(id)' /\ packet.type = "PUBREL",
           IsCharged(id)' /\ ~IsCharged(id) => Cardinality(ChargedFlows) < ownReceiveMaximum
    PROVE  /\ toClient' \in Seq(ToClientPackets)
           /\ OnePacketPerId' /\ WireOK' /\ ReplyOK' /\ NothingLost'
           /\ ConnectionFacts' /\ QuotaKept'
<1>1. /\ WireTypeOK /\ Bookkeeping /\ OnePacketPerId /\ WireOK /\ ReplyOK /\ NothingLost
      /\ ConnectionFacts /\ QuotaKept
  BY DEF ReceptionInv
<1>2. /\ toClient' \in Seq(ToClientPackets)
      /\ Packets(toClient') = Packets(toClient) \cup {packet}
      /\ DistinctIds(toClient', RequestTypes)
  <2>1. \A p \in Packets(toClient) : p.type \in RequestTypes => p.id # packet.id
    BY DEF Requests
  <2> QED
    BY <2>1, WireFacts, QueueAppend
<1>3. Requests' = Requests \cup {packet}
  BY <1>2 DEF Requests
<1>4. /\ \A p \in Requests : p.id \in PacketIds /\ p.id # id
      /\ \A a \in Answers' : a \in Answers /\ a.id \in PacketIds /\ a.id # id
      /\ reply # NoReply => reply.id \in PacketIds /\ reply.id # id
      /\ peerToResend \subseteq PacketIds
  BY <1>1, PacketTypes DEF Requests, Answers, ReplyOK, WireTypeOK, ReceptionTypeOK
<1>5. OnePacketPerId'
  BY <1>1, <1>2, <1>3, <1>4 DEF OnePacketPerId, NoReply, Reply
<1>6. PublishesInOrder(toClient', peerOutgoing')
  <2>1. PublishesInOrder(toClient, peerOutgoing')
    <3>1. \A p \in Packets(toClient) : p.type = "PUBLISH" =>
              peerOutgoing'[p.id].seq = peerOutgoing[p.id].seq
      BY <1>4 DEF Requests, RequestTypes
    <3> QED
      BY <3>1, WireFacts, InOrderKept
  <2>2. packet.type = "PUBLISH" =>
            \A p \in Packets(toClient) : p.type = "PUBLISH" =>
                peerOutgoing'[p.id].seq < peerOutgoing'[packet.id].seq
    BY <1>4 DEF Requests, RequestTypes
  <2> QED
    BY <2>1, <2>2, WireFacts, InOrderAppend
<1>7. ASSUME NEW p \in Requests PROVE RequestOK(p)'
  BY <1>1, <1>4 DEF WireOK, RequestOK, PublishPending, IsCharged, Earlier
<1>8. ASSUME NEW a, a.id \in PacketIds, a.id # id, AnswerOK(a) PROVE AnswerOK(a)'
  BY <1>8 DEF AnswerOK, IsDelivered
<1>9. WireOK'
  BY <1>1, <1>3, <1>4, <1>6, <1>7, <1>8 DEF WireOK
<1>10. ReplyOK'
  <2>1. PICK r : r = reply
    OBVIOUS
  <2>2. r # NoReply => AnswerOK(r)'
    BY <1>1, <1>4, <1>8, <2>1 DEF ReplyOK
  <2>3. reply # NoReply => AnswerOK(reply)'
    BY <2>1, <2>2 DEF AnswerOK
  <2> QED
    BY <1>1, <1>4, <2>3 DEF ReplyOK, IsCharged, NoReply, Reply
<1>11. NothingLost'
  <2> SUFFICES ASSUME NEW j \in PacketIds, PublishPending(j)', ~IsDelivered(peerStored[j])'
               PROVE  \/ j \in peerToResend'
                      \/ \E p \in Requests' : p.type = "PUBLISH" /\ p.id = j
    BY DEF NothingLost
  <2>1. CASE j = id
    BY <1>3, <2>1 DEF RequestOK, RequestTypes, PublishPending
  <2>2. CASE j # id
    BY <1>1, <1>3, <2>2 DEF NothingLost, PublishPending, IsDelivered
  <2> QED
    BY <2>1, <2>2
<1>12. ConnectionFacts'
  BY <1>1, <1>4 DEF ConnectionFacts, IsConnected, IsCharged, Peer!HasOutgoing
<1>13. QuotaKept'
  <2>1. \A j \in PacketIds : j # id => (IsCharged(j)' <=> IsCharged(j))
    BY DEF IsCharged
  <2>2. Counted \subseteq Counted'
    <3> SUFFICES ASSUME NEW j \in Counted PROVE j \in Counted'
      OBVIOUS
    <3>1. CASE j = id
      BY <1>3, <1>4, <3>1 DEF Counted
    <3>2. CASE j # id
      BY <1>3, <1>4, <2>1, <3>2 DEF Counted
    <3> QED
      BY <3>1, <3>2
  <2>3. Counted \in SUBSET PacketIds /\ Counted' \in SUBSET PacketIds
        /\ ChargedFlows \in SUBSET PacketIds
    BY DEF Counted, ChargedFlows
  <2>4. Cardinality(Counted) <= Cardinality(Counted')
        /\ Cardinality(Counted) \in Nat /\ Cardinality(Counted') \in Nat
        /\ Cardinality(ChargedFlows) \in Nat
    BY <2>2, <2>3, FlowSets
  <2>5. incomingCount \in Nat /\ ownReceiveMaximum \in Nat
    BY <1>1, FlowTypes
  <2>6. incomingCount' <= Cardinality(Counted')
    BY <1>1, <2>4, <2>5 DEF QuotaKept
  <2>7. Cardinality(ChargedFlows') <= ownReceiveMaximum
    <3>1. CASE IsCharged(id)' /\ ~IsCharged(id)
      <4>1. ChargedFlows' = ChargedFlows \cup {id} /\ id \notin ChargedFlows
        BY <2>1, <3>1 DEF ChargedFlows
      <4>2. Cardinality(ChargedFlows') = Cardinality(ChargedFlows) + 1
        BY <2>3, <4>1, FlowSets
      <4> QED
        BY <2>4, <2>5, <3>1, <4>2
    <3>2. CASE ~(IsCharged(id)' /\ ~IsCharged(id))
      <4>1. ChargedFlows' = ChargedFlows
        BY <2>1, <3>2 DEF ChargedFlows
      <4> QED
        BY <1>1, <4>1 DEF QuotaKept
    <3> QED
      BY <3>1, <3>2
  <2> QED
    BY <2>6, <2>7 DEF QuotaKept, IsConnected
<1> QED
  BY <1>2, <1>5, <1>9, <1>10, <1>11, <1>12, <1>13

\* The flows that have a packet under way, and what the server may still send
LEMMA UnderWay ==
    ASSUME ReceptionInv
    PROVE  /\ \A p \in Requests : Peer!HasOutgoing(p.id) /\ p.id \notin peerToResend
           /\ \A a \in Answers : Peer!HasOutgoing(a.id) /\ a.id \notin peerToResend
           /\ reply # NoReply => Peer!HasOutgoing(reply.id) /\ reply.id \notin peerToResend
           /\ Peer!ChargedIds = ChargedFlows
<1>1. WireOK /\ ReplyOK
  BY DEF ReceptionInv
<1>2. Peer!ChargedIds = ChargedFlows
  BY DEF Peer!ChargedIds, ChargedFlows, IsCharged, Peer!PacketIds, PacketIds
<1>3. \A p \in Requests : Peer!HasOutgoing(p.id) /\ p.id \notin peerToResend
  BY <1>1 DEF WireOK, RequestOK, Requests, RequestTypes, Peer!HasOutgoing, PublishPending
<1>4. \A a \in Answers : Peer!HasOutgoing(a.id) /\ a.id \notin peerToResend
  BY <1>1 DEF WireOK, AnswerOK, Answers, AnswerTypes, Peer!HasOutgoing
<1>5. reply # NoReply => Peer!HasOutgoing(reply.id) /\ reply.id \notin peerToResend
  BY <1>1 DEF ReplyOK, AnswerOK, AnswerTypes, Peer!HasOutgoing
<1> QED
  BY <1>2, <1>3, <1>4, <1>5

LEMMA ServerResendsInv ==
    ASSUME ReceptionInv, NEW id \in PacketIds, ServerResends(id)
    PROVE  ReceptionInv'
<1>1. WireTypeOK /\ Bookkeeping /\ WireOK /\ ConnectionFacts
  BY DEF ReceptionInv
<1>2. /\ IsConnected /\ id \in peerToResend
      /\ \A j \in peerToResend \ {id} : Peer!ResendBefore(id, j)
      /\ peerToResend' = peerToResend \ {id}
      /\ UNCHANGED sessionVars
      /\ UNCHANGED <<reply, ownSent, peerSeq, peerStored, toServer, breaks,
                     accepted, copies, completed>>
  BY DEF ServerResends, clientVars, deliveryVars, Peer!QosMarkQuotaCharged
<1>3. Peer!HasOutgoing(id) /\ ~IsCharged(id) /\ peerToResend \subseteq PacketIds
  BY <1>1, <1>2 DEF ConnectionFacts, WireTypeOK, ReceptionTypeOK
<1>4. peerStored[id] \in Messages
  BY <1>1, <1>3, FlowTypes DEF Bookkeeping
<1>5. PICK packet \in ToClientPackets :
         /\ toClient' = Append(toClient, packet) /\ packet.id = id
         /\ \/ /\ packet.type = "PUBLISH" /\ packet.message = peerStored[id]
               /\ PublishPending(id)
               /\ Cardinality(ChargedFlows) < ownReceiveMaximum
               /\ peerOutgoing' = [peerOutgoing EXCEPT ![id].charged = TRUE]
            \/ /\ packet.type = "PUBREL" /\ peerOutgoing[id].state = "AwaitingPubcomp"
               /\ UNCHANGED peerOutgoing
  <2>1. CASE /\ Peer!NeedsRetransmission(id) = "ResendPublish" /\ PeerMaySend
             /\ Peer!QosMarkQuotaCharged(id)
             /\ toClient' = Append(toClient, PublishPacket(id, peerStored[id]))
    <3>1. PublishPending(id)
      BY <2>1 DEF Peer!NeedsRetransmission, PublishPending
    <3>2. Cardinality(ChargedFlows) < ownReceiveMaximum
      BY <2>1, UnderWay DEF PeerMaySend
    <3>3. peerOutgoing' = [peerOutgoing EXCEPT ![id].charged = TRUE]
      BY <1>3, <2>1 DEF Peer!QosMarkQuotaCharged
    <3>4. /\ PublishPacket(id, peerStored[id]) \in ToClientPackets
          /\ PublishPacket(id, peerStored[id]).type = "PUBLISH"
          /\ PublishPacket(id, peerStored[id]).id = id
          /\ PublishPacket(id, peerStored[id]).message = peerStored[id]
      BY <1>4 DEF PublishPacket, ToClientPackets, RequestTypes
    <3> QED
      BY <2>1, <3>1, <3>2, <3>3, <3>4
  <2>2. CASE /\ Peer!NeedsRetransmission(id) = "ResendPubrel"
             /\ toClient' = Append(toClient, Packet("PUBREL", id))
             /\ UNCHANGED <<peerOutgoing, peerSeq>>
    <3>1. peerOutgoing[id].state = "AwaitingPubcomp"
      BY <2>2 DEF Peer!NeedsRetransmission
    <3>2. /\ Packet("PUBREL", id) \in ToClientPackets
          /\ Packet("PUBREL", id).type = "PUBREL" /\ Packet("PUBREL", id).id = id
      BY DEF Packet, ToClientPackets, RequestTypes
    <3> QED
      BY <2>2, <3>1, <3>2
  <2> QED
    BY <2>1, <2>2 DEF ServerResends
<1>6. /\ peerOutgoing \in [PacketIds -> OutgoingFlow]
      /\ peerOutgoing' \in [PacketIds -> OutgoingFlow]
      /\ \A j \in PacketIds : /\ peerOutgoing'[j].state = peerOutgoing[j].state
                              /\ peerOutgoing'[j].seq = peerOutgoing[j].seq
                              /\ peerOutgoing[j].seq \in Nat
                              /\ j # id => peerOutgoing'[j] = peerOutgoing[j]
      /\ packet.type = "PUBLISH" => peerOutgoing'[id].charged
      /\ packet.type = "PUBREL" => ~peerOutgoing'[id].charged
  <2>1. peerOutgoing \in [PacketIds -> OutgoingFlow]
        /\ \A j \in PacketIds : peerOutgoing[j].seq \in Nat
    BY <1>1, FlowTypes
  <2>2. CASE UNCHANGED peerOutgoing /\ packet.type = "PUBREL"
    BY <1>3, <2>1, <2>2 DEF IsCharged
  <2>3. CASE /\ peerOutgoing' = [peerOutgoing EXCEPT ![id].charged = TRUE]
             /\ packet.type = "PUBLISH"
    BY <2>1, <2>3 DEF OutgoingFlow
  <2> QED
    BY <1>5, <2>2, <2>3
<1>7. /\ UNCHANGED <<incoming, incomingCount, ownReceiveMaximum, connectionState, cleanStart>>
      /\ UNCHANGED sesVars /\ ComponentStep /\ Answers' = Answers
  BY <1>2 DEF sessionVars, qosVars, fcVars, sesVars, ComponentStep, Answers
<1>8. /\ Bookkeeping' /\ (\A j \in PacketIds : EndsAgree(j)')
      /\ MessagesTracked' /\ AcceptedInOrder'
  <2>1. \A j \in PacketIds : IsCharged(j)' => Peer!HasOutgoing(j)
    BY <1>1, <1>3, <1>6 DEF Bookkeeping, IsCharged
  <2> QED
    BY <1>2, <1>6, <1>7, <2>1, FlowsKept
<1>9. /\ \A p \in Requests : p.id # id
      /\ \A a \in Answers : a.id # id
      /\ reply # NoReply => reply.id # id
  BY <1>2, UnderWay
<1>10. \A j \in peerToResend \ {id} : Earlier(id, j)
  <2> SUFFICES ASSUME NEW j \in peerToResend \ {id} PROVE Earlier(id, j)
    OBVIOUS
  <2>1. Peer!HasOutgoing(j) /\ j \in PacketIds
    BY <1>1, <1>3 DEF ConnectionFacts
  <2>2. peerOutgoing[id].seq # peerOutgoing[j].seq
    BY <1>1, <1>3, <2>1 DEF Bookkeeping
  <2> QED
    BY <1>2, <2>2 DEF Peer!ResendBefore, Earlier
<1>11. packet.type \in RequestTypes /\ RequestOK(packet)'
  <2>1. \A j \in peerToResend' : peerOutgoing'[id].seq < peerOutgoing'[j].seq
    BY <1>2, <1>3, <1>6, <1>10 DEF Earlier
  <2>2. id \notin peerToResend'
    BY <1>2
  <2>3. CASE packet.type = "PUBLISH"
    <3>1. PublishPending(id) /\ packet.message = peerStored[id]
      BY <1>5, <2>3
    <3> QED
      BY <1>2, <1>5, <1>6, <2>1, <2>2, <2>3, <3>1
         DEF RequestOK, RequestTypes, PublishPending, IsCharged, Earlier
  <2>4. CASE packet.type = "PUBREL"
    BY <1>5, <1>6, <2>2, <2>4 DEF RequestOK, RequestTypes, IsCharged
  <2> QED
    BY <1>5, <2>3, <2>4
<1>12. packet.type = "PUBLISH" =>
           \A p \in Requests : p.type = "PUBLISH" =>
               peerOutgoing[p.id].seq < peerOutgoing'[id].seq
  BY <1>1, <1>2, <1>6 DEF WireOK, RequestOK, Earlier
<1>13. /\ toClient' \in Seq(ToClientPackets)
       /\ OnePacketPerId' /\ WireOK' /\ ReplyOK' /\ NothingLost'
       /\ ConnectionFacts' /\ QuotaKept'
  <2>1. DistinctIds(toServer', AnswerTypes)
    BY <1>2, WireFacts
  <2>2. IsCharged(id)' => Cardinality(ChargedFlows) < ownReceiveMaximum
    BY <1>5, <1>6 DEF IsCharged
  <2> QED
    BY <1>2, <1>3, <1>5, <1>6, <1>7, <1>9, <1>11, <1>12, <2>1, <2>2, RequestSent
<1>14. WireTypeOK'
  <2>1. SessionTypeOK'
    BY <1>7, WireFacts, SessionTypeKept
  <2>2. peerToResend' \subseteq PacketIds
    BY <1>2, <1>3
  <2> QED
    BY <1>1, <1>2, <1>6, <1>13, <2>1, <2>2, PeerType, WireTypeKept
       DEF WireTypeOK, ReceptionTypeOK
<1> QED
  BY <1>8, <1>13, <1>14 DEF ReceptionInv

LEMMA AcceptedAppend ==
    ASSUME accepted \in Seq(Messages), NEW m \in Messages,
           accepted' = Append(accepted, m)
    PROVE  /\ accepted' \in Seq(Messages)
           /\ Len(accepted) \in Nat /\ Len(accepted') = Len(accepted) + 1
           /\ \A i \in 1..Len(accepted) :
                 accepted'[i] = accepted[i] /\ Abstract!IsAccepted(accepted[i])
           /\ accepted'[Len(accepted) + 1] = m
           /\ \A x : Abstract!IsAccepted(x)' <=> Abstract!IsAccepted(x) \/ x = m
<1>1. /\ accepted' \in Seq(Messages)
      /\ Len(accepted) \in Nat /\ Len(accepted') = Len(accepted) + 1
      /\ \A i \in 1..Len(accepted) : accepted'[i] = accepted[i]
      /\ accepted'[Len(accepted) + 1] = m
  BY AppendProperties, LenProperties
<1>2. DOMAIN accepted = 1..Len(accepted) /\ DOMAIN accepted' = 1..Len(accepted')
  BY <1>1, LenProperties
<1>3. \A k \in 1..(Len(accepted) + 1) : k \in 1..Len(accepted) \/ k = Len(accepted) + 1
  BY <1>1
<1>4. Len(accepted) + 1 \in 1..(Len(accepted) + 1)
      /\ \A k \in 1..Len(accepted) : k \in 1..(Len(accepted) + 1)
  BY <1>1
<1>5. ASSUME NEW x PROVE Abstract!IsAccepted(x)' <=> Abstract!IsAccepted(x) \/ x = m
  BY <1>1, <1>2, <1>3, <1>4 DEF Abstract!IsAccepted
<1>6. \A i \in 1..Len(accepted) : Abstract!IsAccepted(accepted[i])
  BY <1>2 DEF Abstract!IsAccepted
<1> QED
  BY <1>1, <1>5, <1>6

LEMMA ServerPublishesInv ==
    ASSUME ReceptionInv, NEW m \in Messages, NEW id \in PacketIds, ServerPublishes(m, id)
    PROVE  ReceptionInv'
<1>1. /\ WireTypeOK /\ Bookkeeping /\ EndsAgree(id) /\ MessagesTracked /\ AcceptedInOrder
      /\ WireOK /\ ConnectionFacts
  BY DEF ReceptionInv
<1>2. /\ IsConnected /\ peerToResend = {} /\ Cardinality(ChargedFlows) < ownReceiveMaximum
      /\ ~Abstract!IsAccepted(m) /\ ~Peer!HasOutgoing(id)
      /\ peerStored' = [peerStored EXCEPT ![id] = m]
      /\ toClient' = Append(toClient, PublishPacket(id, m))
      /\ accepted' = Append(accepted, m)
      /\ UNCHANGED sessionVars
      /\ UNCHANGED <<reply, ownSent, peerToResend, toServer, breaks, copies, completed>>
  BY UnderWay DEF ServerPublishes, PeerMaySend, clientVars
<1>3. PICK flow \in OutgoingFlow :
         /\ peerOutgoing' = [peerOutgoing EXCEPT ![id] = flow] /\ peerSeq' = peerSeq + 1
         /\ flow.seq = peerSeq /\ flow.charged
         /\ flow.state = IF m \in OnceMessages THEN "AwaitingPubrec" ELSE "AwaitingPuback"
  <2>1. PICK flow :
            /\ flow = [state |-> IF QosOf(m) = "AtLeastOnce" THEN "AwaitingPuback"
                                                            ELSE "AwaitingPubrec",
                       seq |-> peerSeq, charged |-> TRUE]
            /\ peerOutgoing' = [peerOutgoing EXCEPT ![id] = flow] /\ peerSeq' = peerSeq + 1
    BY <1>2 DEF ServerPublishes, Peer!QosPublishSent
  <2>2. flow.state = IF m \in OnceMessages THEN "AwaitingPubrec" ELSE "AwaitingPuback"
    BY <2>1 DEF QosOf
  <2>3. flow \in OutgoingFlow /\ flow.seq = peerSeq /\ flow.charged
    BY <1>1, <2>1, FlowTypes DEF OutgoingFlow, OutgoingStates
  <2> QED
    BY <2>1, <2>2, <2>3
<1>4. /\ peerOutgoing \in [PacketIds -> OutgoingFlow] /\ peerSeq \in Nat
      /\ peerStored \in [PacketIds -> Messages \cup {None}]
      /\ \A j \in PacketIds : peerOutgoing[j].seq \in Nat
  BY <1>1, FlowTypes
<1>5. /\ peerOutgoing' \in [PacketIds -> OutgoingFlow] /\ peerSeq' \in Nat
      /\ peerStored' \in [PacketIds -> Messages \cup {None}]
      /\ peerOutgoing'[id] = flow /\ peerStored'[id] = m
      /\ \A j \in PacketIds : j # id =>
            peerOutgoing'[j] = peerOutgoing[j] /\ peerStored'[j] = peerStored[j]
  BY <1>2, <1>3, <1>4
<1>6. /\ UNCHANGED <<incoming, incomingCount, ownReceiveMaximum, connectionState, cleanStart>>
      /\ UNCHANGED sesVars /\ ComponentStep /\ Answers' = Answers
  BY <1>2 DEF sessionVars, qosVars, fcVars, sesVars, ComponentStep, Answers
<1>7. /\ ~IsCharged(id) /\ peerStored[id] = None /\ incoming[id] = "None"
      /\ m # None /\ ~IsDelivered(m) /\ m \notin completed
  BY <1>1, <1>2, ReceptionAssumption DEF Bookkeeping, EndsAgree, MessagesTracked
<1>8. /\ accepted' \in Seq(Messages)
      /\ Len(accepted) \in Nat /\ Len(accepted') = Len(accepted) + 1
      /\ \A i \in 1..Len(accepted) :
            accepted'[i] = accepted[i] /\ Abstract!IsAccepted(accepted[i])
      /\ accepted'[Len(accepted) + 1] = m
      /\ \A x : Abstract!IsAccepted(x)' <=> Abstract!IsAccepted(x) \/ x = m
  BY <1>1, <1>2, AcceptedAppend DEF WireTypeOK
<1>9. /\ Peer!HasOutgoing(id)' /\ PublishPending(id)' /\ IsCharged(id)'
      /\ \A j \in PacketIds : j # id =>
            /\ Peer!HasOutgoing(j)' <=> Peer!HasOutgoing(j)
            /\ PublishPending(j)' <=> PublishPending(j)
            /\ IsCharged(j)' <=> IsCharged(j)
            /\ Peer!HasOutgoing(j) => peerStored[j] # m
  <2>1. \A j \in PacketIds : Peer!HasOutgoing(j) => peerStored[j] # m
    BY <1>1, <1>2 DEF MessagesTracked
  <2> QED
    BY <1>3, <1>5, <2>1 DEF Peer!HasOutgoing, PublishPending, IsCharged
<1>10. Bookkeeping'
  <2>1. \A j \in PacketIds : /\ peerStored'[j] # None <=> Peer!HasOutgoing(j)'
                             /\ IsCharged(j)' => Peer!HasOutgoing(j)'
    BY <1>1, <1>5, <1>7, <1>9 DEF Bookkeeping
  <2>2. \A j \in PacketIds : Peer!HasOutgoing(j)' => peerOutgoing'[j].seq < peerSeq'
    BY <1>1, <1>3, <1>4, <1>5, <1>9 DEF Bookkeeping
  <2>3. ASSUME NEW i \in PacketIds, NEW j \in PacketIds, i # j,
               Peer!HasOutgoing(i)', Peer!HasOutgoing(j)'
        PROVE  peerStored'[i] # peerStored'[j] /\ peerOutgoing'[i].seq # peerOutgoing'[j].seq
    <3>1. \A k \in PacketIds : k # id /\ Peer!HasOutgoing(k) =>
              /\ peerStored'[k] # peerStored'[id]
              /\ peerOutgoing'[k].seq # peerOutgoing'[id].seq
      BY <1>1, <1>3, <1>4, <1>5, <1>9 DEF Bookkeeping
    <3> QED
      BY <1>1, <1>5, <1>9, <2>3, <3>1 DEF Bookkeeping
  <2> QED
    BY <2>1, <2>2, <2>3 DEF Bookkeeping
<1>11. ASSUME NEW j \in PacketIds PROVE EndsAgree(j)'
  <2>1. EndsAgree(j)
    BY DEF ReceptionInv
  <2>2. CASE j = id
    BY <1>2, <1>3, <1>5, <1>6, <1>7, <1>9, <2>2 DEF EndsAgree, IsDelivered
  <2>3. CASE j # id
    BY <1>2, <1>5, <1>6, <1>9, <2>1, <2>3 DEF EndsAgree, IsDelivered
  <2> QED
    BY <2>2, <2>3
<1>12. MessagesTracked'
  <2>1. ASSUME NEW i \in 1..Len(accepted')
        PROVE  IsDelivered(accepted[i])' \/ \E j \in PacketIds : peerStored'[j] = accepted'[i]
    <3>1. CASE i \in 1..Len(accepted)
      <4>1. accepted'[i] = accepted[i] /\ accepted[i] # None
        BY <1>1, <1>8, <3>1, ElementOfSeq, ReceptionAssumption DEF WireTypeOK
      <4>2. IsDelivered(accepted[i]) \/ \E j \in PacketIds : peerStored[j] = accepted[i]
        BY <1>1, <3>1 DEF MessagesTracked
      <4> QED
        BY <1>2, <1>5, <1>7, <4>1, <4>2 DEF IsDelivered
    <3>2. CASE i = Len(accepted) + 1
      BY <1>5, <1>8, <3>2
    <3> QED
      BY <1>8, <3>1, <3>2
  <2>2. \A x \in Messages : IsDelivered(x)' => Abstract!IsAccepted(x)'
    BY <1>1, <1>2, <1>8 DEF MessagesTracked, IsDelivered
  <2>3. \A x \in completed' : IsDelivered(x)'
    BY <1>1, <1>2 DEF MessagesTracked, IsDelivered
  <2>4. ASSUME NEW j \in PacketIds, Peer!HasOutgoing(j)'
        PROVE  peerStored'[j] \notin completed' /\ Abstract!IsAccepted(peerStored[j])'
    <3>1. PICK x : x = peerStored'[j]
      OBVIOUS
    <3>2. x \notin completed /\ (Abstract!IsAccepted(x) \/ x = m)
      BY <1>1, <1>5, <1>7, <1>9, <2>4, <3>1 DEF MessagesTracked
    <3>3. Abstract!IsAccepted(x)'
      BY <1>8, <3>2
    <3> QED
      BY <1>2, <3>1, <3>2, <3>3 DEF Abstract!IsAccepted
  <2> QED
    BY <2>1, <2>2, <2>3, <2>4 DEF MessagesTracked
<1>13. AcceptedInOrder'
  <2> SUFFICES ASSUME NEW i \in 1..Len(accepted'), NEW j \in 1..Len(accepted'),
                      NEW p \in PacketIds, NEW q \in PacketIds, i < j,
                      PublishPending(p)', peerStored'[p] = accepted'[i],
                      PublishPending(q)', peerStored'[q] = accepted'[j]
               PROVE  peerOutgoing'[p].seq < peerOutgoing'[q].seq
    BY DEF AcceptedInOrder, Earlier
  <2>1. i \in 1..Len(accepted) /\ p # id
    <3>1. i \in 1..Len(accepted)
      BY <1>8
    <3> QED
      BY <1>2, <1>5, <1>8, <3>1
  <2>2. PublishPending(p) /\ peerStored[p] = accepted[i] /\ peerOutgoing'[p] = peerOutgoing[p]
    BY <1>5, <1>8, <1>9, <2>1
  <2>3. CASE q = id
    BY <1>1, <1>3, <1>5, <2>2, <2>3 DEF Bookkeeping, PublishPending, Peer!HasOutgoing
  <2>4. CASE q # id
    <3>1. PublishPending(q) /\ peerStored[q] = accepted'[j] /\ peerOutgoing'[q] = peerOutgoing[q]
      BY <1>5, <1>9, <2>4
    <3>2. j # Len(accepted) + 1
      BY <1>8, <1>9, <2>4, <3>1 DEF PublishPending, Peer!HasOutgoing
    <3>3. j \in 1..Len(accepted) /\ peerStored[q] = accepted[j]
      BY <1>8, <3>1, <3>2
    <3> QED
      BY <1>1, <2>1, <2>2, <3>1, <3>3 DEF AcceptedInOrder, Earlier
  <2> QED
    BY <2>3, <2>4
<1>14. PICK packet \in ToClientPackets :
          /\ toClient' = Append(toClient, packet)
          /\ packet.type = "PUBLISH" /\ packet.id = id /\ packet.message = m
  <2>1. /\ PublishPacket(id, m) \in ToClientPackets /\ PublishPacket(id, m).type = "PUBLISH"
        /\ PublishPacket(id, m).id = id /\ PublishPacket(id, m).message = m
    BY DEF PublishPacket, ToClientPackets, RequestTypes
  <2> QED
    BY <1>2, <2>1
<1>15. packet.type \in RequestTypes /\ RequestOK(packet)'
  BY <1>2, <1>5, <1>9, <1>14 DEF RequestOK, RequestTypes
<1>16. \A p \in Requests : p.type = "PUBLISH" =>
           peerOutgoing[p.id].seq < peerOutgoing'[id].seq
  BY <1>1, <1>3, <1>5, UnderWay, PacketTypes DEF Bookkeeping, Requests
<1>17. /\ toClient' \in Seq(ToClientPackets)
       /\ OnePacketPerId' /\ WireOK' /\ ReplyOK' /\ NothingLost'
       /\ ConnectionFacts' /\ QuotaKept'
  <2>1. DistinctIds(toServer', AnswerTypes) /\ peerToResend' = peerToResend \ {id}
    BY <1>2, WireFacts
  <2>2. /\ \A p \in Requests : p.id # id
        /\ \A a \in Answers : a.id # id
        /\ reply # NoReply => reply.id # id
    BY <1>2, UnderWay
  <2> QED
    BY <1>2, <1>5, <1>6, <1>7, <1>14, <1>15, <1>16, <2>1, <2>2, RequestSent
<1>18. WireTypeOK'
  <2>1. SessionTypeOK'
    BY <1>6, WireFacts, SessionTypeKept
  <2> QED
    BY <1>1, <1>2, <1>5, <1>8, <1>17, <2>1, WireTypeKept DEF WireTypeOK, ReceptionTypeOK
<1> QED
  BY <1>10, <1>11, <1>12, <1>13, <1>17, <1>18 DEF ReceptionInv

\* The answer at the head of the line to the server, and what is left behind it
LEMMA TakesAnswer ==
    ASSUME ReceptionInv, toServer # << >>, Head(toServer).type \in AnswerTypes,
           toServer' = Tail(toServer)
    PROVE  /\ Head(toServer) \in Answers /\ Head(toServer).id \in PacketIds
           /\ AnswerOK(Head(toServer))
           /\ Head(toServer).type = "PUBACK" => incoming[Head(toServer).id] = "None"
           /\ toServer' \in Seq(ToServerPackets) /\ DistinctIds(toServer', AnswerTypes)
           /\ Answers = Answers' \cup {Head(toServer)}
           /\ \A a \in Answers' : a.id # Head(toServer).id
           /\ \A p \in Requests : p.id # Head(toServer).id
           /\ reply # NoReply => reply.id # Head(toServer).id
           /\ IsConnected
<1>1. WireTypeOK /\ OnePacketPerId /\ WireOK /\ ConnectionFacts
  BY DEF ReceptionInv
<1>2. /\ Tail(toServer) \in Seq(ToServerPackets)
      /\ Packets(toServer) = Packets(Tail(toServer)) \cup {Head(toServer)}
      /\ \A a \in Packets(Tail(toServer)) : a.type \in AnswerTypes => a.id # Head(toServer).id
      /\ DistinctIds(Tail(toServer), AnswerTypes)
  BY WireFacts, QueueTail
<1>3. /\ Head(toServer) \in Answers
      /\ Answers = Answers' \cup {Head(toServer)}
      /\ \A a \in Answers' : a.id # Head(toServer).id
  BY <1>2 DEF Answers
<1> QED
  BY <1>1, <1>2, <1>3, PacketTypes DEF OnePacketPerId, WireOK, ConnectionFacts

LEMMA ServerPubrecInv ==
    ASSUME ReceptionInv, ServerReceivesAck, Head(toServer).type = "PUBREC"
    PROVE  ReceptionInv'
<1>1. /\ WireTypeOK /\ Bookkeeping /\ MessagesTracked /\ AcceptedInOrder
      /\ WireOK /\ ConnectionFacts
  BY DEF ReceptionInv
<1>2. /\ toServer # << >> /\ toServer' = Tail(toServer)
      /\ Head(toServer).type \in AnswerTypes
      /\ UNCHANGED sessionVars
      /\ UNCHANGED <<reply, ownSent, peerToResend, breaks, accepted, copies>>
  BY DEF ServerReceivesAck, clientVars, AnswerTypes
<1>3. PICK id \in PacketIds : id = Head(toServer).id
  BY <1>2, TakesAnswer
<1>4. /\ peerOutgoing[id].state = "AwaitingPubrec" /\ incoming[id] = "AwaitingPubrel"
      /\ id \notin peerToResend
  BY <1>2, <1>3, TakesAnswer DEF AnswerOK
<1>5. /\ peerOutgoing' = [peerOutgoing EXCEPT ![id].state = "AwaitingPubcomp",
                                              ![id].seq = peerSeq]
      /\ peerSeq' = peerSeq + 1
      /\ UNCHANGED <<peerStored, completed>>
      /\ toClient' = Append(toClient, Packet("PUBREL", id))
  <2>1. Peer!PubrecResult(id, FALSE) = "SendPubrel"
    BY <1>4 DEF Peer!PubrecResult
  <2>2. Peer!QosPubrecReceived(id, FALSE)
    BY <1>3 DEF ServerReceivesAck
  <2> QED
    BY <1>3, <1>4, <2>1, <2>2 DEF ServerReceivesAck, Peer!QosPubrecReceived
<1>6. /\ peerOutgoing \in [PacketIds -> OutgoingFlow] /\ peerSeq \in Nat
      /\ \A j \in PacketIds : peerOutgoing[j].seq \in Nat
  BY <1>1, FlowTypes
<1>7. /\ peerOutgoing' \in [PacketIds -> OutgoingFlow] /\ peerSeq' \in Nat
      /\ peerOutgoing'[id].state = "AwaitingPubcomp" /\ peerOutgoing'[id].seq = peerSeq
      /\ peerOutgoing'[id].charged = peerOutgoing[id].charged
      /\ \A j \in PacketIds : j # id => peerOutgoing'[j] = peerOutgoing[j]
  <2>1. PICK flow : flow = [peerOutgoing[id] EXCEPT !.state = "AwaitingPubcomp", !.seq = peerSeq]
    OBVIOUS
  <2>2. /\ flow \in OutgoingFlow
        /\ flow.state = "AwaitingPubcomp" /\ flow.seq = peerSeq
        /\ flow.charged = peerOutgoing[id].charged
    BY <1>6, <2>1 DEF OutgoingFlow, OutgoingStates
  <2>3. peerOutgoing' = [peerOutgoing EXCEPT ![id] = flow]
    BY <1>5, <1>6, <2>1
  <2>4. /\ peerOutgoing' \in [PacketIds -> OutgoingFlow] /\ peerOutgoing'[id] = flow
        /\ \A j \in PacketIds : j # id => peerOutgoing'[j] = peerOutgoing[j]
    BY <1>6, <2>2, <2>3
  <2>5. peerSeq' \in Nat
    BY <1>5, <1>6
  <2> QED
    BY <2>2, <2>4, <2>5
<1>8. /\ UNCHANGED <<incoming, incomingCount, ownReceiveMaximum, connectionState, cleanStart>>
      /\ UNCHANGED sesVars /\ ComponentStep
  BY <1>2 DEF sessionVars, qosVars, fcVars, sesVars, ComponentStep
<1>9. /\ Peer!HasOutgoing(id) /\ PublishPending(id) /\ ~PublishPending(id)'
      /\ \A j \in PacketIds : /\ Peer!HasOutgoing(j)' <=> Peer!HasOutgoing(j)
                              /\ IsCharged(j)' <=> IsCharged(j)
                              /\ PublishPending(j)' => PublishPending(j) /\ j # id
  BY <1>4, <1>7 DEF Peer!HasOutgoing, PublishPending, IsCharged
<1>10. Bookkeeping'
  <2>1. \A j \in PacketIds : Peer!HasOutgoing(j)' => peerOutgoing'[j].seq < peerSeq'
    BY <1>1, <1>5, <1>6, <1>7, <1>9 DEF Bookkeeping
  <2>2. ASSUME NEW j \in PacketIds, NEW k \in PacketIds,
               Peer!HasOutgoing(j), Peer!HasOutgoing(k), j # k
        PROVE  peerStored[j] # peerStored[k] /\ peerOutgoing'[j].seq # peerOutgoing'[k].seq
    <3>1. /\ peerStored[j] # peerStored[k] /\ peerOutgoing[j].seq # peerOutgoing[k].seq
          /\ peerOutgoing[j].seq < peerSeq /\ peerOutgoing[k].seq < peerSeq
      BY <1>1, <2>2 DEF Bookkeeping
    <3> QED
      BY <1>6, <1>7, <2>2, <3>1
  <2> QED
    BY <1>1, <1>5, <1>9, <2>1, <2>2 DEF Bookkeeping
<1>11. ASSUME NEW j \in PacketIds PROVE EndsAgree(j)'
  <2>1. EndsAgree(j)
    BY DEF ReceptionInv
  <2>2. CASE j = id
    BY <1>2, <1>4, <1>5, <1>7, <1>8, <1>9, <2>1, <2>2 DEF EndsAgree, IsDelivered
  <2>3. CASE j # id
    BY <1>2, <1>5, <1>7, <1>8, <1>9, <2>1, <2>3 DEF EndsAgree, IsDelivered
  <2> QED
    BY <2>2, <2>3
<1>12. MessagesTracked'
  BY <1>1, <1>2, <1>5, <1>9 DEF MessagesTracked, IsDelivered, Abstract!IsAccepted
<1>13. AcceptedInOrder'
  <2>0. UNCHANGED <<accepted, peerStored>>
    BY <1>2, <1>5
  <2> SUFFICES ASSUME NEW i \in 1..Len(accepted), NEW j \in 1..Len(accepted), i < j,
                      NEW p \in PacketIds, NEW q \in PacketIds,
                      PublishPending(p)', peerStored[p] = accepted[i],
                      PublishPending(q)', peerStored[q] = accepted[j]
               PROVE  peerOutgoing'[p].seq < peerOutgoing'[q].seq
    BY <2>0 DEF AcceptedInOrder, Earlier
  <2>1. PublishPending(p) /\ p # id /\ PublishPending(q) /\ q # id
    BY <1>9
  <2>2. Earlier(p, q)
    BY <1>1, <2>1 DEF AcceptedInOrder
  <2> QED
    BY <1>7, <2>1, <2>2 DEF Earlier
<1>14. PICK packet \in ToClientPackets :
          toClient' = Append(toClient, packet) /\ packet.type = "PUBREL" /\ packet.id = id
  <2>1. /\ Packet("PUBREL", id) \in ToClientPackets
        /\ Packet("PUBREL", id).type = "PUBREL" /\ Packet("PUBREL", id).id = id
    BY DEF Packet, ToClientPackets, RequestTypes
  <2> QED
    BY <1>5, <2>1
<1>15. packet.type \in RequestTypes /\ RequestOK(packet)'
  BY <1>2, <1>4, <1>7, <1>8, <1>14 DEF RequestOK, RequestTypes
<1>16. /\ toServer' \in Seq(ToServerPackets) /\ DistinctIds(toServer', AnswerTypes)
       /\ Answers' \subseteq Answers
       /\ \A a \in Answers' : a.id # id
       /\ \A p \in Requests : p.id # id
       /\ reply # NoReply => reply.id # id
       /\ IsConnected
  BY <1>2, <1>3, TakesAnswer
<1>17. /\ toClient' \in Seq(ToClientPackets)
       /\ OnePacketPerId' /\ WireOK' /\ ReplyOK' /\ NothingLost'
       /\ ConnectionFacts' /\ QuotaKept'
  <2>1. peerToResend' = peerToResend \ {id}
    BY <1>2, <1>4
  <2> QED
    BY <1>2, <1>5, <1>7, <1>8, <1>9, <1>14, <1>15, <1>16, <2>1, RequestSent
<1>18. WireTypeOK'
  <2>1. SessionTypeOK'
    BY <1>8, WireFacts, SessionTypeKept
  <2> QED
    BY <1>1, <1>2, <1>5, <1>7, <1>16, <1>17, <2>1, WireTypeKept
       DEF WireTypeOK, ReceptionTypeOK
<1> QED
  BY <1>10, <1>11, <1>12, <1>13, <1>17, <1>18 DEF ReceptionInv

\* The acknowledgement that ends a flow finds it waiting for just that.
LEMMA FinalAckCompletes ==
    ASSUME ReceptionInv, ServerReceivesAck, Head(toServer).type # "PUBREC"
    PROVE  \E id \in PacketIds :
              /\ id = Head(toServer).id /\ toServer # << >>
              /\ Head(toServer).type \in {"PUBACK", "PUBCOMP"}
              /\ Peer!HasOutgoing(id) /\ incoming[id] = "None"
              /\ id \notin peerToResend
              /\ peerStored[id] \in Messages /\ IsDelivered(peerStored[id])
              /\ peerOutgoing' = [peerOutgoing EXCEPT ![id] = NoFlow] /\ peerSeq' = peerSeq
              /\ peerStored' = [peerStored EXCEPT ![id] = None]
              /\ completed' = completed \cup {peerStored[id]}
              /\ UNCHANGED toClient
<1>1. /\ toServer # << >> /\ toServer' = Tail(toServer)
      /\ Head(toServer).type \in {"PUBACK", "PUBCOMP"}
  BY DEF ServerReceivesAck
<1>2. Head(toServer).type \in AnswerTypes
  BY <1>1 DEF AnswerTypes
<1>3. PICK id \in PacketIds : id = Head(toServer).id
  BY <1>1, <1>2, TakesAnswer
<1>4. /\ incoming[id] = "None" /\ IsDelivered(peerStored[id]) /\ Peer!HasOutgoing(id)
      /\ id \notin peerToResend
      /\ Head(toServer).type = "PUBACK" => peerOutgoing[id].state = "AwaitingPuback"
      /\ Head(toServer).type = "PUBCOMP" => peerOutgoing[id].state = "AwaitingPubcomp"
  BY <1>1, <1>2, <1>3, TakesAnswer DEF AnswerOK, ReceptionInv, EndsAgree, Peer!HasOutgoing
<1>5. peerOutgoing' = [peerOutgoing EXCEPT ![id] = NoFlow] /\ peerSeq' = peerSeq
  <2>1. Peer!NoFlow = NoFlow
    BY DEF Peer!NoFlow, NoFlow
  <2>2. CASE Head(toServer).type = "PUBACK"
    <3>1. Peer!PubackResult(id) = "Complete"
      BY <1>4, <2>2 DEF Peer!PubackResult
    <3>2. Peer!QosPubackReceived(id)
      BY <1>3, <2>2 DEF ServerReceivesAck
    <3> QED
      BY <2>1, <3>1, <3>2 DEF Peer!QosPubackReceived
  <2>3. CASE Head(toServer).type = "PUBCOMP"
    <3>1. Peer!PubcompResult(id) = "Complete"
      BY <1>4, <2>3 DEF Peer!PubcompResult
    <3>2. Peer!QosPubcompReceived(id)
      BY <1>3, <2>3 DEF ServerReceivesAck
    <3> QED
      BY <2>1, <3>1, <3>2 DEF Peer!QosPubcompReceived
  <2> QED
    BY <1>1, <2>2, <2>3
<1>6. peerStored[id] \in Messages /\ peerStored[id] # None
  BY <1>4, FlowTypes DEF ReceptionInv, Bookkeeping
<1>7. /\ peerStored' = [peerStored EXCEPT ![id] = None]
      /\ completed' = completed \cup ({peerStored[id]} \ {None})
      /\ UNCHANGED toClient
  BY <1>3 DEF ServerReceivesAck
<1>8. completed' = completed \cup {peerStored[id]}
  BY <1>6, <1>7
<1> QED
  BY <1>1, <1>3, <1>4, <1>5, <1>6, <1>7, <1>8

LEMMA ServerFinalAckInv ==
    ASSUME ReceptionInv, ServerReceivesAck, Head(toServer).type # "PUBREC"
    PROVE  ReceptionInv'
<1>1. /\ WireTypeOK /\ Bookkeeping /\ MessagesTracked /\ AcceptedInOrder
      /\ OnePacketPerId /\ WireOK /\ ReplyOK /\ NothingLost /\ ConnectionFacts /\ QuotaKept
  BY DEF ReceptionInv
<1>2. PICK id \in PacketIds :
         /\ id = Head(toServer).id /\ toServer # << >>
         /\ Head(toServer).type \in {"PUBACK", "PUBCOMP"}
         /\ Peer!HasOutgoing(id) /\ incoming[id] = "None"
         /\ id \notin peerToResend
         /\ peerStored[id] \in Messages /\ IsDelivered(peerStored[id])
         /\ peerOutgoing' = [peerOutgoing EXCEPT ![id] = NoFlow] /\ peerSeq' = peerSeq
         /\ peerStored' = [peerStored EXCEPT ![id] = None]
         /\ completed' = completed \cup {peerStored[id]}
         /\ UNCHANGED toClient
  BY FinalAckCompletes
<1>3. /\ toServer' = Tail(toServer) /\ Head(toServer).type \in AnswerTypes
      /\ UNCHANGED sessionVars
      /\ UNCHANGED <<reply, ownSent, peerToResend, breaks, accepted, copies>>
  BY <1>2 DEF ServerReceivesAck, clientVars, AnswerTypes
<1>4. /\ UNCHANGED <<incoming, incomingCount, ownReceiveMaximum, connectionState, cleanStart>>
      /\ UNCHANGED sesVars /\ ComponentStep /\ Requests' = Requests
  BY <1>2, <1>3 DEF sessionVars, qosVars, fcVars, sesVars, ComponentStep, Requests
<1>5. /\ toServer' \in Seq(ToServerPackets) /\ DistinctIds(toServer', AnswerTypes)
      /\ Head(toServer) \in Answers /\ Answers = Answers' \cup {Head(toServer)}
      /\ \A a \in Answers' : a.id # id
      /\ \A p \in Requests : p.id # id
      /\ reply # NoReply => reply.id # id
      /\ IsConnected
  BY <1>2, <1>3, TakesAnswer
<1>6. /\ peerOutgoing \in [PacketIds -> OutgoingFlow]
      /\ peerStored \in [PacketIds -> Messages \cup {None}]
      /\ NoFlow.state = "None" /\ NoFlow.charged = FALSE
  BY <1>1, FlowTypes DEF NoFlow
<1>7. /\ peerOutgoing' \in [PacketIds -> OutgoingFlow]
      /\ peerStored' \in [PacketIds -> Messages \cup {None}]
      /\ peerOutgoing'[id] = NoFlow /\ peerStored'[id] = None
      /\ \A j \in PacketIds : j # id =>
            peerOutgoing'[j] = peerOutgoing[j] /\ peerStored'[j] = peerStored[j]
  BY <1>2, <1>6, NoFlowType
<1>8. /\ ~Peer!HasOutgoing(id)' /\ ~PublishPending(id)' /\ ~IsCharged(id)'
      /\ peerOutgoing'[id].state = "None"
      /\ \A j \in PacketIds : j # id =>
            /\ Peer!HasOutgoing(j)' <=> Peer!HasOutgoing(j)
            /\ PublishPending(j)' <=> PublishPending(j)
            /\ IsCharged(j)' <=> IsCharged(j)
            /\ Peer!HasOutgoing(j) => peerStored[j] # peerStored[id]
  BY <1>1, <1>2, <1>6, <1>7 DEF Peer!HasOutgoing, PublishPending, IsCharged, Bookkeeping
<1>9. WireTypeOK'
  <2>1. SessionTypeOK'
    BY <1>4, WireFacts, SessionTypeKept
  <2>2. completed' \subseteq Messages /\ peerSeq' \in Nat
    BY <1>1, <1>2, FlowTypes DEF WireTypeOK, ReceptionTypeOK
  <2> QED
    BY <1>1, <1>2, <1>3, <1>5, <1>7, <2>1, <2>2, WireTypeKept DEF WireTypeOK, ReceptionTypeOK
<1>10. Bookkeeping'
  BY <1>1, <1>2, <1>7, <1>8 DEF Bookkeeping
<1>11. ASSUME NEW j \in PacketIds PROVE EndsAgree(j)'
  <2>1. EndsAgree(j)
    BY DEF ReceptionInv
  <2>2. CASE j = id
    BY <1>2, <1>4, <1>8, <2>2 DEF EndsAgree
  <2>3. CASE j # id
    BY <1>3, <1>4, <1>7, <1>8, <2>1, <2>3 DEF EndsAgree, IsDelivered
  <2> QED
    BY <2>2, <2>3
<1>12. MessagesTracked'
  <2>1. ASSUME NEW i \in 1..Len(accepted)
        PROVE  IsDelivered(accepted[i]) \/ \E j \in PacketIds : peerStored'[j] = accepted[i]
    <3>1. IsDelivered(accepted[i]) \/ \E j \in PacketIds : peerStored[j] = accepted[i]
      BY <1>1 DEF MessagesTracked
    <3> QED
      BY <1>2, <1>7, <3>1
  <2>2. \A x \in completed' : IsDelivered(x)
    BY <1>1, <1>2 DEF MessagesTracked
  <2>3. ASSUME NEW j \in PacketIds, Peer!HasOutgoing(j)'
        PROVE  peerStored'[j] \notin completed' /\ Abstract!IsAccepted(peerStored[j])'
    <3>1. /\ j # id /\ Peer!HasOutgoing(j)
          /\ peerStored'[j] = peerStored[j] /\ peerStored[j] # peerStored[id]
      BY <1>7, <1>8, <2>3
    <3> QED
      BY <1>1, <1>2, <1>3, <3>1 DEF MessagesTracked, Abstract!IsAccepted
  <2> QED
    BY <1>1, <1>3, <2>1, <2>2, <2>3 DEF MessagesTracked, IsDelivered, Abstract!IsAccepted
<1>13. AcceptedInOrder'
  BY <1>1, <1>3, <1>7, <1>8 DEF AcceptedInOrder, Earlier
<1>14. OnePacketPerId'
  BY <1>1, <1>2, <1>3, <1>4, <1>5 DEF OnePacketPerId, NoReply, Reply
<1>15. /\ \A p \in Requests : p.id \in PacketIds /\ p.id # id
       /\ \A a \in Answers' : a \in Answers /\ a.id \in PacketIds /\ a.id # id
       /\ reply # NoReply => reply.id \in PacketIds /\ reply.id # id
       /\ peerToResend \subseteq PacketIds
  BY <1>1, <1>5, PacketTypes DEF Requests, Answers, ReplyOK, WireTypeOK, ReceptionTypeOK
<1>16. ASSUME NEW a, a.id \in PacketIds, a.id # id, AnswerOK(a) PROVE AnswerOK(a)'
  BY <1>3, <1>4, <1>7, <1>16 DEF AnswerOK, IsDelivered
<1>17. WireOK'
  <2>1. PublishesInOrder(toClient', peerOutgoing')
    <3>1. \A p \in Packets(toClient) : p.type = "PUBLISH" =>
              peerOutgoing'[p.id].seq = peerOutgoing[p.id].seq
      BY <1>7, <1>15 DEF Requests, RequestTypes
    <3> QED
      BY <1>2, <3>1, WireFacts, InOrderKept
  <2>2. ASSUME NEW p \in Requests PROVE RequestOK(p)'
    <3>1. \A j \in peerToResend : j \in PacketIds /\ j # id
      BY <1>2, <1>15
    <3> QED
      BY <1>1, <1>3, <1>4, <1>7, <1>8, <1>15, <3>1 DEF WireOK, RequestOK, Earlier
  <2> QED
    BY <1>1, <1>4, <1>15, <1>16, <2>1, <2>2 DEF WireOK
<1>18. ReplyOK'
  <2>1. PICK r : r = reply
    OBVIOUS
  <2>2. r # NoReply => AnswerOK(r)'
    BY <1>1, <1>15, <1>16, <2>1 DEF ReplyOK
  <2>3. reply # NoReply => AnswerOK(reply)'
    BY <1>3, <2>1, <2>2 DEF AnswerOK
  <2> QED
    BY <1>1, <1>3, <1>7, <1>15, <2>3 DEF ReplyOK, IsCharged, NoReply, Reply
<1>19. NothingLost'
  BY <1>1, <1>3, <1>4, <1>5, <1>7, <1>8 DEF NothingLost, IsDelivered
<1>20. ConnectionFacts'
  BY <1>1, <1>2, <1>3, <1>4, <1>5, <1>8, <1>15 DEF ConnectionFacts, IsConnected
<1>21. QuotaKept'
  <2>1. id \notin Counted
    BY <1>2, <1>5 DEF Counted
  <2>2. Counted \subseteq Counted' /\ ChargedFlows' \subseteq ChargedFlows
    BY <1>4, <1>5, <1>8, <2>1 DEF Counted, ChargedFlows
  <2>3. Counted \in SUBSET PacketIds /\ Counted' \in SUBSET PacketIds
        /\ ChargedFlows \in SUBSET PacketIds /\ ChargedFlows' \in SUBSET PacketIds
    BY DEF Counted, ChargedFlows
  <2>4. /\ Cardinality(Counted) <= Cardinality(Counted')
        /\ Cardinality(ChargedFlows') <= Cardinality(ChargedFlows)
        /\ Cardinality(Counted) \in Nat /\ Cardinality(Counted') \in Nat
        /\ Cardinality(ChargedFlows) \in Nat /\ Cardinality(ChargedFlows') \in Nat
    BY <2>2, <2>3, FlowSets
  <2>5. incomingCount \in Nat /\ ownReceiveMaximum \in Nat
    BY <1>1, FlowTypes
  <2> QED
    BY <1>1, <1>4, <1>5, <2>4, <2>5 DEF QuotaKept, IsConnected
<1> QED
  BY <1>9, <1>10, <1>11, <1>12, <1>13, <1>14, <1>17, <1>18, <1>19, <1>20, <1>21 DEF ReceptionInv

-----------------------------------------------------------------------------
(***************************************************************************)
(* The client                                                              *)
(***************************************************************************)

\* The packet of the server at the head of the line, and what is left behind it
LEMMA TakesRequest ==
    ASSUME ReceptionInv, toClient # << >>, Head(toClient).type \in RequestTypes,
           toClient' = Tail(toClient)
    PROVE  /\ Head(toClient) \in Requests /\ Head(toClient).id \in PacketIds
           /\ RequestOK(Head(toClient)) /\ Peer!HasOutgoing(Head(toClient).id)
           /\ toClient' \in Seq(ToClientPackets) /\ DistinctIds(toClient', RequestTypes)
           /\ PublishesInOrder(toClient', peerOutgoing)
           /\ Requests = Requests' \cup {Head(toClient)}
           /\ \A p \in Requests' : p.id # Head(toClient).id
           /\ \A a \in Answers : a.id # Head(toClient).id
<1>1. WireTypeOK /\ OnePacketPerId /\ WireOK
  BY DEF ReceptionInv
<1>2. /\ Tail(toClient) \in Seq(ToClientPackets)
      /\ Packets(toClient) = Packets(Tail(toClient)) \cup {Head(toClient)}
      /\ \A p \in Packets(Tail(toClient)) : p.type \in RequestTypes => p.id # Head(toClient).id
      /\ DistinctIds(Tail(toClient), RequestTypes)
  BY WireFacts, QueueTail
<1>3. /\ Head(toClient) \in Requests
      /\ Requests = Requests' \cup {Head(toClient)}
      /\ \A p \in Requests' : p.id # Head(toClient).id
  BY <1>2 DEF Requests
<1>4. PublishesInOrder(Tail(toClient), peerOutgoing)
  BY WireFacts, InOrderTail
<1> QED
  BY <1>1, <1>2, <1>3, <1>4, PacketTypes, UnderWay DEF OnePacketPerId, WireOK

\* A step of the client that changes at most the incoming flow of one identifier
\* and delivers at most the message of that identifier
LEMMA ClientStep ==
    ASSUME ReceptionInv, NEW id \in PacketIds, Peer!HasOutgoing(id),
           UNCHANGED <<peerOutgoing, peerSeq, peerStored, peerToResend, accepted, completed>>,
           \A j \in PacketIds : j # id => incoming'[j] = incoming[j],
           \A m \in Messages : IsDelivered(m) => IsDelivered(m)',
           \A m \in Messages : IsDelivered(m)' => IsDelivered(m) \/ m = peerStored[id],
           EndsAgree(id)'
    PROVE  /\ Bookkeeping'
           /\ \A j \in PacketIds : EndsAgree(j)'
           /\ MessagesTracked'
           /\ AcceptedInOrder'
           /\ \A p : p.id \in PacketIds /\ p.id # id /\ RequestOK(p) => RequestOK(p)'
           /\ \A a : a.id \in PacketIds /\ a.id # id /\ AnswerOK(a) => AnswerOK(a)'
<1>1. WireTypeOK /\ Bookkeeping /\ MessagesTracked /\ AcceptedInOrder
  BY DEF ReceptionInv
<1>2. Bookkeeping' /\ AcceptedInOrder'
  BY <1>1 DEF Bookkeeping, AcceptedInOrder, Peer!HasOutgoing, IsCharged, PublishPending, Earlier
<1>3. \A j \in PacketIds : Peer!HasOutgoing(j) => peerStored[j] \in Messages
  BY <1>1, FlowTypes DEF Bookkeeping
<1>4. ASSUME NEW j \in PacketIds PROVE EndsAgree(j)'
  <2>1. CASE j # id
    <3>1. EndsAgree(j)
      BY DEF ReceptionInv
    <3>2. Peer!HasOutgoing(j) => peerStored[j] # peerStored[id] /\ peerStored[j] \in Messages
      BY <1>1, <1>3, <2>1 DEF Bookkeeping
    <3>3. PICK m : m = peerStored[j]
      OBVIOUS
    <3>4. Peer!HasOutgoing(j) => (IsDelivered(m)' <=> IsDelivered(m))
      BY <3>2, <3>3
    <3>5. Peer!HasOutgoing(j) =>
              (IsDelivered(peerStored[j])' <=> IsDelivered(peerStored[j]))
      BY <3>3, <3>4 DEF IsDelivered
    <3> QED
      BY <2>1, <3>1, <3>5 DEF EndsAgree, Peer!HasOutgoing
  <2> QED
    BY <2>1
<1>5. MessagesTracked'
  <2>1. ASSUME NEW i \in 1..Len(accepted)
        PROVE  IsDelivered(accepted[i])' \/ \E j \in PacketIds : peerStored[j] = accepted[i]
    <3>1. PICK m \in Messages : m = accepted[i]
      BY <1>1, ElementOfSeq DEF WireTypeOK
    <3>2. IsDelivered(m) \/ \E j \in PacketIds : peerStored[j] = m
      BY <1>1, <3>1 DEF MessagesTracked
    <3>3. IsDelivered(m)' \/ \E j \in PacketIds : peerStored[j] = m
      BY <3>2
    <3> QED
      BY <3>1, <3>3 DEF IsDelivered
  <2>2. Abstract!IsAccepted(peerStored[id])
    BY <1>1 DEF MessagesTracked
  <2>3. \A m \in Messages : IsDelivered(m)' => Abstract!IsAccepted(m)
    BY <1>1, <2>2 DEF MessagesTracked
  <2>4. \A m \in completed : IsDelivered(m)'
    BY <1>1 DEF MessagesTracked, WireTypeOK, ReceptionTypeOK
  <2> QED
    BY <1>1, <2>1, <2>3, <2>4
       DEF MessagesTracked, Abstract!IsAccepted, Peer!HasOutgoing, IsDelivered
<1>6. \A p : p.id \in PacketIds /\ p.id # id /\ RequestOK(p) => RequestOK(p)'
  BY DEF RequestOK, PublishPending, IsCharged, Earlier
<1>7. ASSUME NEW a, a.id \in PacketIds, a.id # id, AnswerOK(a) PROVE AnswerOK(a)'
  <2>1. peerOutgoing[a.id].state = "AwaitingPuback" /\ IsDelivered(peerStored[a.id])
            => IsDelivered(peerStored[a.id])'
    <3>1. PICK m : m = peerStored[a.id]
      OBVIOUS
    <3>2. peerOutgoing[a.id].state = "AwaitingPuback" => m \in Messages
      BY <1>3, <1>7, <3>1 DEF Peer!HasOutgoing
    <3>3. peerOutgoing[a.id].state = "AwaitingPuback" /\ IsDelivered(m) => IsDelivered(m)'
      BY <3>2
    <3> QED
      BY <3>1, <3>3 DEF IsDelivered
  <2> QED
    BY <1>7, <2>1 DEF AnswerOK
<1> QED
  BY <1>2, <1>4, <1>5, <1>6, <1>7

\* The client handles a packet of the server and starts to write the answer r.
LEMMA ClientTakes ==
    ASSUME ReceptionInv, NEW id \in PacketIds, IsConnected, reply = NoReply,
           toClient # << >>, Head(toClient).type \in RequestTypes, Head(toClient).id = id,
           toClient' = Tail(toClient),
           ComponentStep, UNCHANGED sesVars,
           UNCHANGED <<ownReceiveMaximum, ownSent, peerOutgoing, peerSeq, peerStored,
                       peerToResend, toServer, breaks, accepted, completed>>,
           copies' \in [Messages -> Nat],
           \A j \in PacketIds : j # id => incoming'[j] = incoming[j],
           \A m \in Messages : IsDelivered(m) => IsDelivered(m)',
           \A m \in Messages : IsDelivered(m)' => IsDelivered(m) \/ m = peerStored[id],
           EndsAgree(id)',
           Head(toClient).type = "PUBLISH" => IsDelivered(peerStored[id])',
           \/ incomingCount' = incomingCount
           \/ Head(toClient).type = "PUBLISH" /\ incomingCount' = incomingCount + 1,
           NEW r \in [type : {"None", "PUBACK", "PUBREC", "PUBCOMP"},
                      id : 0..U16Max, settles : BOOLEAN],
           reply' = r,
           r # NoReply => /\ r.id = id /\ r.type \in AnswerTypes /\ AnswerOK(r)'
                          /\ r.type = "PUBCOMP" /\ ~r.settles => ~IsCharged(id)
    PROVE  ReceptionInv'
<1>1. /\ WireTypeOK /\ Bookkeeping /\ OnePacketPerId /\ WireOK /\ NothingLost
      /\ ConnectionFacts /\ QuotaKept
  BY DEF ReceptionInv
<1>2. UNCHANGED <<connectionState, cleanStart>>
  BY DEF sesVars
<1>3. /\ Head(toClient) \in Requests
      /\ RequestOK(Head(toClient)) /\ Peer!HasOutgoing(id)
      /\ toClient' \in Seq(ToClientPackets) /\ DistinctIds(toClient', RequestTypes)
      /\ PublishesInOrder(toClient', peerOutgoing)
      /\ Requests = Requests' \cup {Head(toClient)}
      /\ \A p \in Requests' : p.id # id
      /\ \A a \in Answers : a.id # id
  BY TakesRequest
<1>4. Answers' = Answers
  BY DEF Answers
<1>5. /\ \A p \in Requests' : p \in Requests /\ p.id \in PacketIds /\ p.id # id
      /\ \A a \in Answers : a.id \in PacketIds /\ a.id # id
  BY <1>1, <1>3, PacketTypes DEF Requests, Answers
<1>6. /\ Bookkeeping'
      /\ \A j \in PacketIds : EndsAgree(j)'
      /\ MessagesTracked'
      /\ AcceptedInOrder'
      /\ \A p : p.id \in PacketIds /\ p.id # id /\ RequestOK(p) => RequestOK(p)'
      /\ \A a : a.id \in PacketIds /\ a.id # id /\ AnswerOK(a) => AnswerOK(a)'
  BY <1>3, ClientStep
<1>7. WireTypeOK'
  <2>1. SessionTypeOK'
    BY WireFacts, SessionTypeKept
  <2>2. reply' \in [type : {"None", "PUBACK", "PUBREC", "PUBCOMP"},
                    id : 0..U16Max, settles : BOOLEAN]
    OBVIOUS
  <2> QED
    BY <1>1, <1>3, <2>1, <2>2, PeerType, WireTypeKept DEF WireTypeOK, ReceptionTypeOK
<1>8. OnePacketPerId'
  BY <1>1, <1>3, <1>4, <1>5 DEF OnePacketPerId, NoReply, Reply
<1>9. WireOK'
  <2>1. \A p \in Requests' : RequestOK(p)'
    BY <1>1, <1>5, <1>6 DEF WireOK
  <2>2. \A a \in Answers' : AnswerOK(a)' /\ (a.type = "PUBACK" => incoming'[a.id] = "None")
    BY <1>1, <1>4, <1>5, <1>6 DEF WireOK
  <2> QED
    BY <1>3, <2>1, <2>2 DEF WireOK
<1>10. ReplyOK'
  <2>1. r # NoReply => AnswerOK(reply)'
    BY DEF AnswerOK
  <2> QED
    BY <2>1 DEF ReplyOK, IsCharged, NoReply, Reply
<1>11. NothingLost'
  <2> SUFFICES ASSUME NEW j \in PacketIds, PublishPending(j), ~IsDelivered(peerStored[j])'
               PROVE  \/ j \in peerToResend
                      \/ \E p \in Requests' : p.type = "PUBLISH" /\ p.id = j
    BY DEF NothingLost, PublishPending
  <2>1. j # id
    BY <1>3 DEF RequestOK, RequestTypes, PublishPending
  <2>2. ~IsDelivered(peerStored[j])
    <3>1. PICK m : m = peerStored[j]
      OBVIOUS
    <3>2. m \in Messages
      BY <1>1, <3>1, FlowTypes DEF Bookkeeping, PublishPending, Peer!HasOutgoing
    <3>3. ~IsDelivered(m)'
      BY <3>1 DEF IsDelivered
    <3> QED
      BY <3>1, <3>2, <3>3
  <2> QED
    BY <1>1, <1>3, <2>1, <2>2 DEF NothingLost
<1>12. ConnectionFacts'
  BY <1>1, <1>2 DEF ConnectionFacts, IsConnected, IsCharged, Peer!HasOutgoing
<1>13. QuotaKept'
  <2>1. Counted \subseteq Counted' /\ ChargedFlows' = ChargedFlows
    BY <1>3, <1>4 DEF Counted, ChargedFlows, IsCharged
  <2>2. Counted \in SUBSET PacketIds /\ Counted' \in SUBSET PacketIds
    BY DEF Counted
  <2>3. /\ Cardinality(Counted) <= Cardinality(Counted')
        /\ Cardinality(Counted) \in Nat /\ Cardinality(Counted') \in Nat
    BY <2>1, <2>2, FlowSets
  <2>4. incomingCount \in Nat /\ incomingCount <= Cardinality(Counted)
    BY <1>1, FlowTypes DEF QuotaKept
  <2>5. CASE incomingCount' = incomingCount
    BY <1>1, <1>2, <2>1, <2>3, <2>4, <2>5 DEF QuotaKept, IsConnected
  <2>6. CASE Head(toClient).type = "PUBLISH" /\ incomingCount' = incomingCount + 1
    <3>1. id \notin Counted /\ id \in Counted'
      BY <1>3, <1>4, <2>6 DEF Counted, RequestOK, IsCharged
    <3>2. Counted \cup {id} \in SUBSET PacketIds /\ Counted \cup {id} \subseteq Counted'
      BY <2>1, <2>2, <3>1
    <3>3. /\ Cardinality(Counted \cup {id}) = Cardinality(Counted) + 1
          /\ Cardinality(Counted \cup {id}) <= Cardinality(Counted')
      BY <2>2, <3>1, <3>2, FlowSets
    <3>4. incomingCount' <= Cardinality(Counted')
      BY <2>3, <2>4, <2>6, <3>3
    <3> QED
      BY <1>1, <1>2, <2>1, <3>4 DEF QuotaKept, IsConnected
  <2> QED
    BY <2>5, <2>6
<1> QED
  BY <1>6, <1>7, <1>8, <1>9, <1>10, <1>11, <1>12, <1>13 DEF ReceptionInv

LEMMA ClientPublishInv ==
    ASSUME ReceptionInv, ClientReceivesPublish
    PROVE  ReceptionInv'
<1>1. /\ IsConnected /\ reply = NoReply /\ toClient # << >>
      /\ Head(toClient).type = "PUBLISH" /\ toClient' = Tail(toClient)
      /\ Head(toClient).type \in RequestTypes
  BY DEF ClientReceivesPublish, Takes, RequestTypes
<1>2. PICK id \in PacketIds : id = Head(toClient).id
  BY <1>1, TakesRequest
<1>3. PICK m : m = Head(toClient).message
  OBVIOUS
<1>4. PublishPending(id) /\ Peer!HasOutgoing(id) /\ m = peerStored[id] /\ id \notin peerToResend
  BY <1>1, <1>2, <1>3, TakesRequest DEF RequestOK
<1>5. WireTypeOK /\ Bookkeeping /\ EndsAgree(id)
  BY DEF ReceptionInv
<1>6. /\ m \in Messages /\ id \in 0..U16Max
      /\ incoming \in [PacketIds -> IncomingStates \cup {"None"}]
      /\ copies \in [Messages -> Nat]
  BY <1>4, <1>5, FlowTypes DEF Bookkeeping
<1>7. /\ HandlePublish(QosOf(m), id)
      /\ copies' = IF m \in OnceMessages /\ HasIncoming(id)
                   THEN copies ELSE [copies EXCEPT ![m] = @ + 1]
      /\ reply' = IF m \in OnceMessages THEN Reply("PUBREC", id, FALSE)
                                        ELSE Reply("PUBACK", id, TRUE)
      /\ UNCHANGED <<ownSent, peerOutgoing, peerSeq, peerStored, peerToResend, toServer,
                     breaks, accepted, completed>>
  BY <1>2, <1>3 DEF ClientReceivesPublish, peerVars
<1>8. /\ ComponentStep /\ UNCHANGED sesVars /\ UNCHANGED ownReceiveMaximum
      /\ incomingCount' \in {incomingCount, incomingCount + 1}
  BY <1>7 DEF HandlePublish, ComponentStep, FcNext, QosNext, FcPublishReceived, fcVars
<1>9. incoming' = [incoming EXCEPT ![id] = IF m \in OnceMessages THEN "AwaitingPubrel"
                                           ELSE "IncomingAwaitingPuback"]
  BY <1>7 DEF HandlePublish, QosOf, QosPublishReceivedQos1, QosPublishReceivedQos2
<1>10. /\ \A j \in PacketIds : j # id => incoming'[j] = incoming[j]
       /\ m \in OnceMessages => incoming'[id] = "AwaitingPubrel"
       /\ m \notin OnceMessages => incoming'[id] = "IncomingAwaitingPuback"
  BY <1>6, <1>9
<1>11. /\ m \in OnceMessages <=> peerOutgoing[id].state = "AwaitingPubrec"
       /\ m \notin OnceMessages <=> peerOutgoing[id].state = "AwaitingPuback"
  BY <1>4, <1>5 DEF EndsAgree, PublishPending
<1>12. /\ copies' \in [Messages -> Nat]
       /\ \A x \in Messages : IsDelivered(x) => IsDelivered(x)'
       /\ \A x \in Messages : IsDelivered(x)' => IsDelivered(x) \/ x = m
       /\ IsDelivered(m)'
  <2>1. CASE m \in OnceMessages /\ HasIncoming(id)
    <3>1. IsDelivered(m)
      BY <1>4, <1>5, <1>11, <2>1 DEF EndsAgree, HasIncoming
    <3> QED
      BY <1>6, <1>7, <2>1, <3>1 DEF IsDelivered
  <2>2. CASE ~(m \in OnceMessages /\ HasIncoming(id))
    <3>1. copies' = [copies EXCEPT ![m] = @ + 1]
      BY <1>7, <2>2
    <3> QED
      BY <1>6, <3>1 DEF IsDelivered
  <2> QED
    BY <2>1, <2>2
<1>13. IsDelivered(peerStored[id])'
  BY <1>4, <1>7, <1>12 DEF IsDelivered
<1>14. EndsAgree(id)'
  BY <1>4, <1>7, <1>10, <1>11, <1>13 DEF EndsAgree, Peer!HasOutgoing, PublishPending
<1>15. PICK r \in [type : {"None", "PUBACK", "PUBREC", "PUBCOMP"},
                   id : 0..U16Max, settles : BOOLEAN] :
          /\ reply' = r /\ r.id = id
          /\ \/ r.type = "PUBREC" /\ m \in OnceMessages
             \/ r.type = "PUBACK" /\ m \notin OnceMessages
  <2>1. PICK type \in AnswerTypes : type = IF m \in OnceMessages THEN "PUBREC" ELSE "PUBACK"
    BY DEF AnswerTypes
  <2>2. PICK settles \in BOOLEAN : settles = (m \notin OnceMessages)
    OBVIOUS
  <2>3. type \in AnswerTypes /\ settles \in BOOLEAN /\ id \in 0..U16Max
    BY <1>6, <2>1, <2>2
  <2>4. /\ Reply(type, id, settles) \in
              [type : {"None", "PUBACK", "PUBREC", "PUBCOMP"},
               id : 0..U16Max, settles : BOOLEAN]
        /\ Reply(type, id, settles).type = type
        /\ Reply(type, id, settles).id = id
    BY <2>3, ReplyType
  <2>5. PICK r : /\ r = Reply(type, id, settles)
                 /\ r \in [type : {"None", "PUBACK", "PUBREC", "PUBCOMP"},
                           id : 0..U16Max, settles : BOOLEAN]
                 /\ r.type = type /\ r.id = id
    BY <2>4
  <2>6. CASE m \in OnceMessages
    <3>1. type = "PUBREC" /\ settles = FALSE
      BY <2>1, <2>2, <2>6
    <3>2. reply' = r
      BY <1>7, <2>5, <2>6, <3>1
    <3> QED
      BY <2>5, <2>6, <3>1, <3>2
  <2>7. CASE m \notin OnceMessages
    <3>1. type = "PUBACK" /\ settles = TRUE
      BY <2>1, <2>2, <2>7
    <3>2. reply' = r
      BY <1>7, <2>5, <2>7, <3>1
    <3> QED
      BY <2>5, <2>7, <3>1, <3>2
  <2> QED
    BY <2>6, <2>7
<1>16. r.type \in AnswerTypes /\ r.type # "PUBCOMP" /\ AnswerOK(r)'
  BY <1>4, <1>7, <1>10, <1>11, <1>13, <1>15 DEF AnswerOK, AnswerTypes
<1> QED
  BY <1>1, <1>2, <1>4, <1>7, <1>8, <1>10, <1>12, <1>13, <1>14, <1>15, <1>16, ClientTakes

LEMMA ClientPubrelInv ==
    ASSUME ReceptionInv, ClientReceivesPubrel
    PROVE  ReceptionInv'
<1>1. /\ IsConnected /\ reply = NoReply /\ toClient # << >>
      /\ Head(toClient).type = "PUBREL" /\ toClient' = Tail(toClient)
      /\ Head(toClient).type \in RequestTypes
  BY DEF ClientReceivesPubrel, Takes, RequestTypes
<1>2. PICK id \in PacketIds : id = Head(toClient).id
  BY <1>1, TakesRequest
<1>3. /\ peerOutgoing[id].state = "AwaitingPubcomp" /\ id \notin peerToResend
      /\ IsCharged(id) => incoming[id] = "AwaitingPubrel"
  BY <1>1, <1>2, TakesRequest DEF RequestOK
<1>4. WireTypeOK /\ EndsAgree(id)
  BY DEF ReceptionInv
<1>5. /\ incoming \in [PacketIds -> IncomingStates \cup {"None"}] /\ id \in 0..U16Max
      /\ copies \in [Messages -> Nat]
      /\ incoming[id] \in {"None", "AwaitingPubrel"}
  BY <1>3, <1>4, FlowTypes DEF EndsAgree
<1>6. /\ HandlePubrel(id)
      /\ reply' = IF PubrelResult(id) \in {"SendPubcomp", "ResendPubcomp"}
                  THEN Reply("PUBCOMP", id, PubrelResult(id) = "SendPubcomp")
                  ELSE NoReply
      /\ UNCHANGED <<ownSent, peerOutgoing, peerSeq, peerStored, peerToResend, toServer,
                     breaks, accepted, copies, completed>>
  BY <1>1, <1>2 DEF ClientReceivesPubrel, peerVars, deliveryVars
<1>7. /\ ComponentStep /\ UNCHANGED sesVars /\ UNCHANGED <<ownReceiveMaximum, incomingCount>>
  BY <1>6 DEF HandlePubrel, ComponentStep, QosNext, fcVars
<1>8. PubrelResult(id) = "SendPubcomp" <=> incoming[id] = "AwaitingPubrel"
  <2>1. CASE incoming[id] = "AwaitingPubrel"
    BY <2>1 DEF PubrelResult, HasIncoming
  <2>2. CASE incoming[id] = "None"
    BY <2>2 DEF PubrelResult, HasIncoming
  <2> QED
    BY <1>5, <2>1, <2>2
<1>9. incoming'[id] = "None" /\ \A j \in PacketIds : j # id => incoming'[j] = incoming[j]
  <2>1. incoming' = IF PubrelResult(id) = "SendPubcomp"
                    THEN [incoming EXCEPT ![id] = "None"] ELSE incoming
    BY <1>6 DEF HandlePubrel, QosPubrelReceived
  <2>2. CASE PubrelResult(id) = "SendPubcomp"
    BY <1>5, <2>1, <2>2
  <2>3. CASE PubrelResult(id) # "SendPubcomp"
    BY <1>5, <1>8, <2>1, <2>3
  <2> QED
    BY <2>2, <2>3
<1>10. EndsAgree(id)'
  BY <1>3, <1>4, <1>6, <1>9 DEF EndsAgree, Peer!HasOutgoing, IsDelivered
<1>11. /\ copies' \in [Messages -> Nat]
       /\ \A x \in Messages : IsDelivered(x)' <=> IsDelivered(x)
  BY <1>5, <1>6 DEF IsDelivered
<1>12. PICK r : r = reply'
  OBVIOUS
<1>13. \/ r = NoReply
       \/ /\ r.type = "PUBCOMP" /\ r.id = id
          /\ r.settles <=> PubrelResult(id) = "SendPubcomp"
          /\ r \in [type : {"None", "PUBACK", "PUBREC", "PUBCOMP"},
                    id : 0..U16Max, settles : BOOLEAN]
  <2>1. PICK settles \in BOOLEAN : settles = (PubrelResult(id) = "SendPubcomp")
    OBVIOUS
  <2>2. r = NoReply \/ r = Reply("PUBCOMP", id, settles)
    BY <1>6, <1>12, <2>1
  <2>3. "PUBCOMP" \in AnswerTypes
    BY DEF AnswerTypes
  <2>4. CASE r = Reply("PUBCOMP", id, settles)
    <3>1. /\ r \in [type : {"None", "PUBACK", "PUBREC", "PUBCOMP"},
                    id : 0..U16Max, settles : BOOLEAN]
          /\ r.type = "PUBCOMP" /\ r.id = id /\ r.settles = settles
      BY <1>5, <2>1, <2>3, <2>4, ReplyType, Zenon
    <3>2. r.settles <=> PubrelResult(id) = "SendPubcomp"
      BY <2>1, <3>1, Zenon
    <3> QED
      BY <3>1, <3>2
  <2> QED
    BY <2>2, <2>4
<1>14. r # NoReply => /\ r.id = id /\ r.type \in AnswerTypes /\ AnswerOK(r)'
                      /\ r.type = "PUBCOMP" /\ ~r.settles => ~IsCharged(id)
  BY <1>3, <1>6, <1>8, <1>9, <1>13 DEF AnswerOK, AnswerTypes
<1>15. r \in [type : {"None", "PUBACK", "PUBREC", "PUBCOMP"},
              id : 0..U16Max, settles : BOOLEAN]
  BY <1>13, NoReplyType
<1> QED
  BY <1>1, <1>2, <1>6, <1>7, <1>9, <1>10, <1>11, <1>12, <1>14, <1>15, ClientTakes

LEMMA ReplySentInv ==
    ASSUME ReceptionInv, ReplySent
    PROVE  ReceptionInv'
<1>1. /\ WireTypeOK /\ Bookkeeping /\ OnePacketPerId /\ WireOK /\ ReplyOK /\ NothingLost
      /\ ConnectionFacts /\ QuotaKept
  BY DEF ReceptionInv
<1>2. /\ IsConnected /\ reply # NoReply /\ reply' = NoReply
      /\ UNCHANGED <<ownSent, peerOutgoing, peerSeq, peerStored, peerToResend, toClient,
                     breaks, accepted, copies, completed>>
  BY DEF ReplySent, peerVars, deliveryVars
<1>3. PICK id \in PacketIds : id = reply.id
  BY <1>1, <1>2 DEF ReplyOK
<1>4. PICK type \in AnswerTypes : type = reply.type
  BY <1>1, <1>2 DEF ReplyOK
<1>5. /\ AnswerOK(reply) /\ id \notin peerToResend
      /\ \A p \in Requests : p.id # id
      /\ \A a \in Answers : a.id # id
  BY <1>1, <1>2, <1>3 DEF ReplyOK, AnswerOK, OnePacketPerId
<1>6. /\ type = "PUBACK" =>
            peerOutgoing[id].state = "AwaitingPuback" /\ IsDelivered(peerStored[id])
      /\ type = "PUBREC" =>
            peerOutgoing[id].state = "AwaitingPubrec" /\ incoming[id] = "AwaitingPubrel"
      /\ type = "PUBCOMP" =>
            peerOutgoing[id].state = "AwaitingPubcomp" /\ incoming[id] = "None"
  BY <1>3, <1>4, <1>5 DEF AnswerOK
<1>7. Peer!HasOutgoing(id) /\ EndsAgree(id)
      /\ incoming \in [PacketIds -> IncomingStates \cup {"None"}]
      /\ incomingCount \in Nat /\ copies \in [Messages -> Nat]
  BY <1>1, <1>6, FlowTypes DEF AnswerTypes, Peer!HasOutgoing, ReceptionInv
<1>8. /\ ComponentStep /\ UNCHANGED sesVars /\ UNCHANGED ownReceiveMaximum
      /\ type = "PUBACK" => incoming' = IF incoming[id] = "IncomingAwaitingPuback"
                                        THEN [incoming EXCEPT ![id] = "None"] ELSE incoming
      /\ type # "PUBACK" => incoming' = incoming
      /\ \/ incomingCount' = Decremented(incomingCount)
         \/ incomingCount' = incomingCount /\ type = "PUBREC"
         \/ incomingCount' = incomingCount /\ type = "PUBCOMP" /\ ~IsCharged(id)
  <2>1. CASE type = "PUBACK" /\ PubackSent(id)
    BY <2>1 DEF PubackSent, QosPubackSent, FcPublishAckSent, ComponentStep, QosNext, FcNext
  <2>2. CASE type = "PUBREC" /\ PubrecSent(FALSE)
    BY <2>2 DEF PubrecSent, ComponentStep, qosVars, fcVars
  <2>3. CASE type = "PUBCOMP" /\ PubcompSent
    BY <2>3 DEF PubcompSent, FcPublishAckSent, ComponentStep, FcNext, qosVars
  <2>4. CASE type = "PUBCOMP" /\ ~reply.settles /\ UNCHANGED sessionVars
    <3>1. ~IsCharged(id)
      BY <1>1, <1>2, <1>3, <1>4, <2>4 DEF ReplyOK
    <3> QED
      BY <2>4, <3>1 DEF sessionVars, qosVars, fcVars, sesVars, ComponentStep
  <2> QED
    BY <1>3, <1>4, <2>1, <2>2, <2>3, <2>4 DEF ReplySent
<1>9. /\ \A j \in PacketIds : j # id => incoming'[j] = incoming[j]
      /\ incoming'[id] \in {incoming[id], "None"}
      /\ type = "PUBACK" => incoming'[id] = "None"
      /\ type # "PUBACK" => incoming'[id] = incoming[id]
  <2>1. CASE type = "PUBACK" /\ incoming[id] = "IncomingAwaitingPuback"
    BY <1>7, <1>8, <2>1
  <2>2. CASE type = "PUBACK" /\ incoming[id] # "IncomingAwaitingPuback"
    BY <1>6, <1>7, <1>8, <2>2 DEF EndsAgree
  <2>3. CASE type # "PUBACK"
    BY <1>8, <2>3
  <2> QED
    BY <2>1, <2>2, <2>3
<1>10. \A x : IsDelivered(x)' <=> IsDelivered(x)
  BY <1>2 DEF IsDelivered
<1>11. EndsAgree(id)'
  BY <1>2, <1>6, <1>7, <1>9 DEF EndsAgree, Peer!HasOutgoing, IsDelivered
<1>12. /\ Bookkeeping'
       /\ \A j \in PacketIds : EndsAgree(j)'
       /\ MessagesTracked'
       /\ AcceptedInOrder'
       /\ \A p : p.id \in PacketIds /\ p.id # id /\ RequestOK(p) => RequestOK(p)'
       /\ \A a : a.id \in PacketIds /\ a.id # id /\ AnswerOK(a) => AnswerOK(a)'
  BY <1>2, <1>7, <1>9, <1>10, <1>11, ClientStep
<1>13. PICK packet \in ToServerPackets :
          toServer' = Append(toServer, packet) /\ packet.type = type /\ packet.id = id
  <2>1. /\ Packet(type, id) \in ToServerPackets
        /\ Packet(type, id).type = type /\ Packet(type, id).id = id
    BY DEF Packet, ToServerPackets
  <2> QED
    BY <1>3, <1>4, <2>1 DEF ReplySent
<1>14. /\ toServer' \in Seq(ToServerPackets)
       /\ Packets(toServer') = Packets(toServer) \cup {packet}
       /\ DistinctIds(toServer', AnswerTypes)
  <2>1. \A a \in Packets(toServer) : a.type \in AnswerTypes => a.id # packet.id
    BY <1>5, <1>13 DEF Answers
  <2> QED
    BY <1>13, <2>1, WireFacts, QueueAppend
<1>15. Answers' = Answers \cup {packet} /\ Requests' = Requests
  BY <1>2, <1>13, <1>14 DEF Answers, Requests
<1>16. UNCHANGED <<connectionState, cleanStart>> /\ IsConnected'
  BY <1>2, <1>8 DEF sesVars, IsConnected
<1>17. WireTypeOK'
  <2>1. SessionTypeOK'
    BY <1>8, WireFacts, SessionTypeKept
  <2> QED
    BY <1>1, <1>2, <1>14, <2>1, PeerType, NoReplyType, WireTypeKept
       DEF WireTypeOK, ReceptionTypeOK
<1>18. OnePacketPerId' /\ ReplyOK'
  BY <1>1, <1>2, <1>5, <1>13, <1>14, <1>15 DEF OnePacketPerId, ReplyOK, NoReply, Reply
<1>19. WireOK'
  <2>1. /\ \A p \in Requests : p.id \in PacketIds
        /\ \A a \in Answers : a.id \in PacketIds
    BY <1>1, PacketTypes DEF Requests, Answers
  <2>2. AnswerOK(packet)' /\ (packet.type = "PUBACK" => incoming'[packet.id] = "None")
    BY <1>2, <1>5, <1>6, <1>9, <1>13 DEF AnswerOK, IsDelivered
  <2>3. \A p \in Requests' : RequestOK(p)'
    BY <1>1, <1>5, <1>12, <1>15, <2>1 DEF WireOK
  <2>4. \A a \in Answers' : AnswerOK(a)' /\ (a.type = "PUBACK" => incoming'[a.id] = "None")
    BY <1>1, <1>5, <1>9, <1>12, <1>15, <2>1, <2>2 DEF WireOK
  <2> QED
    BY <1>2, <2>3, <2>4, WireFacts DEF WireOK
<1>20. NothingLost'
  BY <1>1, <1>2, <1>15 DEF NothingLost, PublishPending, IsDelivered
<1>21. ConnectionFacts'
  BY <1>1, <1>2, <1>16 DEF ConnectionFacts, IsCharged, Peer!HasOutgoing
<1>22. QuotaKept'
  <2>1. ChargedFlows' = ChargedFlows
    BY <1>2 DEF ChargedFlows, IsCharged
  <2>2. Counted \in SUBSET PacketIds /\ Counted' \in SUBSET PacketIds
    BY DEF Counted
  <2>3. Counted \ {id} \subseteq Counted' /\ (id \in Counted <=> IsCharged(id))
        /\ (type = "PUBREC" \/ ~IsCharged(id) => Counted \subseteq Counted')
    BY <1>2, <1>5, <1>13, <1>15 DEF Counted, IsCharged
  <2>4. incomingCount <= Cardinality(Counted)
    BY <1>1, <1>2 DEF QuotaKept
  <2>5. incomingCount' <= Cardinality(Counted')
    <3>1. CASE Counted \subseteq Counted' /\ incomingCount' <= incomingCount
               /\ incomingCount' \in Nat
      <4>1. /\ Cardinality(Counted) <= Cardinality(Counted')
            /\ Cardinality(Counted) \in Nat /\ Cardinality(Counted') \in Nat
        BY <2>2, <3>1, FlowSets
      <4> QED
        BY <1>7, <2>4, <3>1, <4>1
    <3>2. CASE id \in Counted /\ incomingCount' = Decremented(incomingCount)
      <4>1. Counted \ {id} \in SUBSET PacketIds
        BY <2>2
      <4>2. /\ Cardinality(Counted \ {id}) = Cardinality(Counted) - 1
            /\ Cardinality(Counted \ {id}) <= Cardinality(Counted')
            /\ Cardinality(Counted) \in Nat /\ Cardinality(Counted') \in Nat
            /\ Cardinality(Counted \ {id}) \in Nat
        BY <2>2, <2>3, <3>2, <4>1, FlowSets
      <4> QED
        BY <1>7, <2>4, <3>2, <4>2 DEF Decremented
    <3>3. Decremented(incomingCount) <= incomingCount /\ Decremented(incomingCount) \in Nat
      BY <1>7 DEF Decremented
    <3> QED
      BY <1>7, <1>8, <2>3, <3>1, <3>2, <3>3
  <2> QED
    BY <1>1, <1>2, <1>8, <1>16, <2>1, <2>5 DEF QuotaKept, IsConnected
<1> QED
  BY <1>12, <1>17, <1>18, <1>19, <1>20, <1>21, <1>22 DEF ReceptionInv

-----------------------------------------------------------------------------
(***************************************************************************)
(* The theorems                                                            *)
(***************************************************************************)

LEMMA ReceptionInvariant == ReceptionSpec => []ReceptionInv
<1>1. ReceptionInit => ReceptionInv
  BY ReceptionInitInv
<1>2. ReceptionInv /\ [ReceptionNext]_vars => ReceptionInv'
  <2> SUFFICES ASSUME ReceptionInv, [ReceptionNext]_vars PROVE ReceptionInv'
    OBVIOUS
  <2>1. CASE Open
    BY <2>1, OpenInv
  <2>2. CASE ConnackArrives
    BY <2>2, ConnackInv
  <2>3. CASE Break
    BY <2>3, BreakInv
  <2>4. CASE ServerResendsNext
    BY <2>4, ServerResendsInv DEF ServerResendsNext
  <2>5. CASE ServerReceives
    BY <2>5, ServerPubrecInv, ServerFinalAckInv, ServerPublishInv DEF ServerReceives
  <2>6. CASE ClientReceives
    BY <2>6, ClientPublishInv, ClientPubrelInv, ClientPubackInv DEF ClientReceives
  <2>7. CASE ReplySent
    BY <2>7, ReplySentInv
  <2>8. CASE \E max \in OwnMaxima : Configure(max)
    BY <2>8, ConfigureInv
  <2>9. CASE \E id \in PacketIds : OwnPublish(id) \/ OwnResend(id)
    BY <2>9, OwnPublishInv
  <2>10. CASE \E id \in PacketIds, m \in Messages : ServerPublishes(m, id)
    BY <2>10, ServerPublishesInv
  <2>11. CASE UNCHANGED vars
    BY <2>11, StutterInv
  <2> QED
    BY <2>1, <2>2, <2>3, <2>4, <2>5, <2>6, <2>7, <2>8, <2>9, <2>10, <2>11
       DEF ReceptionNext
<1> QED
  BY <1>1, <1>2, PTL DEF ReceptionSpec

(***************************************************************************)
(* Type correctness of both ends and the wire: the answers that the client *)
(* writes (puback_sent, pubrec_sent, pubcomp_sent) and the flows that the  *)
(* server keeps stay well-formed over every break and every own PUBLISH.   *)
(***************************************************************************)
THEOREM ReceptionTypeCorrect == ReceptionSpec => []ReceptionTypeOK
<1>1. ReceptionInv => ReceptionTypeOK
  BY DEF ReceptionInv, WireTypeOK
<1> QED
  BY <1>1, ReceptionInvariant, PTL

\* The packet that the client takes next, before it takes it
LEMMA HeadRequest ==
    ASSUME ReceptionInv, toClient # << >>, Head(toClient).type \in RequestTypes
    PROVE  /\ Head(toClient) \in Requests /\ Head(toClient).id \in PacketIds
           /\ RequestOK(Head(toClient)) /\ IsConnected
<1>1. /\ WireOK /\ IsConnected
  BY WireFacts DEF ReceptionInv
<1>2. Head(toClient) \in Packets(toClient)
  BY WireFacts, QueueTail
<1>3. Head(toClient) \in ToClientPackets
  BY WireFacts, HeadTailProperties
<1> QED
  BY <1>1, <1>2, <1>3 DEF WireOK, Requests, ToClientPackets

(***************************************************************************)
(* publish_received refuses no PUBLISH of a server that keeps to the       *)
(* Receive Maximum of the CONNECT: when a PUBLISH is next, the client      *)
(* counts fewer than own_receive_maximum of them, for every Receive        *)
(* Maximum, also after breaks that lost answers half-way.                  *)
(***************************************************************************)
THEOREM HonestServerNeverRefused == ReceptionSpec => []HonestServerAccepted
<1>1. ASSUME ReceptionInv, IsConnected, toClient # << >>, Head(toClient).type = "PUBLISH"
      PROVE  MayReceivePublish(Head(toClient).id)
  <2>1. PICK packet : packet = Head(toClient)
    OBVIOUS
  <2>2. /\ packet \in Requests /\ packet.type = "PUBLISH" /\ packet.id \in PacketIds
        /\ RequestOK(packet)
    BY <1>1, <2>1, HeadRequest DEF RequestTypes
  <2>3. packet.id \in ChargedFlows /\ packet.id \notin Counted
    BY <2>2 DEF RequestOK, ChargedFlows, Counted
  <2>4. Counted \subseteq ChargedFlows \ {packet.id}
    BY <2>3 DEF Counted, ChargedFlows
  <2>5. /\ ChargedFlows \in SUBSET PacketIds /\ ChargedFlows \ {packet.id} \in SUBSET PacketIds
        /\ Counted \in SUBSET PacketIds
    BY DEF ChargedFlows, Counted
  <2>6. /\ Cardinality(Counted) <= Cardinality(ChargedFlows \ {packet.id})
        /\ Cardinality(ChargedFlows \ {packet.id}) = Cardinality(ChargedFlows) - 1
        /\ Cardinality(ChargedFlows) \in Nat /\ Cardinality(Counted) \in Nat
    BY <2>2, <2>3, <2>4, <2>5, FlowSets
  <2>7. /\ incomingCount <= Cardinality(Counted)
        /\ Cardinality(ChargedFlows) <= ownReceiveMaximum
    BY <1>1 DEF ReceptionInv, QuotaKept
  <2>8. incomingCount \in Nat /\ ownReceiveMaximum \in Nat
    BY <1>1, FlowTypes DEF ReceptionInv
  <2>9. incomingCount < ownReceiveMaximum
    BY <2>6, <2>7, <2>8
  <2> QED
    BY <2>9 DEF MayReceivePublish, CanReceive
<1>2. ReceptionInv => HonestServerAccepted
  BY <1>1 DEF HonestServerAccepted
<1> QED
  BY <1>2, ReceptionInvariant, PTL

-----------------------------------------------------------------------------
(***************************************************************************)
(* The refinement                                                          *)
(***************************************************************************)

\* Everything accepted before the message at the head of the line arrived.
LEMMA ReceivedInOrder ==
    ASSUME ReceptionInv, toClient # << >>, Head(toClient).type = "PUBLISH",
           NEW i \in 1..Len(accepted), accepted[i] = Head(toClient).message,
           NEW j \in 1..(i - 1)
    PROVE  IsDelivered(accepted[j])
<1>1. WireTypeOK /\ Bookkeeping /\ MessagesTracked /\ AcceptedInOrder /\ WireOK
      /\ NothingLost /\ ConnectionFacts
  BY DEF ReceptionInv
<1>2. PICK id \in PacketIds : id = Head(toClient).id
  BY HeadRequest DEF RequestTypes
<1>3. /\ PublishPending(id) /\ peerStored[id] = accepted[i] /\ IsConnected
      /\ \A q \in peerToResend : Earlier(id, q)
  BY <1>1, <1>2, HeadRequest DEF RequestOK, ConnectionFacts, RequestTypes
<1>4. j \in 1..Len(accepted) /\ j < i /\ accepted[j] \in Messages
  <2>1. accepted \in Seq(Messages)
    BY <1>1 DEF WireTypeOK
  <2>2. Len(accepted) \in Nat /\ DOMAIN accepted = 1..Len(accepted)
    BY <2>1, LenProperties
  <2>3. j \in 1..Len(accepted) /\ j < i
    BY <2>2
  <2> QED
    BY <2>1, <2>3, ElementOfSeq
<1> SUFFICES ASSUME ~IsDelivered(accepted[j]) PROVE FALSE
  OBVIOUS
<1>5. PICK q \in PacketIds : peerStored[q] = accepted[j]
  BY <1>1, <1>4 DEF MessagesTracked
<1>6. Peer!HasOutgoing(q) /\ EndsAgree(q)
  BY <1>1, <1>4, <1>5, ReceptionAssumption DEF Bookkeeping, ReceptionInv
<1>7. PublishPending(q)
  BY <1>1, <1>5, <1>6, FlowTypes
     DEF EndsAgree, PublishPending, Peer!HasOutgoing, OutgoingStates
<1>8. Earlier(q, id)
  BY <1>1, <1>3, <1>4, <1>5, <1>7 DEF AcceptedInOrder
<1>9. peerOutgoing[q].seq \in Nat /\ peerOutgoing[id].seq \in Nat
  BY <1>1, FlowTypes
<1>10. ~Earlier(id, q) /\ q # id
  BY <1>8, <1>9 DEF Earlier
<1>11. PICK p \in Requests : p.type = "PUBLISH" /\ p.id = q
  BY <1>1, <1>3, <1>5, <1>7, <1>10 DEF NothingLost
<1>12. \A x \in Packets(toClient) : x.type = "PUBLISH" /\ x # Head(toClient) =>
           peerOutgoing[Head(toClient).id].seq < peerOutgoing[x.id].seq
  BY WireFacts, InOrderTail
<1> QED
  BY <1>2, <1>10, <1>11, <1>12 DEF Earlier, Requests

\* The first arrival of a message delivers it, a later one only with QoS 1.
LEMMA ReceiptRefines ==
    ASSUME ReceptionInv, ClientReceivesPublish
    PROVE  \/ \E m \in Messages : Abstract!Deliver(m) \/ Abstract!Redeliver(m)
           \/ UNCHANGED Abstract!deliveryVars
<1>1. toClient # << >> /\ Head(toClient).type = "PUBLISH"
  BY DEF ClientReceivesPublish, Takes
<1>2. PICK packet : packet = Head(toClient)
  OBVIOUS
<1>3. PICK id \in PacketIds : id = packet.id
  BY <1>1, <1>2, HeadRequest DEF RequestTypes
<1>4. PICK m : m = packet.message
  OBVIOUS
<1>5. PublishPending(id) /\ m = peerStored[id]
  BY <1>1, <1>2, <1>3, <1>4, HeadRequest DEF RequestOK, RequestTypes
<1>6. /\ WireTypeOK /\ EndsAgree(id) /\ MessagesTracked /\ Bookkeeping
      /\ Peer!HasOutgoing(id)
  BY <1>5 DEF ReceptionInv, PublishPending, Peer!HasOutgoing
<1>7. /\ copies' = IF m \in OnceMessages /\ incoming[id] # "None"
                   THEN copies ELSE [copies EXCEPT ![m] = @ + 1]
      /\ UNCHANGED <<accepted, completed>>
  BY <1>2, <1>3, <1>4 DEF ClientReceivesPublish, HasIncoming
<1>8. /\ m \in Messages /\ copies \in [Messages -> Nat] /\ copies[m] \in Nat
      /\ accepted \in Seq(Messages)
  BY <1>5, <1>6, FlowTypes DEF WireTypeOK, Bookkeeping
<1>9. CASE copies[m] = 0
  <2>1. ~IsDelivered(peerStored[id])
    BY <1>5, <1>9 DEF IsDelivered
  <2>2. ~(m \in OnceMessages /\ incoming[id] # "None")
    BY <1>5, <1>6, <2>1 DEF EndsAgree, PublishPending
  <2>3. copies' = [copies EXCEPT ![m] = 1]
    BY <1>7, <1>8, <1>9, <2>2
  <2>4. PICK i \in 1..Len(accepted) : accepted[i] = m
    BY <1>5, <1>6, <1>8, LenProperties DEF MessagesTracked, Abstract!IsAccepted
  <2>5. \A j \in 1..(i - 1) : copies[accepted[j]] > 0
    BY <1>1, <1>2, <1>4, <2>4, ReceivedInOrder DEF IsDelivered
  <2>6. Abstract!Deliver(m)
    BY <1>7, <1>8, <1>9, <2>3, <2>4, <2>5, LenProperties DEF Abstract!Deliver
  <2> QED
    BY <1>8, <2>6
<1>10. CASE copies[m] > 0
  <2>1. IsDelivered(peerStored[id])
    BY <1>5, <1>10 DEF IsDelivered
  <2>2. CASE m \in OnceMessages
    <3>1. incoming[id] # "None"
      BY <1>5, <1>6, <2>1, <2>2 DEF EndsAgree, PublishPending
    <3> QED
      BY <1>7, <2>2, <3>1 DEF Abstract!deliveryVars
  <2>3. CASE m \notin OnceMessages
    <3>1. m \notin completed
      BY <1>5, <1>6 DEF MessagesTracked
    <3>2. Abstract!Redeliver(m)
      BY <1>7, <1>10, <2>3, <3>1 DEF Abstract!Redeliver
    <3> QED
      BY <1>8, <3>2
  <2> QED
    BY <2>2, <2>3
<1> QED
  BY <1>8, <1>9, <1>10

LEMMA AckRefines ==
    ASSUME ReceptionInv, ServerReceivesAck
    PROVE  \/ \E m \in Messages : Abstract!Complete(m)
           \/ UNCHANGED Abstract!deliveryVars
<1>1. UNCHANGED <<accepted, copies>>
  BY DEF ServerReceivesAck
<1>2. CASE Head(toServer).type = "PUBREC"
  <2>1. UNCHANGED completed
    BY <1>2 DEF ServerReceivesAck
  <2> QED
    BY <1>1, <2>1 DEF Abstract!deliveryVars
<1>3. CASE Head(toServer).type # "PUBREC"
  <2>1. PICK id \in PacketIds :
            /\ Peer!HasOutgoing(id)
            /\ peerStored[id] \in Messages /\ IsDelivered(peerStored[id])
            /\ completed' = completed \cup {peerStored[id]}
    BY <1>3, FinalAckCompletes
  <2>2. peerStored[id] \notin completed
    BY <2>1 DEF ReceptionInv, MessagesTracked
  <2>3. Abstract!Complete(peerStored[id])
    BY <1>1, <2>1, <2>2 DEF Abstract!Complete, IsDelivered
  <2> QED
    BY <2>1, <2>3
<1> QED
  BY <1>2, <1>3

(***************************************************************************)
(* The client receives what the server sends exactly once with QoS 2 and   *)
(* at least once with QoS 1 (handle_publish_qos1, handle_publish_qos2,     *)
(* handle_pubrel), for the first time in the order of sending and before   *)
(* the server's flow ends, over any number of breaks and whatever the      *)
(* client publishes with the same identifiers at the same time.            *)
(***************************************************************************)
THEOREM ReceptionRefines == ReceptionSpec => ReceivesOnce
<1>1. ReceptionInit => Abstract!Init
  BY DEF ReceptionInit
<1>2. ReceptionInv /\ [ReceptionNext]_vars => [Abstract!Next]_(Abstract!deliveryVars)
  <2> SUFFICES ASSUME ReceptionInv, [ReceptionNext]_vars
               PROVE  Abstract!Next \/ UNCHANGED Abstract!deliveryVars
    OBVIOUS
  <2>1. CASE \E id \in PacketIds, m \in Messages : ServerPublishes(m, id)
    <3>1. PICK id \in PacketIds, m \in Messages : ServerPublishes(m, id)
      BY <2>1
    <3>2. Abstract!Accept(m)
      BY <3>1 DEF ServerPublishes, Abstract!Accept
    <3> QED
      BY <3>2 DEF Abstract!Next
  <2>2. CASE ClientReceivesPublish
    BY <2>2, ReceiptRefines DEF Abstract!Next
  <2>3. CASE ServerReceivesAck
    BY <2>3, AckRefines DEF Abstract!Next
  <2>4. CASE UNCHANGED deliveryVars
    BY <2>4 DEF deliveryVars, Abstract!deliveryVars
  <2>5. CASE \/ Open \/ ConnackArrives \/ Break \/ ServerResendsNext
             \/ ServerReceivesPublish \/ ClientReceivesPubrel \/ ClientReceivesPuback
             \/ ReplySent
    BY <2>4, <2>5 DEF Open, ConnackArrives, Break, ServerResendsNext, ServerResends,
       ServerReceivesPublish, ClientReceivesPubrel, ClientReceivesPuback, ReplySent
  <2>6. CASE \/ \E max \in OwnMaxima : Configure(max)
             \/ \E id \in PacketIds : OwnPublish(id) \/ OwnResend(id)
    BY <2>4, <2>6 DEF Configure, OwnPublish, OwnResend
  <2>7. CASE UNCHANGED vars
    BY <2>4, <2>7 DEF vars
  <2> QED
    BY <2>1, <2>2, <2>3, <2>5, <2>6, <2>7
       DEF ReceptionNext, ClientReceives, ServerReceives
<1> QED
  BY <1>1, <1>2, ReceptionInvariant, PTL DEF ReceptionSpec, ReceivesOnce, Abstract!SafetySpec

=============================================================================
