----------------------------- MODULE V311Packets -----------------------------
(***************************************************************************)
(* The packets of MQTT v3.1.1 (v311/): what encode accepts, the length it  *)
(* announces, the bytes it writes, and what decode makes of bytes.  They   *)
(* have no properties, and a packet that only confirms is its identifier.  *)
(* A packet is a record with the fields of its struct and its type, an     *)
(* Option is a sequence of length 0 or 1, a return code is its number.     *)
(***************************************************************************)
EXTENDS Wire

MqttName == <<77, 81, 84, 84>>

StringLen(string) == 2 + Len(string)

\* A topic name: at least one character, and no wildcard
IsTopicName(topic) == topic # << >> /\ ~HasWildcard(topic)

-----------------------------------------------------------------------------
(***************************************************************************)
(* CONNECT and CONNACK                                                     *)
(***************************************************************************)

ValidConnect(p) ==
    /\ p.password # << >> => p.username # << >>
    /\ p.clientId = << >> => p.cleanSession
    /\ ValidString(p.clientId)
    /\ \A i \in DOMAIN p.will :
          /\ IsTopicName(p.will[i].topic) /\ ValidString(p.will[i].topic)
          /\ ValidBinary(p.will[i].payload)
    /\ \A i \in DOMAIN p.username : ValidString(p.username[i])
    /\ \A i \in DOMAIN p.password : ValidBinary(p.password[i])

WillLen(will) == StringLen(will.topic) + StringLen(will.payload)

ConnectLen(p) ==
    10 + StringLen(p.clientId) + SumOf(WillLen, p.will)
       + SumOf(StringLen, p.username) + SumOf(StringLen, p.password)

WillFlags(will) == 4 + 8 * will.qos + Flag(will.retain, 5)

ConnectFlags(p) ==
    Flag(p.cleanSession, 1) + SumOf(WillFlags, p.will)
        + Flag(p.password # << >>, 6) + Flag(p.username # << >>, 7)

EncodeWill(will) == EncodeBinary(will.topic) \o EncodeBinary(will.payload)

EncodeConnect(p) ==
    Written(<<EncodeFixedHeader(1, 0, ConnectLen(p)), EncodeBinary(MqttName),
              <<4, ConnectFlags(p)>>, EncodeU16(p.keepAlive),
              EncodeBinary(p.clientId), EncodeEach(EncodeWill, p.will),
              EncodeEach(EncodeBinary, p.username),
              EncodeEach(EncodeBinary, p.password)>>)

NamesTopic(r) == Require(r, IsTopicName(r.value))

DecodeWill(flags, r) ==
    LET topic == Keep(NamesTopic(FieldString(Inner(r))), "topic")
        payload == Keep(FieldBinary(topic), "payload")
        qos == (flags \div 8) % 4
    IN  Built(Require(payload, qos \in QoSLevels), r,
              LAMBDA f : [topic |-> f.topic, payload |-> f.payload, qos |-> qos,
                          retain |-> Bit(flags, 5) = 1])

ReservedFlagClear(r) == Require(r, Bit(r.fields.flags, 0) = 0)
HasConsistentFields(r) ==
    Require(r, /\ r.fields.password # << >> => r.fields.username # << >>
               /\ r.fields.will = << >> => (r.fields.flags \div 8) % 8 = 0
               /\ r.fields.clientId = << >> => Bit(r.fields.flags, 1) = 1)

DecodeConnect(bytes) ==
    LET name == OneOf(FieldString(DecodeFixedHeader(bytes, 1, {0})), {MqttName})
        level == OneOf(FieldU8(name), {4})
        flags == Keep(FieldU8(level), "flags")
        keepAlive == Keep(FieldU16(flags), "keepAlive")
        clientId == ReservedFlagClear(Keep(FieldString(keepAlive), "clientId"))
        will == Keep(DecodeFlagged(clientId, 2,
                         LAMBDA s : DecodeWill(s.fields.flags, s)), "will")
        username == Keep(DecodeFlagged(will, 7, FieldString), "username")
        password == Keep(DecodeFlagged(username, 6, FieldBinary), "password")
    IN  Decoded(AtEnd(HasConsistentFields(password)), LAMBDA f :
            [type |-> "CONNECT", clientId |-> f.clientId,
             cleanSession |-> Bit(f.flags, 1) = 1, keepAlive |-> f.keepAlive,
             will |-> f.will, username |-> f.username, password |-> f.password])

ConnectReturnCodes == 0..5

ValidConnack(p) == p.sessionPresent => p.returnCode = 0

EncodeConnack(p) ==
    EncodeFixedHeader(2, 0, 2) \o <<Flag(p.sessionPresent, 0), p.returnCode>>

\* A connection that is refused has no session.
SessionIfAccepted(r) == Require(r, r.fields.returnCode = 0 \/ r.fields.flags = 0)

DecodeConnack(bytes) ==
    LET flags == Keep(OneOf(FieldU8(DecodeFixedHeader(bytes, 2, {0})), {0, 1}), "flags")
        returnCode == Keep(OneOf(FieldU8(flags), ConnectReturnCodes), "returnCode")
    IN  Decoded(AtEnd(SessionIfAccepted(returnCode)), LAMBDA f :
            [type |-> "CONNACK", sessionPresent |-> f.flags = 1,
             returnCode |-> f.returnCode])

-----------------------------------------------------------------------------
(***************************************************************************)
(* PUBLISH                                                                 *)
(***************************************************************************)

ValidPublish(p) ==
    /\ IsTopicName(p.topic) /\ ValidString(p.topic)
    /\ p.qos = 0 <=> p.packetId = << >>
    /\ p.packetId # <<0>>
    /\ p.qos = 0 => ~p.dup

\* Mutant: the identifier counts for QoS 2 only.
PublishLenQos2(p) ==
    StringLen(p.topic) + (IF p.qos = 2 THEN 2 ELSE 0) + Len(p.payload)

PublishLen(p) ==
    StringLen(p.topic) + (IF p.qos # 0 THEN 2 ELSE 0) + Len(p.payload)

EncodePublish(p) ==
    Written(<<EncodeFixedHeader(3, Flag(p.dup, 3) + 2 * p.qos + Flag(p.retain, 0),
                                PublishLen(p)),
              EncodeBinary(p.topic), EncodeEach(EncodeU16, p.packetId), p.payload>>)

\* Mutant: DUP may come with QoS 0.
PublishFlagsAnyDup == {f \in 0..15 : (f \div 2) % 4 \in QoSLevels}

\* The flags of a PUBLISH: no QoS of 3, and no DUP with QoS 0
PublishFlags ==
    {f \in 0..15 : (f \div 2) % 4 \in QoSLevels /\ ~((f \div 2) % 4 = 0 /\ Bit(f, 3) = 1)}

DecodePublish(bytes) ==
    LET flags == bytes[1] % 16
        qos == (flags \div 2) % 4
        header == DecodeFixedHeader(bytes, 3, PublishFlags)
        topic == Keep(NamesTopic(FieldString(header)), "topic")
        packetId == Keep(DecodeOption(topic, qos # 0, DecodePacketId), "packetId")
    IN  Decoded(Keep(DecodeRest(packetId), "payload"), LAMBDA f :
            [type |-> "PUBLISH", dup |-> Bit(flags, 3) = 1, qos |-> qos,
             retain |-> Bit(flags, 0) = 1, topic |-> f.topic,
             packetId |-> f.packetId, payload |-> f.payload])

-----------------------------------------------------------------------------
(***************************************************************************)
(* The packets without a body and those with an identifier                 *)
(***************************************************************************)

\* encode_empty
EncodeEmpty(type) == EncodeFixedHeader(type, 0, 0)

\* decode_empty does not wait for a body that may not be there.
FlagsClear(r) == RefuseIf(r, r.value % 16 # 0, "InvalidPacketFlags")
DecodeEmpty(bytes, type, name) ==
    LET length == DecodeVariableByteInteger(FlagsClear(DecodeU8(Reader(bytes))))
    IN  Decoded(OneOf(length, {0}), LAMBDA f : [type |-> name])

\* encode_simple_ack
EncodeSimpleAck(type, flags, p) ==
    EncodeFixedHeader(type, flags, 2) \o EncodeU16(p.packetId)

\* decode_simple_ack
DecodeSimpleAck(bytes, type, flags, name) ==
    LET packetId == DecodePacketId(DecodeFixedHeader(bytes, type, {flags}))
    IN  Decoded(AtEnd(Keep(packetId, "packetId")),
                LAMBDA f : [type |-> name, packetId |-> f.packetId])

EncodePuback(p) == EncodeSimpleAck(4, 0, p)
EncodePubrec(p) == EncodeSimpleAck(5, 0, p)
EncodePubrel(p) == EncodeSimpleAck(6, 2, p)
EncodePubcomp(p) == EncodeSimpleAck(7, 0, p)
EncodeUnsuback(p) == EncodeSimpleAck(11, 0, p)

DecodePuback(bytes) == DecodeSimpleAck(bytes, 4, 0, "PUBACK")
DecodePubrec(bytes) == DecodeSimpleAck(bytes, 5, 0, "PUBREC")
DecodePubrel(bytes) == DecodeSimpleAck(bytes, 6, 2, "PUBREL")
DecodePubcomp(bytes) == DecodeSimpleAck(bytes, 7, 0, "PUBCOMP")
DecodeUnsuback(bytes) == DecodeSimpleAck(bytes, 11, 0, "UNSUBACK")

EncodePingreq(p) == EncodeEmpty(12)
EncodePingresp(p) == EncodeEmpty(13)
EncodeDisconnect(p) == EncodeEmpty(14)

DecodePingreq(bytes) == DecodeEmpty(bytes, 12, "PINGREQ")
DecodePingresp(bytes) == DecodeEmpty(bytes, 13, "PINGRESP")
DecodeDisconnect(bytes) == DecodeEmpty(bytes, 14, "DISCONNECT")

-----------------------------------------------------------------------------
(***************************************************************************)
(* SUBSCRIBE, SUBACK and UNSUBSCRIBE                                       *)
(***************************************************************************)

ValidFilter(filter) == IsValidTopicFilter(filter) /\ ValidString(filter)

ValidSubscribe(p) ==
    /\ p.packetId # 0
    /\ p.topicFilters # << >>
    /\ \A i \in DOMAIN p.topicFilters : ValidFilter(p.topicFilters[i].topicFilter)

SubscriptionLen(s) == StringLen(s.topicFilter) + 1

SubscribeLen(p) == 2 + SumOf(SubscriptionLen, p.topicFilters)

EncodeSubscription(s) == Append(EncodeBinary(s.topicFilter), s.qos)

EncodeSubscribe(p) ==
    Written(<<EncodeFixedHeader(8, 2, SubscribeLen(p)), EncodeU16(p.packetId),
              EncodeEach(EncodeSubscription, p.topicFilters)>>)

\* A turn of the loop of decode
IsTopicFilter(r) == Require(r, IsValidTopicFilter(r.value))
DecodeFilter(r) == IsTopicFilter(FieldString(r))

\* Mutant: the reserved bits beside the QoS are not looked at.
DecodeSubscriptionMasked(r) ==
    LET filter == Keep(DecodeFilter(Inner(r)), "filter")
        options == Keep(FieldU8(filter), "options")
    IN  Built(OneOf(options, {o \in 0..255 : o % 4 \in QoSLevels}), r,
              LAMBDA f : [topicFilter |-> f.filter, qos |-> f.options % 4])

\* A turn of the loop of decode
DecodeSubscription(r) ==
    LET filter == Keep(DecodeFilter(Inner(r)), "filter")
        options == Keep(FieldU8(filter), "options")
    IN  Built(OneOf(options, QoSLevels), r,
              LAMBDA f : [topicFilter |-> f.filter, qos |-> f.options])

\* The loop finds at least one element.
DecodeList(Decode(_), r, field) ==
    Keep(NonEmpty(DecodeAll(Decode, r)), field)

DecodeSubscribe(bytes) ==
    LET packetId == Keep(DecodePacketId(DecodeFixedHeader(bytes, 8, {2})), "packetId")
    IN  Decoded(DecodeList(DecodeSubscription, packetId, "filters"), LAMBDA f :
            [type |-> "SUBSCRIBE", packetId |-> f.packetId, topicFilters |-> f.filters])

ValidUnsubscribe(p) ==
    /\ p.packetId # 0
    /\ p.topicFilters # << >>
    /\ \A i \in DOMAIN p.topicFilters : ValidFilter(p.topicFilters[i])

UnsubscribeLen(p) == 2 + SumOf(StringLen, p.topicFilters)

EncodeUnsubscribe(p) ==
    Written(<<EncodeFixedHeader(10, 2, UnsubscribeLen(p)), EncodeU16(p.packetId),
              EncodeEach(EncodeBinary, p.topicFilters)>>)

DecodeUnsubscribe(bytes) ==
    LET packetId == Keep(DecodePacketId(DecodeFixedHeader(bytes, 10, {2})), "packetId")
    IN  Decoded(DecodeList(DecodeFilter, packetId, "filters"), LAMBDA f :
            [type |-> "UNSUBSCRIBE", packetId |-> f.packetId, topicFilters |-> f.filters])

SubscribeReturnCodes == {0, 1, 2, 128}

ValidSuback(p) == p.packetId # 0 /\ p.returnCodes # << >>

EncodeSuback(p) ==
    Written(<<EncodeFixedHeader(9, 0, 2 + Len(p.returnCodes)),
              EncodeU16(p.packetId), p.returnCodes>>)

\* A turn of the loop of decode
DecodeReturnCode(r) == OneOf(DecodeU8(r), SubscribeReturnCodes)

DecodeSuback(bytes) ==
    LET packetId == Keep(DecodePacketId(DecodeFixedHeader(bytes, 9, {0})), "packetId")
    IN  Decoded(DecodeList(DecodeReturnCode, packetId, "codes"), LAMBDA f :
            [type |-> "SUBACK", packetId |-> f.packetId, returnCodes |-> f.codes])

-----------------------------------------------------------------------------
(***************************************************************************)
(* All packets (packet.rs)                                                 *)
(***************************************************************************)

\* encode does not refuse the packet.
V311Valid(p) ==
    CASE p.type = "CONNECT" -> ValidConnect(p)
      [] p.type = "CONNACK" -> ValidConnack(p)
      [] p.type = "PUBLISH" -> ValidPublish(p)
      [] p.type = "SUBSCRIBE" -> ValidSubscribe(p)
      [] p.type = "SUBACK" -> ValidSuback(p)
      [] p.type = "UNSUBSCRIBE" -> ValidUnsubscribe(p)
      [] p.type \in {"PINGREQ", "PINGRESP", "DISCONNECT"} -> TRUE
      [] OTHER -> p.packetId # 0

\* Packet::encode
V311Encode(p) ==
    CASE p.type = "CONNECT" -> EncodeConnect(p)
      [] p.type = "CONNACK" -> EncodeConnack(p)
      [] p.type = "PUBLISH" -> EncodePublish(p)
      [] p.type = "PUBACK" -> EncodePuback(p)
      [] p.type = "PUBREC" -> EncodePubrec(p)
      [] p.type = "PUBREL" -> EncodePubrel(p)
      [] p.type = "PUBCOMP" -> EncodePubcomp(p)
      [] p.type = "SUBSCRIBE" -> EncodeSubscribe(p)
      [] p.type = "SUBACK" -> EncodeSuback(p)
      [] p.type = "UNSUBSCRIBE" -> EncodeUnsubscribe(p)
      [] p.type = "UNSUBACK" -> EncodeUnsuback(p)
      [] p.type = "PINGREQ" -> EncodePingreq(p)
      [] p.type = "PINGRESP" -> EncodePingresp(p)
      [] p.type = "DISCONNECT" -> EncodeDisconnect(p)

\* IncomingPacket::decode: the packets that only a client sends are refused.
V311IncomingDecode(bytes) ==
    IF bytes = << >> THEN [status |-> "InsufficientData"]
    ELSE LET type == bytes[1] \div 16
         IN  CASE type = 2 -> DecodeConnack(bytes)
               [] type = 3 -> DecodePublish(bytes)
               [] type = 4 -> DecodePuback(bytes)
               [] type = 5 -> DecodePubrec(bytes)
               [] type = 6 -> DecodePubrel(bytes)
               [] type = 7 -> DecodePubcomp(bytes)
               [] type = 9 -> DecodeSuback(bytes)
               [] type = 11 -> DecodeUnsuback(bytes)
               [] type = 13 -> DecodePingresp(bytes)
               [] type \in {1, 8, 10, 12, 14} -> [status |-> "UnexpectedPacket"]
               [] type \in {0, 15} -> [status |-> "InvalidPacketType"]

\* codec::Packet::decode: the packets of both directions
V311Decode(bytes) ==
    IF bytes = << >> THEN [status |-> "InsufficientData"]
    ELSE LET type == bytes[1] \div 16
         IN  CASE type = 1 -> DecodeConnect(bytes)
               [] type = 8 -> DecodeSubscribe(bytes)
               [] type = 10 -> DecodeUnsubscribe(bytes)
               [] type = 12 -> DecodePingreq(bytes)
               [] type = 14 -> DecodeDisconnect(bytes)
               [] OTHER -> V311IncomingDecode(bytes)

=============================================================================
