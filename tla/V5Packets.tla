------------------------------ MODULE V5Packets ------------------------------
(***************************************************************************)
(* The packets of MQTT v5.0 (v5/): for each of them what encode accepts    *)
(* (validate), the length it announces (encoded_len), the bytes it writes  *)
(* (encode) and what decode makes of bytes.  Client packets are validated  *)
(* for the client's direction, received ones for the server's.             *)
(*                                                                         *)
(* A packet is a record with the fields of its struct and its type, a      *)
(* reason code is its number.                                              *)
(***************************************************************************)
EXTENDS V5Properties

MqttName == <<77, 81, 84, 84>>

StringLen(string) == 2 + Len(string)

\* A Payload Format Indicator of 1 promises a payload in UTF-8.
PayloadAsIndicated(properties, payload) ==
    [id |-> PayloadFormatIndicator, value |-> 1] \in Elements(properties) =>
        IsUtf8(payload)

-----------------------------------------------------------------------------
(***************************************************************************)
(* CONNECT                                                                 *)
(***************************************************************************)

ValidWill(will) ==
    /\ will.topic # << >> /\ ~HasWildcard(will.topic) /\ ValidString(will.topic)
    /\ ValidProperties(will.properties, WillProperties, FALSE)
    /\ PayloadAsIndicated(will.properties, will.payload)
    /\ ValidBinary(will.payload)

ValidConnect(p) ==
    /\ \A i \in DOMAIN p.will : ValidWill(p.will[i])
    /\ ValidProperties(p.properties, ConnectProperties, FALSE)
    /\ DataWithMethod(p.properties)
    /\ ValidString(p.clientId)
    /\ \A i \in DOMAIN p.username : ValidString(p.username[i])
    /\ \A i \in DOMAIN p.password : ValidBinary(p.password[i])

WillLen(will) ==
    PropertiesLen(will.properties) + StringLen(will.topic) + StringLen(will.payload)

ConnectLen(p) ==
    10 + PropertiesLen(p.properties) + StringLen(p.clientId)
       + SumOf(WillLen, p.will) + SumOf(StringLen, p.username)
       + SumOf(StringLen, p.password)

WillFlags(will) == 4 + 8 * will.qos + Flag(will.retain, 5)

ConnectFlags(p) ==
    Flag(p.cleanStart, 1) + SumOf(WillFlags, p.will)
        + Flag(p.password # << >>, 6) + Flag(p.username # << >>, 7)

EncodeWill(will) ==
    EncodeProperties(will.properties) \o EncodeBinary(will.topic)
        \o EncodeBinary(will.payload)

EncodeConnect(p) ==
    Written(<<EncodeFixedHeader(1, 0, ConnectLen(p)), EncodeBinary(MqttName),
              <<5, ConnectFlags(p)>>, EncodeU16(p.keepAlive),
              EncodeProperties(p.properties), EncodeBinary(p.clientId),
              EncodeEach(EncodeWill, p.will), EncodeEach(EncodeBinary, p.username),
              EncodeEach(EncodeBinary, p.password)>>)

NamesTopic(r) == Require(r, r.value # << >> /\ ~HasWildcard(r.value))

DecodeWill(flags, r) ==
    LET properties == Keep(DecodeProperties(Inner(r), WillProperties), "properties")
        topic == Keep(NamesTopic(FieldString(properties)), "topic")
        payload == Keep(FieldBinary(topic), "payload")
        qos == (flags \div 8) % 4
    IN  Built(Require(payload, qos \in QoSLevels), r,
              LAMBDA f : [topic |-> f.topic, payload |-> f.payload, qos |-> qos,
                          retain |-> Bit(flags, 5) = 1, properties |-> f.properties])

\* Mutant: the reserved flag is not looked at, nor what the Will leaves zero.
AcceptAnyConnectFlags(flags, will) == TRUE

ConnectFlagsConsistent(flags, will) ==
    /\ Bit(flags, 0) = 0
    /\ will = << >> => (flags \div 8) % 8 = 0

HasDataWithMethod(r) == Require(r, DataWithMethod(r.value))
HasConsistentFlags(r) ==
    Require(r, ConnectFlagsConsistent(r.fields.flags, r.fields.will))

DecodeConnect(bytes) ==
    LET name == OneOf(FieldString(DecodeFixedHeader(bytes, 1, {0})), {MqttName})
        level == OneOf(FieldU8(name), {5})
        flags == Keep(FieldU8(level), "flags")
        keepAlive == Keep(FieldU16(flags), "keepAlive")
        properties == Keep(DecodeProperties(keepAlive, ConnectProperties), "properties")
        clientId == Keep(FieldString(HasDataWithMethod(properties)), "clientId")
        will == Keep(DecodeFlagged(clientId, 2,
                         LAMBDA s : DecodeWill(s.fields.flags, s)), "will")
        username == Keep(DecodeFlagged(will, 7, FieldString), "username")
        password == Keep(DecodeFlagged(username, 6, FieldBinary), "password")
    IN  Decoded(AtEnd(HasConsistentFlags(password)), LAMBDA f :
            [type |-> "CONNECT", clientId |-> f.clientId,
             cleanStart |-> Bit(f.flags, 1) = 1, keepAlive |-> f.keepAlive,
             properties |-> f.properties, will |-> f.will,
             username |-> f.username, password |-> f.password])

-----------------------------------------------------------------------------
(***************************************************************************)
(* CONNACK                                                                 *)
(***************************************************************************)

ConnectReasonCodes ==
    {0} \cup 128..138 \cup {140, 144, 149, 151} \cup 153..157 \cup {159}

ValidConnack(p) ==
    /\ p.sessionPresent => p.reasonCode = 0
    /\ ValidProperties(p.properties, ConnackProperties, FALSE)

ConnackLen(p) == 1 + 1 + PropertiesLen(p.properties)

EncodeConnack(p) ==
    Written(<<EncodeFixedHeader(2, 0, ConnackLen(p)),
              <<Flag(p.sessionPresent, 0), p.reasonCode>>,
              EncodeProperties(p.properties)>>)

\* A connection that is refused has no session.
SessionIfAccepted(r) == Require(r, r.fields.reasonCode = 0 \/ r.fields.flags = 0)

DecodeConnack(bytes) ==
    LET flags == Keep(OneOf(FieldU8(DecodeFixedHeader(bytes, 2, {0})), {0, 1}), "flags")
        reasonCode == Keep(OneOf(FieldU8(flags), ConnectReasonCodes), "reasonCode")
        properties == Keep(DecodeProperties(reasonCode, ConnackProperties), "properties")
    IN  Decoded(AtEnd(SessionIfAccepted(properties)), LAMBDA f :
            [type |-> "CONNACK", sessionPresent |-> f.flags = 1,
             reasonCode |-> f.reasonCode, properties |-> f.properties])

-----------------------------------------------------------------------------
(***************************************************************************)
(* PUBLISH                                                                 *)
(***************************************************************************)

ValidPublish(p) ==
    /\ p.topic # << >> \/ TopicAlias \in Ids(p.properties)
    /\ ~HasWildcard(p.topic) /\ ValidString(p.topic)
    /\ p.qos = 0 <=> p.packetId = << >>
    /\ p.packetId # <<0>>
    /\ p.qos = 0 => ~p.dup
    /\ ValidProperties(p.properties, PublishPropertiesFrom("Client"), TRUE)
    /\ PayloadAsIndicated(p.properties, p.payload)

\* Mutant: the length leaves the packet identifier out.
PublishLenWithoutId(p) ==
    StringLen(p.topic) + PropertiesLen(p.properties) + Len(p.payload)

PublishLen(p) ==
    StringLen(p.topic) + (IF p.qos # 0 THEN 2 ELSE 0)
        + PropertiesLen(p.properties) + Len(p.payload)

EncodePublish(p) ==
    Written(<<EncodeFixedHeader(3, Flag(p.dup, 3) + 2 * p.qos + Flag(p.retain, 0),
                                PublishLen(p)),
              EncodeBinary(p.topic), EncodeEach(EncodeU16, p.packetId),
              EncodeProperties(p.properties), p.payload>>)

\* The flags of a PUBLISH: no QoS of 3, and no DUP with QoS 0
PublishFlags ==
    {f \in 0..15 : (f \div 2) % 4 \in QoSLevels /\ ~((f \div 2) % 4 = 0 /\ Bit(f, 3) = 1)}

\* After the properties: the topic, or an alias for it
HasTopicOrAlias(r) ==
    Require(r, /\ r.fields.topic # << >> \/ TopicAlias \in Ids(r.value)
               /\ ~HasWildcard(r.fields.topic))

DecodePublish(bytes) ==
    LET flags == bytes[1] % 16
        qos == (flags \div 2) % 4
        topic == Keep(FieldString(DecodeFixedHeader(bytes, 3, PublishFlags)), "topic")
        packetId == Keep(DecodeOption(topic, qos # 0, DecodePacketId), "packetId")
        properties == Keep(DecodeWithOptions(packetId, TRUE), "properties")
        allowed == AllowedOnly(HasTopicOrAlias(properties),
                               PublishPropertiesFrom("Server"))
    IN  Decoded(Keep(DecodeRest(allowed), "payload"), LAMBDA f :
            [type |-> "PUBLISH", dup |-> Bit(flags, 3) = 1, qos |-> qos,
             retain |-> Bit(flags, 0) = 1, topic |-> f.topic,
             packetId |-> f.packetId, properties |-> f.properties,
             payload |-> f.payload])

-----------------------------------------------------------------------------
(***************************************************************************)
(* PUBACK, PUBREC, PUBREL and PUBCOMP (ack_helper.rs and their files)      *)
(***************************************************************************)

\* reason_code_packet_encoded_len
ReasonCodePacketLen(p) == 2 + 1 + PropertiesLen(p.properties)

\* encode_reason_code_packet: the short forms are never written.
EncodeReasonCodePacket(type, flags, p) ==
    Written(<<EncodeFixedHeader(type, flags, ReasonCodePacketLen(p)),
              EncodeU16(p.packetId), <<p.reasonCode>>, EncodeProperties(p.properties)>>)

DecodeShortProperties(r) == DecodeWithOptions(r, FALSE)

\* The reason code and the properties, or the properties, may be left out.
DecodeReasonAndProperties(r) ==
    LET reasonCode == Keep(DecodeUnlessAtEnd(DecodeU8, r, 0), "reasonCode")
    IN  AtEnd(Keep(DecodeUnlessAtEnd(DecodeShortProperties, reasonCode, << >>),
                   "properties"))

\* decode_reason_code_packet
DecodeReasonCodePacket(bytes, type, flags) ==
    DecodeReasonAndProperties(
        Keep(DecodePacketId(DecodeFixedHeader(bytes, type, {flags})), "packetId"))

\* The checks of each decode, and its packet
DecodedAck(r, type, reasonCodes) ==
    Decoded(Require(r, /\ Ids(r.fields.properties) \subseteq AckProperties
                       /\ r.fields.reasonCode \in reasonCodes),
            LAMBDA f : [type |-> type, packetId |-> f.packetId,
                        reasonCode |-> f.reasonCode, properties |-> f.properties])

ValidAck(p) ==
    p.packetId # 0 /\ ValidProperties(p.properties, AckProperties, FALSE)

PubackReasonCodes == {0, 16, 128, 131, 135, 144, 145, 151, 153}
PubrecReasonCodes == {0, 16, 128, 131, 135, 144, 145, 151, 153}
PubrelReasonCodes == {0, 146}
PubcompReasonCodes == {0, 146}

NoMatchingSubscribers == 16

\* No matching subscribers is the server's to say.
ValidPuback(p) == ValidAck(p) /\ p.reasonCode # NoMatchingSubscribers
ValidPubrec(p) == ValidAck(p) /\ p.reasonCode # NoMatchingSubscribers
ValidPubrel(p) == ValidAck(p)
ValidPubcomp(p) == ValidAck(p)

EncodePuback(p) == EncodeReasonCodePacket(4, 0, p)
EncodePubrec(p) == EncodeReasonCodePacket(5, 0, p)
EncodePubrel(p) == EncodeReasonCodePacket(6, 2, p)
EncodePubcomp(p) == EncodeReasonCodePacket(7, 0, p)

DecodePuback(bytes) ==
    DecodedAck(DecodeReasonCodePacket(bytes, 4, 0), "PUBACK", PubackReasonCodes)
DecodePubrec(bytes) ==
    DecodedAck(DecodeReasonCodePacket(bytes, 5, 0), "PUBREC", PubrecReasonCodes)
DecodePubrel(bytes) ==
    DecodedAck(DecodeReasonCodePacket(bytes, 6, 2), "PUBREL", PubrelReasonCodes)
DecodePubcomp(bytes) ==
    DecodedAck(DecodeReasonCodePacket(bytes, 7, 0), "PUBCOMP", PubcompReasonCodes)

-----------------------------------------------------------------------------
(***************************************************************************)
(* SUBSCRIBE and UNSUBSCRIBE                                               *)
(***************************************************************************)

RetainHandlings == 0..2

ValidSubscription(s) ==
    /\ IsValidV5TopicFilter(s.topicFilter) /\ ValidString(s.topicFilter)
    /\ s.noLocal => ~StartsWith(s.topicFilter, ShareFilter)

ValidSubscribe(p) ==
    /\ p.packetId # 0
    /\ p.subscriptions # << >>
    /\ \A i \in DOMAIN p.subscriptions : ValidSubscription(p.subscriptions[i])
    /\ ValidProperties(p.properties, SubscribeProperties, FALSE)

SubscriptionLen(s) == StringLen(s.topicFilter) + 1

SubscribeLen(p) ==
    2 + PropertiesLen(p.properties) + SumOf(SubscriptionLen, p.subscriptions)

OptionsByte(s) ==
    s.qos + Flag(s.noLocal, 2) + Flag(s.retainAsPublished, 3) + 16 * s.retainHandling

EncodeSubscription(s) == Append(EncodeBinary(s.topicFilter), OptionsByte(s))

EncodeSubscribe(p) ==
    Written(<<EncodeFixedHeader(8, 2, SubscribeLen(p)), EncodeU16(p.packetId),
              EncodeProperties(p.properties),
              EncodeEach(EncodeSubscription, p.subscriptions)>>)

IsTopicFilter(r) == Require(r, IsValidV5TopicFilter(r.value))
HasValidOptions(r) ==
    Require(r, /\ r.value.qos \in QoSLevels
               /\ r.value.retainHandling \in RetainHandlings
               /\ r.value.noLocal => ~StartsWith(r.value.topicFilter, ShareFilter))

\* A turn of the loops of Unsubscribe::decode and Subscribe::decode
DecodeTopicFilter(r) == IsTopicFilter(FieldString(r))

DecodeSubscription(r) ==
    LET filter == Keep(DecodeTopicFilter(Inner(r)), "filter")
        options == Keep(FieldU8(filter), "options")
    IN  HasValidOptions(Built(OneOf(options, 0..63), r, LAMBDA f :
            [topicFilter |-> f.filter, qos |-> f.options % 4,
             noLocal |-> Bit(f.options, 2) = 1,
             retainAsPublished |-> Bit(f.options, 3) = 1,
             retainHandling |-> (f.options \div 16) % 4]))

DecodeSubscribe(bytes) ==
    LET packetId == Keep(DecodePacketId(DecodeFixedHeader(bytes, 8, {2})), "packetId")
        properties == Keep(DecodeProperties(packetId, SubscribeProperties), "properties")
        subscriptions == NonEmpty(DecodeAll(DecodeSubscription, properties))
    IN  Decoded(AtEnd(Keep(subscriptions, "subscriptions")), LAMBDA f :
            [type |-> "SUBSCRIBE", packetId |-> f.packetId,
             subscriptions |-> f.subscriptions, properties |-> f.properties])

ValidUnsubscribe(p) ==
    /\ p.packetId # 0
    /\ p.topicFilters # << >>
    /\ \A i \in DOMAIN p.topicFilters :
          IsValidV5TopicFilter(p.topicFilters[i]) /\ ValidString(p.topicFilters[i])
    /\ ValidProperties(p.properties, UnsubscribeProperties, FALSE)

UnsubscribeLen(p) ==
    2 + PropertiesLen(p.properties) + SumOf(StringLen, p.topicFilters)

EncodeUnsubscribe(p) ==
    Written(<<EncodeFixedHeader(10, 2, UnsubscribeLen(p)), EncodeU16(p.packetId),
              EncodeProperties(p.properties), EncodeEach(EncodeBinary, p.topicFilters)>>)

DecodeUnsubscribe(bytes) ==
    LET packetId == Keep(DecodePacketId(DecodeFixedHeader(bytes, 10, {2})), "packetId")
        properties == Keep(DecodeProperties(packetId, UnsubscribeProperties), "properties")
        topicFilters == NonEmpty(DecodeAll(DecodeTopicFilter, properties))
    IN  Decoded(AtEnd(Keep(topicFilters, "topicFilters")), LAMBDA f :
            [type |-> "UNSUBSCRIBE", packetId |-> f.packetId,
             topicFilters |-> f.topicFilters, properties |-> f.properties])

-----------------------------------------------------------------------------
(***************************************************************************)
(* SUBACK and UNSUBACK                                                     *)
(***************************************************************************)

SubackReasonCodes == {0, 1, 2, 128, 131, 135, 143, 145, 151, 158, 161, 162}
UnsubackReasonCodes == {0, 17, 128, 131, 135, 143, 145}

ValidSuback(p) ==
    p.packetId # 0 /\ p.reasonCodes # << >>
        /\ ValidProperties(p.properties, AckProperties, FALSE)
ValidUnsuback(p) ==
    p.packetId # 0 /\ p.reasonCodes # << >>
        /\ ValidProperties(p.properties, AckProperties, FALSE)

SubackLen(p) == 2 + PropertiesLen(p.properties) + Len(p.reasonCodes)
UnsubackLen(p) == 2 + PropertiesLen(p.properties) + Len(p.reasonCodes)

EncodeSuback(p) ==
    Written(<<EncodeFixedHeader(9, 0, SubackLen(p)), EncodeU16(p.packetId),
              EncodeProperties(p.properties), p.reasonCodes>>)
EncodeUnsuback(p) ==
    Written(<<EncodeFixedHeader(11, 0, UnsubackLen(p)), EncodeU16(p.packetId),
              EncodeProperties(p.properties), p.reasonCodes>>)

DecodeReasonCodes(r, known) ==
    AtEnd(NonEmpty(DecodeAll(LAMBDA s : OneOf(DecodeU8(s), known), r)))

DecodeSuback(bytes) ==
    LET packetId == Keep(DecodePacketId(DecodeFixedHeader(bytes, 9, {0})), "packetId")
        properties == Keep(DecodeProperties(packetId, AckProperties), "properties")
        codes == DecodeReasonCodes(properties, SubackReasonCodes)
    IN  Decoded(Keep(codes, "reasonCodes"), LAMBDA f :
            [type |-> "SUBACK", packetId |-> f.packetId,
             reasonCodes |-> f.reasonCodes, properties |-> f.properties])

DecodeUnsuback(bytes) ==
    LET packetId == Keep(DecodePacketId(DecodeFixedHeader(bytes, 11, {0})), "packetId")
        properties == Keep(DecodeProperties(packetId, AckProperties), "properties")
        codes == DecodeReasonCodes(properties, UnsubackReasonCodes)
    IN  Decoded(Keep(codes, "reasonCodes"), LAMBDA f :
            [type |-> "UNSUBACK", packetId |-> f.packetId,
             reasonCodes |-> f.reasonCodes, properties |-> f.properties])

-----------------------------------------------------------------------------
(***************************************************************************)
(* PINGREQ and PINGRESP, DISCONNECT and AUTH                               *)
(***************************************************************************)

EncodePingreq(p) == EncodeFixedHeader(12, 0, 0)
EncodePingresp(p) == EncodeFixedHeader(13, 0, 0)

\* decode_empty
DecodeEmpty(bytes, type, packet) ==
    Decoded(OneOf(DecodeFixedHeader(bytes, type, {0}), {0}), LAMBDA f : packet)

DecodePingreq(bytes) == DecodeEmpty(bytes, 12, [type |-> "PINGREQ"])
DecodePingresp(bytes) == DecodeEmpty(bytes, 13, [type |-> "PINGRESP"])

\* reason_code_only_packet_encoded_len
ReasonCodeOnlyLen(p) == 1 + PropertiesLen(p.properties)

\* encode_reason_code_only_packet
EncodeReasonCodeOnly(type, p) ==
    Written(<<EncodeFixedHeader(type, 0, ReasonCodeOnlyLen(p)), <<p.reasonCode>>,
              EncodeProperties(p.properties)>>)

DisconnectReasonCodes ==
    {0, 4} \cup 128..131 \cup {135, 137} \cup 139..144 \cup 147..162
DisconnectReasonCodesFrom(sender) ==
    IF sender = "Server" THEN DisconnectReasonCodes \ {4}
    ELSE {0, 4} \cup 128..131 \cup {140, 144} \cup 147..153

ValidDisconnect(p) ==
    /\ p.reasonCode \in DisconnectReasonCodesFrom("Client")
    /\ ValidProperties(p.properties, DisconnectPropertiesFrom("Client"), FALSE)

EncodeDisconnect(p) == EncodeReasonCodeOnly(14, p)

\* decode_reason_code_only_packet
DecodeReasonCodeOnly(bytes, type) ==
    DecodeReasonAndProperties(DecodeFixedHeader(bytes, type, {0}))

DecodedDisconnect(r) ==
    Decoded(Require(r,
                /\ r.fields.reasonCode \in DisconnectReasonCodesFrom("Server")
                /\ Ids(r.fields.properties) \subseteq DisconnectPropertiesFrom("Server")),
            LAMBDA f : [type |-> "DISCONNECT", reasonCode |-> f.reasonCode,
                        properties |-> f.properties])

DecodeDisconnect(bytes) == DecodedDisconnect(DecodeReasonCodeOnly(bytes, 14))

\* Success, Continue authentication, Re-authenticate
AuthReasonCodes == {0, 24, 25}
AuthReasonCodesFrom(sender) == AuthReasonCodes \ {IF sender = "Server" THEN 25 ELSE 0}

ValidAuth(p) ==
    /\ p.reasonCode \in AuthReasonCodesFrom("Client")
    /\ AuthenticationMethod \in Ids(p.properties)
    /\ ValidProperties(p.properties, AuthProperties, FALSE)

EncodeAuth(p) == EncodeReasonCodeOnly(15, p)

HasMethod(r) ==
    Require(r, /\ Ids(r.value) \subseteq AuthProperties
               /\ AuthenticationMethod \in Ids(r.value))

\* Auth::decode: without any byte it is Success; a reason code alone is
\* refused, for it has no method.
DecodeAuthBody(r) ==
    LET reasonCode == Keep(OneOf(DecodeU8(r), AuthReasonCodesFrom("Server")),
                           "reasonCode")
        properties == DecodeUnlessAtEnd(DecodeShortProperties, reasonCode, << >>)
    IN  HasMethod(AtEnd(Keep(properties, "properties")))

DecodedAuth(r) ==
    Decoded(IF Failed(r) THEN r
            ELSE IF r.value = 0
            THEN [r EXCEPT !.fields = [reasonCode |-> 0, properties |-> << >>]]
            ELSE DecodeAuthBody(r),
            LAMBDA f : [type |-> "AUTH", reasonCode |-> f.reasonCode,
                        properties |-> f.properties])

DecodeAuth(bytes) == DecodedAuth(DecodeFixedHeader(bytes, 15, {0}))

-----------------------------------------------------------------------------
(***************************************************************************)
(* All packets (packet.rs)                                                 *)
(***************************************************************************)

\* encode does not refuse the packet.
V5Valid(p) ==
    CASE p.type = "CONNECT" -> ValidConnect(p)
      [] p.type = "CONNACK" -> ValidConnack(p)
      [] p.type = "PUBLISH" -> ValidPublish(p)
      [] p.type = "PUBACK" -> ValidPuback(p)
      [] p.type = "PUBREC" -> ValidPubrec(p)
      [] p.type = "PUBREL" -> ValidPubrel(p)
      [] p.type = "PUBCOMP" -> ValidPubcomp(p)
      [] p.type = "SUBSCRIBE" -> ValidSubscribe(p)
      [] p.type = "SUBACK" -> ValidSuback(p)
      [] p.type = "UNSUBSCRIBE" -> ValidUnsubscribe(p)
      [] p.type = "UNSUBACK" -> ValidUnsuback(p)
      [] p.type = "DISCONNECT" -> ValidDisconnect(p)
      [] p.type = "AUTH" -> ValidAuth(p)
      [] OTHER -> TRUE

\* Packet::encode
V5Encode(p) ==
    CASE p.type = "CONNECT" -> EncodeConnect(p)
      [] p.type = "CONNACK" -> EncodeConnack(p)
      [] p.type = "PUBLISH" -> EncodePublish(p)
      [] p.type = "PUBACK" -> EncodePuback(p)
      [] p.type = "PUBREC" -> EncodePubrec(p)
      [] p.type = "PUBREL" -> EncodePubrel(p)
      [] p.type = "PUBCOMP" -> EncodePubcomp(p)
      [] p.type = "SUBSCRIBE" -> EncodeSubscribe(p)
      [] p.type = "SUBACK" -> EncodeSuback(p)
      [] p.type = "UNSUBSCRIBE" -> EncodeUnsubscribe(p)
      [] p.type = "UNSUBACK" -> EncodeUnsuback(p)
      [] p.type = "PINGREQ" -> EncodePingreq(p)
      [] p.type = "PINGRESP" -> EncodePingresp(p)
      [] p.type = "DISCONNECT" -> EncodeDisconnect(p)
      [] p.type = "AUTH" -> EncodeAuth(p)

\* IncomingPacket::decode: the packets that only a client sends are refused.
V5IncomingDecode(bytes) ==
    IF bytes = << >> THEN [status |-> "InsufficientData"]
    ELSE LET type == bytes[1] \div 16
         IN  CASE type = 2 -> DecodeConnack(bytes)
               [] type = 3 -> DecodePublish(bytes)
               [] type = 4 -> DecodePuback(bytes)
               [] type = 5 -> DecodePubrec(bytes)
               [] type = 6 -> DecodePubrel(bytes)
               [] type = 7 -> DecodePubcomp(bytes)
               [] type = 9 -> DecodeSuback(bytes)
               [] type = 11 -> DecodeUnsuback(bytes)
               [] type = 13 -> DecodePingresp(bytes)
               [] type = 14 -> DecodeDisconnect(bytes)
               [] type = 15 -> DecodeAuth(bytes)
               [] type \in {1, 8, 10, 12} -> [status |-> "UnexpectedPacket"]
               [] type = 0 -> [status |-> "InvalidPacketType"]

\* codec::Packet::decode: the packets of both directions
V5Decode(bytes) ==
    IF bytes = << >> THEN [status |-> "InsufficientData"]
    ELSE LET type == bytes[1] \div 16
         IN  CASE type = 1 -> DecodeConnect(bytes)
               [] type = 8 -> DecodeSubscribe(bytes)
               [] type = 10 -> DecodeUnsubscribe(bytes)
               [] type = 12 -> DecodePingreq(bytes)
               [] OTHER -> V5IncomingDecode(bytes)

=============================================================================
