---------------------------- MODULE V5Properties ----------------------------
(***************************************************************************)
(* The properties of an MQTT v5.0 packet (v5/property/mod.rs) and which of *)
(* them a packet may carry (v5/property/validate.rs).  A property is its   *)
(* identifier and its value; a list of properties is a sequence.           *)
(***************************************************************************)
EXTENDS Wire

PayloadFormatIndicator == 1      \* 0x01
MessageExpiryInterval == 2
ContentType == 3
ResponseTopic == 8
CorrelationData == 9
SubscriptionIdentifier == 11     \* 0x0B
SessionExpiryInterval == 17      \* 0x11
AssignedClientIdentifier == 18
ServerKeepAlive == 19
AuthenticationMethod == 21       \* 0x15
AuthenticationData == 22
RequestProblemInformation == 23
WillDelayInterval == 24
RequestResponseInformation == 25
ResponseInformation == 26
ServerReference == 28            \* 0x1C
ReasonString == 31               \* 0x1F
ReceiveMaximum == 33             \* 0x21
TopicAliasMaximum == 34
TopicAlias == 35
MaximumQoS == 36
RetainAvailable == 37
UserProperty == 38               \* 0x26
MaximumPacketSize == 39
WildcardSubscriptionAvailable == 40
SubscriptionIdentifierAvailable == 41
SharedSubscriptionAvailable == 42  \* 0x2A

-----------------------------------------------------------------------------
(***************************************************************************)
(* One property                                                            *)
(***************************************************************************)

U8Properties ==
    {PayloadFormatIndicator, RequestProblemInformation,
     RequestResponseInformation, MaximumQoS, RetainAvailable,
     WildcardSubscriptionAvailable, SubscriptionIdentifierAvailable,
     SharedSubscriptionAvailable}
U16Properties == {ServerKeepAlive, ReceiveMaximum, TopicAliasMaximum, TopicAlias}
U32Properties ==
    {MessageExpiryInterval, SessionExpiryInterval, WillDelayInterval,
     MaximumPacketSize}
StringProperties ==
    {ContentType, ResponseTopic, AssignedClientIdentifier,
     AuthenticationMethod, ResponseInformation, ServerReference, ReasonString}
BinaryProperties == {CorrelationData, AuthenticationData}

\* Property::encoded_len
PropertyLen(property) ==
    LET value == property.value
    IN  1 + CASE property.id \in U8Properties -> 1
              [] property.id \in U16Properties -> 2
              [] property.id \in U32Properties -> 4
              [] property.id \in StringProperties -> 2 + Len(value)
              [] property.id \in BinaryProperties -> 2 + Len(value)
              [] property.id = SubscriptionIdentifier -> EncodedLen(value)
              [] property.id = UserProperty -> 2 + Len(value[1]) + 2 + Len(value[2])

\* validate_value
ValidValue(property) ==
    LET value == property.value
    IN  /\ property.id \in U8Properties => value <= 1
        /\ property.id \in {ReceiveMaximum, TopicAlias, SubscriptionIdentifier} =>
              value # 0
        /\ property.id = MaximumPacketSize => value # <<0, 0>>
        /\ property.id = ResponseTopic => value # << >> /\ ~HasWildcard(value)

\* Property::encode accepts the property: its value and its strings
ValidProperty(property) ==
    /\ ValidValue(property)
    /\ property.id \in StringProperties => ValidString(property.value)
    /\ property.id \in BinaryProperties => ValidBinary(property.value)
    /\ property.id = UserProperty =>
          ValidString(property.value[1]) /\ ValidString(property.value[2])

\* Property::encode
EncodeProperty(property) ==
    LET value == property.value
    IN  <<property.id>> \o
        CASE property.id \in U8Properties -> <<value>>
          [] property.id \in U16Properties -> EncodeU16(value)
          [] property.id \in U32Properties -> EncodeU32(value)
          [] property.id \in StringProperties -> EncodeBinary(value)
          [] property.id \in BinaryProperties -> EncodeBinary(value)
          [] property.id = SubscriptionIdentifier -> Encode[value]
          [] property.id = UserProperty -> EncodeBinary(value[1]) \o EncodeBinary(value[2])

DecodeUserProperty(r) ==
    LET key == Keep(DecodeString(Inner(r)), "key")
        value == Keep(DecodeString(key), "value")
    IN  Built(value, r, LAMBDA f : <<f.key, f.value>>)

\* The match of decode_value, on the identifier just read
DecodePropertyValue(r) ==
    IF Failed(r) THEN r
    ELSE CASE r.value \in U8Properties -> DecodeU8(r)
           [] r.value \in U16Properties -> DecodeU16(r)
           [] r.value \in U32Properties -> DecodeU32(r)
           [] r.value \in StringProperties -> DecodeString(r)
           [] r.value \in BinaryProperties -> DecodeBinary(r)
           [] r.value = SubscriptionIdentifier -> DecodeVariableByteInteger(r)
           [] r.value = UserProperty -> DecodeUserProperty(r)
           [] OTHER -> Require(r, FALSE)

\* Property::decode
HasIdentifier(r) == Require(r, r.value <= SharedSubscriptionAvailable)
HasValidValue(r) == Require(r, ValidValue(r.value))
DecodeProperty(r) ==
    LET id == Keep(HasIdentifier(DecodeVariableByteInteger(Inner(r))), "id")
        value == Keep(DecodePropertyValue(id), "value")
    IN  HasValidValue(
            Built(value, r, LAMBDA f : [id |-> f.id, value |-> f.value]))

FieldProperty(r) == MalformedIfInsufficient(r, DecodeProperty(r))

-----------------------------------------------------------------------------
(***************************************************************************)
(* A list of properties                                                    *)
(***************************************************************************)

Ids(properties) == {properties[i].id : i \in DOMAIN properties}

\* Mutant: only neighbours are compared.
NoNeighbourDuplicates(properties, manySubscriptionIds) ==
    \A i, j \in DOMAIN properties :
        j = i + 1 /\ properties[i].id = properties[j].id =>
            \/ properties[i].id = UserProperty
            \/ properties[i].id = SubscriptionIdentifier /\ manySubscriptionIds

\* validate_duplicate_identifiers
NoDuplicateIdentifiers(properties, manySubscriptionIds) ==
    \A i, j \in DOMAIN properties :
        i < j /\ properties[i].id = properties[j].id =>
            \/ properties[i].id = UserProperty
            \/ properties[i].id = SubscriptionIdentifier /\ manySubscriptionIds

\* property_payload_len
PropertyPayloadLen(properties) == SumOf(PropertyLen, properties)

\* Properties::encoded_len
PropertiesLen(properties) ==
    EncodedLen(PropertyPayloadLen(properties)) + PropertyPayloadLen(properties)

\* Properties::encode
EncodeProperties(properties) ==
    Encode[PropertyPayloadLen(properties)] \o EncodeEach(EncodeProperty, properties)

\* What encode and validate_duplicate_identifiers ask of the properties of a
\* packet that allows these identifiers
ValidProperties(properties, allowed, manySubscriptionIds) ==
    /\ Ids(properties) \subseteq allowed
    /\ NoDuplicateIdentifiers(properties, manySubscriptionIds)
    /\ \A i \in DOMAIN properties : ValidProperty(properties[i])

\* decode_with_options: the region of the properties is read to its end.
ListInside(r) == Require(r, r.at + r.value <= r.end)
HasNoDuplicates(r, manySubscriptionIds) ==
    Require(r, NoDuplicateIdentifiers(r.value, manySubscriptionIds))
DecodeWithOptions(r, manySubscriptionIds) ==
    LET read == DecodeAll(FieldProperty, Bounded(ListInside(FieldInteger(r))))
    IN  HasNoDuplicates([read EXCEPT !.end = r.end], manySubscriptionIds)

\* Properties::decode and the validation for a packet type
AllowedOnly(r, allowed) == Require(r, Ids(r.value) \subseteq allowed)
DecodeProperties(r, allowed) == AllowedOnly(DecodeWithOptions(r, FALSE), allowed)

-----------------------------------------------------------------------------
(***************************************************************************)
(* The properties of each packet                                           *)
(***************************************************************************)

ConnectProperties ==
    {SessionExpiryInterval, ReceiveMaximum, MaximumPacketSize,
     TopicAliasMaximum, RequestResponseInformation, RequestProblemInformation,
     UserProperty, AuthenticationMethod, AuthenticationData}

\* validate_for_connect: authentication data come with the method.
DataWithMethod(properties) ==
    AuthenticationData \in Ids(properties) => AuthenticationMethod \in Ids(properties)

ConnackProperties ==
    {SessionExpiryInterval, ReceiveMaximum, MaximumQoS, RetainAvailable,
     MaximumPacketSize, AssignedClientIdentifier, TopicAliasMaximum,
     ReasonString, UserProperty, WildcardSubscriptionAvailable,
     SubscriptionIdentifierAvailable, SharedSubscriptionAvailable,
     ServerKeepAlive, ResponseInformation, ServerReference,
     AuthenticationMethod, AuthenticationData}

PublishProperties ==
    {PayloadFormatIndicator, MessageExpiryInterval, ContentType, ResponseTopic,
     CorrelationData, SubscriptionIdentifier, TopicAlias, UserProperty}

\* validate_for_publish_with_direction
PublishPropertiesFrom(sender) ==
    PublishProperties \ (IF sender = "Client" THEN {SubscriptionIdentifier} ELSE {})

AckProperties == {ReasonString, UserProperty}

SubscribeProperties == {SubscriptionIdentifier, UserProperty}
UnsubscribeProperties == {UserProperty}

\* validate_for_disconnect_with_direction
DisconnectPropertiesFrom(sender) ==
    {SessionExpiryInterval, ServerReference, ReasonString, UserProperty}
        \ (IF sender = "Server" THEN {SessionExpiryInterval} ELSE {})

\* validate_for_auth also asks for the method.
AuthProperties == {AuthenticationMethod, AuthenticationData, ReasonString, UserProperty}

WillProperties ==
    {WillDelayInterval, PayloadFormatIndicator, MessageExpiryInterval,
     ContentType, ResponseTopic, CorrelationData, UserProperty}

=============================================================================
