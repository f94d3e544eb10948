----------------------------- MODULE MCV5Packets -----------------------------
(***************************************************************************)
(* The packets of MQTT v5.0 that MCCodec sends through CodecLink.           *)
(***************************************************************************)
EXTENDS V5Packets

\* Strings: empty, a name, with every character that means something
Letter == 97
Names == {<< >>, <<Letter>>}
TopicNames == Names \cup {<<Letter, Slash>>, <<Plus>>, <<0>>}
TopicFilters ==
    {<< >>, <<Letter>>, <<Plus>>, <<Letter, Slash, Hash>>, <<Hash, Slash>>,
     ShareFilter \o <<Letter, Slash, Plus>>, ShareFilter \o <<Letter>>}

\* Bytes that are no UTF-8
Blob == <<255, 1>>

-----------------------------------------------------------------------------
(* Values for the properties: the limits and what lies beyond *)

ValuesOf(id) ==
    CASE id \in U8Properties -> {0, 1, 2}
      [] id \in U16Properties -> {0, 65535}
      [] id \in U32Properties -> {<<0, 0>>, <<1, 65535>>}
      [] id \in StringProperties -> {<< >>, <<Letter>>, <<Plus>>}
      [] id \in BinaryProperties -> {Blob}
      [] id = SubscriptionIdentifier -> {0, 1, 128}
      [] id = UserProperty -> {<<<<Letter>>, << >>>>}

PropertyIds ==
    U8Properties \cup U16Properties \cup U32Properties \cup StringProperties
        \cup BinaryProperties \cup {SubscriptionIdentifier, UserProperty}

AllProperties == UNION {{[id |-> id, value |-> v] : v \in ValuesOf(id)} : id \in PropertyIds}

Property(id, value) == [id |-> id, value |-> value]
Method == Property(AuthenticationMethod, <<Letter>>)
Data == Property(AuthenticationData, Blob)
Reason == Property(ReasonString, <<Letter>>)
User == Property(UserProperty, <<<<Letter>>, << >>>>)

\* No property, each property, and lists in which one is repeated
PropertyLists ==
    {<< >>} \cup {<<p>> : p \in AllProperties}
        \cup {<<User, User>>, <<Method, Data>>, <<Data, Method, User>>, <<Reason, User, Reason>>}

-----------------------------------------------------------------------------
(* Packets: those encode refuses are left out by Init. *)

Will(topic, payload, qos, retain, properties) ==
    [topic |-> topic, payload |-> payload, qos |-> qos, retain |-> retain,
     properties |-> properties]

Connect(clientId, clean, properties, will, username, password) ==
    [type |-> "CONNECT", clientId |-> clientId, cleanStart |-> clean,
     keepAlive |-> 300, properties |-> properties, will |-> will,
     username |-> username, password |-> password]

Connects ==
    {Connect(<<Letter>>, TRUE, properties, << >>, << >>, << >>) :
        properties \in PropertyLists}
    \cup
    {Connect(<<Letter>>, FALSE, << >>, <<Will(<<Letter>>, Blob, 1, TRUE, properties)>>, << >>, << >>) :
        properties \in PropertyLists}
    \cup
    {Connect(clientId, clean, << >>, will, username, password) :
        clientId \in Names, clean \in BOOLEAN,
        will \in {<< >>} \cup {<<Will(topic, << >>, qos, retain, << >>)>> :
                    topic \in TopicNames, qos \in QoSLevels, retain \in BOOLEAN},
        username \in {<< >>, <<<<Letter>>>>}, password \in {<< >>, <<Blob>>}}

Connacks ==
    [type : {"CONNACK"}, sessionPresent : BOOLEAN, reasonCode : {0, 128, 159},
     properties : PropertyLists]

Publishes ==
    [type : {"PUBLISH"}, dup : BOOLEAN, qos : QoSLevels, retain : BOOLEAN,
     topic : TopicNames, packetId : {<< >>, <<0>>, <<1>>, <<65535>>},
     properties : {<< >>, <<Property(TopicAlias, 1)>>}, payload : {<< >>, Blob}]
    \cup
    [type : {"PUBLISH"}, dup : {FALSE}, qos : {1}, retain : {FALSE},
     topic : {<<Letter>>}, packetId : {<<1>>}, properties : PropertyLists,
     payload : {<<Letter>>, Blob}]

Acks ==
    [type : {"PUBACK", "PUBREC"}, packetId : {0, 1, 65535},
     reasonCode : {0, 16, 153}, properties : PropertyLists]
    \cup
    [type : {"PUBREL", "PUBCOMP"}, packetId : {1}, reasonCode : {0, 146},
     properties : PropertyLists]

Subscriptions ==
    [topicFilter : TopicFilters, qos : {0, 2}, noLocal : BOOLEAN,
     retainAsPublished : BOOLEAN, retainHandling : {0, 2}]

PlainSubscription(filter) ==
    [topicFilter |-> filter, qos |-> 1, noLocal |-> FALSE,
     retainAsPublished |-> FALSE, retainHandling |-> 1]

Subscribes ==
    [type : {"SUBSCRIBE"}, packetId : {0, 258},
     subscriptions : {<< >>} \cup {<<s>> : s \in Subscriptions}
                \cup {<<PlainSubscription(f), PlainSubscription(g)>> :
                         f, g \in TopicFilters},
     properties : {<< >>}]
    \cup
    [type : {"SUBSCRIBE"}, packetId : {1},
     subscriptions : {<<PlainSubscription(<<Letter>>)>>}, properties : PropertyLists]

Unsubscribes ==
    [type : {"UNSUBSCRIBE"}, packetId : {1},
     topicFilters : {<< >>} \cup {<<f>> : f \in TopicFilters}
                \cup {<<f, g>> : f, g \in TopicFilters},
     properties : {<< >>, <<User>>, <<Reason>>}]

SubscriptionAcks ==
    [type : {"SUBACK"}, packetId : {1}, reasonCodes : {<< >>, <<2>>, <<0, 162>>},
     properties : PropertyLists]
    \cup
    [type : {"UNSUBACK"}, packetId : {1}, reasonCodes : {<< >>, <<17>>, <<0, 145>>},
     properties : PropertyLists]

OtherPackets ==
    [type : {"PINGREQ", "PINGRESP"}]
    \cup
    [type : {"DISCONNECT"}, reasonCode : {0, 4, 129, 139, 153, 156},
     properties : PropertyLists]
    \cup
    [type : {"AUTH"}, reasonCode : {0, 24, 25}, properties : PropertyLists]

\* Remaining lengths and property lengths around 128
LongString(n) == [i \in 1..n |-> Letter]
LongPackets ==
    {[type |-> "PUBLISH", dup |-> FALSE, qos |-> 1, retain |-> FALSE,
      topic |-> <<Letter>>, packetId |-> <<1>>, properties |-> << >>,
      payload |-> LongString(n)] : n \in 121..122}
    \cup
    {[type |-> "PUBACK", packetId |-> 1, reasonCode |-> 0,
      properties |-> <<Property(ReasonString, LongString(n))>>] : n \in 123..125}

RoundTripPackets ==
    Connects \cup Connacks \cup Publishes \cup Acks \cup Subscribes
        \cup Unsubscribes \cup SubscriptionAcks \cup OtherPackets \cup LongPackets

\* SUBSCRIBE packets with a filter each, and the filters of a packet
SubscribeTo(filters) ==
    [type : {"SUBSCRIBE"}, packetId : {1}, properties : {<< >>},
     subscriptions : {<<PlainSubscription(f)>> : f \in filters}]
FiltersOf(p) == {p.subscriptions[i].topicFilter : i \in DOMAIN p.subscriptions}

-----------------------------------------------------------------------------
(* A packet of each kind, to meet faults *)

FaultPackets ==
    {Connect(<<Letter>>, FALSE, <<Method, Data>>,
             <<Will(<<Letter>>, << >>, 1, TRUE, << >>)>>, <<<<Letter>>>>, <<Blob>>),
     Connect(<< >>, TRUE, << >>, << >>, <<<<Letter>>>>, << >>),
     Connect(<< >>, TRUE, << >>,
             <<Will(<<Letter>>, Blob, 0, FALSE, <<Property(PayloadFormatIndicator, 0)>>)>>,
             << >>, << >>),
     [type |-> "CONNACK", sessionPresent |-> TRUE, reasonCode |-> 0,
      properties |-> <<Reason, User, Property(ServerReference, <<Letter>>)>>],
     [type |-> "PUBLISH", dup |-> FALSE, qos |-> 0, retain |-> FALSE,
      topic |-> <<Letter, Slash>>, packetId |-> << >>, properties |-> << >>,
      payload |-> Blob],
     [type |-> "PUBLISH", dup |-> TRUE, qos |-> 2, retain |-> FALSE,
      topic |-> <<Letter>>, packetId |-> <<258>>,
      properties |-> <<Property(PayloadFormatIndicator, 1), Property(TopicAlias, 2)>>,
      payload |-> <<Letter>>],
     [type |-> "PUBACK", packetId |-> 1, reasonCode |-> 128, properties |-> <<Reason, User>>],
     [type |-> "PUBREC", packetId |-> 1, reasonCode |-> 0, properties |-> << >>],
     [type |-> "PUBREL", packetId |-> 1, reasonCode |-> 146, properties |-> <<User>>],
     [type |-> "PUBCOMP", packetId |-> 1, reasonCode |-> 0, properties |-> << >>],
     [type |-> "SUBSCRIBE", packetId |-> 1,
      subscriptions |-> <<PlainSubscription(<<Letter, Slash, Hash>>), PlainSubscription(<<Letter>>)>>,
      properties |-> <<Property(SubscriptionIdentifier, 128)>>],
     [type |-> "SUBSCRIBE", packetId |-> 1,
      subscriptions |-> <<[PlainSubscription(ShareFilter \o <<Letter, Slash, Plus>>)
                              EXCEPT !.retainAsPublished = TRUE]>>,
      properties |-> << >>],
     [type |-> "SUBACK", packetId |-> 1, reasonCodes |-> <<1, 128>>, properties |-> <<User>>],
     [type |-> "UNSUBSCRIBE", packetId |-> 1, topicFilters |-> <<<<Letter>>, <<Plus>>>>,
      properties |-> << >>],
     [type |-> "UNSUBACK", packetId |-> 1, reasonCodes |-> <<17>>, properties |-> <<Reason>>],
     [type |-> "PINGREQ"], [type |-> "PINGRESP"],
     [type |-> "DISCONNECT", reasonCode |-> 0, properties |-> <<Property(SessionExpiryInterval, <<0, 0>>)>>],
     [type |-> "DISCONNECT", reasonCode |-> 129, properties |-> <<Reason>>],
     [type |-> "AUTH", reasonCode |-> 24, properties |-> <<Method, Data>>]}

\* Lengths and small numbers, the characters, identifiers of properties, a
\* first byte of each packet type, continuation bits
FaultBytes ==
    {0, 1, 2, 3, 4, 5, 6, 7, 16, 24, 128, 255, Letter, Slash, Plus, Hash}
        \cup {AuthenticationData, ReasonString, ReceiveMaximum, TopicAlias, UserProperty,
              SubscriptionIdentifier, PayloadFormatIndicator}
        \cup {16 * type : type \in 1..15} \cup {53, 55, 58, 98, 130, 162}

-----------------------------------------------------------------------------
(* What distinguishes the directions *)

\* decode reads what a server sends: not a normal disconnection with the Will
\* or an expiry of the session, nor the start of a re-authentication.
ServerMaySend(p) ==
    /\ p.type = "DISCONNECT" =>
          p.reasonCode # 4 /\ SessionExpiryInterval \notin Ids(p.properties)
    /\ p.type = "AUTH" => p.reasonCode # 25

WithoutIds(properties, ids) == SelectSeq(properties, LAMBDA q : q.id \notin ids)

\* The packet without what only a server may send, and without the Payload
\* Format Indicator: whether the payload is the UTF-8 it promises is checked by
\* validate (v5/publish.rs:266, v5/connect.rs:376) and never by decode.
ClientForm(p) ==
    CASE p.type = "CONNECT" ->
            [p EXCEPT !.will = [i \in DOMAIN @ |->
                [@[i] EXCEPT !.properties = WithoutIds(@, {PayloadFormatIndicator})]]]
      [] p.type = "PUBLISH" ->
            [p EXCEPT !.properties =
                WithoutIds(@, {SubscriptionIdentifier, PayloadFormatIndicator})]
      [] p.type \in {"PUBACK", "PUBREC"} /\ p.reasonCode = NoMatchingSubscribers ->
            [p EXCEPT !.reasonCode = 0]
      [] p.type = "DISCONNECT" /\ p.reasonCode \in {135, 137, 139, 141, 142, 143} \cup 154..162 ->
            [p EXCEPT !.reasonCode = 0]
      [] p.type = "AUTH" /\ p.reasonCode = 0 ->
            [p EXCEPT !.reasonCode = 24,
                      !.properties = IF @ = << >> THEN <<Method>> ELSE @]
      [] OTHER -> p

\* No property but the repeatable ones occurs twice.
V5Sendable(p) ==
    /\ V5Valid(ClientForm(p))
    /\ p.type \notin {"PINGREQ", "PINGRESP"} =>
          \A i, j \in DOMAIN p.properties :
              i # j /\ p.properties[i].id = p.properties[j].id =>
                  p.properties[i].id \in {SubscriptionIdentifier, UserProperty}

V5ShortForms == {"PUBACK", "PUBREC", "PUBREL", "PUBCOMP", "DISCONNECT", "AUTH"}

=============================================================================
