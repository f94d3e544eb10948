---------------------------- MODULE MCV311Packets ----------------------------
(***************************************************************************)
(* The packets of MQTT v3.1.1 that MCCodec sends through CodecLink.         *)
(***************************************************************************)
EXTENDS V311Packets

Letter == 97
Blob == <<255, 1>>
Names == {<< >>, <<Letter>>}
TopicNames == Names \cup {<<Letter, Slash>>, <<Hash>>, <<0>>}
TopicFilters ==
    {<< >>, <<Letter>>, <<Plus>>, <<Letter, Slash, Hash>>, <<Hash, Slash>>,
     <<Letter, Plus>>, ShareFilter \o <<Letter>>}

Wills ==
    {<< >>} \cup {<<will>> : will \in
        [topic : TopicNames, payload : {<< >>, Blob}, qos : QoSLevels, retain : BOOLEAN]}

LongString(n) == [i \in 1..n |-> Letter]

\* Everything that a constructor allows; Init leaves out what encode refuses.
\* The last PUBLISH packets have remaining lengths around 128.
RoundTripPackets ==
    [type : {"CONNECT"}, clientId : Names, cleanSession : BOOLEAN,
     keepAlive : {0, 258}, will : Wills, username : {<< >>, <<<<Letter>>>>},
     password : {<< >>, <<Blob>>}]
    \cup [type : {"CONNACK"}, sessionPresent : BOOLEAN, returnCode : ConnectReturnCodes]
    \cup [type : {"PUBLISH"}, dup : BOOLEAN, qos : QoSLevels, retain : BOOLEAN,
          topic : TopicNames, packetId : {<< >>, <<0>>, <<1>>, <<65535>>},
          payload : {<< >>, Blob}]
    \cup [type : {"PUBLISH"}, dup : {FALSE}, qos : {1}, retain : {FALSE},
          topic : {<<Letter>>}, packetId : {<<1>>},
          payload : {LongString(n) : n \in 122..123}]
    \cup [type : {"PUBACK", "PUBREC", "PUBREL", "PUBCOMP", "UNSUBACK"},
          packetId : {0, 1, 256, 65535}]
    \cup [type : {"SUBSCRIBE"}, packetId : {0, 1},
          topicFilters : {<< >>} \cup
              {<<s>> : s \in [topicFilter : TopicFilters, qos : QoSLevels]} \cup
              {<<s, t>> : s, t \in [topicFilter : TopicFilters, qos : {1}]}]
    \cup [type : {"SUBACK"}, packetId : {0, 1},
          returnCodes : {<< >>, <<2>>, <<0, 128>>, <<1, 1, 2>>}]
    \cup [type : {"UNSUBSCRIBE"}, packetId : {0, 1},
          topicFilters : {<< >>} \cup {<<f>> : f \in TopicFilters}
                                 \cup TopicFilters \X TopicFilters]
    \cup [type : {"PINGREQ", "PINGRESP", "DISCONNECT"}]

\* A packet of each kind, to meet faults
FaultPackets ==
    [type : {"CONNECT"}, clientId : Names, cleanSession : {TRUE}, keepAlive : {10},
     will : {<< >>, <<[topic |-> <<Letter>>, payload |-> << >>, qos |-> 1, retain |-> TRUE]>>},
     username : {<< >>, <<<<Letter>>>>}, password : {<< >>, <<Blob>>}]
    \cup [type : {"CONNACK"}, sessionPresent : BOOLEAN, returnCode : {0, 5}]
    \cup [type : {"PUBLISH"}, dup : BOOLEAN, qos : QoSLevels, retain : {FALSE},
          topic : {<<Letter>>}, packetId : {<< >>, <<1>>}, payload : {<< >>, Blob}]
    \cup [type : {"PUBACK", "PUBREC", "PUBREL", "PUBCOMP", "UNSUBACK"}, packetId : {1}]
    \cup [type : {"SUBSCRIBE"}, packetId : {1},
          topicFilters : {<<[topicFilter |-> <<Letter, Slash, Hash>>, qos |-> 0],
                            [topicFilter |-> <<Plus>>, qos |-> 2]>>}]
    \cup [type : {"SUBACK"}, packetId : {1}, returnCodes : {<<0, 128>>}]
    \cup [type : {"UNSUBSCRIBE"}, packetId : {1},
          topicFilters : {<<<<Letter>>, <<Letter, Slash, Plus>>>>}]
    \cup [type : {"PINGREQ", "PINGRESP", "DISCONNECT"}]

\* Lengths and small numbers, the characters, connect flags, a first byte of
\* each packet type, continuation bits
FaultBytes ==
    {0, 1, 2, 3, 4, 5, 6, 7, 12, 20, 198, 128, 192, 255, Letter, Slash, Plus, Hash}
        \cup {16 * type : type \in 0..15} \cup {52, 54, 56, 98, 130, 162}

\* SUBSCRIBE packets with a filter each, and the filters of a packet
SubscribeTo(filters) ==
    [type : {"SUBSCRIBE"}, packetId : {1},
     topicFilters : {<<[topicFilter |-> f, qos |-> 1]>> : f \in filters}]
FiltersOf(p) == {p.topicFilters[i].topicFilter : i \in DOMAIN p.topicFilters}

=============================================================================
