------------------------------- MODULE MCTokio -------------------------------
(***************************************************************************)
(* Instances of TokioClient for TLC.                                       *)
(***************************************************************************)
EXTENDS TokioClient

CONSTANTS f1, f2

\* A CONNACK that accepts the connection and announces nothing
PlainConnack ==
    [version |-> "V5", success |-> TRUE, sessionPresent |-> FALSE,
     sessionExpiryInterval |-> None, receiveMaximum |-> None,
     topicAliasMaximum |-> None, serverKeepAlive |-> None,
     maximumPacketSize |-> None, maximumQos |-> None,
     available |-> [f \in Features |-> None],
     assignedClientIdentifier |-> None, authenticationMethod |-> None]

PlainConnacks == {PlainConnack}

\* Accepted, refused, and with features that are missing
VariedConnacks ==
    {PlainConnack,
     [PlainConnack EXCEPT !.success = FALSE],
     [PlainConnack EXCEPT !.receiveMaximum = 1, !.maximumQos = "AtLeastOnce",
                          !.available["WildcardSubscription"] = FALSE,
                          !.available["Retain"] = FALSE]}

Entry(f) == <<[filter |-> f, subId |-> NoSubId]>>
SubRequests == {Entry(f) : f \in Filters}
UnsubRequests == {<<f>> : f \in Filters}

\* The calls that take identifiers, with every CONNACK
RequestSetting ==
    [connacks |-> VariedConnacks, serverQos |-> {},
     calls |-> {"PublishQos1", "PublishQos2", "Subscribe", "Unsubscribe", "RecvPublish"},
     maxCalls |-> 3, maxRepeats |-> 0, maxStream |-> 0, maxStart |-> 2, maxNow |-> 8]

\* A PUBLISH of the server that meets calls which wait for something else
CrossingSetting ==
    [connacks |-> PlainConnacks, serverQos |-> {"AtLeastOnce"},
     calls |-> {"PublishQos1", "PublishQos2", "Subscribe"},
     maxCalls |-> 3, maxRepeats |-> 0, maxStream |-> 0, maxStart |-> 0, maxNow |-> 8]

\* A QoS 2 message that comes more than once, and calls that receive it
DeliverySetting ==
    [connacks |-> PlainConnacks, serverQos |-> {"AtLeastOnce", "ExactlyOnce"},
     calls |-> {"RecvPublish", "RunSubscribeLoop", "PublishQos0", "Disconnect"},
     maxCalls |-> 3, maxRepeats |-> 1, maxStream |-> 0, maxStart |-> 2, maxNow |-> 6]

\* A QoS 2 message that meets a publish with its identifier, and comes again
CollisionSetting ==
    [connacks |-> PlainConnacks, serverQos |-> {"ExactlyOnce"},
     calls |-> {"PublishQos1", "RecvPublish"},
     maxCalls |-> 3, maxRepeats |-> 1, maxStream |-> 0, maxStart |-> 2, maxNow |-> 10]

\* Messages with QoS 0 that keep coming while a publish waits for its answer
StreamSetting ==
    [connacks |-> PlainConnacks, serverQos |-> {"AtMostOnce"},
     calls |-> {"PublishQos1", "PublishQos2", "RecvPublish"},
     maxCalls |-> 2, maxRepeats |-> 0, maxStream |-> 3, maxStart |-> 1, maxNow |-> 10]

\* Keep Alive over several intervals
KeepAliveSetting ==
    [connacks |-> PlainConnacks, serverQos |-> {"AtMostOnce"},
     calls |-> {"Subscribe", "RunSubscribeLoop"},
     maxCalls |-> 3, maxRepeats |-> 0, maxStream |-> 12, maxStart |-> 3, maxNow |-> 12]

AllSettings ==
    {RequestSetting, CrossingSetting, DeliverySetting, CollisionSetting, StreamSetting,
     KeepAliveSetting}

=============================================================================
