------------------------------ MODULE MCSession ------------------------------
(***************************************************************************)
(* Instances of SessionClient for TLC.                                     *)
(***************************************************************************)
EXTENDS SessionClient

\* A CONNACK that accepts the connection and announces nothing
PlainConnack(version, sessionPresent) ==
    [version |-> version, success |-> TRUE, sessionPresent |-> sessionPresent,
     sessionExpiryInterval |-> None, receiveMaximum |-> None,
     topicAliasMaximum |-> None, serverKeepAlive |-> None,
     maximumPacketSize |-> None, maximumQos |-> None,
     available |-> [f \in Features |-> None],
     assignedClientIdentifier |-> None, authenticationMethod |-> None]

PlainConnacks ==
    {PlainConnack(version, present) : version \in MqttVersions, present \in BOOLEAN}

\* The CONNACKs of the QoS runs: with and without a Receive Maximum of 1
QosConnacks ==
    PlainConnacks \cup
    {[PlainConnack("V5", present) EXCEPT !.receiveMaximum = 1] : present \in BOOLEAN}

\* A configuration that announces a Receive Maximum
Config(receiveMax) ==
    [keepAliveSecs |-> 0, sessionExpiryInterval |-> 0, topicAliasMaximum |-> 0,
     receiveMaximum |-> receiveMax, maximumPacketSize |-> 0]

QosConfigs == {Config(1)}

CONSTANTS f1, f2, s1, s2, m1, m2

Sub(filter, subId) == [filter |-> filter, subId |-> subId]

\* One and two entries, the same filter twice, and other identifiers for it
SubRequests ==
    {<<Sub(f1, s1)>>, <<Sub(f1, s2), Sub(f2, s2)>>,
     <<Sub(f1, s1), Sub(f1, s2)>>, <<Sub(f2, NoSubId)>>}
UnsubRequests == {<<f1>>, <<f1, f2>>, <<f2, f2>>}

\* One CONNACK for each check and each parameter of apply_connack
VariedConnacks ==
    LET v5 == PlainConnack("V5", FALSE)
    IN  QosConnacks \cup
        {[v5 EXCEPT !.success = FALSE],
         [v5 EXCEPT !.receiveMaximum = 0],
         [v5 EXCEPT !.maximumPacketSize = 0],
         [v5 EXCEPT !.maximumPacketSize = 1],
         [v5 EXCEPT !.maximumQos = "ExactlyOnce"],
         [v5 EXCEPT !.maximumQos = "AtLeastOnce"],
         [v5 EXCEPT !.topicAliasMaximum = 1],
         [v5 EXCEPT !.serverKeepAlive = 1],
         [v5 EXCEPT !.available["Retain"] = FALSE],
         [v5 EXCEPT !.assignedClientIdentifier = "Empty"],
         [v5 EXCEPT !.assignedClientIdentifier = "Given"],
         [v5 EXCEPT !.authenticationMethod = m1],
         [v5 EXCEPT !.authenticationMethod = m1, !.sessionPresent = TRUE,
                    !.assignedClientIdentifier = "Given"],
         [PlainConnack("V311", FALSE) EXCEPT !.serverKeepAlive = 1]}

\* With Keep Alive on, and with the Receive Maximum of 0 that is refused
VariedConfigs ==
    QosConfigs \cup
    {[Config(1) EXCEPT !.keepAliveSecs = 1, !.topicAliasMaximum = 1],
     [Config(0) EXCEPT !.sessionExpiryInterval = 1],
     [Config(1) EXCEPT !.maximumPacketSize = 1]}

=============================================================================
