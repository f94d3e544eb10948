---------------------------- MODULE TopicAliasLink ----------------------------
(***************************************************************************)
(* Two topic alias managers at the ends of one direction of a connection:  *)
(* the sender names topics by alias, the receiver resolves them.           *)
(*                                                                         *)
(* The sender looks its topic up (find_alias_for_topic).  A topic that has *)
(* an alias travels as the alias alone; a new one is registered and        *)
(* travels with its alias; when there is no alias left the topic travels   *)
(* alone.  The connection is a FIFO channel that loses its tail when it    *)
(* breaks; a new connection starts the way connect_sent and apply_connack  *)
(* start it: both ends reset their mappings, and the receiver announces    *)
(* its maximum anew.                                                       *)
(***************************************************************************)
EXTENDS MqttTypes, Sequences

CONSTANTS
    Topics,
    MaxInFlight  \* bound: the PUBLISHes in the channel

ASSUME LinkAssumption ==
    /\ None \notin Topics
    /\ MaxInFlight \in Nat

VARIABLES
    sent,         \* the sender's topic_to_alias
    sentMaximum,  \* the sender's peer_maximum
    seen,         \* the receiver's alias_to_topic
    seenMaximum,  \* the receiver's own_maximum
    unused,       \* the tables and ...
    unusedMaximum,\* ... the maxima of the direction without traffic
    channel,      \* PUBLISHes on the wire, with the topic each one means
    connected

senderVars == <<sent, sentMaximum>>
receiverVars == <<seen, seenMaximum>>
linkVars == <<senderVars, receiverVars, unused, unusedMaximum, channel, connected>>

Sender == INSTANCE TopicAliasManager WITH
    aliasToTopic <- unused, topicToAlias <- sent,
    ownMaximum <- unusedMaximum, peerMaximum <- sentMaximum

Receiver == INSTANCE TopicAliasManager WITH
    aliasToTopic <- seen, topicToAlias <- unused,
    ownMaximum <- seenMaximum, peerMaximum <- unusedMaximum

Messages ==
    [topic : Topics \cup {None}, alias : 0..U16Max, means : Topics]

LinkTypeOK ==
    /\ Sender!TaTypeOK
    /\ Receiver!TaTypeOK
    /\ channel \in Seq(Messages)
    /\ connected \in BOOLEAN

LinkInit ==
    /\ Sender!TaInit
    /\ Receiver!TaInit
    /\ channel = << >>
    /\ connected = FALSE

Put(topic, alias, means) ==
    channel' = Append(channel, [topic |-> topic, alias |-> alias, means |-> means])

\* The receiver announces max in the packet that opens the connection.
OpenConnection(max) ==
    /\ ~connected
    /\ connected' = TRUE
    /\ Sender!TaOpen(0, max)
    /\ Receiver!TaOpen(max, 0)
    /\ UNCHANGED channel

Break ==
    /\ connected
    /\ connected' = FALSE
    /\ channel' = << >>
    /\ UNCHANGED <<senderVars, receiverVars, unused, unusedMaximum>>

MaySend == connected /\ Len(channel) < MaxInFlight

\* find_alias_for_topic returns the alias: the topic name is left out.
SendAlias(topic, alias) ==
    /\ MaySend
    /\ Sender!AliasesFor(topic) # {}
    /\ Sender!TaRegisterForSend(topic, alias)
    /\ Put(None, alias, topic)
    /\ UNCHANGED <<receiverVars, connected>>

SendNewAlias(topic, alias) ==
    /\ MaySend
    /\ Sender!AliasesFor(topic) = {}
    /\ Sender!TaRegisterForSend(topic, alias)
    /\ Put(topic, alias, topic)
    /\ UNCHANGED <<receiverVars, connected>>

SendPlain(topic) ==
    /\ MaySend
    /\ Sender!RegisterForSendFails(topic)
    /\ Put(topic, 0, topic)
    /\ UNCHANGED <<senderVars, receiverVars, unused, unusedMaximum, connected>>

Receive ==
    /\ connected
    /\ channel # << >>
    /\ Receiver!TaResolveOnReceive(Head(channel).topic, Head(channel).alias)
    /\ channel' = Tail(channel)
    /\ UNCHANGED <<senderVars, connected>>

LinkNext ==
    \/ \E max \in 0..U16Max : OpenConnection(max)
    \/ Break
    \/ \E topic \in Topics :
          \/ \E alias \in 1..U16Max : SendAlias(topic, alias) \/ SendNewAlias(topic, alias)
          \/ SendPlain(topic)
    \/ Receive

LinkSpec == LinkInit /\ [][LinkNext]_linkVars

-----------------------------------------------------------------------------

(***************************************************************************)
(* resolve_on_receive gives every PUBLISH the topic its sender meant: no   *)
(* alias of an earlier connection survives, none is bound to two topics,   *)
(* and an alias that travels alone was bound by an earlier packet of the   *)
(* same connection ([MQTT-3.3.2-7]).                                       *)
(***************************************************************************)
ResolvedAsMeant ==
    connected /\ channel # << >> =>
        Receiver!Resolved(Head(channel).topic, Head(channel).alias)
            = Head(channel).means

=============================================================================
