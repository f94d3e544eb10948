-------------------------- MODULE TopicAliasManager --------------------------
(***************************************************************************)
(* The topic aliases of one peer, in both directions (state/topic_alias.rs)*)
(* An entry beyond the capacity of a table, which grows on demand, is an   *)
(* empty entry.                                                            *)
(***************************************************************************)
EXTENDS MqttTypes

CONSTANT Topics

VARIABLES
    aliasToTopic,  \* alias_to_topic: what the aliases of the peer stand for
    topicToAlias,  \* topic_to_alias: what the own aliases stand for
    ownMaximum,    \* own_maximum: the largest alias accepted from the peer
    peerMaximum    \* peer_maximum: the largest alias the peer accepts

taVars == <<aliasToTopic, topicToAlias, ownMaximum, peerMaximum>>

Aliases == 1..U16Max
NoAliases == [a \in Aliases |-> None]

TaTypeOK ==
    /\ aliasToTopic \in [Aliases -> Topics \cup {None}]
    /\ topicToAlias \in [Aliases -> Topics \cup {None}]
    /\ ownMaximum \in 0..U16Max
    /\ peerMaximum \in 0..U16Max

TaInit ==
    /\ aliasToTopic = NoAliases
    /\ topicToAlias = NoAliases
    /\ ownMaximum = 0
    /\ peerMaximum = 0

\* The aliases among which find_alias_for_topic finds the smallest
AliasesFor(topic) == {a \in 1..peerMaximum : topicToAlias[a] = topic}

\* The aliases register_for_send may give to a new topic
UnusedAliases == {a \in 1..peerMaximum : topicToAlias[a] = None}

\* register_for_send returns Some(alias): the alias the topic has, or else the
\* smallest unused one.
TaRegisterForSend(topic, alias) ==
    LET choices == IF AliasesFor(topic) # {} THEN AliasesFor(topic) ELSE UnusedAliases
    IN  /\ alias \in choices
        /\ \A other \in choices : alias <= other
        /\ topicToAlias' = [topicToAlias EXCEPT ![alias] = topic]
        /\ UNCHANGED <<aliasToTopic, ownMaximum, peerMaximum>>

\* register_for_send returns None, and no mapping is given up for the topic.
RegisterForSendFails(topic) == AliasesFor(topic) = {} /\ UnusedAliases = {}

\* What resolve_on_receive(topic, alias) returns; the empty topic name is None.
Resolved(topic, alias) ==
    IF alias = 0 THEN topic
    ELSE IF alias > ownMaximum THEN None
    ELSE IF topic = None THEN aliasToTopic[alias] ELSE topic

\* resolve_on_receive: a topic that comes with a legal alias is remembered.
TaResolveOnReceive(topic, alias) ==
    /\ aliasToTopic' = IF alias \in 1..ownMaximum /\ topic # None
                       THEN [aliasToTopic EXCEPT ![alias] = topic]
                       ELSE aliasToTopic
    /\ UNCHANGED <<topicToAlias, ownMaximum, peerMaximum>>

\* Mutant: the sending side keeps its aliases across connections.
TaOpenKeepsAliases(own, peer) ==
    /\ aliasToTopic' = NoAliases
    /\ ownMaximum' = own
    /\ peerMaximum' = peer
    /\ UNCHANGED topicToAlias

\* A new connection: reset_mappings, set_own_maximum and set_peer_maximum
TaOpen(own, peer) ==
    /\ aliasToTopic' = NoAliases
    /\ topicToAlias' = NoAliases
    /\ ownMaximum' = own
    /\ peerMaximum' = peer

=============================================================================
