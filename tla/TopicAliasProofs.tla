--------------------------- MODULE TopicAliasProofs ---------------------------
(***************************************************************************)
(* Topic aliases are resolved as their sender meant them, for every set of *)
(* topics, every Topic Alias Maximum and every number of connections.      *)
(***************************************************************************)
EXTENDS TopicAliasLink, SequenceTheorems, TLAPS

\* The receiver knows alias a before it takes the n-th packet of the channel:
\* from its table, or from an earlier packet that carries topic and alias.
BoundBefore(a, n) ==
    \/ seen[a] # None
    \/ \E j \in 1..(n - 1) : channel[j].alias = a /\ channel[j].topic # None

\* A packet with an alias means what the sender's table says, and one without
\* a topic name finds its alias bound.
Faithful(i) ==
    \/ channel[i].alias = 0 /\ channel[i].topic = channel[i].means
    \/ /\ channel[i].alias \in 1..sentMaximum
       /\ sent[channel[i].alias] = channel[i].means
       /\ channel[i].topic \in {None, channel[i].means}
       /\ channel[i].topic = None => BoundBefore(channel[i].alias, i)

\* The two tables agree as far as the receiver has come, and the channel
\* carries every binding the receiver still lacks.
AliasInv ==
    /\ LinkTypeOK
    /\ ~connected => channel = << >>
    /\ connected =>
          /\ seenMaximum = sentMaximum
          /\ \A a \in 1..U16Max : seen[a] # None => seen[a] = sent[a]
          /\ \A a \in 1..U16Max : sent[a] # None => BoundBefore(a, Len(channel) + 1)
          /\ \A i \in 1..Len(channel) : Faithful(i)

LEMMA AliasInit == LinkInit => AliasInv
<1> SUFFICES ASSUME LinkInit PROVE AliasInv
  OBVIOUS
<1>1. Sender!TaTypeOK /\ Receiver!TaTypeOK
  BY U16MaxAssumption
     DEF LinkInit, Sender!TaInit, Receiver!TaInit, Sender!TaTypeOK, Receiver!TaTypeOK,
         Sender!NoAliases, Receiver!NoAliases, Sender!Aliases, Receiver!Aliases
<1> QED
  BY <1>1, EmptySeq DEF LinkInit, AliasInv, LinkTypeOK

\* A connection opens: both tables and the channel are empty.
LEMMA AliasOpen ==
    ASSUME AliasInv, NEW max \in 0..U16Max, OpenConnection(max)
    PROVE  AliasInv'
<1>1. /\ sent' = [a \in 1..U16Max |-> None]
      /\ seen' = [a \in 1..U16Max |-> None]
      /\ unused' = [a \in 1..U16Max |-> None]
      /\ sentMaximum' = max /\ seenMaximum' = max /\ unusedMaximum' = 0
      /\ connected' = TRUE
      /\ channel' = channel /\ channel = << >>
  BY DEF OpenConnection, Sender!TaOpen, Receiver!TaOpen, Sender!NoAliases,
     Receiver!NoAliases, Sender!Aliases, Receiver!Aliases, AliasInv
<1>2. LinkTypeOK'
  BY <1>1, EmptySeq, U16MaxAssumption
     DEF LinkTypeOK, Sender!TaTypeOK, Receiver!TaTypeOK, Sender!Aliases, Receiver!Aliases
<1>3. Len(channel') = 0
  BY <1>1, EmptySeq
<1> QED
  BY <1>1, <1>2, <1>3 DEF AliasInv

LEMMA AliasBreak ==
    ASSUME AliasInv, Break
    PROVE  AliasInv'
<1>1. connected' = FALSE /\ channel' = << >>
      /\ UNCHANGED <<sent, sentMaximum, seen, seenMaximum, unused, unusedMaximum>>
  BY DEF Break, senderVars, receiverVars
<1>2. LinkTypeOK'
  BY <1>1, EmptySeq DEF AliasInv, LinkTypeOK, Sender!TaTypeOK, Receiver!TaTypeOK
<1> QED
  BY <1>1, <1>2 DEF AliasInv

\* What a packet that joins the channel must satisfy: the sender's table keeps
\* its entries, an entry it gains travels with the packet, and a packet without
\* a topic name uses an older entry.
LEMMA AliasPut ==
    ASSUME AliasInv, connected, connected' = connected,
           NEW packet \in Messages, channel' = Append(channel, packet),
           UNCHANGED <<seen, seenMaximum, sentMaximum, unused, unusedMaximum>>,
           sent' \in [1..U16Max -> Topics \cup {None}],
           \A a \in 1..U16Max : sent[a] # None => sent'[a] = sent[a],
           \A a \in 1..U16Max : sent'[a] # None =>
               sent[a] # None \/ (packet.alias = a /\ packet.topic # None),
           \/ packet.alias = 0 /\ packet.topic = packet.means
           \/ /\ packet.alias \in 1..sentMaximum
              /\ sent'[packet.alias] = packet.means
              /\ packet.topic \in {None, packet.means}
              /\ packet.topic = None => sent[packet.alias] # None
    PROVE  AliasInv'
<1>n. PICK n \in Nat : n = Len(channel)
  BY LenProperties DEF AliasInv, LinkTypeOK
<1>1. /\ channel \in Seq(Messages) /\ n \in Nat
      /\ sentMaximum \in 0..U16Max
      /\ sent \in [1..U16Max -> Topics \cup {None}]
  BY DEF AliasInv, LinkTypeOK, Sender!TaTypeOK, Sender!Aliases
<1>2. /\ channel' \in Seq(Messages)
      /\ Len(channel') = n + 1
      /\ \A i \in 1..n : channel'[i] = channel[i]
      /\ channel'[n + 1] = packet
  BY <1>n, <1>1, AppendProperties
<1>3. LinkTypeOK'
  BY <1>2 DEF AliasInv, LinkTypeOK, Sender!TaTypeOK, Receiver!TaTypeOK,
     Sender!Aliases, Receiver!Aliases
<1>4. ASSUME NEW a, NEW k \in 1..(n + 1), BoundBefore(a, k)
      PROVE  BoundBefore(a, k)'
  BY <1>1, <1>2, <1>4 DEF BoundBefore
<1>5. ASSUME NEW a \in 1..U16Max, sent'[a] # None
      PROVE  BoundBefore(a, Len(channel) + 1)'
  <2>1. CASE sent[a] # None
    <3>1. BoundBefore(a, n + 1)
      BY <1>n, <2>1 DEF AliasInv
    <3> QED
      BY <1>1, <1>2, <3>1 DEF BoundBefore
  <2>2. CASE packet.alias = a /\ packet.topic # None
    BY <1>1, <1>2, <2>2 DEF BoundBefore
  <2> QED
    BY <1>5, <2>1, <2>2
<1>6. ASSUME NEW i \in 1..n
      PROVE  Faithful(i)'
  <2>1. Faithful(i) /\ channel'[i] = channel[i]
    BY <1>n, <1>2 DEF AliasInv
  <2>2. CASE channel[i].alias = 0
    BY <1>1, <2>1, <2>2 DEF Faithful
  <2>3. CASE channel[i].alias # 0
    <3>1. channel[i].alias \in 1..U16Max /\ channel[i].means \in Topics
      <4>1. channel[i] \in Messages
        BY <1>n, <1>1, ElementOfSeq
      <4> QED
        BY <2>3, <4>1, U16MaxAssumption DEF Messages
    <3>2. sent'[channel[i].alias] = channel[i].means
      BY <2>1, <2>3, <3>1, LinkAssumption DEF Faithful
    <3>3. channel[i].topic = None => BoundBefore(channel[i].alias, i)'
      BY <1>1, <1>4, <2>1, <2>3 DEF Faithful
    <3> QED
      BY <2>1, <2>3, <3>2, <3>3 DEF Faithful
  <2> QED
    BY <2>2, <2>3
<1>7. Faithful(n + 1)'
  <2>1. packet.alias \in 1..sentMaximum /\ packet.topic = None
            => BoundBefore(packet.alias, n + 1)
    BY <1>n, <1>1, U16MaxAssumption DEF AliasInv
  <2>2. packet.alias \in 1..sentMaximum /\ packet.topic = None
            => BoundBefore(packet.alias, n + 1)'
    BY <1>1, <1>4, <2>1
  <2> QED
    BY <1>1, <1>2, <2>2 DEF Faithful
<1>8. ASSUME NEW i \in 1..Len(channel') PROVE Faithful(i)'
  <2>1. i \in 1..n \/ i = n + 1
    BY <1>1, <1>2
  <2> QED
    BY <1>6, <1>7, <2>1
<1>9. /\ seenMaximum' = sentMaximum'
      /\ \A a \in 1..U16Max : seen'[a] # None => seen'[a] = sent'[a]
  BY DEF AliasInv
<1> QED
  BY <1>3, <1>5, <1>8, <1>9 DEF AliasInv

LEMMA AliasSend ==
    ASSUME AliasInv, NEW topic \in Topics, NEW alias \in 1..U16Max,
           SendAlias(topic, alias) \/ SendNewAlias(topic, alias)
    PROVE  AliasInv'
<1>1. /\ sent \in [1..U16Max -> Topics \cup {None}]
      /\ sentMaximum \in 0..U16Max
      /\ connected
  BY DEF AliasInv, LinkTypeOK, Sender!TaTypeOK, Sender!Aliases, SendAlias, SendNewAlias,
     MaySend
<1>2. /\ UNCHANGED <<seen, seenMaximum, sentMaximum, unused, unusedMaximum, connected>>
      /\ sent' = [sent EXCEPT ![alias] = topic]
      /\ alias \in 1..sentMaximum
  BY DEF SendAlias, SendNewAlias, Sender!TaRegisterForSend, Sender!AliasesFor,
     Sender!UnusedAliases, receiverVars
<1>3. /\ sent' \in [1..U16Max -> Topics \cup {None}]
      /\ sent'[alias] = topic
      /\ \A a \in 1..U16Max : a # alias => sent'[a] = sent[a]
  BY <1>1, <1>2
<1>4. topic # None
  BY LinkAssumption
<1>5. CASE SendAlias(topic, alias)
  <2> DEFINE packet == [topic |-> None, alias |-> alias, means |-> topic]
  <2>1. sent[alias] = topic /\ channel' = Append(channel, packet)
    BY <1>5 DEF SendAlias, Sender!TaRegisterForSend, Sender!AliasesFor, Put
  <2>2. packet \in Messages /\ packet.topic = None /\ packet.alias = alias
        /\ packet.means = topic
    BY U16MaxAssumption DEF Messages
  <2> HIDE DEF packet
  <2> QED
    BY <1>1, <1>2, <1>3, <1>4, <2>1, <2>2, AliasPut
<1>6. CASE SendNewAlias(topic, alias)
  <2> DEFINE packet == [topic |-> topic, alias |-> alias, means |-> topic]
  <2>1. sent[alias] = None /\ channel' = Append(channel, packet)
    BY <1>6 DEF SendNewAlias, Sender!TaRegisterForSend, Sender!AliasesFor,
       Sender!UnusedAliases, Put
  <2>2. packet \in Messages /\ packet.topic = topic /\ packet.alias = alias
        /\ packet.means = topic
    BY U16MaxAssumption DEF Messages
  <2> HIDE DEF packet
  <2> QED
    BY <1>1, <1>2, <1>3, <1>4, <2>1, <2>2, AliasPut
<1> QED
  BY <1>5, <1>6

LEMMA AliasSendPlain ==
    ASSUME AliasInv, NEW topic \in Topics, SendPlain(topic)
    PROVE  AliasInv'
<1> DEFINE packet == [topic |-> topic, alias |-> 0, means |-> topic]
<1>1. /\ sent \in [1..U16Max -> Topics \cup {None}]
      /\ connected
  BY DEF AliasInv, LinkTypeOK, Sender!TaTypeOK, Sender!Aliases, SendPlain, MaySend
<1>2. /\ UNCHANGED <<seen, seenMaximum, sent, sentMaximum, unused, unusedMaximum, connected>>
      /\ channel' = Append(channel, packet)
  BY DEF SendPlain, senderVars, receiverVars, Put
<1>3. packet \in Messages /\ packet.topic = topic /\ packet.alias = 0
      /\ packet.means = topic
  BY U16MaxAssumption DEF Messages
<1> HIDE DEF packet
<1> QED
  BY <1>1, <1>2, <1>3, AliasPut

\* The receiver takes the first packet: a binding it carries moves from the
\* channel into the receiver's table.
LEMMA AliasReceive ==
    ASSUME AliasInv, Receive
    PROVE  AliasInv'
<1>n. PICK n \in Nat : n = Len(channel)
  BY LenProperties DEF AliasInv, LinkTypeOK
<1>p. PICK packet : packet = Head(channel)
  OBVIOUS
<1>1. /\ channel \in Seq(Messages) /\ channel # << >>
      /\ sentMaximum \in 0..U16Max
      /\ sent \in [1..U16Max -> Topics \cup {None}]
      /\ seen \in [1..U16Max -> Topics \cup {None}]
      /\ connected /\ connected' /\ seenMaximum = sentMaximum
      /\ UNCHANGED <<sent, sentMaximum, seenMaximum, unused, unusedMaximum>>
      /\ channel' = Tail(channel)
  BY DEF AliasInv, LinkTypeOK, Sender!TaTypeOK, Receiver!TaTypeOK, Sender!Aliases,
     Receiver!Aliases, Receive, senderVars, Receiver!TaResolveOnReceive
<1>2. /\ channel' \in Seq(Messages)
      /\ Len(channel') = n - 1
      /\ \A i \in 1..(n - 1) : channel'[i] = channel[i + 1]
      /\ packet = channel[1]
      /\ n >= 1
  <2>1. n # 0
    BY <1>n, <1>1, EmptySeq
  <2> QED
    BY <1>n, <1>p, <1>1, <2>1, HeadTailProperties
<1>3. packet \in Messages /\ Faithful(1)
  <2>1. 1 \in 1..Len(channel)
    BY <1>n, <1>2
  <2> QED
    BY <1>1, <1>2, <2>1, ElementOfSeq DEF AliasInv
<1>4. /\ packet.topic \in Topics \cup {None}
      /\ packet.alias \in 0..U16Max
      /\ packet.means \in Topics
  BY <1>3 DEF Messages
<1>5. seen' = IF packet.alias \in 1..seenMaximum /\ packet.topic # None
              THEN [seen EXCEPT ![packet.alias] = packet.topic] ELSE seen
  BY <1>p DEF Receive, Receiver!TaResolveOnReceive
<1>6. /\ seen' \in [1..U16Max -> Topics \cup {None}]
      /\ \A a \in 1..U16Max : seen'[a] # None => seen'[a] = sent'[a]
  <2>1. packet.alias \in 1..seenMaximum /\ packet.topic # None
            => packet.topic = sent[packet.alias]
    BY <1>1, <1>2, <1>3 DEF Faithful
  <2>2. seen' \in [1..U16Max -> Topics \cup {None}]
    BY <1>1, <1>4, <1>5
  <2>3. ASSUME NEW a \in 1..U16Max, seen'[a] # None PROVE seen'[a] = sent[a]
    BY <1>1, <1>4, <1>5, <2>1, <2>3 DEF AliasInv
  <2> QED
    BY <1>1, <2>2, <2>3
<1>7. ASSUME NEW a \in 1..U16Max, NEW k \in 1..n, BoundBefore(a, k + 1)
      PROVE  BoundBefore(a, k)'
  <2>1. CASE seen[a] # None
    BY <1>1, <1>4, <1>5, <2>1, LinkAssumption DEF BoundBefore
  <2>2. CASE \E j \in 1..k : channel[j].alias = a /\ channel[j].topic # None
    <3>1. PICK j \in 1..k : channel[j].alias = a /\ channel[j].topic # None
      BY <2>2
    <3>2. CASE j = 1
      <4>1. Faithful(1) /\ packet.alias = a /\ packet.topic # None /\ a # 0
        BY <1>2, <1>3, <3>1, <3>2
      <4>2. a \in 1..seenMaximum
        BY <1>1, <1>2, <4>1 DEF Faithful
      <4>3. seen'[a] # None
        BY <1>1, <1>5, <4>1, <4>2
      <4> QED
        BY <4>3 DEF BoundBefore
    <3>3. CASE j # 1
      <4>1. j - 1 \in 1..(k - 1) /\ j - 1 \in 1..(n - 1) /\ (j - 1) + 1 = j
        BY <1>2, <3>3
      <4>2. channel'[j - 1] = channel[j]
        BY <1>2, <4>1
      <4> QED
        BY <3>1, <4>1, <4>2 DEF BoundBefore
    <3> QED
      BY <3>2, <3>3
  <2> QED
    BY <1>7, <2>1, <2>2 DEF BoundBefore
<1>8. ASSUME NEW a \in 1..U16Max, sent'[a] # None
      PROVE  BoundBefore(a, Len(channel) + 1)'
  <2>1. BoundBefore(a, n + 1)
    BY <1>n, <1>1, <1>8 DEF AliasInv
  <2>2. BoundBefore(a, n)'
    BY <1>2, <1>7, <2>1
  <2> QED
    BY <1>2, <2>2 DEF BoundBefore
<1>9. ASSUME NEW i \in 1..Len(channel') PROVE Faithful(i)'
  <2>1. i \in 1..(n - 1) /\ i + 1 \in 1..n /\ channel'[i] = channel[i + 1]
    BY <1>2
  <2>2. Faithful(i + 1)
    BY <1>n, <1>1, <2>1 DEF AliasInv
  <2>3. ASSUME channel[i + 1].topic = None,
               channel[i + 1].alias \in 1..sentMaximum,
               BoundBefore(channel[i + 1].alias, i + 1)
        PROVE  BoundBefore(channel[i].alias, i)'
    <3>1. PICK a \in 1..U16Max : a = channel[i + 1].alias
      BY <1>1, <2>3, U16MaxAssumption
    <3>2. BoundBefore(a, i)'
      BY <1>2, <1>7, <2>1, <2>3, <3>1
    <3> QED
      BY <2>1, <3>1, <3>2 DEF BoundBefore
  <2> QED
    BY <1>1, <2>1, <2>2, <2>3 DEF Faithful
<1>10. LinkTypeOK'
  BY <1>1, <1>2, <1>6 DEF AliasInv, LinkTypeOK, Sender!TaTypeOK, Receiver!TaTypeOK,
     Sender!Aliases, Receiver!Aliases
<1> QED
  BY <1>1, <1>6, <1>8, <1>9, <1>10 DEF AliasInv

\* AliasInv is inductive: it holds at every step of the link.
LEMMA AliasInvariant == LinkSpec => []AliasInv
<1>1. ASSUME AliasInv, [LinkNext]_linkVars PROVE AliasInv'
  <2>1. CASE UNCHANGED linkVars
    <3>1. UNCHANGED <<sent, sentMaximum, seen, seenMaximum, unused, unusedMaximum,
                      channel, connected>>
      BY <2>1 DEF linkVars, senderVars, receiverVars
    <3>2. LinkTypeOK'
      BY <1>1, <3>1 DEF AliasInv, LinkTypeOK, Sender!TaTypeOK, Receiver!TaTypeOK
    <3> QED
      BY <1>1, <3>1, <3>2 DEF AliasInv, Faithful, BoundBefore
  <2>2. CASE LinkNext
    BY <1>1, <2>2, AliasOpen, AliasBreak, AliasSend, AliasSendPlain, AliasReceive
       DEF LinkNext
  <2> QED
    BY <1>1, <2>1, <2>2
<1> QED
  BY AliasInit, <1>1, PTL DEF LinkSpec

(***************************************************************************)
(* resolve_on_receive gives every PUBLISH the topic register_for_send's    *)
(* side meant by it, over any number of connections: TopicAliasLink.cfg    *)
(* checks it for two topics, this is every set of topics and every         *)
(* announced maximum.                                                      *)
(***************************************************************************)
THEOREM AliasesResolved == LinkSpec => []ResolvedAsMeant
<1>1. ASSUME AliasInv PROVE ResolvedAsMeant
  <2> SUFFICES ASSUME connected, channel # << >>
               PROVE  Receiver!Resolved(Head(channel).topic, Head(channel).alias)
                          = Head(channel).means
    BY DEF ResolvedAsMeant
  <2>1. /\ channel \in Seq(Messages)
        /\ seenMaximum = sentMaximum /\ sentMaximum \in 0..U16Max
    BY <1>1 DEF AliasInv, LinkTypeOK, Sender!TaTypeOK
  <2>2. 1 \in 1..Len(channel) /\ Head(channel) = channel[1]
    BY <2>1, HeadTailProperties, EmptySeq, LenProperties
  <2>3. Faithful(1) /\ channel[1].means \in Topics
    <3>1. channel[1] \in Messages
      BY <2>1, <2>2, ElementOfSeq
    <3> QED
      BY <1>1, <2>2, <3>1 DEF AliasInv, Messages
  <2>4. CASE channel[1].alias = 0
    BY <2>1, <2>2, <2>3, <2>4 DEF Faithful, Receiver!Resolved
  <2>5. CASE channel[1].alias # 0
    <3>1. /\ channel[1].alias \in 1..sentMaximum
          /\ channel[1].alias \in 1..U16Max
          /\ sent[channel[1].alias] = channel[1].means
          /\ channel[1].topic \in {None, channel[1].means}
      BY <2>1, <2>3, <2>5, U16MaxAssumption DEF Faithful
    <3>2. channel[1].topic = None => seen[channel[1].alias] = channel[1].means
      BY <1>1, <2>3, <2>5, <3>1 DEF Faithful, BoundBefore, AliasInv
    <3> QED
      BY <2>1, <2>2, <2>3, <3>1, <3>2, LinkAssumption DEF Receiver!Resolved
  <2> QED
    BY <2>4, <2>5
<1> QED
  BY AliasInvariant, <1>1, PTL

=============================================================================
