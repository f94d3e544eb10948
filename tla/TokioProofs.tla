----------------------------- MODULE TokioProofs -----------------------------
(***************************************************************************)
(* The client's task keeps its promises for every number of calls, every   *)
(* timeout and Keep Alive time and every width of the packet identifier: a *)
(* call gives its identifier back, a PINGRESP that was read is recorded, a *)
(* server that stopped answering is noticed in time, and the message of a  *)
(* PUBLISH with QoS 2 is given to the application at most once.            *)
(***************************************************************************)
EXTENDS TokioClient, ComponentProofs

\* The call has allocated an identifier and registers its request next.
Registering ==
    {"RegisterPublish", "ValidatePublish", "RegisterSubscribe", "RegisterUnsubscribe"}

\* The awaits of a call that has an identifier of its own
Owning == Registering \cup PublishAwaits \cup {"AwaitSuback", "AwaitUnsuback"}

\* What the client answers to packets of the server
AnswerTypes == {"Puback", "Pubrec", "Pubcomp"}

ToClientTypes == AckTypes \cup {"Publish", "Pubrel", "Pingresp", "Disconnect"}
ToServerTypes ==
    AnswerTypes \cup {"Connect", "Publish", "Pubrel", "Subscribe", "Unsubscribe",
                      "Pingreq", "Disconnect"}

PacketsOf(types) ==
    [type : types, id : 0..U16Max, qos : QoSLevels, msg : 0..MaxPublishes, ok : BOOLEAN]

ToClientPackets ==
    {p \in PacketsOf(ToClientTypes) :
        /\ p.type = "Publish" /\ p.qos # "AtMostOnce" => p.msg # 0 /\ p.id # 0
        /\ p.type = "Pubrel" => p.id # 0
        /\ p.type = "Pingresp" => p = Packet("Pingresp", 0)}

ToServerPackets ==
    {p \in PacketsOf(ToServerTypes) : p.type \in AnswerTypes => p.id # 0}

Writes ==
    [packet : ToServerPackets, then : Looping \cup {"Idle", "AwaitConnack"},
     msg : 0..MaxPublishes, settles : BOOLEAN]

-----------------------------------------------------------------------------
(***************************************************************************)
(* The inductive invariant                                                 *)
(***************************************************************************)

TaskTypeOK ==
    /\ TokioTypeOK
    /\ setting \in Settings
    /\ toClient \in Seq(ToClientPackets)
    /\ toServer \in Seq(ToServerPackets)
    /\ out = NoWrite \/ out \in Writes
    /\ published \in 0..MaxPublishes
    /\ quietSince \in Nat
    /\ call.at \in Owning => call.id # 0
    /\ call.at = "RegisterPublish" => call.qos # "AtMostOnce"

\* What a write leads to, and which calls may be writing what
WriteOK ==
    /\ call.at \in Registering \cup {"Configured"} => out = NoWrite
    /\ out # NoWrite =>
          /\ call.at \in Owning => out.then = call.at
          /\ call.at \notin Owning => out.then \notin Owning
          /\ reading \/ call.at \notin Looping => out.then = call.at
          /\ call.at \in Looping => out.then # "AwaitConnack"
          /\ out.packet.type \in AnswerTypes /\ call.at \in Owning =>
                call.at \in PublishAwaits
          /\ out.packet.type = "Pingreq" =>
                pingreqSentAt = None /\ call.at # "AwaitConnack"

\* A call that does not own an identifier has none left in use.
Settled ==
    /\ call.at \in Owning => inUse \subseteq unsettled \cup {call.id}
    /\ call.at \notin Owning => inUse \subseteq unsettled

PingTracked ==
    /\ PingrespRecorded
    /\ call.at = "AwaitConnack" => pingreqSentAt = None

\* From when the silence of the server is judged, and how long it may last
Since == IF pingreqSentAt = None THEN lastActivity ELSE pingreqSentAt
Limit == keepAliveSecs * MsPerSec + KeepAliveTick

Timers ==
    /\ lastActivity <= now
    /\ pingreqSentAt # None => pingreqSentAt <= lastActivity
    /\ call.at \in Registering \cup {"Idle", "Configured"} => ~reading
    /\ call.at \in Registering => quietSince = now
    /\ quietSince <= now
    /\ reading => now <= wake
    /\ reading /\ call.at \in Looping /\ keepAliveSecs # 0 => wake <= Since + Limit

\* A dead server: what it had sent is read at once; then only a PINGREQ is
\* written, within one limit of its death, and judged within another.
DeathNoticed ==
    call.at \in Looping /\ ~alive /\ keepAliveSecs # 0 /\ now # quietSince =>
        /\ toClient = << >>
        /\ out = NoWrite \/ out.packet.type = "Pingreq"
        /\ pingreqSentAt = None => lastActivity <= quietSince /\ now <= quietSince + Limit
        /\ pingreqSentAt # None =>
              pingreqSentAt <= quietSince + Limit /\ now <= pingreqSentAt + Limit

TokioInv ==
    /\ TaskTypeOK
    /\ WriteOK
    /\ Settled
    /\ PingTracked
    /\ Timers
    /\ DeathNoticed

-----------------------------------------------------------------------------
(***************************************************************************)
(* Types                                                                   *)
(***************************************************************************)

CallAts == Looping \cup Registering \cup {"Idle", "Configured", "AwaitConnack"}

Calls == [at : CallAts, id : 0..U16Max, qos : QoSLevels, msg : 0..MaxPublishes,
          deadline : Nat]

LEMMA CallAtsListed ==
    CallAts = Looping \cup {"Idle", "Configured", "AwaitConnack", "RegisterPublish",
                            "ValidatePublish", "RegisterSubscribe", "RegisterUnsubscribe"}
  BY DEF CallAts, Registering

\* The state that is typed, part by part
LEMMA TaskTypes ==
    ASSUME TokioInv
    PROVE  /\ SessionTypeOK /\ setting \in Settings
           /\ call \in Calls /\ call.at \in CallAts /\ call.id \in 0..U16Max
           /\ reading \in BOOLEAN /\ wake \in Nat /\ now \in Nat /\ quietSince \in Nat
           /\ unsettled \subseteq PacketIds /\ forgotten \subseteq 0..MaxPublishes
           /\ \A p \in dropped : p.type \in ToClientTypes
           /\ calls \in 0..setting.maxCalls
           /\ open \in BOOLEAN /\ alive \in BOOLEAN
           /\ delivered \in [Messages -> Nat]
           /\ toClient \in Seq(ToClientPackets) /\ toServer \in Seq(ToServerPackets)
           /\ out = NoWrite \/ out \in Writes
           /\ lastActivity \in Nat /\ pingreqSentAt \in Nat \cup {None}
           /\ keepAliveSecs \in Nat
<1>1. TokioTypeOK /\ TaskTypeOK
  BY DEF TokioInv, TaskTypeOK
<1>2. call \in Calls
  BY <1>1, CallAtsListed DEF TokioTypeOK, Calls
<1>3. call.at \in CallAts /\ call.id \in 0..U16Max
  BY <1>2 DEF Calls
<1>4. KaTypeOK
  BY <1>1 DEF TokioTypeOK, SessionTypeOK
<1>5. lastActivity \in Nat /\ pingreqSentAt \in Nat \cup {None} /\ keepAliveSecs \in Nat
  BY <1>4 DEF KaTypeOK
<1>6. \A p \in dropped : p.type \in ToClientTypes
  BY <1>1 DEF TokioTypeOK, ToClientTypes
<1> QED
  BY <1>1, <1>2, <1>3, <1>5, <1>6 DEF TokioTypeOK, TaskTypeOK

\* A step has the types of TaskTypeOK when it has them part by part.
LEMMA TypesKept ==
    ASSUME TokioInv, SessionTypeOK', setting' = setting,
           call' \in Calls, reading' \in BOOLEAN, wake' \in Nat, now' \in Nat,
           unsettled' \subseteq PacketIds, forgotten' \subseteq 0..MaxPublishes,
           \A p \in dropped' : p.type \in ToClientTypes,
           calls' \in 0..setting.maxCalls,
           UNCHANGED <<serverFlow, published, completed>>,
           open' \in BOOLEAN, alive' \in BOOLEAN, quietSince' \in Nat,
           delivered' \in [Messages -> Nat],
           toClient' \in Seq(ToClientPackets), toServer' \in Seq(ToServerPackets),
           out' = NoWrite \/ out' \in Writes,
           call'.at \in Owning => call'.id # 0,
           call'.at = "RegisterPublish" => call'.qos # "AtMostOnce"
    PROVE  TaskTypeOK'
<1>1. TokioTypeOK /\ TaskTypeOK
  BY DEF TokioInv, TaskTypeOK
<1>2. call' \in [at : Looping \cup {"Idle", "Configured", "AwaitConnack",
                    "RegisterPublish", "ValidatePublish", "RegisterSubscribe",
                    "RegisterUnsubscribe"},
                 id : 0..U16Max, qos : QoSLevels, msg : 0..MaxPublishes,
                  deadline : Nat]
  BY CallAtsListed DEF Calls
<1>3. \A p \in dropped' : p.type \in AckTypes \cup
           {"Publish", "Pubrel", "Pingresp", "Disconnect"}
  BY DEF ToClientTypes
<1>4. TokioTypeOK'
  BY <1>1, <1>2, <1>3 DEF TokioTypeOK
<1> QED
  BY <1>1, <1>4 DEF TaskTypeOK

LEMMA NoCallType ==
    NoCall \in Calls /\ NoCall.at = "Idle" /\ NoCall.id = 0
<1>1. 0 \in 0..U16Max /\ 0 \in 0..MaxPublishes
  BY U16MaxAssumption, TokioAssumption
<1> QED
  BY <1>1 DEF NoCall, Calls, CallAts, QoSLevels

LEMMA AwaitKinds ==
    /\ Registering \subseteq Owning /\ PublishAwaits \subseteq Owning
    /\ PublishAwaits \subseteq Looping /\ Owning \ Registering \subseteq Looping
    /\ Registering \cap Looping = {}
    /\ {"Idle", "Configured", "AwaitConnack"} \cap (Looping \cup Owning) = {}
  BY DEF Registering, Owning, PublishAwaits, Looping, Receiving

\* A packet stays in a queue when the one before it is taken.
LEMMA TailKeeps ==
    ASSUME NEW S, NEW queue \in Seq(S), queue # << >>,
           NEW i \in DOMAIN queue, i # 1
    PROVE  i - 1 \in DOMAIN Tail(queue) /\ Tail(queue)[i - 1] = queue[i]
<1>1. /\ Len(queue) \in Nat /\ DOMAIN queue = 1..Len(queue)
      /\ Tail(queue) \in Seq(S) /\ Len(Tail(queue)) = Len(queue) - 1
      /\ \A j \in 1..(Len(queue) - 1) : Tail(queue)[j] = queue[j + 1]
  BY LenProperties, HeadTailProperties
<1>2. DOMAIN Tail(queue) = 1..(Len(queue) - 1)
  BY <1>1, LenProperties
<1>3. i - 1 \in 1..(Len(queue) - 1) /\ (i - 1) + 1 = i
  BY <1>1
<1> QED
  BY <1>1, <1>2, <1>3

LEMMA HeadTyped ==
    ASSUME TokioInv, toClient # << >>
    PROVE  /\ Head(toClient) \in ToClientPackets /\ Tail(toClient) \in Seq(ToClientPackets)
           /\ Head(toClient) = toClient[1] /\ Head(toClient).type \in ToClientTypes
           /\ Head(toClient).id \in 0..U16Max /\ Head(toClient).msg \in 0..MaxPublishes
           /\ Head(toClient).qos \in QoSLevels /\ Head(toClient).ok \in BOOLEAN
<1>1. toClient \in Seq(ToClientPackets)
  BY TaskTypes
<1>2. /\ Head(toClient) \in ToClientPackets /\ Tail(toClient) \in Seq(ToClientPackets)
      /\ Head(toClient) = toClient[1]
  BY <1>1, HeadTailProperties
<1>3. Head(toClient) \in PacketsOf(ToClientTypes)
  BY <1>2 DEF ToClientPackets
<1> QED
  BY <1>2, <1>3 DEF PacketsOf

-----------------------------------------------------------------------------
(***************************************************************************)
(* Steps that end or begin a call, or that read a packet and go on         *)
(***************************************************************************)

\* The next packet is read, or none.
Reads ==
    \/ toClient' = toClient
    \/ /\ toClient # << >> /\ toClient' = Tail(toClient)
       /\ Head(toClient).type = "Pingresp" =>
             pingreqSentAt' = None \/ Head(toClient) \in dropped'

LEMMA PingKept ==
    ASSUME TokioInv, UNCHANGED <<alive, open, toServer>>,
           pingreqSentAt' \in {None, pingreqSentAt},
           dropped \subseteq dropped', Reads
    PROVE  PingrespRecorded'
<1> SUFFICES ASSUME alive, open, pingreqSentAt' # None
             PROVE  \/ \E i \in DOMAIN toServer : toServer[i].type = "Pingreq"
                    \/ \E i \in DOMAIN toClient' : toClient'[i].type = "Pingresp"
                    \/ Packet("Pingresp", 0) \in dropped'
  BY DEF PingrespRecorded
<1>1. \/ \E i \in DOMAIN toServer : toServer[i].type = "Pingreq"
      \/ \E i \in DOMAIN toClient : toClient[i].type = "Pingresp"
      \/ Packet("Pingresp", 0) \in dropped
  BY DEF TokioInv, PingTracked, PingrespRecorded
<1>2. CASE \E i \in DOMAIN toClient : toClient[i].type = "Pingresp"
  <2>1. PICK i \in DOMAIN toClient : toClient[i].type = "Pingresp"
    BY <1>2
  <2>2. CASE toClient' = toClient
    BY <2>1, <2>2
  <2>3. CASE toClient # << >> /\ toClient' = Tail(toClient) /\ i # 1
    <3>1. toClient \in Seq(ToClientPackets)
      BY TaskTypes
    <3>2. i - 1 \in DOMAIN Tail(toClient) /\ Tail(toClient)[i - 1] = toClient[i]
      BY <2>3, <3>1, TailKeeps
    <3> QED
      BY <2>1, <2>3, <3>2
  <2>4. CASE toClient # << >> /\ toClient' = Tail(toClient) /\ i = 1
    <3>1. Head(toClient).type = "Pingresp" /\ Head(toClient) \in ToClientPackets
      BY <2>1, <2>4, HeadTyped
    <3>2. Head(toClient) = Packet("Pingresp", 0)
      BY <3>1 DEF ToClientPackets
    <3>3. Head(toClient) \in dropped'
      BY <2>4, <3>1 DEF Reads
    <3> QED
      BY <3>2, <3>3
  <2> QED
    BY <2>2, <2>3, <2>4 DEF Reads
<1> QED
  BY <1>1, <1>2

\* A call ends, and has settled what it owned.
LEMMA EndsInv ==
    ASSUME TokioInv, Reads,
           call' = NoCall, reading' = FALSE, wake' = 0, out' = NoWrite,
           UNCHANGED <<setting, calls, now, toServer, open>>, UNCHANGED serverVars,
           SessionTypeOK', lastActivity' = lastActivity,
           pingreqSentAt' \in {None, pingreqSentAt},
           unsettled' \subseteq PacketIds, inUse' \subseteq unsettled',
           dropped \subseteq dropped', \A p \in dropped' : p.type \in ToClientTypes,
           forgotten' \subseteq 0..MaxPublishes, delivered' \in [Messages -> Nat]
    PROVE  TokioInv'
<1>1. UNCHANGED <<alive, quietSince, serverFlow, published, completed>>
  BY DEF serverVars
<1>2. toClient' \in Seq(ToClientPackets)
  BY TaskTypes, HeadTyped DEF Reads
<1>3. /\ call'.at = "Idle" /\ call' \in Calls /\ call'.at \notin Owning \cup Looping
      /\ call'.at \notin Registering \cup {"Configured", "AwaitConnack"}
  BY NoCallType, AwaitKinds DEF Registering
<1>4. TaskTypeOK'
  BY <1>1, <1>2, <1>3, TaskTypes, TypesKept, AwaitKinds DEF Registering
<1>5. WriteOK'
  BY <1>3 DEF WriteOK
<1>6. Settled'
  BY <1>3 DEF Settled
<1>7. PingTracked'
  BY <1>1, <1>3, PingKept DEF PingTracked
<1>8. Timers'
  BY <1>1, <1>3 DEF Timers, TokioInv
<1>9. DeathNoticed'
  BY <1>3 DEF DeathNoticed
<1> QED
  BY <1>4, <1>5, <1>6, <1>7, <1>8, <1>9 DEF TokioInv

-----------------------------------------------------------------------------
(***************************************************************************)
(* What the calls do to the session                                        *)
(***************************************************************************)

\* The session stays typed and Keep Alive is left alone.
SessionQuiet == SessionTypeOK' /\ UNCHANGED kaVars

LEMMA SessionUntouched ==
    ASSUME SessionTypeOK, UNCHANGED sessionVars
    PROVE  SessionQuiet /\ inUse' = inUse
<1>1. UNCHANGED <<pidVars, qosVars, fcVars, subVars, kaVars, authVars, sesVars>>
  BY DEF sessionVars
<1>2. SessionTypeOK'
  BY <1>1, SessionTypeKept DEF ComponentStep
<1> QED
  BY <1>1, <1>2 DEF SessionQuiet, pidVars

\* The ends of a request, which release its identifier
Releases(id) ==
    \/ ReleasePacketId(id) \/ AbortPublish(id)
    \/ AbortSubscribe(id) \/ AbortUnsubscribe(id)
    \/ HandleSuback(id, <<TRUE>>) \/ HandleUnsuback(id, <<TRUE>>)
    \/ PubackResult(id) = "Complete" /\ HandlePuback(id)
    \/ PubcompResult(id) = "Complete" /\ HandlePubcomp(id)
    \/ \E isError \in BOOLEAN :
          PubrecResult(id, isError) = "Aborted" /\ HandlePubrec(id, isError)

LEMMA SessionReleases ==
    ASSUME SessionTypeOK, NEW id \in PacketIds, Releases(id)
    PROVE  SessionQuiet /\ inUse' = inUse \ {id}
<1>1. PidRelease(id) /\ UNCHANGED <<kaVars, authVars, sesVars>>
  BY DEF Releases, ReleasePacketId, AbortPublish, AbortSubscribe, AbortUnsubscribe,
         HandleSuback, HandleUnsuback, HandlePuback, HandlePubcomp, HandlePubrec,
         FlowEnded
<1>2. [FcNext]_fcVars
  BY DEF Releases, ReleasePacketId, AbortPublish, AbortSubscribe, AbortUnsubscribe,
         HandleSuback, HandleUnsuback, HandlePuback, HandlePubcomp, HandlePubrec,
         FlowEnded, FcNext
<1>3. [QosNext]_qosVars
  BY DEF Releases, ReleasePacketId, AbortPublish, AbortSubscribe, AbortUnsubscribe,
         HandleSuback, HandleUnsuback, HandlePuback, HandlePubcomp, HandlePubrec, QosNext
<1>4. <<TRUE>> \in Seq(BOOLEAN)
  OBVIOUS
<1>5. [SubNext]_subVars
  BY <1>4 DEF Releases, ReleasePacketId, AbortPublish, AbortSubscribe, AbortUnsubscribe,
         HandleSuback, HandleUnsuback, HandlePuback, HandlePubcomp, HandlePubrec, SubNext
<1>6. ComponentStep
  BY <1>1, <1>2, <1>3, <1>5 DEF ComponentStep, PidNext
<1>7. SessionTypeOK'
  BY <1>1, <1>6, SessionTypeKept
<1> QED
  BY <1>1, <1>7 DEF SessionQuiet, PidRelease

\* The handlers that leave the identifiers as they are
Keeps(id) ==
    \/ \E qos \in {"AtLeastOnce", "ExactlyOnce"} : PublishSent(qos, id)
    \/ \E qos \in QoSLevels : HandlePublish(qos, id)
    \/ HandlePubrel(id)
    \/ \E entries \in SubscribeRequests : SubscribeSent(id, entries)
    \/ \E filters \in UnsubscribeRequests : UnsubscribeSent(id, filters)
    \/ \E isError \in BOOLEAN :
          PubrecResult(id, isError) # "Aborted" /\ HandlePubrec(id, isError)

LEMMA SessionKeeps ==
    ASSUME SessionTypeOK, NEW id \in PacketIds, Keeps(id)
    PROVE  SessionQuiet /\ inUse' = inUse
<1>1. UNCHANGED <<pidVars, kaVars, authVars, sesVars>>
  BY DEF Keeps, PublishSent, HandlePublish, HandlePubrel, SubscribeSent,
         UnsubscribeSent, HandlePubrec
<1>2. [FcNext]_fcVars
  BY DEF Keeps, PublishSent, HandlePublish, HandlePubrel, SubscribeSent,
         UnsubscribeSent, HandlePubrec, FcNext
<1>3. [QosNext]_qosVars
  BY DEF Keeps, PublishSent, HandlePublish, HandlePubrel, SubscribeSent,
         UnsubscribeSent, HandlePubrec, QosNext
<1>4. [SubNext]_subVars
  BY DEF Keeps, PublishSent, HandlePublish, HandlePubrel, SubscribeSent,
         UnsubscribeSent, HandlePubrec, SubNext
<1>5. ComponentStep
  BY <1>1, <1>2, <1>3, <1>4 DEF ComponentStep
<1>6. SessionTypeOK'
  BY <1>1, <1>5, SessionTypeKept
<1> QED
  BY <1>1, <1>6 DEF SessionQuiet, pidVars

\* An identifier is allocated, or there is none left.
LEMMA SessionAllocates ==
    ASSUME SessionTypeOK
    PROVE  /\ \A id \in PacketIds : AllocatePacketId(id) =>
                 SessionQuiet /\ inUse' = inUse \cup {id}
           /\ AllocatePacketIdFails => SessionQuiet /\ inUse' = inUse
<1>1. ASSUME NEW id \in PacketIds, AllocatePacketId(id)
      PROVE  SessionQuiet /\ inUse' = inUse \cup {id}
  <2>1. ComponentStep /\ UNCHANGED <<kaVars, sesVars>>
    BY <1>1 DEF AllocatePacketId, ComponentStep, PidNext
  <2>2. SessionTypeOK'
    BY <2>1, SessionTypeKept
  <2> QED
    BY <1>1, <2>1, <2>2 DEF SessionQuiet, AllocatePacketId, PidAllocate
<1>2. ASSUME AllocatePacketIdFails
      PROVE  SessionQuiet /\ inUse' = inUse
  <2>1. ComponentStep /\ UNCHANGED <<kaVars, sesVars>>
    BY <1>2 DEF AllocatePacketIdFails, ComponentStep, PidNext
  <2>2. SessionTypeOK'
    BY <2>1, SessionTypeKept
  <2> QED
    BY <1>2, <2>1, <2>2 DEF SessionQuiet, AllocatePacketIdFails, PidExhausted
<1> QED
  BY <1>1, <1>2

\* The times Keep Alive is judged by are numbers.
LEMMA LimitType ==
    ASSUME TokioInv
    PROVE  /\ keepAliveSecs * MsPerSec \in Nat /\ KeepAliveTick \in Nat
           /\ Limit \in Nat /\ Since \in Nat
<1>1. keepAliveSecs \in Nat /\ MsPerSec \in Nat /\ MinTick \in Nat
  BY TaskTypes, MsPerSecAssumption, TokioAssumption
<1>2. keepAliveSecs * MsPerSec \in Nat
  BY <1>1
<1>3. \A n \in Nat : n \div 4 \in Nat
  OBVIOUS
<1>4. (keepAliveSecs * MsPerSec) \div 4 \in Nat
  BY <1>2, <1>3
<1>5. KeepAliveTick \in Nat
  BY <1>1, <1>4 DEF KeepAliveTick
<1>6. Since \in Nat
  BY TaskTypes DEF Since
<1> QED
  BY <1>2, <1>5, <1>6 DEF Limit

LEMMA LimitKept ==
    ASSUME keepAliveSecs' = keepAliveSecs
    PROVE  Limit' = Limit
  BY DEF Limit, KeepAliveTick

-----------------------------------------------------------------------------
(***************************************************************************)
(* The ends of a call                                                      *)
(***************************************************************************)

\* What is left alone when a call fails
Remains == UNCHANGED <<setting, now, toServer, open, delivered>> /\ UNCHANGED serverVars

\* An error that `?` passes on
LEMMA FailUnsettledInv ==
    ASSUME TokioInv, Reads, Remains, NEW error, FailUnsettled(error),
           SessionQuiet, inUse' = inUse,
           call.at \in Owning => call.at \in PublishAwaits
    PROVE  TokioInv'
<1>1. /\ call' = NoCall /\ reading' = FALSE /\ wake' = 0 /\ out' = NoWrite
      /\ calls' = calls /\ dropped' = dropped /\ forgotten' = forgotten
      /\ unsettled' = unsettled \cup (IF call.at \in PublishAwaits THEN {call.id} ELSE {})
  BY DEF FailUnsettled, Finish
<1>2. SessionTypeOK' /\ lastActivity' = lastActivity /\ pingreqSentAt' = pingreqSentAt
  BY DEF SessionQuiet, kaVars
<1>3. call.at \in PublishAwaits => call.id \in PacketIds
  BY TaskTypes, AwaitKinds, U16MaxAssumption DEF TokioInv, TaskTypeOK, PacketIds
<1>4. unsettled' \subseteq PacketIds
  BY <1>1, <1>3, TaskTypes
<1>5. inUse' \subseteq unsettled'
  BY <1>1 DEF TokioInv, Settled
<1> QED
  BY <1>1, <1>2, <1>4, <1>5, TaskTypes, EndsInv DEF Remains

LEMMA HeldTyped ==
    ASSUME TokioInv
    PROVE  \A p \in Held : p.type \in ToClientTypes
  BY DEF Held, PublishPacket, ToClientTypes

LEMMA AbortingTyped ==
    ASSUME TokioInv, NEW at, Aborting(at), at \subseteq Owning
    PROVE  forgotten' \subseteq 0..MaxPublishes
<1>1. call.at \in at => call.id \in PacketIds
  BY TaskTypes, U16MaxAssumption DEF TokioInv, TaskTypeOK, PacketIds
<1>2. call.at \in at => serverFlow[call.id].msg \in 0..MaxPublishes
  BY <1>1 DEF TokioInv, TaskTypeOK, TokioTypeOK
<1> QED
  BY <1>2, TaskTypes DEF Aborting

\* What Abandon withdraws
LEMMA AbandonSettles ==
    ASSUME TokioInv, Abandon,
           call.at \notin {"RegisterPublish", "RegisterSubscribe", "RegisterUnsubscribe"}
    PROVE  SessionQuiet /\ inUse' \subseteq unsettled
<1>1. SessionTypeOK
  BY TaskTypes
<1>2. CASE call.at \in Owning
  <2>1. call.id \in PacketIds
    BY <1>2, TaskTypes, U16MaxAssumption DEF TokioInv, TaskTypeOK, PacketIds
  <2>2. Releases(call.id)
    BY <1>2 DEF Abandon, Releases, Owning, Registering
  <2>3. SessionQuiet /\ inUse' = inUse \ {call.id}
    BY <1>1, <2>1, <2>2, SessionReleases
  <2> QED
    BY <1>2, <2>3 DEF TokioInv, Settled
<1>3. CASE call.at \notin Owning
  <2>1. UNCHANGED sessionVars
    BY <1>3 DEF Abandon, Owning, Registering
  <2> QED
    BY <1>1, <1>3, <2>1, SessionUntouched DEF TokioInv, Settled
<1> QED
  BY <1>2, <1>3

\* An error of a call, which withdraws its request
LEMMA FailInv ==
    ASSUME TokioInv, Reads, Remains, NEW error, NEW packets \in SUBSET ToClientPackets,
           FailDropping(error, packets),
           call.at \notin {"RegisterPublish", "RegisterSubscribe", "RegisterUnsubscribe"}
    PROVE  TokioInv'
<1>1. /\ call' = NoCall /\ reading' = FALSE /\ wake' = 0 /\ out' = NoWrite
      /\ calls' = calls /\ unsettled' = unsettled
      /\ dropped' = dropped \cup packets \cup Held
  BY DEF FailDropping, Finish
<1>2. Abandon
  BY DEF FailDropping
<1>3. SessionQuiet /\ inUse' \subseteq unsettled
  BY <1>2, AbandonSettles
<1>4. SessionTypeOK' /\ lastActivity' = lastActivity /\ pingreqSentAt' = pingreqSentAt
  BY <1>3 DEF SessionQuiet, kaVars
<1>5. \A p \in packets : p.type \in ToClientTypes
  BY DEF ToClientPackets, PacketsOf
<1>6. \A p \in dropped' : p.type \in ToClientTypes
  BY <1>1, <1>5, HeldTyped, TaskTypes
<1>7. forgotten' \subseteq 0..MaxPublishes
  BY AbortingTyped, AwaitKinds DEF FailDropping, Registering, Owning
<1> QED
  BY <1>1, <1>3, <1>4, <1>6, <1>7, TaskTypes, EndsInv DEF Remains

\* A call that ends as it should, or that has nothing to withdraw
LEMMA FinishInv ==
    ASSUME TokioInv, Reads, NEW outcome, Finish(outcome),
           UNCHANGED <<setting, now, toServer, open, lossVars>>, UNCHANGED serverVars,
           SessionTypeOK', lastActivity' = lastActivity,
           pingreqSentAt' \in {None, pingreqSentAt},
           inUse' \subseteq unsettled, delivered' \in [Messages -> Nat]
    PROVE  TokioInv'
<1>1. /\ call' = NoCall /\ reading' = FALSE /\ wake' = 0 /\ out' = NoWrite
      /\ calls' = calls /\ UNCHANGED <<unsettled, dropped, forgotten>>
  BY DEF Finish, lossVars
<1> QED
  BY <1>1, TaskTypes, EndsInv

\* The answer a call has waited for releases its identifier.
LEMMA AnsweredInv ==
    ASSUME TokioInv, Reads, Remains, UNCHANGED lossVars, NEW outcome, Finish(outcome),
           Releases(call.id), call.at \in Owning
    PROVE  TokioInv'
<1>1. SessionTypeOK
  BY TaskTypes
<1>2. call.id \in PacketIds
  BY TaskTypes, U16MaxAssumption DEF TokioInv, TaskTypeOK, PacketIds
<1>3. SessionQuiet /\ inUse' = inUse \ {call.id}
  BY <1>1, <1>2, SessionReleases
<1>4. inUse' \subseteq unsettled
  BY <1>3 DEF TokioInv, Settled
<1>5. SessionTypeOK' /\ lastActivity' = lastActivity /\ pingreqSentAt' = pingreqSentAt
  BY <1>3 DEF SessionQuiet, kaVars
<1>6. delivered' \in [Messages -> Nat]
  BY TaskTypes DEF Remains
<1> QED
  BY <1>4, <1>5, <1>6, FinishInv DEF Remains

-----------------------------------------------------------------------------
(***************************************************************************)
(* The beginnings of a call                                                *)
(***************************************************************************)

\* A call that has begun now cannot be late.
LEMMA BeginsInv ==
    ASSUME TokioInv, SessionQuiet, quietSince' = now,
           UNCHANGED <<setting, wake, lossVars, now, wireVars, delivered, alive,
                       serverFlow, published, completed>>,
           calls' \in 0..setting.maxCalls,
           reading' = FALSE, call' \in Calls,
           call'.at \in {"Idle"} \cup Registering \cup Looping,
           call'.at \in Owning => call'.id # 0,
           call'.at = "RegisterPublish" => call'.qos # "AtMostOnce",
           out' = NoWrite \/ out' \in Writes,
           WriteOK', Settled'
    PROVE  TokioInv'
<1>1. UNCHANGED <<unsettled, dropped, forgotten, toServer, toClient, open>>
  BY DEF lossVars, wireVars
<1>2. SessionTypeOK' /\ UNCHANGED <<keepAliveSecs, lastActivity, pingreqSentAt>>
  BY DEF SessionQuiet, kaVars
<1>3. TaskTypeOK'
  BY <1>1, <1>2, TaskTypes, TypesKept
<1>4. PingTracked'
  <2>1. PingrespRecorded'
    BY <1>1, <1>2, PingKept DEF Reads
  <2> QED
    BY <2>1, AwaitKinds DEF PingTracked, Registering
<1>5. Timers'
  <2>1. lastActivity' <= now' /\ (pingreqSentAt' # None => pingreqSentAt' <= lastActivity')
    BY <1>2 DEF TokioInv, Timers
  <2>2. quietSince' <= now'
    BY TaskTypes
  <2> QED
    BY <2>1, <2>2 DEF Timers
<1>6. DeathNoticed'
  BY DEF DeathNoticed
<1> QED
  BY <1>3, <1>4, <1>5, <1>6 DEF TokioInv

\* What every call begins with
LEMMA StartFacts ==
    ASSUME TokioInv, NEW name, StartCall(name), setting' = setting
    PROVE  /\ call.at = "Idle" /\ out = NoWrite /\ reading = FALSE
           /\ inUse \subseteq unsettled
           /\ quietSince' = now /\ calls' \in 0..setting.maxCalls
           /\ UNCHANGED <<setting, wake, lossVars, now, wireVars, delivered, alive,
                          serverFlow, published, completed>>
           /\ unsettled' = unsettled
<1>1. call.at = "Idle" /\ out = NoWrite
  BY DEF StartCall, Idle
<1>2. reading = FALSE
  BY <1>1, TaskTypes DEF TokioInv, Timers
<1>3. inUse \subseteq unsettled
  BY <1>1, AwaitKinds DEF TokioInv, Settled
<1>4. setting.maxCalls \in Nat /\ calls \in 0..setting.maxCalls
  BY TaskTypes, TokioAssumption
<1>5. calls' \in 0..setting.maxCalls
  BY <1>4 DEF StartCall
<1> QED
  BY <1>1, <1>2, <1>3, <1>5 DEF StartCall, lossVars

\* A packet of a type is written, and an await follows.
WriteOf(w, type, then) ==
    w \in Writes /\ w # NoWrite /\ w.then = then /\ w.packet.type = type

LEMMA WritingTyped ==
    ASSUME NEW type \in ToServerTypes, NEW id \in 0..U16Max,
           NEW then \in Looping \cup {"Idle", "AwaitConnack"},
           NEW msg \in 0..MaxPublishes, NEW settles \in BOOLEAN,
           type \in AnswerTypes => id # 0
    PROVE  WriteOf(Writing(Packet(type, id), then, msg, settles), type, then)
<1>1. 0 \in 0..MaxPublishes
  BY TokioAssumption
<1>2. Packet(type, id) \in PacketsOf(ToServerTypes) /\ Packet(type, id).type = type
      /\ Packet(type, id).id = id
  BY <1>1 DEF Packet, PacketsOf, QoSLevels
<1>3. Packet(type, id) \in ToServerPackets
  BY <1>2 DEF ToServerPackets
<1>4. "None" \notin ToServerTypes
  BY DEF ToServerTypes, AnswerTypes
<1>5. NoWrite.packet.type = "None"
  BY DEF NoWrite, Writing, Packet
<1>6. /\ Writing(Packet(type, id), then, msg, settles).packet = Packet(type, id)
      /\ Writing(Packet(type, id), then, msg, settles).then = then
  BY DEF Writing
<1>7. Writing(Packet(type, id), then, msg, settles) \in Writes
  BY <1>3 DEF Writing, Writes
<1> QED
  BY <1>2, <1>4, <1>5, <1>6, <1>7 DEF WriteOf

LEMMA PublishWritingTyped ==
    ASSUME NEW id \in 0..U16Max, NEW qos \in QoSLevels,
           NEW then \in Looping \cup {"Idle", "AwaitConnack"}
    PROVE  WriteOf(Writing(PublishPacket(qos, id, 0), then, 0, FALSE), "Publish", then)
<1>1. 0 \in 0..MaxPublishes
  BY TokioAssumption
<1>2. /\ PublishPacket(qos, id, 0) \in PacketsOf(ToServerTypes)
      /\ PublishPacket(qos, id, 0).type = "Publish"
  BY <1>1 DEF PublishPacket, PacketsOf, ToServerTypes
<1>3. PublishPacket(qos, id, 0) \in ToServerPackets
  BY <1>2 DEF ToServerPackets, AnswerTypes
<1>4. NoWrite.packet.type = "None"
  BY DEF NoWrite, Writing, Packet
<1>5. /\ Writing(PublishPacket(qos, id, 0), then, 0, FALSE).packet = PublishPacket(qos, id, 0)
      /\ Writing(PublishPacket(qos, id, 0), then, 0, FALSE).then = then
  BY DEF Writing
<1>6. Writing(PublishPacket(qos, id, 0), then, 0, FALSE) \in Writes
  BY <1>1, <1>3 DEF Writing, Writes
<1> QED
  BY <1>2, <1>4, <1>5, <1>6 DEF WriteOf

LEMMA AllocateForInv ==
    ASSUME TokioInv, NEW name, NEW at \in Registering, NEW qos \in QoSLevels,
           at = "RegisterPublish" => qos # "AtMostOnce",
           AllocateFor(name, at, qos), setting' = setting
    PROVE  TokioInv'
<1>1. StartCall(name) /\ UNCHANGED <<reading, out>>
  BY DEF AllocateFor
<1>2. SessionTypeOK /\ call \in Calls
  BY TaskTypes
<1>3. ASSUME NEW id \in PacketIds, AllocatePacketId(id),
             call' = [call EXCEPT !.at = at, !.id = id, !.qos = qos]
      PROVE  TokioInv'
  <2>1. SessionQuiet /\ inUse' = inUse \cup {id}
    BY <1>2, <1>3, SessionAllocates
  <2>2. id \in 0..U16Max /\ id # 0 /\ at \in CallAts
    BY U16MaxAssumption DEF PacketIds, CallAts
  <2>3. call' \in Calls /\ call'.at = at /\ call'.id = id /\ call'.qos = qos
    BY <1>2, <1>3, <2>2 DEF Calls
  <2>4. Settled'
    BY <1>1, <2>1, <2>3, AwaitKinds, StartFacts DEF Settled
  <2>5. WriteOK'
    BY <1>1, StartFacts DEF WriteOK
  <2> QED
    BY <1>1, <2>1, <2>2, <2>3, <2>4, <2>5, StartFacts, BeginsInv
<1>4. CASE AllocatePacketIdFails /\ UNCHANGED call
  <2>1. SessionQuiet /\ inUse' = inUse
    BY <1>2, <1>4, SessionAllocates
  <2>2. call' \in Calls /\ call'.at = "Idle"
    BY <1>1, <1>2, <1>4, StartFacts
  <2>3. Settled'
    BY <1>1, <2>1, <2>2, AwaitKinds, StartFacts DEF Settled
  <2>4. WriteOK'
    BY <1>1, StartFacts DEF WriteOK
  <2> QED
    BY <1>1, <2>1, <2>2, <2>3, <2>4, AwaitKinds, StartFacts, BeginsInv
<1> QED
  BY <1>3, <1>4 DEF AllocateFor

LEMMA CallDisconnectInv ==
    ASSUME TokioInv, CallDisconnect, setting' = setting
    PROVE  TokioInv'
<1>1. /\ StartCall("Disconnect") /\ UNCHANGED <<call, reading>> /\ DisconnectSent
      /\ out' = Writing(Packet("Disconnect", 0), "Idle", 0, FALSE)
  BY DEF CallDisconnect
<1>2. SessionTypeOK /\ call \in Calls
  BY TaskTypes
<1>3. SesTypeOK
  BY <1>2 DEF SessionTypeOK
<1>4. ComponentStep /\ SesTypeOK'
  BY <1>1, <1>3, DisconnectedStep
<1>5. SessionQuiet /\ inUse' = inUse
  BY <1>1, <1>2, <1>4, SessionTypeStep DEF SessionQuiet, DisconnectSent, pidVars
<1>6. 0 \in 0..U16Max /\ 0 \in 0..MaxPublishes
  BY U16MaxAssumption, TokioAssumption
<1>7. "Disconnect" \in ToServerTypes /\ "Disconnect" \notin AnswerTypes
  BY DEF ToServerTypes, AnswerTypes
<1>8. out' \in Writes /\ out'.then = "Idle" /\ out'.packet.type = "Disconnect"
  <2>1. "Idle" \in Looping \cup {"Idle", "AwaitConnack"} /\ FALSE \in BOOLEAN
    OBVIOUS
  <2>2. WriteOf(Writing(Packet("Disconnect", 0), "Idle", 0, FALSE), "Disconnect", "Idle")
    BY <1>6, <1>7, <2>1, WritingTyped
  <2> QED
    BY <1>1, <2>2 DEF WriteOf
<1>9. call' \in Calls /\ call'.at = "Idle"
  BY <1>1, <1>2, StartFacts
<1>10. Settled'
  BY <1>1, <1>5, <1>9, AwaitKinds, StartFacts DEF Settled
<1>11. WriteOK'
  BY <1>8, <1>9, AwaitKinds DEF WriteOK, Registering
<1> QED
  BY <1>1, <1>5, <1>8, <1>9, <1>10, <1>11, AwaitKinds, StartFacts, BeginsInv

LEMMA CallPublishQos0Inv ==
    ASSUME TokioInv, NEW retain, CallPublishQos0(retain), setting' = setting
    PROVE  TokioInv'
<1>1. /\ StartCall("PublishQos0") /\ UNCHANGED <<call, reading>> /\ UNCHANGED sessionVars
      /\ out' = out \/ out' = Writing(PublishPacket("AtMostOnce", 0, 0), "Idle", 0, FALSE)
  BY DEF CallPublishQos0
<1>2. SessionTypeOK /\ call \in Calls
  BY TaskTypes
<1>3. SessionQuiet /\ inUse' = inUse
  BY <1>1, <1>2, SessionUntouched
<1>4. 0 \in 0..U16Max /\ "AtMostOnce" \in QoSLevels
  BY U16MaxAssumption DEF QoSLevels
<1>5. \/ out' = NoWrite
      \/ out' \in Writes /\ out'.then = "Idle" /\ out'.packet.type = "Publish"
  <2>1. "Idle" \in Looping \cup {"Idle", "AwaitConnack"}
    OBVIOUS
  <2>2. WriteOf(Writing(PublishPacket("AtMostOnce", 0, 0), "Idle", 0, FALSE),
                "Publish", "Idle")
    BY <1>4, <2>1, PublishWritingTyped
  <2>3. out = NoWrite
    BY <1>1, StartFacts
  <2> QED
    BY <1>1, <2>2, <2>3 DEF WriteOf
<1>6. call' \in Calls /\ call'.at = "Idle"
  BY <1>1, <1>2, StartFacts
<1>7. Settled'
  BY <1>1, <1>3, <1>6, AwaitKinds, StartFacts DEF Settled
<1>8. WriteOK'
  BY <1>5, <1>6, AwaitKinds DEF WriteOK, Registering
<1> QED
  BY <1>1, <1>3, <1>5, <1>6, <1>7, <1>8, AwaitKinds, StartFacts, BeginsInv

LEMMA CallReceiveInv ==
    ASSUME TokioInv, NEW name, NEW at \in {"RecvPublish", "Loop"},
           CallReceive(name, at), setting' = setting
    PROVE  TokioInv'
<1>1. /\ StartCall(name) /\ UNCHANGED <<reading, out>> /\ UNCHANGED sessionVars
      /\ call' = [call EXCEPT !.at = at,
                              !.deadline = IF at = "Loop" THEN 0 ELSE now + CallTimeout]
  BY DEF CallReceive
<1>2. SessionTypeOK /\ call \in Calls /\ now \in Nat
  BY TaskTypes
<1>3. SessionQuiet /\ inUse' = inUse
  BY <1>1, <1>2, SessionUntouched
<1>4. (IF at = "Loop" THEN 0 ELSE now + CallTimeout) \in Nat
  BY <1>2, TokioAssumption
<1>5. at \in Looping /\ at \notin Owning /\ at \notin Registering \cup {"Configured"}
  BY DEF Looping, Receiving, Owning, Registering, PublishAwaits
<1>6. call' \in Calls /\ call'.at = at
  BY <1>1, <1>2, <1>4, <1>5 DEF Calls, CallAts
<1>7. Settled'
  BY <1>1, <1>3, <1>5, <1>6, StartFacts DEF Settled
<1>8. WriteOK'
  BY <1>1, StartFacts DEF WriteOK
<1> QED
  BY <1>1, <1>3, <1>5, <1>6, <1>7, <1>8, AwaitKinds, StartFacts, BeginsInv

-----------------------------------------------------------------------------
(***************************************************************************)
(* From the registration of a request to its write                         *)
(***************************************************************************)

\* While a call registers its request no time has passed since it began.
LEMMA RegisteringFacts ==
    ASSUME TokioInv, call.at \in Registering
    PROVE  /\ out = NoWrite /\ reading = FALSE /\ quietSince = now
           /\ call \in Calls /\ call.id \in PacketIds /\ call.id \in 0..U16Max
           /\ call.id # 0 /\ SessionTypeOK
           /\ inUse \subseteq unsettled \cup {call.id} /\ call.at \notin Looping
           /\ now \in Nat /\ calls \in 0..setting.maxCalls
<1>1. out = NoWrite
  BY DEF TokioInv, WriteOK
<1>2. reading = FALSE /\ quietSince = now
  BY TaskTypes DEF TokioInv, Timers
<1>3. call.at \in Owning /\ call.at \notin Looping
  BY AwaitKinds
<1>4. call.id \in PacketIds /\ call.id # 0 /\ call.id \in 0..U16Max
  BY <1>3, TaskTypes, U16MaxAssumption DEF TokioInv, TaskTypeOK, PacketIds
<1>5. inUse \subseteq unsettled \cup {call.id}
  BY <1>3 DEF TokioInv, Settled
<1> QED
  BY <1>1, <1>2, <1>3, <1>4, <1>5, TaskTypes

\* The request is registered and its packet is written next.
LEMMA RequestInv ==
    ASSUME TokioInv, call.at \in Registering, SessionQuiet, inUse' = inUse,
           UNCHANGED <<setting, lossVars, delivered>>, TaskStep,
           NEW at \in Owning \ Registering, Await(at, call.id),
           NEW type, type \notin AnswerTypes \cup {"Pingreq"}, WriteOf(out', type, at)
    PROVE  TokioInv'
<1>0. out' \in Writes /\ out'.then = at /\ out'.packet.type = type
  BY DEF WriteOf
<1>1. /\ call' = [call EXCEPT !.at = at, !.id = call.id, !.deadline = now + CallTimeout]
      /\ reading' = FALSE /\ UNCHANGED <<wake, result, calls>>
  BY DEF Await
<1>2. /\ UNCHANGED <<now, wireVars, alive, quietSince, serverFlow, published, completed>>
  BY DEF TaskStep, serverVars
<1>3. now + CallTimeout \in Nat
  <2>1. now \in Nat /\ CallTimeout \in Nat
    BY RegisteringFacts, TokioAssumption
  <2> QED
    BY <2>1
<1>4. at \in CallAts /\ at \in Looping
  BY AwaitKinds DEF CallAts
<1>5. call' \in Calls /\ call'.at = at /\ call'.id = call.id
  BY <1>1, <1>3, <1>4, RegisteringFacts DEF Calls
<1>6. Settled'
  BY <1>5, RegisteringFacts DEF Settled, lossVars
<1>7. WriteOK'
  BY <1>0, <1>1, <1>4, <1>5, AwaitKinds DEF WriteOK
<1>8. quietSince' = now /\ calls' \in 0..setting.maxCalls
  BY <1>1, <1>2, RegisteringFacts
<1>9. call'.at # "RegisterPublish"
  BY <1>5 DEF Registering
<1> QED
  BY <1>0, <1>1, <1>2, <1>4, <1>5, <1>6, <1>7, <1>8, <1>9, RegisteringFacts, BeginsInv

LEMMA RegisterPublishInv ==
    ASSUME TokioInv, RegisterPublish, setting' = setting
    PROVE  TokioInv'
<1>1. /\ call.at = "RegisterPublish" /\ TaskStep /\ UNCHANGED <<lossVars, delivered>>
      /\ \/ /\ PublishSent(call.qos, call.id)
            /\ call' = [call EXCEPT !.at = "ValidatePublish"]
            /\ UNCHANGED <<reading, wake, out, result, calls>>
         \/ ReleasePacketId(call.id) /\ Finish("FlowControl")
  BY DEF RegisterPublish
<1>2. call.at \in Registering /\ "ValidatePublish" \in Registering
  BY <1>1 DEF Registering
<1>3. UNCHANGED <<now, wireVars, alive, quietSince, serverFlow, published, completed>>
  BY <1>1 DEF TaskStep, serverVars
<1>4. CASE /\ PublishSent(call.qos, call.id)
           /\ call' = [call EXCEPT !.at = "ValidatePublish"]
           /\ UNCHANGED <<reading, wake, out, result, calls>>
  <2>1. call.qos \in {"AtLeastOnce", "ExactlyOnce"}
    BY <1>1, <1>2, RegisteringFacts DEF TokioInv, TaskTypeOK, Calls, QoSLevels
  <2>2. Keeps(call.id)
    BY <1>4, <2>1 DEF Keeps
  <2>3. SessionQuiet /\ inUse' = inUse
    BY <1>2, <2>2, RegisteringFacts, SessionKeeps
  <2>4. call' \in Calls /\ call'.at = "ValidatePublish" /\ call'.id = call.id
    BY <1>2, <1>4, RegisteringFacts DEF Calls, CallAts
  <2>5. Settled'
    BY <1>1, <1>2, <2>3, <2>4, AwaitKinds, RegisteringFacts DEF Settled, lossVars
  <2>6. out' = NoWrite /\ reading' = FALSE /\ calls' \in 0..setting.maxCalls
        /\ quietSince' = now
    BY <1>2, <1>3, <1>4, RegisteringFacts
  <2>7. WriteOK'
    BY <2>6 DEF WriteOK
  <2> QED
    BY <1>1, <1>2, <1>3, <1>4, <2>3, <2>4, <2>5, <2>6, <2>7, RegisteringFacts, BeginsInv
<1>5. CASE ReleasePacketId(call.id) /\ Finish("FlowControl")
  <2>1. Releases(call.id) /\ call.at \in Owning
    BY <1>2, <1>5, AwaitKinds DEF Releases
  <2>2. Reads /\ Remains
    BY <1>1 DEF Reads, Remains, TaskStep, wireVars
  <2> QED
    BY <1>1, <1>5, <2>1, <2>2, AnsweredInv
<1> QED
  BY <1>1, <1>4, <1>5

LEMMA WritePublishInv ==
    ASSUME TokioInv, NEW retain, WritePublish(retain), setting' = setting
    PROVE  TokioInv'
<1>1. /\ call.at = "ValidatePublish" /\ TaskStep /\ UNCHANGED delivered
      /\ call.at \in Registering
  BY DEF WritePublish, Registering
<1>2. CASE Fail("ServerCapability")
  <2>1. Reads /\ Remains
    BY <1>1 DEF Reads, Remains, TaskStep, wireVars
  <2>2. FailDropping("ServerCapability", {}) /\ {} \in SUBSET ToClientPackets
    BY <1>2 DEF Fail
  <2> QED
    BY <1>1, <2>1, <2>2, FailInv
<1>3. ASSUME NEW at \in {"AwaitPuback", "AwaitPubrec"}, Await(at, call.id),
             out' = Writing(PublishPacket(call.qos, call.id, 0), at, 0, FALSE),
             UNCHANGED sessionVars, UNCHANGED lossVars
      PROVE  TokioInv'
  <2>1. /\ at \in Owning \ Registering
        /\ at \in Looping \cup {"Idle", "AwaitConnack"}
    BY DEF Owning, PublishAwaits, Registering, Looping, Receiving
  <2>2. call.id \in 0..U16Max /\ call.qos \in QoSLevels /\ SessionTypeOK
    BY <1>1, RegisteringFacts DEF Calls
  <2>3. WriteOf(Writing(PublishPacket(call.qos, call.id, 0), at, 0, FALSE), "Publish", at)
    BY <2>1, <2>2, PublishWritingTyped
  <2>4. "Publish" \notin AnswerTypes \cup {"Pingreq"}
    BY DEF AnswerTypes
  <2>5. SessionQuiet /\ inUse' = inUse
    BY <1>3, <2>2, SessionUntouched
  <2> QED
    BY <1>1, <1>3, <2>1, <2>3, <2>4, <2>5, RequestInv
<1> QED
  BY <1>2, <1>3 DEF WritePublish

LEMMA RegisterSubscribeInv ==
    ASSUME TokioInv, NEW entries \in SubscribeRequests, RegisterSubscribe(entries),
           setting' = setting
    PROVE  TokioInv'
<1>1. /\ call.at = "RegisterSubscribe" /\ TaskStep /\ UNCHANGED delivered
      /\ call.at \in Registering
  BY DEF RegisterSubscribe, Registering
<1>2. SessionTypeOK /\ call.id \in PacketIds /\ call.id \in 0..U16Max
  BY <1>1, RegisteringFacts
<1>3. CASE /\ Finish("ServerCapability") /\ unsettled' = unsettled \cup {call.id}
           /\ UNCHANGED <<dropped, forgotten>> /\ UNCHANGED sessionVars
  <2>1. Reads /\ Remains
    BY <1>1 DEF Reads, Remains, TaskStep, wireVars
  <2>2. SessionQuiet /\ inUse' = inUse
    BY <1>2, <1>3, SessionUntouched
  <2>3. SessionTypeOK' /\ lastActivity' = lastActivity /\ pingreqSentAt' = pingreqSentAt
    BY <2>2 DEF SessionQuiet, kaVars
  <2>4. inUse' \subseteq unsettled' /\ unsettled' \subseteq PacketIds
    BY <1>1, <1>2, <1>3, <2>2, RegisteringFacts, TaskTypes
  <2>5. call' = NoCall /\ reading' = FALSE /\ wake' = 0 /\ out' = NoWrite /\ calls' = calls
    BY <1>3 DEF Finish
  <2> QED
    BY <1>3, <2>1, <2>3, <2>4, <2>5, TaskTypes, EndsInv DEF Remains
<1>4. CASE /\ SubscribeSent(call.id, entries) /\ Await("AwaitSuback", call.id)
           /\ out' = Writing(Packet("Subscribe", call.id), "AwaitSuback", 0, FALSE)
           /\ UNCHANGED lossVars
  <2>1. Keeps(call.id)
    BY <1>4 DEF Keeps
  <2>2. SessionQuiet /\ inUse' = inUse
    BY <1>2, <2>1, SessionKeeps
  <2>3. /\ "AwaitSuback" \in Owning \ Registering
        /\ "AwaitSuback" \in Looping \cup {"Idle", "AwaitConnack"}
        /\ 0 \in 0..MaxPublishes /\ FALSE \in BOOLEAN
    BY TokioAssumption DEF Owning, Registering, Looping, Receiving
  <2>4. "Subscribe" \in ToServerTypes /\ "Subscribe" \notin AnswerTypes \cup {"Pingreq"}
    BY DEF ToServerTypes, AnswerTypes
  <2>5. WriteOf(Writing(Packet("Subscribe", call.id), "AwaitSuback", 0, FALSE),
                "Subscribe", "AwaitSuback")
    BY <1>2, <2>3, <2>4, WritingTyped
  <2> QED
    BY <1>1, <1>4, <2>2, <2>3, <2>4, <2>5, RequestInv
<1> QED
  BY <1>3, <1>4 DEF RegisterSubscribe

LEMMA RegisterUnsubscribeInv ==
    ASSUME TokioInv, NEW filters \in UnsubscribeRequests, RegisterUnsubscribe(filters),
           setting' = setting
    PROVE  TokioInv'
<1>1. /\ call.at = "RegisterUnsubscribe" /\ TaskStep /\ UNCHANGED <<lossVars, delivered>>
      /\ call.at \in Registering
      /\ UnsubscribeSent(call.id, filters) /\ Await("AwaitUnsuback", call.id)
      /\ out' = Writing(Packet("Unsubscribe", call.id), "AwaitUnsuback", 0, FALSE)
  BY DEF RegisterUnsubscribe, Registering
<1>2. SessionTypeOK /\ call.id \in PacketIds /\ call.id \in 0..U16Max
  BY <1>1, RegisteringFacts
<1>3. Keeps(call.id)
  BY <1>1 DEF Keeps
<1>4. SessionQuiet /\ inUse' = inUse
  BY <1>2, <1>3, SessionKeeps
<1>5. /\ "AwaitUnsuback" \in Owning \ Registering
      /\ "AwaitUnsuback" \in Looping \cup {"Idle", "AwaitConnack"}
      /\ 0 \in 0..MaxPublishes /\ FALSE \in BOOLEAN
  BY TokioAssumption DEF Owning, Registering, Looping, Receiving
<1>6. "Unsubscribe" \in ToServerTypes /\ "Unsubscribe" \notin AnswerTypes \cup {"Pingreq"}
  BY DEF ToServerTypes, AnswerTypes
<1>7. WriteOf(Writing(Packet("Unsubscribe", call.id), "AwaitUnsuback", 0, FALSE),
              "Unsubscribe", "AwaitUnsuback")
  BY <1>2, <1>5, <1>6, WritingTyped
<1> QED
  BY <1>1, <1>4, <1>5, <1>6, <1>7, RequestInv

-----------------------------------------------------------------------------
(***************************************************************************)
(* connect                                                                 *)
(***************************************************************************)

LEMMA CallConnectInv ==
    ASSUME TokioInv, CallConnect, setting' = setting
    PROVE  TokioInv'
<1>1. /\ call.at = "Idle" /\ out = NoWrite
      /\ call' = [call EXCEPT !.at = "Configured"]
      /\ calls' = 1 /\ UNCHANGED <<reading, wake, out, now, delivered>>
      /\ UNCHANGED <<unsettled, dropped, forgotten, toServer, toClient, open>>
      /\ UNCHANGED <<alive, quietSince, serverFlow, published, completed>>
  BY DEF CallConnect, Idle, lossVars, serverVars, wireVars
<1>2. SessionTypeOK /\ call \in Calls
  BY TaskTypes
<1>3. /\ KaSetKeepAlive(KeepAliveArg) /\ sessionExpiryInterval' = 0 /\ ownMaximum' = 0
      /\ FcSetOwnReceiveMaximum(U16Max) /\ maxPacketSize' = maxPacketSize
      /\ UNCHANGED <<pidVars, qosVars, subVars, authVars, peerMaximum, identityVars,
                     connectionState, clientIdEmpty, serverCapabilities>>
  BY U16MaxAssumption DEF CallConnect, ConfigureForConnect
<1>4. ComponentStep
  <2>1. [KaNext]_kaVars
    BY <1>3, TokioAssumption DEF KaNext
  <2>2. U16Max \in 0..U16Max
    BY U16MaxAssumption
  <2>3. [FcNext]_fcVars
    BY <1>3, <2>2, Zenon DEF FcNext
  <2> QED
    BY <1>3, <2>1, <2>3 DEF ComponentStep
<1>5. SesTypeOK'
  BY <1>2, <1>3, U16MaxAssumption DEF SessionTypeOK, SesTypeOK, identityVars
<1>6. SessionTypeOK' /\ UNCHANGED <<inUse, lastActivity, pingreqSentAt>>
  BY <1>2, <1>3, <1>4, <1>5, SessionTypeStep DEF pidVars, KaSetKeepAlive
<1>7. call' \in Calls /\ call'.at = "Configured"
  BY <1>1, <1>2 DEF Calls, CallAts
<1>8. call'.at \notin Owning \cup Looping \cup Registering \cup {"Idle", "AwaitConnack"}
  BY <1>7 DEF Owning, Looping, Receiving, PublishAwaits, Registering
<1>9. calls' \in 0..setting.maxCalls
  <2>1. setting.maxCalls \in Nat \ {0}
    BY TaskTypes, TokioAssumption
  <2> QED
    BY <1>1, <2>1
<1>10. TaskTypeOK'
  BY <1>1, <1>6, <1>7, <1>8, <1>9, AwaitKinds, TaskTypes, TypesKept
<1>11. WriteOK'
  BY <1>1 DEF WriteOK
<1>12. Settled'
  BY <1>1, <1>6, <1>8, AwaitKinds DEF TokioInv, Settled
<1>13. PingTracked'
  BY <1>1, <1>6, <1>8, PingKept DEF PingTracked, Reads
<1>14. Timers'
  BY <1>1, <1>6, <1>8, AwaitKinds DEF TokioInv, Timers
<1>15. DeathNoticed'
  BY <1>8 DEF DeathNoticed
<1> QED
  BY <1>10, <1>11, <1>12, <1>13, <1>14, <1>15 DEF TokioInv

LEMMA StartConnectInv ==
    ASSUME TokioInv, StartConnect, setting' = setting
    PROVE  TokioInv'
<1>1. /\ call.at = "Configured" /\ ConnectSent
      /\ call' = [call EXCEPT !.at = "AwaitConnack", !.deadline = now + CallTimeout]
      /\ out' = Writing(Packet("Connect", 0), "AwaitConnack", 0, FALSE)
      /\ reading' = TRUE /\ wake' = now + CallTimeout
      /\ UNCHANGED <<calls, now, delivered, unsettled, dropped, forgotten>>
      /\ UNCHANGED <<toServer, toClient, open>>
      /\ UNCHANGED <<alive, quietSince, serverFlow, published, completed>>
  BY DEF StartConnect, lossVars, serverVars, wireVars
<1>2. SessionTypeOK /\ call \in Calls /\ now \in Nat
  BY TaskTypes
<1>3. SesTypeOK
  BY <1>2 DEF SessionTypeOK
<1>4. ComponentStep /\ SesTypeOK'
  BY <1>1, <1>3, ConnectSentStep
<1>5. SessionTypeOK'
  BY <1>2, <1>4, SessionTypeStep
<1>6. pingreqSentAt' = None /\ UNCHANGED <<inUse, lastActivity>>
  BY <1>1 DEF ConnectSent, ResetConnectionState, KaPingrespReceived, pidVars
<1>7. now + CallTimeout \in Nat /\ now <= now + CallTimeout
  BY <1>2, TokioAssumption
<1>8. call' \in Calls /\ call'.at = "AwaitConnack"
  BY <1>1, <1>2, <1>7 DEF Calls, CallAts
<1>9. /\ call'.at \notin Owning \cup Looping \cup Registering \cup {"Idle", "Configured"}
      /\ "Connect" \in ToServerTypes /\ "Connect" \notin AnswerTypes
  BY <1>8 DEF Owning, Looping, Receiving, PublishAwaits, Registering, ToServerTypes,
              AnswerTypes
<1>10. WriteOf(out', "Connect", "AwaitConnack")
  <2>1. /\ 0 \in 0..U16Max /\ 0 \in 0..MaxPublishes /\ FALSE \in BOOLEAN
        /\ "AwaitConnack" \in Looping \cup {"Idle", "AwaitConnack"}
    BY U16MaxAssumption, TokioAssumption
  <2>2. WriteOf(Writing(Packet("Connect", 0), "AwaitConnack", 0, FALSE),
                "Connect", "AwaitConnack")
    BY <1>9, <2>1, WritingTyped
  <2> QED
    BY <1>1, <2>2
<1>11. out' \in Writes /\ out'.then = "AwaitConnack" /\ out'.packet.type = "Connect"
  BY <1>10 DEF WriteOf
<1>12. TaskTypeOK'
  BY <1>1, <1>5, <1>7, <1>8, <1>9, <1>11, AwaitKinds, TaskTypes, TypesKept
<1>13. WriteOK'
  BY <1>8, <1>9, <1>11 DEF WriteOK
<1>14. Settled'
  BY <1>1, <1>6, <1>9, AwaitKinds DEF TokioInv, Settled
<1>15. PingTracked'
  BY <1>6 DEF PingTracked, PingrespRecorded
<1>16. Timers'
  BY <1>1, <1>6, <1>7, <1>9 DEF TokioInv, Timers
<1>17. DeathNoticed'
  BY <1>9 DEF DeathNoticed
<1> QED
  BY <1>12, <1>13, <1>14, <1>15, <1>16, <1>17 DEF TokioInv

-----------------------------------------------------------------------------
(***************************************************************************)
(* recv_while_connected                                                    *)
(***************************************************************************)

\* What a step does that only begins or ends a read or a write
LEMMA LoopStepInv ==
    ASSUME TokioInv, UNCHANGED <<setting, call, calls, lossVars, delivered>>, TaskStep,
           UNCHANGED sessionVars, reading' \in BOOLEAN, wake' \in Nat,
           out' = NoWrite \/ out' \in Writes,
           call.at \in Looping, WriteOK', Timers', DeathNoticed'
    PROVE  TokioInv'
<1>1. /\ UNCHANGED <<unsettled, dropped, forgotten, toServer, toClient, open, now>>
      /\ UNCHANGED <<alive, quietSince, serverFlow, published, completed>>
  BY DEF TaskStep, lossVars, serverVars, wireVars
<1>2. SessionQuiet /\ inUse' = inUse
  BY TaskTypes, SessionUntouched
<1>3. SessionTypeOK' /\ pingreqSentAt' = pingreqSentAt
  BY <1>2 DEF SessionQuiet, kaVars
<1>4. call.at \in Owning => call.id # 0
  BY DEF TokioInv, TaskTypeOK
<1>5. call.at \notin Registering \cup {"AwaitConnack"}
  BY AwaitKinds
<1>6. TaskTypeOK'
  BY <1>1, <1>3, <1>4, <1>5, TaskTypes, TypesKept DEF Registering
<1>7. Settled'
  BY <1>1, <1>2 DEF TokioInv, Settled
<1>8. PingTracked'
  BY <1>1, <1>3, <1>5, PingKept DEF PingTracked, Reads
<1> QED
  BY <1>6, <1>7, <1>8 DEF TokioInv

LEMMA LoopFacts ==
    ASSUME TokioInv
    PROVE  /\ now \in Nat /\ lastActivity \in Nat /\ lastActivity <= now
           /\ quietSince \in Nat /\ quietSince <= now
           /\ pingreqSentAt # None => pingreqSentAt \in Nat /\ pingreqSentAt <= lastActivity
           /\ keepAliveSecs * MsPerSec \in Nat /\ KeepAliveTick \in Nat /\ Limit \in Nat
           /\ Limit = keepAliveSecs * MsPerSec + KeepAliveTick
<1>1. /\ lastActivity <= now /\ quietSince <= now
      /\ pingreqSentAt # None => pingreqSentAt <= lastActivity
  BY DEF TokioInv, Timers
<1> QED
  BY <1>1, TaskTypes, LimitType DEF Limit

\* A PINGREQ is due only when the last one was answered.
LEMMA PingreqDue ==
    ASSUME TokioInv, CheckKeepAlive = "SendPingreq"
    PROVE  pingreqSentAt = None
<1>1. ~HasTimedOut(now) /\ ShouldSendPingreq(now)
  BY DEF CheckKeepAlive
<1>2. keepAliveSecs # 0 /\ now - lastActivity >= keepAliveSecs * MsPerSec
  BY <1>1, LoopFacts DEF ShouldSendPingreq, Elapsed
<1>3. ASSUME pingreqSentAt # None PROVE FALSE
  <2>1. now - pingreqSentAt < keepAliveSecs * MsPerSec
    BY <1>1, <1>2, <1>3, LoopFacts DEF HasTimedOut, Elapsed
  <2> QED
    BY <1>2, <1>3, <2>1, LoopFacts
<1> QED
  BY <1>3

\* A read that begins ends in time for the next judgement.
LEMMA ReadBegins ==
    ASSUME TokioInv, CheckKeepAlive = "Fine", ~PastDeadline
    PROVE  NextWake \in Nat /\ now <= NextWake
           /\ (keepAliveSecs # 0 => NextWake <= Since + Limit)
<1>1. ~HasTimedOut(now) /\ ~ShouldSendPingreq(now)
  BY DEF CheckKeepAlive
<1>2. call.deadline \in Nat
  BY TaskTypes DEF Calls
<1>3. NextWake \in Nat /\ now <= NextWake /\ NextWake <= now + KeepAliveTick
  BY <1>2, LoopFacts DEF NextWake, PastDeadline
<1>4. ASSUME keepAliveSecs # 0
      PROVE  NextWake <= Since + Limit
  <2>1. now - lastActivity < keepAliveSecs * MsPerSec
    BY <1>1, <1>4, LoopFacts DEF ShouldSendPingreq, Elapsed
  <2>2. pingreqSentAt # None => now - pingreqSentAt < keepAliveSecs * MsPerSec
    BY <1>1, <1>4, LoopFacts DEF HasTimedOut, Elapsed
  <2>3. Since \in Nat /\ now - Since < keepAliveSecs * MsPerSec
    BY <2>1, <2>2, LimitType DEF Since
  <2> QED
    BY <1>3, <2>3, LoopFacts
<1> QED
  BY <1>3, <1>4

LEMMA LoopHeadInv ==
    ASSUME TokioInv, LoopHead, setting' = setting
    PROVE  TokioInv'
<1>1. /\ call.at \in Looping /\ reading = FALSE /\ out = NoWrite
      /\ TaskStep /\ UNCHANGED delivered
  BY TaskTypes DEF LoopHead
<1>2. ASSUME NEW error, Fail(error)
      PROVE  TokioInv'
  <2>1. Reads /\ Remains
    BY <1>1 DEF Reads, Remains, TaskStep, wireVars
  <2>2. FailDropping(error, {}) /\ {} \in SUBSET ToClientPackets
    BY <1>2 DEF Fail
  <2>3. call.at \notin Registering
    BY <1>1, AwaitKinds
  <2> QED
    BY <2>1, <2>2, <2>3, FailInv DEF Registering
<1>3. UNCHANGED <<now, alive, quietSince, toClient>>
  BY <1>1 DEF TaskStep, serverVars, wireVars
<1>4. call.at \notin Registering \cup {"Idle", "Configured", "AwaitConnack"}
  BY <1>1, AwaitKinds
<1>5. CASE /\ CheckKeepAlive = "SendPingreq"
           /\ out' = Writing(Packet("Pingreq", 0), call.at, 0, FALSE)
           /\ UNCHANGED <<sessionVars, call, reading, wake, result, lossVars, calls>>
  <2>1. pingreqSentAt = None
    BY <1>5, PingreqDue
  <2>2. UNCHANGED kaVars
    BY <1>5 DEF sessionVars
  <2>3. UNCHANGED <<keepAliveSecs, lastActivity, pingreqSentAt>> /\ Limit' = Limit
    BY <2>2, LimitKept DEF kaVars
  <2>4. WriteOf(out', "Pingreq", call.at)
    <3>1. /\ 0 \in 0..U16Max /\ 0 \in 0..MaxPublishes /\ FALSE \in BOOLEAN
          /\ call.at \in Looping \cup {"Idle", "AwaitConnack"}
      BY <1>1, U16MaxAssumption, TokioAssumption
    <3>2. "Pingreq" \in ToServerTypes /\ "Pingreq" \notin AnswerTypes
      BY DEF ToServerTypes, AnswerTypes
    <3>3. WriteOf(Writing(Packet("Pingreq", 0), call.at, 0, FALSE), "Pingreq", call.at)
      BY <3>1, <3>2, WritingTyped
    <3> QED
      BY <1>5, <3>3
  <2>5. /\ out' \in Writes /\ out'.then = call.at /\ out'.packet.type = "Pingreq"
        /\ "Pingreq" \notin AnswerTypes
    BY <2>4 DEF WriteOf, AnswerTypes
  <2>6. WriteOK'
    BY <1>1, <1>4, <1>5, <2>1, <2>3, <2>5 DEF WriteOK
  <2>7. Timers'
    BY <1>1, <1>3, <1>4, <1>5, <2>3 DEF TokioInv, Timers
  <2>8. DeathNoticed'
    BY <1>3, <1>5, <2>3, <2>5 DEF TokioInv, DeathNoticed
  <2> QED
    BY <1>1, <1>5, <2>5, <2>6, <2>7, <2>8, TaskTypes, LoopStepInv
<1>6. CASE /\ CheckKeepAlive = "Fine" /\ ~PastDeadline
           /\ reading' = TRUE /\ wake' = NextWake
           /\ UNCHANGED <<sessionVars, call, out, result, lossVars, calls>>
  <2>1. UNCHANGED kaVars
    BY <1>6 DEF sessionVars
  <2>2. UNCHANGED <<keepAliveSecs, lastActivity, pingreqSentAt>> /\ Limit' = Limit
        /\ Since' = Since
    BY <2>1, LimitKept DEF kaVars, Since
  <2>3. wake' \in Nat /\ now <= wake' /\ (keepAliveSecs # 0 => wake' <= Since + Limit)
    BY <1>6, ReadBegins
  <2>4. WriteOK'
    BY <1>1, <1>6 DEF WriteOK
  <2>5. Timers'
    BY <1>3, <1>4, <1>6, <2>2, <2>3 DEF TokioInv, Timers
  <2>6. DeathNoticed'
    BY <1>3, <1>6, <2>2 DEF TokioInv, DeathNoticed
  <2> QED
    BY <1>1, <1>6, <2>3, <2>4, <2>5, <2>6, LoopStepInv
<1> QED
  BY <1>2, <1>5, <1>6 DEF LoopHead

LEMMA WaitOverInv ==
    ASSUME TokioInv, WaitOver, setting' = setting
    PROVE  TokioInv'
<1>1. /\ reading = TRUE /\ out = NoWrite /\ TaskStep
      /\ UNCHANGED sessionVars /\ UNCHANGED <<lossVars, delivered>>
  BY TaskTypes DEF WaitOver
<1>2. SessionQuiet /\ inUse' = inUse
  BY <1>1, TaskTypes, SessionUntouched
<1>3. SessionTypeOK' /\ UNCHANGED <<keepAliveSecs, lastActivity, pingreqSentAt>>
  BY <1>2 DEF SessionQuiet, kaVars
<1>4. /\ UNCHANGED <<toServer, toClient, open, now>> /\ UNCHANGED serverVars
      /\ UNCHANGED <<alive, quietSince>>
  BY <1>1 DEF TaskStep, wireVars, serverVars
<1>5. CASE call.at = "AwaitConnack" /\ Finish("Timeout")
  <2>1. Reads /\ UNCHANGED <<setting, now, toServer, open, lossVars>>
    BY <1>1, <1>4 DEF Reads
  <2>2. inUse' \subseteq unsettled
    BY <1>2, <1>5, AwaitKinds DEF TokioInv, Settled
  <2>3. delivered' \in [Messages -> Nat]
    BY <1>1, TaskTypes
  <2> QED
    BY <1>3, <1>4, <1>5, <2>1, <2>2, <2>3, FinishInv
<1>6. CASE /\ call.at # "AwaitConnack" /\ reading' = FALSE
           /\ UNCHANGED <<call, wake, out, result, calls>>
  <2>1. call.at \in Looping /\ wake \in Nat
    BY <1>1, <1>6, TaskTypes DEF TokioInv, Timers, CallAts
  <2>2. WriteOK'
    BY <1>1, <1>6 DEF WriteOK
  <2>3. Timers'
    <3>1. call.at \notin Registering
      BY <2>1, AwaitKinds
    <3> QED
      BY <1>3, <1>4, <1>6, <3>1 DEF TokioInv, Timers
  <2>4. Limit' = Limit
    BY <1>3, LimitKept
  <2>5. DeathNoticed'
    BY <1>3, <1>4, <1>6, <2>4 DEF TokioInv, DeathNoticed
  <2> QED
    BY <1>1, <1>6, <2>1, <2>2, <2>3, <2>5, LoopStepInv
<1> QED
  BY <1>5, <1>6 DEF WaitOver

LEMMA ReadEndInv ==
    ASSUME TokioInv, ReadEnd, setting' = setting
    PROVE  TokioInv'
<1>1. reading = TRUE /\ TaskStep /\ UNCHANGED delivered /\ Fail("Disconnected")
  BY TaskTypes DEF ReadEnd
<1>2. Reads /\ Remains
  BY <1>1 DEF Reads, Remains, TaskStep, wireVars
<1>3. FailDropping("Disconnected", {}) /\ {} \in SUBSET ToClientPackets
  BY <1>1 DEF Fail
<1>4. call.at \notin Registering
  BY <1>1 DEF TokioInv, Timers
<1> QED
  BY <1>2, <1>3, <1>4, FailInv DEF Registering

LEMMA CtrlCInv ==
    ASSUME TokioInv, CtrlC, setting' = setting
    PROVE  TokioInv'
<1>1. /\ call.at = "Loop" /\ Finish("Ok") /\ TaskStep
      /\ UNCHANGED sessionVars /\ UNCHANGED <<lossVars, delivered>>
  BY DEF CtrlC
<1>2. SessionQuiet /\ inUse' = inUse
  BY <1>1, TaskTypes, SessionUntouched
<1>3. SessionTypeOK' /\ UNCHANGED <<keepAliveSecs, lastActivity, pingreqSentAt>>
  BY <1>2 DEF SessionQuiet, kaVars
<1>4. UNCHANGED <<toServer, toClient, open, now>> /\ UNCHANGED serverVars
  BY <1>1 DEF TaskStep, wireVars
<1>5. call.at \notin Owning
  BY <1>1 DEF Owning, Registering, PublishAwaits
<1>6. inUse' \subseteq unsettled
  BY <1>2, <1>5 DEF TokioInv, Settled
<1>7. delivered' \in [Messages -> Nat] /\ Reads
  BY <1>1, <1>4, TaskTypes DEF Reads
<1> QED
  BY <1>1, <1>3, <1>4, <1>6, <1>7, FinishInv

-----------------------------------------------------------------------------
(***************************************************************************)
(* send_packet                                                             *)
(***************************************************************************)

LEMMA WriteFailsInv ==
    ASSUME TokioInv, WriteFails, setting' = setting
    PROVE  TokioInv'
<1>1. out # NoWrite /\ TaskStep /\ UNCHANGED delivered
  BY DEF WriteFails
<1>2. Reads /\ Remains
  BY <1>1 DEF Reads, Remains, TaskStep, wireVars
<1>3. CASE /\ out.packet.type \in AnswerTypes /\ FailUnsettled("Io")
           /\ UNCHANGED sessionVars
  <2>1. SessionQuiet /\ inUse' = inUse
    BY <1>3, TaskTypes, SessionUntouched
  <2>2. call.at \in Owning => call.at \in PublishAwaits
    BY <1>1, <1>3 DEF TokioInv, WriteOK
  <2> QED
    BY <1>2, <1>3, <2>1, <2>2, FailUnsettledInv
<1>4. CASE Fail("Io")
  <2>1. FailDropping("Io", {}) /\ {} \in SUBSET ToClientPackets
    BY <1>4 DEF Fail
  <2>2. call.at \notin Registering
    BY <1>1 DEF TokioInv, WriteOK
  <2> QED
    BY <1>2, <2>1, <2>2, FailInv DEF Registering
<1> QED
  BY <1>3, <1>4 DEF WriteFails, AnswerTypes

\* What is being written, in a write that is under way
LEMMA OutTyped ==
    ASSUME TokioInv, out # NoWrite
    PROVE  /\ out.packet \in ToServerPackets /\ out.packet.type \in ToServerTypes
           /\ out.packet.type \in AnswerTypes => out.packet.id \in PacketIds
           /\ out.then \in Looping \cup {"Idle", "AwaitConnack"}
           /\ out.msg \in 0..MaxPublishes
<1>1. out \in Writes
  BY TaskTypes
<1>2. /\ out.packet \in ToServerPackets
      /\ out.then \in Looping \cup {"Idle", "AwaitConnack"} /\ out.msg \in 0..MaxPublishes
  BY <1>1 DEF Writes
<1>3. /\ out.packet \in PacketsOf(ToServerTypes)
      /\ out.packet.type \in AnswerTypes => out.packet.id # 0
  BY <1>2 DEF ToServerPackets
<1>4. out.packet.type \in ToServerTypes /\ out.packet.id \in 0..U16Max
  BY <1>3 DEF PacketsOf
<1> QED
  BY <1>2, <1>3, <1>4, U16MaxAssumption DEF PacketIds

LEMMA WrittenTyped ==
    ASSUME TokioInv, out # NoWrite, Written(out.packet, out.settles)
    PROVE  /\ SessionTypeOK' /\ inUse' = inUse /\ keepAliveSecs' = keepAliveSecs
           /\ lastActivity' = now
           /\ pingreqSentAt' = IF out.packet.type = "Pingreq" THEN now ELSE pingreqSentAt
<1>1. now \in Nat /\ SessionTypeOK
  BY TaskTypes
<1>2. [KaNext]_kaVars
  BY <1>1 DEF Written, KaNext
<1>3. [QosNext]_qosVars
  <2>1. CASE out.packet.type = "Puback"
    BY <2>1, OutTyped DEF Written, QosNext, AnswerTypes
  <2>2. CASE out.packet.type # "Puback"
    BY <2>2 DEF Written
  <2> QED
    BY <2>1, <2>2
<1>4. [FcNext]_fcVars
  BY DEF Written, FcNext
<1>5. ComponentStep
  BY <1>2, <1>3, <1>4 DEF ComponentStep, Written
<1>6. SesTypeOK'
  BY <1>1 DEF SessionTypeOK, SesTypeOK, Written, ConnectionStates, identityVars
<1>7. SessionTypeOK'
  BY <1>1, <1>5, <1>6, SessionTypeStep
<1> QED
  BY <1>7 DEF Written, KaPingreqSent, KaActivity, pidVars

LEMMA WriteSucceedsInv ==
    ASSUME TokioInv, WriteSucceeds, setting' = setting
    PROVE  TokioInv'
<1>1. /\ out # NoWrite /\ out' = NoWrite /\ Written(out.packet, out.settles)
      /\ toServer' = IF open THEN Append(toServer, out.packet) ELSE toServer
      /\ delivered' = IF out.msg = 0 THEN delivered
                      ELSE [delivered EXCEPT ![out.msg] = @ + 1]
      /\ dropped' = IF out.packet.type = "Pingreq" THEN dropped \ {Packet("Pingresp", 0)}
                    ELSE dropped
      /\ IF out.then = "Idle"
         THEN call' = NoCall /\ wake' = 0
         ELSE call' = [call EXCEPT !.at = out.then] /\ wake' = wake
      /\ UNCHANGED <<reading, unsettled, forgotten, calls, toClient, open, now>>
      /\ UNCHANGED <<alive, quietSince, serverFlow, published, completed>>
  BY DEF WriteSucceeds, serverVars
<1>2. /\ SessionTypeOK' /\ inUse' = inUse /\ keepAliveSecs' = keepAliveSecs
      /\ lastActivity' = now
      /\ pingreqSentAt' = IF out.packet.type = "Pingreq" THEN now ELSE pingreqSentAt
  BY <1>1, WrittenTyped
<1>3. /\ call.at \notin Registering \cup {"Configured"}
      /\ call.at \in Owning => out.then = call.at
      /\ call.at \notin Owning => out.then \notin Owning
      /\ reading \/ call.at \notin Looping => out.then = call.at
      /\ call.at \in Looping => out.then # "AwaitConnack"
      /\ out.packet.type = "Pingreq" => pingreqSentAt = None /\ call.at # "AwaitConnack"
  BY <1>1 DEF TokioInv, WriteOK
<1>4. out.then \in CallAts
  BY <1>1, OutTyped DEF CallAts
<1>5. /\ call' \in Calls /\ call'.at = out.then
      /\ out.then # "Idle" => call'.id = call.id
  <2>1. call \in Calls
    BY TaskTypes
  <2> QED
    BY <1>1, <1>4, <2>1, NoCallType DEF Calls
<1>6. delivered' \in [Messages -> Nat]
  <2>1. delivered \in [Messages -> Nat] /\ out.msg \in 0..MaxPublishes
    BY <1>1, TaskTypes, OutTyped
  <2>2. out.msg # 0 => out.msg \in Messages
    BY <2>1, TokioAssumption DEF Messages
  <2> QED
    BY <1>1, <2>1, <2>2
<1>7. toServer' \in Seq(ToServerPackets)
  BY <1>1, TaskTypes, OutTyped, AppendProperties
<1>8. out.then \notin Registering \cup {"Configured"}
  BY <1>1, OutTyped, AwaitKinds DEF Registering
<1>9. call'.at \in Owning => call'.id # 0
  <2>1. "Idle" \notin Owning
    BY AwaitKinds
  <2> QED
    BY <1>3, <1>5, <2>1 DEF TokioInv, TaskTypeOK
<1>10. TaskTypeOK'
  BY <1>1, <1>2, <1>5, <1>6, <1>7, <1>8, <1>9, TaskTypes, TypesKept DEF Registering
<1>11. WriteOK'
  BY <1>1 DEF WriteOK
<1>12. Settled'
  <2>1. "Idle" \notin Owning
    BY AwaitKinds
  <2> QED
    BY <1>1, <1>2, <1>3, <1>5, <2>1 DEF TokioInv, Settled
<1>13. PingrespRecorded'
  <2> SUFFICES ASSUME alive, open, pingreqSentAt' # None
               PROVE  \/ \E i \in DOMAIN toServer' : toServer'[i].type = "Pingreq"
                      \/ \E i \in DOMAIN toClient : toClient[i].type = "Pingresp"
                      \/ Packet("Pingresp", 0) \in dropped'
    BY <1>1 DEF PingrespRecorded
  <2>1. /\ toServer' = Append(toServer, out.packet) /\ toServer \in Seq(ToServerPackets)
        /\ out.packet \in ToServerPackets
    BY <1>1, TaskTypes, OutTyped
  <2>2. /\ Len(toServer) \in Nat /\ DOMAIN toServer = 1..Len(toServer)
        /\ DOMAIN toServer' = 1..(Len(toServer) + 1)
        /\ toServer'[Len(toServer) + 1] = out.packet
        /\ \A i \in 1..Len(toServer) : toServer'[i] = toServer[i]
    BY <2>1, AppendProperties, LenProperties
  <2>3. CASE out.packet.type = "Pingreq"
    <3>1. Len(toServer) + 1 \in DOMAIN toServer'
      BY <2>2
    <3> QED
      BY <2>2, <2>3, <3>1
  <2>4. CASE out.packet.type # "Pingreq"
    <3>1. pingreqSentAt # None /\ dropped' = dropped
      BY <1>1, <1>2, <2>4
    <3>2. \/ \E i \in DOMAIN toServer : toServer[i].type = "Pingreq"
          \/ \E i \in DOMAIN toClient : toClient[i].type = "Pingresp"
          \/ Packet("Pingresp", 0) \in dropped
      BY <3>1 DEF TokioInv, PingTracked, PingrespRecorded
    <3>3. \A i \in DOMAIN toServer : i \in DOMAIN toServer' /\ toServer'[i] = toServer[i]
      BY <2>2
    <3> QED
      BY <3>1, <3>2, <3>3
  <2> QED
    BY <2>3, <2>4
<1>14. PingTracked'
  <2>1. ASSUME call'.at = "AwaitConnack" PROVE pingreqSentAt' = None
    <3>1. call.at = "AwaitConnack"
      BY <1>3, <1>5, <2>1
    <3> QED
      BY <1>2, <1>3, <3>1 DEF TokioInv, PingTracked
  <2> QED
    BY <1>13, <2>1 DEF PingTracked
<1>15. Limit' = Limit
  BY <1>2, LimitKept
<1>16. Timers'
  <2>1. lastActivity' <= now' /\ (pingreqSentAt' # None => pingreqSentAt' <= lastActivity')
    BY <1>1, <1>2, LoopFacts
  <2>2. call'.at \in Registering \cup {"Idle", "Configured"} => ~reading'
    <3>1. call.at = "Idle" => ~reading
      BY DEF TokioInv, Timers
    <3> QED
      BY <1>1, <1>3, <1>5, <1>8, <3>1
  <2>3. reading' => now' <= wake'
    <3>1. reading => out.then # "Idle"
      BY <1>3 DEF TokioInv, Timers
    <3> QED
      BY <1>1, <3>1 DEF TokioInv, Timers
  <2>4. ASSUME reading', call'.at \in Looping, keepAliveSecs' # 0
        PROVE  wake' <= Since' + Limit'
    <3>1. call.at = out.then /\ call.at \in Looping /\ out.then # "Idle"
      BY <1>1, <1>3, <1>5, <2>4, AwaitKinds
    <3>2. wake' = wake /\ wake \in Nat /\ wake <= Since + Limit
      BY <1>1, <1>2, <2>4, <3>1, TaskTypes DEF TokioInv, Timers
    <3>3. Since \in Nat /\ Since' \in Nat /\ Since <= Since'
      BY <1>2, <1>3, LoopFacts, LimitType DEF Since
    <3> QED
      BY <1>15, <3>2, <3>3, LimitType
  <2>5. quietSince' <= now' /\ call'.at \notin Registering
    BY <1>1, <1>5, <1>8, LoopFacts
  <2> QED
    BY <2>1, <2>2, <2>3, <2>4, <2>5 DEF Timers
<1>17. DeathNoticed'
  <2> SUFFICES ASSUME call'.at \in Looping, ~alive, keepAliveSecs # 0, now # quietSince
               PROVE  /\ toClient = << >>
                      /\ pingreqSentAt' # None /\ pingreqSentAt' <= quietSince + Limit
                      /\ now <= pingreqSentAt' + Limit
    BY <1>1, <1>2, <1>15 DEF DeathNoticed
  <2>1. call.at \in Looping
    BY <1>3, <1>5
  <2>2. /\ toClient = << >> /\ out.packet.type = "Pingreq"
        /\ pingreqSentAt = None => now <= quietSince + Limit
    BY <1>1, <2>1 DEF TokioInv, DeathNoticed
  <2>3. pingreqSentAt' = now /\ now <= quietSince + Limit
    BY <1>2, <1>3, <2>2
  <2> QED
    BY <2>2, <2>3, LoopFacts, NoneAssumption
<1> QED
  BY <1>10, <1>11, <1>12, <1>14, <1>16, <1>17 DEF TokioInv

-----------------------------------------------------------------------------
(***************************************************************************)
(* Packets that arrive                                                     *)
(***************************************************************************)

\* A call reads the next packet.
Taken ==
    /\ reading = TRUE /\ out = NoWrite
    /\ toClient # << >> /\ toClient' = Tail(toClient)
    /\ UNCHANGED <<setting, toServer, open, now>> /\ UNCHANGED serverVars

\* A write is consistent with the await of the call.
WriteFits(w, at) ==
    /\ w \in Writes
    /\ w.then # "AwaitConnack" /\ w.packet.type # "Pingreq"
    /\ at \in Owning => w.then = at
    /\ at \notin Owning => w.then \notin Owning
    /\ w.packet.type \in AnswerTypes /\ at \in Owning => at \in PublishAwaits

\* The packet is read and the call goes on.
LEMMA GoesOnInv ==
    ASSUME TokioInv, Taken, call.at \in Looping,
           Head(toClient).type = "Pingresp" => pingreqSentAt' = None,
           call' \in Calls, call'.at \in Looping,
           call'.at \in Owning <=> call.at \in Owning,
           call.at \in Owning => call'.id = call.id,
           reading' \in BOOLEAN, reading' => call'.at = call.at,
           UNCHANGED <<wake, lossVars, calls>>,
           out' = NoWrite \/ (WriteFits(out', call'.at) /\ (reading' => out'.then = call'.at)),
           SessionTypeOK', inUse' = inUse, UNCHANGED <<keepAliveSecs, lastActivity>>,
           pingreqSentAt' \in {None, pingreqSentAt},
           delivered' \in [Messages -> Nat]
    PROVE  TokioInv'
<1>1. /\ UNCHANGED <<unsettled, dropped, forgotten, toServer, open, now, setting>>
      /\ UNCHANGED <<alive, quietSince, serverFlow, published, completed>>
      /\ reading = TRUE /\ out = NoWrite
  BY DEF Taken, lossVars, serverVars
<1>2. toClient # << >> /\ toClient' = Tail(toClient)
  BY DEF Taken
<1>3. toClient' \in Seq(ToClientPackets)
  BY <1>2, HeadTyped
<1>4. Reads
  BY <1>2 DEF Reads
<1>5. call'.at \notin Registering \cup {"Idle", "Configured", "AwaitConnack"}
  BY AwaitKinds
<1>6. call'.at \in Owning => call'.id # 0
  BY DEF TokioInv, TaskTypeOK
<1>7. out' = NoWrite \/ out' \in Writes
  BY DEF WriteFits
<1>8. TaskTypeOK'
  BY <1>1, <1>3, <1>5, <1>6, <1>7, TaskTypes, TypesKept DEF Registering
<1>9. WriteOK'
  BY <1>5 DEF WriteOK, WriteFits
<1>10. Settled'
  BY <1>1 DEF TokioInv, Settled
<1>11. PingTracked'
  BY <1>1, <1>4, <1>5, PingKept DEF PingTracked
<1>12. Limit' = Limit
  BY LimitKept
<1>13. Timers'
  <2>1. lastActivity' <= now' /\ (pingreqSentAt' # None => pingreqSentAt' <= lastActivity')
    BY <1>1, LoopFacts
  <2>2. quietSince' <= now'
    BY <1>1, LoopFacts
  <2>3. reading' => now' <= wake'
    BY <1>1 DEF TokioInv, Timers
  <2>4. ASSUME reading', keepAliveSecs' # 0
        PROVE  wake' <= Since' + Limit'
    <3>1. wake \in Nat /\ wake <= Since + Limit
      BY <1>1, <2>4, TaskTypes DEF TokioInv, Timers
    <3>2. Since \in Nat /\ Since' \in Nat /\ Since <= Since'
      BY LoopFacts, LimitType DEF Since
    <3> QED
      BY <1>12, <3>1, <3>2, LimitType
  <2> QED
    BY <1>5, <2>1, <2>2, <2>3, <2>4 DEF Timers
<1>14. DeathNoticed'
  BY <1>1, <1>2 DEF TokioInv, DeathNoticed
<1> QED
  BY <1>8, <1>9, <1>10, <1>11, <1>13, <1>14 DEF TokioInv

\* The awaits from which packets go to handle_incoming
Handling == PublishAwaits \cup {"RecvPublish", "Loop"}

LEMMA HandlingFacts ==
    ASSUME call.at \in Handling
    PROVE  /\ call.at \in Looping /\ call.at \notin Registering
           /\ call.at \notin {"Idle", "AwaitConnack"}
           /\ call.at \in Owning => call.at \in PublishAwaits
           /\ call.at \in Looping \cup {"Idle", "AwaitConnack"}
  BY DEF Handling, Looping, Receiving, PublishAwaits, Owning, Registering

LEMMA ResumeFacts ==
    ASSUME TokioInv, Resume, call.at \in Handling
    PROVE  /\ call' \in Calls /\ call'.at = call.at /\ call'.id = call.id
           /\ reading' \in BOOLEAN
           /\ UNCHANGED <<wake, lossVars, calls>>
<1>1. call \in Calls /\ now \in Nat /\ CallTimeout \in Nat
  BY TaskTypes, TokioAssumption
<1>2. now + CallTimeout \in Nat
  BY <1>1
<1>3. call' \in Calls /\ call'.at = call.at /\ call'.id = call.id
  BY <1>1, <1>2 DEF Resume, Calls
<1> QED
  BY <1>3 DEF Resume

\* The packet is handled; the call goes on, writing an answer or not.
LEMMA HandledInv ==
    ASSUME TokioInv, Taken, Resume, call.at \in Handling,
           Head(toClient).type # "Pingresp", SessionQuiet, inUse' = inUse,
           delivered' \in [Messages -> Nat],
           \/ out' = NoWrite
           \/ \E type \in AnswerTypes : WriteOf(out', type, call.at)
    PROVE  TokioInv'
<1>1. /\ call' \in Calls /\ call'.at = call.at /\ call'.id = call.id
      /\ reading' \in BOOLEAN /\ UNCHANGED <<wake, lossVars, calls>>
  BY ResumeFacts
<1>2. SessionTypeOK' /\ UNCHANGED <<keepAliveSecs, lastActivity, pingreqSentAt>>
  BY DEF SessionQuiet, kaVars
<1>3. ASSUME NEW type \in AnswerTypes, WriteOf(out', type, call.at)
      PROVE  WriteFits(out', call'.at) /\ out'.then = call'.at
  <2>1. out' \in Writes /\ out'.then = call.at /\ out'.packet.type = type
    BY <1>3 DEF WriteOf
  <2>2. type # "Pingreq"
    BY DEF AnswerTypes
  <2> QED
    BY <1>1, <2>1, <2>2, HandlingFacts DEF WriteFits
<1>4. out' = NoWrite \/ (WriteFits(out', call'.at) /\ (reading' => out'.then = call'.at))
  BY <1>3
<1> QED
  BY <1>1, <1>2, <1>4, HandlingFacts, GoesOnInv

\* An error of handle_incoming
LEMMA HandlingFailsInv ==
    ASSUME TokioInv, Taken, call.at \in Handling, NEW error, FailUnsettled(error),
           Head(toClient).type # "Pingresp", SessionQuiet, inUse' = inUse,
           UNCHANGED delivered
    PROVE  TokioInv'
<1>1. Reads /\ Remains
  BY DEF Reads, Remains, Taken
<1> QED
  BY <1>1, HandlingFacts, FailUnsettledInv

\* A PUBLISH with an identifier that the client may receive has a valid one.
LEMMA PublishTyped ==
    ASSUME TokioInv, toClient # << >>, Head(toClient).type = "Publish"
    PROVE  /\ Head(toClient).qos # "AtMostOnce" =>
                 Head(toClient).msg \in Messages /\ Head(toClient).id \in PacketIds
           /\ Given(Head(toClient)) \in 0..MaxPublishes
<1>1. /\ Head(toClient).id \in 0..U16Max /\ Head(toClient).msg \in 0..MaxPublishes
      /\ Head(toClient) \in ToClientPackets
  BY HeadTyped
<1>2. Head(toClient).qos # "AtMostOnce" =>
          Head(toClient).msg # 0 /\ Head(toClient).id # 0
  BY <1>1 DEF ToClientPackets
<1>3. 0 \in 0..MaxPublishes
  BY TokioAssumption
<1> QED
  BY <1>1, <1>2, <1>3, U16MaxAssumption, TokioAssumption DEF Messages, PacketIds, Given

LEMMA HandleIncomingPublishInv ==
    ASSUME TokioInv, Taken, call.at \in Handling, Head(toClient).type = "Publish",
           HandleIncomingPublish(Head(toClient))
    PROVE  TokioInv'
<1> DEFINE p == Head(toClient)
<1>1. SessionTypeOK /\ toClient # << >> /\ p.type # "Pingresp" /\ out = NoWrite
  BY TaskTypes DEF Taken
<1>2. p.id \in 0..U16Max /\ p.qos \in QoSLevels
  BY <1>1, HeadTyped
<1>3. CASE Resume /\ UNCHANGED <<sessionVars, out, delivered>>
  <2>1. SessionQuiet /\ inUse' = inUse
    BY <1>1, <1>3, SessionUntouched
  <2>2. delivered' \in [Messages -> Nat] /\ out' = NoWrite
    BY <1>1, <1>3, TaskTypes
  <2> QED
    BY <1>1, <1>3, <2>1, <2>2, HandledInv
<1>4. CASE /\ p.qos # "AtMostOnce" /\ HandlePublish(p.qos, p.id) /\ Resume
           /\ out' = IF p.qos = "AtLeastOnce"
                     THEN Writing(Packet("Puback", p.id), call.at, Given(p), TRUE)
                     ELSE Writing(Packet("Pubrec", p.id), call.at, Given(p), FALSE)
           /\ UNCHANGED delivered
  <2>1. p.id \in PacketIds /\ p.id # 0 /\ Given(p) \in 0..MaxPublishes
    BY <1>1, <1>4, PublishTyped, U16MaxAssumption DEF PacketIds
  <2>2. Keeps(p.id)
    BY <1>2, <1>4 DEF Keeps
  <2>3. SessionQuiet /\ inUse' = inUse
    BY <1>1, <2>1, <2>2, SessionKeeps
  <2>4. /\ {"Puback", "Pubrec"} \subseteq AnswerTypes
        /\ "Puback" \in ToServerTypes /\ "Pubrec" \in ToServerTypes
    BY DEF AnswerTypes, ToServerTypes
  <2>5. /\ call.at \in Looping \cup {"Idle", "AwaitConnack"}
        /\ TRUE \in BOOLEAN /\ FALSE \in BOOLEAN
    BY HandlingFacts
  <2>6. WriteOf(Writing(Packet("Puback", p.id), call.at, Given(p), TRUE), "Puback", call.at)
    BY <1>2, <2>1, <2>4, <2>5, WritingTyped
  <2>7. WriteOf(Writing(Packet("Pubrec", p.id), call.at, Given(p), FALSE), "Pubrec", call.at)
    BY <1>2, <2>1, <2>4, <2>5, WritingTyped
  <2>8. \E type \in AnswerTypes : WriteOf(out', type, call.at)
    BY <1>4, <2>4, <2>6, <2>7
  <2>9. delivered' \in [Messages -> Nat]
    BY <1>4, TaskTypes
  <2> QED
    BY <1>1, <1>4, <2>3, <2>8, <2>9, HandledInv
<1>5. CASE FailUnsettled("FlowControl") /\ UNCHANGED <<sessionVars, delivered>>
  <2>1. SessionQuiet /\ inUse' = inUse
    BY <1>1, <1>5, SessionUntouched
  <2> QED
    BY <1>1, <1>5, <2>1, HandlingFailsInv
<1> QED
  BY <1>3, <1>4, <1>5 DEF HandleIncomingPublish

LEMMA HandleIncomingPubrelInv ==
    ASSUME TokioInv, Taken, call.at \in Handling, Head(toClient).type = "Pubrel",
           HandleIncomingPubrel(Head(toClient))
    PROVE  TokioInv'
<1> DEFINE p == Head(toClient)
<1>1. SessionTypeOK /\ toClient # << >> /\ p.type # "Pingresp" /\ UNCHANGED delivered
  BY TaskTypes DEF Taken, HandleIncomingPubrel
<1>2. p.id \in PacketIds /\ p.id \in 0..U16Max /\ p.id # 0
  BY <1>1, HeadTyped, U16MaxAssumption DEF ToClientPackets, PacketIds
<1>3. Keeps(p.id)
  BY DEF Keeps, HandleIncomingPubrel
<1>4. SessionQuiet /\ inUse' = inUse
  BY <1>1, <1>2, <1>3, SessionKeeps
<1>5. CASE /\ Resume
           /\ out' = Writing(Packet("Pubcomp", p.id), call.at, 0,
                             PubrelResult(p.id) = "SendPubcomp")
  <2>1. PICK settles \in BOOLEAN :
           out' = Writing(Packet("Pubcomp", p.id), call.at, 0, settles)
    BY <1>5
  <2>2. /\ "Pubcomp" \in AnswerTypes /\ "Pubcomp" \in ToServerTypes
        /\ 0 \in 0..MaxPublishes /\ call.at \in Looping \cup {"Idle", "AwaitConnack"}
    BY TokioAssumption, HandlingFacts DEF AnswerTypes, ToServerTypes
  <2>3. WriteOf(Writing(Packet("Pubcomp", p.id), call.at, 0, settles), "Pubcomp", call.at)
    BY <1>2, <2>2, WritingTyped
  <2>4. \E type \in AnswerTypes : WriteOf(out', type, call.at)
    BY <2>1, <2>2, <2>3
  <2>5. delivered' \in [Messages -> Nat]
    BY <1>1, TaskTypes
  <2> QED
    BY <1>1, <1>4, <1>5, <2>4, <2>5, HandledInv
<1>6. CASE FailUnsettled("Flow")
  BY <1>1, <1>4, <1>6, HandlingFailsInv
<1> QED
  BY <1>5, <1>6 DEF HandleIncomingPubrel

LEMMA HandleIncomingDisconnectInv ==
    ASSUME TokioInv, Taken, call.at \in Handling, Head(toClient).type = "Disconnect",
           HandleIncomingDisconnect
    PROVE  TokioInv'
<1>1. SessionTypeOK
  BY TaskTypes
<1>2. call.at \in PublishAwaits => call.id \in PacketIds
  BY TaskTypes, AwaitKinds, U16MaxAssumption DEF TokioInv, TaskTypeOK, PacketIds
<1>3. UNCHANGED <<subVars, kaVars, authVars>> /\ UNCHANGED <<unsettled, dropped, delivered>>
  BY DEF HandleIncomingDisconnect
<1>4. ComponentStep
  <2>1. CASE call.at \in PublishAwaits
    <3>1. QosRelease(call.id) /\ PidRelease(call.id) /\ [FcNext]_fcVars
      BY <2>1 DEF HandleIncomingDisconnect, FcNext
    <3> QED
      BY <1>2, <1>3, <2>1, <3>1 DEF ComponentStep, QosNext, PidNext
  <2>2. CASE call.at \notin PublishAwaits
    BY <1>3, <2>2 DEF HandleIncomingDisconnect, ComponentStep
  <2> QED
    BY <2>1, <2>2
<1>5. SesTypeOK'
  BY <1>1 DEF HandleIncomingDisconnect, SessionTypeOK, SesTypeOK, ConnectionStates,
              identityVars
<1>6. SessionTypeOK' /\ UNCHANGED <<lastActivity, pingreqSentAt>>
  BY <1>1, <1>3, <1>4, <1>5, SessionTypeStep DEF kaVars
<1>7. inUse' \subseteq unsettled
  <2>1. CASE call.at \in PublishAwaits
    BY <2>1, AwaitKinds DEF HandleIncomingDisconnect, PidRelease, TokioInv, Settled
  <2>2. CASE call.at \notin PublishAwaits
    <3>1. inUse' = inUse
      BY <2>2 DEF HandleIncomingDisconnect, pidVars
    <3> QED
      BY <2>2, <3>1, HandlingFacts DEF TokioInv, Settled
  <2> QED
    BY <2>1, <2>2
<1>8. Reads /\ delivered' \in [Messages -> Nat]
  BY <1>3, TaskTypes DEF Reads, Taken
<1>9. PICK outcome \in {"Ok", "Disconnected"} : Finish(outcome)
  BY DEF HandleIncomingDisconnect
<1>10. forgotten' \subseteq 0..MaxPublishes
  BY AbortingTyped, AwaitKinds DEF HandleIncomingDisconnect
<1>11. call' = NoCall /\ reading' = FALSE /\ wake' = 0 /\ out' = NoWrite /\ calls' = calls
  BY <1>9 DEF Finish
<1> QED
  BY <1>3, <1>6, <1>7, <1>8, <1>10, <1>11, TaskTypes, EndsInv DEF Taken

LEMMA HandleIncomingInv ==
    ASSUME TokioInv, Taken, call.at \in Handling, HandleIncoming(Head(toClient))
    PROVE  TokioInv'
<1> DEFINE p == Head(toClient)
<1>1. CASE p.type = "Publish" /\ HandleIncomingPublish(p)
  BY <1>1, HandleIncomingPublishInv
<1>2. CASE p.type = "Pubrel" /\ HandleIncomingPubrel(p)
  BY <1>2, HandleIncomingPubrelInv
<1>3. CASE p.type = "Disconnect" /\ HandleIncomingDisconnect
  BY <1>3, HandleIncomingDisconnectInv
<1>4. CASE /\ p.type = "Pingresp" /\ PingrespReceived /\ Resume
           /\ UNCHANGED <<out, delivered>>
  <2>1. /\ call' \in Calls /\ call'.at = call.at /\ call'.id = call.id
        /\ reading' \in BOOLEAN /\ UNCHANGED <<wake, lossVars, calls>>
    BY <1>4, ResumeFacts
  <2>2. ComponentStep /\ UNCHANGED sesVars
    BY <1>4 DEF PingrespReceived, ComponentStep, KaNext
  <2>3. SessionTypeOK'
    BY <2>2, TaskTypes, SessionTypeKept
  <2>4. /\ pingreqSentAt' = None /\ UNCHANGED <<keepAliveSecs, lastActivity>>
        /\ inUse' = inUse
    BY <1>4 DEF PingrespReceived, KaPingrespReceived, pidVars
  <2>5. out' = NoWrite /\ delivered' \in [Messages -> Nat]
    BY <1>4, TaskTypes DEF Taken
  <2> QED
    BY <2>1, <2>3, <2>4, <2>5, HandlingFacts, GoesOnInv
<1>5. CASE /\ p.type \in AckTypes /\ FailUnsettled("UnexpectedPacket")
           /\ UNCHANGED <<sessionVars, delivered>>
  <2>1. SessionQuiet /\ inUse' = inUse
    BY <1>5, TaskTypes, SessionUntouched
  <2>2. p.type # "Pingresp"
    BY <1>5 DEF AckTypes
  <2> QED
    BY <1>5, <2>1, <2>2, HandlingFailsInv
<1> QED
  BY <1>1, <1>2, <1>3, <1>4, <1>5 DEF HandleIncoming

-----------------------------------------------------------------------------
(***************************************************************************)
(* What each await does with the packet it was waiting for                 *)
(***************************************************************************)

\* What an await does when it fails on the packet it has read
LEMMA ReadFailsInv ==
    ASSUME TokioInv, Taken, call.at \in Looping, UNCHANGED delivered,
           NEW error, NEW packets \in SUBSET {Head(toClient)},
           FailDropping(error, packets),
           Head(toClient).type = "Pingresp" => packets = {Head(toClient)}
    PROVE  TokioInv'
<1>1. toClient # << >> /\ toClient' = Tail(toClient)
  BY DEF Taken
<1>2. packets \in SUBSET ToClientPackets
  BY <1>1, HeadTyped
<1>3. packets \subseteq dropped'
  BY DEF FailDropping
<1>4. Reads /\ Remains
  BY <1>1, <1>3 DEF Reads, Remains, Taken
<1>5. call.at \notin Registering
  BY AwaitKinds
<1> QED
  BY <1>2, <1>4, <1>5, FailInv DEF Registering

\* An acknowledgement that does not fit the flow: an unknown one withdraws the
\* request, an untimely one is passed on by `?`.
LEMMA AckRefusedInv ==
    ASSUME TokioInv, Taken, call.at \in PublishAwaits, UNCHANGED delivered,
           Head(toClient).type # "Pingresp", NEW error,
           Fail(error) \/ (UNCHANGED sessionVars /\ FailUnsettled(error))
    PROVE  TokioInv'
<1>1. Reads /\ Remains /\ call.at \in Looping
  BY AwaitKinds DEF Reads, Remains, Taken
<1>2. CASE Fail(error)
  <2>1. FailDropping(error, {}) /\ {} \in SUBSET {Head(toClient)}
    BY <1>2 DEF Fail
  <2> QED
    BY <1>1, <2>1, ReadFailsInv
<1>3. CASE UNCHANGED sessionVars /\ FailUnsettled(error)
  <2>1. SessionQuiet /\ inUse' = inUse
    BY <1>3, TaskTypes, SessionUntouched
  <2> QED
    BY <1>1, <1>3, <2>1, FailUnsettledInv
<1> QED
  BY <1>2, <1>3

\* One that ends the flow
LEMMA AckAcceptedInv ==
    ASSUME TokioInv, Taken, call.at \in Owning, UNCHANGED <<lossVars, delivered>>,
           Head(toClient).type # "Pingresp", Releases(call.id),
           NEW outcome, Finish(outcome)
    PROVE  TokioInv'
<1>1. Reads /\ Remains
  BY DEF Reads, Remains, Taken
<1> QED
  BY <1>1, AnsweredInv

LEMMA AwaitPubackInv ==
    ASSUME TokioInv, Taken, AwaitPuback(Head(toClient))
    PROVE  TokioInv'
<1> DEFINE p == Head(toClient)
<1>1. call.at \in PublishAwaits /\ call.at \in Handling /\ call.at \in Owning
  BY AwaitKinds DEF AwaitPuback, PublishAwaits, Handling
<1>2. CASE /\ p.type = "Puback" /\ p.id = call.id
           /\ AckRead(PubackResult(p.id), HandlePuback(p.id))
  <2>1. UNCHANGED delivered /\ p.type # "Pingresp"
    BY <1>2 DEF AckRead
  <2>2. CASE PubackResult(p.id) = "Complete"
    <3>1. Releases(call.id) /\ Finish("Ok") /\ UNCHANGED lossVars
      BY <1>2, <2>2 DEF AckRead, Releases
    <3> QED
      BY <1>1, <2>1, <3>1, AckAcceptedInv
  <2>3. CASE PubackResult(p.id) # "Complete"
    BY <1>1, <1>2, <2>1, <2>3, AckRefusedInv DEF AckRead
  <2> QED
    BY <2>2, <2>3
<1>3. CASE HandleIncoming(p)
  BY <1>1, <1>3, HandleIncomingInv
<1> QED
  BY <1>2, <1>3 DEF AwaitPuback

LEMMA AwaitPubcompInv ==
    ASSUME TokioInv, Taken, AwaitPubcomp(Head(toClient))
    PROVE  TokioInv'
<1> DEFINE p == Head(toClient)
<1>1. call.at \in PublishAwaits /\ call.at \in Handling /\ call.at \in Owning
  BY AwaitKinds DEF AwaitPubcomp, PublishAwaits, Handling
<1>2. CASE /\ p.type = "Pubcomp" /\ p.id = call.id
           /\ AckRead(PubcompResult(p.id), HandlePubcomp(p.id))
  <2>1. UNCHANGED delivered /\ p.type # "Pingresp"
    BY <1>2 DEF AckRead
  <2>2. CASE PubcompResult(p.id) = "Complete"
    <3>1. Releases(call.id) /\ Finish("Ok") /\ UNCHANGED lossVars
      BY <1>2, <2>2 DEF AckRead, Releases
    <3> QED
      BY <1>1, <2>1, <3>1, AckAcceptedInv
  <2>3. CASE PubcompResult(p.id) # "Complete"
    BY <1>1, <1>2, <2>1, <2>3, AckRefusedInv DEF AckRead
  <2> QED
    BY <2>2, <2>3
<1>3. CASE HandleIncoming(p)
  BY <1>1, <1>3, HandleIncomingInv
<1> QED
  BY <1>2, <1>3 DEF AwaitPubcomp

LEMMA AwaitQos2CompletionInv ==
    ASSUME TokioInv, Taken, AwaitQos2Completion(Head(toClient))
    PROVE  TokioInv'
<1> DEFINE p == Head(toClient)
<1>1. call.at \in PublishAwaits /\ call.at \in Handling /\ call.at \in Owning
      /\ call.at = "AwaitPubrec"
  BY AwaitKinds DEF AwaitQos2Completion, PublishAwaits, Handling
<1>2. CASE HandleIncoming(p)
  BY <1>1, <1>2, HandleIncomingInv
<1>3. CASE p.type = "Pubrec" /\ p.id = call.id /\ ~HandleIncoming(p)
  <2>1. UNCHANGED delivered /\ p.type # "Pingresp"
    BY <1>3 DEF AwaitQos2Completion
  <2>2. PICK isError \in BOOLEAN : isError = ~p.ok
    OBVIOUS
  <2>3. CASE PubrecResult(p.id, isError) = "SendPubrel"
    <3>1. /\ HandlePubrec(p.id, isError) /\ Await("AwaitPubcomp", p.id)
          /\ out' = Writing(Packet("Pubrel", p.id), "AwaitPubcomp", 0, FALSE)
          /\ UNCHANGED lossVars
      BY <1>3, <2>2, <2>3 DEF AwaitQos2Completion
    <3>2. /\ SessionTypeOK /\ call \in Calls /\ now \in Nat
          /\ call.id \in PacketIds /\ call.id \in 0..U16Max
      BY <1>1, TaskTypes, U16MaxAssumption DEF TokioInv, TaskTypeOK, PacketIds
    <3>3. Keeps(call.id)
      BY <1>3, <2>3, <3>1 DEF Keeps
    <3>4. SessionQuiet /\ inUse' = inUse
      BY <3>2, <3>3, SessionKeeps
    <3>5. now + CallTimeout \in Nat
      BY <3>2, TokioAssumption
    <3>6. /\ "AwaitPubcomp" \in CallAts /\ "AwaitPubcomp" \in Looping
          /\ "AwaitPubcomp" \in Owning /\ "AwaitPubcomp" \in PublishAwaits
          /\ "AwaitPubcomp" \in Looping \cup {"Idle", "AwaitConnack"}
          /\ "Pubrel" \in ToServerTypes /\ "Pubrel" \notin AnswerTypes
      BY DEF CallAts, Looping, Receiving, PublishAwaits, Owning, ToServerTypes, AnswerTypes
    <3>7. /\ call' \in Calls /\ call'.at = "AwaitPubcomp" /\ call'.id = call.id
          /\ reading' = FALSE /\ UNCHANGED <<wake, calls>>
      BY <1>3, <3>1, <3>2, <3>5, <3>6 DEF Await, Calls
    <3>8. 0 \in 0..MaxPublishes /\ FALSE \in BOOLEAN
      BY TokioAssumption
    <3>9. WriteOf(Writing(Packet("Pubrel", call.id), "AwaitPubcomp", 0, FALSE),
                  "Pubrel", "AwaitPubcomp")
      BY <3>2, <3>6, <3>8, WritingTyped
    <3>10. WriteFits(out', "AwaitPubcomp")
      BY <1>3, <3>1, <3>6, <3>9 DEF WriteOf, WriteFits
    <3>11. SessionTypeOK' /\ UNCHANGED <<keepAliveSecs, lastActivity, pingreqSentAt>>
      BY <3>4 DEF SessionQuiet, kaVars
    <3>12. delivered' \in [Messages -> Nat]
      BY <2>1, TaskTypes
    <3> QED
      BY <1>1, <2>1, <3>1, <3>4, <3>6, <3>7, <3>10, <3>11, <3>12, HandlingFacts, GoesOnInv
  <2>4. CASE PubrecResult(p.id, isError) = "Aborted"
    <3>1. HandlePubrec(p.id, isError) /\ Finish("PublishRejected") /\ UNCHANGED lossVars
      BY <1>3, <2>2, <2>4 DEF AwaitQos2Completion
    <3>2. Releases(call.id)
      BY <1>3, <2>4, <3>1 DEF Releases
    <3> QED
      BY <1>1, <2>1, <3>1, <3>2, AckAcceptedInv
  <2>5. CASE PubrecResult(p.id, isError) = "None"
    <3>1. Fail("PublishRejected")
      BY <1>3, <2>2, <2>5 DEF AwaitQos2Completion
    <3> QED
      BY <1>1, <2>1, <3>1, AckRefusedInv
  <2>6. CASE PubrecResult(p.id, isError) \notin {"SendPubrel", "Aborted", "None"}
    <3>1. UNCHANGED sessionVars /\ FailUnsettled("Flow")
      BY <1>3, <2>2, <2>6 DEF AwaitQos2Completion
    <3> QED
      BY <1>1, <2>1, <3>1, AckRefusedInv
  <2> QED
    BY <2>3, <2>4, <2>5, <2>6
<1> QED
  BY <1>2, <1>3 DEF AwaitQos2Completion

LEMMA AwaitRequestAckInv ==
    ASSUME TokioInv, Taken, AwaitRequestAck(Head(toClient))
    PROVE  TokioInv'
<1> DEFINE p == Head(toClient)
<1>1. call.at \in {"AwaitSuback", "AwaitUnsuback"} /\ UNCHANGED delivered
  BY DEF AwaitRequestAck
<1>2. call.at \in Owning /\ call.at \in Looping
  BY <1>1 DEF Owning, Looping, Receiving
<1>3. CASE /\ p.type = "Suback" /\ p.id = call.id /\ HandleSuback(p.id, <<TRUE>>)
           /\ Finish("Ok") /\ UNCHANGED lossVars
  <2>1. Releases(call.id)
    BY <1>3 DEF Releases
  <2> QED
    BY <1>1, <1>2, <1>3, <2>1, AckAcceptedInv
<1>4. CASE /\ p.type = "Unsuback" /\ p.id = call.id /\ HandleUnsuback(p.id, <<TRUE>>)
           /\ Finish("Ok") /\ UNCHANGED lossVars
  <2>1. Releases(call.id)
    BY <1>4 DEF Releases
  <2> QED
    BY <1>1, <1>2, <1>4, <2>1, AckAcceptedInv
<1>5. CASE FailDropping("UnexpectedPacket", {p})
  <2>1. {p} \in SUBSET {Head(toClient)}
    OBVIOUS
  <2> QED
    BY <1>1, <1>2, <1>5, <2>1, ReadFailsInv
<1> QED
  BY <1>3, <1>4, <1>5 DEF AwaitRequestAck

LEMMA ReceivePublishInv ==
    ASSUME TokioInv, Taken, call.at = "RecvPublish", Head(toClient).type = "Publish",
           ReceivePublish(Head(toClient))
    PROVE  TokioInv'
<1> DEFINE p == Head(toClient)
<1>1. SessionTypeOK /\ toClient # << >> /\ p.type # "Pingresp" /\ call \in Calls
  BY TaskTypes DEF Taken
<1>2. p.msg \in 0..MaxPublishes /\ p.id \in 0..U16Max /\ p.qos \in QoSLevels
  BY <1>1, HeadTyped
<1>3. call.at \in Looping /\ call.at \notin Owning
  BY DEF Looping, Receiving, Owning, PublishAwaits, Registering
<1>4. CASE Finish("Ok") /\ UNCHANGED <<sessionVars, lossVars, delivered>>
  <2>1. SessionQuiet /\ inUse' = inUse
    BY <1>1, <1>4, SessionUntouched
  <2>2. SessionTypeOK' /\ UNCHANGED <<lastActivity, pingreqSentAt>>
    BY <2>1 DEF SessionQuiet, kaVars
  <2>3. inUse' \subseteq unsettled
    BY <1>3, <2>1 DEF TokioInv, Settled
  <2>4. delivered' \in [Messages -> Nat]
    BY <1>4, TaskTypes
  <2>5. Reads
    BY <1>1 DEF Reads, Taken
  <2> QED
    BY <1>4, <2>2, <2>3, <2>4, <2>5, FinishInv DEF Taken
<1>5. CASE /\ p.qos # "AtMostOnce" /\ HandlePublish(p.qos, p.id) /\ reading' = FALSE
           /\ IF p.qos = "AtLeastOnce"
              THEN /\ out' = Writing(Packet("Puback", p.id), "Idle", p.msg, TRUE)
                   /\ UNCHANGED call
              ELSE /\ out' = Writing(Packet("Pubrec", p.id), "AwaitPubrel", 0, FALSE)
                   /\ call' = [call EXCEPT !.id = p.id, !.msg = Given(p)]
           /\ UNCHANGED <<wake, result, lossVars, calls, delivered>>
  <2>1. p.id \in PacketIds /\ p.id # 0 /\ Given(p) \in 0..MaxPublishes
    BY <1>1, <1>5, PublishTyped, U16MaxAssumption DEF PacketIds
  <2>2. Keeps(p.id)
    BY <1>2, <1>5 DEF Keeps
  <2>3. SessionQuiet /\ inUse' = inUse
    BY <1>1, <2>1, <2>2, SessionKeeps
  <2>4. SessionTypeOK' /\ UNCHANGED <<keepAliveSecs, lastActivity, pingreqSentAt>>
    BY <2>3 DEF SessionQuiet, kaVars
  <2>5. /\ "Puback" \in ToServerTypes /\ "Pubrec" \in ToServerTypes
        /\ TRUE \in BOOLEAN /\ FALSE \in BOOLEAN /\ 0 \in 0..MaxPublishes
        /\ "Idle" \in Looping \cup {"Idle", "AwaitConnack"}
        /\ "AwaitPubrel" \in Looping \cup {"Idle", "AwaitConnack"}
    BY TokioAssumption DEF ToServerTypes, AnswerTypes, Looping, Receiving
  <2>6. WriteOf(Writing(Packet("Puback", p.id), "Idle", p.msg, TRUE), "Puback", "Idle")
    BY <1>2, <2>1, <2>5, WritingTyped
  <2>7. WriteOf(Writing(Packet("Pubrec", p.id), "AwaitPubrel", 0, FALSE),
                "Pubrec", "AwaitPubrel")
    BY <1>2, <2>1, <2>5, WritingTyped
  <2>8. "Idle" \notin Owning /\ "AwaitPubrel" \notin Owning
    BY DEF Owning, PublishAwaits, Registering
  <2>9. WriteFits(out', "RecvPublish")
    <3>1. \/ WriteOf(out', "Puback", "Idle")
          \/ WriteOf(out', "Pubrec", "AwaitPubrel")
      BY <1>5, <2>6, <2>7
    <3> QED
      BY <1>3, <2>8, <3>1 DEF WriteOf, WriteFits
  <2>10. call' \in Calls /\ call'.at = "RecvPublish"
    BY <1>1, <1>2, <1>5, <2>1 DEF Calls
  <2>11. delivered' \in [Messages -> Nat]
    BY <1>5, TaskTypes
  <2> QED
    BY <1>1, <1>3, <1>5, <2>3, <2>4, <2>9, <2>10, <2>11, GoesOnInv
<1>6. CASE Fail("FlowControl") /\ UNCHANGED delivered
  <2>1. FailDropping("FlowControl", {}) /\ {} \in SUBSET {Head(toClient)}
    BY <1>6 DEF Fail
  <2> QED
    BY <1>1, <1>3, <1>6, <2>1, ReadFailsInv
<1> QED
  BY <1>4, <1>5, <1>6 DEF ReceivePublish

LEMMA RecvPublishInv ==
    ASSUME TokioInv, Taken, RecvPublish(Head(toClient))
    PROVE  TokioInv'
<1>1. call.at = "RecvPublish" /\ call.at \in Handling
  BY DEF RecvPublish, Handling
<1> QED
  BY <1>1, ReceivePublishInv, HandleIncomingInv DEF RecvPublish

LEMMA RecvPublishPubrelInv ==
    ASSUME TokioInv, Taken, RecvPublishPubrel(Head(toClient))
    PROVE  TokioInv'
<1> DEFINE p == Head(toClient)
<1>1. /\ call.at = "AwaitPubrel" /\ UNCHANGED delivered /\ toClient # << >>
      /\ SessionTypeOK /\ call \in Calls
  BY TaskTypes DEF RecvPublishPubrel, Taken
<1>2. call.at \in Looping /\ call.at \notin Owning
  BY <1>1 DEF Looping, Receiving, Owning, PublishAwaits, Registering
<1>3. CASE /\ p.type = "Pubrel" /\ p.id = call.id /\ HandlePubrel(p.id)
           /\ out' = Writing(Packet("Pubcomp", p.id),
                             IF call.msg = 0 THEN "RecvPublish" ELSE "Idle", call.msg, TRUE)
           /\ reading' = FALSE
           /\ UNCHANGED <<call, wake, result, lossVars, calls>>
  <2>1. p.id \in PacketIds /\ p.id \in 0..U16Max /\ p.id # 0
    BY <1>1, <1>3, HeadTyped, U16MaxAssumption DEF ToClientPackets, PacketIds
  <2>2. Keeps(p.id)
    BY <1>3 DEF Keeps
  <2>3. SessionQuiet /\ inUse' = inUse
    BY <1>1, <2>1, <2>2, SessionKeeps
  <2>4. SessionTypeOK' /\ UNCHANGED <<keepAliveSecs, lastActivity, pingreqSentAt>>
    BY <2>3 DEF SessionQuiet, kaVars
  <2>5. PICK then \in {"RecvPublish", "Idle"} :
           out' = Writing(Packet("Pubcomp", p.id), then, call.msg, TRUE)
    BY <1>3
  <2>6. /\ "Pubcomp" \in ToServerTypes /\ TRUE \in BOOLEAN /\ call.msg \in 0..MaxPublishes
        /\ then \in Looping \cup {"Idle", "AwaitConnack"} /\ then # "AwaitConnack"
        /\ then \notin Owning
    BY <1>1 DEF ToServerTypes, AnswerTypes, Looping, Receiving, Calls, Owning,
                PublishAwaits, Registering
  <2>7. WriteOf(Writing(Packet("Pubcomp", p.id), then, call.msg, TRUE), "Pubcomp", then)
    BY <2>1, <2>6, WritingTyped
  <2>8. WriteFits(out', call.at)
    BY <1>2, <2>5, <2>6, <2>7 DEF WriteOf, WriteFits
  <2>9. delivered' \in [Messages -> Nat]
    BY <1>1, TaskTypes
  <2> QED
    BY <1>1, <1>2, <1>3, <2>3, <2>4, <2>8, <2>9, GoesOnInv
<1>4. CASE FailDropping("UnexpectedPacket", {p})
  <2>1. {p} \in SUBSET {Head(toClient)}
    OBVIOUS
  <2> QED
    BY <1>1, <1>2, <1>4, <2>1, ReadFailsInv
<1> QED
  BY <1>3, <1>4 DEF RecvPublishPubrel

LEMMA ConnackReadInv ==
    ASSUME TokioInv, Taken, ConnackRead(Head(toClient))
    PROVE  TokioInv'
<1> DEFINE p == Head(toClient)
<1>1. call.at = "AwaitConnack" /\ UNCHANGED <<lossVars, delivered>> /\ SessionTypeOK
  BY TaskTypes DEF ConnackRead
<1>2. pingreqSentAt = None /\ inUse \subseteq unsettled
  BY <1>1, AwaitKinds DEF TokioInv, PingTracked, Settled
<1>3. delivered' \in [Messages -> Nat]
  BY <1>1, TaskTypes
<1>4. ASSUME NEW c \in setting.connacks, ApplyConnack(c), Finish("Ok")
      PROVE  TokioInv'
  <2>1. c \in ConnackParams
    BY TaskTypes, TokioAssumption
  <2>2. SessionTypeOK'
    <3>1. ComponentStep /\ SesTypeOK'
      BY <1>1, <1>4, <2>1, ApplyConnackStep
    <3> QED
      BY <1>1, <3>1, SessionTypeStep
  <2>3. UNCHANGED <<lastActivity, pingreqSentAt>>
    BY <1>4 DEF ApplyConnack, KaSetKeepAlive
  <2>4. inUse' \subseteq inUse
    BY <1>4 DEF ApplyConnack, Connected, ResetSessionState, PidReset, pidVars
  <2>5. Reads
    BY <1>2, <2>3 DEF Reads, Taken
  <2>6. inUse' \subseteq unsettled
    BY <1>2, <2>4
  <2> QED
    BY <1>1, <1>3, <1>4, <2>2, <2>3, <2>5, <2>6, FinishInv DEF Taken
<1>5. ASSUME NEW outcome, UNCHANGED sessionVars, Finish(outcome)
      PROVE  TokioInv'
  <2>1. SessionQuiet /\ inUse' = inUse
    BY <1>1, <1>5, SessionUntouched
  <2>2. SessionTypeOK' /\ UNCHANGED <<lastActivity, pingreqSentAt>>
    BY <2>1 DEF SessionQuiet, kaVars
  <2>3. Reads
    BY <1>2, <2>2 DEF Reads, Taken
  <2>4. inUse' \subseteq unsettled
    BY <1>2, <2>1
  <2> QED
    BY <1>1, <1>3, <1>5, <2>2, <2>3, <2>4, FinishInv DEF Taken
<1> QED
  BY <1>4, <1>5 DEF ConnackRead

LEMMA ReadPacketInv ==
    ASSUME TokioInv, ReadPacket, setting' = setting
    PROVE  TokioInv'
<1>1. Taken
  BY TaskTypes DEF ReadPacket, Taken
<1>2. CASE call.at = "Loop" /\ HandleIncoming(Head(toClient))
  <2>1. call.at \in Handling
    BY <1>2 DEF Handling
  <2> QED
    BY <1>1, <1>2, <2>1, HandleIncomingInv
<1> QED
  BY <1>1, <1>2, ConnackReadInv, AwaitPubackInv, AwaitQos2CompletionInv, AwaitPubcompInv,
     AwaitRequestAckInv, RecvPublishInv, RecvPublishPubrelInv DEF ReadPacket

-----------------------------------------------------------------------------
(***************************************************************************)
(* The server, the stream and the clock                                    *)
(***************************************************************************)

\* Neither the server nor the stream touches the client.
LEMMA ServerInv ==
    ASSUME TokioInv, ClientUnchanged, setting' = setting,
           toServer' \in Seq(ToServerPackets), toClient' \in Seq(ToClientPackets),
           open' \in BOOLEAN, alive' \in BOOLEAN,
           serverFlow' \in [PacketIds ->
               [qos : QoSLevels, msg : 0..MaxPublishes, released : BOOLEAN]],
           published' \in 0..MaxPublishes, completed' \subseteq Messages,
           PingrespRecorded',
           quietSince' \in {quietSince, now},
           \/ quietSince' = now
           \/ alive'
           \/ alive' = alive /\ toClient' \in {toClient, << >>}
    PROVE  TokioInv'
<1>1. /\ UNCHANGED sessionVars
      /\ UNCHANGED <<call, reading, wake, out, result, calls, now>>
      /\ UNCHANGED <<unsettled, dropped, forgotten, delivered>>
  BY DEF ClientUnchanged, taskVars, lossVars
<1>2. SessionQuiet /\ inUse' = inUse
  BY <1>1, TaskTypes, SessionUntouched
<1>3. SessionTypeOK' /\ UNCHANGED <<keepAliveSecs, lastActivity, pingreqSentAt>>
  BY <1>2 DEF SessionQuiet, kaVars
<1>4. TokioTypeOK'
  BY <1>1, <1>3 DEF TokioInv, TaskTypeOK, TokioTypeOK
<1>5. TaskTypeOK'
  <2>1. quietSince' \in Nat
    BY TaskTypes
  <2> QED
    BY <1>1, <1>4, <2>1 DEF TokioInv, TaskTypeOK
<1>6. WriteOK'
  BY <1>1, <1>3 DEF TokioInv, WriteOK
<1>7. Settled'
  BY <1>1, <1>2 DEF TokioInv, Settled
<1>8. PingTracked'
  BY <1>1, <1>3 DEF TokioInv, PingTracked
<1>9. Limit' = Limit /\ Since' = Since
  BY <1>3, LimitKept DEF Since
<1>10. Timers'
  <2>1. quietSince' <= now' /\ (call.at \in Registering => quietSince' = now)
    BY <1>1, LoopFacts DEF TokioInv, Timers
  <2> QED
    BY <1>1, <1>3, <1>9, <2>1 DEF TokioInv, Timers
<1>11. DeathNoticed'
  <2>1. CASE quietSince' = now
    BY <1>1, <2>1 DEF DeathNoticed
  <2>2. CASE alive'
    BY <2>2 DEF DeathNoticed
  <2>3. CASE alive' = alive /\ toClient' \in {toClient, << >>} /\ quietSince' = quietSince
    BY <1>1, <1>3, <1>9, <2>3 DEF TokioInv, DeathNoticed
  <2> QED
    BY <2>1, <2>2, <2>3
<1> QED
  BY <1>5, <1>6, <1>7, <1>8, <1>10, <1>11 DEF TokioInv

LEMMA ServerTypes ==
    ASSUME TokioInv
    PROVE  /\ serverFlow \in [PacketIds ->
                  [qos : QoSLevels, msg : 0..MaxPublishes, released : BOOLEAN]]
           /\ published \in 0..MaxPublishes /\ completed \subseteq Messages
  BY DEF TokioInv, TaskTypeOK, TokioTypeOK

\* What is on its way to the client stays there when a packet is added.
LEMMA PingrespStays ==
    ASSUME TokioInv, ClientUnchanged, alive' => alive, open' => open,
           NEW more \in Seq(ToClientPackets), toClient' = toClient \o more,
           toServer' = toServer
    PROVE  PingrespRecorded'
<1>1. UNCHANGED <<pingreqSentAt, dropped>>
  BY DEF ClientUnchanged, taskVars, lossVars, sessionVars, kaVars
<1>2. toClient \in Seq(ToClientPackets)
  BY TaskTypes
<1>3. \A i \in DOMAIN toClient : i \in DOMAIN toClient' /\ toClient'[i] = toClient[i]
  <2>1. /\ Len(toClient) \in Nat /\ Len(more) \in Nat
        /\ DOMAIN toClient = 1..Len(toClient)
        /\ toClient' \in Seq(ToClientPackets)
        /\ Len(toClient') = Len(toClient) + Len(more)
        /\ \A i \in 1..Len(toClient) : toClient'[i] = toClient[i]
    BY <1>2, ConcatProperties, LenProperties
  <2>2. DOMAIN toClient' = 1..(Len(toClient) + Len(more))
    BY <2>1, LenProperties
  <2> QED
    BY <2>1, <2>2
<1> QED
  BY <1>1, <1>3 DEF TokioInv, PingTracked, PingrespRecorded

\* The packets of the server but for PUBLISH
LEMMA AckTyped ==
    ASSUME NEW type \in AckTypes, NEW id \in 0..U16Max, NEW ok \in BOOLEAN
    PROVE  [Packet(type, id) EXCEPT !.ok = ok] \in ToClientPackets
<1>1. 0 \in 0..MaxPublishes
  BY TokioAssumption
<1>2. [Packet(type, id) EXCEPT !.ok = ok]
         = [type |-> type, id |-> id, qos |-> "AtMostOnce", msg |-> 0, ok |-> ok]
  BY DEF Packet
<1>3. [Packet(type, id) EXCEPT !.ok = ok] \in PacketsOf(ToClientTypes)
  BY <1>1, <1>2 DEF PacketsOf, QoSLevels, ToClientTypes
<1> QED
  BY <1>2, <1>3 DEF ToClientPackets, AckTypes

LEMMA PlainPacketTyped ==
    ASSUME NEW type \in ToClientTypes \ {"Publish"}, NEW id \in 0..U16Max,
           type = "Pubrel" => id # 0, type = "Pingresp" => id = 0
    PROVE  Packet(type, id) \in ToClientPackets
<1>1. 0 \in 0..MaxPublishes
  BY TokioAssumption
<1>2. Packet(type, id) \in PacketsOf(ToClientTypes)
  BY <1>1 DEF Packet, PacketsOf, QoSLevels
<1>3. Packet(type, id).type = type /\ Packet(type, id).id = id
  BY DEF Packet
<1> QED
  BY <1>2, <1>3 DEF ToClientPackets

LEMMA AnswersTyped ==
    ASSUME NEW p \in ToServerPackets, NEW answer \in Answers(p)
    PROVE  /\ answer \in Seq(ToClientPackets)
           /\ p.type = "Pingreq" => answer = <<Packet("Pingresp", 0)>>
<1>1. /\ p.type \in ToServerTypes /\ p.id \in 0..U16Max
      /\ p.type \in AnswerTypes => p.id # 0
  BY DEF ToServerPackets, PacketsOf
<1>2. 0 \in 0..U16Max
  BY U16MaxAssumption
<1>3. << >> \in Seq(ToClientPackets) /\ \A q \in ToClientPackets : <<q>> \in Seq(ToClientPackets)
  OBVIOUS
<1>4. \A type \in {"Puback", "Pubcomp", "Unsuback"} : Packet(type, p.id) \in ToClientPackets
  BY <1>1, PlainPacketTyped DEF ToClientTypes, AckTypes
<1>5. Packet("Connack", 0) \in ToClientPackets /\ Packet("Pingresp", 0) \in ToClientPackets
  BY <1>2, PlainPacketTyped DEF ToClientTypes, AckTypes
<1>6. p.type = "Pubrec" => Packet("Pubrel", p.id) \in ToClientPackets
  BY <1>1, PlainPacketTyped DEF ToClientTypes, AnswerTypes
<1>7. \A type \in {"Pubrec", "Suback"}, b \in BOOLEAN :
         [Packet(type, p.id) EXCEPT !.ok = b] \in ToClientPackets
  BY <1>1, AckTyped DEF AckTypes
<1>8. CASE p.type = "Publish"
  BY <1>3, <1>4, <1>7, <1>8 DEF Answers
<1>9. CASE p.type \in {"Connect", "Pubrel", "Unsubscribe", "Pingreq", "Pubrec"}
  BY <1>3, <1>4, <1>5, <1>6, <1>9 DEF Answers
<1>10. CASE p.type = "Subscribe"
  BY <1>3, <1>7, <1>10 DEF Answers
<1>11. CASE p.type \in {"Puback", "Pubcomp", "Disconnect"}
  BY <1>3, <1>11 DEF Answers
<1> QED
  BY <1>1, <1>8, <1>9, <1>10, <1>11 DEF ToServerTypes, AnswerTypes

LEMMA ServerHandlesInv ==
    ASSUME TokioInv, ServerHandles, setting' = setting
    PROVE  TokioInv'
<1> DEFINE p == Head(toServer)
<1>1. /\ alive = TRUE /\ open = TRUE /\ toServer # << >> /\ toServer' = Tail(toServer)
      /\ open' = (p.type # "Disconnect") /\ UNCHANGED <<alive, quietSince, published>>
      /\ ClientUnchanged
      /\ toServer \in Seq(ToServerPackets) /\ toClient \in Seq(ToClientPackets)
  BY TaskTypes DEF ServerHandles
<1>2. PICK answer \in Answers(p) : toClient' = toClient \o answer
  BY DEF ServerHandles
<1>3. /\ p \in ToServerPackets /\ p = toServer[1] /\ Tail(toServer) \in Seq(ToServerPackets)
  BY <1>1, HeadTailProperties
<1>4. /\ answer \in Seq(ToClientPackets)
      /\ p.type = "Pingreq" => answer = <<Packet("Pingresp", 0)>>
  BY <1>3, AnswersTyped
<1>5. toClient' \in Seq(ToClientPackets)
  BY <1>1, <1>2, <1>4, ConcatProperties
<1>6. p.type \in AnswerTypes => p.id \in PacketIds
  BY <1>3, U16MaxAssumption DEF ToServerPackets, PacketsOf, PacketIds
<1>7. serverFlow' \in [PacketIds ->
          [qos : QoSLevels, msg : 0..MaxPublishes, released : BOOLEAN]]
  <2>1. NoServerFlow \in [qos : QoSLevels, msg : 0..MaxPublishes, released : BOOLEAN]
    BY TokioAssumption DEF NoServerFlow, QoSLevels
  <2>2. CASE p.type \in {"Puback", "Pubcomp"}
    BY <1>6, <2>1, <2>2, ServerTypes DEF ServerHandles, AnswerTypes
  <2>3. CASE p.type = "Pubrec"
    <3>1. serverFlow' = [serverFlow EXCEPT ![p.id].released = TRUE] /\ p.id \in PacketIds
      BY <1>6, <2>3 DEF ServerHandles, AnswerTypes
    <3>2. [serverFlow[p.id] EXCEPT !.released = TRUE]
             \in [qos : QoSLevels, msg : 0..MaxPublishes, released : BOOLEAN]
      BY <3>1, ServerTypes
    <3> QED
      BY <3>1, <3>2, ServerTypes
  <2>4. CASE p.type \notin {"Puback", "Pubcomp", "Pubrec"}
    BY <2>4, ServerTypes DEF ServerHandles
  <2> QED
    BY <2>2, <2>3, <2>4
<1>8. completed' \subseteq Messages
  <2>1. CASE p.type = "Pubcomp" /\ serverFlow[p.id].msg # 0
    <3>1. serverFlow[p.id].msg \in 0..MaxPublishes
      BY <1>6, <2>1, ServerTypes DEF AnswerTypes
    <3>2. serverFlow[p.id].msg \in Messages
      BY <2>1, <3>1, TokioAssumption DEF Messages
    <3> QED
      BY <2>1, <3>2, ServerTypes DEF ServerHandles
  <2>2. CASE ~(p.type = "Pubcomp" /\ serverFlow[p.id].msg # 0)
    BY <2>2, ServerTypes DEF ServerHandles
  <2> QED
    BY <2>1, <2>2
<1>9. PingrespRecorded'
  <2>1. UNCHANGED <<pingreqSentAt, dropped>>
    BY <1>1 DEF ClientUnchanged, taskVars, lossVars, sessionVars, kaVars
  <2> SUFFICES ASSUME pingreqSentAt # None
               PROVE  \/ \E i \in DOMAIN toServer' : toServer'[i].type = "Pingreq"
                      \/ \E i \in DOMAIN toClient' : toClient'[i].type = "Pingresp"
                      \/ Packet("Pingresp", 0) \in dropped
    BY <2>1 DEF PingrespRecorded
  <2>2. /\ Len(toClient) \in Nat /\ Len(answer) \in Nat
        /\ DOMAIN toClient = 1..Len(toClient)
        /\ Len(toClient') = Len(toClient) + Len(answer)
        /\ \A i \in 1..(Len(toClient) + Len(answer)) :
              toClient'[i] = IF i <= Len(toClient) THEN toClient[i]
                             ELSE answer[i - Len(toClient)]
    BY <1>1, <1>2, <1>4, ConcatProperties, LenProperties
  <2>3. DOMAIN toClient' = 1..(Len(toClient) + Len(answer))
    BY <1>5, <2>2, LenProperties
  <2>4. \/ \E i \in DOMAIN toServer : toServer[i].type = "Pingreq"
        \/ \E i \in DOMAIN toClient : toClient[i].type = "Pingresp"
        \/ Packet("Pingresp", 0) \in dropped
    BY <1>1 DEF TokioInv, PingTracked, PingrespRecorded
  <2>5. CASE \E i \in DOMAIN toServer : toServer[i].type = "Pingreq"
    <3>1. PICK i \in DOMAIN toServer : toServer[i].type = "Pingreq"
      BY <2>5
    <3>2. CASE i = 1
      <4>1. answer = <<Packet("Pingresp", 0)>>
        BY <1>3, <1>4, <3>1, <3>2
      <4>2. Len(answer) = 1 /\ answer[1].type = "Pingresp"
        BY <4>1 DEF Packet
      <4>3. /\ Len(toClient) + 1 \in DOMAIN toClient'
            /\ toClient'[Len(toClient) + 1] = answer[1]
        BY <2>2, <2>3, <4>2
      <4> QED
        BY <4>2, <4>3
    <3>3. CASE i # 1
      <4>1. i - 1 \in DOMAIN Tail(toServer) /\ Tail(toServer)[i - 1] = toServer[i]
        BY <1>1, <3>3, TailKeeps
      <4> QED
        BY <1>1, <3>1, <4>1
    <3> QED
      BY <3>2, <3>3
  <2>6. CASE \E i \in DOMAIN toClient : toClient[i].type = "Pingresp"
    <3>1. \A i \in DOMAIN toClient : i \in DOMAIN toClient' /\ toClient'[i] = toClient[i]
      BY <2>2, <2>3
    <3> QED
      BY <2>6, <3>1
  <2> QED
    BY <2>4, <2>5, <2>6
<1>10. open' \in BOOLEAN /\ alive' /\ alive' \in BOOLEAN
  BY <1>1, TaskTypes
<1> QED
  BY <1>1, <1>3, <1>5, <1>7, <1>8, <1>9, <1>10, ServerTypes, ServerInv

LEMMA ServerPublishesInv ==
    ASSUME TokioInv, NEW qos \in QoSLevels, NEW id \in PacketIds, ServerPublishes(qos, id),
           setting' = setting
    PROVE  TokioInv'
<1>1. /\ alive = TRUE /\ ClientUnchanged
      /\ published < MaxPublishes /\ published' = published + 1
      /\ UNCHANGED <<alive, quietSince, completed, toServer, open>>
      /\ toClient' = Append(toClient, PublishPacket(qos, id, published'))
  BY TaskTypes DEF ServerPublishes
<1>2. published' \in 0..MaxPublishes /\ published' # 0
  BY <1>1, ServerTypes, TokioAssumption
<1>3. id \in 0..U16Max /\ id # 0
  BY U16MaxAssumption DEF PacketIds
<1>4. PublishPacket(qos, id, published') \in ToClientPackets
  BY <1>2, <1>3 DEF PublishPacket, ToClientPackets, PacketsOf, ToClientTypes
<1>5. toClient' \in Seq(ToClientPackets) /\ toClient \in Seq(ToClientPackets)
  BY <1>1, <1>4, TaskTypes, AppendProperties
<1>6. /\ toClient' = toClient \o <<PublishPacket(qos, id, published')>>
      /\ <<PublishPacket(qos, id, published')>> \in Seq(ToClientPackets)
  BY <1>1, <1>4, <1>5, AppendIsConcat
<1>7. PingrespRecorded'
  BY <1>1, <1>6, PingrespStays
<1>8. serverFlow' \in [PacketIds ->
          [qos : QoSLevels, msg : 0..MaxPublishes, released : BOOLEAN]]
  BY <1>1, <1>2, ServerTypes DEF ServerPublishes
<1> QED
  BY <1>1, <1>2, <1>5, <1>7, <1>8, TaskTypes, ServerTypes, ServerInv

LEMMA ServerStreamsInv ==
    ASSUME TokioInv, ServerStreams, setting' = setting
    PROVE  TokioInv'
<1> DEFINE q == PublishPacket("AtMostOnce", 0, 0)
<1>1. /\ alive = TRUE /\ ClientUnchanged
      /\ UNCHANGED <<alive, quietSince, serverFlow, published, completed, toServer, open>>
      /\ toClient' = Append(toClient, q)
  BY TaskTypes DEF ServerStreams, serverVars
<1>2. 0 \in 0..U16Max /\ 0 \in 0..MaxPublishes
  BY U16MaxAssumption, TokioAssumption
<1>3. q \in ToClientPackets
  BY <1>2 DEF PublishPacket, ToClientPackets, PacketsOf, ToClientTypes, QoSLevels
<1>4. toClient' \in Seq(ToClientPackets) /\ toClient \in Seq(ToClientPackets)
  BY <1>1, <1>3, TaskTypes, AppendProperties
<1>5. toClient' = toClient \o <<q>> /\ <<q>> \in Seq(ToClientPackets)
  BY <1>1, <1>3, <1>4, AppendIsConcat
<1>6. PingrespRecorded'
  BY <1>1, <1>5, PingrespStays
<1> QED
  BY <1>1, <1>4, <1>6, TaskTypes, ServerTypes, ServerInv

LEMMA ServerRepeatsInv ==
    ASSUME TokioInv, NEW id \in PacketIds, ServerRepeats(id), setting' = setting
    PROVE  TokioInv'
<1> DEFINE q == PublishPacket(serverFlow[id].qos, id, serverFlow[id].msg)
<1>1. /\ alive = TRUE /\ ClientUnchanged /\ serverFlow[id].msg # 0
      /\ UNCHANGED <<alive, quietSince, serverFlow, published, completed, toServer, open>>
      /\ toClient' = Append(toClient, q)
  BY TaskTypes DEF ServerRepeats
<1>2. serverFlow[id].qos \in QoSLevels /\ serverFlow[id].msg \in 0..MaxPublishes
  BY ServerTypes
<1>3. id \in 0..U16Max /\ id # 0
  BY U16MaxAssumption DEF PacketIds
<1>4. q \in ToClientPackets
  BY <1>1, <1>2, <1>3 DEF PublishPacket, ToClientPackets, PacketsOf, ToClientTypes
<1>5. toClient' \in Seq(ToClientPackets) /\ toClient \in Seq(ToClientPackets)
  BY <1>1, <1>4, TaskTypes, AppendProperties
<1>6. toClient' = toClient \o <<q>> /\ <<q>> \in Seq(ToClientPackets)
  BY <1>1, <1>4, <1>5, AppendIsConcat
<1>7. PingrespRecorded'
  BY <1>1, <1>6, PingrespStays
<1> QED
  BY <1>1, <1>5, <1>7, TaskTypes, ServerTypes, ServerInv

LEMMA ServerLeavesInv ==
    ASSUME TokioInv, ServerLeaves, setting' = setting
    PROVE  TokioInv'
<1>1. /\ alive = TRUE /\ ClientUnchanged /\ open' = FALSE
      /\ UNCHANGED <<alive, quietSince, serverFlow, published, completed, toServer>>
      /\ toClient' = Append(toClient, Packet("Disconnect", 0))
  BY TaskTypes DEF ServerLeaves, serverVars
<1>2. 0 \in 0..U16Max /\ "Disconnect" \in ToClientTypes \ {"Publish"}
  BY U16MaxAssumption DEF ToClientTypes
<1>3. Packet("Disconnect", 0) \in ToClientPackets
  BY <1>2, PlainPacketTyped
<1>4. toClient' \in Seq(ToClientPackets)
  BY <1>1, <1>3, TaskTypes, AppendProperties
<1>5. PingrespRecorded'
  BY <1>1 DEF PingrespRecorded
<1> QED
  BY <1>1, <1>4, <1>5, TaskTypes, ServerTypes, ServerInv

LEMMA ServerDiesInv ==
    ASSUME TokioInv, ServerDies, setting' = setting
    PROVE  TokioInv'
<1>1. /\ ClientUnchanged /\ alive' = FALSE /\ quietSince' = now
      /\ UNCHANGED <<serverFlow, published, completed, toServer, toClient, open>>
  BY DEF ServerDies, wireVars
<1>2. PingrespRecorded'
  BY <1>1 DEF PingrespRecorded
<1> QED
  BY <1>1, <1>2, TaskTypes, ServerTypes, ServerInv

LEMMA BreakInv ==
    ASSUME TokioInv, Break, setting' = setting
    PROVE  TokioInv'
<1>1. /\ ClientUnchanged /\ open' = FALSE /\ toClient' \in {toClient, << >>}
      /\ UNCHANGED <<alive, quietSince, serverFlow, published, completed, toServer>>
  BY DEF Break, serverVars
<1>2. toClient' \in Seq(ToClientPackets)
  <2>1. toClient \in Seq(ToClientPackets) /\ << >> \in Seq(ToClientPackets)
    BY TaskTypes
  <2> QED
    BY <1>1, <2>1
<1>3. PingrespRecorded'
  BY <1>1 DEF PingrespRecorded
<1> QED
  BY <1>1, <1>2, <1>3, TaskTypes, ServerTypes, ServerInv

\* Time passes only while a read waits or no call is under way.
LEMMA TickInv ==
    ASSUME TokioInv, Tick, setting' = setting
    PROVE  TokioInv'
<1>1. /\ ~Busy /\ now' = now + 1 /\ UNCHANGED sessionVars
      /\ UNCHANGED <<call, reading, wake, out, unsettled, dropped, forgotten, calls>>
      /\ UNCHANGED <<alive, quietSince, serverFlow, published, completed, toServer,
                     toClient, open, delivered>>
  BY DEF Tick, taskVars, lossVars, serverVars, wireVars
<1>2. /\ out = NoWrite /\ (call.at # "Idle" => reading)
      /\ reading => toClient = << >> /\ now < wake
  BY <1>1, TaskTypes DEF Busy
<1>3. SessionQuiet /\ inUse' = inUse
  BY <1>1, TaskTypes, SessionUntouched
<1>4. /\ SessionTypeOK' /\ UNCHANGED <<keepAliveSecs, lastActivity, pingreqSentAt>>
      /\ Limit' = Limit /\ Since' = Since
  BY <1>3, LimitKept DEF SessionQuiet, kaVars, Since
<1>5. now' \in Nat /\ now <= now'
  BY <1>1, TaskTypes
<1>6. TaskTypeOK'
  BY <1>1, <1>4, <1>5, TaskTypes, TypesKept DEF TokioInv, TaskTypeOK
<1>7. WriteOK' /\ Settled'
  BY <1>1, <1>3, <1>4 DEF TokioInv, WriteOK, Settled
<1>8. PingTracked'
  BY <1>1, <1>4 DEF TokioInv, PingTracked, PingrespRecorded
<1>9. reading => now' <= wake
  BY <1>1, <1>2, TaskTypes
<1>10. Timers'
  <2>1. call.at \notin Registering
    BY <1>2, AwaitKinds DEF TokioInv, Timers, Registering
  <2>2. lastActivity' <= now' /\ quietSince' <= now'
    BY <1>1, <1>4, LoopFacts
  <2> QED
    BY <1>1, <1>4, <1>9, <2>1, <2>2 DEF TokioInv, Timers
<1>11. DeathNoticed'
  <2> SUFFICES ASSUME call.at \in Looping, ~alive, keepAliveSecs # 0
               PROVE  /\ toClient = << >> /\ out = NoWrite
                      /\ pingreqSentAt = None =>
                            lastActivity <= quietSince /\ now' <= quietSince + Limit
                      /\ pingreqSentAt # None =>
                            /\ pingreqSentAt <= quietSince + Limit
                            /\ now' <= pingreqSentAt + Limit
    BY <1>1, <1>4 DEF DeathNoticed
  <2>1. reading /\ toClient = << >>
    BY <1>2, AwaitKinds
  <2>2. now' <= Since + Limit
    <3>1. wake <= Since + Limit /\ wake \in Nat
      BY <2>1, TaskTypes DEF TokioInv, Timers
    <3> QED
      BY <1>5, <1>9, <2>1, <3>1, LimitType
  <2>3. pingreqSentAt = None => lastActivity <= quietSince
    <3>1. CASE now = quietSince
      BY <3>1, LoopFacts
    <3>2. CASE now # quietSince
      BY <3>2 DEF TokioInv, DeathNoticed
    <3> QED
      BY <3>1, <3>2
  <2>4. pingreqSentAt # None => pingreqSentAt <= quietSince + Limit
    <3>1. CASE now = quietSince
      BY <3>1, LoopFacts
    <3>2. CASE now # quietSince
      BY <3>2 DEF TokioInv, DeathNoticed
    <3> QED
      BY <3>1, <3>2
  <2>5. pingreqSentAt = None => now' <= quietSince + Limit
    BY <1>5, <2>2, <2>3, LoopFacts DEF Since
  <2>6. pingreqSentAt # None => now' <= pingreqSentAt + Limit
    BY <2>2 DEF Since
  <2> QED
    BY <1>2, <2>1, <2>3, <2>4, <2>5, <2>6
<1> QED
  BY <1>6, <1>7, <1>8, <1>10, <1>11 DEF TokioInv

-----------------------------------------------------------------------------
(***************************************************************************)
(* A message is given to the application once                              *)
(***************************************************************************)

\* The PUBLISH of message m
Carries(p, m) == p.type = "Publish" /\ p.msg = m

\* A packet after which the session no longer knows a QoS 2 flow with identifier id
Removes(p, id) ==
    /\ p.id = id
    /\ p.type = "Pubrel" \/ (p.type = "Publish" /\ p.qos = "AtLeastOnce")

\* The message is kept by recv_publish, or is given once a write is done.
InHand(m) == call.msg = m \/ out.msg = m

GivenTo(m) == delivered[m] > 0 \/ InHand(m)

\* The server has a QoS 2 message in flight, and no abort_publish has ended it.
Pending(id) ==
    /\ serverFlow[id].msg # 0 /\ serverFlow[id].msg \notin forgotten
    /\ serverFlow[id].qos = "ExactlyOnce"

\* Messages are numbered as they are published, and a PUBLISH agrees with the
\* flow it belongs to.
Numbered ==
    /\ \A m \in Messages : GivenTo(m) => m <= published
    /\ \A i \in DOMAIN toClient : toClient[i].type = "Publish" => toClient[i].msg <= published
    /\ \A id \in PacketIds : serverFlow[id].msg <= published
    /\ \A id, other \in PacketIds :
          serverFlow[id].msg = serverFlow[other].msg /\ serverFlow[id].msg # 0 => id = other
    /\ \A i \in DOMAIN toClient, id \in PacketIds :
          serverFlow[id].msg # 0 /\ Carries(toClient[i], serverFlow[id].msg) =>
              toClient[i].id = id /\ toClient[i].qos = serverFlow[id].qos

\* recv_publish keeps a message from the PUBLISH to the PUBCOMP that it writes.
MessageKept ==
    call.msg # 0 =>
        \/ /\ call.at = "AwaitPubrel"
           /\ \/ out = NoWrite
              \/ out.msg = 0 /\ out.then = "AwaitPubrel"
              \/ out.msg = call.msg /\ out.then = "Idle"
        \/ /\ call.at = "RecvPublish" /\ out # NoWrite
           /\ out.then = "AwaitPubrel" /\ out.msg = 0

\* Nothing is published before the CONNACK, and there is one call of connect.
Unconnected ==
    /\ calls = 0 => connectionState = "Disconnected" /\ call.at = "Idle" /\ published = 0
    /\ call.at \in {"Configured", "AwaitConnack"} =>
          connectionState # "Connected" /\ published = 0

\* The message of the flow is given once, and is not kept as well.
GivenOnce(id) ==
    /\ delivered[serverFlow[id].msg] <= 1
    /\ InHand(serverFlow[id].msg) => delivered[serverFlow[id].msg] = 0

\* Whatever PUBLISH of a message that was given is on its way, or may still be
\* sent, meets the flow that its first PUBLISH opened.
KnownAgain(id) ==
    GivenTo(serverFlow[id].msg) =>
        /\ \A j \in DOMAIN toClient : Carries(toClient[j], serverFlow[id].msg) =>
              /\ incoming[id] = "AwaitingPubrel"
              /\ \A k \in 1..(j - 1) : ~Removes(toClient[k], id)
        /\ ~serverFlow[id].released =>
              /\ incoming[id] = "AwaitingPubrel"
              /\ \A k \in DOMAIN toClient : ~Removes(toClient[k], id)

\* Nothing that ends the flow is sent between two PUBLISHes of its message.
Uninterrupted(id) ==
    \A i \in DOMAIN toClient : Carries(toClient[i], serverFlow[id].msg) =>
        /\ \A j \in DOMAIN toClient : Carries(toClient[j], serverFlow[id].msg) =>
              \A k \in (i + 1)..(j - 1) : ~Removes(toClient[k], id)
        /\ ~serverFlow[id].released =>
              \A k \in DOMAIN toClient : k > i => ~Removes(toClient[k], id)

FlowOnce(id) == GivenOnce(id) /\ KnownAgain(id) /\ Uninterrupted(id)

OnceInv ==
    /\ Numbered /\ MessageKept /\ Unconnected
    /\ \A id \in PacketIds : Pending(id) => FlowOnce(id)

\* Flows that were ended by abort_publish are not known again.
Lasting == forgotten \subseteq forgotten'

-----------------------------------------------------------------------------
(***************************************************************************)
(* What a step of the task does to flows and messages                      *)
(***************************************************************************)

TakesHead == toClient # << >> /\ toClient' = Tail(toClient)

\* A flow stays but for a packet that ends it, or an abort_publish.
FlowsKept ==
    \A id \in PacketIds : incoming[id] = "AwaitingPubrel" =>
        \/ incoming'[id] = "AwaitingPubrel"
        \/ TakesHead /\ Removes(Head(toClient), id)
        \/ serverFlow[id].msg \in forgotten'

\* The message stays where it is, or is lost.
Stays(m) == delivered'[m] = delivered[m] /\ (InHand(m)' => InHand(m))

\* The message that was kept is given.
Passes(m) == delivered'[m] = delivered[m] + 1 /\ InHand(m) /\ ~InHand(m)'

\* The PUBLISH of the message is read.
Arrives(m) ==
    /\ TakesHead /\ Carries(Head(toClient), m)
    /\ Head(toClient).qos = "ExactlyOnce" =>
          /\ ~HasIncoming(Head(toClient).id)
          /\ incoming'[Head(toClient).id] = "AwaitingPubrel"
          /\ delivered'[m] = delivered[m]

TaskEffect ==
    /\ toClient' = toClient \/ TakesHead
    /\ UNCHANGED <<serverFlow, published>>
    /\ FlowsKept
    /\ \A m \in Messages : Stays(m) \/ Passes(m) \/ Arrives(m)

\* A queue without its first packet
LEMMA TailAt ==
    ASSUME NEW S, NEW queue \in Seq(S), queue # << >>
    PROVE  /\ Tail(queue) # queue /\ 1 \in DOMAIN queue /\ Head(queue) = queue[1]
           /\ \A i \in DOMAIN Tail(queue) :
                 i \in Nat /\ i + 1 \in DOMAIN queue /\ Tail(queue)[i] = queue[i + 1]
<1>1. /\ Len(queue) \in Nat \ {0} /\ DOMAIN queue = 1..Len(queue)
      /\ Tail(queue) \in Seq(S) /\ Len(Tail(queue)) = Len(queue) - 1
      /\ \A j \in 1..(Len(queue) - 1) : Tail(queue)[j] = queue[j + 1]
      /\ Head(queue) = queue[1]
  BY LenProperties, HeadTailProperties, EmptySeq
<1>2. DOMAIN Tail(queue) = 1..(Len(queue) - 1)
  BY <1>1, LenProperties
<1>3. ASSUME NEW n \in Nat, NEW k \in Nat, k = n - 1 PROVE k # n
  BY <1>3
<1>4. Tail(queue) # queue
  BY <1>1, <1>3, LenProperties
<1>5. \A i \in 1..(Len(queue) - 1) : i \in Nat /\ i + 1 \in 1..Len(queue)
  BY <1>1
<1>6. 1 \in 1..Len(queue)
  BY <1>1
<1>7. \A i \in DOMAIN Tail(queue) :
         i \in Nat /\ i + 1 \in DOMAIN queue /\ Tail(queue)[i] = queue[i + 1]
  BY <1>1, <1>2, <1>5, Zenon
<1>8. 1 \in DOMAIN queue
  BY <1>1, <1>6, Zenon
<1> QED
  BY <1>1, <1>4, <1>7, <1>8, Zenon

\* What the queue says of each of its packets, it says of those that are left.
LEMMA QueueTyped ==
    ASSUME TokioInv
    PROVE  /\ toClient \in Seq(ToClientPackets)
           /\ \A i \in DOMAIN toClient : i \in Nat /\ i >= 1 /\ toClient[i] \in ToClientPackets
           /\ serverFlow \in [PacketIds ->
                 [qos : QoSLevels, msg : 0..MaxPublishes, released : BOOLEAN]]
           /\ published \in 0..MaxPublishes /\ MaxPublishes \in Nat
           /\ delivered \in [Messages -> Nat] /\ Messages = 1..MaxPublishes
           /\ incoming \in [PacketIds -> IncomingStates \cup {"None"}]
           /\ call.msg \in 0..MaxPublishes /\ out.msg \in 0..MaxPublishes
<1>1. toClient \in Seq(ToClientPackets) /\ SessionTypeOK /\ call \in Calls
      /\ delivered \in [Messages -> Nat] /\ (out = NoWrite \/ out \in Writes)
  BY TaskTypes
<1>2. \A i \in DOMAIN toClient : i \in Nat /\ i >= 1 /\ toClient[i] \in ToClientPackets
  <2>1. DOMAIN toClient = 1..Len(toClient) /\ Len(toClient) \in Nat
    BY <1>1, LenProperties
  <2> QED
    BY <1>1, <2>1, ElementOfSeq
<1>3. QosTypeOK
  BY <1>1 DEF SessionTypeOK
<1>4. call.msg \in 0..MaxPublishes /\ out.msg \in 0..MaxPublishes
  <2>1. NoWrite.msg = 0 /\ 0 \in 0..MaxPublishes
    BY TokioAssumption DEF NoWrite, Writing
  <2> QED
    BY <1>1, <2>1 DEF Calls, Writes
<1> QED
  BY <1>1, <1>2, <1>3, <1>4, TokioAssumption DEF TokioInv, TaskTypeOK, TokioTypeOK,
     QosTypeOK, Messages

\* The message of a flow that is pending
LEMMA PendingMessage ==
    ASSUME TokioInv, NEW id \in PacketIds, Pending(id)
    PROVE  /\ serverFlow[id].msg \in Messages /\ serverFlow[id].qos = "ExactlyOnce"
           /\ delivered[serverFlow[id].msg] \in Nat
<1>1. /\ serverFlow[id] \in [qos : QoSLevels, msg : 0..MaxPublishes, released : BOOLEAN]
      /\ Messages = 1..MaxPublishes /\ MaxPublishes \in Nat /\ delivered \in [Messages -> Nat]
  BY QueueTyped
<1>2. serverFlow[id].msg \in Messages
  BY <1>1 DEF Pending
<1> QED
  BY <1>1, <1>2 DEF Pending

\* A step of the task keeps the numbering.
LEMMA NumberedKept ==
    ASSUME TokioInv, OnceInv,
           toClient' = toClient \/ TakesHead, UNCHANGED <<serverFlow, published>>,
           \A m \in Messages : Stays(m) \/ Passes(m) \/ Arrives(m)
    PROVE  Numbered'
<1>1. /\ toClient \in Seq(ToClientPackets) /\ UNCHANGED <<serverFlow, published>>
      /\ Numbered
  BY QueueTyped DEF OnceInv
<1>2. \A i \in DOMAIN toClient' : \E j \in DOMAIN toClient : toClient'[i] = toClient[j]
  BY <1>1, TailAt DEF TakesHead
<1>3. ASSUME NEW m \in Messages, GivenTo(m)'
      PROVE  m <= published
  <2>1. CASE Stays(m) \/ Passes(m)
    <3>1. GivenTo(m)
      BY <1>3, <2>1 DEF Stays, Passes, GivenTo
    <3> QED
      BY <1>1, <3>1 DEF Numbered
  <2>2. CASE Arrives(m)
    <3>1. 1 \in DOMAIN toClient /\ Carries(toClient[1], m)
      BY <1>1, <2>2, TailAt DEF Arrives, TakesHead
    <3> QED
      BY <1>1, <3>1 DEF Numbered, Carries
  <2> QED
    BY <2>1, <2>2
<1>4. \A i \in DOMAIN toClient' : toClient'[i].type = "Publish" => toClient'[i].msg <= published
  BY <1>1, <1>2 DEF Numbered
<1>5. \A i \in DOMAIN toClient', id \in PacketIds :
          serverFlow[id].msg # 0 /\ Carries(toClient'[i], serverFlow[id].msg) =>
              toClient'[i].id = id /\ toClient'[i].qos = serverFlow[id].qos
  BY <1>1, <1>2 DEF Numbered
<1> QED
  BY <1>1, <1>3, <1>4, <1>5 DEF Numbered

\* Positions in a queue without its first packet
LEMMA TailPositions ==
    ASSUME NEW S, NEW queue \in Seq(S), queue # << >>
    PROVE  /\ \A i \in DOMAIN Tail(queue) : i \in Nat /\ i >= 1
           /\ \A j \in DOMAIN Tail(queue) : \A k \in 1..(j - 1) : k \in DOMAIN Tail(queue)
<1>1. Tail(queue) \in Seq(S)
  BY HeadTailProperties
<1>2. DOMAIN Tail(queue) = 1..Len(Tail(queue)) /\ Len(Tail(queue)) \in Nat
  BY <1>1, LenProperties
<1> QED
  BY <1>2

\* PUBLISHes that follow each other do so when the head of the queue is taken.
LEMMA UninterruptedTail ==
    ASSUME NEW id \in PacketIds, Uninterrupted(id),
           toClient \in Seq(ToClientPackets), TakesHead, serverFlow' = serverFlow
    PROVE  Uninterrupted(id)'
<1> DEFINE m == serverFlow[id].msg
           q == toClient
<1>1. /\ q \in Seq(ToClientPackets) /\ q # << >> /\ toClient' = Tail(q)
  BY DEF TakesHead
<1>2. \A i \in DOMAIN Tail(q) : i \in Nat /\ i + 1 \in DOMAIN q /\ Tail(q)[i] = q[i + 1]
  BY <1>1, TailAt
<1>3. /\ \A i \in DOMAIN Tail(q) : i \in Nat /\ i >= 1
      /\ \A j \in DOMAIN Tail(q) : \A k \in 1..(j - 1) : k \in DOMAIN Tail(q)
  BY <1>1, TailPositions
<1>4. ASSUME NEW i \in DOMAIN Tail(q), NEW j \in DOMAIN Tail(q), NEW k \in (i + 1)..(j - 1),
             Carries(Tail(q)[i], m), Carries(Tail(q)[j], m)
      PROVE  ~Removes(Tail(q)[k], id)
  <2>1. i \in Nat /\ j \in Nat /\ k \in Nat /\ k \in 1..(j - 1)
    BY <1>3
  <2>2. k \in DOMAIN Tail(q)
    BY <1>3, <2>1
  <2>3. k + 1 \in ((i + 1) + 1)..((j + 1) - 1)
    BY <2>1
  <2>4. Carries(q[i + 1], m) /\ Carries(q[j + 1], m) /\ i + 1 \in DOMAIN q /\ j + 1 \in DOMAIN q
    BY <1>2, <1>4
  <2>5. ~Removes(q[k + 1], id)
    BY <2>3, <2>4 DEF Uninterrupted
  <2> QED
    BY <1>2, <2>2, <2>5
<1>5. ASSUME NEW i \in DOMAIN Tail(q), NEW k \in DOMAIN Tail(q), k > i,
             Carries(Tail(q)[i], m), ~serverFlow[id].released
      PROVE  ~Removes(Tail(q)[k], id)
  <2>1. k + 1 > i + 1
    BY <1>3, <1>5
  <2>2. i + 1 \in DOMAIN q /\ k + 1 \in DOMAIN q /\ Carries(q[i + 1], m)
    BY <1>2, <1>5
  <2>3. ~Removes(q[k + 1], id)
    BY <1>5, <2>1, <2>2 DEF Uninterrupted
  <2> QED
    BY <1>2, <2>3
<1> QED
  BY <1>1, <1>4, <1>5 DEF Uninterrupted

\* The PUBLISH of a pending message is read for the first time.
LEMMA ArrivesOnce ==
    ASSUME TokioInv, TokioInv', OnceInv, Lasting, TaskEffect, NEW id \in PacketIds, Pending(id),
           Arrives(serverFlow[id].msg)
    PROVE  FlowOnce(id)'
<1> DEFINE m == serverFlow[id].msg
           q == toClient
<1>1. /\ q \in Seq(ToClientPackets) /\ q # << >> /\ toClient' = Tail(q)
      /\ UNCHANGED <<serverFlow, published>>
      /\ Numbered /\ FlowOnce(id) /\ m \in Messages
      /\ incoming \in [PacketIds -> IncomingStates \cup {"None"}]
  BY QueueTyped, PendingMessage DEF TaskEffect, OnceInv, Arrives, TakesHead
<1>2. /\ 1 \in DOMAIN q /\ Head(q) = q[1]
      /\ \A i \in DOMAIN Tail(q) : i \in Nat /\ i + 1 \in DOMAIN q /\ Tail(q)[i] = q[i + 1]
  BY <1>1, TailAt
<1>3. Carries(q[1], m) /\ q[1].id = id /\ q[1].qos = "ExactlyOnce"
  BY <1>1, <1>2 DEF Arrives, Numbered, Pending
<1>4. /\ incoming[id] = "None" /\ incoming'[id] = "AwaitingPubrel"
      /\ delivered'[m] = delivered[m]
  BY <1>2, <1>3 DEF Arrives, HasIncoming
<1>5. ~GivenTo(m)
  BY <1>1, <1>2, <1>3, <1>4 DEF FlowOnce, KnownAgain
<1>6. delivered'[m] = 0
  BY <1>1, <1>4, <1>5, PendingMessage DEF GivenTo
<1>7. GivenOnce(id)'
  BY <1>1, <1>6 DEF GivenOnce
<1>8. Uninterrupted(id)
  BY <1>1 DEF FlowOnce
<1>9. \A j \in DOMAIN Tail(q) : Carries(Tail(q)[j], m) =>
         \A k \in 1..(j - 1) : ~Removes(Tail(q)[k], id)
  <2> SUFFICES ASSUME NEW j \in DOMAIN Tail(q), Carries(Tail(q)[j], m),
                      NEW k \in 1..(j - 1), Removes(Tail(q)[k], id)
               PROVE  FALSE
    OBVIOUS
  <2>1. j \in Nat /\ j + 1 \in DOMAIN q /\ Carries(q[j + 1], m)
    BY <1>2
  <2>2. k \in DOMAIN Tail(q)
    BY <1>1, TailPositions
  <2>3. Removes(q[k + 1], id)
    BY <1>2, <2>2
  <2>4. k + 1 \in (1 + 1)..((j + 1) - 1)
    BY <2>1
  <2> QED
    BY <1>2, <1>3, <1>8, <2>1, <2>3, <2>4 DEF Uninterrupted
<1>10. ASSUME ~serverFlow[id].released
       PROVE  \A k \in DOMAIN Tail(q) : ~Removes(Tail(q)[k], id)
  <2>1. \A k \in DOMAIN q : k > 1 => ~Removes(q[k], id)
    BY <1>2, <1>3, <1>8, <1>10 DEF Uninterrupted
  <2>2. \A k \in DOMAIN Tail(q) : k + 1 > 1
    BY <1>1, TailPositions
  <2> QED
    BY <1>2, <2>1, <2>2
<1>11. KnownAgain(id)'
  BY <1>1, <1>4, <1>9, <1>10 DEF KnownAgain
<1>12. Uninterrupted(id)'
  BY <1>1, <1>8, UninterruptedTail DEF TakesHead
<1> QED
  BY <1>7, <1>11, <1>12 DEF FlowOnce

\* A pending message that is not read for the first time
LEMMA StaysOnce ==
    ASSUME TokioInv, TokioInv', OnceInv, Lasting, TaskEffect, NEW id \in PacketIds, Pending(id),
           serverFlow[id].msg \notin forgotten',
           Stays(serverFlow[id].msg) \/ Passes(serverFlow[id].msg)
    PROVE  FlowOnce(id)'
<1> DEFINE m == serverFlow[id].msg
           q == toClient
<1>1. /\ q \in Seq(ToClientPackets) /\ UNCHANGED <<serverFlow, published>>
      /\ FlowOnce(id) /\ m \in Messages /\ delivered[m] \in Nat
  BY QueueTyped, PendingMessage DEF TaskEffect, OnceInv
<1>2. GivenTo(m)' => GivenTo(m)
  BY <1>1 DEF Stays, Passes, GivenTo
<1>3. GivenOnce(id)'
  BY <1>1 DEF Stays, Passes, FlowOnce, GivenOnce
<1>4. CASE toClient' = toClient
  <2>1. ~TakesHead
    BY <1>1, <1>4, TailAt DEF TakesHead
  <2>2. incoming[id] = "AwaitingPubrel" => incoming'[id] = "AwaitingPubrel"
    BY <2>1 DEF TaskEffect, FlowsKept
  <2>3. KnownAgain(id)'
    BY <1>1, <1>2, <1>4, <2>2 DEF FlowOnce, KnownAgain
  <2>4. Uninterrupted(id)'
    BY <1>1, <1>4 DEF FlowOnce, Uninterrupted
  <2> QED
    BY <1>3, <2>3, <2>4 DEF FlowOnce
<1>5. CASE TakesHead
  <2>1. q # << >> /\ toClient' = Tail(q)
    BY <1>5 DEF TakesHead
  <2>2. /\ 1 \in DOMAIN q /\ Head(q) = q[1]
        /\ \A i \in DOMAIN Tail(q) : i \in Nat /\ i + 1 \in DOMAIN q /\ Tail(q)[i] = q[i + 1]
    BY <1>1, <2>1, TailAt
  <2>3. /\ \A i \in DOMAIN Tail(q) : i \in Nat /\ i >= 1
        /\ \A j \in DOMAIN Tail(q) : \A k \in 1..(j - 1) : k \in DOMAIN Tail(q)
    BY <1>1, <2>1, TailPositions
  <2>4. ASSUME GivenTo(m), NEW j \in DOMAIN Tail(q), Carries(Tail(q)[j], m)
        PROVE  /\ incoming'[id] = "AwaitingPubrel"
               /\ \A k \in 1..(j - 1) : ~Removes(Tail(q)[k], id)
    <3>1. j + 1 \in DOMAIN q /\ Carries(q[j + 1], m) /\ j \in Nat /\ j >= 1
      BY <2>2, <2>3, <2>4
    <3>2. incoming[id] = "AwaitingPubrel" /\ \A k \in 1..((j + 1) - 1) : ~Removes(q[k], id)
      BY <1>1, <2>4, <3>1 DEF FlowOnce, KnownAgain
    <3>3. 1 \in 1..((j + 1) - 1) /\ \A k \in 1..(j - 1) : k + 1 \in 1..((j + 1) - 1)
      BY <3>1
    <3>4. ~Removes(Head(q), id)
      BY <2>2, <3>2, <3>3
    <3>5. \A k \in 1..(j - 1) : ~Removes(Tail(q)[k], id)
      BY <2>2, <2>3, <3>2, <3>3
    <3> QED
      BY <3>2, <3>4, <3>5 DEF TaskEffect, FlowsKept
  <2>5. ASSUME GivenTo(m), ~serverFlow[id].released
        PROVE  /\ incoming'[id] = "AwaitingPubrel"
               /\ \A k \in DOMAIN Tail(q) : ~Removes(Tail(q)[k], id)
    <3>1. incoming[id] = "AwaitingPubrel" /\ \A k \in DOMAIN q : ~Removes(q[k], id)
      BY <1>1, <2>5 DEF FlowOnce, KnownAgain
    <3> QED
      BY <2>2, <3>1 DEF TaskEffect, FlowsKept
  <2>6. KnownAgain(id)'
    BY <1>1, <1>2, <2>1, <2>4, <2>5 DEF KnownAgain
  <2>7. Uninterrupted(id)'
    BY <1>1, <1>5, UninterruptedTail DEF FlowOnce
  <2> QED
    BY <1>3, <2>6, <2>7 DEF FlowOnce
<1> QED
  BY <1>4, <1>5 DEF TaskEffect

\* A step of the task keeps OnceInv.
LEMMA TaskOnce ==
    ASSUME TokioInv, TokioInv', OnceInv, Lasting, TaskEffect, MessageKept', Unconnected'
    PROVE  OnceInv'
<1>1. ASSUME NEW id \in PacketIds, Pending(id)'
      PROVE  FlowOnce(id)'
  <2>1. Pending(id) /\ serverFlow[id].msg \notin forgotten'
    BY <1>1 DEF TaskEffect, Pending, Lasting
  <2>2. serverFlow[id].msg \in Messages
    BY <2>1, PendingMessage
  <2> QED
    BY <2>1, <2>2, ArrivesOnce, StaysOnce DEF TaskEffect
<1> QED
  BY <1>1, NumberedKept DEF OnceInv, TaskEffect

-----------------------------------------------------------------------------
(***************************************************************************)
(* The steps of the task                                                   *)
(***************************************************************************)

\* The session keeps its incoming flows, or the packet that is read ends one.
\* No message is given or taken in.
LEMMA QuietOnce ==
    ASSUME TokioInv, TokioInv', OnceInv, Lasting,
           toClient' = toClient \/ TakesHead, UNCHANGED <<serverFlow, published>>,
           FlowsKept, UNCHANGED delivered,
           call'.msg \in {0, call.msg}, out'.msg \in {0, call.msg, out.msg},
           MessageKept', Unconnected'
    PROVE  OnceInv'
<1>1. ASSUME NEW m \in Messages PROVE Stays(m)
  <2>1. m # 0
    BY QueueTyped
  <2> QED
    BY <2>1 DEF Stays, InHand
<1>2. TaskEffect
  BY <1>1 DEF TaskEffect
<1> QED
  BY <1>2, TaskOnce

\* The call ends.
LEMMA EndsOnce ==
    ASSUME TokioInv, TokioInv', OnceInv, Lasting,
           toClient' = toClient \/ TakesHead, UNCHANGED <<serverFlow, published, calls>>,
           FlowsKept, UNCHANGED delivered, call' = NoCall, out' = NoWrite,
           connectionState' \in {connectionState, "Disconnected"}
    PROVE  OnceInv'
<1>1. call'.msg = 0 /\ call'.at = "Idle" /\ out'.msg = 0
  BY DEF NoCall, NoWrite, Writing
<1>2. MessageKept'
  BY <1>1 DEF MessageKept
<1>3. Unconnected'
  BY <1>1 DEF OnceInv, Unconnected
<1> QED
  BY <1>1, <1>2, <1>3, QuietOnce

\* The steps of the session that leave incoming flows and connection alone
LEMMA SessionSame ==
    ASSUME UNCHANGED sessionVars
    PROVE  UNCHANGED <<incoming, connectionState, nextId, freeList, inUse>>
  BY DEF sessionVars, qosVars, sesVars, pidVars

\* abort_publish ends a flow with its identifier, and the message is forgotten.
LEMMA AbandonKeepsFlows ==
    ASSUME TokioInv, NEW error, NEW packets, FailDropping(error, packets)
    PROVE  FlowsKept /\ UNCHANGED connectionState
<1>1. incoming \in [PacketIds -> IncomingStates \cup {"None"}] /\ Abandon
  BY QueueTyped DEF FailDropping
<1>2. CASE call.at \in PublishAwaits \cup {"ValidatePublish"}
  <2>1. incoming' = [incoming EXCEPT ![call.id] = "None"] /\ UNCHANGED sesVars
    BY <1>1, <1>2 DEF Abandon, AbortPublish, QosRelease
  <2>2. incoming[call.id] # "None" => serverFlow[call.id].msg \in forgotten'
    BY <1>2 DEF FailDropping, Aborting, HasIncoming
  <2> QED
    BY <1>1, <2>1, <2>2 DEF FlowsKept, sesVars
<1>3. CASE call.at \notin PublishAwaits \cup {"ValidatePublish"}
  <2>1. UNCHANGED qosVars /\ UNCHANGED sesVars
    BY <1>1, <1>3 DEF Abandon, AbortSubscribe, AbortUnsubscribe, sessionVars
  <2> QED
    BY <2>1 DEF qosVars, sesVars, FlowsKept
<1> QED
  BY <1>2, <1>3

\* An error ends the call.
LEMMA FailOnce ==
    ASSUME TokioInv, TokioInv', OnceInv, Lasting,
           toClient' = toClient \/ TakesHead, UNCHANGED <<serverFlow, published, delivered>>,
           NEW error, NEW packets, FailDropping(error, packets)
    PROVE  OnceInv'
<1>1. /\ call' = NoCall /\ out' = NoWrite /\ calls' = calls
  BY DEF FailDropping, Finish
<1>2. FlowsKept /\ UNCHANGED connectionState
  BY AbandonKeepsFlows
<1> QED
  BY <1>1, <1>2, EndsOnce

\* A call ends, and the session keeps its incoming flows.
LEMMA FinishOnce ==
    ASSUME TokioInv, TokioInv', OnceInv, Lasting,
           toClient' = toClient \/ TakesHead, UNCHANGED <<serverFlow, published, delivered>>,
           UNCHANGED incoming, connectionState' \in {connectionState, "Disconnected"},
           NEW outcome, Finish(outcome)
    PROVE  OnceInv'
<1>1. FlowsKept
  BY DEF FlowsKept
<1> QED
  BY <1>1, EndsOnce DEF Finish

\* A call that keeps no message
LEMMA NothingKept ==
    ASSUME OnceInv, call.at \notin {"RecvPublish", "AwaitPubrel"} \/
                    (call.at = "RecvPublish" /\ out = NoWrite)
    PROVE  call.msg = 0
  BY DEF OnceInv, MessageKept

\* A step within a call that keeps no message
LEMMA OwnOnce ==
    ASSUME TokioInv, TokioInv', OnceInv, Lasting, toClient' = toClient \/ TakesHead,
           UNCHANGED <<serverFlow, published, delivered, incoming>>,
           call.msg = 0, call'.msg = 0, out'.msg = 0, calls' # 0,
           call'.at \notin {"Configured", "AwaitConnack"}
    PROVE  OnceInv'
<1>1. FlowsKept /\ MessageKept' /\ Unconnected'
  BY DEF FlowsKept, MessageKept, Unconnected
<1> QED
  BY <1>1, QuietOnce

\* A call that is under way was counted.
LEMMA CallCounted ==
    ASSUME TokioInv, OnceInv, call.at # "Idle"
    PROVE  calls # 0
  BY DEF OnceInv, Unconnected

\* What every call begins with
LEMMA StartOnce ==
    ASSUME TokioInv, TokioInv', OnceInv, Lasting, NEW name, StartCall(name),
           UNCHANGED incoming, call'.msg = call.msg, out'.msg = 0,
           call'.at \notin {"Configured", "AwaitConnack"}
    PROVE  OnceInv'
<1>1. /\ call.at = "Idle" /\ calls' = calls + 1
      /\ UNCHANGED <<wireVars, delivered, serverFlow, published>>
  BY DEF StartCall, Idle
<1>2. call.msg = 0
  BY <1>1, NothingKept
<1>3. calls \in Nat
  BY TaskTypes
<1>4. calls' # 0 /\ UNCHANGED toClient
  BY <1>1, <1>3 DEF wireVars
<1> QED
  BY <1>1, <1>2, <1>4, OwnOnce

LEMMA AllocateForOnce ==
    ASSUME TokioInv, TokioInv', OnceInv, Lasting, NEW name, NEW at \in Registering, NEW qos,
           AllocateFor(name, at, qos)
    PROVE  OnceInv'
<1>1. StartCall(name) /\ UNCHANGED out /\ call \in Calls
  BY TaskTypes DEF AllocateFor
<1>2. UNCHANGED incoming
  BY DEF AllocateFor, AllocatePacketId, AllocatePacketIdFails, qosVars
<1>3. call.at = "Idle" /\ out = NoWrite /\ out.msg = 0
  BY <1>1 DEF StartCall, Idle, NoWrite, Writing
<1>4. call'.msg = call.msg /\ call'.at \in {"Idle", at}
  BY <1>1, <1>3 DEF AllocateFor, Calls
<1>5. call'.at \notin {"Configured", "AwaitConnack"}
  BY <1>4 DEF Registering
<1> QED
  BY <1>1, <1>2, <1>3, <1>4, <1>5, StartOnce

LEMMA CallDisconnectOnce ==
    ASSUME TokioInv, TokioInv', OnceInv, Lasting, CallDisconnect
    PROVE  OnceInv'
<1>1. /\ StartCall("Disconnect") /\ UNCHANGED call
      /\ out' = Writing(Packet("Disconnect", 0), "Idle", 0, FALSE)
  BY DEF CallDisconnect
<1>2. UNCHANGED incoming
  BY DEF CallDisconnect, DisconnectSent, qosVars
<1>3. call.at = "Idle" /\ out'.msg = 0
  BY <1>1 DEF StartCall, Idle, Writing
<1> QED
  BY <1>1, <1>2, <1>3, StartOnce

LEMMA CallPublishQos0Once ==
    ASSUME TokioInv, TokioInv', OnceInv, Lasting, NEW retain \in BOOLEAN, CallPublishQos0(retain)
    PROVE  OnceInv'
<1>1. StartCall("PublishQos0") /\ UNCHANGED sessionVars /\ UNCHANGED call
  BY DEF CallPublishQos0
<1>2. call.at = "Idle" /\ out = NoWrite
  BY <1>1 DEF StartCall, Idle
<1>3. out'.msg = 0
  BY <1>2 DEF CallPublishQos0, Writing, NoWrite
<1> QED
  BY <1>1, <1>2, <1>3, SessionSame, StartOnce

LEMMA CallReceiveOnce ==
    ASSUME TokioInv, TokioInv', OnceInv, Lasting, NEW name, NEW at \in {"RecvPublish", "Loop"},
           CallReceive(name, at)
    PROVE  OnceInv'
<1>1. StartCall(name) /\ UNCHANGED sessionVars /\ UNCHANGED out /\ call \in Calls
  BY TaskTypes DEF CallReceive
<1>2. out'.msg = 0
  BY <1>1 DEF StartCall, Idle, NoWrite, Writing
<1>3. call'.msg = call.msg /\ call'.at = at
  BY <1>1 DEF CallReceive, Calls
<1> QED
  BY <1>1, <1>2, <1>3, SessionSame, StartOnce

LEMMA CallConnectOnce ==
    ASSUME TokioInv, TokioInv', OnceInv, Lasting, CallConnect
    PROVE  OnceInv'
<1>1. /\ call.at = "Idle" /\ out = NoWrite /\ calls = 0 /\ calls' = 1
      /\ call' = [call EXCEPT !.at = "Configured"] /\ UNCHANGED out /\ call \in Calls
      /\ UNCHANGED <<serverFlow, published, toClient, delivered>>
  BY TaskTypes DEF CallConnect, Idle, serverVars, wireVars
<1>2. UNCHANGED <<incoming, connectionState>>
  BY DEF CallConnect, ConfigureForConnect, qosVars
<1>3. call.msg = 0 /\ call'.msg = 0 /\ call'.at = "Configured" /\ out'.msg = 0
  BY <1>1, NothingKept DEF Calls, NoWrite, Writing
<1>4. Unconnected' /\ MessageKept' /\ FlowsKept
  BY <1>1, <1>2, <1>3 DEF OnceInv, Unconnected, MessageKept, FlowsKept
<1> QED
  BY <1>1, <1>3, <1>4, QuietOnce

LEMMA StartConnectOnce ==
    ASSUME TokioInv, TokioInv', OnceInv, Lasting, StartConnect
    PROVE  OnceInv'
<1>1. /\ call.at = "Configured" /\ call \in Calls
      /\ call' = [call EXCEPT !.at = "AwaitConnack", !.deadline = now + CallTimeout]
      /\ out' = Writing(Packet("Connect", 0), "AwaitConnack", 0, FALSE)
      /\ UNCHANGED <<serverFlow, published, toClient, delivered, calls>>
  BY TaskTypes DEF StartConnect, serverVars, wireVars
<1>2. UNCHANGED incoming /\ connectionState' = "Connecting"
  BY DEF StartConnect, ConnectSent, ResetConnectionState, QosClearQuotaCharges
<1>3. call.msg = 0 /\ call'.msg = 0 /\ call'.at = "AwaitConnack" /\ out'.msg = 0
  BY <1>1, NothingKept DEF Calls, Writing
<1>4. Unconnected' /\ MessageKept' /\ FlowsKept
  BY <1>1, <1>2, <1>3 DEF OnceInv, Unconnected, MessageKept, FlowsKept
<1> QED
  BY <1>1, <1>3, <1>4, QuietOnce

\* A call registers its request or writes it.
LEMMA RequestOnce ==
    ASSUME TokioInv, TokioInv', OnceInv, Lasting, call.at \in Registering, TaskStep,
           UNCHANGED <<delivered, incoming, calls>>,
           call'.msg = call.msg, out'.msg = 0,
           call'.at \notin {"Configured", "AwaitConnack"}
    PROVE  OnceInv'
<1>1. call.at \notin {"Idle", "RecvPublish", "AwaitPubrel"}
  BY DEF Registering
<1>2. call.msg = 0 /\ calls # 0
  BY <1>1, NothingKept, CallCounted
<1>3. UNCHANGED <<toClient, serverFlow, published>>
  BY DEF TaskStep, serverVars, wireVars
<1> QED
  BY <1>2, <1>3, OwnOnce

LEMMA RegisterPublishOnce ==
    ASSUME TokioInv, TokioInv', OnceInv, Lasting, RegisterPublish
    PROVE  OnceInv'
<1>1. /\ call.at = "RegisterPublish" /\ call.at \in Registering /\ TaskStep
      /\ UNCHANGED delivered /\ call \in Calls
  BY TaskTypes DEF RegisterPublish, Registering
<1>2. UNCHANGED <<toClient, serverFlow, published>>
  BY <1>1 DEF TaskStep, serverVars, wireVars
<1>3. CASE /\ PublishSent(call.qos, call.id)
           /\ call' = [call EXCEPT !.at = "ValidatePublish"] /\ UNCHANGED <<out, calls>>
  <2>1. UNCHANGED incoming
    BY <1>3 DEF PublishSent, QosPublishSent
  <2>2. out = NoWrite
    BY <1>1 DEF TokioInv, WriteOK
  <2>3. call'.msg = call.msg /\ call'.at = "ValidatePublish" /\ out'.msg = 0
    BY <1>1, <1>3, <2>2 DEF Calls, NoWrite, Writing
  <2> QED
    BY <1>1, <1>3, <2>1, <2>3, RequestOnce
<1>4. CASE ReleasePacketId(call.id) /\ Finish("FlowControl")
  <2>1. UNCHANGED <<incoming, connectionState>>
    BY <1>4 DEF ReleasePacketId, qosVars, sesVars
  <2> QED
    BY <1>1, <1>2, <1>4, <2>1, FinishOnce
<1> QED
  BY <1>3, <1>4 DEF RegisterPublish

LEMMA WritePublishOnce ==
    ASSUME TokioInv, TokioInv', OnceInv, Lasting, NEW retain \in BOOLEAN,
           WritePublish(retain)
    PROVE  OnceInv'
<1>1. /\ call.at = "ValidatePublish" /\ call.at \in Registering /\ TaskStep
      /\ UNCHANGED delivered /\ call \in Calls
  BY TaskTypes DEF WritePublish, Registering
<1>2. UNCHANGED <<toClient, serverFlow, published>>
  BY <1>1 DEF TaskStep, serverVars, wireVars
<1>3. CASE Fail("ServerCapability")
  BY <1>1, <1>2, <1>3, FailOnce DEF Fail
<1>4. ASSUME NEW at \in {"AwaitPuback", "AwaitPubrec"}, Await(at, call.id),
             out' = Writing(PublishPacket(call.qos, call.id, 0), at, 0, FALSE),
             UNCHANGED sessionVars
      PROVE  OnceInv'
  <2>1. call'.msg = call.msg /\ call'.at = at /\ out'.msg = 0 /\ calls' = calls
    BY <1>1, <1>4 DEF Await, Calls, Writing
  <2> QED
    BY <1>1, <1>4, <2>1, SessionSame, RequestOnce
<1> QED
  BY <1>3, <1>4 DEF WritePublish

LEMMA RegisterSubscribeOnce ==
    ASSUME TokioInv, TokioInv', OnceInv, Lasting, NEW entries \in SubscribeRequests,
           RegisterSubscribe(entries)
    PROVE  OnceInv'
<1>1. /\ call.at \in Registering /\ TaskStep /\ UNCHANGED delivered /\ call \in Calls
  BY TaskTypes DEF RegisterSubscribe, Registering
<1>2. UNCHANGED <<toClient, serverFlow, published>>
  BY <1>1 DEF TaskStep, serverVars, wireVars
<1>3. CASE Finish("ServerCapability") /\ UNCHANGED sessionVars
  BY <1>1, <1>2, <1>3, SessionSame, FinishOnce
<1>4. CASE /\ SubscribeSent(call.id, entries) /\ Await("AwaitSuback", call.id)
           /\ out' = Writing(Packet("Subscribe", call.id), "AwaitSuback", 0, FALSE)
  <2>1. call'.msg = call.msg /\ call'.at = "AwaitSuback" /\ out'.msg = 0 /\ calls' = calls
    BY <1>1, <1>4 DEF Await, Calls, Writing
  <2>2. UNCHANGED incoming
    BY <1>4 DEF SubscribeSent, qosVars
  <2> QED
    BY <1>1, <2>1, <2>2, RequestOnce
<1> QED
  BY <1>3, <1>4 DEF RegisterSubscribe

LEMMA RegisterUnsubscribeOnce ==
    ASSUME TokioInv, TokioInv', OnceInv, Lasting, NEW filters \in UnsubscribeRequests,
           RegisterUnsubscribe(filters)
    PROVE  OnceInv'
<1>1. /\ call.at \in Registering /\ TaskStep /\ UNCHANGED delivered /\ call \in Calls
      /\ UnsubscribeSent(call.id, filters) /\ Await("AwaitUnsuback", call.id)
      /\ out' = Writing(Packet("Unsubscribe", call.id), "AwaitUnsuback", 0, FALSE)
  BY TaskTypes DEF RegisterUnsubscribe, Registering
<1>2. call'.msg = call.msg /\ call'.at = "AwaitUnsuback" /\ out'.msg = 0 /\ calls' = calls
  BY <1>1 DEF Await, Calls, Writing
<1>3. UNCHANGED incoming
  BY <1>1 DEF UnsubscribeSent, qosVars
<1> QED
  BY <1>1, <1>2, <1>3, RequestOnce

LEMMA WriteFailsOnce ==
    ASSUME TokioInv, TokioInv', OnceInv, Lasting, WriteFails
    PROVE  OnceInv'
<1>1. UNCHANGED <<toClient, serverFlow, published, delivered>>
  BY DEF WriteFails, TaskStep, serverVars, wireVars
<1>2. CASE FailUnsettled("Io") /\ UNCHANGED sessionVars
  BY <1>1, <1>2, SessionSame, FinishOnce DEF FailUnsettled
<1>3. CASE Fail("Io")
  BY <1>1, <1>3, FailOnce DEF Fail
<1> QED
  BY <1>2, <1>3 DEF WriteFails

\* The packet is written: the message that goes with it is given.
LEMMA WriteSucceedsOnce ==
    ASSUME TokioInv, TokioInv', OnceInv, Lasting, WriteSucceeds
    PROVE  OnceInv'
<1>1. /\ out # NoWrite /\ out' = NoWrite /\ call \in Calls
      /\ Written(out.packet, out.settles)
      /\ UNCHANGED <<toClient, serverFlow, published, calls>>
      /\ delivered' = IF out.msg = 0 THEN delivered
                      ELSE [delivered EXCEPT ![out.msg] = @ + 1]
      /\ delivered \in [Messages -> Nat]
  BY TaskTypes DEF WriteSucceeds, serverVars
<1>2. out'.msg = 0 /\ Messages = 1..MaxPublishes
  BY <1>1, QueueTyped DEF NoWrite, Writing
<1>3. out.then = "Idle" => call'.msg = 0 /\ call'.at = "Idle"
  BY DEF WriteSucceeds, NoCall
<1>4. out.then # "Idle" => call'.msg = call.msg /\ call'.at = out.then
  BY <1>1 DEF WriteSucceeds, Calls
<1>5. call.msg = 0 \/ out.msg = 0 \/ out.then = "Idle"
  BY <1>1 DEF OnceInv, MessageKept
<1>6. ASSUME NEW m \in Messages PROVE Stays(m) \/ Passes(m)
  <2>1. m # 0
    BY <1>2
  <2>2. CASE m = out.msg
    <3>1. delivered'[m] = delivered[m] + 1
      BY <1>1, <2>1, <2>2
    <3>2. call'.msg # m
      BY <1>3, <1>4, <1>5, <2>1, <2>2
    <3> QED
      BY <1>2, <2>1, <2>2, <3>1, <3>2 DEF Passes, InHand
  <2>3. CASE m # out.msg
    <3>1. delivered'[m] = delivered[m]
      BY <1>1, <2>3
    <3>2. call'.msg = m => call.msg = m
      BY <1>3, <1>4, <2>1
    <3> QED
      BY <1>2, <2>1, <3>1, <3>2 DEF Stays, InHand
  <2> QED
    BY <2>2, <2>3
<1>7. incoming' = IF /\ out.packet.type = "Puback"
                     /\ incoming[out.packet.id] = "IncomingAwaitingPuback"
                  THEN [incoming EXCEPT ![out.packet.id] = "None"] ELSE incoming
  BY <1>1 DEF Written, QosPubackSent, qosVars
<1>8. FlowsKept
  BY <1>7, QueueTyped DEF FlowsKept
<1>9. MessageKept'
  BY <1>1, <1>3, <1>4 DEF OnceInv, MessageKept
<1>10. Unconnected'
  <2>1. connectionState' \in {connectionState, "Disconnected"}
    BY <1>1 DEF Written
  <2>2. call.at \in Looping => out.then # "AwaitConnack"
    BY <1>1 DEF TokioInv, WriteOK
  <2>3. call.at \notin Looping => out.then = call.at
    BY <1>1 DEF TokioInv, WriteOK
  <2>4. out.then \in Looping \cup {"Idle", "AwaitConnack"} /\ "Configured" \notin Looping
        /\ "Idle" \notin Looping
    BY <1>1, OutTyped, AwaitKinds
  <2>5. call'.at = out.then
    BY <1>3, <1>4
  <2> QED
    BY <1>1, <2>1, <2>2, <2>3, <2>4, <2>5 DEF OnceInv, Unconnected
<1>11. TaskEffect
  BY <1>1, <1>6, <1>8 DEF TaskEffect
<1> QED
  BY <1>9, <1>10, <1>11, TaskOnce

\* A step at the head of the receive loop or at the end of a wait, in which
\* the call goes on
LEMMA WaitsOnce ==
    ASSUME TokioInv, TokioInv', OnceInv, Lasting, TaskStep, UNCHANGED <<delivered, call, calls>>,
           UNCHANGED sessionVars, out = NoWrite,
           out' = NoWrite \/ (out'.msg = 0 /\ out'.then = call.at)
    PROVE  OnceInv'
<1>1. UNCHANGED <<toClient, serverFlow, published>>
  BY DEF TaskStep, serverVars, wireVars
<1>2. UNCHANGED <<incoming, connectionState>>
  BY SessionSame
<1>3. out'.msg = 0
  BY DEF NoWrite, Writing
<1>4. FlowsKept /\ MessageKept' /\ Unconnected'
  BY <1>1, <1>2, <1>3 DEF FlowsKept, OnceInv, MessageKept, Unconnected
<1> QED
  BY <1>1, <1>3, <1>4, QuietOnce

LEMMA LoopHeadOnce ==
    ASSUME TokioInv, TokioInv', OnceInv, Lasting, LoopHead
    PROVE  OnceInv'
<1>1. out = NoWrite /\ TaskStep /\ UNCHANGED delivered
  BY DEF LoopHead
<1>2. UNCHANGED <<toClient, serverFlow, published>>
  BY <1>1 DEF TaskStep, serverVars, wireVars
<1>3. ASSUME NEW error, Fail(error) PROVE OnceInv'
  BY <1>1, <1>2, <1>3, FailOnce DEF Fail
<1>4. CASE /\ out' = Writing(Packet("Pingreq", 0), call.at, 0, FALSE)
           /\ UNCHANGED <<sessionVars, call, calls>>
  <2>1. out'.msg = 0 /\ out'.then = call.at
    BY <1>4 DEF Writing
  <2> QED
    BY <1>1, <1>4, <2>1, WaitsOnce
<1>5. CASE UNCHANGED <<sessionVars, call, out, calls>>
  BY <1>1, <1>5, WaitsOnce
<1> QED
  BY <1>3, <1>4, <1>5 DEF LoopHead

LEMMA WaitOverOnce ==
    ASSUME TokioInv, TokioInv', OnceInv, Lasting, WaitOver
    PROVE  OnceInv'
<1>1. /\ out = NoWrite /\ TaskStep /\ UNCHANGED delivered /\ UNCHANGED sessionVars
  BY DEF WaitOver
<1>2. UNCHANGED <<toClient, serverFlow, published>>
  BY <1>1 DEF TaskStep, serverVars, wireVars
<1>3. CASE Finish("Timeout")
  BY <1>1, <1>2, <1>3, SessionSame, FinishOnce
<1>4. CASE UNCHANGED <<call, out, calls>>
  BY <1>1, <1>4, WaitsOnce
<1> QED
  BY <1>3, <1>4 DEF WaitOver

LEMMA ReadEndOnce ==
    ASSUME TokioInv, TokioInv', OnceInv, Lasting, ReadEnd
    PROVE  OnceInv'
<1>1. UNCHANGED <<toClient, serverFlow, published, delivered>>
  BY DEF ReadEnd, TaskStep, serverVars, wireVars
<1> QED
  BY <1>1, FailOnce DEF ReadEnd, Fail

LEMMA CtrlCOnce ==
    ASSUME TokioInv, TokioInv', OnceInv, Lasting, CtrlC
    PROVE  OnceInv'
<1>1. UNCHANGED <<toClient, serverFlow, published, delivered>>
  BY DEF CtrlC, TaskStep, serverVars, wireVars
<1> QED
  BY <1>1, SessionSame, FinishOnce DEF CtrlC

\* What every read begins with
LEMMA TakenFacts ==
    ASSUME TokioInv, OnceInv, Taken
    PROVE  /\ TakesHead /\ out = NoWrite /\ out.msg = 0 /\ toClient # << >>
           /\ UNCHANGED <<serverFlow, published>>
           /\ call.at # "AwaitPubrel" => call.msg = 0
  BY NothingKept DEF Taken, TakesHead, serverVars, NoWrite, Writing, OnceInv, MessageKept

\* The first CONNACK
LEMMA ConnackReadOnce ==
    ASSUME TokioInv, TokioInv', OnceInv, Lasting, Taken, ConnackRead(Head(toClient))
    PROVE  OnceInv'
<1>1. /\ call.at = "AwaitConnack" /\ calls # 0 /\ published = 0 /\ UNCHANGED delivered
      /\ TakesHead /\ UNCHANGED <<serverFlow, published>>
  BY CallCounted, TakenFacts DEF ConnackRead, OnceInv, Unconnected
<1>2. call' = NoCall /\ out' = NoWrite /\ calls' = calls
  BY DEF ConnackRead, Finish
<1>3. call'.msg = 0 /\ call'.at = "Idle" /\ out'.msg = 0
  BY <1>2 DEF NoCall, NoWrite, Writing
<1>4. \A m \in Messages : Stays(m)
  BY <1>1, <1>3, QueueTyped DEF Stays, InHand
<1>5. Numbered'
  BY <1>1, <1>4, NumberedKept
<1>6. ASSUME NEW id \in PacketIds PROVE ~Pending(id)'
  <2>1. serverFlow[id].msg \in Nat /\ serverFlow[id].msg <= 0
    BY <1>1, QueueTyped DEF OnceInv, Numbered
  <2> QED
    BY <1>1, <2>1 DEF Pending
<1>7. MessageKept' /\ Unconnected'
  BY <1>1, <1>2, <1>3 DEF MessageKept, Unconnected
<1> QED
  BY <1>5, <1>6, <1>7 DEF OnceInv

\* The packet is handled and the call goes on.
LEMMA HandledOnce ==
    ASSUME TokioInv, TokioInv', OnceInv, Lasting, Taken, call.at \in Handling, Resume, FlowsKept,
           \A m \in Messages : Stays(m) \/ Passes(m) \/ Arrives(m)
    PROVE  OnceInv'
<1>1. /\ call'.at = call.at /\ calls' = calls /\ call \in Calls
  BY TaskTypes, ResumeFacts
<1>2. call.at \notin {"Idle", "AwaitPubrel", "Configured", "AwaitConnack"}
  BY DEF Handling, PublishAwaits
<1>3. call'.msg = call.msg /\ call.msg = 0 /\ calls # 0
  BY <1>1, <1>2, TakenFacts, CallCounted DEF Resume, Calls
<1>4. MessageKept' /\ Unconnected'
  BY <1>1, <1>2, <1>3 DEF MessageKept, Unconnected
<1>5. TaskEffect
  BY TakenFacts DEF TaskEffect
<1> QED
  BY <1>4, <1>5, TaskOnce

\* A PUBLISH with an identifier opens its flow.
LEMMA PublishOpens ==
    ASSUME TokioInv, OnceInv, Taken, Head(toClient).type = "Publish",
           Head(toClient).qos # "AtMostOnce",
           HandlePublish(Head(toClient).qos, Head(toClient).id)
    PROVE  /\ FlowsKept /\ Head(toClient).id \in PacketIds
           /\ Head(toClient).qos = "ExactlyOnce" =>
                 incoming'[Head(toClient).id] = "AwaitingPubrel"
           /\ connectionState' = connectionState
<1> DEFINE p == Head(toClient)
<1>1. p.id \in PacketIds /\ p.qos \in QoSLevels /\ TakesHead
      /\ incoming \in [PacketIds -> IncomingStates \cup {"None"}]
  BY TakenFacts, PublishTyped, HeadTyped, QueueTyped
<1>2. p.qos \in {"AtLeastOnce", "ExactlyOnce"}
  BY <1>1 DEF QoSLevels
<1>3. CASE p.qos = "AtLeastOnce"
  <2>1. incoming' = [incoming EXCEPT ![p.id] = "IncomingAwaitingPuback"]
    BY <1>3 DEF HandlePublish, QosPublishReceivedQos1
  <2>2. Removes(p, p.id)
    BY <1>3 DEF Removes
  <2> QED
    BY <1>1, <1>3, <2>1, <2>2 DEF FlowsKept, HandlePublish, sesVars
<1>4. CASE p.qos = "ExactlyOnce"
  <2>1. incoming' = [incoming EXCEPT ![p.id] = "AwaitingPubrel"]
    BY <1>4 DEF HandlePublish, QosPublishReceivedQos2
  <2> QED
    BY <1>1, <1>4, <2>1 DEF FlowsKept, HandlePublish, sesVars
<1> QED
  BY <1>2, <1>3, <1>4

\* The message goes where Given says, or nowhere.
LEMMA GivenArrives ==
    ASSUME TokioInv, OnceInv, Taken, Head(toClient).type = "Publish",
           Head(toClient).qos # "AtMostOnce",
           HandlePublish(Head(toClient).qos, Head(toClient).id), UNCHANGED delivered,
           call'.msg \in {0, call.msg, Given(Head(toClient))},
           out'.msg \in {0, Given(Head(toClient))}
    PROVE  \A m \in Messages : Stays(m) \/ Arrives(m)
<1> DEFINE p == Head(toClient)
<1> SUFFICES ASSUME NEW m \in Messages, InHand(m)', ~InHand(m)
             PROVE  Arrives(m)
  BY DEF Stays
<1>1. m # 0 /\ TakesHead
  BY QueueTyped, TakenFacts
<1>2. m = Given(p)
  BY <1>1 DEF InHand
<1>3. p.msg = m /\ (p.qos = "ExactlyOnce" => ~HasIncoming(p.id))
  BY <1>1, <1>2 DEF Given
<1> QED
  BY <1>1, <1>3, PublishOpens DEF Arrives, Carries

LEMMA HandleIncomingPublishOnce ==
    ASSUME TokioInv, TokioInv', OnceInv, Lasting, Taken, call.at \in Handling,
           Head(toClient).type = "Publish", HandleIncomingPublish(Head(toClient))
    PROVE  OnceInv'
<1> DEFINE p == Head(toClient)
<1>1. /\ TakesHead /\ out = NoWrite /\ UNCHANGED <<serverFlow, published>>
      /\ call.msg = 0 /\ call \in Calls /\ delivered \in [Messages -> Nat]
  BY TakenFacts, TaskTypes DEF Handling, PublishAwaits
<1>2. CASE Resume /\ UNCHANGED <<sessionVars, out, delivered>>
  <2>1. FlowsKept
    BY <1>2, SessionSame DEF FlowsKept
  <2>2. \A m \in Messages : Stays(m)
    <3>1. call'.msg = call.msg
      BY <1>1, <1>2 DEF Resume, Calls
    <3> QED
      BY <1>2, <3>1 DEF Stays, InHand
  <2> QED
    BY <1>2, <2>1, <2>2, HandledOnce
<1>3. CASE /\ p.qos # "AtMostOnce" /\ HandlePublish(p.qos, p.id) /\ Resume
           /\ UNCHANGED delivered
           /\ out' = IF p.qos = "AtLeastOnce"
                 THEN Writing(Packet("Puback", p.id), call.at, Given(p), TRUE)
                 ELSE Writing(Packet("Pubrec", p.id), call.at, Given(p), FALSE)
  <2>1. out'.msg = Given(p)
    BY <1>3 DEF Writing
  <2>2. call'.msg = call.msg
    BY <1>1, <1>3 DEF Resume, Calls
  <2>3. FlowsKept /\ \A m \in Messages : Stays(m) \/ Arrives(m)
    BY <1>3, <2>1, <2>2, PublishOpens, GivenArrives
  <2> QED
    BY <1>3, <2>3, HandledOnce
<1>4. CASE FailUnsettled("FlowControl") /\ UNCHANGED <<sessionVars, delivered>>
  BY <1>1, <1>4, SessionSame, FinishOnce DEF FailUnsettled
<1> QED
  BY <1>2, <1>3, <1>4 DEF HandleIncomingPublish

\* A PUBREL ends its flow.
LEMMA PubrelEnds ==
    ASSUME TokioInv, OnceInv, Taken, Head(toClient).type = "Pubrel",
           HandlePubrel(Head(toClient).id)
    PROVE  FlowsKept /\ connectionState' = connectionState
<1>1. TakesHead /\ incoming \in [PacketIds -> IncomingStates \cup {"None"}]
  BY TakenFacts, QueueTyped
<1>2. /\ incoming' = IF PubrelResult(Head(toClient).id) = "SendPubcomp"
                     THEN [incoming EXCEPT ![Head(toClient).id] = "None"] ELSE incoming
      /\ UNCHANGED sesVars
  BY DEF HandlePubrel, QosPubrelReceived
<1>3. Removes(Head(toClient), Head(toClient).id)
  BY DEF Removes
<1>4. FlowsKept
  BY <1>1, <1>2, <1>3 DEF FlowsKept
<1> QED
  BY <1>2, <1>4 DEF sesVars

LEMMA HandleIncomingPubrelOnce ==
    ASSUME TokioInv, TokioInv', OnceInv, Lasting, Taken, call.at \in Handling,
           Head(toClient).type = "Pubrel", HandleIncomingPubrel(Head(toClient))
    PROVE  OnceInv'
<1> DEFINE p == Head(toClient)
<1>1. /\ TakesHead /\ out = NoWrite /\ UNCHANGED <<serverFlow, published>>
      /\ call.msg = 0 /\ call \in Calls
  BY TakenFacts, TaskTypes DEF Handling, PublishAwaits
<1>2. FlowsKept /\ connectionState' = connectionState /\ UNCHANGED delivered
  BY PubrelEnds DEF HandleIncomingPubrel
<1>3. CASE /\ Resume
           /\ out' = Writing(Packet("Pubcomp", p.id), call.at, 0,
                            PubrelResult(p.id) = "SendPubcomp")
  <2>1. out'.msg = 0 /\ call'.msg = 0
    BY <1>1, <1>3 DEF Writing, Resume, Calls
  <2>2. \A m \in Messages : Stays(m)
    BY <1>2, <2>1, QueueTyped DEF Stays, InHand
  <2> QED
    BY <1>2, <1>3, <2>2, HandledOnce
<1>4. CASE FailUnsettled("Flow")
  <2>1. call' = NoCall /\ out' = NoWrite /\ calls' = calls
    BY <1>4 DEF FailUnsettled, Finish
  <2> QED
    BY <1>1, <1>2, <2>1, EndsOnce
<1> QED
  BY <1>3, <1>4 DEF HandleIncomingPubrel

LEMMA HandleIncomingDisconnectOnce ==
    ASSUME TokioInv, TokioInv', OnceInv, Lasting, Taken, HandleIncomingDisconnect
    PROVE  OnceInv'
<1>1. /\ TakesHead /\ UNCHANGED <<serverFlow, published, delivered>>
      /\ connectionState' = "Disconnected"
      /\ incoming \in [PacketIds -> IncomingStates \cup {"None"}]
  BY TakenFacts, QueueTyped DEF HandleIncomingDisconnect
<1>2. FlowsKept
  <2>1. CASE call.at \in PublishAwaits
    <3>1. incoming' = [incoming EXCEPT ![call.id] = "None"]
      BY <2>1 DEF HandleIncomingDisconnect, QosRelease
    <3>2. incoming[call.id] # "None" => serverFlow[call.id].msg \in forgotten'
      BY <2>1 DEF HandleIncomingDisconnect, Aborting, HasIncoming
    <3> QED
      BY <1>1, <3>1, <3>2 DEF FlowsKept
  <2>2. CASE call.at \notin PublishAwaits
    BY <2>2 DEF HandleIncomingDisconnect, qosVars, FlowsKept
  <2> QED
    BY <2>1, <2>2
<1>3. call' = NoCall /\ out' = NoWrite /\ calls' = calls
  BY DEF HandleIncomingDisconnect, Finish
<1> QED
  BY <1>1, <1>2, <1>3, EndsOnce

LEMMA HandleIncomingOnce ==
    ASSUME TokioInv, TokioInv', OnceInv, Lasting, Taken, call.at \in Handling,
           HandleIncoming(Head(toClient))
    PROVE  OnceInv'
<1>1. /\ TakesHead /\ out = NoWrite /\ UNCHANGED <<serverFlow, published>>
      /\ call.msg = 0 /\ call \in Calls
  BY TakenFacts, TaskTypes DEF Handling, PublishAwaits
<1>2. CASE PingrespReceived /\ Resume /\ UNCHANGED <<out, delivered>>
  <2>1. FlowsKept
    BY <1>2 DEF PingrespReceived, qosVars, FlowsKept
  <2>2. call'.msg = 0
    BY <1>1, <1>2 DEF Resume, Calls
  <2>3. \A m \in Messages : Stays(m)
    BY <1>1, <1>2, <2>2 DEF Stays, InHand
  <2> QED
    BY <1>2, <2>1, <2>3, HandledOnce
<1>3. CASE FailUnsettled("UnexpectedPacket") /\ UNCHANGED <<sessionVars, delivered>>
  BY <1>1, <1>3, SessionSame, FinishOnce DEF FailUnsettled
<1> QED
  BY <1>2, <1>3, HandleIncomingPublishOnce, HandleIncomingPubrelOnce,
     HandleIncomingDisconnectOnce DEF HandleIncoming

\* The end of await_puback and await_pubcomp
LEMMA AckReadOnce ==
    ASSUME TokioInv, TokioInv', OnceInv, Lasting, Taken,
           NEW ack, NEW id, AckRead(ack, HandlePuback(id)) \/ AckRead(ack, HandlePubcomp(id))
    PROVE  OnceInv'
<1>1. TakesHead /\ UNCHANGED <<serverFlow, published, delivered>>
  BY TakenFacts DEF AckRead
<1>2. CASE (HandlePuback(id) \/ HandlePubcomp(id)) /\ Finish("Ok")
  <2>1. UNCHANGED <<incoming, connectionState>>
    BY <1>2 DEF HandlePuback, HandlePubcomp, QosPubackReceived, QosPubcompReceived, sesVars
  <2> QED
    BY <1>1, <1>2, <2>1, FinishOnce
<1>3. CASE Fail("UnexpectedPacket")
  BY <1>1, <1>3, FailOnce DEF Fail
<1>4. CASE UNCHANGED sessionVars /\ FailUnsettled("Flow")
  BY <1>1, <1>4, SessionSame, FinishOnce DEF FailUnsettled
<1> QED
  BY <1>2, <1>3, <1>4 DEF AckRead

LEMMA AwaitPubackOnce ==
    ASSUME TokioInv, TokioInv', OnceInv, Lasting, Taken,
           AwaitPuback(Head(toClient)) \/ AwaitPubcomp(Head(toClient))
    PROVE  OnceInv'
<1>1. call.at \in Handling
  BY DEF AwaitPuback, AwaitPubcomp, Handling, PublishAwaits
<1> QED
  BY <1>1, AckReadOnce, HandleIncomingOnce DEF AwaitPuback, AwaitPubcomp

LEMMA AwaitQos2CompletionOnce ==
    ASSUME TokioInv, TokioInv', OnceInv, Lasting, Taken,
           AwaitQos2Completion(Head(toClient))
    PROVE  OnceInv'
<1> DEFINE p == Head(toClient)
<1>1. /\ call.at = "AwaitPubrec" /\ call.at \in Handling /\ call \in Calls
      /\ TakesHead /\ UNCHANGED <<serverFlow, published>> /\ call.msg = 0 /\ calls # 0
  BY TakenFacts, TaskTypes, CallCounted DEF AwaitQos2Completion, Handling, PublishAwaits
<1>2. HandlePubrec(p.id, ~p.ok) => UNCHANGED <<incoming, connectionState>>
  BY DEF HandlePubrec, QosPubrecReceived, sesVars
<1>3. CASE /\ HandlePubrec(p.id, ~p.ok) /\ Await("AwaitPubcomp", p.id)
           /\ out' = Writing(Packet("Pubrel", p.id), "AwaitPubcomp", 0, FALSE)
           /\ UNCHANGED delivered
  <2>1. call'.msg = 0 /\ out'.msg = 0 /\ call'.at = "AwaitPubcomp" /\ calls' = calls
    BY <1>1, <1>3 DEF Await, Calls, Writing
  <2> QED
    BY <1>1, <1>2, <1>3, <2>1, OwnOnce
<1>4. CASE HandlePubrec(p.id, ~p.ok) /\ Finish("PublishRejected") /\ UNCHANGED delivered
  BY <1>1, <1>2, <1>4, FinishOnce
<1>5. CASE Fail("PublishRejected") /\ UNCHANGED delivered
  BY <1>1, <1>5, FailOnce DEF Fail
<1>6. CASE UNCHANGED sessionVars /\ FailUnsettled("Flow") /\ UNCHANGED delivered
  BY <1>1, <1>6, SessionSame, FinishOnce DEF FailUnsettled
<1>7. CASE HandleIncoming(p)
  BY <1>1, <1>7, HandleIncomingOnce
<1> QED
  BY <1>3, <1>4, <1>5, <1>6, <1>7 DEF AwaitQos2Completion

LEMMA AwaitRequestAckOnce ==
    ASSUME TokioInv, TokioInv', OnceInv, Lasting, Taken, AwaitRequestAck(Head(toClient))
    PROVE  OnceInv'
<1> DEFINE p == Head(toClient)
<1>1. TakesHead /\ UNCHANGED <<serverFlow, published, delivered>>
  BY TakenFacts DEF AwaitRequestAck
<1>2. CASE (HandleSuback(p.id, <<TRUE>>) \/ HandleUnsuback(p.id, <<TRUE>>)) /\ Finish("Ok")
  <2>1. UNCHANGED <<incoming, connectionState>>
    BY <1>2 DEF HandleSuback, HandleUnsuback, qosVars, sesVars
  <2> QED
    BY <1>1, <1>2, <2>1, FinishOnce
<1>3. CASE FailDropping("UnexpectedPacket", {p})
  BY <1>1, <1>3, FailOnce
<1> QED
  BY <1>2, <1>3 DEF AwaitRequestAck

\* recv_publish reads a PUBLISH.
LEMMA ReceivePublishOnce ==
    ASSUME TokioInv, TokioInv', OnceInv, Lasting, Taken, call.at = "RecvPublish",
           Head(toClient).type = "Publish", ReceivePublish(Head(toClient))
    PROVE  OnceInv'
<1> DEFINE p == Head(toClient)
<1>1. /\ TakesHead /\ out = NoWrite /\ UNCHANGED <<serverFlow, published>>
      /\ call.msg = 0 /\ call \in Calls /\ delivered \in [Messages -> Nat] /\ calls # 0
  BY TakenFacts, TaskTypes, CallCounted
<1>2. CASE Finish("Ok") /\ UNCHANGED <<sessionVars, delivered>>
  BY <1>1, <1>2, SessionSame, FinishOnce
<1>3. CASE /\ p.qos # "AtMostOnce" /\ HandlePublish(p.qos, p.id) /\ UNCHANGED <<calls, delivered>>
           /\ \/ /\ p.qos = "AtLeastOnce" /\ UNCHANGED call
                 /\ out' = Writing(Packet("Puback", p.id), "Idle", p.msg, TRUE)
              \/ /\ p.qos # "AtLeastOnce"
                 /\ out' = Writing(Packet("Pubrec", p.id), "AwaitPubrel", 0, FALSE)
                 /\ call' = [call EXCEPT !.id = p.id, !.msg = Given(p)]
  <2>1. CASE /\ p.qos = "AtLeastOnce" /\ UNCHANGED call
             /\ out' = Writing(Packet("Puback", p.id), "Idle", p.msg, TRUE)
    <3>1. out'.msg = Given(p) /\ call'.msg = call.msg
      BY <2>1 DEF Writing, Given
    <3>2. FlowsKept /\ (\A m \in Messages : Stays(m) \/ Arrives(m))
      BY <1>3, <3>1, PublishOpens, GivenArrives
    <3>3. MessageKept' /\ Unconnected'
      BY <1>1, <1>3, <2>1 DEF MessageKept, Unconnected
    <3>4. TaskEffect
      BY <1>1, <3>2 DEF TaskEffect
    <3> QED
      BY <3>3, <3>4, TaskOnce
  <2>2. CASE /\ p.qos # "AtLeastOnce"
             /\ out' = Writing(Packet("Pubrec", p.id), "AwaitPubrel", 0, FALSE)
             /\ call' = [call EXCEPT !.id = p.id, !.msg = Given(p)]
    <3>1. out'.msg = 0 /\ out'.then = "AwaitPubrel" /\ out'.packet.type = "Pubrec"
      BY <2>2 DEF Writing, Packet
    <3>2. out' # NoWrite
      BY <3>1 DEF NoWrite, Writing
    <3>3. call'.msg = Given(p) /\ call'.at = "RecvPublish"
      BY <1>1, <2>2 DEF Calls
    <3>4. FlowsKept /\ (\A m \in Messages : Stays(m) \/ Arrives(m))
      BY <1>3, <3>1, <3>3, PublishOpens, GivenArrives
    <3>5. MessageKept' /\ Unconnected'
      BY <1>1, <1>3, <3>1, <3>2, <3>3 DEF MessageKept, Unconnected
    <3>6. TaskEffect
      BY <1>1, <3>4 DEF TaskEffect
    <3> QED
      BY <3>5, <3>6, TaskOnce
  <2> QED
    BY <1>3, <2>1, <2>2
<1>4. CASE Fail("FlowControl") /\ UNCHANGED delivered
  BY <1>1, <1>4, FailOnce DEF Fail
<1> QED
  BY <1>2, <1>3, <1>4 DEF ReceivePublish

LEMMA RecvPublishOnce ==
    ASSUME TokioInv, TokioInv', OnceInv, Lasting, Taken, RecvPublish(Head(toClient))
    PROVE  OnceInv'
<1>1. call.at = "RecvPublish" /\ call.at \in Handling
  BY DEF RecvPublish, Handling
<1> QED
  BY <1>1, ReceivePublishOnce, HandleIncomingOnce DEF RecvPublish

\* recv_publish reads the PUBREL: the message it kept is given with the PUBCOMP.
LEMMA RecvPublishPubrelOnce ==
    ASSUME TokioInv, TokioInv', OnceInv, Lasting, Taken, RecvPublishPubrel(Head(toClient))
    PROVE  OnceInv'
<1> DEFINE p == Head(toClient)
<1>1. /\ TakesHead /\ out = NoWrite /\ UNCHANGED <<serverFlow, published, delivered>>
      /\ call.at = "AwaitPubrel" /\ calls # 0
  BY TakenFacts, CallCounted DEF RecvPublishPubrel
<1>2. CASE /\ p.type = "Pubrel" /\ HandlePubrel(p.id) /\ UNCHANGED <<call, calls>>
           /\ out' = Writing(Packet("Pubcomp", p.id),
                            IF call.msg = 0 THEN "RecvPublish" ELSE "Idle", call.msg, TRUE)
  <2>1. out'.msg = call.msg /\ (call.msg # 0 => out'.then = "Idle")
    BY <1>2 DEF Writing
  <2>2. FlowsKept
    BY <1>2, PubrelEnds
  <2>3. MessageKept' /\ Unconnected'
    BY <1>1, <1>2, <2>1 DEF MessageKept, Unconnected
  <2> QED
    BY <1>1, <1>2, <2>1, <2>2, <2>3, QuietOnce
<1>3. CASE FailDropping("UnexpectedPacket", {p})
  BY <1>1, <1>3, FailOnce
<1> QED
  BY <1>2, <1>3 DEF RecvPublishPubrel

LEMMA ReadPacketOnce ==
    ASSUME TokioInv, TokioInv', OnceInv, Lasting, ReadPacket, setting' = setting
    PROVE  OnceInv'
<1>1. Taken
  BY TaskTypes DEF ReadPacket, Taken
<1>2. call.at = "Loop" => call.at \in Handling
  BY DEF Handling
<1> QED
  BY <1>1, <1>2, ConnackReadOnce, AwaitPubackOnce, AwaitQos2CompletionOnce,
     AwaitRequestAckOnce, RecvPublishOnce, RecvPublishPubrelOnce, HandleIncomingOnce
     DEF ReadPacket


-----------------------------------------------------------------------------
(***************************************************************************)
(* The server and the stream                                               *)
(***************************************************************************)

\* A step of the server does not touch what the client knows and holds.
LEMMA ClientKeeps ==
    ASSUME ClientUnchanged
    PROVE  /\ UNCHANGED <<incoming, connectionState, call, out, calls, delivered, forgotten>>
           /\ \A m \in Messages : GivenTo(m)' = GivenTo(m) /\ InHand(m)' = InHand(m)
           /\ MessageKept' = MessageKept
<1>1. UNCHANGED <<incoming, connectionState, call, out, calls, delivered, forgotten>>
  BY SessionSame DEF ClientUnchanged, taskVars, lossVars
<1> QED
  BY <1>1 DEF GivenTo, InHand, MessageKept

\* Positions in a queue with a packet more
LEMMA SentAt ==
    ASSUME NEW S, NEW queue \in Seq(S), NEW p \in S
    PROVE  /\ Len(queue) \in Nat /\ DOMAIN queue = 1..Len(queue)
           /\ Append(queue, p) \in Seq(S)
           /\ DOMAIN Append(queue, p) = 1..(Len(queue) + 1)
           /\ \A i \in DOMAIN Append(queue, p) : i \in DOMAIN queue \/ i = Len(queue) + 1
           /\ \A i \in DOMAIN queue : Append(queue, p)[i] = queue[i]
           /\ Append(queue, p)[Len(queue) + 1] = p
<1>1. /\ Len(queue) \in Nat /\ DOMAIN queue = 1..Len(queue)
      /\ Append(queue, p) \in Seq(S) /\ Len(Append(queue, p)) = Len(queue) + 1
      /\ \A i \in 1..Len(queue) : Append(queue, p)[i] = queue[i]
      /\ Append(queue, p)[Len(queue) + 1] = p
  BY LenProperties, AppendProperties
<1>2. DOMAIN Append(queue, p) = 1..(Len(queue) + 1)
  BY <1>1, LenProperties
<1>3. \A i \in 1..(Len(queue) + 1) : i \in 1..Len(queue) \/ i = Len(queue) + 1
  BY <1>1
<1> QED
  BY <1>1, <1>2, <1>3, Zenon

\* The server sends a packet that ends no flow it may still repeat.
LEMMA FlowSent ==
    ASSUME TokioInv, NEW id \in PacketIds, FlowOnce(id), Pending(id), ClientUnchanged,
           NEW p \in ToClientPackets, toClient' = Append(toClient, p),
           serverFlow'[id].msg = serverFlow[id].msg,
           serverFlow'[id].released \/ (~serverFlow[id].released /\ ~Removes(p, id)),
           Carries(p, serverFlow[id].msg) => ~serverFlow[id].released
    PROVE  FlowOnce(id)'
<1> DEFINE m == serverFlow[id].msg
           q == toClient
           n == Len(toClient) + 1
<1>1. /\ q \in Seq(ToClientPackets) /\ m \in Messages
  BY QueueTyped, PendingMessage
<1>2. /\ Len(q) \in Nat /\ DOMAIN q = 1..Len(q) /\ DOMAIN toClient' = 1..n
      /\ \A i \in DOMAIN toClient' : i \in DOMAIN q \/ i = n
      /\ \A i \in DOMAIN q : toClient'[i] = q[i]
      /\ toClient'[n] = p
  BY <1>1, SentAt
<1>3. /\ UNCHANGED <<incoming, delivered>> /\ GivenTo(m)' = GivenTo(m)
      /\ InHand(m)' = InHand(m)
  BY <1>1, ClientKeeps
<1>4. serverFlow'[id].msg = m
  OBVIOUS
<1>5. GivenOnce(id)'
  BY <1>3, <1>4 DEF FlowOnce, GivenOnce, InHand
<1>6. ~serverFlow'[id].released => ~serverFlow[id].released /\ ~Removes(p, id)
  OBVIOUS
<1>7. \A j \in DOMAIN toClient' : \A k \in 1..(j - 1) : k \in DOMAIN q /\ toClient'[k] = q[k]
  BY <1>2
<1>8. KnownAgain(id)'
  <2>1. ASSUME GivenTo(m), NEW j \in DOMAIN toClient', Carries(toClient'[j], m)
        PROVE  /\ incoming[id] = "AwaitingPubrel"
               /\ \A k \in 1..(j - 1) : ~Removes(toClient'[k], id)
    <3>1. CASE j \in DOMAIN q
      BY <1>2, <1>7, <2>1, <3>1 DEF FlowOnce, KnownAgain
    <3>2. CASE j = n
      <4>1. ~serverFlow[id].released
        BY <1>2, <2>1, <3>2
      <4>2. incoming[id] = "AwaitingPubrel" /\ \A k \in DOMAIN q : ~Removes(q[k], id)
        BY <2>1, <4>1 DEF FlowOnce, KnownAgain
      <4> QED
        BY <1>7, <4>2
    <3> QED
      BY <1>2, <3>1, <3>2
  <2>2. ASSUME GivenTo(m), ~serverFlow'[id].released
        PROVE  /\ incoming[id] = "AwaitingPubrel"
               /\ \A k \in DOMAIN toClient' : ~Removes(toClient'[k], id)
    <3>1. incoming[id] = "AwaitingPubrel" /\ \A k \in DOMAIN q : ~Removes(q[k], id)
      BY <1>6, <2>2 DEF FlowOnce, KnownAgain
    <3> QED
      BY <1>2, <1>6, <2>2, <3>1
  <2> QED
    BY <1>3, <1>4, <2>1, <2>2 DEF KnownAgain, GivenTo, InHand
<1>9. Uninterrupted(id)'
  <2>1. ASSUME NEW i \in DOMAIN toClient', NEW j \in DOMAIN toClient',
               Carries(toClient'[i], m), Carries(toClient'[j], m), NEW k \in (i + 1)..(j - 1)
        PROVE  ~Removes(toClient'[k], id)
    <3>1. i \in DOMAIN q /\ k \in DOMAIN q /\ k > i /\ toClient'[k] = q[k]
          /\ Carries(q[i], m)
      BY <1>2, <2>1
    <3>2. CASE j \in DOMAIN q
      BY <1>2, <2>1, <3>1, <3>2 DEF FlowOnce, Uninterrupted
    <3>3. CASE j = n
      <4>1. ~serverFlow[id].released
        BY <1>2, <2>1, <3>3
      <4> QED
        BY <3>1, <4>1 DEF FlowOnce, Uninterrupted
    <3> QED
      BY <1>2, <3>2, <3>3
  <2>2. ASSUME NEW i \in DOMAIN toClient', Carries(toClient'[i], m), ~serverFlow'[id].released,
               NEW k \in DOMAIN toClient', k > i
        PROVE  ~Removes(toClient'[k], id)
    <3>1. CASE k = n
      BY <1>2, <1>6, <2>2, <3>1
    <3>2. CASE k \in DOMAIN q
      <4>1. i \in DOMAIN q /\ Carries(q[i], m)
        BY <1>2, <2>2, <3>2
      <4> QED
        BY <1>2, <1>6, <2>2, <3>2, <4>1 DEF FlowOnce, Uninterrupted
    <3> QED
      BY <1>2, <3>1, <3>2
  <2> QED
    BY <1>4, <2>1, <2>2 DEF Uninterrupted
<1> QED
  BY <1>5, <1>8, <1>9 DEF FlowOnce

\* The server sends no packet, and what it sent may be lost.
LEMMA QuietServerOnce ==
    ASSUME TokioInv, OnceInv, UNCHANGED <<incoming, connectionState, call, out, calls>>,
           UNCHANGED <<serverFlow, published, delivered, forgotten>>, toClient' \in {toClient, << >>}
    PROVE  OnceInv'
<1>1. CASE toClient' = toClient
  BY <1>1 DEF OnceInv, Numbered, MessageKept, Unconnected, GivenTo, InHand, Pending,
     FlowOnce, GivenOnce, KnownAgain, Uninterrupted
<1>2. CASE toClient' = << >>
  <2>1. DOMAIN toClient' = {}
    BY <1>2
  <2>2. Numbered'
    BY <2>1 DEF OnceInv, Numbered, GivenTo, InHand
  <2>3. MessageKept' /\ Unconnected'
    BY DEF OnceInv, MessageKept, Unconnected
  <2>4. ASSUME NEW id \in PacketIds, Pending(id)' PROVE FlowOnce(id)'
    <3>1. FlowOnce(id)
      BY <2>4 DEF OnceInv, Pending
    <3> QED
      BY <2>1, <3>1 DEF FlowOnce, GivenOnce, KnownAgain, Uninterrupted, GivenTo, InHand
  <2> QED
    BY <2>2, <2>3, <2>4 DEF OnceInv
<1> QED
  BY <1>1, <1>2

\* The server repeats a PUBLISH that was not acknowledged.
LEMMA ServerRepeatsOnce ==
    ASSUME TokioInv, OnceInv, NEW id \in PacketIds, ServerRepeats(id)
    PROVE  OnceInv'
<1> DEFINE p == PublishPacket(serverFlow[id].qos, id, serverFlow[id].msg)
<1>1. /\ ClientUnchanged /\ serverFlow[id].msg # 0 /\ ~serverFlow[id].released
      /\ UNCHANGED <<serverFlow, published>> /\ toClient' = Append(toClient, p)
      /\ Numbered /\ toClient \in Seq(ToClientPackets)
  BY QueueTyped DEF ServerRepeats, OnceInv
<1>2. p \in ToClientPackets
  <2>1. serverFlow[id].qos \in QoSLevels /\ serverFlow[id].msg \in 0..MaxPublishes
    BY QueueTyped
  <2>2. id \in 0..U16Max /\ id # 0
    BY U16MaxAssumption DEF PacketIds
  <2> QED
    BY <1>1, <2>1, <2>2 DEF PublishPacket, ToClientPackets, PacketsOf, ToClientTypes
<1>3. /\ p.type = "Publish" /\ p.id = id /\ p.msg = serverFlow[id].msg
      /\ p.qos = serverFlow[id].qos
  BY DEF PublishPacket
<1>4. \A i \in DOMAIN toClient' :
         toClient'[i] = p \/ \E j \in DOMAIN toClient : toClient'[i] = toClient[j]
  BY <1>1, <1>2, SentAt
<1>5. Numbered'
  <2>1. \A m \in Messages : GivenTo(m)' => m <= published'
    BY <1>1, ClientKeeps DEF Numbered
  <2>2. \A i \in DOMAIN toClient' : toClient'[i].type = "Publish" => toClient'[i].msg <= published'
    BY <1>1, <1>3, <1>4 DEF Numbered
  <2>3. \A i \in DOMAIN toClient', other \in PacketIds :
            serverFlow[other].msg # 0 /\ Carries(toClient'[i], serverFlow[other].msg) =>
                toClient'[i].id = other /\ toClient'[i].qos = serverFlow[other].qos
    <3> SUFFICES ASSUME NEW i \in DOMAIN toClient', NEW other \in PacketIds,
                        serverFlow[other].msg # 0,
                        Carries(toClient'[i], serverFlow[other].msg)
                 PROVE  toClient'[i].id = other /\ toClient'[i].qos = serverFlow[other].qos
      OBVIOUS
    <3>1. CASE toClient'[i] = p
      BY <1>1, <1>3, <3>1 DEF Numbered, Carries
    <3>2. CASE \E j \in DOMAIN toClient : toClient'[i] = toClient[j]
      BY <1>1, <3>2 DEF Numbered
    <3> QED
      BY <1>4, <3>1, <3>2
  <2> QED
    BY <1>1, <2>1, <2>2, <2>3 DEF Numbered
<1>6. ASSUME NEW other \in PacketIds, Pending(other)'
      PROVE  FlowOnce(other)'
  <2>1. Pending(other) /\ FlowOnce(other) /\ serverFlow'[other] = serverFlow[other]
    BY <1>1, <1>6, ClientKeeps DEF OnceInv, Pending
  <2>2. ~Removes(p, other)
    BY <1>3, <2>1 DEF Removes, Pending
  <2>3. Carries(p, serverFlow[other].msg) => ~serverFlow[other].released
    BY <1>1, <1>3, <2>1 DEF Carries, Numbered, Pending
  <2> QED
    BY <1>1, <1>2, <2>1, <2>2, <2>3, FlowSent
<1>7. MessageKept' /\ Unconnected'
  BY <1>1, ClientKeeps DEF OnceInv, Unconnected
<1> QED
  BY <1>5, <1>6, <1>7 DEF OnceInv


\* The server publishes a new message, which nobody was given.
LEMMA ServerPublishesOnce ==
    ASSUME TokioInv, TokioInv', OnceInv, Lasting, NEW qos \in QoSLevels, NEW id \in PacketIds,
           ServerPublishes(qos, id)
    PROVE  OnceInv'
<1> DEFINE new == published + 1
           p == PublishPacket(qos, id, new)
<1>1. /\ ClientUnchanged /\ published < MaxPublishes /\ published' = new
      /\ connectionState = "Connected"
      /\ toClient' = Append(toClient, p)
      /\ serverFlow[id].msg = 0
      /\ serverFlow' = [serverFlow EXCEPT ![id] =
                           [qos |-> qos, msg |-> new, released |-> FALSE]]
      /\ Numbered /\ MessageKept /\ Unconnected
  BY DEF ServerPublishes, OnceInv
<1>2. /\ published \in Nat /\ new \in Messages /\ new \in 0..MaxPublishes /\ new # 0
      /\ new > published
  BY <1>1, QueueTyped
<1>3. id \in 0..U16Max /\ id # 0
  BY U16MaxAssumption DEF PacketIds
<1>4. p \in ToClientPackets
  BY <1>2, <1>3 DEF PublishPacket, ToClientPackets, PacketsOf, ToClientTypes
<1>5. p.type = "Publish" /\ p.id = id /\ p.msg = new /\ p.qos = qos
  BY DEF PublishPacket
<1>6. \A i \in DOMAIN toClient' :
         toClient'[i] = p \/ \E j \in DOMAIN toClient : toClient'[i] = toClient[j]
  BY <1>1, <1>4, QueueTyped, SentAt
<1>7. \A other \in PacketIds :
          \/ serverFlow'[other] = serverFlow[other] /\ other # id
          \/ other = id
             /\ serverFlow'[other] = [qos |-> qos, msg |-> new, released |-> FALSE]
  BY <1>1, QueueTyped
<1>8. /\ \A other \in PacketIds : serverFlow[other].msg \in Nat /\ serverFlow[other].msg < new
      /\ \A j \in DOMAIN toClient : toClient[j].msg \in Nat
            /\ (toClient[j].type = "Publish" => toClient[j].msg < new)
      /\ \A m \in Messages : m \in Nat
  <2>1. /\ \A other \in PacketIds : serverFlow[other].msg \in 0..MaxPublishes
        /\ \A j \in DOMAIN toClient : toClient[j].msg \in 0..MaxPublishes
        /\ Messages = 1..MaxPublishes
    BY QueueTyped DEF ToClientPackets, PacketsOf
  <2>2. \A n \in 0..MaxPublishes : n \in Nat /\ (n <= published => n < new)
    BY <1>2, QueueTyped
  <2>3. \A m \in 1..MaxPublishes : m \in Nat
    BY QueueTyped
  <2> QED
    BY <1>1, <2>1, <2>2, <2>3 DEF Numbered
<1>9. ~GivenTo(new) /\ delivered[new] = 0 /\ ~InHand(new)
  <2>1. ~GivenTo(new)
    BY <1>1, <1>2 DEF Numbered
  <2>2. delivered[new] \in Nat
    BY <1>2, QueueTyped
  <2> QED
    BY <2>1, <2>2 DEF GivenTo
<1>10. Numbered'
  <2>1. \A m \in Messages : GivenTo(m)' => m <= published'
    BY <1>1, <1>2, <1>8, ClientKeeps DEF Numbered
  <2>2. \A i \in DOMAIN toClient' : toClient'[i].type = "Publish" => toClient'[i].msg <= published'
    BY <1>1, <1>2, <1>5, <1>6, <1>8
  <2>3. \A other \in PacketIds : serverFlow'[other].msg <= published'
    BY <1>1, <1>2, <1>7, <1>8
  <2>4. \A one, other \in PacketIds :
           serverFlow'[one].msg = serverFlow'[other].msg /\ serverFlow'[one].msg # 0 => one = other
    BY <1>1, <1>2, <1>7, <1>8 DEF Numbered
  <2>5. ASSUME NEW i \in DOMAIN toClient', NEW other \in PacketIds,
               serverFlow'[other].msg # 0, Carries(toClient'[i], serverFlow'[other].msg)
        PROVE  toClient'[i].id = other /\ toClient'[i].qos = serverFlow'[other].qos
    <3>1. CASE toClient'[i] = p
      <4>1. serverFlow'[other].msg = new
        BY <1>5, <2>5, <3>1 DEF Carries
      <4>2. other = id /\ serverFlow'[other].qos = qos
        BY <1>2, <1>7, <1>8, <4>1
      <4> QED
        BY <1>5, <3>1, <4>2
    <3>2. CASE \E j \in DOMAIN toClient : toClient'[i] = toClient[j]
      <4>1. PICK j \in DOMAIN toClient : toClient'[i] = toClient[j]
        BY <3>2
      <4>2. serverFlow'[other].msg < new
        BY <1>8, <2>5, <4>1 DEF Carries
      <4>3. serverFlow'[other] = serverFlow[other]
        BY <1>2, <1>7, <4>2
      <4> QED
        BY <1>1, <2>5, <4>1, <4>3 DEF Numbered
    <3> QED
      BY <1>6, <3>1, <3>2
  <2> QED
    BY <2>1, <2>2, <2>3, <2>4, <2>5 DEF Numbered
<1>11. ASSUME NEW other \in PacketIds, Pending(other)'
       PROVE  FlowOnce(other)'
  <2>1. CASE other # id
    <3>1. Pending(other) /\ FlowOnce(other) /\ serverFlow'[other] = serverFlow[other]
      BY <1>1, <1>7, <1>11, <2>1, ClientKeeps DEF OnceInv, Pending
    <3>2. ~Removes(p, other) /\ ~Carries(p, serverFlow[other].msg)
      BY <1>5, <1>8, <2>1 DEF Removes, Carries
    <3> QED
      BY <1>1, <1>4, <3>1, <3>2, QueueTyped, FlowSent
  <2>2. CASE other = id
    <3>1. serverFlow'[other] = [qos |-> qos, msg |-> new, released |-> FALSE]
      BY <1>7, <2>2
    <3>2. serverFlow'[other].msg = new
      BY <3>1
    <3>3. delivered'[new] = 0 /\ call'.msg # new /\ out'.msg # new
      BY <1>1, <1>9, ClientKeeps DEF InHand
    <3>4. ~(delivered'[new] > 0) /\ delivered'[new] <= 1
      BY <3>3
    <3>5. GivenOnce(other)' /\ KnownAgain(other)'
      BY <3>2, <3>3, <3>4 DEF GivenOnce, KnownAgain, GivenTo, InHand
    <3>6. Uninterrupted(other)'
      <4>1. /\ Len(toClient) \in Nat /\ DOMAIN toClient' = 1..(Len(toClient) + 1)
            /\ \A i \in DOMAIN toClient' : i \in DOMAIN toClient \/ i = Len(toClient) + 1
            /\ \A i \in DOMAIN toClient : toClient'[i] = toClient[i]
        BY <1>1, <1>4, QueueTyped, SentAt
      <4>2. \A i \in DOMAIN toClient' : Carries(toClient'[i], new) => i = Len(toClient) + 1
        BY <1>2, <1>8, <4>1 DEF Carries
      <4>3. \A i, j \in DOMAIN toClient' : Carries(toClient'[i], new) /\ Carries(toClient'[j], new)
               => (i + 1)..(j - 1) = {}
        BY <4>1, <4>2
      <4>4. \A i, k \in DOMAIN toClient' : Carries(toClient'[i], new) => ~(k > i)
        BY <4>1, <4>2
      <4> QED
        BY <3>2, <4>3, <4>4 DEF Uninterrupted
    <3> QED
      BY <3>5, <3>6 DEF FlowOnce
  <2> QED
    BY <2>1, <2>2
<1>12. MessageKept' /\ Unconnected'
  BY <1>1, ClientKeeps DEF Unconnected
<1> QED
  BY <1>10, <1>11, <1>12 DEF OnceInv

\* The server sends a packet that carries no message which is followed, and
\* forgets a flow or marks it.
LEMMA AnswerOnce ==
    ASSUME TokioInv, OnceInv, ClientUnchanged, published' = published,
           NEW p \in ToClientPackets, p.type = "Publish" => p.msg = 0,
           toClient' = Append(toClient, p),
           \A id \in PacketIds :
              \/ serverFlow'[id].msg = 0
              \/ /\ serverFlow'[id].msg = serverFlow[id].msg
                 /\ serverFlow'[id].qos = serverFlow[id].qos
                 /\ \/ serverFlow'[id].released
                    \/ ~serverFlow[id].released /\ ~Removes(p, id)
    PROVE  OnceInv'
<1>1. \A i \in DOMAIN toClient' :
         \/ toClient'[i] = p
         \/ \E j \in DOMAIN toClient : toClient'[i] = toClient[j]
  BY QueueTyped, SentAt
<1>2. Numbered /\ MessageKept /\ Unconnected
  BY DEF OnceInv
<1>3. published \in Nat /\ 0 <= published
  BY QueueTyped
<1>4. Numbered'
  <2>1. \A m \in Messages : GivenTo(m)' => m <= published'
    BY <1>2, ClientKeeps DEF Numbered
  <2>2. \A i \in DOMAIN toClient' : toClient'[i].type = "Publish" => toClient'[i].msg <= published'
    BY <1>1, <1>2, <1>3 DEF Numbered
  <2>3. \A id \in PacketIds : serverFlow'[id].msg <= published'
    BY <1>2, <1>3 DEF Numbered
  <2>4. \A one, other \in PacketIds :
           serverFlow'[one].msg = serverFlow'[other].msg /\ serverFlow'[one].msg # 0 => one = other
    BY <1>2 DEF Numbered
  <2>5. ASSUME NEW i \in DOMAIN toClient', NEW id \in PacketIds,
               serverFlow'[id].msg # 0, Carries(toClient'[i], serverFlow'[id].msg)
        PROVE  toClient'[i].id = id /\ toClient'[i].qos = serverFlow'[id].qos
    <3>1. PICK j \in DOMAIN toClient : toClient'[i] = toClient[j]
      BY <1>1, <2>5 DEF Carries
    <3> QED
      BY <1>2, <2>5, <3>1 DEF Numbered
  <2> QED
    BY <2>1, <2>2, <2>3, <2>4, <2>5 DEF Numbered
<1>5. ASSUME NEW id \in PacketIds, Pending(id)'
      PROVE  FlowOnce(id)'
  <2>1. /\ serverFlow'[id].msg = serverFlow[id].msg
        /\ serverFlow'[id].released \/ (~serverFlow[id].released /\ ~Removes(p, id))
        /\ Pending(id)
    BY <1>5, ClientKeeps DEF Pending
  <2>2. FlowOnce(id) /\ ~Carries(p, serverFlow[id].msg)
    BY <2>1 DEF OnceInv, Carries, Pending
  <2> QED
    BY <2>1, <2>2, FlowSent
<1>6. MessageKept' /\ Unconnected'
  BY <1>2, ClientKeeps DEF Unconnected
<1> QED
  BY <1>4, <1>5, <1>6 DEF OnceInv

\* The server forgets a flow and sends nothing.
LEMMA ForgetOnce ==
    ASSUME TokioInv, OnceInv, ClientUnchanged, published' = published, toClient' = toClient,
           \A id \in PacketIds : serverFlow'[id].msg = 0 \/ serverFlow'[id] = serverFlow[id]
    PROVE  OnceInv'
<1>1. Numbered /\ MessageKept /\ Unconnected
  BY DEF OnceInv
<1>2. published \in Nat /\ 0 <= published
  BY QueueTyped
<1>3. Numbered'
  <2>1. \A m \in Messages : GivenTo(m)' => m <= published'
    BY <1>1, ClientKeeps DEF Numbered
  <2>2. \A id \in PacketIds : serverFlow'[id].msg <= published'
    BY <1>1, <1>2 DEF Numbered
  <2>3. \A one, other \in PacketIds :
           serverFlow'[one].msg = serverFlow'[other].msg /\ serverFlow'[one].msg # 0 => one = other
    BY <1>1 DEF Numbered
  <2>4. \A i \in DOMAIN toClient, id \in PacketIds :
            serverFlow'[id].msg # 0 /\ Carries(toClient[i], serverFlow'[id].msg) =>
                toClient[i].id = id /\ toClient[i].qos = serverFlow'[id].qos
    BY <1>1 DEF Numbered
  <2> QED
    BY <1>1, <2>1, <2>2, <2>3, <2>4 DEF Numbered
<1>4. ASSUME NEW id \in PacketIds, Pending(id)'
      PROVE  FlowOnce(id)'
  <2>1. serverFlow'[id] = serverFlow[id] /\ Pending(id) /\ FlowOnce(id)
    BY <1>4, ClientKeeps DEF Pending, OnceInv
  <2>2. UNCHANGED <<incoming, call, out, delivered>>
    BY ClientKeeps
  <2> QED
    BY <2>1, <2>2 DEF FlowOnce, GivenOnce, KnownAgain, Uninterrupted, GivenTo, InHand
<1>5. MessageKept' /\ Unconnected'
  BY <1>1, ClientKeeps DEF Unconnected
<1> QED
  BY <1>3, <1>4, <1>5 DEF OnceInv


\* What the server answers with
LEMMA AnswerKinds ==
    ASSUME NEW p \in ToServerPackets, NEW answer \in Answers(p)
    PROVE  /\ \/ answer = << >>
              \/ /\ answer[1] \in ToClientPackets /\ answer = <<answer[1]>>
                 /\ answer[1].type # "Publish"
                 /\ answer[1].type = "Pubrel" => p.type = "Pubrec" /\ answer[1].id = p.id
           /\ p.type \in {"Puback", "Pubcomp"} => answer = << >>
           /\ p.type = "Pubrec" => answer # << >>
<1>1. p.type \in ToServerTypes /\ answer \in Seq(ToClientPackets)
  BY AnswersTyped DEF ToServerPackets, PacketsOf
<1>2. \/ answer = << >>
      \/ \E a : /\ answer = <<a>> /\ a.type # "Publish"
                /\ a.type = "Pubrel" => p.type = "Pubrec" /\ a.id = p.id
  <2>1. CASE p.type = "Publish"
    BY <2>1 DEF Answers, Packet
  <2>2. CASE p.type \in {"Connect", "Pubrel", "Unsubscribe", "Pingreq", "Pubrec"}
    BY <2>2 DEF Answers, Packet
  <2>3. CASE p.type = "Subscribe"
    BY <2>3 DEF Answers, Packet
  <2>4. CASE p.type \in {"Puback", "Pubcomp", "Disconnect"}
    BY <2>4 DEF Answers
  <2> QED
    BY <1>1, <2>1, <2>2, <2>3, <2>4 DEF ToServerTypes, AnswerTypes
<1>3. ASSUME NEW a, answer = <<a>>
      PROVE  answer[1] = a /\ a \in ToClientPackets
  <2>1. Len(answer) = 1 /\ answer[1] = a
    BY <1>3
  <2> QED
    BY <1>1, <2>1, ElementOfSeq
<1>4. p.type \in {"Puback", "Pubcomp"} => answer = << >>
  BY DEF Answers
<1>5. p.type = "Pubrec" => answer # << >>
  BY DEF Answers
<1> QED
  BY <1>2, <1>3, <1>4, <1>5

\* The server takes a packet: its PUBREL follows every PUBLISH of the flow.
LEMMA ServerHandlesOnce ==
    ASSUME TokioInv, OnceInv, ServerHandles
    PROVE  OnceInv'
<1> DEFINE p == Head(toServer)
<1>1. /\ ClientUnchanged /\ published' = published /\ toServer # << >>
      /\ toServer \in Seq(ToServerPackets) /\ toClient \in Seq(ToClientPackets)
  BY TaskTypes DEF ServerHandles
<1>2. PICK answer \in Answers(p) : toClient' = toClient \o answer
  BY DEF ServerHandles
<1>3. p \in ToServerPackets
  BY <1>1, HeadTailProperties
<1>4. p.type \in AnswerTypes => p.id \in PacketIds
  BY <1>3, U16MaxAssumption DEF ToServerPackets, PacketsOf, PacketIds
<1>5. /\ p.type \in {"Puback", "Pubcomp"} =>
            serverFlow' = [serverFlow EXCEPT ![p.id] = NoServerFlow]
      /\ p.type = "Pubrec" => serverFlow' = [serverFlow EXCEPT ![p.id].released = TRUE]
      /\ p.type \notin {"Puback", "Pubrec", "Pubcomp"} => serverFlow' = serverFlow
  BY DEF ServerHandles
<1>6. ASSUME p.type # "Pubrec", NEW id \in PacketIds
      PROVE  serverFlow'[id].msg = 0 \/ serverFlow'[id] = serverFlow[id]
  <2>1. CASE p.type \in {"Puback", "Pubcomp"} /\ p.id = id
    BY <1>5, <2>1, QueueTyped DEF NoServerFlow
  <2>2. CASE ~(p.type \in {"Puback", "Pubcomp"} /\ p.id = id)
    BY <1>5, <1>6, <2>2, QueueTyped
  <2> QED
    BY <2>1, <2>2
<1>7. CASE answer = << >>
  <2>1. toClient' = toClient /\ p.type # "Pubrec"
    BY <1>1, <1>2, <1>3, <1>7, AnswerKinds, ConcatEmptySeq
  <2> QED
    BY <1>1, <1>6, <2>1, ForgetOnce
<1>8. CASE answer # << >>
  <2> DEFINE a == answer[1]
  <2>1. /\ a \in ToClientPackets /\ a.type # "Publish" /\ answer = <<a>>
        /\ a.type = "Pubrel" => p.type = "Pubrec" /\ a.id = p.id
        /\ p.type \notin {"Puback", "Pubcomp"}
    BY <1>3, <1>8, AnswerKinds
  <2>2. toClient' = Append(toClient, a)
    BY <1>1, <1>2, <2>1, AppendIsConcat
  <2>3. ASSUME NEW id \in PacketIds
        PROVE  /\ serverFlow'[id].msg = serverFlow[id].msg
               /\ serverFlow'[id].qos = serverFlow[id].qos
               /\ \/ serverFlow'[id].released
                  \/ ~serverFlow[id].released /\ ~Removes(a, id)
    <3>1. serverFlow[id] \in [qos : QoSLevels, msg : 0..MaxPublishes, released : BOOLEAN]
      BY QueueTyped
    <3>2. CASE p.type = "Pubrec" /\ p.id = id
      <4>1. serverFlow'[id] = [serverFlow[id] EXCEPT !.released = TRUE]
        BY <1>5, <3>2, QueueTyped
      <4> QED
        BY <3>1, <4>1
    <3>3. CASE ~(p.type = "Pubrec" /\ p.id = id)
      <4>1. serverFlow'[id] = serverFlow[id]
        BY <1>5, <2>1, <3>3, QueueTyped
      <4>2. ~Removes(a, id)
        BY <2>1, <3>3 DEF Removes
      <4> QED
        BY <3>1, <4>1, <4>2
    <3> QED
      BY <3>2, <3>3
  <2> QED
    BY <1>1, <2>1, <2>2, <2>3, AnswerOnce
<1> QED
  BY <1>7, <1>8

\* A message with QoS 0 is none that is followed.
LEMMA ServerStreamsOnce ==
    ASSUME TokioInv, OnceInv, ServerStreams
    PROVE  OnceInv'
<1> DEFINE p == PublishPacket("AtMostOnce", 0, 0)
<1>1. /\ ClientUnchanged /\ UNCHANGED <<serverFlow, published>>
      /\ toClient' = Append(toClient, p)
  BY DEF ServerStreams, serverVars
<1>2. 0 \in 0..U16Max /\ 0 \in 0..MaxPublishes
  BY U16MaxAssumption, TokioAssumption
<1>3. p \in ToClientPackets
  BY <1>2 DEF PublishPacket, ToClientPackets, PacketsOf, ToClientTypes, QoSLevels
<1>4. p.msg = 0 /\ p.type = "Publish" /\ p.qos = "AtMostOnce"
  BY DEF PublishPacket
<1>5. \A id \in PacketIds : ~Removes(p, id) /\ serverFlow[id].released \in BOOLEAN
  BY <1>4, QueueTyped DEF Removes
<1> QED
  BY <1>1, <1>3, <1>4, <1>5, AnswerOnce

\* The server leaves or dies, or the stream breaks.
LEMMA ServerGoneOnce ==
    ASSUME TokioInv, OnceInv, ServerLeaves \/ ServerDies \/ Break
    PROVE  OnceInv'
<1>1. CASE ServerLeaves
  <2> DEFINE p == Packet("Disconnect", 0)
  <2>1. /\ ClientUnchanged /\ UNCHANGED <<serverFlow, published>>
        /\ toClient' = Append(toClient, p)
    BY <1>1 DEF ServerLeaves, serverVars
  <2>2. 0 \in 0..U16Max /\ "Disconnect" \in ToClientTypes \ {"Publish"}
    BY U16MaxAssumption DEF ToClientTypes
  <2>3. p \in ToClientPackets
    BY <2>2, PlainPacketTyped
  <2>4. p.type = "Disconnect"
    BY DEF Packet
  <2>5. \A id \in PacketIds : ~Removes(p, id) /\ serverFlow[id].released \in BOOLEAN
    BY <2>4, QueueTyped DEF Removes
  <2> QED
    BY <2>1, <2>3, <2>4, <2>5, AnswerOnce
<1>2. CASE ServerDies \/ Break
  <2>1. /\ ClientUnchanged /\ UNCHANGED <<serverFlow, published>>
        /\ toClient' \in {toClient, << >>}
    BY <1>2 DEF ServerDies, Break, serverVars, wireVars
  <2> QED
    BY <2>1, ClientKeeps, QuietServerOnce
<1> QED
  BY <1>1, <1>2

LEMMA OnceInit ==
    ASSUME TokioInit PROVE OnceInv
<1>1. /\ call = NoCall /\ out = NoWrite /\ calls = 0 /\ published = 0 /\ toClient = << >>
      /\ serverFlow = [id \in PacketIds |-> NoServerFlow]
      /\ delivered = [m \in Messages |-> 0] /\ connectionState = "Disconnected"
  BY DEF TokioInit, SessionInit
<1>2. call.msg = 0 /\ out.msg = 0 /\ call.at = "Idle"
  BY <1>1 DEF NoCall, NoWrite, Writing
<1>3. \A id \in PacketIds : serverFlow[id].msg = 0
  BY <1>1 DEF NoServerFlow
<1>4. DOMAIN toClient = {}
  BY <1>1
<1>5. \A m \in Messages : ~GivenTo(m)
  <2>1. \A m \in Messages : m # 0
    BY TokioAssumption DEF Messages
  <2> QED
    BY <1>1, <1>2, <2>1 DEF GivenTo, InHand
<1>6. Numbered
  BY <1>1, <1>3, <1>4, <1>5 DEF Numbered
<1> QED
  BY <1>1, <1>2, <1>3, <1>6 DEF OnceInv, MessageKept, Unconnected, Pending


\* No step lets a forgotten flow be known again.
LEMMA ForgottenGrows ==
    ASSUME [TokioNext /\ UNCHANGED setting]_<<tokioVars, setting>>
    PROVE  Lasting
<1>1. ASSUME UNCHANGED lossVars PROVE Lasting
  BY <1>1 DEF lossVars, Lasting
<1>2. ASSUME NEW error, NEW packets, FailDropping(error, packets) PROVE Lasting
  BY <1>2 DEF FailDropping, Aborting, Lasting
<1>3. ASSUME NEW error, FailUnsettled(error) PROVE Lasting
  BY <1>3 DEF FailUnsettled, Lasting
<1>4. ASSUME NEW name, StartCall(name) PROVE Lasting
  BY <1>1, <1>4 DEF StartCall
<1>5. ASSUME Resume PROVE Lasting
  BY <1>1, <1>5 DEF Resume
<1>6. ASSUME NEW p, HandleIncoming(p) PROVE Lasting
  <2>1. HandleIncomingDisconnect => Lasting
    BY DEF HandleIncomingDisconnect, Aborting, Lasting
  <2> QED
    BY <1>3, <1>5, <1>6, <2>1 DEF HandleIncoming, HandleIncomingPublish, HandleIncomingPubrel
<1>7. ASSUME ReadPacket PROVE Lasting
  <2> DEFINE p == Head(toClient)
  <2>1. ConnackRead(p) => Lasting
    BY <1>1 DEF ConnackRead
  <2>2. AwaitPuback(p) \/ AwaitPubcomp(p) \/ AwaitQos2Completion(p) => Lasting
    BY <1>1, <1>2, <1>3, <1>6 DEF AwaitPuback, AwaitPubcomp, AwaitQos2Completion, AckRead, Fail
  <2>3. AwaitRequestAck(p) \/ RecvPublishPubrel(p) => Lasting
    BY <1>1, <1>2 DEF AwaitRequestAck, RecvPublishPubrel
  <2>4. RecvPublish(p) => Lasting
    BY <1>1, <1>2, <1>6 DEF RecvPublish, ReceivePublish, Fail
  <2> QED
    BY <1>6, <1>7, <2>1, <2>2, <2>3, <2>4 DEF ReadPacket
<1>8. ApplicationCalls => Lasting
  BY <1>1, <1>4 DEF ApplicationCalls, CallConnect, CallDisconnect, CallPublishQos0, CallPublish,
     CallSubscribe, CallUnsubscribe, AllocateFor, CallReceive
<1>9. TaskNext \/ CtrlC => Lasting
  <2>1. \A entries \in SubscribeRequests : RegisterSubscribe(entries) => Lasting
    BY <1>1 DEF RegisterSubscribe, Lasting
  <2>2. \A filters \in UnsubscribeRequests : RegisterUnsubscribe(filters) => Lasting
    BY <1>1 DEF RegisterUnsubscribe
  <2>3. \A retain \in BOOLEAN : WritePublish(retain) => Lasting
    BY <1>1, <1>2 DEF WritePublish, Fail
  <2>4. StartConnect \/ RegisterPublish \/ WaitOver \/ CtrlC => Lasting
    BY <1>1 DEF StartConnect, RegisterPublish, WaitOver, CtrlC
  <2>5. WriteSucceeds => Lasting
    BY DEF WriteSucceeds, Lasting
  <2>6. WriteFails \/ LoopHead \/ ReadEnd => Lasting
    BY <1>1, <1>2, <1>3 DEF WriteFails, LoopHead, ReadEnd, Fail
  <2> QED
    BY <1>7, <2>1, <2>2, <2>3, <2>4, <2>5, <2>6 DEF TaskNext
<1>10. UNCHANGED taskVars => Lasting
  BY <1>1 DEF taskVars
<1>11. ServerNext \/ Tick \/ UNCHANGED <<tokioVars, setting>> => Lasting
  BY <1>10 DEF ServerNext, ServerHandles, ServerPublishes, ServerStreams, ServerRepeats,
     ServerLeaves, ServerDies, Break, ClientUnchanged, Tick, tokioVars
<1> QED
  BY <1>8, <1>9, <1>11 DEF TokioNext

LEMMA OnceStep ==
    ASSUME TokioInv, TokioInv', OnceInv, Lasting,
           [TokioNext /\ UNCHANGED setting]_<<tokioVars, setting>>
    PROVE  OnceInv'
<1>1. CASE UNCHANGED <<tokioVars, setting>> \/ Tick
  <2>1. /\ UNCHANGED sessionVars /\ UNCHANGED <<call, out, calls, delivered, forgotten>>
        /\ UNCHANGED <<serverFlow, published, toClient>>
    BY <1>1 DEF tokioVars, Tick, taskVars, lossVars, serverVars, wireVars
  <2> QED
    BY <2>1, SessionSame, QuietServerOnce
<1>2. CASE ApplicationCalls
  <2>1. ASSUME NEW qos \in QoSLevels \ {"AtMostOnce"}, CallPublish(qos)
        PROVE  OnceInv'
    <3>1. "RegisterPublish" \in Registering
      BY DEF Registering
    <3> QED
      BY <2>1, <3>1, AllocateForOnce DEF CallPublish
  <2>2. ASSUME CallSubscribe \/ CallUnsubscribe
        PROVE  OnceInv'
    <3>1. "RegisterSubscribe" \in Registering /\ "RegisterUnsubscribe" \in Registering
      BY DEF Registering
    <3> QED
      BY <2>2, <3>1, AllocateForOnce DEF CallSubscribe, CallUnsubscribe
  <2> QED
    BY <1>2, <2>1, <2>2, CallConnectOnce, CallDisconnectOnce, CallPublishQos0Once,
       CallReceiveOnce DEF ApplicationCalls
<1>3. CASE TaskNext /\ setting' = setting
  BY <1>3, StartConnectOnce, RegisterPublishOnce, WritePublishOnce, RegisterSubscribeOnce,
     RegisterUnsubscribeOnce, WriteSucceedsOnce, WriteFailsOnce, LoopHeadOnce, WaitOverOnce,
     ReadEndOnce, ReadPacketOnce DEF TaskNext
<1>4. CASE ServerNext
  BY <1>4, ServerHandlesOnce, ServerGoneOnce, ServerPublishesOnce, ServerStreamsOnce,
     ServerRepeatsOnce DEF ServerNext
<1> QED
  BY <1>1, <1>2, <1>3, <1>4, CtrlCOnce DEF TokioNext

LEMMA OnceGiven ==
    ASSUME TokioInv, OnceInv
    PROVE  DeliveredOnce
<1> SUFFICES ASSUME NEW m \in Messages, delivered[m] > 1, m \notin forgotten,
                    NEW id \in PacketIds,
                    serverFlow[id].msg = m, serverFlow[id].qos = "ExactlyOnce"
             PROVE  FALSE
  BY DEF DeliveredOnce
<1>1. m # 0 /\ delivered[m] \in Nat
  BY QueueTyped
<1>2. Pending(id)
  BY <1>1 DEF Pending
<1>3. delivered[m] <= 1
  BY <1>2 DEF OnceInv, FlowOnce, GivenOnce
<1> QED
  BY <1>1, <1>3

-----------------------------------------------------------------------------
(***************************************************************************)
(* The theorems                                                            *)
(***************************************************************************)

LEMMA TokioInitInv == TokioInit => TokioInv
<1> SUFFICES ASSUME TokioInit PROVE TokioInv
  OBVIOUS
<1>1. /\ call = NoCall /\ reading = FALSE /\ wake = 0 /\ out = NoWrite
      /\ unsettled = {} /\ dropped = {} /\ forgotten = {} /\ calls = 0 /\ now = 0
      /\ toServer = << >> /\ toClient = << >> /\ open = TRUE /\ alive = TRUE
      /\ quietSince = 0 /\ published = 0 /\ completed = {} /\ setting \in Settings
      /\ serverFlow = [id \in PacketIds |-> NoServerFlow]
      /\ delivered = [m \in Messages |-> 0]
  BY DEF TokioInit
<1>2. SessionTypeOK
  BY SessionInitType DEF TokioInit
<1>3. inUse = {} /\ lastActivity = 0 /\ pingreqSentAt = None
  BY DEF TokioInit, SessionInit, PidInit, KaInit
<1>4. /\ call \in Calls /\ call.at = "Idle"
      /\ call.at \notin Owning \cup Looping \cup Registering \cup {"AwaitConnack"}
  BY <1>1, NoCallType, AwaitKinds DEF Registering
<1>5. 0 \in 0..setting.maxCalls
  <2>1. setting.maxCalls \in Nat
    BY <1>1, TokioAssumption
  <2> QED
    BY <2>1
<1>6. NoServerFlow \in [qos : QoSLevels, msg : 0..MaxPublishes, released : BOOLEAN]
  BY TokioAssumption DEF NoServerFlow, QoSLevels
<1>7. TokioTypeOK
  <2>1. call \in [at : Looping \cup {"Idle", "Configured", "AwaitConnack",
                    "RegisterPublish", "ValidatePublish", "RegisterSubscribe",
                    "RegisterUnsubscribe"},
                  id : 0..U16Max, qos : QoSLevels, msg : 0..MaxPublishes,
                  deadline : Nat]
    BY <1>4, CallAtsListed DEF Calls
  <2> QED
    BY <1>1, <1>2, <1>5, <1>6, <2>1 DEF TokioTypeOK
<1>8. TaskTypeOK
  <2>1. 0 \in 0..MaxPublishes
    BY TokioAssumption
  <2> QED
    BY <1>1, <1>4, <1>7, <2>1 DEF TaskTypeOK
<1>9. WriteOK /\ Settled /\ PingTracked /\ DeathNoticed
  BY <1>1, <1>3, <1>4 DEF WriteOK, Settled, PingTracked, PingrespRecorded, DeathNoticed
<1>10. Timers
  BY <1>1, <1>3, <1>4 DEF Timers
<1> QED
  BY <1>8, <1>9, <1>10 DEF TokioInv

LEMMA ApplicationCallsInv ==
    ASSUME TokioInv, ApplicationCalls, setting' = setting
    PROVE  TokioInv'
<1>1. ASSUME NEW qos \in QoSLevels \ {"AtMostOnce"}, CallPublish(qos)
      PROVE  TokioInv'
  <2>1. AllocateFor(PublishCall(qos), "RegisterPublish", qos)
    BY <1>1 DEF CallPublish
  <2>2. "RegisterPublish" \in Registering
    BY DEF Registering
  <2> QED
    BY <2>1, <2>2, AllocateForInv
<1>2. ASSUME CallSubscribe \/ CallUnsubscribe
      PROVE  TokioInv'
  <2>1. /\ "RegisterSubscribe" \in Registering /\ "RegisterUnsubscribe" \in Registering
        /\ "AtMostOnce" \in QoSLevels
    BY DEF Registering, QoSLevels
  <2> QED
    BY <1>2, <2>1, AllocateForInv DEF CallSubscribe, CallUnsubscribe
<1> QED
  BY <1>1, <1>2, CallConnectInv, CallDisconnectInv, CallPublishQos0Inv, CallReceiveInv
     DEF ApplicationCalls

LEMMA TokioStep ==
    ASSUME TokioInv, [TokioNext /\ UNCHANGED setting]_<<tokioVars, setting>>
    PROVE  TokioInv'
<1>1. CASE UNCHANGED <<tokioVars, setting>>
  <2>1. /\ UNCHANGED <<call, reading, wake, out, unsettled, dropped, forgotten, calls>>
        /\ UNCHANGED <<alive, quietSince, serverFlow, published, completed, toServer,
                       toClient, open, delivered, now, setting>>
        /\ UNCHANGED sessionVars
    BY <1>1 DEF tokioVars, taskVars, lossVars, serverVars, wireVars
  <2>2. ClientUnchanged
    BY <1>1 DEF tokioVars, ClientUnchanged
  <2>3. PingrespRecorded'
    BY <2>1 DEF TokioInv, PingTracked, PingrespRecorded, sessionVars, kaVars
  <2> QED
    BY <2>1, <2>2, <2>3, TaskTypes, ServerTypes, ServerInv
<1>2. CASE TokioNext /\ setting' = setting
  <2>1. CASE ApplicationCalls
    BY <1>2, <2>1, ApplicationCallsInv
  <2>2. CASE TaskNext
    BY <1>2, <2>2, StartConnectInv, RegisterPublishInv, WritePublishInv,
       RegisterSubscribeInv, RegisterUnsubscribeInv, WriteSucceedsInv, WriteFailsInv,
       LoopHeadInv, WaitOverInv, ReadEndInv, ReadPacketInv DEF TaskNext
  <2>3. CASE ServerNext
    BY <1>2, <2>3, ServerHandlesInv, ServerLeavesInv, ServerDiesInv, BreakInv,
       ServerPublishesInv, ServerStreamsInv, ServerRepeatsInv DEF ServerNext
  <2> QED
    BY <1>2, <2>1, <2>2, <2>3, CtrlCInv, TickInv DEF TokioNext
<1> QED
  BY <1>1, <1>2

LEMMA TokioInvariant == TokioSpec => []TokioInv
  BY TokioInitInv, TokioStep, PTL DEF TokioSpec

\* Every call of the client keeps its state, and what is on the stream, in its
\* types (examples/tokio-mqtt/src/client.rs).
THEOREM TokioTypeCorrect == TokioSpec => []TokioTypeOK
<1>1. TokioInv => TokioTypeOK
  BY DEF TokioInv, TaskTypeOK
<1> QED
  BY <1>1, TokioInvariant, PTL

\* However publish, subscribe, unsubscribe and their awaits end, the identifier
\* of the call is given back, but where `?` passes an error on.
THEOREM CallsAreSettled == TokioSpec => []CallsSettle
<1>1. TokioInv => CallsSettle
  BY DEF TokioInv, Settled, CallsSettle
<1> QED
  BY <1>1, TokioInvariant, PTL

\* No call but subscribe and unsubscribe takes a PINGRESP off the stream without
\* telling the session (handle_incoming, pingresp_received).
THEOREM PingrespIsRecorded == TokioSpec => []PingrespRecorded
<1>1. TokioInv => PingrespRecorded
  BY DEF TokioInv, PingTracked
<1> QED
  BY <1>1, TokioInvariant, PTL

\* Whatever the Keep Alive time, the timeouts and the calls, a call that listens
\* gives a dead server up within two Keep Alive times and their ticks
\* (check_keep_alive, recv_while_connected, run_subscribe_loop).
THEOREM DeadServerIsNoticed == TokioSpec => []DeadServerNoticed
<1>1. ASSUME TokioInv, call.at \in Looping, ~alive, keepAliveSecs # 0
      PROVE  now - quietSince <= 2 * Limit
  <2>1. CASE now = quietSince
    BY <1>1, <2>1, LoopFacts
  <2>2. CASE now # quietSince
    <3>1. /\ pingreqSentAt = None => now <= quietSince + Limit
          /\ pingreqSentAt # None =>
                pingreqSentAt <= quietSince + Limit /\ now <= pingreqSentAt + Limit
      BY <1>1, <2>2 DEF TokioInv, DeathNoticed
    <3> QED
      BY <1>1, <3>1, LoopFacts
  <2> QED
    BY <2>1, <2>2
<1>2. TokioInv => DeadServerNoticed
  BY <1>1 DEF DeadServerNoticed, Limit
<1> QED
  BY <1>2, TokioInvariant, PTL

\* However often the server repeats a PUBLISH with QoS 2, whichever identifiers
\* it takes and whichever calls read the PUBLISH and its PUBREL, the application
\* is given the message at most once, but for a flow that abort_publish ended
\* (recv_publish, handle_incoming_publish, QosFlowManager).
THEOREM GivenAtMostOnce == TokioSpec => []DeliveredOnce
<1>1. TokioInit => OnceInv
  BY OnceInit
<1>2. /\ TokioInv /\ TokioInv' /\ OnceInv
      /\ [TokioNext /\ UNCHANGED setting]_<<tokioVars, setting>>
      => OnceInv'
  BY ForgottenGrows, OnceStep
<1>3. TokioInv /\ OnceInv => DeliveredOnce
  BY OnceGiven
<1> QED
  BY <1>1, <1>2, <1>3, TokioInvariant, PTL DEF TokioSpec

=============================================================================
