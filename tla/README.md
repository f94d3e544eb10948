# Verification of the MQTT client library

This directory models `shiguredo_mqtt`: the Sans I/O state machines under
`src/state/`, message delivery from end to end over them in both directions,
the streaming decoder, the packet codecs of MQTT v5.0 and v3.1.1, and the event
loop of the example client that drives them. It checks them with TLC on small instances
and proves the most important properties with TLAPS for all values of the
parameters.

## 1. The system

The library has no I/O and no threads. An application (for instance the tokio
and QUIC clients under `examples/`) owns a `Session` and a `Decoder`, reads and
writes the transport, and tells the session what was sent and what arrived. The
session answers with the packet to send, or an error. What is hard is therefore
not locking but *sequences*: the server may answer late, twice, or wrongly; the
caller's timeouts race those answers; the connection may break between any two
steps; part of the state survives the connection and part must not; and seven
small state machines must agree about the same packet identifier all the time.

| component | state | operations | must hold |
|---|---|---|---|
| `packet_id.rs` | counter, free list, identifiers in use | allocate, release, reset | none handed out twice, none lost |
| `qos_flow.rs` | outgoing flows (state, sequence number, quota charge), incoming flows | one handler per PUBLISH/PUBACK/PUBREC/PUBREL/PUBCOMP sent or received, release, reset | flows advance once, retransmission keeps its order |
| `flow_control.rs` | Receive Maximum and count of both directions | sent, acked, received, ack sent, reset | no leak, no overrun |
| `subscribe.rs` | active table, pending requests, reverse index | sent, SUBACK, UNSUBACK, drop, reset | the reverse index matches the table |
| `keep_alive.rs` | interval, last activity, unanswered PINGREQ | activity, PINGREQ, PINGRESP, reset | a dead server is noticed, a live one is not dropped |
| `auth.rs` | state, method | connect, AUTH, CONNACK, reauthenticate, reset | no illegal transition, no panic |
| `topic_alias.rs` | table and maximum of both directions | register, resolve, reset | an alias means the same at both ends |
| `session/` | connection state, capabilities, limits and all of the above | connection life cycle, integrated handlers, aborts, resets | the parts stay consistent |
| `decoder.rs` | buffer, offset, phase, limits | feed, decode, set_limits | framing does not depend on chunking |
| `codec/`, `v5/`, `v311/`, `topic_filter.rs` | none | encode, decode, validate | decode inverts encode |
| `examples/` | session, decoder, socket, timers | event loop | keeps the session's contract |

The session calls its parts directly. `connect_sent` resets everything that
belongs to one connection, `connected` keeps or drops what belongs to the
session, and each integrated handler (`handle_puback`, ...) runs the flow, the
quota and the identifier pool together.

The list of hazards is in `PROJECT.json`, each at the line where it bites and
with the properties that catch it.

## 2. Modules

| module | models |
|---|---|
| `MqttTypes` | identifiers, QoS levels, versions; `U16Max` stands for `u16::MAX` |
| `PacketIdManager`, `QosFlowManager`, `FlowControl`, `SubscriptionManager`, `KeepAlive`, `AuthStateMachine` | one component each: its fields as variables, one action per operation (prefix `Pid`, `Qos`, `Fc`, `Sub`, `Ka`, `Auth`), and `...Next`, what any user of the component may do to it |
| `Session` | `session/`: one action per public operation, written as the conjunction of the component actions it calls |
| `SessionClient` | the caller and the server: the specification `Spec` and the properties |
| `MCSession`, `MCScenarios` | instances for TLC: the inputs, and the scenarios that divide them between the bounds |
| `TopicAliasManager`, `TopicAliasLink` | the alias manager, and one manager at each end of a connection |
| `QosDelivery` | a publishing session, a server and a connection that breaks: delivery from end to end |
| `QosReception` | the other direction: a publishing server and a receiving session, which may publish itself |
| `ReliableDelivery` | what QoS 1 and 2 promise, without identifiers, acknowledgements and connections; `QosDelivery` and `QosReception` implement it |
| `VariableByteInteger`, `Decoder` | the remaining length, and the decoder with its phases |
| `DecoderStream`, `MCDecoder` | the decoder at the end of a byte stream, and its instance for TLC |
| `TokioClient`, `MCTokio` | the client of `examples/tokio-mqtt`: its task on top of `Session`, the byte stream, the server and the clock; and its instances |
| `Wire` | what the packet codecs share: integers, strings, frames (`codec/`, `ack_helper.rs`), `malformed_if_insufficient`, `topic_filter.rs` |
| `V5Properties`, `V5Packets`, `V311Packets` | validate, encoded_len, encode and decode of every property and packet |
| `CodecLink` | one packet of either version that arrives byte by byte, perhaps damaged, perhaps from a sender that does not validate what it sends |
| `MCV5Packets`, `MCV311Packets`, `MCCodec` | the packets of the two versions, and the instance of `CodecLink` for them |
| `TopicFilterGrammar` | the grammar of topic filters as an automaton, to judge the checks of `topic_filter.rs` |
| `ComponentProofs` | lemmas about the components and about queues of packets, for the modules below |
| `SessionProofs`, `QuotaProofs` | theorems about `SessionClient` |
| `DeliveryProofs`, `ReceptionProofs` | theorems about `QosDelivery` and `QosReception`, the refinements of `ReliableDelivery` among them |
| `TopicAliasProofs`, `DecoderProofs` | theorems about `TopicAliasLink` and `DecoderStream` |
| `TokioProofs` | theorems about `TokioClient` |

How code becomes TLA+:

* A `BTreeMap` or a vector of options is a total function with an explicit
  absent entry. The lists of the reverse index are bags, because only
  membership and repetition matter to a reader of the index.
* An operation that returns an error and changes nothing is a guard of the
  caller's action. One that fails after a partial effect
  (`configure_for_connect` with a Receive Maximum of 0, a SUBACK of the wrong
  length) keeps that effect.
* A handler's return value is an operator next to its action
  (`PubrecResult`), because the session branches on it.
* The loop of `suback_received` is stated by its result, filter by filter.
* Subscription options, payloads, properties that nothing branches on, and
  message texts are left out. The alias tables of the session itself stay
  empty, as in the code, where no mutable access to them exists outside tests.

`SessionClient` is the environment. The caller keeps to the contract in the
rustdoc: allocate, then register (`publish_sent`, ...), then write; abort with
the matching operation when writing fails or a timeout fires; use the session
while connected; answer one received packet before taking the next that needs
an answer. The server is barely trusted: any PUBLISH and any acknowledgement
of a PUBLISH, for any identifier, at any time. Only SUBACK and UNSUBACK must
name a pending request, since `handle_suback` documents that it releases
whatever identifier it is given. A broken connection may strike between any
two steps and a reply that was being written is then lost.

`QosDelivery` is a second, narrower environment: Clean Start off, one
direction, a server that keeps its side of the protocol (the receiving half of
this library's own `QosFlowManager`) and FIFO channels that lose everything at a
break. The application does what the rustdoc of `pending_retransmissions` asks
for: after CONNACK it resends the list in its order, keeping its own copies of
the messages, and then publishes again. The list is not a sequence here but the
set `toResend`, of which the member that comes first in the order of
`pending_packet_ids` is next: the order of those not yet resent cannot change
meanwhile. Registering a PUBLISH and writing it are two steps, so that writing
can fail and be aborted.

`Decoder` runs one call of `decode` as one action: `Header` is what the
FixedHeader and RemainingLength phases of the loop come to, and
`DecodeFrame`, `DecodeHeaderFails` and `DecodeNone` are the three ways the call
ends. What the packet decoders of the two versions say of a complete frame is
the constant operator `IncomingDecode`. The base 128 is the constant `VbiBase`,
so that base 2 reaches lengths of more than one byte with bodies of 2 bytes.
`checked_add` on `usize` cannot overflow below `max_packet_size` and is left out.

`QosReception` turns `QosDelivery` round. The server is the sending half of
`QosFlowManager`; it keeps to the client's Receive Maximum and resends in order.
The client hands a message to the application when `handle_publish_qos1` or
`handle_publish_qos2` calls it new, and answering it is a step of its own that
a break may forestall. As in the clients, `pubcomp_sent` follows the PUBCOMP of
`SendPubcomp` and not that of `ResendPubcomp`. The client may publish with QoS 1
at the same time: both sides draw identifiers from one range.

`TokioClient` models one task. `call.at` is the await the current call is
suspended at; between two awaits the code runs in one action, and a write ends
in an action of its own (`WriteSucceeds`, `WriteFails`), after which the
session is told (`activity`, `puback_sent`, ...). `LoopHead` is the head of
`recv_while_connected` and of `run_subscribe_loop`, where Keep Alive and the
deadline are judged, `WaitOver` the timeout of a read, `ReadPacket` a packet
handled by whoever waits for it (`await_puback`, `await_qos2_completion`,
`await_pubcomp`, `recv_publish`, `handle_incoming`), `ReadEnd` the end of the
stream. The stream and the decoder's buffer are one queue: a packet that
reached the buffer together with the answer of an earlier call waits in the
code until `run_subscribe_loop` has read more bytes, because that loop, unlike
`try_recv_ready`, decodes only after a read; in the model it is handled at once.
Code takes no time: the clock ticks only while the task waits. The
server follows the protocol but may not answer, repeats QoS 2 PUBLISHes, uses
the client's identifiers, sends QoS 0 messages without end, leaves or dies, and
the stream may break. Three variables record what the code gives up:
`unsettled` the identifiers of calls that pass an error on by `?` without an
abort, `dropped` the packets that a call reads and does not handle, `forgotten`
the messages whose incoming flow `abort_publish` ended together with the
client's own flow of the same identifier. Properties
that these paths break are stated apart from them, see section 5. What may
happen in a behaviour, and its bounds, is the variable `setting`, chosen at the
beginning and constant. The QUIC client has the same code from `publish` on, but for the
type of one error, and everything said of the one holds for the other.

The codecs are operators on sequences of bytes. The checks of an encoder and
the writing are two operators (`ValidConnect`, `EncodeConnect`), as `validate`
and the rest of `encode` are. A decoder is a chain of reads of a *reader* (the
buffer, offset and end of the code, the value read last, the fields of the packet
so far and the first error), in the order of the code, so that the error that `?` returns is the first one. A string
is its bytes, a 32-bit number the pair of its halves. Too small an output
buffer, the kinds of encode errors and the texts are left out.

The variables `held`, `reply` and `now` of `SessionClient` belong to the caller:
identifiers it has allocated and not yet registered, the answer it is writing,
and its clock.

## 3. What TLC checks

| run | shows | bounds |
|---|---|---|
| `session_flows` | `IdOwnership`, `SendQuotaNotLeaked`, `CleanReceiveMaximumRespected`, `ReceiveQuotaNotLeaked`, `CleanReceiveQuotaExact`, `RetransmissionOrder`, `TypeOK` | scenario Flows: both directions, 2 identifiers, 3 flow events, Receive Maximum 1 or 3 each way; scenario Sending: 3 identifiers, 5 flow events, nothing received |
| `session_connection` | `IdOwnership` with all four kinds of owner, `ReverseIndexExact`, `FreshConnection`, `AuthMethodKnown`, `AuthenticatedBeforeConnected` | scenario Subscriptions: 2 identifiers, 2 filters, 2 subscription identifiers, requests with one, two and repeated filters; scenario Connection: 1 identifier, 2 methods, one CONNACK for each check and parameter of `apply_connack`, 3 instants |
| `topic_aliases` | `ResolvedAsMeant` | 2 aliases, 3 topics, 3 PUBLISHes in flight |
| `delivery` | `DeliversReliably` (the refinement of `ReliableDelivery`, with its liveness), `PeerFlowsOwned`, `DeliveryTypeOK` | 2 identifiers, 2 messages with QoS 2 and 1 with QoS 1 in any order, 2 breaks at any point, Receive Maximum 1 or 2, both versions |
| `reception` | `ReceivesOnce` (the refinement of the safety part of `ReliableDelivery`), `ReceptionCompletes`, `HonestServerAccepted`, `ReceptionTypeOK` | 2 identifiers, 3 messages as above, 2 breaks, own Receive Maximum 1 or 2; the client publishes once with QoS 1 |
| `tokio_client` | `CallsSettle`, `CallsEnd`, `DeliveredOnce`, `CompletedMeansDelivered`, `PingrespRecorded`, `DeadServerNoticed`, `TokioTypeOK` | 3 calls after one another, 3 identifiers, a timeout of 2 and a Keep Alive of 3 instants, one message of the server with QoS 1 or 2 whose identifier is the first one the client allocates too, in six settings of `MCTokio`: requests with 3 CONNACKs; a PUBLISH that crosses requests; a QoS 2 message, repeated once; the same while the client publishes with the same identifier; QoS 0 messages without end while a publish waits; Keep Alive over several intervals, with and without such messages, the server dies at any instant |
| `codecs` | `RoundTrip`, `FrameDecided`, `AcceptedCanonical`, `AcceptedIsValid`, `FiltersFollowGrammar`, `AnswerStable` | packets of every type with every property and flag, reason codes, payloads around 127 and 128 bytes; one packet of each shape with one byte replaced by each of about 40 (types, flags, lengths, properties); 2 bytes behind the packet; SUBSCRIBEs with all filters of at most 4 of the characters `a`, `/`, `+`, `#`, alone and behind `$share/` |
| `decoder` | `FramesAsSent`, `PhaseMatchesBuffer`, `MemoryBounded`, `EveryFrameReported`, `TypeOK` | base 2, 3 frames out of 6 kinds, reads of 1 to 7 bytes, 2 limits of which one refuses the largest frame |
| `resumed_quota`, `abort_collision`, `error_pubrec`, `timeout_abort` | violations, see section 5 | as small as shows the case |

Why these bounds are enough to be interesting: two identifiers let two flows of
one direction interact and let the two directions collide on one identifier;
the pool and both quotas run empty; three identifiers and five events let a
PUBREC overtake another, a flow end and its identifier come back behind a
younger one. Three messages over two identifiers make an identifier be reused
while another flow is open, which is where the order of retransmission differs
from the order of identifiers, and two breaks interrupt a retransmission, too.
Three frames let a frame be decoded between two others in the same buffer, and
compaction happen with and without data behind it. `MaxSeq` bounds flow events (`next_seq`) and `MaxNow` the clock;
`MaxBreaks`, `MaxOwn`, `MaxFrames` and `MaxChunk` bound the delivery and decoder
runs, `MaxPublishes` and the fields `maxCalls`, `maxRepeats`, `maxStart` and
`maxNow` of a setting that of the client, `MaxFaults`, `MaxExtra` and `MaxFilter`
that of the codecs; nothing else is bounded. A scenario of `MCScenarios` bounds
identifiers and flow events by `Within`. No call of the client begins
after `maxStart`, so that each has the time for its timeouts before the clock
stops at `maxNow`; without the exception for `unsettled` or for `dropped` TLC
finds `CallsSettle`, `PingrespRecorded` and `CompletedMeansDelivered` violated
within these bounds. In the codecs' run the base of lengths is
the real 128; one fault is enough to reach each check of a decoder from some valid
packet, because a decoder stops at its first error. The theorems below have no bounds.

Two kinds of behaviour are switched off in the passing runs by the constants
`PubrecErrors` and `AbortCollisions`, because the receive quota is *not* kept
by them: an error PUBREC sent by the client, and an abort of an identifier that
the server uses at the same time. They are the subject of the violation runs.
The theorems of section 4 hold with them switched on, except those about the
receive quota, which say so.

Properties:

* `IdOwnership`: each identifier in use is owned by exactly one of: the caller,
  a PUBLISH flow, a pending SUBSCRIBE, a pending UNSUBSCRIBE.
* `SendQuotaNotLeaked`: `outstanding_count` never exceeds the number of flows
  charged on this connection. `CleanReceiveMaximumRespected`: a session with
  Clean Start keeps to the server's Receive Maximum. An aborted PUBLISH counts
  as given up, as the code treats it, although the server may still hold it.
* `ReceiveQuotaNotLeaked`, `CleanReceiveQuotaExact`: `incoming_count` against
  the PUBLISHes that are really unanswered.
* `RetransmissionOrder`: an action property on the order that
  `pending_packet_ids` sorts by.
* `ReverseIndexExact`: `find_by_subscription_identifier` finds exactly the
  active subscriptions with that identifier.
* `FreshConnection`: nothing of an earlier connection is left while waiting for
  CONNACK.
* `AuthMethodKnown`: the two `expect`s of `auth.rs` never panic.
  `AuthenticatedBeforeConnected`: no connection without its authentication.
* `ResolvedAsMeant`: every PUBLISH is resolved to the topic its sender meant.

* `DeliversReliably`: QoS 2 exactly once, QoS 1 at least once and never again
  after its PUBACK, first deliveries in the order of sending, completion only
  after delivery; and everything written is eventually delivered and completed.
* `PeerFlowsOwned`: an identifier for which the server has an open flow is not
  free. This is why reuse of identifiers is safe without aborts.
* `FramesAsSent`: `decode` reports the frames that were sent, one for one,
  whatever the chunks. `PhaseMatchesBuffer`: what the Payload phase remembers
  belongs to the bytes at the offset, in the only encoding that is allowed.
  `MemoryBounded`: unread bytes within one packet and its header, read ones not
  more than unread ones. `EveryFrameReported`: no packet waits for ever.
* `ReceivesOnce`: the safety of the same promise for what the session
  receives. `ReceptionCompletes`: what the client has accepted is acknowledged to
  the end, unless it publishes itself. `HonestServerAccepted`: a server that keeps to the Receive Maximum is
  not refused, on a resumed connection either.
* `CallsSettle`: an identifier in use belongs to the call under way, unless `?`
  left it behind. `CallsEnd`: every call but `run_subscribe_loop` comes back,
  unless it is a publish to which packets keep coming for ever.
  `DeliveredOnce`: a QoS 2 message is given to the application at most once,
  whichever calls read its repetitions, unless a publish of the client with the
  same identifier gave up and ended the server's flow with its own. `CompletedMeansDelivered`: a message whose
  PUBCOMP is sent has been given to the application, unless the client dropped it.
  `PingrespRecorded`: a PINGRESP that was read ends the wait for it, unless it was
  dropped. `DeadServerNoticed`: within two Keep
  Alive times and the ticks that round them up.
* `RoundTrip`: every prefix of an encoded packet is insufficient, and the whole
  is the packet again. `FrameDecided`: a complete frame is never answered by a
  request for more bytes, and exactly the frame is consumed.
  `AcceptedCanonical`: apart from the documented short forms there is one encoding
  per packet. `AcceptedIsValid`: decode accepts no packet that `validate`
  refuses, but for a payload that is not the UTF-8 its Payload Format Indicator
  promises: only `validate` looks at that (`v5/publish.rs:266`,
  `v5/connect.rs:376`), and `ClientForm` takes the indicator away.
  `AnswerStable`: later bytes do not change an answer.
* `FiltersFollowGrammar`: the checks of topic filters and the grammar agree.

Fairness. The session runs assume none. `delivery` assumes weak fairness of the
transport while it is up, of both ends handling what arrives, and of the
application reconnecting, resending and ending what it began to write: the
event loop of a client does nothing else. Nobody has to publish, and the
connection breaks at most `MaxBreaks` times: with breaks for ever nothing is
delivered. `decoder` assumes that the application goes on reading and takes a
packet or an error that is there, as the read loops under `examples/` do.
`reception` assumes the same of both ends as `delivery`. `tokio_client` assumes that the
runtime polls a task that has a step to take (`WF(TaskNext)`) and that time
passes while it waits (`WF(Tick)`), which is what a runtime and a clock do; it
assumes nothing of the server, the stream and the application. `await_puback`,
`await_qos2_completion` and `await_pubcomp` start their 10 seconds anew after
every packet, and nothing bounds how often: PUBLISHes that keep coming, or with
a Keep Alive shorter than the timeout the PINGRESPs, keep a publish waiting for
ever. `CallsEnd` therefore states the one exception: infinitely many packets
are read by these awaits (`PublishReads`). The server's QoS 0 messages are
unbounded in number (`ServerStreams`; `MaxUnread` bounds only how many of them
wait unread, `maxStream` until when they come), so that the exception occurs,
and without it the run fails.
These systems really stop when everything is sent and handled, or the bounds
are used up, so these runs do not check for deadlock; nor does that of the codecs,
which ends with the packet.

## 4. What is proved

For every `U16Max`, every set of requests, methods, CONNACKs, configurations
and messages, every bound, and, unless the last column says otherwise, every
value of the switches:

| theorem | property | hypotheses |
|---|---|---|
| `SessionProofs!TypeCorrect` | `TypeOK` | |
| `SessionProofs!ConnectionStartsFresh` | `FreshConnection` | |
| `SessionProofs!MethodKnownWhileAuthenticating` | `AuthMethodKnown` | |
| `SessionProofs!AuthenticationInStep` | `AuthenticatedBeforeConnected` | |
| `SessionProofs!SubscriptionIndexExact` | `ReverseIndexExact` | |
| `SessionProofs!IdentifiersOwned` | `IdOwnership` | |
| `QuotaProofs!RetransmissionsInOrder` | `RetransmissionOrder` | |
| `QuotaProofs!QuotaNeverLeaks` | `SendQuotaNotLeaked` | |
| `QuotaProofs!CleanSessionKeepsReceiveMaximum` | `CleanReceiveMaximumRespected` | |
| `QuotaProofs!ReceiveQuotaReturns` | `ReceiveQuotaNotLeaked` | no abort collisions |
| `QuotaProofs!CleanReceiveQuotaCounted` | `CleanReceiveQuotaExact` | no abort collisions, no error PUBRECs |
| `TopicAliasProofs!AliasesResolved` | `ResolvedAsMeant` | |
| `DeliveryProofs!DeliveryTypeCorrect` | `DeliveryTypeOK` | no aborts after a timeout |
| `DeliveryProofs!PeerFlowsHaveOwner` | `PeerFlowsOwned` | no aborts after a timeout |
| `DeliveryProofs!CompletedWereDelivered` | `CompletedWasDelivered` | no aborts after a timeout |
| `DeliveryProofs!DeliveryRefines` | `Abstract!SafetySpec`, the safety half of `DeliversReliably` | no aborts after a timeout |
| `ReceptionProofs!ReceptionTypeCorrect` | `ReceptionTypeOK` | |
| `ReceptionProofs!HonestServerNeverRefused` | `HonestServerAccepted` | |
| `ReceptionProofs!ReceptionRefines` | `ReceivesOnce` | |
| `DecoderProofs!DecoderMemoryBounded` | `MemoryBounded` | |
| `DecoderProofs!DecoderTypeCorrect` | `TypeOK` of the decoder | |
| `DecoderProofs!FramesReportedAsSent` | `FramesAsSent` | |
| `DecoderProofs!PhaseIsOfBuffer` | `PhaseMatchesBuffer` | |
| `DecoderProofs!VbiRoundTrip` | decode inverts encode of a Variable Byte Integer | |
| `DecoderProofs!VbiCanonical` | decode accepts only what encode writes | |
| `TokioProofs!TokioTypeCorrect` | `TokioTypeOK` | |
| `TokioProofs!CallsAreSettled` | `CallsSettle` | |
| `TokioProofs!PingrespIsRecorded` | `PingrespRecorded` | |
| `TokioProofs!DeadServerIsNoticed` | `DeadServerNoticed` | |
| `TokioProofs!GivenAtMostOnce` | `DeliveredOnce` | |

No hypothesis can simply be dropped: the violation run about its switch
(`abort_collision`, `error_pubrec`, `timeout_abort`) shows the case that the
theorem leaves out. `GivenAtMostOnce` has none: the server may use any
identifier, those of the client's own PUBLISHes included. What `abort_publish`
does to an incoming flow with the same identifier is an exception in the
property itself, which names the messages it happened to (`forgotten`). The
run reaches it (`CollisionSetting`), and fails without the exception; see
`abort_collision` in section 5.

The assumptions are the `ASSUME`s of the modules: `U16Max` is a positive number,
`None` differs from the values it is an option of, the base of Variable Byte
Integers is at least 2, frames are not empty, requests are non-empty lists, a
frame on the stream is as long as its fixed header says, or its length does not
end or is overlong (`FramesAssumption`), the packet decoder answers every frame
with a result or with `InsufficientData` (`VerdictAssumption`), and the inputs
of the environment have their types (for the client's task, `TokioAssumption`:
its times are natural numbers, its CONNACKs are `ConnackParams`, and the
application makes at least the call of `connect`).

The argument. `EveryComponentStep` shows that every step of the session is, for
each component, a step of that component's `...Next` or leaves it alone; types
and facts about one component alone (`PoolPartition`, the order of sequence
numbers) then need only the component's own actions (`ComponentProofs`).

* Types: `FcTypeOK` needs nothing beyond itself, because a count is only raised
  below its maximum and decrements saturate.
* `IdOwnership` is made inductive by `NothingHeldToConnect` (the caller holds
  nothing while it waits for CONNACK): otherwise the reset of a clean session
  would free an identifier that the caller still holds.
* `AuthenticatedBeforeConnected` is inductive once `connect_sent` is known to
  leave only the two states `FreshConnection` allows.
* `RetransmissionOrder` needs `SeqsOrdered`: sequence numbers are below
  `next_seq` and pairwise different.
* The quota theorems need `QuotaInv`. Each step keeps the quota, returns one,
  consumes one, or restarts the accounting. For a clean session the count is
  exact (`CleanQuota`), except that between `connect_sent` and CONNACK the
  flows are still there while charges and count are gone; CONNACK then drops
  the flows. This is what a resumed session lacks, and why the theorem is
  restricted to Clean Start.

* The receive quota needs `ReceiveInv`, which says of every answer that is being
  written whether it gives quota back, and that the flow it belongs to is still
  in the table. A flow ends at most once per count because an answer is written
  before the next packet is handled. For a clean session the two sides of the
  inequality meet, since CONNACK drops the flows that `connect_sent` stopped
  counting.
* `ReverseIndexExact` is inductive on its own, but each operation moves several
  filters at once: `ReverseIndexStep` shows it for one change of the table, and
  the loops of `suback_received` and `unsuback_received` come to such changes.
* `ResolvedAsMeant` needs `AliasInv`: the receiver's table, after the PUBLISHes
  still in flight have been applied in order, is the sender's table
  (`Faithful`), and an alias without a topic on the wire is bound in the
  receiver's table or by an earlier PUBLISH (`BoundBefore`).
* `DeliveryInv` follows one message through both ends and the wire. `EndsAgree`
  bounds how far the server can be for a given state of the client's flow; at
  most one packet of a flow is under way (`OnePacketPerId`); a packet matches
  the flow it belongs to (`WireOK`); the PUBLISH of an undelivered message is on
  the wire, being written or in the list to resend (`NothingLost`); sequence
  numbers, the wire and the list to resend agree with the order of acceptance
  (`AcceptedInOrder`, `PublishesInOrder`). First deliveries in order follow from
  the last two: when a PUBLISH arrives, an earlier message that was not delivered
  would have to be ahead of it. Each action then maps to one step of
  `ReliableDelivery` or to none.
* `ReceptionInv` is its mirror image, except that the wire also carries the
  client's own PUBLISHes and their PUBACKs, of which only the types of the packets
  keep the two apart, and that it bounds the quota: the client counts no PUBLISH
  that the server has not charged (`QuotaKept`, by the flows `Counted`). The
  PUBLISH at the head of the line is charged and not yet counted, so there is
  room for it. That an outgoing flow with the same identifier does not disturb
  an incoming one is part of the induction: `handle_puback` leaves `incoming`
  alone.

* `MemoryBounded` needs, besides types, that what `DecodeVbi` returns are
  natural numbers (`DecodeVbiType`), so that a frame is never longer than the
  bytes at hand; compaction then restores the balance whenever the offset passes
  the middle of the buffer.
* `VbiRoundTrip` and `VbiCanonical` compare `encode`, which the model states by
  its rounds (what is left of the value before each, and the byte it writes),
  with the digits that `decode` adds up: the rounds are as many as `encoded_len`
  says, and a number within MAX has one sequence of digits (`DigitsRest`,
  `DigitsOfValue`).
* `FramesAsSent` and `PhaseMatchesBuffer` need `StreamInv`. The bytes that were
  not reported yet, in the buffer and on the wire, are the frames after the last
  result laid end to end: `Framed` says so by the position at which each frame
  starts. The phase is what `DecodeVbi` says of the bytes at the head of the buffer
  (`PhaseDecoded`), which later bytes do not change (`VbiExtend`). Hence the
  header the decoder sees is that of the next frame (`NextHeader`), and taking
  as many bytes as it says leaves the frames after it.

* `TokioInv` is what holds between any two awaits of the client's task. `WriteOK`
  says which call may be writing what, and which await follows: it is why an
  error of a write withdraws the right request, and why a PINGREQ is written
  only when none is unanswered. `Settled` sharpens `CallsSettle` by the
  awaits of a call that owns an identifier (`Owning`): the others leave nothing
  in use. `PingTracked` follows a PINGREQ through the stream; an answer that is
  taken off it is recorded or dropped (`Reads`). `Timers` bounds when a read
  wakes up: the head of the loop starts it at most one tick before the next
  judgement, so that it ends within a Keep Alive time and a tick (`Limit`) of the
  last activity, or of the unanswered PINGREQ (`Since`). `DeathNoticed` then
  needs two of these limits: what a dead server had sent is read before time
  passes, nothing but a PINGREQ is written afterwards, that within one limit of
  its death, and it is judged within another. That time stands still while the
  task has something to do is part of the model (`Busy`), not of the proof.
* `DeliveredOnce` needs `OnceInv`, which follows a QoS 2 message through the
  server's flow, the stream and the hands of the call that read it. Messages are
  numbered as they are published, and a PUBLISH on the stream agrees with the flow
  it belongs to (`Numbered`). A message that was given, or that `recv_publish`
  keeps until the PUBREL (`MessageKept`), is given once and not kept as well
  (`GivenOnce`); whatever PUBLISH of it is on the stream, or may still be sent,
  then meets the flow that the first one opened, because nothing that ends the
  flow (`Removes`) is ahead of it (`KnownAgain`), and nothing of the kind is ever
  sent between two PUBLISHes of one message (`Uninterrupted`): the server
  sends PUBREL only when it no longer repeats. Every step of the task either
  leaves a message where it is, gives the one that was kept, or takes it off the
  stream for the first time (`TaskEffect`). An incoming flow stays until the
  packet that ends it is read, or `abort_publish` ends it and puts its message
  into `forgotten` (`FlowsKept`), where it stays (`Lasting`); `OnceInv` speaks of
  the flows whose message is not in there (`Pending`).

Only model-checked: `CompletedMeansDelivered` and `CallsEnd` of `TokioClient`;
the packet codecs and topic filters (`CodecLink`); the liveness in
`DeliversReliably`, `ReceptionCompletes` and `EveryFrameReported`. Out of the
prover's reach altogether: liveness under fairness, `ENABLED`, induction over
data and recursive operators. That decode inverts encode for every packet is
such an induction over data; of a Variable Byte Integer, which has at most four
rounds, it is proved.

One of these is not a theorem at all, because the run leaves a case out.
`CompletedMeansDelivered` needs one message per identifier: when the server
repeats a PUBLISH, the second PUBCOMP that follows may meet the next message with
that identifier.

## 5. Disagreements with the code's own documentation

* `resumed_quota`: a flow carried over into a resumed session carries no charge
  until it is sent again, but its end (`abort_publish`, PUBCOMP, error PUBREC)
  gives quota back. With another PUBLISH in flight the client can then exceed
  the Receive Maximum. MQTT v5.0 section 4.9 tolerates this for acknowledgements
  of PUBRELs repeated from an earlier connection; it says nothing of the kind
  about aborts.
* `abort_collision`: `abort_publish` also forgets an incoming flow with the same
  identifier, while `incoming_count` keeps counting it. With the tokio client
  the application notices: a publish waits for its PUBACK; the server's
  QoS 2 PUBLISH with the same identifier is read meanwhile and given to the
  application; the publish times out and aborts; the same PUBLISH comes again
  before its PUBREL, is new to the session and is given a second time. The
  comments of `recv_publish` (`client.rs:506`) and `handle_incoming_publish`
  (`client.rs:816`) rule this out. The server must repeat it on
  the same connection, which MQTT v5.0 does not allow, but which these comments
  are about, since `connect` begins with a new `Session`. `DeliveredOnce` leaves
  out exactly the messages this happened to.
* `error_pubrec`: after an error PUBREC the incoming flow stays in the table,
  and a new PUBLISH with its identifier is taken for a repetition.
* `timeout_abort`: `abort_publish` after a timeout releases an identifier that
  the server still uses, and `allocate` hands out the smallest released one
  next. The late acknowledgements of the aborted message then complete the new
  one, which is never delivered. `await_puback`, `await_qos2_completion` and
  `await_pubcomp` of the tokio client abort after 10 seconds and keep the
  connection.

Three more behaviours limit what the passing runs can say:

* A PUBREL without an incoming flow is answered by PUBCOMP, but is refused with
  `StateMismatch` while the client has a PUBLISH of its own with that
  identifier. A repeated PUBREL is then not answered, and `ReceptionCompletes`
  therefore leaves out clients that publish.
* `await_puback`, `await_qos2_completion` and `await_pubcomp` pass an error of
  `handle_incoming` on by `?` and do not abort the flow (`unsettled`).
* `subscribe` and `unsubscribe` drop every packet they do not wait for, a PINGRESP
  among them, and `recv_publish` drops a QoS 2 message when another packet comes
  between its PUBREC and the PUBREL; a later call completes the flow (`dropped`).

## 6. Not modelled, and the plan

Not modelled: the raw mutable accessors of `Session`, which bypass the
integrated handlers; in the example clients the copying of options and of
CONNACK properties (`connack_params_from`), will messages, transports, TLS and
command lines; of the codecs the size of output buffers and the kinds of encode
errors; the clients and servers of `e2e-tests/`, benchmarks and fuzz targets.
`QosDelivery` does not repeat a PUBLISH on the same connection, which MQTT v3.1.1
allows, and `DecoderStream` does not change the limits while a packet is
incomplete. A SUBACK or UNSUBACK is trusted to name a pending request.

What is left to prove: `CompletedMeansDelivered` for a server that does not reuse
an identifier before the last PUBCOMP of its former message.
