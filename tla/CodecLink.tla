------------------------------ MODULE CodecLink ------------------------------
(***************************************************************************)
(* One packet on its way through the codecs of a protocol version: it is   *)
(* encoded, its bytes arrive one by one, some of them perhaps other than   *)
(* they were sent, with bytes of a next packet behind them, and after each *)
(* of them decode is tried on what has arrived.  A packet may also come    *)
(* from a sender that does not check what it encodes.                      *)
(***************************************************************************)
EXTENDS Wire

CONSTANTS
    Packets(_),         \* the packets that are sent with a version
    Damaged(_),         \* those of them that may be damaged
    Unchecked(_),       \* packets of a sender that does not validate them
    ValidPacket(_, _),  \* encode does not refuse the packet
    EncodePacket(_, _), \* Packet::encode
    DecodePacket(_, _), \* codec::Packet::decode
    Sendable(_, _),     \* validate accepts the packet, its payload aside
    DecodesTo(_, _),    \* decode accepts the packet, which not only a client sends
    LegalFilters(_, _), \* the packet has no topic filter outside the grammar
    ShortForms(_),      \* the packet types with abbreviated encodings
    Alphabet(_),        \* the bytes that replace others
    NextBytes,          \* the bytes that follow the packet
    MaxFaults,          \* bound on the bytes replaced
    MaxExtra            \* bound on the bytes that follow

VARIABLES
    version,   \* the protocol version of both sides
    packet,    \* the packet sent
    received,  \* the bytes that have arrived
    faults,    \* how many of them were replaced
    answer     \* what decode says of them

vars == <<version, packet, received, faults, answer>>

-----------------------------------------------------------------------------

Sent == EncodePacket(version, packet)

Arrives(byte) ==
    /\ received' = Append(received, byte)
    /\ answer' = DecodePacket(version, received')
    /\ UNCHANGED <<version, packet>>

Init ==
    /\ version \in {"V311", "V5"}
    /\ packet \in {p \in Packets(version) \cup Damaged(version) : ValidPacket(version, p)}
                    \cup Unchecked(version)
    /\ received = << >>
    /\ faults = 0
    /\ answer = DecodePacket(version, << >>)

Deliver ==
    /\ Len(received) < Len(Sent)
    /\ Arrives(Sent[Len(received) + 1])
    /\ UNCHANGED faults

DeliverWrong(byte) ==
    /\ faults < MaxFaults
    /\ packet \in Damaged(version)
    /\ Len(received) < Len(Sent)
    /\ byte # Sent[Len(received) + 1]
    /\ faults' = faults + 1
    /\ Arrives(byte)

Follow(byte) ==
    /\ Len(received) \in Len(Sent)..(Len(Sent) + MaxExtra - 1)
    /\ Arrives(byte)
    /\ UNCHANGED faults

Next ==
    \/ Deliver
    \/ \E byte \in Alphabet(version) : DeliverWrong(byte)
    \/ \E byte \in NextBytes : Follow(byte)

Spec == Init /\ [][Next]_vars

-----------------------------------------------------------------------------
(***************************************************************************)
(* Properties                                                              *)
(***************************************************************************)

\* What encode writes is read back: as long as bytes are missing decode asks
\* for more, then it returns the same packet and the number of bytes written,
\* whatever follows.  This relates validate, encoded_len, encode and decode of
\* every packet; the exceptions are the packets that decode refuses because
\* only a client may send them.
RoundTrip ==
    faults = 0 /\ ValidPacket(version, packet) /\ DecodesTo(version, packet) =>
        answer = IF Len(received) < Len(Sent) THEN [status |-> "InsufficientData"]
                 ELSE [status |-> "Ok", packet |-> packet, length |-> Len(Sent)]

\* The length of the frame at the start of what has arrived
FrameLength ==
    LET length == DecodeVbi(Tail(received))
    IN  1 + length.length + length.value

FrameComplete ==
    /\ received # << >>
    /\ DecodeVbi(Tail(received)).status = "Ok"
    /\ FrameLength <= Len(received)

\* decode asks for more bytes only when bytes of the frame are missing (a field
\* that runs over the end of a complete frame is an error, or the receiver
\* would wait for ever), and accepts a packet only when it has all of the
\* frame, and takes exactly the frame.
FrameDecided ==
    /\ FrameComplete => answer.status # "InsufficientData"
    /\ answer.status = "Ok" => FrameComplete /\ answer.length = FrameLength

\* There is one encoding of a packet: the bytes that decode accepts are those
\* encode writes for it (no reserved bit, overlong integer or flag without
\* its field gets through), or they leave out what the short form of an
\* acknowledgement, a DISCONNECT or an AUTH may leave out.
AcceptedCanonical ==
    answer.status = "Ok" =>
        LET written == EncodePacket(version, answer.packet)
            taken == SubSeq(received, 1, answer.length)
        IN  \/ taken = written
            \/ /\ answer.packet.type \in ShortForms(version)
               /\ answer.packet.properties = << >>
               /\ taken[1] = written[1]
               /\ StartsWith(SubSeq(written, 3, Len(written)),
                             SubSeq(taken, 3, Len(taken)))

\* decode checks of a packet what validate checks before encode, so that no
\* fault turns a packet into one that validate refuses, with one exception that
\* Sendable leaves out: only validate looks whether a payload is the UTF-8 that
\* its Payload Format Indicator promises (v5/publish.rs:266, v5/connect.rs:376).
AcceptedIsValid == answer.status = "Ok" => Sendable(version, answer.packet)

\* Once decode has answered a packet or an error, no later byte changes the
\* answer, so that it does not matter how the stream is cut into reads.
AnswerStable ==
    [][answer.status # "InsufficientData" => answer' = answer]_vars

\* A packet with topic filters is written, and read, exactly when its filters
\* follow the grammar: empty levels are levels, # stands alone at the end, and
\* with MQTT v5.0 $share/ needs a name and a filter behind it
\* (is_valid_topic_filter, is_valid_v5_topic_filter).
FiltersFollowGrammar ==
    packet.type = "SUBSCRIBE" =>
        /\ ValidPacket(version, packet) = LegalFilters(version, packet)
        /\ faults = 0 /\ Len(received) >= Len(Sent) =>
              (answer.status = "Ok") = LegalFilters(version, packet)

=============================================================================
