------------------------------- MODULE Decoder -------------------------------
(***************************************************************************)
(* The streaming decoder (decoder.rs): bytes go in through feed in chunks  *)
(* of any size, decode takes complete packets out one at a time.           *)
(*                                                                         *)
(* What the packet decoders of the two protocol versions make of a         *)
(* complete frame is a parameter: the decoder looks at the fixed header    *)
(* only.                                                                   *)
(***************************************************************************)
EXTENDS VariableByteInteger

CONSTANT IncomingDecode(_)  \* IncomingPacket::decode: "Ok" or the error

VARIABLES
    buf,            \* buf
    bufOffset,      \* buf_offset: where the unread data starts
    phase,          \* phase
    maxPacketSize   \* limits.max_packet_size

decoderVars == <<buf, bufOffset, phase, maxPacketSize>>

MaxPacketOverhead == 1 + 4

Phases ==
    [name : {"FixedHeader", "RemainingLength"}] \cup
    [name : {"Payload"}, rlenLen : 1..VbiMaxLen, remainingLength : 0..VbiMax]

FixedHeader == [name |-> "FixedHeader"]
RemainingLength == [name |-> "RemainingLength"]

DecoderInit(limit) ==
    /\ buf = << >>
    /\ bufOffset = 0
    /\ phase = FixedHeader
    /\ maxPacketSize = limit

\* set_limits
SetLimits(limit) ==
    /\ maxPacketSize' = limit
    /\ UNCHANGED <<buf, bufOffset, phase>>

PendingLen == Len(buf) - bufOffset
PendingFrom(first) == SubSeq(buf, bufOffset + first, Len(buf))

\* feed returns Ok
MayFeed(data) == PendingLen + Len(data) <= maxPacketSize + MaxPacketOverhead

\* feed; a refused chunk changes nothing.
Feed(data) ==
    /\ MayFeed(data)
    /\ buf' = buf \o data
    /\ UNCHANGED <<bufOffset, phase, maxPacketSize>>

-----------------------------------------------------------------------------
(***************************************************************************)
(* decode: the phases that one call of try_decode runs through             *)
(***************************************************************************)

\* The outcome of the FixedHeader and RemainingLength phases: the next phase
\* to wait in, or the error.
HeaderOutcome ==
    LET vbi == DecodeVbi(PendingFrom(2))
        totalSize == 1 + vbi.length + vbi.value
    IN  IF PendingLen = 0
        THEN [error |-> "None", phase |-> phase]
        ELSE IF PendingLen = 1 \/ vbi.status = "InsufficientData"
        THEN [error |-> "None", phase |-> RemainingLength]
        ELSE IF vbi.status = "MalformedPacket" \/ totalSize > maxPacketSize
        THEN [error |-> IF vbi.status = "Ok" THEN "PacketTooLarge" ELSE vbi.status,
              phase |-> FixedHeader]
        ELSE [error |-> "None",
              phase |-> [name |-> "Payload", rlenLen |-> vbi.length,
                         remainingLength |-> vbi.value]]

\* How far the header of the next packet can be read
Header == IF phase.name = "Payload" THEN [error |-> "None", phase |-> phase]
                                    ELSE HeaderOutcome

PacketLen(payload) == 1 + payload.rlenLen + payload.remainingLength

\* Mutant: the packet must be followed by another byte.
FrameCompleteAndMore(header) ==
    /\ header.error = "None"
    /\ header.phase.name = "Payload"
    /\ PendingLen > PacketLen(header.phase)

\* The Payload phase is reached and has all its bytes.
FrameComplete(header) ==
    /\ header.error = "None"
    /\ header.phase.name = "Payload"
    /\ PendingLen >= PacketLen(header.phase)

\* The bytes of the complete packet
Frame(header) == SubSeq(buf, bufOffset + 1, bufOffset + PacketLen(header.phase))

\* decode_packet: a packet that ends too early inside its frame is malformed.
DecodePacket(frame) ==
    IF IncomingDecode(frame) = "InsufficientData"
    THEN "MalformedPacket" ELSE IncomingDecode(frame)

\* Mutant: the data moves to the front, the offset stays.
CompactKeepingOffset(offset) ==
    IF offset > Len(buf) \div 2
    THEN /\ buf' = SubSeq(buf, offset + 1, Len(buf))
         /\ bufOffset' = offset
    ELSE /\ bufOffset' = offset
         /\ UNCHANGED buf

\* Mutant: nothing is ever moved.
NeverCompact(offset) ==
    /\ bufOffset' = offset
    /\ UNCHANGED buf

\* The new offset, and maybe_compact
AdvanceAndCompact(offset) ==
    IF offset > Len(buf) \div 2
    THEN /\ buf' = SubSeq(buf, offset + 1, Len(buf))
         /\ bufOffset' = 0
    ELSE /\ bufOffset' = offset
         /\ UNCHANGED buf

\* Mutant: the decoder goes on in the Payload phase.
DecodeFrameKeepsPhase(header) ==
    /\ FrameComplete(header)
    /\ AdvanceAndCompact(bufOffset + PacketLen(header.phase))
    /\ phase' = header.phase
    /\ UNCHANGED maxPacketSize

\* decode returns a packet or the error of its content: one frame is consumed.
DecodeFrame(header) ==
    /\ FrameComplete(header)
    /\ AdvanceAndCompact(bufOffset + PacketLen(header.phase))
    /\ phase' = FixedHeader
    /\ UNCHANGED maxPacketSize

\* decode returns the error of a fixed header: everything buffered is dropped.
DecodeHeaderFails(header) ==
    /\ header.error # "None"
    /\ buf' = << >>
    /\ bufOffset' = 0
    /\ phase' = FixedHeader
    /\ UNCHANGED maxPacketSize

\* decode returns Ok(None) and remembers how far it came.
DecodeNone(header) ==
    /\ header.error = "None"
    /\ ~FrameComplete(header)
    /\ phase' = header.phase
    /\ UNCHANGED <<buf, bufOffset, maxPacketSize>>

=============================================================================
