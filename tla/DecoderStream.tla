---------------------------- MODULE DecoderStream ----------------------------
(***************************************************************************)
(* A decoder at the end of a byte stream.  The server sends frames, the    *)
(* transport hands their bytes over in chunks of any size, and the         *)
(* application feeds a chunk or asks for a packet, in any order.  It       *)
(* changes the limits, but not while decode waits for the rest of a packet *)
(* (the clients under examples/ do it after CONNACK), and gives the        *)
(* connection up when a fixed header is wrong.                             *)
(***************************************************************************)
EXTENDS Decoder

CONSTANTS
    Frames,        \* the frames the server may send
    LimitChoices,  \* the values of max_packet_size
    MaxFrames,     \* bound: how many frames the server sends
    MaxChunk       \* bound: the bytes of one read

ASSUME StreamAssumption ==
    /\ Frames \subseteq Seq(VbiBytes) \ {<< >>}
    /\ LimitChoices \subseteq Nat
    /\ MaxFrames \in Nat
    /\ MaxChunk \in Nat

\* The header of a frame, as the encoder writes it
WellFormed(frame) ==
    \E n \in 1..VbiMaxLen :
        LET length == Len(frame) - 1 - n
        IN  length \in 0..VbiMax /\ SubSeq(frame, 2, 1 + n) = Encode[length]

\* No remaining length: four bytes go by with a continuation bit, or the last
\* digit of several is zero, so that the length is longer than need be.
BadLength(frame) ==
    \E n \in 1..VbiMaxLen :
        /\ 1 + n <= Len(frame)
        /\ \A i \in 1..(n - 1) : frame[1 + i] >= VbiBase
        /\ \/ n = VbiMaxLen /\ frame[1 + n] >= VbiBase
           \/ n > 1 /\ frame[1 + n] = 0

(***************************************************************************)
(* What the server sends as a remaining length counts the bytes that       *)
(* follow it, or is none: nothing says where the next frame would begin    *)
(* if it were a wrong number.                                              *)
(***************************************************************************)
ASSUME FramesAssumption ==
    \A frame \in Frames : WellFormed(frame) \/ BadLength(frame)

Results == {"Ok", "MalformedPacket", "UnexpectedPacket", "PacketTooLarge"}

ASSUME VerdictAssumption ==
    \A frame \in Frames : IncomingDecode(frame) \in Results \cup {"InsufficientData"}

VARIABLES
    sent,    \* the frames sent so far
    wire,    \* their bytes that were not read yet
    out,     \* what decode returned: results with the frame decoded
    closed   \* the application gave up

streamVars == <<sent, wire, out, closed>>
vars == <<decoderVars, streamVars>>

TypeOK ==
    /\ buf \in Seq(VbiBytes)
    /\ bufOffset \in 0..Len(buf)
    /\ phase \in Phases
    /\ maxPacketSize \in LimitChoices
    /\ sent \in Seq(Frames)
    /\ wire \in Seq(VbiBytes)
    /\ out \in Seq([result : Results, frame : Seq(VbiBytes)])
    /\ closed \in BOOLEAN

Init ==
    /\ \E limit \in LimitChoices : DecoderInit(limit)
    /\ sent = << >>
    /\ wire = << >>
    /\ out = << >>
    /\ closed = FALSE

Send(frame) ==
    /\ Len(sent) < MaxFrames
    /\ sent' = Append(sent, frame)
    /\ wire' = wire \o frame
    /\ UNCHANGED <<decoderVars, out, closed>>

\* A chunk of n bytes is read and fed.
Read(n) ==
    /\ ~closed
    /\ n <= Len(wire)
    /\ Feed(SubSeq(wire, 1, n))
    /\ wire' = SubSeq(wire, n + 1, Len(wire))
    /\ UNCHANGED <<sent, out, closed>>

Report(result, frame) == out' = Append(out, [result |-> result, frame |-> frame])

TakePacket ==
    /\ ~closed
    /\ \E header \in {Header} :
          /\ DecodeFrame(header)
          /\ Report(DecodePacket(Frame(header)), Frame(header))
    /\ UNCHANGED <<sent, wire, closed>>

\* The header is wrong: the application closes the connection.
TakeHeaderError ==
    /\ ~closed
    /\ \E header \in {Header} :
          /\ DecodeHeaderFails(header)
          /\ Report(header.error, << >>)
    /\ closed' = TRUE
    /\ UNCHANGED <<sent, wire>>

TakeNothing ==
    /\ ~closed
    /\ \E header \in {Header} : DecodeNone(header)
    /\ UNCHANGED streamVars

ChangeLimits(limit) ==
    /\ ~closed
    /\ phase.name # "Payload"
    /\ SetLimits(limit)
    /\ UNCHANGED streamVars

ReadSome == \E n \in 1..MaxChunk : Read(n)
Decode == TakePacket \/ TakeHeaderError \/ TakeNothing

Next ==
    \/ ReadSome \/ Decode
    \/ \E frame \in Frames : Send(frame)
    \/ \E limit \in LimitChoices : ChangeLimits(limit)

(***************************************************************************)
(* The application goes on reading, and decodes after reading.             *)
(***************************************************************************)
Fairness == WF_vars(ReadSome) /\ WF_vars(TakePacket \/ TakeHeaderError)

Spec == Init /\ [][Next]_vars /\ Fairness

-----------------------------------------------------------------------------
(***************************************************************************)
(* Properties                                                              *)
(***************************************************************************)

(***************************************************************************)
(* Whatever the chunks, the limits and the errors of earlier packets,      *)
(* decode reports the frames that were sent, one for one and in order,     *)
(* with the verdict of the packet decoder.  A header error is reported     *)
(* only for a frame that is not well-formed or too large for some limit.   *)
(***************************************************************************)
FramesAsSent ==
    \A i \in DOMAIN out :
        /\ i \in DOMAIN sent
        /\ \/ /\ WellFormed(sent[i])
              /\ out[i] = [result |-> DecodePacket(sent[i]), frame |-> sent[i]]
              /\ \E limit \in LimitChoices : Len(sent[i]) <= limit
           \/ /\ WellFormed(sent[i])
              /\ out[i] = [result |-> "PacketTooLarge", frame |-> << >>]
              /\ \E limit \in LimitChoices : Len(sent[i]) > limit
           \/ /\ ~WellFormed(sent[i])
              /\ out[i] = [result |-> "MalformedPacket", frame |-> << >>]

(***************************************************************************)
(* The lengths that the Payload phase remembers (rlen_len and              *)
(* remaining_length) are those of the bytes at buf_offset, and these are   *)
(* the one encoding that encode produces.                                  *)
(***************************************************************************)
PhaseMatchesBuffer ==
    phase.name = "Payload" =>
        /\ phase.rlenLen < PendingLen
        /\ SubSeq(buf, bufOffset + 2, bufOffset + 1 + phase.rlenLen)
              = Encode[phase.remainingLength]

(***************************************************************************)
(* However many packets went through it, the decoder holds no more unread  *)
(* bytes than feed lets in (one packet and its header), and maybe_compact  *)
(* leaves at most as many bytes that were read already.                    *)
(***************************************************************************)
MemoryBounded ==
    /\ bufOffset <= PendingLen
    /\ \E limit \in LimitChoices : PendingLen <= limit + MaxPacketOverhead

(***************************************************************************)
(* Every frame sent is eventually reported, unless an earlier header made  *)
(* the application give up: feed never refuses for ever what a waiting     *)
(* packet still needs.                                                     *)
(***************************************************************************)
EveryFrameReported ==
    \A i \in 1..MaxFrames : i <= Len(sent) ~> i <= Len(out) \/ closed

=============================================================================
