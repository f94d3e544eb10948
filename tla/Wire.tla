-------------------------------- MODULE Wire --------------------------------
(***************************************************************************)
(* The parts that the packet codecs of both protocol versions are made of: *)
(* integers, strings and binary data (codec/, v5/property/mod.rs), the     *)
(* frame of a packet (v5/ack_helper.rs), topic filters (topic_filter.rs).  *)
(*                                                                         *)
(* A buffer is a sequence of bytes and a string is the sequence of its     *)
(* bytes.  A u32 is the pair of its 16-bit halves.  What the code reads    *)
(* from buf[offset..end] is read here by a reader: it remembers offset and *)
(* end, the value read last, the fields of the packet read so far and the  *)
(* first error, after which it reads no more, as the code returns with "?".*)
(***************************************************************************)
EXTENDS VariableByteInteger, FiniteSets, TLC

Slash == 47
Plus == 43
Hash == 35
ShareFilter == <<36, 115, 104, 97, 114, 101, 47>>  \* $share/

Elements(seq) == {seq[i] : i \in DOMAIN seq}

StartsWith(seq, prefix) ==
    Len(prefix) <= Len(seq) /\ SubSeq(seq, 1, Len(prefix)) = prefix

\* Bit i of a byte, as 0 or 1
Bit(byte, i) == (byte \div 2 ^ i) % 2

\* The number a Boolean contributes to a byte at bit i
Flag(boolean, i) == IF boolean THEN 2 ^ i ELSE 0

\* QoS::from_u8 answers None for 3.
QoSLevels == 0..2

-----------------------------------------------------------------------------
(***************************************************************************)
(* Reading                                                                 *)
(***************************************************************************)

Reader(bytes) ==
    [error |-> "None", buf |-> bytes, at |-> 0, end |-> Len(bytes), value |-> 0,
     fields |-> << >>]

Failed(r) == r.error # "None"

RefuseIf(r, wrong, error) ==
    IF ~Failed(r) /\ wrong THEN [r EXCEPT !.error = error] ELSE r

Require(r, right) == RefuseIf(r, ~right, "MalformedPacket")

\* Checks of what was just read
OneOf(r, values) == Require(r, r.value \in values)
NonEmpty(r) == Require(r, r.value # << >>)

\* Another value for what was just read
As(r, value) == IF Failed(r) THEN r ELSE [r EXCEPT !.value = value]

\* What was just read is a field of the packet.
Keep(r, field) ==
    IF Failed(r) THEN r ELSE [r EXCEPT !.fields = (field :> r.value) @@ r.fields]

\* A struct inside the packet has fields of its own, from which it is built.
Inner(r) == [r EXCEPT !.fields = << >>]
Built(r, outer, Struct(_)) ==
    IF Failed(r) THEN r
    ELSE [r EXCEPT !.value = Struct(r.fields), !.fields = outer.fields]

\* n bytes, if they are there
Take(r, n, value) ==
    IF Failed(r) THEN r
    ELSE IF r.at + n > r.end THEN [r EXCEPT !.error = "InsufficientData"]
    ELSE [r EXCEPT !.at = @ + n, !.value = value]

NextByte(r, i) == r.buf[r.at + i]

DecodeU8(r) == Take(r, 1, NextByte(r, 1))

DecodeU16(r) == Take(r, 2, 256 * NextByte(r, 1) + NextByte(r, 2))

DecodeU32(r) ==
    Take(r, 4, <<256 * NextByte(r, 1) + NextByte(r, 2),
                 256 * NextByte(r, 3) + NextByte(r, 4)>>)

TakeInteger(r, vbi) ==
    IF vbi.status # "Ok" THEN [r EXCEPT !.error = vbi.status]
    ELSE Take(r, vbi.length, vbi.value)

DecodeVariableByteInteger(r) ==
    IF Failed(r) THEN r ELSE TakeInteger(r, DecodeVbi(SubSeq(r.buf, r.at + 1, r.end)))

\* As many bytes as the number just read says
TakeCounted(r) ==
    Take(r, r.value, SubSeq(r.buf, r.at + 1, r.at + r.value))

\* BinaryData::decode
DecodeBinary(r) == TakeCounted(DecodeU16(r))

\* core::str::from_utf8.  The strings of the runs consist of ASCII
\* characters and of bytes that UTF-8 never uses.
IsUtf8(bytes) == \A i \in DOMAIN bytes : bytes[i] < 128

\* Utf8String::decode
IsText(r) ==
    Require(RefuseIf(r, ~IsUtf8(r.value), "InvalidUtf8"), 0 \notin Elements(r.value))
DecodeString(r) == IsText(DecodeBinary(r))

\* Mutant: a field that runs over the end of its frame asks for more bytes.
KeepInsufficient(before, r) == r

\* malformed_if_insufficient, around the step that led from one reader to another
MalformedIfInsufficient(before, r) ==
    IF ~Failed(before) /\ r.error = "InsufficientData"
    THEN [r EXCEPT !.error = "MalformedPacket"] ELSE r

\* The fields of a frame whose end is known
FieldU8(r) == MalformedIfInsufficient(r, DecodeU8(r))
FieldU16(r) == MalformedIfInsufficient(r, DecodeU16(r))
FieldInteger(r) == MalformedIfInsufficient(r, DecodeVariableByteInteger(r))
FieldBinary(r) == MalformedIfInsufficient(r, DecodeBinary(r))
FieldString(r) == MalformedIfInsufficient(r, DecodeString(r))

\* while offset < end: every turn reads an element of at least one byte.
Appended(list, r) == As(r, Append(list, r.value))
DecodeNext(Decode(_), r) ==
    IF Failed(r) \/ r.at = r.end THEN r ELSE Appended(r.value, Decode(r))
DecodeAll(Decode(_), r) ==
    LET Turn[n \in Nat] ==
            IF n = 0 THEN As(r, << >>) ELSE DecodeNext(Decode, Turn[n - 1])
    IN  Turn[r.end - r.at]

\* A field whose presence a flag tells; an Option is a sequence of length 0 or 1.
Some(r) == As(r, <<r.value>>)
DecodeOption(r, present, Decode(_)) ==
    IF Failed(r) THEN r ELSE IF present THEN Some(Decode(r)) ELSE As(r, << >>)
DecodeFlagged(r, bit, Decode(_)) ==
    DecodeOption(r, Bit(r.fields.flags, bit) = 1, Decode)

\* A field that a short form of the packet leaves out
DecodeUnlessAtEnd(Decode(_), r, default) ==
    IF r.at = r.end THEN As(r, default) ELSE Decode(r)

\* The payload: all that is left of the frame
DecodeRest(r) == Take(r, r.end - r.at, SubSeq(r.buf, r.at + 1, r.end))

-----------------------------------------------------------------------------
(***************************************************************************)
(* Frames                                                                  *)
(***************************************************************************)

\* The number just read is how many bytes belong to what follows.
Bounded(r) == IF Failed(r) THEN r ELSE [r EXCEPT !.end = r.at + r.value]

Arrived(r) == RefuseIf(r, r.at + r.value > Len(r.buf), "InsufficientData")

\* Mutant: a frame that runs far beyond what has arrived is malformed.
DecodeRemainingLengthImpatient(r) ==
    LET Near(s) == Require(s, s.value <= Len(s.buf) + 140)
    IN  Bounded(Arrived(Near(DecodeVariableByteInteger(r))))

\* The length of a frame is read, and its end becomes the end of what is read.
DecodeRemainingLength(r) == Bounded(Arrived(DecodeVariableByteInteger(r)))

\* decode_fixed_header, with the flags the packet type allows
HasTypeAndFlags(r, type, flags) ==
    RefuseIf(RefuseIf(r, r.value \div 16 # type, "InvalidPacketType"),
             r.value % 16 \notin flags, "InvalidPacketFlags")
DecodeFixedHeader(bytes, type, flags) ==
    DecodeRemainingLength(HasTypeAndFlags(DecodeU8(Reader(bytes)), type, flags))

\* decode_packet_id
IsPacketId(r) == Require(r, r.value # 0)
DecodePacketId(r) == IsPacketId(FieldU16(r))

\* The whole frame has been read.
AtEnd(r) == Require(r, r.at = r.end)

\* What decode returns: the packet and the bytes it took, or the error
Decoded(r, Packet(_)) ==
    IF Failed(r) THEN [status |-> r.error]
    ELSE [status |-> "Ok", packet |-> Packet(r.fields), length |-> r.at]

-----------------------------------------------------------------------------
(***************************************************************************)
(* Writing                                                                 *)
(***************************************************************************)

EncodeU16(value) == <<value \div 256, value % 256>>

EncodeU32(value) == EncodeU16(value[1]) \o EncodeU16(value[2])

EncodeBinary(bytes) == EncodeU16(Len(bytes)) \o bytes

\* BinaryData::encode_slice accepts the bytes
ValidBinary(bytes) == Len(bytes) < 2 ^ 16

\* Utf8String::encode_str accepts the string
ValidString(string) == 0 \notin Elements(string) /\ ValidBinary(string)

\* The parts written one after the other
Written(parts) ==
    LET Upto[n \in 0..Len(parts)] ==
            IF n = 0 THEN << >> ELSE Upto[n - 1] \o parts[n]
    IN  Upto[Len(parts)]

EncodeEach(EncodeOne(_), elements) ==
    Written([i \in DOMAIN elements |-> EncodeOne(elements[i])])

SumOf(Length(_), elements) ==
    LET Upto[n \in 0..Len(elements)] ==
            IF n = 0 THEN 0 ELSE Upto[n - 1] + Length(elements[n])
    IN  Upto[Len(elements)]

\* encode_fixed_header: the length comes from encoded_len, not from the bytes.
EncodeFixedHeader(type, flags, remainingLength) ==
    <<16 * type + flags>> \o Encode[remainingLength]

-----------------------------------------------------------------------------
(***************************************************************************)
(* Topic names and topic filters                                           *)
(***************************************************************************)

HasWildcard(topic) == {Plus, Hash} \cap Elements(topic) # {}

\* filter.split('/'): the levels with their place
Levels(filter) ==
    LET bounds == {0, Len(filter) + 1} \cup
                  {i \in DOMAIN filter : filter[i] = Slash}
    IN  {[text |-> SubSeq(filter, b[1] + 1, b[2] - 1),
          last |-> b[2] = Len(filter) + 1] :
             b \in {b \in bounds \X bounds :
                       b[1] < b[2] /\ \A c \in bounds : c <= b[1] \/ c >= b[2]}}

\* Mutant: # may stand on any level.
IsValidTopicFilterHashAnywhere(filter) ==
    /\ filter # << >>
    /\ \A level \in Levels(filter) :
          /\ Hash \in Elements(level.text) => level.text = <<Hash>>
          /\ Plus \in Elements(level.text) => level.text = <<Plus>>

\* is_valid_topic_filter
IsValidTopicFilter(filter) ==
    /\ filter # << >>
    /\ \A level \in Levels(filter) :
          /\ Hash \in Elements(level.text) => level.text = <<Hash>> /\ level.last
          /\ Plus \in Elements(level.text) => level.text = <<Plus>>

\* is_valid_v5_topic_filter: $share/{ShareName}/{filter}, or any other filter
IsValidV5TopicFilter(filter) ==
    IF ~StartsWith(filter, ShareFilter) THEN IsValidTopicFilter(filter)
    ELSE \E slash \in Len(ShareFilter) + 2..Len(filter) :
            /\ filter[slash] = Slash
            /\ LET shareName == SubSeq(filter, Len(ShareFilter) + 1, slash - 1)
               IN  ~HasWildcard(shareName) /\ Slash \notin Elements(shareName)
            /\ IsValidTopicFilter(SubSeq(filter, slash + 1, Len(filter)))

=============================================================================
