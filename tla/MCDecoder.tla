------------------------------ MODULE MCDecoder ------------------------------
(***************************************************************************)
(* An instance of DecoderStream for TLC, with digits to the base 2.        *)
(***************************************************************************)
EXTENDS DecoderStream

\* The packet decoders, which here judge a frame by its first byte
Verdict(frame) ==
    CASE frame[1] = 0 -> "Ok"
      [] frame[1] = 1 -> "InsufficientData"
      [] frame[1] = 2 -> "UnexpectedPacket"
      [] OTHER -> "MalformedPacket"

\* A frame with a body of bytes that look like another frame's header
GoodFrame(header, length) ==
    <<header>> \o Encode[length] \o [i \in 1..length |-> 1]

\* One frame for each verdict with bodies of 0 to 3 bytes, an overlong
\* length, and a length that does not end
MCFrames ==
    {GoodFrame(0, 0), GoodFrame(1, 1), GoodFrame(2, 2), GoodFrame(0, 3),
     <<0, 2, 0>>, <<0, 2, 2, 3, 3>>}

=============================================================================
