------------------------------- MODULE MCCodec -------------------------------
(***************************************************************************)
(* CodecLink for TLC, with the packets of both protocol versions.          *)
(***************************************************************************)
EXTENDS MCV5Packets, CodecLink, TopicFilterGrammar

V311 == INSTANCE MCV311Packets

PacketsOf(v) == IF v = "V5" THEN RoundTripPackets ELSE V311!RoundTripPackets
DamagedOf(v) == IF v = "V5" THEN FaultPackets ELSE V311!FaultPackets
AlphabetOf(v) == IF v = "V5" THEN FaultBytes ELSE V311!FaultBytes

Valid(v, p) == IF v = "V5" THEN V5Valid(p) ELSE V311!V311Valid(p)
EncodedAs(v, p) == IF v = "V5" THEN V5Encode(p) ELSE V311!V311Encode(p)
DecodedAs(v, bytes) == IF v = "V5" THEN V5Decode(bytes) ELSE V311!V311Decode(bytes)

\* The validation of v3.1.1 is the same in both directions, and it has no
\* abbreviated packets.
SendableBy(v, p) == IF v = "V5" THEN V5Sendable(p) ELSE V311!V311Valid(p)
ReadableBy(v, p) == v = "V5" => ServerMaySend(p)
ShortFormsOf(v) == IF v = "V5" THEN V5ShortForms ELSE {}

-----------------------------------------------------------------------------
(* Every topic filter of up to MaxFilter characters *)

CONSTANT MaxFilter

Texts == Seqs!BoundedSeq({Letter, Slash, Plus, Hash}, MaxFilter)
AllFilters == Texts \cup {ShareFilter \o text : text \in Texts}

SubscribesOf(v) ==
    IF v = "V5" THEN SubscribeTo(AllFilters) ELSE V311!SubscribeTo(AllFilters)

FiltersLegal(v, p) ==
    IF v = "V5" THEN \A f \in FiltersOf(p) : GrammarAcceptsV5(f)
                ELSE \A f \in V311!FiltersOf(p) : GrammarAccepts(f)

=============================================================================
