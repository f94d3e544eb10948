SPECIFICATION Spec
CONSTANTS
    VbiBase = 128
    Packets <- PacketsOf
    Damaged <- DamagedOf
    Unchecked <- SubscribesOf
    ValidPacket <- Valid
    EncodePacket <- EncodedAs
    DecodePacket <- DecodedAs
    Sendable <- SendableBy
    DecodesTo <- ReadableBy
    LegalFilters <- FiltersLegal
    ShortForms <- ShortFormsOf
    Alphabet <- AlphabetOf
    NextBytes = {0, 97}
    MaxFaults = 1
    MaxExtra = 2
    MaxFilter = 4
INVARIANTS
    RoundTrip
    FrameDecided
    AcceptedCanonical
    AcceptedIsValid
    FiltersFollowGrammar
PROPERTIES
    AnswerStable
CHECK_DEADLOCK FALSE
