SPECIFICATION Spec
CONSTANTS
    VbiBase = 2
    IncomingDecode <- Verdict
    Frames <- MCFrames
    LimitChoices = {5, 6}
    MaxFrames = 3
    MaxChunk = 7
INVARIANTS
    TypeOK
    FramesAsSent
    PhaseMatchesBuffer
    MemoryBounded
PROPERTIES
    EveryFrameReported
CHECK_DEADLOCK FALSE
