SPECIFICATION Spec
CONSTANTS
    U16Max = 2
    None = None
    Filters = {}
    SubIds = {}
    NoSubId = NoSubId
    SubscribeRequests = {}
    UnsubscribeRequests = {}
    MsPerSec = 1
    AuthMethods = {}
    DefaultPacketSize = 2
    Configurations = {}
    ConnackInputs <- PlainConnacks
    PubrecErrors = {TRUE, FALSE}
    AbortCollisions = FALSE
    MaxSeq = 0
    MaxNow = 0
    f1 = f1
    f2 = f2
    s1 = s1
    s2 = s2
    m1 = m1
    m2 = m2
INVARIANTS
    CleanReceiveQuotaExact
