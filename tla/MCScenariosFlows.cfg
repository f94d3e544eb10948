SPECIFICATION ScenarioSpec
CONSTANTS
    U16Max = 3
    None = None
    Filters = {}
    SubIds = {}
    NoSubId = NoSubId
    SubscribeRequests = {}
    UnsubscribeRequests = {}
    MsPerSec = 1
    AuthMethods = {}
    DefaultPacketSize = 2
    Configurations <- QosConfigs
    ConnackInputs <- QosConnacks
    PubrecErrors = {FALSE}
    AbortCollisions = FALSE
    MaxSeq = 5
    MaxNow = 0
    Scenarios = {"Flows", "Sending"}
    f1 = f1
    f2 = f2
    s1 = s1
    s2 = s2
    m1 = m1
    m2 = m2
INVARIANTS
    TypeOK
    IdOwnership
    ReceiveQuotaNotLeaked
    CleanReceiveQuotaExact
    SendQuotaNotLeaked
    CleanReceiveMaximumRespected
PROPERTIES
    RetransmissionOrder
