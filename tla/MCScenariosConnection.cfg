SPECIFICATION ScenarioSpec
CONSTANTS
    U16Max = 2
    None = None
    Filters = {f1, f2}
    SubIds = {s1, s2}
    NoSubId = NoSubId
    SubscribeRequests <- SubRequests
    UnsubscribeRequests <- UnsubRequests
    MsPerSec = 1
    AuthMethods = {m1, m2}
    DefaultPacketSize = 2
    Configurations <- VariedConfigs
    ConnackInputs <- VariedConnacks
    PubrecErrors = {FALSE}
    AbortCollisions = FALSE
    MaxSeq = 1
    MaxNow = 2
    Scenarios = {"Subscriptions", "Connection"}
    f1 = f1
    f2 = f2
    s1 = s1
    s2 = s2
    m1 = m1
    m2 = m2
INVARIANTS
    IdOwnership
    ReverseIndexExact
    FreshConnection
    AuthMethodKnown
    AuthenticatedBeforeConnected
