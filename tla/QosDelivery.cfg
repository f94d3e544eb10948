SPECIFICATION DeliverySpec
CONSTANTS
    U16Max = 2
    None = None
    Filters = {}
    SubIds = {}
    NoSubId = NoSubId
    SubscribeRequests = {}
    UnsubscribeRequests = {}
    MsPerSec = 1
    AuthMethods = {}
    DefaultPacketSize = 2
    Messages = {a, b, c}
    OnceMessages = {a, b}
    ReceiveMaxima = {None, 1}
    MaxBreaks = 2
    TimeoutAborts = FALSE
INVARIANTS
    DeliveryTypeOK
    PeerFlowsOwned
PROPERTIES
    DeliversReliably
CHECK_DEADLOCK FALSE
