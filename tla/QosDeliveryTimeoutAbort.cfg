SPECIFICATION DeliverySpec
CONSTANTS
    U16Max = 2
    None = None
    Filters = {}
    SubIds = {}
    NoSubId = NoSubId
    SubscribeRequests = {}
    UnsubscribeRequests = {}
    MsPerSec = 1
    AuthMethods = {}
    DefaultPacketSize = 2
    Messages = {a, b}
    OnceMessages = {a, b}
    ReceiveMaxima = {None}
    MaxBreaks = 0
    TimeoutAborts = TRUE
INVARIANTS
    CompletedWasDelivered
CHECK_DEADLOCK FALSE
