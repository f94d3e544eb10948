SPECIFICATION ReceptionSpec
CONSTANTS
    U16Max = 2
    None = None
    Filters = {}
    SubIds = {}
    NoSubId = NoSubId
    SubscribeRequests = {}
    UnsubscribeRequests = {}
    MsPerSec = 1
    AuthMethods = {}
    DefaultPacketSize = 2
    Messages = {a, b, c}
    OnceMessages = {a, b}
    OwnMaxima = {1, 2}
    MaxBreaks = 2
    MaxOwn = 1
INVARIANTS
    ReceptionTypeOK
    HonestServerAccepted
PROPERTIES
    ReceivesOnce
    ReceptionCompletes
CHECK_DEADLOCK FALSE
