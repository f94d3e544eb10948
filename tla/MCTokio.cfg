SPECIFICATION FairTokioSpec
CONSTANTS
    U16Max = 3
    None = None
    Filters = {f1}
    SubIds = {}
    NoSubId = NoSubId
    SubscribeRequests <- SubRequests
    UnsubscribeRequests <- UnsubRequests
    MsPerSec = 3
    AuthMethods = {}
    DefaultPacketSize = 2
    KeepAliveArg = 1
    CallTimeout = 2
    MinTick = 1
    ServerIds = {1}
    WildcardFilters = {f1}
    SharedFilters = {}
    PublishSize = 1
    MaxPublishes = 1
    MaxUnread = 1
    Settings <- AllSettings
    f1 = f1
    f2 = f2
INVARIANTS
    TokioTypeOK
    CallsSettle
    DeadServerNoticed
    DeliveredOnce
    PingrespRecorded
    CompletedMeansDelivered
PROPERTIES
    CallsEnd
CHECK_DEADLOCK FALSE
