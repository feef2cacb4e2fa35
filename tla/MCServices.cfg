SPECIFICATION ServicesSpec
CONSTANTS
    Priorities = {0, 1, 3}
    MaxSize = 3
    HighWatermark = 2
    LowWatermark = 1
    DropBelow = 3
    MaxPuts = 6
    Callers = {c1, c2}
    MaxReconnect = 2
    MaxCalls = 3
    LiveSubs = {s1}
    MaxTries = 2
    MaxLookups = 1
    Streams = {"candle", "tick"}
    Frames <- MCFrames
    Prices = {100, 111}
    MaxStaleness = 2
    MaxDelay = 3
    MaxTime = 3
    MaxItems = 3
    MaxLosses = 2
    MaxStarts = 2
    SdItems = {i1}
    Registrations <- MCRegistrations
    CbPhases <- MCCbPhases
    MaxCallbacks = 2
    MaxSignals = 2
    Settings = {1, 2, 3}
    Shipped = 1
    Override = 3
    NoSetting = NoSetting
    MaxClockTicks = 3
    Threads = {t1, t2, t3, t4}
    FailureThreshold = 2
    HalfOpenMaxCalls = 3
    SuccessThreshold = 2
    MaxManual = 2
INVARIANTS
    ConfigFollowsFile
    CalmConnection
    LiveOrdersAccounted
    FeedAccounted
    QueueAccounted
    ShutdownHonest
    HalfOpenNotStuck
PROPERTIES
    ReconnectSettles
    DeadFeedStaysDead
    CriticalLostLast
    ShutdownCompletes
    HalfOpenEnds
CHECK_DEADLOCK FALSE
