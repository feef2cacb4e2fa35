SPECIFICATION OperationsSpec
CONSTANTS
    k1 = k1
    k2 = k2
    t1 = t1
    t2 = t2
    Keys = {k1, k2}
    Threads = {t1, t2}
    NoKey = NoKey
    MaxRetries = 2
    MaxCalls = 3
    MaxCrashes = 2
    RecOrders = {r1, r2, r3}
    OneSymbol = {r1}
    MaxDepth = 3
    MaxRegistered = 3
    Traders = {s1, s2}
    TradeNames = {o1, o2}
    NoTrade = NoTrade
    MaxBars = 2
    MaxTicks = 1
    Requests = {q1, q2}
    Weights = {1, 2, 4}
    MaxTokens = 3
    Rate = 2
    MaxClock = 5
    Total = 300
    Slices = 3
    Jitters <- MCJitters
    Floors = {1, 200}
    Profiles <- MCProfiles
    Caps = {2, 900}
    Schedules <- MCSchedules
    Shortfalls = {0, 1, 50}
    MaxSends = 4
    Names = {n1, n2}
    MasterKeys = {mk1, mk2}
    MaxSets = 4
    MaxStarts = 3
    AuditStrategies = {as1, as2}
    AuditSymbols = {ay1}
    NoName = NoName
    Alerts = {al1, al2}
    Levels = {1, 2}
    Lifetime = 1
    Cooldown = 2
    MaxNow = 3
    Components = {w1, w2}
    Checkers = {h1, h2}
    Answers = {"healthy", "unhealthy"}
    NoComponent = NoComponent
    MaxEntries = 3
    MaxLogged = 5
    Topics = {et1}
    Handlers = {eh1, eh2, eh3}
    MaxPublished = 2
    MaxNesting = 2
    MaxChanges = 5
    MaxHistory = 1
    TickKinds <- MCTickKinds
    Frames = {1, 2}
    TargetVolume = 3
    LastTick = 3
    MaxOffered = 5
SYMMETRY MCSymmetry
INVARIANTS
    RecordsKept
    CompletedTookEffect
    CompletedIsFinal
    RepeatsAreExcused
    OrdersRecovered
    ShutdownOrderly
    StopAccounted
    BucketHolds
    PlansAccounted
CHECK_DEADLOCK FALSE
