SPECIFICATION DeskSpec
CONSTANTS
    y1 = y1
    y2 = y2
    g1 = g1
    g2 = g2
    OmsSymbols = {y1, y2}
    MaxOpenOrders = 2
    MaxQuantity = 2
    MaxOrders = 3
    MaxFills = 2
    InitialCash = 100
    FillPrices = {10, 13}
    FillSizes = {1, 2}
    FillFees = {0, 1}
    MaxBooked = 4
    EquityLevels = {80, 90, 100}
    MaxDrawdownPct = 15
    WarnPct = 60
    DailyLossPct = 5
    Notionals = {4, 20}
    RecentBreaches = 3
    MaxUpdates = 6
    Tasks = {a, b, c}
    Recurring = {a}
    Urgent = {b}
    MaxRetries = 1
    MaxConcurrent = 2
    MaxRuns = 2
    NoTask = NoTask
    Strategies = {g1, g2}
    StreakLimits = {2, 3}
    DrawdownLimit = 20
    Equities = {70, 100}
    MaxTrades = 3
    PaperNames = {p1, p2, p3}
    Quotes = {10, 14}
    Lots = {1, 2}
    Slip = 1
    Commission = 1
    StartBalance = 30
    BarPrices = {100, 104, 90}
    Quantities = {1, 2}
    StopPercents = {3, 9}
    TakeRatio = 2
    SlipUnit = 1
    FeeUnit = 1
    InitialCapital = 1000
    MaxRunBars = 4
    Managed = {ma1, ma2}
    OnPaper = {ma1}
    MinTrades = 2
    MinSharpe = 100
    MaxStreak = 3
    RetrainAfter = 2
    MaxAgentTrades = 5
    Sids = {w1, w2, w3}
    WeightUnit = 10
    MinShare = 1
    MaxShare = 4
    AskedShares = {0, 3}
    SharpeUnit = 2
    SharpeFloor = 1
    Sharpes <- MCSharpes
    Strengths = {2}
    MaxListed = 3
    MaxMoves = 4
    MaxInstances = 3
    MaxCreated = 4
    Fitnesses = {2, 6, 9}
    FameThreshold = 5
    PopulationSize = 3
    EliteCount = 1
    FameSize = 3
    MaxGenerations = 4
    Closes = {20, 21, 23}
    StopWidths = {1, 2}
    CooldownBars = 1
    TargetPercent = 5
    Thresholds = {10, 30, 49, 50, 51, 70, 90}
    MaxTraded = 7
    Followed = {"stat_arb", "pairs", "kalman", "calendar", "vol_arb", "term_structure",
                "triangular", "basis", "funding", "carry", "conversion", "box", "butterfly",
                "iron_butterfly", "ratio", "vega_neutral", "smile", "straddle", "news",
                "fading", "breakout", "engulfing", "seasonality", "microstructure",
                "order_flow", "rsi", "ema_cross", "adaptive_ma", "roc", "dca", "provider"}
    MaxHold = 3
    MaxSent = 5
    RateUnit = 100
    RateMargin = 10
    Rates = {5, 9, 10, 12, 20}
    DcaInterval = 2
    DcaMaxBuys = 2
    HalfSpreads = {1, 2}
    SkewStep = 1
    MaxStock = 2
SYMMETRY MCSymmetry
INVARIANTS
    OmsAccounted
    BooksAgree
    RiskHolds
    SchedulerHonest
    LifecycleHolds
    SimulationsAccounted
CHECK_DEADLOCK FALSE
