SPECIFICATION SignalSpec
CONSTANTS
    Followed = {"pairs"}
    MaxHold = 3
    MaxSent = 5
    RateUnit = 100
    RateMargin = 10
    Rates = {5, 9, 10, 12, 20}
    DcaInterval = 2
    DcaMaxBuys = 2
    HalfSpreads = {1, 2}
    SkewStep = 1
    MaxStock = 2
INVARIANTS
    ExitsOnReversion
CHECK_DEADLOCK FALSE
