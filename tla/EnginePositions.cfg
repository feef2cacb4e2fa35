SPECIFICATION FairSpec
CONSTANTS
    NoPosition = NoPosition
    Orders = {b1, b2, s1}
    Buys = {b1, b2}
    MaxQty = 2
    BusCapacity = 2
INVARIANTS
    CalmBookIsExact
PROPERTIES
    QuantityReconciled
CHECK_DEADLOCK FALSE
