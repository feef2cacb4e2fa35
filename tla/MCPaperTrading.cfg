SPECIFICATION PaperSpec
CONSTANTS
    o1 = o1
    o2 = o2
    o3 = o3
    Orders <- MCOrders
    Kinds <- MCKinds
    Prices = {3, 4, 5}
    HalfSpread = 1
    Impact = 1
    Fee = 1
    InitialBalance = 14
    MaxResets = 1
SYMMETRY Symmetry
INVARIANTS
    NeverOverdrawn
    PositionIsNetOfFills
    LimitHonoured
    ExecutesOnce
