SPECIFICATION Spec
CONSTANTS
    NoPosition = NoPosition
    Orders = {b1, b2, b3, s1}
    Buys = {b1, b2, b3}
    MaxQty = 1
    BusCapacity = 4
INVARIANTS
    BookIsNetOfFills
CHECK_DEADLOCK FALSE
