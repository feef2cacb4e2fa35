SPECIFICATION FairSpec
CONSTANTS
    Signals = {s1, s2}
    MaxQty = 1
    MaxFlushes = 1
    NoOrder = NoOrder
PROPERTIES
    FlushEnds
    
CHECK_DEADLOCK FALSE
