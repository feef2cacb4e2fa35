SPECIFICATION AnsweredSpec
CONSTANTS
    Signals = {s1}
    MaxQty = 1
    MaxFlushes = 0
    NoOrder = NoOrder
PROPERTIES
    EveryFillIsPublished
CHECK_DEADLOCK FALSE
