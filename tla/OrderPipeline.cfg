SPECIFICATION Spec
CONSTANTS
    Signals = {s1, s2}
    MaxQty = 2
    MaxFlushes = 2
    NoOrder = NoOrder
INVARIANTS
    SignalLedger
    FillsPublishedOnce
    ForgottenOrdersAreDead
    FilledLeavesComplete
PROPERTIES
    DeliversFills
CHECK_DEADLOCK FALSE
