SPECIFICATION Spec
CONSTANTS
    Keys = {k1, k2}
    Threads = {t1, t2}
    NoKey = NoKey
    MaxRetries = 2
    MaxCalls = 2
    MaxCrashes = 1
INVARIANTS
    CleanShutdownIsDrained
CHECK_DEADLOCK FALSE
