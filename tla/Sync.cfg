SPECIFICATION SyncFairSpec
CONSTANTS
    Callers = {t1, t2, t3, t4}
    units = 2
    INT_MIN <- MinInt
    INT_MAX = 2
    Threads = {t1, t2, t3}
INVARIANTS
    UnitsKept
    WaitersExact
    BroadcastAlive
PROPERTIES
    NobodyLeft
    BroadcastEnds
CHECK_DEADLOCK FALSE
