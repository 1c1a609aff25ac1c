SPECIFICATION HeartbeatSpec
CONSTANTS
    Threads = {t1, t2}
    Workers = {w1, w2}
    NoWorker = NoWorker
    MaxRunning = 1
    DefaultRetry = 1
    MaxTime = 2
    MaxWatermark = 3
INVARIANTS TypeOK NoLostConsolidation BaselineWasConsumed RunningCap
PROPERTIES NeverOlder LostAgentStops
CHECK_DEADLOCK FALSE
