SPECIFICATION FairSpec
CONSTANTS
    a = a
    b = b
    c = c
    Server <- MCServer
    RouteTables <- Tables
    FirstTable <- Direct
    Traffic <- Burst
    MaxReleases <- OneRelease
    second_queue_limit = 1
    size_msg_report = 9
    size_cache = 5
    Precision = 8
INVARIANTS OneCopy CacheIsUnacknowledged
PROPERTIES SendEnabledAgain ImplementsNetwork
CHECK_DEADLOCK FALSE
