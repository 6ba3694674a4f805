\* Two streams and a pool of two connections: both can wait for a second one.  Three
\* traces and a ring of two: the order and the overflow of the ring matter.
SPECIFICATION Spec
CONSTANTS
    Requests = {r1, r2, r3}
    Tenants = {t1, t2}
    TraceIds = {x1, x2}
    Asks <- MCAsks
    Limit = 1
    PoolSize = 2
    MaxTraces = 2
    MaxFailures = 1
    MaxClears = 1
    None = None
    r1 = r1
    r2 = r2
    r3 = r3
    t1 = t1
    t2 = t2
    x1 = x1
    x2 = x2
INVARIANTS TypeOK ConnectionsKept OwnSpans SpansReleased RecentTraces WindowsEnd
PROPERTIES EveryRequestEnds
CHECK_DEADLOCK FALSE
