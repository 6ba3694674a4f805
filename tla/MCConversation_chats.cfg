\* Two streams, a clear, two users of two tenants each, one failure anywhere.
SPECIFICATION MCSpec
CONSTANTS
    Streams = {s1, s2}
    Clears = {c1}
    Tenants = {t1, t2}
    Names = {n1, n2}
    Threads = {h1, h2}
    Queries = {"how are you", "question"}
    MaxFailures = 1
    None = None
SYMMETRY Symmetry
INVARIANTS TypeOK OwnScopeOnly RewriteBounded WholeExchanges ClearedStaysCleared
CHECK_DEADLOCK FALSE
