\* Every kind of fault, with and without REQUIRE_REDIS.
SPECIFICATION Spec
CONSTANTS
    Tasks = {t1, t2}
    Workers = {w1, w2}
    Faults = {"crash", "window", "shutdown", "slow", "error"}
    MaxFaults = 3
    RedisSettings = {TRUE, FALSE}
    NoJob = NoJob
SYMMETRY Symmetry
INVARIANTS TypeOK OneEntryPerTask AttemptExclusive
