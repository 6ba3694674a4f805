\* Two users, four calls, one failure anywhere, with and without REQUIRE_REDIS.
SPECIFICATION Spec
CONSTANTS
    Users = {u1, u2}
    Calls = {c1, c2, c3, c4}
    MaxAttempts = 2
    MaxFailures = 1
    RedisSettings = {TRUE, FALSE}
    None = None
SYMMETRY Symmetry
INVARIANTS TypeOK GuessesBounded RefusedAfterLogout RefusedAfterDeletion
PROPERTIES LockOutlasts
CHECK_DEADLOCK FALSE
