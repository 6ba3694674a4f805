\* A deployment stops a worker in the middle of a job.
SPECIFICATION Spec
CONSTANTS
    Tasks = {t1, t2}
    Workers = {w1, w2}
    Faults = {"shutdown"}
    MaxFaults = 2
    RedisSettings = {TRUE}
    NoJob = NoJob
INVARIANTS AckedIsFinished
