\* Workers that crash with a lease in their hands or outstay it.
SPECIFICATION Spec
CONSTANTS
    Tasks = {t1, t2}
    Workers = {w1, w2}
    Faults = {"crash", "slow"}
    MaxFaults = 2
    RedisSettings = {TRUE}
    NoJob = NoJob
INVARIANTS AccountedFor
PROPERTIES EveryTaskReported QueueDrains ImplementsDelivery
