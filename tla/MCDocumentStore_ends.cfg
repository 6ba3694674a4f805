\* Overlapping writes to one file, one failure anywhere: who waits for whom?
SPECIFICATION Spec
CONSTANTS
    Requests = {r1, r2, r3}
    Tenants = {t1}
    Filenames = {f1}
    Sizes = {1}
    MaxDocuments = 2
    MaxStorage = 3
    MaxFailures = 1
    None = None

PROPERTIES EveryRequestEnds
CHECK_DEADLOCK FALSE
