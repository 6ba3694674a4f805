\* A cleanup fails, the upload is repeated.
SPECIFICATION Spec
CONSTANTS
    Requests = {r1, r2, r3}
    Tenants = {t1}
    Filenames = {f1, f2}
    Sizes = {1, 2}
    MaxDocuments = 2
    MaxStorage = 3
    MaxFailures = 1
    None = None
INVARIANTS RetryCleansUp
CHECK_DEADLOCK FALSE
