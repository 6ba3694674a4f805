\* Two tenants, overlapping writes to the same files, one failure anywhere.
SPECIFICATION Spec
CONSTANTS
    Requests = {r1, r2, r3}
    Tenants = {t1, t2}
    Filenames = {f1, f2, f3}
    Sizes = {1, 2}
    MaxDocuments = 2
    MaxStorage = 3
    MaxFailures = 1
    None = None
SYMMETRY Symmetry
INVARIANTS TypeOK OneRowPerFile DocumentQuota StorageQuota NoGhosts ListedIsSearchable
PROPERTIES LiveVectorsStay TenantIsolation ImplementsCatalogue
CHECK_DEADLOCK FALSE
