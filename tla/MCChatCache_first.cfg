\* The first epochs of a tenant, no failure at all.
SPECIFICATION ChatSpec
CONSTANTS
    Requests = {r1, r2, r3}
    Chats = {c1, c2}
    Tenants = {t1}
    Filenames = {f1}
    Sizes = {1}
    MaxDocuments = 2
    MaxStorage = 2
    MaxFailures = 0
    None = None
SYMMETRY Symmetry
VIEW WithoutAlone
INVARIANTS FreshAlways
CHECK_DEADLOCK FALSE
