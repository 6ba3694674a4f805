\* Three writes to one file, two chats, one failure anywhere.
SPECIFICATION ChatSpec
CONSTANTS
    Requests = {r1, r2, r3}
    Chats = {c1, c2}
    Tenants = {t1}
    Filenames = {f1}
    Sizes = {1}
    MaxDocuments = 2
    MaxStorage = 2
    MaxFailures = 1
    None = None
SYMMETRY Symmetry
VIEW WithoutAlone
INVARIANTS ChatTypeOK FreshFromSecondEpoch
CHECK_DEADLOCK FALSE
