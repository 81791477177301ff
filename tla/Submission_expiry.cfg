\* One request at a time; the key's row expires.
CONSTANTS
    t1 = t1
    t2 = t2
    t3 = t3
    k1 = k1
    k2 = k2
    c1 = c1
    c2 = c2
    c3 = c3
    NoTask = NoTask
    NoKey = NoKey
    Tasks = {t1, t2, t3}
    Clients = {c1}
    Keys = {k1}
    Requests <- AllRequests
    CanExpire = TRUE
    MaxFaulted = 0
SPECIFICATION Spec
SYMMETRY Symmetry
CHECK_DEADLOCK FALSE
INVARIANT DuplicatesRejected
