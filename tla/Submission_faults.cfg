\* Two requests in flight over two keys, expiry, faults and crashes.
CONSTANTS
    t1 = t1
    t2 = t2
    t3 = t3
    k1 = k1
    k2 = k2
    c1 = c1
    c2 = c2
    c3 = c3
    NoTask = NoTask
    NoKey = NoKey
    Tasks = {t1, t2, t3}
    Clients = {c1, c2}
    Keys = {k1, k2}
    Requests <- AllRequests
    CanExpire = TRUE
    MaxFaulted = 1
SPECIFICATION Spec
SYMMETRY Symmetry
CHECK_DEADLOCK FALSE
INVARIANTS
    TypeOK
    KeyNamesTask
    AcceptedIsDurable
    SavedIsTracked
    DuplicateNeedsRace
