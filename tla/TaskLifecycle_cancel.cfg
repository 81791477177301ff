\* A task cancelled while a worker executes it.
CONSTANTS
    t1 = t1
    t2 = t2
    t3 = t3
    w1 = w1
    w2 = w2
    a1 = a1
    a2 = a2
    NoTask = NoTask
    Tasks = {t1}
    Workers = {w1, w2}
    Admins = {a1}
    Accepted <- OneTask
    Bodies <- PlainBodies
    MaxRetries = 2
    MaxReissues = 0
    MaxFaulted = 0
SPECIFICATION Spec
CHECK_DEADLOCK FALSE
PROPERTY CancelIsFinal
