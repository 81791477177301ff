\* A task with a next step that operators may issue again once, also while its
\* first run is under way; one worker runs the copies one after the other.
CONSTANTS
    t1 = t1
    t2 = t2
    t3 = t3
    w1 = w1
    w2 = w2
    a1 = a1
    a2 = a2
    NoTask = NoTask
    Tasks = {t1, t2, t3}
    Workers = {w1}
    Admins = {a1}
    Accepted <- OneTask
    Bodies <- ChainBodies
    MaxRetries = 2
    MaxReissues = 1
    MaxFaulted = 0
SPECIFICATION Spec
CHECK_DEADLOCK FALSE
INVARIANT FailedNeverChains
