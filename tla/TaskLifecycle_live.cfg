\* A single worker, a scheduled task with a chained step of lower priority,
\* and one re-issue of each task: the chained step waits in the low list while
\* a second copy of the first task is in the high one.  Three ids are enough:
\* the first task runs at most twice.
CONSTANTS
    t1 = t1
    t2 = t2
    t3 = t3
    w1 = w1
    w2 = w2
    a1 = a1
    a2 = a2
    NoTask = NoTask
    Tasks = {t1, t2, t3}
    Workers = {w1}
    Admins = {a1}
    Accepted <- OneTask
    Bodies <- LiveBodies
    MaxRetries = 2
    MaxReissues = 1
    MaxFaulted = 0
SPECIFICATION FairSpec
CHECK_DEADLOCK FALSE
PROPERTIES
    PendingSettles
    ImplementsTaskService
