\* Requests for chains of two or three tasks, worked on as they come in,
\* with one task that infrastructure failures hit.
CONSTANTS
    t1 = t1
    t2 = t2
    t3 = t3
    w1 = w1
    a1 = a1
    c1 = c1
    k1 = k1
    NoTask = NoTask
    NoKey = NoKey
    Tasks = {t1, t2, t3}
    Workers = {w1}
    Admins = {a1}
    Clients = {c1}
    Keys = {k1}
    Requests <- ChainRequests
    Accepted <- NoTasks
    Bodies <- NoTasks
    CanExpire = FALSE
    MaxRetries = 2
    MaxReissues = 0
    MaxFaulted = 1
SPECIFICATION PlatformSpec
SYMMETRY Symmetry
CHECK_DEADLOCK FALSE
INVARIANTS
    NoDanglingIds
    SubmittedIsTracked
    RunningHasKey
    OneRunPerKey
    ProcessedShowsNext
    ChainedOnce
    ChildUnderFinishedRoot
    RunsWhenDue
PROPERTIES
    CancelOutlivesSubmission
    ImplementsTaskService
