\* One plain task, immediate or scheduled, two workers, two admin requests
\* in flight, operator re-issues and one faulted task.
CONSTANTS
    t1 = t1
    t2 = t2
    t3 = t3
    w1 = w1
    w2 = w2
    a1 = a1
    a2 = a2
    NoTask = NoTask
    Tasks = {t1}
    Workers = {w1, w2}
    Admins = {a1, a2}
    Accepted <- OneTask
    Bodies <- PlainBodies
    MaxRetries = 2
    MaxReissues = 2
    MaxFaulted = 1
SPECIFICATION Spec
SYMMETRY Symmetry
CHECK_DEADLOCK FALSE
INVARIANTS
    TypeOK
    PendingIsTracked
    FailedIsRecoverable
    DLQShowsFailed
    ProcessedHasResult
    SingleCopy
    LogAgreesWhenQuiet
    RunsWhenDue
PROPERTY CancelSettles
PROPERTY ImplementsTaskService
