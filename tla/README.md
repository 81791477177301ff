# Formal model of the event-processing platform

TLA+ modules, TLC configurations and TLAPS proofs for the Go program in this
repository: an HTTP API that accepts tasks, a Postgres table that records
them, a Redis queue that carries their ids, and a pool of workers that run
them, chain follow-up steps, retry and dead-letter.

## 1. Inventory of the system

| part | source | state | operations |
|---|---|---|---|
| event and delivery-log tables | `internal/database/*.sql.go`, `internal/repository/event_repository.go`, `eventstore.go` | `events` (status, priority, execute_at, parent, payload with `next`, result), `event_delivery_logs` (one row per task) | insert, status update, result update, cancel-if-pending, reset-for-retry, log upsert |
| idempotency service | `internal/service/idempotency.go`, `idempotency.sql.go` | `idempotency_keys` (key, event id, expiry) | lookup of a live key, insert `ON CONFLICT DO NOTHING` |
| task API | `internal/handler/task_handler.go` | none of its own | create, cancel, result |
| admin API | `internal/handler/admin_handler.go`, `admin_repository.go` | none of its own | retry, DLQ retry, DLQ remove, requeue, listings, statistics |
| chaining | `internal/chaining/chaining.go` | none of its own | after a handler succeeds: save and enqueue its `next` step |
| task handlers | `internal/taskhandlers/*.go`, `internal/storage/minio.go` | objects in MinIO, the result column | resize_image, scrape_url, generate_report |
| worker pool and queue | pulse library (external), wired in `cmd/main.go` | three priority lists, scheduled set, dead-letter list | take, run with retries, promote due entries, dead-letter |
| process | `cmd/main.go`, `cmd/server.go` | open clients, workers, requests in flight | startup, serve, drain, deferred cleanup |
| validation | `internal/service/task_validator.go`, first half of `HandleCreateTask` | none | checks of the request and per-type checks of the payload |
| HTTP pipeline | `cmd/server.go`, `internal/middleware/request_logger.go`, `internal/sender/response.go` | the status a request was answered with | log, recover, time out, respond |
| observability | `internal/telemetry`, `internal/metrics`, `internal/taskerr`, `internal/middleware/trace.go` | counters, spans | not modelled |
| download guard | `internal/taskhandlers/ssrf.go` | none | not modelled |

How they interact: a request and a worker never talk to each other; they meet
only in the `events` row and in the Redis lists.  No transaction spans a row
and a list, and none spans two statements, so between any two statements of
one goroutine every other one may run, the process may die, or a command may
fail, or succeed and report an error.

What is hard here, and the properties that make each part correct:

* **Submission** looks a key up, inserts, records the key and enqueues in four
  steps.  Correct: what is accepted is durable and queued, a key names its
  task, nothing inserted is forgotten, duplicates need a race or an expiry.
* **Lifecycle**: the status says nothing about who is running the task (a
  running task is `pending`), and cancel, retry and requeue leave old ids in
  the lists.  Correct: a pending task is always in somebody's hands, a failed
  one can be recovered, a processed one has its result, a cancelled one that
  is not being executed stays out of the handlers.
* **Chaining** runs after the handler has taken effect and can fail on its
  own, which retries the handler.  Correct: each step is chained once, under
  a root that has its result, and runs when it is due.
* **Handlers** upload, then store the key.  Correct: a stored key names an
  uploaded object, and a report finds its parent's file.
* **Validation** looks only at the first two steps of a chain, and at a
  report's payload only for being an object.  Correct: the root never fails on
  its own payload later, a first chained step only in two named cases.
* **The listing** counts and reads in two statements while rows come and
  change, and cuts its offset to 32 bits.  Correct: a walk through the pages
  misses nothing that was there all along; a page is not another page.
* **Shutdown** closes clients under goroutines.  Correct: workers, and
  requests that were waited for, keep their clients and the log; a signalled
  process exits.
* **The pipeline** has three writers of a status.  Correct: the log tells the
  status the client got.

The full list of hazards, with lines, is in `PROJECT.json`.

## 2. Modules

| module | models | notes |
|---|---|---|
| `EventTable` | the SQL statements on `events` and `event_delivery_logs` | operators from table to table, one per statement; payload text, trace ids and timestamps left out; `next` kept as the sequence of remaining steps; a priority nobody knows, which `HandleCreateTask` lets pass, is `"other"` and queued as medium |
| `PulseQueue` | the Redis queue | external; a list is a multiset (nothing relies on the order inside a list), the scheduled set and the dead-letter list are sets |
| `TaskLifecycle` | worker loop, chaining, cancel and admin operations, scheduler, crash | extends `PulseQueue`; one action per statement or command |
| `TaskService` | what clients and operators are promised | abstract: no queue, worker, attempt or request |
| `TaskRefinement` | `TaskLifecycle` implements `TaskService` | `INSTANCE ... WITH` the refinement mapping |
| `Submission` | `HandleCreateTask` from the lookup on, and the idempotency service | extends `PulseQueue`; concurrent requests, expiry, crash |
| `TaskPlatform` | the composition | `Submission` and `TaskLifecycle` over one table, one queue and one process |
| `RequestValidation` | which bodies reach the lookup | operators over the forms a payload can have |
| `TaskHandlers` | the three handlers along one accepted chain, and the storage client | extends `RequestValidation`; uploads, results and the kind of data an object holds |
| `TaskListing` | `GET /api/admin/tasks` | count, page, concurrent writers, integer widths |
| `Shutdown` | `run` in `cmd/main.go` and the HTTP pipeline | deferred cleanups as a stack; requests on their way through the middlewares |
| `MCTaskLifecycle`, `MCTaskPlatform`, `MCSubmission`, `MCTaskListing`, `MCTaskHandlers`, `MCShutdown` | | instances for TLC |
| `TaskLifecycleProofs`, `TaskRowProofs`, `TaskCopyProofs` | | TLAPS proofs about `TaskLifecycle`, each extending the one before; the last one also proves the refinement |
| `TaskPlatformProofs` | | TLAPS proofs about the composition, extending all of these |
| `SubmissionProofs`, `TaskHandlersProofs`, `TaskListingProofs`, `ShutdownProofs` | | TLAPS proofs about the module of that name |

### TaskLifecycle

`events`, `logs`, `ready`, `scheduled` and `dlq` are the shared stores.
`worker[w]` is a goroutine's place in the pool's processWithRetry: `fetch`
(`EventStore.GetTask`), `run` (the handler up to `UpdateEventResult`),
`saveNext` and `enqueueNext` (`chaining.Wrap`), `succeed` and `logSucceed`
(status and log after success), `logRetry` (a failed attempt), `giveUp`,
`logGiveUp` and `deadLetter` (after the last one).  `request[a]` is an admin
request between two of its statements.  A request that does one statement
(cancel, DLQ removal) is one action.

Every write takes an outcome `r`: `ok`, `lost` (error, no effect) or `unack`
(effect, and an error is reported).  Anything but `ok`, and every crash, puts
the task into the history variable `faulted`; safety properties say what holds
for the tasks outside it.  `reissued` counts operator retries and requeues and
`removed` remembers DLQ removals; no action but their own bounds reads them.
Errors the code only logs (status update, log upsert) still let the worker go
on, as in the code.

`MaxFaulted`, `MaxReissues` and `MaxCopies` are bounds of the model, not of
the code; `MaxRetries` is the pool's.  The handler step may fail at any time,
without counting as a fault: that is the normal retry path.

The read-only endpoints that depend on more than one write are operators:
`HandleGetTaskChildren`, `HandleGetTaskRetries` and `HandleListDLQ`.

### TaskService and the refinement

The abstract task is the row without its queueing: status, parent, remaining
steps, whether it has a result.  Its steps say what may happen to a task as a
client sees it: `Accept`, `StoreResult`, `Chain`, `Process`, `Fail`, `Cancel`,
`IssueAgain`, `Reopen`, `Lose`.  The promise is in their guards: a child is
created only under the root and after its predecessor's result; "processed"
needs the result and the next step; only a pending task is cancelled; a
decision is revised only for a task that was issued again or that a fault hit.
That a *cancelled* task may still be decided is in the abstract specification
because the code does it (run `cancel_overwritten`).

The mapping is `events` without priority and execute_at for `task`, `faulted`
for `lost`, and the re-issued tasks for `again`.  Every step of a worker,
scheduler, request or crash must be a step of `TaskService` or change none of
its variables.

### TaskPlatform

`Sub == INSTANCE Submission` shares `events`, `ready`, `scheduled` and
`faulted` with `TaskLifecycle`; `Accepted` is empty, so every root comes from a
request.  A row is visible to the cancel endpoint from its insert, before its
key is recorded and its id queued, and a worker may finish a task while its
request is still between the push and the answer.  `ProcessCrash` replaces the
crashes of both parts: one process holds requests and workers.  Keys do not
expire in the composition: its behaviours are those of one key lifetime, 30
days, and what expiry does to duplicates is checked in `Submission`.  With
expiry, tasks of several generations of one key run beside each other and the
state space grows too large to search.

### Submission

`HandleCreateTask` (after validation) is `HandleCreateTask` (lookup),
`SaveEvent`, `RecordKey`, `EnqueueTask`, and `MarkFailed` when the queue
reports an error.  `RecordKey` drops the answer that the key was already
there, as the handler does.  `raced` remembers keys that were looked up while
a rival request had not recorded them.

### RequestValidation and TaskHandlers

A payload is one of six forms: omitted, malformed, without its source URL,
with an option out of range, an object whose `scraped_key` is not a string,
good; that is what the checks and the handlers tell apart.  The validator
decodes the parameters of `resize_image` and `scrape_url` into the structs
their handlers use, and a report's payload into a map of raw values
(`task_validator.go:61`), so the fifth form passes it and fails in
`generate_report.go:32`.  `Accepts` is the whole of `HandleCreateTask` before
the lookup.
`TaskHandlers` starts from every accepted chain and runs it with every failure
point of the handlers; an omitted payload is stored as `null` and decodes to
empty parameters, an unknown type has no handler, an empty type ends the chain
(`chaining.go:39`).  The storage client may be missing or lack its bucket for
the life of the process, since `run` only logs both.  The model ends with that
process: `ProcessedDownloads` says what the process that ran a task answers, and
a later one that starts without a client answers 503 (`task_handler.go:274`).
The parent of a chained
task is the root of its chain, as `EventStore.GetTask` passes it on.
`HandleGetTaskResult` is an operator over that state, the set of answers a
client may get.

### TaskListing

One listing request at a time, as a page or as part of a walk that follows
`total_pages`; between any two statements another goroutine may insert a row
(with a `created_at` drawn before the insert, so not necessarily the latest)
or change a status, which moves a row in or out of the filter.  Rows with equal
`created_at` come in any order, since the query has no tie-break.  `Signed`
models Go's conversions; the widths are constants.

### Shutdown

The resources in the order `run` opens them, unwound last in, first out;
`StartupFails` distinguishes `log.Fatalf`, which runs no deferred call, from
the Redis panic and the plain return, which do.  A request carries what the client received
(`wire`), what the spying writer saw last (`status`) and what the log says
(`logged`).  `WriteTimeout` (10 s) passes before the deadline of `Timeout`
(60 s), which is why the 504 of `Timeout` never reaches a client.  Requests
without a log line (`/health`, `/metrics`, and preflights, which `cors.Handler`
answers before `RequestLogger` is reached) are those with `spied = FALSE`.

## 3. Runs

| run | configuration | shows |
|---|---|---|
| `lifecycle_ops` | one plain task, immediate or scheduled, two workers, two admin requests, two re-issues, one faulted task (1.2 M states) | `TypeOK`, `PendingIsTracked`, `FailedIsRecoverable`, `DLQShowsFailed`, `ProcessedHasResult`, `SingleCopy`, `LogAgreesWhenQuiet`, `RunsWhenDue`, `CancelSettles`, `ImplementsTaskService` |
| `lifecycle_live` | one worker, scheduled high-priority task with a low-priority next step, one re-issue per task (0.28 M) | `PendingSettles`, `ImplementsTaskService` |
| `platform` | requests for chains of one and two further steps, immediate or scheduled, one worker, one operator, one faulted task (0.64 M) | `SubmittedIsTracked`, `RunningHasKey`, `OneRunPerKey`, `CancelOutlivesSubmission`, `ProcessedShowsNext`, `NoDanglingIds`, `ChainedOnce`, `ChildUnderFinishedRoot`, `RunsWhenDue`, `ImplementsTaskService` |
| `submission` | two concurrent requests over two keys, expiry, one faulted task (55 k) | `TypeOK`, `KeyNamesTask`, `AcceptedIsDurable`, `SavedIsTracked`, `DuplicateNeedsRace` |
| `listing` | four rows, four times, pages of one and two rows, an int of 8 bits and an offset of 4, page numbers around every boundary (2.2 M) | `WalkSeesAll`, `PageIsItsOwn` |
| `handlers` | every accepted chain of up to three tasks, two attempts each, every state of the storage client (13 k) | `TypeOK`, `ResultPointsAtObject`, `ProcessedDownloads`, `ReportFindsParentFile`, `ReportDecodesScrapedRoot`, `ValidatedIsUsable` |
| `shutdown` | three workers, the default, and two requests (0.26 M) | `WorkersHaveClients`, `RequestsHaveClients`, `LogOutlivesUsers`, `LogTellsAnswer`, `SignalExits` |

Why the bounds are enough: two workers and two requests are what it takes for
two runs of a task, or two operators, to overlap; two attempts separate the
first from the last; two re-issues give three copies of one id; one faulted
task shows that the damage of a fault stays with the task it hit; a chain of
three tasks is the shortest in which root, parent and child differ; four rows
in pages of two make a walk of two full pages, and the narrow integers keep the
proportions of 64 and 32 bits (more offset values than rows, more int values
than offset values), so that each way to wrap occurs.  In `lifecycle_live` the
first task is in the high list a second time (retried before its entry is
promoted, or requeued while it runs) while its pending child is in the low one,
so the child does wait for its turn.  Deadlock
is not checked in the lifecycle, platform and submission runs because the bounded system
does stop when every task is decided and the bounds are used up.

Symmetry is used where ids are interchangeable: workers and admin requests in
`lifecycle_ops`, tasks in `platform`, tasks and clients in the submission runs, rows in
`listing`.  The liveness runs use none.

Runs that expect a counterexample, each a disagreement between a statement of
the documentation and the code:

| run | property | what happens |
|---|---|---|
| `cancel_overwritten` | `CancelIsFinal` | a cancel of a running task is acknowledged, and the worker's status update overwrites it |
| `failed_chains` | `FailedNeverChains` | a running task is still pending, so an operator can requeue it; the first run chains the next step, the second one uses up its attempts and fails the task |
| `duplicate_race` | `DuplicatesRejected` | two identical requests pass the lookup together and both are accepted |
| `duplicate_expiry` | `DuplicatesRejected` | an expired key row is invisible to the lookup and blocks the insert, so the key never protects again |
| `retry_history` | `AttemptsStayLogged` | the log has one row per task, so each attempt overwrites the entry of the one before, although "every attempt" is said to be logged and the endpoint to give the retry history |

Smaller divergences, met while reading, without a run of their own:

* a retry ignores `execute_at` (`admin_handler.go:268`; `RunsWhenDue` excepts
  re-issued tasks);
* a report chained after `resize_image` cannot decode the image
  (`generate_report.go:55`), although the README (line 120) and the handler's
  comment say that any task with a file result will do;
  `ReportDecodesScrapedRoot` names exactly when a report fails to decode;
* cancelling leaves the id in its list and a retry pushes it again, a second way
  to the two runs of `failed_chains` (`admin_handler.go:268`);
* requests that outlive the ten seconds of `srv.Shutdown` lose their clients
  (`main.go:167`; `RequestsHaveClients` excepts them);
* payloads and types from the second chained step on are not validated
  (`task_handler.go:102`), although the README answers 400 to invalid payloads;
  nor is the type of a report's `scraped_key` (`task_validator.go:61`);
  `ValidatedIsUsable` says exactly which steps may fail for that reason;
* `GET .../children` of a task in the middle of a chain is empty, because
  children hang under the root, although its comment says "all tasks chained
  after the given task" (`admin_handler.go:186`); `ProcessedShowsNext` therefore
  asks the root;
* an offset of 2^32 and more wraps and shows another page
  (`admin_repository.go:58`; `PageIsItsOwn` excepts it);
* a handler that takes longer than `WriteTimeout` is logged with its status
  although the client got none (`LogTellsAnswer` speaks of clients that got one);
* `sender.RespondWithError` looks for the log context under a key type of its
  own package, so the request log never carries the error it stores.

### Fairness

`FairSpec` assumes weak fairness of each worker, each request already received,
the scheduler and the passing of time: the goroutines of the pool and of
net/http run as long as the process does, and each of their steps ends because
the clients have timeouts.  A worker keeps being enabled at whichever place it
is, so weak fairness suffices.  Nothing obliges an operator to send a request,
a handler to succeed or a fault to happen.  A handler that fails forever is
covered: attempts are counted.  `PendingSettles` speaks of finitely many tasks,
each issued again a bounded number of times.  With clients that never stop
submitting tasks of higher priority it does not hold of the code: workers empty
the higher lists first and nothing ages, which is the documented order.  In
`Shutdown`, a request need not end; `run`
goes on, a task ends and a worker told to stop does.

## 4. Proofs

Everything below holds for every set of tasks, workers, clients and requests,
every set of request bodies (chains of any length), every width of the
integers and every value of the bounds.  Each inductive invariant was first checked by TLC on the instance of
the run that checks the property.

About `TaskLifecycle`:

* `TypeCorrect` (`TaskLifecycleProofs`): `Spec => []TypeOK`.  `TypeOK` is not
  inductive: that a worker in `enqueueNext` holds a child, and that a busy
  worker or request holds a task, is needed to know that the ids it writes are
  ids.  `TypeInv` therefore strengthens the worker and request records to the
  sets `SoundWorker` and `SoundRequest`; `TypeInvImplies` gives back `TypeOK`
  and `Control`.
* `PendingNeverLost` (`TaskLifecycleProofs`): `Spec => []PendingIsTracked`.
  Given `TypeInv` it is inductive, one task at a time (`TrackedIfPending`).
  `WorkerKeepsTrack` and `RequestKeepsTrack` say when a step of one goroutine
  leaves a task tracked: it may drop the task only for a list, and `PushKeeps`
  and `PopKeeps` say what pushing and popping do to the lists.
* `FailedNeverLost` (`TaskLifecycleProofs`): `Spec => []FailedIsRecoverable`,
  by the same argument over the places that keep a failed task reachable: the
  dead-letter list, the worker between giving up and dead-lettering, the
  request between removing and resetting.
* `IdsNeverDangle`, `ResultBeforeProcessed` and `ChainsHangUnderRoot`
  (`TaskRowProofs`): `NoDanglingIds`, `ProcessedHasResult` and
  `ChildUnderFinishedRoot`.  The proof first sums up what one step can do to
  the rows (`RowChange`), to a worker (`WorkerChange`), to the queue
  (`QueueChange`) and to the requests (`RequestChange`); every later proof
  argues from these four instead of from the actions.  `RowInv` adds what the
  three properties need to be inductive: an absent row is empty, a worker past
  the handler has stored the result (`ResultStored`), and one past `saveNext`
  has saved the next step (`NextStepSaved`).
* `NeverRunsEarly` (`TaskRowProofs`): `RunsWhenDue`, from `DueInv`, which adds
  that no request holds a task nobody re-issued and that queued tasks are due.
* `CancellationHolds` (`TaskRowProofs`): the action property `CancelSettles`.
* `OneCopyOnly`, `DeadLettersFailed` and `LogTellsOutcome` (`TaskCopyProofs`):
  `SingleCopy`, `DLQShowsFailed` and `LogAgreesWhenQuiet`, about tasks that no
  operator issued again and no fault hit.  `PlainInv` is the conjunction of
  `OnePlace` (the cardinalities of `SingleCopy` as pairwise exclusion),
  `StatusFits` (an active task is pending or cancelled, what is past its
  decision is decided) and `LogFits` (the worker between the status and the
  dead-letter list has written the log).  None of the three is inductive
  without the other two: that a decided task is not decided again needs that
  no second worker has it.
* `NextStepOnce` (`TaskCopyProofs`): `ChainedOnce`.  `Chains` says of a child
  that it has fewer steps to come than its root, that it comes right after
  some task, that this task has chained on (it is processed, or its worker is
  past `saveNext` and on the way there), and that it is alone at its depth.  A
  worker at `saveNext` has not chained on (by `PlainInv`), so the place it is
  about to fill is empty; that nothing stands one place further down follows
  from the second and third conjunct (`InsertStep`).
* `LifecycleImplementsService` (`TaskCopyProofs`):
  `Spec => ImplementsTaskService`, the refinement.  `SeenStatement` maps each
  SQL statement to its effect on the abstract tasks; then there is one lemma
  per action.  `DecideRefines` needs `PlainInv` (a decision is not revised)
  and `NextStepSaved` (a task is processed only with its next step).

About `TaskPlatform` (`TaskPlatformProofs`), the composition:
`SubmittedNeverLost`, `KeyBeforeRun`, `KeyRunsOnce`, `NextStepShown`,
`CancelBeatsSubmission` (an action property) and `PlatformImplementsService`
for what the run `platform` adds.  The safety properties of the parts hold also
while clients keep submitting and one crash ends requests and workers together:
`PlatformIdsNeverDangle`, `PlatformChainsHangUnderRoot`, `PlatformNeverRunsEarly`,
`PlatformChainsOnce`, `PlatformResultFirst`, `PlatformOneCopy`,
`PlatformDeadLettersFailed`, `PlatformLogTells` and `PlatformFailedNeverLost`
are those of the lifecycle, `PlatformKeyNamesTask` is that of the submission
whose meaning survives once workers change the rows.  A step of `Process`
is a step of `TaskLifecycle` (`ProcessIsNext`), so every step lemma above
applies to it as it stands; only the steps of a request (`SubmitChange`, one
disjunct per statement) and the common crash (`AllDropped`) need proofs of
their own (`PlatformCases` is the split).  `PlatformInv` joins the invariants
of the lifecycle with what ties requests to them:

* `ClientOwns`: a request past its insert is alone with its task, which is a
  root carrying the request's key, and the key is recorded before the push;
* `Waits`: a task no operator or fault touched is in no list and with no
  worker until its request has pushed it.  Without it the push could be a
  second copy, and `PlainInv` would not survive `Submit`;
* `RunsWithKey`: a root is queued, scheduled or run only with its key recorded
  and, unless requests raced for the key, only when the key's row names it.
  `RunningHasKey` and `OneRunPerKey` alone say nothing of the queue, which is
  where a worker gets the task from;
* `KeyInv`: a recorded key is live, and without a race one request at a time is
  between lookup and insert, none once the row is there, and only the task the
  row names is about to be pushed.  This is where the lookup matters: it turns
  a repeated request away for as long as its first task may run;
* `LogHasRow`: what is logged exists, so the insert of a fresh id meets no log;
* `TrackedOrHeld`, `ProcessedNext` and `ChildIsChained` (what a worker is about
  to enqueue is no root, so it cannot be a task whose key is still missing).

This invariant was checked by TLC on the instance of `platform` and with two
clients, two tasks and one re-issue (11 M states; its parts on keys and logs
again with requests without chains, 3.5 M).

About `Submission` (`SubmissionProofs`): `TypeCorrect`, and `KeyAlwaysNamesTask`,
`AcceptedStaysDurable`, `SavedStaysTracked` from `SubmissionInv`, which adds what
a request knows of the task it has saved (`Owns`) and that no two requests hold
one task.  `DuplicatesNeedRace` needs more: `RaceFree(k)` says of a key without
a race and an expired row that one request at a time is between lookup and
insert, none once the row is there, and that only the task the row names is,
or is about to be, enqueued.

About `TaskHandlers` (`TaskHandlersProofs`): `TypeCorrect`,
`ResultsPointAtObjects`, `ProcessedCanBeDownloaded`, `ReportsFindParentFile`,
`ReportsDecodeScrapedRoot` and `ValidatedStaysUsable`, from `HandlersInv`: the
tasks before the running one have results, a result has an object of its
task's kind, and a chained task runs only where the storage client exists.

About `Shutdown` (`ShutdownProofs`): `WorkersKeepClients`,
`RequestsKeepClients`, `LogClosesLast` and `LogTellsTruth`, from `ShutdownInv`.
Its core is `Layered`: under each cleanup on the stack of defers lie those of
everything required that `run` opened earlier, so whatever path unwinds the
stack, the pool's Stop comes before the clients it uses and the log file comes
last.  `Seen` relates, at each stage of a request, what the client received to
what the spy recorded.

About `TaskListing` (`TaskListingProofs`): `WalkMissesNothing` and
`PagesStayDistinct`, from `ListingInv`.

* The argument for `WalkSeesAll` counts.  A row that has matched since the walk
  began and was not shown yet has at least as many rows ahead of it as the
  pages read so far have room for (`NothingSkipped`): rows that come in only add
  rows ahead of others, and reading a page moves the bound on by one page only
  for the rows the page did not reach.  The count never falls below the number
  of matching rows unless a row entered after it (`Counted`), so once the last
  announced page is read there is no room ahead of such a row, and none is left.
  `NothingSkipped` also says that a walk past its first page that has shown
  nothing has nothing to show: the code's exception (a row left the filter) is
  noticed only once something was shown.  `WalkInRange` keeps the offsets of a
  walk below the wrap.
* For `PageIsItsOwn`, the offsets of announced pages are below the number of
  rows and survive both conversions; the wrap can bring an offset back among
  the rows only from 2^OffsetBits on (`ShownInRange`).
* The provers know nothing of `2^w` and cannot prove by induction over `w` what
  they would need.  `2^w` is therefore counted: it is the number of subsets of
  `1..w` (`PowerCounts`), and what the argument needs of it, that it doubles
  and grows, follows from facts about cardinalities (`PowerDoubles`,
  `PowerGrows`).

TLC checked `ListingInv` on the instance of `listing` and on one whose int and
offset have the same width.

Assumptions: `NoTask` is no task, accepted tasks are tasks, request bodies
have a priority and a sequence of steps, keys and clients have the shapes
`Submission` gives them, and the bounds are naturals with at least one attempt
(`NoTaskAssumption`, `LifecycleAssumption`, `SubmissionAssumption`,
`HandlersAssumption`, `PlatformAssumption`).  `ListingAssumption` says that an
int is at least as wide as an offset, that there are fewer rows than positive
offsets, and that the largest page is smaller than that, too: 2^31 in the code,
where a page has at most 100 rows.  TLC evaluates all of them in the runs of
these modules.

Only model-checked: `PendingSettles` and `SignalExits`, liveness under fairness,
which is out of the prover's reach, and the counterexamples of section 3.

## 5. Not modelled

* what images, pages and CSV files contain (only the kind of data);
* dashboard statistics, queue depth, worker health and the single-task read:
  they change nothing and format what one statement or command returns;
* `CleanupExpired`, `DeleteKey` and `GetStats` of the idempotency service and
  `ListProcessedEvents`, which nothing calls;
* the outbound-download guard, a filter on addresses without state: a refused
  download is one of the failures a handler may meet;
* tracing, metrics, error attributes and the wording of log lines, on which no
  task and no answer depends; migrations;
* the order of ids inside one priority list.

## 6. Plan

The modelling is complete as far as the sources go, and every invariant and
action property of the runs is proved for all values of the constants.  When
the code changes, the order of work is: the module, its run and mutants, then
the lemmas that sum up a step (`RowChange`, `WorkerChange`, `QueueChange`,
`RequestChange`, `SubmitChange`), from which the invariants are proved.  A claim
of the key row that respects its expiry (`DuplicatesRejected` within each
lifetime) would be the next property once the code has it.
