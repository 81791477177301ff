---------------------------- MODULE TaskLifecycle ---------------------------
(***************************************************************************)
(* What happens to a task once it has been accepted: the pulse worker pool *)
(* takes it from the queue, runs its handler inside chaining.Wrap, retries *)
(* it, stores its outcome or dead-letters it, while clients cancel it and  *)
(* operators retry, requeue or remove it.  Every database statement and    *)
(* every Redis command is a step of its own, so workers and HTTP requests  *)
(* interleave between them, and any of them may fail, or take effect and   *)
(* still be reported as failed.  The process may crash between two steps.  *)
(*                                                                         *)
(* The worker loop is the pulse library's (external); its Store, its       *)
(* handlers and the HTTP handlers are this repository's.                   *)
(***************************************************************************)
EXTENDS PulseQueue, FiniteSets

CONSTANTS
    Workers,      \* goroutines of the worker pool
    Admins,       \* admin HTTP requests that may be in flight together
    Accepted,     \* tasks HandleCreateTask has accepted at the start
    Bodies,       \* what their requests may say: [step, next]
    MaxRetries,   \* attempts the pool gives a task
    MaxReissues,  \* bound: admin retries and requeues of one task
    MaxFaulted    \* bound: tasks that infrastructure failures may hit

ASSUME LifecycleAssumption ==
    /\ Accepted \subseteq Tasks
    /\ Bodies \subseteq [step : [priority : RequestPriority, executeAt : BOOLEAN],
                         next : Seq(Step)]
    /\ MaxRetries \in Nat \ {0}
    /\ MaxReissues \in Nat
    /\ MaxFaulted \in Nat

VARIABLES
    events,      \* table events
    logs,        \* table event_delivery_logs
    ready,       \* the three priority lists
    scheduled,   \* the scheduled set
    dlq,         \* the dead-letter list
    worker,      \* where each worker is in processWithRetry
    request,     \* where each admin request is in its handler
    due,         \* tasks whose execute_at has been reached
    faulted,     \* history: tasks hit by a failed write or a crash
    reissued,    \* history: times an operator re-issued each task
    removed      \* history: tasks an operator took off the DLQ since they
                 \* were last dead-lettered

vars == <<events, logs, ready, scheduled, dlq, worker, request, due,
          faulted, reissued, removed>>

queue   == <<ready, scheduled, dlq>>
history == <<faulted, reissued, removed>>

-----------------------------------------------------------------------------
(* Workers and requests.                                                   *)

(* fetch: store.GetTask; run: the handler up to UpdateEventResult;         *)
(* saveNext, enqueueNext: chaining.Wrap; succeed, logSucceed: the success  *)
(* path; logRetry: one failed attempt; giveUp, logGiveUp, deadLetter:      *)
(* after the last one.                                                     *)
WorkerPC == {"idle", "fetch", "run", "saveNext", "enqueueNext", "succeed",
             "logSucceed", "logRetry", "giveUp", "logGiveUp", "deadLetter"}

WorkerState == [pc : WorkerPC, task : Tasks \cup {NoTask},
                attempt : 0..MaxRetries, child : Tasks \cup {NoTask}]

Idle == [pc |-> "idle", task |-> NoTask, attempt |-> 0, child |-> NoTask]

RequestPC == {"idle", "reset", "enqueue", "requeue"}

RequestState == [pc : RequestPC, task : Tasks \cup {NoTask},
                 priority : PriorityColumn]

NoRequest == [pc |-> "idle", task |-> NoTask, priority |-> "none"]

LogRow == [status : LogStatus \cup {"absent"}, attempt : 0..MaxRetries]

(* Result of a write: acknowledged, lost, or applied and reported failed.  *)
Outcome == {"ok", "lost", "unack"}

(* Writing to t ended with r: anything but "ok" is an infrastructure fault.*)
Hit(r, t) ==
    IF r = "ok"
    THEN UNCHANGED faulted
    ELSE /\ Cardinality(faulted \cup {t}) <= MaxFaulted
         /\ faulted' = faulted \cup {t}

(* The value a variable takes when the write that ended with r sets it.    *)
After(r, old, new) == IF r = "lost" THEN old ELSE new

Goto(w, pc) == worker' = [worker EXCEPT ![w].pc = pc]

Release(w) == worker' = [worker EXCEPT ![w] = Idle]

(* Mutant: one attempt too many.                                           *)
BugNextAttemptTooMany(w) ==
    IF worker[w].attempt <= MaxRetries
    THEN worker' = [worker EXCEPT ![w].pc = "fetch", ![w].attempt = @ + 1]
    ELSE Goto(w, "giveUp")

(* Mutant: attempts are not counted.                                       *)
BugNextAttemptForever(w) == Goto(w, "fetch")

(* Mutant: giving up goes straight to the dead-letter list.                *)
BugNextAttemptNoStatus(w) ==
    IF worker[w].attempt < MaxRetries
    THEN worker' = [worker EXCEPT ![w].pc = "fetch", ![w].attempt = @ + 1]
    ELSE Goto(w, "deadLetter")

(* The attempt failed: back off and fetch again, or give up.               *)
NextAttempt(w) ==
    IF worker[w].attempt < MaxRetries
    THEN worker' = [worker EXCEPT ![w].pc = "fetch", ![w].attempt = @ + 1]
    ELSE Goto(w, "giveUp")

-----------------------------------------------------------------------------
(* Initial state: HandleCreateTask has saved and enqueued the accepted     *)
(* tasks (module Submission models how).                                   *)

Init ==
    \E body \in [Accepted -> Bodies] :
       /\ events = [t \in Tasks |->
                      IF t \in Accepted
                      THEN NewRow(body[t].step, NoTask, body[t].next)
                      ELSE Absent]
       /\ ready = [p \in Priorities |-> [t \in Tasks |->
                      IF /\ t \in Accepted
                         /\ ~body[t].step.executeAt
                         /\ Level(body[t].step.priority) = p
                      THEN 1 ELSE 0]]
       /\ scheduled = {<<t, body[t].step.priority>> :
                         t \in {u \in Accepted : body[u].step.executeAt}}
       /\ logs = [t \in Tasks |-> NoLog]
       /\ dlq = {}
       /\ worker = [w \in Workers |-> Idle]
       /\ request = [a \in Admins |-> NoRequest]
       /\ due = {}
       /\ faulted = {}
       /\ reissued = [t \in Tasks |-> 0]
       /\ removed = {}

-----------------------------------------------------------------------------
(* The worker loop.                                                        *)

(* DequeuePriorityBlocking; an id whose reply is lost is gone from Redis.  *)
Take(w, p, t, r) ==
    /\ worker[w].pc = "idle"
    /\ CanDequeue(ready, p, t)
    /\ r # "lost"
    /\ ready' = Dequeue(ready, p, t)
    /\ Hit(r, t)
    /\ IF r = "ok"
       THEN worker' = [worker EXCEPT ![w] = [pc |-> "fetch", task |-> t,
                                             attempt |-> 1, child |-> NoTask]]
       ELSE UNCHANGED worker
    /\ UNCHANGED <<events, logs, scheduled, dlq, request, due, reissued,
                   removed>>

(* Mutant: the status is not looked at.                                    *)
BugFetch(w) ==
    /\ worker[w].pc = "fetch"
    /\ \/ Goto(w, "run")
       \/ NextAttempt(w)
    /\ UNCHANGED <<events, logs, queue, request, due, history>>

(* store.GetTask: a cancelled task is skipped, a failed read costs an      *)
(* attempt, and every other status is run.                                 *)
Fetch(w) ==
    /\ worker[w].pc = "fetch"
    /\ \/ /\ events[worker[w].task].status = "cancelled"
          /\ Release(w)
       \/ /\ events[worker[w].task].status \notin {"cancelled", "absent"}
          /\ Goto(w, "run")
       \/ NextAttempt(w)
    /\ UNCHANGED <<events, logs, queue, request, due, history>>

(* Mutant: success is reported although storing the result failed.         *)
BugRunHandler(w) ==
    /\ worker[w].pc = "run"
    /\ \/ Goto(w, IF events[worker[w].task].next = << >>
                  THEN "succeed" ELSE "saveNext")
       \/ Goto(w, "logRetry")
    /\ \/ events' = UpdateEventResult(events, worker[w].task)
       \/ UNCHANGED events
    /\ UNCHANGED <<logs, queue, request, due, history>>

(* The registered handler: work, upload, UpdateEventResult, nil.  It may   *)
(* fail anywhere, also after the result has been written.                  *)
RunHandler(w) ==
    LET t == worker[w].task IN
    /\ worker[w].pc = "run"
    /\ \/ /\ events' = UpdateEventResult(events, t)
          /\ Goto(w, IF events[t].next = << >> THEN "succeed" ELSE "saveNext")
       \/ /\ \/ events' = UpdateEventResult(events, t)
             \/ UNCHANGED events
          /\ Goto(w, "logRetry")
    /\ UNCHANGED <<logs, queue, request, due, history>>

(* Mutant: an error of saving the next step is not looked at.              *)
BugSaveNext(w, c, r) ==
    LET t     == worker[w].task
        child == NewRow(Head(events[t].next), RootTaskID(events, t),
                        Tail(events[t].next))
    IN
    /\ worker[w].pc = "saveNext"
    /\ ~Exists(events, c)
    /\ events' = After(r, events, InsertEvent(events, c, child))
    /\ Hit(r, c)
    /\ worker' = [worker EXCEPT ![w].pc = "enqueueNext", ![w].child = c]
    /\ UNCHANGED <<logs, queue, request, due, reissued, removed>>

(* chaining.Wrap, first half: save the next step under a fresh id, as a    *)
(* child of the root of the chain.  An error fails the whole attempt.      *)
SaveNext(w, c, r) ==
    LET t     == worker[w].task
        child == NewRow(Head(events[t].next), RootTaskID(events, t),
                        Tail(events[t].next))
    IN
    /\ worker[w].pc = "saveNext"
    /\ events[t].next # << >>
    /\ ~Exists(events, c)
    /\ events' = After(r, events, InsertEvent(events, c, child))
    /\ IF r = "lost" THEN UNCHANGED faulted ELSE Hit(r, c)
    /\ worker' = [worker EXCEPT
                    ![w].pc = IF r = "ok" THEN "enqueueNext" ELSE "logRetry",
                    ![w].child = IF r = "ok" THEN c ELSE NoTask]
    /\ UNCHANGED <<logs, queue, request, due, reissued, removed>>

(* Mutant: execute_at of a chained step is ignored.                        *)
BugEnqueueNextNow(w, r) ==
    LET c == worker[w].child IN
    /\ worker[w].pc = "enqueueNext"
    /\ r = "ok"
    /\ ready' = EnqueueWithPriority(ready, c, events[c].priority)
    /\ worker' = [worker EXCEPT ![w].pc = "succeed", ![w].child = NoTask]
    /\ UNCHANGED <<events, logs, scheduled, dlq, request, due, history>>

(* Mutant: the attempt counts as failed although its next step is queued.  *)
BugEnqueueNextFails(w, r) ==
    LET c == worker[w].child IN
    /\ worker[w].pc = "enqueueNext"
    /\ r = "ok"
    /\ ready' = EnqueueWithPriority(ready, c, events[c].priority)
    /\ worker' = [worker EXCEPT ![w].pc = "logRetry", ![w].child = NoTask]
    /\ UNCHANGED <<events, logs, scheduled, dlq, request, due, history>>

(* chaining.Wrap, second half: Schedule or EnqueueWithPriority.            *)
EnqueueNext(w, r) ==
    LET c == worker[w].child IN
    /\ worker[w].pc = "enqueueNext"
    /\ Hit(r, c)
    /\ IF events[c].executeAt
       THEN /\ scheduled' = After(r, scheduled,
                                  Schedule(scheduled, c, events[c].priority))
            /\ UNCHANGED ready
       ELSE /\ ready' = After(r, ready,
                              EnqueueWithPriority(ready, c, events[c].priority))
            /\ UNCHANGED scheduled
    /\ worker' = [worker EXCEPT
                    ![w].pc = IF r = "ok" THEN "succeed" ELSE "logRetry",
                    ![w].child = NoTask]
    /\ UNCHANGED <<events, logs, dlq, request, due, reissued, removed>>

(* UpdateStatus after the handler returned nil, or after the last attempt; *)
(* an error is only logged.                                                *)
SetStatus(w, pc, status, then, r) ==
    /\ worker[w].pc = pc
    /\ events' = After(r, events,
                       UpdateEventStatus(events, worker[w].task, status))
    /\ Hit(r, worker[w].task)
    /\ Goto(w, then)
    /\ UNCHANGED <<logs, queue, request, due, reissued, removed>>

MarkProcessed(w, r) == SetStatus(w, "succeed", "processed", "logSucceed", r)

MarkFailed(w, r) == SetStatus(w, "giveUp", "failed", "logGiveUp", r)

(* store.RecordAttempt: an error is only logged.                           *)
RecordAttempt(w, pc, status, r) ==
    /\ worker[w].pc = pc
    /\ logs' = After(r, logs, UpsertDeliveryLog(logs, worker[w].task, status,
                                                worker[w].attempt))
    /\ Hit(r, worker[w].task)
    /\ UNCHANGED <<events, queue, request, due, reissued, removed>>

LogSucceed(w, r) ==
    RecordAttempt(w, "logSucceed", "processed", r) /\ Release(w)

LogRetry(w, r) == RecordAttempt(w, "logRetry", "retry", r) /\ NextAttempt(w)

(* Mutant: giving up is recorded as one more retry.                        *)
BugLogGiveUp(w, r) ==
    RecordAttempt(w, "logGiveUp", "retry", r) /\ Goto(w, "deadLetter")

LogGiveUp(w, r) ==
    RecordAttempt(w, "logGiveUp", "failed", r) /\ Goto(w, "deadLetter")

(* Mutant: a failed task is not dead-lettered.                             *)
BugDeadLetter(w, r) ==
    /\ worker[w].pc = "deadLetter"
    /\ r = "ok"
    /\ Release(w)
    /\ UNCHANGED <<events, logs, queue, request, due, history>>

DeadLetter(w, r) ==
    LET t == worker[w].task IN
    /\ worker[w].pc = "deadLetter"
    /\ dlq' = After(r, dlq, EnqueueToDLQ(dlq, t))
    /\ removed' = After(r, removed, removed \ {t})
    /\ Hit(r, t)
    /\ Release(w)
    /\ UNCHANGED <<events, logs, ready, scheduled, request, due, reissued>>

WorkerStep(w) ==
    \/ \E p \in Priorities, t \in Tasks, r \in Outcome : Take(w, p, t, r)
    \/ Fetch(w)
    \/ RunHandler(w)
    \/ \E c \in Tasks, r \in Outcome : SaveNext(w, c, r)
    \/ \E r \in Outcome :
          \/ EnqueueNext(w, r)
          \/ MarkProcessed(w, r)
          \/ LogSucceed(w, r)
          \/ LogRetry(w, r)
          \/ MarkFailed(w, r)
          \/ LogGiveUp(w, r)
          \/ DeadLetter(w, r)

(* Bound: copies of one id that failed promotions may pile up in a list.   *)
MaxCopies == 2

(* Mutant: entries are promoted before their time.                         *)
BugPromoteScheduled(entry, r) ==
    /\ entry \in scheduled
    /\ r = "ok"
    /\ ready' = EnqueueWithPriority(ready, entry[1], entry[2])
    /\ scheduled' = Unschedule(scheduled, entry)
    /\ UNCHANGED <<events, logs, dlq, worker, request, due, history>>

(* The scheduler goroutine moves one due entry: push, then remove.  A      *)
(* failure between the two leaves the entry on both sides.                 *)
PromoteScheduled(entry, r) ==
    /\ entry \in scheduled
    /\ entry[1] \in due
    /\ r # "lost"
    /\ ready' = EnqueueWithPriority(ready, entry[1], entry[2])
    /\ scheduled' = IF r = "ok" THEN Unschedule(scheduled, entry) ELSE scheduled
    /\ r = "unack" => \A p \in Priorities : ready[p][entry[1]] < MaxCopies
    /\ Hit(r, entry[1])
    /\ UNCHANGED <<events, logs, dlq, worker, request, due, reissued, removed>>

(* Time reaches a task's execute_at.                                       *)
ReachExecuteAt(t) ==
    /\ events[t].executeAt
    /\ t \notin due
    /\ due' = due \cup {t}
    /\ UNCHANGED <<events, logs, queue, worker, request, history>>

-----------------------------------------------------------------------------
(* HTTP requests.                                                          *)

(* DELETE /tasks/{id}: one conditional UPDATE.                             *)
HandleCancelTask(t) ==
    /\ Cancellable(events, t)
    /\ events' = CancelEventIfPending(events, t)
    /\ UNCHANGED <<logs, queue, worker, request, due, history>>

(* Mutant: the row is reset and the handler returns without enqueueing.    *)
BugReset(a, t, r) ==
    /\ Retryable(events, t)
    /\ r = "ok"
    /\ events' = ResetTaskForRetry(events, t)
    /\ UNCHANGED <<request, faulted>>

(* ResetTaskForRetry on t in request a: the row goes back to pending, and  *)
(* the request goes on to enqueue it unless the statement reports an error.*)
Reset(a, t, r) ==
    /\ Retryable(events, t)
    /\ events' = After(r, events, ResetTaskForRetry(events, t))
    /\ Hit(r, t)
    /\ request' = [request EXCEPT ![a] =
                     IF r = "ok"
                     THEN [pc |-> "enqueue", task |-> t,
                           priority |-> QueuePriority(events[t])]
                     ELSE NoRequest]

(* An operator asks for one more run of t.                                 *)
Reissue(t) ==
    /\ reissued[t] < MaxReissues
    /\ reissued' = [reissued EXCEPT ![t] = @ + 1]

(* POST /api/admin/tasks/{id}/retry.  It leaves the dead-letter list alone.*)
HandleRetryTask(a, t, r) ==
    /\ request[a].pc = "idle"
    /\ Reset(a, t, r)
    /\ Reissue(t)
    /\ UNCHANGED <<logs, queue, worker, due, removed>>

(* POST /api/admin/dlq/{id}/retry: first RemoveFromDLQ ...                 *)
HandleRetryDLQTask(a, t, r) ==
    /\ request[a].pc = "idle"
    /\ t \in dlq
    /\ r # "lost"
    /\ dlq' = RemoveFromDLQ(dlq, t)
    /\ Hit(r, t)
    /\ Reissue(t)
    /\ request' = [request EXCEPT ![a] =
                     IF r = "ok"
                     THEN [pc |-> "reset", task |-> t, priority |-> "none"]
                     ELSE NoRequest]
    /\ UNCHANGED <<events, logs, ready, scheduled, worker, due, removed>>

(* ... then ResetTaskForRetry; a task that is not retryable gets a 409.    *)
ResetDLQTask(a, r) ==
    LET t == request[a].task IN
    /\ request[a].pc = "reset"
    /\ \/ Reset(a, t, r)
       \/ /\ ~Retryable(events, t)
          /\ r = "ok"
          /\ request' = [request EXCEPT ![a] = NoRequest]
          /\ UNCHANGED <<events, faulted>>
    /\ UNCHANGED <<logs, queue, worker, due, reissued, removed>>

(* Both retries end in EnqueueWithPriority, whatever execute_at says.      *)
EnqueueRetry(a, r) ==
    LET t == request[a].task IN
    /\ request[a].pc = "enqueue"
    /\ ready' = After(r, ready,
                      EnqueueWithPriority(ready, t, request[a].priority))
    /\ Hit(r, t)
    /\ request' = [request EXCEPT ![a] = NoRequest]
    /\ UNCHANGED <<events, logs, scheduled, dlq, worker, due, reissued,
                   removed>>

(* DELETE /api/admin/dlq/{id}.                                             *)
HandleRemoveDLQTask(t) ==
    /\ t \in dlq
    /\ dlq' = RemoveFromDLQ(dlq, t)
    /\ removed' = removed \cup {t}
    /\ UNCHANGED <<events, logs, ready, scheduled, worker, request, due,
                   faulted, reissued>>

(* POST /api/admin/tasks/{id}/requeue: read the row ...                    *)
HandleRequeueTask(a, t) ==
    /\ request[a].pc = "idle"
    /\ events[t].status = "pending"
    /\ Reissue(t)
    /\ request' = [request EXCEPT ![a] =
                     [pc |-> "requeue", task |-> t,
                      priority |-> QueuePriority(events[t])]]
    /\ UNCHANGED <<events, logs, queue, worker, due, faulted, removed>>

(* ... and push or schedule it, without looking at the status again.  A    *)
(* lost push leaves everything as it was.                                  *)
PushRequeued(a) ==
    LET t == request[a].task IN
    /\ request[a].pc = "requeue"
    /\ \/ /\ events[t].executeAt /\ t \notin due
          /\ scheduled' = Schedule(scheduled, t, request[a].priority)
          /\ UNCHANGED ready
       \/ /\ ~(events[t].executeAt /\ t \notin due)
          /\ ready' = EnqueueWithPriority(ready, t, request[a].priority)
          /\ UNCHANGED scheduled
       \/ UNCHANGED <<ready, scheduled>>
    /\ request' = [request EXCEPT ![a] = NoRequest]
    /\ UNCHANGED <<events, logs, dlq, worker, due, history>>

(* GET /api/admin/tasks/{id}/children, GET /api/admin/tasks/{id}/retries   *)
(* and GET /api/admin/dlq change nothing; an id of the dead-letter list    *)
(* without a row is left out.                                              *)
HandleGetTaskChildren(t) == ListEventsByParentID(events, t)

HandleGetTaskRetries(t) == GetDeliveryLogsForEvent(logs, t)

HandleListDLQ == {t \in dlq : Exists(events, t)}

RequestStep(a) ==
    \/ \E r \in Outcome : ResetDLQTask(a, r) \/ EnqueueRetry(a, r)
    \/ PushRequeued(a)

NewRequest ==
    \/ \E t \in Tasks : HandleCancelTask(t) \/ HandleRemoveDLQTask(t)
    \/ \E a \in Admins, t \in Tasks :
          \/ HandleRequeueTask(a, t)
          \/ \E r \in Outcome : \/ HandleRetryTask(a, t, r)
                                \/ HandleRetryDLQTask(a, t, r)

-----------------------------------------------------------------------------
(* The API and the workers share one process.  When it dies, what its      *)
(* goroutines held is gone and what they had written stays.                *)

HeldByWorker(t) ==
    \E w \in Workers : t \in {worker[w].task, worker[w].child}

HeldByRequest(t) == \E a \in Admins : request[a].task = t

Crash ==
    LET held == {t \in Tasks : HeldByWorker(t) \/ HeldByRequest(t)} IN
    /\ held # {}
    /\ Cardinality(faulted \cup held) <= MaxFaulted
    /\ faulted' = faulted \cup held
    /\ worker' = [w \in Workers |-> Idle]
    /\ request' = [a \in Admins |-> NoRequest]
    /\ UNCHANGED <<events, logs, queue, due, reissued, removed>>

-----------------------------------------------------------------------------
Promote == \E entry \in Scheduled, r \in Outcome : PromoteScheduled(entry, r)

Next ==
    \/ \E w \in Workers : WorkerStep(w)
    \/ \E a \in Admins : RequestStep(a)
    \/ NewRequest
    \/ Promote
    \/ \E t \in Tasks : ReachExecuteAt(t)
    \/ Crash

Spec == Init /\ [][Next]_vars

(* The goroutines of the pool, the scheduler's ticker and the handlers of  *)
(* requests already received keep running, and time passes; nobody is      *)
(* obliged to send a request and nothing is obliged to fail.               *)
FairSpec ==
    /\ Spec
    /\ \A w \in Workers : WF_vars(WorkerStep(w))
    /\ \A a \in Admins : WF_vars(RequestStep(a))
    /\ WF_vars(Promote)
    /\ \A t \in Tasks : WF_vars(ReachExecuteAt(t))

-----------------------------------------------------------------------------
(* Correctness properties.                                                 *)

(* The variables hold values of the shapes the tables, the queue and the   *)
(* goroutines have; an attempt is numbered 1..MaxRetries.                  *)
TypeOK ==
    /\ events \in [Tasks -> Row]
    /\ logs \in [Tasks -> LogRow]
    /\ ready \in Ready
    /\ scheduled \subseteq Scheduled
    /\ dlq \subseteq Tasks
    /\ worker \in [Workers -> WorkerState]
    /\ request \in [Admins -> RequestState]
    /\ due \subseteq Tasks
    /\ faulted \subseteq Tasks
    /\ reissued \in [Tasks -> 0..MaxReissues]
    /\ removed \subseteq Tasks

(* Busy goroutines and requests hold a task, and a worker holds a child    *)
(* just between saving and enqueueing it (part of the inductive invariant).*)
Control ==
    /\ \A w \in Workers :
          /\ worker[w].pc = "idle" <=> worker[w].task = NoTask
          /\ worker[w].pc = "enqueueNext" <=> worker[w].child # NoTask
    /\ \A a \in Admins : request[a].pc = "idle" <=> request[a].task = NoTask

(* No id is ever queued, scheduled, dead-lettered, held by a goroutine or  *)
(* named as a parent without its row: a worker never fetches a task that   *)
(* does not exist, and the row of a running task is never inserted anew.   *)
NoDanglingIds ==
    \A t \in Tasks :
       \/ Queued(ready, t)
       \/ OnSchedule(scheduled, t)
       \/ t \in dlq
       \/ HeldByWorker(t)
       \/ HeldByRequest(t)
       \/ \E c \in Tasks : events[c].parent = t
       => Exists(events, t)

(* Worker w has read t and has not written its final status yet.           *)
Executing(w, t) ==
    /\ worker[w].task = t
    /\ worker[w].pc \in {"run", "saveNext", "enqueueNext", "succeed",
                         "logRetry", "giveUp"}

(* Worker w took t from the queue and still owes it a final status.        *)
Undecided(w, t) ==
    Executing(w, t) \/ (worker[w].task = t /\ worker[w].pc = "fetch")

(* Something in the system will still act on the pending task t.           *)
Tracked(t) ==
    \/ Queued(ready, t)
    \/ OnSchedule(scheduled, t)
    \/ \E w \in Workers : Undecided(w, t) \/ worker[w].child = t
    \/ \E a \in Admins : request[a].task = t /\ request[a].pc = "enqueue"

(* No task is forgotten: as long as no write failed on it and no crash hit *)
(* it, a pending task is in a list, in the scheduled set, in the hands of  *)
(* a worker that still owes it a status, or about to be pushed by the      *)
(* request that made it pending -- whatever cancels, retries, requeues and *)
(* chained steps interleave.                                               *)
PendingIsTracked ==
    \A t \in Tasks :
       events[t].status = "pending" /\ t \notin faulted => Tracked(t)

(* A task that exhausted its retries stays within the operator's reach: it *)
(* is on the dead-letter list, or a worker is about to put it there, or a  *)
(* DLQ retry is about to reset it, or an operator removed it on purpose.   *)
FailedIsRecoverable ==
    \A t \in Tasks :
       events[t].status = "failed" /\ t \notin faulted \cup removed =>
          \/ t \in dlq
          \/ \E w \in Workers : /\ worker[w].task = t
                               /\ worker[w].pc \in {"logGiveUp", "deadLetter"}
          \/ \E a \in Admins : request[a].task = t /\ request[a].pc = "reset"

(* What GET /api/admin/dlq shows an operator has failed, unless it was     *)
(* issued again from elsewhere (POST .../tasks/{id}/retry leaves the list  *)
(* alone) or a fault hit it: no cancel or late status gets in between.     *)
DLQShowsFailed ==
    \A t \in HandleListDLQ :
       reissued[t] = 0 /\ t \notin faulted => events[t].status = "failed"

(* GET /tasks/{id}/result never answers "no result" for a processed task:  *)
(* every handler stores its result before the pool marks it processed, and *)
(* nothing clears it, also when two workers run the same task.             *)
ProcessedHasResult ==
    \A t \in Tasks : events[t].status = "processed" => events[t].result

(* A chained task hangs directly under the root of its chain, and the root *)
(* stored its result before: generate_report finds its parent's file       *)
(* whenever it runs, at any depth of the chain.                            *)
ChildUnderFinishedRoot ==
    \A t \in Tasks :
       LET root == events[t].parent IN
       root # NoTask => /\ events[root].parent = NoTask
                        /\ events[root].result

(* Unless an operator re-issued it or a fault hit it, a task is in one     *)
(* place only: no two workers ever run it together and no second copy      *)
(* waits in a list.                                                        *)
SingleCopy ==
    \A t \in Tasks :
       t \notin faulted /\ reissued[t] = 0 =>
          /\ Cardinality({w \in Workers : t \in {worker[w].task, worker[w].child}})
             + Cardinality({e \in scheduled : e[1] = t})
             + ready["high"][t] + ready["medium"][t] + ready["low"][t] <= 1

(* Without re-issues and faults, retried attempts never chain a step       *)
(* twice: the children of one root all stand at different depths.          *)
ChainedOnce ==
    faulted = {} /\ (\A t \in Tasks : reissued[t] = 0) =>
       \A c, d \in Tasks :
          /\ events[c].parent # NoTask
          /\ events[c].parent = events[d].parent
          /\ Len(events[c].next) = Len(events[d].next)
          => c = d

(* When no worker holds a task that was not issued again, GET .../retries  *)
(* tells how it ended: an entry has its outcome and, for a failure, the    *)
(* number of the last attempt.  That the entries of earlier attempts are   *)
(* gone is what AttemptsStayLogged is about.                               *)
LogAgreesWhenQuiet ==
    \A t \in Tasks :
       /\ t \notin faulted
       /\ reissued[t] = 0
       /\ ~HeldByWorker(t)
       /\ events[t].status \in {"processed", "failed"}
       => \E log \in HandleGetTaskRetries(t) :
             /\ log.status = events[t].status
             /\ log.status = "failed" => log.attempt = MaxRetries

(* A task with an execute_at starts only once that time has been reached,  *)
(* provided no operator re-issued it.                                      *)
RunsWhenDue ==
    \A w \in Workers, t \in Tasks :
       Undecided(w, t) /\ events[t].executeAt /\ reissued[t] = 0 => t \in due

(* Cancelled and not being executed.                                       *)
CancelSettled(t) ==
    /\ events[t].status = "cancelled"
    /\ \A w \in Workers : ~Executing(w, t)

(* Once a cancelled task is not being executed, it stays cancelled and out *)
(* of every handler, although its id may still be queued, until it is      *)
(* reset by an operator; the one exception is a worker whose last read of  *)
(* the task fails, which gives up without having seen the status.          *)
CancelSettles ==
    [][\A t \in Tasks :
          CancelSettled(t) =>
             \/ CancelSettled(t)'
             \/ events'[t].status = "pending"
             \/ \E w \in Workers : /\ worker[w].pc = "fetch"
                                  /\ worker[w].task = t
                                  /\ worker'[w].pc = "giveUp"]_vars

(* Every pending task that no fault hits is eventually decided: processed, *)
(* dead-lettered or cancelled.  Among finitely many tasks, each re-issued  *)
(* a bounded number of times, it waits forever neither behind the queued   *)
(* copies of higher priority nor for a backoff, a schedule or a chain.     *)
(* Clients that never stop submitting tasks of higher priority do starve   *)
(* it: workers drain high before low (README.md:68), and nothing ages.     *)
PendingSettles ==
    \A t \in Tasks :
       events[t].status = "pending" ~>
          (events[t].status # "pending" \/ t \in faulted)

-----------------------------------------------------------------------------
(* What the documentation says and the code does not do (checked by runs   *)
(* that expect a counterexample).                                          *)

(* DELETE /tasks/{id} "cancels any pending task" (README.md:71): a task    *)
(* reported as cancelled would stay so until an operator retries it.       *)
CancelIsFinal ==
    [][\A t \in Tasks :
          events[t].status = "cancelled" =>
             events'[t].status \in {"cancelled", "pending"}]_vars

(* "Every attempt (success, retry, failure) logged to Postgres"            *)
(* (README.md:75): an attempt that GET .../retries has shown would not     *)
(* disappear from the history of its task.                                 *)
AttemptsStayLogged ==
    [][\A t \in Tasks : \A log \in HandleGetTaskRetries(t) :
          \E later \in HandleGetTaskRetries(t)' :
             later.attempt = log.attempt]_vars

(* "A failed task never enqueues its next step" (README.md:186): the child *)
(* of a task that is reported failed would not be waiting in a list.       *)
FailedNeverChains ==
    \A t, c \in Tasks :
       /\ events[t].status = "failed"
       /\ events[c].parent = t
       /\ Len(events[t].next) = Len(events[c].next) + 1
       => ~Queued(ready, c)
=============================================================================
