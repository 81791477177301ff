--------------------------- MODULE TaskRowProofs ----------------------------
(***************************************************************************)
(* What a single step of TaskLifecycle can do to the rows, to the queue    *)
(* and to each worker, and the invariants that follow about rows: no id is *)
(* dangling, a processed task has its result, a chained task hangs under a *)
(* finished root, a scheduled task runs only when it is due, and a settled *)
(* cancellation stays settled.                                             *)
(***************************************************************************)
EXTENDS TaskLifecycleProofs

(* The row chaining.Wrap saves for the step after t.                       *)
NextRow(t) ==
    NewRow(Head(events[t].next), RootTaskID(events, t), Tail(events[t].next))

(* The step saves c as the step after the task of worker w, and w goes on  *)
(* to enqueue it unless the write was reported failed.                     *)
Inserts(w, c) ==
    /\ worker[w].pc = "saveNext"
    /\ events[worker[w].task].next # << >>
    /\ ~Exists(events, c)
    /\ events' = InsertEvent(events, c, NextRow(worker[w].task))
    /\ \/ c \in faulted'
       \/ worker'[w].pc = "enqueueNext" /\ worker'[w].task = worker[w].task

(* All that a step can do to table events.                                 *)
RowChange ==
    \/ events' = events
    \/ \E w \in Workers :
          /\ worker[w].pc = "run"
          /\ events' = UpdateEventResult(events, worker[w].task)
    \/ \E w \in Workers, c \in Tasks : Inserts(w, c)
    \/ \E w \in Workers :
          /\ worker[w].pc = "succeed" /\ MovesTo(w, {"logSucceed"})
          /\ events' = UpdateEventStatus(events, worker[w].task, "processed")
          /\ UNCHANGED queue
    \/ \E w \in Workers :
          /\ worker[w].pc = "giveUp" /\ MovesTo(w, {"logGiveUp"})
          /\ events' = UpdateEventStatus(events, worker[w].task, "failed")
          /\ UNCHANGED queue
    \/ \E t \in Tasks :
          /\ events[t].status = "pending"
          /\ events' = UpdateEventStatus(events, t, "cancelled")
    \/ \E t \in Tasks :
          /\ events[t].status \in {"failed", "cancelled"}
          /\ HeldByRequest(t) \/ reissued'[t] > 0
          /\ events' = UpdateEventStatus(events, t, "pending")

(* All that a step can do to worker w, with what it does at that point to  *)
(* the tables: the edges of the worker loop.                               *)
WorkerChange(w) ==
    \/ worker'[w] = worker[w]
    \/ /\ worker'[w] = Idle
       /\ \/ worker[w].pc = "idle"
          \/ worker[w].task \in faulted'
          \/ /\ worker[w].pc = "fetch"
             /\ events[worker[w].task].status = "cancelled"
             /\ UNCHANGED <<events, logs>>
          \/ /\ worker[w].pc = "logSucceed"
             /\ logs' = UpsertDeliveryLog(logs, worker[w].task, "processed",
                                          worker[w].attempt)
             /\ UNCHANGED events
          \/ worker[w].pc = "deadLetter" /\ UNCHANGED <<events, logs>>
    \/ /\ worker[w].pc = "idle"
       /\ \E t \in Tasks :
             /\ Queued(ready, t)
             /\ worker'[w] = [pc |-> "fetch", task |-> t, attempt |-> 1,
                              child |-> NoTask]
    \/ /\ worker'[w].task = worker[w].task
       /\ \/ /\ worker[w].pc = "fetch"
             /\ worker'[w].pc = "run"
             /\ events[worker[w].task].status \notin {"cancelled", "absent"}
          \/ /\ worker[w].pc = "run"
             /\ worker'[w].pc = IF events[worker[w].task].next = << >>
                                THEN "succeed" ELSE "saveNext"
             /\ events' = UpdateEventResult(events, worker[w].task)
          \/ /\ worker[w].pc \in {"run", "saveNext", "enqueueNext"}
             /\ worker'[w].pc = "logRetry"
             /\ worker[w].pc = "enqueueNext" => worker[w].child \in faulted'
          \/ /\ worker[w].pc = "saveNext"
             /\ worker'[w].pc = "enqueueNext"
             /\ Inserts(w, worker'[w].child)
          \/ /\ worker[w].pc = "enqueueNext"
             /\ worker'[w].pc = "succeed"
          \/ /\ worker[w].pc \in {"fetch", "logRetry"}
             /\ worker'[w].pc = "fetch"
          \/ /\ worker[w].pc \in {"fetch", "logRetry"}
             /\ worker'[w].pc = "giveUp"
             /\ worker'[w].attempt = MaxRetries
          \/ /\ worker[w].pc = "succeed"
             /\ worker'[w].pc = "logSucceed"
             /\ \/ worker[w].task \in faulted'
                \/ events' = UpdateEventStatus(events, worker[w].task, "processed")
          \/ /\ worker[w].pc = "giveUp"
             /\ worker'[w].pc = "logGiveUp"
             /\ worker'[w].attempt = worker[w].attempt
             /\ \/ worker[w].task \in faulted'
                \/ events' = UpdateEventStatus(events, worker[w].task, "failed")
          \/ /\ worker[w].pc = "logGiveUp"
             /\ worker'[w].pc = "deadLetter"
             /\ \/ worker[w].task \in faulted'
                \/ logs' = UpsertDeliveryLog(logs, worker[w].task, "failed",
                                             worker[w].attempt)
             /\ UNCHANGED events

(* Saving the next step inserts its row unless the write is lost.          *)
LEMMA SaveInserts ==
    ASSUME TypeInv, NEW w \in Workers, NEW c \in Tasks, NEW r \in Outcome,
           SaveNext(w, c, r)
    PROVE  /\ r # "lost" => Inserts(w, c)
           /\ r = "lost" => events' = events
  <1>1. /\ worker[w].pc = "saveNext"
        /\ events[worker[w].task].next # << >>
        /\ ~Exists(events, c)
        /\ r # "lost" =>
              events' = InsertEvent(events, c, NextRow(worker[w].task))
        /\ r = "lost" => events' = events
    BY DEF SaveNext, After, NextRow
  <1>2. r = "unack" => c \in faulted'
    BY HitKeeps DEF SaveNext
  <1>3. r = "ok" => /\ worker'[w].pc = "enqueueNext"
                    /\ worker'[w].task = worker[w].task
    BY DEF SaveNext, TypeInv, SoundWorker, WorkerState
  <1> QED
    BY <1>1, <1>2, <1>3 DEF Inserts, Outcome

(* A step of a worker changes the rows only in these ways.                 *)
LEMMA WorkerStepRows ==
    ASSUME TypeInv, NEW w \in Workers, WorkerStep(w)
    PROVE  RowChange
  <1>1. CASE \E p \in Priorities, t \in Tasks, r \in Outcome : Take(w, p, t, r)
    BY <1>1 DEF Take, RowChange
  <1>2. CASE Fetch(w)
    BY <1>2 DEF Fetch, RowChange
  <1>3. CASE RunHandler(w)
    BY <1>3 DEF RunHandler, RowChange
  <1>4. ASSUME NEW c \in Tasks, NEW r \in Outcome, SaveNext(w, c, r)
        PROVE  RowChange
    <2>1. events' = events \/ Inserts(w, c)
      BY <1>4, SaveInserts
    <2> QED
      BY <2>1 DEF RowChange
  <1>5. ASSUME NEW r \in Outcome,
               \/ EnqueueNext(w, r) \/ LogSucceed(w, r) \/ LogRetry(w, r)
               \/ LogGiveUp(w, r) \/ DeadLetter(w, r)
        PROVE  RowChange
    BY <1>5 DEF EnqueueNext, LogSucceed, LogRetry, LogGiveUp, DeadLetter,
                RecordAttempt, RowChange
  <1>6. ASSUME NEW r \in Outcome, MarkProcessed(w, r) \/ MarkFailed(w, r)
        PROVE  RowChange
    <2>1. \/ events' = events
          \/ /\ worker[w].pc = "succeed" /\ Goto(w, "logSucceed")
             /\ events' = UpdateEventStatus(events, worker[w].task, "processed")
             /\ UNCHANGED queue
          \/ /\ worker[w].pc = "giveUp" /\ Goto(w, "logGiveUp")
             /\ events' = UpdateEventStatus(events, worker[w].task, "failed")
             /\ UNCHANGED queue
      BY <1>6 DEF MarkProcessed, MarkFailed, SetStatus, After
    <2> QED
      BY <2>1, Moves DEF RowChange
  <1> QED
    BY <1>1, <1>2, <1>3, <1>4, <1>5, <1>6 DEF WorkerStep

(* A retry resets the row of t, or fails to.                               *)
LEMMA ResetRows ==
    ASSUME NEW a \in Admins, NEW t \in Tasks, NEW r \in Outcome, Reset(a, t, r),
           HeldByRequest(t) \/ reissued'[t] > 0
    PROVE  RowChange
  BY DEF Reset, After, ResetTaskForRetry, Retryable, RowChange

(* So does every step.                                                     *)
LEMMA RowEffect ==
    ASSUME TypeInv, [Next]_vars
    PROVE  RowChange
  <1>1. CASE \E w \in Workers : WorkerStep(w)
    BY <1>1, WorkerStepRows
  <1>2. ASSUME NEW a \in Admins, RequestStep(a)
        PROVE  RowChange
    <2>1. ASSUME NEW r \in Outcome, ResetDLQTask(a, r)
          PROVE  RowChange
      <3>1. request[a].task \in Tasks
        BY <2>1, Holds DEF ResetDLQTask
      <3>2. events' = events \/ Reset(a, request[a].task, r)
        BY <2>1 DEF ResetDLQTask
      <3> QED
        BY <3>1, <3>2, ResetRows DEF RowChange, HeldByRequest
    <2>2. ASSUME (\E r \in Outcome : EnqueueRetry(a, r)) \/ PushRequeued(a)
          PROVE  RowChange
      BY <2>2 DEF EnqueueRetry, PushRequeued, RowChange
    <2> QED
      BY <1>2, <2>1, <2>2 DEF RequestStep
  <1>3. CASE NewRequest
    <2>1. ASSUME NEW t \in Tasks, HandleCancelTask(t) \/ HandleRemoveDLQTask(t)
          PROVE  RowChange
      BY <2>1 DEF HandleCancelTask, HandleRemoveDLQTask, Cancellable,
                  CancelEventIfPending, RowChange
    <2>2. ASSUME NEW a \in Admins, NEW t \in Tasks, NEW r \in Outcome,
                 HandleRetryTask(a, t, r)
          PROVE  RowChange
      <3>1. Reset(a, t, r) /\ reissued[t] \in Nat /\ Reissue(t)
        BY <2>2, LifecycleAssumption DEF HandleRetryTask, TypeInv
      <3>2. reissued'[t] > 0
        BY <3>1 DEF Reissue, TypeInv
      <3> QED
        BY <3>1, <3>2, ResetRows
    <2>3. ASSUME NEW a \in Admins, NEW t \in Tasks, NEW r \in Outcome,
                 HandleRequeueTask(a, t) \/ HandleRetryDLQTask(a, t, r)
          PROVE  RowChange
      BY <2>3 DEF HandleRequeueTask, HandleRetryDLQTask, RowChange
    <2> QED
      BY <1>3, <2>1, <2>2, <2>3 DEF NewRequest, Outcome
  <1>4. CASE Promote \/ (\E t \in Tasks : ReachExecuteAt(t)) \/ Crash
    BY <1>4 DEF Promote, PromoteScheduled, ReachExecuteAt, Crash, RowChange
  <1>5. CASE UNCHANGED vars
    BY <1>5 DEF vars, RowChange
  <1> QED
    BY <1>1, <1>2, <1>3, <1>4, <1>5 DEF Next

(* The number of the attempt along the worker loop.                        *)
LEMMA AttemptMoves ==
    ASSUME TypeInv, NEW w \in Workers
    PROVE  /\ \A pc : Goto(w, pc) => worker'[w].attempt = worker[w].attempt
           /\ NextAttempt(w) =>
                 \/ worker'[w].pc = "fetch"
                 \/ worker'[w].pc = "giveUp" /\ worker'[w].attempt = MaxRetries
  <1>1. worker \in [Workers -> WorkerState]
    BY DEF TypeInv, SoundWorker
  <1>2. ASSUME NEW pc, Goto(w, pc)
        PROVE  worker'[w].attempt = worker[w].attempt /\ worker'[w].pc = pc
    BY <1>1, <1>2 DEF Goto, WorkerState
  <1>3. ASSUME NextAttempt(w), worker[w].attempt < MaxRetries
        PROVE  worker'[w].pc = "fetch"
    <2>1. worker' = [worker EXCEPT ![w].pc = "fetch", ![w].attempt = @ + 1]
      BY <1>3 DEF NextAttempt
    <2> QED
      BY <1>1, <2>1 DEF WorkerState
  <1>4. ASSUME NextAttempt(w), ~(worker[w].attempt < MaxRetries)
        PROVE  worker'[w].pc = "giveUp" /\ worker'[w].attempt = MaxRetries
    <2>1. Goto(w, "giveUp")
      BY <1>4 DEF NextAttempt
    <2>2. worker[w].attempt = MaxRetries
      BY <1>1, <1>4, LifecycleAssumption DEF WorkerState
    <2> QED
      BY <1>2, <2>1, <2>2
  <1> QED
    BY <1>2, <1>3, <1>4

(* A step of a worker follows the edges of the loop and moves no other     *)
(* worker.                                                                 *)
LEMMA WorkerStepMoves ==
    ASSUME TypeInv, NEW w \in Workers, WorkerStep(w)
    PROVE  OthersKeep(w) /\ WorkerChange(w)
  <1>1. ASSUME NEW p \in Priorities, NEW t \in Tasks, NEW r \in Outcome,
               Take(w, p, t, r)
        PROVE  OthersKeep(w) /\ WorkerChange(w)
    <2>1. worker[w].pc = "idle" /\ Queued(ready, t)
      BY <1>1 DEF Take, CanDequeue, Queued
    <2>2. \/ worker' = worker
          \/ worker' = [worker EXCEPT ![w] = [pc |-> "fetch", task |-> t,
                                             attempt |-> 1, child |-> NoTask]]
      BY <1>1 DEF Take
    <2> QED
      BY <2>1, <2>2 DEF TypeInv, OthersKeep, WorkerChange
  <1>2. CASE Fetch(w)
    <2>1. /\ worker[w].pc = "fetch"
          /\ \/ events[worker[w].task].status = "cancelled" /\ Release(w)
             \/ /\ events[worker[w].task].status \notin {"cancelled", "absent"}
                /\ Goto(w, "run")
             \/ NextAttempt(w)
          /\ UNCHANGED <<events, logs>>
      BY <1>2 DEF Fetch
    <2>2. CASE ~NextAttempt(w)
      BY <2>1, <2>2, Moves DEF MovesTo, WorkerChange
    <2>3. CASE NextAttempt(w)
      BY <2>1, <2>3, Moves, AttemptMoves DEF MovesTo, WorkerChange
    <2> QED
      BY <2>1, <2>2, <2>3
  <1>3. CASE RunHandler(w)
    <2> DEFINE next == IF events[worker[w].task].next = << >>
                       THEN "succeed" ELSE "saveNext"
    <2>1. /\ worker[w].pc = "run"
          /\ \/ /\ events' = UpdateEventResult(events, worker[w].task)
                /\ Goto(w, next)
             \/ Goto(w, "logRetry")
      BY <1>3 DEF RunHandler
    <2>2. MovesTo(w, {next}) \/ MovesTo(w, {"logRetry"})
      BY <2>1, Moves
    <2> QED
      BY <2>1, <2>2, Moves DEF MovesTo, WorkerChange
  <1>4. ASSUME NEW c \in Tasks, NEW r \in Outcome, SaveNext(w, c, r)
        PROVE  OthersKeep(w) /\ WorkerChange(w)
    <2>1. /\ worker[w].pc = "saveNext"
          /\ r = "ok" => Inserts(w, c)
      BY <1>4, SaveInserts DEF SaveNext
    <2>2. /\ OthersKeep(w)
          /\ worker'[w].task = worker[w].task
          /\ r = "ok" => worker'[w].pc = "enqueueNext" /\ worker'[w].child = c
          /\ r # "ok" => worker'[w].pc = "logRetry"
      BY <1>4 DEF SaveNext, TypeInv, SoundWorker, WorkerState, OthersKeep
    <2> QED
      BY <2>1, <2>2 DEF WorkerChange
  <1>5. ASSUME NEW r \in Outcome, EnqueueNext(w, r)
        PROVE  OthersKeep(w) /\ WorkerChange(w)
    <2>1. /\ worker[w].pc = "enqueueNext"
          /\ OthersKeep(w)
          /\ worker'[w].task = worker[w].task
          /\ worker'[w].pc = IF r = "ok" THEN "succeed" ELSE "logRetry"
      BY <1>5 DEF EnqueueNext, TypeInv, SoundWorker, WorkerState, OthersKeep
    <2>2. r = "ok" \/ worker[w].child \in faulted'
      BY <1>5, HitKeeps DEF EnqueueNext
    <2> QED
      BY <2>1, <2>2 DEF WorkerChange
  <1>6. ASSUME NEW r \in Outcome, MarkProcessed(w, r) \/ MarkFailed(w, r)
        PROVE  OthersKeep(w) /\ WorkerChange(w)
    <2>1. /\ \/ /\ worker[w].pc = "succeed" /\ Goto(w, "logSucceed")
                /\ r = "ok" => events' = UpdateEventStatus(events, worker[w].task,
                                                          "processed")
             \/ /\ worker[w].pc = "giveUp" /\ Goto(w, "logGiveUp")
                /\ r = "ok" => events' = UpdateEventStatus(events, worker[w].task,
                                                          "failed")
          /\ Hit(r, worker[w].task)
      BY <1>6 DEF MarkProcessed, MarkFailed, SetStatus, After
    <2>2. r = "ok" \/ worker[w].task \in faulted'
      BY <2>1, HitKeeps
    <2> QED
      BY <2>1, <2>2, Moves, AttemptMoves DEF MovesTo, WorkerChange
  <1>7. ASSUME NEW r \in Outcome, LogRetry(w, r)
        PROVE  OthersKeep(w) /\ WorkerChange(w)
    <2>1. worker[w].pc = "logRetry" /\ NextAttempt(w)
      BY <1>7 DEF LogRetry, RecordAttempt
    <2> QED
      BY <2>1, Moves, AttemptMoves DEF MovesTo, WorkerChange
  <1>8. ASSUME NEW r \in Outcome,
               LogSucceed(w, r) \/ LogGiveUp(w, r) \/ DeadLetter(w, r)
        PROVE  OthersKeep(w) /\ WorkerChange(w)
    <2>1. /\ \/ /\ worker[w].pc = "logSucceed" /\ Release(w)
                /\ r = "ok" => logs' = UpsertDeliveryLog(logs, worker[w].task,
                                        "processed", worker[w].attempt)
             \/ /\ worker[w].pc = "logGiveUp" /\ Goto(w, "deadLetter")
                /\ r = "ok" => logs' = UpsertDeliveryLog(logs, worker[w].task,
                                        "failed", worker[w].attempt)
             \/ worker[w].pc = "deadLetter" /\ Release(w) /\ logs' = logs
          /\ Hit(r, worker[w].task)
          /\ UNCHANGED events
      BY <1>8 DEF LogSucceed, LogGiveUp, DeadLetter, RecordAttempt, After
    <2>2. r = "ok" \/ worker[w].task \in faulted'
      BY <2>1, HitKeeps
    <2> QED
      BY <2>1, <2>2, Moves DEF MovesTo, WorkerChange
  <1> QED
    BY <1>1, <1>2, <1>3, <1>4, <1>5, <1>6, <1>7, <1>8 DEF WorkerStep

(* Every step moves a worker along them or not at all.                     *)
LEMMA WorkerEffect ==
    ASSUME TypeInv, [Next]_vars, NEW w \in Workers
    PROVE  WorkerChange(w)
  <1>1. ASSUME NEW v \in Workers, WorkerStep(v)
        PROVE  WorkerChange(w)
    BY <1>1, WorkerStepMoves DEF OthersKeep, WorkerChange
  <1>2. CASE Crash
    <2>1. worker'[w] = Idle
      BY <1>2 DEF Crash
    <2>2. worker[w].pc = "idle" \/ worker[w].task \in faulted'
      BY <1>2, Holds DEF Crash, HeldByWorker
    <2> QED
      BY <2>1, <2>2 DEF WorkerChange
  <1>3. ASSUME \/ \E a \in Admins : RequestStep(a)
               \/ NewRequest
               \/ Promote
               \/ \E t \in Tasks : ReachExecuteAt(t)
               \/ UNCHANGED vars
        PROVE  worker' = worker
    BY <1>3 DEF RequestStep, ResetDLQTask, EnqueueRetry, PushRequeued,
                NewRequest, HandleCancelTask, HandleRemoveDLQTask,
                HandleRequeueTask, HandleRetryTask, HandleRetryDLQTask,
                Promote, PromoteScheduled, ReachExecuteAt, vars
  <1> QED
    BY <1>1, <1>2, <1>3 DEF Next, WorkerChange

-----------------------------------------------------------------------------
(* All that a step can add to the places where the id of t is kept.        *)

QueueChange(t) ==
    /\ Queued(ready', t) =>
          \/ Queued(ready, t)
          \/ \E w \in Workers : worker[w].child = t /\ ~events[t].executeAt
          \/ OnSchedule(scheduled, t) /\ t \in due
          \/ HeldByRequest(t)
    /\ OnSchedule(scheduled', t) =>
          \/ OnSchedule(scheduled, t)
          \/ \E w \in Workers : worker[w].child = t
          \/ HeldByRequest(t)
    /\ t \in dlq' =>
          \/ t \in dlq
          \/ \E w \in Workers : worker[w].task = t /\ worker[w].pc = "deadLetter"

RequestChange(t) ==
    /\ HeldByRequest(t)' =>
          \/ HeldByRequest(t)
          \/ (Exists(events, t) \/ t \in dlq) /\ reissued'[t] > 0
    /\ reissued'[t] = 0 => reissued[t] = 0
    /\ due \subseteq due'

(* Pushing c adds at most c to the queued ids.                             *)
LEMMA PushAdds ==
    ASSUME NEW q \in Ready, NEW c \in Tasks, NEW p \in PriorityColumn,
           NEW t \in Tasks, Queued(EnqueueWithPriority(q, c, p), t)
    PROVE  t = c \/ Queued(q, t)
  BY DEF EnqueueWithPriority, Level, Ready, Queued, Priorities

(* Popping adds no id to the queue.                                        *)
LEMMA PopAdds ==
    ASSUME NEW q \in Ready, NEW c \in Tasks, NEW p \in Priorities,
           NEW t \in Tasks, Queued(Dequeue(q, p, c), t)
    PROVE  Queued(q, t)
  <1>1. \A k \in Priorities :
           Dequeue(q, p, c)[k][t] =
              IF k = p /\ t = c THEN q[k][t] - 1 ELSE q[k][t]
    BY DEF Dequeue, Ready
  <1>2. \A k \in Priorities : q[k][t] \in Nat
    BY DEF Ready
  <1> QED
    BY <1>1, <1>2 DEF Queued

(* Every step adds ids to the queue only from where they are held already. *)
LEMMA QueueEffect ==
    ASSUME TypeInv, [Next]_vars, NEW t \in Tasks
    PROVE  QueueChange(t)
  <1>0. ASSUME UNCHANGED <<ready, scheduled, dlq>> PROVE QueueChange(t)
    BY <1>0 DEF QueueChange
  <1>1. ASSUME NEW w \in Workers, NEW p \in Priorities, NEW c \in Tasks,
               NEW r \in Outcome, Take(w, p, c, r)
        PROVE  QueueChange(t)
    <2>1. ready' = Dequeue(ready, p, c) /\ UNCHANGED <<scheduled, dlq>>
      BY <1>1 DEF Take
    <2>2. Queued(ready', t) => Queued(ready, t)
      BY <2>1, PopAdds DEF TypeInv
    <2> QED
      BY <2>1, <2>2 DEF QueueChange
  <1>2. ASSUME NEW w \in Workers, NEW r \in Outcome, EnqueueNext(w, r)
        PROVE  QueueChange(t)
    <2> DEFINE c == worker[w].child
               p == events[c].priority
    <2>1. /\ worker[w].pc = "enqueueNext"
          /\ \/ ready' = ready
             \/ /\ ready' = EnqueueWithPriority(ready, c, p)
                /\ ~events[c].executeAt
          /\ scheduled' = Schedule(scheduled, c, p) \/ scheduled' = scheduled
          /\ dlq' = dlq
      BY <1>2 DEF EnqueueNext, After
    <2>2. c \in Tasks /\ p \in PriorityColumn
      BY <2>1, Holds DEF TypeInv, Row
    <2>3. Queued(ready', t) =>
             Queued(ready, t) \/ (t = c /\ ~events[c].executeAt)
      BY <2>1, <2>2, PushAdds DEF TypeInv
    <2>4. OnSchedule(scheduled', t) => OnSchedule(scheduled, t) \/ t = c
      BY <2>1 DEF OnSchedule, Schedule
    <2> QED
      BY <2>1, <2>3, <2>4 DEF QueueChange
  <1>3. ASSUME NEW w \in Workers, NEW r \in Outcome, DeadLetter(w, r)
        PROVE  QueueChange(t)
    <2>1. /\ worker[w].pc = "deadLetter"
          /\ dlq' = dlq \cup {worker[w].task} \/ dlq' = dlq
          /\ UNCHANGED <<ready, scheduled>>
      BY <1>3 DEF DeadLetter, After, EnqueueToDLQ
    <2> QED
      BY <2>1 DEF QueueChange
  <1>4. ASSUME NEW w \in Workers, NEW r \in Outcome,
               \/ Fetch(w) \/ RunHandler(w) \/ MarkProcessed(w, r)
               \/ LogSucceed(w, r) \/ LogRetry(w, r) \/ MarkFailed(w, r)
               \/ LogGiveUp(w, r) \/ (\E c \in Tasks : SaveNext(w, c, r))
        PROVE  QueueChange(t)
    BY <1>0, <1>4 DEF Fetch, RunHandler, MarkProcessed, LogSucceed, LogRetry,
                      MarkFailed, LogGiveUp, SaveNext, SetStatus,
                      RecordAttempt, queue
  <1>5. ASSUME NEW a \in Admins, NEW r \in Outcome,
               EnqueueRetry(a, r) \/ PushRequeued(a)
        PROVE  QueueChange(t)
    <2> DEFINE c == request[a].task
               p == request[a].priority
    <2>1. /\ c \in Tasks /\ p \in PriorityColumn
          /\ ready' = EnqueueWithPriority(ready, c, p) \/ ready' = ready
          /\ scheduled' = Schedule(scheduled, c, p) \/ scheduled' = scheduled
          /\ dlq' = dlq
      BY <1>5, Holds DEF EnqueueRetry, PushRequeued, After
    <2>2. Queued(ready', t) => Queued(ready, t) \/ t = c
      BY <2>1, PushAdds DEF TypeInv
    <2>3. OnSchedule(scheduled', t) => OnSchedule(scheduled, t) \/ t = c
      BY <2>1 DEF OnSchedule, Schedule
    <2> QED
      BY <2>1, <2>2, <2>3 DEF QueueChange, HeldByRequest
  <1>6. ASSUME NEW entry \in Scheduled, NEW r \in Outcome,
               PromoteScheduled(entry, r)
        PROVE  QueueChange(t)
    <2>1. /\ entry[1] \in Tasks /\ entry[2] \in PriorityColumn
          /\ entry = <<entry[1], entry[2]>>
      BY DEF Scheduled
    <2>2. /\ entry \in scheduled /\ entry[1] \in due
          /\ ready' = EnqueueWithPriority(ready, entry[1], entry[2])
          /\ scheduled' \subseteq scheduled
          /\ dlq' = dlq
      BY <1>6 DEF PromoteScheduled, Unschedule
    <2>3. Queued(ready', t) => Queued(ready, t) \/ t = entry[1]
      BY <2>1, <2>2, PushAdds DEF TypeInv
    <2>4. /\ OnSchedule(scheduled, entry[1])
          /\ OnSchedule(scheduled', t) => OnSchedule(scheduled, t)
      BY <2>1, <2>2 DEF OnSchedule
    <2> QED
      BY <2>2, <2>3, <2>4 DEF QueueChange
  <1>7. ASSUME \/ \E a \in Admins, r \in Outcome : ResetDLQTask(a, r)
               \/ \E c \in Tasks : HandleCancelTask(c) \/ ReachExecuteAt(c)
               \/ \E a \in Admins, c \in Tasks : HandleRequeueTask(a, c)
               \/ \E a \in Admins, c \in Tasks, r \in Outcome :
                     HandleRetryTask(a, c, r)
               \/ Crash
               \/ UNCHANGED vars
        PROVE  QueueChange(t)
    BY <1>0, <1>7 DEF ResetDLQTask, HandleCancelTask, ReachExecuteAt,
                HandleRequeueTask, HandleRetryTask, Crash, vars, queue
  <1>8. ASSUME NEW c \in Tasks, NEW a \in Admins, NEW r \in Outcome,
               HandleRetryDLQTask(a, c, r)
        PROVE  QueueChange(t)
    BY <1>8 DEF HandleRetryDLQTask, RemoveFromDLQ, QueueChange
  <1>9. ASSUME NEW c \in Tasks, HandleRemoveDLQTask(c)
        PROVE  QueueChange(t)
    BY <1>9 DEF HandleRemoveDLQTask, RemoveFromDLQ, QueueChange
  <1>10. CASE \E w \in Workers : WorkerStep(w)
    BY <1>1, <1>2, <1>3, <1>4, <1>10 DEF WorkerStep, Outcome
  <1>11. CASE \E a \in Admins : RequestStep(a)
    BY <1>5, <1>7, <1>11 DEF RequestStep, Outcome
  <1>12. CASE NewRequest
    BY <1>7, <1>8, <1>9, <1>12 DEF NewRequest
  <1> QED
    BY <1>6, <1>7, <1>10, <1>11, <1>12 DEF Next, Promote

(* Every step leaves requests and re-issues as RequestChange says.         *)
LEMMA RequestEffect ==
    ASSUME TypeInv, [Next]_vars, NEW t \in Tasks
    PROVE  RequestChange(t)
  <1>0. reissued[t] \in Nat
    BY LifecycleAssumption DEF TypeInv
  <1>1. ASSUME NEW a \in Admins, NEW c \in Tasks,
               Exists(events, c) \/ c \in dlq,
               Reissue(c), due' = due,
               \A b \in Admins \ {a} : request'[b] = request[b],
               request'[a].task \in {c, NoTask}
        PROVE  RequestChange(t)
    <2>1. reissued'[t] = IF t = c THEN reissued[t] + 1 ELSE reissued[t]
      BY <1>1 DEF Reissue, TypeInv
    <2>2. HeldByRequest(t)' => HeldByRequest(t) \/ t = c
      BY <1>1, NoTaskAssumption DEF HeldByRequest
    <2> QED
      BY <1>0, <1>1, <2>1, <2>2 DEF RequestChange
  <1>2. ASSUME NEW a \in Admins, NEW c \in Tasks, NEW r \in Outcome,
               \/ HandleRequeueTask(a, c) \/ HandleRetryTask(a, c, r)
               \/ HandleRetryDLQTask(a, c, r)
        PROVE  RequestChange(t)
    <2>1. Exists(events, c) \/ c \in dlq
      BY <1>2 DEF HandleRequeueTask, HandleRetryTask, HandleRetryDLQTask,
                  Reset, Retryable, Exists
    <2>2. Reissue(c) /\ due' = due
      BY <1>2 DEF HandleRequeueTask, HandleRetryTask, HandleRetryDLQTask
    <2>3. /\ \A b \in Admins \ {a} : request'[b] = request[b]
          /\ request'[a].task \in {c, NoTask}
      BY <1>2 DEF HandleRequeueTask, HandleRetryTask, HandleRetryDLQTask,
                  Reset, TypeInv, NoRequest
    <2> QED
      BY <1>1, <2>1, <2>2, <2>3
  <1>3. ASSUME NEW a \in Admins, RequestStep(a)
        PROVE  RequestChange(t)
    <2>1. /\ \A b \in Admins \ {a} : request'[b] = request[b]
          /\ request'[a].task \in {request[a].task, NoTask}
          /\ UNCHANGED <<reissued, due>>
      BY <1>3 DEF RequestStep, ResetDLQTask, EnqueueRetry, PushRequeued, Reset,
                  TypeInv, NoRequest, history
    <2> QED
      BY <2>1, NoTaskAssumption DEF RequestChange, HeldByRequest
  <1>4. CASE Crash
    BY <1>4, NoTaskAssumption DEF Crash, RequestChange, HeldByRequest, NoRequest
  <1>5. ASSUME UNCHANGED <<request, reissued, due>>
        PROVE  RequestChange(t)
    BY <1>5 DEF RequestChange, HeldByRequest
  <1>6. ASSUME NEW w \in Workers, WorkerStep(w)
        PROVE  RequestChange(t)
    <2>1. CASE \E p \in Priorities, c \in Tasks, r \in Outcome : Take(w, p, c, r)
      BY <1>5, <2>1 DEF Take
    <2>2. CASE Fetch(w) \/ RunHandler(w)
      BY <1>5, <2>2 DEF Fetch, RunHandler, history
    <2>3. CASE \E c \in Tasks, r \in Outcome : SaveNext(w, c, r)
      BY <1>5, <2>3 DEF SaveNext
    <2>4. ASSUME NEW r \in Outcome,
                 \/ EnqueueNext(w, r) \/ MarkProcessed(w, r) \/ LogSucceed(w, r)
                 \/ LogRetry(w, r) \/ MarkFailed(w, r) \/ LogGiveUp(w, r)
                 \/ DeadLetter(w, r)
          PROVE  RequestChange(t)
      BY <1>5, <2>4 DEF EnqueueNext, MarkProcessed, LogSucceed, LogRetry,
                        MarkFailed, LogGiveUp, DeadLetter, SetStatus,
                        RecordAttempt
    <2> QED
      BY <1>6, <2>1, <2>2, <2>3, <2>4 DEF WorkerStep
  <1>7. ASSUME \/ \E c \in Tasks : HandleCancelTask(c) \/ HandleRemoveDLQTask(c)
               \/ Promote
               \/ UNCHANGED vars
        PROVE  RequestChange(t)
    BY <1>5, <1>7 DEF HandleCancelTask, HandleRemoveDLQTask, Promote,
                      PromoteScheduled, vars, history
  <1>8. ASSUME NEW c \in Tasks, ReachExecuteAt(c)
        PROVE  RequestChange(t)
    BY <1>8 DEF ReachExecuteAt, RequestChange, HeldByRequest, history
  <1> QED
    BY <1>2, <1>3, <1>4, <1>6, <1>7, <1>8 DEF Next, NewRequest, Outcome

-----------------------------------------------------------------------------
(* Rows.                                                                   *)

(* What a step keeps of a row: nothing deletes it, only its status changes *)
(* and its result is only ever added.                                      *)
Lasts(t) ==
    /\ Exists(events', t)
    /\ events'[t].parent = events[t].parent
    /\ events'[t].next = events[t].next
    /\ events'[t].priority = events[t].priority
    /\ events'[t].executeAt = events[t].executeAt
    /\ events[t].result => events'[t].result

(* Rows last, and a row appears only as the next step of a task.           *)
LEMMA RowsLast ==
    ASSUME TypeInv, NoDanglingIds, [Next]_vars, NEW t \in Tasks
    PROVE  /\ Exists(events, t) => Lasts(t)
           /\ ~Exists(events, t) =>
                 \/ events'[t] = events[t]
                 \/ \E w \in Workers :
                       Inserts(w, t) /\ events'[t] = NextRow(worker[w].task)
  <1>0. RowChange /\ events \in [Tasks -> Row]
    BY RowEffect DEF TypeInv
  <1>1. CASE events' = events
    BY <1>1 DEF Lasts
  <1>2. ASSUME NEW c \in Tasks, Exists(events, c), NEW st \in Status,
               events' = UpdateEventStatus(events, c, st)
        PROVE  /\ Exists(events, t) => Lasts(t)
               /\ ~Exists(events, t) => events'[t] = events[t]
    <2>1. events'[t] = IF t = c THEN [events[t] EXCEPT !.status = st]
                       ELSE events[t]
      BY <1>0, <1>2 DEF UpdateEventStatus
    <2>2. CASE t = c
      <3>1. events'[t] = [events[t] EXCEPT !.status = st] /\ events[t] \in Row
        BY <1>0, <2>1, <2>2
      <3>2. st # "absent"
        BY DEF Status
      <3> QED
        BY <1>2, <2>2, <3>1, <3>2 DEF Lasts, Exists, Row
    <2>3. CASE t # c
      BY <2>1, <2>3 DEF Lasts, Exists
    <2> QED
      BY <2>2, <2>3
  <1>3. ASSUME NEW w \in Workers, worker[w].pc # "idle"
        PROVE  worker[w].task \in Tasks /\ Exists(events, worker[w].task)
    BY <1>3, Holds DEF NoDanglingIds, HeldByWorker
  <1>4. ASSUME NEW w \in Workers, worker[w].pc = "run",
               events' = UpdateEventResult(events, worker[w].task)
        PROVE  /\ Exists(events, t) => Lasts(t)
               /\ ~Exists(events, t) => events'[t] = events[t]
    <2>1. /\ worker[w].task \in Tasks
          /\ Exists(events, worker[w].task)
      BY <1>3, <1>4
    <2>2. events'[t] = IF t = worker[w].task
                       THEN [events[t] EXCEPT !.result = TRUE] ELSE events[t]
      BY <1>0, <1>4, <2>1 DEF UpdateEventResult
    <2>3. CASE t = worker[w].task
      <3>1. events'[t] = [events[t] EXCEPT !.result = TRUE] /\ events[t] \in Row
        BY <1>0, <2>2, <2>3
      <3> QED
        BY <2>1, <2>3, <3>1 DEF Lasts, Exists, Row
    <2>4. CASE t # worker[w].task
      BY <2>2, <2>4 DEF Lasts, Exists
    <2> QED
      BY <2>3, <2>4
  <1>5. ASSUME NEW w \in Workers, NEW c \in Tasks, Inserts(w, c)
        PROVE  /\ Exists(events, t) => Lasts(t)
               /\ ~Exists(events, t) =>
                     \/ events'[t] = events[t]
                     \/ Inserts(w, t) /\ events'[t] = NextRow(worker[w].task)
    <2>1. /\ ~Exists(events, c)
          /\ events' = InsertEvent(events, c, NextRow(worker[w].task))
          /\ worker[w].task \in Tasks
          /\ events[worker[w].task].next # << >>
      BY <1>3, <1>5 DEF Inserts
    <2>3. events'[t] = IF t = c THEN NextRow(worker[w].task) ELSE events[t]
      BY <1>0, <2>1 DEF InsertEvent
    <2>4. CASE t = c
      BY <1>5, <2>1, <2>3, <2>4
    <2>5. CASE t # c
      BY <2>3, <2>5 DEF Lasts, Exists
    <2> QED
      BY <2>4, <2>5
  <1>6. CASE \E w \in Workers :
                /\ worker[w].pc \in {"succeed", "giveUp"}
                /\ \E st \in Status :
                      events' = UpdateEventStatus(events, worker[w].task, st)
    BY <1>2, <1>3, <1>6
  <1>7. CASE \E c \in Tasks :
                /\ events[c].status \in {"pending", "failed", "cancelled"}
                /\ \E st \in Status : events' = UpdateEventStatus(events, c, st)
    BY <1>2, <1>7 DEF Exists
  <1> QED
    BY <1>0, <1>1, <1>4, <1>5, <1>6, <1>7 DEF RowChange, Status

(* The step after t has been saved.                                        *)
NextSaved(t) ==
    \/ events[t].next = << >>
    \/ \E c \in Tasks : /\ Exists(events, c)
                        /\ events[c].parent = RootTaskID(events, t)
                        /\ events[c].next = Tail(events[t].next)

(* A worker past the handler has stored the result, and one past saveNext  *)
(* has saved the next step.                                                *)
ResultStored ==
    \A w \in Workers :
       worker[w].pc \in {"saveNext", "enqueueNext", "succeed"} =>
          events[worker[w].task].result

NextStepSaved ==
    \A w \in Workers :
       worker[w].pc \in {"enqueueNext", "succeed"} => NextSaved(worker[w].task)

AbsentRows == \A t \in Tasks : ~Exists(events, t) => events[t] = Absent

(* The inductive invariant of the rows (given TypeInv).                    *)
RowInv ==
    /\ AbsentRows
    /\ NoDanglingIds
    /\ ResultStored
    /\ NextStepSaved
    /\ ProcessedHasResult
    /\ ChildUnderFinishedRoot

(* Accepted tasks have rows, and nothing names another.                    *)
LEMMA InitRowInv == Init => RowInv
  <1> SUFFICES ASSUME Init PROVE RowInv
    OBVIOUS
  <1>1. PICK body \in [Accepted -> Bodies] :
          /\ events = [t \in Tasks |->
                         IF t \in Accepted
                         THEN NewRow(body[t].step, NoTask, body[t].next)
                         ELSE Absent]
          /\ ready = [p \in Priorities |-> [t \in Tasks |->
                         IF /\ t \in Accepted
                            /\ ~body[t].step.executeAt
                            /\ Level(body[t].step.priority) = p
                         THEN 1 ELSE 0]]
          /\ scheduled = {<<t, body[t].step.priority>> :
                            t \in {u \in Accepted : body[u].step.executeAt}}
    BY DEF Init
  <1>2. \A t \in Tasks :
           /\ t \in Accepted => Exists(events, t) /\ events[t].status = "pending"
           /\ t \notin Accepted => events[t] = Absent
           /\ events[t].parent = NoTask
    BY <1>1 DEF NewRow, Absent, Exists
  <1>3. \A t \in Tasks :
           Queued(ready, t) \/ OnSchedule(scheduled, t) => t \in Accepted
    BY <1>1 DEF Queued, OnSchedule
  <1>4. /\ \A w \in Workers : worker[w] = Idle
        /\ \A a \in Admins : request[a] = NoRequest
        /\ dlq = {}
    BY DEF Init
  <1>5. AbsentRows
    BY <1>2 DEF AbsentRows
  <1>6. NoDanglingIds
    BY <1>2, <1>3, <1>4, NoTaskAssumption
       DEF NoDanglingIds, HeldByWorker, HeldByRequest, Idle, NoRequest
  <1>7. ResultStored /\ NextStepSaved
    BY <1>4 DEF ResultStored, NextStepSaved, Idle
  <1>8. ProcessedHasResult
    BY <1>2 DEF ProcessedHasResult, Absent
  <1>9. ChildUnderFinishedRoot
    BY <1>2 DEF ChildUnderFinishedRoot
  <1> QED
    BY <1>5, <1>6, <1>7, <1>8, <1>9 DEF RowInv

(* A row that a step inserts: what the proofs need to know of it.          *)
LEMMA InsertedRow ==
    ASSUME TypeInv, RowInv, NEW w \in Workers, NEW c \in Tasks, Inserts(w, c)
    PROVE  /\ worker[w].task \in Tasks
           /\ Exists(events, worker[w].task)
           /\ events[worker[w].task].result
           /\ RootTaskID(events, worker[w].task) \in Tasks
           /\ Exists(events, RootTaskID(events, worker[w].task))
           /\ events[RootTaskID(events, worker[w].task)].parent = NoTask
           /\ events[RootTaskID(events, worker[w].task)].result
           /\ events'[c].status = "pending"
           /\ events'[c].parent = RootTaskID(events, worker[w].task)
           /\ events'[c].next = Tail(events[worker[w].task].next)
           /\ events'[c].result = FALSE
           /\ Exists(events', c)
  <1> DEFINE t == worker[w].task
  <1>1. worker[w].pc = "saveNext"
    BY DEF Inserts
  <1>2. t \in Tasks /\ events[t].result
    BY <1>1, Holds DEF RowInv, ResultStored
  <1>3. Exists(events, t)
    BY <1>2 DEF RowInv, NoDanglingIds, HeldByWorker
  <1>4. events[t].parent \in Tasks \cup {NoTask}
    BY <1>2 DEF TypeInv, Row
  <1>5. /\ RootTaskID(events, t) \in Tasks
        /\ Exists(events, RootTaskID(events, t))
        /\ events[RootTaskID(events, t)].parent = NoTask
        /\ events[RootTaskID(events, t)].result
    <2>1. CASE events[t].parent = NoTask
      BY <1>2, <1>3, <2>1 DEF RootTaskID
    <2>2. CASE events[t].parent # NoTask
      <3>1. RootTaskID(events, t) = events[t].parent /\ events[t].parent \in Tasks
        BY <1>4, <2>2 DEF RootTaskID
      <3>2. Exists(events, events[t].parent)
        BY <1>2, <3>1 DEF RowInv, NoDanglingIds
      <3>3. /\ events[events[t].parent].parent = NoTask
            /\ events[events[t].parent].result
        BY <1>2, <2>2 DEF RowInv, ChildUnderFinishedRoot
      <3> QED
        BY <3>1, <3>2, <3>3
    <2> QED
      BY <2>1, <2>2
  <1>6. events'[c] = NextRow(t)
    BY DEF Inserts, InsertEvent, TypeInv
  <1>7. /\ events'[c].status = "pending"
        /\ events'[c].parent = RootTaskID(events, t)
        /\ events'[c].next = Tail(events[t].next)
        /\ events'[c].result = FALSE
    BY <1>6 DEF NextRow, NewRow
  <1>8. Exists(events', c)
    BY <1>7 DEF Exists
  <1> QED
    BY <1>2, <1>3, <1>5, <1>7, <1>8

(* No step makes an id dangle: a place that gains an id gains it from      *)
(* another place, or from the statement that inserted its row.             *)
LEMMA DanglingStep ==
    ASSUME TypeInv, RowInv, [Next]_vars
    PROVE  NoDanglingIds'
  <1> SUFFICES ASSUME NEW t \in Tasks,
                      ~Exists(events, t), ~Exists(events', t)
               PROVE  ~(\/ Queued(ready', t)
                        \/ OnSchedule(scheduled', t)
                        \/ t \in dlq'
                        \/ HeldByWorker(t)'
                        \/ HeldByRequest(t)'
                        \/ \E c \in Tasks : events'[c].parent = t)
    <2>1. \A t \in Tasks : Exists(events, t) => Exists(events', t)
      BY RowsLast DEF RowInv, Lasts
    <2> QED
      BY <2>1 DEF NoDanglingIds
  <1>1. ~(\/ Queued(ready, t) \/ OnSchedule(scheduled, t) \/ t \in dlq
          \/ HeldByWorker(t) \/ HeldByRequest(t)
          \/ \E c \in Tasks : events[c].parent = t)
    BY DEF RowInv, NoDanglingIds
  <1>2. ~Queued(ready', t) /\ ~OnSchedule(scheduled', t) /\ t \notin dlq'
    BY <1>1, QueueEffect DEF QueueChange, HeldByWorker
  <1>3. ~HeldByRequest(t)'
    BY <1>1, RequestEffect DEF RequestChange
  <1>4. ASSUME NEW w \in Workers
        PROVE  worker'[w].task # t /\ worker'[w].child # t
    <2>1. worker[w].task # t /\ worker[w].child # t
      BY <1>1 DEF HeldByWorker
    <2>2. WorkerChange(w)
      BY WorkerEffect
    <2>3. CASE worker'[w] = worker[w] \/ worker'[w] = Idle
      BY <2>1, <2>3, NoTaskAssumption DEF Idle
    <2>4. ASSUME NEW u \in Tasks, Queued(ready, u),
                 worker'[w] = [pc |-> "fetch", task |-> u, attempt |-> 1,
                               child |-> NoTask]
          PROVE  worker'[w].task # t /\ worker'[w].child # t
      BY <1>1, <2>4, NoTaskAssumption
    <2>5. CASE worker'[w].pc # "enqueueNext" /\ worker'[w].task = worker[w].task
      <3>1. worker'[w].child = NoTask
        BY <2>5, TypeStep DEF TypeInv, SoundWorker
      <3> QED
        BY <2>1, <2>5, <3>1, NoTaskAssumption
    <2>6. CASE Inserts(w, worker'[w].child) /\ worker'[w].task = worker[w].task
      <3>1. CASE worker'[w].child = t
        BY <2>6, <3>1, InsertedRow
      <3> QED
        BY <2>1, <2>6, <3>1
    <2> QED
      BY <2>2, <2>3, <2>4, <2>5, <2>6 DEF WorkerChange
  <1>5. ~HeldByWorker(t)'
    BY <1>4 DEF HeldByWorker
  <1>6. ASSUME NEW c \in Tasks PROVE events'[c].parent # t
    <2>1. events[c].parent # t
      BY <1>1
    <2>2. CASE events'[c] = events[c] \/ Lasts(c)
      BY <2>1, <2>2 DEF Lasts
    <2>3. ASSUME NEW w \in Workers, Inserts(w, c)
          PROVE  events'[c].parent # t
      <3>1. events'[c].parent = RootTaskID(events, worker[w].task)
        BY <2>3, InsertedRow
      <3>2. Exists(events, RootTaskID(events, worker[w].task))
        BY <2>3, InsertedRow
      <3> QED
        BY <3>1, <3>2
    <2> QED
      BY <2>2, <2>3, RowsLast DEF RowInv
  <1> QED
    BY <1>2, <1>3, <1>5, <1>6

(* How the status of an existing row can change.                           *)
LEMMA StatusEffect ==
    ASSUME TypeInv, [Next]_vars, NEW t \in Tasks, Exists(events, t)
    PROVE  \/ events'[t].status = events[t].status
           \/ /\ events'[t].status = "processed"
              /\ UNCHANGED queue
              /\ \E w \in Workers : /\ worker[w].pc = "succeed"
                                    /\ worker[w].task = t
                                    /\ MovesTo(w, {"logSucceed"})
           \/ /\ events'[t].status = "failed"
              /\ UNCHANGED queue
              /\ \E w \in Workers : /\ worker[w].pc = "giveUp"
                                    /\ worker[w].task = t
                                    /\ MovesTo(w, {"logGiveUp"})
           \/ /\ events'[t].status = "cancelled"
              /\ events[t].status = "pending"
           \/ /\ events'[t].status = "pending"
              /\ events[t].status \in {"failed", "cancelled"}
              /\ HeldByRequest(t) \/ reissued'[t] > 0
  <1>0. RowChange /\ events \in [Tasks -> Row]
    BY RowEffect DEF TypeInv
  <1>1. CASE events' = events
    BY <1>1
  <1>2. ASSUME NEW c, events' = UpdateEventResult(events, c)
        PROVE  events'[t].status = events[t].status
    BY <1>0, <1>2 DEF UpdateEventResult, Row
  <1>3. ASSUME NEW w \in Workers, NEW c \in Tasks, Inserts(w, c)
        PROVE  events'[t].status = events[t].status
    BY <1>0, <1>3 DEF Inserts, InsertEvent
  <1>4. ASSUME NEW c, NEW st, events' = UpdateEventStatus(events, c, st)
        PROVE  \/ events'[t].status = events[t].status
               \/ c = t /\ events'[t].status = st
    BY <1>0, <1>4 DEF UpdateEventStatus, Row
  <1>5. CASE \E w \in Workers :
                /\ worker[w].pc = "succeed" /\ MovesTo(w, {"logSucceed"})
                /\ events' = UpdateEventStatus(events, worker[w].task, "processed")
                /\ UNCHANGED queue
    BY <1>4, <1>5
  <1>6. CASE \E w \in Workers :
                /\ worker[w].pc = "giveUp" /\ MovesTo(w, {"logGiveUp"})
                /\ events' = UpdateEventStatus(events, worker[w].task, "failed")
                /\ UNCHANGED queue
    BY <1>4, <1>6
  <1>7. CASE \E c \in Tasks :
                /\ events[c].status = "pending"
                /\ events' = UpdateEventStatus(events, c, "cancelled")
    BY <1>4, <1>7
  <1>8. CASE \E c \in Tasks :
                /\ events[c].status \in {"failed", "cancelled"}
                /\ HeldByRequest(c) \/ reissued'[c] > 0
                /\ events' = UpdateEventStatus(events, c, "pending")
    BY <1>4, <1>8
  <1> QED
    BY <1>0, <1>1, <1>2, <1>3, <1>5, <1>6, <1>7, <1>8 DEF RowChange

(* The root of a chain and its steps stay where they are.                  *)
LEMMA NextStaysSaved ==
    ASSUME TypeInv, RowInv, [Next]_vars, NEW t \in Tasks, Exists(events, t),
           NextSaved(t)
    PROVE  NextSaved(t)'
  <1>1. \A u \in Tasks : Exists(events, u) => Lasts(u)
    BY RowsLast DEF RowInv
  <1>2. /\ events'[t].next = events[t].next
        /\ RootTaskID(events', t) = RootTaskID(events, t)
    BY <1>1 DEF Lasts, RootTaskID
  <1>3. CASE events[t].next = << >>
    BY <1>2, <1>3 DEF NextSaved
  <1>4. ASSUME NEW c \in Tasks, Exists(events, c),
               events[c].parent = RootTaskID(events, t),
               events[c].next = Tail(events[t].next)
        PROVE  NextSaved(t)'
    <2>1. /\ Exists(events', c)
          /\ events'[c].parent = RootTaskID(events', t)
          /\ events'[c].next = Tail(events'[t].next)
      BY <1>1, <1>2, <1>4 DEF Lasts
    <2> QED
      BY <2>1 DEF NextSaved
  <1> QED
    BY <1>3, <1>4 DEF NextSaved

(* A worker leaves the handler with the result stored, and chaining.Wrap   *)
(* with the next step saved.                                               *)
LEMMA WorkerRowsStep ==
    ASSUME TypeInv, RowInv, [Next]_vars
    PROVE  ResultStored' /\ NextStepSaved'
  <1> SUFFICES ASSUME NEW w \in Workers, NEW t \in Tasks, worker'[w].task = t,
                      worker'[w].pc \in {"saveNext", "enqueueNext", "succeed"}
               PROVE  /\ events'[t].result
                      /\ worker'[w].pc # "saveNext" => NextSaved(t)'
    <2>1. \A w \in Workers :
             worker'[w].pc # "idle" => worker'[w].task \in Tasks
      BY TypeStep DEF TypeInv, SoundWorker, WorkerState
    <2> QED
      BY <2>1 DEF ResultStored, NextStepSaved, NextSaved
  <1>1. WorkerChange(w)
    BY WorkerEffect
  <1>2. /\ worker'[w] # Idle
        /\ \A u : worker'[w] # [pc |-> "fetch", task |-> u, attempt |-> 1,
                               child |-> NoTask]
    BY DEF Idle
  <1>3. /\ worker[w].task = t
        /\ \/ worker'[w] = worker[w]
           \/ /\ worker[w].pc = "run"
              /\ worker'[w].pc = IF events[worker[w].task].next = << >>
                                 THEN "succeed" ELSE "saveNext"
              /\ events' = UpdateEventResult(events, worker[w].task)
           \/ /\ worker[w].pc = "saveNext"
              /\ worker'[w].pc = "enqueueNext"
              /\ Inserts(w, worker'[w].child)
           \/ worker[w].pc = "enqueueNext" /\ worker'[w].pc = "succeed"
    BY <1>1, <1>2 DEF WorkerChange
  <1>4. Exists(events, t) /\ Lasts(t)
    BY <1>3, RowsLast DEF RowInv, NoDanglingIds, HeldByWorker
  <1>5. CASE worker'[w] = worker[w] \/ worker[w].pc = "enqueueNext"
    <2>1. worker[w].pc \in {"saveNext", "enqueueNext", "succeed"}
      BY <1>5
    <2>2. events[t].result /\ (worker'[w].pc # "saveNext" => NextSaved(t))
      BY <1>3, <1>5, <2>1 DEF RowInv, ResultStored, NextStepSaved
    <2> QED
      BY <1>4, <2>2, NextStaysSaved DEF Lasts
  <1>6. CASE worker[w].pc = "run"
    <2>1. /\ events' = UpdateEventResult(events, t)
          /\ worker'[w].pc = IF events[t].next = << >>
                             THEN "succeed" ELSE "saveNext"
      BY <1>3, <1>6
    <2>2. events'[t].result
      BY <2>1 DEF UpdateEventResult, TypeInv, Row
    <2>3. worker'[w].pc # "saveNext" => NextSaved(t)
      BY <2>1 DEF NextSaved
    <2> QED
      BY <1>4, <2>2, <2>3, NextStaysSaved
  <1>7. CASE Inserts(w, worker'[w].child) /\ worker'[w].pc = "enqueueNext"
    <2>1. PICK c \in Tasks : c = worker'[w].child
      BY <1>7, TypeStep DEF TypeInv, SoundWorker, WorkerState
    <2>2. Inserts(w, c)
      BY <1>7, <2>1 DEF Inserts
    <2>3. /\ events[t].result
          /\ Exists(events', c)
          /\ events'[c].parent = RootTaskID(events, t)
          /\ events'[c].next = Tail(events[t].next)
      BY <1>3, <2>2, InsertedRow
    <2>4. RootTaskID(events', t) = RootTaskID(events, t)
      BY <1>4 DEF Lasts, RootTaskID
    <2>5. NextSaved(t)'
      BY <1>4, <2>3, <2>4 DEF NextSaved, Lasts
    <2> QED
      BY <1>4, <2>3, <2>5 DEF Lasts
  <1> QED
    BY <1>3, <1>5, <1>6, <1>7

(* Every step keeps the invariant of the rows.                             *)
LEMMA RowStep == TypeInv /\ RowInv /\ [Next]_vars => RowInv'
  <1> SUFFICES ASSUME TypeInv, RowInv, [Next]_vars PROVE RowInv'
    OBVIOUS
  <1>1. \A t \in Tasks :
           /\ Exists(events, t) => Lasts(t)
           /\ ~Exists(events, t) =>
                 \/ events'[t] = events[t]
                 \/ \E w \in Workers : Inserts(w, t)
    BY RowsLast DEF RowInv
  <1>2. AbsentRows'
    BY <1>1, InsertedRow DEF AbsentRows, RowInv, Lasts, Exists
  <1>3. ProcessedHasResult'
    <2> SUFFICES ASSUME NEW t \in Tasks, events'[t].status = "processed"
                 PROVE  events'[t].result
      BY DEF ProcessedHasResult
    <2>1. Exists(events, t)
      BY <1>1, InsertedRow DEF Exists
    <2>2. events[t].result
      BY <2>1, StatusEffect DEF RowInv, ProcessedHasResult, ResultStored
    <2> QED
      BY <1>1, <2>1, <2>2 DEF Lasts
  <1>4. ChildUnderFinishedRoot'
    <2> SUFFICES ASSUME NEW t \in Tasks, events'[t].parent # NoTask
                 PROVE  /\ events'[events'[t].parent].parent = NoTask
                        /\ events'[events'[t].parent].result
      BY DEF ChildUnderFinishedRoot
    <2> DEFINE root == events'[t].parent
    <2>1. /\ root \in Tasks
          /\ Exists(events, root)
          /\ events[root].parent = NoTask
          /\ events[root].result
      <3>1. CASE \E w \in Workers : Inserts(w, t)
        BY <3>1, InsertedRow
      <3>2. CASE events'[t].parent = events[t].parent
        <4>1. root \in Tasks
          BY <3>2 DEF TypeInv, Row
        <4>2. Exists(events, root)
          BY <3>2, <4>1 DEF RowInv, NoDanglingIds
        <4> QED
          BY <3>2, <4>1, <4>2 DEF RowInv, ChildUnderFinishedRoot
      <3> QED
        BY <1>1, <3>1, <3>2 DEF Lasts
    <2> QED
      BY <1>1, <2>1 DEF Lasts
  <1> QED
    BY <1>2, <1>3, <1>4, DanglingStep, WorkerRowsStep DEF RowInv

(* It holds throughout.                                                    *)
LEMMA RowInvariant == Spec => [](TypeInv /\ RowInv)
  BY TypeInvariant, InitRowInv, RowStep, PTL DEF Spec

(* A worker never fetches a task without a row, no list names one, and a   *)
(* parent always exists, however lost writes, retries and crashes fall.    *)
THEOREM IdsNeverDangle == Spec => []NoDanglingIds
  <1>1. RowInv => NoDanglingIds
    BY DEF RowInv
  <1> QED
    BY <1>1, RowInvariant, PTL

(* The result endpoint never answers "no result" for a processed task.     *)
THEOREM ResultBeforeProcessed == Spec => []ProcessedHasResult
  <1>1. RowInv => ProcessedHasResult
    BY DEF RowInv
  <1> QED
    BY <1>1, RowInvariant, PTL

(* At any depth of a chain a task hangs directly under its root, and the   *)
(* root has stored its result.                                             *)
THEOREM ChainsHangUnderRoot == Spec => []ChildUnderFinishedRoot
  <1>1. RowInv => ChildUnderFinishedRoot
    BY DEF RowInv
  <1> QED
    BY <1>1, RowInvariant, PTL

-----------------------------------------------------------------------------
(* Scheduled tasks.                                                        *)

(* A worker owes t a status only since it took t from a list.              *)
LEMMA UndecidedFrom ==
    ASSUME TypeInv, [Next]_vars, NEW w \in Workers, NEW t \in Tasks,
           Undecided(w, t)'
    PROVE  Undecided(w, t) \/ Queued(ready, t)
  <1>1. worker'[w].task = t /\ worker'[w].pc \in UndecidedPC
    BY DEF Undecided, Executing, UndecidedPC
  <1>2. worker'[w] # Idle
    BY <1>1 DEF Idle, UndecidedPC
  <1>3. WorkerChange(w)
    BY WorkerEffect
  <1>4. CASE worker'[w] = worker[w]
    BY <1>4 DEF Undecided, Executing
  <1>5. ASSUME NEW u \in Tasks, Queued(ready, u),
               worker'[w] = [pc |-> "fetch", task |-> u, attempt |-> 1,
                             child |-> NoTask]
        PROVE  Queued(ready, t)
    BY <1>1, <1>5
  <1>6. CASE /\ worker'[w].task = worker[w].task
             /\ worker[w].pc \in {"fetch", "run", "saveNext", "enqueueNext",
                                  "logRetry"}
    BY <1>1, <1>6 DEF Undecided, Executing
  <1> QED
    BY <1>1, <1>2, <1>3, <1>4, <1>5, <1>6 DEF WorkerChange, UndecidedPC

(* The inductive form of RunsWhenDue: no request holds a task that was not *)
(* re-issued, and what is queued or running is due.                        *)
DueInv(t) ==
    reissued[t] = 0 =>
       /\ ~HeldByRequest(t)
       /\ /\ events[t].executeAt
          /\ Queued(ready, t) \/ \E w \in Workers : Undecided(w, t)
          => t \in due

(* What is in a list initially has no execute_at.                          *)
LEMMA InitDue ==
    ASSUME Init, NEW t \in Tasks
    PROVE  DueInv(t)
  <1>1. PICK body \in [Accepted -> Bodies] :
          /\ events = [u \in Tasks |->
                         IF u \in Accepted
                         THEN NewRow(body[u].step, NoTask, body[u].next)
                         ELSE Absent]
          /\ ready = [p \in Priorities |-> [u \in Tasks |->
                         IF /\ u \in Accepted
                            /\ ~body[u].step.executeAt
                            /\ Level(body[u].step.priority) = p
                         THEN 1 ELSE 0]]
    BY DEF Init
  <1>2. Queued(ready, t) => ~events[t].executeAt
    BY <1>1 DEF Queued, NewRow
  <1>3. ~HeldByRequest(t) /\ \A w \in Workers : ~Undecided(w, t)
    BY NoTaskAssumption
       DEF Init, HeldByRequest, NoRequest, Undecided, Executing, Idle
  <1> QED
    BY <1>2, <1>3 DEF DueInv

(* Every step keeps tasks that are not due out of the lists.               *)
LEMMA DueStep ==
    ASSUME TypeInv, RowInv, [Next]_vars, NEW t \in Tasks, DueInv(t)
    PROVE  DueInv(t)'
  <1> SUFFICES ASSUME reissued'[t] = 0
               PROVE  /\ ~HeldByRequest(t)'
                      /\ /\ events'[t].executeAt
                         /\ Queued(ready', t) \/ \E w \in Workers : Undecided(w, t)'
                         => t \in due'
    BY DEF DueInv
  <1>1. /\ reissued[t] = 0
        /\ ~HeldByRequest(t) /\ ~HeldByRequest(t)'
        /\ due \subseteq due'
    BY RequestEffect DEF RequestChange, DueInv
  <1>2. Queued(ready', t) =>
           \/ Queued(ready, t)
           \/ \E w \in Workers : worker[w].child = t /\ ~events[t].executeAt
           \/ OnSchedule(scheduled, t) /\ t \in due
    BY <1>1, QueueEffect DEF QueueChange
  <1>3. ASSUME NEW w \in Workers, Undecided(w, t)'
        PROVE  Undecided(w, t) \/ Queued(ready, t)
    BY <1>3, UndecidedFrom
  <1>4. CASE Exists(events, t)
    <2>1. events'[t].executeAt = events[t].executeAt
      BY <1>4, RowsLast DEF RowInv, Lasts
    <2> QED
      BY <1>1, <1>2, <1>3, <2>1 DEF DueInv
  <1>5. CASE ~Exists(events, t)
    <2>1. ~Queued(ready, t) /\ ~OnSchedule(scheduled, t) /\ ~HeldByWorker(t)
      BY <1>5 DEF RowInv, NoDanglingIds
    <2> QED
      BY <1>1, <1>2, <1>3, <2>1 DEF HeldByWorker, Undecided, Executing
  <1> QED
    BY <1>4, <1>5

(* It holds throughout.                                                    *)
LEMMA DueInvariant == Spec => [](\A t \in Tasks : DueInv(t))
  <1> DEFINE Inv == \A t \in Tasks : DueInv(t)
  <1>1. Init => Inv
    BY InitDue
  <1>2. TypeInv /\ RowInv /\ Inv /\ [Next]_vars => Inv'
    BY DueStep
  <1> QED
    BY <1>1, <1>2, RowInvariant, PTL DEF Spec

(* A task with an execute_at is never started early, whichever path put it *)
(* in a list: the submission, a chained step or the scheduler.             *)
THEOREM NeverRunsEarly == Spec => []RunsWhenDue
  <1>1. (\A t \in Tasks : DueInv(t)) => RunsWhenDue
    BY DEF DueInv, RunsWhenDue
  <1> QED
    BY <1>1, DueInvariant, PTL

-----------------------------------------------------------------------------
(* Cancellation.                                                           *)

(* A worker starts executing t only after reading a status that is not     *)
(* "cancelled", or by giving up without having read it.                    *)
LEMMA ExecutingFrom ==
    ASSUME TypeInv, [Next]_vars, NEW w \in Workers, NEW t \in Tasks,
           Executing(w, t)'
    PROVE  \/ Executing(w, t)
           \/ /\ worker[w].pc = "fetch" /\ worker[w].task = t
              /\ \/ events[t].status # "cancelled"
                 \/ worker'[w].pc = "giveUp"
  <1>1. /\ worker'[w].task = t
        /\ worker'[w].pc \in {"run", "saveNext", "enqueueNext", "succeed",
                              "logRetry", "giveUp"}
    BY DEF Executing
  <1>2. /\ worker'[w] # Idle
        /\ \A u : worker'[w] # [pc |-> "fetch", task |-> u, attempt |-> 1,
                               child |-> NoTask]
    BY <1>1 DEF Idle
  <1>3. WorkerChange(w)
    BY WorkerEffect
  <1>4. CASE worker'[w] = worker[w]
    BY <1>4 DEF Executing
  <1>5. CASE worker'[w].task = worker[w].task /\ worker[w].pc # "fetch"
    <2>1. worker[w].pc \in {"run", "saveNext", "enqueueNext", "succeed",
                            "logRetry", "giveUp"}
      BY <1>1, <1>2, <1>3, <1>5 DEF WorkerChange
    <2> QED
      BY <1>1, <1>5, <2>1 DEF Executing
  <1>6. CASE worker'[w].task = worker[w].task /\ worker[w].pc = "fetch"
    BY <1>1, <1>2, <1>3, <1>6 DEF WorkerChange
  <1> QED
    BY <1>1, <1>2, <1>3, <1>4, <1>5, <1>6 DEF WorkerChange

(* What CancelSettles says of t.                                           *)
CancelKept(t) ==
    CancelSettled(t) =>
       \/ CancelSettled(t)'
       \/ events'[t].status = "pending"
       \/ \E w \in Workers : /\ worker[w].pc = "fetch"
                            /\ worker[w].task = t
                            /\ worker'[w].pc = "giveUp"

(* Every step keeps a settled cancellation.                                *)
LEMMA CancelStep ==
    ASSUME TypeInv, [Next]_vars, NEW t \in Tasks
    PROVE  CancelKept(t)
  <1> SUFFICES ASSUME CancelSettled(t),
                      events'[t].status # "pending",
                      \A w \in Workers : ~(/\ worker[w].pc = "fetch"
                                           /\ worker[w].task = t
                                           /\ worker'[w].pc = "giveUp")
               PROVE  CancelSettled(t)'
    BY DEF CancelKept
  <1>1. events[t].status = "cancelled" /\ \A w \in Workers : ~Executing(w, t)
    BY DEF CancelSettled
  <1>2. events'[t].status = "cancelled"
    BY <1>1, StatusEffect DEF Exists, Executing
  <1>3. \A w \in Workers : ~Executing(w, t)'
    BY <1>1, ExecutingFrom
  <1> QED
    BY <1>2, <1>3 DEF CancelSettled

(* A cancellation that no worker was executing when it came stays in       *)
(* force: no retry loop, late queue entry or second worker revives the     *)
(* task, only an operator's reset, or a worker that cannot read the row.   *)
THEOREM CancellationHolds == Spec => CancelSettles
  <1> DEFINE A == \A t \in Tasks :
                CancelSettled(t) =>
                   \/ CancelSettled(t)'
                   \/ events'[t].status = "pending"
                   \/ \E w \in Workers : /\ worker[w].pc = "fetch"
                                        /\ worker[w].task = t
                                        /\ worker'[w].pc = "giveUp"
  <1>1. TypeInv /\ [Next]_vars => [A]_vars
    BY CancelStep DEF CancelKept
  <1>2. Spec => [][A]_vars
    BY <1>1, TypeInvariant, PTL DEF Spec
  <1> QED
    BY <1>2 DEF CancelSettles
=============================================================================
