------------------------ MODULE TaskLifecycleProofs -------------------------
(***************************************************************************)
(* Proofs about TaskLifecycle, for any number of tasks, workers and        *)
(* concurrent admin requests, any chains, and any number of faults and     *)
(* re-issues.                                                              *)
(***************************************************************************)
EXTENDS TaskLifecycle, TLAPS

(* A row and the changes the SQL statements make to it keep its type.      *)
LEMMA RowTypes ==
    ASSUME NEW ev \in [Tasks -> Row], NEW t \in Tasks
    PROVE  /\ \A st \in Status : UpdateEventStatus(ev, t, st) \in [Tasks -> Row]
           /\ UpdateEventResult(ev, t) \in [Tasks -> Row]
           /\ \A row \in Row : InsertEvent(ev, t, row) \in [Tasks -> Row]
           /\ CancelEventIfPending(ev, t) \in [Tasks -> Row]
           /\ ResetTaskForRetry(ev, t) \in [Tasks -> Row]
           /\ QueuePriority(ev[t]) \in PriorityColumn
           /\ RootTaskID(ev, t) \in Tasks
  BY DEF UpdateEventStatus, UpdateEventResult, InsertEvent, Row, Status,
         CancelEventIfPending, ResetTaskForRetry, QueuePriority, RootTaskID,
         PriorityColumn, RequestPriority, Priorities

(* A row made from a well-typed step is a row.                             *)
LEMMA NewRowType ==
    ASSUME NEW s \in Step, NEW p \in Tasks \cup {NoTask}, NEW n \in Seq(Step)
    PROVE  NewRow(s, p, n) \in Row
  BY DEF NewRow, Row, Step, Status

(* Pushing and popping keep the lists' type.                               *)
LEMMA ReadyTypes ==
    ASSUME NEW q \in Ready, NEW t \in Tasks
    PROVE  /\ \A p \in PriorityColumn : EnqueueWithPriority(q, t, p) \in Ready
           /\ \A p \in Priorities : q[p][t] > 0 => Dequeue(q, p, t) \in Ready
  BY DEF Ready, EnqueueWithPriority, Dequeue, Level, PriorityColumn,
         RequestPriority, Priorities

-----------------------------------------------------------------------------
(* Type correctness.                                                       *)

(* A worker or a request whose program counter and ids fit together.       *)
SoundWorker ==
    {s \in WorkerState : /\ s.pc = "idle" <=> s.task = NoTask
                         /\ s.pc = "enqueueNext" <=> s.child # NoTask}

SoundRequest ==
    {s \in RequestState : s.pc = "idle" <=> s.task = NoTask}

(* The inductive form of TypeOK and Control.                               *)
TypeInv ==
    /\ events \in [Tasks -> Row]
    /\ logs \in [Tasks -> LogRow]
    /\ ready \in Ready
    /\ scheduled \subseteq Scheduled
    /\ dlq \subseteq Tasks
    /\ worker \in [Workers -> SoundWorker]
    /\ request \in [Admins -> SoundRequest]
    /\ due \subseteq Tasks
    /\ faulted \subseteq Tasks
    /\ reissued \in [Tasks -> 0..MaxReissues]
    /\ removed \subseteq Tasks

(* The sharper types imply those the runs check.                           *)
LEMMA TypeInvImplies == TypeInv => TypeOK /\ Control
  <1> SUFFICES ASSUME TypeInv PROVE TypeOK /\ Control
    OBVIOUS
  <1>1. worker \in [Workers -> WorkerState] /\ request \in [Admins -> RequestState]
    BY DEF TypeInv, SoundWorker, SoundRequest
  <1>2. TypeOK
    BY <1>1 DEF TypeInv, TypeOK
  <1>3. Control
    BY DEF TypeInv, Control, SoundWorker, SoundRequest
  <1> QED
    BY <1>2, <1>3

(* The records at rest are sound.                                          *)
LEMMA AtRest == Idle \in SoundWorker /\ NoRequest \in SoundRequest
  <1>1. Idle \in WorkerState
    BY LifecycleAssumption DEF Idle, WorkerState, WorkerPC
  <1>2. NoRequest \in RequestState
    BY DEF NoRequest, RequestState, RequestPC, PriorityColumn, RequestPriority
  <1> QED
    BY <1>1, <1>2 DEF SoundWorker, SoundRequest, Idle, NoRequest

(* The moves of the worker loop keep workers sound.                        *)
LEMMA WorkerMoves ==
    ASSUME worker \in [Workers -> SoundWorker], NEW w \in Workers
    PROVE  /\ Release(w) => worker' \in [Workers -> SoundWorker]
           /\ \A pc \in WorkerPC \ {"idle", "enqueueNext"} :
                 /\ worker[w].pc \notin {"idle", "enqueueNext"}
                 /\ Goto(w, pc)
                 => worker' \in [Workers -> SoundWorker]
           /\ worker[w].pc \notin {"idle", "enqueueNext"} /\ NextAttempt(w)
              => worker' \in [Workers -> SoundWorker]
  <1>1. Release(w) => worker' \in [Workers -> SoundWorker]
    BY AtRest DEF Release
  <1>2. ASSUME NEW pc \in WorkerPC \ {"idle", "enqueueNext"},
               worker[w].pc \notin {"idle", "enqueueNext"}, Goto(w, pc)
        PROVE  worker' \in [Workers -> SoundWorker]
    <2>1. [worker[w] EXCEPT !.pc = pc] \in SoundWorker
      BY <1>2 DEF SoundWorker, WorkerState
    <2>2. worker' = [worker EXCEPT ![w] = [worker[w] EXCEPT !.pc = pc]]
      BY <1>2 DEF Goto
    <2> QED
      BY <2>1, <2>2
  <1>3. ASSUME worker[w].pc \notin {"idle", "enqueueNext"}, NextAttempt(w)
        PROVE  worker' \in [Workers -> SoundWorker]
    <2>1. CASE worker[w].attempt < MaxRetries
      <3> DEFINE s == [worker[w] EXCEPT !.pc = "fetch", !.attempt = @ + 1]
      <3>1. worker[w].attempt + 1 \in 0..MaxRetries
        BY <2>1, LifecycleAssumption DEF SoundWorker, WorkerState
      <3>2. s \in SoundWorker
        BY <1>3, <3>1 DEF SoundWorker, WorkerState, WorkerPC
      <3>3. worker' = [worker EXCEPT ![w] = s]
        BY <1>3, <2>1 DEF NextAttempt
      <3> QED
        BY <3>2, <3>3
    <2>2. CASE ~(worker[w].attempt < MaxRetries)
      BY <1>2, <1>3, <2>2 DEF NextAttempt, WorkerPC
    <2> QED
      BY <2>1, <2>2
  <1> QED
    BY <1>1, <1>2, <1>3

(* A failed write adds a task to the faulted ones.                         *)
LEMMA HitType ==
    ASSUME faulted \subseteq Tasks, NEW t \in Tasks, NEW r, Hit(r, t)
    PROVE  faulted' \subseteq Tasks
  BY DEF Hit

(* The initial states are well typed.                                      *)
LEMMA InitTypeInv == Init => TypeInv
  <1> SUFFICES ASSUME Init PROVE TypeInv
    OBVIOUS
  <1>1. PICK body \in [Accepted -> Bodies] :
          /\ events = [t \in Tasks |->
                         IF t \in Accepted
                         THEN NewRow(body[t].step, NoTask, body[t].next)
                         ELSE Absent]
          /\ ready = [p \in Priorities |-> [t \in Tasks |->
                         IF /\ t \in Accepted
                            /\ ~body[t].step.executeAt
                            /\ Level(body[t].step.priority) = p
                         THEN 1 ELSE 0]]
          /\ scheduled = {<<t, body[t].step.priority>> :
                            t \in {u \in Accepted : body[u].step.executeAt}}
    BY DEF Init
  <1>2. \A t \in Accepted :
           /\ t \in Tasks
           /\ body[t].step \in [priority : RequestPriority, executeAt : BOOLEAN]
           /\ body[t].next \in Seq(Step)
    <2> TAKE t \in Accepted
    <2>1. body[t] \in [step : [priority : RequestPriority, executeAt : BOOLEAN],
                       next : Seq(Step)]
      BY LifecycleAssumption
    <2> QED
      BY <2>1, LifecycleAssumption
  <1>3. \A t \in Accepted : body[t].step \in Step
    BY <1>2 DEF Step, PriorityColumn, RequestPriority
  <1>4. Absent \in Row
    BY DEF Absent, Row, PriorityColumn, RequestPriority
  <1>5. events \in [Tasks -> Row]
    <2>1. \A t \in Accepted : NewRow(body[t].step, NoTask, body[t].next) \in Row
      BY <1>2, <1>3, NewRowType
    <2> QED
      BY <1>1, <1>4, <2>1
  <1>6. ready \in Ready
    BY <1>1 DEF Ready
  <1>7. scheduled \subseteq Scheduled
    BY <1>1, <1>2 DEF Scheduled, PriorityColumn, RequestPriority
  <1>8. logs \in [Tasks -> LogRow]
    BY LifecycleAssumption DEF Init, LogRow, NoLog
  <1>9. worker \in [Workers -> SoundWorker] /\ request \in [Admins -> SoundRequest]
    BY AtRest DEF Init
  <1>10. reissued \in [Tasks -> 0..MaxReissues]
    BY LifecycleAssumption DEF Init
  <1>11. dlq = {} /\ due = {} /\ faulted = {} /\ removed = {}
    BY DEF Init
  <1> QED
    BY <1>5, <1>6, <1>7, <1>8, <1>9, <1>10, <1>11 DEF TypeInv

(* What a busy worker and a busy request hold.                             *)
LEMMA Holds ==
    ASSUME TypeInv
    PROVE  /\ \A w \in Workers :
                 /\ worker[w].pc # "idle" => worker[w].task \in Tasks
                 /\ worker[w].pc = "enqueueNext" => worker[w].child \in Tasks
                 /\ worker[w].attempt \in 0..MaxRetries
           /\ \A a \in Admins :
                 /\ request[a].pc # "idle" => request[a].task \in Tasks
                 /\ request[a].priority \in PriorityColumn
  BY DEF TypeInv, SoundWorker, SoundRequest, WorkerState, RequestState

(* BRPop hands a worker a task of the queue.                               *)
LEMMA TakeType ==
    ASSUME TypeInv, NEW w \in Workers, NEW p \in Priorities, NEW t \in Tasks,
           NEW r \in Outcome, Take(w, p, t, r)
    PROVE  TypeInv'
  <1> DEFINE s == [pc |-> "fetch", task |-> t, attempt |-> 1, child |-> NoTask]
  <1>1. s \in SoundWorker
    <2>1. 1 \in 0..MaxRetries
      BY LifecycleAssumption
    <2> QED
      BY <2>1, NoTaskAssumption DEF SoundWorker, WorkerState, WorkerPC
  <1>2. worker' \in [Workers -> SoundWorker]
    <2>1. worker' = [worker EXCEPT ![w] = s] \/ worker' = worker
      BY DEF Take
    <2>2. worker \in [Workers -> SoundWorker]
      BY DEF TypeInv
    <2> QED
      BY <1>1, <2>1, <2>2
  <1>3. ready' \in Ready
    <2>1. ready' = Dequeue(ready, p, t) /\ ready[p][t] > 0
      BY DEF Take, CanDequeue
    <2> QED
      BY <2>1, ReadyTypes DEF TypeInv
  <1>4. faulted' \subseteq Tasks
    BY HitType DEF Take, TypeInv
  <1>5. UNCHANGED <<events, logs, scheduled, dlq, request, due, reissued,
                    removed>>
    BY DEF Take
  <1> QED
    BY <1>2, <1>3, <1>4, <1>5 DEF TypeInv

(* GetEventByID sends the worker on to the handler, back or home.          *)
LEMMA FetchType ==
    ASSUME TypeInv, NEW w \in Workers, Fetch(w)
    PROVE  TypeInv'
  <1>1. worker[w].pc = "fetch" /\ (Release(w) \/ Goto(w, "run") \/ NextAttempt(w))
    BY DEF Fetch
  <1>2. worker' \in [Workers -> SoundWorker]
    BY <1>1, WorkerMoves DEF TypeInv, WorkerPC
  <1>3. UNCHANGED <<events, logs, ready, scheduled, dlq, request, due, faulted,
                    reissued, removed>>
    BY DEF Fetch, queue, history
  <1> QED
    BY <1>2, <1>3 DEF TypeInv

(* The handler stores a result or fails.                                   *)
LEMMA RunHandlerType ==
    ASSUME TypeInv, NEW w \in Workers, RunHandler(w)
    PROVE  TypeInv'
  <1>1. /\ worker[w].pc = "run"
        /\ Goto(w, "succeed") \/ Goto(w, "saveNext") \/ Goto(w, "logRetry")
        /\ events' = UpdateEventResult(events, worker[w].task) \/ events' = events
    BY DEF RunHandler
  <1>2. worker' \in [Workers -> SoundWorker]
    BY <1>1, WorkerMoves DEF TypeInv, WorkerPC
  <1>3. events' \in [Tasks -> Row]
    <2>1. events \in [Tasks -> Row] /\ worker[w].task \in Tasks
      BY <1>1, Holds DEF TypeInv
    <2>2. UpdateEventResult(events, worker[w].task) \in [Tasks -> Row]
      BY <2>1, RowTypes
    <2> QED
      BY <1>1, <2>1, <2>2
  <1>4. UNCHANGED <<logs, ready, scheduled, dlq, request, due, faulted,
                    reissued, removed>>
    BY DEF RunHandler, queue, history
  <1> QED
    BY <1>2, <1>3, <1>4 DEF TypeInv

(* The row of the next step is well formed.                                *)
LEMMA ChildRow ==
    ASSUME TypeInv, NEW t \in Tasks, events[t].next # << >>
    PROVE  NewRow(Head(events[t].next), RootTaskID(events, t),
                  Tail(events[t].next)) \in Row
  <1>1. events[t].next \in Seq(Step)
    BY DEF TypeInv, Row
  <1>2. Head(events[t].next) \in Step /\ Tail(events[t].next) \in Seq(Step)
    BY <1>1
  <1>3. RootTaskID(events, t) \in Tasks
    BY RowTypes DEF TypeInv
  <1> QED
    BY <1>2, <1>3, NewRowType

(* InsertEvent for the next step keeps the types.                          *)
LEMMA SaveNextType ==
    ASSUME TypeInv, NEW w \in Workers, NEW c \in Tasks, NEW r \in Outcome,
           SaveNext(w, c, r)
    PROVE  TypeInv'
  <1> DEFINE t     == worker[w].task
             child == NewRow(Head(events[t].next), RootTaskID(events, t),
                             Tail(events[t].next))
             s     == [worker[w] EXCEPT
                         !.pc = IF r = "ok" THEN "enqueueNext" ELSE "logRetry",
                         !.child = IF r = "ok" THEN c ELSE NoTask]
  <1>1. /\ worker[w].pc = "saveNext"
        /\ events[t].next # << >>
        /\ events' = InsertEvent(events, c, child) \/ events' = events
        /\ Hit(r, c) \/ faulted' = faulted
        /\ worker' = [worker EXCEPT ![w] = s]
    BY DEF SaveNext, After
  <1>2. events' \in [Tasks -> Row]
    <2>1. events \in [Tasks -> Row] /\ child \in Row
      BY <1>1, Holds, ChildRow DEF TypeInv
    <2>2. InsertEvent(events, c, child) \in [Tasks -> Row]
      BY <2>1, RowTypes
    <2> QED
      BY <1>1, <2>1, <2>2
  <1>3. worker' \in [Workers -> SoundWorker]
    <2>1. /\ worker[w] \in WorkerState
          /\ worker[w].task # NoTask
      BY <1>1 DEF TypeInv, SoundWorker
    <2>2. ASSUME r = "ok" PROVE s \in SoundWorker
      <3>1. s = [worker[w] EXCEPT !.pc = "enqueueNext", !.child = c]
        BY <2>2
      <3>2. c # NoTask
        BY NoTaskAssumption
      <3> HIDE DEF s
      <3> QED
        BY <2>1, <3>1, <3>2 DEF SoundWorker, WorkerState, WorkerPC
    <2>3. ASSUME r # "ok" PROVE s \in SoundWorker
      <3>1. s = [worker[w] EXCEPT !.pc = "logRetry", !.child = NoTask]
        BY <2>3
      <3> HIDE DEF s
      <3> QED
        BY <2>1, <3>1 DEF SoundWorker, WorkerState, WorkerPC
    <2>4. s \in SoundWorker
      BY <2>2, <2>3
    <2> QED
      BY <1>1, <2>4 DEF TypeInv
  <1>4. faulted' \subseteq Tasks
    BY <1>1, HitType DEF TypeInv
  <1>5. UNCHANGED <<logs, ready, scheduled, dlq, request, due, reissued, removed>>
    BY DEF SaveNext, queue
  <1> QED
    BY <1>2, <1>3, <1>4, <1>5 DEF TypeInv

(* Enqueue of the next step keeps the types.                               *)
LEMMA EnqueueNextType ==
    ASSUME TypeInv, NEW w \in Workers, NEW r \in Outcome, EnqueueNext(w, r)
    PROVE  TypeInv'
  <1> DEFINE c == worker[w].child
             s == [worker[w] EXCEPT
                     !.pc = IF r = "ok" THEN "succeed" ELSE "logRetry",
                     !.child = NoTask]
  <1>1. /\ worker[w].pc = "enqueueNext"
        /\ Hit(r, c)
        /\ \/ scheduled' = Schedule(scheduled, c, events[c].priority)
           \/ scheduled' = scheduled
        /\ \/ ready' = EnqueueWithPriority(ready, c, events[c].priority)
           \/ ready' = ready
        /\ worker' = [worker EXCEPT ![w] = s]
    BY DEF EnqueueNext, After
  <1>2. c \in Tasks /\ events[c].priority \in PriorityColumn
    BY <1>1, Holds DEF TypeInv, Row
  <1>3. ready' \in Ready
    BY <1>1, <1>2, ReadyTypes DEF TypeInv
  <1>4. scheduled' \subseteq Scheduled
    BY <1>1, <1>2 DEF TypeInv, Schedule, Scheduled
  <1>5. worker' \in [Workers -> SoundWorker]
    <2>1. s \in SoundWorker
      BY <1>1 DEF TypeInv, SoundWorker, WorkerState, WorkerPC
    <2> QED
      BY <1>1, <2>1 DEF TypeInv
  <1>6. faulted' \subseteq Tasks
    BY <1>1, <1>2, HitType DEF TypeInv
  <1>7. UNCHANGED <<events, logs, dlq, request, due, reissued, removed>>
    BY DEF EnqueueNext
  <1> QED
    BY <1>3, <1>4, <1>5, <1>6, <1>7 DEF TypeInv

(* UpdateEventStatus keeps the types.                                      *)
LEMMA SetStatusType ==
    ASSUME TypeInv, NEW w \in Workers, NEW r \in Outcome,
           MarkProcessed(w, r) \/ MarkFailed(w, r)
    PROVE  TypeInv'
  <1>1. /\ worker[w].pc \in {"succeed", "giveUp"}
        /\ Goto(w, "logSucceed") \/ Goto(w, "logGiveUp")
        /\ \/ events' = UpdateEventStatus(events, worker[w].task, "processed")
           \/ events' = UpdateEventStatus(events, worker[w].task, "failed")
           \/ events' = events
        /\ Hit(r, worker[w].task)
    BY DEF MarkProcessed, MarkFailed, SetStatus, After
  <1>2. worker' \in [Workers -> SoundWorker]
    BY <1>1, WorkerMoves DEF TypeInv, WorkerPC
  <1>3. worker[w].task \in Tasks
    BY <1>1, Holds
  <1>4. events' \in [Tasks -> Row]
    <2>1. events \in [Tasks -> Row]
      BY DEF TypeInv
    <2>2. \A st \in Status :
             UpdateEventStatus(events, worker[w].task, st) \in [Tasks -> Row]
      BY <1>3, <2>1, RowTypes
    <2> QED
      BY <1>1, <2>1, <2>2 DEF Status
  <1>5. faulted' \subseteq Tasks
    BY <1>1, <1>3, HitType DEF TypeInv
  <1>6. UNCHANGED <<logs, ready, scheduled, dlq, request, due, reissued, removed>>
    BY DEF MarkProcessed, MarkFailed, SetStatus, queue
  <1> QED
    BY <1>2, <1>4, <1>5, <1>6 DEF TypeInv

(* A line of the delivery log keeps the types.                             *)
LEMMA RecordAttemptType ==
    ASSUME TypeInv, NEW w \in Workers, NEW r \in Outcome,
           LogSucceed(w, r) \/ LogRetry(w, r) \/ LogGiveUp(w, r)
    PROVE  TypeInv'
  <1>1. /\ worker[w].pc \in {"logSucceed", "logRetry", "logGiveUp"}
        /\ Release(w) \/ NextAttempt(w) \/ Goto(w, "deadLetter")
        /\ \/ \E st \in LogStatus :
                 logs' = UpsertDeliveryLog(logs, worker[w].task, st,
                                           worker[w].attempt)
           \/ logs' = logs
        /\ Hit(r, worker[w].task)
    BY DEF LogSucceed, LogRetry, LogGiveUp, RecordAttempt, After, LogStatus
  <1>2. worker' \in [Workers -> SoundWorker]
    BY <1>1, WorkerMoves DEF TypeInv, WorkerPC
  <1>3. worker[w].task \in Tasks /\ worker[w].attempt \in 0..MaxRetries
    BY <1>1, Holds
  <1>4. logs' \in [Tasks -> LogRow]
    <2>1. logs \in [Tasks -> LogRow]
      BY DEF TypeInv
    <2>2. \A st \in LogStatus :
             [status |-> st, attempt |-> worker[w].attempt] \in LogRow
      BY <1>3 DEF LogRow
    <2>3. \A st \in LogStatus :
             UpsertDeliveryLog(logs, worker[w].task, st, worker[w].attempt)
                \in [Tasks -> LogRow]
      BY <1>3, <2>1, <2>2 DEF UpsertDeliveryLog
    <2> QED
      BY <1>1, <2>1, <2>3
  <1>5. faulted' \subseteq Tasks
    BY <1>1, <1>3, HitType DEF TypeInv
  <1>6. UNCHANGED <<events, ready, scheduled, dlq, request, due, reissued, removed>>
    BY DEF LogSucceed, LogRetry, LogGiveUp, RecordAttempt, queue
  <1> QED
    BY <1>2, <1>4, <1>5, <1>6 DEF TypeInv

(* MoveToDLQ keeps the types.                                              *)
LEMMA DeadLetterType ==
    ASSUME TypeInv, NEW w \in Workers, NEW r \in Outcome, DeadLetter(w, r)
    PROVE  TypeInv'
  <1> DEFINE t == worker[w].task
  <1>1. /\ worker[w].pc = "deadLetter"
        /\ Release(w)
        /\ dlq' = dlq \cup {t} \/ dlq' = dlq
        /\ removed' = removed \ {t} \/ removed' = removed
        /\ Hit(r, t)
    BY DEF DeadLetter, After, EnqueueToDLQ
  <1>2. worker' \in [Workers -> SoundWorker]
    BY <1>1, WorkerMoves DEF TypeInv
  <1>3. t \in Tasks
    BY <1>1, Holds
  <1>4. dlq' \subseteq Tasks /\ removed' \subseteq Tasks
    BY <1>1, <1>3 DEF TypeInv
  <1>5. faulted' \subseteq Tasks
    BY <1>1, <1>3, HitType DEF TypeInv
  <1>6. UNCHANGED <<events, logs, ready, scheduled, request, due, reissued>>
    BY DEF DeadLetter
  <1> QED
    BY <1>2, <1>4, <1>5, <1>6 DEF TypeInv

(* Every step of a worker keeps the types.                                 *)
LEMMA WorkerStepType ==
    ASSUME TypeInv, NEW w \in Workers, WorkerStep(w)
    PROVE  TypeInv'
  <1>1. CASE \E p \in Priorities, t \in Tasks, r \in Outcome : Take(w, p, t, r)
    BY <1>1, TakeType
  <1>2. CASE Fetch(w) \/ RunHandler(w)
    BY <1>2, FetchType, RunHandlerType
  <1>3. CASE \E c \in Tasks, r \in Outcome : SaveNext(w, c, r)
    BY <1>3, SaveNextType
  <1>4. ASSUME NEW r \in Outcome,
               \/ EnqueueNext(w, r) \/ MarkProcessed(w, r) \/ LogSucceed(w, r)
               \/ LogRetry(w, r) \/ MarkFailed(w, r) \/ LogGiveUp(w, r)
               \/ DeadLetter(w, r)
        PROVE  TypeInv'
    BY <1>4, EnqueueNextType, SetStatusType, RecordAttemptType, DeadLetterType
  <1> QED
    BY <1>1, <1>2, <1>3, <1>4 DEF WorkerStep

(* What request a becomes while it serves t.                               *)
LEMMA RequestMoves ==
    ASSUME request \in [Admins -> SoundRequest], NEW a \in Admins,
           NEW t \in Tasks
    PROVE  /\ [request EXCEPT ![a] = NoRequest] \in [Admins -> SoundRequest]
           /\ \A pc \in RequestPC \ {"idle"}, p \in PriorityColumn :
                 [request EXCEPT ![a] = [pc |-> pc, task |-> t, priority |-> p]]
                    \in [Admins -> SoundRequest]
  <1>1. \A pc \in RequestPC \ {"idle"}, p \in PriorityColumn :
           [pc |-> pc, task |-> t, priority |-> p] \in SoundRequest
    BY NoTaskAssumption DEF SoundRequest, RequestState
  <1> QED
    BY <1>1, AtRest

(* Counting another issue of a task keeps the types.                       *)
LEMMA ReissueType ==
    ASSUME reissued \in [Tasks -> 0..MaxReissues], NEW t \in Tasks, Reissue(t)
    PROVE  reissued' \in [Tasks -> 0..MaxReissues]
  <1>1. reissued[t] + 1 \in 0..MaxReissues
    BY LifecycleAssumption DEF Reissue
  <1> QED
    BY <1>1 DEF Reissue

(* Reopening a row keeps the types.                                        *)
LEMMA ResetType ==
    ASSUME TypeInv, NEW a \in Admins, NEW t \in Tasks, NEW r \in Outcome,
           Reset(a, t, r)
    PROVE  /\ events' \in [Tasks -> Row]
           /\ request' \in [Admins -> SoundRequest]
           /\ faulted' \subseteq Tasks
  <1> DEFINE s == [pc |-> "enqueue", task |-> t,
                   priority |-> QueuePriority(events[t])]
  <1>1. /\ events' = ResetTaskForRetry(events, t) \/ events' = events
        /\ \/ request' = [request EXCEPT ![a] = s]
           \/ request' = [request EXCEPT ![a] = NoRequest]
        /\ Hit(r, t)
    BY DEF Reset, After
  <1>2. events \in [Tasks -> Row]
    BY DEF TypeInv
  <1>3. /\ ResetTaskForRetry(events, t) \in [Tasks -> Row]
        /\ QueuePriority(events[t]) \in PriorityColumn
    BY <1>2, RowTypes
  <1>4. request' \in [Admins -> SoundRequest]
    BY <1>1, <1>3, RequestMoves DEF TypeInv, RequestPC
  <1>5. faulted' \subseteq Tasks
    BY <1>1, HitType DEF TypeInv
  <1> QED
    BY <1>1, <1>2, <1>3, <1>4, <1>5

(* Every step of an admin request keeps the types.                         *)
LEMMA RequestStepType ==
    ASSUME TypeInv, NEW a \in Admins, RequestStep(a)
    PROVE  TypeInv'
  <1> DEFINE t == request[a].task
  <1>1. ASSUME NEW r \in Outcome, ResetDLQTask(a, r)
        PROVE  TypeInv'
    <2>1. /\ t \in Tasks
          /\ \/ Reset(a, t, r)
             \/ /\ request' = [request EXCEPT ![a] = NoRequest]
                /\ UNCHANGED <<events, faulted>>
          /\ UNCHANGED <<logs, ready, scheduled, dlq, worker, due, reissued,
                         removed>>
      BY <1>1, Holds DEF ResetDLQTask, queue
    <2>2. /\ events' \in [Tasks -> Row]
          /\ request' \in [Admins -> SoundRequest]
          /\ faulted' \subseteq Tasks
      BY <2>1, ResetType, RequestMoves DEF TypeInv
    <2> QED
      BY <2>1, <2>2 DEF TypeInv
  <1>2. ASSUME NEW r \in Outcome, EnqueueRetry(a, r)
        PROVE  TypeInv'
    <2>1. /\ t \in Tasks
          /\ request[a].priority \in PriorityColumn
          /\ \/ ready' = EnqueueWithPriority(ready, t, request[a].priority)
             \/ ready' = ready
          /\ Hit(r, t)
          /\ request' = [request EXCEPT ![a] = NoRequest]
          /\ UNCHANGED <<events, logs, scheduled, dlq, worker, due, reissued,
                         removed>>
      BY <1>2, Holds DEF EnqueueRetry, After
    <2>2. ready' \in Ready /\ faulted' \subseteq Tasks
      BY <2>1, ReadyTypes, HitType DEF TypeInv
    <2>3. request' \in [Admins -> SoundRequest]
      BY <2>1, RequestMoves DEF TypeInv
    <2> QED
      BY <2>1, <2>2, <2>3 DEF TypeInv
  <1>3. CASE PushRequeued(a)
    <2>1. /\ t \in Tasks
          /\ request[a].priority \in PriorityColumn
          /\ \/ ready' = EnqueueWithPriority(ready, t, request[a].priority)
             \/ ready' = ready
          /\ \/ scheduled' = Schedule(scheduled, t, request[a].priority)
             \/ scheduled' = scheduled
          /\ request' = [request EXCEPT ![a] = NoRequest]
          /\ UNCHANGED <<events, logs, dlq, worker, due, faulted, reissued,
                         removed>>
      BY <1>3, Holds DEF PushRequeued, history
    <2>2. ready' \in Ready
      BY <2>1, ReadyTypes DEF TypeInv
    <2>3. scheduled' \subseteq Scheduled
      BY <2>1 DEF TypeInv, Schedule, Scheduled
    <2>4. request' \in [Admins -> SoundRequest]
      BY <2>1, RequestMoves DEF TypeInv
    <2> QED
      BY <2>1, <2>2, <2>3, <2>4 DEF TypeInv
  <1> QED
    BY <1>1, <1>2, <1>3 DEF RequestStep

(* Every admin request starts well typed.                                  *)
LEMMA NewRequestType ==
    ASSUME TypeInv, NewRequest
    PROVE  TypeInv'
  <1>1. ASSUME NEW t \in Tasks, HandleCancelTask(t)
        PROVE  TypeInv'
    <2>1. /\ events' = CancelEventIfPending(events, t)
          /\ UNCHANGED <<logs, ready, scheduled, dlq, worker, request, due,
                         faulted, reissued, removed>>
      BY <1>1 DEF HandleCancelTask, queue, history
    <2>2. events \in [Tasks -> Row]
      BY DEF TypeInv
    <2>3. CancelEventIfPending(events, t) \in [Tasks -> Row]
      BY <2>2, RowTypes
    <2>4. events' \in [Tasks -> Row]
      BY <2>1, <2>3
    <2> QED
      BY <2>1, <2>4 DEF TypeInv
  <1>2. ASSUME NEW t \in Tasks, HandleRemoveDLQTask(t)
        PROVE  TypeInv'
    BY <1>2 DEF HandleRemoveDLQTask, RemoveFromDLQ, TypeInv
  <1>3. ASSUME NEW a \in Admins, NEW t \in Tasks, HandleRequeueTask(a, t)
        PROVE  TypeInv'
    <2>1. /\ Reissue(t)
          /\ request' = [request EXCEPT ![a] =
                           [pc |-> "requeue", task |-> t,
                            priority |-> QueuePriority(events[t])]]
          /\ UNCHANGED <<events, logs, ready, scheduled, dlq, worker, due,
                         faulted, removed>>
      BY <1>3 DEF HandleRequeueTask, queue
    <2>2. QueuePriority(events[t]) \in PriorityColumn
      BY RowTypes DEF TypeInv
    <2>3. request' \in [Admins -> SoundRequest]
      BY <2>1, <2>2, RequestMoves DEF TypeInv, RequestPC
    <2>4. reissued' \in [Tasks -> 0..MaxReissues]
      BY <2>1, ReissueType DEF TypeInv
    <2> QED
      BY <2>1, <2>3, <2>4 DEF TypeInv
  <1>4. ASSUME NEW a \in Admins, NEW t \in Tasks, NEW r \in Outcome,
               HandleRetryTask(a, t, r)
        PROVE  TypeInv'
    <2>1. /\ Reset(a, t, r)
          /\ Reissue(t)
          /\ UNCHANGED <<logs, ready, scheduled, dlq, worker, due, removed>>
      BY <1>4 DEF HandleRetryTask, queue
    <2>2. reissued' \in [Tasks -> 0..MaxReissues]
      BY <2>1, ReissueType DEF TypeInv
    <2> QED
      BY <2>1, <2>2, ResetType DEF TypeInv
  <1>5. ASSUME NEW a \in Admins, NEW t \in Tasks, NEW r \in Outcome,
               HandleRetryDLQTask(a, t, r)
        PROVE  TypeInv'
    <2>1. /\ dlq' = dlq \ {t}
          /\ Hit(r, t)
          /\ Reissue(t)
          /\ \/ request' = [request EXCEPT ![a] =
                              [pc |-> "reset", task |-> t, priority |-> "none"]]
             \/ request' = [request EXCEPT ![a] = NoRequest]
          /\ UNCHANGED <<events, logs, ready, scheduled, worker, due, removed>>
      BY <1>5 DEF HandleRetryDLQTask, RemoveFromDLQ
    <2>2. request' \in [Admins -> SoundRequest]
      BY <2>1, RequestMoves DEF TypeInv, RequestPC, PriorityColumn, RequestPriority
    <2>3. reissued' \in [Tasks -> 0..MaxReissues] /\ faulted' \subseteq Tasks
      BY <2>1, ReissueType, HitType DEF TypeInv
    <2> QED
      BY <2>1, <2>2, <2>3 DEF TypeInv
  <1> QED
    BY <1>1, <1>2, <1>3, <1>4, <1>5 DEF NewRequest

(* The scheduler, the clock and a crash keep the types.                    *)
LEMMA OtherStepType ==
    ASSUME TypeInv, Promote \/ (\E t \in Tasks : ReachExecuteAt(t)) \/ Crash
    PROVE  TypeInv'
  <1>1. ASSUME NEW entry \in Scheduled, NEW r \in Outcome,
               PromoteScheduled(entry, r)
        PROVE  TypeInv'
    <2>1. entry[1] \in Tasks /\ entry[2] \in PriorityColumn
      BY DEF Scheduled
    <2>2. /\ ready' = EnqueueWithPriority(ready, entry[1], entry[2])
          /\ scheduled' \subseteq scheduled
          /\ Hit(r, entry[1])
          /\ UNCHANGED <<events, logs, dlq, worker, request, due, reissued,
                         removed>>
      BY <1>1 DEF PromoteScheduled, Unschedule
    <2>3. ready' \in Ready /\ faulted' \subseteq Tasks
      BY <2>1, <2>2, ReadyTypes, HitType DEF TypeInv
    <2> QED
      BY <2>2, <2>3 DEF TypeInv
  <1>2. ASSUME NEW t \in Tasks, ReachExecuteAt(t)
        PROVE  TypeInv'
    BY <1>2 DEF ReachExecuteAt, TypeInv, queue, history
  <1>3. CASE Crash
    <2>1. /\ faulted' = faulted \cup {t \in Tasks : HeldByWorker(t) \/ HeldByRequest(t)}
          /\ worker' = [w \in Workers |-> Idle]
          /\ request' = [a \in Admins |-> NoRequest]
          /\ UNCHANGED <<events, logs, ready, scheduled, dlq, due, reissued,
                         removed>>
      BY <1>3 DEF Crash, queue
    <2>2. faulted' \subseteq Tasks
      BY <2>1 DEF TypeInv
    <2> QED
      BY <2>1, <2>2, AtRest DEF TypeInv
  <1> QED
    BY <1>1, <1>2, <1>3 DEF Promote

(* Every step keeps the types.                                             *)
LEMMA TypeStep == TypeInv /\ [Next]_vars => TypeInv'
  <1> SUFFICES ASSUME TypeInv, [Next]_vars PROVE TypeInv'
    OBVIOUS
  <1>1. CASE \E w \in Workers : WorkerStep(w)
    BY <1>1, WorkerStepType
  <1>2. CASE \E a \in Admins : RequestStep(a)
    BY <1>2, RequestStepType
  <1>3. CASE NewRequest
    BY <1>3, NewRequestType
  <1>4. CASE Promote \/ (\E t \in Tasks : ReachExecuteAt(t)) \/ Crash
    BY <1>4, OtherStepType
  <1>5. CASE UNCHANGED vars
    BY <1>5 DEF vars, TypeInv
  <1> QED
    BY <1>1, <1>2, <1>3, <1>4, <1>5 DEF Next

(* TypeInv holds in every reachable state.                                 *)
LEMMA TypeInvariant == Spec => []TypeInv
  BY InitTypeInv, TypeStep, PTL DEF Spec

(* The tables, the lists and the goroutines only ever hold values of their *)
(* shapes and no attempt is numbered above MaxRetries, for every pool size *)
(* and every number of requests in flight.                                 *)
THEOREM TypeCorrect == Spec => []TypeOK
  BY TypeInvariant, TypeInvImplies, PTL

-----------------------------------------------------------------------------
(* No task is lost: a pending task is always tracked, and a failed one     *)
(* stays within the operator's reach.                                      *)

(* Pushing an id makes it queued and leaves every queued id queued.        *)
LEMMA PushKeeps ==
    ASSUME NEW q \in Ready, NEW c \in Tasks, NEW p \in PriorityColumn
    PROVE  /\ Queued(EnqueueWithPriority(q, c, p), c)
           /\ \A t \in Tasks :
                 Queued(q, t) => Queued(EnqueueWithPriority(q, c, p), t)
  <1> DEFINE l == Level(p)
  <1>1. l \in Priorities
    BY DEF Level, Priorities
  <1>2. \A k \in Priorities, t \in Tasks :
           /\ q[k][t] \in Nat
           /\ EnqueueWithPriority(q, c, p)[k][t] =
                 IF k = l /\ t = c THEN q[k][t] + 1 ELSE q[k][t]
    BY <1>1 DEF EnqueueWithPriority, Ready
  <1> QED
    BY <1>1, <1>2 DEF Queued

(* Popping an id concerns no other id.                                     *)
LEMMA PopKeeps ==
    ASSUME NEW q \in Ready, NEW c \in Tasks, NEW p \in Priorities,
           NEW t \in Tasks \ {c}, Queued(q, t)
    PROVE  Queued(Dequeue(q, p, c), t)
  <1>1. \A k \in Priorities : Dequeue(q, p, c)[k][t] = q[k][t]
    BY DEF Dequeue, Ready
  <1> QED
    BY <1>1 DEF Queued

(* A write that leaves its task without a fault went well.                 *)
LEMMA HitKeeps ==
    ASSUME NEW c, NEW r \in Outcome, Hit(r, c)
    PROVE  /\ \A t : t \notin faulted' => t \notin faulted
           /\ c \notin faulted' => r = "ok"
  BY DEF Hit

-----------------------------------------------------------------------------
(* What the steps of worker w do to the workers, field by field.           *)

OthersKeep(w) == \A v \in Workers \ {w} : worker'[v] = worker[v]

(* w moves to one of pcs and keeps its task and its child.                 *)
MovesTo(w, pcs) ==
    /\ OthersKeep(w)
    /\ worker'[w].pc \in pcs
    /\ worker'[w].task = worker[w].task
    /\ worker'[w].child = worker[w].child

(* What Goto, NextAttempt and Release do, field by field.                  *)
LEMMA Moves ==
    ASSUME TypeInv, NEW w \in Workers
    PROVE  /\ \A pc : Goto(w, pc) => MovesTo(w, {pc})
           /\ NextAttempt(w) => MovesTo(w, {"fetch", "giveUp"})
           /\ Release(w) => OthersKeep(w) /\ worker'[w] = Idle
  <1>1. worker \in [Workers -> WorkerState]
    BY DEF TypeInv, SoundWorker
  <1>2. ASSUME NEW pc, Goto(w, pc) PROVE MovesTo(w, {pc})
    BY <1>1, <1>2 DEF Goto, MovesTo, OthersKeep, WorkerState
  <1>3. ASSUME NextAttempt(w) PROVE MovesTo(w, {"fetch", "giveUp"})
    <2>1. CASE worker[w].attempt < MaxRetries
      <3>1. worker' = [worker EXCEPT ![w].pc = "fetch", ![w].attempt = @ + 1]
        BY <1>3, <2>1 DEF NextAttempt
      <3> QED
        BY <1>1, <3>1 DEF MovesTo, OthersKeep, WorkerState
    <2>2. CASE ~(worker[w].attempt < MaxRetries)
      BY <1>2, <1>3, <2>2 DEF NextAttempt, MovesTo
    <2> QED
      BY <2>1, <2>2
  <1>4. Release(w) => OthersKeep(w) /\ worker'[w] = Idle
    BY <1>1 DEF Release, OthersKeep
  <1> QED
    BY <1>2, <1>3, <1>4

-----------------------------------------------------------------------------
(* Pending tasks.                                                          *)

TrackedIfPending(t) ==
    events[t].status = "pending" /\ t \notin faulted => Tracked(t)

UndecidedPC == {"fetch", "run", "saveNext", "enqueueNext", "succeed",
                "logRetry", "giveUp"}

(* A step of worker w leaves t tracked if it forgets neither the lists nor *)
(* a request, and t itself only for one of the lists.                      *)
LEMMA WorkerKeepsTrack ==
    ASSUME NEW w \in Workers, NEW t \in Tasks, Tracked(t),
           OthersKeep(w),
           request' = request,
           Queued(ready, t) => Queued(ready', t),
           OnSchedule(scheduled, t) => OnSchedule(scheduled', t),
           Undecided(w, t) =>
              worker'[w].task = t /\ worker'[w].pc \in UndecidedPC,
           worker[w].child = t =>
              \/ worker'[w].child = t
              \/ Queued(ready', t)
              \/ OnSchedule(scheduled', t)
    PROVE  Tracked(t)'
  <1>1. CASE Queued(ready, t) \/ OnSchedule(scheduled, t)
    BY <1>1 DEF Tracked
  <1>2. CASE Undecided(w, t) \/ worker[w].child = t
    BY <1>2 DEF Tracked, Undecided, Executing, UndecidedPC
  <1>3. ASSUME NEW v \in Workers \ {w}, Undecided(v, t) \/ worker[v].child = t
        PROVE  Tracked(t)'
    <2>1. worker'[v] = worker[v]
      BY DEF OthersKeep
    <2>2. Undecided(v, t)' \/ worker'[v].child = t
      BY <1>3, <2>1 DEF Undecided, Executing
    <2> QED
      BY <2>2 DEF Tracked
  <1>4. CASE \E a \in Admins : request[a].task = t /\ request[a].pc = "enqueue"
    BY <1>4 DEF Tracked
  <1> QED
    BY <1>1, <1>2, <1>3, <1>4 DEF Tracked

(* A task moves from the queue into the hands of a worker.                 *)
LEMMA TakeTracks ==
    ASSUME TypeInv, NEW w \in Workers, NEW p \in Priorities, NEW c \in Tasks,
           NEW r \in Outcome, Take(w, p, c, r),
           NEW t \in Tasks, TrackedIfPending(t)
    PROVE  TrackedIfPending(t)'
  <1> SUFFICES ASSUME events[t].status = "pending", t \notin faulted'
               PROVE  Tracked(t)'
    BY DEF Take, TrackedIfPending
  <1>1. t \notin faulted /\ (t = c => r = "ok")
    BY HitKeeps DEF Take
  <1>2. Tracked(t)
    BY <1>1 DEF TrackedIfPending
  <1>3. /\ worker[w].pc = "idle"
        /\ ready' = Dequeue(ready, p, c)
        /\ scheduled' = scheduled /\ request' = request
        /\ r = "ok" => worker' = [worker EXCEPT ![w] = [pc |-> "fetch",
                          task |-> c, attempt |-> 1, child |-> NoTask]]
        /\ r # "ok" => worker' = worker
    BY DEF Take
  <1>4. CASE t = c
    BY <1>1, <1>3, <1>4 DEF Tracked, Undecided, TypeInv
  <1>5. CASE t # c
    <2>1. OthersKeep(w) /\ worker[w].child = NoTask
      BY <1>3 DEF TypeInv, SoundWorker, WorkerState, OthersKeep
    <2>2. ~Undecided(w, t) /\ worker[w].child # t
      BY <1>3, <2>1, NoTaskAssumption DEF Undecided, Executing
    <2>3. Queued(ready, t) => Queued(ready', t)
      BY <1>3, <1>5, PopKeeps DEF TypeInv
    <2> QED
      BY <1>2, <1>3, <2>1, <2>2, <2>3, WorkerKeepsTrack
  <1> QED
    BY <1>4, <1>5

(* Steps that only move worker w, or take the result or the log to the     *)
(* database, within the part of the loop that still owes t a status.       *)
LEMMA MoveTracks ==
    ASSUME TypeInv, NEW w \in Workers, NEW t \in Tasks, TrackedIfPending(t),
           events'[t].status = "pending" => events[t].status = "pending",
           \A u : u \notin faulted' => u \notin faulted,
           UNCHANGED <<ready, scheduled, request>>,
           MovesTo(w, UndecidedPC) \/ ~Undecided(w, t),
           MovesTo(w, WorkerPC) \/ (Release(w) /\ worker[w].child = NoTask)
    PROVE  TrackedIfPending(t)'
  <1> SUFFICES ASSUME events'[t].status = "pending", t \notin faulted'
               PROVE  Tracked(t)'
    BY DEF TrackedIfPending
  <1>1. Tracked(t)
    BY DEF TrackedIfPending
  <1>2. OthersKeep(w) /\ (worker[w].child = t => worker'[w].child = t)
    BY Moves, NoTaskAssumption DEF MovesTo
  <1>3. Undecided(w, t) => worker'[w].task = t /\ worker'[w].pc \in UndecidedPC
    BY DEF MovesTo, Undecided, Executing
  <1> QED
    BY <1>1, <1>2, <1>3, WorkerKeepsTrack

(* A worker elsewhere than in "enqueueNext" holds no child.                *)
LEMMA NoChild ==
    ASSUME TypeInv, NEW w \in Workers, worker[w].pc # "enqueueNext"
    PROVE  worker[w].child = NoTask
  BY DEF TypeInv, SoundWorker

(* A worker lets go of a task it reads only when it is not pending.        *)
LEMMA FetchTracks ==
    ASSUME TypeInv, NEW w \in Workers, Fetch(w),
           NEW t \in Tasks, TrackedIfPending(t)
    PROVE  TrackedIfPending(t)'
  <1>1. /\ worker[w].pc = "fetch"
        /\ \/ events[worker[w].task].status = "cancelled" /\ Release(w)
           \/ Goto(w, "run")
           \/ NextAttempt(w)
        /\ UNCHANGED <<events, ready, scheduled, request, faulted>>
    BY DEF Fetch, queue, history
  <1>2. worker[w].child = NoTask
    BY <1>1, NoChild
  <1>3. CASE Goto(w, "run") \/ NextAttempt(w)
    <2>1. MovesTo(w, UndecidedPC) /\ MovesTo(w, WorkerPC)
      BY <1>3, Moves DEF MovesTo, UndecidedPC, WorkerPC
    <2> QED
      BY <1>1, <2>1, MoveTracks
  <1>4. CASE events[worker[w].task].status = "cancelled" /\ Release(w)
    <2>1. CASE worker[w].task = t
      BY <1>1, <1>4, <2>1 DEF TrackedIfPending
    <2>2. CASE worker[w].task # t
      <3>1. ~Undecided(w, t)
        BY <2>2 DEF Undecided, Executing
      <3> QED
        BY <1>1, <1>2, <1>4, <3>1, MoveTracks
    <2> QED
      BY <2>1, <2>2
  <1> QED
    BY <1>1, <1>3, <1>4

(* A worker keeps its task through the handler.                            *)
LEMMA RunHandlerTracks ==
    ASSUME TypeInv, NEW w \in Workers, RunHandler(w),
           NEW t \in Tasks, TrackedIfPending(t)
    PROVE  TrackedIfPending(t)'
  <1>1. /\ worker[w].pc = "run"
        /\ Goto(w, "succeed") \/ Goto(w, "saveNext") \/ Goto(w, "logRetry")
        /\ events' = UpdateEventResult(events, worker[w].task) \/ events' = events
        /\ UNCHANGED <<ready, scheduled, request, faulted>>
    BY DEF RunHandler, queue, history
  <1>2. MovesTo(w, UndecidedPC) /\ MovesTo(w, WorkerPC)
    BY <1>1, Moves DEF MovesTo, UndecidedPC, WorkerPC
  <1>3. events'[t].status = events[t].status
    BY <1>1 DEF TypeInv, UpdateEventResult, Row
  <1> QED
    BY <1>1, <1>2, <1>3, MoveTracks

(* A worker holds the next step from its insert on.                        *)
LEMMA SaveNextTracks ==
    ASSUME TypeInv, NEW w \in Workers, NEW c \in Tasks, NEW r \in Outcome,
           SaveNext(w, c, r), NEW t \in Tasks, TrackedIfPending(t)
    PROVE  TrackedIfPending(t)'
  <1> DEFINE row == NewRow(Head(events[worker[w].task].next),
                           RootTaskID(events, worker[w].task),
                           Tail(events[worker[w].task].next))
  <1> SUFFICES ASSUME events'[t].status = "pending", t \notin faulted'
               PROVE  Tracked(t)'
    BY DEF TrackedIfPending
  <1>1. /\ worker[w].pc = "saveNext"
        /\ ~Exists(events, c)
        /\ \/ r = "lost" /\ events' = events
           \/ r # "lost" /\ events' = InsertEvent(events, c, row)
        /\ IF r = "lost" THEN UNCHANGED faulted ELSE Hit(r, c)
        /\ worker' = [worker EXCEPT
                        ![w].pc = IF r = "ok" THEN "enqueueNext" ELSE "logRetry",
                        ![w].child = IF r = "ok" THEN c ELSE NoTask]
        /\ UNCHANGED <<ready, scheduled, request>>
    BY DEF SaveNext, After, queue
  <1>2. /\ OthersKeep(w)
        /\ worker'[w].pc \in UndecidedPC
        /\ worker'[w].task = worker[w].task
        /\ r = "ok" => worker'[w].child = c
    BY <1>1 DEF TypeInv, SoundWorker, WorkerState, OthersKeep, UndecidedPC
  <1>3. t \notin faulted /\ (t = c /\ r # "lost" => r = "ok")
    BY <1>1, HitKeeps
  <1>4. CASE t = c
    <2>1. r = "ok"
      BY <1>1, <1>3, <1>4 DEF Exists
    <2> QED
      BY <1>2, <1>4, <2>1 DEF Tracked
  <1>5. CASE t # c
    <2>1. events'[t] = events[t]
      BY <1>1, <1>5 DEF TypeInv, InsertEvent
    <2>2. Tracked(t)
      BY <1>3, <2>1 DEF TrackedIfPending
    <2>3. worker[w].child # t
      BY <1>1, NoChild, NoTaskAssumption
    <2>4. Undecided(w, t) => worker'[w].task = t
      BY <1>2 DEF Undecided, Executing
    <2> QED
      BY <1>1, <1>2, <2>2, <2>3, <2>4, WorkerKeepsTrack
  <1> QED
    BY <1>4, <1>5

(* The next step moves from its worker into the queue.                     *)
LEMMA EnqueueNextTracks ==
    ASSUME TypeInv, NEW w \in Workers, NEW r \in Outcome, EnqueueNext(w, r),
           NEW t \in Tasks, TrackedIfPending(t)
    PROVE  TrackedIfPending(t)'
  <1> DEFINE c == worker[w].child
             p == events[c].priority
  <1> SUFFICES ASSUME events[t].status = "pending", t \notin faulted'
               PROVE  Tracked(t)'
    BY DEF TrackedIfPending, EnqueueNext
  <1>1. /\ worker[w].pc = "enqueueNext"
        /\ Hit(r, c)
        /\ \/ scheduled' = Schedule(scheduled, c, p) /\ ready' = ready
           \/ ready' = EnqueueWithPriority(ready, c, p) /\ scheduled' = scheduled
           \/ r = "lost" /\ ready' = ready /\ scheduled' = scheduled
        /\ worker' = [worker EXCEPT
                        ![w].pc = IF r = "ok" THEN "succeed" ELSE "logRetry",
                        ![w].child = NoTask]
        /\ request' = request
    BY DEF EnqueueNext, After
  <1>2. c \in Tasks /\ p \in PriorityColumn
    BY <1>1, Holds DEF TypeInv, Row
  <1>3. Tracked(t) /\ (t = c => r = "ok")
    BY <1>1, HitKeeps DEF TrackedIfPending
  <1>4. /\ OthersKeep(w)
        /\ worker'[w].pc \in UndecidedPC
        /\ worker'[w].task = worker[w].task
    BY <1>1 DEF TypeInv, SoundWorker, WorkerState, OthersKeep, UndecidedPC
  <1>5. Queued(ready, t) => Queued(ready', t)
    BY <1>1, <1>2, PushKeeps DEF TypeInv
  <1>6. OnSchedule(scheduled, t) => OnSchedule(scheduled', t)
    BY <1>1 DEF OnSchedule, Schedule
  <1>7. t = c => Queued(ready', t) \/ OnSchedule(scheduled', t)
    <2>1. ready' = EnqueueWithPriority(ready, c, p) => Queued(ready', c)
      BY <1>2, PushKeeps DEF TypeInv
    <2>2. scheduled' = Schedule(scheduled, c, p) => OnSchedule(scheduled', c)
      BY <1>2 DEF OnSchedule, Schedule
    <2> QED
      BY <1>1, <1>3, <2>1, <2>2
  <1>8. Undecided(w, t) => worker'[w].task = t
    BY <1>4 DEF Undecided, Executing
  <1> QED
    BY <1>1, <1>3, <1>4, <1>5, <1>6, <1>7, <1>8, WorkerKeepsTrack

(* A worker decides the task it holds.                                     *)
LEMMA SetStatusTracks ==
    ASSUME TypeInv, NEW w \in Workers, NEW r \in Outcome,
           MarkProcessed(w, r) \/ MarkFailed(w, r),
           NEW t \in Tasks, TrackedIfPending(t)
    PROVE  TrackedIfPending(t)'
  <1> DEFINE c == worker[w].task
  <1>1. /\ worker[w].pc \in {"succeed", "giveUp"}
        /\ Goto(w, "logSucceed") \/ Goto(w, "logGiveUp")
        /\ \/ r # "lost" /\ events' = UpdateEventStatus(events, c, "processed")
           \/ r # "lost" /\ events' = UpdateEventStatus(events, c, "failed")
           \/ r = "lost" /\ events' = events
        /\ Hit(r, c)
        /\ UNCHANGED <<ready, scheduled, request>>
    BY DEF MarkProcessed, MarkFailed, SetStatus, After, queue
  <1>2. MovesTo(w, WorkerPC)
    BY <1>1, Moves DEF MovesTo, WorkerPC
  <1>3. \A u : u \notin faulted' => u \notin faulted
    BY <1>1, HitKeeps
  <1>4. CASE t = c
    <2>1. t \in faulted' \/ events'[t].status # "pending"
      BY <1>1, <1>4, HitKeeps DEF TypeInv, UpdateEventStatus, Row
    <2> QED
      BY <2>1 DEF TrackedIfPending
  <1>5. CASE t # c
    <2>1. events'[t] = events[t]
      BY <1>1, <1>5 DEF TypeInv, UpdateEventStatus
    <2>2. ~Undecided(w, t)
      BY <1>5 DEF Undecided, Executing
    <2> QED
      BY <1>1, <1>2, <1>3, <2>1, <2>2, MoveTracks
  <1> QED
    BY <1>4, <1>5

(* A worker lets go of its task only after deciding it.                    *)
LEMMA LogTracks ==
    ASSUME TypeInv, NEW w \in Workers, NEW r \in Outcome,
           \/ LogSucceed(w, r) \/ LogRetry(w, r) \/ LogGiveUp(w, r)
           \/ DeadLetter(w, r),
           NEW t \in Tasks, TrackedIfPending(t)
    PROVE  TrackedIfPending(t)'
  <1>1. /\ \/ worker[w].pc \in {"logSucceed", "deadLetter"} /\ Release(w)
           \/ worker[w].pc = "logRetry" /\ NextAttempt(w)
           \/ worker[w].pc = "logGiveUp" /\ Goto(w, "deadLetter")
        /\ Hit(r, worker[w].task)
        /\ UNCHANGED <<events, ready, scheduled, request>>
    BY DEF LogSucceed, LogRetry, LogGiveUp, DeadLetter, RecordAttempt, queue
  <1>2. \A u : u \notin faulted' => u \notin faulted
    BY <1>1, HitKeeps
  <1>3. CASE worker[w].pc \in {"logSucceed", "deadLetter"} /\ Release(w)
    <2>1. ~Undecided(w, t) /\ worker[w].child = NoTask
      BY <1>3, NoChild DEF Undecided, Executing
    <2> QED
      BY <1>1, <1>2, <1>3, <2>1, MoveTracks
  <1>4. CASE worker[w].pc = "logRetry" /\ NextAttempt(w)
    <2>1. MovesTo(w, UndecidedPC) /\ MovesTo(w, WorkerPC)
      BY <1>4, Moves DEF MovesTo, UndecidedPC, WorkerPC
    <2> QED
      BY <1>1, <1>2, <2>1, MoveTracks
  <1>5. CASE worker[w].pc = "logGiveUp" /\ Goto(w, "deadLetter")
    <2>1. MovesTo(w, WorkerPC) /\ ~Undecided(w, t)
      BY <1>5, Moves DEF MovesTo, WorkerPC, Undecided, Executing
    <2> QED
      BY <1>1, <1>2, <2>1, MoveTracks
  <1> QED
    BY <1>1, <1>3, <1>4, <1>5

(* No step of a worker loses a task.                                       *)
LEMMA WorkerStepTracks ==
    ASSUME TypeInv, NEW w \in Workers, WorkerStep(w),
           NEW t \in Tasks, TrackedIfPending(t)
    PROVE  TrackedIfPending(t)'
  <1>1. CASE \E p \in Priorities, c \in Tasks, r \in Outcome : Take(w, p, c, r)
    BY <1>1, TakeTracks
  <1>2. CASE Fetch(w) \/ RunHandler(w)
    BY <1>2, FetchTracks, RunHandlerTracks
  <1>3. CASE \E c \in Tasks, r \in Outcome : SaveNext(w, c, r)
    BY <1>3, SaveNextTracks
  <1>4. ASSUME NEW r \in Outcome,
               \/ EnqueueNext(w, r) \/ MarkProcessed(w, r) \/ LogSucceed(w, r)
               \/ LogRetry(w, r) \/ MarkFailed(w, r) \/ LogGiveUp(w, r)
               \/ DeadLetter(w, r)
        PROVE  TrackedIfPending(t)'
    BY <1>4, EnqueueNextTracks, SetStatusTracks, LogTracks
  <1> QED
    BY <1>1, <1>2, <1>3, <1>4 DEF WorkerStep

(* A step of request a leaves t tracked if the lists keep it and a was not *)
(* the one about to push it.                                               *)
LEMMA RequestKeepsTrack ==
    ASSUME NEW a \in Admins, NEW t \in Tasks, Tracked(t),
           worker' = worker,
           \A b \in Admins \ {a} : request'[b] = request[b],
           Queued(ready, t) => Queued(ready', t),
           OnSchedule(scheduled, t) => OnSchedule(scheduled', t),
           request[a].task = t /\ request[a].pc = "enqueue" => Queued(ready', t)
    PROVE  Tracked(t)'
  BY DEF Tracked, Undecided, Executing

(* A row is reopened only by a request that will queue it.                 *)
LEMMA ResetTracks ==
    ASSUME TypeInv, NEW a \in Admins, NEW c \in Tasks, NEW r \in Outcome,
           request[a].pc # "enqueue",
           Reset(a, c, r), UNCHANGED <<ready, scheduled, worker>>,
           NEW t \in Tasks, TrackedIfPending(t)
    PROVE  TrackedIfPending(t)'
  <1> SUFFICES ASSUME events'[t].status = "pending", t \notin faulted'
               PROVE  Tracked(t)'
    BY DEF TrackedIfPending
  <1>1. /\ Retryable(events, c)
        /\ events' = After(r, events, ResetTaskForRetry(events, c))
        /\ Hit(r, c)
        /\ r = "ok" => request' = [request EXCEPT ![a] =
                          [pc |-> "enqueue", task |-> c,
                           priority |-> QueuePriority(events[c])]]
        /\ r # "ok" => request' = [request EXCEPT ![a] = NoRequest]
    BY DEF Reset
  <1>2. t \notin faulted /\ (t = c => r = "ok")
    BY <1>1, HitKeeps
  <1>3. CASE t = c
    <2>1. request'[a].pc = "enqueue" /\ request'[a].task = t
      BY <1>1, <1>2, <1>3 DEF TypeInv
    <2> QED
      BY <2>1 DEF Tracked
  <1>4. CASE t # c
    <2>1. events'[t] = events[t]
      BY <1>1, <1>4 DEF TypeInv, After, ResetTaskForRetry, UpdateEventStatus
    <2>2. \A b \in Admins \ {a} : request'[b] = request[b]
      BY <1>1 DEF TypeInv
    <2>3. Tracked(t)
      BY <1>2, <2>1 DEF TrackedIfPending
    <2> QED
      BY <2>2, <2>3, RequestKeepsTrack
  <1> QED
    BY <1>3, <1>4

(* No step of an admin request loses a task.                               *)
LEMMA RequestStepTracks ==
    ASSUME TypeInv, NEW a \in Admins, RequestStep(a),
           NEW t \in Tasks, TrackedIfPending(t)
    PROVE  TrackedIfPending(t)'
  <1> DEFINE c == request[a].task
             p == request[a].priority
  <1>1. ASSUME request[a].pc # "enqueue" \/ (c = t => Queued(ready', t)),
               request' = [request EXCEPT ![a] = NoRequest],
               \A u : u \notin faulted' => u \notin faulted,
               UNCHANGED <<events, worker>>,
               Queued(ready, t) => Queued(ready', t),
               OnSchedule(scheduled, t) => OnSchedule(scheduled', t)
        PROVE  TrackedIfPending(t)'
    <2>1. \A b \in Admins \ {a} : request'[b] = request[b]
      BY <1>1 DEF TypeInv
    <2>2. Tracked(t) => Tracked(t)'
      BY <1>1, <2>1, RequestKeepsTrack
    <2> QED
      BY <1>1, <2>2 DEF TrackedIfPending
  <1>2. ASSUME NEW r \in Outcome, ResetDLQTask(a, r)
        PROVE  TrackedIfPending(t)'
    <2>1. /\ request[a].pc = "reset"
          /\ c \in Tasks
          /\ \/ Reset(a, c, r)
             \/ /\ request' = [request EXCEPT ![a] = NoRequest]
                /\ UNCHANGED <<events, faulted>>
          /\ UNCHANGED <<ready, scheduled, worker>>
      BY <1>2, Holds DEF ResetDLQTask, queue
    <2>2. CASE Reset(a, c, r)
      BY <2>1, <2>2, ResetTracks
    <2>3. CASE ~Reset(a, c, r)
      BY <1>1, <2>1, <2>3
    <2> QED
      BY <2>2, <2>3
  <1>3. ASSUME NEW r \in Outcome, EnqueueRetry(a, r)
        PROVE  TrackedIfPending(t)'
    <2>1. /\ request[a].pc = "enqueue"
          /\ c \in Tasks /\ p \in PriorityColumn
          /\ \/ r # "lost" /\ ready' = EnqueueWithPriority(ready, c, p)
             \/ r = "lost" /\ ready' = ready
          /\ Hit(r, c)
          /\ request' = [request EXCEPT ![a] = NoRequest]
          /\ UNCHANGED <<events, scheduled, worker>>
      BY <1>3, Holds DEF EnqueueRetry, After
    <2>2. /\ Queued(ready, t) => Queued(ready', t)
          /\ r # "lost" => Queued(ready', c)
      BY <2>1, PushKeeps DEF TypeInv
    <2>3. \A u : u \notin faulted' => u \notin faulted
      BY <2>1, HitKeeps
    <2>4. CASE t \in faulted'
      BY <2>4 DEF TrackedIfPending
    <2>5. CASE t \notin faulted'
      <3>1. c = t => Queued(ready', t)
        BY <2>1, <2>2, <2>5, HitKeeps
      <3> QED
        BY <1>1, <2>1, <2>2, <2>3, <3>1
    <2> QED
      BY <2>4, <2>5
  <1>4. CASE PushRequeued(a)
    <2>1. /\ request[a].pc = "requeue"
          /\ c \in Tasks /\ p \in PriorityColumn
          /\ ready' = EnqueueWithPriority(ready, c, p) \/ ready' = ready
          /\ scheduled' = Schedule(scheduled, c, p) \/ scheduled' = scheduled
          /\ request' = [request EXCEPT ![a] = NoRequest]
          /\ UNCHANGED <<events, worker, faulted>>
      BY <1>4, Holds DEF PushRequeued, history
    <2>2. Queued(ready, t) => Queued(ready', t)
      BY <2>1, PushKeeps DEF TypeInv
    <2>3. OnSchedule(scheduled, t) => OnSchedule(scheduled', t)
      BY <2>1 DEF OnSchedule, Schedule
    <2> QED
      BY <1>1, <2>1, <2>2, <2>3
  <1> QED
    BY <1>2, <1>3, <1>4 DEF RequestStep

(* No new admin request loses a task.                                      *)
LEMMA NewRequestTracks ==
    ASSUME TypeInv, NewRequest, NEW t \in Tasks, TrackedIfPending(t)
    PROVE  TrackedIfPending(t)'
  <1>1. ASSUME NEW c \in Tasks, HandleCancelTask(c) \/ HandleRemoveDLQTask(c)
        PROVE  TrackedIfPending(t)'
    <2>1. /\ \/ events' = UpdateEventStatus(events, c, "cancelled")
             \/ events' = events
          /\ UNCHANGED <<ready, scheduled, worker, request, faulted>>
      BY <1>1 DEF HandleCancelTask, HandleRemoveDLQTask, CancelEventIfPending,
                  queue, history
    <2>2. events'[t].status = "pending" => events[t].status = "pending"
      BY <2>1 DEF TypeInv, UpdateEventStatus, Row
    <2>3. Tracked(t) => Tracked(t)'
      BY <2>1 DEF Tracked, Undecided, Executing
    <2> QED
      BY <2>1, <2>2, <2>3 DEF TrackedIfPending
  <1>2. ASSUME NEW a \in Admins, NEW c \in Tasks, NEW r \in Outcome,
               HandleRetryTask(a, c, r)
        PROVE  TrackedIfPending(t)'
    BY <1>2, ResetTracks DEF HandleRetryTask, queue
  <1>3. ASSUME NEW a \in Admins, request[a].pc = "idle",
               \A b \in Admins \ {a} : request'[b] = request[b],
               UNCHANGED <<events, ready, scheduled, worker>>,
               \A u : u \notin faulted' => u \notin faulted
        PROVE  TrackedIfPending(t)'
    <2>1. Tracked(t) => Tracked(t)'
      BY <1>3, RequestKeepsTrack
    <2> QED
      BY <1>3, <2>1 DEF TrackedIfPending
  <1>4. ASSUME NEW a \in Admins, NEW c \in Tasks, HandleRequeueTask(a, c)
        PROVE  TrackedIfPending(t)'
    <2>1. \A b \in Admins \ {a} : request'[b] = request[b]
      BY <1>4 DEF HandleRequeueTask, TypeInv
    <2> QED
      BY <1>3, <1>4, <2>1 DEF HandleRequeueTask, queue
  <1>5. ASSUME NEW a \in Admins, NEW c \in Tasks, NEW r \in Outcome,
               HandleRetryDLQTask(a, c, r)
        PROVE  TrackedIfPending(t)'
    <2>1. \A b \in Admins \ {a} : request'[b] = request[b]
      BY <1>5 DEF HandleRetryDLQTask, TypeInv
    <2>2. \A u : u \notin faulted' => u \notin faulted
      BY <1>5, HitKeeps DEF HandleRetryDLQTask
    <2> QED
      BY <1>3, <1>5, <2>1, <2>2 DEF HandleRetryDLQTask
  <1> QED
    BY <1>1, <1>2, <1>4, <1>5 DEF NewRequest

(* Neither the scheduler nor a crash loses a task unnoticed.               *)
LEMMA OtherStepTracks ==
    ASSUME TypeInv, Promote \/ (\E c \in Tasks : ReachExecuteAt(c)) \/ Crash,
           NEW t \in Tasks, TrackedIfPending(t)
    PROVE  TrackedIfPending(t)'
  <1>1. ASSUME NEW entry \in Scheduled, NEW r \in Outcome,
               PromoteScheduled(entry, r)
        PROVE  TrackedIfPending(t)'
    <2>1. entry[1] \in Tasks /\ entry[2] \in PriorityColumn
      BY DEF Scheduled
    <2>2. /\ ready' = EnqueueWithPriority(ready, entry[1], entry[2])
          /\ scheduled \ {entry} \subseteq scheduled'
          /\ Hit(r, entry[1])
          /\ UNCHANGED <<events, worker, request>>
      BY <1>1 DEF PromoteScheduled, Unschedule
    <2>3. /\ Queued(ready, t) => Queued(ready', t)
          /\ Queued(ready', entry[1])
      BY <2>1, <2>2, PushKeeps DEF TypeInv
    <2>4. OnSchedule(scheduled, t) => OnSchedule(scheduled', t) \/ t = entry[1]
      BY <2>2 DEF OnSchedule
    <2>5. Tracked(t) => Tracked(t)'
      BY <2>2, <2>3, <2>4 DEF Tracked, Undecided, Executing
    <2>6. t \notin faulted' => t \notin faulted
      BY <2>2, HitKeeps
    <2> QED
      BY <2>2, <2>5, <2>6 DEF TrackedIfPending
  <1>2. ASSUME NEW c \in Tasks, ReachExecuteAt(c)
        PROVE  TrackedIfPending(t)'
    <2>1. UNCHANGED <<events, ready, scheduled, worker, request, faulted>>
      BY <1>2 DEF ReachExecuteAt, queue, history
    <2> QED
      BY <2>1 DEF TrackedIfPending, Tracked, Undecided, Executing
  <1>3. CASE Crash
    <2>1. /\ faulted' = faulted \cup {u \in Tasks : HeldByWorker(u) \/ HeldByRequest(u)}
          /\ UNCHANGED <<events, ready, scheduled>>
      BY <1>3 DEF Crash, queue
    <2> SUFFICES ASSUME events[t].status = "pending", t \notin faulted'
                 PROVE  Tracked(t)'
      BY <2>1 DEF TrackedIfPending
    <2>2. ~HeldByWorker(t) /\ ~HeldByRequest(t) /\ Tracked(t)
      BY <2>1 DEF TrackedIfPending
    <2>3. Queued(ready, t) \/ OnSchedule(scheduled, t)
      BY <2>2 DEF HeldByWorker, HeldByRequest, Tracked, Undecided, Executing
    <2> QED
      BY <2>1, <2>3 DEF Tracked
  <1> QED
    BY <1>1, <1>2, <1>3 DEF Promote

(* Accepted tasks start in the queue or on the schedule.                   *)
LEMMA InitTracks == Init => PendingIsTracked
  <1> SUFFICES ASSUME Init, NEW t \in Tasks, events[t].status = "pending"
               PROVE  Tracked(t)
    BY DEF PendingIsTracked
  <1>1. PICK body \in [Accepted -> Bodies] :
          /\ events = [u \in Tasks |->
                         IF u \in Accepted
                         THEN NewRow(body[u].step, NoTask, body[u].next)
                         ELSE Absent]
          /\ ready = [p \in Priorities |-> [u \in Tasks |->
                         IF /\ u \in Accepted
                            /\ ~body[u].step.executeAt
                            /\ Level(body[u].step.priority) = p
                         THEN 1 ELSE 0]]
          /\ scheduled = {<<u, body[u].step.priority>> :
                            u \in {v \in Accepted : body[v].step.executeAt}}
    BY DEF Init
  <1>2. t \in Accepted
    BY <1>1 DEF Absent
  <1>3. body[t] \in [step : [priority : RequestPriority, executeAt : BOOLEAN],
                     next : Seq(Step)]
    BY <1>2, LifecycleAssumption
  <1>4. body[t].step.priority \in RequestPriority
    BY <1>3
  <1>5. CASE body[t].step.executeAt
    <2>1. <<t, body[t].step.priority>> \in scheduled
      BY <1>1, <1>2, <1>5
    <2> QED
      BY <1>4, <2>1 DEF Tracked, OnSchedule, PriorityColumn, RequestPriority
  <1>6. CASE ~body[t].step.executeAt
    <2>1. PICK l \in Priorities : l = Level(body[t].step.priority)
      BY DEF Level, Priorities
    <2>2. ready[l][t] = 1
      BY <1>1, <1>2, <1>6, <2>1
    <2> QED
      BY <2>2 DEF Tracked, Queued
  <1> QED
    BY <1>5, <1>6

(* Every step keeps a pending task tracked.                                *)
LEMMA TrackStep ==
    ASSUME TypeInv, [Next]_vars, NEW t \in Tasks, TrackedIfPending(t)
    PROVE  TrackedIfPending(t)'
  <1>1. CASE \E w \in Workers : WorkerStep(w)
    BY <1>1, WorkerStepTracks
  <1>2. CASE \E a \in Admins : RequestStep(a)
    BY <1>2, RequestStepTracks
  <1>3. CASE NewRequest
    BY <1>3, NewRequestTracks
  <1>4. CASE Promote \/ (\E c \in Tasks : ReachExecuteAt(c)) \/ Crash
    BY <1>4, OtherStepTracks
  <1>5. CASE UNCHANGED vars
    BY <1>5 DEF vars, TrackedIfPending, Tracked, Undecided, Executing
  <1> QED
    BY <1>1, <1>2, <1>3, <1>4, <1>5 DEF Next

(* No task is forgotten: whatever workers, cancels, retries, requeues,     *)
(* chained steps, promotions, failing writes and crashes interleave, a     *)
(* pending task that no fault has hit is queued, scheduled, with a worker  *)
(* that owes it a status, or about to be pushed by its retry request.      *)
THEOREM PendingNeverLost == Spec => []PendingIsTracked
  <1>1. TypeInv /\ PendingIsTracked /\ [Next]_vars => PendingIsTracked'
    <2> SUFFICES ASSUME TypeInv, PendingIsTracked, [Next]_vars,
                        NEW t \in Tasks
                 PROVE  TrackedIfPending(t)'
      BY DEF PendingIsTracked, TrackedIfPending
    <2>1. TrackedIfPending(t)
      BY DEF PendingIsTracked, TrackedIfPending
    <2> QED
      BY <2>1, TrackStep
  <1> QED
    BY <1>1, InitTracks, TypeInvariant, PTL DEF Spec

-----------------------------------------------------------------------------
(* Failed tasks.                                                           *)

(* Worker w has given t up and has not dead-lettered it yet.               *)
GivingUp(w, t) ==
    worker[w].task = t /\ worker[w].pc \in {"logGiveUp", "deadLetter"}

(* Request a has taken t off the dead-letter list and is about to reset it.*)
Resetting(a, t) == request[a].task = t /\ request[a].pc = "reset"

Recoverable(t) ==
    \/ t \in dlq
    \/ \E w \in Workers : GivingUp(w, t)
    \/ \E a \in Admins : Resetting(a, t)

RecoverableIfFailed(t) ==
    events[t].status = "failed" /\ t \notin faulted \cup removed =>
       Recoverable(t)

(* Steps that fail no task, that take no task off the dead-letter list and *)
(* that leave no given-up task and no pending reset behind.                *)
LEMMA KeepsRecoverable ==
    ASSUME NEW t \in Tasks, RecoverableIfFailed(t),
           events'[t].status = "failed" => events[t].status = "failed",
           t \notin faulted' => t \notin faulted,
           t \notin removed' => t \notin removed \/ t \in dlq',
           t \in dlq => t \in dlq',
           \A w \in Workers :
              GivingUp(w, t) => GivingUp(w, t)' \/ t \in dlq' \/ t \in faulted',
           \A a \in Admins :
              Resetting(a, t) => \/ Resetting(a, t)'
                                 \/ t \in faulted'
                                 \/ events'[t].status # "failed"
    PROVE  RecoverableIfFailed(t)'
  BY DEF RecoverableIfFailed, Recoverable

(* A worker step that leaves the requests alone, fails nothing and does    *)
(* not interrupt a worker between giving up and dead-lettering.            *)
LEMMA WorkerKeepsRecoverable ==
    ASSUME NEW w \in Workers, NEW t \in Tasks, RecoverableIfFailed(t),
           OthersKeep(w), request' = request,
           events'[t].status = "failed" => events[t].status = "failed",
           t \notin faulted' => t \notin faulted,
           t \notin removed' => t \notin removed \/ t \in dlq',
           t \in dlq => t \in dlq',
           GivingUp(w, t) => GivingUp(w, t)' \/ t \in dlq' \/ t \in faulted'
    PROVE  RecoverableIfFailed(t)'
  <1>1. \A v \in Workers :
           GivingUp(v, t) => GivingUp(v, t)' \/ t \in dlq' \/ t \in faulted'
    BY DEF OthersKeep, GivingUp
  <1>2. \A a \in Admins : Resetting(a, t) => Resetting(a, t)'
    BY DEF Resetting
  <1> QED
    BY <1>1, <1>2, KeepsRecoverable

(* No step of a worker puts a failed task beyond recovery.                 *)
LEMMA WorkerStepRecovers ==
    ASSUME TypeInv, NEW w \in Workers, WorkerStep(w),
           NEW t \in Tasks, RecoverableIfFailed(t)
    PROVE  RecoverableIfFailed(t)'
  <1>1. ASSUME NEW p \in Priorities, NEW c \in Tasks, NEW r \in Outcome,
               Take(w, p, c, r)
        PROVE  RecoverableIfFailed(t)'
    <2>1. /\ worker[w].pc = "idle"
          /\ Hit(r, c)
          /\ UNCHANGED <<events, dlq, request, removed>>
      BY <1>1 DEF Take
    <2>2. OthersKeep(w)
      BY <1>1 DEF Take, TypeInv, OthersKeep
    <2>3. t \notin faulted' => t \notin faulted
      BY <2>1, HitKeeps
    <2>4. ~GivingUp(w, t)
      BY <2>1 DEF GivingUp
    <2> QED
      BY <2>1, <2>2, <2>3, <2>4, WorkerKeepsRecoverable
  <1>2. CASE Fetch(w) \/ RunHandler(w)
    <2>1. /\ worker[w].pc \in {"fetch", "run"}
          /\ \/ Release(w) \/ NextAttempt(w) \/ Goto(w, "run")
             \/ Goto(w, "succeed") \/ Goto(w, "saveNext") \/ Goto(w, "logRetry")
          /\ events' = UpdateEventResult(events, worker[w].task) \/ events' = events
          /\ UNCHANGED <<dlq, request, faulted, removed>>
      BY <1>2 DEF Fetch, RunHandler, queue, history
    <2>2. events'[t].status = events[t].status
      <3>1. events \in [Tasks -> Row]
        BY DEF TypeInv
      <3>2. UpdateEventResult(events, worker[w].task)[t].status = events[t].status
        BY <3>1 DEF UpdateEventResult, Row
      <3> QED
        BY <2>1, <3>2
    <2>3. OthersKeep(w)
      BY <2>1, Moves DEF MovesTo
    <2>4. ~GivingUp(w, t)
      BY <2>1 DEF GivingUp
    <2> QED
      BY <2>1, <2>2, <2>3, <2>4, WorkerKeepsRecoverable
  <1>3. ASSUME NEW c \in Tasks, NEW r \in Outcome, SaveNext(w, c, r)
        PROVE  RecoverableIfFailed(t)'
    <2> DEFINE row == NewRow(Head(events[worker[w].task].next),
                             RootTaskID(events, worker[w].task),
                             Tail(events[worker[w].task].next))
    <2>1. /\ worker[w].pc = "saveNext"
          /\ events' = InsertEvent(events, c, row) \/ events' = events
          /\ faulted' = faulted \/ Hit(r, c)
          /\ UNCHANGED <<dlq, request, removed>>
      BY <1>3 DEF SaveNext, After, queue
    <2>2. row.status = "pending"
      BY DEF NewRow
    <2>3. events'[t].status = "failed" => events[t].status = "failed"
      BY <2>1, <2>2 DEF TypeInv, InsertEvent
    <2>4. OthersKeep(w)
      BY <1>3 DEF SaveNext, TypeInv, OthersKeep
    <2>5. t \notin faulted' => t \notin faulted
      BY <2>1, HitKeeps
    <2>6. ~GivingUp(w, t)
      BY <2>1 DEF GivingUp
    <2> QED
      BY <2>1, <2>3, <2>4, <2>5, <2>6, WorkerKeepsRecoverable
  <1>4. ASSUME NEW r \in Outcome, EnqueueNext(w, r)
        PROVE  RecoverableIfFailed(t)'
    <2>1. /\ worker[w].pc = "enqueueNext"
          /\ Hit(r, worker[w].child)
          /\ UNCHANGED <<events, dlq, request, removed>>
      BY <1>4 DEF EnqueueNext
    <2>2. OthersKeep(w)
      BY <1>4 DEF EnqueueNext, TypeInv, OthersKeep
    <2>3. t \notin faulted' => t \notin faulted
      BY <2>1, HitKeeps
    <2>4. ~GivingUp(w, t)
      BY <2>1 DEF GivingUp
    <2> QED
      BY <2>1, <2>2, <2>3, <2>4, WorkerKeepsRecoverable
  <1>5. ASSUME NEW r \in Outcome, MarkProcessed(w, r)
        PROVE  RecoverableIfFailed(t)'
    <2>1. /\ worker[w].pc = "succeed"
          /\ Goto(w, "logSucceed")
          /\ \/ events' = UpdateEventStatus(events, worker[w].task, "processed")
             \/ events' = events
          /\ Hit(r, worker[w].task)
          /\ UNCHANGED <<dlq, request, removed>>
      BY <1>5 DEF MarkProcessed, SetStatus, After, queue
    <2>2. events'[t].status = "failed" => events[t].status = "failed"
      BY <2>1 DEF TypeInv, UpdateEventStatus, Row
    <2>3. OthersKeep(w) /\ (t \notin faulted' => t \notin faulted)
      BY <2>1, Moves, HitKeeps DEF MovesTo
    <2>4. ~GivingUp(w, t)
      BY <2>1 DEF GivingUp
    <2> QED
      BY <2>1, <2>2, <2>3, <2>4, WorkerKeepsRecoverable
  <1>6. ASSUME NEW r \in Outcome, MarkFailed(w, r)
        PROVE  RecoverableIfFailed(t)'
    <2>1. /\ worker[w].pc = "giveUp"
          /\ Goto(w, "logGiveUp")
          /\ \/ events' = UpdateEventStatus(events, worker[w].task, "failed")
             \/ events' = events
          /\ Hit(r, worker[w].task)
          /\ UNCHANGED <<dlq, request, removed>>
      BY <1>6 DEF MarkFailed, SetStatus, After, queue
    <2>2. MovesTo(w, {"logGiveUp"}) /\ (t \notin faulted' => t \notin faulted)
      BY <2>1, Moves, HitKeeps
    <2>3. CASE t = worker[w].task
      <3>1. GivingUp(w, t)'
        BY <2>2, <2>3 DEF MovesTo, GivingUp
      <3> QED
        BY <3>1 DEF RecoverableIfFailed, Recoverable
    <2>4. CASE t # worker[w].task
      <3>1. events'[t] = events[t]
        BY <2>1, <2>4 DEF TypeInv, UpdateEventStatus
      <3>2. ~GivingUp(w, t)
        BY <2>4 DEF GivingUp
      <3> QED
        BY <2>1, <2>2, <3>1, <3>2, WorkerKeepsRecoverable DEF MovesTo
    <2> QED
      BY <2>3, <2>4
  <1>7. ASSUME NEW r \in Outcome,
               LogSucceed(w, r) \/ LogRetry(w, r) \/ LogGiveUp(w, r)
        PROVE  RecoverableIfFailed(t)'
    <2>1. /\ \/ worker[w].pc = "logSucceed" /\ Release(w)
             \/ worker[w].pc = "logRetry" /\ NextAttempt(w)
             \/ worker[w].pc = "logGiveUp" /\ Goto(w, "deadLetter")
          /\ Hit(r, worker[w].task)
          /\ UNCHANGED <<events, dlq, request, removed>>
      BY <1>7 DEF LogSucceed, LogRetry, LogGiveUp, RecordAttempt, queue
    <2>2. OthersKeep(w) /\ (t \notin faulted' => t \notin faulted)
      BY <2>1, Moves, HitKeeps DEF MovesTo
    <2>3. GivingUp(w, t) => GivingUp(w, t)'
      BY <2>1, Moves DEF GivingUp, MovesTo
    <2> QED
      BY <2>1, <2>2, <2>3, WorkerKeepsRecoverable
  <1>8. ASSUME NEW r \in Outcome, DeadLetter(w, r)
        PROVE  RecoverableIfFailed(t)'
    <2> DEFINE c == worker[w].task
    <2>1. /\ Release(w)
          /\ \/ r = "lost" /\ UNCHANGED <<dlq, removed>>
             \/ dlq' = dlq \cup {c} /\ removed' = removed \ {c}
          /\ Hit(r, c)
          /\ UNCHANGED <<events, request>>
      BY <1>8 DEF DeadLetter, After, EnqueueToDLQ
    <2>2. OthersKeep(w) /\ (t \notin faulted' => t \notin faulted)
      BY <2>1, Moves, HitKeeps
    <2>3. GivingUp(w, t) => t \in dlq' \/ t \in faulted'
      BY <2>1, HitKeeps DEF GivingUp
    <2>4. (t \in dlq => t \in dlq') /\ (t \notin removed' => t \notin removed \/ t \in dlq')
      BY <2>1
    <2> QED
      BY <2>1, <2>2, <2>3, <2>4, WorkerKeepsRecoverable
  <1> QED
    BY <1>1, <1>2, <1>3, <1>4, <1>5, <1>6, <1>7, <1>8 DEF WorkerStep

(* A request step that leaves the workers alone.                           *)
LEMMA RequestKeepsRecoverable ==
    ASSUME NEW a \in Admins, NEW t \in Tasks, RecoverableIfFailed(t),
           UNCHANGED <<worker, removed>>,
           \A b \in Admins \ {a} : request'[b] = request[b],
           events'[t].status = "failed" => events[t].status = "failed",
           t \notin faulted' => t \notin faulted,
           t \in dlq => t \in dlq',
           Resetting(a, t) => t \in faulted' \/ events'[t].status # "failed"
    PROVE  RecoverableIfFailed(t)'
  <1>1. \A w \in Workers : GivingUp(w, t) => GivingUp(w, t)'
    BY DEF GivingUp
  <1>2. \A b \in Admins :
           Resetting(b, t) => \/ Resetting(b, t)'
                              \/ t \in faulted'
                              \/ events'[t].status # "failed"
    BY DEF Resetting
  <1> QED
    BY <1>1, <1>2, KeepsRecoverable

(* Resetting a task ends in "pending", or in a fault.                      *)
LEMMA ResetRecovers ==
    ASSUME TypeInv, NEW a \in Admins, NEW c \in Tasks, NEW r \in Outcome,
           request[a].pc = "idle" \/ request[a].task = c,
           Reset(a, c, r), UNCHANGED <<dlq, worker, removed>>,
           NEW t \in Tasks, RecoverableIfFailed(t)
    PROVE  RecoverableIfFailed(t)'
  <1>1. /\ Retryable(events, c)
        /\ events' = After(r, events, ResetTaskForRetry(events, c))
        /\ Hit(r, c)
        /\ \A b \in Admins \ {a} : request'[b] = request[b]
    BY DEF Reset, TypeInv
  <1>2. t \notin faulted' => t \notin faulted
    BY <1>1, HitKeeps
  <1>3. events \in [Tasks -> Row]
    BY DEF TypeInv
  <1>4. ResetTaskForRetry(events, c) = [events EXCEPT ![c].status = "pending"]
    BY <1>1 DEF ResetTaskForRetry, UpdateEventStatus
  <1>5. /\ events'[t].status = "failed" => events[t].status = "failed"
        /\ t = c /\ r # "lost" => events'[t].status = "pending"
    BY <1>1, <1>3, <1>4 DEF After, Row
  <1>6. t = c => t \in faulted' \/ events'[t].status # "failed"
    BY <1>1, <1>5, HitKeeps
  <1>7. Resetting(a, t) => t = c
    BY DEF Resetting
  <1> QED
    BY <1>1, <1>2, <1>5, <1>6, <1>7, RequestKeepsRecoverable

(* No step of an admin request puts a failed task beyond recovery.         *)
LEMMA RequestStepRecovers ==
    ASSUME TypeInv, NEW a \in Admins, RequestStep(a),
           NEW t \in Tasks, RecoverableIfFailed(t)
    PROVE  RecoverableIfFailed(t)'
  <1>1. ASSUME NEW r \in Outcome, ResetDLQTask(a, r)
        PROVE  RecoverableIfFailed(t)'
    <2> DEFINE c == request[a].task
    <2>1. /\ c \in Tasks
          /\ \/ Reset(a, c, r)
             \/ /\ ~Retryable(events, c)
                /\ request' = [request EXCEPT ![a] = NoRequest]
                /\ UNCHANGED <<events, faulted>>
          /\ UNCHANGED <<dlq, worker, removed>>
      BY <1>1, Holds DEF ResetDLQTask, queue
    <2>2. CASE Reset(a, c, r)
      BY <2>1, <2>2, ResetRecovers
    <2>3. CASE ~Reset(a, c, r)
      <3>1. \A b \in Admins \ {a} : request'[b] = request[b]
        BY <2>1, <2>3 DEF TypeInv
      <3>2. Resetting(a, t) => events'[t].status # "failed"
        BY <2>1, <2>3 DEF Resetting, Retryable
      <3> QED
        BY <2>1, <2>3, <3>1, <3>2, RequestKeepsRecoverable
    <2> QED
      BY <2>2, <2>3
  <1>2. ASSUME request[a].pc \in {"enqueue", "requeue"},
               request' = [request EXCEPT ![a] = NoRequest],
               UNCHANGED <<events, dlq, worker, removed>>,
               t \notin faulted' => t \notin faulted
        PROVE  RecoverableIfFailed(t)'
    <2>1. \A b \in Admins \ {a} : request'[b] = request[b]
      BY <1>2 DEF TypeInv
    <2>2. ~Resetting(a, t)
      BY <1>2 DEF Resetting
    <2> QED
      BY <1>2, <2>1, <2>2, RequestKeepsRecoverable
  <1>3. ASSUME NEW r \in Outcome, EnqueueRetry(a, r)
        PROVE  RecoverableIfFailed(t)'
    BY <1>2, <1>3, HitKeeps DEF EnqueueRetry
  <1>4. CASE PushRequeued(a)
    BY <1>2, <1>4 DEF PushRequeued, history
  <1> QED
    BY <1>1, <1>3, <1>4 DEF RequestStep

(* No new admin request puts a failed task beyond recovery.                *)
LEMMA NewRequestRecovers ==
    ASSUME TypeInv, NewRequest, NEW t \in Tasks, RecoverableIfFailed(t)
    PROVE  RecoverableIfFailed(t)'
  <1>1. ASSUME NEW c \in Tasks, HandleCancelTask(c)
        PROVE  RecoverableIfFailed(t)'
    <2>1. /\ events' = UpdateEventStatus(events, c, "cancelled")
          /\ UNCHANGED <<dlq, worker, request, faulted, removed>>
      BY <1>1 DEF HandleCancelTask, CancelEventIfPending, queue, history
    <2>2. events'[t].status = "failed" => events[t].status = "failed"
      BY <2>1 DEF TypeInv, UpdateEventStatus, Row
    <2> QED
      BY <2>1, <2>2 DEF RecoverableIfFailed, Recoverable, GivingUp, Resetting
  <1>2. ASSUME NEW c \in Tasks, HandleRemoveDLQTask(c)
        PROVE  RecoverableIfFailed(t)'
    <2>1. /\ dlq' = dlq \ {c}
          /\ removed' = removed \cup {c}
          /\ UNCHANGED <<events, worker, request, faulted>>
      BY <1>2 DEF HandleRemoveDLQTask, RemoveFromDLQ
    <2> QED
      BY <2>1 DEF RecoverableIfFailed, Recoverable, GivingUp, Resetting
  <1>3. ASSUME NEW a \in Admins, NEW c \in Tasks, HandleRequeueTask(a, c)
        PROVE  RecoverableIfFailed(t)'
    <2>1. /\ request[a].pc = "idle"
          /\ UNCHANGED <<events, dlq, worker, faulted, removed>>
          /\ \A b \in Admins \ {a} : request'[b] = request[b]
      BY <1>3 DEF HandleRequeueTask, TypeInv, queue
    <2>2. ~Resetting(a, t)
      BY <2>1 DEF Resetting
    <2> QED
      BY <2>1, <2>2, RequestKeepsRecoverable
  <1>4. ASSUME NEW a \in Admins, NEW c \in Tasks, NEW r \in Outcome,
               HandleRetryTask(a, c, r)
        PROVE  RecoverableIfFailed(t)'
    BY <1>4, ResetRecovers DEF HandleRetryTask, queue
  <1>5. ASSUME NEW a \in Admins, NEW c \in Tasks, NEW r \in Outcome,
               HandleRetryDLQTask(a, c, r)
        PROVE  RecoverableIfFailed(t)'
    <2>1. /\ request[a].pc = "idle"
          /\ dlq' = dlq \ {c}
          /\ Hit(r, c)
          /\ r = "ok" => request' = [request EXCEPT ![a] =
                            [pc |-> "reset", task |-> c, priority |-> "none"]]
          /\ \A b \in Admins \ {a} : request'[b] = request[b]
          /\ UNCHANGED <<events, worker, removed>>
      BY <1>5 DEF HandleRetryDLQTask, RemoveFromDLQ, TypeInv
    <2>2. t \notin faulted' => t \notin faulted
      BY <2>1, HitKeeps
    <2>3. CASE t = c
      <3>1. t \in faulted' \/ Resetting(a, t)'
        BY <2>1, <2>3, HitKeeps DEF TypeInv, Resetting
      <3> QED
        BY <3>1 DEF RecoverableIfFailed, Recoverable
    <2>4. CASE t # c
      <3>1. ~Resetting(a, t)
        BY <2>1 DEF Resetting
      <3> QED
        BY <2>1, <2>2, <2>4, <3>1, RequestKeepsRecoverable
    <2> QED
      BY <2>3, <2>4
  <1> QED
    BY <1>1, <1>2, <1>3, <1>4, <1>5 DEF NewRequest

(* Neither the scheduler nor a crash puts a failed task beyond recovery.   *)
LEMMA OtherStepRecovers ==
    ASSUME Promote \/ (\E c \in Tasks : ReachExecuteAt(c)) \/ Crash,
           NEW t \in Tasks, RecoverableIfFailed(t)
    PROVE  RecoverableIfFailed(t)'
  <1>1. ASSUME UNCHANGED <<events, dlq, worker, request, removed>>,
               t \notin faulted' => t \notin faulted
        PROVE  RecoverableIfFailed(t)'
    BY <1>1 DEF RecoverableIfFailed, Recoverable, GivingUp, Resetting
  <1>2. ASSUME NEW entry \in Scheduled, NEW r \in Outcome,
               PromoteScheduled(entry, r)
        PROVE  RecoverableIfFailed(t)'
    BY <1>1, <1>2, HitKeeps DEF PromoteScheduled
  <1>3. ASSUME NEW c \in Tasks, ReachExecuteAt(c)
        PROVE  RecoverableIfFailed(t)'
    BY <1>1, <1>3 DEF ReachExecuteAt, queue, history
  <1>4. CASE Crash
    <2>1. /\ faulted' = faulted \cup {u \in Tasks : HeldByWorker(u) \/ HeldByRequest(u)}
          /\ UNCHANGED <<events, dlq, removed>>
      BY <1>4 DEF Crash, queue
    <2>2. t \notin faulted' => ~HeldByWorker(t) /\ ~HeldByRequest(t)
      BY <2>1
    <2>3. t \notin faulted' /\ Recoverable(t) => t \in dlq
      BY <2>2 DEF HeldByWorker, HeldByRequest, Recoverable, GivingUp, Resetting
    <2> QED
      BY <2>1, <2>3 DEF RecoverableIfFailed, Recoverable
  <1> QED
    BY <1>2, <1>3, <1>4 DEF Promote

(* No step puts a failed task beyond recovery.                             *)
LEMMA RecoverStep ==
    ASSUME TypeInv, [Next]_vars, NEW t \in Tasks, RecoverableIfFailed(t)
    PROVE  RecoverableIfFailed(t)'
  <1>1. CASE \E w \in Workers : WorkerStep(w)
    BY <1>1, WorkerStepRecovers
  <1>2. CASE \E a \in Admins : RequestStep(a)
    BY <1>2, RequestStepRecovers
  <1>3. CASE NewRequest
    BY <1>3, NewRequestRecovers
  <1>4. CASE Promote \/ (\E c \in Tasks : ReachExecuteAt(c)) \/ Crash
    BY <1>4, OtherStepRecovers
  <1>5. CASE UNCHANGED vars
    BY <1>5 DEF vars, RecoverableIfFailed, Recoverable, GivingUp, Resetting
  <1> QED
    BY <1>1, <1>2, <1>3, <1>4, <1>5 DEF Next

(* A task that exhausted its retries stays within the operator's reach: on *)
(* the dead-letter list, with the worker about to put it there, or with    *)
(* the DLQ retry about to reset it, unless an operator removed it or a     *)
(* fault hit it, whatever retries and workers overlap.                     *)
THEOREM FailedNeverLost == Spec => []FailedIsRecoverable
  <1>1. Init => FailedIsRecoverable
    <2> SUFFICES ASSUME Init, NEW t \in Tasks PROVE events[t].status # "failed"
      BY DEF FailedIsRecoverable
    <2> QED
      BY DEF Init, NewRow, Absent
  <1>2. TypeInv /\ FailedIsRecoverable /\ [Next]_vars => FailedIsRecoverable'
    <2> SUFFICES ASSUME TypeInv, \A t \in Tasks : RecoverableIfFailed(t),
                        [Next]_vars, NEW t \in Tasks
                 PROVE  RecoverableIfFailed(t)'
      BY DEF FailedIsRecoverable, RecoverableIfFailed, Recoverable, GivingUp,
             Resetting
    <2> QED
      BY RecoverStep
  <1> QED
    BY <1>1, <1>2, TypeInvariant, PTL DEF Spec
=============================================================================
