--------------------------- MODULE TaskCopyProofs ---------------------------
(***************************************************************************)
(* A task that no operator re-issued and no fault hit exists once: proofs  *)
(* that it is in one place only, that what the dead-letter list shows has  *)
(* failed, that its log entry tells how it ended, and that its next step   *)
(* is chained once.  From this, that TaskLifecycle implements TaskService: *)
(* its initial states map to initial states of the service, and every step *)
(* to one of its steps.                                                    *)
(***************************************************************************)
EXTENDS TaskRefinement, TaskRowProofs, FiniteSetTheorems

(* Neither issued again nor hit by a fault.                                *)
Plain(t) == t \notin faulted /\ reissued[t] = 0

HasTask(w, t) == t \in {worker[w].task, worker[w].child}

(* At most one worker, one list entry or one schedule entry has t.         *)
OnePlace(t) ==
    /\ ~HeldByRequest(t)
    /\ \A v, w \in Workers : HasTask(v, t) /\ HasTask(w, t) => v = w
    /\ \A w \in Workers : worker[w].child = t => worker[w].task # t
    /\ \A p \in Priorities : ready[p][t] <= 1
    /\ \A p, q \in Priorities : ready[p][t] > 0 /\ ready[q][t] > 0 => p = q
    /\ \A p, q \in PriorityColumn :
          <<t, p>> \in scheduled /\ <<t, q>> \in scheduled => p = q
    /\ ~(Queued(ready, t) /\ OnSchedule(scheduled, t))
    /\ HeldByWorker(t) => ~Queued(ready, t) /\ ~OnSchedule(scheduled, t)

(* t waits for its turn or is being worked on.                             *)
Active(t) ==
    \/ Queued(ready, t)
    \/ OnSchedule(scheduled, t)
    \/ \E w \in Workers : Undecided(w, t) \/ worker[w].child = t

(* The status agrees with the place.                                       *)
StatusFits(t) ==
    /\ Active(t) => events[t].status \in {"pending", "cancelled"}
    /\ t \in dlq => events[t].status = "failed"
    /\ \A w \in Workers :
          worker[w].task = t =>
             /\ worker[w].pc \in {"logGiveUp", "deadLetter"} =>
                   events[t].status = "failed"
             /\ worker[w].pc = "logSucceed" => events[t].status = "processed"

(* The log agrees with the status once the worker is through.              *)
LogFits(t) ==
    /\ \A w \in Workers :
          worker[w].task = t =>
             /\ worker[w].pc \in {"giveUp", "logGiveUp"} =>
                   worker[w].attempt = MaxRetries
             /\ worker[w].pc = "deadLetter" =>
                   logs[t] = [status |-> "failed", attempt |-> MaxRetries]
    /\ events[t].status \in {"processed", "failed"} /\ ~HeldByWorker(t) =>
          /\ logs[t].status = events[t].status
          /\ logs[t].status = "failed" => logs[t].attempt = MaxRetries

(* The inductive invariant of plain tasks (given TypeInv and RowInv).      *)
PlainInv(t) == Plain(t) => OnePlace(t) /\ StatusFits(t) /\ LogFits(t)

-----------------------------------------------------------------------------
(* How the places of t change.                                             *)

(* The lists gain one entry for t, at some level.                          *)
GainsEntry(t) ==
    \E p \in Priorities :
       /\ ready'[p][t] = ready[p][t] + 1
       /\ \A q \in Priorities \ {p} : ready'[q][t] = ready[q][t]

(* Nothing gains t.                                                        *)
NoGain(t) ==
    /\ \A w \in Workers : /\ worker'[w].task = t => worker[w].task = t
                          /\ worker'[w].child = t => worker[w].child = t
    /\ \A p \in Priorities : ready'[p][t] = ready[p][t]
    /\ \A p \in PriorityColumn : <<t, p>> \in scheduled' => <<t, p>> \in scheduled

(* A worker takes t from a list.                                           *)
IsTaken(t) ==
    \E w \in Workers, p \in Priorities :
       /\ OthersKeep(w)
       /\ worker'[w].task = t /\ worker'[w].child # t
       /\ ready[p][t] > 0
       /\ ready'[p][t] = ready[p][t] - 1
       /\ \A q \in Priorities \ {p} : ready'[q][t] = ready[q][t]
       /\ scheduled' = scheduled

(* A worker saves t as the next step of another task.                      *)
IsSaved(t) ==
    \E w \in Workers :
       /\ OthersKeep(w)
       /\ Inserts(w, t)
       /\ worker'[w].task = worker[w].task
       /\ UNCHANGED <<ready, scheduled>>

(* A worker puts its child t into a list or into the schedule.             *)
IsEnqueued(t) ==
    \E w \in Workers :
       /\ OthersKeep(w)
       /\ worker[w].child = t
       /\ worker'[w].task = worker[w].task /\ worker'[w].child # t
       /\ \/ GainsEntry(t) /\ scheduled' = scheduled
          \/ /\ ready' = ready
             /\ \E p \in PriorityColumn : scheduled' = scheduled \cup {<<t, p>>}

(* The scheduler moves t into a list.                                      *)
IsPromoted(t) ==
    /\ worker' = worker
    /\ GainsEntry(t)
    /\ \E p \in PriorityColumn : /\ <<t, p>> \in scheduled
                                 /\ scheduled' = scheduled \ {<<t, p>>}

PlaceChange(t) ==
    NoGain(t) \/ IsTaken(t) \/ IsSaved(t) \/ IsEnqueued(t) \/ IsPromoted(t)

(* Pushing adds one entry to one list.                                     *)
LEMMA PushEntries ==
    ASSUME TypeInv, NEW c \in Tasks, NEW p \in PriorityColumn,
           ready' = EnqueueWithPriority(ready, c, p)
    PROVE  /\ GainsEntry(c)
           /\ \A t \in Tasks \ {c}, q \in Priorities : ready'[q][t] = ready[q][t]
  <1>1. PICK l \in Priorities : l = Level(p)
    BY DEF Level, Priorities
  <1>2. ready' = [ready EXCEPT ![l][c] = @ + 1]
    BY <1>1 DEF EnqueueWithPriority
  <1>3. ready \in [Priorities -> [Tasks -> Nat]]
    BY DEF TypeInv, Ready
  <1> QED
    BY <1>2, <1>3 DEF GainsEntry

(* Popping takes one entry from one list.                                  *)
LEMMA PopEntries ==
    ASSUME TypeInv, NEW c \in Tasks, NEW p \in Priorities,
           ready' = Dequeue(ready, p, c)
    PROVE  /\ ready'[p][c] = ready[p][c] - 1
           /\ \A q \in Priorities \ {p} : ready'[q][c] = ready[q][c]
           /\ \A t \in Tasks \ {c}, q \in Priorities : ready'[q][t] = ready[q][t]
  BY DEF TypeInv, Ready, Dequeue

(* A worker that keeps its task gains t only as a child.                   *)
LEMMA WorkerNoGain ==
    ASSUME NEW w \in Workers, NEW t \in Tasks, OthersKeep(w),
           worker'[w] = Idle \/ worker'[w].task \in {worker[w].task, NoTask},
           worker'[w] = Idle \/ worker'[w].child \in {worker[w].child, NoTask},
           \A p \in Priorities : ready'[p][t] = ready[p][t],
           \A p \in PriorityColumn : <<t, p>> \in scheduled' => <<t, p>> \in scheduled
    PROVE  NoGain(t)
  BY NoTaskAssumption DEF NoGain, OthersKeep, Idle

(* What a step of a worker does to the places of a task no fault hits.     *)
LEMMA WorkerStepPlaces ==
    ASSUME TypeInv, NEW w \in Workers, WorkerStep(w),
           NEW t \in Tasks, t \notin faulted'
    PROVE  PlaceChange(t)
  <1>1. ASSUME NEW p \in Priorities, NEW c \in Tasks, NEW r \in Outcome,
               Take(w, p, c, r)
        PROVE  PlaceChange(t)
    <2>1. /\ ready[p][c] > 0
          /\ ready' = Dequeue(ready, p, c)
          /\ scheduled' = scheduled
          /\ Hit(r, c)
          /\ r = "ok" => worker' = [worker EXCEPT ![w] = [pc |-> "fetch",
                            task |-> c, attempt |-> 1, child |-> NoTask]]
          /\ r # "ok" => worker' = worker
      BY <1>1 DEF Take, CanDequeue
    <2>2. /\ OthersKeep(w)
          /\ r = "ok" => worker'[w].task = c /\ worker'[w].child = NoTask
      BY <2>1 DEF TypeInv, OthersKeep
    <2>3. CASE t = c
      <3>1. worker'[w].task = t /\ worker'[w].child # t
        BY <2>1, <2>2, <2>3, HitKeeps, NoTaskAssumption
      <3> QED
        BY <2>1, <2>2, <2>3, <3>1, PopEntries DEF PlaceChange, IsTaken
    <2>4. CASE t # c
      <3>1. \A q \in Priorities : ready'[q][t] = ready[q][t]
        BY <2>1, <2>4, PopEntries
      <3>2. /\ worker'[w].task = t => worker[w].task = t
            /\ worker'[w].child = t => worker[w].child = t
        BY <2>1, <2>2, <2>4, NoTaskAssumption
      <3> QED
        BY <2>1, <2>2, <3>1, <3>2 DEF PlaceChange, NoGain, OthersKeep
    <2> QED
      BY <2>3, <2>4
  <1>2. ASSUME NEW c \in Tasks, NEW r \in Outcome, SaveNext(w, c, r)
        PROVE  PlaceChange(t)
    <2>1. /\ r = "ok" => Inserts(w, c)
          /\ UNCHANGED <<ready, scheduled>>
      BY <1>2, SaveInserts DEF SaveNext, queue
    <2>2. /\ OthersKeep(w)
          /\ worker'[w].task = worker[w].task
          /\ worker'[w].child = IF r = "ok" THEN c ELSE NoTask
      BY <1>2 DEF SaveNext, TypeInv, SoundWorker, WorkerState, OthersKeep
    <2>3. CASE t = c /\ r = "ok"
      BY <2>1, <2>2, <2>3 DEF PlaceChange, IsSaved
    <2>4. CASE ~(t = c /\ r = "ok")
      BY <2>1, <2>2, <2>4, NoTaskAssumption DEF PlaceChange, NoGain, OthersKeep
    <2> QED
      BY <2>3, <2>4
  <1>3. ASSUME NEW r \in Outcome, EnqueueNext(w, r)
        PROVE  PlaceChange(t)
    <2> DEFINE c == worker[w].child
               p == events[c].priority
    <2>1. /\ worker[w].pc = "enqueueNext"
          /\ Hit(r, c)
          /\ \/ scheduled' = Schedule(scheduled, c, p) /\ ready' = ready
             \/ ready' = EnqueueWithPriority(ready, c, p) /\ scheduled' = scheduled
             \/ r = "lost" /\ ready' = ready /\ scheduled' = scheduled
      BY <1>3 DEF EnqueueNext, After
    <2>2. /\ OthersKeep(w)
          /\ worker'[w].task = worker[w].task
          /\ worker'[w].child = NoTask
      BY <1>3 DEF EnqueueNext, TypeInv, SoundWorker, WorkerState, OthersKeep
    <2>3. c \in Tasks /\ p \in PriorityColumn
      BY <2>1, Holds DEF TypeInv, Row
    <2>4. CASE t = c
      <3>1. r = "ok"
        BY <2>1, <2>4, HitKeeps
      <3>2. worker'[w].child # t
        BY <2>2, NoTaskAssumption
      <3>3. \/ GainsEntry(t) /\ scheduled' = scheduled
            \/ ready' = ready /\ scheduled' = scheduled \cup {<<t, p>>}
        BY <2>1, <2>3, <2>4, <3>1, PushEntries DEF Schedule
      <3> QED
        BY <2>2, <2>3, <2>4, <3>2, <3>3 DEF PlaceChange, IsEnqueued
    <2>5. CASE t # c
      <3>1. \A q \in Priorities : ready'[q][t] = ready[q][t]
        BY <2>1, <2>3, <2>5, PushEntries
      <3>2. \A q \in PriorityColumn : <<t, q>> \in scheduled' => <<t, q>> \in scheduled
        BY <2>1, <2>5 DEF Schedule
      <3> QED
        BY <2>2, <3>1, <3>2, WorkerNoGain DEF PlaceChange
    <2> QED
      BY <2>4, <2>5
  <1>4. ASSUME NEW r \in Outcome,
               \/ Fetch(w) \/ RunHandler(w) \/ MarkProcessed(w, r)
               \/ LogSucceed(w, r) \/ LogRetry(w, r) \/ MarkFailed(w, r)
               \/ LogGiveUp(w, r) \/ DeadLetter(w, r)
        PROVE  PlaceChange(t)
    <2>1. /\ UNCHANGED <<ready, scheduled>>
          /\ Release(w) \/ NextAttempt(w) \/ \E pc : Goto(w, pc)
      BY <1>4 DEF Fetch, RunHandler, MarkProcessed, LogSucceed, LogRetry,
                  MarkFailed, LogGiveUp, DeadLetter, SetStatus, RecordAttempt,
                  queue
    <2>2. /\ OthersKeep(w)
          /\ \/ worker'[w] = Idle
             \/ /\ worker'[w].task = worker[w].task
                /\ worker'[w].child = worker[w].child
      BY <2>1, Moves DEF MovesTo
    <2> QED
      BY <2>1, <2>2, WorkerNoGain DEF PlaceChange
  <1> QED
    BY <1>1, <1>2, <1>3, <1>4 DEF WorkerStep, Outcome

(* What any step does to them.                                             *)
LEMMA PlaceEffect ==
    ASSUME TypeInv, [Next]_vars, NEW t \in Tasks, t \notin faulted',
           ~HeldByRequest(t)
    PROVE  PlaceChange(t)
  <1>0. ASSUME UNCHANGED <<ready, scheduled, worker>> PROVE PlaceChange(t)
    BY <1>0 DEF PlaceChange, NoGain
  <1>1. CASE \E w \in Workers : WorkerStep(w)
    BY <1>1, WorkerStepPlaces
  <1>2. ASSUME NEW a \in Admins, NEW r \in Outcome,
               EnqueueRetry(a, r) \/ PushRequeued(a)
        PROVE  PlaceChange(t)
    <2> DEFINE c == request[a].task
               p == request[a].priority
    <2>1. /\ c \in Tasks /\ p \in PriorityColumn
          /\ ready' = EnqueueWithPriority(ready, c, p) \/ ready' = ready
          /\ scheduled' = Schedule(scheduled, c, p) \/ scheduled' = scheduled
          /\ worker' = worker
      BY <1>2, Holds DEF EnqueueRetry, PushRequeued, After
    <2>2. t # c
      BY DEF HeldByRequest
    <2>3. \A q \in Priorities : ready'[q][t] = ready[q][t]
      BY <2>1, <2>2, PushEntries
    <2>4. \A q \in PriorityColumn : <<t, q>> \in scheduled' => <<t, q>> \in scheduled
      BY <2>1, <2>2 DEF Schedule
    <2> QED
      BY <2>1, <2>3, <2>4 DEF PlaceChange, NoGain
  <1>3. ASSUME NEW entry \in Scheduled, NEW r \in Outcome,
               PromoteScheduled(entry, r)
        PROVE  PlaceChange(t)
    <2>1. PICK c \in Tasks, p \in PriorityColumn : entry = <<c, p>>
      BY DEF Scheduled
    <2>2. /\ <<c, p>> \in scheduled
          /\ ready' = EnqueueWithPriority(ready, c, p)
          /\ r = "ok" => scheduled' = scheduled \ {<<c, p>>}
          /\ scheduled' \subseteq scheduled
          /\ Hit(r, c)
          /\ worker' = worker
      BY <1>3, <2>1 DEF PromoteScheduled, Unschedule
    <2>3. CASE t = c
      BY <2>2, <2>3, HitKeeps, PushEntries DEF PlaceChange, IsPromoted
    <2>4. CASE t # c
      BY <2>2, <2>4, PushEntries DEF PlaceChange, NoGain
    <2> QED
      BY <2>3, <2>4
  <1>4. ASSUME \/ \E a \in Admins, r \in Outcome : ResetDLQTask(a, r)
               \/ \E c \in Tasks : HandleCancelTask(c) \/ ReachExecuteAt(c)
               \/ \E c \in Tasks : HandleRemoveDLQTask(c)
               \/ \E a \in Admins, c \in Tasks : HandleRequeueTask(a, c)
               \/ \E a \in Admins, c \in Tasks, r \in Outcome :
                     HandleRetryTask(a, c, r) \/ HandleRetryDLQTask(a, c, r)
               \/ UNCHANGED vars
        PROVE  PlaceChange(t)
    BY <1>0, <1>4 DEF ResetDLQTask, HandleCancelTask, ReachExecuteAt,
                HandleRemoveDLQTask, HandleRequeueTask, HandleRetryTask,
                HandleRetryDLQTask, vars, queue
  <1>5. CASE Crash
    <2>1. UNCHANGED <<ready, scheduled>> /\ \A w \in Workers : worker'[w] = Idle
      BY <1>5 DEF Crash, queue
    <2> QED
      BY <2>1, NoTaskAssumption DEF PlaceChange, NoGain, Idle
  <1>6. CASE \E a \in Admins : RequestStep(a)
    BY <1>2, <1>4, <1>6 DEF RequestStep, Outcome
  <1>7. CASE NewRequest
    BY <1>4, <1>7 DEF NewRequest
  <1> QED
    BY <1>1, <1>3, <1>4, <1>5, <1>6, <1>7 DEF Next, Promote

-----------------------------------------------------------------------------
(* One place.                                                              *)

(* Faults are never forgotten.                                             *)
LEMMA FaultsGrow == TypeInv /\ [Next]_vars => faulted \subseteq faulted'
  <1> SUFFICES ASSUME TypeInv, [Next]_vars PROVE faulted \subseteq faulted'
    OBVIOUS
  <1>1. ASSUME NEW r \in Outcome, NEW c, Hit(r, c)
        PROVE  faulted \subseteq faulted'
    BY <1>1 DEF Hit
  <1>2. ASSUME NEW w \in Workers, WorkerStep(w)
        PROVE  faulted \subseteq faulted'
    <2>1. \/ faulted' = faulted
          \/ \E r \in Outcome, c \in {worker[w].task, worker[w].child} \cup Tasks :
                Hit(r, c)
      <3>1. CASE \E p \in Priorities, c \in Tasks, r \in Outcome : Take(w, p, c, r)
        BY <3>1 DEF Take
      <3>2. CASE Fetch(w) \/ RunHandler(w)
        BY <3>2 DEF Fetch, RunHandler, history
      <3>3. CASE \E c \in Tasks, r \in Outcome : SaveNext(w, c, r)
        BY <3>3 DEF SaveNext
      <3>4. ASSUME NEW r \in Outcome,
                   \/ EnqueueNext(w, r) \/ MarkProcessed(w, r)
                   \/ LogSucceed(w, r) \/ LogRetry(w, r) \/ MarkFailed(w, r)
                   \/ LogGiveUp(w, r) \/ DeadLetter(w, r)
            PROVE  \E c \in {worker[w].task, worker[w].child} \cup Tasks :
                      Hit(r, c)
        BY <3>4 DEF EnqueueNext, MarkProcessed, LogSucceed, LogRetry,
                    MarkFailed, LogGiveUp, DeadLetter, SetStatus,
                    RecordAttempt
      <3> QED
        BY <1>2, <3>1, <3>2, <3>3, <3>4 DEF WorkerStep
    <2> QED
      BY <1>1, <2>1
  <1>3. ASSUME NEW a \in Admins, RequestStep(a)
        PROVE  faulted \subseteq faulted'
    BY <1>1, <1>3 DEF RequestStep, ResetDLQTask, EnqueueRetry, PushRequeued,
                      Reset, history
  <1>4. CASE NewRequest
    BY <1>1, <1>4 DEF NewRequest, HandleCancelTask, HandleRemoveDLQTask,
                      HandleRequeueTask, HandleRetryTask, HandleRetryDLQTask,
                      Reset, history
  <1>5. CASE Promote \/ (\E c \in Tasks : ReachExecuteAt(c)) \/ Crash
    BY <1>1, <1>5 DEF Promote, PromoteScheduled, ReachExecuteAt, Crash, history
  <1>6. CASE UNCHANGED vars
    BY <1>6 DEF vars
  <1> QED
    BY <1>2, <1>3, <1>4, <1>5, <1>6 DEF Next

(* Being plain is lost for good.                                           *)
LEMMA PlainBefore ==
    ASSUME TypeInv, [Next]_vars, NEW t \in Tasks, Plain(t)'
    PROVE  Plain(t)
  BY FaultsGrow, RequestEffect DEF RequestChange, Plain

(* Every step keeps a plain task in one place.                             *)
LEMMA OnePlaceStep ==
    ASSUME TypeInv, RowInv, [Next]_vars, NEW t \in Tasks, Plain(t)', OnePlace(t)
    PROVE  OnePlace(t)'
  <1>1. ~HeldByRequest(t) /\ ~HeldByRequest(t)'
    <2>1. reissued'[t] = 0 /\ ~HeldByRequest(t)
      BY DEF Plain, OnePlace
    <2> QED
      BY <2>1, RequestEffect DEF RequestChange
  <1>2. PlaceChange(t)
    BY <1>1, PlaceEffect DEF Plain
  <1>3. \A p \in Priorities : ready[p][t] \in Nat
    BY DEF TypeInv, Ready
  <1>4. CASE NoGain(t)
    <2>1. \A w \in Workers : HasTask(w, t)' => HasTask(w, t)
      BY <1>4 DEF NoGain, HasTask
    <2>2. /\ Queued(ready', t) => Queued(ready, t)
          /\ OnSchedule(scheduled', t) => OnSchedule(scheduled, t)
          /\ HeldByWorker(t)' => HeldByWorker(t)
      BY <1>4 DEF NoGain, Queued, OnSchedule, HeldByWorker
    <2> QED
      BY <1>1, <1>4, <2>1, <2>2 DEF OnePlace, NoGain
  <1>5. ASSUME ~HeldByWorker(t)', GainsEntry(t), ~Queued(ready, t),
               ~OnSchedule(scheduled', t)
        PROVE  OnePlace(t)'
    <2>1. \A p \in Priorities : ready[p][t] = 0
      BY <1>3, <1>5 DEF Queued
    <2>2. PICK p \in Priorities :
            /\ ready'[p][t] = 1
            /\ \A q \in Priorities \ {p} : ready'[q][t] = 0
      BY <1>5, <2>1 DEF GainsEntry
    <2>3. \A w \in Workers : ~HasTask(w, t)'
      BY <1>5 DEF HeldByWorker, HasTask
    <2>4. \A q \in PriorityColumn : <<t, q>> \notin scheduled'
      BY <1>5 DEF OnSchedule
    <2> QED
      BY <1>1, <1>5, <2>2, <2>3, <2>4 DEF OnePlace, HasTask
  <1>6. ASSUME NEW w \in Workers, \A v \in Workers : HasTask(v, t)' => v = w,
               worker'[w].child = t => worker'[w].task # t,
               ~Queued(ready', t), ~OnSchedule(scheduled', t),
               \A p \in Priorities : ready'[p][t] = 0
        PROVE  OnePlace(t)'
    <2>1. \A v \in Workers : worker'[v].child = t => worker'[v].task # t
      BY <1>6 DEF HasTask
    <2>2. \A q \in PriorityColumn : <<t, q>> \notin scheduled'
      BY <1>6 DEF OnSchedule
    <2> QED
      BY <1>1, <1>6, <2>1, <2>2 DEF OnePlace
  <1>7. CASE IsTaken(t)
    <2>1. PICK w \in Workers, p \in Priorities :
            /\ OthersKeep(w)
            /\ worker'[w].task = t /\ worker'[w].child # t
            /\ ready[p][t] > 0
            /\ ready'[p][t] = ready[p][t] - 1
            /\ \A q \in Priorities \ {p} : ready'[q][t] = ready[q][t]
            /\ scheduled' = scheduled
      BY <1>7 DEF IsTaken
    <2>2. Queued(ready, t)
      BY <2>1 DEF Queued
    <2>3. ~HeldByWorker(t) /\ ~OnSchedule(scheduled', t)
      BY <2>1, <2>2 DEF OnePlace
    <2>4. \A v \in Workers : HasTask(v, t)' => v = w
      BY <2>1, <2>3 DEF HeldByWorker, HasTask, OthersKeep
    <2>5. ready[p][t] = 1 /\ \A q \in Priorities \ {p} : ready[q][t] = 0
      BY <1>3, <2>1 DEF OnePlace
    <2>6. \A q \in Priorities : ready'[q][t] = 0
      BY <2>1, <2>5
    <2>7. ~Queued(ready', t)
      BY <2>6 DEF Queued
    <2> QED
      BY <1>6, <2>1, <2>3, <2>4, <2>6, <2>7
  <1>8. CASE IsSaved(t)
    <2>1. PICK w \in Workers :
            /\ OthersKeep(w)
            /\ Inserts(w, t)
            /\ worker'[w].task = worker[w].task
            /\ UNCHANGED <<ready, scheduled>>
      BY <1>8 DEF IsSaved
    <2>2. ~Exists(events, t) /\ Exists(events, worker[w].task)
      BY <2>1, InsertedRow DEF Inserts
    <2>3. ~HeldByWorker(t) /\ ~Queued(ready, t) /\ ~OnSchedule(scheduled, t)
      BY <2>2 DEF RowInv, NoDanglingIds
    <2>4. \A v \in Workers : HasTask(v, t)' => v = w
      BY <2>1, <2>3 DEF HeldByWorker, HasTask, OthersKeep
    <2>5. \A q \in Priorities : ready'[q][t] = 0
      BY <1>3, <2>1, <2>3 DEF Queued
    <2> QED
      BY <1>6, <2>1, <2>2, <2>3, <2>4, <2>5
  <1>9. CASE IsEnqueued(t)
    <2>1. PICK w \in Workers :
            /\ OthersKeep(w)
            /\ worker[w].child = t
            /\ worker'[w].task = worker[w].task /\ worker'[w].child # t
            /\ \/ GainsEntry(t) /\ scheduled' = scheduled
               \/ /\ ready' = ready
                  /\ \E p \in PriorityColumn : scheduled' = scheduled \cup {<<t, p>>}
      BY <1>9 DEF IsEnqueued
    <2>2. /\ HasTask(w, t) /\ HeldByWorker(t)
          /\ worker[w].task # t
          /\ ~Queued(ready, t) /\ ~OnSchedule(scheduled, t)
      BY <2>1 DEF OnePlace, HasTask, HeldByWorker
    <2>3. ~HeldByWorker(t)'
      BY <2>1, <2>2 DEF OnePlace, HasTask, HeldByWorker, OthersKeep
    <2>4. CASE GainsEntry(t) /\ scheduled' = scheduled
      BY <1>5, <2>2, <2>3, <2>4
    <2>5. ASSUME ready' = ready, NEW p \in PriorityColumn,
                 scheduled' = scheduled \cup {<<t, p>>}
          PROVE  OnePlace(t)'
      <3>1. \A q \in PriorityColumn : <<t, q>> \in scheduled' => q = p
        BY <2>2, <2>5 DEF OnSchedule
      <3>2. \A v \in Workers : ~HasTask(v, t)'
        BY <2>3 DEF HeldByWorker, HasTask
      <3>3. ~Queued(ready', t) /\ \A q \in Priorities : ready'[q][t] = 0
        BY <1>3, <2>2, <2>5 DEF Queued
      <3> QED
        BY <1>1, <2>3, <3>1, <3>2, <3>3 DEF OnePlace, HasTask
    <2> QED
      BY <2>1, <2>4, <2>5
  <1>10. CASE IsPromoted(t)
    <2>1. PICK p \in PriorityColumn :
            <<t, p>> \in scheduled /\ scheduled' = scheduled \ {<<t, p>>}
      BY <1>10 DEF IsPromoted
    <2>2. worker' = worker /\ GainsEntry(t)
      BY <1>10 DEF IsPromoted
    <2>3. OnSchedule(scheduled, t)
      BY <2>1 DEF OnSchedule
    <2>4. ~Queued(ready, t) /\ ~HeldByWorker(t)'
      BY <2>2, <2>3 DEF OnePlace, HeldByWorker
    <2>5. ~OnSchedule(scheduled', t)
      BY <2>1 DEF OnePlace, OnSchedule
    <2> QED
      BY <1>5, <2>2, <2>4, <2>5
  <1> QED
    BY <1>2, <1>4, <1>7, <1>8, <1>9, <1>10 DEF PlaceChange

-----------------------------------------------------------------------------
(* The status agrees with the place.                                       *)

(* A worker has task t because it had it before or took it from a list,    *)
(* and child t because it had it before or has just saved it.              *)
LEMMA TaskFrom ==
    ASSUME TypeInv, [Next]_vars, NEW w \in Workers, NEW t \in Tasks
    PROVE  /\ worker'[w].task = t =>
                 \/ worker[w].task = t
                 \/ Queued(ready, t) /\ worker'[w].pc = "fetch"
           /\ worker'[w].child = t => worker[w].child = t \/ Inserts(w, t)
  <1>1. WorkerChange(w)
    BY WorkerEffect
  <1>2. CASE worker'[w] = worker[w] \/ worker'[w] = Idle
    BY <1>2, NoTaskAssumption DEF Idle
  <1>3. ASSUME NEW u \in Tasks, Queued(ready, u),
               worker'[w] = [pc |-> "fetch", task |-> u, attempt |-> 1,
                             child |-> NoTask]
        PROVE  /\ worker'[w].task = t =>
                     Queued(ready, t) /\ worker'[w].pc = "fetch"
               /\ worker'[w].child # t
    BY <1>3, NoTaskAssumption
  <1>4. CASE worker'[w].task = worker[w].task /\ worker'[w].pc # "enqueueNext"
    <2>1. worker'[w].child = NoTask
      BY <1>4, TypeStep DEF TypeInv, SoundWorker
    <2> QED
      BY <1>4, <2>1, NoTaskAssumption
  <1>5. CASE Inserts(w, worker'[w].child) /\ worker'[w].task = worker[w].task
    BY <1>5
  <1> QED
    BY <1>1, <1>2, <1>3, <1>4, <1>5 DEF WorkerChange

(* A plain task that has a row becomes active only by being so already.    *)
LEMMA ActiveFrom ==
    ASSUME TypeInv, [Next]_vars, NEW t \in Tasks, Exists(events, t),
           OnePlace(t), Active(t)'
    PROVE  Active(t)
  <1>1. ~HeldByRequest(t)
    BY DEF OnePlace
  <1>2. ASSUME NEW w \in Workers, worker'[w].child = t
        PROVE  worker[w].child = t
    BY <1>2, TaskFrom DEF Inserts
  <1>3. Queued(ready', t) \/ OnSchedule(scheduled', t) => Active(t)
    BY <1>1, QueueEffect DEF QueueChange, Active
  <1>4. ASSUME NEW w \in Workers, Undecided(w, t)'
        PROVE  Active(t)
    BY <1>4, UndecidedFrom DEF Active
  <1> QED
    BY <1>2, <1>3, <1>4 DEF Active

(* The status of a plain task that is processed or failed stays.           *)
LEMMA DecidedStays ==
    ASSUME TypeInv, [Next]_vars, NEW t \in Tasks, Plain(t)', OnePlace(t),
           StatusFits(t), events[t].status \in {"processed", "failed"}
    PROVE  events'[t].status = events[t].status
  <1>1. ~HeldByRequest(t) /\ ~(reissued'[t] > 0)
    BY DEF OnePlace, Plain
  <1>2. ~Active(t)
    BY DEF StatusFits
  <1>3. \A w \in Workers :
           worker[w].task = t => worker[w].pc \notin {"succeed", "giveUp"}
    BY <1>2 DEF Active, Undecided, Executing
  <1> QED
    BY <1>1, <1>3, StatusEffect DEF Exists

(* The worker that decides t is the only place t is in.                    *)
LEMMA DecidedIsQuiet ==
    ASSUME TypeInv, NEW t \in Tasks, OnePlace(t), UNCHANGED queue,
           NEW w \in Workers, worker[w].task = t,
           MovesTo(w, {"logSucceed"}) \/ MovesTo(w, {"logGiveUp"})
    PROVE  ~Active(t)'
  <1>1. /\ HeldByWorker(t)
        /\ HasTask(w, t) /\ worker[w].child # t
        /\ \A v \in Workers : HasTask(v, t) => v = w
    BY DEF HeldByWorker, OnePlace, HasTask
  <1>2. ~Queued(ready', t) /\ ~OnSchedule(scheduled', t)
    BY <1>1 DEF OnePlace, queue
  <1>3. /\ OthersKeep(w)
        /\ worker'[w].pc \in {"logSucceed", "logGiveUp"}
        /\ worker'[w].child = worker[w].child
    BY DEF MovesTo
  <1>4. ASSUME NEW v \in Workers
        PROVE  ~Undecided(v, t)' /\ worker'[v].child # t
    <2>1. CASE v = w
      BY <1>1, <1>3, <2>1 DEF Undecided, Executing
    <2>2. CASE v # w
      BY <1>1, <1>3, <2>2 DEF OthersKeep, HasTask, Undecided, Executing
    <2> QED
      BY <2>1, <2>2
  <1> QED
    BY <1>2, <1>4 DEF Active

(* A task whose row is saved in this step is held as a child only.         *)
LEMMA NewIsNowhere ==
    ASSUME TypeInv, RowInv, [Next]_vars, NEW t \in Tasks, ~Exists(events, t)
    PROVE  /\ \A w \in Workers : worker'[w].task # t
           /\ t \notin dlq'
           /\ \A w \in Workers : worker[w].task # t
  <1>1. ~Queued(ready, t) /\ t \notin dlq /\ ~HeldByWorker(t)
    BY DEF RowInv, NoDanglingIds
  <1> QED
    BY <1>1, TaskFrom, QueueEffect DEF QueueChange, HeldByWorker

(* Every step keeps the status of a plain task in line with its place.     *)
LEMMA StatusFitsStep ==
    ASSUME TypeInv, RowInv, [Next]_vars, NEW t \in Tasks, Plain(t)',
           OnePlace(t), StatusFits(t)
    PROVE  StatusFits(t)'
  <1>1. CASE ~Exists(events, t)
    <2>1. CASE \E w \in Workers : Inserts(w, t)
      <3>1. events'[t].status = "pending"
        BY <2>1, InsertedRow
      <3> QED
        BY <1>1, <3>1, NewIsNowhere DEF StatusFits
    <2>2. CASE events'[t] = events[t]
      <3>1. ~Exists(events', t)
        BY <1>1, <2>2 DEF Exists
      <3>2. ~Queued(ready', t) /\ ~OnSchedule(scheduled', t) /\ ~HeldByWorker(t)'
        BY <3>1, DanglingStep DEF NoDanglingIds
      <3>3. ~Active(t)'
        BY <3>2 DEF Active, HeldByWorker, Undecided, Executing
      <3> QED
        BY <1>1, <3>3, NewIsNowhere DEF StatusFits
    <2> QED
      BY <1>1, <2>1, <2>2, RowsLast DEF RowInv
  <1>2. CASE Exists(events, t)
    <2>1. Active(t)' => events'[t].status \in {"pending", "cancelled"}
      <3>1. CASE events'[t].status = events[t].status
        BY <1>2, <3>1, ActiveFrom DEF StatusFits
      <3>2. CASE UNCHANGED queue /\ \E w \in Workers :
                    /\ worker[w].task = t
                    /\ MovesTo(w, {"logSucceed"}) \/ MovesTo(w, {"logGiveUp"})
        BY <3>2, DecidedIsQuiet
      <3> QED
        BY <1>2, <3>1, <3>2, StatusEffect
    <2>2. t \in dlq' => events'[t].status = "failed"
      <3> SUFFICES ASSUME t \in dlq' PROVE events'[t].status = "failed"
        OBVIOUS
      <3>1. events[t].status = "failed"
        BY QueueEffect DEF QueueChange, StatusFits
      <3> QED
        BY <3>1, DecidedStays
    <2>3. ASSUME NEW w \in Workers, worker'[w].task = t
          PROVE  /\ worker'[w].pc \in {"logGiveUp", "deadLetter"} =>
                       events'[t].status = "failed"
                 /\ worker'[w].pc = "logSucceed" =>
                       events'[t].status = "processed"
      <3>1. WorkerChange(w) /\ t \notin faulted'
        BY WorkerEffect DEF Plain
      <3>2. /\ worker'[w] # Idle
            /\ worker'[w].pc # "fetch" =>
                  /\ worker[w].task = t
                  /\ \A u : worker'[w] # [pc |-> "fetch", task |-> u,
                                         attempt |-> 1, child |-> NoTask]
        BY <2>3, TaskFrom, NoTaskAssumption DEF Idle
      <3>3. CASE worker'[w] = worker[w]
        BY <2>3, <3>3, DecidedStays DEF StatusFits
      <3>4. CASE worker'[w].pc = "logGiveUp" /\ worker'[w] # worker[w]
        <4>1. events' = UpdateEventStatus(events, t, "failed")
          BY <2>3, <3>1, <3>2, <3>4 DEF WorkerChange
        <4> QED
          BY <3>4, <4>1 DEF UpdateEventStatus, TypeInv, Row
      <3>5. CASE worker'[w].pc = "logSucceed" /\ worker'[w] # worker[w]
        <4>1. events' = UpdateEventStatus(events, t, "processed")
          BY <2>3, <3>1, <3>2, <3>5 DEF WorkerChange
        <4> QED
          BY <3>5, <4>1 DEF UpdateEventStatus, TypeInv, Row
      <3>6. CASE worker'[w].pc = "deadLetter" /\ worker'[w] # worker[w]
        <4>1. worker[w].pc = "logGiveUp" /\ worker[w].task = t
          BY <2>3, <3>1, <3>2, <3>6 DEF WorkerChange
        <4> QED
          BY <3>6, <4>1, DecidedStays DEF StatusFits
      <3> QED
        BY <3>3, <3>4, <3>5, <3>6
    <2> QED
      BY <2>1, <2>2, <2>3 DEF StatusFits
  <1> QED
    BY <1>1, <1>2

-----------------------------------------------------------------------------
(* The log agrees with the status.                                         *)

(* Only a worker at one of its three RecordAttempt calls writes the log.   *)
LEMMA LogEffect ==
    ASSUME TypeInv, [Next]_vars, NEW t \in Tasks, logs'[t] # logs[t]
    PROVE  \E w \in Workers :
              /\ worker[w].task = t
              /\ worker[w].pc \in {"logSucceed", "logRetry", "logGiveUp"}
              /\ worker'[w] # worker[w]
  <1>1. ASSUME NEW w \in Workers, NEW r \in Outcome,
               LogSucceed(w, r) \/ LogRetry(w, r) \/ LogGiveUp(w, r)
        PROVE  /\ worker[w].task = t
               /\ worker[w].pc \in {"logSucceed", "logRetry", "logGiveUp"}
               /\ worker'[w] # worker[w]
    <2>1. /\ worker[w].pc \in {"logSucceed", "logRetry", "logGiveUp"}
          /\ \/ logs' = logs
             \/ \E st : logs' = UpsertDeliveryLog(logs, worker[w].task, st,
                                                  worker[w].attempt)
      BY <1>1 DEF LogSucceed, LogRetry, LogGiveUp, RecordAttempt, After
    <2>2. \/ worker[w].pc = "logSucceed" /\ Release(w)
          \/ worker[w].pc = "logRetry" /\ NextAttempt(w)
          \/ worker[w].pc = "logGiveUp" /\ Goto(w, "deadLetter")
      BY <1>1 DEF LogSucceed, LogRetry, LogGiveUp, RecordAttempt
    <2>3. worker'[w].pc # worker[w].pc
      BY <2>2, Moves DEF MovesTo, Idle
    <2>4. worker[w].task = t
      BY <2>1 DEF UpsertDeliveryLog, TypeInv
    <2> QED
      BY <2>1, <2>3, <2>4
  <1>2. ASSUME NEW w \in Workers, WorkerStep(w)
        PROVE  \E r \in Outcome :
                  LogSucceed(w, r) \/ LogRetry(w, r) \/ LogGiveUp(w, r)
    <2>1. ~(\E p \in Priorities, c \in Tasks, r \in Outcome : Take(w, p, c, r))
      BY DEF Take
    <2>2. ~(Fetch(w) \/ RunHandler(w))
      BY DEF Fetch, RunHandler
    <2>3. ~(\E c \in Tasks, r \in Outcome : SaveNext(w, c, r))
      BY DEF SaveNext
    <2>4. \A r \in Outcome :
             ~(\/ EnqueueNext(w, r) \/ MarkProcessed(w, r)
               \/ MarkFailed(w, r) \/ DeadLetter(w, r))
      BY DEF EnqueueNext, MarkProcessed, MarkFailed, DeadLetter, SetStatus
    <2> QED
      BY <1>2, <2>1, <2>2, <2>3, <2>4 DEF WorkerStep
  <1>3. ~(\E a \in Admins : RequestStep(a))
    BY DEF RequestStep, ResetDLQTask, EnqueueRetry, PushRequeued
  <1>4. ~NewRequest
    BY DEF NewRequest, HandleCancelTask, HandleRemoveDLQTask,
           HandleRequeueTask, HandleRetryTask, HandleRetryDLQTask
  <1>5. ~(Promote \/ (\E c \in Tasks : ReachExecuteAt(c)) \/ Crash)
    BY DEF Promote, PromoteScheduled, ReachExecuteAt, Crash
  <1>6. ~(UNCHANGED vars)
    BY DEF vars
  <1> QED
    BY <1>1, <1>2, <1>3, <1>4, <1>5, <1>6 DEF Next

(* A worker lets go of a decided task only once the log tells the outcome. *)
LEMMA LogBeforeRelease ==
    ASSUME TypeInv, [Next]_vars, NEW t \in Tasks, Plain(t)', StatusFits(t),
           LogFits(t), events[t].status \in {"processed", "failed"},
           NEW w \in Workers, HasTask(w, t), ~HasTask(w, t)'
    PROVE  /\ logs'[t].status = events[t].status
           /\ logs'[t].status = "failed" => logs'[t].attempt = MaxRetries
  <1>1. ~Active(t) /\ t \notin faulted'
    BY DEF StatusFits, Plain
  <1>2. /\ worker[w].task = t
        /\ worker[w].pc \notin {"idle", "fetch"}
        /\ ~Undecided(w, t)
    <2>1. worker[w].child # t /\ ~Undecided(w, t)
      BY <1>1 DEF Active
    <2> QED
      BY <2>1, NoTaskAssumption
         DEF HasTask, Undecided, TypeInv, SoundWorker
  <1>3. WorkerChange(w) /\ worker'[w].task # t
    BY WorkerEffect DEF HasTask
  <1>4. \/ /\ worker[w].pc = "logSucceed"
           /\ logs' = UpsertDeliveryLog(logs, t, "processed", worker[w].attempt)
        \/ worker[w].pc = "deadLetter" /\ logs' = logs
    BY <1>1, <1>2, <1>3 DEF WorkerChange
  <1>5. CASE worker[w].pc = "logSucceed"
    <2>1. events[t].status = "processed"
      BY <1>2, <1>5 DEF StatusFits
    <2>2. logs'[t].status = "processed"
      BY <1>4, <1>5 DEF UpsertDeliveryLog, TypeInv
    <2> QED
      BY <2>1, <2>2
  <1>6. CASE worker[w].pc = "deadLetter"
    <2>1. events[t].status = "failed"
      BY <1>2, <1>6 DEF StatusFits
    <2>2. logs'[t] = [status |-> "failed", attempt |-> MaxRetries]
      BY <1>2, <1>4, <1>6 DEF LogFits
    <2> QED
      BY <2>1, <2>2
  <1> QED
    BY <1>4, <1>5, <1>6

(* Every step keeps the log of a plain task in line with its status.       *)
LEMMA LogFitsStep ==
    ASSUME TypeInv, RowInv, [Next]_vars, NEW t \in Tasks, Plain(t)',
           OnePlace(t), StatusFits(t), LogFits(t)
    PROVE  LogFits(t)'
  <1>1. ASSUME NEW w \in Workers, worker'[w].task = t
        PROVE  /\ worker'[w].pc \in {"giveUp", "logGiveUp"} =>
                     worker'[w].attempt = MaxRetries
               /\ worker'[w].pc = "deadLetter" =>
                     logs'[t] = [status |-> "failed", attempt |-> MaxRetries]
    <2>1. WorkerChange(w) /\ t \notin faulted'
      BY WorkerEffect DEF Plain
    <2>2. /\ worker'[w] # Idle
          /\ worker'[w].pc # "fetch" =>
                /\ worker[w].task = t
                /\ \A u : worker'[w] # [pc |-> "fetch", task |-> u,
                                       attempt |-> 1, child |-> NoTask]
      BY <1>1, TaskFrom, NoTaskAssumption DEF Idle
    <2>3. CASE worker'[w] = worker[w]
      <3>1. worker[w].pc = "deadLetter" => logs'[t] = logs[t]
        <4> SUFFICES ASSUME worker[w].pc = "deadLetter", logs'[t] # logs[t]
                     PROVE  FALSE
          OBVIOUS
        <4>1. PICK v \in Workers :
                /\ worker[v].task = t
                /\ worker[v].pc \in {"logSucceed", "logRetry", "logGiveUp"}
          BY LogEffect
        <4>2. v = w
          BY <1>1, <2>3, <4>1 DEF OnePlace, HasTask
        <4> QED
          BY <4>1, <4>2
      <3> QED
        BY <1>1, <2>3, <3>1 DEF LogFits
    <2>4. CASE worker'[w] # worker[w] /\ worker'[w].pc = "giveUp"
      BY <2>1, <2>2, <2>4 DEF WorkerChange
    <2>5. CASE worker'[w] # worker[w] /\ worker'[w].pc = "logGiveUp"
      <3>1. worker[w].pc = "giveUp" /\ worker'[w].attempt = worker[w].attempt
        BY <2>1, <2>2, <2>5 DEF WorkerChange
      <3> QED
        BY <2>2, <2>5, <3>1 DEF LogFits
    <2>6. CASE worker'[w] # worker[w] /\ worker'[w].pc = "deadLetter"
      <3>1. /\ worker[w].pc = "logGiveUp"
            /\ logs' = UpsertDeliveryLog(logs, t, "failed", worker[w].attempt)
        BY <2>1, <2>2, <2>6 DEF WorkerChange
      <3>2. worker[w].attempt = MaxRetries
        BY <2>2, <2>6, <3>1 DEF LogFits
      <3> QED
        BY <2>6, <3>1, <3>2 DEF UpsertDeliveryLog, TypeInv
    <2> QED
      BY <2>3, <2>4, <2>5, <2>6
  <1>2. ASSUME events'[t].status \in {"processed", "failed"}, ~HeldByWorker(t)'
        PROVE  /\ logs'[t].status = events'[t].status
               /\ logs'[t].status = "failed" => logs'[t].attempt = MaxRetries
    <2>1. Exists(events, t)
      <3>1. ASSUME NEW w \in Workers, Inserts(w, t) PROVE FALSE
        BY <1>2, <3>1, InsertedRow
      <3> QED
        BY <1>2, <3>1, RowsLast DEF RowInv, Exists
    <2>2. ASSUME NEW w \in Workers, worker[w].task = t
          PROVE  ~MovesTo(w, {"logSucceed"}) /\ ~MovesTo(w, {"logGiveUp"})
      BY <1>2, <2>2 DEF MovesTo, HeldByWorker
    <2>3. events'[t].status = events[t].status
      BY <1>2, <2>1, <2>2, StatusEffect
    <2>4. CASE HeldByWorker(t)
      <3>1. PICK w \in Workers : HasTask(w, t)
        BY <2>4 DEF HeldByWorker, HasTask
      <3>2. ~HasTask(w, t)'
        BY <1>2 DEF HeldByWorker, HasTask
      <3> QED
        BY <1>2, <2>3, <3>1, <3>2, LogBeforeRelease
    <2>5. CASE ~HeldByWorker(t)
      <3>1. logs'[t] = logs[t]
        BY <2>5, LogEffect DEF HeldByWorker
      <3> QED
        BY <1>2, <2>3, <2>5, <3>1 DEF LogFits
    <2> QED
      BY <2>4, <2>5
  <1> QED
    BY <1>1, <1>2 DEF LogFits

-----------------------------------------------------------------------------
(* The invariant and what follows from it.                                 *)

(* An accepted task starts pending, in one list or on the schedule.        *)
LEMMA InitPlain ==
    ASSUME Init, NEW t \in Tasks
    PROVE  PlainInv(t)
  <1>1. PICK body \in [Accepted -> Bodies] :
          /\ events = [u \in Tasks |->
                         IF u \in Accepted
                         THEN NewRow(body[u].step, NoTask, body[u].next)
                         ELSE Absent]
          /\ ready = [p \in Priorities |-> [u \in Tasks |->
                         IF /\ u \in Accepted
                            /\ ~body[u].step.executeAt
                            /\ Level(body[u].step.priority) = p
                         THEN 1 ELSE 0]]
          /\ scheduled = {<<u, body[u].step.priority>> :
                            u \in {v \in Accepted : body[v].step.executeAt}}
    BY DEF Init
  <1>2. /\ \A w \in Workers : worker[w].task # t /\ worker[w].child # t
        /\ ~HeldByRequest(t)
        /\ dlq = {}
    BY NoTaskAssumption DEF Init, Idle, NoRequest, HeldByRequest
  <1>3. /\ \A p \in Priorities :
              /\ ready[p][t] <= 1
              /\ ready[p][t] > 0 => /\ t \in Accepted
                                    /\ ~body[t].step.executeAt
                                    /\ Level(body[t].step.priority) = p
        /\ \A p \in PriorityColumn :
              <<t, p>> \in scheduled => /\ t \in Accepted
                                        /\ body[t].step.executeAt
                                        /\ body[t].step.priority = p
    BY <1>1
  <1>4. OnePlace(t)
    BY <1>2, <1>3 DEF OnePlace, HasTask, HeldByWorker, Queued, OnSchedule
  <1>5. /\ events[t].status \in {"pending", "absent"}
        /\ t \in Accepted => events[t].status = "pending"
    BY <1>1 DEF NewRow, Absent
  <1>6. Active(t) => t \in Accepted
    BY <1>2, <1>3 DEF Active, Queued, OnSchedule, Undecided, Executing
  <1> QED
    BY <1>2, <1>4, <1>5, <1>6 DEF PlainInv, StatusFits, LogFits

(* Every step keeps it.                                                    *)
LEMMA PlainStep ==
    ASSUME TypeInv, RowInv, [Next]_vars, NEW t \in Tasks, PlainInv(t)
    PROVE  PlainInv(t)'
  <1> SUFFICES ASSUME Plain(t)'
               PROVE  OnePlace(t)' /\ StatusFits(t)' /\ LogFits(t)'
    BY DEF PlainInv
  <1>1. OnePlace(t) /\ StatusFits(t) /\ LogFits(t)
    BY PlainBefore DEF PlainInv
  <1> QED
    BY <1>1, OnePlaceStep, StatusFitsStep, LogFitsStep

(* The invariant of plain tasks holds throughout.                          *)
LEMMA PlainInvariant ==
    Spec => [](TypeInv /\ RowInv /\ \A t \in Tasks : PlainInv(t))
  <1> DEFINE Inv == \A t \in Tasks : PlainInv(t)
  <1>1. Init => Inv
    BY InitPlain
  <1>2. TypeInv /\ RowInv /\ Inv /\ [Next]_vars => Inv'
    BY PlainStep
  <1> QED
    BY <1>1, <1>2, RowInvariant, PTL DEF Spec

(* A set whose members are all equal has at most one.                      *)
LEMMA AtMostOne ==
    ASSUME NEW S, \A x, y \in S : x = y
    PROVE  \/ S = {} /\ Cardinality(S) = 0
           \/ S # {} /\ Cardinality(S) = 1
  <1>1. CASE S = {}
    BY <1>1, FS_EmptySet
  <1>2. ASSUME NEW x \in S
        PROVE  S # {} /\ Cardinality(S) = 1
    <2>1. S = {x}
      OBVIOUS
    <2> QED
      BY <2>1, FS_Singleton
  <1> QED
    BY <1>1, <1>2

(* One place is one copy.                                                  *)
LEMMA PlainIsSingle ==
    ASSUME TypeInv, \A t \in Tasks : PlainInv(t)
    PROVE  SingleCopy
  <1>1. ASSUME TypeInv, NEW t \in Tasks, OnePlace(t)
        PROVE  Cardinality({w \in Workers :
                               t \in {worker[w].task, worker[w].child}})
               + Cardinality({e \in scheduled : e[1] = t})
               + ready["high"][t] + ready["medium"][t] + ready["low"][t] <= 1
    <2> DEFINE W == {w \in Workers : t \in {worker[w].task, worker[w].child}}
               S == {e \in scheduled : e[1] = t}
    <2>1. \/ W = {} /\ Cardinality(W) = 0
          \/ W # {} /\ Cardinality(W) = 1
      <3>1. \A v, w \in W : v = w
        BY <1>1 DEF OnePlace, HasTask
      <3> QED
        BY <3>1, AtMostOne
    <2>2. \A e \in S : \E p \in PriorityColumn : e = <<t, p>>
      BY <1>1 DEF TypeInv, Scheduled
    <2>3. \/ S = {} /\ Cardinality(S) = 0
          \/ S # {} /\ Cardinality(S) = 1
      <3>1. \A d, e \in S : d = e
        BY <1>1, <2>2 DEF OnePlace
      <3> QED
        BY <3>1, AtMostOne
    <2>4. /\ W # {} => ~Queued(ready, t) /\ ~OnSchedule(scheduled, t)
          /\ S # {} => OnSchedule(scheduled, t)
          /\ OnSchedule(scheduled, t) => ~Queued(ready, t)
      BY <1>1, <2>2 DEF OnePlace, HeldByWorker, OnSchedule
    <2>5. /\ \A p \in Priorities : ready[p][t] \in {0, 1}
          /\ \A p, q \in Priorities : ready[p][t] = 1 /\ ready[q][t] = 1 => p = q
          /\ ~Queued(ready, t) => \A p \in Priorities : ready[p][t] = 0
      <3>1. \A p \in Priorities : ready[p][t] \in Nat
        BY <1>1 DEF TypeInv, Ready
      <3> QED
        BY <1>1, <3>1 DEF OnePlace, Queued
    <2>6. ready["high"][t] + ready["medium"][t] + ready["low"][t] \in
             (IF Queued(ready, t) THEN {0, 1} ELSE {0})
      <3>1. /\ "high" \in Priorities /\ "medium" \in Priorities
            /\ "low" \in Priorities
        BY DEF Priorities
      <3> QED
        BY <2>5, <3>1
    <2> HIDE DEF W, S
    <2>7. Cardinality(W) + Cardinality(S) + ready["high"][t]
          + ready["medium"][t] + ready["low"][t] <= 1
      <3>1. "high" \in Priorities /\ "medium" \in Priorities /\ "low" \in Priorities
        BY DEF Priorities
      <3> QED
        BY <2>1, <2>3, <2>4, <2>5, <2>6, <3>1
    <2> QED
      BY <2>7 DEF W, S
  <1> QED
    BY <1>1 DEF PlainInv, Plain, SingleCopy

(* A task that nobody issued again and no fault hit is in one place: no    *)
(* two workers ever run it together and no second copy waits in a list or  *)
(* in the schedule, for any number of workers, requests and chains.        *)
THEOREM OneCopyOnly == Spec => []SingleCopy
  <1>1. TypeInv /\ (\A t \in Tasks : PlainInv(t)) => SingleCopy
    BY PlainIsSingle
  <1> QED
    BY <1>1, PlainInvariant, PTL

(* What is dead-lettered and plain has failed.                             *)
LEMMA PlainDLQFailed ==
    ASSUME TypeInv, \A t \in Tasks : PlainInv(t)
    PROVE  DLQShowsFailed
  BY DEF PlainInv, Plain, StatusFits, DLQShowsFailed, HandleListDLQ, TypeInv

(* What GET /api/admin/dlq shows of tasks that nobody issued again and no  *)
(* fault hit has failed.                                                   *)
THEOREM DeadLettersFailed == Spec => []DLQShowsFailed
  <1>1. TypeInv /\ (\A t \in Tasks : PlainInv(t)) => DLQShowsFailed
    BY PlainDLQFailed
  <1> QED
    BY <1>1, PlainInvariant, PTL

(* A plain task that is decided and let go of has a log that says so.      *)
LEMMA PlainLogAgrees ==
    ASSUME \A t \in Tasks : PlainInv(t)
    PROVE  LogAgreesWhenQuiet
  <1>1. ASSUME NEW t \in Tasks, PlainInv(t), Plain(t), ~HeldByWorker(t),
               events[t].status \in {"processed", "failed"}
        PROVE  \E log \in HandleGetTaskRetries(t) :
                  /\ log.status = events[t].status
                  /\ log.status = "failed" => log.attempt = MaxRetries
    <2>1. /\ logs[t].status = events[t].status
          /\ logs[t].status = "failed" => logs[t].attempt = MaxRetries
      BY <1>1 DEF PlainInv, LogFits
    <2>2. logs[t] # NoLog
      BY <1>1, <2>1 DEF NoLog
    <2>3. HandleGetTaskRetries(t) = {logs[t]}
      BY <2>2 DEF HandleGetTaskRetries, GetDeliveryLogsForEvent
    <2> QED
      BY <2>1, <2>3
  <1> QED
    BY <1>1 DEF LogAgreesWhenQuiet, Plain

(* Once no worker holds such a task, a log entry tells how it ended        *)
(* and, for a failure, that every attempt was used.                        *)
THEOREM LogTellsOutcome == Spec => []LogAgreesWhenQuiet
  <1>1. (\A t \in Tasks : PlainInv(t)) => LogAgreesWhenQuiet
    BY PlainLogAgrees
  <1> QED
    BY <1>1, PlainInvariant, PTL

-----------------------------------------------------------------------------
(* Chains.  Without re-issues and faults a task's next step is saved at    *)
(* most once, so each depth below a root has one task.                     *)

Clean == faulted = {} /\ \A t \in Tasks : reissued[t] = 0

(* The steps that are still to come after t.                               *)
Left(t) == Len(events[t].next)

Root(t) == RootTaskID(events, t)

(* c stands in its chain where the step after t belongs.                   *)
StepAfter(c, t) == events[c].parent = Root(t) /\ Left(t) = Left(c) + 1

(* The attempt that saved the step after t will not be repeated.           *)
ChainedOn(t) ==
    \/ events[t].status = "processed"
    \/ \E w \in Workers :
          /\ worker[w].task = t
          /\ worker[w].pc \in {"enqueueNext", "succeed", "logSucceed"}

(* A chained task has fewer steps to come than its root ...                *)
BelowRoot ==
    \A c \in Tasks : events[c].parent # NoTask => Left(c) < Left(events[c].parent)

(* ... comes right after some task ...                                     *)
ComesAfter ==
    \A c \in Tasks : events[c].parent # NoTask => \E t \in Tasks : StepAfter(c, t)

(* ... which has chained on, ...                                           *)
AfterChained == \A c, t \in Tasks : StepAfter(c, t) => ChainedOn(t)

(* ... and is alone at its depth.                                          *)
AloneAtDepth ==
    \A c, d \in Tasks :
       /\ events[c].parent # NoTask
       /\ events[c].parent = events[d].parent
       /\ Left(c) = Left(d)
       => c = d

Chains == BelowRoot /\ ComesAfter /\ AfterChained /\ AloneAtDepth

(* The inductive invariant of chains (given those above).                  *)
ChainInv == Clean => Chains

(* A task whose worker is about to save the next step has not chained on.  *)
LEMMA NotYetChained ==
    ASSUME NEW t \in Tasks, OnePlace(t), StatusFits(t),
           NEW w \in Workers, worker[w].task = t, worker[w].pc = "saveNext"
    PROVE  ~ChainedOn(t)
  <1>1. Active(t)
    BY DEF Active, Undecided, Executing
  <1>2. events[t].status # "processed"
    BY <1>1 DEF StatusFits
  <1>3. \A v \in Workers : worker[v].task = t => v = w
    BY DEF OnePlace, HasTask
  <1> QED
    BY <1>2, <1>3 DEF ChainedOn

(* Without faults, having chained on is for good.                          *)
LEMMA ChainedOnStays ==
    ASSUME TypeInv, [Next]_vars, Clean', NEW t \in Tasks, OnePlace(t),
           StatusFits(t), ChainedOn(t)
    PROVE  ChainedOn(t)'
  <1>1. Plain(t)'
    BY DEF Clean, Plain
  <1>2. CASE events[t].status = "processed"
    BY <1>1, <1>2, DecidedStays DEF ChainedOn
  <1>3. ASSUME NEW w \in Workers, worker[w].task = t,
               worker[w].pc \in {"enqueueNext", "succeed", "logSucceed"},
               events[t].status # "processed"
        PROVE  ChainedOn(t)'
    <2>1. WorkerChange(w) /\ faulted' = {}
      BY WorkerEffect DEF Clean
    <2>2. worker[w].pc \in {"enqueueNext", "succeed"}
      BY <1>3 DEF StatusFits
    <2>3. \/ worker'[w] = worker[w]
          \/ /\ worker'[w].task = t
             /\ worker'[w].pc \in {"succeed", "logSucceed"}
      BY <1>3, <2>1, <2>2 DEF WorkerChange
    <2> QED
      BY <1>3, <2>3 DEF ChainedOn
  <1> QED
    BY <1>2, <1>3 DEF ChainedOn

(* A step keeps the place of u in its chain.                               *)
KeepsPlace(u) ==
    events'[u].parent = events[u].parent /\ Left(u)' = Left(u)

(* What the types and RowInv say of places in chains: a task without a row *)
(* has none, and a parent is a root.                                       *)
LEMMA ChainTypes ==
    ASSUME TypeInv, RowInv, NEW u \in Tasks
    PROVE  /\ Left(u) \in Nat
           /\ Root(u) \in Tasks
           /\ events[u].parent \in Tasks \cup {NoTask}
           /\ ~Exists(events, u) => events[u].parent = NoTask /\ Left(u) = 0
           /\ events[u].parent # NoTask =>
                 /\ Root(u) = events[u].parent
                 /\ events[events[u].parent].parent = NoTask
           /\ events[u].parent = NoTask => Root(u) = u
  <1>1. events[u].next \in Seq(Step) /\ events[u].parent \in Tasks \cup {NoTask}
    BY DEF TypeInv, Row
  <1>2. ~Exists(events, u) => events[u].parent = NoTask /\ events[u].next = << >>
    BY DEF RowInv, AbsentRows, Absent
  <1>3. events[u].parent # NoTask => events[events[u].parent].parent = NoTask
    BY DEF RowInv, ChildUnderFinishedRoot
  <1> QED
    BY <1>1, <1>2, <1>3 DEF Left, Root, RootTaskID

(* A step that inserts no row keeps the chains.                            *)
LEMMA SamePlacesStep ==
    ASSUME TypeInv, RowInv, Chains, \A u \in Tasks : KeepsPlace(u),
           \A u \in Tasks : ChainedOn(u) => ChainedOn(u)'
    PROVE  Chains'
  <1>1. \A u \in Tasks : Root(u)' = Root(u)
    BY DEF KeepsPlace, Root, RootTaskID
  <1>2. \A c, t \in Tasks : StepAfter(c, t)' <=> StepAfter(c, t)
    BY <1>1 DEF StepAfter, KeepsPlace
  <1>3. BelowRoot'
    <2> SUFFICES ASSUME NEW c \in Tasks, events'[c].parent # NoTask
                 PROVE  Left(c)' < Len(events'[events'[c].parent].next)
      BY DEF BelowRoot, Left
    <2>1. PICK p \in Tasks : p = events[c].parent
      BY ChainTypes DEF KeepsPlace
    <2>2. Left(c) < Left(p)
      BY <2>1, NoTaskAssumption DEF Chains, BelowRoot
    <2>3. events'[c].parent = p /\ Left(p)' = Left(p) /\ Left(c)' = Left(c)
      BY <2>1 DEF KeepsPlace
    <2> QED
      BY <2>2, <2>3 DEF Left
  <1>4. ComesAfter'
    BY <1>2 DEF ComesAfter, Chains, KeepsPlace
  <1>5. AfterChained'
    BY <1>2 DEF AfterChained, Chains
  <1>6. AloneAtDepth'
    BY DEF AloneAtDepth, Chains, KeepsPlace
  <1> QED
    BY <1>3, <1>4, <1>5, <1>6 DEF Chains

(* A step that saves c after a task that has not chained on keeps them.    *)
LEMMA InsertStep ==
    ASSUME TypeInv, RowInv, Chains, NEW t \in Tasks, NEW c \in Tasks,
           ~Exists(events, c), ~ChainedOn(t), ChainedOn(t)',
           events'[c].parent = Root(t), Left(t) = Left(c)' + 1, Left(c)' \in Nat,
           \A u \in Tasks \ {c} : KeepsPlace(u),
           \A u \in Tasks : ChainedOn(u) => ChainedOn(u)'
    PROVE  Chains'
  <1>0. /\ BelowRoot /\ ComesAfter /\ AfterChained /\ AloneAtDepth
        /\ \A u \in Tasks :
              /\ Left(u) \in Nat
              /\ Root(u) \in Tasks
              /\ events[u].parent \in Tasks \cup {NoTask}
              /\ events[u].parent # NoTask =>
                    /\ Root(u) = events[u].parent
                    /\ Left(u) < Left(Root(u))
              /\ events[u].parent = NoTask => Root(u) = u
        /\ events[c].parent = NoTask /\ Left(c) = 0 /\ t # c
    BY ChainTypes DEF Chains, BelowRoot
  <1>1. \A u \in Tasks : /\ u # c => Root(u)' = Root(u)
                         /\ Root(c)' = Root(t)
    BY <1>0, NoTaskAssumption DEF KeepsPlace, Root, RootTaskID
  <1>2. Left(t) <= Left(Root(t)) /\ Root(t) # c
    <2>1. Root(t) # c
      <3>1. events[t].parent # NoTask => Exists(events, events[t].parent)
        BY <1>0 DEF RowInv, NoDanglingIds
      <3> QED
        BY <1>0, <3>1
    <2> QED
      BY <1>0, <2>1
  (* No task stands where c is put.                                        *)
  <1>3. \A d \in Tasks : ~StepAfter(d, t)
    BY <1>0 DEF AfterChained
  <1>4. BelowRoot'
    <2> SUFFICES ASSUME NEW d \in Tasks, events'[d].parent # NoTask
                 PROVE  Left(d)' < Len(events'[events'[d].parent].next)
      BY DEF BelowRoot, Left
    <2>1. CASE d = c
      <3>1. PICK p \in Tasks : p = Root(t)
        BY <1>0
      <3>2. Left(p)' = Left(p)
        BY <1>2, <3>1 DEF KeepsPlace
      <3>3. Left(c)' < Left(p)'
        BY <1>0, <1>2, <3>1, <3>2
      <3> QED
        BY <2>1, <3>1, <3>3 DEF Left
    <2>2. CASE d # c
      <3>1. PICK p \in Tasks : p = events[d].parent
        BY <1>0, <2>2 DEF KeepsPlace
      <3>2. p # c
        BY <1>0, <3>1, <2>2 DEF RowInv, NoDanglingIds
      <3>3. Left(d) < Left(p)
        BY <1>0, <3>1, NoTaskAssumption
      <3>4. Left(d)' < Left(p)' /\ events'[d].parent = p
        BY <2>2, <3>1, <3>2, <3>3 DEF KeepsPlace
      <3> QED
        BY <3>4 DEF Left
    <2> QED
      BY <2>1, <2>2
  <1>5. \A d, u \in Tasks \ {c} : StepAfter(d, u)' <=> StepAfter(d, u)
    BY <1>1 DEF StepAfter, KeepsPlace
  <1>6. StepAfter(c, t)'
    <2>1. Left(t)' = Left(t) /\ Root(t)' = Root(t)
      BY <1>0, <1>1 DEF KeepsPlace
    <2> QED
      BY <2>1 DEF StepAfter
  <1>7. ComesAfter'
    <2> SUFFICES ASSUME NEW d \in Tasks, events'[d].parent # NoTask
                 PROVE  \E u \in Tasks : StepAfter(d, u)'
      BY DEF ComesAfter
    <2>1. CASE d = c
      BY <1>6, <2>1
    <2>2. CASE d # c
      <3>1. PICK u \in Tasks : StepAfter(d, u)
        BY <1>0, <2>2 DEF ComesAfter, KeepsPlace
      <3>2. u # c
        BY <1>0, <3>1 DEF StepAfter
      <3> QED
        BY <1>5, <2>2, <3>1, <3>2
    <2> QED
      BY <2>1, <2>2
  (* Nor does a task stand right below: it would come after one at c's     *)
  (* depth.                                                                *)
  <1>8. \A d \in Tasks \ {c} : ~StepAfter(d, c)'
    <2> SUFFICES ASSUME NEW d \in Tasks \ {c}, StepAfter(d, c)' PROVE FALSE
      OBVIOUS
    <2>1. events[d].parent = Root(t) /\ Left(c)' = Left(d) + 1
      BY <1>1 DEF StepAfter, KeepsPlace
    <2>2. PICK u \in Tasks : StepAfter(d, u)
      BY <1>0, <2>1, NoTaskAssumption DEF ComesAfter
    <2>3. Root(u) = Root(t) /\ Left(t) = Left(u) + 1
      BY <1>0, <2>1, <2>2 DEF StepAfter
    <2>4. CASE events[u].parent = NoTask
      BY <1>0, <1>2, <2>3, <2>4
    <2>5. CASE events[u].parent # NoTask
      BY <1>0, <1>3, <2>3, <2>5 DEF StepAfter
    <2> QED
      BY <2>4, <2>5
  (* c comes after t only.                                                 *)
  <1>9. \A u \in Tasks : StepAfter(c, u)' => u = t
    <2> SUFFICES ASSUME NEW u \in Tasks, StepAfter(c, u)' PROVE u = t
      OBVIOUS
    <2>1. Left(u)' = Left(c)' + 1 /\ Root(u)' = Root(t)
      BY DEF StepAfter
    <2>2. u # c
      BY <2>1
    <2>3. Left(u) = Left(t) /\ Root(u) = Root(t)
      BY <1>1, <2>1, <2>2 DEF KeepsPlace
    <2>4. CASE events[u].parent = NoTask /\ events[t].parent = NoTask
      BY <1>0, <2>3, <2>4
    <2>5. CASE events[u].parent = NoTask /\ events[t].parent # NoTask
      BY <1>0, <2>3, <2>5
    <2>6. CASE events[u].parent # NoTask /\ events[t].parent = NoTask
      BY <1>0, <2>3, <2>6
    <2>7. CASE events[u].parent # NoTask /\ events[t].parent # NoTask
      BY <1>0, <2>3, <2>7 DEF AloneAtDepth
    <2> QED
      BY <2>4, <2>5, <2>6, <2>7
  <1>10. AfterChained'
    <2> SUFFICES ASSUME NEW d \in Tasks, NEW u \in Tasks, StepAfter(d, u)'
                 PROVE  ChainedOn(u)'
      BY DEF AfterChained
    <2>1. CASE d = c
      BY <1>9, <2>1
    <2>2. CASE d # c
      BY <1>0, <1>5, <1>8, <2>2 DEF AfterChained
    <2> QED
      BY <2>1, <2>2
  <1>11. AloneAtDepth'
    <2>1. \A d \in Tasks \ {c} :
             ~(events'[d].parent = events'[c].parent /\ Left(d)' = Left(c)')
      BY <1>3 DEF KeepsPlace, StepAfter
    <2>2. \A d, e \in Tasks \ {c} :
             /\ events'[d].parent # NoTask
             /\ events'[d].parent = events'[e].parent
             /\ Left(d)' = Left(e)'
             => d = e
      BY <1>0 DEF AloneAtDepth, KeepsPlace
    <2> QED
      BY <2>1, <2>2 DEF AloneAtDepth
  <1> QED
    BY <1>4, <1>7, <1>10, <1>11 DEF Chains

(* Every step keeps the chains as long as nothing is hit or issued again.  *)
LEMMA ChainStep ==
    ASSUME TypeInv, RowInv, \A t \in Tasks : PlainInv(t), ChainInv, [Next]_vars,
           Clean'
    PROVE  Chains'
  <1>1. \A t \in Tasks : Plain(t)' /\ Plain(t) /\ OnePlace(t) /\ StatusFits(t)
    <2>1. \A t \in Tasks : Plain(t)'
      BY DEF Clean, Plain
    <2> QED
      BY <2>1, PlainBefore DEF PlainInv
  <1>2. Chains
    <2>1. Clean
      BY <1>1 DEF Plain, Clean, TypeInv
    <2> QED
      BY <2>1 DEF ChainInv
  <1>3. \A u \in Tasks : ChainedOn(u) => ChainedOn(u)'
    BY <1>1, ChainedOnStays
  <1>4. ASSUME NEW u \in Tasks, \A w \in Workers : ~Inserts(w, u)
        PROVE  KeepsPlace(u)
    BY <1>4, RowsLast DEF RowInv, Lasts, KeepsPlace, Left
  <1>5. ASSUME NEW w \in Workers, NEW c \in Tasks, Inserts(w, c)
        PROVE  Chains'
    <2>1. PICK t \in Tasks : t = worker[w].task
      BY <1>5, InsertedRow
    <2>2. /\ worker[w].pc = "saveNext"
          /\ events[t].next # << >>
          /\ ~Exists(events, c)
          /\ worker'[w].pc = "enqueueNext" /\ worker'[w].task = t
      BY <1>5, <2>1 DEF Inserts, Clean
    <2>3. ~ChainedOn(t) /\ ChainedOn(t)'
      <3>1. ~ChainedOn(t)
        BY <1>1, <2>1, <2>2, NotYetChained
      <3> QED
        BY <2>2, <3>1 DEF ChainedOn
    <2>4. /\ events'[c].parent = Root(t)
          /\ events'[c].next = Tail(events[t].next)
      BY <1>5, <2>1, InsertedRow DEF Root
    <2>5. Left(t) = Left(c)' + 1 /\ Left(c)' \in Nat
      <3>1. events[t].next \in Seq(Step)
        BY DEF TypeInv, Row
      <3> QED
        BY <2>2, <2>4, <3>1 DEF Left
    <2>6. \A u \in Tasks \ {c} : KeepsPlace(u)
      <3> SUFFICES ASSUME NEW u \in Tasks \ {c}, NEW v \in Workers, Inserts(v, u)
                   PROVE  FALSE
        BY <1>4
      <3>1. events'[u] = events[u] /\ ~Exists(events, u)
        BY <1>5 DEF Inserts, InsertEvent, TypeInv
      <3>2. Exists(events', u)
        BY InsertedRow
      <3> QED
        BY <3>1, <3>2 DEF Exists
    <2> QED
      BY <1>2, <1>3, <2>2, <2>3, <2>4, <2>5, <2>6, InsertStep
  <1>6. CASE \A w \in Workers, c \in Tasks : ~Inserts(w, c)
    BY <1>2, <1>3, <1>4, <1>6, SamePlacesStep
  <1> QED
    BY <1>5, <1>6

(* Initially there is nothing but roots.                                   *)
LEMMA InitChains == Init => ChainInv
  <1> SUFFICES ASSUME Init PROVE Chains
    BY DEF ChainInv
  <1>1. \A t \in Tasks : events[t].parent = NoTask
    <2>1. PICK body \in [Accepted -> Bodies] :
            events = [t \in Tasks |->
                        IF t \in Accepted
                        THEN NewRow(body[t].step, NoTask, body[t].next)
                        ELSE Absent]
      BY DEF Init
    <2> QED
      BY <2>1 DEF NewRow, Absent
  <1>2. \A t \in Tasks : Root(t) = t
    BY <1>1 DEF Root, RootTaskID
  <1> QED
    BY <1>1, <1>2, NoTaskAssumption
       DEF Chains, BelowRoot, ComesAfter, AfterChained, AloneAtDepth, StepAfter

(* As long as no operator issues a task again and no fault hits, the next  *)
(* step of a task is saved once, however often its attempts fail and are   *)
(* retried: every depth of every chain has one task.                       *)
THEOREM NextStepOnce == Spec => []ChainedOnce
  <1> DEFINE Inv == \A t \in Tasks : PlainInv(t)
  <1>1. TypeInv /\ RowInv /\ Inv /\ ChainInv /\ [Next]_vars => ChainInv'
    BY ChainStep DEF ChainInv
  <1>2. ChainInv => ChainedOnce
    BY DEF ChainInv, Clean, Chains, AloneAtDepth, Left, ChainedOnce
  <1> QED
    BY <1>1, <1>2, InitChains, PlainInvariant, PTL DEF Spec

-----------------------------------------------------------------------------
(* What clients see of all tasks, and the tasks issued again: the          *)
(* refinement mapping.                                                     *)
Seen == [t \in Tasks |-> ViewOf(t)]

IssuedAgain == {t \in Tasks : reissued[t] > 0}

(* The statements on table events, as clients see them.                    *)
LEMMA SeenStatement ==
    ASSUME TypeInv, NEW c \in Tasks
    PROVE  /\ \A st : events' = UpdateEventStatus(events, c, st) =>
                         Seen' = [Seen EXCEPT ![c].status = st]
           /\ events' = UpdateEventResult(events, c) =>
                 Seen' = [Seen EXCEPT ![c].result = TRUE]
           /\ \A s, p, n : events' = InsertEvent(events, c, NewRow(s, p, n)) =>
                 Seen' = [Seen EXCEPT ![c] = TS!New(p, n)]
           /\ events' = events => Seen' = Seen
  <1>1. ASSUME NEW st, events' = UpdateEventStatus(events, c, st)
        PROVE  Seen' = [Seen EXCEPT ![c].status = st]
    <2>1. ASSUME NEW t \in Tasks
          PROVE  ViewOf(t)' = IF t = c THEN [ViewOf(t) EXCEPT !.status = st]
                              ELSE ViewOf(t)
      <3>1. events'[t] = IF t = c THEN [events[t] EXCEPT !.status = st]
                         ELSE events[t]
        BY <1>1 DEF UpdateEventStatus, TypeInv
      <3>2. events[t] \in Row
        BY DEF TypeInv
      <3>3. CASE t = c
        BY <3>1, <3>2, <3>3 DEF ViewOf, Row
      <3>4. CASE t # c
        BY <3>1, <3>4 DEF ViewOf
      <3> QED
        BY <3>3, <3>4
    <2> QED
      BY <2>1 DEF Seen
  <1>2. ASSUME events' = UpdateEventResult(events, c)
        PROVE  Seen' = [Seen EXCEPT ![c].result = TRUE]
    <2>1. ASSUME NEW t \in Tasks
          PROVE  ViewOf(t)' = IF t = c THEN [ViewOf(t) EXCEPT !.result = TRUE]
                              ELSE ViewOf(t)
      <3>1. events'[t] = IF t = c THEN [events[t] EXCEPT !.result = TRUE]
                         ELSE events[t]
        BY <1>2 DEF UpdateEventResult, TypeInv
      <3>2. events[t] \in Row
        BY DEF TypeInv
      <3>3. CASE t = c
        <4>1. /\ events'[t].status = events[t].status
              /\ events'[t].parent = events[t].parent
              /\ events'[t].next = events[t].next
              /\ events'[t].result = TRUE
          BY <3>1, <3>2, <3>3 DEF Row
        <4> DEFINE st == events[t].status
                   pa == events[t].parent
                   ne == events[t].next
                   re == events[t].result
        <4>2. ASSUME NEW x
              PROVE  [[status |-> st, parent |-> pa, next |-> ne, result |-> re]
                        EXCEPT !.result = x]
                     = [status |-> st, parent |-> pa, next |-> ne, result |-> x]
          OBVIOUS
        <4> QED
          BY <3>3, <4>1, <4>2 DEF ViewOf
      <3>4. CASE t # c
        BY <3>1, <3>4 DEF ViewOf
      <3> QED
        BY <3>3, <3>4
    <2> QED
      BY <2>1 DEF Seen
  <1>3. ASSUME NEW s, NEW p, NEW n,
               events' = InsertEvent(events, c, NewRow(s, p, n))
        PROVE  Seen' = [Seen EXCEPT ![c] = TS!New(p, n)]
    <2>1. ASSUME NEW t \in Tasks
          PROVE  ViewOf(t)' = IF t = c THEN TS!New(p, n) ELSE ViewOf(t)
      <3>1. events'[t] = IF t = c THEN NewRow(s, p, n) ELSE events[t]
        BY <1>3 DEF InsertEvent, TypeInv
      <3>2. CASE t = c
        <4>1. /\ events'[t].status = "pending"
              /\ events'[t].parent = p
              /\ events'[t].next = n
              /\ events'[t].result = FALSE
          BY <3>1, <3>2 DEF NewRow
        <4> QED
          BY <3>2, <4>1 DEF ViewOf, TS!New
      <3>3. CASE t # c
        BY <3>1, <3>3 DEF ViewOf
      <3> QED
        BY <3>2, <3>3
    <2> QED
      BY <2>1 DEF Seen
  <1>4. events' = events => Seen' = Seen
    BY DEF Seen, ViewOf
  <1> QED
    BY <1>1, <1>2, <1>3, <1>4

(* The rows of the initial state are those of accepted tasks.              *)
LEMMA InitRefines == Init => TS!Init
  <1> SUFFICES ASSUME Init PROVE TS!Init
    OBVIOUS
  <1>1. PICK body \in [Accepted -> Bodies] :
          events = [t \in Tasks |->
                      IF t \in Accepted
                      THEN NewRow(body[t].step, NoTask, body[t].next)
                      ELSE Absent]
    BY DEF Init
  <1>2. TypeInv /\ faulted = {} /\ IssuedAgain = {}
    BY InitTypeInv DEF Init, IssuedAgain
  <1>3. ASSUME NEW t \in Tasks
        PROVE  /\ ViewOf(t) \in TS!View
               /\ ViewOf(t) = IF ViewOf(t).status # "absent"
                              THEN TS!New(NoTask, ViewOf(t).next) ELSE TS!None
    <2>1. ViewOf(t) \in TS!View
      BY <1>2 DEF TypeInv, Row, ViewOf, TS!View, Status, TS!Status, Step, TS!Step,
                  PriorityColumn, TS!PriorityColumn, RequestPriority,
                  TS!RequestPriority, Priorities, TS!Priorities
    <2>2. ViewOf(t) = IF t \in Accepted THEN TS!New(NoTask, body[t].next)
                      ELSE TS!None
      BY <1>1 DEF ViewOf, NewRow, Absent, TS!New, TS!None
    <2>3. CASE t \in Accepted
      <3>1. ViewOf(t).status = "pending" /\ ViewOf(t).next = body[t].next
        BY <2>2, <2>3 DEF TS!New
      <3> QED
        BY <2>1, <2>2, <2>3, <3>1
    <2>4. CASE t \notin Accepted
      <3>1. ViewOf(t).status = "absent"
        BY <2>2, <2>4 DEF TS!None
      <3> QED
        BY <2>1, <2>2, <2>4, <3>1
    <2> QED
      BY <2>3, <2>4
  <1> QED
    BY <1>2, <1>3 DEF TS!Init, TS!Known, IssuedAgain

-----------------------------------------------------------------------------
(* The steps of the service, in terms of the mapping.                      *)

(* A step that changes no row is at most a loss.                           *)
LEMMA LoseStep ==
    ASSUME UNCHANGED <<events, reissued>>, NEW S \in SUBSET Tasks,
           faulted' = faulted \cup S
    PROVE  TS!Next
  <1>1. Seen' = Seen /\ IssuedAgain' = IssuedAgain
    BY DEF Seen, ViewOf, IssuedAgain
  <1>2. TS!Lose(S)
    BY <1>1 DEF TS!Lose, Seen, IssuedAgain
  <1> QED
    BY <1>2 DEF TS!Next

(* What a write that may fail does to the lost tasks.                      *)
LEMMA HitLoses ==
    ASSUME NEW r, NEW c \in Tasks, Hit(r, c)
    PROVE  /\ faulted' \in {faulted, faulted \cup {c}}
           /\ \E S \in SUBSET Tasks : faulted' = faulted \cup S
  <1>1. faulted' = faulted \cup {} \/ faulted' = faulted \cup {c}
    BY DEF Hit
  <1> QED
    BY <1>1

(* A step that changes no row is a stutter or a fault of the service.      *)
LEMMA QuietStep ==
    ASSUME UNCHANGED <<events, reissued>>,
           \/ faulted' = faulted
           \/ \E r \in Outcome, c \in Tasks : Hit(r, c)
    PROVE  TS!Next
  <1>1. CASE faulted' = faulted
    <2>1. faulted' = faulted \cup {} /\ {} \in SUBSET Tasks
      BY <1>1
    <2> QED
      BY <2>1, LoseStep
  <1>2. ASSUME NEW r \in Outcome, NEW c \in Tasks, Hit(r, c)
        PROVE  TS!Next
    <2>1. PICK S \in SUBSET Tasks : faulted' = faulted \cup S
      BY <1>2, HitLoses
    <2> QED
      BY <2>1, LoseStep
  <1> QED
    BY <1>1, <1>2

(* A worker that owes t a status may decide it: t is pending or cancelled, *)
(* or it was issued again or hit by a fault.                               *)
LEMMA MayDecideHeld ==
    ASSUME TypeInv, RowInv, NEW t \in Tasks, PlainInv(t),
           NEW w \in Workers, Undecided(w, t)
    PROVE  TS!MayDecide(t)
  <1>1. Exists(events, t)
    BY DEF RowInv, NoDanglingIds, HeldByWorker, Undecided, Executing
  <1>2. CASE Plain(t)
    <2>1. events[t].status \in {"pending", "cancelled"}
      BY <1>2 DEF PlainInv, StatusFits, Active
    <2> QED
      BY <2>1 DEF TS!MayDecide, ViewOf
  <1>3. CASE ~Plain(t)
    <2>1. t \in faulted \/ reissued[t] > 0
      BY <1>3, LifecycleAssumption DEF Plain, TypeInv
    <2> QED
      BY <1>1, <2>1 DEF TS!MayDecide, TS!Known, ViewOf, Exists
  <1> QED
    BY <1>2, <1>3

(* The next step saved in the table is the next step created.              *)
LEMMA NextSavedIsCreated ==
    ASSUME NEW t \in Tasks, NextSaved(t)
    PROVE  TS!NextCreated(t)
  <1>1. TS!Root(t) = RootTaskID(events, t)
    BY DEF TS!Root, RootTaskID, ViewOf
  <1>2. /\ Seen[t].next = events[t].next
        /\ \A c \in Tasks : /\ Seen[c].status = events[c].status
                            /\ Seen[c].parent = events[c].parent
                            /\ Seen[c].next = events[c].next
    BY DEF Seen, ViewOf
  <1> QED
    BY <1>1, <1>2 DEF NextSaved, TS!NextCreated, TS!Known, Exists, Seen

(* MarkProcessed and MarkFailed.                                           *)
LEMMA DecideRefines ==
    ASSUME TypeInv, RowInv, NEW w \in Workers, NEW r \in Outcome,
           \A t \in Tasks : PlainInv(t),
           MarkProcessed(w, r) \/ MarkFailed(w, r)
    PROVE  TS!Next
  <1> DEFINE t == worker[w].task
  <1>1. /\ worker[w].pc \in {"succeed", "giveUp"}
        /\ t \in Tasks
        /\ Hit(r, t)
        /\ reissued' = reissued
    <2>1. worker[w].pc \in {"succeed", "giveUp"} /\ Hit(r, t)
          /\ reissued' = reissued
      BY DEF MarkProcessed, MarkFailed, SetStatus
    <2> QED
      BY <2>1, Holds
  <1>2. TS!MayDecide(t)
    BY <1>1, MayDecideHeld DEF Undecided, Executing
  <1>3. IssuedAgain' = IssuedAgain /\ faulted' \in {faulted, faulted \cup {t}}
    BY <1>1, HitLoses DEF IssuedAgain
  <1>4. CASE events' = events
    BY <1>1, <1>4, QuietStep
  <1>5. CASE /\ worker[w].pc = "succeed"
             /\ events' = UpdateEventStatus(events, t, "processed")
    <2>1. Seen' = [Seen EXCEPT ![t].status = "processed"]
      BY <1>1, <1>5, SeenStatement
    <2>2. Seen[t].result
      BY <1>1, <1>5 DEF RowInv, ResultStored, Seen, ViewOf
    <2>3. TS!NextCreated(t)
      BY <1>1, <1>5, NextSavedIsCreated DEF RowInv, NextStepSaved
    <2>4. TS!Process(t)
      BY <1>2, <1>3, <2>1, <2>2, <2>3
         DEF TS!Process, TS!MayLose, Seen, IssuedAgain
    <2> QED
      BY <1>1, <2>4 DEF TS!Next
  <1>6. CASE events' = UpdateEventStatus(events, t, "failed")
    <2>1. Seen' = [Seen EXCEPT ![t].status = "failed"]
      BY <1>1, <1>6, SeenStatement
    <2>2. TS!Fail(t)
      BY <1>2, <1>3, <2>1 DEF TS!Fail, TS!MayLose, Seen, IssuedAgain
    <2> QED
      BY <1>1, <2>2 DEF TS!Next
  <1> QED
    BY <1>4, <1>5, <1>6 DEF MarkProcessed, MarkFailed, SetStatus, After

(* RunHandler stores a result, or leaves the row alone.                    *)
LEMMA RunHandlerRefines ==
    ASSUME TypeInv, RowInv, NEW w \in Workers, RunHandler(w)
    PROVE  TS!Next
  <1> DEFINE t == worker[w].task
  <1>1. worker[w].pc = "run" /\ UNCHANGED <<faulted, reissued>>
    BY DEF RunHandler, history
  <1>2. t \in Tasks
    BY <1>1, Holds
  <1>3. Exists(events, t)
    BY <1>2 DEF RowInv, NoDanglingIds, HeldByWorker
  <1>4. CASE events' = events
    BY <1>1, <1>4, QuietStep
  <1>5. CASE events' = UpdateEventResult(events, t)
    <2>1. Seen' = [Seen EXCEPT ![t].result = TRUE]
      BY <1>2, <1>5, SeenStatement
    <2>2. Seen[t].status # "absent" /\ IssuedAgain' = IssuedAgain
      BY <1>1, <1>2, <1>3 DEF Seen, ViewOf, Exists, IssuedAgain
    <2>3. TS!StoreResult(t)
      BY <1>1, <2>1, <2>2 DEF TS!StoreResult, TS!Known, Seen, IssuedAgain
    <2> QED
      BY <1>2, <2>3 DEF TS!Next
  <1> QED
    BY <1>4, <1>5 DEF RunHandler

(* SaveNext creates the next step of a task that has its result, or none.  *)
LEMMA SaveNextRefines ==
    ASSUME TypeInv, RowInv, NEW w \in Workers, NEW c \in Tasks,
           NEW r \in Outcome, SaveNext(w, c, r)
    PROVE  TS!Next
  <1> DEFINE t == worker[w].task
  <1>1. /\ worker[w].pc = "saveNext"
        /\ reissued' = reissued
        /\ faulted' = faulted \/ Hit(r, c)
    BY DEF SaveNext
  <1>2. CASE events' = events
    BY <1>1, <1>2, QuietStep
  <1>3. CASE Inserts(w, c)
    <2>1. t \in Tasks /\ events[t].result
      BY <1>1, Holds DEF RowInv, ResultStored
    <2>2. TS!Root(t) = RootTaskID(events, t)
      BY <2>1 DEF TS!Root, RootTaskID, ViewOf
    <2>3. Seen' = [Seen EXCEPT ![c] = TS!New(TS!Root(t), Tail(Seen[t].next))]
      <3>1. events' = InsertEvent(events, c, NewRow(Head(events[t].next),
                         RootTaskID(events, t), Tail(events[t].next)))
        BY <1>3 DEF Inserts, NextRow
      <3>2. Seen' = [Seen EXCEPT ![c] =
                        TS!New(RootTaskID(events, t), Tail(events[t].next))]
        BY <3>1, SeenStatement
      <3>3. Seen[t].next = events[t].next
        BY <2>1 DEF Seen, ViewOf
      <3> QED
        BY <2>2, <3>2, <3>3
    <2>4. /\ Seen[t].result
          /\ Seen[t].next # << >>
          /\ Seen[c].status = "absent"
      BY <1>3, <2>1 DEF Inserts, Exists, Seen, ViewOf
    <2>5. faulted' \in {faulted, faulted \cup {c}} /\ IssuedAgain' = IssuedAgain
      BY <1>1, HitLoses DEF IssuedAgain
    <2>6. TS!Chain(t, c)
      BY <2>3, <2>4, <2>5
         DEF TS!Chain, TS!Known, TS!MayLose, Seen, IssuedAgain
    <2> QED
      BY <2>1, <2>6 DEF TS!Next
  <1> QED
    BY <1>2, <1>3, SaveInserts

(* Every other step of a worker changes no row.                            *)
LEMMA WorkerStepRefines ==
    ASSUME TypeInv, RowInv, \A t \in Tasks : PlainInv(t),
           NEW w \in Workers, WorkerStep(w)
    PROVE  TS!Next
  <1>1. CASE \E p \in Priorities, c \in Tasks, r \in Outcome : Take(w, p, c, r)
    BY <1>1, QuietStep DEF Take
  <1>2. CASE Fetch(w)
    BY <1>2, QuietStep DEF Fetch, history
  <1>3. CASE RunHandler(w)
    BY <1>3, RunHandlerRefines
  <1>4. CASE \E c \in Tasks, r \in Outcome : SaveNext(w, c, r)
    BY <1>4, SaveNextRefines
  <1>5. ASSUME NEW r \in Outcome, MarkProcessed(w, r) \/ MarkFailed(w, r)
        PROVE  TS!Next
    BY <1>5, DecideRefines
  <1>6. ASSUME NEW r \in Outcome, EnqueueNext(w, r)
        PROVE  TS!Next
    <2>1. worker[w].child \in Tasks
      BY <1>6, Holds DEF EnqueueNext
    <2> QED
      BY <1>6, <2>1, QuietStep DEF EnqueueNext
  <1>7. ASSUME NEW r \in Outcome,
               \/ LogSucceed(w, r) \/ LogRetry(w, r) \/ LogGiveUp(w, r)
               \/ DeadLetter(w, r)
        PROVE  TS!Next
    <2>1. /\ worker[w].pc # "idle"
          /\ Hit(r, worker[w].task)
          /\ UNCHANGED <<events, reissued>>
      BY <1>7 DEF LogSucceed, LogRetry, LogGiveUp, DeadLetter, RecordAttempt
    <2>2. worker[w].task \in Tasks
      BY <2>1, Holds
    <2> QED
      BY <2>1, <2>2, QuietStep
  <1> QED
    BY <1>1, <1>2, <1>3, <1>4, <1>5, <1>6, <1>7 DEF WorkerStep

(* A reset reopens the task, or leaves its row alone.                      *)
LEMMA ResetRefines ==
    ASSUME TypeInv, NEW a \in Admins, NEW t \in Tasks, NEW r \in Outcome,
           Reset(a, t, r), IssuedAgain' = IssuedAgain \cup {t}
    PROVE  TS!Next
  <1>1. /\ events[t].status \in {"failed", "cancelled"}
        /\ events' = events \/ events' = UpdateEventStatus(events, t, "pending")
        /\ faulted' \in {faulted, faulted \cup {t}}
    BY HitLoses DEF Reset, Retryable, ResetTaskForRetry, After
  <1>2. Seen[t].status = events[t].status
    BY DEF Seen, ViewOf
  <1>3. CASE events' = events
    <2>1. Seen' = Seen
      BY <1>3, SeenStatement
    <2>2. TS!IssueAgain(t)
      BY <1>1, <1>2, <2>1
         DEF TS!IssueAgain, TS!Known, TS!MayLose, Seen, IssuedAgain
    <2> QED
      BY <2>2 DEF TS!Next
  <1>4. CASE events' = UpdateEventStatus(events, t, "pending")
    <2>1. Seen' = [Seen EXCEPT ![t].status = "pending"]
      BY <1>4, SeenStatement
    <2>2. TS!Reopen(t)
      BY <1>1, <1>2, <2>1 DEF TS!Reopen, TS!MayLose, Seen, IssuedAgain
    <2> QED
      BY <2>2 DEF TS!Next
  <1> QED
    BY <1>1, <1>3, <1>4

(* The steps of a request in progress.                                     *)
LEMMA RequestStepRefines ==
    ASSUME TypeInv, \A t \in Tasks : DueInv(t), NEW a \in Admins, RequestStep(a)
    PROVE  TS!Next
  <1>1. ASSUME NEW r \in Outcome, ResetDLQTask(a, r)
        PROVE  TS!Next
    <2> DEFINE t == request[a].task
    <2>1. t \in Tasks /\ reissued' = reissued
      BY <1>1, Holds DEF ResetDLQTask
    <2>2. t \in IssuedAgain
      BY <2>1, LifecycleAssumption
         DEF IssuedAgain, DueInv, HeldByRequest, TypeInv
    <2>3. IssuedAgain' = IssuedAgain \cup {t}
      BY <2>1, <2>2 DEF IssuedAgain
    <2>4. CASE Reset(a, t, r)
      BY <2>1, <2>3, <2>4, ResetRefines
    <2>5. CASE UNCHANGED <<events, faulted>>
      BY <2>1, <2>5, QuietStep
    <2> QED
      BY <1>1, <2>4, <2>5 DEF ResetDLQTask
  <1>2. ASSUME NEW r \in Outcome, EnqueueRetry(a, r)
        PROVE  TS!Next
    <2>1. request[a].task \in Tasks
      BY <1>2, Holds DEF EnqueueRetry
    <2> QED
      BY <1>2, <2>1, QuietStep DEF EnqueueRetry
  <1>3. CASE PushRequeued(a)
    BY <1>3, QuietStep DEF PushRequeued, history
  <1> QED
    BY <1>1, <1>2, <1>3 DEF RequestStep

(* The steps that start a request.                                         *)
LEMMA NewRequestRefines ==
    ASSUME TypeInv, RowInv, NewRequest
    PROVE  TS!Next
  <1>1. ASSUME NEW t \in Tasks, HandleCancelTask(t)
        PROVE  TS!Next
    <2>1. /\ events[t].status = "pending"
          /\ events' = UpdateEventStatus(events, t, "cancelled")
          /\ UNCHANGED <<faulted, reissued>>
      BY <1>1 DEF HandleCancelTask, Cancellable, CancelEventIfPending, history
    <2>2. /\ Seen' = [Seen EXCEPT ![t].status = "cancelled"]
          /\ Seen[t].status = "pending"
          /\ IssuedAgain' = IssuedAgain
      BY <2>1, SeenStatement DEF Seen, ViewOf, IssuedAgain
    <2>3. TS!Cancel(t)
      BY <2>1, <2>2 DEF TS!Cancel, Seen, IssuedAgain
    <2> QED
      BY <2>3 DEF TS!Next
  <1>2. ASSUME NEW t \in Tasks, HandleRemoveDLQTask(t)
        PROVE  TS!Next
    BY <1>2, QuietStep DEF HandleRemoveDLQTask
  <1>3. ASSUME NEW t \in Tasks, Reissue(t)
        PROVE  IssuedAgain' = IssuedAgain \cup {t}
    <2>1. \A u \in Tasks :
             /\ reissued[u] \in Nat
             /\ reissued'[u] = IF u = t THEN reissued[u] + 1 ELSE reissued[u]
      BY <1>3, LifecycleAssumption DEF Reissue, TypeInv
    <2> QED
      BY <2>1 DEF IssuedAgain
  <1>4. ASSUME NEW a \in Admins, NEW t \in Tasks, NEW r \in Outcome,
               HandleRetryTask(a, t, r)
        PROVE  TS!Next
    BY <1>3, <1>4, ResetRefines DEF HandleRetryTask
  <1>5. ASSUME NEW a \in Admins, NEW t \in Tasks, NEW r \in Outcome,
               HandleRequeueTask(a, t) \/ HandleRetryDLQTask(a, t, r)
        PROVE  TS!Next
    <2>1. /\ events' = events
          /\ Reissue(t)
          /\ faulted' = faulted \/ Hit(r, t)
      BY <1>5 DEF HandleRequeueTask, HandleRetryDLQTask
    <2>2. Exists(events, t)
      BY <1>5 DEF HandleRequeueTask, HandleRetryDLQTask, Exists, RowInv,
                  NoDanglingIds
    <2>3. /\ Seen' = Seen
          /\ Seen[t].status # "absent"
          /\ IssuedAgain' = IssuedAgain \cup {t}
          /\ faulted' \in {faulted, faulted \cup {t}}
      BY <1>3, <2>1, <2>2, HitLoses, SeenStatement DEF Seen, ViewOf, Exists
    <2>4. TS!IssueAgain(t)
      BY <2>3 DEF TS!IssueAgain, TS!Known, TS!MayLose, Seen, IssuedAgain
    <2> QED
      BY <2>4 DEF TS!Next
  <1> QED
    BY <1>1, <1>2, <1>4, <1>5 DEF NewRequest, Outcome

(* Promotion, the passing of time and crashes.                             *)
LEMMA OtherStepRefines ==
    ASSUME TypeInv, Promote \/ (\E t \in Tasks : ReachExecuteAt(t)) \/ Crash
    PROVE  TS!Next
  <1>1. ASSUME NEW entry \in Scheduled, NEW r \in Outcome,
               PromoteScheduled(entry, r)
        PROVE  TS!Next
    <2>1. entry[1] \in Tasks
      BY DEF Scheduled
    <2> QED
      BY <1>1, <2>1, QuietStep DEF PromoteScheduled
  <1>2. CASE \E t \in Tasks : ReachExecuteAt(t)
    BY <1>2, QuietStep DEF ReachExecuteAt, history
  <1>3. CASE Crash
    <2> DEFINE S == {t \in Tasks : HeldByWorker(t) \/ HeldByRequest(t)}
    <2>1. UNCHANGED <<events, reissued>> /\ faulted' = faulted \cup S
      BY <1>3 DEF Crash
    <2> QED
      BY <2>1, LoseStep
  <1> QED
    BY <1>1, <1>2, <1>3 DEF Promote

(* Every step is a step of the service or changes nothing it shows.        *)
LEMMA StepRefines ==
    ASSUME TypeInv, RowInv, \A t \in Tasks : PlainInv(t),
           \A t \in Tasks : DueInv(t), [Next]_vars
    PROVE  TS!Next \/ UNCHANGED TS!vars
  <1>1. CASE \E w \in Workers : WorkerStep(w)
    BY <1>1, WorkerStepRefines
  <1>2. CASE \E a \in Admins : RequestStep(a)
    BY <1>2, RequestStepRefines
  <1>3. CASE NewRequest
    BY <1>3, NewRequestRefines
  <1>4. CASE Promote \/ (\E t \in Tasks : ReachExecuteAt(t)) \/ Crash
    BY <1>4, OtherStepRefines
  <1>5. CASE UNCHANGED vars
    BY <1>5 DEF vars, TS!vars, ViewOf
  <1> QED
    BY <1>1, <1>2, <1>3, <1>4, <1>5 DEF Next

-----------------------------------------------------------------------------
(* The worker pool, the scheduler, the admin endpoints, failed writes and  *)
(* crashes together show clients nothing but steps of TaskService: a task  *)
(* is processed only with its result and its next step, only a pending     *)
(* task is cancelled, a chained task comes into being only after the       *)
(* result it builds on, and a decision is final unless the task was issued *)
(* again or hit by a fault.                                                *)
THEOREM LifecycleImplementsService == Spec => ImplementsTaskService
  <1>1. /\ TypeInv /\ RowInv /\ (\A t \in Tasks : PlainInv(t))
        /\ (\A t \in Tasks : DueInv(t))
        /\ [Next]_vars
        => [TS!Next]_TS!vars
    BY StepRefines
  <1> QED
    BY <1>1, InitRefines, PlainInvariant, DueInvariant, PTL
       DEF Spec, ImplementsTaskService, TS!Spec
=============================================================================
