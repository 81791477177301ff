----------------------------- MODULE EventTable -----------------------------
(***************************************************************************)
(* The Postgres side of the platform: one row per task in table `events`   *)
(* and one row per task in `event_delivery_logs`, with one operator per    *)
(* SQL statement of internal/database.  A statement is atomic, so each     *)
(* operator takes a table and returns the table after the statement.       *)
(*                                                                         *)
(* Columns that no property tells apart (payload text, trace id, the       *)
(* timestamps) are left out.  The payload's `next` field is kept as the    *)
(* sequence of steps still to be chained.                                  *)
(***************************************************************************)
EXTENDS Naturals, Sequences

CONSTANTS
    Tasks,       \* task ids (the uuids the process may draw)
    NoTask       \* a NULL parentid

ASSUME NoTaskAssumption == NoTask \notin Tasks

Status == {"pending", "processed", "failed", "cancelled"}

Priorities == {"high", "medium", "low"}

(* What a request may ask for: HandleCreateTask replaces an empty priority *)
(* by medium and lets every other string pass ("other").                   *)
RequestPriority == Priorities \cup {"other"}

(* "none" is a NULL priority column: a chained step whose request left it  *)
(* out (task_handler.go defaults it to medium, chaining.go does not).      *)
PriorityColumn == RequestPriority \cup {"none"}

(* What a request, or one step of its `next` chain, says about the task.   *)
Step == [priority : PriorityColumn, executeAt : BOOLEAN]

Row == [status    : Status \cup {"absent"},
        priority  : PriorityColumn,
        executeAt : BOOLEAN,          \* has an execute_at / scheduled_at
        parent    : Tasks \cup {NoTask},
        next      : Seq(Step),
        result    : BOOLEAN]          \* result IS NOT NULL

Absent == [status |-> "absent", priority |-> "none", executeAt |-> FALSE,
           parent |-> NoTask, next |-> << >>, result |-> FALSE]

(* Mutant: rows start with a status the rest of the program does not know. *)
BugNewRow(step, parent, next) ==
    [status |-> "queued", priority |-> step.priority,
     executeAt |-> step.executeAt, parent |-> parent, next |-> next,
     result |-> FALSE]

(* SaveProcessedEvent ignores its status argument: a row starts pending.   *)
NewRow(step, parent, next) ==
    [status |-> "pending", priority |-> step.priority,
     executeAt |-> step.executeAt, parent |-> parent, next |-> next,
     result |-> FALSE]

-----------------------------------------------------------------------------
(* Statements on `events`.                                                 *)

InsertEvent(events, id, row) == [events EXCEPT ![id] = row]

Exists(events, id) == events[id].status # "absent"

UpdateEventStatus(events, id, status) ==
    [events EXCEPT ![id].status = status]

UpdateEventResult(events, id) == [events EXCEPT ![id].result = TRUE]

(* Mutant: the update is not limited to pending rows.                      *)
BugCancellable(events, id) == Exists(events, id)

Cancellable(events, id) == events[id].status = "pending"

CancelEventIfPending(events, id) ==
    IF Cancellable(events, id)
    THEN UpdateEventStatus(events, id, "cancelled")
    ELSE events

Retryable(events, id) == events[id].status \in {"failed", "cancelled"}

ResetTaskForRetry(events, id) ==
    IF Retryable(events, id)
    THEN UpdateEventStatus(events, id, "pending")
    ELSE events

(* SELECT ... WHERE parentid = $1.                                         *)
ListEventsByParentID(events, id) ==
    {c \in Tasks : Exists(events, c) /\ events[c].parent = id}

(* The priority an admin endpoint queues with: the column, or medium.      *)
QueuePriority(row) ==
    IF row.priority = "none" THEN "medium" ELSE row.priority

(* Mutant: a chained task becomes the parent of its own next step.         *)
BugRootTaskID(events, id) == id

(* EventStore.GetTask: metadata root_task_id is the parent, or the task.   *)
RootTaskID(events, id) ==
    IF events[id].parent # NoTask THEN events[id].parent ELSE id

-----------------------------------------------------------------------------
(* Table `event_delivery_logs`: event_id is its primary key, so the upsert *)
(* keeps the latest attempt of a task and nothing else.                    *)

LogStatus == {"processed", "retry", "failed"}

NoLog == [status |-> "absent", attempt |-> 0]

UpsertDeliveryLog(logs, id, status, attempt) ==
    [logs EXCEPT ![id] = [status |-> status, attempt |-> attempt]]

GetDeliveryLogsForEvent(logs, id) == {logs[id]} \ {NoLog}
=============================================================================
