--------------------------- MODULE TaskRefinement ---------------------------
(***************************************************************************)
(* TaskLifecycle implements TaskService: queues, workers, attempts and     *)
(* half-done admin requests are hidden, and what is left of a row is what  *)
(* the endpoints for a task, its result and its children show.             *)
(***************************************************************************)
EXTENDS TaskLifecycle

(* The row of t as clients see it.                                         *)
ViewOf(t) ==
    [status |-> events[t].status, parent |-> events[t].parent,
     next |-> events[t].next, result |-> events[t].result]

TS == INSTANCE TaskService WITH
         task  <- [t \in Tasks |-> ViewOf(t)],
         lost  <- faulted,
         again <- {t \in Tasks : reissued[t] > 0}

(* Whatever workers, schedulers, admin requests, failed writes and crashes *)
(* do between them, clients see one legal step of the service at a time: a *)
(* task is processed only with its result stored and its next step         *)
(* created, only pending tasks are cancelled, and a decision changes only  *)
(* for tasks that were issued again or that a fault hit.                   *)
ImplementsTaskService == TS!Spec
=============================================================================
