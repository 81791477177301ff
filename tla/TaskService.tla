---------------------------- MODULE TaskService ----------------------------
(***************************************************************************)
(* What the platform promises its clients and operators about tasks, with  *)
(* no queue, worker, statement or request in sight.  A task is accepted,   *)
(* stores its result, has its next step created, is decided, cancelled or  *)
(* reopened, each in one step; the promise is in what these steps require. *)
(*                                                                         *)
(* lost and again bound the promise: a task hit by an infrastructure fault *)
(* may never be decided, and only a task that was hit or that an operator  *)
(* issued again may be decided a second time.                              *)
(***************************************************************************)
EXTENDS EventTable

VARIABLES
    task,    \* the row of each task as clients see it
    lost,    \* tasks hit by an infrastructure fault
    again    \* tasks an operator has issued again

vars == <<task, lost, again>>

(* A row as clients see it.                                                *)
View == [status : Status \cup {"absent"}, parent : Tasks \cup {NoTask},
         next : Seq(Step), result : BOOLEAN]

(* A task as it comes into being, with the steps that shall follow it.     *)
New(parent, next) ==
    [status |-> "pending", parent |-> parent, next |-> next, result |-> FALSE]

None == [status |-> "absent", parent |-> NoTask, next |-> << >>,
         result |-> FALSE]

Known(t) == task[t].status # "absent"

Root(t) == IF task[t].parent # NoTask THEN task[t].parent ELSE t

(* The step after t has been created.                                      *)
NextCreated(t) ==
    task[t].next = << >> \/
    \E c \in Tasks : /\ Known(c)
                     /\ task[c].parent = Root(t)
                     /\ task[c].next = Tail(task[t].next)

Init ==
    /\ task \in [Tasks -> View]
    /\ \A t \in Tasks :
          task[t] = IF Known(t) THEN New(NoTask, task[t].next) ELSE None
    /\ lost = {}
    /\ again = {}

-----------------------------------------------------------------------------
(* A step on t may be hit by a fault.                                      *)
MayLose(t) == lost' \in {lost, lost \cup {t}}

(* A root task with any chain of further steps.                            *)
Accept(t) ==
    /\ ~Known(t)
    /\ task'[t].next \in Seq(Step)
    /\ task' = [task EXCEPT ![t] = New(NoTask, task'[t].next)]
    /\ MayLose(t)
    /\ UNCHANGED again

StoreResult(t) ==
    /\ Known(t)
    /\ task' = [task EXCEPT ![t].result = TRUE]
    /\ UNCHANGED <<lost, again>>

(* The step after t comes into being under the root of the chain, and only *)
(* once t has its result.                                                  *)
Chain(t, c) ==
    /\ task[t].result
    /\ task[t].next # << >>
    /\ ~Known(c)
    /\ task' = [task EXCEPT ![c] = New(Root(t), Tail(task[t].next))]
    /\ MayLose(c)
    /\ UNCHANGED again

(* Decisions are final, except for tasks issued again or hit by a fault.   *)
MayDecide(t) ==
    \/ task[t].status \in {"pending", "cancelled"}
    \/ Known(t) /\ t \in again \cup lost

(* "processed" promises the result and the next step.                      *)
Process(t) ==
    /\ MayDecide(t)
    /\ task[t].result
    /\ NextCreated(t)
    /\ task' = [task EXCEPT ![t].status = "processed"]
    /\ MayLose(t)
    /\ UNCHANGED again

Fail(t) ==
    /\ MayDecide(t)
    /\ task' = [task EXCEPT ![t].status = "failed"]
    /\ MayLose(t)
    /\ UNCHANGED again

Cancel(t) ==
    /\ task[t].status = "pending"
    /\ task' = [task EXCEPT ![t].status = "cancelled"]
    /\ UNCHANGED <<lost, again>>

(* An operator asks for another run; the row is reopened then or later.    *)
IssueAgain(t) ==
    /\ Known(t)
    /\ again' = again \cup {t}
    /\ MayLose(t)
    /\ UNCHANGED task

Reopen(t) ==
    /\ task[t].status \in {"failed", "cancelled"}
    /\ task' = [task EXCEPT ![t].status = "pending"]
    /\ again' = again \cup {t}
    /\ MayLose(t)

(* A failed write or a crash that changes no row.                          *)
Lose(S) ==
    /\ lost' = lost \cup S
    /\ UNCHANGED <<task, again>>

Next ==
    \/ \E t \in Tasks :
          \/ Accept(t) \/ StoreResult(t) \/ Process(t) \/ Fail(t)
          \/ Cancel(t) \/ IssueAgain(t) \/ Reopen(t)
          \/ \E c \in Tasks : Chain(t, c)
    \/ \E S \in SUBSET Tasks : Lose(S)

Spec == Init /\ [][Next]_vars
=============================================================================
