---------------------------- MODULE TaskPlatform ----------------------------
(***************************************************************************)
(* The whole platform: clients submit tasks (Submission) while workers,    *)
(* the scheduler and operators act on them (TaskLifecycle).  The two share *)
(* the events table, the queue and the process, so a row can be cancelled  *)
(* before it is queued, a worker can finish a task whose request has not   *)
(* been answered yet, and a crash takes requests and workers together.     *)
(*                                                                         *)
(* Accepted is empty here: every task comes from a request.  Behaviours    *)
(* are those of the 30 days in which no key expires.                       *)
(***************************************************************************)
EXTENDS TaskRefinement

CONSTANTS Keys, NoKey, Clients, Requests, CanExpire

ASSUME PlatformAssumption ==
    /\ NoKey \notin Keys
    /\ Requests \subseteq
          [key : Keys, next : Seq(Step),
           step : [priority : RequestPriority, executeAt : BOOLEAN]]

VARIABLES keys, client, keyOf, accepted, fresh, raced

Sub == INSTANCE Submission

lifecycleVars  == <<logs, dlq, worker, request, due, reissued, removed>>
submissionVars == <<keys, client, keyOf, accepted, fresh, raced>>
platformVars   == <<vars, submissionVars>>

PlatformInit == Init /\ Sub!Init

HeldByClient(t) == \E c \in Clients : client[c].task = t

(* One process: a crash ends workers, admin requests and submissions.      *)
ProcessCrash ==
    LET held == {t \in Tasks : \/ HeldByWorker(t)
                              \/ HeldByRequest(t)
                              \/ HeldByClient(t)}
    IN
    /\ held # {}
    /\ Cardinality(faulted \cup held) <= MaxFaulted
    /\ faulted' = faulted \cup held
    /\ worker' = [w \in Workers |-> Idle]
    /\ request' = [a \in Admins |-> NoRequest]
    /\ client' = [c \in Clients |-> Sub!Idle]
    /\ UNCHANGED <<events, logs, queue, due, reissued, removed, keys, keyOf,
                   accepted, fresh, raced>>

Submit ==
    /\ \/ \E c \in Clients, b \in Requests : Sub!HandleCreateTask(c, b)
       \/ \E c \in Clients : Sub!ClientStep(c)
    /\ UNCHANGED lifecycleVars

Process ==
    /\ \/ \E w \in Workers : WorkerStep(w)
       \/ \E a \in Admins : RequestStep(a)
       \/ NewRequest
       \/ Promote
       \/ \E t \in Tasks : ReachExecuteAt(t)
    /\ UNCHANGED submissionVars

PlatformNext == Submit \/ Process \/ ProcessCrash

PlatformSpec == PlatformInit /\ [][PlatformNext]_platformVars

-----------------------------------------------------------------------------
(* Correctness properties of the composition.                              *)

(* From the moment its row is inserted, a pending task that no fault hit   *)
(* is on its way: its request is about to queue it, or the queue, a worker *)
(* or an admin request has it.                                             *)
SubmittedIsTracked ==
    \A t \in Tasks :
       events[t].status = "pending" /\ t \notin faulted =>
          Tracked(t) \/ HeldByClient(t)

(* No worker runs a submitted task whose idempotency key is not recorded,  *)
(* unless an operator issued it again before that: once a task may have    *)
(* effects, its duplicates can be recognised.                              *)
RunningHasKey ==
    \A w \in Workers, t \in Tasks :
       /\ Undecided(w, t)
       /\ events[t].parent = NoTask
       /\ reissued[t] = 0
       => Sub!HasRow(keyOf[t])

(* A worker has taken t: it still has it, or it left a log entry or a      *)
(* result.                                                                 *)
Started(t) ==
    \/ \E w \in Workers : worker[w].task = t
    \/ logs[t] # NoLog
    \/ events[t].result

(* The work a key stands for is done once: of the tasks submitted with one *)
(* key, workers take at most one, however requests fail, crash and are     *)
(* sent again, unless two requests raced between lookup and insert or an   *)
(* operator issued a task again.                                           *)
OneRunPerKey ==
    \A t, u \in Tasks :
       /\ t # u
       /\ Started(t) /\ events[t].parent = NoTask /\ reissued[t] = 0
       /\ Started(u) /\ events[u].parent = NoTask /\ reissued[u] = 0
       /\ keyOf[t] = keyOf[u]
       => keyOf[t] \in raced

(* A task cancelled before a worker executes it never runs, also when the  *)
(* cancel comes between the insert of its row and its push to the queue,   *)
(* until an operator reopens it (a worker whose last read fails aside).    *)
CancelOutlivesSubmission ==
    [][\A t \in Tasks \ faulted' :
          CancelSettled(t) =>
             \/ CancelSettled(t)'
             \/ events'[t].status = "pending"
             \/ \E w \in Workers : /\ worker[w].pc = "fetch"
                                  /\ worker[w].task = t
                                  /\ worker'[w].pc = "giveUp"]_platformVars

(* A client polling GET .../{id}/children of the root of a chain finds the *)
(* next step of every task that is reported processed.                     *)
ProcessedShowsNext ==
    \A t \in Tasks :
       LET root == IF events[t].parent = NoTask THEN t ELSE events[t].parent IN
       events[t].status = "processed" /\ events[t].next # << >> =>
          \E c \in HandleGetTaskChildren(root) :
             events[c].next = Tail(events[t].next)
=============================================================================
