----------------------------- MODULE Submission -----------------------------
(***************************************************************************)
(* POST /tasks: TaskHandler.HandleCreateTask with the idempotency service. *)
(* Requests run concurrently; each looks its key up, inserts the event,    *)
(* records the key, and enqueues, one statement or command per step, and   *)
(* each step may fail or be cut off by a crash of the process.             *)
(*                                                                         *)
(* A request body that passes validation (RequestValidation says which do) *)
(* is abstracted to its idempotency key (the hash of type, payload and     *)
(* priority), its first step and its `next` chain; the key says nothing    *)
(* about execute_at and next.                                              *)
(***************************************************************************)
EXTENDS PulseQueue, FiniteSets

CONSTANTS
    Keys,        \* idempotency keys of the requests clients send
    NoKey,
    Clients,     \* requests that may be in flight together
    Requests,    \* valid bodies: [key, step, next]
    CanExpire,   \* whether 30 days may pass
    MaxFaulted   \* bound: tasks that infrastructure failures may hit

ASSUME SubmissionAssumption ==
    /\ NoKey \notin Keys
    /\ Requests \subseteq
          [key : Keys, next : Seq(Step),
           step : [priority : RequestPriority, executeAt : BOOLEAN]]
    /\ \A b, c \in Requests : b.key = c.key => b.step.priority = c.step.priority
    /\ CanExpire \in BOOLEAN
    /\ MaxFaulted \in Nat

VARIABLES
    events,      \* table events
    keys,        \* table idempotency_keys
    ready,       \* the three priority lists
    scheduled,   \* the scheduled set
    client,      \* where each request is in HandleCreateTask
    keyOf,       \* the key of the request that created each task
    accepted,    \* history: tasks answered 200 "accepted"
    fresh,       \* history: accepted tasks whose own 30 days have not passed
    raced,       \* history: keys looked up while another request that had
                 \* passed the same lookup had not recorded the key yet
    faulted      \* history: tasks hit by a failed write or a crash

vars == <<events, keys, ready, scheduled, client, keyOf, accepted, fresh,
          raced, faulted>>

-----------------------------------------------------------------------------
(* Table `idempotency_keys`; nothing in the program deletes its rows.      *)

NoKeyRow == [event |-> NoTask, live |-> FALSE]

HasRow(k) == keys[k].event # NoTask

(* Mutant: the lookup never finds anything.                                *)
BugGetIdempotencyKey(k) == FALSE

(* SELECT ... WHERE key = $1 AND expires_at > NOW().                       *)
GetIdempotencyKey(k) == HasRow(k) /\ keys[k].live

(* INSERT ... ON CONFLICT (key) DO NOTHING: an expired row is kept as it   *)
(* is.                                                                     *)
CreateIdempotencyKey(k, id) ==
    IF HasRow(k) THEN keys
    ELSE [keys EXCEPT ![k] = [event |-> id, live |-> TRUE]]

-----------------------------------------------------------------------------
ClientPC == {"idle", "save", "record", "enqueue", "markFailed"}

NoBody == [key |-> NoKey, next |-> << >>,
           step |-> [priority |-> "none", executeAt |-> FALSE]]

Idle == [pc |-> "idle", task |-> NoTask, body |-> NoBody]

Outcome == {"ok", "lost", "unack"}

Hit(r, t) ==
    IF r = "ok"
    THEN UNCHANGED faulted
    ELSE /\ Cardinality(faulted \cup {t}) <= MaxFaulted
         /\ faulted' = faulted \cup {t}

After(r, old, new) == IF r = "lost" THEN old ELSE new

(* Mutant: the request ends once its key is recorded.                      *)
BugProceed(c, r, pc) == client' = [client EXCEPT ![c] = Idle]

(* The request goes on when the step succeeded and answers 500 otherwise.  *)
Proceed(c, r, pc) ==
    client' = [client EXCEPT ![c] =
                 IF r = "ok" THEN [@ EXCEPT !.pc = pc] ELSE Idle]

Init ==
    /\ events = [t \in Tasks |-> Absent]
    /\ keys = [k \in Keys |-> NoKeyRow]
    /\ ready = EmptyReady
    /\ scheduled = {}
    /\ client = [c \in Clients |-> Idle]
    /\ keyOf = [t \in Tasks |-> NoKey]
    /\ accepted = {}
    /\ fresh = {}
    /\ raced = {}
    /\ faulted = {}

(* Requests of another client that have passed the lookup of k and not yet *)
(* recorded it.                                                            *)
Rivals(c, k) ==
    {d \in Clients \ {c} : /\ client[d].body.key = k
                           /\ client[d].pc \in {"save", "record"}}

(* Validation passed; Isprocessed.  A live key is answered 409 "duplicate" *)
(* and a failed lookup 500, neither of which changes anything.             *)
HandleCreateTask(c, b) ==
    /\ client[c].pc = "idle"
    /\ ~GetIdempotencyKey(b.key)
    /\ client' = [client EXCEPT ![c] = [pc |-> "save", task |-> NoTask,
                                        body |-> b]]
    /\ raced' = IF Rivals(c, b.key) = {} THEN raced ELSE raced \cup {b.key}
    /\ UNCHANGED <<events, keys, ready, scheduled, keyOf, accepted, fresh,
                   faulted>>

(* Mutant: an error of the insert is not looked at.                        *)
BugSaveEvent(c, t, r) ==
    LET b == client[c].body IN
    /\ client[c].pc = "save"
    /\ ~Exists(events, t)
    /\ keyOf[t] = NoKey
    /\ events' = After(r, events,
                       InsertEvent(events, t, NewRow(b.step, NoTask, b.next)))
    /\ keyOf' = [keyOf EXCEPT ![t] = b.key]
    /\ Hit(r, t)
    /\ client' = [client EXCEPT ![c].pc = "record", ![c].task = t]
    /\ UNCHANGED <<keys, ready, scheduled, accepted, fresh, raced>>

(* Mutant: the task is enqueued without its key.                           *)
BugSaveEventNoKey(c, t, r) ==
    LET b == client[c].body IN
    /\ client[c].pc = "save"
    /\ ~Exists(events, t)
    /\ r = "ok"
    /\ events' = InsertEvent(events, t, NewRow(b.step, NoTask, b.next))
    /\ keyOf' = [keyOf EXCEPT ![t] = b.key]
    /\ client' = [client EXCEPT ![c].pc = "enqueue", ![c].task = t]
    /\ UNCHANGED <<keys, ready, scheduled, accepted, fresh, raced, faulted>>

(* A fresh uuid, and SaveProcessedEvent without a parent.  When the insert *)
(* takes effect and reports an error, a pending row nobody queues is left. *)
SaveEvent(c, t, r) ==
    LET b == client[c].body IN
    /\ client[c].pc = "save"
    /\ ~Exists(events, t)
    /\ events' = After(r, events,
                       InsertEvent(events, t, NewRow(b.step, NoTask, b.next)))
    /\ keyOf' = After(r, keyOf, [keyOf EXCEPT ![t] = b.key])
    /\ IF r = "lost" THEN UNCHANGED faulted ELSE Hit(r, t)
    /\ client' = [client EXCEPT ![c] =
                    IF r = "ok" THEN [@ EXCEPT !.pc = "record", !.task = t]
                    ELSE Idle]
    /\ UNCHANGED <<keys, ready, scheduled, accepted, fresh, raced>>

(* Mutant: a request that finds the key taken returns and forgets the row  *)
(* it has inserted.                                                        *)
BugRecordKey(c, r) ==
    LET k == client[c].body.key
        t == client[c].task
    IN
    /\ client[c].pc = "record"
    /\ r = "ok"
    /\ keys' = CreateIdempotencyKey(k, t)
    /\ client' = [client EXCEPT ![c] =
                    IF HasRow(k) THEN Idle ELSE [@ EXCEPT !.pc = "enqueue"]]
    /\ UNCHANGED <<events, ready, scheduled, keyOf, accepted, fresh, raced,
                   faulted>>

(* CheckAndRecordToDB.  The handler drops the first result, which says     *)
(* whether the key was there already, and goes on in both cases.           *)
RecordKey(c, r) ==
    LET t == client[c].task IN
    /\ client[c].pc = "record"
    /\ keys' = After(r, keys, CreateIdempotencyKey(client[c].body.key, t))
    /\ Hit(r, t)
    /\ Proceed(c, r, "enqueue")
    /\ UNCHANGED <<events, ready, scheduled, keyOf, accepted, fresh, raced>>

(* Mutant: an error of the queue is not looked at.                         *)
BugEnqueueTask(c, r) ==
    LET t == client[c].task IN
    /\ client[c].pc = "enqueue"
    /\ Hit(r, t)
    /\ ready' = After(r, ready,
                      EnqueueWithPriority(ready, t, events[t].priority))
    /\ accepted' = accepted \cup {t}
    /\ fresh' = fresh \cup {t}
    /\ client' = [client EXCEPT ![c] = Idle]
    /\ UNCHANGED <<events, keys, scheduled, keyOf, raced>>

(* Schedule or EnqueueWithPriority, and the 200 answer.                    *)
EnqueueTask(c, r) ==
    LET t == client[c].task IN
    /\ client[c].pc = "enqueue"
    /\ Hit(r, t)
    /\ IF events[t].executeAt
       THEN /\ scheduled' = After(r, scheduled,
                                  Schedule(scheduled, t, events[t].priority))
            /\ UNCHANGED ready
       ELSE /\ ready' = After(r, ready,
                              EnqueueWithPriority(ready, t, events[t].priority))
            /\ UNCHANGED scheduled
    /\ IF r = "ok"
       THEN /\ accepted' = accepted \cup {t}
            /\ fresh' = fresh \cup {t}
            /\ client' = [client EXCEPT ![c] = Idle]
       ELSE /\ UNCHANGED <<accepted, fresh>>
            /\ client' = [client EXCEPT ![c].pc = "markFailed"]
    /\ UNCHANGED <<events, keys, keyOf, raced>>

(* The queue reported an error: UpdateEventStatus(failed), whose own error *)
(* is dropped, and a 500.  The key stays recorded.                         *)
MarkFailed(c, r) ==
    /\ client[c].pc = "markFailed"
    /\ events' = After(r, events,
                       UpdateEventStatus(events, client[c].task, "failed"))
    /\ Hit(r, client[c].task)
    /\ client' = [client EXCEPT ![c] = Idle]
    /\ UNCHANGED <<keys, ready, scheduled, keyOf, accepted, fresh, raced>>

ClientStep(c) ==
    \/ \E t \in Tasks, r \in Outcome : SaveEvent(c, t, r)
    \/ \E r \in Outcome : RecordKey(c, r) \/ EnqueueTask(c, r) \/ MarkFailed(c, r)

(* Thirty days have passed since k was recorded.                           *)
Expire(k) ==
    /\ CanExpire
    /\ GetIdempotencyKey(k)
    /\ keys' = [keys EXCEPT ![k].live = FALSE]
    /\ fresh' = fresh \ {keys[k].event}
    /\ UNCHANGED <<events, ready, scheduled, client, keyOf, accepted, raced,
                   faulted>>

Crash ==
    LET held == {t \in Tasks : \E c \in Clients : client[c].task = t} IN
    /\ \E c \in Clients : client[c].pc # "idle"
    /\ Cardinality(faulted \cup held) <= MaxFaulted
    /\ faulted' = faulted \cup held
    /\ client' = [c \in Clients |-> Idle]
    /\ UNCHANGED <<events, keys, ready, scheduled, keyOf, accepted, fresh,
                   raced>>

Next ==
    \/ \E c \in Clients, b \in Requests : HandleCreateTask(c, b)
    \/ \E c \in Clients : ClientStep(c)
    \/ \E k \in Keys : Expire(k)
    \/ Crash

Spec == Init /\ [][Next]_vars

-----------------------------------------------------------------------------
(* Correctness properties.                                                 *)

(* Shapes of the tables, the queue, the requests in flight and the history.*)
TypeOK ==
    /\ events \in [Tasks -> Row]
    /\ keys \in [Keys -> [event : Tasks \cup {NoTask}, live : BOOLEAN]]
    /\ ready \in Ready
    /\ scheduled \subseteq Scheduled
    /\ client \in [Clients -> [pc : ClientPC, task : Tasks \cup {NoTask},
                               body : Requests \cup {NoBody}]]
    /\ keyOf \in [Tasks -> Keys \cup {NoKey}]
    /\ accepted \subseteq Tasks
    /\ fresh \subseteq Tasks
    /\ raced \subseteq Keys
    /\ faulted \subseteq Tasks

(* An idempotency row always names an existing task that was created for   *)
(* that very key, so the event_id of a 409 answer can be looked up.        *)
KeyNamesTask ==
    \A k \in Keys :
       HasRow(k) => /\ Exists(events, keys[k].event)
                    /\ keyOf[keys[k].event] = k

(* A client that was told "accepted" can rely on it: the row is there and  *)
(* pending, its id is queued or scheduled, and its key is recorded.        *)
AcceptedIsDurable ==
    \A t \in accepted :
       /\ events[t].status = "pending"
       /\ Queued(ready, t) \/ OnSchedule(scheduled, t)
       /\ HasRow(keyOf[t])

(* A row that was inserted is never forgotten unless a fault hit it: its   *)
(* request is still in flight or was answered "accepted".  In particular   *)
(* the task a 409 points at is, or is about to be, queued.                 *)
SavedIsTracked ==
    \A t \in Tasks :
       Exists(events, t) /\ t \notin faulted =>
          t \in accepted \/ \E c \in Clients : client[c].task = t

(* Two tasks are accepted for one key only when two requests raced between *)
(* the lookup and the insert of the key, or when the key's row has expired.*)
DuplicateNeedsRace ==
    \A t, u \in accepted :
       keyOf[t] = keyOf[u] /\ t # u =>
          keyOf[t] \in raced \/ ~keys[keyOf[t]].live

-----------------------------------------------------------------------------
(* What the documentation says and the code does not do.                   *)

(* "Duplicate requests with the same type/payload/priority are rejected"   *)
(* (README.md:72): within the lifetime of a key, one request is accepted.  *)
DuplicatesRejected ==
    \A t, u \in fresh : keyOf[t] = keyOf[u] => t = u
=============================================================================
