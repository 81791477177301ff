-------------------------- MODULE SubmissionProofs --------------------------
(***************************************************************************)
(* Proofs about Submission: type correctness, and what a client and the    *)
(* rest of the platform can rely on whatever requests, failed writes and   *)
(* crashes interleave.                                                     *)
(***************************************************************************)
EXTENDS Submission, TLAPS

(* A request in flight whose program counter, task and body fit together.  *)
SoundClient ==
    {s \in [pc : ClientPC, task : Tasks \cup {NoTask},
            body : Requests \cup {NoBody}] :
       /\ s.pc \in {"idle", "save"} <=> s.task = NoTask
       /\ s.pc # "idle" => s.body \in Requests}

(* The inductive form of TypeOK.                                           *)
TypeInv == TypeOK /\ client \in [Clients -> SoundClient]

(* What a submitted body holds.                                            *)
LEMMA BodyTypes ==
    ASSUME NEW b \in Requests
    PROVE  /\ b.key \in Keys
           /\ NewRow(b.step, NoTask, b.next) \in Row
  <1>1. b \in [key : Keys, next : Seq(Step),
               step : [priority : RequestPriority, executeAt : BOOLEAN]]
    BY SubmissionAssumption
  <1>2. b.step.priority \in PriorityColumn /\ b.step.executeAt \in BOOLEAN
    BY <1>1 DEF PriorityColumn, RequestPriority
  <1> QED
    BY <1>1, <1>2 DEF NewRow, Row, Status

(* A client between requests is sound.                                     *)
LEMMA IdleSound == Idle \in SoundClient
  BY DEF Idle, SoundClient, ClientPC

(* A client past its lookup has a request, and past saving it a task.      *)
LEMMA Holds ==
    ASSUME TypeInv, NEW c \in Clients
    PROVE  /\ client[c] \in SoundClient
           /\ client[c].pc # "idle" => client[c].body \in Requests
           /\ client[c].pc \in {"record", "enqueue", "markFailed"} =>
                 client[c].task \in Tasks
  BY DEF TypeInv, SoundClient

(* A move of one client keeps the clients sound.                           *)
LEMMA ClientMoves ==
    ASSUME TypeInv, NEW c \in Clients, NEW s \in SoundClient,
           client' = [client EXCEPT ![c] = s]
    PROVE  /\ client' \in [Clients -> SoundClient]
           /\ client'[c] = s
           /\ \A d \in Clients \ {c} : client'[d] = client[d]
  BY DEF TypeInv

(* A fault hits the task that is written to and no other.                  *)
LEMMA HitType ==
    ASSUME TypeInv, NEW r, NEW t \in Tasks, Hit(r, t)
    PROVE  /\ faulted' \subseteq Tasks
           /\ faulted \subseteq faulted'
           /\ r # "ok" => t \in faulted'
  BY DEF Hit, TypeInv, TypeOK

(* The sound states a client passes through.                               *)
LEMMA ClientStates ==
    ASSUME TypeInv, NEW c \in Clients
    PROVE  /\ \A t \in Tasks : client[c].pc = "save" =>
                 [client[c] EXCEPT !.pc = "record", !.task = t] \in SoundClient
           /\ \A pc \in {"enqueue", "markFailed"} :
                 client[c].pc \in {"record", "enqueue"} =>
                    [client[c] EXCEPT !.pc = pc] \in SoundClient
  <1>1. client[c] \in [pc : ClientPC, task : Tasks \cup {NoTask},
                       body : Requests \cup {NoBody}]
    BY DEF TypeInv, SoundClient
  <1>2. ASSUME NEW t \in Tasks, client[c].pc = "save"
        PROVE  [client[c] EXCEPT !.pc = "record", !.task = t] \in SoundClient
    <2> DEFINE s == [client[c] EXCEPT !.pc = "record", !.task = t]
    <2>1. /\ s \in [pc : ClientPC, task : Tasks \cup {NoTask},
                    body : Requests \cup {NoBody}]
          /\ s.pc = "record" /\ s.task = t /\ s.body = client[c].body
      BY <1>1 DEF ClientPC
    <2>2. client[c].body \in Requests
      BY <1>2, Holds
    <2> HIDE DEF s
    <2>3. s \in SoundClient
      BY <2>1, <2>2, NoTaskAssumption DEF SoundClient
    <2> QED
      BY <2>3 DEF s
  <1>3. ASSUME NEW pc \in {"enqueue", "markFailed"},
               client[c].pc \in {"record", "enqueue"}
        PROVE  [client[c] EXCEPT !.pc = pc] \in SoundClient
    <2> DEFINE s == [client[c] EXCEPT !.pc = pc]
    <2>1. /\ s \in [pc : ClientPC, task : Tasks \cup {NoTask},
                    body : Requests \cup {NoBody}]
          /\ s.pc = pc /\ s.task = client[c].task /\ s.body = client[c].body
      BY <1>1 DEF ClientPC
    <2>2. client[c].body \in Requests /\ client[c].task \in Tasks
      BY <1>3, Holds
    <2> HIDE DEF s
    <2>3. s \in SoundClient
      BY <2>1, <2>2, NoTaskAssumption DEF SoundClient
    <2> QED
      BY <2>3 DEF s
  <1> QED
    BY <1>2, <1>3

-----------------------------------------------------------------------------
(* What each step does, entry by entry.                                    *)

(* Client c goes to state s, and the other clients stay where they are.    *)
GoesTo(c, s) ==
    /\ client' \in [Clients -> SoundClient]
    /\ client'[c] = s
    /\ \A d \in Clients \ {c} : client'[d] = client[d]

(* What looking the key up does to the client.                             *)
LEMMA LookUpEffect ==
    ASSUME TypeInv, NEW c \in Clients, NEW b \in Requests, HandleCreateTask(c, b)
    PROVE  /\ client[c].pc = "idle"
           /\ ~GetIdempotencyKey(b.key)
           /\ GoesTo(c, [pc |-> "save", task |-> NoTask, body |-> b])
           /\ raced' = IF Rivals(c, b.key) = {} THEN raced ELSE raced \cup {b.key}
           /\ UNCHANGED <<events, keys, ready, scheduled, keyOf, accepted, fresh,
                          faulted>>
  <1>1. [pc |-> "save", task |-> NoTask, body |-> b] \in SoundClient
    BY DEF SoundClient, ClientPC
  <1> QED
    BY <1>1, ClientMoves DEF HandleCreateTask, GoesTo

(* The row that SaveEvent inserts.                                         *)
Saves(t, b) ==
    /\ events' = [events EXCEPT ![t] = NewRow(b.step, NoTask, b.next)]
    /\ keyOf' = [keyOf EXCEPT ![t] = b.key]

(* What saving the row does to the client and the table.                   *)
LEMMA SaveEffect ==
    ASSUME TypeInv, NEW c \in Clients, NEW t \in Tasks, NEW r \in Outcome,
           SaveEvent(c, t, r)
    PROVE  /\ client[c].pc = "save" /\ client[c].body \in Requests
           /\ ~Exists(events, t)
           /\ \/ /\ Saves(t, client[c].body)
                 /\ GoesTo(c, [client[c] EXCEPT !.pc = "record", !.task = t])
                 /\ faulted' = faulted
              \/ /\ Saves(t, client[c].body)
                 /\ GoesTo(c, Idle)
                 /\ faulted' = faulted \cup {t}
              \/ GoesTo(c, Idle) /\ UNCHANGED <<events, keyOf, faulted>>
           /\ UNCHANGED <<keys, ready, scheduled, accepted, fresh, raced>>
  <1>1. client[c].pc = "save" /\ client[c].body \in Requests
    BY Holds DEF SaveEvent
  <1>2. [client[c] EXCEPT !.pc = "record", !.task = t] \in SoundClient
    BY <1>1, ClientStates
  <1>3. CASE r = "ok"
    BY <1>1, <1>2, <1>3, ClientMoves
       DEF SaveEvent, After, InsertEvent, Saves, Hit, GoesTo
  <1>4. CASE r = "unack"
    BY <1>1, <1>4, IdleSound, ClientMoves
       DEF SaveEvent, After, InsertEvent, Saves, Hit, GoesTo
  <1>5. CASE r = "lost"
    BY <1>1, <1>5, IdleSound, ClientMoves DEF SaveEvent, After, GoesTo
  <1> QED
    BY <1>3, <1>4, <1>5 DEF Outcome

(* What recording the key does to the client and the cache.                *)
LEMMA RecordEffect ==
    ASSUME TypeInv, NEW c \in Clients, NEW r \in Outcome, RecordKey(c, r)
    PROVE  /\ client[c].pc = "record"
           /\ client[c].body \in Requests /\ client[c].task \in Tasks
           /\ \/ /\ keys' = CreateIdempotencyKey(client[c].body.key, client[c].task)
                 /\ GoesTo(c, [client[c] EXCEPT !.pc = "enqueue"])
                 /\ faulted' = faulted
              \/ /\ \/ keys' = keys
                    \/ keys' = CreateIdempotencyKey(client[c].body.key,
                                                    client[c].task)
                 /\ GoesTo(c, Idle)
                 /\ faulted' = faulted \cup {client[c].task}
           /\ UNCHANGED <<events, ready, scheduled, keyOf, accepted, fresh, raced>>
  <1>1. /\ client[c].pc = "record"
        /\ client[c].body \in Requests /\ client[c].task \in Tasks
    BY Holds DEF RecordKey
  <1>2. [client[c] EXCEPT !.pc = "enqueue"] \in SoundClient
    BY <1>1, ClientStates
  <1>3. CASE r = "ok"
    BY <1>1, <1>2, <1>3, ClientMoves DEF RecordKey, Proceed, After, Hit, GoesTo
  <1>4. CASE r # "ok"
    BY <1>1, <1>4, IdleSound, ClientMoves
       DEF RecordKey, Proceed, After, Hit, GoesTo
  <1> QED
    BY <1>3, <1>4

(* t is put into its list or into the schedule.                            *)
Pushes(t) ==
    \/ /\ scheduled' = Schedule(scheduled, t, events[t].priority)
       /\ ready' = ready
    \/ /\ ready' = EnqueueWithPriority(ready, t, events[t].priority)
       /\ scheduled' = scheduled

(* What enqueueing does to the client and the queue.                       *)
LEMMA EnqueueEffect ==
    ASSUME TypeInv, NEW c \in Clients, NEW r \in Outcome, EnqueueTask(c, r)
    PROVE  /\ client[c].pc = "enqueue"
           /\ client[c].body \in Requests /\ client[c].task \in Tasks
           /\ \/ /\ Pushes(client[c].task)
                 /\ accepted' = accepted \cup {client[c].task}
                 /\ fresh' = fresh \cup {client[c].task}
                 /\ GoesTo(c, Idle)
                 /\ faulted' = faulted
              \/ /\ Pushes(client[c].task) \/ UNCHANGED <<ready, scheduled>>
                 /\ UNCHANGED <<accepted, fresh>>
                 /\ GoesTo(c, [client[c] EXCEPT !.pc = "markFailed"])
                 /\ faulted' = faulted \cup {client[c].task}
           /\ UNCHANGED <<events, keys, keyOf, raced>>
  <1>1. /\ client[c].pc = "enqueue"
        /\ client[c].body \in Requests /\ client[c].task \in Tasks
    BY Holds DEF EnqueueTask
  <1>2. [client[c] EXCEPT !.pc = "markFailed"] \in SoundClient
    BY <1>1, ClientStates
  <1>3. Pushes(client[c].task) \/ (r = "lost" /\ UNCHANGED <<ready, scheduled>>)
    BY DEF EnqueueTask, After, Pushes
  <1>4. CASE r = "ok"
    BY <1>1, <1>3, <1>4, IdleSound, ClientMoves DEF EnqueueTask, Hit, GoesTo
  <1>5. CASE r # "ok"
    <2>1. client' = [client EXCEPT ![c] = [client[c] EXCEPT !.pc = "markFailed"]]
      BY <1>5 DEF EnqueueTask
    <2>2. GoesTo(c, [client[c] EXCEPT !.pc = "markFailed"])
      BY <1>2, <2>1, ClientMoves DEF GoesTo
    <2> QED
      BY <1>1, <1>3, <1>5, <2>2 DEF EnqueueTask, Hit
  <1> QED
    BY <1>4, <1>5

(* What marking the task failed, after a failed enqueue, does.             *)
LEMMA FailEffect ==
    ASSUME TypeInv, NEW c \in Clients, NEW r \in Outcome, MarkFailed(c, r)
    PROVE  /\ client[c].pc = "markFailed" /\ client[c].task \in Tasks
           /\ \/ events' = events
              \/ events' = UpdateEventStatus(events, client[c].task, "failed")
           /\ GoesTo(c, Idle)
           /\ faulted' = faulted \/ faulted' = faulted \cup {client[c].task}
           /\ UNCHANGED <<keys, ready, scheduled, keyOf, accepted, fresh, raced>>
  <1>1. client[c].pc = "markFailed" /\ client[c].task \in Tasks
    BY Holds DEF MarkFailed
  <1>2. GoesTo(c, Idle)
    BY IdleSound, ClientMoves DEF MarkFailed, GoesTo
  <1> QED
    BY <1>1, <1>2 DEF MarkFailed, After, Hit

(* A crash drops every request and hits the tasks they held.               *)
LEMMA CrashEffect ==
    ASSUME TypeInv, Crash
    PROVE  /\ client' \in [Clients -> SoundClient]
           /\ \A c \in Clients : client'[c] = Idle
           /\ faulted' \subseteq Tasks
           /\ faulted \subseteq faulted'
           /\ \A t \in Tasks, c \in Clients : client[c].task = t => t \in faulted'
           /\ UNCHANGED <<events, keys, ready, scheduled, keyOf, accepted, fresh,
                          raced>>
  <1>1. client' = [c \in Clients |-> Idle]
    BY DEF Crash
  <1>2. faulted' = faulted \cup {t \in Tasks : \E c \in Clients : client[c].task = t}
    BY DEF Crash
  <1> QED
    BY <1>1, <1>2, IdleSound DEF Crash, TypeInv, TypeOK

-----------------------------------------------------------------------------
(* Type correctness.                                                       *)

(* The initial state has its type.                                         *)
LEMMA InitType == Init => TypeInv
  <1> SUFFICES ASSUME Init PROVE TypeInv
    OBVIOUS
  <1>1. client \in [Clients -> SoundClient]
    BY IdleSound DEF Init
  <1>2. Absent \in Row
    BY DEF Absent, Row, PriorityColumn, RequestPriority
  <1>3. EmptyReady \in Ready
    BY DEF EmptyReady, Ready
  <1>4. NoKeyRow \in [event : Tasks \cup {NoTask}, live : BOOLEAN]
    BY DEF NoKeyRow
  <1>5. client \in [Clients -> [pc : ClientPC, task : Tasks \cup {NoTask},
                               body : Requests \cup {NoBody}]]
    BY <1>1 DEF SoundClient
  <1> QED
    BY <1>1, <1>2, <1>3, <1>4, <1>5 DEF Init, TypeInv, TypeOK

(* Recording a key keeps the type of the key table.                        *)
LEMMA KeyTypes ==
    ASSUME TypeInv, NEW k \in Keys, NEW t \in Tasks
    PROVE  CreateIdempotencyKey(k, t)
              \in [Keys -> [event : Tasks \cup {NoTask}, live : BOOLEAN]]
  BY DEF CreateIdempotencyKey, TypeInv, TypeOK

(* Pushing or scheduling an id keeps the type of the queue.                *)
LEMMA PushTypes ==
    ASSUME TypeInv, NEW t \in Tasks, Pushes(t)
    PROVE  ready' \in Ready /\ scheduled' \subseteq Scheduled
  <1>1. events[t].priority \in PriorityColumn
    BY DEF TypeInv, TypeOK, Row
  <1>2. EnqueueWithPriority(ready, t, events[t].priority) \in Ready
    BY <1>1 DEF EnqueueWithPriority, Level, Ready, TypeInv, TypeOK, Priorities
  <1>3. Schedule(scheduled, t, events[t].priority) \subseteq Scheduled
    BY <1>1 DEF Schedule, Scheduled, TypeInv, TypeOK
  <1> QED
    BY <1>2, <1>3 DEF Pushes, TypeInv, TypeOK

(* Every step keeps the type invariant.                                    *)
LEMMA TypeStep == TypeInv /\ [Next]_vars => TypeInv'
  <1> SUFFICES ASSUME TypeInv, [Next]_vars PROVE TypeInv'
    OBVIOUS
  <1>0. ASSUME client' \in [Clients -> SoundClient]
        PROVE  client' \in [Clients -> [pc : ClientPC, task : Tasks \cup {NoTask},
                                        body : Requests \cup {NoBody}]]
    BY <1>0 DEF SoundClient
  <1>1. ASSUME NEW c \in Clients, NEW b \in Requests, HandleCreateTask(c, b)
        PROVE  TypeInv'
    <2>1. b.key \in Keys
      BY BodyTypes
    <2> QED
      BY <1>0, <1>1, <2>1, LookUpEffect DEF TypeInv, TypeOK, GoesTo
  <1>2. ASSUME NEW c \in Clients, NEW t \in Tasks, NEW r \in Outcome,
               SaveEvent(c, t, r)
        PROVE  TypeInv'
    <2>1. ASSUME Saves(t, client[c].body)
          PROVE  /\ events' \in [Tasks -> Row]
                 /\ keyOf' \in [Tasks -> Keys \cup {NoKey}]
      <3>1. /\ client[c].body.key \in Keys
            /\ NewRow(client[c].body.step, NoTask, client[c].body.next) \in Row
        BY <1>2, SaveEffect, BodyTypes
      <3> QED
        BY <2>1, <3>1 DEF Saves, TypeInv, TypeOK
    <2>2. /\ client' \in [Clients -> SoundClient]
          /\ faulted' \subseteq Tasks
          /\ Saves(t, client[c].body) \/ UNCHANGED <<events, keyOf>>
          /\ UNCHANGED <<keys, ready, scheduled, accepted, fresh, raced>>
      BY <1>2, SaveEffect DEF GoesTo, TypeInv, TypeOK
    <2> QED
      BY <1>0, <2>1, <2>2 DEF TypeInv, TypeOK
  <1>3. ASSUME NEW c \in Clients, NEW r \in Outcome, RecordKey(c, r)
        PROVE  TypeInv'
    <2>1. client[c].body.key \in Keys /\ client[c].task \in Tasks
      BY <1>3, RecordEffect, BodyTypes
    <2>2. /\ client' \in [Clients -> SoundClient]
          /\ faulted' \subseteq Tasks
          /\ \/ keys' = keys
             \/ keys' = CreateIdempotencyKey(client[c].body.key, client[c].task)
          /\ UNCHANGED <<events, ready, scheduled, keyOf, accepted, fresh, raced>>
      BY <1>3, <2>1, RecordEffect DEF GoesTo, TypeInv, TypeOK
    <2> QED
      BY <1>0, <2>1, <2>2, KeyTypes DEF TypeInv, TypeOK
  <1>4. ASSUME NEW c \in Clients, NEW r \in Outcome, EnqueueTask(c, r)
        PROVE  TypeInv'
    <2>1. client[c].task \in Tasks
      BY <1>4, EnqueueEffect
    <2>2. /\ client' \in [Clients -> SoundClient]
          /\ faulted' \subseteq Tasks /\ accepted' \subseteq Tasks
          /\ fresh' \subseteq Tasks
          /\ Pushes(client[c].task) \/ UNCHANGED <<ready, scheduled>>
          /\ UNCHANGED <<events, keys, keyOf, raced>>
      BY <1>4, <2>1, EnqueueEffect DEF GoesTo, TypeInv, TypeOK
    <2> QED
      BY <1>0, <2>1, <2>2, PushTypes DEF TypeInv, TypeOK
  <1>5. ASSUME NEW c \in Clients, NEW r \in Outcome, MarkFailed(c, r)
        PROVE  TypeInv'
    <2>1. client[c].task \in Tasks
      BY <1>5, FailEffect
    <2>2. UpdateEventStatus(events, client[c].task, "failed") \in [Tasks -> Row]
      <3>1. \A row \in Row : [row EXCEPT !.status = "failed"] \in Row
        BY DEF Row, Status
      <3> QED
        BY <2>1, <3>1 DEF UpdateEventStatus, TypeInv, TypeOK
    <2> QED
      BY <1>0, <1>5, <2>1, <2>2, FailEffect DEF TypeInv, TypeOK, GoesTo
  <1>6. ASSUME NEW k \in Keys, Expire(k)
        PROVE  TypeInv'
    <2>1. keys' \in [Keys -> [event : Tasks \cup {NoTask}, live : BOOLEAN]]
      BY <1>6 DEF Expire, TypeInv, TypeOK
    <2> QED
      BY <1>6, <2>1 DEF Expire, TypeInv, TypeOK
  <1>7. CASE Crash
    BY <1>0, <1>7, CrashEffect DEF TypeInv, TypeOK
  <1>8. CASE UNCHANGED vars
    BY <1>8 DEF vars, TypeInv, TypeOK
  <1> QED
    BY <1>1, <1>2, <1>3, <1>4, <1>5, <1>6, <1>7, <1>8 DEF Next, ClientStep

(* The tables, the queue and the requests in flight only ever hold values  *)
(* of their shapes, for any number of clients, keys and tasks.             *)
THEOREM TypeCorrect == Spec => []TypeOK
  <1>1. TypeInv => TypeOK
    BY DEF TypeInv
  <1> QED
    BY <1>1, InitType, TypeStep, PTL DEF Spec

-----------------------------------------------------------------------------
(* All that a step can do to a client, a row, a key and the answers.       *)

Others(c) == \A d \in Clients \ {c} : client'[d] = client[d]

ClientChange(c) ==
    \/ client'[c] = client[c]
    \/ /\ client'[c] = Idle
       /\ \/ client[c].task = NoTask
          \/ client[c].task \in faulted'
          \/ client[c].task \in accepted'
          \/ client[c].pc = "markFailed"
    \/ client[c].pc = "idle" /\ client'[c].pc = "save"
    \/ \E t \in Tasks :
          /\ client[c].pc = "save" /\ ~Exists(events, t)
          /\ client'[c] = [client[c] EXCEPT !.pc = "record", !.task = t]
          /\ Saves(t, client[c].body)
          /\ Others(c)
          /\ UNCHANGED <<keys, accepted>>
    \/ /\ client[c].pc = "record"
       /\ client'[c] = [client[c] EXCEPT !.pc = "enqueue"]
       /\ keys' = CreateIdempotencyKey(client[c].body.key, client[c].task)
       /\ UNCHANGED <<events, keyOf, accepted>>
    \/ /\ client[c].pc = "enqueue"
       /\ client'[c] = [client[c] EXCEPT !.pc = "markFailed"]
       /\ client[c].task \in faulted'
       /\ UNCHANGED <<events, keys, keyOf, accepted>>

RowChange(t) ==
    \/ events'[t] = events[t] /\ keyOf'[t] = keyOf[t]
    \/ /\ ~Exists(events, t)
       /\ \E c \in Clients :
             /\ client[c].pc = "save"
             /\ events'[t].status = "pending"
             /\ keyOf'[t] = client[c].body.key
             /\ client'[c].task = t \/ t \in faulted'
    \/ /\ Exists(events, t) /\ events'[t].status = "failed"
       /\ keyOf'[t] = keyOf[t]
       /\ \E c \in Clients : /\ client[c].pc = "markFailed" /\ client[c].task = t
                             /\ client'[c] = Idle

KeyChange(k) ==
    \/ keys'[k].event = keys[k].event
    \/ /\ ~HasRow(k)
       /\ \E c \in Clients : /\ client[c].pc = "record"
                             /\ client[c].body.key = k
                             /\ keys'[k].event = client[c].task
                             /\ UNCHANGED <<events, keyOf>>

AcceptedChange(t) ==
    /\ t \in accepted => t \in accepted'
    /\ t \in accepted' =>
          \/ t \in accepted
          \/ \E c \in Clients : /\ client[c].pc = "enqueue" /\ client[c].task = t
                                /\ client'[c] = Idle
                                /\ Others(c)
                                /\ Pushes(t)
                                /\ UNCHANGED <<events, keys, keyOf>>

(* Ids stay where they were put, and a fault stays a fault.                *)
Keeps(t) ==
    /\ Queued(ready, t) => Queued(ready', t)
    /\ OnSchedule(scheduled, t) => OnSchedule(scheduled', t)
    /\ t \in faulted => t \in faulted'

(* Pushing an id keeps the ids that are queued already.                    *)
LEMMA PushKeepsIds ==
    ASSUME TypeInv, NEW t \in Tasks, NEW u \in Tasks, Pushes(u)
    PROVE  /\ Queued(ready, t) => Queued(ready', t)
           /\ OnSchedule(scheduled, t) => OnSchedule(scheduled', t)
           /\ Queued(ready', u) \/ OnSchedule(scheduled', u)
  <1>1. PICK p \in PriorityColumn : p = events[u].priority
    BY DEF TypeInv, TypeOK, Row
  <1>2. CASE scheduled' = Schedule(scheduled, u, p) /\ ready' = ready
    BY <1>2 DEF Schedule, OnSchedule
  <1>3. CASE ready' = EnqueueWithPriority(ready, u, p) /\ scheduled' = scheduled
    <2>1. PICK l \in Priorities : l = Level(p)
      BY DEF Level, Priorities
    <2>2. ready' = [ready EXCEPT ![l][u] = @ + 1]
      BY <1>3, <2>1 DEF EnqueueWithPriority
    <2>3. ready \in [Priorities -> [Tasks -> Nat]]
      BY DEF TypeInv, TypeOK, Ready
    <2>4. /\ ready'[l][u] = ready[l][u] + 1
          /\ \A q \in Priorities : ready'[q][t] = ready[q][t]
                                   \/ ready'[q][t] = ready[q][t] + 1
      BY <2>2, <2>3
    <2>5. \A q \in Priorities : ready[q][t] \in Nat /\ ready[q][u] \in Nat
      BY <2>3
    <2> QED
      BY <1>3, <2>4, <2>5 DEF Queued
  <1> QED
    BY <1>1, <1>2, <1>3 DEF Pushes

(* The task a request holds has its row.                                   *)
HeldRows ==
    \A c \in Clients :
       client[c].task # NoTask => Exists(events, client[c].task)

(* What a step can do, as the invariants need it.                          *)
LEMMA StepEffect ==
    ASSUME TypeInv, HeldRows, [Next]_vars
    PROVE  /\ \A c \in Clients : ClientChange(c)
           /\ \A t \in Tasks : RowChange(t) /\ AcceptedChange(t) /\ Keeps(t)
           /\ \A k \in Keys : KeyChange(k)
  <1> DEFINE Goal == /\ \A c \in Clients : ClientChange(c)
                     /\ \A t \in Tasks : RowChange(t) /\ AcceptedChange(t) /\ Keeps(t)
                     /\ \A k \in Keys : KeyChange(k)
  <1>1. ASSUME NEW c \in Clients, NEW b \in Requests, HandleCreateTask(c, b)
        PROVE  Goal
    <2>1. /\ client[c].pc = "idle"
          /\ GoesTo(c, [pc |-> "save", task |-> NoTask, body |-> b])
          /\ UNCHANGED <<events, keys, ready, scheduled, keyOf, accepted, faulted>>
      BY <1>1, LookUpEffect
    <2>2. ASSUME NEW d \in Clients PROVE ClientChange(d)
      <3>1. d # c => client'[d] = client[d]
        BY <2>1 DEF GoesTo
      <3>2. client'[c].pc = "save"
        BY <2>1 DEF GoesTo
      <3> QED
        BY <2>1, <3>1, <3>2 DEF ClientChange
    <2> QED
      BY <2>1, <2>2 DEF RowChange, AcceptedChange, Keeps, KeyChange
  <1>2. ASSUME NEW c \in Clients, NEW t \in Tasks, NEW r \in Outcome,
               SaveEvent(c, t, r)
        PROVE  Goal
    <2>1. /\ client[c].pc = "save" /\ client[c].body \in Requests
          /\ ~Exists(events, t)
          /\ \/ /\ Saves(t, client[c].body)
                /\ GoesTo(c, [client[c] EXCEPT !.pc = "record", !.task = t])
                /\ faulted' = faulted
             \/ /\ Saves(t, client[c].body)
                /\ GoesTo(c, Idle)
                /\ faulted' = faulted \cup {t}
             \/ GoesTo(c, Idle) /\ UNCHANGED <<events, keyOf, faulted>>
          /\ UNCHANGED <<keys, ready, scheduled, accepted, fresh, raced>>
      BY <1>2, SaveEffect
    <2>2. client[c].task = NoTask
      BY <2>1 DEF TypeInv, SoundClient
    <2>3. \A d \in Clients : ClientChange(d)
      BY <2>1, <2>2 DEF GoesTo, ClientChange, Others
    <2>4. GoesTo(c, [client[c] EXCEPT !.pc = "record", !.task = t]) =>
             client'[c].task = t
      BY DEF GoesTo, TypeInv, SoundClient
    <2>5. ASSUME NEW u \in Tasks PROVE RowChange(u)
      <3>1. CASE UNCHANGED <<events, keyOf>>
        BY <3>1 DEF RowChange
      <3>2. CASE Saves(t, client[c].body) /\ u # t
        BY <3>2 DEF Saves, RowChange, TypeInv, TypeOK
      <3>3. CASE Saves(t, client[c].body) /\ u = t
        <4>1. /\ events'[t] = NewRow(client[c].body.step, NoTask,
                                     client[c].body.next)
              /\ keyOf'[t] = client[c].body.key
          BY <3>3 DEF Saves, TypeInv, TypeOK
        <4>2. events'[t].status = "pending"
          BY <4>1 DEF NewRow
        <4>3. events' # events
          BY <2>1, <4>2 DEF Exists
        <4>4. client'[c].task = t \/ t \in faulted'
          BY <2>1, <2>4, <4>3
        <4> QED
          BY <2>1, <3>3, <4>1, <4>2, <4>4 DEF RowChange
      <3> QED
        BY <2>1, <3>1, <3>2, <3>3
    <2> QED
      BY <2>1, <2>3, <2>5 DEF AcceptedChange, Keeps, KeyChange
  <1>3. ASSUME NEW c \in Clients, NEW r \in Outcome, RecordKey(c, r)
        PROVE  Goal
    <2> DEFINE k == client[c].body.key
               t == client[c].task
    <2>1. /\ client[c].pc = "record" /\ k \in Keys /\ t \in Tasks
          /\ \/ /\ keys' = CreateIdempotencyKey(k, t)
                /\ GoesTo(c, [client[c] EXCEPT !.pc = "enqueue"])
                /\ faulted' = faulted
             \/ /\ keys' = keys \/ keys' = CreateIdempotencyKey(k, t)
                /\ GoesTo(c, Idle)
                /\ faulted' = faulted \cup {t}
          /\ UNCHANGED <<events, ready, scheduled, keyOf, accepted, fresh, raced>>
      BY <1>3, RecordEffect, BodyTypes
    <2>2. \A d \in Clients : ClientChange(d)
      BY <2>1 DEF GoesTo, ClientChange
    <2>3. ASSUME NEW l \in Keys PROVE KeyChange(l)
      <3>1. CASE keys' = CreateIdempotencyKey(k, t)
        BY <2>1, <3>1 DEF CreateIdempotencyKey, KeyChange, TypeInv, TypeOK
      <3> QED
        BY <2>1, <3>1 DEF KeyChange
    <2> QED
      BY <2>1, <2>2, <2>3 DEF RowChange, AcceptedChange, Keeps
  <1>4. ASSUME NEW c \in Clients, NEW r \in Outcome, EnqueueTask(c, r)
        PROVE  Goal
    <2> DEFINE t == client[c].task
    <2>1. /\ client[c].pc = "enqueue" /\ t \in Tasks
          /\ \/ /\ Pushes(t)
                /\ accepted' = accepted \cup {t}
                /\ GoesTo(c, Idle)
                /\ faulted' = faulted
             \/ /\ Pushes(t) \/ UNCHANGED <<ready, scheduled>>
                /\ accepted' = accepted
                /\ GoesTo(c, [client[c] EXCEPT !.pc = "markFailed"])
                /\ faulted' = faulted \cup {t}
          /\ UNCHANGED <<events, keys, keyOf, raced>>
      BY <1>4, EnqueueEffect
    <2>2. \A d \in Clients : ClientChange(d)
      BY <2>1 DEF GoesTo, ClientChange
    <2>3. ASSUME NEW u \in Tasks PROVE AcceptedChange(u) /\ Keeps(u)
      <3>1. AcceptedChange(u)
        BY <2>1 DEF GoesTo, AcceptedChange, Others
      <3>2. Keeps(u)
        BY <2>1, PushKeepsIds DEF Keeps
      <3> QED
        BY <3>1, <3>2
    <2> QED
      BY <2>1, <2>2, <2>3 DEF RowChange, KeyChange
  <1>5. ASSUME NEW c \in Clients, NEW r \in Outcome, MarkFailed(c, r)
        PROVE  Goal
    <2> DEFINE t == client[c].task
    <2>1. /\ client[c].pc = "markFailed" /\ t \in Tasks
          /\ events' = events \/ events' = UpdateEventStatus(events, t, "failed")
          /\ GoesTo(c, Idle)
          /\ faulted \subseteq faulted'
          /\ UNCHANGED <<keys, ready, scheduled, keyOf, accepted, raced>>
      BY <1>5, FailEffect
    <2>2. \A d \in Clients : ClientChange(d)
      BY <2>1 DEF GoesTo, ClientChange
    <2>3. ASSUME NEW u \in Tasks PROVE RowChange(u)
      <3>1. CASE events' = UpdateEventStatus(events, t, "failed")
        <4>1. events'[u] = IF u = t THEN [events[u] EXCEPT !.status = "failed"]
                           ELSE events[u]
          BY <2>1, <3>1 DEF UpdateEventStatus, TypeInv, TypeOK
        <4>2. u = t => events'[u].status = "failed"
          BY <4>1 DEF TypeInv, TypeOK, Row
        <4>3. Exists(events, t)
          BY <2>1, NoTaskAssumption DEF HeldRows
        <4> QED
          BY <2>1, <4>1, <4>2, <4>3 DEF RowChange, GoesTo
      <3> QED
        BY <2>1, <3>1 DEF RowChange
    <2> QED
      BY <2>1, <2>2, <2>3 DEF AcceptedChange, Keeps, KeyChange
  <1>6. ASSUME NEW k \in Keys, Expire(k)
        PROVE  Goal
    <2>1. /\ keys' = [keys EXCEPT ![k].live = FALSE]
          /\ UNCHANGED <<events, ready, scheduled, client, keyOf, accepted, faulted>>
      BY <1>6 DEF Expire
    <2>2. ASSUME NEW l \in Keys PROVE keys'[l].event = keys[l].event
      BY <2>1 DEF TypeInv, TypeOK
    <2> QED
      BY <2>1, <2>2 DEF ClientChange, RowChange, AcceptedChange, Keeps, KeyChange
  <1>7. CASE Crash
    <2>1. \A c \in Clients :
             /\ client'[c] = Idle
             /\ client[c].task = NoTask \/ client[c].task \in faulted'
      BY <1>7, CrashEffect DEF TypeInv, SoundClient
    <2> QED
      BY <1>7, <2>1, CrashEffect
         DEF ClientChange, RowChange, AcceptedChange, Keeps, KeyChange
  <1>8. CASE UNCHANGED vars
    BY <1>8 DEF vars, ClientChange, RowChange, AcceptedChange, Keeps, KeyChange
  <1> QED
    BY <1>1, <1>2, <1>3, <1>4, <1>5, <1>6, <1>7, <1>8 DEF Next, ClientStep

-----------------------------------------------------------------------------
(* The inductive invariant.                                                *)

(* What a request knows of the task it has saved.                          *)
Owns(c, t) ==
    /\ Exists(events, t)
    /\ keyOf[t] = client[c].body.key
    /\ t \notin accepted
    /\ client[c].pc \in {"record", "enqueue"} => events[t].status = "pending"
    /\ client[c].pc \in {"enqueue", "markFailed"} => HasRow(client[c].body.key)
    /\ client[c].pc = "markFailed" => t \in faulted

ClientsOwn ==
    \A c \in Clients, t \in Tasks : client[c].task = t => Owns(c, t)

(* No two requests hold the same task.                                     *)
Alone ==
    \A c, d \in Clients, t \in Tasks :
       client[c].task = t /\ client[d].task = t => c = d

AcceptedHasKey == \A t \in accepted : keyOf[t] \in Keys

SubmissionInv ==
    /\ ClientsOwn
    /\ Alone
    /\ AcceptedHasKey
    /\ KeyNamesTask
    /\ AcceptedIsDurable
    /\ SavedIsTracked

(* A task that a request holds has its row.                                *)
LEMMA InvHeldRows == TypeInv /\ SubmissionInv => HeldRows
  BY DEF TypeInv, SubmissionInv, ClientsOwn, Owns, HeldRows, SoundClient

(* Initially no request is under way and no row exists.                    *)
LEMMA InitInv == Init => SubmissionInv
  <1> SUFFICES ASSUME Init PROVE SubmissionInv
    OBVIOUS
  <1>1. \A c \in Clients : client[c].task = NoTask
    BY DEF Init, Idle
  <1>2. \A k \in Keys : ~HasRow(k)
    BY DEF Init, HasRow, NoKeyRow
  <1>3. \A t \in Tasks : ~Exists(events, t)
    BY DEF Init, Exists, Absent
  <1> QED
    BY <1>1, <1>2, <1>3, NoTaskAssumption
       DEF SubmissionInv, ClientsOwn, Alone, AcceptedHasKey, KeyNamesTask,
           AcceptedIsDurable, SavedIsTracked, Init

(* A request keeps its task until it ends, or has just saved it.           *)
LEMMA TaskFrom ==
    ASSUME TypeInv, SubmissionInv, [Next]_vars, NEW c \in Clients, NEW t \in Tasks,
           client'[c].task = t
    PROVE  \/ client'[c] = client[c]
           \/ /\ client[c].pc = "save" /\ client'[c].pc = "record"
              /\ client'[c].body = client[c].body
              /\ ~Exists(events, t)
              /\ Saves(t, client[c].body)
              /\ Others(c)
              /\ UNCHANGED <<keys, accepted>>
           \/ /\ client[c].task = t /\ client'[c].body = client[c].body
              /\ client[c].pc = "record" /\ client'[c].pc = "enqueue"
              /\ keys' = CreateIdempotencyKey(client[c].body.key, t)
              /\ UNCHANGED <<events, keyOf, accepted>>
           \/ /\ client[c].task = t /\ client'[c].body = client[c].body
              /\ client[c].pc = "enqueue" /\ client'[c].pc = "markFailed"
              /\ t \in faulted'
              /\ UNCHANGED <<events, keys, keyOf, accepted>>
  <1>1. ClientChange(c)
    BY InvHeldRows, StepEffect
  <1>2. client'[c] # Idle /\ client'[c].pc # "save"
    BY TypeStep, NoTaskAssumption DEF TypeInv, SoundClient, Idle
  <1>3. client[c] \in [pc : ClientPC, task : Tasks \cup {NoTask},
                       body : Requests \cup {NoBody}]
    BY DEF TypeInv, TypeOK
  <1>4. ASSUME NEW u \in Tasks,
               client'[c] = [client[c] EXCEPT !.pc = "record", !.task = u]
        PROVE  u = t /\ client'[c].body = client[c].body
               /\ client'[c].pc = "record"
    BY <1>3, <1>4
  <1>5. ASSUME NEW pc, client'[c] = [client[c] EXCEPT !.pc = pc]
        PROVE  client[c].task = t /\ client'[c].body = client[c].body
               /\ client'[c].pc = pc
    BY <1>3, <1>5
  <1> QED
    BY <1>1, <1>2, <1>4, <1>5 DEF ClientChange

(* What a request knows of its task stays true.                            *)
LEMMA OwnsStep ==
    ASSUME TypeInv, SubmissionInv, [Next]_vars, NEW c \in Clients, NEW t \in Tasks,
           client'[c].task = t
    PROVE  Owns(c, t)'
  <1>1. RowChange(t) /\ AcceptedChange(t) /\ Keeps(t)
    BY InvHeldRows, StepEffect
  <1>2. CASE client'[c] = client[c]
    <2>1. Owns(c, t)
      BY <1>2 DEF SubmissionInv, ClientsOwn
    <2>2. ASSUME NEW d \in Clients, client[d].task = t PROVE client'[d] # Idle
      BY <1>2, <2>2, NoTaskAssumption DEF SubmissionInv, Alone, Idle
    <2>3. events'[t] = events[t] /\ keyOf'[t] = keyOf[t]
      BY <1>1, <2>1, <2>2 DEF RowChange, Owns
    <2>4. t \notin accepted'
      BY <1>1, <2>1, <2>2 DEF AcceptedChange, Owns
    <2>5. client[c].pc \in {"enqueue", "markFailed"} =>
             HasRow(client[c].body.key)'
      <3> SUFFICES ASSUME client[c].pc \in {"enqueue", "markFailed"}
                   PROVE  HasRow(client[c].body.key)'
        OBVIOUS
      <3>1. PICK k \in Keys : k = client[c].body.key
        BY Holds, BodyTypes
      <3>2. HasRow(k)
        BY <2>1, <3>1 DEF Owns
      <3>3. KeyChange(k)
        BY InvHeldRows, StepEffect
      <3>4. keys'[k].event # NoTask
        BY <3>2, <3>3 DEF KeyChange, HasRow
      <3> QED
        BY <1>2, <3>1, <3>4 DEF HasRow
    <2> QED
      BY <1>1, <1>2, <2>1, <2>3, <2>4, <2>5 DEF Owns, Exists, Keeps
  <1>3. CASE /\ client'[c].pc = "record"
             /\ client'[c].body = client[c].body
             /\ ~Exists(events, t)
             /\ Saves(t, client[c].body)
             /\ accepted' = accepted
    <2>1. /\ events'[t] = NewRow(client[c].body.step, NoTask, client[c].body.next)
          /\ keyOf'[t] = client[c].body.key
      BY <1>3 DEF Saves, TypeInv, TypeOK
    <2>2. events'[t].status = "pending"
      BY <2>1 DEF NewRow
    <2>3. t \notin accepted
      BY <1>3 DEF SubmissionInv, AcceptedIsDurable, Exists
    <2> QED
      BY <1>3, <2>1, <2>2, <2>3 DEF Owns, Exists
  <1>4. CASE /\ client[c].task = t /\ client'[c].body = client[c].body
             /\ client[c].pc = "record" /\ client'[c].pc = "enqueue"
             /\ keys' = CreateIdempotencyKey(client[c].body.key, t)
             /\ UNCHANGED <<events, keyOf, accepted>>
    <2>1. Owns(c, t)
      BY <1>4 DEF SubmissionInv, ClientsOwn
    <2>2. PICK k \in Keys : k = client[c].body.key
      BY <1>4, Holds, BodyTypes
    <2>3. keys'[k].event # NoTask
      BY <1>4, <2>2, NoTaskAssumption
         DEF CreateIdempotencyKey, HasRow, TypeInv, TypeOK
    <2> QED
      BY <1>4, <2>1, <2>2, <2>3 DEF Owns, HasRow
  <1>5. CASE /\ client[c].task = t /\ client'[c].body = client[c].body
             /\ client[c].pc = "enqueue" /\ client'[c].pc = "markFailed"
             /\ t \in faulted'
             /\ UNCHANGED <<events, keys, keyOf, accepted>>
    <2>1. Owns(c, t)
      BY <1>5 DEF SubmissionInv, ClientsOwn
    <2> QED
      BY <1>5, <2>1 DEF Owns, HasRow
  <1> QED
    BY <1>2, <1>3, <1>4, <1>5, TaskFrom

(* No two requests ever hold the same task.                                *)
LEMMA AloneStep ==
    ASSUME TypeInv, SubmissionInv, [Next]_vars, NEW c \in Clients,
           NEW d \in Clients, NEW t \in Tasks,
           client'[c].task = t, client'[d].task = t
    PROVE  c = d
  <1>1. ASSUME NEW e \in Clients, client'[e].task = t
        PROVE  client[e].task = t \/ (~Exists(events, t) /\ Others(e))
    BY <1>1, TaskFrom
  <1>2. \A e \in Clients : client[e].task = t => Exists(events, t)
    BY DEF SubmissionInv, ClientsOwn, Owns
  <1> QED
    BY <1>1, <1>2 DEF SubmissionInv, Alone, Others

(* A key's row keeps naming the task it was recorded for.                  *)
LEMMA KeyStep ==
    ASSUME TypeInv, SubmissionInv, [Next]_vars, NEW k \in Keys, HasRow(k)'
    PROVE  /\ Exists(events', keys'[k].event)
           /\ keyOf'[keys'[k].event] = k
  <1>1. PICK t : t = keys'[k].event
    OBVIOUS
  <1>2. t \in Tasks
    BY <1>1, TypeStep DEF HasRow, TypeInv, TypeOK
  <1>3. KeyChange(k) /\ RowChange(t)
    BY <1>2, InvHeldRows, StepEffect
  <1>4. CASE keys'[k].event = keys[k].event
    <2>1. Exists(events, t) /\ keyOf[t] = k
      BY <1>1, <1>2, <1>4, NoTaskAssumption
         DEF SubmissionInv, KeyNamesTask, HasRow
    <2>2. keyOf'[t] = keyOf[t] /\ Exists(events', t)
      BY <1>3, <2>1 DEF RowChange, Exists
    <2> QED
      BY <1>1, <2>1, <2>2
  <1>5. ASSUME NEW c \in Clients, client[c].pc = "record",
               client[c].body.key = k, keys'[k].event = client[c].task,
               UNCHANGED <<events, keyOf>>
        PROVE  Exists(events', t) /\ keyOf'[t] = k
    BY <1>1, <1>2, <1>5 DEF SubmissionInv, ClientsOwn, Owns
  <1> QED
    BY <1>1, <1>3, <1>4, <1>5 DEF KeyChange

(* An accepted task stays pending, queued or scheduled, and under its key. *)
LEMMA AcceptedStep ==
    ASSUME TypeInv, SubmissionInv, [Next]_vars, NEW t \in Tasks, t \in accepted'
    PROVE  /\ events'[t].status = "pending"
           /\ Queued(ready', t) \/ OnSchedule(scheduled', t)
           /\ keyOf'[t] \in Keys
           /\ keys'[keyOf'[t]].event # NoTask
  <1>1. RowChange(t) /\ AcceptedChange(t) /\ Keeps(t)
    BY InvHeldRows, StepEffect
  <1>2. CASE t \in accepted
    <2>1. /\ events[t].status = "pending"
          /\ Queued(ready, t) \/ OnSchedule(scheduled, t)
          /\ keyOf[t] \in Keys
          /\ keys[keyOf[t]].event # NoTask
      BY <1>2 DEF SubmissionInv, AcceptedIsDurable, AcceptedHasKey, HasRow
    <2>2. \A c \in Clients : client[c].task # t
      BY <1>2 DEF SubmissionInv, ClientsOwn, Owns
    <2>3. events'[t] = events[t] /\ keyOf'[t] = keyOf[t]
      BY <1>1, <2>1, <2>2 DEF RowChange, Exists
    <2>4. KeyChange(keyOf[t])
      BY <2>1, InvHeldRows, StepEffect
    <2> QED
      BY <1>1, <2>1, <2>3, <2>4 DEF KeyChange, Keeps, HasRow
  <1>3. ASSUME NEW c \in Clients, client[c].pc = "enqueue", client[c].task = t,
               Pushes(t), UNCHANGED <<events, keys, keyOf>>
        PROVE  /\ events'[t].status = "pending"
               /\ Queued(ready', t) \/ OnSchedule(scheduled', t)
               /\ keyOf'[t] \in Keys
               /\ keys'[keyOf'[t]].event # NoTask
    <2>1. Owns(c, t)
      BY <1>3 DEF SubmissionInv, ClientsOwn
    <2>2. client[c].body.key \in Keys
      BY <1>3, Holds, BodyTypes
    <2> QED
      BY <1>3, <2>1, <2>2, PushKeepsIds DEF Owns, HasRow
  <1> QED
    BY <1>1, <1>2, <1>3 DEF AcceptedChange

(* A saved row is given up only when it is accepted or a fault hit it.     *)
LEMMA TrackedStep ==
    ASSUME TypeInv, SubmissionInv, [Next]_vars, NEW t \in Tasks,
           Exists(events', t), t \notin faulted'
    PROVE  t \in accepted' \/ \E c \in Clients : client'[c].task = t
  <1>1. RowChange(t) /\ AcceptedChange(t) /\ Keeps(t)
    BY InvHeldRows, StepEffect
  <1>2. t \notin faulted
    BY <1>1 DEF Keeps
  <1>3. CASE ~Exists(events, t)
    BY <1>1, <1>3 DEF RowChange, Exists
  <1>4. CASE t \in accepted
    BY <1>1, <1>4 DEF AcceptedChange
  <1>5. ASSUME NEW c \in Clients, client[c].task = t
        PROVE  t \in accepted' \/ client'[c].task = t
    <2>1. ClientChange(c)
      BY InvHeldRows, StepEffect
    <2>2. client[c] \in SoundClient /\ client[c].pc \notin {"idle", "save"}
      BY <1>5, NoTaskAssumption DEF TypeInv, SoundClient
    <2>3. client[c].pc # "markFailed"
      BY <1>2, <1>5 DEF SubmissionInv, ClientsOwn, Owns
    <2>4. \A pc : [client[c] EXCEPT !.pc = pc].task = t
      BY <1>5, <2>2 DEF SoundClient
    <2> QED
      BY <1>5, <2>1, <2>2, <2>3, <2>4, NoTaskAssumption DEF ClientChange
  <1> QED
    BY <1>2, <1>3, <1>4, <1>5 DEF SubmissionInv, SavedIsTracked

(* Every step keeps the invariant.                                         *)
LEMMA InvStep == TypeInv /\ SubmissionInv /\ [Next]_vars => SubmissionInv'
  <1> SUFFICES ASSUME TypeInv, SubmissionInv, [Next]_vars PROVE SubmissionInv'
    OBVIOUS
  <1>0. accepted' \subseteq Tasks
    BY TypeStep DEF TypeInv, TypeOK
  <1>1. ClientsOwn'
    BY OwnsStep DEF ClientsOwn
  <1>2. Alone'
    BY AloneStep DEF Alone
  <1>3. AcceptedHasKey' /\ AcceptedIsDurable'
    BY <1>0, AcceptedStep DEF AcceptedHasKey, AcceptedIsDurable, HasRow
  <1>4. KeyNamesTask'
    BY KeyStep DEF KeyNamesTask
  <1>5. SavedIsTracked'
    BY TrackedStep DEF SavedIsTracked
  <1> QED
    BY <1>1, <1>2, <1>3, <1>4, <1>5 DEF SubmissionInv

(* It holds throughout.                                                    *)
LEMMA SubmissionInvariant == Spec => [](TypeInv /\ SubmissionInv)
  BY InitType, InitInv, TypeStep, InvStep, PTL DEF Spec

(* A row of idempotency_keys always names an existing task created for     *)
(* that key, however requests race, whichever of their writes fail and     *)
(* wherever the process crashes.                                           *)
THEOREM KeyAlwaysNamesTask == Spec => []KeyNamesTask
  <1>1. SubmissionInv => KeyNamesTask
    BY DEF SubmissionInv
  <1> QED
    BY <1>1, SubmissionInvariant, PTL

(* What the 200 answer of HandleCreateTask promises is kept: the row is    *)
(* pending, its id is queued or scheduled and its key is recorded.         *)
THEOREM AcceptedStaysDurable == Spec => []AcceptedIsDurable
  <1>1. SubmissionInv => AcceptedIsDurable
    BY DEF SubmissionInv
  <1> QED
    BY <1>1, SubmissionInvariant, PTL

(* HandleCreateTask forgets an inserted row only when a fault hit it.      *)
THEOREM SavedStaysTracked == Spec => []SavedIsTracked
  <1>1. SubmissionInv => SavedIsTracked
    BY DEF SubmissionInv
  <1> QED
    BY <1>1, SubmissionInvariant, PTL

-----------------------------------------------------------------------------
(* Duplicates.                                                             *)

Unexpired(k) == HasRow(k) => keys[k].live

(* Request c has passed the lookup of k and not yet recorded it.           *)
Looking(c, k) == client[c].body.key = k /\ client[c].pc \in {"save", "record"}

Pushing(c, k) == client[c].body.key = k /\ client[c].pc = "enqueue"

(* For a key without a race and without an expired row: one request at a   *)
(* time is between lookup and insert, none once the row is there, and only *)
(* the task the row names is or has been enqueued.                         *)
RaceFree(k) ==
    /\ \A c, d \in Clients : Looking(c, k) /\ Looking(d, k) => c = d
    /\ \A c \in Clients : Looking(c, k) => ~HasRow(k)
    /\ \A c \in Clients : Pushing(c, k) => client[c].task = keys[k].event
    /\ \A t \in accepted : keyOf[t] = k => t = keys[k].event

RaceInv ==
    \A k \in Keys : k \notin raced /\ Unexpired(k) => RaceFree(k)

(* Initially no request is under way.                                      *)
LEMMA InitRace == Init => RaceInv
  <1> SUFFICES ASSUME Init PROVE RaceInv
    OBVIOUS
  <1>1. \A c \in Clients : client[c].pc = "idle"
    BY DEF Init, Idle
  <1> QED
    BY <1>1 DEF Init, RaceInv, RaceFree, Looking, Pushing

(* A step that leaves k's row alone and brings no request and no task of k *)
(* any further keeps RaceFree(k).                                          *)
LEMMA RaceKept ==
    ASSUME NEW k \in Keys, RaceFree(k), keys'[k] = keys[k],
           \A c \in Clients : /\ Looking(c, k)' => Looking(c, k)
                              /\ Pushing(c, k)' => client'[c] = client[c],
           \A t \in accepted' : keyOf'[t] = k => t \in accepted /\ keyOf[t] = k
    PROVE  RaceFree(k)'
  BY DEF RaceFree, Looking, Pushing, HasRow

(* A row that was inserted stays, and one that expired stays expired.      *)
LEMMA UnexpiredBefore ==
    ASSUME TypeInv, [Next]_vars, NEW k \in Keys, k \notin raced', Unexpired(k)'
    PROVE  k \notin raced /\ Unexpired(k)
  <1>1. ASSUME NEW c \in Clients, NEW b \in Requests, HandleCreateTask(c, b)
        PROVE  k \notin raced /\ Unexpired(k)
    BY <1>1, LookUpEffect DEF Unexpired, HasRow
  <1>2. ASSUME NEW c \in Clients, NEW t \in Tasks, NEW r \in Outcome,
               SaveEvent(c, t, r)
        PROVE  k \notin raced /\ Unexpired(k)
    BY <1>2, SaveEffect DEF Unexpired, HasRow
  <1>3. ASSUME NEW c \in Clients, NEW r \in Outcome, RecordKey(c, r)
        PROVE  k \notin raced /\ Unexpired(k)
    <2>1. client[c].body.key \in Keys /\ raced' = raced
      BY <1>3, RecordEffect, BodyTypes
    <2>2. \/ keys' = keys
          \/ keys' = CreateIdempotencyKey(client[c].body.key, client[c].task)
      BY <1>3, RecordEffect
    <2>3. HasRow(k) => keys'[k] = keys[k]
      BY <2>1, <2>2 DEF CreateIdempotencyKey, TypeInv, TypeOK
    <2> QED
      BY <2>1, <2>3 DEF Unexpired, HasRow
  <1>4. ASSUME NEW c \in Clients, NEW r \in Outcome, EnqueueTask(c, r)
        PROVE  k \notin raced /\ Unexpired(k)
    BY <1>4, EnqueueEffect DEF Unexpired, HasRow
  <1>5. ASSUME NEW c \in Clients, NEW r \in Outcome, MarkFailed(c, r)
        PROVE  k \notin raced /\ Unexpired(k)
    BY <1>5, FailEffect DEF Unexpired, HasRow
  <1>6. ASSUME NEW l \in Keys, Expire(l)
        PROVE  k \notin raced /\ Unexpired(k)
    BY <1>6 DEF Expire, GetIdempotencyKey, Unexpired, HasRow, TypeInv, TypeOK
  <1>7. CASE Crash
    BY <1>7, CrashEffect DEF Unexpired, HasRow
  <1>8. CASE UNCHANGED vars
    BY <1>8 DEF vars, Unexpired, HasRow
  <1> QED
    BY <1>1, <1>2, <1>3, <1>4, <1>5, <1>6, <1>7, <1>8 DEF Next, ClientStep

(* Every step keeps a key without a race and without an expired row in     *)
(* order.                                                                  *)
LEMMA RaceStep ==
    TypeInv /\ SubmissionInv /\ RaceInv /\ [Next]_vars => RaceInv'
  <1> SUFFICES ASSUME TypeInv, SubmissionInv, RaceInv, [Next]_vars,
                      NEW k \in Keys, k \notin raced', Unexpired(k)'
               PROVE  RaceFree(k)'
    BY DEF RaceInv
  <1>0. k \notin raced /\ Unexpired(k) /\ RaceFree(k)
    BY UnexpiredBefore DEF RaceInv
  <1>1. ASSUME NEW c \in Clients, NEW b \in Requests, HandleCreateTask(c, b)
        PROVE  RaceFree(k)'
    <2>1. /\ ~GetIdempotencyKey(b.key)
          /\ GoesTo(c, [pc |-> "save", task |-> NoTask, body |-> b])
          /\ raced' = IF Rivals(c, b.key) = {} THEN raced ELSE raced \cup {b.key}
          /\ UNCHANGED <<keys, keyOf, accepted>>
      BY <1>1, LookUpEffect
    <2>2. client'[c].pc = "save" /\ client'[c].body = b
      BY <2>1 DEF GoesTo
    <2>3. \A d \in Clients \ {c} : client'[d] = client[d]
      BY <2>1 DEF GoesTo
    <2>4. CASE b.key # k
      BY <1>0, <2>1, <2>2, <2>3, <2>4, RaceKept DEF Looking, Pushing
    <2>5. CASE b.key = k
      <3>1. ~HasRow(k)
        BY <1>0, <2>1, <2>5 DEF GetIdempotencyKey, Unexpired
      <3>2. Rivals(c, k) = {}
        BY <2>1, <2>5
      <3>3. \A d \in Clients \ {c} : ~Looking(d, k)
        BY <3>2 DEF Rivals, Looking
      <3> QED
        BY <1>0, <2>1, <2>2, <2>3, <2>5, <3>1, <3>3
           DEF RaceFree, Looking, Pushing, HasRow
    <2> QED
      BY <2>4, <2>5
  <1>2. ASSUME NEW c \in Clients, NEW t \in Tasks, NEW r \in Outcome,
               SaveEvent(c, t, r)
        PROVE  RaceFree(k)'
    <2>1. /\ client[c].pc = "save" /\ ~Exists(events, t)
          /\ \/ Saves(t, client[c].body)
             \/ keyOf' = keyOf
          /\ \/ GoesTo(c, [client[c] EXCEPT !.pc = "record", !.task = t])
             \/ GoesTo(c, Idle)
          /\ UNCHANGED <<keys, accepted>>
      BY <1>2, SaveEffect
    <2>2. /\ \A d \in Clients \ {c} : client'[d] = client[d]
          /\ client'[c].pc \in {"record", "idle"}
          /\ client'[c].pc = "record" => client'[c].body = client[c].body
      <3>1. CASE GoesTo(c, [client[c] EXCEPT !.pc = "record", !.task = t])
        BY <3>1 DEF GoesTo, TypeInv, TypeOK
      <3>2. CASE GoesTo(c, Idle)
        BY <3>2 DEF GoesTo, Idle
      <3> QED
        BY <2>1, <3>1, <3>2
    <2>3. \A u \in accepted : u # t /\ u \in Tasks
      BY <2>1 DEF SubmissionInv, AcceptedIsDurable, Exists, TypeInv, TypeOK
    <2>4. \A u \in accepted : keyOf'[u] = keyOf[u]
      BY <2>1, <2>3 DEF Saves, TypeInv, TypeOK
    <2> QED
      BY <1>0, <2>1, <2>2, <2>4, RaceKept DEF Looking, Pushing
  <1>3. ASSUME NEW c \in Clients, NEW r \in Outcome, RecordKey(c, r)
        PROVE  RaceFree(k)'
    <2>1. PICK l \in Keys : l = client[c].body.key
      BY <1>3, RecordEffect, BodyTypes
    <2>2. PICK t \in Tasks : t = client[c].task
      BY <1>3, RecordEffect
    <2>3. /\ client[c].pc = "record"
          /\ \/ /\ keys' = CreateIdempotencyKey(l, t)
                /\ GoesTo(c, [client[c] EXCEPT !.pc = "enqueue"])
             \/ /\ keys' = keys \/ keys' = CreateIdempotencyKey(l, t)
                /\ GoesTo(c, Idle)
          /\ UNCHANGED <<keyOf, accepted>>
      BY <1>3, <2>1, <2>2, RecordEffect
    <2>4. /\ \A d \in Clients \ {c} : client'[d] = client[d]
          /\ client'[c].pc \in {"enqueue", "idle"}
          /\ client'[c].pc = "enqueue" =>
                /\ client'[c].body.key = l /\ client'[c].task = t
                /\ keys' = CreateIdempotencyKey(l, t)
      BY <2>1, <2>2, <2>3 DEF GoesTo, Idle, TypeInv, SoundClient
    <2>5. CASE l # k
      <3>1. keys'[k] = keys[k]
        BY <2>3, <2>5 DEF CreateIdempotencyKey, TypeInv, TypeOK
      <3> QED
        BY <1>0, <2>3, <2>4, <2>5, <3>1, RaceKept DEF Looking, Pushing
    <2>6. CASE l = k
      <3>1. Looking(c, k)
        BY <2>1, <2>3, <2>6 DEF Looking
      <3>2. ~HasRow(k) /\ \A d \in Clients \ {c} : ~Looking(d, k)
        BY <1>0, <3>1 DEF RaceFree
      <3>3. \A d \in Clients : ~Pushing(d, k)
        <4> SUFFICES ASSUME NEW d \in Clients, Pushing(d, k) PROVE FALSE
          OBVIOUS
        <4>1. client[d].task \in Tasks
          BY Holds DEF Pushing
        <4> QED
          BY <3>2, <4>1 DEF Pushing, SubmissionInv, ClientsOwn, Owns
      <3>4. \A u \in accepted : keyOf[u] # k
        BY <3>2 DEF SubmissionInv, AcceptedIsDurable
      <3>5. CreateIdempotencyKey(k, t)[k].event = t
        BY <3>2 DEF CreateIdempotencyKey, TypeInv, TypeOK
      <3>6. \A d \in Clients : ~Looking(d, k)'
        BY <2>4, <3>2 DEF Looking
      <3>7. \A d \in Clients : Pushing(d, k)' => client'[d].task = keys'[k].event
        BY <2>4, <2>6, <3>3, <3>5 DEF Pushing
      <3> QED
        BY <2>3, <3>4, <3>6, <3>7 DEF RaceFree
    <2> QED
      BY <2>5, <2>6
  <1>4. ASSUME NEW c \in Clients, NEW r \in Outcome, EnqueueTask(c, r)
        PROVE  RaceFree(k)'
    <2>1. PICK t \in Tasks : t = client[c].task
      BY <1>4, EnqueueEffect
    <2>2. /\ client[c].pc = "enqueue"
          /\ \/ accepted' = accepted \cup {t} /\ GoesTo(c, Idle)
             \/ /\ accepted' = accepted
                /\ GoesTo(c, [client[c] EXCEPT !.pc = "markFailed"])
          /\ UNCHANGED <<keys, keyOf>>
      BY <1>4, <2>1, EnqueueEffect
    <2>3. /\ \A d \in Clients \ {c} : client'[d] = client[d]
          /\ client'[c].pc \in {"markFailed", "idle"}
      BY <2>2 DEF GoesTo, Idle, TypeInv, SoundClient
    <2>4. keyOf[t] = client[c].body.key
      BY <2>1 DEF SubmissionInv, ClientsOwn, Owns
    <2>5. keyOf[t] = k => t = keys[k].event
      BY <1>0, <2>1, <2>2, <2>4 DEF RaceFree, Pushing
    <2> QED
      BY <1>0, <2>2, <2>3, <2>5 DEF RaceFree, Looking, Pushing, HasRow
  <1>5. ASSUME NEW c \in Clients, NEW r \in Outcome, MarkFailed(c, r)
        PROVE  RaceFree(k)'
    <2>1. GoesTo(c, Idle) /\ UNCHANGED <<keys, keyOf, accepted>>
      BY <1>5, FailEffect
    <2> QED
      BY <1>0, <2>1, RaceKept DEF GoesTo, Idle, Looking, Pushing
  <1>6. ASSUME NEW l \in Keys, Expire(l)
        PROVE  RaceFree(k)'
    <2>1. /\ GetIdempotencyKey(l)
          /\ keys' = [keys EXCEPT ![l].live = FALSE]
          /\ UNCHANGED <<client, keyOf, accepted>>
      BY <1>6 DEF Expire
    <2>2. l # k
      BY <2>1 DEF GetIdempotencyKey, Unexpired, HasRow, TypeInv, TypeOK
    <2>3. keys'[k] = keys[k]
      BY <2>1, <2>2 DEF TypeInv, TypeOK
    <2> QED
      BY <1>0, <2>1, <2>3, RaceKept DEF Looking, Pushing
  <1>7. CASE Crash
    <2>1. /\ \A d \in Clients : client'[d] = Idle
          /\ UNCHANGED <<keys, keyOf, accepted>>
      BY <1>7, CrashEffect
    <2> QED
      BY <1>0, <2>1, RaceKept DEF Idle, Looking, Pushing
  <1>8. CASE UNCHANGED vars
    BY <1>0, <1>8, RaceKept DEF vars, Looking, Pushing
  <1> QED
    BY <1>1, <1>2, <1>3, <1>4, <1>5, <1>6, <1>7, <1>8 DEF Next, ClientStep

(* One key yields two accepted tasks only through a race between lookup    *)
(* and insert, or once its row has expired: with any number of clients,    *)
(* and with failed writes and crashes at every step.                       *)
THEOREM DuplicatesNeedRace == Spec => []DuplicateNeedsRace
  <1>1. TypeInv /\ SubmissionInv /\ RaceInv => DuplicateNeedsRace
    <2> SUFFICES ASSUME TypeInv, SubmissionInv, RaceInv,
                        NEW t \in accepted, NEW u \in accepted,
                        keyOf[t] = keyOf[u], t # u,
                        keyOf[t] \notin raced, keys[keyOf[t]].live
                 PROVE  FALSE
      BY DEF DuplicateNeedsRace
    <2>1. keyOf[t] \in Keys
      BY DEF SubmissionInv, AcceptedHasKey
    <2>2. RaceFree(keyOf[t])
      BY <2>1 DEF RaceInv, Unexpired
    <2> QED
      BY <2>2 DEF RaceFree
  <1>2. Init => RaceInv
    BY InitRace
  <1>3. TypeInv /\ SubmissionInv /\ RaceInv /\ [Next]_vars => RaceInv'
    BY RaceStep
  <1> QED
    BY <1>1, <1>2, <1>3, SubmissionInvariant, PTL DEF Spec
=============================================================================
