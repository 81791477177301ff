------------------------- MODULE TaskPlatformProofs -------------------------
(***************************************************************************)
(* Proofs about TaskPlatform: what is proved of workers, schedulers and    *)
(* operators (TaskLifecycle) still holds while clients submit tasks into   *)
(* the same tables and the same queue, and what only the composition can   *)
(* promise: a submitted task is tracked from its insert on, runs only with *)
(* its key recorded, and stays cancelled when it is cancelled early.       *)
(*                                                                         *)
(* A step of the process is a step of TaskLifecycle, so the step lemmas    *)
(* proved there apply to it as they are; the work here is in the steps of  *)
(* a request (Submit) and in the crash that ends everything (ProcessCrash).*)
(***************************************************************************)
EXTENDS TaskPlatform, TaskCopyProofs

(* A request in flight whose program counter, task and body fit together.  *)
SoundClient ==
    {s \in [pc : Sub!ClientPC, task : Tasks \cup {NoTask},
            body : Requests \cup {Sub!NoBody}] :
       /\ s.pc \in {"idle", "save"} <=> s.task = NoTask
       /\ s.pc # "idle" => s.body \in Requests}

(* The types of what the submission adds to the state.                     *)
ClientType ==
    /\ client \in [Clients -> SoundClient]
    /\ keys \in [Keys -> [event : Tasks \cup {NoTask}, live : BOOLEAN]]
    /\ keyOf \in [Tasks -> Keys \cup {NoKey}]

(* The idempotency key of t is recorded.                                   *)
KeyRecorded(t) == keyOf[t] \in Keys /\ Sub!HasRow(keyOf[t])

(* A request past the insert is alone with its task, a root with its key;  *)
(* past CheckAndRecordToDB the key is recorded.                            *)
ClientOwns(c) ==
    LET t == client[c].task IN
    t # NoTask =>
       /\ Exists(events, t)
       /\ events[t].parent = NoTask
       /\ keyOf[t] = client[c].body.key
       /\ client[c].pc \in {"enqueue", "markFailed"} => KeyRecorded(t)
       /\ client[c].pc = "markFailed" => t \in faulted
       /\ \A d \in Clients \ {c} : client[d].task # t

(* A plain task whose request has not queued it yet is nowhere else.       *)
Waits(t) ==
    HeldByClient(t) /\ Plain(t) =>
       /\ ~Active(t)
       /\ ~HeldByWorker(t)
       /\ t \notin dlq
       /\ events[t].status \in {"pending", "cancelled"}

(* The row of t's key names t, unless two requests raced for the key.      *)
KeyNames(t) == keyOf[t] \notin raced => keys[keyOf[t]].event = t

(* A root that no operator issued again is queued, scheduled and run only  *)
(* with its key recorded and, without a race, in its own name.             *)
OnItsWay(t) ==
    \/ Queued(ready, t)
    \/ OnSchedule(scheduled, t)
    \/ \E w \in Workers : Undecided(w, t)

RunsWithKey(t) ==
    /\ events[t].parent = NoTask
    /\ reissued[t] = 0
    /\ OnItsWay(t) \/ Started(t)
    => KeyRecorded(t) /\ KeyNames(t)

(* Log entries are about tasks that exist.                                 *)
LogHasRow(t) == logs[t] # NoLog => Exists(events, t)

(* Request c has passed the lookup of k and not yet recorded it.           *)
Looking(c, k) == client[c].body.key = k /\ client[c].pc \in {"save", "record"}

Pushing(c, k) == client[c].body.key = k /\ client[c].pc = "enqueue"

(* Without a race for k, one request at a time is between lookup and       *)
(* insert, none once the row is there, and only the task the row names is  *)
(* about to be queued.                                                     *)
RaceFree(k) ==
    /\ \A c, d \in Clients : Looking(c, k) /\ Looking(d, k) => c = d
    /\ \A c \in Clients : Looking(c, k) => ~Sub!HasRow(k)
    /\ \A c \in Clients : Pushing(c, k) => client[c].task = keys[k].event

KeyInv(k) ==
    /\ Sub!HasRow(k) => keys[k].live
    /\ k \notin raced => RaceFree(k)

(* What a worker is about to enqueue is not a root.                        *)
ChildIsChained ==
    \A w \in Workers :
       worker[w].child # NoTask => events[worker[w].child].parent # NoTask

(* A processed task has its next step saved.                               *)
ProcessedNext ==
    \A t \in Tasks : events[t].status = "processed" => NextSaved(t)

RowsInv == RowInv /\ ProcessedNext /\ ChildIsChained

(* From its insert on, a pending task that no fault hit is on its way.     *)
TrackedOrHeld(t) ==
    events[t].status = "pending" /\ t \notin faulted =>
       Tracked(t) \/ HeldByClient(t)

(* The inductive invariant of the composition: the invariants of the       *)
(* lifecycle, and how requests in flight and their keys fit in.            *)
PlatformInv ==
    /\ TypeInv
    /\ ClientType
    /\ RowsInv
    /\ ChainInv
    /\ \A c \in Clients : ClientOwns(c)
    /\ \A k \in Keys : KeyInv(k)
    /\ \A t \in Tasks : /\ PlainInv(t)
                        /\ DueInv(t)
                        /\ Waits(t)
                        /\ LogHasRow(t)
                        /\ RunsWithKey(t)
                        /\ TrackedOrHeld(t)

-----------------------------------------------------------------------------
(* What a step of a request does, entry by entry.                          *)

OthersStay(c) == \A d \in Clients \ {c} : client'[d] = client[d]

(* c drops its task, or has none yet.                                      *)
LetsGo(c) == client'[c].task = NoTask

(* c goes on to pc with t and the body it has.                             *)
GoesOn(c, pc, t) ==
    /\ client'[c].pc = pc
    /\ client'[c].task = t
    /\ client'[c].body = client[c].body

(* The lookup, or an insert that is lost.                                  *)
Looks(c) ==
    /\ client[c].task = NoTask
    /\ LetsGo(c)
    /\ UNCHANGED <<events, ready, scheduled, faulted, keys, keyOf>>

(* The lookup found no live key: c goes on, and a rival is remembered.     *)
LooksUp(c) ==
    LET k == client'[c].body.key IN
    /\ client'[c].pc = "save"
    /\ client'[c].body \in Requests
    /\ ~Sub!GetIdempotencyKey(k)
    /\ raced' = IF Sub!Rivals(c, k) = {} THEN raced ELSE raced \cup {k}
    /\ UNCHANGED <<keys, keyOf>>

(* SaveProcessedEvent inserts t.                                           *)
Saves(c, t) ==
    LET b == client[c].body IN
    /\ client[c].pc = "save"
    /\ b \in Requests
    /\ ~Exists(events, t)
    /\ events' = InsertEvent(events, t, NewRow(b.step, NoTask, b.next))
    /\ keyOf' = [keyOf EXCEPT ![t] = b.key]
    /\ \/ GoesOn(c, "record", t) /\ faulted' = faulted
       \/ LetsGo(c) /\ faulted' = faulted \cup {t}
    /\ UNCHANGED <<ready, scheduled, keys>>

(* CheckAndRecordToDB on the key of t.                                     *)
Records(c, t) ==
    /\ client[c].pc = "record"
    /\ client[c].task = t
    /\ client[c].body \in Requests
    /\ keys' = keys \/ keys' = Sub!CreateIdempotencyKey(client[c].body.key, t)
    /\ \/ /\ keys' = Sub!CreateIdempotencyKey(client[c].body.key, t)
          /\ GoesOn(c, "enqueue", t)
          /\ faulted' = faulted
       \/ LetsGo(c) /\ faulted' = faulted \cup {t}
    /\ UNCHANGED <<events, ready, scheduled, keyOf>>

(* t is put into its list, or into the schedule when it has an execute_at. *)
Queues(t) ==
    \/ /\ events[t].executeAt
       /\ scheduled' = scheduled \cup {<<t, events[t].priority>>}
       /\ ready' = ready
    \/ /\ ~events[t].executeAt
       /\ ready' = EnqueueWithPriority(ready, t, events[t].priority)
       /\ scheduled' = scheduled

Pushes(c, t) ==
    /\ client[c].pc = "enqueue"
    /\ client[c].task = t
    /\ \/ Queues(t) /\ LetsGo(c) /\ faulted' = faulted
       \/ /\ Queues(t) \/ UNCHANGED <<ready, scheduled>>
          /\ GoesOn(c, "markFailed", t)
          /\ faulted' = faulted \cup {t}
    /\ UNCHANGED <<events, keys, keyOf>>

(* The queue's error is written to the row of t.                           *)
Fails(c, t) ==
    /\ client[c].pc = "markFailed"
    /\ client[c].task = t
    /\ events' = events \/ events' = UpdateEventStatus(events, t, "failed")
    /\ LetsGo(c)
    /\ faulted' = faulted \/ faulted' = faulted \cup {t}
    /\ UNCHANGED <<ready, scheduled, keys, keyOf>>

(* A client between requests is sound.                                     *)
LEMMA IdleClient ==
    Sub!Idle \in SoundClient /\ Sub!Idle.task = NoTask /\ Sub!Idle.pc = "idle"
  BY DEF Sub!Idle, SoundClient, Sub!ClientPC

(* A client past its lookup has a request, and past saving it a task.      *)
LEMMA ClientHolds ==
    ASSUME ClientType, NEW c \in Clients
    PROVE  /\ client[c] \in SoundClient
           /\ client[c].pc # "idle" => client[c].body \in Requests
           /\ client[c].pc \in {"record", "enqueue", "markFailed"} =>
                 client[c].task \in Tasks
           /\ client[c].task \in Tasks \cup {NoTask}
           /\ client[c].task # NoTask => client[c].body \in Requests
  BY DEF ClientType, SoundClient

(* A move of one client keeps the clients sound.                           *)
LEMMA ClientMoves ==
    ASSUME ClientType, NEW c \in Clients, NEW s \in SoundClient,
           client' = [client EXCEPT ![c] = s]
    PROVE  /\ client' \in [Clients -> SoundClient]
           /\ client'[c] = s
           /\ OthersStay(c)
  BY DEF ClientType, OthersStay

(* The sound states a client goes on to.                                   *)
LEMMA ClientGoesOn ==
    ASSUME ClientType, NEW c \in Clients, NEW t \in Tasks,
           NEW pc \in {"record", "enqueue", "markFailed"},
           client[c].pc # "idle",
           \/ /\ client[c].pc = "save"
              /\ client' = [client EXCEPT ![c] =
                              [client[c] EXCEPT !.pc = pc, !.task = t]]
           \/ /\ client[c].task = t
              /\ client' = [client EXCEPT ![c] = [client[c] EXCEPT !.pc = pc]]
    PROVE  /\ client' \in [Clients -> SoundClient]
           /\ OthersStay(c)
           /\ GoesOn(c, pc, t)
  <1>1. /\ client[c] \in [pc : Sub!ClientPC, task : Tasks \cup {NoTask},
                          body : Requests \cup {Sub!NoBody}]
        /\ client[c].body \in Requests
    BY DEF ClientType, SoundClient
  <1>2. PICK s : /\ s \in [pc : Sub!ClientPC, task : Tasks \cup {NoTask},
                           body : Requests \cup {Sub!NoBody}]
                 /\ s.pc = pc /\ s.task = t /\ s.body = client[c].body
                 /\ client' = [client EXCEPT ![c] = s]
    <2>1. CASE client' = [client EXCEPT ![c] =
                            [client[c] EXCEPT !.pc = pc, !.task = t]]
      <3> DEFINE s == [client[c] EXCEPT !.pc = pc, !.task = t]
      <3>1. /\ s \in [pc : Sub!ClientPC, task : Tasks \cup {NoTask},
                      body : Requests \cup {Sub!NoBody}]
            /\ s.pc = pc /\ s.task = t /\ s.body = client[c].body
        BY <1>1 DEF Sub!ClientPC
      <3> QED
        BY <2>1, <3>1
    <2>2. CASE /\ client[c].task = t
               /\ client' = [client EXCEPT ![c] = [client[c] EXCEPT !.pc = pc]]
      <3> DEFINE s == [client[c] EXCEPT !.pc = pc]
      <3>1. /\ s \in [pc : Sub!ClientPC, task : Tasks \cup {NoTask},
                      body : Requests \cup {Sub!NoBody}]
            /\ s.pc = pc /\ s.task = t /\ s.body = client[c].body
        BY <1>1, <2>2 DEF Sub!ClientPC
      <3> QED
        BY <2>2, <3>1
    <2> QED
      BY <2>1, <2>2
  <1>3. s \in SoundClient
    BY <1>1, <1>2, NoTaskAssumption DEF SoundClient
  <1> QED
    BY <1>2, <1>3, ClientMoves DEF GoesOn

(* A request that ends leaves a client between requests.                   *)
LEMMA ClientEnds ==
    ASSUME ClientType, NEW c \in Clients,
           client' = [client EXCEPT ![c] = Sub!Idle]
    PROVE  /\ client' \in [Clients -> SoundClient]
           /\ OthersStay(c)
           /\ LetsGo(c)
           /\ client'[c].pc # "save"
  BY IdleClient, ClientMoves DEF LetsGo

(* All that a step of request c can do.                                    *)
SubmitChange(c) ==
    /\ client' \in [Clients -> SoundClient]
    /\ OthersStay(c)
    /\ \/ Looks(c)
       \/ \E t \in Tasks : Saves(c, t) \/ Records(c, t) \/ Pushes(c, t) \/ Fails(c, t)
    /\ LooksUp(c) \/ (client'[c].pc # "save" /\ raced' = raced)
    /\ UNCHANGED lifecycleVars

(* Every step of a request is one of the changes above.                    *)
LEMMA SubmitEffect ==
    ASSUME ClientType, Submit
    PROVE  \E c \in Clients : SubmitChange(c)
  <1>0. UNCHANGED lifecycleVars
    BY DEF Submit
  <1>1. ASSUME NEW c \in Clients, NEW b \in Requests, Sub!HandleCreateTask(c, b)
        PROVE  SubmitChange(c)
    <2> DEFINE s == [pc |-> "save", task |-> NoTask, body |-> b]
    <2>1. s \in SoundClient /\ s.task = NoTask
      BY DEF SoundClient, Sub!ClientPC
    <2>2. /\ client[c].pc = "idle"
          /\ client' = [client EXCEPT ![c] = s]
          /\ UNCHANGED <<events, ready, scheduled, faulted, keys, keyOf>>
      BY <1>1 DEF Sub!HandleCreateTask
    <2>3. client[c].task = NoTask
      BY <2>2 DEF ClientType, SoundClient
    <2>4. s.pc = "save" /\ s.body = b
      OBVIOUS
    <2> HIDE DEF s
    <2>5. /\ client' \in [Clients -> SoundClient]
          /\ client'[c] = s
          /\ OthersStay(c)
      BY <2>1, <2>2, ClientMoves
    <2>6. LooksUp(c)
      BY <1>1, <2>2, <2>4, <2>5 DEF LooksUp, Sub!HandleCreateTask
    <2> QED
      BY <1>0, <2>1, <2>2, <2>3, <2>5, <2>6 DEF SubmitChange, Looks, LetsGo
  <1>2. ASSUME NEW c \in Clients, NEW t \in Tasks, NEW r \in Sub!Outcome,
               Sub!SaveEvent(c, t, r)
        PROVE  SubmitChange(c)
    <2>1. /\ client[c].pc = "save"
          /\ client[c].task = NoTask
          /\ client[c].body \in Requests
          /\ ~Exists(events, t)
          /\ UNCHANGED <<ready, scheduled, keys, raced>>
      BY <1>2 DEF Sub!SaveEvent, Sub!Exists, Exists, ClientType, SoundClient
    <2>2. r # "lost" =>
            /\ events' = InsertEvent(events, t,
                            NewRow(client[c].body.step, NoTask, client[c].body.next))
            /\ keyOf' = [keyOf EXCEPT ![t] = client[c].body.key]
            /\ Sub!Hit(r, t)
      BY <1>2 DEF Sub!SaveEvent, Sub!After, Sub!InsertEvent, Sub!NewRow,
                  InsertEvent, NewRow
    <2>3. CASE r = "ok"
      <3>1. client' = [client EXCEPT ![c] =
                         [client[c] EXCEPT !.pc = "record", !.task = t]]
        BY <1>2, <2>3 DEF Sub!SaveEvent
      <3> QED
        BY <1>0, <2>1, <2>2, <2>3, <3>1, ClientGoesOn
           DEF SubmitChange, Saves, GoesOn, Sub!Hit
    <2>4. CASE r = "unack"
      <3>1. client' = [client EXCEPT ![c] = Sub!Idle]
        BY <1>2, <2>4 DEF Sub!SaveEvent
      <3> QED
        BY <1>0, <2>1, <2>2, <2>4, <3>1, ClientEnds DEF SubmitChange, Saves, Sub!Hit
    <2>5. CASE r = "lost"
      <3>1. /\ client' = [client EXCEPT ![c] = Sub!Idle]
            /\ UNCHANGED <<events, faulted, keyOf>>
        BY <1>2, <2>5 DEF Sub!SaveEvent, Sub!After
      <3> QED
        BY <1>0, <2>1, <3>1, ClientEnds DEF SubmitChange, Looks
    <2> QED
      BY <2>3, <2>4, <2>5 DEF Sub!Outcome
  <1>3. ASSUME NEW c \in Clients, NEW r \in Sub!Outcome, Sub!RecordKey(c, r)
        PROVE  SubmitChange(c)
    <2>1. PICK t \in Tasks : t = client[c].task
      BY <1>3, ClientHolds DEF Sub!RecordKey
    <2>2. /\ client[c].pc = "record"
          /\ client[c].body \in Requests
          /\ keys' = Sub!After(r, keys, Sub!CreateIdempotencyKey(client[c].body.key, t))
          /\ Sub!Hit(r, t)
          /\ UNCHANGED <<events, ready, scheduled, keyOf, raced>>
      BY <1>3, <2>1, ClientHolds DEF Sub!RecordKey
    <2>3. CASE r = "ok"
      <3>1. client' = [client EXCEPT ![c] = [client[c] EXCEPT !.pc = "enqueue"]]
        BY <1>3, <2>3 DEF Sub!RecordKey, Sub!Proceed
      <3> QED
        BY <1>0, <2>1, <2>2, <2>3, <3>1, ClientGoesOn
           DEF SubmitChange, Records, GoesOn, Sub!Hit, Sub!After
    <2>4. CASE r # "ok"
      <3>1. client' = [client EXCEPT ![c] = Sub!Idle]
        BY <1>3, <2>4 DEF Sub!RecordKey, Sub!Proceed
      <3> QED
        BY <1>0, <2>1, <2>2, <2>4, <3>1, ClientEnds
           DEF SubmitChange, Records, Sub!Hit, Sub!After
    <2> QED
      BY <2>3, <2>4
  <1>4. ASSUME NEW c \in Clients, NEW r \in Sub!Outcome, Sub!EnqueueTask(c, r)
        PROVE  SubmitChange(c)
    <2>1. PICK t \in Tasks : t = client[c].task
      BY <1>4, ClientHolds DEF Sub!EnqueueTask
    <2>2. /\ client[c].pc = "enqueue"
          /\ Sub!Hit(r, t)
          /\ UNCHANGED <<events, keys, keyOf, raced>>
      BY <1>4, <2>1 DEF Sub!EnqueueTask
    <2>3. /\ r # "lost" => Queues(t)
          /\ r = "lost" => UNCHANGED <<ready, scheduled>>
      BY <1>4, <2>1 DEF Sub!EnqueueTask, Sub!After, Sub!Schedule, Queues,
                        Sub!EnqueueWithPriority, Sub!Level, Sub!Priorities,
                        EnqueueWithPriority, Level, Priorities
    <2>4. CASE r = "ok"
      <3>1. client' = [client EXCEPT ![c] = Sub!Idle]
        BY <1>4, <2>4 DEF Sub!EnqueueTask
      <3> QED
        BY <1>0, <2>1, <2>2, <2>3, <2>4, <3>1, ClientEnds
           DEF SubmitChange, Pushes, Sub!Hit
    <2>5. CASE r # "ok"
      <3>1. client' = [client EXCEPT ![c] = [client[c] EXCEPT !.pc = "markFailed"]]
        BY <1>4, <2>5 DEF Sub!EnqueueTask
      <3> QED
        BY <1>0, <2>1, <2>2, <2>3, <2>5, <3>1, ClientGoesOn
           DEF SubmitChange, Pushes, GoesOn, Sub!Hit
    <2> QED
      BY <2>4, <2>5
  <1>5. ASSUME NEW c \in Clients, NEW r \in Sub!Outcome, Sub!MarkFailed(c, r)
        PROVE  SubmitChange(c)
    <2>1. PICK t \in Tasks : t = client[c].task
      BY <1>5, ClientHolds DEF Sub!MarkFailed
    <2>2. /\ client[c].pc = "markFailed"
          /\ events' = events \/ events' = UpdateEventStatus(events, t, "failed")
          /\ Sub!Hit(r, t)
          /\ client' = [client EXCEPT ![c] = Sub!Idle]
          /\ UNCHANGED <<ready, scheduled, keys, keyOf, raced>>
      BY <1>5, <2>1 DEF Sub!MarkFailed, Sub!After, Sub!UpdateEventStatus,
                        UpdateEventStatus
    <2> QED
      BY <1>0, <2>1, <2>2, ClientEnds DEF SubmitChange, Fails, Sub!Hit
  <1> QED
    BY <1>1, <1>2, <1>3, <1>4, <1>5 DEF Submit, Sub!ClientStep

-----------------------------------------------------------------------------
(* Steps of the process and crashes.                                       *)

(* A step of workers, operators, the scheduler or time is one of           *)
(* TaskLifecycle and leaves the requests in flight alone.                  *)
LEMMA ProcessIsNext == Process => Next /\ UNCHANGED submissionVars
  BY DEF Process, Next

(* After a crash nobody holds anything, and what was held is faulted.      *)
AllDropped ==
    /\ \A w \in Workers : worker'[w] = Idle
    /\ \A a \in Admins : request'[a] = NoRequest
    /\ client' \in [Clients -> SoundClient]
    /\ \A c \in Clients : client'[c].task = NoTask /\ client'[c].pc = "idle"
    /\ worker' \in [Workers -> SoundWorker]
    /\ request' \in [Admins -> SoundRequest]
    /\ faulted \subseteq faulted'
    /\ faulted' \subseteq Tasks
    /\ \A t \in Tasks : HeldByWorker(t) \/ HeldByRequest(t) \/ HeldByClient(t) =>
          t \in faulted'
    /\ UNCHANGED <<events, logs, ready, scheduled, dlq, due, reissued, removed,
                   keys, keyOf, raced>>

(* A crash drops everything that anybody holds.                            *)
LEMMA CrashEffect ==
    ASSUME TypeInv, ProcessCrash
    PROVE  AllDropped
  <1> DEFINE held == {t \in Tasks : \/ HeldByWorker(t)
                                   \/ HeldByRequest(t)
                                   \/ HeldByClient(t)}
  <1>1. /\ faulted' = faulted \cup held
        /\ worker' = [w \in Workers |-> Idle]
        /\ request' = [a \in Admins |-> NoRequest]
        /\ client' = [c \in Clients |-> Sub!Idle]
        /\ UNCHANGED <<events, logs, ready, scheduled, dlq, due, reissued,
                       removed, keys, keyOf, raced>>
    BY DEF ProcessCrash, queue
  <1>2. faulted' \subseteq Tasks
    BY <1>1 DEF TypeInv
  <1> QED
    BY <1>1, <1>2, AtRest, IdleClient DEF AllDropped

(* Nothing is held after a crash.                                          *)
LEMMA DroppedIsFree ==
    ASSUME AllDropped, NEW t \in Tasks
    PROVE  /\ ~HeldByWorker(t)' /\ ~HeldByRequest(t)' /\ ~HeldByClient(t)'
           /\ \A w \in Workers : ~Undecided(w, t)' /\ ~Executing(w, t)'
  BY NoTaskAssumption DEF AllDropped, HeldByWorker, HeldByRequest, HeldByClient,
                          Undecided, Executing, Idle, NoRequest

-----------------------------------------------------------------------------
(* Types.                                                                  *)

(* What a submitted body holds.                                            *)
LEMMA BodyTypes ==
    ASSUME NEW b \in Requests
    PROVE  /\ b.key \in Keys
           /\ b.next \in Seq(Step)
           /\ NewRow(b.step, NoTask, b.next) \in Row
  <1>1. b \in [key : Keys, next : Seq(Step),
               step : [priority : RequestPriority, executeAt : BOOLEAN]]
    BY PlatformAssumption
  <1>2. b.step \in Step
    BY <1>1 DEF Step, PriorityColumn, RequestPriority
  <1> QED
    BY <1>1, <1>2, NewRowType

(* A step of a request keeps the types.                                    *)
LEMMA SubmitType ==
    ASSUME TypeInv, ClientType, NEW c \in Clients, SubmitChange(c)
    PROVE  TypeInv' /\ ClientType'
  <1>0. /\ client' \in [Clients -> SoundClient]
        /\ UNCHANGED <<logs, dlq, worker, request, due, reissued, removed>>
    BY DEF SubmitChange, lifecycleVars
  <1> DEFINE Typed ==
                /\ events' \in [Tasks -> Row]
                /\ ready' \in Ready /\ scheduled' \subseteq Scheduled
                /\ faulted' \subseteq Tasks
                /\ keys' \in [Keys -> [event : Tasks \cup {NoTask},
                                       live : BOOLEAN]]
                /\ keyOf' \in [Tasks -> Keys \cup {NoKey}]
  <1> SUFFICES Typed
    BY <1>0 DEF TypeInv, ClientType
  <1>1. CASE Looks(c)
    BY <1>1 DEF Looks, TypeInv, ClientType
  <1>2. ASSUME NEW t \in Tasks, Saves(c, t)
        PROVE  Typed
    <2>1. /\ client[c].body.key \in Keys
          /\ NewRow(client[c].body.step, NoTask, client[c].body.next) \in Row
      BY <1>2, BodyTypes DEF Saves
    <2>2. events' \in [Tasks -> Row]
      BY <1>2, <2>1, RowTypes DEF Saves, TypeInv
    <2> QED
      BY <1>2, <2>1, <2>2 DEF Saves, TypeInv, ClientType
  <1>3. ASSUME NEW t \in Tasks, Records(c, t)
        PROVE  Typed
    <2>1. client[c].body.key \in Keys
      BY <1>3, BodyTypes DEF Records
    <2>2. Sub!CreateIdempotencyKey(client[c].body.key, t)
            \in [Keys -> [event : Tasks \cup {NoTask}, live : BOOLEAN]]
      BY <2>1 DEF Sub!CreateIdempotencyKey, ClientType
    <2> QED
      BY <1>3, <2>2 DEF Records, TypeInv, ClientType
  <1>4. ASSUME NEW t \in Tasks, Pushes(c, t)
        PROVE  Typed
    <2>1. events[t].priority \in PriorityColumn
      BY DEF TypeInv, Row
    <2>2. EnqueueWithPriority(ready, t, events[t].priority) \in Ready
      BY <2>1, ReadyTypes DEF TypeInv
    <2>3. <<t, events[t].priority>> \in Scheduled
      BY <2>1 DEF Scheduled
    <2> QED
      BY <1>4, <2>2, <2>3 DEF Pushes, Queues, TypeInv, ClientType
  <1>5. ASSUME NEW t \in Tasks, Fails(c, t)
        PROVE  Typed
    <2>1. UpdateEventStatus(events, t, "failed") \in [Tasks -> Row]
      BY RowTypes DEF TypeInv, Status
    <2> QED
      BY <1>5, <2>1 DEF Fails, TypeInv, ClientType
  <1> QED
    BY <1>1, <1>2, <1>3, <1>4, <1>5 DEF SubmitChange

(* A crash keeps the types.                                                *)
LEMMA CrashType ==
    ASSUME TypeInv, ClientType, AllDropped
    PROVE  TypeInv' /\ ClientType'
  BY DEF TypeInv, ClientType, AllDropped

-----------------------------------------------------------------------------
(* Rows and ids.                                                           *)

(* The row a request inserts: a pending root, and no other row changes.    *)
LEMMA SavedRow ==
    ASSUME TypeInv, NEW c \in Clients, NEW t \in Tasks, Saves(c, t)
    PROVE  /\ ~Exists(events, t) /\ Exists(events', t)
           /\ events'[t].status = "pending"
           /\ events'[t].parent = NoTask
           /\ events'[t].next = client[c].body.next
           /\ events'[t].result = FALSE
           /\ \A u \in Tasks \ {t} : events'[u] = events[u]
  <1>1. events'[t] = NewRow(client[c].body.step, NoTask, client[c].body.next)
    BY DEF Saves, InsertEvent, TypeInv
  <1>2. \A u \in Tasks \ {t} : events'[u] = events[u]
    BY DEF Saves, InsertEvent, TypeInv
  <1>3. ~Exists(events, t)
    BY DEF Saves
  <1>4. /\ events'[t].status = "pending" /\ events'[t].parent = NoTask
        /\ events'[t].next = client[c].body.next /\ events'[t].result = FALSE
    BY <1>1 DEF NewRow
  <1> QED
    BY <1>2, <1>3, <1>4 DEF Exists

(* How a step of request c changes rows: existing ones last, and only the  *)
(* task of a failed push changes its status.                               *)
LEMMA SubmitRows ==
    ASSUME TypeInv, ClientType, NEW c \in Clients, SubmitChange(c),
           ClientOwns(c), NEW t \in Tasks
    PROVE  /\ Exists(events, t) =>
                 /\ Lasts(t)
                 /\ events'[t].result = events[t].result
                 /\ \/ events'[t] = events[t]
                    \/ /\ events'[t].status = "failed"
                       /\ t \in faulted
                       /\ client[c].task = t
           /\ ~Exists(events, t) => events'[t] = events[t] \/ Saves(c, t)
  <1>1. CASE events' = events
    BY <1>1 DEF Lasts
  <1>2. ASSUME NEW u \in Tasks, Saves(c, u)
        PROVE  /\ Exists(events, t) => Lasts(t) /\ events'[t] = events[t]
               /\ ~Exists(events, t) => events'[t] = events[t] \/ Saves(c, t)
    <2>1. CASE t = u
      BY <1>2, <2>1, SavedRow
    <2>2. CASE t # u
      <3>1. events'[t] = events[t]
        BY <1>2, <2>2, SavedRow
      <3> QED
        BY <3>1 DEF Lasts, Exists
    <2> QED
      BY <2>1, <2>2
  <1>3. ASSUME NEW u \in Tasks, Fails(c, u),
               events' = UpdateEventStatus(events, u, "failed")
        PROVE  /\ Exists(events, t) =>
                     /\ Lasts(t)
                     /\ events'[t].result = events[t].result
                     /\ \/ events'[t] = events[t]
                        \/ /\ events'[t].status = "failed"
                           /\ t \in faulted
                           /\ client[c].task = t
               /\ ~Exists(events, t) => events'[t] = events[t]
    <2>1. client[c].task = u /\ Exists(events, u) /\ u \in faulted
      BY <1>3, NoTaskAssumption DEF Fails, ClientOwns
    <2>2. CASE t = u
      <3>1. events'[t] = [events[t] EXCEPT !.status = "failed"] /\ events[t] \in Row
        BY <1>3, <2>2 DEF UpdateEventStatus, TypeInv
      <3>2. /\ events'[t].status = "failed" /\ Lasts(t)
            /\ events'[t].result = events[t].result
        BY <3>1 DEF Lasts, Exists, Row
      <3> QED
        BY <2>1, <2>2, <3>2
    <2>3. CASE t # u
      <3>1. events'[t] = events[t]
        BY <1>3, <2>3 DEF UpdateEventStatus, TypeInv
      <3> QED
        BY <3>1 DEF Lasts, Exists
    <2> QED
      BY <2>2, <2>3
  <1> QED
    BY <1>1, <1>2, <1>3 DEF SubmitChange, Looks, Records, Pushes, Fails

(* How it changes the places of t.                                         *)
LEMMA SubmitPlaces ==
    ASSUME TypeInv, ClientType, NEW c \in Clients, SubmitChange(c),
           NEW t \in Tasks
    PROVE  \/ Pushes(c, t) /\ Queues(t)
           \/ /\ \A p \in Priorities : ready'[p][t] = ready[p][t]
              /\ \A p \in PriorityColumn : <<t, p>> \in scheduled' <=>
                                           <<t, p>> \in scheduled
  <1>1. CASE UNCHANGED <<ready, scheduled>>
    BY <1>1
  <1>2. ASSUME NEW u \in Tasks, u # t, Queues(u)
        PROVE  /\ \A p \in Priorities : ready'[p][t] = ready[p][t]
               /\ \A p \in PriorityColumn : <<t, p>> \in scheduled' <=>
                                            <<t, p>> \in scheduled
    <2>1. events[u].priority \in PriorityColumn
      BY DEF TypeInv, Row
    <2>2. CASE ready' = EnqueueWithPriority(ready, u, events[u].priority)
               /\ scheduled' = scheduled
      BY <1>2, <2>1, <2>2, PushEntries
    <2>3. CASE scheduled' = scheduled \cup {<<u, events[u].priority>>}
               /\ ready' = ready
      BY <1>2, <2>3
    <2> QED
      BY <1>2, <2>2, <2>3 DEF Queues
  <1>3. ASSUME NEW u \in Tasks, Pushes(c, u), Queues(u)
        PROVE  \/ Pushes(c, t) /\ Queues(t)
               \/ /\ \A p \in Priorities : ready'[p][t] = ready[p][t]
                  /\ \A p \in PriorityColumn : <<t, p>> \in scheduled' <=>
                                               <<t, p>> \in scheduled
    BY <1>2, <1>3
  <1> QED
    BY <1>1, <1>3 DEF SubmitChange, Looks, Saves, Records, Pushes, Fails

(* What a request pushes is in a list or on the schedule, not in both.     *)
LEMMA QueuedIn ==
    ASSUME TypeInv, NEW t \in Tasks, Queues(t)
    PROVE  \/ /\ events[t].executeAt
              /\ ready' = ready
              /\ OnSchedule(scheduled', t)
              /\ \A p \in PriorityColumn :
                    <<t, p>> \in scheduled' =>
                       <<t, p>> \in scheduled \/ p = events[t].priority
           \/ /\ ~events[t].executeAt
              /\ GainsEntry(t)
              /\ Queued(ready', t)
              /\ scheduled' = scheduled
  <1>1. events[t].priority \in PriorityColumn
    BY DEF TypeInv, Row
  <1>2. CASE events[t].executeAt
    BY <1>1, <1>2 DEF Queues, OnSchedule
  <1>3. CASE ~events[t].executeAt
    <2>1. ready' = EnqueueWithPriority(ready, t, events[t].priority)
          /\ scheduled' = scheduled
      BY <1>3 DEF Queues
    <2> QED
      BY <1>1, <1>3, <2>1, PushEntries, PushKeeps DEF TypeInv
  <1> QED
    BY <1>2, <1>3

(* The next step of an existing task stays saved as long as rows last.     *)
LEMMA NextLasts ==
    ASSUME \A u \in Tasks : Exists(events, u) => Lasts(u),
           NEW t \in Tasks, Exists(events, t), NextSaved(t)
    PROVE  NextSaved(t)'
  <1>1. /\ events'[t].next = events[t].next
        /\ RootTaskID(events', t) = RootTaskID(events, t)
    BY DEF Lasts, RootTaskID
  <1>2. CASE events[t].next = << >>
    BY <1>1, <1>2 DEF NextSaved
  <1>3. ASSUME NEW c \in Tasks, Exists(events, c),
               events[c].parent = RootTaskID(events, t),
               events[c].next = Tail(events[t].next)
        PROVE  NextSaved(t)'
    <2>1. /\ Exists(events', c)
          /\ events'[c].parent = RootTaskID(events', t)
          /\ events'[c].next = Tail(events'[t].next)
      BY <1>1, <1>3 DEF Lasts
    <2> QED
      BY <2>1 DEF NextSaved
  <1> QED
    BY <1>2, <1>3 DEF NextSaved

(* A request that inserts, queues or fails its task keeps the rows sound.  *)
LEMMA SubmitKeepsRows ==
    ASSUME TypeInv, ClientType, RowsInv, NEW c \in Clients, SubmitChange(c),
           ClientOwns(c)
    PROVE  RowsInv'
  <1>0. /\ UNCHANGED <<dlq, worker, request>>
        /\ AbsentRows /\ NoDanglingIds /\ ResultStored /\ NextStepSaved
        /\ ProcessedHasResult /\ ChildUnderFinishedRoot
        /\ ProcessedNext /\ ChildIsChained
    BY DEF SubmitChange, lifecycleVars, RowsInv, RowInv
  <1>1. \A t \in Tasks : Exists(events, t) => Lasts(t)
    BY SubmitRows
  <1>2. \A t \in Tasks :
           Exists(events, t) =>
              events'[t] = events[t] \/ events'[t].status = "failed"
    BY SubmitRows
  <1>3. \A t \in Tasks :
           ~Exists(events, t) =>
              \/ events'[t] = events[t]
              \/ /\ events'[t].status = "pending"
                 /\ events'[t].parent = NoTask
    BY SubmitRows, SavedRow
  <1>4. \A t \in Tasks :
           /\ Exists(events, t) => events'[t].parent = events[t].parent
           /\ ~Exists(events, t) => events[t].parent = NoTask
           /\ events'[t].parent = events[t].parent
    BY <1>0, <1>1, <1>3 DEF Lasts, AbsentRows, Absent
  <1>5. AbsentRows'
    BY <1>0, <1>1, <1>3 DEF AbsentRows, Lasts, Exists
  <1>6. NoDanglingIds'
    <2> SUFFICES ASSUME NEW t \in Tasks, ~Exists(events', t)
                 PROVE  ~(\/ Queued(ready', t)
                          \/ OnSchedule(scheduled', t)
                          \/ t \in dlq'
                          \/ HeldByWorker(t)'
                          \/ HeldByRequest(t)'
                          \/ \E u \in Tasks : events'[u].parent = t)
      BY DEF NoDanglingIds
    <2>1. ~Exists(events, t)
      BY <1>1 DEF Lasts
    <2>2. ~(\/ Queued(ready, t) \/ OnSchedule(scheduled, t) \/ t \in dlq
            \/ HeldByWorker(t) \/ HeldByRequest(t)
            \/ \E u \in Tasks : events[u].parent = t)
      BY <1>0, <2>1 DEF NoDanglingIds
    <2>3. ~Pushes(c, t)
      BY <2>1, NoTaskAssumption DEF Pushes, ClientOwns
    <2>4. ~Queued(ready', t) /\ ~OnSchedule(scheduled', t)
      BY <2>2, <2>3, SubmitPlaces DEF Queued, OnSchedule
    <2> QED
      BY <1>0, <1>4, <2>2, <2>4 DEF HeldByWorker, HeldByRequest
  <1>7. ASSUME NEW w \in Workers, worker[w].pc # "idle"
        PROVE  worker[w].task \in Tasks /\ Exists(events, worker[w].task)
    BY <1>0, <1>7, Holds DEF NoDanglingIds, HeldByWorker
  <1>8. ResultStored'
    BY <1>0, <1>1, <1>7 DEF ResultStored, Lasts
  <1>9. NextStepSaved'
    <2> SUFFICES ASSUME NEW w \in Workers,
                        worker[w].pc \in {"enqueueNext", "succeed"}
                 PROVE  NextSaved(worker[w].task)'
      BY <1>0 DEF NextStepSaved
    <2>1. PICK t \in Tasks : t = worker[w].task
      BY <1>7
    <2>2. NextSaved(t)'
      BY <1>0, <1>1, <1>7, <2>1, NextLasts DEF NextStepSaved
    <2> QED
      BY <1>0, <2>1, <2>2
  <1>10. ProcessedHasResult'
    BY <1>0, <1>2, <1>3 DEF ProcessedHasResult
  <1>11. ChildUnderFinishedRoot'
    <2> SUFFICES ASSUME NEW t \in Tasks, events'[t].parent # NoTask
                 PROVE  /\ events'[events'[t].parent].parent = NoTask
                        /\ events'[events'[t].parent].result
      BY DEF ChildUnderFinishedRoot
    <2>1. PICK root \in Tasks : root = events[t].parent
      BY <1>4 DEF TypeInv, Row
    <2>2. Exists(events, root) /\ events[root].parent = NoTask /\ events[root].result
      BY <1>0, <1>4, <2>1 DEF NoDanglingIds, ChildUnderFinishedRoot
    <2> QED
      BY <1>1, <1>4, <2>1, <2>2 DEF Lasts
  <1>12. ProcessedNext'
    <2> SUFFICES ASSUME NEW t \in Tasks, events'[t].status = "processed"
                 PROVE  NextSaved(t)'
      BY DEF ProcessedNext
    <2>1. Exists(events, t) /\ events[t].status = "processed"
      BY <1>0, <1>2, <1>3 DEF Exists
    <2> QED
      BY <1>0, <1>1, <2>1, NextLasts DEF ProcessedNext
  <1>13. ChildIsChained'
    <2> SUFFICES ASSUME NEW w \in Workers, worker[w].child # NoTask
                 PROVE  events'[worker[w].child].parent # NoTask
      BY <1>0 DEF ChildIsChained
    <2>1. worker[w].child \in Tasks
      BY DEF TypeInv, SoundWorker, WorkerState
    <2> QED
      BY <1>0, <1>4, <2>1 DEF ChildIsChained
  <1> QED
    BY <1>5, <1>6, <1>8, <1>9, <1>10, <1>11, <1>12, <1>13 DEF RowsInv, RowInv

(* So does a crash, which leaves the tables and the queue as they are.     *)
LEMMA CrashKeepsRows ==
    ASSUME TypeInv, RowsInv, AllDropped
    PROVE  RowsInv'
  <1>0. /\ UNCHANGED <<events, ready, scheduled, dlq>>
        /\ \A w \in Workers : worker'[w] = Idle
        /\ \A t \in Tasks : ~HeldByWorker(t)' /\ ~HeldByRequest(t)'
    BY DroppedIsFree DEF AllDropped
  <1>1. AbsentRows' /\ ProcessedHasResult' /\ ChildUnderFinishedRoot'
    BY <1>0 DEF RowsInv, RowInv, AbsentRows, ProcessedHasResult,
                ChildUnderFinishedRoot
  <1>2. NoDanglingIds'
    BY <1>0 DEF RowsInv, RowInv, NoDanglingIds
  <1>3. ResultStored' /\ NextStepSaved' /\ ChildIsChained'
    BY <1>0 DEF Idle, ResultStored, NextStepSaved, ChildIsChained
  <1>4. ProcessedNext'
    BY <1>0 DEF RowsInv, ProcessedNext, NextSaved
  <1> QED
    BY <1>1, <1>2, <1>3, <1>4 DEF RowsInv, RowInv

(* And every step of the process: a row becomes processed only in the      *)
(* hands of a worker that has saved the next step, and a child is enqueued *)
(* by the worker that inserted it under its root.                          *)
LEMMA ProcessKeepsRows ==
    ASSUME TypeInv, RowsInv, [Next]_vars
    PROVE  RowsInv'
  <1>1. RowInv /\ RowInv'
    BY RowStep DEF RowsInv
  <1>2. \A t \in Tasks : Exists(events, t) => Lasts(t)
    BY <1>1, RowsLast DEF RowInv
  <1>3. ProcessedNext'
    <2> SUFFICES ASSUME NEW t \in Tasks, events'[t].status = "processed"
                 PROVE  NextSaved(t)'
      BY DEF ProcessedNext
    <2>1. Exists(events, t)
      BY <1>1, RowsLast, InsertedRow DEF RowInv, Exists
    <2>2. CASE events[t].status = "processed"
      BY <1>2, <2>1, <2>2, NextLasts DEF RowsInv, ProcessedNext
    <2>3. ASSUME NEW w \in Workers, worker[w].pc = "succeed", worker[w].task = t
          PROVE  NextSaved(t)'
      BY <1>1, <1>2, <2>1, <2>3, NextLasts DEF RowInv, NextStepSaved
    <2> QED
      BY <2>1, <2>2, <2>3, StatusEffect
  <1>4. ChildIsChained'
    <2> SUFFICES ASSUME NEW w \in Workers, NEW t \in Tasks, worker'[w].child = t
                 PROVE  events'[t].parent # NoTask
      BY TypeStep DEF ChildIsChained, TypeInv, SoundWorker, WorkerState
    <2>1. worker[w].child = t \/ Inserts(w, t)
      BY TaskFrom
    <2>2. CASE worker[w].child = t
      <3>1. Exists(events, t) /\ events[t].parent # NoTask
        BY <1>1, <2>2, NoTaskAssumption
           DEF RowsInv, ChildIsChained, RowInv, NoDanglingIds, HeldByWorker
      <3> QED
        BY <1>2, <3>1 DEF Lasts
    <2>3. CASE Inserts(w, t)
      <3>1. PICK root \in Tasks : root = RootTaskID(events, worker[w].task)
        BY <1>1, <2>3, InsertedRow
      <3>2. events'[t].parent = root
        BY <1>1, <2>3, <3>1, InsertedRow
      <3> QED
        BY <3>2, NoTaskAssumption
    <2> QED
      BY <2>1, <2>2, <2>3
  <1> QED
    BY <1>1, <1>3, <1>4 DEF RowsInv

-----------------------------------------------------------------------------
(* Plain tasks: one place, and a status and a log that agree with it.      *)

(* A step of a request forgets no fault and issues nothing again.          *)
LEMMA SubmitFaults ==
    ASSUME NEW c \in Clients, SubmitChange(c), NEW t \in Tasks
    PROVE  faulted \subseteq faulted' /\ (Plain(t)' => Plain(t))
  <1>1. faulted \subseteq faulted' /\ reissued' = reissued
    BY DEF SubmitChange, lifecycleVars, Looks, Saves, Records, Pushes, Fails
  <1> QED
    BY <1>1 DEF Plain

(* A request queues its plain task once, and it was nowhere before.        *)
LEMMA SubmitKeepsPlain ==
    ASSUME TypeInv, ClientType, RowInv, NEW c \in Clients, SubmitChange(c),
           ClientOwns(c), NEW t \in Tasks, PlainInv(t), Waits(t)
    PROVE  PlainInv(t)'
  <1> SUFFICES ASSUME Plain(t)'
               PROVE  OnePlace(t)' /\ StatusFits(t)' /\ LogFits(t)'
    BY DEF PlainInv
  <1>0. /\ UNCHANGED <<logs, dlq, worker, request>>
        /\ Plain(t) /\ t \notin faulted
        /\ OnePlace(t) /\ StatusFits(t) /\ LogFits(t)
    BY SubmitFaults DEF SubmitChange, lifecycleVars, PlainInv, Plain
  <1>1. HeldByWorker(t)' = HeldByWorker(t) /\ HeldByRequest(t)' = HeldByRequest(t)
    BY <1>0 DEF HeldByWorker, HeldByRequest
  <1>2. \A p \in Priorities : ready[p][t] \in Nat
    BY DEF TypeInv, Ready
  <1>3. CASE Pushes(c, t) /\ Queues(t)
    <2>1. events' = events /\ HeldByClient(t)
      BY <1>3 DEF Pushes, HeldByClient
    <2>2. /\ ~Active(t) /\ ~HeldByWorker(t) /\ t \notin dlq
          /\ events[t].status \in {"pending", "cancelled"}
      BY <1>0, <2>1 DEF Waits
    <2>3. ~Queued(ready, t) /\ ~OnSchedule(scheduled, t)
      BY <2>2 DEF Active
    <2>4. \A w \in Workers : worker'[w].task # t /\ worker'[w].child # t
      BY <1>0, <2>2 DEF HeldByWorker
    <2>5. OnePlace(t)'
      <3>1. CASE /\ ready' = ready
                 /\ \A p \in PriorityColumn :
                       <<t, p>> \in scheduled' =>
                          <<t, p>> \in scheduled \/ p = events[t].priority
        BY <1>0, <1>1, <2>2, <2>3, <2>4, <3>1
           DEF OnePlace, HasTask, Queued, OnSchedule
      <3>2. CASE GainsEntry(t) /\ scheduled' = scheduled
        <4>1. \A p \in Priorities : ready[p][t] = 0
          BY <1>2, <2>3 DEF Queued
        <4>2. PICK l \in Priorities :
                 /\ ready'[l][t] = 1
                 /\ \A p \in Priorities \ {l} : ready'[p][t] = 0
          BY <3>2, <4>1 DEF GainsEntry
        <4>3. /\ \A p \in Priorities : ready'[p][t] <= 1
              /\ \A p, q \in Priorities :
                    ready'[p][t] > 0 /\ ready'[q][t] > 0 => p = q
          BY <4>2
        <4> QED
          BY <1>0, <1>1, <2>2, <2>3, <2>4, <3>2, <4>3
             DEF OnePlace, HasTask, OnSchedule
      <3> QED
        BY <1>3, <3>1, <3>2, QueuedIn
    <2>6. StatusFits(t)' /\ LogFits(t)'
      BY <1>0, <2>1, <2>2, <2>4 DEF StatusFits, LogFits
    <2> QED
      BY <2>5, <2>6
  <1>4. CASE /\ \A p \in Priorities : ready'[p][t] = ready[p][t]
             /\ \A p \in PriorityColumn : <<t, p>> \in scheduled' <=>
                                          <<t, p>> \in scheduled
    <2>1. /\ Queued(ready', t) <=> Queued(ready, t)
          /\ OnSchedule(scheduled', t) <=> OnSchedule(scheduled, t)
      BY <1>4 DEF Queued, OnSchedule
    <2>2. OnePlace(t)'
      BY <1>0, <1>1, <1>4, <2>1 DEF OnePlace, HasTask
    <2>3. Active(t)' <=> Active(t)
      BY <1>0, <2>1 DEF Active, Undecided, Executing
    <2>4. CASE events'[t] = events[t]
      BY <1>0, <1>1, <2>2, <2>3, <2>4 DEF StatusFits, LogFits
    <2>5. CASE Saves(c, t)
      <3>1. events'[t].status = "pending" /\ ~Exists(events, t)
        BY <2>5, SavedRow
      <3>2. t \notin dlq /\ \A w \in Workers : worker[w].task # t
        BY <3>1 DEF RowInv, NoDanglingIds, HeldByWorker
      <3> QED
        BY <1>0, <2>2, <3>1, <3>2 DEF StatusFits, LogFits
    <2> QED
      BY <1>0, <2>4, <2>5, SubmitRows
  <1> QED
    BY <1>3, <1>4, SubmitPlaces

(* A plain task was in nobody's hands when the process crashed.            *)
LEMMA CrashKeepsPlain ==
    ASSUME AllDropped, NEW t \in Tasks, PlainInv(t)
    PROVE  PlainInv(t)'
  <1> SUFFICES ASSUME Plain(t)'
               PROVE  OnePlace(t)' /\ StatusFits(t)' /\ LogFits(t)'
    BY DEF PlainInv
  <1>1. /\ UNCHANGED <<events, logs, ready, scheduled, dlq, reissued>>
        /\ ~HeldByWorker(t) /\ t \notin faulted
    BY DEF AllDropped, Plain
  <1>2. OnePlace(t) /\ StatusFits(t) /\ LogFits(t)
    BY <1>1 DEF PlainInv, Plain
  <1>3. /\ ~HeldByWorker(t)' /\ ~HeldByRequest(t)'
        /\ \A w \in Workers : worker'[w].task # t /\ worker'[w].child # t
    BY DroppedIsFree DEF HeldByWorker
  <1>4. OnePlace(t)'
    BY <1>1, <1>2, <1>3 DEF OnePlace, HasTask
  <1>5. Active(t)' => Active(t)
    BY <1>1, <1>3 DEF Active, Undecided, Executing
  <1>6. StatusFits(t)'
    BY <1>1, <1>2, <1>3, <1>5 DEF StatusFits
  <1>7. LogFits(t)'
    BY <1>1, <1>2, <1>3 DEF LogFits
  <1> QED
    BY <1>4, <1>6, <1>7

(* A submitted task with an execute_at goes on the schedule, never into a  *)
(* list.                                                                   *)
LEMMA SubmitKeepsDue ==
    ASSUME TypeInv, ClientType, RowInv, NEW c \in Clients, SubmitChange(c),
           ClientOwns(c), NEW t \in Tasks, DueInv(t)
    PROVE  DueInv(t)'
  <1>1. UNCHANGED <<worker, request, due, reissued>>
    BY DEF SubmitChange, lifecycleVars
  <1>2. \A w \in Workers : Undecided(w, t)' => Undecided(w, t)
    BY <1>1 DEF Undecided, Executing
  <1>3. Queued(ready', t) => Queued(ready, t) \/ (Exists(events, t) /\ ~events[t].executeAt)
    <2>1. CASE Pushes(c, t) /\ Queues(t)
      <3>1. Exists(events, t)
        BY <2>1, NoTaskAssumption DEF Pushes, ClientOwns
      <3> QED
        BY <2>1, <3>1, QueuedIn
    <2>2. CASE \A p \in Priorities : ready'[p][t] = ready[p][t]
      BY <2>2 DEF Queued
    <2> QED
      BY <2>1, <2>2, SubmitPlaces
  <1>4. CASE Exists(events, t)
    <2>1. events'[t].executeAt = events[t].executeAt
      BY <1>4, SubmitRows DEF Lasts
    <2> QED
      BY <1>1, <1>2, <1>3, <2>1 DEF DueInv, HeldByRequest
  <1>5. CASE ~Exists(events, t)
    <2>1. ~Queued(ready, t) /\ ~HeldByWorker(t)
      BY <1>5 DEF RowInv, NoDanglingIds
    <2> QED
      BY <1>1, <1>2, <1>3, <1>5, <2>1
         DEF DueInv, HeldByRequest, HeldByWorker, Undecided, Executing
  <1> QED
    BY <1>4, <1>5

(* A crash touches neither queue nor clock.                                *)
LEMMA CrashKeepsDue ==
    ASSUME AllDropped, NEW t \in Tasks, DueInv(t)
    PROVE  DueInv(t)'
  <1>1. UNCHANGED <<events, ready, due, reissued>>
    BY DEF AllDropped
  <1> QED
    BY <1>1, DroppedIsFree DEF DueInv

-----------------------------------------------------------------------------
(* The requests in flight and their keys.                                  *)

(* The row of a key is never changed.                                      *)
LEMMA SubmitKeepsKeyRow ==
    ASSUME ClientType, NEW c \in Clients, SubmitChange(c),
           NEW k \in Keys, Sub!HasRow(k)
    PROVE  keys'[k] = keys[k]
  <1>1. ASSUME NEW u \in Tasks, Records(c, u), keys' # keys
        PROVE  keys'[k] = keys[k]
    <2>1. keys' = Sub!CreateIdempotencyKey(client[c].body.key, u)
      BY <1>1 DEF Records
    <2> QED
      BY <1>1, <2>1 DEF Sub!CreateIdempotencyKey, ClientType
  <1> QED
    BY <1>1 DEF SubmitChange, Looks, Saves, Records, Pushes, Fails

(* A recorded key stays recorded, and a row keeps its key.                 *)
LEMMA SubmitKeepsKey ==
    ASSUME TypeInv, ClientType, NEW c \in Clients, SubmitChange(c),
           NEW t \in Tasks, Exists(events, t)
    PROVE  /\ keyOf'[t] = keyOf[t]
           /\ KeyRecorded(t) => KeyRecorded(t)'
  <1>1. keyOf'[t] = keyOf[t]
    BY DEF SubmitChange, Looks, Saves, Records, Pushes, Fails, ClientType
  <1> QED
    BY <1>1, SubmitKeepsKeyRow DEF KeyRecorded, Sub!HasRow

(* CheckAndRecordToDB records the key of its task, or finds it recorded.   *)
LEMMA RecordsKey ==
    ASSUME ClientType, NEW c \in Clients, NEW t \in Tasks,
           client[c].body \in Requests, keyOf[t] = client[c].body.key,
           keys' = Sub!CreateIdempotencyKey(client[c].body.key, t),
           keyOf' = keyOf
    PROVE  KeyRecorded(t)'
  <1>1. PICK k \in Keys : k = client[c].body.key
    BY BodyTypes
  <1>2. keys'[k].event # NoTask
    <2>1. CASE Sub!HasRow(k)
      BY <1>1, <2>1 DEF Sub!CreateIdempotencyKey, Sub!HasRow
    <2>2. CASE ~Sub!HasRow(k)
      <3>1. keys'[k] = [event |-> t, live |-> TRUE]
        BY <1>1, <2>2 DEF Sub!CreateIdempotencyKey, ClientType
      <3> QED
        BY <3>1, NoTaskAssumption
    <2> QED
      BY <2>1, <2>2
  <1> QED
    BY <1>1, <1>2 DEF KeyRecorded, Sub!HasRow

(* A request stays alone with its task: the insert takes an unused id.     *)
LEMMA SubmitKeepsOwners ==
    ASSUME TypeInv, ClientType, NEW c \in Clients, SubmitChange(c),
           \A d \in Clients : ClientOwns(d), NEW d \in Clients
    PROVE  ClientOwns(d)'
  <1> DEFINE Owned(t) ==
                /\ Exists(events', t)
                /\ events'[t].parent = NoTask
                /\ keyOf'[t] = client'[d].body.key
                /\ client'[d].pc \in {"enqueue", "markFailed"} => KeyRecorded(t)'
                /\ client'[d].pc = "markFailed" => t \in faulted'
                /\ \A e \in Clients \ {d} : client'[e].task # t
  <1> SUFFICES ASSUME NEW t \in Tasks, client'[d].task = t
               PROVE  Owned(t)
    <2>1. client'[d].task \in Tasks \cup {NoTask}
      BY SubmitType, ClientHolds DEF ClientType, SoundClient
    <2> QED
      BY <2>1 DEF ClientOwns, KeyRecorded, Sub!HasRow
  <1>1. faulted \subseteq faulted'
    BY SubmitFaults
  <1>2. ASSUME NEW e \in Clients, client[e].task = t
        PROVE  /\ Exists(events, t) /\ Exists(events', t)
               /\ events'[t].parent = NoTask
               /\ keyOf[t] = client[e].body.key
               /\ keyOf'[t] = keyOf[t]
               /\ client[e].pc \in {"enqueue", "markFailed"} => KeyRecorded(t)'
               /\ client[e].pc = "markFailed" => t \in faulted'
               /\ \A f \in Clients \ {e} : client[f].task # t
    <2>1. /\ Exists(events, t)
          /\ events[t].parent = NoTask
          /\ keyOf[t] = client[e].body.key
          /\ client[e].pc \in {"enqueue", "markFailed"} => KeyRecorded(t)
          /\ client[e].pc = "markFailed" => t \in faulted
          /\ \A f \in Clients \ {e} : client[f].task # t
      BY <1>2, NoTaskAssumption DEF ClientOwns
    <2>2. Lasts(t)
      BY <2>1, SubmitRows
    <2> QED
      BY <1>1, <2>1, <2>2, SubmitKeepsKey DEF Lasts
  <1>3. \A e \in Clients \ {c} : client'[e] = client[e]
    BY DEF SubmitChange, OthersStay
  <1>4. CASE Looks(c)
    BY <1>2, <1>3, <1>4, NoTaskAssumption DEF Looks, LetsGo
  <1>5. ASSUME NEW u \in Tasks, Saves(c, u)
        PROVE  Owned(t)
    <2>1. client'[c].task = u \/ client'[c].task = NoTask
      BY <1>5 DEF Saves, GoesOn, LetsGo
    <2>2. CASE d = c
      <3>1. t = u /\ client'[c].pc = "record" /\ client'[c].body = client[c].body
        BY <1>5, <2>2, NoTaskAssumption DEF Saves, GoesOn, LetsGo
      <3>2. keyOf'[t] = client'[d].body.key
        BY <1>5, <2>2, <3>1 DEF Saves, ClientType
      <3>3. \A e \in Clients \ {c} : client'[e].task # t
        BY <1>2, <1>3, <1>5, <3>1, SavedRow
      <3> QED
        BY <1>5, <2>2, <3>1, <3>2, <3>3, SavedRow
    <2>3. CASE d # c
      <3>1. client[d].task = t /\ client'[d] = client[d]
        BY <1>3, <2>3
      <3>2. t # u
        BY <1>2, <1>5, <3>1, SavedRow
      <3> QED
        BY <1>2, <1>3, <2>1, <3>1, <3>2, NoTaskAssumption
    <2> QED
      BY <2>2, <2>3
  <1>6. ASSUME NEW u \in Tasks, client[c].task = u,
               \/ LetsGo(c)
               \/ Records(c, u) /\ GoesOn(c, "enqueue", u) /\ KeyRecorded(u)'
               \/ Pushes(c, u) /\ GoesOn(c, "markFailed", u) /\ u \in faulted'
        PROVE  Owned(t)
    <2>1. client'[c].task = u \/ client'[c].task = NoTask
      BY <1>6 DEF GoesOn, LetsGo
    <2>2. CASE d = c
      <3>1. /\ t = u /\ client'[c].body = client[c].body
            /\ \/ client'[c].pc = "enqueue" /\ KeyRecorded(u)'
               \/ /\ client'[c].pc = "markFailed" /\ u \in faulted'
                  /\ client[c].pc = "enqueue"
        BY <1>6, <2>2, NoTaskAssumption DEF GoesOn, LetsGo, Pushes
      <3> QED
        BY <1>2, <1>3, <1>6, <2>2, <3>1
    <2>3. CASE d # c
      <3>1. client[d].task = t /\ client'[d] = client[d]
        BY <1>3, <2>3
      <3>2. t # u
        BY <1>2, <1>6, <2>3, <3>1
      <3> QED
        BY <1>2, <1>3, <2>1, <3>1, <3>2, NoTaskAssumption
    <2> QED
      BY <2>2, <2>3
  <1>7. ASSUME NEW u \in Tasks, Records(c, u)
        PROVE  LetsGo(c) \/ (GoesOn(c, "enqueue", u) /\ KeyRecorded(u)')
    <2>1. keyOf[u] = client[c].body.key
      BY <1>7, NoTaskAssumption DEF Records, ClientOwns
    <2> QED
      BY <1>7, <2>1, RecordsKey DEF Records
  <1>8. ASSUME NEW u \in Tasks, Pushes(c, u)
        PROVE  LetsGo(c) \/ (GoesOn(c, "markFailed", u) /\ u \in faulted')
    BY <1>8 DEF Pushes
  <1> QED
    BY <1>4, <1>5, <1>6, <1>7, <1>8 DEF SubmitChange, Records, Pushes, Fails

(* The process never takes a row, a root or a key from a request.          *)
LEMMA ProcessKeepsOwners ==
    ASSUME TypeInv, RowInv, ClientType, [Next]_vars, UNCHANGED submissionVars,
           NEW c \in Clients, ClientOwns(c)
    PROVE  ClientOwns(c)'
  <1>0. UNCHANGED <<client, keys, keyOf>>
    BY DEF submissionVars
  <1>1. CASE client[c].task = NoTask
    BY <1>0, <1>1 DEF ClientOwns
  <1>2. ASSUME NEW t \in Tasks, client[c].task = t
        PROVE  ClientOwns(c)'
    <2>1. /\ Exists(events, t) /\ events[t].parent = NoTask
          /\ keyOf[t] = client[c].body.key
          /\ client[c].pc \in {"enqueue", "markFailed"} => KeyRecorded(t)
          /\ client[c].pc = "markFailed" => t \in faulted
          /\ \A d \in Clients \ {c} : client[d].task # t
      BY <1>2, NoTaskAssumption DEF ClientOwns
    <2>2. Lasts(t) /\ faulted \subseteq faulted'
      BY <2>1, RowsLast, FaultsGrow DEF RowInv
    <2>3. KeyRecorded(t)' <=> KeyRecorded(t)
      BY <1>0 DEF KeyRecorded, Sub!HasRow
    <2>4. /\ Exists(events', t) /\ events'[t].parent = NoTask
          /\ client[c].pc \in {"enqueue", "markFailed"} => KeyRecorded(t)'
          /\ client[c].pc = "markFailed" => t \in faulted'
      BY <2>1, <2>2, <2>3 DEF Lasts
    <2> QED
      BY <1>0, <1>2, <2>1, <2>4 DEF ClientOwns, KeyRecorded, Sub!HasRow
  <1> QED
    BY <1>1, <1>2, ClientHolds

(* A task waits for its own request only, and until its push.              *)
LEMMA SubmitKeepsWaiting ==
    ASSUME TypeInv, ClientType, RowInv, NEW c \in Clients, SubmitChange(c),
           \A d \in Clients : ClientOwns(d), NEW t \in Tasks, Waits(t)
    PROVE  Waits(t)'
  <1> SUFFICES ASSUME HeldByClient(t)', Plain(t)'
               PROVE  /\ ~Active(t)'
                      /\ ~HeldByWorker(t)'
                      /\ t \notin dlq'
                      /\ events'[t].status \in {"pending", "cancelled"}
    BY DEF Waits
  <1>0. /\ UNCHANGED <<dlq, worker>>
        /\ Plain(t) /\ t \notin faulted /\ t \notin faulted'
    BY SubmitFaults DEF SubmitChange, lifecycleVars, Plain
  <1>1. ASSUME ~Pushes(c, t), ~Active(t), ~HeldByWorker(t), t \notin dlq
        PROVE  ~Active(t)' /\ ~HeldByWorker(t)' /\ t \notin dlq'
    <2>1. /\ Queued(ready', t) <=> Queued(ready, t)
          /\ OnSchedule(scheduled', t) <=> OnSchedule(scheduled, t)
      BY <1>1, SubmitPlaces DEF Queued, OnSchedule
    <2> QED
      BY <1>0, <1>1, <2>1 DEF Active, Undecided, Executing, HeldByWorker
  <1>2. CASE Saves(c, t)
    <2>1. ~Exists(events, t) /\ events'[t].status = "pending" /\ ~Pushes(c, t)
      BY <1>2, SavedRow DEF Saves, Pushes
    <2>2. ~Active(t) /\ ~HeldByWorker(t) /\ t \notin dlq
      BY <2>1 DEF RowInv, NoDanglingIds, Active, HeldByWorker, Undecided, Executing
    <2> QED
      BY <1>1, <2>1, <2>2
  <1>3. CASE HeldByClient(t) /\ ~Pushes(c, t) /\ ~Saves(c, t)
    <2>1. /\ ~Active(t) /\ ~HeldByWorker(t) /\ t \notin dlq
          /\ events[t].status \in {"pending", "cancelled"}
      BY <1>0, <1>3 DEF Waits
    <2>2. events'[t] = events[t]
      BY <1>0, <1>3, SubmitRows
    <2> QED
      BY <1>1, <1>3, <2>1, <2>2
  <1>4. ~Pushes(c, t)
    <2> SUFFICES ASSUME Pushes(c, t) PROVE FALSE
      OBVIOUS
    <2>1. client[c].task = t /\ LetsGo(c)
      BY <1>0 DEF Pushes
    <2>2. \A d \in Clients \ {c} : client[d].task # t /\ client'[d] = client[d]
      BY <2>1, NoTaskAssumption DEF ClientOwns, SubmitChange, OthersStay
    <2> QED
      BY <2>1, <2>2, NoTaskAssumption DEF HeldByClient, LetsGo
  <1>5. HeldByClient(t) \/ Saves(c, t)
    <2>1. PICK d \in Clients : client'[d].task = t
      BY DEF HeldByClient
    <2>2. CASE d # c
      BY <2>1, <2>2 DEF HeldByClient, SubmitChange, OthersStay
    <2>3. CASE d = c
      BY <2>1, <2>3, NoTaskAssumption
         DEF HeldByClient, SubmitChange, Looks, Saves, Records, Pushes, Fails,
             LetsGo, GoesOn
    <2> QED
      BY <2>2, <2>3
  <1> QED
    BY <1>2, <1>3, <1>4, <1>5

(* A task that only its request holds can at most be cancelled.            *)
LEMMA ProcessKeepsWaiting ==
    ASSUME TypeInv, RowInv, [Next]_vars, UNCHANGED submissionVars,
           \A c \in Clients : ClientOwns(c),
           NEW t \in Tasks, PlainInv(t), Waits(t)
    PROVE  Waits(t)'
  <1> SUFFICES ASSUME HeldByClient(t)', Plain(t)'
               PROVE  /\ ~Active(t)'
                      /\ ~HeldByWorker(t)'
                      /\ t \notin dlq'
                      /\ events'[t].status \in {"pending", "cancelled"}
    BY DEF Waits
  <1>1. HeldByClient(t) /\ Plain(t)
    BY PlainBefore DEF HeldByClient, submissionVars
  <1>2. /\ ~Active(t) /\ ~HeldByWorker(t) /\ t \notin dlq
        /\ events[t].status \in {"pending", "cancelled"}
        /\ ~HeldByRequest(t) /\ reissued'[t] = 0
    BY <1>1 DEF Waits, PlainInv, OnePlace, Plain
  <1>3. Exists(events, t)
    BY <1>1, NoTaskAssumption DEF HeldByClient, ClientOwns
  <1>4. \A w \in Workers : worker[w].task # t /\ worker[w].child # t
    BY <1>2 DEF HeldByWorker
  <1>5. ~Queued(ready, t) /\ ~OnSchedule(scheduled, t)
    BY <1>2 DEF Active
  <1>6. ~Queued(ready', t) /\ ~OnSchedule(scheduled', t) /\ t \notin dlq'
    BY <1>2, <1>4, <1>5, QueueEffect DEF QueueChange
  <1>7. \A w \in Workers : worker'[w].task # t /\ worker'[w].child # t
    <2>1. \A w \in Workers : ~Inserts(w, t)
      BY <1>3 DEF Inserts
    <2> QED
      BY <1>4, <1>5, <2>1, TaskFrom
  <1>8. events'[t].status \in {"pending", "cancelled"}
    BY <1>2, <1>3, <1>4, StatusEffect
  <1> QED
    BY <1>6, <1>7, <1>8 DEF Active, Undecided, Executing, HeldByWorker

(* A race is never forgotten.                                              *)
LEMMA RacesStay ==
    ASSUME NEW c \in Clients, SubmitChange(c)
    PROVE  raced \subseteq raced'
  BY DEF SubmitChange, LooksUp

(* A request pushes its task only after its key is recorded, and without a *)
(* race only the task the key names.                                       *)
LEMMA SubmitRunsWithKey ==
    ASSUME TypeInv, ClientType, RowInv, NEW c \in Clients, SubmitChange(c),
           ClientOwns(c), \A k \in Keys : KeyInv(k),
           NEW t \in Tasks, LogHasRow(t), RunsWithKey(t)
    PROVE  RunsWithKey(t)'
  <1> SUFFICES ASSUME events'[t].parent = NoTask, reissued'[t] = 0,
                      OnItsWay(t)' \/ Started(t)'
               PROVE  KeyRecorded(t)' /\ KeyNames(t)'
    BY DEF RunsWithKey
  <1>1. UNCHANGED <<worker, reissued, logs>>
    BY DEF SubmitChange, lifecycleVars
  <1>2. OnItsWay(t) \/ Started(t) \/ Pushes(c, t)
    <2>1. CASE ~Pushes(c, t) /\ OnItsWay(t)'
      <3>1. /\ Queued(ready', t) <=> Queued(ready, t)
            /\ OnSchedule(scheduled', t) <=> OnSchedule(scheduled, t)
        BY <2>1, SubmitPlaces DEF Queued, OnSchedule
      <3> QED
        BY <1>1, <2>1, <3>1 DEF OnItsWay, Undecided, Executing
    <2>2. CASE Started(t)'
      <3>1. events'[t].result => events[t].result
        BY SubmitRows, SavedRow
      <3> QED
        BY <1>1, <2>2, <3>1 DEF Started
    <2> QED
      BY <2>1, <2>2
  <1>3. Exists(events, t)
    <2>1. CASE OnItsWay(t) \/ Pushes(c, t)
      BY <2>1, NoTaskAssumption
         DEF OnItsWay, Pushes, ClientOwns, RowInv, NoDanglingIds, HeldByWorker,
             Undecided, Executing
    <2>2. CASE Started(t)
      BY <2>2 DEF Started, LogHasRow, RowInv, NoDanglingIds, HeldByWorker,
                  AbsentRows, Absent
    <2> QED
      BY <1>2, <2>1, <2>2
  <1>4. KeyRecorded(t) /\ KeyNames(t)
    <2>1. CASE OnItsWay(t) \/ Started(t)
      <3>1. events[t].parent = NoTask
        BY <1>3, SubmitRows DEF Lasts
      <3> QED
        BY <1>1, <2>1, <3>1 DEF RunsWithKey
    <2>2. CASE Pushes(c, t)
      <3>1. KeyRecorded(t) /\ Pushing(c, keyOf[t]) /\ client[c].task = t
        BY <2>2, NoTaskAssumption DEF Pushes, ClientOwns, Pushing
      <3>2. KeyInv(keyOf[t])
        BY <3>1 DEF KeyRecorded
      <3> QED
        BY <3>1, <3>2 DEF KeyNames, KeyInv, RaceFree
    <2> QED
      BY <1>2, <2>1, <2>2
  <1>5. /\ keyOf'[t] = keyOf[t]
        /\ KeyRecorded(t)'
        /\ keys'[keyOf[t]] = keys[keyOf[t]]
    BY <1>3, <1>4, SubmitKeepsKey, SubmitKeepsKeyRow DEF KeyRecorded
  <1>6. KeyNames(t)'
    BY <1>4, <1>5, RacesStay DEF KeyNames
  <1> QED
    BY <1>5, <1>6

(* A step of a request keeps every key in order.                           *)
LEMMA SubmitKeepsKeys ==
    ASSUME TypeInv, ClientType, NEW c \in Clients, SubmitChange(c),
           \A d \in Clients : ClientOwns(d), NEW k \in Keys, KeyInv(k)
    PROVE  KeyInv(k)'
  <1>0. /\ \A d \in Clients \ {c} : client'[d] = client[d]
        /\ client' \in [Clients -> SoundClient]
    BY DEF SubmitChange, OthersStay
  <1>1. ASSUME k \notin raced, keys'[k] = keys[k], ~Looking(c, k)' \/ Looking(c, k),
               ~Pushing(c, k)'
        PROVE  RaceFree(k)'
    <2>1. RaceFree(k)
      BY <1>1 DEF KeyInv
    <2>2. \A d \in Clients \ {c} : /\ Looking(d, k)' => Looking(d, k)
                                   /\ Pushing(d, k)' => Pushing(d, k)
      BY <1>0 DEF Looking, Pushing
    <2> QED
      BY <1>0, <1>1, <2>1, <2>2 DEF RaceFree, Sub!HasRow
  <1>2. CASE LooksUp(c)
    <2>1. keys' = keys /\ raced \subseteq raced'
      BY <1>2, RacesStay DEF LooksUp
    <2>2. ASSUME k \notin raced'
          PROVE  RaceFree(k)'
      <3>1. k \notin raced
        BY <2>1, <2>2
      <3>2. client'[c].pc = "save"
        BY <1>2 DEF LooksUp
      <3>3. CASE client'[c].body.key # k
        BY <1>1, <2>1, <3>1, <3>3 DEF Looking, Pushing
      <3>4. CASE client'[c].body.key = k
        <4>1. ~Sub!HasRow(k)
          BY <1>2, <3>4 DEF LooksUp, Sub!GetIdempotencyKey, KeyInv
        <4>2. Sub!Rivals(c, k) = {}
          BY <1>2, <2>2, <3>4 DEF LooksUp
        <4>3. \A d \in Clients \ {c} : ~Looking(d, k)
          BY <4>2 DEF Sub!Rivals, Looking
        <4>4. \A d \in Clients \ {c} : ~Looking(d, k)'
          BY <1>0, <4>3 DEF Looking
        <4>5. RaceFree(k)
          BY <3>1 DEF KeyInv
        <4>6. \A d \in Clients : Pushing(d, k)' => d # c /\ client'[d] = client[d]
          BY <1>0, <3>2 DEF Pushing
        <4>7. \A d \in Clients : Pushing(d, k)' => client'[d].task = keys'[k].event
          BY <2>1, <4>5, <4>6 DEF RaceFree, Pushing
        <4>8. ~Sub!HasRow(k)'
          BY <2>1, <4>1 DEF Sub!HasRow
        <4> QED
          BY <4>4, <4>7, <4>8 DEF RaceFree
      <3> QED
        BY <3>3, <3>4
    <2> QED
      BY <2>1, <2>2 DEF KeyInv, Sub!HasRow
  <1>3. ASSUME raced' = raced, client'[c].pc # "save", keys' = keys,
               client'[c].pc = "record" =>
                  client[c].pc = "save" /\ client'[c].body = client[c].body,
               client'[c].pc # "enqueue"
        PROVE  KeyInv(k)'
    <2>1. ~Looking(c, k)' \/ Looking(c, k)
      BY <1>3 DEF Looking
    <2>2. ~Pushing(c, k)'
      BY <1>3 DEF Pushing
    <2>3. k \notin raced => RaceFree(k)'
      BY <1>1, <1>3, <2>1, <2>2
    <2> QED
      BY <1>3, <2>3 DEF KeyInv, Sub!HasRow
  <1>4. ASSUME LetsGo(c), client'[c].pc # "save"
        PROVE  client'[c].pc = "idle"
    BY <1>0, <1>4 DEF LetsGo, SoundClient
  <1>5. CASE raced' = raced /\ client'[c].pc # "save"
    <2>1. CASE Looks(c)
      BY <1>3, <1>4, <1>5, <2>1 DEF Looks
    <2>2. ASSUME NEW t \in Tasks, Saves(c, t)
          PROVE  KeyInv(k)'
      <3>1. keys' = keys /\ client[c].pc = "save"
        BY <2>2 DEF Saves
      <3>2. \/ client'[c].pc = "record" /\ client'[c].body = client[c].body
            \/ client'[c].pc = "idle"
        BY <1>4, <1>5, <2>2 DEF Saves, GoesOn
      <3> QED
        BY <1>3, <1>5, <3>1, <3>2
    <2>3. ASSUME NEW t \in Tasks, Pushes(c, t) \/ Fails(c, t)
          PROVE  KeyInv(k)'
      <3>1. keys' = keys
        BY <2>3 DEF Pushes, Fails
      <3>2. client'[c].pc \in {"markFailed", "idle"}
        BY <1>4, <1>5, <2>3 DEF Pushes, Fails, GoesOn
      <3> QED
        BY <1>3, <1>5, <3>1, <3>2
    <2>4. ASSUME NEW t \in Tasks, Records(c, t)
          PROVE  KeyInv(k)'
      <3>1. PICK l \in Keys : l = client[c].body.key
        BY <2>4, BodyTypes DEF Records
      <3>2. /\ client[c].pc = "record" /\ client[c].task = t
            /\ keys' = keys \/ keys' = Sub!CreateIdempotencyKey(l, t)
            /\ \/ /\ keys' = Sub!CreateIdempotencyKey(l, t)
                  /\ client'[c].pc = "enqueue" /\ client'[c].task = t
                  /\ client'[c].body.key = l
               \/ client'[c].pc = "idle"
        BY <1>4, <1>5, <2>4, <3>1 DEF Records, GoesOn
      <3>3. CASE keys' = keys /\ client'[c].pc = "idle"
        BY <1>3, <1>5, <3>3
      <3>4. CASE l # k
        <4>1. keys'[k] = keys[k]
          BY <3>2, <3>4 DEF Sub!CreateIdempotencyKey, ClientType
        <4>2. ~Looking(c, k)' /\ ~Pushing(c, k)'
          BY <3>2, <3>4 DEF Looking, Pushing
        <4> QED
          BY <1>1, <1>5, <4>1, <4>2 DEF KeyInv, Sub!HasRow
      <3>5. CASE l = k /\ keys' = Sub!CreateIdempotencyKey(k, t)
        <4>1. /\ Sub!HasRow(k) => keys'[k] = keys[k]
              /\ ~Sub!HasRow(k) => keys'[k] = [event |-> t, live |-> TRUE]
          BY <3>5 DEF Sub!CreateIdempotencyKey, ClientType
        <4>2. keys'[k].live
          BY <4>1 DEF KeyInv
        <4>3. ASSUME k \notin raced
              PROVE  RaceFree(k)'
          <5>1. RaceFree(k) /\ Looking(c, k)
            BY <3>1, <3>2, <3>5, <4>3 DEF KeyInv, Looking
          <5>2. ~Sub!HasRow(k) /\ \A d \in Clients \ {c} : ~Looking(d, k)
            BY <5>1 DEF RaceFree
          <5>3. keys'[k].event = t
            BY <4>1, <5>2
          <5>4. \A d \in Clients : ~Pushing(d, k)
            <6> SUFFICES ASSUME NEW d \in Clients, Pushing(d, k) PROVE FALSE
              OBVIOUS
            <6>1. client[d].task \in Tasks
              BY ClientHolds DEF Pushing
            <6>2. /\ keyOf[client[d].task] = k
                  /\ KeyRecorded(client[d].task)
              BY <6>1, NoTaskAssumption DEF Pushing, ClientOwns
            <6> QED
              BY <5>2, <6>2 DEF KeyRecorded
          <5>5. \A d \in Clients : ~Looking(d, k)'
            BY <1>0, <3>2, <5>2 DEF Looking
          <5>6. \A d \in Clients : Pushing(d, k)' => client'[d].task = keys'[k].event
            <6>1. \A d \in Clients \ {c} : ~Pushing(d, k)'
              BY <1>0, <5>4 DEF Pushing
            <6> QED
              BY <3>2, <5>3, <6>1 DEF Pushing
          <5> QED
            BY <5>5, <5>6 DEF RaceFree
        <4> QED
          BY <1>5, <4>2, <4>3 DEF KeyInv
      <3> QED
        BY <3>2, <3>3, <3>4, <3>5
    <2> QED
      BY <2>1, <2>2, <2>3, <2>4 DEF SubmitChange
  <1> QED
    BY <1>2, <1>5 DEF SubmitChange

(* Rows stay, so what is logged keeps its row.                             *)
LEMMA SubmitKeepsLogs ==
    ASSUME TypeInv, ClientType, NEW c \in Clients, SubmitChange(c),
           ClientOwns(c), NEW t \in Tasks, LogHasRow(t)
    PROVE  LogHasRow(t)'
  BY SubmitRows DEF LogHasRow, Lasts, SubmitChange, lifecycleVars

(* A log entry or a result comes from a worker that has the task.          *)
LEMMA StartedFrom ==
    ASSUME TypeInv, RowInv, [Next]_vars, NEW t \in Tasks, Started(t)'
    PROVE  Started(t) \/ Queued(ready, t)
  <1>1. CASE \E w \in Workers : worker'[w].task = t
    BY <1>1, TaskFrom DEF Started
  <1>2. CASE logs'[t] # NoLog
    <2>1. CASE logs'[t] = logs[t]
      BY <1>2, <2>1 DEF Started
    <2>2. CASE logs'[t] # logs[t]
      BY <2>2, LogEffect DEF Started
    <2> QED
      BY <2>1, <2>2
  <1>3. CASE events'[t].result
    <2>1. RowChange /\ events[t] \in Row
      BY RowEffect DEF TypeInv
    <2>2. CASE events'[t].result = events[t].result
      BY <1>3, <2>2 DEF Started
    <2>3. ASSUME NEW w \in Workers, worker[w].pc = "run",
                 events' = UpdateEventResult(events, worker[w].task)
          PROVE  Started(t)
      <3>1. CASE worker[w].task = t
        BY <3>1 DEF Started
      <3>2. CASE worker[w].task # t
        BY <1>3, <2>3, <3>2 DEF UpdateEventResult, TypeInv, Started
      <3> QED
        BY <3>1, <3>2
    <2>4. ASSUME NEW u, NEW st, events' = UpdateEventStatus(events, u, st)
          PROVE  events'[t].result = events[t].result
      BY <2>1, <2>4 DEF UpdateEventStatus, TypeInv, Row
    <2>5. ASSUME NEW w \in Workers, NEW u \in Tasks, Inserts(w, u)
          PROVE  Started(t)
      <3>1. events' = InsertEvent(events, u, NextRow(worker[w].task))
        BY <2>5 DEF Inserts
      <3>2. CASE u = t
        <4>1. events'[t] = NextRow(worker[w].task)
          BY <3>1, <3>2 DEF InsertEvent, TypeInv
        <4> QED
          BY <1>3, <4>1 DEF NextRow, NewRow
      <3>3. CASE u # t
        BY <1>3, <3>1, <3>3 DEF InsertEvent, TypeInv, Started
      <3> QED
        BY <3>2, <3>3
    <2> QED
      BY <1>3, <2>1, <2>2, <2>3, <2>4, <2>5 DEF RowChange
  <1> QED
    BY <1>1, <1>2, <1>3 DEF Started

(* A worker logs a task it has, which has a row.                           *)
LEMMA ProcessKeepsLogs ==
    ASSUME TypeInv, RowInv, [Next]_vars, NEW t \in Tasks, LogHasRow(t)
    PROVE  LogHasRow(t)'
  <1> SUFFICES ASSUME logs'[t] # NoLog PROVE Exists(events', t)
    BY DEF LogHasRow
  <1>1. Exists(events, t)
    <2>1. CASE logs'[t] = logs[t]
      BY <2>1 DEF LogHasRow
    <2>2. CASE logs'[t] # logs[t]
      BY <2>2, LogEffect DEF RowInv, NoDanglingIds, HeldByWorker
    <2> QED
      BY <2>1, <2>2
  <1> QED
    BY <1>1, RowsLast DEF RowInv, Lasts

(* The process starts a root only from where its request has put it, or    *)
(* at an operator's request; what a worker enqueues is not a root.         *)
LEMMA ProcessRunsWithKey ==
    ASSUME TypeInv, RowsInv, [Next]_vars, UNCHANGED submissionVars,
           NEW t \in Tasks, DueInv(t), RunsWithKey(t)
    PROVE  RunsWithKey(t)'
  <1> SUFFICES ASSUME events'[t].parent = NoTask, reissued'[t] = 0,
                      OnItsWay(t)' \/ Started(t)'
               PROVE  KeyRecorded(t) /\ KeyNames(t)
    BY DEF RunsWithKey, KeyRecorded, KeyNames, Sub!HasRow, submissionVars
  <1>1. reissued[t] = 0 /\ ~HeldByRequest(t)
    BY RequestEffect DEF RequestChange, DueInv
  <1>2. OnItsWay(t) \/ Started(t) \/ \E w \in Workers : worker[w].child = t
    <2>1. CASE Queued(ready', t) \/ OnSchedule(scheduled', t)
      BY <1>1, <2>1, QueueEffect DEF QueueChange, OnItsWay
    <2>2. CASE \E w \in Workers : Undecided(w, t)'
      BY <2>2, UndecidedFrom DEF OnItsWay
    <2>3. CASE Started(t)'
      BY <2>3, StartedFrom DEF OnItsWay, RowsInv
    <2> QED
      BY <2>1, <2>2, <2>3 DEF OnItsWay
  <1>3. events[t].parent = NoTask
    <2>1. CASE Exists(events, t)
      BY <2>1, RowsLast DEF RowsInv, RowInv, Lasts
    <2>2. CASE ~Exists(events, t)
      BY <2>2 DEF RowsInv, RowInv, AbsentRows, Absent
    <2> QED
      BY <2>1, <2>2
  <1>4. OnItsWay(t) \/ Started(t)
    BY <1>2, <1>3, NoTaskAssumption DEF RowsInv, ChildIsChained
  <1> QED
    BY <1>1, <1>3, <1>4 DEF RunsWithKey

(* A crash leaves nothing held, and what is queued as it was.              *)
LEMMA CrashKeepsRequests ==
    ASSUME AllDropped
    PROVE  /\ \A c \in Clients : ClientOwns(c)'
           /\ \A k \in Keys : KeyInv(k) => KeyInv(k)'
           /\ \A t \in Tasks : /\ Waits(t)'
                               /\ LogHasRow(t) => LogHasRow(t)'
                               /\ RunsWithKey(t) => RunsWithKey(t)'
  <1>1. \A c \in Clients : ClientOwns(c)'
    BY DEF AllDropped, ClientOwns
  <1>2. \A t \in Tasks : Waits(t)'
    BY DroppedIsFree DEF Waits
  <1>3. ASSUME NEW t \in Tasks, RunsWithKey(t)
        PROVE  RunsWithKey(t)'
    <2>1. UNCHANGED <<events, logs, ready, scheduled, reissued, keys, keyOf, raced>>
      BY DEF AllDropped
    <2>2. OnItsWay(t)' => OnItsWay(t)
      BY <2>1, DroppedIsFree DEF OnItsWay
    <2>3. Started(t)' => Started(t)
      BY <2>1, DroppedIsFree DEF Started, HeldByWorker
    <2> QED
      BY <1>3, <2>1, <2>2, <2>3 DEF RunsWithKey, KeyRecorded, KeyNames, Sub!HasRow
  <1>4. \A t \in Tasks : LogHasRow(t) => LogHasRow(t)'
    BY DEF AllDropped, LogHasRow
  <1>5. ASSUME NEW k \in Keys, KeyInv(k)
        PROVE  KeyInv(k)'
    <2>1. /\ UNCHANGED <<keys, raced>>
          /\ \A c \in Clients : ~Looking(c, k)' /\ ~Pushing(c, k)'
      BY DEF AllDropped, Looking, Pushing
    <2> QED
      BY <1>5, <2>1 DEF KeyInv, RaceFree, Sub!HasRow
  <1> QED
    BY <1>1, <1>2, <1>3, <1>4, <1>5

-----------------------------------------------------------------------------
(* Tracked from the insert on.                                             *)

(* A request lets go of its task only by queueing it or by a fault.        *)
LEMMA SubmitKeepsTrack ==
    ASSUME TypeInv, ClientType, NEW c \in Clients, SubmitChange(c),
           ClientOwns(c), NEW t \in Tasks, TrackedOrHeld(t)
    PROVE  TrackedOrHeld(t)'
  <1> SUFFICES ASSUME events'[t].status = "pending", t \notin faulted'
               PROVE  Tracked(t)' \/ HeldByClient(t)'
    BY DEF TrackedOrHeld
  <1>0. UNCHANGED <<worker, request>> /\ t \notin faulted
    BY SubmitFaults DEF SubmitChange, lifecycleVars
  <1>1. ASSUME Queues(t)
        PROVE  Tracked(t)'
    BY <1>1, QueuedIn DEF Tracked
  <1>2. CASE Tracked(t)
    <2>1. CASE Pushes(c, t) /\ Queues(t)
      BY <1>1, <2>1
    <2>2. CASE /\ \A p \in Priorities : ready'[p][t] = ready[p][t]
               /\ \A p \in PriorityColumn : <<t, p>> \in scheduled' <=>
                                            <<t, p>> \in scheduled
      <3>1. /\ Queued(ready', t) <=> Queued(ready, t)
            /\ OnSchedule(scheduled', t) <=> OnSchedule(scheduled, t)
        BY <2>2 DEF Queued, OnSchedule
      <3> QED
        BY <1>0, <1>2, <3>1 DEF Tracked, Undecided, Executing
    <2> QED
      BY <2>1, <2>2, SubmitPlaces
  <1>3. ASSUME NEW d \in Clients \ {c}, client[d].task = t
        PROVE  HeldByClient(t)'
    BY <1>3 DEF HeldByClient, SubmitChange, OthersStay
  <1>4. CASE client[c].task = t
    <2>1. CASE Looks(c) \/ \E u \in Tasks : Saves(c, u)
      BY <1>4, <2>1, NoTaskAssumption DEF Looks, Saves, ClientType, SoundClient
    <2>2. CASE Records(c, t)
      BY <2>2 DEF Records, GoesOn, HeldByClient
    <2>3. CASE Pushes(c, t)
      BY <1>1, <2>3 DEF Pushes
    <2>4. CASE Fails(c, t)
      BY <1>0, <2>4, NoTaskAssumption DEF Fails, ClientOwns
    <2> QED
      BY <1>4, <2>1, <2>2, <2>3, <2>4 DEF SubmitChange, Records, Pushes, Fails
  <1>5. CASE Exists(events, t)
    <2>1. events[t].status = "pending"
      BY <1>0, <1>5, SubmitRows
    <2> QED
      BY <1>0, <1>2, <1>3, <1>4, <2>1 DEF TrackedOrHeld, HeldByClient
  <1>6. CASE ~Exists(events, t)
    <2>1. Saves(c, t)
      BY <1>6, SubmitRows DEF Exists
    <2> QED
      BY <2>1 DEF Saves, GoesOn, HeldByClient
  <1> QED
    BY <1>5, <1>6

(* A step of the process leaves requests alone and keeps its own track.    *)
LEMMA ProcessKeepsTrack ==
    ASSUME TypeInv, [Next]_vars, UNCHANGED submissionVars,
           NEW t \in Tasks, TrackedOrHeld(t)
    PROVE  TrackedOrHeld(t)'
  <1>1. CASE HeldByClient(t)
    BY <1>1 DEF TrackedOrHeld, HeldByClient, submissionVars
  <1>2. CASE ~HeldByClient(t)
    BY <1>2, TrackStep DEF TrackedOrHeld, TrackedIfPending
  <1> QED
    BY <1>1, <1>2

(* What a crash drops, it makes faulted.                                   *)
LEMMA CrashKeepsTrack ==
    ASSUME TypeInv, AllDropped, NEW t \in Tasks, TrackedOrHeld(t)
    PROVE  TrackedOrHeld(t)'
  <1> SUFFICES ASSUME events[t].status = "pending", t \notin faulted'
               PROVE  Tracked(t)'
    BY DEF TrackedOrHeld, AllDropped
  <1>1. /\ UNCHANGED <<ready, scheduled>> /\ t \notin faulted
        /\ ~HeldByWorker(t) /\ ~HeldByRequest(t) /\ ~HeldByClient(t)
    BY DEF AllDropped
  <1>2. Tracked(t)
    BY <1>1 DEF TrackedOrHeld
  <1>3. Queued(ready, t) \/ OnSchedule(scheduled, t)
    BY <1>1, <1>2 DEF Tracked, HeldByWorker, HeldByRequest, Undecided, Executing
  <1> QED
    BY <1>1, <1>3 DEF Tracked

-----------------------------------------------------------------------------
(* Chains.                                                                 *)

(* A new root joins no chain and disturbs none.                            *)
LEMMA NewRootStep ==
    ASSUME TypeInv, RowInv, Chains, NEW t \in Tasks, ~Exists(events, t),
           events'[t].parent = NoTask,
           \A u \in Tasks \ {t} : events'[u] = events[u],
           \A u \in Tasks : ChainedOn(u) => ChainedOn(u)'
    PROVE  Chains'
  <1>0. /\ BelowRoot /\ ComesAfter /\ AfterChained /\ AloneAtDepth
        /\ events[t].parent = NoTask
        /\ \A u \in Tasks : events[u].parent # t
        /\ \A u \in Tasks : events[u].parent \in Tasks \cup {NoTask}
    BY ChainTypes DEF Chains, RowInv, NoDanglingIds
  <1>1. /\ \A u \in Tasks : events'[u].parent = events[u].parent
        /\ \A u \in Tasks : Root(u)' = Root(u)
        /\ \A u \in Tasks \ {t} : Left(u)' = Left(u)
    BY <1>0 DEF Root, RootTaskID, Left
  <1>2. \A u \in Tasks : events[u].parent # NoTask => u # t /\ Root(u) = events[u].parent
    BY <1>0 DEF Root, RootTaskID
  <1>3. Root(t) = t
    BY <1>0 DEF Root, RootTaskID
  <1>4. BelowRoot'
    BY <1>0, <1>1, <1>2 DEF BelowRoot
  <1>5. \A u \in Tasks : Root(u) \in Tasks
    BY ChainTypes
  <1>6. ASSUME NEW c \in Tasks, NEW u \in Tasks
        PROVE  StepAfter(c, u)' <=> StepAfter(c, u) /\ c # t /\ u # t
    <2>1. CASE c = t
      BY <1>0, <1>1, <1>5, <2>1, NoTaskAssumption DEF StepAfter
    <2>2. CASE u = t
      BY <1>0, <1>1, <1>3, <2>2 DEF StepAfter
    <2>3. CASE c # t /\ u # t
      BY <1>1, <2>3 DEF StepAfter
    <2> QED
      BY <2>1, <2>2, <2>3
  <1>7. AfterChained'
    BY <1>0, <1>6 DEF AfterChained
  <1>8. ASSUME NEW c \in Tasks, NEW u \in Tasks, StepAfter(c, u)
        PROVE  c # t /\ u # t
    BY <1>0, <1>3, <1>5, <1>8, NoTaskAssumption DEF StepAfter
  <1>9. ComesAfter'
    BY <1>0, <1>1, <1>6, <1>8 DEF ComesAfter
  <1>10. AloneAtDepth'
    BY <1>0, <1>1, <1>2 DEF AloneAtDepth
  <1> QED
    BY <1>4, <1>7, <1>9, <1>10 DEF Chains

(* A request adds a root, which is the start of a chain of its own.        *)
LEMMA SubmitKeepsChains ==
    ASSUME TypeInv, ClientType, RowInv, ChainInv, NEW c \in Clients,
           SubmitChange(c), ClientOwns(c)
    PROVE  ChainInv'
  <1> SUFFICES ASSUME Clean' PROVE Chains'
    BY DEF ChainInv
  <1>0. UNCHANGED <<worker, reissued>>
    BY DEF SubmitChange, lifecycleVars
  <1>1. faulted = {} /\ Chains
    BY <1>0, SubmitFaults DEF Clean, ChainInv, SubmitChange, Looks, Saves, Records,
                              Pushes, Fails
  <1>2. \A t \in Tasks :
           \/ events'[t] = events[t]
           \/ ~Exists(events, t) /\ Saves(c, t)
    BY <1>1, SubmitRows
  <1>3. ASSUME NEW t \in Tasks, ChainedOn(t)
        PROVE  ChainedOn(t)'
    <2>1. events[t].status = "processed" => events'[t] = events[t]
      BY <1>2 DEF Exists
    <2> QED
      BY <1>0, <1>3, <2>1 DEF ChainedOn
  <1>4. CASE \A t \in Tasks : events'[t] = events[t]
    BY <1>1, <1>3, <1>4, SamePlacesStep DEF KeepsPlace, Left
  <1>5. ASSUME NEW t \in Tasks, Saves(c, t)
        PROVE  Chains'
    BY <1>1, <1>3, <1>5, SavedRow, NewRootStep
  <1> QED
    BY <1>2, <1>4, <1>5

(* A crash that leaves the state clean has dropped no chained task.        *)
LEMMA CrashKeepsChains ==
    ASSUME TypeInv, RowInv, ChainInv, AllDropped
    PROVE  ChainInv'
  <1> SUFFICES ASSUME Clean' PROVE Chains'
    BY DEF ChainInv
  <1>1. UNCHANGED <<events, reissued>>
    BY DEF AllDropped
  <1>2. faulted' = {}
    BY DEF Clean
  <1>3. faulted = {} /\ Chains
    BY <1>1, <1>2 DEF AllDropped, Clean, ChainInv
  <1>4. \A t \in Tasks : ~HeldByWorker(t)
    BY <1>2 DEF AllDropped
  <1>5. \A t \in Tasks : ChainedOn(t) => ChainedOn(t)'
    BY <1>1, <1>4 DEF ChainedOn, HeldByWorker
  <1> QED
    BY <1>1, <1>3, <1>5, SamePlacesStep DEF KeepsPlace, Left

-----------------------------------------------------------------------------
(* The invariant of the composition.                                       *)

(* At the start there is no row, no key and no request.                    *)
LEMMA InitPlatform == PlatformInit => PlatformInv
  <1> SUFFICES ASSUME PlatformInit PROVE PlatformInv
    OBVIOUS
  <1>1. /\ TypeInv /\ RowInv /\ ChainInv
        /\ \A t \in Tasks : PlainInv(t) /\ DueInv(t)
    BY InitTypeInv, InitRowInv, InitChains, InitPlain, InitDue DEF PlatformInit
  <1>2. /\ \A t \in Tasks : events[t].status = "absent"
        /\ keys = [k \in Keys |-> Sub!NoKeyRow]
        /\ client = [c \in Clients |-> Sub!Idle]
        /\ keyOf = [t \in Tasks |-> NoKey]
        /\ \A t \in Tasks : logs[t] = NoLog
        /\ \A w \in Workers : worker[w] = Idle
    BY DEF PlatformInit, Sub!Init, Sub!Absent, Init
  <1>3. ClientType
    BY <1>2, IdleClient DEF ClientType, Sub!NoKeyRow
  <1>4. \A c \in Clients : client[c].task = NoTask
    BY <1>2, IdleClient
  <1>5. \A t \in Tasks : ~HeldByClient(t)
    BY <1>4, NoTaskAssumption DEF HeldByClient
  <1>6. \A t \in Tasks : ~OnItsWay(t)
    BY <1>1, <1>2 DEF OnItsWay, RowInv, NoDanglingIds, Exists, HeldByWorker,
                      Undecided, Executing
  <1>7. ProcessedNext /\ ChildIsChained
    BY <1>2 DEF ProcessedNext, ChildIsChained, Idle
  <1>8. \A t \in Tasks : ~Started(t)
    <2>1. ASSUME NEW t \in Tasks
          PROVE  events[t].result = FALSE
      <3>1. events[t] = Absent
        BY <1>1, <1>2 DEF RowInv, AbsentRows, Exists
      <3> QED
        BY <3>1 DEF Absent
    <2>2. \A w \in Workers : worker[w].task = NoTask
      BY <1>2 DEF Idle
    <2> QED
      BY <1>2, <2>1, <2>2, NoTaskAssumption DEF Started
  <1>9. \A t \in Tasks : /\ Waits(t) /\ LogHasRow(t) /\ RunsWithKey(t)
                         /\ TrackedOrHeld(t)
    BY <1>2, <1>5, <1>6, <1>8 DEF Waits, LogHasRow, RunsWithKey, TrackedOrHeld
  <1>10. \A c \in Clients : ClientOwns(c)
    BY <1>4 DEF ClientOwns
  <1>11. \A k \in Keys : KeyInv(k)
    <2>1. \A c \in Clients : client[c].pc = "idle"
      BY <1>2, IdleClient
    <2> QED
      BY <1>2, <2>1 DEF KeyInv, RaceFree, Looking, Pushing, Sub!HasRow, Sub!NoKeyRow
  <1> QED
    BY <1>1, <1>3, <1>7, <1>9, <1>10, <1>11 DEF PlatformInv, RowsInv

(* A step that does nothing to the lifecycle's variables, or one of its    *)
(* own, with the requests left alone.                                      *)
LEMMA PlatformCases ==
    ASSUME PlatformInv, [PlatformNext]_platformVars
    PROVE  \/ \E c \in Clients : SubmitChange(c)
           \/ [Next]_vars /\ UNCHANGED submissionVars
           \/ AllDropped
  <1>1. CASE Submit
    BY <1>1, SubmitEffect DEF PlatformInv
  <1>2. CASE Process
    BY <1>2, ProcessIsNext
  <1>3. CASE ProcessCrash
    BY <1>3, CrashEffect DEF PlatformInv
  <1>4. CASE UNCHANGED platformVars
    BY <1>4 DEF platformVars
  <1> QED
    BY <1>1, <1>2, <1>3, <1>4 DEF PlatformNext

(* Every step keeps the invariant.                                         *)
LEMMA PlatformStep == PlatformInv /\ [PlatformNext]_platformVars => PlatformInv'
  <1> SUFFICES ASSUME PlatformInv, [PlatformNext]_platformVars
               PROVE  PlatformInv'
    OBVIOUS
  <1>0. /\ TypeInv /\ ClientType /\ RowsInv /\ ChainInv /\ RowInv
        /\ \A c \in Clients : ClientOwns(c)
        /\ \A t \in Tasks : /\ PlainInv(t)
                            /\ DueInv(t)
                            /\ Waits(t)
                            /\ LogHasRow(t)
                            /\ RunsWithKey(t)
                            /\ TrackedOrHeld(t)
        /\ \A k \in Keys : KeyInv(k)
    BY DEF PlatformInv, RowsInv
  <1>1. ASSUME NEW c \in Clients, SubmitChange(c)
        PROVE  PlatformInv'
    <2>1. TypeInv' /\ ClientType'
      BY <1>0, <1>1, SubmitType
    <2>2. RowsInv'
      BY <1>0, <1>1, SubmitKeepsRows
    <2>3. ChainInv'
      BY <1>0, <1>1, SubmitKeepsChains
    <2>4. \A d \in Clients : ClientOwns(d)'
      BY <1>0, <1>1, SubmitKeepsOwners
    <2>5. ASSUME NEW t \in Tasks
          PROVE  /\ PlainInv(t)' /\ DueInv(t)' /\ Waits(t)' /\ RunsWithKey(t)'
                 /\ LogHasRow(t)' /\ TrackedOrHeld(t)'
      <3>1. PlainInv(t)'
        BY <1>0, <1>1, SubmitKeepsPlain
      <3>2. DueInv(t)'
        BY <1>0, <1>1, SubmitKeepsDue
      <3>3. Waits(t)'
        BY <1>0, <1>1, SubmitKeepsWaiting
      <3>4. RunsWithKey(t)'
        BY <1>0, <1>1, SubmitRunsWithKey
      <3>5. TrackedOrHeld(t)'
        BY <1>0, <1>1, SubmitKeepsTrack
      <3>6. LogHasRow(t)'
        BY <1>0, <1>1, SubmitKeepsLogs
      <3> QED
        BY <3>1, <3>2, <3>3, <3>4, <3>5, <3>6
    <2>6. \A k \in Keys : KeyInv(k)'
      BY <1>0, <1>1, SubmitKeepsKeys
    <2> QED
      BY <2>1, <2>2, <2>3, <2>4, <2>5, <2>6 DEF PlatformInv
  <1>2. ASSUME [Next]_vars, UNCHANGED submissionVars
        PROVE  PlatformInv'
    <2>1. TypeInv' /\ ClientType'
      <3>1. ClientType'
        BY <1>0, <1>2 DEF ClientType, submissionVars
      <3> QED
        BY <1>0, <1>2, <3>1, TypeStep
    <2>2. RowsInv'
      BY <1>0, <1>2, ProcessKeepsRows
    <2>3. ChainInv'
      BY <1>0, <1>2, ChainStep DEF ChainInv
    <2>4. \A c \in Clients : ClientOwns(c)'
      BY <1>0, <1>2, ProcessKeepsOwners
    <2>5. ASSUME NEW t \in Tasks
          PROVE  /\ PlainInv(t)' /\ DueInv(t)' /\ Waits(t)' /\ RunsWithKey(t)'
                 /\ LogHasRow(t)' /\ TrackedOrHeld(t)'
      <3>1. PlainInv(t)'
        BY <1>0, <1>2, PlainStep
      <3>2. DueInv(t)'
        BY <1>0, <1>2, DueStep
      <3>3. Waits(t)'
        BY <1>0, <1>2, ProcessKeepsWaiting
      <3>4. RunsWithKey(t)'
        BY <1>0, <1>2, ProcessRunsWithKey
      <3>5. TrackedOrHeld(t)'
        BY <1>0, <1>2, ProcessKeepsTrack
      <3>6. LogHasRow(t)'
        BY <1>0, <1>2, ProcessKeepsLogs
      <3> QED
        BY <3>1, <3>2, <3>3, <3>4, <3>5, <3>6
    <2>6. \A k \in Keys : KeyInv(k)'
      BY <1>0, <1>2 DEF KeyInv, RaceFree, Looking, Pushing, Sub!HasRow, submissionVars
    <2> QED
      BY <2>1, <2>2, <2>3, <2>4, <2>5, <2>6 DEF PlatformInv
  <1>3. CASE AllDropped
    <2>1. TypeInv' /\ ClientType'
      BY <1>0, <1>3, CrashType
    <2>2. RowsInv'
      BY <1>0, <1>3, CrashKeepsRows
    <2>3. ChainInv'
      BY <1>0, <1>3, CrashKeepsChains
    <2>4. \A c \in Clients : ClientOwns(c)'
      BY <1>3, CrashKeepsRequests
    <2>5. ASSUME NEW t \in Tasks
          PROVE  /\ PlainInv(t)' /\ DueInv(t)' /\ Waits(t)' /\ RunsWithKey(t)'
                 /\ LogHasRow(t)' /\ TrackedOrHeld(t)'
      BY <1>0, <1>3, CrashKeepsPlain, CrashKeepsDue, CrashKeepsRequests,
         CrashKeepsTrack
    <2>6. \A k \in Keys : KeyInv(k)'
      BY <1>0, <1>3, CrashKeepsRequests
    <2> QED
      BY <2>1, <2>2, <2>3, <2>4, <2>5, <2>6 DEF PlatformInv
  <1> QED
    BY <1>1, <1>2, <1>3, PlatformCases

(* PlatformInv holds in every reachable state of the platform.             *)
LEMMA PlatformInvariant == PlatformSpec => []PlatformInv
  BY InitPlatform, PlatformStep, PTL DEF PlatformSpec

-----------------------------------------------------------------------------
(* The results.                                                            *)

(* From the insert of its row on, a pending task that no fault hit is held *)
(* by its request, queued, scheduled or in the hands of a worker or of an  *)
(* operator's retry: a 200 answer, a cancel, a chained step or a crash     *)
(* elsewhere never leaves it behind.                                       *)
THEOREM SubmittedNeverLost == PlatformSpec => []SubmittedIsTracked
  <1>1. PlatformInv => SubmittedIsTracked
    BY DEF PlatformInv, TrackedOrHeld, SubmittedIsTracked
  <1> QED
    BY <1>1, PlatformInvariant, PTL

(* A worker runs a submitted task only after its idempotency key was       *)
(* recorded, unless an operator issued the task again before that.         *)
THEOREM KeyBeforeRun == PlatformSpec => []RunningHasKey
  <1>1. PlatformInv => RunningHasKey
    BY DEF PlatformInv, RunsWithKey, OnItsWay, KeyRecorded, RunningHasKey
  <1> QED
    BY <1>1, PlatformInvariant, PTL

(* Of the tasks submitted with one key, workers take at most one, for any  *)
(* number of clients that retry after errors and crashes, unless requests  *)
(* raced for the key or an operator issued a task again.                   *)
THEOREM KeyRunsOnce == PlatformSpec => []OneRunPerKey
  <1>1. ASSUME PlatformInv, NEW t \in Tasks, Started(t),
               events[t].parent = NoTask, reissued[t] = 0, keyOf[t] \notin raced
        PROVE  keys[keyOf[t]].event = t
    BY <1>1 DEF PlatformInv, RunsWithKey, KeyNames
  <1>2. PlatformInv => OneRunPerKey
    <2> SUFFICES ASSUME PlatformInv, NEW t \in Tasks, NEW u \in Tasks, t # u,
                        Started(t), events[t].parent = NoTask, reissued[t] = 0,
                        Started(u), events[u].parent = NoTask, reissued[u] = 0,
                        keyOf[t] = keyOf[u], keyOf[t] \notin raced
                 PROVE  FALSE
      BY DEF OneRunPerKey
    <2>1. keys[keyOf[t]].event = t
      BY <1>1
    <2>2. keys[keyOf[u]].event = u
      BY <1>1
    <2> QED
      BY <2>1, <2>2
  <1> QED
    BY <1>2, PlatformInvariant, PTL

(* The row of k names an existing task created for k.                      *)
NamesTask(k) ==
    Sub!HasRow(k) => /\ Exists(events, keys[k].event)
                     /\ keyOf[keys[k].event] = k

(* While workers, operators and crashes act on the tables, the event id of *)
(* a 409 answer names an existing task that was created for that key.      *)
THEOREM PlatformKeyNamesTask == PlatformSpec => []Sub!KeyNamesTask
  <1> DEFINE N == \A k \in Keys : NamesTask(k)
  <1>1. PlatformInit => N
    BY DEF PlatformInit, Sub!Init, NamesTask, Sub!HasRow, Sub!NoKeyRow
  <1>2. PlatformInv /\ N /\ [PlatformNext]_platformVars => N'
    <2> SUFFICES ASSUME PlatformInv, [PlatformNext]_platformVars,
                        NEW k \in Keys, NamesTask(k), NEW t \in Tasks,
                        keys'[k].event = t
                 PROVE  Exists(events', t) /\ keyOf'[t] = k
      <3>1. PlatformInv /\ [PlatformNext]_platformVars => ClientType'
        BY PlatformStep DEF PlatformInv
      <3>2. ClientType' => \A k \in Keys : keys'[k].event \in Tasks \cup {NoTask}
        BY DEF ClientType
      <3> QED
        BY <3>1, <3>2 DEF NamesTask, Sub!HasRow
    <2>1. ASSUME keys[k] = keys'[k]
          PROVE  Exists(events, t) /\ keyOf[t] = k
      BY <2>1, NoTaskAssumption DEF NamesTask, Sub!HasRow
    <2>2. ASSUME NEW c \in Clients, SubmitChange(c)
          PROVE  Exists(events', t) /\ keyOf'[t] = k
      <3>1. Exists(events, t) /\ keyOf[t] = k
        <4>1. CASE keys'[k] = keys[k]
          BY <2>1, <4>1
        <4>2. ASSUME NEW u \in Tasks, Records(c, u), keys'[k] # keys[k]
              PROVE  Exists(events, t) /\ keyOf[t] = k
          <5>1. /\ keys' = Sub!CreateIdempotencyKey(client[c].body.key, u)
                /\ client[c].task = u
            BY <4>2 DEF Records
          <5>2. client[c].body.key = k /\ keys'[k].event = u
            BY <4>2, <5>1 DEF Sub!CreateIdempotencyKey, PlatformInv, ClientType
          <5> QED
            BY <5>1, <5>2, NoTaskAssumption DEF PlatformInv, ClientOwns
        <4> QED
          BY <2>2, <4>1, <4>2 DEF SubmitChange, Looks, Saves, Pushes, Fails
      <3> QED
        BY <2>2, <3>1, SubmitRows, SubmitKeepsKey DEF PlatformInv, Lasts
    <2>3. CASE [Next]_vars /\ UNCHANGED submissionVars
      <3>1. Exists(events, t) /\ keyOf'[t] = k
        BY <2>1, <2>3 DEF submissionVars
      <3> QED
        BY <2>3, <3>1, RowsLast DEF PlatformInv, RowsInv, RowInv, Lasts
    <2>4. CASE AllDropped
      BY <2>1, <2>4 DEF AllDropped
    <2> QED
      BY <2>2, <2>3, <2>4, PlatformCases
  <1>3. N => Sub!KeyNamesTask
    BY DEF NamesTask, Sub!KeyNamesTask, Sub!Exists, Exists
  <1> HIDE DEF N
  <1> QED
    BY <1>1, <1>2, <1>3, PlatformInvariant, PTL DEF PlatformSpec

(* GET .../{id}/children of the root shows the next step of every task     *)
(* that is reported processed.                                             *)
THEOREM NextStepShown == PlatformSpec => []ProcessedShowsNext
  <1>1. ASSUME NEW t \in Tasks, NextSaved(t), events[t].next # << >>
        PROVE  LET root == IF events[t].parent = NoTask THEN t ELSE events[t].parent
               IN \E c \in HandleGetTaskChildren(root) :
                     events[c].next = Tail(events[t].next)
    BY <1>1 DEF NextSaved, RootTaskID, HandleGetTaskChildren, ListEventsByParentID
  <1>2. PlatformInv => ProcessedShowsNext
    BY <1>1 DEF PlatformInv, RowsInv, ProcessedNext, ProcessedShowsNext
  <1> QED
    BY <1>2, PlatformInvariant, PTL

(* While clients submit, no id dangles: a request queues a task only after *)
(* its row is inserted.                                                    *)
THEOREM PlatformIdsNeverDangle == PlatformSpec => []NoDanglingIds
  <1>1. PlatformInv => NoDanglingIds
    BY DEF PlatformInv, RowsInv, RowInv
  <1> QED
    BY <1>1, PlatformInvariant, PTL

(* While clients submit, a chained task hangs under a root with a result.  *)
THEOREM PlatformChainsHangUnderRoot == PlatformSpec => []ChildUnderFinishedRoot
  <1>1. PlatformInv => ChildUnderFinishedRoot
    BY DEF PlatformInv, RowsInv, RowInv
  <1> QED
    BY <1>1, PlatformInvariant, PTL

(* A submitted task with an execute_at waits for it, too.                  *)
THEOREM PlatformNeverRunsEarly == PlatformSpec => []RunsWhenDue
  <1>1. PlatformInv => RunsWhenDue
    BY DEF PlatformInv, DueInv, RunsWhenDue
  <1> QED
    BY <1>1, PlatformInvariant, PTL

(* While clients submit, a processed task has its result.                  *)
THEOREM PlatformResultFirst == PlatformSpec => []ProcessedHasResult
  <1>1. PlatformInv => ProcessedHasResult
    BY DEF PlatformInv, RowsInv, RowInv
  <1> QED
    BY <1>1, PlatformInvariant, PTL

(* A submitted task that nobody issued again and no fault hit is in one    *)
(* place from its push on: a request's push never makes a second copy.     *)
THEOREM PlatformOneCopy == PlatformSpec => []SingleCopy
  <1>1. PlatformInv => SingleCopy
    BY PlainIsSingle DEF PlatformInv
  <1> QED
    BY <1>1, PlatformInvariant, PTL

(* While clients submit, the dead letters that are neither issued again    *)
(* nor hit by a fault have failed.                                         *)
THEOREM PlatformDeadLettersFailed == PlatformSpec => []DLQShowsFailed
  <1>1. PlatformInv => DLQShowsFailed
    BY PlainDLQFailed DEF PlatformInv
  <1> QED
    BY <1>1, PlatformInvariant, PTL

(* While clients submit, the log of a decided task tells how it ended once *)
(* no worker holds it.                                                     *)
THEOREM PlatformLogTells == PlatformSpec => []LogAgreesWhenQuiet
  <1>1. PlatformInv => LogAgreesWhenQuiet
    BY PlainLogAgrees DEF PlatformInv
  <1> QED
    BY <1>1, PlatformInvariant, PTL

(* A request that fails its task after a queue error does so to a task the *)
(* fault hit; every other failed task stays within the operator's reach.   *)
THEOREM PlatformFailedNeverLost == PlatformSpec => []FailedIsRecoverable
  <1> DEFINE R == \A t \in Tasks : RecoverableIfFailed(t)
  <1>1. PlatformInit => R
    <2> SUFFICES ASSUME PlatformInit, NEW t \in Tasks
                 PROVE  events[t].status # "failed"
      BY DEF RecoverableIfFailed
    <2> QED
      BY DEF PlatformInit, Sub!Init, Sub!Absent
  <1>2. PlatformInv /\ R /\ [PlatformNext]_platformVars => R'
    <2> SUFFICES ASSUME PlatformInv, [PlatformNext]_platformVars,
                        NEW t \in Tasks, RecoverableIfFailed(t)
                 PROVE  RecoverableIfFailed(t)'
      OBVIOUS
    <2>1. ASSUME NEW c \in Clients, SubmitChange(c)
          PROVE  RecoverableIfFailed(t)'
      <3>1. /\ UNCHANGED <<dlq, worker, request, removed>>
            /\ faulted \subseteq faulted'
        BY <2>1, SubmitFaults DEF SubmitChange, lifecycleVars
      <3>2. events'[t].status = "failed" => events[t].status = "failed" \/ t \in faulted
        <4>1. ~Exists(events, t) => events'[t] = events[t] \/ Saves(c, t)
          BY <2>1, SubmitRows DEF PlatformInv
        <4>2. Exists(events, t) => events'[t] = events[t] \/ t \in faulted
          BY <2>1, SubmitRows DEF PlatformInv
        <4>3. Saves(c, t) => events'[t].status = "pending"
          BY SavedRow DEF PlatformInv
        <4> QED
          BY <4>1, <4>2, <4>3
      <3> QED
        BY <3>1, <3>2 DEF RecoverableIfFailed, Recoverable, GivingUp, Resetting
    <2>2. CASE [Next]_vars
      BY <2>2, RecoverStep DEF PlatformInv
    <2>3. CASE AllDropped
      <3>1. /\ UNCHANGED <<events, dlq, removed>>
            /\ faulted \subseteq faulted'
            /\ t \notin faulted' => ~HeldByWorker(t) /\ ~HeldByRequest(t)
        BY <2>3 DEF AllDropped
      <3>2. t \notin faulted' /\ Recoverable(t) => t \in dlq
        BY <3>1 DEF HeldByWorker, HeldByRequest, Recoverable, GivingUp, Resetting
      <3> QED
        BY <3>1, <3>2 DEF RecoverableIfFailed, Recoverable
    <2> QED
      BY <2>1, <2>2, <2>3, PlatformCases
  <1>3. R => FailedIsRecoverable
    BY DEF FailedIsRecoverable, RecoverableIfFailed, Recoverable, GivingUp, Resetting
  <1> HIDE DEF R
  <1> QED
    BY <1>1, <1>2, <1>3, PlatformInvariant, PTL DEF PlatformSpec

(* Roots that come in while chains are worked on do not make a step be     *)
(* chained twice.                                                          *)
THEOREM PlatformChainsOnce == PlatformSpec => []ChainedOnce
  <1>1. PlatformInv => ChainedOnce
    BY DEF PlatformInv, ChainInv, Clean, Chains, AloneAtDepth, Left, ChainedOnce
  <1> QED
    BY <1>1, PlatformInvariant, PTL

(* A task cancelled before a worker executes it stays cancelled, also when *)
(* the cancel comes between the insert of its row and the push of its id:  *)
(* the push that follows does not revive it.                               *)
THEOREM CancelBeatsSubmission == PlatformSpec => CancelOutlivesSubmission
  <1> DEFINE A == \A t \in Tasks \ faulted' :
                CancelSettled(t) =>
                   \/ CancelSettled(t)'
                   \/ events'[t].status = "pending"
                   \/ \E w \in Workers : /\ worker[w].pc = "fetch"
                                        /\ worker[w].task = t
                                        /\ worker'[w].pc = "giveUp"
  <1>1. ASSUME PlatformInv, [PlatformNext]_platformVars PROVE A
    <2> SUFFICES ASSUME NEW t \in Tasks \ faulted', CancelSettled(t)
                 PROVE  CancelKept(t)
      BY DEF CancelKept
    <2>1. ASSUME NEW c \in Clients, SubmitChange(c)
          PROVE  CancelKept(t)
      <3>1. Exists(events, t) /\ t \notin faulted
        BY <2>1, SubmitFaults DEF CancelSettled, Exists
      <3>2. events'[t] = events[t] /\ worker' = worker
        BY <1>1, <2>1, <3>1, SubmitRows DEF PlatformInv, SubmitChange, lifecycleVars
      <3> QED
        BY <3>2 DEF CancelKept, CancelSettled, Executing
    <2>2. CASE [Next]_vars
      BY <1>1, <2>2, CancelStep DEF PlatformInv
    <2>3. CASE AllDropped
      <3>1. events' = events /\ \A w \in Workers : ~Executing(w, t)'
        BY <2>3, DroppedIsFree DEF AllDropped
      <3> QED
        BY <3>1 DEF CancelKept, CancelSettled
    <2> QED
      BY <1>1, <2>1, <2>2, <2>3, PlatformCases
  <1>2. PlatformInv /\ [PlatformNext]_platformVars => [A]_platformVars
    BY <1>1
  <1>3. PlatformSpec => [][A]_platformVars
    BY <1>2, PlatformInvariant, PTL DEF PlatformSpec
  <1> QED
    BY <1>3 DEF CancelOutlivesSubmission

(* A step of a request shows clients a step of the service, if anything:   *)
(* the insert accepts a task, and a failed push may fail one.              *)
LEMMA SubmitRefines ==
    ASSUME TypeInv, ClientType, NEW c \in Clients, SubmitChange(c), ClientOwns(c)
    PROVE  TS!Next
  <1>0. reissued' = reissued /\ IssuedAgain' = IssuedAgain
    BY DEF SubmitChange, lifecycleVars, IssuedAgain
  <1>1. ASSUME events' = events, NEW t \in Tasks,
               faulted' = faulted \/ faulted' = faulted \cup {t}
        PROVE  TS!Next
    <2>1. PICK S \in SUBSET Tasks : faulted' = faulted \cup S
      <3>1. faulted' = faulted \cup {} \/ faulted' = faulted \cup {t}
        BY <1>1
      <3> QED
        BY <3>1
    <2> QED
      BY <1>0, <1>1, <2>1, LoseStep
  <1>2. CASE Looks(c)
    <2>1. PICK S \in SUBSET Tasks : faulted' = faulted \cup S
      <3>1. faulted' = faulted \cup {}
        BY <1>2 DEF Looks
      <3> QED
        BY <3>1
    <2>2. UNCHANGED <<events, reissued>>
      BY <1>0, <1>2 DEF Looks
    <2> QED
      BY <2>1, <2>2, LoseStep
  <1>3. ASSUME NEW t \in Tasks, Saves(c, t)
        PROVE  TS!Next
    <2>1. /\ Seen' = [Seen EXCEPT ![t] = TS!New(NoTask, client[c].body.next)]
          /\ ~Exists(events, t)
          /\ client[c].body.next \in Seq(Step)
          /\ faulted' \in {faulted, faulted \cup {t}}
      BY <1>3, SeenStatement, BodyTypes DEF Saves
    <2>2. Seen'[t] = TS!New(NoTask, client[c].body.next)
      BY <2>1 DEF Seen
    <2>3. Seen'[t].next = client[c].body.next
      BY <2>2 DEF TS!New
    <2>4. ~TS!Known(t)
      BY <2>1 DEF TS!Known, Seen, ViewOf, Exists
    <2>5. TS!Accept(t)
      BY <1>0, <2>1, <2>3, <2>4 DEF TS!Accept, TS!MayLose, Seen, IssuedAgain, TS!Step,
                                    TS!PriorityColumn, TS!RequestPriority,
                                    TS!Priorities, Step,
                                    PriorityColumn, RequestPriority, Priorities
    <2> QED
      BY <2>5 DEF TS!Next
  <1>4. ASSUME NEW t \in Tasks, Records(c, t) \/ Pushes(c, t)
        PROVE  TS!Next
    BY <1>1, <1>4 DEF Records, Pushes
  <1>5. ASSUME NEW t \in Tasks, Fails(c, t)
        PROVE  TS!Next
    <2>1. CASE events' = events
      BY <1>1, <1>5, <2>1 DEF Fails
    <2>2. CASE events' = UpdateEventStatus(events, t, "failed")
      <3>1. Exists(events, t) /\ t \in faulted
        BY <1>5, NoTaskAssumption DEF Fails, ClientOwns
      <3>2. TS!MayDecide(t)
        BY <3>1 DEF TS!MayDecide, TS!Known, ViewOf, Exists
      <3>3. Seen' = [Seen EXCEPT ![t].status = "failed"]
        BY <2>2, SeenStatement
      <3>4. TS!Fail(t)
        BY <1>0, <1>5, <3>2, <3>3 DEF TS!Fail, TS!MayLose, Seen, IssuedAgain, Fails
      <3> QED
        BY <3>4 DEF TS!Next
    <2> QED
      BY <1>5, <2>1, <2>2 DEF Fails
  <1> QED
    BY <1>2, <1>3, <1>4, <1>5 DEF SubmitChange

(* The whole platform, from the request to the last chained step, shows    *)
(* clients nothing but steps of TaskService.                               *)
THEOREM PlatformImplementsService == PlatformSpec => ImplementsTaskService
  <1>1. PlatformInit => TS!Init
    BY InitRefines DEF PlatformInit
  <1>2. ASSUME PlatformInv, [PlatformNext]_platformVars
        PROVE  TS!Next \/ UNCHANGED TS!vars
    <2>1. ASSUME NEW c \in Clients, SubmitChange(c)
          PROVE  TS!Next
      BY <1>2, <2>1, SubmitRefines DEF PlatformInv
    <2>2. CASE [Next]_vars
      BY <1>2, <2>2, StepRefines DEF PlatformInv, RowsInv
    <2>3. CASE AllDropped
      <3>1. /\ UNCHANGED <<events, reissued>>
            /\ faulted' \in SUBSET Tasks /\ faulted' = faulted \cup faulted'
        BY <2>3 DEF AllDropped
      <3> QED
        BY <3>1, LoseStep
    <2> QED
      BY <1>2, <2>1, <2>2, <2>3, PlatformCases
  <1>3. PlatformInv /\ [PlatformNext]_platformVars => [TS!Next]_TS!vars
    BY <1>2
  <1> QED
    BY <1>1, <1>3, PlatformInvariant, PTL
       DEF PlatformSpec, ImplementsTaskService, TS!Spec
=============================================================================
