------------------------------ MODULE Shutdown ------------------------------
(***************************************************************************)
(* The life of the process, cmd/main.go and cmd/server.go: run opens the   *)
(* log, the tracer, Postgres, Redis and the worker pool, each with a       *)
(* deferred cleanup, serves HTTP until a signal or a server error, and     *)
(* then unwinds the deferred cleanups last in, first out.  Worker tasks    *)
(* and HTTP requests run concurrently with it; each needs Postgres, Redis  *)
(* and the log until it is done.                                           *)
(*                                                                         *)
(* A request passes RequestLogger, Recoverer and Timeout on its way to the *)
(* handler and back.  Statuses are kept as far as the log and the client   *)
(* may disagree on them.                                                   *)
(***************************************************************************)
EXTENDS Naturals, Sequences, SequencesExt

CONSTANTS
    Workers,     \* goroutines of the worker pool
    Conns        \* HTTP requests that may be in flight together

VARIABLES
    main,        \* where run is
    step,        \* startup steps taken
    deferred,    \* the resources opened so far, the last one first
    worker,      \* what each worker goroutine does
    conn,        \* where each request is between accept and log line
    forced       \* history: why run did not wait for the requests, if so:
                 \* srv.Shutdown timed out, or the server had failed

process == <<main, step, deferred, forced>>
vars == <<process, worker, conn>>

(* Mutant: the pool's Stop is deferred before the clients it needs.        *)
BugStartup == <<"logger", "tracer", "workers", "postgres", "redis">>

(* Mutant: the log file is opened, and so closed, after the pool starts.   *)
BugStartupLogger == <<"tracer", "postgres", "redis", "workers", "logger">>

(* The order in which run opens what it defers the closing of.             *)
Startup == <<"logger", "tracer", "postgres", "redis", "workers">>

Open(r) == r \in ToSet(deferred)

NoStatus == "none"

(* pc: none, handling, returning through the middlewares, done; spied: not *)
(* /health, /metrics or a preflight that cors.Handler answers; waited:     *)
(* which of the write timeout of 10 s and the deadline of 60 s have        *)
(* passed; wire: the status the client received; status: the one the       *)
(* spyResponseWriter saw last; logged: the one in the log line.            *)
NoConn == [pc |-> "none", spied |-> TRUE, waited |-> "no",
           wire |-> NoStatus, status |-> NoStatus, logged |-> NoStatus]

InFlight(c) == conn[c].pc \in {"handling", "returning"}

Init ==
    /\ main = "startup"
    /\ step = 0
    /\ deferred = << >>
    /\ worker = [w \in Workers |-> "stopped"]
    /\ conn = [c \in Conns |-> NoConn]
    /\ forced = "no"

(* initializeLogger, NewTracerProvider, migrations and NewPool,            *)
(* NewRedisClient, workerPool.Start.  Without a tracer run goes on.        *)
OpenNext ==
    /\ main = "startup"
    /\ step < Len(Startup)
    /\ step' = step + 1
    /\ LET r == Startup[step + 1] IN
       /\ \/ deferred' = <<r>> \o deferred
          \/ r = "tracer" /\ UNCHANGED deferred
       /\ worker' = IF r = "workers" THEN [w \in Workers |-> "idle"] ELSE worker
    /\ UNCHANGED <<main, conn, forced>>

(* The log file cannot be opened: return; the migrations or Postgres fail: *)
(* log.Fatalf, which runs no deferred call; or the ping of Redis fails:    *)
(* panic, which runs them.                                                 *)
StartupFails ==
    /\ main = "startup"
    /\ step < Len(Startup)
    /\ \/ Startup[step + 1] = "postgres" /\ main' = "exited"
       \/ Startup[step + 1] \in {"logger", "redis"} /\ main' = "cleanup"
    /\ UNCHANGED <<step, deferred, worker, conn, forced>>

Serve ==
    /\ main = "startup"
    /\ step = Len(Startup)
    /\ main' = "serving"
    /\ UNCHANGED <<step, deferred, worker, conn, forced>>

(* SIGINT or SIGTERM: srv.Shutdown stops accepting requests and waits.     *)
Signal ==
    /\ main = "serving"
    /\ main' = "shutdown"
    /\ UNCHANGED <<step, deferred, worker, conn, forced>>

(* ListenAndServe returned an error: run returns without srv.Shutdown.     *)
ServerFails ==
    /\ main = "serving"
    /\ main' = "cleanup"
    /\ forced' = "failure"
    /\ UNCHANGED <<step, deferred, worker, conn>>

(* Mutant: srv.Shutdown does not wait.                                     *)
BugDrained ==
    /\ main = "shutdown"
    /\ main' = "cleanup"
    /\ UNCHANGED <<step, deferred, worker, conn, forced>>

Drained ==
    /\ main = "shutdown"
    /\ \A c \in Conns : ~InFlight(c)
    /\ main' = "cleanup"
    /\ UNCHANGED <<step, deferred, worker, conn, forced>>

(* Mutant: srv.Shutdown waits without a deadline.                          *)
BugDrainTimeout ==
    /\ main = "shutdown"
    /\ \E c \in Conns : InFlight(c)
    /\ UNCHANGED vars

(* The ten seconds are over: "server forced to shutdown".                  *)
DrainTimeout ==
    /\ main = "shutdown"
    /\ \E c \in Conns : InFlight(c)
    /\ main' = "cleanup"
    /\ forced' = "timeout"
    /\ UNCHANGED <<step, deferred, worker, conn>>

(* The next deferred call returns.  workerPool.Stop cancels the workers'   *)
(* context and waits until every goroutine has returned.                   *)
Cleanup ==
    /\ main = "cleanup"
    /\ IF deferred = << >>
       THEN main' = "exited" /\ UNCHANGED deferred
       ELSE /\ Head(deferred) = "workers" =>
                  \A w \in Workers : worker[w] = "stopped"
            /\ UNCHANGED main
            /\ deferred' = Tail(deferred)
    /\ UNCHANGED <<step, worker, conn, forced>>

(* Whether workerPool.Stop has been called.                                *)
Stopping == main = "cleanup" /\ deferred # << >> /\ Head(deferred) = "workers"

(* A worker takes a task, runs it to its end, and looks at its context     *)
(* between two tasks only.                                                 *)
TakeTask(w) ==
    /\ worker[w] = "idle"
    /\ ~Stopping
    /\ main # "exited"
    /\ worker' = [worker EXCEPT ![w] = "busy"]
    /\ UNCHANGED <<process, conn>>

FinishTask(w) ==
    /\ worker[w] = "busy"
    /\ main # "exited"
    /\ worker' = [worker EXCEPT ![w] = "idle"]
    /\ UNCHANGED <<process, conn>>

StopWorker(w) ==
    /\ worker[w] = "idle"
    /\ Stopping
    /\ worker' = [worker EXCEPT ![w] = "stopped"]
    /\ UNCHANGED <<process, conn>>

-----------------------------------------------------------------------------
(* HTTP requests.                                                          *)

(* The handler takes long: first WriteTimeout (10 s), after which nothing  *)
(* reaches the client, then the deadline that Timeout (60 s) has set.      *)
TimePasses(c) ==
    /\ conn[c].pc = "handling"
    /\ main # "exited"
    /\ conn[c].waited # "deadline"
    /\ conn' = [conn EXCEPT ![c].waited =
                   IF @ = "no" THEN "writeTimeout" ELSE "deadline"]
    /\ UNCHANGED <<process, worker>>

AcceptRequest(c) ==
    /\ main = "serving"
    /\ conn[c].pc = "none"
    /\ \E spied \in BOOLEAN :
          conn' = [conn EXCEPT ![c] = [NoConn EXCEPT !.pc = "handling",
                                                     !.spied = spied]]
    /\ UNCHANGED <<process, worker>>

(* Mutant: the server has no write timeout.                                *)
BugWriteHeader(cn, status) ==
    [cn EXCEPT !.status = status,
               !.wire = IF @ = NoStatus THEN status ELSE @]

(* WriteHeader: the first status goes to the client, unless the write      *)
(* timeout has passed; the spy keeps the last.                             *)
WriteHeader(cn, status) ==
    [cn EXCEPT !.status = status,
               !.wire = IF @ = NoStatus /\ cn.waited = "no" THEN status ELSE @]

(* Every handler ends in one RespondWithJSON or RespondWithError.  On the  *)
(* way back Timeout answers 504 if the deadline has passed.                *)
Respond(c, status) ==
    LET answered == WriteHeader(conn[c], status) IN
    /\ conn[c].pc = "handling"
    /\ main # "exited"
    /\ conn' = [conn EXCEPT ![c] =
                   [(IF conn[c].waited = "deadline"
                     THEN WriteHeader(answered, "504")
                     ELSE answered) EXCEPT !.pc = "returning"]]
    /\ UNCHANGED <<process, worker>>

(* The handler panics: Recoverer, inside RequestLogger, answers 500 after  *)
(* Timeout has had its turn.                                               *)
Panic(c) ==
    /\ conn[c].pc = "handling"
    /\ main # "exited"
    /\ conn' = [conn EXCEPT ![c] =
                   [WriteHeader(@, "500") EXCEPT !.pc = "returning"]]
    /\ UNCHANGED <<process, worker>>

(* RequestLogger emits its one line, and the request is over.              *)
LogRequest(c) ==
    /\ conn[c].pc = "returning"
    /\ main # "exited"
    /\ conn' = [conn EXCEPT ![c].pc = "done",
                            ![c].logged = IF conn[c].spied THEN conn[c].status
                                          ELSE NoStatus]
    /\ UNCHANGED <<process, worker>>

(* The connection is free for another request.                             *)
CloseRequest(c) ==
    /\ conn[c].pc = "done"
    /\ conn' = [conn EXCEPT ![c] = NoConn]
    /\ UNCHANGED <<process, worker>>

RequestStep(c) ==
    \/ AcceptRequest(c) \/ TimePasses(c) \/ Panic(c)
    \/ \E status \in {"200", "409", "500"} : Respond(c, status)
    \/ LogRequest(c) \/ CloseRequest(c)

-----------------------------------------------------------------------------
(* Once run has returned, the process is gone.                             *)
Exited == main = "exited" /\ UNCHANGED vars

MainStep ==
    \/ OpenNext \/ StartupFails \/ Serve
    \/ Drained \/ DrainTimeout \/ Cleanup

WorkerStep(w) == TakeTask(w) \/ FinishTask(w) \/ StopWorker(w)

Next ==
    \/ MainStep \/ Signal \/ ServerFails \/ Exited
    \/ \E w \in Workers : WorkerStep(w)
    \/ \E c \in Conns : RequestStep(c)

(* run goes on, a task ends (its attempts and the downloads in it are      *)
(* bounded) and a worker that is told to stop does.  A request need not    *)
(* end.                                                                    *)
Spec ==
    /\ Init /\ [][Next]_vars
    /\ WF_vars(MainStep)
    /\ \A w \in Workers : WF_vars(FinishTask(w)) /\ WF_vars(StopWorker(w))

-----------------------------------------------------------------------------
(* Correctness properties.                                                 *)

(* "Worker pool must stop before Redis/Postgres close" (main.go:126): a    *)
(* worker that runs a task, or may take one, still has both, on every path *)
(* out of run.                                                             *)
WorkersHaveClients ==
    (\E w \in Workers : worker[w] # "stopped") =>
       Open("postgres") /\ Open("redis")

(* A request in flight has both too, unless run gave up waiting for it.    *)
RequestsHaveClients ==
    (\E c \in Conns : InFlight(c)) /\ forced = "no" =>
       Open("postgres") /\ Open("redis")

(* "Registered first so it runs last" (main.go:51): the log file is open   *)
(* as long as a worker may still run, a request that run waits for is in   *)
(* flight, or another cleanup is to come, on every path out of run.        *)
LogOutlivesUsers ==
    \/ \E w \in Workers : worker[w] # "stopped"
    \/ forced = "no" /\ \E c \in Conns : InFlight(c)
    \/ deferred # << >>
    => Open("logger")

(* Every request but /health, /metrics and CORS preflights (answered ahead *)
(* of RequestLogger, server.go:21) leaves its line in the log, also when   *)
(* its handler panics, and whenever the client received an answer the line *)
(* tells the status of that answer, although Timeout and Recoverer write a *)
(* status of their own after the handler's.                                *)
LogTellsAnswer ==
    \A c \in Conns :
       conn[c].pc = "done" /\ conn[c].spied =>
          /\ conn[c].logged # NoStatus
          /\ conn[c].wire \in {NoStatus, conn[c].logged}

(* A process that got its signal exits, although tasks keep coming and     *)
(* requests may never end.                                                 *)
SignalExits == main = "shutdown" ~> main = "exited"
=============================================================================
