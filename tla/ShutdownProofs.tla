--------------------------- MODULE ShutdownProofs ---------------------------
(***************************************************************************)
(* Proofs about Shutdown: what a worker, a request and the log can rely on *)
(* while run starts, serves and unwinds its deferred cleanups, for any     *)
(* number of workers and requests.                                         *)
(***************************************************************************)
EXTENDS Shutdown, SequenceTheorems, TLAPS

(* What run opens, and what it always opens: without the tracer it goes on.*)
Resource == {"logger", "tracer", "postgres", "redis", "workers"}

Required == {"logger", "postgres", "redis", "workers"}

(* The order of run: logger, tracer, Postgres, Redis, worker pool.         *)
LEMMA StartupOrder ==
    /\ Len(Startup) = 5
    /\ Startup[1] = "logger"   /\ Startup[2] = "tracer"
    /\ Startup[3] = "postgres" /\ Startup[4] = "redis"
    /\ Startup[5] = "workers"
  BY DEF Startup

(* Each is opened once.                                                    *)
LEMMA StartupNames ==
    /\ \A n \in 1..5 : Startup[n] \in Resource
    /\ \A m, n \in 1..5 : Startup[m] = Startup[n] => m = n
  <1>1. \A n \in 1..5 : n = 1 \/ n = 2 \/ n = 3 \/ n = 4 \/ n = 5
    OBVIOUS
  <1> QED
    BY <1>1, StartupOrder DEF Resource

(* Under each cleanup on the stack d lie those of everything required that *)
(* was opened earlier.                                                     *)
Layered(d) ==
    \A i \in 1..Len(d), m, n \in 1..5 :
       d[i] = Startup[n] /\ m < n /\ Startup[m] \in Required =>
          \E j \in 1..Len(d) : j > i /\ d[j] = Startup[m]

On(d, r) == \E i \in 1..Len(d) : d[i] = r

(* A resource is open while its cleanup is on the stack.                   *)
LEMMA OpenIsOn ==
    ASSUME NEW r, deferred \in Seq(Resource)
    PROVE  Open(r) <=> On(deferred, r)
  BY DEF Open, ToSet, On

(* What a deferred call finds below it when it is pushed stays below it.   *)
LEMMA PushLayered ==
    ASSUME NEW d \in Seq(Resource), Layered(d), NEW n \in 1..5,
           \A m \in 1..5 : m < n /\ Startup[m] \in Required =>
                              On(d, Startup[m])
    PROVE  /\ <<Startup[n]>> \o d \in Seq(Resource)
           /\ Layered(<<Startup[n]>> \o d)
           /\ On(<<Startup[n]>> \o d, Startup[n])
           /\ \A r : On(d, r) => On(<<Startup[n]>> \o d, r)
  <1>1. PICK r \in Resource : r = Startup[n]
    BY StartupNames
  <1>2. PICK s : s = <<r>>
    OBVIOUS
  <1>3. s \in Seq(Resource) /\ Len(s) = 1 /\ s[1] = r
    BY <1>2
  <1>4. PICK e : e = s \o d
    OBVIOUS
  <1>5. Len(d) \in Nat
    OBVIOUS
  <1>6. /\ e \in Seq(Resource)
        /\ Len(e) = 1 + Len(d)
        /\ \A i \in 1..(1 + Len(d)) : e[i] = IF i <= 1 THEN s[i] ELSE d[i - 1]
    <2>1. /\ s \o d \in Seq(Resource)
          /\ Len(s \o d) = Len(s) + Len(d)
          /\ \A i \in 1..(Len(s) + Len(d)) :
                (s \o d)[i] = IF i <= Len(s) THEN s[i] ELSE d[i - Len(s)]
      BY <1>3, ConcatProperties
    <2> QED
      BY <1>3, <1>4, <2>1
  <1>7. e[1] = r /\ \A i \in 1..Len(d) : i + 1 \in 1..Len(e) /\ e[i + 1] = d[i]
    BY <1>3, <1>5, <1>6
  <1>8. \A x : On(d, x) => \E j \in 1..Len(e) : j > 1 /\ e[j] = x
    <2> SUFFICES ASSUME NEW i \in 1..Len(d)
                 PROVE  \E j \in 1..Len(e) : j > 1 /\ e[j] = d[i]
      BY DEF On
    <2>1. i + 1 \in 1..Len(e) /\ i + 1 > 1 /\ e[i + 1] = d[i]
      BY <1>5, <1>7
    <2> QED
      BY <2>1
  <1>9. ASSUME NEW i \in 1..Len(e), NEW m \in 1..5, NEW l \in 1..5,
               e[i] = Startup[l], m < l, Startup[m] \in Required
        PROVE  \E j \in 1..Len(e) : j > i /\ e[j] = Startup[m]
    <2>1. CASE i = 1
      <3>1. l = n
        BY <1>1, <1>7, <1>9, <2>1, StartupNames
      <3> QED
        BY <1>8, <1>9, <2>1, <3>1
    <2>2. CASE i # 1
      <3>1. i - 1 \in 1..Len(d) /\ d[i - 1] = Startup[l]
        BY <1>5, <1>6, <1>9, <2>2
      <3>2. PICK j \in 1..Len(d) : j > i - 1 /\ d[j] = Startup[m]
        BY <1>9, <3>1 DEF Layered
      <3>3. j + 1 \in 1..Len(e) /\ j + 1 > i /\ e[j + 1] = Startup[m]
        BY <1>5, <1>7, <3>2
      <3> QED
        BY <3>3
    <2> QED
      BY <2>1, <2>2
  <1>10. Layered(e)
    BY <1>9 DEF Layered
  <1>11. On(e, r)
    <2>1. 1 \in 1..Len(e)
      BY <1>5, <1>6
    <2> QED
      BY <1>7, <2>1 DEF On
  <1>12. \A x : On(d, x) => On(e, x)
    BY <1>8 DEF On
  <1> QED
    BY <1>1, <1>2, <1>4, <1>6, <1>10, <1>11, <1>12

(* Running the top cleanup leaves the rest as it was.                      *)
LEMMA PopLayered ==
    ASSUME NEW d \in Seq(Resource), d # << >>, Layered(d)
    PROVE  /\ Tail(d) \in Seq(Resource)
           /\ Layered(Tail(d))
           /\ \A r : On(d, r) /\ r # Head(d) => On(Tail(d), r)
  <1>1. PICK e : e = Tail(d)
    OBVIOUS
  <1>2. /\ e \in Seq(Resource) /\ Len(e) = Len(d) - 1
        /\ \A i \in 1..Len(e) : e[i] = d[i + 1]
        /\ Len(d) \in Nat \ {0} /\ Head(d) = d[1]
    BY <1>1, HeadTailProperties, EmptySeq
  <1>3. \A j \in 1..Len(d) : j > 1 => j - 1 \in 1..Len(e) /\ e[j - 1] = d[j]
    BY <1>2
  <1>4. ASSUME NEW i \in 1..Len(e), NEW m \in 1..5, NEW l \in 1..5,
               e[i] = Startup[l], m < l, Startup[m] \in Required
        PROVE  \E j \in 1..Len(e) : j > i /\ e[j] = Startup[m]
    <2>1. i + 1 \in 1..Len(d) /\ d[i + 1] = Startup[l]
      BY <1>2, <1>4
    <2>2. PICK j \in 1..Len(d) : j > i + 1 /\ d[j] = Startup[m]
      BY <1>4, <2>1 DEF Layered
    <2>3. j - 1 \in 1..Len(e) /\ j - 1 > i /\ e[j - 1] = Startup[m]
      BY <1>2, <1>3, <2>2
    <2> QED
      BY <2>3
  <1>5. \A r : On(d, r) /\ r # Head(d) => On(e, r)
    BY <1>2, <1>3 DEF On
  <1> QED
    BY <1>1, <1>2, <1>4, <1>5 DEF Layered

-----------------------------------------------------------------------------
(* The inductive invariant.                                                *)

Running == {"serving", "shutdown"}

ConnPC == {"none", "handling", "returning", "done"}

Statuses == {NoStatus, "200", "409", "500", "504"}

Conn == [pc : ConnPC, spied : BOOLEAN,
         waited : {"no", "writeTimeout", "deadline"},
         wire : Statuses, status : Statuses, logged : Statuses]

TypeInv ==
    /\ main \in {"startup", "serving", "shutdown", "cleanup", "exited"}
    /\ step \in 0..5
    /\ deferred \in Seq(Resource)
    /\ worker \in [Workers -> {"stopped", "idle", "busy"}]
    /\ conn \in [Conns -> Conn]

(* Where run is fixes what it has opened, who may still need it and which  *)
(* requests it waits for.                                                  *)
ProcessInv ==
    /\ Layered(deferred)
    /\ main = "startup" =>
          \A m \in 1..step : Startup[m] \in Required => On(deferred, Startup[m])
    /\ main \in Running => On(deferred, "workers")
    /\ \A w \in Workers : worker[w] # "stopped" => On(deferred, "workers")
    /\ \A c \in Conns :
          /\ main = "startup" => conn[c].pc = "none"
          /\ InFlight(c) /\ forced = "no" => main \in Running

(* What the client and the spy have seen, by the stage of the request.     *)
Seen(cn) ==
    /\ cn.pc = "handling" => cn.wire = NoStatus
    /\ cn.pc = "returning" =>
          cn.status # NoStatus /\ cn.wire \in {NoStatus, cn.status}
    /\ cn.pc = "done" /\ cn.spied =>
          cn.logged # NoStatus /\ cn.wire \in {NoStatus, cn.logged}

ConnInv == \A c \in Conns : Seen(conn[c])

ShutdownInv == TypeInv /\ ProcessInv /\ ConnInv

(* An unused connection has its type.                                      *)
LEMMA NoConnType == NoConn \in Conn /\ NoConn.pc = "none"
  <1>1. ASSUME NEW b \in BOOLEAN
        PROVE  [pc |-> "none", spied |-> b, waited |-> "no", wire |-> NoStatus,
                status |-> NoStatus, logged |-> NoStatus] \in Conn
    BY DEF Conn, ConnPC, Statuses
  <1> QED
    BY <1>1 DEF NoConn

(* The process starts with nothing opened and no request.                  *)
LEMMA InitInv == Init => ShutdownInv
  <1> SUFFICES ASSUME Init PROVE ShutdownInv
    OBVIOUS
  <1>1. NoConn \in Conn /\ NoConn.pc = "none"
    BY NoConnType
  <1>2. TypeInv
    BY <1>1 DEF Init, TypeInv
  <1>3. \A c \in Conns : conn[c].pc = "none"
    BY <1>1 DEF Init
  <1>4. ProcessInv
    BY <1>3 DEF Init, ProcessInv, Layered, Running, InFlight
  <1>5. ConnInv
    BY <1>3 DEF ConnInv, Seen
  <1> QED
    BY <1>2, <1>4, <1>5 DEF ShutdownInv

-----------------------------------------------------------------------------
(* Steps of run and of the workers, which leave the requests alone.        *)

(* The part of the invariant about the process, with the requests' part    *)
(* kept as it was.                                                         *)
LEMMA QuietConns ==
    ASSUME ShutdownInv, conn' = conn
    PROVE  ConnInv' /\ conn' \in [Conns -> Conn]
  BY DEF ShutdownInv, TypeInv, ConnInv, Seen

(* Opening the next thing defers its cleanup on top of those of everything *)
(* opened before.                                                          *)
LEMMA OpenNextStep == ShutdownInv /\ OpenNext => ShutdownInv'
  <1> SUFFICES ASSUME ShutdownInv, OpenNext PROVE ShutdownInv'
    OBVIOUS
  <1>1. PICK n \in 1..5 : n = step + 1
    BY StartupOrder DEF OpenNext, ShutdownInv, TypeInv
  <1>2. /\ main = "startup" /\ main' = main /\ step' = n
        /\ \/ deferred' = <<Startup[n]>> \o deferred
           \/ Startup[n] = "tracer" /\ deferred' = deferred
        /\ worker' = IF Startup[n] = "workers"
                     THEN [w \in Workers |-> "idle"] ELSE worker
        /\ conn' = conn /\ forced' = forced
    BY <1>1 DEF OpenNext
  <1>3. \A m \in 1..5 : m < n /\ Startup[m] \in Required =>
                           On(deferred, Startup[m])
    BY <1>1, <1>2 DEF ShutdownInv, TypeInv, ProcessInv
  <1>4. /\ deferred' \in Seq(Resource) /\ Layered(deferred')
        /\ \A r : On(deferred, r) => On(deferred', r)
        /\ Startup[n] # "tracer" => On(deferred', Startup[n])
    BY <1>2, <1>3, PushLayered DEF ShutdownInv, TypeInv, ProcessInv
  <1>5. \A m \in 1..n : Startup[m] \in Required => On(deferred', Startup[m])
    <2> SUFFICES ASSUME NEW m \in 1..n, Startup[m] \in Required
                 PROVE  On(deferred', Startup[m])
      OBVIOUS
    <2>1. CASE m = n
      BY <1>4, <2>1 DEF Required
    <2>2. CASE m # n
      BY <1>3, <1>4, <2>2
    <2> QED
      BY <2>1, <2>2
  <1>6. TypeInv'
    BY <1>2, <1>4, QuietConns DEF ShutdownInv, TypeInv
  <1>7. \A w \in Workers : worker'[w] # "stopped" => On(deferred', "workers")
    <2>1. CASE Startup[n] = "workers"
      BY <1>4, <2>1
    <2>2. CASE Startup[n] # "workers"
      BY <1>2, <1>4, <2>2 DEF ShutdownInv, ProcessInv
    <2> QED
      BY <2>1, <2>2
  <1>8. ProcessInv'
    BY <1>2, <1>4, <1>5, <1>7
       DEF ShutdownInv, ProcessInv, Running, InFlight
  <1> QED
    BY <1>2, <1>6, <1>8, QuietConns DEF ShutdownInv

(* The defers run from the top, so what a cleanup leaves open still has    *)
(* its own below it.                                                       *)
LEMMA CleanupStep == ShutdownInv /\ Cleanup => ShutdownInv'
  <1> SUFFICES ASSUME ShutdownInv, Cleanup PROVE ShutdownInv'
    OBVIOUS
  <1>1. main = "cleanup" /\ UNCHANGED <<step, worker, conn, forced>>
    BY DEF Cleanup
  <1>2. CASE deferred = << >>
    <2>1. main' = "exited" /\ deferred' = deferred
      BY <1>2 DEF Cleanup
    <2> QED
      BY <1>1, <2>1, QuietConns
         DEF ShutdownInv, TypeInv, ProcessInv, Running, InFlight
  <1>3. CASE deferred # << >>
    <2>1. /\ main' = main /\ deferred' = Tail(deferred)
          /\ Head(deferred) = "workers" =>
                \A w \in Workers : worker[w] = "stopped"
      BY <1>3 DEF Cleanup
    <2>2. /\ deferred' \in Seq(Resource) /\ Layered(deferred')
          /\ \A r : On(deferred, r) /\ r # Head(deferred) => On(deferred', r)
      BY <1>3, <2>1, PopLayered DEF ShutdownInv, TypeInv, ProcessInv
    <2>3. \A w \in Workers : worker'[w] # "stopped" => On(deferred', "workers")
      BY <1>1, <2>1, <2>2 DEF ShutdownInv, ProcessInv
    <2>4. ProcessInv'
      BY <1>1, <2>1, <2>2, <2>3 DEF ShutdownInv, ProcessInv, Running, InFlight
    <2> QED
      BY <1>1, <2>1, <2>2, <2>4, QuietConns DEF ShutdownInv, TypeInv
  <1> QED
    BY <1>2, <1>3

(* Steps that serve, signal or drain leave the stack of defers alone.      *)
LEMMA RunStep ==
    ASSUME ShutdownInv,
           \/ StartupFails \/ Serve \/ Drained \/ DrainTimeout
           \/ Signal \/ ServerFails \/ Exited
    PROVE  ShutdownInv'
  <1>1. UNCHANGED <<step, deferred, worker, conn>>
    BY DEF StartupFails, Serve, Drained, DrainTimeout, Signal, ServerFails,
           Exited, vars, process
  <1>2. main' \in {"startup", "serving", "shutdown", "cleanup", "exited"}
    BY DEF StartupFails, Serve, Drained, DrainTimeout, Signal, ServerFails,
           Exited, vars, process, ShutdownInv, TypeInv
  <1>3. main' = "startup" => main = "startup"
    BY DEF StartupFails, Serve, Drained, DrainTimeout, Signal, ServerFails,
           Exited, vars, process
  <1>4. main' \in Running => On(deferred, "workers")
    <2>1. CASE Serve
      <3>1. main = "startup" /\ step = 5
        BY <2>1, StartupOrder DEF Serve
      <3> QED
        BY <3>1, StartupOrder DEF ShutdownInv, ProcessInv, Required
    <2>2. CASE ~Serve
      <3>1. main' \in Running => main \in Running
        BY <2>2 DEF StartupFails, Drained, DrainTimeout, Signal, ServerFails,
                    Exited, vars, process, Running
      <3> QED
        BY <3>1 DEF ShutdownInv, ProcessInv
    <2> QED
      BY <2>1, <2>2
  <1>5. ASSUME NEW c \in Conns, InFlight(c), forced' = "no"
        PROVE  main' \in Running
    <2>1. main # "startup"
      BY <1>5 DEF ShutdownInv, ProcessInv, InFlight
    <2>2. ~Drained /\ ~DrainTimeout /\ ~ServerFails
      BY <1>5 DEF Drained, DrainTimeout, ServerFails
    <2>3. forced = "no" /\ main \in Running
      <3>1. forced = "no"
        BY <1>5, <2>2 DEF StartupFails, Serve, Signal, Exited, vars, process
      <3> QED
        BY <1>5, <3>1 DEF ShutdownInv, ProcessInv
    <2> QED
      BY <2>1, <2>2, <2>3
         DEF StartupFails, Serve, Signal, Exited, vars, process, Running
  <1>6. TypeInv'
    BY <1>1, <1>2, QuietConns DEF ShutdownInv, TypeInv
  <1>7. ProcessInv'
    BY <1>1, <1>3, <1>4, <1>5 DEF ShutdownInv, ProcessInv, InFlight
  <1> QED
    BY <1>1, <1>6, <1>7, QuietConns DEF ShutdownInv

(* What a worker goroutine does leaves run and the requests alone.         *)
LEMMA WorkerStepInv ==
    ASSUME ShutdownInv, NEW w \in Workers, WorkerStep(w)
    PROVE  ShutdownInv'
  <1>1. UNCHANGED <<main, step, deferred, forced, conn>>
    BY DEF WorkerStep, TakeTask, FinishTask, StopWorker, process
  <1>2. /\ worker[w] # "stopped"
        /\ worker' \in [Workers -> {"stopped", "idle", "busy"}]
        /\ \A v \in Workers \ {w} : worker'[v] = worker[v]
    BY DEF WorkerStep, TakeTask, FinishTask, StopWorker, ShutdownInv, TypeInv
  <1>3. ProcessInv'
    BY <1>1, <1>2 DEF ShutdownInv, ProcessInv, Running, InFlight
  <1> QED
    BY <1>1, <1>2, <1>3, QuietConns DEF ShutdownInv, TypeInv

-----------------------------------------------------------------------------
(* Steps of a request.                                                     *)

(* WriteHeader puts the first status on the wire, unless the deadline has  *)
(* passed, and keeps the latest in the spy.                                *)
LEMMA WriteHeaderIs ==
    ASSUME NEW cn \in Conn, NEW s \in Statuses
    PROVE  /\ WriteHeader(cn, s) \in Conn
           /\ WriteHeader(cn, s).status = s
           /\ WriteHeader(cn, s).waited = cn.waited
           /\ WriteHeader(cn, s).wire =
                 IF cn.wire = NoStatus /\ cn.waited = "no" THEN s ELSE cn.wire
  BY DEF WriteHeader, Conn

(* A handler that returns keeps what it has written.                       *)
LEMMA Returns ==
    ASSUME NEW cn \in Conn
    PROVE  /\ [cn EXCEPT !.pc = "returning"] \in Conn
           /\ [cn EXCEPT !.pc = "returning"].pc = "returning"
           /\ [cn EXCEPT !.pc = "returning"].status = cn.status
           /\ [cn EXCEPT !.pc = "returning"].wire = cn.wire
  BY DEF Conn, ConnPC

(* A request steps to a state cn that fits what its client and its spy     *)
(* have seen; only a serving process lets a new one in.                    *)
LEMMA ConnMoves ==
    ASSUME ShutdownInv, NEW c \in Conns, NEW cn \in Conn, Seen(cn),
           conn' = [conn EXCEPT ![c] = cn],
           main # "startup",
           cn.pc \in {"handling", "returning"} => InFlight(c) \/ main = "serving",
           UNCHANGED <<process, worker>>
    PROVE  ShutdownInv'
  <1>1. UNCHANGED <<main, step, deferred, forced, worker>>
    BY DEF process
  <1>2. /\ conn' \in [Conns -> Conn]
        /\ conn'[c] = cn
        /\ \A d \in Conns \ {c} : conn'[d] = conn[d]
    BY DEF ShutdownInv, TypeInv
  <1>3. TypeInv'
    BY <1>1, <1>2 DEF ShutdownInv, TypeInv
  <1>4. ConnInv'
    BY <1>2 DEF ShutdownInv, ConnInv
  <1>5. ProcessInv'
    BY <1>1, <1>2 DEF ShutdownInv, ProcessInv, Running, InFlight
  <1> QED
    BY <1>3, <1>4, <1>5 DEF ShutdownInv

(* Each step of a request through the middleware chain.                    *)
LEMMA RequestStepInv ==
    ASSUME ShutdownInv, NEW c \in Conns, RequestStep(c)
    PROVE  ShutdownInv'
  <1>0. /\ conn[c] \in Conn /\ Seen(conn[c])
        /\ conn[c].pc # "none" => main # "startup"
    BY DEF ShutdownInv, TypeInv, ConnInv, ProcessInv
  <1>1. CASE AcceptRequest(c)
    <2>1. PICK spied \in BOOLEAN :
             conn' = [conn EXCEPT ![c] = [NoConn EXCEPT !.pc = "handling",
                                                        !.spied = spied]]
      BY <1>1 DEF AcceptRequest
    <2> DEFINE cn == [NoConn EXCEPT !.pc = "handling", !.spied = spied]
    <2>2. cn \in Conn /\ cn.pc = "handling" /\ cn.wire = NoStatus
      BY NoConnType DEF Conn, ConnPC, NoConn
    <2>3. Seen(cn)
      BY <2>2 DEF Seen
    <2>4. main = "serving" /\ UNCHANGED <<process, worker>>
      BY <1>1 DEF AcceptRequest
    <2> HIDE DEF cn
    <2>5. conn' = [conn EXCEPT ![c] = cn]
      BY <2>1 DEF cn
    <2> QED
      BY <2>2, <2>3, <2>4, <2>5, ConnMoves
  <1>2. CASE TimePasses(c)
    <2>1. PICK d \in {"writeTimeout", "deadline"} :
             conn' = [conn EXCEPT ![c] = [conn[c] EXCEPT !.waited = d]]
      BY <1>2 DEF TimePasses
    <2> DEFINE cn == [conn[c] EXCEPT !.waited = d]
    <2>2. /\ conn[c].pc = "handling"
          /\ cn \in Conn /\ cn.pc = conn[c].pc /\ cn.wire = conn[c].wire
      BY <1>0, <1>2 DEF Conn, TimePasses
    <2> HIDE DEF cn
    <2>3. Seen(cn)
      BY <1>0, <2>2 DEF Seen
    <2>4. conn' = [conn EXCEPT ![c] = cn] /\ UNCHANGED <<process, worker>>
      BY <1>2, <2>1 DEF cn, TimePasses
    <2> QED
      BY <1>0, <2>2, <2>3, <2>4, ConnMoves DEF InFlight
  <1>3. ASSUME NEW s \in {"200", "409", "500"}, Respond(c, s)
        PROVE  ShutdownInv'
    <2> DEFINE answered == WriteHeader(conn[c], s)
               final == IF conn[c].waited = "deadline"
                        THEN WriteHeader(answered, "504") ELSE answered
               cn == [final EXCEPT !.pc = "returning"]
    <2>1. /\ conn[c].pc = "handling" /\ UNCHANGED <<process, worker>>
          /\ conn' = [conn EXCEPT ![c] = cn]
      BY <1>3 DEF Respond
    <2>2. conn[c].wire = NoStatus
      BY <1>0, <2>1 DEF Seen
    <2>3. /\ answered \in Conn /\ answered.status = s
          /\ answered.waited = conn[c].waited
          /\ answered.wire = IF conn[c].waited = "no" THEN s ELSE NoStatus
      BY <1>0, <1>3, <2>2, WriteHeaderIs DEF Statuses
    <2> HIDE DEF answered
    <2>4. /\ final \in Conn /\ final.status # NoStatus
          /\ final.wire \in {NoStatus, final.status}
      <3>1. CASE conn[c].waited = "deadline"
        <4>1. /\ WriteHeader(answered, "504") \in Conn
              /\ WriteHeader(answered, "504").status = "504"
              /\ WriteHeader(answered, "504").wire = NoStatus
          BY <2>3, <3>1, WriteHeaderIs DEF Statuses
        <4> QED
          BY <3>1, <4>1 DEF NoStatus
      <3>2. CASE conn[c].waited # "deadline"
        BY <1>3, <2>3, <3>2 DEF NoStatus
      <3> QED
        BY <3>1, <3>2
    <2> HIDE DEF final
    <2>5. /\ cn \in Conn /\ cn.pc = "returning"
          /\ cn.status # NoStatus /\ cn.wire \in {NoStatus, cn.status}
      BY <2>4, Returns
    <2> HIDE DEF cn
    <2>6. Seen(cn)
      BY <2>5 DEF Seen
    <2> QED
      BY <1>0, <2>1, <2>5, <2>6, ConnMoves DEF InFlight
  <1>4. CASE Panic(c)
    <2> DEFINE answered == WriteHeader(conn[c], "500")
               cn == [answered EXCEPT !.pc = "returning"]
    <2>1. /\ conn[c].pc = "handling" /\ UNCHANGED <<process, worker>>
          /\ conn' = [conn EXCEPT ![c] = cn]
      BY <1>4 DEF Panic
    <2>2. conn[c].wire = NoStatus
      BY <1>0, <2>1 DEF Seen
    <2>3. /\ answered \in Conn /\ answered.status = "500"
          /\ answered.wire \in {NoStatus, "500"}
      BY <1>0, <2>2, WriteHeaderIs DEF Statuses
    <2> HIDE DEF answered
    <2>4. /\ cn \in Conn /\ cn.pc = "returning"
          /\ cn.status # NoStatus /\ cn.wire \in {NoStatus, cn.status}
      BY <2>3, Returns DEF NoStatus
    <2> HIDE DEF cn
    <2>5. Seen(cn)
      BY <2>4 DEF Seen
    <2> QED
      BY <1>0, <2>1, <2>4, <2>5, ConnMoves DEF InFlight
  <1>5. CASE LogRequest(c)
    <2>1. PICK l \in Statuses :
             /\ conn[c].spied => l = conn[c].status
             /\ conn' = [conn EXCEPT ![c] = [conn[c] EXCEPT !.pc = "done",
                                                            !.logged = l]]
      <3> DEFINE l == IF conn[c].spied THEN conn[c].status ELSE NoStatus
      <3>1. l \in Statuses
        BY <1>0 DEF Conn, Statuses
      <3>2. conn' = [conn EXCEPT ![c] = [conn[c] EXCEPT !.pc = "done",
                                                        !.logged = l]]
        BY <1>5 DEF LogRequest
      <3> QED
        BY <3>1, <3>2
    <2> DEFINE cn == [conn[c] EXCEPT !.pc = "done", !.logged = l]
    <2>2. /\ cn \in Conn /\ cn.pc = "done" /\ cn.logged = l
          /\ cn.wire = conn[c].wire
      BY <1>0 DEF Conn, ConnPC
    <2>3. cn.spied = conn[c].spied
      BY <1>0 DEF Conn
    <2>4. conn[c].pc = "returning" /\ UNCHANGED <<process, worker>>
      BY <1>5 DEF LogRequest
    <2> HIDE DEF cn
    <2>5. Seen(cn)
      BY <1>0, <2>1, <2>2, <2>3, <2>4 DEF Seen
    <2>6. conn' = [conn EXCEPT ![c] = cn]
      BY <2>1 DEF cn
    <2> QED
      BY <1>0, <2>2, <2>4, <2>5, <2>6, ConnMoves
  <1>6. CASE CloseRequest(c)
    <2>1. /\ conn[c].pc = "done" /\ conn' = [conn EXCEPT ![c] = NoConn]
          /\ UNCHANGED <<process, worker>>
      BY <1>6 DEF CloseRequest
    <2>2. Seen(NoConn)
      BY NoConnType DEF Seen
    <2> QED
      BY <1>0, <2>1, <2>2, NoConnType, ConnMoves
  <1> QED
    BY <1>1, <1>2, <1>3, <1>4, <1>5, <1>6 DEF RequestStep

(* Every step keeps the invariant.                                         *)
LEMMA InvStep == ShutdownInv /\ [Next]_vars => ShutdownInv'
  <1> SUFFICES ASSUME ShutdownInv, [Next]_vars PROVE ShutdownInv'
    OBVIOUS
  <1>1. CASE UNCHANGED vars
    <2>1. UNCHANGED <<main, step, deferred, forced, worker, conn>>
      BY <1>1 DEF vars, process
    <2>2. ProcessInv'
      BY <2>1 DEF ShutdownInv, ProcessInv, InFlight
    <2> QED
      BY <2>1, <2>2, QuietConns DEF ShutdownInv, TypeInv
  <1> QED
    BY <1>1, OpenNextStep, CleanupStep, RunStep, WorkerStepInv, RequestStepInv
       DEF Next, MainStep

(* It holds throughout.                                                    *)
LEMMA ShutdownInvariant == Spec => []ShutdownInv
  BY InitInv, InvStep, PTL DEF Spec

-----------------------------------------------------------------------------
(* What lies under the pool's Stop, and under any cleanup.                 *)
LEMMA StackHolds ==
    ASSUME ShutdownInv
    PROVE  /\ On(deferred, "workers") =>
                 Open("postgres") /\ Open("redis") /\ Open("logger")
           /\ deferred # << >> => Open("logger")
  <1>1. deferred \in Seq(Resource) /\ Layered(deferred)
    BY DEF ShutdownInv, TypeInv, ProcessInv
  <1>2. ASSUME NEW m \in 1..5, NEW n \in 1..5, m < n, Startup[m] \in Required,
               On(deferred, Startup[n])
        PROVE  Open(Startup[m])
    BY <1>1, <1>2, OpenIsOn DEF Layered, On
  <1>3. On(deferred, "workers") =>
           Open("postgres") /\ Open("redis") /\ Open("logger")
    BY <1>2, StartupOrder DEF Required
  <1>4. ASSUME deferred # << >>
        PROVE  Open("logger")
    <2>1. 1 \in 1..Len(deferred) /\ deferred[1] \in Resource
      BY <1>1, <1>4, EmptySeq
    <2>2. PICK n \in 1..5 : deferred[1] = Startup[n]
      BY <2>1, StartupOrder DEF Resource
    <2>3. On(deferred, Startup[n])
      BY <2>1, <2>2 DEF On
    <2>4. CASE n = 1
      BY <1>1, <2>3, <2>4, StartupOrder, OpenIsOn
    <2>5. CASE n # 1
      BY <1>2, <2>3, <2>5, StartupOrder DEF Required
    <2> QED
      BY <2>4, <2>5
  <1> QED
    BY <1>3, <1>4

(* "Worker pool must stop before Redis/Postgres close" (main.go:126): for  *)
(* any number of workers and on every path out of run, a worker that has   *)
(* not stopped finds both clients open.                                    *)
THEOREM WorkersKeepClients == Spec => []WorkersHaveClients
  <1>1. ShutdownInv => WorkersHaveClients
    BY StackHolds DEF ShutdownInv, ProcessInv, WorkersHaveClients
  <1> QED
    BY <1>1, ShutdownInvariant, PTL

(* A request that run waits for finds Postgres and Redis open.             *)
THEOREM RequestsKeepClients == Spec => []RequestsHaveClients
  <1>1. ShutdownInv => RequestsHaveClients
    BY StackHolds DEF ShutdownInv, ProcessInv, RequestsHaveClients
  <1> QED
    BY <1>1, ShutdownInvariant, PTL

(* "Registered first so it runs last" (main.go:51): the log file outlives  *)
(* the workers, the requests run waits for and every other cleanup.        *)
THEOREM LogClosesLast == Spec => []LogOutlivesUsers
  <1>1. ShutdownInv => LogOutlivesUsers
    BY StackHolds DEF ShutdownInv, ProcessInv, LogOutlivesUsers
  <1> QED
    BY <1>1, ShutdownInvariant, PTL

(* The request log never tells another status than the client received,    *)
(* whatever Timeout and Recoverer add, and misses no request.              *)
THEOREM LogTellsTruth == Spec => []LogTellsAnswer
  <1>1. ShutdownInv => LogTellsAnswer
    BY DEF ShutdownInv, ConnInv, Seen, LogTellsAnswer
  <1> QED
    BY <1>1, ShutdownInvariant, PTL
=============================================================================
