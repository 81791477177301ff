----------------------------- MODULE PulseQueue -----------------------------
(***************************************************************************)
(* The Redis queue of the pulse library (external), as the handlers, the   *)
(* chaining wrapper and the worker pool use it: three priority lists, the  *)
(* scheduled set and the dead-letter list.                                 *)
(*                                                                         *)
(* A list may hold the same id more than once, and nothing relies on the   *)
(* order inside one list, so a list is the number of occurrences of every  *)
(* id.  The scheduled set is a Redis sorted set: its members are (id,      *)
(* priority) pairs and adding one twice leaves one.  RemoveFromDLQ deletes *)
(* every occurrence, so the dead-letter list is a set of ids.              *)
(***************************************************************************)
EXTENDS EventTable

Ready == [Priorities -> [Tasks -> Nat]]

Scheduled == Tasks \X PriorityColumn

EmptyReady == [p \in Priorities |-> [t \in Tasks |-> 0]]

(* An empty or unknown priority goes to the medium list.                   *)
Level(priority) == IF priority \in Priorities THEN priority ELSE "medium"

Higher(p) ==
    CASE p = "high"   -> {}
      [] p = "medium" -> {"high"}
      [] p = "low"    -> {"high", "medium"}

EnqueueWithPriority(ready, id, priority) ==
    [ready EXCEPT ![Level(priority)][id] = @ + 1]

Queued(ready, id) == \E p \in Priorities : ready[p][id] > 0

(* Workers drain high before medium before low.                            *)
CanDequeue(ready, p, id) ==
    /\ ready[p][id] > 0
    /\ \A h \in Higher(p), t \in Tasks : ready[h][t] = 0

(* Mutant: the id is read and left in the list.                            *)
BugDequeue(ready, p, id) == ready

Dequeue(ready, p, id) == [ready EXCEPT ![p][id] = @ - 1]

Schedule(scheduled, id, priority) == scheduled \cup {<<id, priority>>}

Unschedule(scheduled, entry) == scheduled \ {entry}

OnSchedule(scheduled, id) == \E p \in PriorityColumn : <<id, p>> \in scheduled

EnqueueToDLQ(dlq, id) == dlq \cup {id}

RemoveFromDLQ(dlq, id) == dlq \ {id}
=============================================================================
