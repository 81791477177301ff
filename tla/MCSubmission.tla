---------------------------- MODULE MCSubmission ----------------------------
(* Model values and request bodies for checking Submission with TLC.       *)
EXTENDS Submission, TLC

CONSTANTS t1, t2, t3, k1, k2, c1, c2, c3

(* One key for a known priority, the other for one nobody knows.           *)
Immediate(k) ==
    [key |-> k, next |-> << >>,
     step |-> [priority |-> IF k = k1 THEN "low" ELSE "other",
               executeAt |-> FALSE]]

(* The same key with an execute_at and a chained step.                     *)
Deferred(k) ==
    [key |-> k, next |-> <<[priority |-> "none", executeAt |-> FALSE]>>,
     step |-> [priority |-> "low", executeAt |-> TRUE]]

AllRequests == {Immediate(k) : k \in Keys} \cup {Deferred(k1)}

Symmetry == Permutations(Tasks) \cup Permutations(Clients)
=============================================================================
