--------------------------- MODULE MCTaskPlatform ---------------------------
(* Model values and request bodies for checking TaskPlatform with TLC.     *)
EXTENDS TaskPlatform, TLC

CONSTANTS t1, t2, t3, w1, a1, c1, k1

Now(p)   == [priority |-> p, executeAt |-> FALSE]
Later(p) == [priority |-> p, executeAt |-> TRUE]

NoTasks == {}

(* One further step, and two further steps the first of which is scheduled.*)
ChainRequests ==
    {[key |-> k1, step |-> Now("high"), next |-> <<Now("none")>>],
     [key |-> k1, step |-> Now("high"), next |-> <<Later("none"), Now("low")>>]}

Symmetry == Permutations(Tasks)
=============================================================================
