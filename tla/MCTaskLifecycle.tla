-------------------------- MODULE MCTaskLifecycle --------------------------
(* Model values and request bodies for checking TaskLifecycle with TLC.    *)
EXTENDS TaskRefinement, TLC

CONSTANTS t1, t2, t3, w1, w2, a1, a2

Now(p)   == [priority |-> p, executeAt |-> FALSE]
Later(p) == [priority |-> p, executeAt |-> TRUE]

(* A request for step s followed by the chained steps next.                *)
Body(s, next) == [step |-> s, next |-> next]

OneTask == {t1}

(* Chained and not, scheduled and not.                                     *)
PlainBodies == {Body(Now("low"), << >>), Body(Later("high"), << >>)}
ChainBodies == {Body(Now("high"), <<Now("none")>>),
               Body(Now("medium"), <<Later("none"), Now("low")>>)}
LiveBodies  == {Body(Later("high"), <<Now("low")>>)}

(* Workers are interchangeable, and so are admin requests.                 *)
Symmetry == Permutations(Workers) \cup Permutations(Admins)
============================================================================
