-------------------------- MODULE MCTaskHandlers --------------------------
(* Instance of TaskHandlers for TLC: the chains themselves are enumerated  *)
(* by the initial predicate.                                               *)
EXTENDS TaskHandlers
===========================================================================
