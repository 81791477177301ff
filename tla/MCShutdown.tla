----------------------------- MODULE MCShutdown -----------------------------
(* Model values for checking Shutdown with TLC.                            *)
EXTENDS Shutdown

CONSTANTS w1, w2, w3, c1, c2
=============================================================================
