----------------------------- MODULE MCAliveLoop -----------------------------
(* Two threads; a refresh every third round, metadata every second one.    *)
EXTENDS AliveLoop
==============================================================================
