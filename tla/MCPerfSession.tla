---------------------------- MODULE MCPerfSession ----------------------------
(* The session has no constants: its state space is finite as it stands.   *)
EXTENDS PerfSession
==============================================================================
