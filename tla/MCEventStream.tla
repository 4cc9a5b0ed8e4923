---------------------------- MODULE MCEventStream ----------------------------
(***************************************************************************)
(* Instance of EventStream: one place of each kind, and either two clients *)
(* for the SSE place or a dashboard that reconnects once.                  *)
(***************************************************************************)
EXTENDS EventStream

CONSTANTS s1, s2, w1, w2

MCOpenings == {{s1, s2}, {w1, w2}}
===============================================================================
