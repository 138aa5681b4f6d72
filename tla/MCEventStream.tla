----------------------------- MODULE MCEventStream -----------------------------
(* EventStream with a small queue. *)
EXTENDS EventStream, TLC
=============================================================================
