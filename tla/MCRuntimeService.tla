--------------------------- MODULE MCRuntimeService ---------------------------
(* RuntimeService for two conversations, a sub-agent, two deletions, which may *)
(* be of the same conversation, and a settings request.                        *)
EXTENDS RuntimeService

CONSTANTS s1, s2, c1, d1, d2, a1
=============================================================================
