--------------------------- MODULE MCSessionManager ---------------------------
(* Small instances of SessionManager for TLC. *)
EXTENDS SessionManager

Symmetry == Permutations(Clients) \union Permutations(Turns)
=============================================================================
