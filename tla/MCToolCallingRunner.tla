-------------------------- MODULE MCToolCallingRunner --------------------------
(* ToolCallingRunner with a few iterations, calls and inputs. *)
EXTENDS ToolCallingRunner, TLC

Symmetry == Permutations(Inputs)
=============================================================================
