-------------------------------- MODULE MCTools --------------------------------
(* Small instances of the built-in tools for TLC, ExecSessions and FileTools.  *)
(* The focus of a behaviour names the tools it uses and what its environment   *)
(* varies, so that the instances add up.                                       *)
EXTENDS ExecSessions, MCFileTools

CONSTANTS o1, o2, x1, s1, s2, s3

VARIABLE focus

Unused(ss) == \A s \in ss : ses'[s] = NoProcess

Focus ==
  \/ focus = "table"  /\ Unused({s3}) /\ \A s \in Sessions : ~ses'[s].kids
  \/ focus = "output" /\ Unused({s1, s2}) /\ task'[o2] = NoCall /\ task'[x1] = NoCall

\* Scripts of files, or none.
NoScript == Script(<<>>, <<>>, 0, 0, {})

MCInit ==
  /\ Init
  /\ \/ focus \in {"table", "output"} /\ script = NoScript
     \/ focus = "files" /\ script \in Scripts
  /\ FilesInitial

MCNext ==
  /\ UNCHANGED focus
  /\ \/ Next /\ Focus /\ UNCHANGED fileVars
     \/ FilesNext /\ UNCHANGED vars

MCSpec == MCInit /\ [][MCNext]_<<vars, fileVars, focus>> /\ Fairness
=============================================================================
