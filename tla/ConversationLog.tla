--------------------------- MODULE ConversationLog ----------------------------
(***************************************************************************)
(* What a persisted session promises: a log of messages that a turn        *)
(* extends, that recovery closes, that the UI annotates, and that only a   *)
(* clear or a delete empties.  No version already stored is rolled back.   *)
(***************************************************************************)
EXTENDS Transcript

VARIABLE log

Init == log = <<>>

\* A turn or a checkpoint adds messages.
Extend == IsStrictPrefix(log, log')

\* recover: provider fields only, lost results filled in, a closing reply.
Close == log' = Recovered(log)

\* The provider fields of every message are kept.
Annotate == SanitizeMessages(log') = SanitizeMessages(log)

Erase == log' = <<>>

Next == Extend \/ Close \/ Annotate \/ Erase

Spec == Init /\ [][Next]_log
=============================================================================
