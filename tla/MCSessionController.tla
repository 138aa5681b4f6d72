------------------------- MODULE MCSessionController -------------------------
(* A conversation with a few messages of each kind, and questions.  The focus  *)
(* of a behaviour names what comes beside a user message.                      *)
EXTENDS Questions, TLC

CONSTANTS i1, i2, i3, q1, q2, qr1, qr2, r1

VARIABLE focus

Reporting == q1 :> qr1 @@ q2 :> qr2

Unasked(qs)   == \A q \in qs : stage'[q] = "none"
Absent(ms) == ms \intersect accepted' = {}

Focus ==
  \/ focus = "queue"     /\ Unasked({q1, q2})
  \/ focus = "question"  /\ Unasked({q2}) /\ Absent({r1, i3})
  \/ focus = "questions" /\ Absent({r1, i2, i3})

\* User messages differ in nothing but their order.
InTurn == /\ i2 \in accepted' => i1 \in accepted'
          /\ i3 \in accepted' => i2 \in accepted'

MCInit == QuestionsInit /\ focus \in {"queue", "question", "questions"}
MCNext == QuestionsNext /\ Focus /\ InTurn /\ UNCHANGED focus
MCSpec == MCInit /\ [][MCNext]_<<allVars, focus>> /\ QuestionsFairness
=============================================================================
