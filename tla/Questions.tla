------------------------------- MODULE Questions -------------------------------
(***************************************************************************)
(* Questions to the user (chat/questions.py, and ask_user, answer_question *)
(* and _finish_question of chat/session.py), on top of the controller      *)
(* whose run asks them.  The run waits in the foreground; when that takes  *)
(* too long a background task waits on and reports the outcome.            *)
(*                                                                         *)
(* A question and the message its late answer becomes have one id, as in   *)
(* the code; a run asks each question once.                                *)
(***************************************************************************)
EXTENDS SessionController

CONSTANT ReportOf      \* ReportOf[q]: the id of the report of q, "ask_user:" and its id

ASSUME ReportOfAssumption ==
  ReportOf \in [Answers -> Reports] /\ \A q, r \in Answers : ReportOf[q] = ReportOf[r] => q = r

VARIABLES
  cards,    \* questions: those a client is shown
  stage,    \* stage[q]: who waits for the answer
  future,   \* future[q]: the answer it waits for, "none" without a Future
  reply,    \* reply[q]: what the user said, and was told is accepted (history)
  told      \* told[q]: what the model was told, in order (history)

questionVars == <<cards, stage, future, reply, told>>
allVars == <<vars, questionVars>>

Replies == {"answered", "skipped"}

QuestionsInit ==
  /\ Init
  /\ cards = {}
  /\ stage  = [q \in Answers |-> "none"]
  /\ future = [q \in Answers |-> "none"]
  /\ reply  = [q \in Answers |-> "none"]
  /\ told   = [q \in Answers |-> <<>>]

Done(q)    == future[q] \in Replies
Asking     == \E q \in Answers : stage[q] = "foreground"
Tell(q, w) == told' = [told EXCEPT ![q] = Append(@, w)]
Enter(q, s, f) == stage' = [stage EXCEPT ![q] = s] /\ future' = [future EXCEPT ![q] = f]

\* ask_user, called by the run; tools that are not parallel-safe run one by one.
Ask(q) ==
  /\ phase = "running" /\ open /\ ~cancelled /\ ~Asking
  /\ ~closing /\ ~stopping
  /\ stage[q] = "none"
  /\ cards' = cards \union {q}
  /\ Enter(q, "foreground", "open")
  /\ UNCHANGED <<vars, reply, told>>

\* wait: the answer came, or the time is up, or the run is stopped, which also
\* loses an answer the run has not woken up for.
Answered(q) ==
  /\ stage[q] = "foreground" /\ Done(q) /\ ~cancelled
  /\ Enter(q, "over", "none")
  /\ Tell(q, future[q])
  /\ UNCHANGED <<vars, cards, reply>>

Expires(q) ==
  /\ stage[q] = "foreground" /\ ~Done(q) /\ ~cancelled
  /\ Enter(q, "background", "open")
  /\ Tell(q, "pending")
  /\ UNCHANGED <<vars, cards, reply>>

Interrupted(q) ==
  /\ stage[q] = "foreground" /\ cancelled
  /\ Enter(q, IF Done(q) THEN "lost" ELSE "interrupted", "none")
  /\ UNCHANGED <<vars, cards, reply, told>>

\* answer_question: to whoever waits, unless the run it would go to is being stopped;
\* with no one waiting an answer becomes a message, and a skip only takes the card.
Waits(q) == future[q] = "open" /\ (stage[q] = "background" \/ ~stopping)

Answer(q, r) ==
  /\ ~closing /\ q \in cards /\ ~Done(q)
  /\ reply' = [reply EXCEPT ![q] = r]
  /\ IF Waits(q)
     THEN /\ future' = [future EXCEPT ![q] = r]
          /\ cards' = IF stage[q] = "background" THEN cards ELSE cards \ {q}
          /\ UNCHANGED <<vars, told>>
     ELSE /\ IF r = "answered" THEN SubmitAnswer(q) /\ Tell(q, r) ELSE UNCHANGED <<vars, told>>
          /\ cards' = cards \ {q}
          /\ UNCHANGED future
  /\ UNCHANGED stage

\* _wait_background: the answer came, or the time is up; the card is closed.
Skip(q) == "skipped"                         \* mutant: the late answer is overwritten
Outcome(q) == IF Done(q) THEN future[q] ELSE "skipped"

BackgroundEnds(q) ==
  /\ stage[q] = "background"
  /\ IF closing THEN Enter(q, "over", "none") /\ UNCHANGED cards
     ELSE /\ Enter(q, "reporting", Outcome(q))
          /\ cards' = cards \ {q}
  /\ UNCHANGED <<vars, reply, told>>

\* The second half of _finish_question: notify.
ReportDropped(q) == closing \/ paused        \* mutant: a paused conversation gets no report
NoReport(q) == closing

Reported(q) ==
  /\ stage[q] = "reporting"
  /\ IF NoReport(q) THEN UNCHANGED <<vars, told>>
     ELSE Notify(ReportOf[q]) /\ Tell(q, future[q])
  /\ Enter(q, "over", "none")
  /\ UNCHANGED <<cards, reply>>

\* close, once its cancel has ended: no background task is left to deliver.
CloseQuestions ==
  /\ CloseEnds
  /\ cards' = {}
  /\ stage' = [q \in Answers |-> IF stage[q] = "background" THEN "over" ELSE stage[q]]
  /\ future' = [q \in Answers |-> IF stage[q] = "reporting" THEN future[q] ELSE "none"]
  /\ UNCHANGED <<reply, told>>

-------------------------------------------------------------------------------
\* The run goes on, or unwinds, when no tool of it waits.
Take         == Drain /\ ~Asking /\ UNCHANGED questionVars
EndRun       == (CloseIfEmpty \/ CloseOnError \/ CloseOnCancel) /\ ~Asking /\ UNCHANGED questionVars
LeaveRun     == Finish /\ UNCHANGED questionVars
BeginRun     == TaskBegins /\ UNCHANGED questionVars
GetReady     == StreamReady /\ UNCHANGED questionVars
StopReturns  == StopEnds /\ UNCHANGED questionVars

Waiter(q) == Answered(q) \/ Expires(q) \/ Interrupted(q) \/ BackgroundEnds(q) \/ Reported(q)

Client ==
  /\ UNCHANGED questionVars
  /\ \/ Stop \/ CloseBegins
     \/ \E m \in Messages : Submit(m) \/ SteerPending(m) \/ RemovePending(m)
     \/ \E m \in Reports \ {ReportOf[q] : q \in Answers} : Notify(m)

QuestionsNext ==
  \/ Client
  \/ \E q \in Answers : Ask(q) \/ Waiter(q) \/ \E r \in Replies : Answer(q, r)
  \/ BeginRun \/ GetReady \/ Take \/ EndRun \/ LeaveRun
  \/ StopReturns \/ CloseQuestions

\* As in SessionController; a waiter wakes up when its time is up, or earlier.
QuestionsFairness ==
  /\ WF_allVars(BeginRun) /\ WF_allVars(GetReady \/ LeaveRun)
  /\ WF_allVars(Take) /\ WF_allVars(EndRun) /\ WF_allVars(LeaveRun)
  /\ WF_allVars(StopReturns) /\ WF_allVars(CloseQuestions)
  /\ \A q \in Answers : WF_allVars(Waiter(q))

QuestionsSpec == QuestionsInit /\ [][QuestionsNext]_allVars /\ QuestionsFairness

-------------------------------------------------------------------------------
\* Properties.

\* A question has one outcome, and it is what the user said: the model is told
\* once, by the tool's result, a message or a report, or first "pending" and
\* then a report; an accepted answer is never told as a skip, and what nobody
\* said is only told after the background wait; a card that is shown can still
\* be answered, or its answer is being reported (wait, answer_question,
\* _finish_question).
Final(q) == {i \in DOMAIN told[q] : told[q][i] # "pending"}

OneOutcome ==
  \A q \in Answers :
    /\ \A i, j \in Final(q) : i = j
    /\ Len(told[q]) = 2 => told[q][1] = "pending"
    /\ \A i \in Final(q) :
         /\ reply[q] # "none" => told[q][i] = reply[q]
         /\ told[q][i] = "answered" => reply[q] = "answered"
    /\ told[q] = <<"skipped">> => reply[q] = "skipped"
    /\ q \in cards /\ Done(q) => stage[q] = "background"
    /\ q \in cards /\ ~closing => stage[q] \in {"foreground", "background", "interrupted"}

\* The outcome always arrives: a question asked is told to the model or its run
\* was stopped; a "pending" is followed by its result though the conversation is
\* paused by then (the text of the tool: "its final result will arrive
\* automatically"); and an answer given once the Stop has taken the question
\* from the run becomes a message.  Only the closing of the conversation ends a
\* question without.
OutcomeArrives ==
  \A q \in Answers :
    /\ stage[q] = "foreground" ~> told[q] # <<>> \/ stage[q] \in {"interrupted", "lost"}
    /\ stage[q] = "background" ~> Final(q) # {} \/ closing
    /\ stage[q] = "interrupted" /\ q \notin cards /\ reply[q] = "answered"
         ~> Final(q) # {} \/ closing
===============================================================================
