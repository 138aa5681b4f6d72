--------------------------- MODULE SessionController ---------------------------
(***************************************************************************)
(* The queue of one server conversation: chat/session.py with the input    *)
(* queue of the active run (agent/control.py).                             *)
(*                                                                         *)
(* WebSocket handlers, background reports and the run's own task share the *)
(* controller.  Every section under its lock runs without suspending, so a *)
(* section is one action; what lies between two sections (the run, and the *)
(* wait of a Stop for the run to end) is where the actors interleave.      *)
(***************************************************************************)
EXTENDS Naturals, Sequences, SequencesExt, FiniteSets

CONSTANTS
  Inputs,       \* messages a user sends with "message"
  Answers,      \* answers to a question whose run was stopped
  Reports,      \* background results delivered by notify
  None

Messages == Inputs \union Answers \union Reports

ASSUME MessagesAssumption ==
  /\ None \notin Messages
  /\ Reports \intersect (Inputs \union Answers) = {}

VARIABLES
  pending,      \* PendingMessages waiting to be dispatched
  steered,      \* PendingMessages handed to the active run as extra input
  nextOrder,
  active,       \* the message of active_request
  phase,        \* how far the active task is
  input,        \* the run's input queue: steered messages it has not taken
  open,         \* the run accepts input
  result,       \* how the run ended: none, completed, error
  cancelled,    \* the active task was asked to cancel
  paused, stopping, closing, closed,
  waiting,      \* Stops waiting for the active task to end
  started,      \* _last_request is set
  accepted, removed, delivered   \* ghost: what became of the messages

vars == <<pending, steered, nextOrder, active, phase, input, open, result, cancelled,
          paused, stopping, closing, closed, waiting, started, accepted, removed,
          delivered>>

runVars   == <<input, open, result, cancelled>>
stopVars  == <<stopping, waiting, closing, closed>>
ghostVars == <<accepted, removed, delivered>>

Phases == {"none", "created", "starting", "running"}

Idle == phase = "none"     \* there is no active_task

Init ==
  /\ pending = <<>> /\ steered = <<>> /\ nextOrder = 0
  /\ active = None /\ phase = "none"
  /\ input = <<>> /\ open = FALSE /\ result = "none" /\ cancelled = FALSE
  /\ paused = FALSE /\ stopping = FALSE /\ closing = FALSE /\ closed = FALSE
  /\ waiting = FALSE /\ started = FALSE
  /\ accepted = {} /\ removed = {} /\ delivered = <<>>

-----------------------------------------------------------------------------
\* Queues of PendingMessages.

Ids(queue) == [i \in DOMAIN queue |-> queue[i].id]
Queued(m)  == m \in Range(Ids(pending))

Item(m) == [id |-> m, order |-> nextOrder, steer |-> FALSE]

\* The i-th smallest of a set of numbers, and the items at some positions of a queue,
\* in their order: forms of SortSeq and SelectSeq without recursion, to prove about.
Nth(numbers, i) ==
  CHOOSE n \in numbers : Cardinality({k \in numbers : k <= n}) = i
Select(queue, at) == [i \in 1..Cardinality(at) |-> queue[Nth(at, i)]]

At(queue, m)      == {i \in DOMAIN queue : queue[i].id = m}
Without(queue, m) == Select(queue, DOMAIN queue \ At(queue, m))

RequestSteer(queue, m) ==
  [i \in DOMAIN queue |-> IF queue[i].id = m THEN [queue[i] EXCEPT !.steer = TRUE]
                                             ELSE queue[i]]

ClearSteer(queue) == [i \in DOMAIN queue |-> [queue[i] EXCEPT !.steer = FALSE]]

AsAppended(queue) == queue                     \* mutant: restored at the end
ByOrder(queue) ==
  LET orders == {queue[k].order : k \in DOMAIN queue} IN
  [i \in DOMAIN queue |-> CHOOSE item \in Range(queue) : item.order = Nth(orders, i)]

\* The part of `steered` the run has not taken: the last of them.
FirstUnconsumed(count) == SubSeq(steered, 1, count)      \* mutant: steered[:count]
Unconsumed(count) == SubSeq(steered, Len(steered) - count + 1, Len(steered))

\* _restore_unconsumed.
RestoreUnconsumed ==
  pending' = ClearSteer(IF phase = "running" /\ steered # <<>> /\ input # <<>>
                        THEN ByOrder(pending \o Unconsumed(Len(input)))
                        ELSE pending)

-----------------------------------------------------------------------------
\* _start: the task exists, and has not run yet.
Start(m) ==
  /\ active' = m /\ phase' = "created"
  /\ paused' = FALSE /\ started' = TRUE
  /\ result' = "none" /\ cancelled' = FALSE

NotStarted == UNCHANGED <<active, phase, paused, started, result, cancelled>>

\* _steer on a queue that holds m.
Steer(m, queue) ==
  \/ /\ Idle
     /\ Start(m)
     /\ pending' = queue
     /\ UNCHANGED <<steered, input>>
  \/ /\ ~Idle /\ phase # "running"
     /\ pending' = RequestSteer(queue, m)
     /\ NotStarted /\ UNCHANGED <<steered, input>>
  \/ /\ phase = "running" /\ open
     /\ input' = Append(input, m)
     /\ pending' = Without(queue, m)
     /\ steered' = steered \o Select(queue, At(queue, m))
     /\ NotStarted
  \/ /\ phase = "running" /\ ~open
     /\ pending' = queue
     /\ NotStarted /\ UNCHANGED <<steered, input>>

Enqueue(m) ==
  /\ m \notin accepted
  /\ accepted' = accepted \union {m}
  /\ nextOrder' = nextOrder + 1
  /\ UNCHANGED <<removed, delivered>>

MayStart == Idle /\ pending = <<>> /\ ~stopping

\* submit of a user message.
Submit(m) ==
  /\ ~closing /\ m \in Inputs /\ Enqueue(m)
  /\ pending' = Append(pending, Item(m))
  /\ IF MayStart THEN Start(m) ELSE NotStarted
  /\ UNCHANGED <<steered, input, open, stopVars>>

\* answer_question after its run was stopped: submitted with steer = True.
SubmitAnswer(m) ==
  /\ ~closing /\ started /\ m \in Answers /\ Enqueue(m)
  /\ IF stopping
     THEN /\ pending' = Append(pending, Item(m))
          /\ NotStarted /\ UNCHANGED <<steered, input>>
     ELSE Steer(m, Append(pending, Item(m)))
  /\ UNCHANGED <<open, stopVars>>

HeldBack == paused \/ stopping
OnlyStopping == stopping                       \* mutant: a report resumes a paused queue
ReportIsHeldBack == HeldBack

\* notify: a background report never resumes a stopped or failed run.
Notify(m) ==
  /\ ~closing /\ started /\ m \in Reports /\ Enqueue(m)
  /\ LET queue == Append(pending, Item(m)) IN
     IF ReportIsHeldBack
     THEN pending' = queue /\ NotStarted /\ UNCHANGED <<steered, input>>
     ELSE IF Idle
          THEN pending' = queue /\ Start(queue[1].id) /\ UNCHANGED <<steered, input>>
          ELSE Steer(m, queue)
  /\ UNCHANGED <<open, stopVars>>

\* steer and remove_pending of a message that is queued and not being dispatched.
SteerPending(m) ==
  /\ ~closing /\ ~stopping /\ Queued(m) /\ m # active
  /\ Steer(m, pending)
  /\ UNCHANGED <<nextOrder, open, stopVars, ghostVars>>

RemovePending(m) ==
  /\ Queued(m) /\ m # active
  /\ pending' = Without(pending, m)
  /\ removed' = removed \union {m}
  /\ UNCHANGED <<steered, nextOrder, input, open, stopVars, accepted, delivered>>
  /\ NotStarted

-----------------------------------------------------------------------------
\* _execute, and the run inside stream_turn.

TaskBegins ==
  /\ phase = "created" /\ ~cancelled
  /\ phase' = "starting"
  /\ UNCHANGED <<pending, steered, nextOrder, active, runVars, paused, started,
                 stopVars, ghostVars>>

\* The callback `ready`: the message leaves the queue, and the messages steered
\* while the stream did not exist follow it into the run.
StreamReady ==
  LET rest   == Without(pending, active)
      wanted == {i \in DOMAIN rest : rest[i].steer}
  IN
  /\ phase = "starting" /\ ~cancelled
  /\ phase' = "running" /\ open' = TRUE
  /\ pending' = Select(rest, DOMAIN rest \ wanted)
  /\ steered' = Select(rest, wanted)
  /\ input' = Ids(Select(rest, wanted))
  /\ delivered' = Append(delivered, active)
  /\ UNCHANGED <<nextOrder, active, result, cancelled, paused, started, stopVars,
                 accepted, removed>>

\* The start of a model iteration takes all input.
Drain ==
  /\ phase = "running" /\ open /\ input # <<>>
  /\ input' = <<>>
  /\ delivered' = delivered \o input
  /\ UNCHANGED <<pending, steered, nextOrder, active, phase, open, result, cancelled,
                 paused, started, stopVars, accepted, removed>>

\* A final reply: the run closes its input unless some arrived meanwhile.
CloseIfEmpty ==
  /\ phase = "running" /\ open /\ input = <<>>
  /\ open' = FALSE /\ result' = "completed"
  /\ UNCHANGED <<pending, steered, nextOrder, active, phase, input, cancelled, paused,
                 started, stopVars, ghostVars>>

\* A model error, the iteration limit or an exception closes it in any case.
CloseOnError ==
  /\ phase = "running" /\ open
  /\ open' = FALSE /\ result' = "error"
  /\ UNCHANGED <<pending, steered, nextOrder, active, phase, input, cancelled, paused,
                 started, stopVars, ghostVars>>

\* A cancelled stream_turn closes the stream and its input.
CloseOnCancel ==
  /\ phase = "running" /\ open /\ cancelled
  /\ open' = FALSE
  /\ UNCHANGED <<pending, steered, nextOrder, active, phase, input, result, cancelled,
                 paused, started, stopVars, ghostVars>>

Successful == phase = "running" /\ result = "completed" /\ ~cancelled

PauseKept == paused                            \* mutant: an error does not pause
PauseAfterRun == paused \/ ~Successful

NeverContinues == FALSE                        \* mutant: the queue is not resumed
MayContinue == Successful /\ ~closing /\ ~stopping /\ ~paused

\* The `finally` of _execute.
Finish ==
  /\ \/ phase = "starting"      \* no lease, or cancelled meanwhile
     \/ phase = "running" /\ ~open
  /\ IF closing THEN UNCHANGED pending ELSE RestoreUnconsumed
  /\ steered' = <<>> /\ input' = <<>>
  /\ IF MayContinue /\ pending' # <<>>
     THEN Start(pending'[1].id)
     ELSE /\ active' = None /\ phase' = "none"
          /\ paused' = PauseAfterRun
          /\ result' = "none" /\ cancelled' = FALSE
          /\ UNCHANGED started
  /\ UNCHANGED <<nextOrder, open, stopVars, ghostVars>>

-----------------------------------------------------------------------------
\* cancel, up to its wait for the task.
CancelActive ==
  /\ paused' = TRUE
  /\ IF Idle
     THEN UNCHANGED <<stopping, waiting, cancelled>>
     ELSE stopping' = TRUE /\ waiting' = TRUE /\ cancelled' = TRUE

Stop ==
  /\ CancelActive
  /\ UNCHANGED <<pending, steered, nextOrder, active, phase, input, open, result,
                 closing, closed, started, ghostVars>>

NeverBegan == phase = "created" /\ cancelled

\* cancel, once the task has ended.  Stops that wait for the same task are
\* resumed back to back.  A task cancelled before its first step never reached
\* the `finally` of _execute.
LeaveActive == UNCHANGED <<active, phase>>     \* mutant: no clean-up for such a task
ClearActive == active' = None /\ phase' = "none"

StopEnds ==
  /\ waiting /\ (Idle \/ NeverBegan)
  /\ IF NeverBegan
     THEN RestoreUnconsumed /\ ClearActive /\ steered' = <<>> /\ cancelled' = FALSE
     ELSE UNCHANGED <<pending, active, phase, steered, cancelled>>
  /\ stopping' = FALSE /\ waiting' = FALSE
  /\ UNCHANGED <<nextOrder, input, open, result, paused, closing, closed, started,
                 ghostVars>>

\* close: cancel, then drop what is left.
CloseBegins ==
  /\ ~closing
  /\ closing' = TRUE
  /\ CancelActive
  /\ UNCHANGED <<pending, steered, nextOrder, active, phase, input, open, result,
                 closed, started, ghostVars>>

CloseEnds ==
  /\ closing /\ ~closed /\ Idle /\ ~waiting
  /\ pending' = <<>> /\ closed' = TRUE
  /\ UNCHANGED <<steered, nextOrder, active, phase, runVars, paused, stopping, waiting,
                 closing, started, ghostVars>>

-----------------------------------------------------------------------------
Run == TaskBegins \/ StreamReady \/ Drain \/ CloseIfEmpty \/ CloseOnError
       \/ CloseOnCancel \/ Finish

Next ==
  \/ \E m \in Messages : Submit(m) \/ SubmitAnswer(m) \/ Notify(m)
                         \/ SteerPending(m) \/ RemovePending(m)
  \/ Run
  \/ Stop \/ StopEnds \/ CloseBegins \/ CloseEnds

Spec == Init /\ [][Next]_vars

\* The event loop runs the active task, the run it awaits and the Stops that
\* wait for it; a run ends (the iteration limit) and a cancelled one unwinds.
Fairness ==
  /\ WF_vars(TaskBegins) /\ WF_vars(StreamReady \/ Finish)
  /\ WF_vars(Drain) /\ WF_vars(CloseIfEmpty \/ CloseOnError \/ CloseOnCancel)
  /\ WF_vars(Finish) /\ WF_vars(StopEnds) /\ WF_vars(CloseEnds)

FairSpec == Spec /\ Fairness

-----------------------------------------------------------------------------
\* Properties.

\* Input never waits for nothing: in a conversation that is not being closed,
\* an idle queue that holds messages is one that a Stop or a failure paused
\* (so the next message or a "steer" resumes it), and a Stop in progress keeps
\* the queue paused until the task has ended.  It rests on every start, stop,
\* failure and restore of _execute, cancel, notify and _submit together.
NoStrandedInput == ~closing /\ Idle /\ pending # <<>> => paused
StopHoldsQueue  == stopping => paused
HeldOrRunning   == NoStrandedInput /\ StopHoldsQueue

\* Every message the controller accepted is in one place: queued, in the input
\* of the run, or taken by a run, unless the user removed it; nothing is lost
\* or taken twice when a run ends with steered input it has not consumed, which
\* is the end of what was steered into it (the comment of _restore_unconsumed).
NothingLost ==
  /\ LET trail == Ids(pending) \o input \o delivered IN
     ~closing => IsInjective(trail) /\ Range(trail) = accepted \ removed
  /\ phase = "running" => IsSuffix(input, Ids(steered))

\* Follow-ups run in submission order (the server's README): a run that ends
\* is followed by the oldest message in the queue, also when unconsumed
\* steering has just been restored among younger messages.
FollowUpsInOrder ==
  [][Finish /\ active' # None =>
       \A i \in DOMAIN pending' : pending'[i].id # active' =>
         \E j \in DOMAIN pending' :
           pending'[j].id = active' /\ pending'[j].order < pending'[i].order]_vars

\* Only the user resumes a stopped or failed conversation: the arrival of a
\* background report and the end of a run never do (notify, _execute), and
\* nothing does once it is being closed.
ResumedByUser ==
  [][paused /\ ~paused' =>
       /\ ~closing /\ ~stopping
       /\ accepted' \intersect Reports = accepted \intersect Reports
       /\ Idle]_vars

\* A queued message is dispatched, steered, or removed, unless a Stop, a failure
\* or the closing of the conversation holds the queue.
FollowUpsRun ==
  \A m \in Messages : Queued(m) ~> (~Queued(m) \/ paused \/ closing)

\* A Stop always ends: the task it cancelled ends, wherever it was, and the
\* conversation is usable again; so does closing it for a deletion or a shutdown.
StopsEnd ==
  /\ stopping ~> (~stopping /\ Idle)
  /\ closing ~> closed /\ Idle /\ pending = <<>>
=============================================================================
