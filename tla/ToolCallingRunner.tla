--------------------------- MODULE ToolCallingRunner ---------------------------
(***************************************************************************)
(* One run of the model/tool loop: agent/runner.py with its input queue    *)
(* (agent/control.py) and the batches of tools/executor.py.                *)
(*                                                                         *)
(* The run suspends at every checkpoint, model request, tool call and      *)
(* event; there users steer it, and it may be cancelled.  A message is its *)
(* role with the calls it declares, the call it answers or the input it    *)
(* repeats; the model is free to answer anything.                          *)
(***************************************************************************)
EXTENDS Naturals, Sequences, SequencesExt, FiniteSets

CONSTANTS
  MaxIterations,    \* of the run's configuration
  MaxCalls,         \* bound on the tool calls of one response
  Inputs            \* messages users may steer into the run

ASSUME BoundsAssumption == MaxIterations \in Nat /\ MaxCalls \in Nat
ASSUME InputsAssumption == "task" \notin Inputs

VARIABLES
  messages,         \* run_messages
  saved,            \* the last checkpoint that was written
  pc, iteration,
  calls,            \* the tool calls of the current response
  left,             \* the positions of the calls whose batch has not ended
  status,           \* of each call, by its position in `calls`
  input, open,      \* the control's queue, and whether it accepts input
  stop,             \* stop_reason, or how the run was ended
  nextCall,         \* call ids are fresh
  accepted          \* ghost: the inputs steer accepted

vars == <<messages, saved, pc, iteration, calls, left, status, input, open, stop,
          nextCall, accepted>>

toolVars  == <<calls, left, status, nextCall>>
inputVars == <<input, open, accepted>>

User(m)     == [role |-> "user", calls |-> <<>>, ref |-> m]
Reply       == [role |-> "assistant", calls |-> <<>>, ref |-> 0]
Calling(cs) == [role |-> "assistant", calls |-> [i \in DOMAIN cs |-> cs[i].id], ref |-> 0]
Result(id)  == [role |-> "tool", calls |-> <<>>, ref |-> id]

Init ==
  /\ messages = <<User("task")>> /\ saved = messages
  /\ pc = "iterate" /\ iteration = 0
  /\ calls = <<>> /\ left = {} /\ status = <<>> /\ nextCall = 1
  /\ input = <<>> /\ open = TRUE /\ accepted = {}
  /\ stop = "none"

-----------------------------------------------------------------------------
\* Users.

\* steer: a closed run raises RuntimeError.
Steer(m) ==
  /\ open /\ m \in Inputs \ accepted
  /\ input' = Append(input, m) /\ accepted' = accepted \union {m}
  /\ UNCHANGED <<messages, saved, pc, iteration, toolVars, open, stop>>

-----------------------------------------------------------------------------
\* The loop of _run_iterations.

Within == iteration < MaxIterations

NewestOnly ==                                    \* mutant: older input is dropped
  IF input = <<>> THEN <<>> ELSE <<User(Last(input))>>
TakenInput == [i \in DOMAIN input |-> User(input[i])]

\* The top of an iteration takes the whole input.
IterationStarts ==
  /\ pc = "iterate" /\ Within
  /\ input' = <<>>
  /\ messages' = messages \o TakenInput
  /\ pc' = IF input = <<>> THEN "request" ELSE "saveInput"
  /\ UNCHANGED <<saved, iteration, toolVars, open, accepted, stop>>

Unanswered == messages                           \* mutant: no final message
WithLastWord == Append(messages, Reply)

IterationsExhausted ==
  /\ pc = "iterate" /\ ~Within
  /\ messages' = WithLastWord
  /\ open' = FALSE /\ stop' = "max_iterations" /\ pc' = "saveLast"
  /\ UNCHANGED <<saved, iteration, toolVars, input, accepted>>

\* The placeholder: the last message of a request is never a plain reply.
ModelFails ==
  /\ pc = "request"
  /\ messages' = Append(messages, Reply)
  /\ open' = FALSE /\ stop' = "model_error" /\ pc' = "saveLast"
  /\ UNCHANGED <<saved, iteration, toolVars, input, accepted>>

ModelAnswers ==
  /\ pc = "request"
  /\ messages' = Append(messages, Reply)
  /\ pc' = "saveReply"
  /\ UNCHANGED <<saved, iteration, toolVars, inputVars, stop>>

ModelCalls ==
  /\ pc = "request"
  /\ \E n \in 1..MaxCalls : \E safe \in [1..n -> BOOLEAN] :
       calls' = [i \in 1..n |-> [id |-> nextCall + i - 1, safe |-> safe[i]]]
  /\ nextCall' = nextCall + Len(calls')
  /\ status' = [i \in DOMAIN calls' |-> "waiting"]
  /\ left' = DOMAIN calls'
  /\ messages' = Append(messages, Calling(calls'))
  /\ pc' = "saveCalls"
  /\ UNCHANGED <<saved, iteration, inputVars, stop>>

-----------------------------------------------------------------------------
\* execute_many.

\* _partition_calls: neighbouring parallel-safe calls form one batch, any other
\* call is a batch of its own.  The batch of the first call that is left:
AllLeft == left                                  \* mutant: one batch of all
HeadBatch ==
  {q \in left : \/ \A i \in left : q <= i
                \/ \A i \in left : i <= q => calls[i].safe}

\* It starts: every call of it asks for approval or runs.
BatchStarts ==
  /\ pc = "tools" /\ left # {}
  /\ \A p \in HeadBatch : status[p] = "waiting"
  /\ status' = [p \in DOMAIN status |-> IF p \in HeadBatch THEN "approval" ELSE status[p]]
  /\ UNCHANGED <<messages, saved, pc, iteration, calls, left, nextCall, inputVars, stop>>

\* Refused calls, unknown tools and invalid arguments yield a result too.
Refuse(p) ==
  /\ pc = "tools" /\ p \in DOMAIN status /\ status[p] = "approval"
  /\ status' = [status EXCEPT ![p] = "refused"]
  /\ UNCHANGED <<messages, saved, pc, iteration, calls, left, nextCall, inputVars, stop>>

Execute(p) ==
  /\ pc = "tools" /\ p \in DOMAIN status /\ status[p] = "approval"
  /\ status' = [status EXCEPT ![p] = "running"]
  /\ UNCHANGED <<messages, saved, pc, iteration, calls, left, nextCall, inputVars, stop>>

Finish(p) ==
  /\ pc = "tools" /\ p \in DOMAIN status /\ status[p] = "running"
  /\ status' = [status EXCEPT ![p] = "done"]
  /\ UNCHANGED <<messages, saved, pc, iteration, calls, left, nextCall, inputVars, stop>>

OnlyExecuted == {"done"}                         \* mutant: a refusal yields nothing
Settled == {"done", "refused"}

BatchEnds ==
  /\ pc = "tools" /\ left # {}
  /\ \A p \in HeadBatch : status[p] \in Settled
  /\ left' = left \ HeadBatch
  /\ UNCHANGED <<messages, saved, pc, iteration, calls, status, nextCall, inputVars, stop>>

AsCompleted ==                                   \* mutant: not in call order
  Reverse([i \in DOMAIN calls |-> Result(calls[i].id)])
InCallOrder == [i \in DOMAIN calls |-> Result(calls[i].id)]

ToolsEnd ==
  /\ pc = "tools" /\ left = {}
  /\ messages' = messages \o InCallOrder
  /\ pc' = "saveResults"
  /\ UNCHANGED <<saved, iteration, toolVars, inputVars, stop>>

-----------------------------------------------------------------------------
\* _checkpoint, and what follows it.

After(point) ==
  CASE point = "saveInput"   -> "request"
    [] point = "saveCalls"   -> "tools"
    [] point = "saveResults" -> "iterate"
    [] point = "saveReply"   -> "conclude"
    [] point = "saveLast"    -> "ended"

SavePoints == {"saveInput", "saveCalls", "saveResults", "saveReply", "saveLast"}

Checkpoint ==
  /\ pc \in SavePoints
  /\ saved' = messages
  /\ pc' = After(pc)
  /\ iteration' = IF pc = "saveResults" THEN iteration + 1 ELSE iteration
  /\ UNCHANGED <<messages, toolVars, inputVars, stop>>

\* A failing save, a provider that raises or a hook that re-raises ends the run
\* with its exception.
Raise ==
  /\ pc # "ended"
  /\ open' = FALSE /\ stop' = "raised" /\ pc' = "ended"
  /\ UNCHANGED <<messages, saved, iteration, toolVars, input, accepted>>

NothingWaits == input = <<>>

\* _close_if_empty: a final reply ends the run unless input has arrived.
Conclude ==
  /\ pc = "conclude"
  /\ IF NothingWaits
     THEN /\ open' = FALSE /\ stop' = "completed" /\ pc' = "ended"
          /\ UNCHANGED iteration
     ELSE pc' = "iterate" /\ iteration' = iteration + 1 /\ UNCHANGED <<open, stop>>
  /\ UNCHANGED <<messages, saved, toolVars, input, accepted>>

\* A cancellation ends the run wherever it is suspended; the handle of the run
\* closes its input.
Cancel ==
  /\ pc # "ended"
  /\ open' = FALSE /\ stop' = "cancelled" /\ pc' = "ended"
  /\ UNCHANGED <<messages, saved, iteration, toolVars, input, accepted>>

-----------------------------------------------------------------------------
Model == ModelFails \/ ModelAnswers \/ ModelCalls

Positions == 1..MaxCalls
Call(p) == Refuse(p) \/ Execute(p) \/ Finish(p)

Loop == IterationStarts \/ IterationsExhausted \/ BatchStarts \/ BatchEnds \/ ToolsEnd
        \/ Checkpoint \/ Conclude

Next ==
  \/ \E m \in Inputs : Steer(m)
  \/ Loop \/ Model
  \/ \E p \in Positions : Call(p)
  \/ Raise \/ Cancel

Spec == Init /\ [][Next]_vars

\* The provider answers (it has a timeout), a tool or an approval ends, and the
\* event loop resumes the run.  Cancellation is never assumed.
FairSpec ==
  /\ Spec
  /\ WF_vars(Loop) /\ WF_vars(Model)
  /\ \A p \in Positions : WF_vars(Call(p))

-----------------------------------------------------------------------------
\* Properties.

\* Every variable holds a value of its kind; the run never asks the model more
\* often than it was configured to.
TypeOK ==
  /\ pc \in SavePoints \union {"iterate", "request", "tools", "conclude", "ended"}
  /\ iteration \in 0..MaxIterations
  /\ pc = "request" => iteration < MaxIterations
  /\ open \in BOOLEAN /\ accepted \subseteq Inputs
  /\ stop \in {"none", "completed", "model_error", "max_iterations", "raised", "cancelled"}
  /\ \A p \in DOMAIN status : status[p] \in {"waiting", "approval", "running"} \union {"done", "refused"}
  /\ DOMAIN status = DOMAIN calls /\ left \subseteq DOMAIN calls

Answered(ms, a) ==
  \A k \in DOMAIN ms[a].calls :
    a + k \in DOMAIN ms /\ ms[a + k] = Result(ms[a].calls[k])

\* Calls are answered at once, those of the last message excepted.
CallsAnswered(ms) ==
  \A a \in DOMAIN ms : a = Len(ms) \/ Answered(ms, a)

\* No result stands without its call.
ResultsDeclared(ms) ==
  \A i \in DOMAIN ms : ms[i].role = "tool" =>
    \E a \in 1..(i - 1) : \E k \in DOMAIN ms[a].calls :
      a + k = i /\ ms[a].calls[k] = ms[i].ref

Pairs(ms) == CallsAnswered(ms) /\ ResultsDeclared(ms)

\* Whatever checkpoint the process dies after, the saved messages pair up: the
\* results of a response follow it at once, in the order of its calls, however
\* the calls overlapped and whatever was steered meanwhile; only the calls of
\* the last message may be open, which is what recover closes.
SavedPairs == Pairs(saved)

\* A tool that is not parallel-safe overlaps no other call of the response
\* (Tool.parallel_safe), and calls are never taken past it.
Active(p) == status[p] \in {"approval", "running"}
SerialToolsAlone ==
  pc = "tools" =>
    \A p, q \in DOMAIN status :
      p < q /\ status[q] # "waiting" /\ (Active(p) \/ status[p] = "waiting") =>
        \A i \in p..q : calls[i].safe

\* Input is neither lost nor repeated: what steer accepted is in the queue or,
\* once, in the conversation.
TakenAt == {i \in DOMAIN messages : messages[i].role = "user" /\ messages[i].ref # "task"}
InputKept ==
  /\ {messages[i].ref : i \in TakenAt} \union Range(input) = accepted
  /\ Cardinality(TakenAt) + Len(input) = Cardinality(accepted)

\* A run that reaches its end leaves a closed transcript on disk, and one that
\* completes has answered all the input it accepted: nothing is queued and the
\* last word is the model's.
EndsClosed ==
  pc = "ended" /\ stop \in {"completed", "model_error", "max_iterations"} =>
    /\ saved = messages /\ Last(saved) = Reply
    /\ stop = "completed" => input = <<>>

\* A run ends, however often it is steered: steering costs iterations.
RunEnds == <>(pc = "ended")
=============================================================================
