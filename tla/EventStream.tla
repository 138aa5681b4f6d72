------------------------------ MODULE EventStream ------------------------------
(***************************************************************************)
(* One streamed run: AsyncEventStream (observability/streaming.py) and its *)
(* AgentRunStream (agent/run.py).                                          *)
(*                                                                         *)
(* A background task produces events into a bounded queue; one task reads  *)
(* them; the reader, and possibly another task, closes the stream, which   *)
(* cancels the producer, waits for it, and wakes the reader.  Closing ends *)
(* with a gather: a task cancelled while it waits there still waits for    *)
(* the producer, and cancels it once more.                                 *)
(***************************************************************************)
EXTENDS Naturals, Sequences

CONSTANTS
  MaxSize,          \* capacity of the queue; 0 means unbounded
  MaxEvents,        \* bound on the events the run emits
  MaxInterrupts     \* bound on cancellations of a task that is closing

ASSUME SizeAssumption == MaxSize \in Nat /\ MaxEvents \in Nat /\ MaxInterrupts \in Nat

Tasks == {"reader", "closer"}
End == 0                        \* _STREAM_END; the n-th event is n

VARIABLES
  queue,
  emitted,          \* number of events put into the queue
  received,         \* ghost: the events the reader was given
  discarded,        \* ghost: closing threw unread events away
  producer,         \* the background task
  outcome,          \* how it ended
  cancelling,       \* it has a cancellation to notice
  open,             \* the run accepts input (control is not closed)
  closed, exhausted,
  pc,               \* where the reader and the other closer are
  interrupts

vars == <<queue, emitted, received, discarded, producer, outcome, cancelling, open,
          closed, exhausted, pc, interrupts>>

producerVars == <<producer, outcome, cancelling>>
readerVars   == <<received, exhausted>>
closeVars    == <<discarded, closed, pc, interrupts>>

Init ==
  /\ queue = <<>> /\ emitted = 0 /\ received = <<>> /\ discarded = FALSE
  /\ producer = "none" /\ outcome = "none" /\ cancelling = FALSE
  /\ open = TRUE /\ closed = FALSE /\ exhausted = FALSE
  /\ pc = [t \in Tasks |-> "idle"] /\ interrupts = 0

Fits(q) == MaxSize = 0 \/ Len(q) < MaxSize
Room == Fits(queue)

-----------------------------------------------------------------------------
\* The producer: _run_background around the run of AgentRuntime.stream.

Begin ==
  /\ producer = "ready" /\ ~cancelling
  /\ producer' = "running"
  /\ UNCHANGED <<queue, emitted, outcome, cancelling, open, readerVars, closeVars>>

\* An event is put, now or when there is room.
Put ==
  /\ Room
  /\ queue' = Append(queue, emitted + 1) /\ emitted' = emitted + 1

Emit ==
  /\ producer = "running" /\ ~cancelling /\ emitted < MaxEvents
  /\ \/ Put /\ UNCHANGED producer
     \/ ~Room /\ producer' = "putting" /\ UNCHANGED <<queue, emitted>>
  /\ UNCHANGED <<outcome, cancelling, open, readerVars, closeVars>>

EmitBlocked ==
  /\ producer = "putting" /\ ~cancelling
  /\ Put
  /\ producer' = "running"
  /\ UNCHANGED <<outcome, cancelling, open, readerVars, closeVars>>

AlwaysPuts == FALSE                  \* mutant: _put_end ignores the closing
SkipsEnd == closed

EndFirst(q) == <<End>> \o q           \* mutant: the marker overtakes events
WithEnd(q) == Append(q, End)

\* The run is over, with the queue as q: its input is closed, and _put_end
\* adds the marker, at once unless the queue is full.
Ends(how, q) ==
  /\ outcome' = how /\ open' = FALSE
  /\ IF SkipsEnd \/ Fits(q)
     THEN producer' = "done" /\ queue' = (IF SkipsEnd THEN q ELSE WithEnd(q))
     ELSE producer' = "ending" /\ queue' = q

RunEnds(how) ==
  /\ producer = "running" /\ ~cancelling
  /\ Ends(how, queue)
  /\ UNCHANGED <<emitted, cancelling, readerVars, closeVars>>

EndBlocked ==
  /\ producer = "ending" /\ ~cancelling /\ Room
  /\ queue' = WithEnd(queue) /\ producer' = "done"
  /\ UNCHANGED <<emitted, outcome, cancelling, open, readerVars, closeVars>>

\* The cancellation reaches the producer.  A task that never ran executes no
\* `finally`; one that waits to put the marker or a report is cut off.
NoticeCancel ==
  /\ cancelling /\ producer # "done"
  /\ cancelling' = FALSE
  /\ IF producer \in {"running", "putting", "unwinding"}
     THEN producer' = "unwinding" /\ UNCHANGED outcome
     ELSE producer' = "done" /\ outcome' = "cancelled"
  /\ UNCHANGED <<queue, emitted, open, readerVars, closeVars>>

\* The cancelled run has unwound (a save in progress may have held it up).
Unwound ==
  /\ producer = "unwinding" /\ ~cancelling
  /\ Ends("cancelled", queue)
  /\ UNCHANGED <<emitted, cancelling, readerVars, closeVars>>

\* A failing save replaces the cancellation, and the runner reports an error.
UnwindFails ==
  /\ producer = "unwinding" /\ ~cancelling
  /\ producer' = "reporting" /\ open' = FALSE
  /\ UNCHANGED <<queue, emitted, outcome, cancelling, readerVars, closeVars>>

Report ==
  /\ producer = "reporting" /\ ~cancelling /\ Room
  /\ emitted' = emitted + 1
  /\ Ends("error", Append(queue, emitted'))
  /\ UNCHANGED <<cancelling, readerVars, closeVars>>

-----------------------------------------------------------------------------
\* The reader.

\* __aiter__ creates the background task.
Iterate ==
  /\ pc["reader"] = "idle" /\ ~closed
  /\ pc' = [pc EXCEPT !["reader"] = "holding"]
  /\ producer' = "ready"
  /\ UNCHANGED <<queue, emitted, outcome, cancelling, open, readerVars, discarded,
                 closed, interrupts>>

AskNext ==
  /\ pc["reader"] = "holding"
  /\ pc' = [pc EXCEPT !["reader"] = "reading"]
  /\ UNCHANGED <<queue, emitted, producerVars, open, readerVars, discarded, closed,
                 interrupts>>

Oldest == queue[1]
Remaining == Tail(queue)

Read ==
  /\ pc["reader"] = "reading" /\ queue # <<>>
  /\ queue' = Remaining
  /\ IF Oldest = End
     THEN /\ exhausted' = TRUE /\ UNCHANGED received
          /\ pc' = [pc EXCEPT !["reader"] = "joining"]
     ELSE /\ received' = Append(received, Oldest) /\ UNCHANGED exhausted
          /\ pc' = [pc EXCEPT !["reader"] = "holding"]
  /\ UNCHANGED <<emitted, producerVars, open, discarded, closed, interrupts>>

-----------------------------------------------------------------------------
\* aclose.

OnlyMarker == <<End>>

\* Its `finally`: unread events give way to an end marker.
Wake ==
  IF exhausted
  THEN UNCHANGED <<queue, discarded>>
  ELSE queue' = OnlyMarker /\ discarded' = TRUE

ClosesInput == FALSE

\* Up to its wait for the producer.
Close(t) ==
  /\ open' = ClosesInput /\ closed' = TRUE
  /\ IF closed \/ producer = "none"
     THEN /\ pc' = [pc EXCEPT ![t] = "ended"]
          /\ UNCHANGED <<cancelling, queue, discarded>>
     ELSE IF producer = "done"
          THEN Wake /\ pc' = [pc EXCEPT ![t] = "ended"] /\ UNCHANGED cancelling
          ELSE /\ cancelling' = TRUE /\ pc' = [pc EXCEPT ![t] = "closing"]
               /\ UNCHANGED <<queue, discarded>>
  /\ UNCHANGED <<emitted, producer, outcome, readerVars, interrupts>>

\* The reader has the producer's result or exception, and closes.
Join == pc["reader"] = "joining" /\ producer = "done" /\ Close("reader")

\* The reader breaks off or is cancelled, between events or in queue.get.
Leave == pc["reader"] \in {"holding", "reading"} /\ Close("reader")

\* The stream is abandoned before its first event.
Abandon == pc["reader"] = "idle" /\ Close("reader")

CloseElsewhere == pc["closer"] = "idle" /\ Close("closer")

NotAwaited == TRUE                   \* mutant: a cancelled wait ends at once
Awaited == producer = "done"

CloseReturns(t) ==
  /\ pc[t] = "closing" /\ Awaited
  /\ Wake
  /\ pc' = [pc EXCEPT ![t] = "ended"]
  /\ UNCHANGED <<emitted, producerVars, open, readerVars, closed, interrupts>>

Interrupt(t) ==
  /\ pc[t] = "closing" /\ producer # "done" /\ interrupts < MaxInterrupts
  /\ cancelling' = TRUE /\ interrupts' = interrupts + 1
  /\ UNCHANGED <<queue, emitted, producer, outcome, open, readerVars, discarded, closed,
                 pc>>

-----------------------------------------------------------------------------
Produce ==
  \/ Begin \/ Emit \/ EmitBlocked \/ EndBlocked
  \/ \E how \in {"result", "error"} : RunEnds(how)

Unwind == NoticeCancel \/ Unwound \/ UnwindFails \/ Report

Next ==
  \/ Produce \/ Unwind
  \/ Iterate \/ AskNext \/ Read \/ Join \/ Leave \/ Abandon \/ CloseElsewhere
  \/ \E t \in Tasks : CloseReturns(t) \/ Interrupt(t)

Spec == Init /\ [][Next]_vars

\* The event loop resumes what can go on.  Nothing is assumed of the model the
\* run may wait for, nor of a reader that holds an event.
Fairness ==
  /\ WF_vars(Unwind) /\ WF_vars(EndBlocked) /\ WF_vars(Begin)
  /\ WF_vars(Read) /\ WF_vars(Join)
  /\ \A t \in Tasks : WF_vars(CloseReturns(t))

FairSpec == Spec /\ Fairness

-----------------------------------------------------------------------------
\* Properties.

\* The reader sees the events of the run from the first on, in order, none
\* twice and none skipped, and a stream read to its end has delivered every
\* event, whatever is closed or cancelled, unless closing discarded some.
InOrder  == \A i \in 1..Len(received) : received[i] = i
Complete == exhausted /\ ~discarded => Len(received) = emitted
Delivered == InOrder /\ Complete

\* An end marker means that the producer is done: `await task` after it does
\* not wait, and result() never finds the run "still finishing".  When the
\* reader has left the run takes no more input: the server's take_pending after
\* it is allowed, also when the run never began.
EndMeansDone ==
  /\ (exhausted \/ \E i \in DOMAIN queue : queue[i] = End) => producer = "done"
  /\ pc["reader"] = "ended" => ~open

\* A closing ends, however full the queue is when the run is cancelled, and
\* wakes a reader blocked in queue.get (the comment in aclose), unless the run
\* fails while it unwinds and has its failure to report.
ClosesUnlessReporting ==
  /\ \A t \in Tasks : pc[t] = "closing" ~> pc[t] = "ended" \/ producer = "reporting"
  /\ closed /\ pc["reader"] = "reading" ~>
       pc["reader"] # "reading" \/ producer = "reporting"
=============================================================================
