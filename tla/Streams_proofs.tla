---------------------------- MODULE Streams_proofs ----------------------------
(***************************************************************************)
(* The two streams of a run, and the request a reply answers.              *)
(*                                                                         *)
(* Delivery of a run's events, for every size of the queue and number of   *)
(* events.  What makes Delivered and EndMeansDone inductive is the shape   *)
(* of the queue: it holds the events that follow those received and        *)
(* nothing else, until the producer is done; then at most the end marker   *)
(* follows them, and after a closing only the marker is left.              *)
(*                                                                         *)
(* The streamed reply of one model call (ShownOnce), for every service,    *)
(* retry configuration and number of chunks.  The invariant follows both   *)
(* ends of the callbacks: what was shown and what is about to be shown are *)
(* together what the chunks of this attempt say, and so, kind by kind, is  *)
(* the text the accumulator holds; an attempt is repeated only before its  *)
(* first delta was shown.                                                  *)
(*                                                                         *)
(* The request of that call (RequestLegal), for every history whose        *)
(* results are in place and every window: each pass over the messages      *)
(* keeps the results in place, the last one supplies those that are lost.  *)
(***************************************************************************)
EXTENDS EventStream, ModelStream, SequenceTheorems, FiniteSetTheorems, TLAPS

\* q holds the events r+1 to e ...
Flowing(q, r, e) ==
  /\ q \in Seq(Nat) /\ e = r + Len(q)
  /\ \A i \in 1..Len(q) : q[i] = r + i

\* ... and then the end marker.
Marked(q, r, e) ==
  /\ q \in Seq(Nat) /\ Len(q) + r = e + 1 /\ Len(q) \in Nat \ {0}
  /\ q[Len(q)] = End
  /\ \A i \in 1..Len(q) : i < Len(q) => q[i] = r + i

LEMMA FlowingAppend ==
  ASSUME NEW q, NEW r \in Nat, NEW e \in Nat, Flowing(q, r, e)
  PROVE  Flowing(Append(q, e + 1), r, e + 1)
<1>1. q \in Seq(Nat) /\ e = r + Len(q) /\ e + 1 \in Nat
  BY DEF Flowing
<1>2. /\ Append(q, e + 1) \in Seq(Nat)
      /\ Len(Append(q, e + 1)) = Len(q) + 1
      /\ \A i \in 1..Len(q) : Append(q, e + 1)[i] = q[i]
      /\ Append(q, e + 1)[Len(q) + 1] = e + 1
  BY <1>1, AppendProperties
<1>3. Len(q) \in Nat
  BY <1>1, LenProperties
<1> QED BY <1>1, <1>2, <1>3 DEF Flowing

LEMMA FlowingMarked ==
  ASSUME NEW q, NEW r \in Nat, NEW e \in Nat, Flowing(q, r, e)
  PROVE  Marked(Append(q, End), r, e)
<1>1. q \in Seq(Nat) /\ e = r + Len(q) /\ End \in Nat
  BY DEF Flowing, End
<1>2. /\ Append(q, End) \in Seq(Nat)
      /\ Len(Append(q, End)) = Len(q) + 1
      /\ \A i \in 1..Len(q) : Append(q, End)[i] = q[i]
      /\ Append(q, End)[Len(q) + 1] = End
  BY <1>1, AppendProperties
<1>3. Len(q) \in Nat
  BY <1>1, LenProperties
<1> QED BY <1>1, <1>2, <1>3 DEF Flowing, Marked

LEMMA FlowingTail ==
  ASSUME NEW q, NEW r \in Nat, NEW e \in Nat, Flowing(q, r, e), q # <<>>
  PROVE  q[1] = r + 1 /\ q[1] # End /\ Flowing(Tail(q), r + 1, e)
<1>1. q \in Seq(Nat) /\ e = r + Len(q)
  BY DEF Flowing
<1>2. Len(q) \in Nat \ {0}
  BY <1>1, EmptySeq, LenProperties
<1>3. /\ Tail(q) \in Seq(Nat) /\ Len(Tail(q)) = Len(q) - 1
      /\ \A i \in 1..Len(Tail(q)) : Tail(q)[i] = q[i + 1]
  BY <1>1, <1>2, HeadTailProperties
<1>4. \A i \in 1..Len(Tail(q)) : Tail(q)[i] = (r + 1) + i
  BY <1>2, <1>3 DEF Flowing
<1> QED BY <1>1, <1>2, <1>3, <1>4 DEF Flowing, End

LEMMA MarkedTail ==
  ASSUME NEW q, NEW r \in Nat, NEW e \in Nat, Marked(q, r, e)
  PROVE  /\ q # <<>>
         /\ q[1] = End => e = r /\ Tail(q) = <<>>
         /\ q[1] # End => q[1] = r + 1 /\ Marked(Tail(q), r + 1, e)
<1>1. q \in Seq(Nat) /\ Len(q) + r = e + 1 /\ Len(q) \in Nat \ {0}
  BY DEF Marked
<1>2. Len(q) \in Nat \ {0} /\ q # <<>>
  BY <1>1, EmptySeq
<1>3. /\ Tail(q) \in Seq(Nat) /\ Len(Tail(q)) = Len(q) - 1
      /\ \A i \in 1..Len(Tail(q)) : Tail(q)[i] = q[i + 1]
  BY <1>1, <1>2, HeadTailProperties
<1>4. CASE Len(q) = 1
  <2>1. q[1] = End
    <3>1. q[Len(q)] = End
      BY DEF Marked
    <3> QED BY <1>4, <3>1
  <2>2. e = r
    BY <1>1, <1>4
  <2>3. Tail(q) = <<>>
    <3>1. Len(Tail(q)) = 0
      BY <1>3, <1>4
    <3> QED BY <1>3, <3>1, EmptySeq
  <2> QED BY <1>2, <2>1, <2>2, <2>3
<1>5. CASE Len(q) # 1
  <2>1. q[1] = r + 1 /\ q[1] # End
    <3>1. 1 \in 1..Len(q) /\ 1 < Len(q)
      BY <1>2, <1>5
    <3>2. q[1] = r + 1
      BY <3>1 DEF Marked
    <3> QED BY <3>2 DEF End
  <2>2. Tail(q)[Len(Tail(q))] = End
    BY <1>2, <1>3, <1>5 DEF Marked
  <2>3. ASSUME NEW i \in 1..Len(Tail(q)), i < Len(Tail(q))
        PROVE  Tail(q)[i] = (r + 1) + i
    <3>1. i + 1 \in 1..Len(q) /\ i + 1 < Len(q) /\ Tail(q)[i] = q[i + 1]
      BY <1>2, <1>3, <2>3
    <3> QED BY <3>1 DEF Marked
  <2>4. Len(Tail(q)) \in Nat \ {0} /\ Len(Tail(q)) + (r + 1) = e + 1
    BY <1>1, <1>2, <1>3, <1>5
  <2>5. Marked(Tail(q), r + 1, e)
    BY <1>3, <2>2, <2>3, <2>4 DEF Marked
  <2> QED BY <1>2, <2>1, <2>5
<1> QED BY <1>4, <1>5

-----------------------------------------------------------------------------
Shape ==
  \/ ~discarded /\ ~exhausted /\ Flowing(queue, Len(received), emitted)
  \/ /\ ~discarded /\ ~exhausted /\ producer = "done"
     /\ Marked(queue, Len(received), emitted)
  \/ /\ exhausted /\ queue = <<>> /\ producer = "done"
     /\ discarded \/ emitted = Len(received)
  \/ discarded /\ ~exhausted /\ producer = "done" /\ queue = <<End>>

Typing ==
  /\ emitted \in Nat /\ received \in Seq(Nat) /\ Len(received) \in Nat
  /\ pc \in [Tasks -> {"idle", "holding", "reading", "joining", "closing", "ended"}]

\* Before the reader has begun there is no producer, nothing to cancel and
\* nobody to wait for one.
NotYet ==
  pc["reader"] = "idle" => producer = "none" /\ ~cancelling /\ pc["closer"] # "closing"

IInv == Typing /\ NotYet /\ InOrder /\ Shape

LEMMA InitIInv == Init => IInv
<1> SUFFICES ASSUME Init PROVE IInv
  OBVIOUS
<1>1. received = <<>> /\ received \in Seq(Nat) /\ Len(received) = 0
  BY EmptySeq DEF Init
<1>2. Flowing(queue, Len(received), emitted)
  BY <1>1, EmptySeq DEF Init, Flowing
<1> QED BY <1>1, <1>2 DEF Init, IInv, Typing, NotYet, InOrder, Shape, Tasks

LEMMA PutKeeps ==
  ASSUME IInv, producer # "done", Put, UNCHANGED <<received, discarded, exhausted>>
  PROVE  emitted' \in Nat /\ ~discarded' /\ ~exhausted'
         /\ Flowing(queue', Len(received'), emitted')
BY FlowingAppend DEF IInv, Typing, Shape, Put

\* What a finished producer leaves, from a queue q that flows.
LEMMA EndsKeeps ==
  ASSUME NEW how, NEW q, Ends(how, q), emitted' \in Nat, Len(received') \in Nat,
         Flowing(q, Len(received'), emitted'), ~discarded', ~exhausted'
  PROVE  Shape'
<1>1. CASE queue' = q
  BY <1>1 DEF Shape
<1>2. CASE queue' # q
  BY <1>2, FlowingMarked DEF Ends, WithEnd, Shape
<1> QED BY <1>1, <1>2

LEMMA ProduceKeeps ==
  ASSUME IInv, Produce
  PROVE  IInv'
<1> USE DEF IInv
<1>1. /\ UNCHANGED <<received, exhausted, discarded, pc>>
      /\ producer \notin {"none", "done"} /\ producer' # "none"
      /\ pc["reader"] # "idle"
  BY DEF Produce, Begin, Emit, EmitBlocked, EndBlocked, RunEnds, Ends, readerVars, closeVars,
         NotYet
<1>2. InOrder' /\ NotYet'
  BY <1>1 DEF InOrder, NotYet
<1>3. CASE Begin
  BY <1>1, <1>2, <1>3 DEF Begin, Shape, Typing
<1>4. CASE Emit \/ EmitBlocked
  <2>1. CASE Put
    BY <1>1, <1>2, <1>4, <2>1, PutKeeps DEF Shape, Typing
  <2>2. CASE UNCHANGED <<queue, emitted>>
    BY <1>1, <1>2, <2>2 DEF Shape, Typing
  <2> QED BY <1>4, <2>1, <2>2 DEF Emit, EmitBlocked
<1>5. CASE EndBlocked
  <2>1. Marked(queue', Len(received'), emitted')
    BY <1>1, <1>5, FlowingMarked DEF EndBlocked, WithEnd, Shape, Typing
  <2> QED BY <1>1, <1>2, <1>5, <2>1 DEF EndBlocked, Shape, Typing
<1>6. CASE \E how \in {"result", "error"} : RunEnds(how)
  <2>1. PICK how : RunEnds(how)
    BY <1>6
  <2>2. Shape'
    BY <1>1, <2>1, EndsKeeps DEF RunEnds, Shape, Typing
  <2> QED BY <1>1, <1>2, <2>1, <2>2 DEF RunEnds, Typing
<1> QED BY <1>3, <1>4, <1>5, <1>6 DEF Produce

LEMMA UnwindKeeps ==
  ASSUME IInv, Unwind
  PROVE  IInv'
<1> USE DEF IInv
<1>1. /\ UNCHANGED <<received, exhausted, discarded, pc>>
      /\ producer # "done" /\ pc["reader"] # "idle"
  BY DEF Unwind, NoticeCancel, Unwound, UnwindFails, Report, readerVars, closeVars, NotYet
<1>2. InOrder' /\ NotYet'
  BY <1>1 DEF InOrder, NotYet
<1>3. CASE NoticeCancel \/ UnwindFails
  BY <1>1, <1>2, <1>3 DEF NoticeCancel, UnwindFails, Shape, Typing
<1>4. CASE Unwound
  <2>1. Shape'
    BY <1>1, <1>4, EndsKeeps DEF Unwound, Shape, Typing
  <2> QED BY <1>1, <1>2, <1>4, <2>1 DEF Unwound, Typing
<1>5. CASE Report
  <2>1. /\ emitted' = emitted + 1 /\ emitted' \in Nat
        /\ Ends("error", Append(queue, emitted'))
    BY <1>5 DEF Report, Typing
  <2>2. Flowing(queue, Len(received), emitted) /\ ~discarded /\ ~exhausted
    BY <1>1 DEF Shape
  <2>3. Flowing(Append(queue, emitted'), Len(received'), emitted')
    BY <1>1, <2>1, <2>2, FlowingAppend DEF Typing
  <2>4. Shape'
    BY <1>1, <2>1, <2>2, <2>3, EndsKeeps DEF Typing
  <2> QED BY <1>1, <1>2, <2>1, <2>4 DEF Typing
<1> QED BY <1>3, <1>4, <1>5 DEF Unwind

LEMMA ReadKeeps ==
  ASSUME IInv, Read
  PROVE  IInv'
<1> USE DEF IInv
<1>1. /\ queue # <<>> /\ queue' = Tail(queue)
      /\ UNCHANGED <<emitted, producer, cancelling, discarded>>
      /\ pc["reader"] = "reading"
      /\ pc'["reader"] # "idle"
      /\ pc' \in [Tasks -> {"idle", "holding", "reading", "joining", "closing", "ended"}]
  BY DEF Read, Remaining, producerVars, Typing, Tasks
<1>2. NotYet'
  BY <1>1 DEF NotYet
<1>3. CASE queue[1] = End
  <2>1. exhausted' /\ UNCHANGED received
    BY <1>3 DEF Read, Oldest
  <2>2. CASE discarded
    <3>1. queue = <<End>> /\ producer = "done"
      BY <1>1, <2>2 DEF Shape
    <3>2. Tail(queue) = <<>>
      BY <3>1
    <3> QED BY <1>1, <1>2, <2>1, <2>2, <3>1, <3>2 DEF Shape, Typing, InOrder
  <2>3. CASE ~discarded
    <3>1. producer = "done" /\ Marked(queue, Len(received), emitted)
      BY <1>1, <1>3, <2>3, FlowingTail DEF Shape, Typing
    <3>2. emitted = Len(received) /\ Tail(queue) = <<>>
      BY <1>3, <3>1, MarkedTail DEF Typing
    <3> QED BY <1>1, <1>2, <2>1, <2>3, <3>1, <3>2 DEF Shape, Typing, InOrder
  <2> QED BY <2>2, <2>3
<1>4. CASE queue[1] # End
  <2>1. received' = Append(received, queue[1]) /\ UNCHANGED exhausted
    BY <1>4 DEF Read, Oldest
  <2>2. ~discarded /\ ~exhausted
    BY <1>1, <1>4 DEF Shape
  <2>3. \/ Flowing(queue, Len(received), emitted)
        \/ producer = "done" /\ Marked(queue, Len(received), emitted)
    BY <1>1, <2>2 DEF Shape
  <2>4. /\ queue[1] = Len(received) + 1
        /\ \/ Flowing(Tail(queue), Len(received) + 1, emitted)
           \/ producer = "done" /\ Marked(Tail(queue), Len(received) + 1, emitted)
    BY <1>1, <1>4, <2>3, FlowingTail, MarkedTail DEF Typing
  <2>5. /\ received' \in Seq(Nat) /\ Len(received') = Len(received) + 1
        /\ \A i \in 1..Len(received) : received'[i] = received[i]
        /\ received'[Len(received) + 1] = Len(received) + 1
    BY <2>1, <2>4, AppendProperties DEF Typing
  <2>6. InOrder'
    <3>1. ASSUME NEW i \in 1..(Len(received) + 1) PROVE received'[i] = i
      <4>1. CASE i = Len(received) + 1
        BY <2>5, <4>1
      <4>2. CASE i \in 1..Len(received)
        BY <2>5, <4>2 DEF InOrder
      <4> QED BY <4>1, <4>2 DEF Typing
    <3> QED BY <2>5, <3>1 DEF InOrder
  <2>7. Shape'
    BY <1>1, <2>1, <2>2, <2>4, <2>5 DEF Shape
  <2>8. Typing'
    BY <1>1, <2>5 DEF Typing
  <2> QED BY <1>2, <2>6, <2>7, <2>8
<1> QED BY <1>3, <1>4

LEMMA CloseKeeps ==
  ASSUME IInv, NEW t \in Tasks, Close(t), t = "reader" \/ pc["reader"] = pc'["reader"],
         t # "reader" \/ pc["reader"] # "idle" \/ producer = "none"
  PROVE  IInv'
<1> USE DEF IInv
<1>1. /\ UNCHANGED <<emitted, producer, received, exhausted>>
      /\ pc' \in [Tasks -> {"idle", "holding", "reading", "joining", "closing", "ended"}]
      /\ pc'["reader"] = "idle" => pc["reader"] = "idle"
      /\ UNCHANGED cancelling \/ producer # "none"
      /\ pc'["closer"] = "closing" => pc["closer"] = "closing" \/ producer # "none"
  BY DEF Close, readerVars, Typing, Tasks
<1>2. Typing' /\ InOrder' /\ NotYet'
  BY <1>1 DEF Typing, InOrder, NotYet
<1>3. CASE UNCHANGED <<queue, discarded>>
  BY <1>1, <1>2, <1>3 DEF Shape
<1>4. CASE Wake /\ producer = "done"
  BY <1>1, <1>2, <1>4 DEF Shape, Wake, OnlyMarker
<1> QED BY <1>3, <1>4 DEF Close

LEMMA NextKeepsIInv ==
  ASSUME IInv, [Next]_vars
  PROVE  IInv'
<1>1. CASE UNCHANGED vars
  BY <1>1 DEF IInv, Typing, NotYet, InOrder, Shape, vars
<1>2. CASE Produce \/ Unwind
  BY <1>2, ProduceKeeps, UnwindKeeps
<1>3. CASE Iterate
  BY <1>3 DEF IInv, Iterate, Typing, NotYet, InOrder, Shape, readerVars, Tasks
<1>4. CASE AskNext
  BY <1>4 DEF IInv, AskNext, Typing, NotYet, InOrder, Shape, producerVars, readerVars, Tasks
<1>5. CASE Read
  BY <1>5, ReadKeeps
<1>6. CASE Join \/ Leave \/ Abandon
  <2>1. Close("reader") /\ (pc["reader"] # "idle" \/ producer = "none")
    BY <1>6 DEF Join, Leave, Abandon, IInv, NotYet
  <2> QED BY <2>1, CloseKeeps DEF Tasks
<1>7. CASE CloseElsewhere
  <2>1. pc'["reader"] = pc["reader"] /\ Close("closer")
    BY <1>7 DEF CloseElsewhere, Close, IInv, Typing, Tasks
  <2> QED BY <2>1, CloseKeeps DEF Tasks
<1>8. ASSUME NEW t \in Tasks, CloseReturns(t) PROVE IInv'
  <2>1. /\ Wake /\ producer = "done"
        /\ UNCHANGED <<emitted, producer, cancelling, received, exhausted>>
        /\ pc' \in [Tasks -> {"idle", "holding", "reading", "joining", "closing", "ended"}]
        /\ pc'["reader"] = "idle" => pc["reader"] = "idle"
        /\ pc'["closer"] = "closing" => pc["closer"] = "closing"
    BY <1>8 DEF CloseReturns, Awaited, IInv, Typing, producerVars, readerVars, Tasks
  <2>2. Shape'
    BY <2>1 DEF IInv, Shape, Wake, OnlyMarker
  <2> QED BY <2>1, <2>2 DEF IInv, Typing, NotYet, InOrder
<1>9. ASSUME NEW t \in Tasks, Interrupt(t) PROVE IInv'
  BY <1>9 DEF IInv, Interrupt, Typing, NotYet, InOrder, Shape, readerVars, Tasks
<1> QED BY <1>1, <1>2, <1>3, <1>4, <1>5, <1>6, <1>7, <1>8, <1>9 DEF Next

LEMMA Inductive == Spec => []IInv
BY InitIInv, NextKeepsIInv, PTL DEF Spec

\* The reader sees the run's events from the first on, in order and without a
\* gap, and all of them if it reads to the end of a stream that was not
\* discarded, for every queue size and whatever is closed or cancelled.
THEOREM DeliveryHolds == Spec => []Delivered
<1>1. IInv => Delivered
  BY DEF IInv, Shape, Delivered, Complete
<1> QED BY <1>1, Inductive, PTL

\* A reader that left, or is leaving, has closed the input of the run.
InputOff == pc["reader"] \in {"closing", "ended"} => ~open

LEMMA InputStaysOff == ASSUME IInv, InputOff, [Next]_vars PROVE InputOff'
<1> USE DEF InputOff
<1>1. pc \in [Tasks -> {"idle", "holding", "reading", "joining", "closing", "ended"}]
  BY DEF IInv, Typing
<1>2. CASE UNCHANGED vars
  BY <1>2 DEF vars
<1>3. CASE Produce \/ Unwind
  BY <1>3 DEF Produce, Unwind, Begin, Emit, EmitBlocked, EndBlocked, RunEnds, Ends,
              NoticeCancel, Unwound, UnwindFails, Report, closeVars
<1>4. CASE Iterate \/ AskNext \/ Read
  BY <1>1, <1>4 DEF Iterate, AskNext, Read, Tasks
<1>5. CASE Join \/ Leave \/ Abandon \/ CloseElsewhere
  <2>1. ~open'
    BY <1>5 DEF Join, Leave, Abandon, CloseElsewhere, Close, ClosesInput
  <2> QED BY <2>1
<1>6. ASSUME NEW t \in Tasks, CloseReturns(t) \/ Interrupt(t) PROVE InputOff'
  BY <1>1, <1>6 DEF CloseReturns, Interrupt, Tasks
<1> QED BY <1>2, <1>3, <1>4, <1>5, <1>6 DEF Next

\* Where there is an end marker the producer is done, and where the reader has
\* left the input is closed.
THEOREM MarkerMeansDone == Spec => []EndMeansDone
<1>1. ASSUME IInv, InputOff PROVE EndMeansDone
  <2>1. CASE producer = "done"
    BY <1>1, <2>1 DEF EndMeansDone, InputOff
  <2>2. CASE producer # "done"
    <3>1. ~exhausted /\ Flowing(queue, Len(received), emitted)
      BY <1>1, <2>2 DEF IInv, Shape
    <3>2. queue \in Seq(Nat) /\ DOMAIN queue = 1..Len(queue) /\ Len(received) \in Nat
      BY <1>1, <3>1, LenProperties DEF Flowing, IInv, Typing
    <3>3. \A i \in DOMAIN queue : queue[i] # End
      BY <3>1, <3>2 DEF Flowing, End
    <3> QED BY <1>1, <3>1, <3>3 DEF EndMeansDone, InputOff
  <2> QED BY <2>1, <2>2
<1>2. Init => InputOff
  BY DEF Init, InputOff, Tasks
<1>3. IInv /\ InputOff /\ [Next]_vars => InputOff'
  BY InputStaysOff
<1> QED BY <1>1, <1>2, <1>3, Inductive, PTL DEF Spec

-----------------------------------------------------------------------------
\* The reply of a model call.

LEMMA Least ==
  ASSUME NEW S \in SUBSET Nat, S # {}
  PROVE  \E n \in S : \A m \in S : n <= m
<1> DEFINE Below == OpToRel(<, Nat)
<1>1. \A x, y \in Nat : y < x => <<y, x>> \in Below
  BY Zenon DEF OpToRel
<1>2. \E x \in S : \A y \in S : <<y, x>> \notin Below
  BY NatLessThanWellFounded, WFMin, Zenon
<1> HIDE DEF Below
<1>3. PICK x \in S : \A y \in S : <<y, x>> \notin Below
  BY <1>2
<1>4. \A y \in S : ~(y < x)
  BY <1>1, <1>3, Zenon
<1>5. QED BY <1>4

\* Induction up to n: a set with 0 and every successor has all of 0..n.
LEMMA UpTo ==
  ASSUME NEW n \in Nat, NEW S, 0 \in S, \A i \in 1..n : i - 1 \in S => i \in S
  PROVE  \A i \in 0..n : i \in S
<1> DEFINE Out == {i \in 0..n : i \notin S}
<1>1. SUFFICES ASSUME Out # {} PROVE FALSE
  OBVIOUS
<1>2. Out \in SUBSET Nat
  OBVIOUS
<1>3. PICK k \in Out : \A m \in Out : k <= m
  <2> HIDE DEF Out
  <2> QED BY <1>1, <1>2, Least
<1>4. k \in 1..n /\ k - 1 \in 0..n /\ ~(k <= k - 1)
  BY <1>3
<1>5. k - 1 \in S
  BY <1>3, <1>4
<1>6. QED BY <1>3, <1>4, <1>5

Joins(g, s, n) == g[1] = s[1] /\ \A i \in 2..n : g[i] = g[i - 1] \o s[i]

\* FlattenSeq(s) is the last element of any sequence that joins s one by one.
LEMMA FlattenIs ==
  ASSUME NEW s, NEW g, NEW n \in Nat \ {0}, Len(s) = n, Joins(g, s, n)
  PROVE  FlattenSeq(s) = g[n]
<1> USE DEF Joins
<1> DEFINE Step(f, i) == IF i = 1 THEN s[i] ELSE f[i - 1] \o s[i]
           flat == CHOOSE f : f = [i \in 1..n |-> Step(f, i)]
           h == [i \in 1..n |-> g[i]]
<1>1. h = [i \in 1..n |-> Step(h, i)]
  <2>1. ASSUME NEW i \in 1..n PROVE g[i] = Step(h, i)
    <3>1. CASE i = 1
      BY <3>1
    <3>2. CASE i # 1
      <4>1. i \in 2..n /\ h[i - 1] = g[i - 1]
        BY <3>2
      <4>2. g[i] = g[i - 1] \o s[i]
        BY <4>1
      <4>3. QED BY <3>2, <4>1, <4>2
    <3>3. QED BY <3>1, <3>2
  <2>2. QED BY <2>1
<1>2. flat = [i \in 1..n |-> Step(flat, i)]
  <2> HIDE DEF h, Step
  <2> QED BY <1>1
<1>3. FlattenSeq(s) = flat[n]
  BY DEF FlattenSeq
<1> HIDE DEF flat
<1>4. \A i \in 1..n : flat[i] = Step(flat, i)
  <2> HIDE DEF Step
  <2> QED BY <1>2, Zenon
<1>5. \A i \in 1..n : flat[i] = g[i]
  <2> DEFINE Same == {i \in 0..n : i = 0 \/ flat[i] = g[i]}
  <2>1. ASSUME NEW i \in 1..n, i - 1 \in Same PROVE i \in Same
    <3>1. CASE i = 1
      BY <1>4, <3>1
    <3>2. CASE i # 1
      <4>1. i \in 2..n /\ flat[i - 1] = g[i - 1]
        BY <2>1, <3>2
      <4>2. g[i] = g[i - 1] \o s[i] /\ flat[i] = flat[i - 1] \o s[i]
        BY <1>4, <4>1
      <4>3. flat[i] = g[i]
        BY <4>1, <4>2, Zenon
      <4>4. QED BY <4>3
    <3>3. QED BY <3>1, <3>2
  <2>2. \A i \in 0..n : i \in Same
    <3>1. 0 \in Same
      OBVIOUS
    <3> HIDE DEF Same
    <3> QED BY <2>1, <3>1, UpTo
  <2>3. QED BY <2>2
<1>6. QED BY <1>3, <1>5

\* r is what the sequences of s say one after the other.
Joined(s, r) ==
  \/ Len(s) = 0 /\ s = <<>> /\ r = <<>>
  \/ Len(s) \in Nat \ {0} /\ \E g : Joins(g, s, Len(s)) /\ r = g[Len(s)]

LEMMA JoinedIsFlatten ==
  ASSUME NEW s, NEW r, Joined(s, r)
  PROVE  FlattenSeq(s) = r
<1>1. CASE Len(s) = 0 /\ s = <<>> /\ r = <<>>
  BY <1>1 DEF FlattenSeq
<1>2. CASE Len(s) \in Nat \ {0} /\ \E g : Joins(g, s, Len(s)) /\ r = g[Len(s)]
  BY <1>2, FlattenIs
<1> QED BY <1>1, <1>2 DEF Joined

LEMMA JoinedAppend ==
  ASSUME NEW A, NEW B, NEW s \in Seq(A), NEW x \in A, NEW r \in Seq(B), x \in Seq(B),
         Joined(s, r)
  PROVE  Joined(Append(s, x), r \o x)
<1> DEFINE t == Append(s, x)
           n == Len(s)
<1>1. n \in Nat /\ Len(t) = n + 1 /\ t[n + 1] = x /\ \A i \in 1..n : t[i] = s[i]
  BY AppendProperties, LenProperties
<1> HIDE DEF t, n
<1>2. CASE n = 0
  <2> DEFINE g == [i \in {1} |-> x]
  <2>1. r = <<>> /\ r \o x = x
    BY <1>2, ConcatEmptySeq DEF Joined, n
  <2>2. Joins(g, t, 1) /\ g[1] = x
    BY <1>1, <1>2 DEF Joins
  <2> HIDE DEF g
  <2>3. Joined(t, x)
    BY <1>1, <1>2, <2>2 DEF Joined
  <2> QED BY <2>1, <2>3 DEF t
<1>3. CASE n # 0
  <2>1. PICK h : Joins(h, s, n) /\ r = h[n]
    BY <1>1, <1>3 DEF Joined, n
  <2> DEFINE g == [i \in 1..(n + 1) |-> IF i = n + 1 THEN r \o x ELSE h[i]]
  <2>2. g[n + 1] = r \o x /\ \A i \in 1..n : g[i] = h[i]
    BY <1>1
  <2> HIDE DEF g
  <2>3. g[1] = t[1]
    BY <1>1, <1>3, <2>1, <2>2 DEF Joins
  <2>4. ASSUME NEW i \in 2..(n + 1) PROVE g[i] = g[i - 1] \o t[i]
    <3>1. CASE i = n + 1
      <4>1. n \in 1..n /\ i - 1 = n
        BY <1>1, <1>3, <3>1
      <4>2. g[i - 1] = r /\ t[i] = x /\ g[i] = r \o x
        BY <4>1, <1>1, <2>1, <2>2, <3>1
      <4> QED BY <4>2
    <3>2. CASE i # n + 1
      <4>1. i \in 2..n /\ i \in 1..n /\ i - 1 \in 1..n
        BY <1>1, <3>2
      <4>2. h[i] = h[i - 1] \o s[i]
        BY <2>1, <4>1 DEF Joins
      <4>3. g[i] = h[i] /\ g[i - 1] = h[i - 1] /\ t[i] = s[i]
        BY <1>1, <2>2, <4>1
      <4> QED BY <4>2, <4>3
    <3> QED BY <3>1, <3>2
  <2>5. Joins(g, t, n + 1)
    BY <2>3, <2>4 DEF Joins
  <2>6. Joined(t, r \o x)
    BY <1>1, <2>2, <2>5 DEF Joined
  <2> QED BY <2>6 DEF t
<1> QED BY <1>2, <1>3

-----------------------------------------------------------------------------
\* At most one of the deltas e is text of kind k, and w is that text.
Silent(e, k) == \A i \in 1..Len(e) : e[i].kind # k
Says(e, k, w) ==
  \/ w = <<>> /\ Silent(e, k)
  \/ \E i \in 1..Len(e) :
       /\ e[i].kind = k /\ e[i].words = w
       /\ \A j \in 1..Len(e) : e[j].kind = k => j = i

LEMMA SilentBoth ==
  ASSUME NEW D, NEW e \in Seq(D), NEW f \in Seq(D), NEW k, Silent(e, k), Silent(f, k)
  PROVE  Silent(e \o f, k)
<1>1. /\ Len(e) \in Nat /\ Len(f) \in Nat /\ Len(e \o f) = Len(e) + Len(f)
      /\ \A i \in 1..(Len(e) + Len(f)) :
           (e \o f)[i] = IF i <= Len(e) THEN e[i] ELSE f[i - Len(e)]
  BY ConcatProperties, LenProperties
<1> SUFFICES ASSUME NEW i \in 1..(Len(e) + Len(f)) PROVE (e \o f)[i].kind # k
  BY <1>1 DEF Silent
<1>2. CASE i <= Len(e)
  <2>1. i \in 1..Len(e)
    BY <1>1, <1>2
  <2> QED BY <1>1, <1>2, <2>1 DEF Silent
<1>3. CASE ~(i <= Len(e))
  <2>1. i - Len(e) \in 1..Len(f)
    BY <1>1, <1>3
  <2> QED BY <1>1, <1>3, <2>1 DEF Silent
<1> QED BY <1>2, <1>3

LEMMA SaysFirst ==
  ASSUME NEW D, NEW e \in Seq(D), NEW f \in Seq(D), NEW k, NEW w, Says(e, k, w), Silent(f, k)
  PROVE  Says(e \o f, k, w)
<1>1. /\ Len(e) \in Nat /\ Len(f) \in Nat /\ Len(e \o f) = Len(e) + Len(f)
      /\ \A i \in 1..(Len(e) + Len(f)) :
           (e \o f)[i] = IF i <= Len(e) THEN e[i] ELSE f[i - Len(e)]
  BY ConcatProperties, LenProperties
<1>2. CASE w = <<>> /\ Silent(e, k)
  BY <1>2, SilentBoth DEF Says
<1>3. ASSUME NEW i \in 1..Len(e), e[i].kind = k, e[i].words = w,
             \A j \in 1..Len(e) : e[j].kind = k => j = i
      PROVE  Says(e \o f, k, w)
  <2>1. i \in 1..Len(e \o f) /\ (e \o f)[i] = e[i]
    BY <1>1
  <2>2. ASSUME NEW j \in 1..Len(e \o f), (e \o f)[j].kind = k PROVE j = i
    <3>1. CASE j <= Len(e)
      <4>1. j \in 1..Len(e) /\ (e \o f)[j] = e[j]
        BY <1>1, <3>1
      <4> QED BY <1>3, <2>2, <4>1
    <3>2. CASE ~(j <= Len(e))
      <4>1. j - Len(e) \in 1..Len(f) /\ (e \o f)[j] = f[j - Len(e)]
        BY <1>1, <3>2
      <4> QED BY <2>2, <4>1 DEF Silent
    <3> QED BY <3>1, <3>2
  <2> QED BY <1>3, <2>1, <2>2 DEF Says
<1> QED BY <1>2, <1>3 DEF Says

LEMMA SaysSecond ==
  ASSUME NEW D, NEW e \in Seq(D), NEW f \in Seq(D), NEW k, NEW w, Silent(e, k), Says(f, k, w)
  PROVE  Says(e \o f, k, w)
<1>1. /\ Len(e) \in Nat /\ Len(f) \in Nat /\ Len(e \o f) = Len(e) + Len(f)
      /\ \A i \in 1..(Len(e) + Len(f)) :
           (e \o f)[i] = IF i <= Len(e) THEN e[i] ELSE f[i - Len(e)]
  BY ConcatProperties, LenProperties
<1>2. CASE w = <<>> /\ Silent(f, k)
  BY <1>2, SilentBoth DEF Says
<1>3. ASSUME NEW i \in 1..Len(f), f[i].kind = k, f[i].words = w,
             \A j \in 1..Len(f) : f[j].kind = k => j = i
      PROVE  Says(e \o f, k, w)
  <2>1. i + Len(e) \in 1..Len(e \o f) /\ (e \o f)[i + Len(e)] = f[i]
    BY <1>1
  <2>2. ASSUME NEW j \in 1..Len(e \o f), (e \o f)[j].kind = k PROVE j = i + Len(e)
    <3>1. CASE j <= Len(e)
      <4>1. j \in 1..Len(e) /\ (e \o f)[j] = e[j]
        BY <1>1, <3>1
      <4> QED BY <2>2, <4>1 DEF Silent
    <3>2. CASE ~(j <= Len(e))
      <4>1. j - Len(e) \in 1..Len(f) /\ (e \o f)[j] = f[j - Len(e)]
        BY <1>1, <3>2
      <4>2. j - Len(e) = i
        BY <1>3, <2>2, <4>1
      <4> QED BY <1>1, <4>2
    <3> QED BY <3>1, <3>2
  <2> QED BY <1>3, <2>1, <2>2 DEF Says
<1> QED BY <1>2, <1>3 DEF Says

\* Giving the first delta to a callback.
LEMMA SaysHead ==
  ASSUME NEW D, NEW e \in Seq(D), e # <<>>, NEW k, NEW w, Says(e, k, w)
  PROVE  /\ Head(e).kind = k => Head(e).words = w /\ Says(Tail(e), k, <<>>)
         /\ Head(e).kind # k => Says(Tail(e), k, w)
<1>1. /\ Len(e) \in Nat \ {0} /\ Head(e) = e[1] /\ Len(Tail(e)) = Len(e) - 1
      /\ \A i \in 1..Len(Tail(e)) : Tail(e)[i] = e[i + 1]
  BY EmptySeq, LenProperties, HeadTailProperties
<1>2. 1 \in 1..Len(e) /\ \A i \in 1..Len(Tail(e)) : i + 1 \in 1..Len(e) /\ i + 1 # 1
  BY <1>1
<1>3. CASE w = <<>> /\ Silent(e, k)
  BY <1>1, <1>2, <1>3 DEF Says, Silent
<1>4. ASSUME NEW i \in 1..Len(e), e[i].kind = k, e[i].words = w,
             \A j \in 1..Len(e) : e[j].kind = k => j = i
      PROVE  /\ Head(e).kind = k => Head(e).words = w /\ Says(Tail(e), k, <<>>)
             /\ Head(e).kind # k => Says(Tail(e), k, w)
  <2>1. CASE Head(e).kind = k
    <3>1. i = 1
      BY <1>1, <1>2, <1>4, <2>1
    <3>2. Silent(Tail(e), k)
      BY <1>1, <1>2, <1>4, <3>1 DEF Silent
    <3> QED BY <1>1, <1>4, <2>1, <3>1, <3>2 DEF Says
  <2>2. CASE Head(e).kind # k
    <3>1. i # 1 /\ i - 1 \in 1..Len(Tail(e)) /\ Tail(e)[i - 1] = e[i]
      BY <1>1, <1>2, <1>4, <2>2
    <3>2. ASSUME NEW j \in 1..Len(Tail(e)), Tail(e)[j].kind = k PROVE j = i - 1
      BY <1>1, <1>2, <1>4, <3>2
    <3> QED BY <1>4, <2>2, <3>1, <3>2 DEF Says
  <2> QED BY <2>1, <2>2
<1> QED BY <1>3, <1>4 DEF Says

\* The deltas the callbacks may be given.
TextDeltas == [kind : TextKinds, words : Seq(STRING)]
ToolDeltas == [kind : {"tool"}, call : CallDeltas(Nat)]
Deltas == TextDeltas \union ToolDeltas

\* The words of each delta of s that is text of kind k.
Words(k, s) == [i \in DOMAIN s |-> IF s[i].kind = k THEN s[i].words ELSE <<>>]
Parsed(s) == [i \in DOMAIN s |-> ParsedStreamChunk(s[i])]

LEMMA SilentChunk ==
  ASSUME NEW c \in Chunks, ~c.choice
  PROVE  ParsedStreamChunk(c) = <<>>
BY DEF ParsedStreamChunk

\* What a chunk says: at most one text of each kind, in their order, then calls.
TextPiece(c, k) == IF c.text[k] = <<>> THEN <<>> ELSE <<[kind |-> k, words |-> c.text[k]]>>
ToolDelta(d, hint) == [kind |-> "tool", call |-> [d EXCEPT !.index = IndexOf(d, hint)]]
ToolPiece(c) == [i \in DOMAIN c.tools |-> ToolDelta(c.tools[i], i - 1)]

LEMMA ParsedIs ==
  ASSUME NEW c \in Chunks, c.choice
  PROVE  ParsedStreamChunk(c) =
           ((TextPiece(c, "content") \o TextPiece(c, "refusal")) \o TextPiece(c, "reasoning"))
           \o ToolPiece(c)
BY DEF ParsedStreamChunk, TextPiece, ToolPiece, ToolDelta

LEMMA TextPieceIs ==
  ASSUME NEW c \in Chunks, NEW k \in TextKinds
  PROVE  /\ TextPiece(c, k) \in Seq(Deltas)
         /\ Says(TextPiece(c, k), k, c.text[k])
         /\ \A j \in TextKinds : j # k => Silent(TextPiece(c, k), j)
         /\ TextPiece(c, k) = <<>> \/ \E d \in TextDeltas : TextPiece(c, k) = <<d>>
<1>1. CASE c.text[k] = <<>>
  <2>1. /\ TextPiece(c, k) = <<>> /\ Len(TextPiece(c, k)) = 0
        /\ TextPiece(c, k) \in Seq(Deltas)
    BY <1>1, EmptySeq DEF TextPiece
  <2>2. \A j : Silent(TextPiece(c, k), j)
    BY <2>1 DEF Silent
  <2> QED BY <1>1, <2>1, <2>2 DEF Says
<1>2. CASE c.text[k] # <<>>
  <2> DEFINE d == [kind |-> k, words |-> c.text[k]]
  <2>1. TextPiece(c, k) = <<d>>
    BY <1>2 DEF TextPiece
  <2>2. d.kind = k /\ d.words = c.text[k] /\ d \in TextDeltas /\ d \in Deltas
    BY StreamAssumption DEF TextDeltas, Deltas
  <2> HIDE DEF d
  <2>3. <<d>> \in Seq(Deltas) /\ Len(<<d>>) = 1 /\ <<d>>[1] = d
    BY <2>2
  <2>4. \A j \in TextKinds : j # k => Silent(<<d>>, j)
    BY <2>2, <2>3 DEF Silent
  <2>5. Says(<<d>>, k, c.text[k])
    BY <2>2, <2>3 DEF Says
  <2> QED BY <2>1, <2>2, <2>3, <2>4, <2>5
<1> QED BY <1>1, <1>2

LEMMA ToolDeltaSays ==
  ASSUME NEW d, NEW hint
  PROVE  /\ ToolDelta(d, hint).kind = "tool"
         /\ ToolDelta(d, hint).call = [d EXCEPT !.index = IndexOf(d, hint)]
BY DEF ToolDelta

LEMMA ToolDeltaIs ==
  ASSUME NEW d \in CallDeltas(Nat \union {None}), NEW hint \in Nat
  PROVE  ToolDelta(d, hint) \in ToolDeltas
<1>1. IndexOf(d, hint) \in Nat
  BY DEF CallDeltas, IndexOf
<1>2. [d EXCEPT !.index = IndexOf(d, hint)] \in CallDeltas(Nat)
  BY <1>1 DEF CallDeltas
<1> HIDE DEF IndexOf
<1> QED BY <1>2 DEF ToolDeltas, ToolDelta

LEMMA ToolPieceIs ==
  ASSUME NEW c \in Chunks
  PROVE  /\ Len(c.tools) \in Nat /\ DOMAIN c.tools = 1..Len(c.tools)
         /\ ToolPiece(c) \in Seq(Deltas) /\ Len(ToolPiece(c)) = Len(c.tools)
         /\ \A i \in 1..Len(c.tools) :
              /\ c.tools[i] \in CallDeltas(Nat \union {None})
              /\ ToolPiece(c)[i] \in ToolDeltas
              /\ ToolPiece(c)[i] = ToolDelta(c.tools[i], i - 1)
         /\ \A k \in TextKinds : Silent(ToolPiece(c), k)
<1> DEFINE m == Len(c.tools)
           t == ToolPiece(c)
<1>1. /\ m \in Nat /\ DOMAIN c.tools = 1..m
      /\ \A i \in 1..m : c.tools[i] \in CallDeltas(Nat \union {None})
  BY StreamAssumption, LenProperties, ElementOfSeq
<1>2. /\ DOMAIN t = 1..m
      /\ \A i \in 1..m : t[i] = ToolDelta(c.tools[i], i - 1)
  BY <1>1 DEF ToolPiece
<1>3. \A i \in 1..m : t[i] \in ToolDeltas
  <2> HIDE DEF t
  <2>1. \A i \in 1..m : i - 1 \in Nat
    BY <1>1
  <2> QED BY <1>1, <1>2, <2>1, ToolDeltaIs
<1>4. t \in [1..m -> Deltas]
  <2>1. t = [i \in 1..m |-> t[i]]
    BY <1>1 DEF ToolPiece
  <2> HIDE DEF t
  <2> QED BY <1>3, <2>1 DEF Deltas
<1> HIDE DEF t
<1>5. t \in Seq(Deltas) /\ Len(t) = m
  BY <1>1, <1>4, LenProperties
<1>6. \A k \in TextKinds : Silent(t, k)
  <2>1. \A i \in 1..m : t[i].kind = "tool"
    BY <1>3 DEF ToolDeltas
  <2> QED BY <1>5, <2>1 DEF Silent, TextKinds
<1> QED BY <1>1, <1>2, <1>3, <1>5, <1>6 DEF t

LEMMA ParsedSays ==
  ASSUME NEW c \in Chunks, c.choice
  PROVE  /\ ParsedStreamChunk(c) \in Seq(Deltas)
         /\ \A k \in TextKinds : Says(ParsedStreamChunk(c), k, c.text[k])
<1>1. {"content", "refusal", "reasoning"} = TextKinds
  BY DEF TextKinds
<1> DEFINE a == TextPiece(c, "content") \o TextPiece(c, "refusal")
           b == a \o TextPiece(c, "reasoning")
           p == ParsedStreamChunk(c)
<1>2. a \in Seq(Deltas) /\ b \in Seq(Deltas) /\ p \in Seq(Deltas) /\ p = b \o ToolPiece(c)
  <2>1. \A k \in TextKinds : TextPiece(c, k) \in Seq(Deltas)
    BY TextPieceIs
  <2>2. ToolPiece(c) \in Seq(Deltas) /\ p = b \o ToolPiece(c)
    BY ParsedIs, ToolPieceIs
  <2>3. a \in Seq(Deltas)
    BY <1>1, <2>1, ConcatProperties
  <2> HIDE DEF a, p
  <2>4. b \in Seq(Deltas)
    BY <1>1, <2>1, <2>3, ConcatProperties
  <2> HIDE DEF b
  <2> QED BY <2>2, <2>3, <2>4, ConcatProperties
<1> HIDE DEF p
<1>3. Says(p, "content", c.text["content"])
  <2>1. Says(a, "content", c.text["content"])
    BY <1>1, TextPieceIs, SaysFirst
  <2>2. Says(b, "content", c.text["content"])
    BY <1>1, <1>2, <2>1, TextPieceIs, SaysFirst
  <2> QED BY <1>1, <1>2, <2>2, ToolPieceIs, SaysFirst
<1>4. Says(p, "refusal", c.text["refusal"])
  <2>1. Says(a, "refusal", c.text["refusal"])
    BY <1>1, TextPieceIs, SaysSecond
  <2>2. Says(b, "refusal", c.text["refusal"])
    BY <1>1, <1>2, <2>1, TextPieceIs, SaysFirst
  <2> QED BY <1>1, <1>2, <2>2, ToolPieceIs, SaysFirst
<1>5. Says(p, "reasoning", c.text["reasoning"])
  <2>1. Silent(a, "reasoning")
    BY <1>1, TextPieceIs, SilentBoth
  <2>2. Says(b, "reasoning", c.text["reasoning"])
    BY <1>1, <1>2, <2>1, TextPieceIs, SaysSecond
  <2> QED BY <1>1, <1>2, <2>2, ToolPieceIs, SaysFirst
<1> QED BY <1>1, <1>2, <1>3, <1>4, <1>5 DEF p

-----------------------------------------------------------------------------
\* The chunks se of an attempt say what was shown, sh, and is about to be, em.
Follows(se, sh, em) ==
  /\ se \in Seq(Chunks) /\ sh \in Seq(Deltas) /\ em \in Seq(Deltas)
  /\ Joined(Parsed(se), sh \o em)

\* The words of each kind a reader has been given, and the one delta of that
\* kind it is about to be given, are the text the accumulator holds.
Heard(text, sh, em) ==
  /\ DOMAIN text = TextKinds
  /\ \A k \in TextKinds : \E w, rest \in Seq(STRING) :
       /\ Joined(Words(k, sh), w) /\ Says(em, k, rest)
       /\ text[k] = w \o rest

LEMMA NothingHeard == Follows(<<>>, <<>>, <<>>) /\ Heard(NoText, <<>>, <<>>)
<1>1. <<>> \in Seq(Chunks) /\ <<>> \in Seq(Deltas) /\ <<>> \in Seq(STRING) /\ Len(<<>>) = 0
  BY EmptySeq
<1>2. DOMAIN <<>> = 1..0 /\ <<>> \o <<>> = <<>>
  BY <1>1, LenProperties, ConcatEmptySeq
<1>3. Parsed(<<>>) = <<>> /\ \A k : Words(k, <<>>) = <<>>
  BY DEF Parsed, Words
<1>4. Joined(<<>>, <<>>)
  BY <1>1 DEF Joined
<1>5. \A k : Says(<<>>, k, <<>>)
  BY <1>1 DEF Says, Silent
<1>6. DOMAIN NoText = TextKinds /\ \A k \in TextKinds : NoText[k] = <<>>
  BY DEF NoText
<1> QED BY <1>1, <1>2, <1>3, <1>4, <1>5, <1>6 DEF Follows, Heard

\* A function on 1..n is a list of n entries.
LEMMA ListOf ==
  ASSUME NEW T, NEW n \in Nat, NEW f \in [1..n -> T]
  PROVE  f \in Seq(T) /\ Len(f) = n
<1>1. f \in Seq(T)
  BY SeqDef
<1> QED BY <1>1, LenProperties

\* One more delta is shown.
LEMMA WordsAppend ==
  ASSUME NEW k, NEW s \in Seq(Deltas), NEW d \in Deltas
  PROVE  /\ Words(k, s) \in Seq({Words(k, s)[i] : i \in 1..Len(s)})
         /\ Words(k, Append(s, d)) =
              Append(Words(k, s), IF d.kind = k THEN d.words ELSE <<>>)
<1> DEFINE x == IF d.kind = k THEN d.words ELSE <<>>
           Word(e) == IF e.kind = k THEN e.words ELSE <<>>
           u == Append(s, d)
           ws == Words(k, s)
           T == {ws[i] : i \in 1..Len(s)} \union {x}
           n == Len(s)
<1>1. /\ n \in Nat /\ DOMAIN s = 1..n /\ DOMAIN u = 1..(n + 1)
      /\ u[n + 1] = d /\ \A i \in 1..n : u[i] = s[i]
  BY AppendProperties, LenProperties
<1>2. ws = [i \in 1..n |-> Word(s[i])] /\ Words(k, u) = [i \in 1..(n + 1) |-> Word(u[i])]
  BY <1>1 DEF Words
<1>3. Word(d) = x
  OBVIOUS
<1> HIDE DEF u, ws, Word, x
<1>4. ws \in [1..n -> {ws[i] : i \in 1..n}] /\ ws \in [1..n -> T]
  BY <1>1, <1>2
<1>5. ws \in Seq({ws[i] : i \in 1..n}) /\ ws \in Seq(T) /\ Len(ws) = n
  <2> DEFINE B == {ws[i] : i \in 1..n}
  <2> HIDE DEF B, T
  <2>1. ws \in Seq(B)
    BY <1>1, <1>4, ListOf DEF B
  <2>2. ws \in Seq(T) /\ Len(ws) = n
    BY <1>1, <1>4, ListOf
  <2> QED BY <2>1, <2>2 DEF B
<1>6. Words(k, u) = Append(ws, x)
  <2>1. /\ Append(ws, x) \in Seq(T) /\ Len(Append(ws, x)) = n + 1
        /\ \A i \in 1..n : Append(ws, x)[i] = ws[i]
        /\ Append(ws, x)[n + 1] = x
    BY <1>5, AppendProperties
  <2>2. Append(ws, x) \in [1..(n + 1) -> T]
    BY <2>1, LenProperties
  <2>3. \A i \in 1..(n + 1) : Word(u[i]) = Append(ws, x)[i]
    BY <1>1, <1>2, <1>3, <2>1
  <2> QED BY <1>2, <2>2, <2>3
<1> QED BY <1>5, <1>6 DEF ws, u, x

LEMMA ShowsNext ==
  ASSUME NEW se, NEW sh, NEW em, NEW text, em # <<>>,
         Follows(se, sh, em), Heard(text, sh, em)
  PROVE  /\ Follows(se, Append(sh, Head(em)), Tail(em))
         /\ Heard(text, Append(sh, Head(em)), Tail(em))
         /\ Append(sh, Head(em)) \o Tail(em) = sh \o em
<1> DEFINE d == Head(em)
           more == Append(sh, d)
<1>1. /\ se \in Seq(Chunks) /\ sh \in Seq(Deltas) /\ em \in Seq(Deltas)
      /\ Joined(Parsed(se), sh \o em)
  BY DEF Follows
<1>2. d \in Deltas /\ Tail(em) \in Seq(Deltas) /\ more \in Seq(Deltas)
  BY <1>1, HeadTailProperties, AppendProperties
<1>3. more \o Tail(em) = sh \o em
  <2>1. more = sh \o <<d>> /\ <<d>> \in Seq(Deltas)
    BY <1>1, <1>2, AppendIsConcat
  <2>2. <<d>> \o Tail(em) = em
    <3>1. Len(<<d>>) = 1 /\ <<d>>[1] = d /\ Len(em) \in Nat \ {0}
      BY <1>1, EmptySeq
    <3>2. /\ <<d>> \o Tail(em) \in Seq(Deltas)
          /\ Len(<<d>> \o Tail(em)) = 1 + Len(Tail(em))
          /\ \A i \in 1..(1 + Len(Tail(em))) :
               (<<d>> \o Tail(em))[i] = IF i <= 1 THEN <<d>>[i] ELSE Tail(em)[i - 1]
      BY <1>2, <2>1, <3>1, ConcatProperties
    <3>3. /\ Len(Tail(em)) = Len(em) - 1 /\ d = em[1]
          /\ \A i \in 1..Len(Tail(em)) : Tail(em)[i] = em[i + 1]
      BY <1>1, HeadTailProperties
    <3>4. ASSUME NEW i \in 1..Len(em) PROVE (<<d>> \o Tail(em))[i] = em[i]
      <4>1. CASE i = 1
        BY <3>1, <3>2, <3>3, <4>1
      <4>2. CASE i # 1
        <5>1. i - 1 \in 1..Len(Tail(em)) /\ ~(i <= 1) /\ (i - 1) + 1 = i
          BY <3>1, <3>3, <4>2
        <5> QED BY <3>1, <3>2, <3>3, <5>1
      <4> QED BY <4>1, <4>2
    <3>5. Len(<<d>> \o Tail(em)) = Len(em)
      BY <3>1, <3>2, <3>3
    <3> HIDE DEF d
    <3> QED BY <1>1, <3>2, <3>4, <3>5, SeqEqual
  <2>3. (sh \o <<d>>) \o Tail(em) = sh \o (<<d>> \o Tail(em))
    <3> HIDE DEF d
    <3> QED BY <1>1, <1>2, <2>1, ConcatAssociative
  <2> QED BY <2>1, <2>2, <2>3
<1>4. Follows(se, more, Tail(em))
  BY <1>1, <1>2, <1>3 DEF Follows
<1> HIDE DEF more
<1>5. ASSUME NEW k \in TextKinds
      PROVE  \E w, rest \in Seq(STRING) :
               /\ Joined(Words(k, more), w) /\ Says(Tail(em), k, rest)
               /\ text[k] = w \o rest
  <2>1. PICK w \in Seq(STRING), rest \in Seq(STRING) :
          /\ Joined(Words(k, sh), w) /\ Says(em, k, rest) /\ text[k] = w \o rest
    BY DEF Heard
  <2> DEFINE x == IF d.kind = k THEN d.words ELSE <<>>
             A == {Words(k, sh)[i] : i \in 1..Len(sh)} \union {x}
  <2>2. /\ d.kind = k => d.words = rest /\ Says(Tail(em), k, <<>>)
        /\ d.kind # k => Says(Tail(em), k, rest)
    BY <1>1, <2>1, SaysHead
  <2>3. <<>> \in Seq(STRING) /\ w \o <<>> = w /\ (w \o rest) \o <<>> = w \o rest
        /\ w \o rest \in Seq(STRING)
    BY EmptySeq, ConcatEmptySeq, ConcatProperties
  <2>4. x \in Seq(STRING) /\ x \in A
    BY <2>2, <2>3
  <2>5. Words(k, sh) \in Seq(A) /\ Words(k, more) = Append(Words(k, sh), x)
    <3> DEFINE B == {Words(k, sh)[i] : i \in 1..Len(sh)}
    <3> HIDE DEF d
    <3>1. Words(k, sh) \in Seq(B) /\ Words(k, more) = Append(Words(k, sh), x)
      BY <1>1, <1>2, WordsAppend DEF more
    <3>2. B \subseteq A
      OBVIOUS
    <3> HIDE DEF A, B
    <3> QED BY <3>1, <3>2, SeqMonotonic
  <2>6. Joined(Words(k, more), w \o x)
    <3> HIDE DEF A, x
    <3> QED BY <2>1, <2>4, <2>5, JoinedAppend
  <2>7. CASE d.kind = k
    BY <2>1, <2>2, <2>3, <2>6, <2>7
  <2>8. CASE d.kind # k
    BY <2>1, <2>2, <2>3, <2>6, <2>8
  <2> QED BY <2>7, <2>8
<1>6. Heard(text, more, Tail(em))
  BY <1>5 DEF Heard
<1> QED BY <1>3, <1>4, <1>6 DEF more

\* One more chunk arrives.
LEMMA HearsChunk ==
  ASSUME NEW se, NEW sh, NEW a, NEW c \in Chunks,
         Follows(se, sh, <<>>), Heard(a.text, sh, <<>>)
  PROVE  /\ Follows(Append(se, c), sh, ParsedStreamChunk(c))
         /\ Heard(Consume(a, c).text, sh, ParsedStreamChunk(c))
<1> DEFINE p == ParsedStreamChunk(c)
           more == Append(se, c)
<1>1. se \in Seq(Chunks) /\ sh \in Seq(Deltas) /\ Joined(Parsed(se), sh \o <<>>)
  BY DEF Follows
<1>2. p \in Seq(Deltas)
  BY SilentChunk, ParsedSays, EmptySeq
<1>3. sh \o <<>> = sh /\ sh \o p \in Seq(Deltas)
  BY <1>1, <1>2, ConcatEmptySeq, ConcatProperties
<1>4. /\ Parsed(se) \in Seq(Seq(Deltas)) /\ Parsed(more) = Append(Parsed(se), p)
  <2> DEFINE n == Len(se)
             q == Append(Parsed(se), p)
  <2>1. /\ n \in Nat /\ DOMAIN se = 1..n /\ DOMAIN more = 1..(n + 1)
        /\ more[n + 1] = c /\ \A i \in 1..n : more[i] = se[i] /\ se[i] \in Chunks
    BY <1>1, AppendProperties, LenProperties, ElementOfSeq
  <2>2. \A x \in Chunks : ParsedStreamChunk(x) \in Seq(Deltas)
    BY SilentChunk, ParsedSays, EmptySeq
  <2> HIDE DEF more, n
  <2>3. Parsed(se) \in [1..n -> Seq(Deltas)]
    BY <2>1, <2>2 DEF Parsed
  <2>4. Parsed(se) \in Seq(Seq(Deltas)) /\ Len(Parsed(se)) = n
    BY <2>1, <2>3, LenProperties
  <2>5. /\ q \in Seq(Seq(Deltas)) /\ Len(q) = n + 1
        /\ \A i \in 1..n : q[i] = Parsed(se)[i]
        /\ q[n + 1] = p
    <3> HIDE DEF p
    <3> QED BY <1>2, <2>4, AppendProperties
  <2>6. DOMAIN q = 1..(n + 1) /\ q = [i \in DOMAIN q |-> q[i]]
    BY <2>5, LenProperties
  <2>7. ASSUME NEW i \in 1..(n + 1) PROVE q[i] = ParsedStreamChunk(more[i])
    <3>1. CASE i = n + 1
      BY <2>1, <2>5, <3>1
    <3>2. CASE i # n + 1
      <4>1. i \in 1..n
        BY <2>1, <3>2
      <4> QED BY <2>1, <2>5, <4>1 DEF Parsed
    <3> QED BY <3>1, <3>2
  <2>8. Parsed(more) = [i \in 1..(n + 1) |-> ParsedStreamChunk(more[i])]
    BY <2>1 DEF Parsed
  <2> HIDE DEF q
  <2>9. Parsed(more) = q
    BY <2>6, <2>7, <2>8
  <2> QED BY <2>4, <2>9 DEF q
<1>5. Follows(more, sh, p)
  <2>1. more \in Seq(Chunks)
    BY <1>1, AppendProperties
  <2> HIDE DEF p, more
  <2>2. Joined(Parsed(more), sh \o p)
    BY <1>1, <1>2, <1>3, <1>4, JoinedAppend
  <2> QED BY <1>1, <1>2, <2>1, <2>2 DEF Follows
<1>6. CASE ~c.choice
  <2>1. p = <<>> /\ Consume(a, c) = a
    BY <1>6, SilentChunk DEF Consume
  <2> QED BY <1>5, <2>1
<1>7. CASE c.choice
  <2>1. /\ Consume(a, c).text = [k \in TextKinds |-> a.text[k] \o c.text[k]]
        /\ DOMAIN a.text = TextKinds
    BY <1>7 DEF Consume, Heard
  <2>2. \A k \in TextKinds : c.text[k] \in Seq(STRING) /\ Says(p, k, c.text[k])
    BY <1>7, StreamAssumption, ParsedSays
  <2> DEFINE t == Consume(a, c).text
  <2>3. DOMAIN t = TextKinds /\ \A k \in TextKinds : t[k] = a.text[k] \o c.text[k]
    BY <2>1
  <2> HIDE DEF t, p
  <2>4. ASSUME NEW k \in TextKinds
        PROVE  \E w, rest \in Seq(STRING) :
                 Joined(Words(k, sh), w) /\ Says(p, k, rest) /\ t[k] = w \o rest
    <3>1. PICK w \in Seq(STRING), rest \in Seq(STRING) :
            Joined(Words(k, sh), w) /\ Says(<<>>, k, rest) /\ a.text[k] = w \o rest
      BY DEF Heard
    <3>2. rest = <<>>
      BY <3>1, EmptySeq DEF Says
    <3>3. a.text[k] = w
      BY <3>1, <3>2, ConcatEmptySeq
    <3> QED BY <2>2, <2>3, <3>1, <3>3
  <2>5. Heard(t, sh, p)
    BY <2>3, <2>4 DEF Heard
  <2> QED BY <1>5, <2>5 DEF t, p
<1> QED BY <1>6, <1>7

-----------------------------------------------------------------------------
\* The calls.  What the deltas s say of the call i, in fragments, and what the
\* buffers hold of it.
IsOf(d, i) == d.kind = "tool" /\ d.call.index = i
Parts(i, s) == [k \in DOMAIN s |-> IF IsOf(s[k], i) THEN s[k].call.args ELSE <<>>]
NoBuffer == [id |-> None, name |-> None, args |-> <<>>]
Buffer(tools, i) == IF i \in DOMAIN tools THEN tools[i] ELSE NoBuffer

GatheredOf(b, i, s) ==
  /\ b.args \in Seq(STRING) /\ Joined(Parts(i, s), b.args)
  /\ b.name = None => \A k \in 1..Len(s) : IsOf(s[k], i) => s[k].call.name = None
  /\ b.name # None => \E k \in 1..Len(s) : IsOf(s[k], i) /\ s[k].call.name = b.name
  /\ b.id # None => \E k \in 1..Len(s) : IsOf(s[k], i) /\ s[k].call.id = b.id

Gathered(tools, s) == \A i : GatheredOf(Buffer(tools, i), i, s)

LEMMA NothingGathered == Gathered(<<>>, <<>>)
<1>1. <<>> \in Seq(STRING) /\ Len(<<>>) = 0 /\ DOMAIN <<>> = {}
  BY EmptySeq
<1>2. \A i : Parts(i, <<>>) = <<>>
  BY DEF Parts
<1>3. Joined(<<>>, <<>>)
  BY <1>1 DEF Joined
<1>4. \A i : Buffer(<<>>, i) = NoBuffer
  BY <1>1 DEF Buffer
<1>5. NoBuffer.args = <<>> /\ NoBuffer.name = None /\ NoBuffer.id = None
  BY DEF NoBuffer
<1> SUFFICES ASSUME NEW i PROVE GatheredOf(NoBuffer, i, <<>>)
  BY <1>4, Zenon DEF Gathered
<1>6. Joined(Parts(i, <<>>), NoBuffer.args)
  BY <1>2, <1>3, <1>5
<1>7. \A k \in 1..Len(<<>>) : FALSE
  BY <1>1
<1> QED BY <1>1, <1>5, <1>6, <1>7 DEF GatheredOf

\* The fragments of the call i grow by those of the next delta.
LEMMA PartsAppend ==
  ASSUME NEW i, NEW s \in Seq(Deltas), NEW d \in Deltas, NEW r \in Seq(STRING),
         NEW x \in Seq(STRING), x = (IF IsOf(d, i) THEN d.call.args ELSE <<>>),
         Joined(Parts(i, s), r)
  PROVE  Joined(Parts(i, Append(s, d)), r \o x)
<1> DEFINE Part(e) == IF IsOf(e, i) THEN e.call.args ELSE <<>>
           u == Append(s, d)
           ps == Parts(i, s)
           n == Len(s)
           A == {ps[k] : k \in 1..n} \union {x}
<1>1. /\ n \in Nat /\ DOMAIN s = 1..n /\ DOMAIN u = 1..(n + 1)
      /\ u[n + 1] = d /\ \A k \in 1..n : u[k] = s[k]
  BY AppendProperties, LenProperties
<1>2. ps = [k \in 1..n |-> Part(s[k])] /\ Parts(i, u) = [k \in 1..(n + 1) |-> Part(u[k])]
  BY <1>1 DEF Parts
<1>3. Part(d) = x
  OBVIOUS
<1> HIDE DEF u, ps, Part
<1>4. ps \in [1..n -> A]
  BY <1>1, <1>2
<1>5. ps \in Seq(A) /\ Len(ps) = n /\ x \in A
  BY <1>1, <1>4, LenProperties
<1> HIDE DEF A
<1>6. Parts(i, u) = Append(ps, x)
  <2>1. /\ Append(ps, x) \in Seq(A) /\ Len(Append(ps, x)) = n + 1
        /\ \A k \in 1..n : Append(ps, x)[k] = ps[k]
        /\ Append(ps, x)[n + 1] = x
    BY <1>5, AppendProperties
  <2>2. Append(ps, x) \in [1..(n + 1) -> A]
    BY <2>1, LenProperties
  <2>3. \A k \in 1..(n + 1) : Part(u[k]) = Append(ps, x)[k]
    BY <1>1, <1>2, <1>3, <2>1
  <2> QED BY <1>2, <2>2, <2>3
<1>7. Joined(Append(ps, x), r \o x)
  BY <1>5, JoinedAppend DEF ps
<1> QED BY <1>6, <1>7 DEF u

\* Text says nothing of calls.
LEMMA GathersText ==
  ASSUME NEW tools, NEW s \in Seq(Deltas), NEW d \in TextDeltas, Gathered(tools, s)
  PROVE  Gathered(tools, Append(s, d))
<1> DEFINE u == Append(s, d)
<1>1. d \in Deltas /\ d.kind # "tool" /\ <<>> \in Seq(STRING)
  BY EmptySeq DEF Deltas, TextDeltas, TextKinds
<1>2. /\ Len(s) \in Nat /\ Len(u) = Len(s) + 1 /\ u[Len(s) + 1] = d
      /\ \A k \in 1..Len(s) : u[k] = s[k]
  BY <1>1, AppendProperties, LenProperties
<1> SUFFICES ASSUME NEW i PROVE GatheredOf(Buffer(tools, i), i, u)
  BY DEF Gathered
<1> DEFINE b == Buffer(tools, i)
<1>3. GatheredOf(b, i, s)
  BY DEF Gathered
<1> HIDE DEF b
<1>4. ~IsOf(d, i)
  BY <1>1 DEF IsOf
<1>5. Joined(Parts(i, u), b.args)
  <2>1. Joined(Parts(i, u), b.args \o <<>>)
    BY <1>1, <1>3, <1>4, PartsAppend DEF GatheredOf
  <2>2. b.args \o <<>> = b.args
    BY <1>3, ConcatEmptySeq DEF GatheredOf
  <2> QED BY <2>1, <2>2
<1>6. \A k \in 1..Len(u) : k \in 1..Len(s) \/ ~IsOf(u[k], i)
  BY <1>2, <1>4
<1>7. \A k \in 1..Len(s) : k \in 1..Len(u)
  BY <1>2
<1> HIDE DEF u
<1>8. b.name = None => \A k \in 1..Len(u) : IsOf(u[k], i) => u[k].call.name = None
  BY <1>2, <1>3, <1>6 DEF GatheredOf
<1>9. b.name # None => \E k \in 1..Len(u) : IsOf(u[k], i) /\ u[k].call.name = b.name
  BY <1>2, <1>3, <1>7 DEF GatheredOf
<1>10. b.id # None => \E k \in 1..Len(u) : IsOf(u[k], i) /\ u[k].call.id = b.id
  BY <1>2, <1>3, <1>7 DEF GatheredOf
<1> QED BY <1>3, <1>5, <1>8, <1>9, <1>10 DEF b, u, GatheredOf

\* A delta of a call goes into its buffer.
LEMMA GathersTool ==
  ASSUME NEW tools, NEW s \in Seq(Deltas), NEW d \in CallDeltas(Nat \union {None}),
         NEW hint \in Nat, Gathered(tools, s)
  PROVE  Gathered(AccumulateToolDelta(tools, d, hint), Append(s, ToolDelta(d, hint)))
<1> DEFINE e == ToolDelta(d, hint)
           j == IndexOf(d, hint)
           u == Append(s, e)
           more == AccumulateToolDelta(tools, d, hint)
           old == Buffer(tools, j)
           new == [id |-> Either(d.id, old.id), name |-> Either(d.name, old.name),
                   args |-> old.args \o d.args]
<1>1. e \in ToolDeltas /\ e \in Deltas /\ e.kind = "tool"
  BY ToolDeltaIs, ToolDeltaSays DEF Deltas
<1>2. /\ e.call.index = j /\ e.call.id = d.id /\ e.call.name = d.name
      /\ e.call.args = d.args /\ d.args \in Seq(STRING)
  <2>1. e.call = [d EXCEPT !.index = j]
    BY ToolDeltaSays, Zenon
  <2> HIDE DEF e, j
  <2> QED BY <2>1 DEF CallDeltas
<1>3. /\ Len(s) \in Nat /\ Len(u) = Len(s) + 1 /\ u[Len(s) + 1] = e
      /\ \A k \in 1..Len(s) : u[k] = s[k]
  <2> HIDE DEF e
  <2> QED BY <1>1, AppendProperties, LenProperties
<1>4. Buffer(more, j) = new /\ \A i : i # j => Buffer(more, i) = Buffer(tools, i)
  BY DEF AccumulateToolDelta, Buffer, NoBuffer
<1> HIDE DEF e, j, u, more, old
<1>5. \A k \in 1..Len(u) : k \in 1..Len(s) \/ k = Len(s) + 1
  BY <1>3
<1>6. Len(s) + 1 \in 1..Len(u) /\ \A k \in 1..Len(s) : k \in 1..Len(u)
  BY <1>3
<1>7. \A i : IsOf(e, i) <=> i = j
  BY <1>1, <1>2 DEF IsOf
<1>8. GatheredOf(old, j, s)
  BY DEF Gathered, old
<1>9. GatheredOf(new, j, u)
  <2>1. /\ new.id = Either(d.id, old.id) /\ new.name = Either(d.name, old.name)
        /\ new.args = old.args \o d.args
    OBVIOUS
  <2> HIDE DEF new
  <2>2. new.args \in Seq(STRING) /\ Joined(Parts(j, u), new.args)
    BY <1>1, <1>2, <1>7, <1>8, <2>1, PartsAppend, ConcatProperties DEF GatheredOf, u
  <2>3. new.name = None => \A k \in 1..Len(u) : IsOf(u[k], j) => u[k].call.name = None
    BY <1>2, <1>3, <1>5, <1>8, <2>1 DEF GatheredOf, Either
  <2>4. new.name # None => \E k \in 1..Len(u) : IsOf(u[k], j) /\ u[k].call.name = new.name
    BY <1>2, <1>3, <1>6, <1>7, <1>8, <2>1 DEF GatheredOf, Either
  <2>5. new.id # None => \E k \in 1..Len(u) : IsOf(u[k], j) /\ u[k].call.id = new.id
    BY <1>2, <1>3, <1>6, <1>7, <1>8, <2>1 DEF GatheredOf, Either
  <2> QED BY <2>2, <2>3, <2>4, <2>5 DEF GatheredOf
<1>10. ASSUME NEW i, i # j PROVE GatheredOf(Buffer(tools, i), i, u)
  <2> DEFINE b == Buffer(tools, i)
  <2>1. GatheredOf(b, i, s)
    BY DEF Gathered
  <2> HIDE DEF b
  <2>2. ~IsOf(e, i) /\ <<>> \in Seq(STRING)
    BY <1>7, <1>10, EmptySeq
  <2>3. Joined(Parts(i, u), b.args)
    <3>1. Joined(Parts(i, u), b.args \o <<>>)
      BY <1>1, <2>1, <2>2, PartsAppend DEF GatheredOf, u
    <3>2. b.args \o <<>> = b.args
      BY <2>1, ConcatEmptySeq DEF GatheredOf
    <3> QED BY <3>1, <3>2
  <2>4. b.name = None => \A k \in 1..Len(u) : IsOf(u[k], i) => u[k].call.name = None
    BY <1>3, <1>5, <2>1, <2>2 DEF GatheredOf
  <2>5. b.name # None => \E k \in 1..Len(u) : IsOf(u[k], i) /\ u[k].call.name = b.name
    BY <1>3, <1>6, <2>1 DEF GatheredOf
  <2>6. b.id # None => \E k \in 1..Len(u) : IsOf(u[k], i) /\ u[k].call.id = b.id
    BY <1>3, <1>6, <2>1 DEF GatheredOf
  <2> QED BY <2>1, <2>3, <2>4, <2>5, <2>6 DEF GatheredOf, b
<1>11. ASSUME NEW i PROVE GatheredOf(Buffer(more, i), i, u)
  <2>1. CASE i = j
    BY <1>4, <1>9, <2>1
  <2>2. CASE i # j
    BY <1>4, <1>10, <2>2
  <2> QED BY <2>1, <2>2
<1> QED BY <1>11 DEF Gathered, more, u, e

\* The buffers of a chunk, one delta of a call after the other.
LEMMA ConsumeSteps ==
  ASSUME NEW a, NEW c \in Chunks, c.choice
  PROVE  \E g : /\ Consume(a, c).tools = g[Len(c.tools)] /\ g[0] = a.tools
                /\ \A n \in 1..Len(c.tools) :
                     g[n] = AccumulateToolDelta(g[n - 1], c.tools[n], n - 1)
<1> DEFINE m == Len(c.tools)
           Step(f, n) == IF n = 0 THEN a.tools
                         ELSE AccumulateToolDelta(f[n - 1], c.tools[n], n - 1)
           flat == CHOOSE f : f = [n \in 0..m |-> Step(f, n)]
           Good == {n \in 0..m : \E f : f = [i \in 0..n |-> Step(f, i)]}
<1>1. m \in Nat
  BY ToolPieceIs
<1>2. 0 \in Good
  <2>1. [i \in 0..0 |-> a.tools] = [j \in 0..0 |-> Step([i \in 0..0 |-> a.tools], j)]
    OBVIOUS
  <2>2. \E f : f = [i \in 0..0 |-> Step(f, i)]
    <3> HIDE DEF Step
    <3> QED BY <2>1
  <2> HIDE DEF m, Step
  <2> QED BY <1>1, <2>2
<1>3. ASSUME NEW k \in 1..m, k - 1 \in Good PROVE k \in Good
  <2>1. PICK f : f = [i \in 0..(k - 1) |-> Step(f, i)]
    BY <1>3
  <2> DEFINE g == [i \in 0..k |-> IF i = k THEN Step(f, k) ELSE f[i]]
  <2>2. \A i \in 0..(k - 1) : g[i] = f[i]
    OBVIOUS
  <2>3. \A i \in 0..(k - 1) : f[i] = Step(f, i)
    <3> HIDE DEF Step
    <3> QED BY <2>1
  <2>4. \A i \in 0..k : Step(g, i) = Step(f, i)
    <3> TAKE i \in 0..k
    <3>1. i # 0 => g[i - 1] = f[i - 1]
      BY <2>2
    <3> HIDE DEF g
    <3> QED BY <3>1
  <2>5. \A i \in 0..k : g[i] = Step(g, i)
    <3> HIDE DEF Step
    <3> QED BY <2>2, <2>3, <2>4
  <2>6. g = [i \in 0..k |-> Step(g, i)]
    <3>1. g = [i \in 0..k |-> g[i]]
      OBVIOUS
    <3> HIDE DEF g, Step
    <3> QED BY <2>5, <3>1
  <2>7. \E h : h = [i \in 0..k |-> Step(h, i)]
    <3> HIDE DEF g, Step
    <3> QED BY <2>6
  <2> HIDE DEF Step, g
  <2> QED BY <1>1, <2>7
<1>4. m \in Good
  <2> HIDE DEF Good, m
  <2> QED BY <1>1, <1>2, <1>3, UpTo
<1>5. flat = [n \in 0..m |-> Step(flat, n)]
  <2>1. \E f : f = [n \in 0..m |-> Step(f, n)]
    BY <1>4
  <2> HIDE DEF Step
  <2> QED BY <2>1
<1>6. Consume(a, c).tools = flat[m]
  BY DEF Consume
<1> HIDE DEF flat
<1>7. \A n \in 0..m : flat[n] = Step(flat, n)
  <2> HIDE DEF Step
  <2> QED BY <1>5, Zenon
<1>8. flat[0] = a.tools
  BY <1>1, <1>7
<1>9. \A n \in 1..m : flat[n] = AccumulateToolDelta(flat[n - 1], c.tools[n], n - 1)
  BY <1>1, <1>7
<1> QED BY <1>6, <1>8, <1>9

LEMMA GathersPiece ==
  ASSUME NEW tools, NEW s \in Seq(Deltas), NEW c \in Chunks, NEW k \in TextKinds,
         Gathered(tools, s)
  PROVE  s \o TextPiece(c, k) \in Seq(Deltas) /\ Gathered(tools, s \o TextPiece(c, k))
<1>1. CASE TextPiece(c, k) = <<>>
  BY <1>1, ConcatEmptySeq
<1>2. ASSUME NEW d \in TextDeltas, TextPiece(c, k) = <<d>>
      PROVE  s \o TextPiece(c, k) \in Seq(Deltas) /\ Gathered(tools, s \o TextPiece(c, k))
  <2>1. d \in Deltas
    BY DEF Deltas
  <2>2. Append(s, d) = s \o <<d>> /\ Append(s, d) \in Seq(Deltas)
    BY <2>1, AppendIsConcat, AppendProperties
  <2> QED BY <1>2, <2>2, GathersText
<1> QED BY <1>1, <1>2, TextPieceIs

\* Joining lists of deltas, however it is bracketed.
LEMMA JoinedDeltas ==
  \A u, v \in Seq(Deltas) : u \o v \in Seq(Deltas)
<1> SUFFICES ASSUME NEW u \in Seq(Deltas), NEW v \in Seq(Deltas) PROVE u \o v \in Seq(Deltas)
  OBVIOUS
<1> QED BY ConcatProperties

LEMMA JoinDeltas ==
  \A u, v, w \in Seq(Deltas) : u \o (v \o w) = (u \o v) \o w
<1> SUFFICES ASSUME NEW u \in Seq(Deltas), NEW v \in Seq(Deltas), NEW w \in Seq(Deltas)
             PROVE  u \o (v \o w) = (u \o v) \o w
  OBVIOUS
<1> QED BY ConcatAssociative

LEMMA GathersChunk ==
  ASSUME NEW a, NEW c \in Chunks, NEW s \in Seq(Deltas), Gathered(a.tools, s)
  PROVE  Gathered(Consume(a, c).tools, s \o ParsedStreamChunk(c))
<1>1. CASE ~c.choice
  <2>1. s \o <<>> = s
    BY ConcatEmptySeq
  <2> QED BY <1>1, <2>1, SilentChunk DEF Consume
<1>2. CASE c.choice
  <2> DEFINE t == ToolPiece(c)
             m == Len(c.tools)
             p1 == TextPiece(c, "content")
             p2 == TextPiece(c, "refusal")
             p3 == TextPiece(c, "reasoning")
             base == ((s \o p1) \o p2) \o p3
  <2>1. {"content", "refusal", "reasoning"} = TextKinds
    BY DEF TextKinds
  <2>2. p1 \in Seq(Deltas) /\ p2 \in Seq(Deltas) /\ p3 \in Seq(Deltas) /\ t \in Seq(Deltas)
    BY <2>1, TextPieceIs, ToolPieceIs
  <2>3. s \o p1 \in Seq(Deltas) /\ Gathered(a.tools, s \o p1)
    BY <2>1, GathersPiece
  <2>4. (s \o p1) \o p2 \in Seq(Deltas) /\ Gathered(a.tools, (s \o p1) \o p2)
    BY <2>1, <2>3, GathersPiece
  <2>5. base \in Seq(Deltas) /\ Gathered(a.tools, base)
    BY <2>1, <2>4, GathersPiece
  <2>6. s \o ParsedStreamChunk(c) = base \o t
    <3>1. ParsedStreamChunk(c) = ((p1 \o p2) \o p3) \o t
      BY <1>2, ParsedIs
    <3> HIDE DEF p1, p2, p3, t
    <3> DEFINE q == p1 \o p2
               r == q \o p3
    <3>2. p1 \in Seq(Deltas) /\ p2 \in Seq(Deltas)
      BY <2>2
    <3>3. p3 \in Seq(Deltas)
      BY <2>2
    <3>4. t \in Seq(Deltas)
      BY <2>2
    <3>5. q \in Seq(Deltas)
      BY <3>2, JoinedDeltas, Zenon
    <3>6. s \o q = (s \o p1) \o p2
      BY <3>2, JoinDeltas, Zenon
    <3> HIDE DEF q
    <3>7. r \in Seq(Deltas)
      BY <3>3, <3>5, JoinedDeltas, Zenon
    <3>8. s \o r = (s \o q) \o p3
      BY <3>3, <3>5, JoinDeltas, Zenon
    <3> HIDE DEF r
    <3>9. s \o (r \o t) = (s \o r) \o t
      BY <3>4, <3>7, JoinDeltas, Zenon
    <3> QED BY <3>1, <3>6, <3>8, <3>9, Zenon DEF q, r, base
  <2>7. PICK g : /\ Consume(a, c).tools = g[m] /\ g[0] = a.tools
                 /\ \A n \in 1..m : g[n] = AccumulateToolDelta(g[n - 1], c.tools[n], n - 1)
    BY <1>2, ConsumeSteps
  <2>8. /\ m \in Nat /\ Len(t) = m
        /\ \A n \in 1..m : /\ c.tools[n] \in CallDeltas(Nat \union {None})
                           /\ t[n] = ToolDelta(c.tools[n], n - 1) /\ t[n] \in Deltas
    BY ToolPieceIs DEF Deltas
  <2> HIDE DEF t, m, base
  <2> DEFINE Done(n) == base \o SubSeq(t, 1, n)
             Good == {n \in 0..m : Gathered(g[n], Done(n))}
  <2>9. \A n \in 0..m : SubSeq(t, 1, n) \in Seq(Deltas) /\ Done(n) \in Seq(Deltas)
    <3>1. ASSUME NEW n \in 0..m PROVE SubSeq(t, 1, n) \in Seq(Deltas)
      <4>1. \A i \in 1..n : t[i] \in Deltas
        BY <2>8
      <4> QED BY <2>8, <4>1, SubSeqProperties
    <3> QED BY <2>5, <3>1, ConcatProperties
  <2>10. 0 \in Good
    <3>1. SubSeq(t, 1, 0) = <<>>
      BY SubSeqEmpty
    <3>2. Done(0) = base
      BY <2>5, <3>1, ConcatEmptySeq
    <3> HIDE DEF Done
    <3> QED BY <2>5, <2>7, <2>8, <3>2
  <2>11. ASSUME NEW n \in 1..m, n - 1 \in Good PROVE n \in Good
    <3>1. n - 1 \in 0..m /\ n - 1 \in Nat /\ n \in 0..m
      BY <2>8
    <3>2. SubSeq(t, 1, n) = Append(SubSeq(t, 1, n - 1), t[n])
      <4>1. \A i \in 1..n : t[i] \in Deltas
        BY <2>8
      <4>2. n \in Int /\ 1 <= n
        BY <2>8
      <4> QED BY <4>1, <4>2, SubSeqRecursiveSecond
    <3>3. Done(n) = Append(Done(n - 1), t[n])
      <4> DEFINE u == SubSeq(t, 1, n - 1)
      <4>1. u \in Seq(Deltas) /\ t[n] \in Deltas /\ <<t[n]>> \in Seq(Deltas)
        BY <2>8, <2>9, <3>1
      <4>2. Done(n - 1) = base \o u /\ base \o u \in Seq(Deltas) /\ Done(n) = base \o Append(u, t[n])
        BY <2>9, <3>1, <3>2
      <4> HIDE DEF u, Done
      <4>3. Append(u, t[n]) = u \o <<t[n]>> /\ Append(base \o u, t[n]) = (base \o u) \o <<t[n]>>
        BY <4>1, <4>2, AppendIsConcat
      <4>4. base \o (u \o <<t[n]>>) = (base \o u) \o <<t[n]>>
        BY <2>5, <4>1, ConcatAssociative
      <4> QED BY <4>2, <4>3, <4>4
    <3>4. Gathered(g[n - 1], Done(n - 1)) /\ Done(n - 1) \in Seq(Deltas)
      BY <2>9, <2>11, <3>1
    <3> HIDE DEF Done
    <3>5. Gathered(AccumulateToolDelta(g[n - 1], c.tools[n], n - 1),
                   Append(Done(n - 1), ToolDelta(c.tools[n], n - 1)))
      BY <2>8, <3>1, <3>4, GathersTool
    <3>6. Gathered(g[n], Done(n))
      BY <2>7, <2>8, <3>3, <3>5
    <3> QED BY <3>1, <3>6
  <2>12. m \in Good
    <3>1. m \in 0..m
      BY <2>8
    <3> HIDE DEF Good
    <3> QED BY <2>8, <2>10, <2>11, <3>1, UpTo
  <2>13. SubSeq(t, 1, m) = t
    BY <2>2, <2>8, SubSeqFull DEF t
  <2> QED BY <2>6, <2>7, <2>12, <2>13
<1> QED BY <1>1, <1>2

\* The calls of a reply, in the order of their indexes.
Position(N, i) == Cardinality({j \in N : j <= i})

LEMMA PositionIs ==
  ASSUME NEW N \in SUBSET Nat, IsFiniteSet(N), NEW i \in N
  PROVE  /\ Position(N, i) \in 1..Cardinality(N)
         /\ (CHOOSE j \in N : Position(N, j) = Position(N, i)) = i
<1> DEFINE Below(j) == {k \in N : k <= j}
<1>1. ASSUME NEW j \in N
      PROVE  /\ IsFiniteSet(Below(j)) /\ Cardinality(Below(j)) \in Nat \ {0}
             /\ Cardinality(Below(j)) <= Cardinality(N)
  <2>1. Below(j) \in SUBSET N /\ j \in Below(j)
    OBVIOUS
  <2> HIDE DEF Below
  <2>2. IsFiniteSet(Below(j)) /\ Cardinality(Below(j)) <= Cardinality(N)
    BY <2>1, FS_Subset
  <2>3. Cardinality(Below(j)) \in Nat /\ Cardinality(Below(j)) # 0
    BY <2>1, <2>2, FS_CardinalityType, FS_EmptySet
  <2> QED BY <2>2, <2>3
<1>2. Cardinality(N) \in Nat
  BY FS_CardinalityType
<1>3. ASSUME NEW j \in N, NEW k \in N, Cardinality(Below(j)) = Cardinality(Below(k)), j <= k
      PROVE  j = k
  <2>1. Below(j) \in SUBSET Below(k) /\ k \in Below(k) /\ (k \in Below(j) => k <= j)
    <3>1. j \in Nat /\ k \in Nat /\ \A n \in N : n \in Nat
      OBVIOUS
    <3>2. \A n \in N : n <= j => n <= k
      BY <1>3, <3>1
    <3>3. Below(j) \in SUBSET Below(k)
      BY <3>2
    <3>4. k \in Below(k)
      BY <3>1
    <3> QED BY <3>3, <3>4
  <2> HIDE DEF Below
  <2>2. Below(j) = Below(k)
    BY <1>1, <1>3, <2>1, FS_Subset
  <2>3. k <= j
    BY <2>1, <2>2
  <2> QED BY <1>3, <2>3
<1>4. ASSUME NEW j \in N, Position(N, j) = Position(N, i) PROVE j = i
  <2>1. Cardinality(Below(j)) = Cardinality(Below(i))
    BY <1>4 DEF Position
  <2>2. j <= i \/ i <= j
    OBVIOUS
  <2> HIDE DEF Below
  <2> QED BY <1>3, <2>1, <2>2
<1>5. Position(N, i) \in 1..Cardinality(N)
  BY <1>1, <1>2 DEF Position
<1> QED BY <1>4, <1>5

\* The indexes of the calls the deltas s name.
NamedIn(s) ==
  {s[k].call.index : k \in {j \in DOMAIN s : s[j].kind = "tool" /\ s[j].call.name # None}}

LEMMA NamedIs ==
  ASSUME NEW tools, NEW s \in Seq(Deltas), Gathered(tools, s)
  PROVE  /\ NamedIn(s) \in SUBSET Nat /\ IsFiniteSet(NamedIn(s))
         /\ NamedIn(s) = {i \in DOMAIN tools : tools[i].name # None}
<1> DEFINE J == {j \in DOMAIN s : s[j].kind = "tool" /\ s[j].call.name # None}
           f == [k \in J |-> s[k].call.index]
<1>1. Len(s) \in Nat /\ DOMAIN s = 1..Len(s) /\ \A k \in 1..Len(s) : s[k] \in Deltas
  BY LenProperties, ElementOfSeq
<1>2. NamedIn(s) \in SUBSET Nat
  <2>1. ASSUME NEW k \in J PROVE s[k].call.index \in Nat
    <3>1. s[k] \in Deltas /\ s[k].kind = "tool"
      BY <1>1
    <3>2. s[k] \in ToolDeltas
      BY <3>1 DEF Deltas, TextDeltas, TextKinds
    <3> QED BY <3>2 DEF ToolDeltas, CallDeltas
  <2> QED BY <2>1 DEF NamedIn
<1>3. IsFiniteSet(NamedIn(s))
  <2>1. J \in SUBSET (1..Len(s)) /\ IsFiniteSet(1..Len(s))
    BY <1>1, FS_Interval
  <2>2. IsFiniteSet(J)
    <3> HIDE DEF J
    <3> QED BY <2>1, FS_Subset
  <2>3. f \in Surjection(J, NamedIn(s))
    BY DEF NamedIn, Surjection
  <2> HIDE DEF f, J
  <2> QED BY <2>2, <2>3, FS_Surjection
<1>4. ASSUME NEW i
      PROVE  i \in NamedIn(s) <=> i \in DOMAIN tools /\ tools[i].name # None
  <2> DEFINE b == Buffer(tools, i)
  <2>1. GatheredOf(b, i, s)
    BY DEF Gathered
  <2>2. b.name # None <=> i \in DOMAIN tools /\ tools[i].name # None
    BY DEF Buffer, NoBuffer
  <2> HIDE DEF b
  <2>3. b.name # None => i \in NamedIn(s)
    BY <1>1, <2>1 DEF GatheredOf, NamedIn, IsOf
  <2>4. i \in NamedIn(s) => b.name # None
    BY <1>1, <2>1 DEF GatheredOf, NamedIn, IsOf
  <2> QED BY <2>2, <2>3, <2>4
<1> QED BY <1>2, <1>3, <1>4

LEMMA FinalizeCalls ==
  ASSUME NEW a, Finalize(a).calls # <<>>
  PROVE  /\ Finalize(a).error = None
         /\ Finalize(a).calls = ParseStreamToolCalls(a.tools)
         /\ \A k \in DOMAIN Finalize(a).calls : Parses(Finalize(a).calls[k])
BY DEF Finalize, Response, ParseErrorResponse

\* The calls of a complete reply are the calls of its deltas.
Assembled(calls, s) ==
  /\ Len(calls) = Cardinality(NamedIn(s))
  /\ \A i \in NamedIn(s) :
       LET c == calls[Position(NamedIn(s), i)]
       IN  /\ c.args = OrObject(FlattenSeq(Parts(i, s))) /\ c.args = Object
           /\ \E k \in 1..Len(s) : IsOf(s[k], i) /\ s[k].call.name = c.name
           /\ c.id = FallbackId(i) \/ \E k \in 1..Len(s) : IsOf(s[k], i) /\ s[k].call.id = c.id

LEMMA CallsAreAssembled ==
  ASSUME NEW a, NEW s \in Seq(Deltas), Gathered(a.tools, s), Finalize(a).calls # <<>>
  PROVE  Assembled(Finalize(a).calls, s)
<1> DEFINE tools == a.tools
           N == NamedIn(s)
           calls == Finalize(a).calls
           Call(i) == [id   |-> IF tools[i].id = None THEN FallbackId(i) ELSE tools[i].id,
                       name |-> tools[i].name, args |-> OrObject(tools[i].args)]
           Nth(k) == CHOOSE i \in N : Position(N, i) = k
<1>1. /\ N \in SUBSET Nat /\ IsFiniteSet(N) /\ Cardinality(N) \in Nat
      /\ N = {i \in DOMAIN tools : tools[i].name # None}
  BY NamedIs, FS_CardinalityType
<1>2. calls = [k \in 1..Cardinality(N) |-> Call(Nth(k))]
  <2>1. calls = ParseStreamToolCalls(tools)
    BY FinalizeCalls
  <2>2. ParseStreamToolCalls(tools) = [k \in 1..Cardinality(N) |-> Call(Nth(k))]
    BY <1>1, Zenon DEF ParseStreamToolCalls, Position
  <2> QED BY <2>1, <2>2
<1> HIDE DEF calls, N
<1>3. Len(calls) = Cardinality(N)
  <2>1. calls \in [1..Cardinality(N) -> {calls[k] : k \in 1..Cardinality(N)}]
    BY <1>2
  <2> QED BY <1>1, <2>1, LenProperties
<1>4. ASSUME NEW i \in N
      PROVE  LET c == calls[Position(N, i)]
             IN  /\ c.args = OrObject(FlattenSeq(Parts(i, s))) /\ c.args = Object
                 /\ \E k \in 1..Len(s) : IsOf(s[k], i) /\ s[k].call.name = c.name
                 /\ \/ c.id = FallbackId(i)
                    \/ \E k \in 1..Len(s) : IsOf(s[k], i) /\ s[k].call.id = c.id
  <2> DEFINE p == Position(N, i)
             b == tools[i]
             c == calls[p]
  <2>1. p \in 1..Cardinality(N) /\ Nth(p) = i
    BY <1>1, PositionIs
  <2>2. c = Call(i)
    <3> HIDE DEF Call, Nth, p
    <3> QED BY <1>2, <2>1
  <2>3. /\ c.args = OrObject(b.args) /\ c.name = b.name
        /\ c.id = IF b.id = None THEN FallbackId(i) ELSE b.id
    <3> HIDE DEF c
    <3> QED BY <2>2
  <2>4. GatheredOf(b, i, s) /\ b.name # None
    BY <1>1 DEF Gathered, Buffer
  <2>5. FlattenSeq(Parts(i, s)) = b.args
    BY <2>4, JoinedIsFlatten DEF GatheredOf
  <2>6. c.args = Object
    <3>1. \A k \in DOMAIN calls : Parses(calls[k])
      BY FinalizeCalls DEF calls
    <3>2. p \in DOMAIN calls
      <4> HIDE DEF p
      <4> QED BY <1>2, <2>1
    <3> QED BY <3>1, <3>2 DEF Parses
  <2> HIDE DEF c, b
  <2>7. \E k \in 1..Len(s) : IsOf(s[k], i) /\ s[k].call.name = c.name
    BY <2>3, <2>4 DEF GatheredOf
  <2>8. c.id = FallbackId(i) \/ \E k \in 1..Len(s) : IsOf(s[k], i) /\ s[k].call.id = c.id
    BY <2>3, <2>4 DEF GatheredOf
  <2> QED BY <2>3, <2>5, <2>6, <2>7, <2>8 DEF c
<1> QED BY <1>3, <1>4 DEF Assembled, N, calls

-----------------------------------------------------------------------------
\* Nothing is shown until the stream is open, an attempt that is repeated has
\* shown nothing, and a reply that is returned has been shown to its end.
Stages ==
  /\ ~escaped => shown = <<>>
  /\ stage # "stream" => emits = <<>>
  /\ stage \in {"prepare", "refused", "create"} =>
       sent = <<>> /\ shown = <<>> /\ acc = NewAccumulator
  /\ stage = "backoff" => shown = <<>>
  /\ stage = "returned" /\ streams =>
       /\ answer.error = None => answer.text = acc.text
       /\ answer.calls # <<>> => answer = Finalize(acc)

CallInv ==
  /\ Follows(sent, shown, emits)
  /\ Heard(acc.text, shown, emits)
  /\ Gathered(acc.tools, shown \o emits)
  /\ Stages

LEMMA NothingToGather == Gathered(NewAccumulator.tools, <<>> \o <<>>)
<1>1. <<>> \o <<>> = <<>>
  BY EmptySeq, ConcatEmptySeq
<1> QED BY <1>1, NothingGathered DEF NewAccumulator

LEMMA InitCallInv == CallInit => CallInv
<1> SUFFICES ASSUME CallInit PROVE CallInv
  OBVIOUS
<1>1. shown = <<>> /\ emits = <<>> /\ sent = <<>> /\ acc = NewAccumulator
  BY DEF CallInit
<1>2. Gathered(acc.tools, shown \o emits)
  BY <1>1, NothingToGather
<1>3. Follows(sent, shown, emits) /\ Heard(acc.text, shown, emits)
  BY <1>1, NothingHeard DEF NewAccumulator
<1> QED BY <1>2, <1>3 DEF CallInit, CallInv, Stages

LEMMA ErrorsAreNamed ==
  /\ \A e : ErrorResponse(e).error # None /\ ErrorResponse(e).calls = <<>>
  /\ StreamIdleTimeoutResponse.error # None /\ StreamIdleTimeoutResponse.calls = <<>>
  /\ ParseErrorResponse.error # None
<1>1. \A s \in ErrorCodes : s # None
  BY StreamAssumption
<1>2. \A e : ClassifyErrorCode(e) \in ErrorCodes
  BY DEF ClassifyErrorCode, ErrorCodes
<1>3. \A e : ErrorResponse(e).error = ClassifyErrorCode(e) /\ ErrorResponse(e).calls = <<>>
  BY DEF ErrorResponse, Response
<1>4. /\ StreamIdleTimeoutResponse.error \in ErrorCodes /\ ParseErrorResponse.error \in ErrorCodes
      /\ StreamIdleTimeoutResponse.calls = <<>>
  BY DEF StreamIdleTimeoutResponse, ParseErrorResponse, Response, ErrorCodes
<1> QED BY <1>1, <1>2, <1>3, <1>4

\* Without an error, the response is what was accumulated.
LEMMA FinalizeSays ==
  ASSUME NEW a, Finalize(a).error = None
  PROVE  Finalize(a).text = a.text
<1>1. "model_stream_incomplete" # None
  <2>1. "model_stream_incomplete" \in ErrorCodes
    BY DEF ErrorCodes
  <2> QED BY <2>1, StreamAssumption
<1> QED BY <1>1, ErrorsAreNamed DEF Finalize, Response

\* An attempt ends with all of its deltas given to the callbacks.
LEMMA AttemptedKeeps ==
  ASSUME CallInv, NEW r, Attempted(r), emits = <<>>,
         streams => /\ r.error = None => r.text = acc.text
                    /\ r.calls # <<>> => r = Finalize(acc)
  PROVE  CallInv'
<1>1. /\ answer' = r
      /\ (stage' = "backoff" /\ ~escaped) \/ stage' = "returned"
      /\ UNCHANGED <<call, attempt, options, acc, emits, escaped, sent, shown>>
  BY DEF Attempted, Retries
<1>2. /\ Follows(sent, shown, emits)' /\ Heard(acc.text, shown, emits)'
      /\ Gathered(acc.tools, shown \o emits)'
  BY <1>1 DEF CallInv
<1>3. Stages'
  BY <1>1 DEF CallInv, Stages, call
<1> QED BY <1>2, <1>3 DEF CallInv

LEMMA NextCallInv ==
  ASSUME CallInv, [CallNext]_callVars
  PROVE  CallInv'
<1> USE DEF CallInv
<1>1. CASE Prepare
  <2>1. UNCHANGED <<streams, acc, emits, escaped, answer, sent, shown>>
        /\ stage' \in {"refused", "create"} /\ stage = "prepare"
    BY <1>1 DEF Prepare
  <2> QED BY <2>1 DEF Stages
<1>2. CASE Generate
  <2>1. PICK r : Attempted(r) /\ emits = <<>> /\ ~streams
    BY <1>2 DEF Generate, Stages
  <2> QED BY <2>1, AttemptedKeeps
<1>3. CASE CreateStream
  BY <1>3 DEF CreateStream, Stages, call
<1>4. CASE CreateFails
  <2>1. stage = "create" /\ emits = <<>>
    BY <1>4 DEF CreateFails, Stages
  <2>2. CASE Attempted(StreamIdleTimeoutResponse)
    BY <2>1, <2>2, AttemptedKeeps, ErrorsAreNamed
  <2>3. ASSUME NEW e \in Exceptions, Attempted(ErrorResponse(e))
        PROVE  CallInv'
    BY <2>1, <2>3, AttemptedKeeps, ErrorsAreNamed
  <2>4. CASE UNCHANGED <<call, stage, attempt, acc, emits, escaped, pause, answer, sent, shown>>
    BY <2>4 DEF Stages, call
  <2> QED BY <1>4, <2>2, <2>3, <2>4 DEF CreateFails
<1>5. CASE Receive
  <2>1. PICK c \in Chunks :
          acc' = Consume(acc, c) /\ emits' = ParsedStreamChunk(c) /\ sent' = Append(sent, c)
    BY <1>5 DEF Receive
  <2>2. /\ emits = <<>> /\ stage = "stream"
        /\ UNCHANGED <<call, stage, attempt, options, escaped, pause, answer, shown>>
    BY <1>5 DEF Receive
  <2>3. /\ Follows(Append(sent, c), shown, ParsedStreamChunk(c))
        /\ Heard(Consume(acc, c).text, shown, ParsedStreamChunk(c))
    BY <2>2, HearsChunk
  <2>4. Follows(sent, shown, emits)' /\ Heard(acc.text, shown, emits)'
    BY <2>1, <2>2, <2>3
  <2>5. shown \in Seq(Deltas) /\ shown \o <<>> = shown
    BY ConcatEmptySeq DEF Follows
  <2>6. Gathered(Consume(acc, c).tools, shown \o ParsedStreamChunk(c))
    BY <2>2, <2>5, GathersChunk
  <2>7. Gathered(acc.tools, shown \o emits)'
    BY <2>1, <2>2, <2>6
  <2>8. Stages'
    BY <2>2 DEF Stages
  <2> QED BY <2>4, <2>7, <2>8
<1>6. CASE EmitDelta
  <2>1. /\ emits # <<>> /\ stage = "stream" /\ escaped'
        /\ shown' = Append(shown, Head(emits)) /\ emits' = Tail(emits)
        /\ UNCHANGED <<call, stage, attempt, options, acc, pause, answer, sent>>
    BY <1>6 DEF EmitDelta
  <2>2. /\ Follows(sent, Append(shown, Head(emits)), Tail(emits))
        /\ Heard(acc.text, Append(shown, Head(emits)), Tail(emits))
        /\ Append(shown, Head(emits)) \o Tail(emits) = shown \o emits
    BY <2>1, ShowsNext
  <2>3. /\ Follows(sent, shown, emits)' /\ Heard(acc.text, shown, emits)'
        /\ Gathered(acc.tools, shown \o emits)'
    BY <2>1, <2>2
  <2>4. Stages'
    BY <2>1 DEF Stages
  <2> QED BY <2>3, <2>4
<1>7. CASE StreamEnds
  <2>1. emits = <<>>
    BY <1>7 DEF StreamEnds
  <2>2. CASE Attempted(Finalize(acc))
    BY <2>1, <2>2, AttemptedKeeps, FinalizeSays
  <2>3. CASE Attempted(StreamIdleTimeoutResponse)
    BY <2>1, <2>3, AttemptedKeeps, ErrorsAreNamed
  <2>4. ASSUME NEW e \in Exceptions, Attempted(ErrorResponse(e))
        PROVE  CallInv'
    BY <2>1, <2>4, AttemptedKeeps, ErrorsAreNamed
  <2> QED BY <1>7, <2>2, <2>3, <2>4 DEF StreamEnds
<1>8. CASE Retry
  <2>1. /\ stage' = "create" /\ acc' = NewAccumulator /\ sent' = <<>>
        /\ emits' = <<>> /\ shown' = <<>> /\ UNCHANGED escaped
    BY <1>8 DEF Retry, Stages
  <2>2. /\ Follows(sent, shown, emits)' /\ Heard(acc.text, shown, emits)'
        /\ Gathered(acc.tools, shown \o emits)'
    BY <2>1, NothingHeard, NothingToGather DEF NewAccumulator
  <2>3. Stages'
    BY <2>1 DEF Stages
  <2> QED BY <2>2, <2>3
<1>9. CASE UNCHANGED callVars
  BY <1>9 DEF callVars, Stages
<1> QED BY <1>1, <1>2, <1>3, <1>4, <1>5, <1>6, <1>7, <1>8, <1>9 DEF CallNext

LEMMA CallInvShows == CallInv => ShownOnce
<1> SUFFICES ASSUME CallInv PROVE ShownOnce
  OBVIOUS
<1>1. shown \o emits = FlattenSeq(Parsed(sent))
  BY JoinedIsFlatten DEF CallInv, Follows
<1>2. ASSUME stage = "returned", streams, answer.error = None, NEW k \in TextKinds
      PROVE  answer.text[k] = FlattenSeq(Words(k, shown))
  <2>1. answer.text = acc.text /\ emits = <<>>
    BY <1>2 DEF CallInv, Stages
  <2>2. PICK w \in Seq(STRING), rest \in Seq(STRING) :
          Joined(Words(k, shown), w) /\ Says(<<>>, k, rest) /\ acc.text[k] = w \o rest
    BY <2>1 DEF CallInv, Heard
  <2>3. rest = <<>>
    BY <2>2, EmptySeq DEF Says
  <2>4. acc.text[k] = w
    BY <2>2, <2>3, ConcatEmptySeq
  <2> QED BY <2>1, <2>2, <2>4, JoinedIsFlatten
<1> QED BY <1>1, <1>2 DEF ShownOnce, Parsed, Words

LEMMA CallInvAssembles == CallInv => CallsAssembled
<1> SUFFICES ASSUME CallInv, stage = "returned", streams, answer.calls # <<>>
             PROVE  CallsAssembled
  BY DEF CallsAssembled
<1>1. shown \in Seq(Deltas) /\ shown \o <<>> = shown
  BY ConcatEmptySeq DEF CallInv, Follows
<1>2. answer = Finalize(acc) /\ emits = <<>>
  BY DEF CallInv, Stages
<1>3. Gathered(acc.tools, shown)
  BY <1>1, <1>2 DEF CallInv
<1>4. answer.error = None /\ Assembled(answer.calls, shown)
  BY <1>1, <1>2, <1>3, CallsAreAssembled, FinalizeCalls
<1>5. DOMAIN shown = 1..Len(shown)
  BY <1>1, LenProperties
<1> DEFINE Of(i) == {k \in DOMAIN shown : shown[k].kind = "tool" /\ shown[k].call.index = i}
           args(i) == [k \in DOMAIN shown |-> IF k \in Of(i) THEN shown[k].call.args ELSE <<>>]
           c(i) == answer.calls[Position(NamedIn(shown), i)]
<1>6. \A i : args(i) = Parts(i, shown)
  BY DEF Parts, IsOf
<1>7. \A i : Of(i) = {k \in 1..Len(shown) : IsOf(shown[k], i)}
  BY <1>5 DEF IsOf
<1>8. ASSUME NEW i \in NamedIn(shown)
      PROVE  /\ c(i).args = OrObject(FlattenSeq(args(i))) /\ c(i).args = Object
             /\ \E k \in Of(i) : shown[k].call.name = c(i).name
             /\ c(i).id = FallbackId(i) \/ \E k \in Of(i) : shown[k].call.id = c(i).id
  <2> HIDE DEF Of, args
  <2> QED BY <1>4, <1>6, <1>7 DEF Assembled
<1>9. Len(answer.calls) = Cardinality(NamedIn(shown))
  BY <1>4 DEF Assembled
<1> QED BY <1>4, <1>8, <1>9 DEF CallsAssembled, NamedIn, Position

\* The callbacks of a streamed model call (generate_stream_with_retry) are given
\* the deltas of one attempt, each once and in order, and a reply that is
\* returned without an error says what they were given.
THEOREM ShowsOneAttempt == CallSpec => []ShownOnce
<1>1. CallInv /\ [CallNext]_callVars => CallInv'
  BY NextCallInv
<1> QED BY InitCallInv, <1>1, CallInvShows, PTL DEF CallSpec

\* The calls a streamed reply is returned with (_ChatStreamAccumulator, then
\* _parse_stream_tool_calls) are the calls the callbacks were given, whole and in
\* the order of their indexes.
THEOREM CallsAreWhole == CallSpec => []CallsAssembled
<1>1. CallInv /\ [CallNext]_callVars => CallInv'
  BY NextCallInv
<1> QED BY InitCallInv, <1>1, CallInvAssembles, PTL DEF CallSpec

-----------------------------------------------------------------------------
\* The elements of s at the positions in I, and where they stood.
Picks(a, s, I, f) ==
  /\ f \in [1..Len(a) -> 1..Len(s)]
  /\ \A k, l \in 1..Len(a) : k < l => f[k] < f[l]
  /\ \A k \in 1..Len(a) : a[k] = s[f[k]] /\ f[k] \in I
  /\ \A i \in 1..Len(s) : i \in I => \E k \in 1..Len(a) : f[k] = i

\* The same of the first m elements.
PicksTo(a, s, I, f, m) ==
  /\ f \in [1..Len(a) -> 1..m]
  /\ \A k, l \in 1..Len(a) : k < l => f[k] < f[l]
  /\ \A k \in 1..Len(a) : a[k] = s[f[k]] /\ f[k] \in I
  /\ \A i \in 1..m : i \in I => \E k \in 1..Len(a) : f[k] = i

LEMMA PicksNext ==
  ASSUME NEW T, NEW s \in Seq(T), NEW I, NEW m \in 1..Len(s), NEW a \in Seq(T), NEW f,
         PicksTo(a, s, I, f, m - 1),
         NEW b, b = IF m \in I THEN Append(a, s[m]) ELSE a
  PROVE  \E g : PicksTo(b, s, I, g, m)
<1>1. CASE m \notin I
  <2>1. PicksTo(a, s, I, f, m)
    BY <1>1 DEF PicksTo
  <2> QED BY <1>1, <2>1
<1>2. CASE m \in I
  <2> DEFINE n == Len(a)
             g == [k \in 1..(n + 1) |-> IF k = n + 1 THEN m ELSE f[k]]
  <2>1. /\ s[m] \in T /\ b \in Seq(T) /\ Len(b) = n + 1 /\ n \in Nat
        /\ \A k \in 1..n : b[k] = a[k]
        /\ b[n + 1] = s[m]
    BY <1>2, AppendProperties
  <2>2. /\ f \in [1..n -> 1..(m - 1)]
        /\ \A k, l \in 1..n : k < l => f[k] < f[l]
        /\ \A k \in 1..n : a[k] = s[f[k]] /\ f[k] \in I
        /\ \A i \in 1..(m - 1) : i \in I => \E k \in 1..n : f[k] = i
    BY DEF PicksTo
  <2> HIDE DEF n
  <2>3. /\ \A k \in 1..n : g[k] = f[k] /\ g[k] \in 1..(m - 1)
        /\ g[n + 1] = m
    BY <2>1, <2>2
  <2>4. g \in [1..(n + 1) -> 1..m]
    BY <2>1, <2>2
  <2> HIDE DEF g
  <2>5. \A k, l \in 1..(n + 1) : k < l => g[k] < g[l]
    <3> SUFFICES ASSUME NEW k \in 1..(n + 1), NEW l \in 1..(n + 1), k < l PROVE g[k] < g[l]
      OBVIOUS
    <3>1. k \in 1..n /\ g[k] \in 1..(m - 1)
      BY <2>1, <2>3
    <3>2. CASE l = n + 1
      BY <2>3, <3>1, <3>2
    <3>3. CASE l # n + 1
      BY <2>1, <2>2, <2>3, <3>1, <3>3
    <3> QED BY <3>2, <3>3
  <2>6. ASSUME NEW k \in 1..(n + 1) PROVE b[k] = s[g[k]] /\ g[k] \in I
    <3>1. CASE k = n + 1
      BY <1>2, <2>1, <2>3, <3>1
    <3>2. CASE k # n + 1
      <4>1. k \in 1..n
        BY <2>1, <3>2
      <4> QED BY <2>1, <2>2, <2>3, <4>1
    <3> QED BY <3>1, <3>2
  <2>7. \A i \in 1..m : i \in I => \E k \in 1..(n + 1) : g[k] = i
    <3> SUFFICES ASSUME NEW i \in 1..m, i \in I PROVE \E k \in 1..(n + 1) : g[k] = i
      OBVIOUS
    <3>1. CASE i = m
      BY <2>1, <2>3, <3>1
    <3>2. CASE i # m
      <4>1. i \in 1..(m - 1)
        BY <3>2
      <4>2. PICK k \in 1..n : f[k] = i
        BY <2>2, <4>1
      <4>3. k \in 1..(n + 1) /\ g[k] = i
        BY <2>1, <2>3, <4>2
      <4> QED BY <4>3
    <3> QED BY <3>1, <3>2
  <2>8. PicksTo(b, s, I, g, m)
    BY <2>1, <2>4, <2>5, <2>6, <2>7 DEF PicksTo
  <2> QED BY <2>8
<1> QED BY <1>1, <1>2


\* A recurrence over 1..n has a solution.
Solution(X, n, x, st, g) ==
  g \in [0..n -> X] /\ g[0] = x /\ \A i \in 1..n : g[i] = st[i][g[i - 1]]

LEMMA Recurrence ==
  ASSUME NEW X, NEW n \in Nat, NEW x \in X, NEW st \in [1..n -> [X -> X]]
  PROVE  \E g : Solution(X, n, x, st, g)
<1> DEFINE Solves(g, m) == g[0] = x /\ \A i \in 1..m : g[i] = st[i][g[i - 1]]
           Good == {m \in 0..n : \E g \in [0..m -> X] : Solves(g, m)}
<1>1. 0 \in Good
  <2>1. [i \in 0..0 |-> x] \in [0..0 -> X] /\ Solves([i \in 0..0 |-> x], 0)
    OBVIOUS
  <2> HIDE DEF Solves
  <2> QED BY <2>1
<1>2. ASSUME NEW m \in 1..n, m - 1 \in Good PROVE m \in Good
  <2>1. PICK g \in [0..(m - 1) -> X] : Solves(g, m - 1)
    BY <1>2
  <2> DEFINE h == [i \in 0..m |-> IF i = m THEN st[m][g[m - 1]] ELSE g[i]]
  <2>2. st[m][g[m - 1]] \in X
    OBVIOUS
  <2>3. h \in [0..m -> X]
    BY <2>2
  <2>4. \A i \in 0..(m - 1) : h[i] = g[i]
    OBVIOUS
  <2>5. h[m] = st[m][g[m - 1]]
    OBVIOUS
  <2> HIDE DEF h
  <2>6. Solves(h, m)
    BY <2>1, <2>4, <2>5
  <2> HIDE DEF Solves
  <2> QED BY <2>3, <2>6
<1>3. \A m \in 0..n : m \in Good
  <2> HIDE DEF Good
  <2> QED BY <1>1, <1>2, UpTo
<1> QED BY <1>3 DEF Solution

\* What the loops of the transcript compute, given the partial results g.
Keeps(g, s, I, n) ==
  /\ g[0] = <<>>
  /\ \A i \in 1..n : g[i] = IF i \in I THEN Append(g[i - 1], s[i]) ELSE g[i - 1]

\* At(s, I) is the last element of any sequence built the way At builds its
\* own.
LEMMA AtIs ==
  ASSUME NEW s, NEW I, NEW g, NEW n \in Nat, Len(s) = n, Keeps(g, s, I, n)
  PROVE  At(s, I) = g[n]
<1> USE DEF Keeps
<1> DEFINE Step(f, i) == IF i = 0 THEN <<>>
                         ELSE IF i \in I THEN Append(f[i - 1], s[i]) ELSE f[i - 1]
           at == CHOOSE f : f = [i \in 0..n |-> Step(f, i)]
           h == [i \in 0..n |-> g[i]]
<1>1. h = [i \in 0..n |-> Step(h, i)]
  OBVIOUS
<1>2. at = [i \in 0..n |-> Step(at, i)]
  <2> HIDE DEF h, Step
  <2> QED BY <1>1
<1>3. At(s, I) = at[n]
  BY DEF At
<1> HIDE DEF at
<1>4. \A i \in 0..n : at[i] = Step(at, i)
  <2> HIDE DEF Step
  <2> QED BY <1>2, Zenon
<1>5. \A i \in 0..n : at[i] = g[i]
  <2> DEFINE Same == {i \in 0..n : at[i] = g[i]}
  <2>1. 0 \in Same
    BY <1>4
  <2>2. \A i \in 1..n : i - 1 \in Same => i \in Same
    BY <1>4
  <2>3. \A i \in 0..n : i \in Same
    <3> HIDE DEF Same
    <3> QED BY <2>1, <2>2, UpTo
  <2>4. QED BY <2>3
<1>6. QED BY <1>3, <1>5


\* What At keeps.
LEMMA AtPicks ==
  ASSUME NEW T, NEW s \in Seq(T), NEW I
  PROVE  At(s, I) \in Seq(T) /\ \E f : Picks(At(s, I), s, I, f)
<1> DEFINE n == Len(s)
           X == Seq(T)
           st == [i \in 1..n |-> [a \in X |-> IF i \in I THEN Append(a, s[i]) ELSE a]]
<1>1. n \in Nat /\ \A i \in 1..n : s[i] \in T
  OBVIOUS
<1>2. <<>> \in X /\ Len(<<>>) = 0
  OBVIOUS
<1>3. \A a \in X, e \in T : Append(a, e) \in X
  BY AppendProperties
<1> HIDE DEF n, X
<1>4. st \in [1..n -> [X -> X]]
  BY <1>1, <1>3
<1>5. PICK g : Solution(X, n, <<>>, st, g)
  <2> HIDE DEF st
  <2>1. n \in Nat
    BY <1>1
  <2>2. <<>> \in X
    BY <1>2
  <2> QED BY <2>1, <2>2, <1>4, Recurrence
<1> USE <1>5 DEF Solution
<1>6. \A i \in 1..n : g[i] = IF i \in I THEN Append(g[i - 1], s[i]) ELSE g[i - 1]
  <2> SUFFICES ASSUME NEW i \in 1..n
      PROVE  g[i] = IF i \in I THEN Append(g[i - 1], s[i]) ELSE g[i - 1]
    OBVIOUS
  <2>1. st[i] = [a \in X |-> IF i \in I THEN Append(a, s[i]) ELSE a]
    OBVIOUS
  <2> HIDE DEF st
  <2>2. i - 1 \in 0..n /\ g[i - 1] \in X
    BY <1>1
  <2>3. g[i] = st[i][g[i - 1]]
    BY <1>5
  <2> QED BY <2>1, <2>2, <2>3
<1>7. At(s, I) = g[n]
  <2>1. Keeps(g, s, I, n)
    BY <1>5, <1>6 DEF Keeps
  <2> QED BY <1>1, <2>1, AtIs DEF n
<1> DEFINE Good == {m \in 0..n : \E f : PicksTo(g[m], s, I, f, m)}
<1>8. 0 \in Good
  <2>1. PicksTo(<<>>, s, I, <<>>, 0)
    BY <1>2 DEF PicksTo
  <2> QED BY <1>1, <1>5, <2>1
<1>9. ASSUME NEW m \in 1..n, m - 1 \in Good PROVE m \in Good
  <2>1. PICK f : PicksTo(g[m - 1], s, I, f, m - 1)
    BY <1>9
  <2>2. g[m - 1] \in Seq(T) /\ m \in 1..Len(s)
    BY <1>1, <1>5 DEF X, n
  <2>3. g[m] = IF m \in I THEN Append(g[m - 1], s[m]) ELSE g[m - 1]
    BY <1>6
  <2>5. \E h : PicksTo(g[m], s, I, h, m)
    <3> HIDE DEF Good
    <3> QED BY <2>1, <2>2, <2>3, PicksNext
  <2>6. m \in 0..n
    BY <1>1
  <2> QED BY <2>5, <2>6
<1>10. PICK f : PicksTo(g[n], s, I, f, n)
  <2>1. \A m \in 0..n : m \in Good
    <3> HIDE DEF Good
    <3> QED BY <1>1, <1>8, <1>9, UpTo
  <2> QED BY <1>1, <2>1
<1>11. Picks(At(s, I), s, I, f)
  BY <1>7, <1>10 DEF Picks, PicksTo, n
<1> QED BY <1>1, <1>5, <1>7, <1>11 DEF X

-----------------------------------------------------------------------------
\* F joins the lists of P, the i-th of them behind position pos[i - 1].
Laid(F, P, pos, T) ==
  /\ F \in Seq(T) /\ P \in Seq(Seq(T))
  /\ pos \in [0..Len(P) -> Nat] /\ pos[0] = 0 /\ Len(F) = pos[Len(P)]
  /\ \A i \in 1..Len(P) : pos[i] = pos[i - 1] + Len(P[i])
  /\ \A i \in 1..Len(P) : \A d \in 1..Len(P[i]) : F[pos[i - 1] + d] = P[i][d]

\* One list more.
LaidTo(F, P, pos, m) ==
  /\ Len(F) = pos[m]
  /\ \A i \in 1..m : pos[i] <= pos[m]
  /\ \A i \in 1..m : \A d \in 1..Len(P[i]) : F[pos[i - 1] + d] = P[i][d]

LEMMA LaidNext ==
  ASSUME NEW T, NEW P \in Seq(Seq(T)), NEW pos \in [0..Len(P) -> Nat],
         \A i \in 1..Len(P) : pos[i] = pos[i - 1] + Len(P[i]),
         NEW m \in 1..Len(P), NEW F \in Seq(T), LaidTo(F, P, pos, m - 1),
         NEW G, G = F \o P[m]
  PROVE  LaidTo(G, P, pos, m)
<1> DEFINE n == Len(P)
           p == P[m]
<1>1. n \in Nat /\ p \in Seq(T) /\ \A i \in 1..n : P[i] \in Seq(T) /\ Len(P[i]) \in Nat
  <2>1. n \in Nat /\ \A i \in 1..n : P[i] \in Seq(T)
    OBVIOUS
  <2> QED BY <2>1
<1>2. /\ G \in Seq(T) /\ Len(F) \in Nat /\ Len(p) \in Nat /\ Len(G) = Len(F) + Len(p)
      /\ \A k \in 1..Len(F) : G[k] = F[k]
      /\ \A d \in 1..Len(p) : G[Len(F) + d] = p[d]
  <2>1. /\ G \in Seq(T) /\ Len(F) \in Nat /\ Len(p) \in Nat /\ Len(G) = Len(F) + Len(p)
        /\ \A k \in 1..Len(F) : G[k] = F[k]
        /\ \A k \in (Len(F) + 1)..(Len(F) + Len(p)) : G[k] = p[k - Len(F)]
    <3> HIDE DEF p
    <3>1. G = F \o p
      BY DEF p
    <3> QED BY <1>1, <3>1, ConcatProperties
  <2> HIDE DEF p
  <2>2. ASSUME NEW d \in 1..Len(p) PROVE G[Len(F) + d] = p[d]
    <3>1. Len(F) + d \in (Len(F) + 1)..(Len(F) + Len(p)) /\ (Len(F) + d) - Len(F) = d
      BY <2>1
    <3> QED BY <2>1, <3>1
  <2> QED BY <2>1, <2>2
<1>3. /\ pos[m - 1] = Len(F) /\ pos[m] = pos[m - 1] + Len(p) /\ pos[m] \in Nat
      /\ \A i \in 1..(m - 1) : pos[i] <= pos[m - 1]
      /\ \A i \in 1..(m - 1) : \A d \in 1..Len(P[i]) : F[pos[i - 1] + d] = P[i][d]
  BY DEF LaidTo
<1> HIDE DEF p
<1>4. \A i \in 1..m : pos[i] <= pos[m]
  <2> SUFFICES ASSUME NEW i \in 1..m PROVE pos[i] <= pos[m]
    OBVIOUS
  <2>1. pos[i] \in Nat
    <3>1. i \in 0..Len(P)
      BY <1>1
    <3> QED BY <3>1
  <2>2. i # m => i \in 1..(m - 1)
    BY <1>1
  <2> QED BY <1>2, <1>3, <2>1, <2>2
<1>5. ASSUME NEW i \in 1..m, NEW d \in 1..Len(P[i]) PROVE G[pos[i - 1] + d] = P[i][d]
  <2>1. CASE i = m
    BY <1>2, <1>3, <2>1 DEF p
  <2>2. CASE i # m
    <3>1. i \in 1..(m - 1) /\ i \in 1..n /\ i - 1 \in 0..n
      BY <1>1, <2>2
    <3>2. /\ pos[i - 1] \in Nat /\ Len(P[i]) \in Nat
          /\ pos[i - 1] + Len(P[i]) <= Len(F)
      BY <1>1, <1>3, <3>1
    <3>3. pos[i - 1] + d \in 1..Len(F)
      <4>1. d \in Nat /\ 1 <= d /\ d <= Len(P[i])
        BY <3>2
      <4>2. Len(F) \in Nat
        BY <1>2
      <4>3. PICK x, y, z : x = pos[i - 1] /\ y = Len(P[i]) /\ z = Len(F)
        OBVIOUS
      <4>4. x \in Nat /\ y \in Nat /\ z \in Nat /\ x + y <= z /\ d <= y
        BY <3>2, <4>1, <4>2, <4>3
      <4>5. x + d \in 1..z
        BY <4>1, <4>4
      <4> QED BY <4>3, <4>5
    <3> QED BY <1>2, <1>3, <3>1, <3>3
  <2> QED BY <2>1, <2>2
<1> QED BY <1>2, <1>3, <1>4, <1>5 DEF LaidTo

LEMMA FlattenLaid ==
  ASSUME NEW T, NEW P \in Seq(Seq(T))
  PROVE  \E pos : Laid(FlattenSeq(P), P, pos, T)
<1> DEFINE n == Len(P)
           X == Seq(T)
           far == [i \in 1..n |-> [k \in Nat |-> k + Len(P[i])]]
           st == [i \in 1..n |-> [a \in X |-> a \o P[i]]]
<1>1. n \in Nat /\ \A i \in 1..n : P[i] \in X /\ Len(P[i]) \in Nat
  <2>1. n \in Nat /\ \A i \in 1..n : P[i] \in Seq(T)
    OBVIOUS
  <2> QED BY <2>1
<1>2. <<>> \in X /\ Len(<<>>) = 0 /\ \A a \in X : <<>> \o a = a
  BY ConcatEmptySeq
<1>3. \A a, b \in X : a \o b \in X
  BY ConcatProperties
<1> HIDE DEF n, X
<1>4. far \in [1..n -> [Nat -> Nat]] /\ st \in [1..n -> [X -> X]]
  BY <1>1, <1>3
<1>5. PICK pos : Solution(Nat, n, 0, far, pos)
  <2> HIDE DEF far, st
  <2> QED BY <1>1, <1>4, Recurrence
<1>6. PICK g : Solution(X, n, <<>>, st, g)
  <2> HIDE DEF far, st
  <2> QED BY <1>1, <1>2, <1>4, Recurrence
<1>7. pos \in [0..n -> Nat] /\ pos[0] = 0 /\ \A i \in 1..n : pos[i] = pos[i - 1] + Len(P[i])
  <2>1. pos \in [0..n -> Nat] /\ pos[0] = 0 /\ \A i \in 1..n : pos[i] = far[i][pos[i - 1]]
    BY <1>5 DEF Solution
  <2>2. \A i \in 1..n : i - 1 \in 0..n
    BY <1>1
  <2> QED BY <2>1, <2>2
<1>8. g \in [0..n -> X] /\ g[0] = <<>> /\ \A i \in 1..n : g[i] = g[i - 1] \o P[i]
  <2>1. g \in [0..n -> X] /\ g[0] = <<>> /\ \A i \in 1..n : g[i] = st[i][g[i - 1]]
    BY <1>6 DEF Solution
  <2>2. \A i \in 1..n : i - 1 \in 0..n
    BY <1>1
  <2>3. \A i \in 1..n : \A a \in X : st[i][a] = a \o P[i]
    OBVIOUS
  <2> HIDE DEF st
  <2> QED BY <2>1, <2>2, <2>3
<1> HIDE DEF far, st
<1>9. FlattenSeq(P) = g[n]
  <2>1. CASE n = 0
    <3>1. P = <<>>
      BY <2>1 DEF n
    <3>2. FlattenSeq(<<>>) = <<>>
      BY DEF FlattenSeq
    <3> QED BY <1>8, <2>1, <3>1, <3>2
  <2>2. CASE n # 0
    <3>1. 1 \in 1..n /\ 1 - 1 = 0 /\ n \in Nat \ {0}
      BY <1>1, <2>2
    <3>2. g[1] = <<>> \o P[1] /\ P[1] \in X
      BY <1>1, <1>8, <3>1
    <3>3. g[1] = P[1]
      BY <1>2, <3>2
    <3>4. \A i \in 2..n : g[i] = g[i - 1] \o P[i]
      <4>1. \A i \in 2..n : i \in 1..n
        BY <1>1
      <4> QED BY <1>8, <4>1
    <3>5. Joins(g, P, n)
      BY <3>3, <3>4 DEF Joins
    <3> QED BY <3>1, <3>5, FlattenIs DEF n
  <2> QED BY <2>1, <2>2
<1> DEFINE Good == {m \in 0..n : LaidTo(g[m], P, pos, m)}
<1>10. 0 \in Good
  BY <1>1, <1>2, <1>7, <1>8 DEF LaidTo
<1>11. ASSUME NEW m \in 1..n, m - 1 \in Good PROVE m \in Good
  <2>1. LaidTo(g[m - 1], P, pos, m - 1) /\ m \in 0..n /\ m - 1 \in 0..n
    BY <1>1, <1>11
  <2>2. g[m] = g[m - 1] \o P[m] /\ g[m - 1] \in Seq(T)
    BY <1>8, <2>1 DEF X
  <2>3. pos \in [0..Len(P) -> Nat] /\ m \in 1..Len(P)
        /\ \A i \in 1..Len(P) : pos[i] = pos[i - 1] + Len(P[i])
    BY <1>7 DEF n
  <2>4. LaidTo(g[m], P, pos, m)
    <3> HIDE DEF Good
    <3> QED BY <2>1, <2>2, <2>3, LaidNext
  <2> QED BY <2>1, <2>4
<1>12. LaidTo(g[n], P, pos, n)
  <2>1. \A m \in 0..n : m \in Good
    <3> HIDE DEF Good
    <3> QED BY <1>1, <1>10, <1>11, UpTo
  <2> QED BY <1>1, <2>1
<1>13. g[n] \in Seq(T)
  BY <1>1, <1>8 DEF X
<1>14. Laid(FlattenSeq(P), P, pos, T)
  BY <1>7, <1>9, <1>12, <1>13 DEF Laid, LaidTo, n
<1> QED BY <1>14

\* Later lists stand further behind, and every element is one of a list.
Rises(pos, n) == \A i, j \in 0..n : i <= j => pos[i] <= pos[j]
Covers(F, P, pos) ==
  \A q \in 1..Len(F) : \E i \in 1..Len(P) : \E d \in 1..Len(P[i]) :
    q = pos[i - 1] + d /\ F[q] = P[i][d]

LEMMA LaidOrder ==
  ASSUME NEW T, NEW F, NEW P, NEW pos, Laid(F, P, pos, T)
  PROVE  Rises(pos, Len(P)) /\ Covers(F, P, pos)
<1> DEFINE n == Len(P)
<1>1. /\ n \in Nat /\ \A i \in 1..n : Len(P[i]) \in Nat
      /\ F \in Seq(T) /\ pos \in [0..n -> Nat] /\ pos[0] = 0 /\ Len(F) = pos[n]
      /\ \A i \in 1..n : pos[i] = pos[i - 1] + Len(P[i])
      /\ \A i \in 1..n : \A d \in 1..Len(P[i]) : F[pos[i - 1] + d] = P[i][d]
  <2>1. P \in Seq(Seq(T))
    BY DEF Laid
  <2>2. n \in Nat /\ \A i \in 1..n : P[i] \in Seq(T)
    BY <2>1
  <2>3. \A i \in 1..n : Len(P[i]) \in Nat
    BY <2>2
  <2> QED BY <2>2, <2>3 DEF Laid
<1> HIDE DEF n
<1>2. ASSUME NEW i \in 0..n PROVE \A j \in 0..n : i <= j => pos[i] <= pos[j]
  <2> DEFINE Good == {j \in 0..n : i <= j => pos[i] <= pos[j]}
  <2>1. 0 \in Good
    BY <1>1
  <2>2. ASSUME NEW j \in 1..n, j - 1 \in Good PROVE j \in Good
    <3>1. j - 1 \in 0..n /\ pos[j] \in Nat /\ pos[j - 1] \in Nat /\ pos[j - 1] <= pos[j]
      <4>1. j - 1 \in 0..n /\ j \in 0..n
        BY <1>1
      <4>2. pos[j] \in Nat /\ pos[j - 1] \in Nat /\ Len(P[j]) \in Nat
        BY <1>1, <4>1
      <4>3. pos[j] = pos[j - 1] + Len(P[j])
        BY <1>1
      <4> HIDE DEF Good
      <4> QED BY <4>1, <4>2, <4>3
    <3>2. i <= j - 1 => pos[i] <= pos[j - 1]
      BY <2>2
    <3>3. pos[i] \in Nat /\ (i <= j => i <= j - 1 \/ i = j)
      BY <1>1
    <3> QED BY <3>1, <3>2, <3>3
  <2>3. \A j \in 0..n : j \in Good
    <3> HIDE DEF Good
    <3> QED BY <1>1, <2>1, <2>2, UpTo
  <2> QED BY <2>3
<1>3. ASSUME NEW q \in 1..Len(F)
      PROVE  \E i \in 1..n : \E d \in 1..Len(P[i]) : q = pos[i - 1] + d /\ F[q] = P[i][d]
  <2> DEFINE Past == {i \in 0..n : q <= pos[i]}
  <2>1. Past \in SUBSET Nat /\ n \in Past
    BY <1>1
  <2>2. PICK i \in Past : \A j \in Past : i <= j
    <3> HIDE DEF Past
    <3> QED BY <2>1, Least
  <2>3. i \in 1..n /\ i - 1 \in 0..n /\ q <= pos[i]
    BY <1>1, <2>2
  <2>4. ~(q <= pos[i - 1])
    <3>1. ~(i <= i - 1)
      BY <2>3
    <3> QED BY <2>2, <2>3, <3>1
  <2> HIDE DEF Past
  <2> DEFINE d == q - pos[i - 1]
  <2>5. d \in 1..Len(P[i]) /\ q = pos[i - 1] + d
    <3>1. pos[i - 1] \in Nat /\ pos[i] = pos[i - 1] + Len(P[i]) /\ Len(P[i]) \in Nat
      BY <1>1, <2>3
    <3> QED BY <1>1, <2>3, <2>4, <3>1
  <2>6. F[q] = P[i][d]
    BY <1>1, <2>3, <2>5
  <2> QED BY <2>3, <2>5, <2>6
<1> QED BY <1>2, <1>3 DEF n, Rises, Covers

\* Where the elements of the i-th list stand.
LEMMA LaidPlace ==
  ASSUME NEW T, NEW F, NEW P, NEW pos, Laid(F, P, pos, T),
         NEW i \in 1..Len(P), NEW d \in 1..Len(P[i])
  PROVE  /\ pos[i - 1] + d \in 1..Len(F) /\ F[pos[i - 1] + d] = P[i][d]
         /\ pos[i - 1] < pos[i - 1] + d /\ pos[i - 1] + d <= pos[i]
<1> DEFINE n == Len(P)
<1>1. /\ P \in Seq(Seq(T)) /\ pos \in [0..n -> Nat] /\ Len(F) = pos[n]
      /\ pos[i] = pos[i - 1] + Len(P[i])
      /\ F[pos[i - 1] + d] = P[i][d]
  BY DEF Laid
<1>2. n \in Nat /\ P[i] \in Seq(T)
  BY <1>1
<1>3. Len(P[i]) \in Nat
  BY <1>2
<1>4. pos[i] <= pos[n]
  <2>1. Rises(pos, n)
    BY LaidOrder
  <2> HIDE DEF n
  <2>2. i \in 0..n /\ n \in 0..n /\ i <= n
    BY <1>2 DEF n
  <2> QED BY <2>1, <2>2 DEF Rises
<1>5. pos[i - 1] \in Nat /\ pos[n] \in Nat
  <2> HIDE DEF n
  <2>1. i - 1 \in 0..n /\ n \in 0..n
    BY <1>2 DEF n
  <2> QED BY <1>1, <2>1
<1>6. PICK x, y, z : x = pos[i - 1] /\ y = Len(P[i]) /\ z = Len(F)
  OBVIOUS
<1>7. x \in Nat /\ y \in Nat /\ z \in Nat /\ x + y <= z /\ d \in 1..y /\ pos[i] = x + y
  BY <1>1, <1>3, <1>4, <1>5, <1>6
<1>8. x + d \in 1..z /\ x < x + d /\ x + d <= x + y
  BY <1>7
<1> QED BY <1>1, <1>6, <1>7, <1>8

-----------------------------------------------------------------------------
\* The messages of a request: results are in place, no id names two messages'
\* calls, and no call is without an id.
Apart(h) ==
  \A i, j \in 1..Len(h) : \A id : id \in CallIds(h[i]) /\ id \in CallIds(h[j]) => i = j
InPlace(h) ==
  \A i, j \in 1..Len(h) : h[j].role = "tool" /\ h[j].ref \in CallIds(h[i]) =>
    i < j /\ \A k \in (i + 1)..j : h[k].role = "tool"
Placed(h) == h \in Seq(Messages) /\ InPlace(h) /\ Apart(h)
Named(h) ==
  \A i \in 1..Len(h) : h[i].role = "assistant" => NoCall \notin Range(h[i].calls)

\* b says of calls and results what a says.
Like(b, a) ==
  /\ b.role = a.role /\ b.ref = a.ref /\ CallIds(b) = CallIds(a)
  /\ NoCall \in Range(b.calls) => NoCall \in Range(a.calls)

\* a is what is left of h.
Thinned(a, h, f) ==
  /\ f \in [1..Len(a) -> 1..Len(h)]
  /\ \A k, l \in 1..Len(a) : k < l => f[k] < f[l]
  /\ \A k \in 1..Len(a) : Like(a[k], h[f[k]])
Thins(a, h) == a \in Seq(Messages) /\ \E f : Thinned(a, h, f)

LEMMA ThinsPlaced ==
  ASSUME NEW h, NEW a, Placed(h), Thins(a, h)
  PROVE  Placed(a)
<1> DEFINE n == Len(a)
<1>1. PICK f : Thinned(a, h, f)
  BY DEF Thins
<1>2. a \in Seq(Messages) /\ h \in Seq(Messages) /\ n \in Nat /\ Len(h) \in Nat
  BY DEF Thins, Placed
<1>3. /\ \A k \in 1..n : f[k] \in 1..Len(h) /\ f[k] \in Nat
      /\ \A k, l \in 1..n : k < l => f[k] < f[l]
      /\ \A k \in 1..n : /\ a[k].role = h[f[k]].role /\ a[k].ref = h[f[k]].ref
                         /\ CallIds(a[k]) = CallIds(h[f[k]])
  BY <1>1, <1>2 DEF Thinned, Like
<1>4. InPlace(h) /\ Apart(h)
  BY DEF Placed
<1> HIDE DEF n
<1>5. ASSUME NEW i \in 1..n, NEW j \in 1..n, f[i] < f[j] PROVE i < j
  <2>1. i \in Nat /\ j \in Nat /\ ~(f[j] < f[i]) /\ f[i] # f[j]
    BY <1>2, <1>3, <1>5
  <2>2. ~(j < i)
    BY <1>3, <2>1
  <2>3. i # j
    BY <2>1
  <2> QED BY <2>1, <2>2, <2>3
<1>6. InPlace(a)
  <2> SUFFICES ASSUME NEW i \in 1..n, NEW j \in 1..n,
                      a[j].role = "tool", a[j].ref \in CallIds(a[i])
               PROVE  i < j /\ \A k \in (i + 1)..j : a[k].role = "tool"
    BY DEF InPlace, n
  <2>1. h[f[j]].role = "tool" /\ h[f[j]].ref \in CallIds(h[f[i]])
    BY <1>3
  <2>2. f[i] < f[j] /\ \A k \in (f[i] + 1)..f[j] : h[k].role = "tool"
    BY <1>3, <1>4, <2>1 DEF InPlace
  <2>3. i < j
    BY <1>5, <2>2
  <2>4. ASSUME NEW k \in (i + 1)..j PROVE a[k].role = "tool"
    <3>1. k \in 1..n /\ i < k /\ (k < j \/ k = j)
      BY <1>2, <2>3
    <3>2. f[i] < f[k] /\ (f[k] < f[j] \/ f[k] = f[j])
      BY <1>3, <3>1
    <3>3. f[k] \in (f[i] + 1)..f[j]
      BY <1>3, <3>1, <3>2
    <3> QED BY <1>3, <2>2, <3>1, <3>3
  <2> QED BY <2>3, <2>4
<1>7. Apart(a)
  <2> SUFFICES ASSUME NEW i \in 1..n, NEW j \in 1..n, NEW id,
                      id \in CallIds(a[i]), id \in CallIds(a[j])
               PROVE  i = j
    BY DEF Apart, n
  <2>1. f[i] = f[j]
    BY <1>3, <1>4 DEF Apart
  <2>2. ~(i < j) /\ ~(j < i)
    BY <1>3, <2>1
  <2> QED BY <1>2, <2>2
<1> QED BY <1>2, <1>6, <1>7 DEF Placed

LEMMA ThinsNamed ==
  ASSUME NEW h, NEW a, Named(h), Thins(a, h)
  PROVE  Named(a)
<1>1. PICK f : Thinned(a, h, f)
  BY DEF Thins
<1>2. ASSUME NEW k \in 1..Len(a), a[k].role = "assistant" PROVE NoCall \notin Range(a[k].calls)
  <2>1. f[k] \in 1..Len(h) /\ Like(a[k], h[f[k]])
    BY <1>1 DEF Thinned
  <2> QED BY <1>2, <2>1 DEF Like, Named
<1> QED BY <1>2 DEF Named

LEMMA ThinsAt ==
  ASSUME NEW h \in Seq(Messages), NEW I
  PROVE  Thins(At(h, I), h)
<1>1. PICK f : Picks(At(h, I), h, I, f)
  BY AtPicks
<1>2. At(h, I) \in Seq(Messages)
  BY AtPicks
<1>3. Thinned(At(h, I), h, f)
  BY <1>1 DEF Picks, Thinned, Like
<1> QED BY <1>2, <1>3 DEF Thins

\* Messages that say the same of calls and results may take the others' places.
LEMMA ThinsLike ==
  ASSUME NEW h, NEW b, NEW a \in Seq(Messages), Thins(b, h), Len(a) = Len(b),
         \A k \in 1..Len(a) : Like(a[k], b[k])
  PROVE  Thins(a, h)
<1>1. PICK f : Thinned(b, h, f)
  BY DEF Thins
<1>2. Thinned(a, h, f)
  BY <1>1 DEF Thinned, Like
<1> QED BY <1>2 DEF Thins

LEMMA LikeFields ==
  ASSUME NEW a, NEW b, b.role = a.role, b.ref = a.ref, b.calls = a.calls
  PROVE  Like(b, a)
BY DEF Like, CallIds

-----------------------------------------------------------------------------
\* The passes that thin.
LEMMA Sanitizes ==
  ASSUME NEW h \in Seq(Messages)
  PROVE  Thins(SanitizeMessages(h), h)
<1> DEFINE kept == At(h, {i \in DOMAIN h : h[i].role \in AllowedRoles})
           r == [k \in DOMAIN kept |-> [kept[k] EXCEPT !.ui = FALSE]]
<1>1. Thins(kept, h)
  BY ThinsAt
<1>2. SanitizeMessages(h) = r
  BY DEF SanitizeMessages
<1> HIDE DEF kept
<1>3. kept \in Seq(Messages) /\ Len(kept) \in Nat /\ DOMAIN kept = 1..Len(kept)
      /\ \A k \in 1..Len(kept) : kept[k] \in Messages
  BY <1>1 DEF Thins
<1>4. \A m \in Messages : LET c == [m EXCEPT !.ui = FALSE]
                          IN  c \in Messages /\ c.role = m.role /\ c.ref = m.ref /\ c.calls = m.calls
  BY DEF Messages
<1>5. r \in Seq(Messages) /\ Len(r) = Len(kept)
  <2>1. r \in [1..Len(kept) -> Messages]
    BY <1>3, <1>4
  <2> QED BY <1>3, <2>1, ListOf
<1>6. \A k \in 1..Len(r) : Like(r[k], kept[k])
  <2> SUFFICES ASSUME NEW k \in 1..Len(r) PROVE Like(r[k], kept[k])
    OBVIOUS
  <2>1. k \in DOMAIN kept /\ kept[k] \in Messages /\ r[k] = [kept[k] EXCEPT !.ui = FALSE]
    BY <1>3, <1>5
  <2>2. r[k].role = kept[k].role /\ r[k].ref = kept[k].ref /\ r[k].calls = kept[k].calls
    BY <1>4, <2>1
  <2> QED BY <2>2, LikeFields
<1> HIDE DEF r
<1> QED BY <1>1, <1>2, <1>5, <1>6, ThinsLike

LEMMA DropsEmpty ==
  ASSUME NEW h \in Seq(Messages)
  PROVE  Thins(DropEmptyMessages(h), h)
BY ThinsAt DEF DropEmptyMessages

LEMMA DropsOrphans ==
  ASSUME NEW h \in Seq(Messages)
  PROVE  Thins(DropOrphanToolResults(h), h)
BY ThinsAt DEF DropOrphanToolResults

LEMMA CutText ==
  ASSUME NEW m \in Messages, MaxResult \in Nat, Len(m.text) > MaxResult
  PROVE  LET c == [m EXCEPT !.text = Append(SubSeq(@, 1, MaxResult), "[truncated]")]
         IN  c \in Messages /\ c.role = m.role /\ c.ref = m.ref /\ c.calls = m.calls
<1> DEFINE t == Append(SubSeq(m.text, 1, MaxResult), "[truncated]")
<1>1. m.text \in Seq(Vocabulary)
  BY DEF Messages
<1>2. SubSeq(m.text, 1, MaxResult) \in Seq(Vocabulary)
  <2>1. \A k \in 1..MaxResult : k \in 1..Len(m.text)
    BY <1>1
  <2> QED BY <1>1, <2>1, SubSeqProperties
<1>3. "[truncated]" \in Vocabulary
  BY DEF Vocabulary
<1>4. t \in Seq(Vocabulary)
  BY <1>2, <1>3, AppendProperties
<1> HIDE DEF t
<1>5. LET c == [m EXCEPT !.text = t]
      IN  c \in Messages /\ c.role = m.role /\ c.ref = m.ref /\ c.calls = m.calls
  BY <1>4 DEF Messages
<1> QED BY <1>5 DEF t

LEMMA Truncates ==
  ASSUME NEW h \in Seq(Messages), MaxResult \in Nat
  PROVE  Thins(TruncateToolResults(h), h)
<1> DEFINE r == TruncateToolResults(h)
<1>1. Thins(h, h)
  <2>1. Thinned(h, h, [k \in 1..Len(h) |-> k])
    BY DEF Thinned, Like
  <2> QED BY <2>1 DEF Thins
<1>2. /\ Len(h) \in Nat /\ DOMAIN h = 1..Len(h) /\ \A k \in 1..Len(h) : h[k] \in Messages
      /\ r = [i \in 1..Len(h) |->
                IF h[i].role = "tool" /\ Len(h[i].text) > MaxResult
                THEN [h[i] EXCEPT !.text = Append(SubSeq(@, 1, MaxResult), "[truncated]")]
                ELSE h[i]]
  BY DEF TruncateToolResults
<1> HIDE DEF r
<1>3. \A k \in 1..Len(h) : /\ r[k] \in Messages /\ r[k].role = h[k].role
                           /\ r[k].ref = h[k].ref /\ r[k].calls = h[k].calls
  BY <1>2, CutText
<1>4. r \in Seq(Messages) /\ Len(r) = Len(h)
  <2>1. r \in [1..Len(h) -> Messages]
    BY <1>2, <1>3
  <2> QED BY <1>2, <2>1, ListOf
<1>5. \A k \in 1..Len(r) : Like(r[k], h[k])
  BY <1>3, <1>4, LikeFields
<1> QED BY <1>1, <1>4, <1>5, ThinsLike DEF r

Ids == STRING \union {NoCall}
Valid(calls) == At(calls, {k \in DOMAIN calls : Usable(calls[k])})

LEMMA ValidIds ==
  ASSUME NEW calls \in Seq(Ids)
  PROVE  /\ Valid(calls) \in Seq(Ids) /\ NoCall \notin Range(Valid(calls))
         /\ Range(Valid(calls)) \ {NoCall} = Range(calls) \ {NoCall}
<1> DEFINE I == {k \in DOMAIN calls : Usable(calls[k])}
           v == At(calls, I)
<1>1. v \in Seq(Ids)
  BY AtPicks
<1>2. PICK f : Picks(v, calls, I, f)
  BY AtPicks
<1>3. Valid(calls) = v
  BY DEF Valid
<1>4. DOMAIN calls = 1..Len(calls)
  OBVIOUS
<1> HIDE DEF v
<1>5. DOMAIN v = 1..Len(v) /\ Len(v) \in Nat
  BY <1>1
<1>6. \A k \in 1..Len(v) : f[k] \in DOMAIN calls /\ v[k] = calls[f[k]] /\ v[k] # NoCall
  BY <1>2, <1>4 DEF Picks, Usable
<1>7. \A i \in DOMAIN calls : calls[i] # NoCall => \E k \in 1..Len(v) : v[k] = calls[i]
  <2> SUFFICES ASSUME NEW i \in DOMAIN calls, calls[i] # NoCall
               PROVE  \E k \in 1..Len(v) : v[k] = calls[i]
    OBVIOUS
  <2>1. PICK k \in 1..Len(v) : f[k] = i
    BY <1>2, <1>4 DEF Picks, Usable
  <2> QED BY <1>6, <2>1
<1>8. Range(v) = {v[k] : k \in 1..Len(v)} /\ Range(calls) = {calls[i] : i \in DOMAIN calls}
  BY <1>5 DEF Range
<1>9. NoCall \notin Range(v)
  BY <1>6, <1>8
<1>10. Range(v) \ {NoCall} = Range(calls) \ {NoCall}
  BY <1>6, <1>7, <1>8
<1> QED BY <1>1, <1>3, <1>9, <1>10

LEMMA Strips ==
  ASSUME NEW h \in Seq(Messages)
  PROVE  Thins(StripMalformedToolCalls(h), h) /\ Named(StripMalformedToolCalls(h))
<1> DEFINE Bad(m) == m.role = "assistant" /\ m.calls # <<>> /\ Valid(m.calls) = <<>>
           kept == At(h, {i \in DOMAIN h : Bad(h[i]) => HasContent(h[i]) \/ h[i].reasoning})
           r == [i \in DOMAIN kept |-> [kept[i] EXCEPT !.calls = Valid(@)]]
<1>1. Thins(kept, h)
  BY ThinsAt
<1>2. StripMalformedToolCalls(h) = r
  BY Zenon DEF StripMalformedToolCalls, Valid
<1> HIDE DEF kept
<1>3. kept \in Seq(Messages) /\ Len(kept) \in Nat /\ DOMAIN kept = 1..Len(kept)
      /\ \A k \in 1..Len(kept) : kept[k] \in Messages
  BY <1>1 DEF Thins
<1>4. ASSUME NEW m \in Messages
      PROVE  LET c == [m EXCEPT !.calls = Valid(@)]
             IN  /\ c \in Messages /\ Like(c, m) /\ NoCall \notin Range(c.calls)
  <2>1. m.calls \in Seq(Ids)
    BY DEF Messages, Ids
  <2>2. PICK v : v = Valid(m.calls)
    OBVIOUS
  <2>3. /\ v \in Seq(Ids) /\ NoCall \notin Range(v)
        /\ Range(v) \ {NoCall} = Range(m.calls) \ {NoCall}
    BY <2>1, <2>2, ValidIds
  <2> DEFINE c == [m EXCEPT !.calls = v]
  <2>4. c \in Messages /\ c.role = m.role /\ c.ref = m.ref /\ c.calls = v
    BY <2>3 DEF Messages, Ids
  <2> HIDE DEF c
  <2>5. Like(c, m)
    BY <2>3, <2>4 DEF Like, CallIds
  <2> QED BY <2>2, <2>3, <2>4, <2>5 DEF c
<1>5. r \in Seq(Messages) /\ Len(r) = Len(kept)
  <2>1. r \in [1..Len(kept) -> Messages]
    BY <1>3, <1>4
  <2> QED BY <1>3, <2>1, ListOf
<1>6. \A k \in 1..Len(r) : Like(r[k], kept[k]) /\ NoCall \notin Range(r[k].calls)
  <2> SUFFICES ASSUME NEW k \in 1..Len(r)
               PROVE  Like(r[k], kept[k]) /\ NoCall \notin Range(r[k].calls)
    OBVIOUS
  <2>1. kept[k] \in Messages /\ r[k] = [kept[k] EXCEPT !.calls = Valid(@)]
    BY <1>3, <1>5
  <2> QED BY <1>4, <2>1
<1> HIDE DEF r
<1> QED BY <1>1, <1>2, <1>5, <1>6, ThinsLike DEF Named

\* Merging keeps the first message of each run, with the texts of all.
LEMMA Merges ==
  ASSUME NEW h \in Seq(Messages)
  PROVE  Thins(MergeConsecutiveText(h), h)
<1> DEFINE n == Len(h)
           Mergeable(a, b) == /\ b.role \in {"user", "assistant"}
                              /\ a.role = b.role
                              /\ IsPlainText(a) /\ IsPlainText(b)
           places == [i \in DOMAIN h |-> i]
           I == {i \in DOMAIN h : i = 1 \/ ~Mergeable(h[i - 1], h[i])}
           opening == At(places, I)
           Until(k) == IF k = Len(opening) THEN n ELSE opening[k + 1] - 1
           Texts(k) == [j \in 1..(Until(k) - opening[k] + 1) |-> h[opening[k] + j - 1].text]
           TextOf(k) == FlattenSeq(Texts(k))
           r == [k \in DOMAIN opening |-> [h[opening[k]] EXCEPT !.text = TextOf(k)]]
<1>1. MergeConsecutiveText(h) = r
  BY Zenon DEF MergeConsecutiveText
<1>2. n \in Nat /\ DOMAIN h = 1..n /\ \A i \in 1..n : h[i] \in Messages
  OBVIOUS
<1>3. places \in Seq(Nat) /\ Len(places) = n /\ \A i \in 1..n : places[i] = i
  <2>1. places \in [1..n -> Nat]
    BY <1>2
  <2> QED BY <1>2, <2>1, ListOf
<1> HIDE DEF n, I, places
<1>4. opening \in Seq(Nat) /\ \E f : Picks(opening, places, I, f)
  BY <1>3, AtPicks
<1> HIDE DEF opening
<1>5. PICK f : Picks(opening, places, I, f)
  BY <1>4
<1> DEFINE m == Len(opening)
<1>6. /\ m \in Nat /\ DOMAIN opening = 1..m /\ f \in [1..m -> 1..n]
      /\ \A k \in 1..m : opening[k] = f[k]
      /\ \A k, l \in 1..m : k < l => f[k] < f[l]
  <2>1. m \in Nat /\ DOMAIN opening = 1..m
    BY <1>4
  <2>2. /\ f \in [1..m -> 1..n]
        /\ \A k, l \in 1..m : k < l => f[k] < f[l]
        /\ \A k \in 1..m : opening[k] = places[f[k]]
    BY <1>3, <1>5 DEF Picks
  <2>3. \A k \in 1..m : f[k] \in 1..n
    BY <2>2
  <2>4. \A k \in 1..m : opening[k] = f[k]
    BY <1>3, <2>2, <2>3
  <2> HIDE DEF m
  <2> QED BY <2>1, <2>2, <2>4
<1> HIDE DEF m
<1>7. ASSUME NEW k \in 1..m PROVE TextOf(k) \in Seq(Vocabulary)
  <2>1. /\ opening[k] \in 1..n /\ Until(k) \in Nat /\ Until(k) <= n
        /\ opening[k] <= Until(k)
    <3>1. CASE k = m
      BY <1>2, <1>6, <3>1 DEF m
    <3>2. CASE k # m
      <4>1. k + 1 \in 1..m /\ k < k + 1
        BY <1>6, <3>2
      <4>2. f[k] < f[k + 1] /\ f[k] \in 1..n /\ f[k + 1] \in 1..n
        BY <1>6, <4>1
      <4>3. opening[k] = f[k] /\ opening[k + 1] = f[k + 1] /\ Until(k) = opening[k + 1] - 1
        BY <1>6, <3>2, <4>1 DEF m
      <4> QED BY <1>2, <4>2, <4>3
    <3> QED BY <3>1, <3>2
  <2> HIDE DEF Until
  <2> DEFINE l == Until(k) - opening[k] + 1
  <2>2. l \in Nat /\ \A j \in 1..l : opening[k] + j - 1 \in 1..n
    BY <1>2, <2>1
  <2>3. \A i \in 1..n : h[i].text \in Seq(Vocabulary)
    BY <1>2 DEF Messages
  <2>4. Texts(k) \in [1..l -> Seq(Vocabulary)]
    BY <2>2, <2>3
  <2> HIDE DEF l
  <2>5. Texts(k) \in Seq(Seq(Vocabulary))
    BY <2>2, <2>4, ListOf
  <2> HIDE DEF Texts
  <2>6. \E pos : Laid(FlattenSeq(Texts(k)), Texts(k), pos, Vocabulary)
    BY <2>5, FlattenLaid
  <2> QED BY <2>6 DEF Laid
<1> HIDE DEF TextOf
<1>8. \A k \in 1..m : /\ r[k] \in Messages /\ r[k].role = h[f[k]].role
                      /\ r[k].ref = h[f[k]].ref /\ r[k].calls = h[f[k]].calls
  <2> SUFFICES ASSUME NEW k \in 1..m
      PROVE  /\ r[k] \in Messages /\ r[k].role = h[f[k]].role
             /\ r[k].ref = h[f[k]].ref /\ r[k].calls = h[f[k]].calls
    OBVIOUS
  <2>1. h[f[k]] \in Messages /\ r[k] = [h[f[k]] EXCEPT !.text = TextOf(k)]
    BY <1>2, <1>6
  <2> HIDE DEF r
  <2> QED BY <1>7, <2>1 DEF Messages
<1>9. r \in Seq(Messages) /\ Len(r) = m
  <2>1. r \in [1..m -> Messages]
    BY <1>6, <1>8
  <2> QED BY <1>6, <2>1, ListOf
<1> HIDE DEF r
<1>10. Thinned(r, h, f)
  BY <1>6, <1>8, <1>9, LikeFields DEF Thinned, n
<1> QED BY <1>1, <1>9, <1>10 DEF Thins

-----------------------------------------------------------------------------
\* A sequence in which every message of h heads a list of results: those behind
\* the head answer a call the results in front of them answer too, and a call
\* without a result in h has one there.
Headed(h, P) ==
  /\ P \in Seq(Seq(Messages)) /\ Len(P) = Len(h)
  /\ \A i \in 1..Len(h) : Len(P[i]) >= 1 /\ P[i][1] = h[i]
Trailing(h, P) ==
  \A i \in 1..Len(h) : \A d \in 1..Len(P[i]) : d # 1 =>
    /\ P[i][d].role = "tool"
    /\ \E c \in 1..i : /\ P[i][d].ref \in CallIds(h[c])
                       /\ \A k \in (c + 1)..i : h[k].role = "tool"
Supplied(h, P) ==
  \A i \in 1..Len(h) : \A id \in CallIds(h[i]) :
    \/ \E j \in 1..Len(h) : h[j].role = "tool" /\ h[j].ref = id
    \/ \E b \in 1..Len(h) : \E d \in 1..Len(P[b]) : d # 1 /\ P[b][d].ref = id
Declared(h) ==
  \A j \in 1..Len(h) : h[j].role = "tool" =>
    \E i \in 1..Len(h) : h[j].ref \in CallIds(h[i])

\* What a legal request is.
Legal(h) == CallsAnswered(h) /\ ResultsDeclared(h)

LEMMA ToolsCallNothing ==
  \A m : m.role = "tool" => CallIds(m) = {}
BY DEF CallIds


LEMMA FilledPlaced ==
  ASSUME NEW h, Placed(h), NEW P, Headed(h, P), Trailing(h, P),
         NEW F, NEW pos, Laid(F, P, pos, Messages)
  PROVE  /\ F \in Seq(Messages) /\ InPlace(F) /\ Apart(F)
         /\ \A i \in 1..Len(h) : pos[i - 1] + 1 \in 1..Len(F) /\ F[pos[i - 1] + 1] = h[i]
         /\ \A q \in 1..Len(F) : F[q].role # "tool" =>
              \E i \in 1..Len(h) : q = pos[i - 1] + 1 /\ F[q] = h[i]
<1> DEFINE n == Len(h)
           At1(i) == pos[i - 1] + 1
<1>1. /\ h \in Seq(Messages) /\ n \in Nat /\ Len(P) = n
      /\ F \in Seq(Messages) /\ Len(F) \in Nat /\ Len(F) = pos[n]
      /\ pos \in [0..n -> Nat] /\ pos[0] = 0
  BY DEF Placed, Headed, Laid
<1>2. \A i \in 1..n : /\ pos[i] \in Nat /\ pos[i - 1] \in Nat /\ Len(P[i]) \in Nat
                      /\ pos[i] = pos[i - 1] + Len(P[i]) /\ Len(P[i]) >= 1
                      /\ i - 1 \in 0..n /\ i \in 0..n
  <2> SUFFICES ASSUME NEW i \in 1..n
      PROVE  /\ pos[i] \in Nat /\ pos[i - 1] \in Nat /\ Len(P[i]) \in Nat
             /\ pos[i] = pos[i - 1] + Len(P[i]) /\ Len(P[i]) >= 1
             /\ i - 1 \in 0..n /\ i \in 0..n
    OBVIOUS
  <2>1. i - 1 \in 0..n /\ i \in 0..n
    BY <1>1
  <2>2. P[i] \in Seq(Messages)
    BY <1>1 DEF Headed
  <2>3. Len(P[i]) \in Nat
    BY <2>2
  <2>4. pos[i] = pos[i - 1] + Len(P[i]) /\ Len(P[i]) >= 1
    BY <1>1 DEF Laid, Headed
  <2> QED BY <1>1, <2>1, <2>3, <2>4
<1>3. /\ \A i, j \in 0..n : i <= j => pos[i] <= pos[j]
      /\ \A q \in 1..Len(F) : \E i \in 1..n : \E d \in 1..Len(P[i]) :
           q = pos[i - 1] + d /\ F[q] = P[i][d]
  <2>1. Rises(pos, Len(P)) /\ Covers(F, P, pos)
    BY LaidOrder
  <2> HIDE DEF n
  <2> QED BY <1>1, <2>1 DEF Rises, Covers
<1> HIDE DEF n
<1>4. ASSUME NEW i \in 1..n PROVE At1(i) \in 1..Len(F) /\ F[At1(i)] = h[i]
  <2>1. At1(i) <= pos[i] /\ pos[i] <= pos[n] /\ At1(i) \in Nat /\ 1 <= At1(i)
    <3>1. pos[i] <= pos[n]
      BY <1>1, <1>2, <1>3
    <3>2. pos[i] \in Nat /\ pos[i - 1] \in Nat /\ pos[i] = pos[i - 1] + Len(P[i]) /\ Len(P[i]) >= 1
          /\ Len(P[i]) \in Nat
      BY <1>2
    <3> QED BY <3>1, <3>2
  <2>2. 1 \in 1..Len(P[i]) /\ P[i][1] = h[i]
    BY <1>2 DEF Headed, n
  <2>3. F[pos[i - 1] + 1] = P[i][1]
    BY <1>1, <2>2 DEF Laid
  <2> QED BY <1>1, <2>1, <2>2, <2>3
\* Between a message and the results behind the results that follow it are results.
<1>5. ASSUME NEW a \in 1..n, NEW b \in 1..n, \A k \in (a + 1)..b : h[k].role = "tool",
             NEW q \in 1..Len(F), At1(a) < q, q <= pos[b]
      PROVE  F[q].role = "tool"
  <2>1. PICK i \in 1..n : \E d \in 1..Len(P[i]) : q = pos[i - 1] + d /\ F[q] = P[i][d]
    BY <1>3
  <2>2. PICK d \in 1..Len(P[i]) : q = pos[i - 1] + d /\ F[q] = P[i][d]
    BY <2>1
  <2>3. CASE d # 1
    BY <2>2, <2>3 DEF Trailing, n
  <2>4. CASE d = 1
    <3>1. F[q] = h[i] /\ q = At1(i) /\ pos[i - 1] \in Nat /\ pos[a - 1] \in Nat /\ pos[b] \in Nat
      BY <1>2, <2>2, <2>4 DEF Headed, n
    <3>2. ~(i <= a)
      <4>1. i <= a => pos[i - 1] <= pos[a - 1]
        BY <1>2, <1>3
      <4> QED BY <1>5, <3>1, <4>1
    <3>3. ~(b < i)
      <4>1. b < i => pos[b] <= pos[i - 1]
        <5>1. b < i => b <= i - 1
          BY <1>1
        <5> QED BY <1>2, <1>3, <5>1
      <4> QED BY <1>5, <3>1, <4>1
    <3>4. i \in (a + 1)..b
      BY <1>1, <3>2, <3>3
    <3> QED BY <1>5, <3>1, <3>4
  <2> QED BY <2>3, <2>4
<1>6. ASSUME NEW q \in 1..Len(F), F[q].role # "tool"
      PROVE  \E i \in 1..n : q = At1(i) /\ F[q] = h[i]
  <2>1. PICK i \in 1..n : \E d \in 1..Len(P[i]) : q = pos[i - 1] + d /\ F[q] = P[i][d]
    BY <1>3
  <2>2. PICK d \in 1..Len(P[i]) : q = pos[i - 1] + d /\ F[q] = P[i][d]
    BY <2>1
  <2>3. d = 1
    BY <1>6, <2>2 DEF Trailing, n
  <2> QED BY <2>2, <2>3 DEF Headed, n
<1>7. InPlace(F)
  <2> SUFFICES ASSUME NEW p \in 1..Len(F), NEW q \in 1..Len(F),
                      F[q].role = "tool", F[q].ref \in CallIds(F[p])
               PROVE  p < q /\ \A k \in (p + 1)..q : F[k].role = "tool"
    BY DEF InPlace
  <2>1. PICK a \in 1..n : p = At1(a) /\ F[p] = h[a]
    <3>1. F[p].role # "tool"
      BY ToolsCallNothing
    <3> QED BY <1>6, <3>1
  <2>2. PICK b \in 1..n : \E d \in 1..Len(P[b]) : q = pos[b - 1] + d /\ F[q] = P[b][d]
    BY <1>3
  <2>3. PICK d \in 1..Len(P[b]) : q = pos[b - 1] + d /\ F[q] = P[b][d]
    BY <2>2
  <2>4. /\ q \in Nat /\ d \in Nat /\ pos[a - 1] \in Nat /\ pos[b - 1] \in Nat /\ pos[b] \in Nat
        /\ q <= pos[b] /\ pos[b - 1] < q /\ a \in Nat /\ b \in Nat
    <3>1. /\ pos[b] = pos[b - 1] + Len(P[b]) /\ Len(P[b]) \in Nat /\ pos[b - 1] \in Nat
          /\ pos[a - 1] \in Nat /\ pos[b] \in Nat
      BY <1>2
    <3>2. d \in Nat /\ 1 <= d /\ d <= Len(P[b]) /\ q = pos[b - 1] + d
      BY <2>3, <3>1
    <3>3. q \in Nat /\ a \in Nat /\ b \in Nat
      BY <1>1
    <3>4. PICK x, y : x = pos[b - 1] /\ y = Len(P[b])
      OBVIOUS
    <3>5. q <= x + y /\ x < q
      BY <3>1, <3>2, <3>4
    <3> QED BY <3>1, <3>2, <3>3, <3>4, <3>5
  <2>5. \/ a < b /\ \A k \in (a + 1)..b : h[k].role = "tool"
        \/ a = b /\ d # 1
        \/ a < b /\ d # 1 /\ \A k \in (a + 1)..b : h[k].role = "tool"
    <3>1. CASE d = 1
      <4>1. F[q] = h[b]
        BY <2>3, <3>1 DEF Headed, n
      <4>2. InPlace(h)
        BY DEF Placed
      <4> QED BY <2>1, <4>1, <4>2 DEF InPlace, n
    <3>2. CASE d # 1
      <4>1. PICK c \in 1..b : /\ P[b][d].ref \in CallIds(h[c])
                              /\ \A k \in (c + 1)..b : h[k].role = "tool"
        BY <2>3, <3>2 DEF Trailing, n
      <4>2. c \in 1..n
        BY <1>1
      <4>3. c = a
        <5>1. Apart(h)
          BY DEF Placed
        <5> QED BY <2>1, <2>3, <4>1, <4>2, <5>1 DEF Apart, n
      <4> QED BY <2>4, <3>2, <4>1, <4>3
    <3> QED BY <3>1, <3>2
  <2>6. p < q
    <3>1. CASE a < b
      <4>1. pos[a] <= pos[b - 1]
        <5>1. a <= b - 1 /\ a \in 0..n /\ b - 1 \in 0..n
          BY <1>2, <2>4, <3>1
        <5> QED BY <1>3, <5>1
      <4>2. pos[a] = pos[a - 1] + Len(P[a]) /\ Len(P[a]) >= 1 /\ pos[a] \in Nat /\ Len(P[a]) \in Nat
        BY <1>2
      <4>3. p = pos[a - 1] + 1
        BY <2>1
      <4>4. PICK u, v, w : u = pos[a - 1] /\ v = Len(P[a]) /\ w = pos[b - 1]
        OBVIOUS
      <4>5. u \in Nat /\ v \in Nat /\ w \in Nat /\ u + v <= w /\ v >= 1 /\ w < q /\ p = u + 1
        <5> HIDE DEF At1
        <5> QED BY <2>4, <4>1, <4>2, <4>3, <4>4
      <4> QED BY <2>4, <4>5
    <3>2. CASE a = b /\ d # 1
      BY <2>1, <2>3, <2>4, <3>2
    <3> QED BY <2>5, <3>1, <3>2
  <2>7. \A k \in (a + 1)..b : h[k].role = "tool"
    BY <2>4, <2>5
  <2>8. ASSUME NEW k \in (p + 1)..q PROVE F[k].role = "tool"
    <3>1. k \in 1..Len(F) /\ At1(a) < k /\ k <= pos[b]
      <4>1. p \in Nat /\ q \in Nat /\ q <= Len(F) /\ Len(F) \in Nat /\ 1 <= p
        BY <1>1
      <4>2. k \in Nat /\ p < k /\ k <= q
        BY <4>1
      <4>3. k <= pos[b]
        BY <2>4, <4>2
      <4>4. k \in 1..Len(F)
        BY <4>1, <4>2
      <4> QED BY <2>1, <4>2, <4>3, <4>4
    <3> QED BY <1>5, <2>7, <3>1
  <2> QED BY <2>6, <2>8
<1>8. Apart(F)
  <2> SUFFICES ASSUME NEW p \in 1..Len(F), NEW q \in 1..Len(F), NEW id,
                      id \in CallIds(F[p]), id \in CallIds(F[q])
               PROVE  p = q
    BY DEF Apart
  <2>1. F[p].role # "tool" /\ F[q].role # "tool"
    BY ToolsCallNothing
  <2>2. PICK a \in 1..n : p = At1(a) /\ F[p] = h[a]
    BY <1>6, <2>1
  <2>3. PICK b \in 1..n : q = At1(b) /\ F[q] = h[b]
    BY <1>6, <2>1
  <2>4. a = b
    BY <2>2, <2>3 DEF Placed, Apart, n
  <2> QED BY <2>2, <2>3, <2>4
<1> QED BY <1>1, <1>4, <1>6, <1>7, <1>8 DEF n

\* Results in place make a request legal once every call has one and every one
\* a call.
AllAnswered(h) ==
  \A i \in 1..Len(h) : \A id \in CallIds(h[i]) :
    \E j \in 1..Len(h) : h[j].role = "tool" /\ h[j].ref = id

LEMMA PlacedLegal ==
  ASSUME NEW F \in Seq(Messages), InPlace(F), Named(F), Declared(F), AllAnswered(F)
  PROVE  Legal(F)
<1>1. Len(F) \in Nat /\ DOMAIN F = 1..Len(F)
  OBVIOUS
<1>2. CallsAnswered(F)
  <2> SUFFICES ASSUME NEW i \in 1..Len(F), F[i].role = "assistant", NEW id \in Range(F[i].calls)
               PROVE  \E j \in (i + 1)..Len(F) :
                        /\ F[j].role = "tool" /\ F[j].ref = id
                        /\ \A k \in (i + 1)..j : F[k].role = "tool"
    BY <1>1 DEF CallsAnswered
  <2>1. id \in CallIds(F[i])
    BY DEF Named, CallIds
  <2>2. PICK j \in 1..Len(F) : F[j].role = "tool" /\ F[j].ref = id
    BY <2>1 DEF AllAnswered
  <2>3. i < j /\ \A k \in (i + 1)..j : F[k].role = "tool"
    BY <2>1, <2>2 DEF InPlace
  <2>4. j \in (i + 1)..Len(F)
    BY <1>1, <2>3
  <2> QED BY <2>2, <2>3, <2>4
<1>3. ResultsDeclared(F)
  <2> SUFFICES ASSUME NEW j \in 1..Len(F), F[j].role = "tool"
               PROVE  \E i \in 1..(j - 1) :
                        /\ F[j].ref \in CallIds(F[i])
                        /\ \A k \in (i + 1)..j : F[k].role = "tool"
    BY <1>1 DEF ResultsDeclared
  <2>1. PICK i \in 1..Len(F) : F[j].ref \in CallIds(F[i])
    BY DEF Declared
  <2>2. i < j /\ \A k \in (i + 1)..j : F[k].role = "tool"
    BY <2>1 DEF InPlace
  <2>3. i \in 1..(j - 1)
    BY <1>1, <2>2
  <2> QED BY <2>1, <2>2, <2>3
<1> QED BY <1>2, <1>3 DEF Legal

LEMMA FilledLegal ==
  ASSUME NEW h, Placed(h), Named(h), Declared(h),
         NEW P, Headed(h, P), Trailing(h, P), Supplied(h, P),
         NEW F, NEW pos, Laid(F, P, pos, Messages)
  PROVE  Placed(F) /\ Named(F) /\ Legal(F)
<1> DEFINE n == Len(h)
<1>1. /\ F \in Seq(Messages) /\ InPlace(F) /\ Apart(F)
      /\ \A i \in 1..n : pos[i - 1] + 1 \in 1..Len(F) /\ F[pos[i - 1] + 1] = h[i]
      /\ \A q \in 1..Len(F) : F[q].role # "tool" =>
           \E i \in 1..n : q = pos[i - 1] + 1 /\ F[q] = h[i]
  BY FilledPlaced
<1>2. /\ Len(P) = n /\ n \in Nat
      /\ \A b \in 1..n : \A d \in 1..Len(P[b]) : F[pos[b - 1] + d] = P[b][d]
  <2>1. n \in Nat
    BY DEF Placed
  <2>2. Len(P) = n
    BY DEF Headed
  <2>3. \A b \in 1..Len(P) : \A d \in 1..Len(P[b]) : F[pos[b - 1] + d] = P[b][d]
    BY Zenon DEF Laid
  <2> QED BY <2>1, <2>2, <2>3
<1>3. ASSUME NEW b \in 1..n, NEW d \in 1..Len(P[b]) PROVE pos[b - 1] + d \in 1..Len(F)
  BY <1>2, LaidPlace
<1>4. \A q \in 1..Len(F) : \E i \in 1..n : \E d \in 1..Len(P[i]) :
           q = pos[i - 1] + d /\ F[q] = P[i][d]
  <2>1. Covers(F, P, pos)
    BY LaidOrder
  <2> QED BY <1>2, <2>1 DEF Covers
<1> HIDE DEF n
<1>5. Named(F)
  <2> SUFFICES ASSUME NEW q \in 1..Len(F), F[q].role = "assistant"
               PROVE  NoCall \notin Range(F[q].calls)
    BY DEF Named
  <2>1. PICK i \in 1..n : F[q] = h[i]
    BY <1>1
  <2> QED BY <2>1 DEF Named, n
<1>6. Declared(F)
  <2> SUFFICES ASSUME NEW q \in 1..Len(F), F[q].role = "tool"
               PROVE  \E i \in 1..Len(F) : F[q].ref \in CallIds(F[i])
    BY DEF Declared
  <2>1. PICK b \in 1..n : \E d \in 1..Len(P[b]) : q = pos[b - 1] + d /\ F[q] = P[b][d]
    BY <1>4
  <2>2. PICK d \in 1..Len(P[b]) : F[q] = P[b][d]
    BY <2>1
  <2>3. \E c \in 1..n : F[q].ref \in CallIds(h[c])
    <3>1. CASE d = 1
      <4>1. F[q] = h[b]
        BY <2>2, <3>1 DEF Headed, n
      <4> QED BY <4>1 DEF Declared, n
    <3>2. CASE d # 1
      <4>1. PICK c \in 1..b : P[b][d].ref \in CallIds(h[c])
        BY <3>2 DEF Trailing, n
      <4>2. c \in 1..n
        BY <1>2
      <4> QED BY <2>2, <4>1, <4>2
    <3> QED BY <3>1, <3>2
  <2> QED BY <1>1, <2>3
<1>7. AllAnswered(F)
  <2> SUFFICES ASSUME NEW q \in 1..Len(F), NEW id \in CallIds(F[q])
               PROVE  \E j \in 1..Len(F) : F[j].role = "tool" /\ F[j].ref = id
    BY DEF AllAnswered
  <2>1. PICK i \in 1..n : F[q] = h[i]
    BY <1>1, ToolsCallNothing
  <2>2. CASE \E j \in 1..n : h[j].role = "tool" /\ h[j].ref = id
    BY <1>1, <2>2
  <2>3. CASE \E b \in 1..n : \E d \in 1..Len(P[b]) : d # 1 /\ P[b][d].ref = id
    <3>1. PICK b \in 1..n : \E d \in 1..Len(P[b]) : d # 1 /\ P[b][d].ref = id
      BY <2>3
    <3>2. PICK d \in 1..Len(P[b]) : d # 1 /\ P[b][d].ref = id
      BY <3>1
    <3>3. P[b][d].role = "tool"
      BY <3>2 DEF Trailing, n
    <3>4. F[pos[b - 1] + d] = P[b][d] /\ pos[b - 1] + d \in 1..Len(F)
      BY <1>2, <1>3
    <3> QED BY <3>2, <3>3, <3>4
  <2> QED BY <2>1, <2>2, <2>3 DEF Supplied, n
<1> QED BY <1>1, <1>5, <1>6, <1>7, PlacedLegal DEF Placed

-----------------------------------------------------------------------------
\* The results a repair puts in for the calls of m.
LostOf(m, fulfilled) ==
  LET ids == At(m.calls, {k \in DOMAIN m.calls : m.calls[k] \notin fulfilled \union {NoCall}})
  IN  [k \in DOMAIN ids |-> ToolResult(ids[k], LostResult)]

LEMMA LostResultIs ==
  ASSUME NEW id \in Ids
  PROVE  /\ ToolResult(id, LostResult) \in Messages
         /\ ToolResult(id, LostResult).role = "tool"
         /\ ToolResult(id, LostResult).ref = id
<1>1. <<LostResult>> \in Seq(Vocabulary)
  BY DEF Vocabulary
<1>2. <<>> \in Seq(Ids)
  OBVIOUS
<1>3. PICK t : t = <<LostResult>>
  OBVIOUS
<1>4. PICK e : e = <<>>
  OBVIOUS
<1>5. ToolResult(id, LostResult) =
        [[role |-> "tool", text |-> t, parts |-> FALSE, reasoning |-> FALSE,
          calls |-> e, ref |-> NoCall, ui |-> FALSE] EXCEPT !.ref = id]
  BY <1>3, <1>4 DEF ToolResult, Message
<1> QED BY <1>1, <1>2, <1>3, <1>4, <1>5 DEF Messages, AllowedRoles, Ids

LEMMA LostAnswers ==
  ASSUME NEW m \in Messages, m.role = "assistant", NEW X
  PROVE  /\ LostOf(m, X) \in Seq(Messages)
         /\ \A k \in 1..Len(LostOf(m, X)) : /\ LostOf(m, X)[k].role = "tool"
                                            /\ LostOf(m, X)[k].ref \in CallIds(m)
         /\ \A id \in CallIds(m) : id \notin X =>
              \E k \in 1..Len(LostOf(m, X)) : LostOf(m, X)[k].ref = id
<1> DEFINE calls == m.calls
           I == {k \in DOMAIN calls : calls[k] \notin X \union {NoCall}}
           ids == At(calls, I)
           r == [k \in DOMAIN ids |-> ToolResult(ids[k], LostResult)]
<1>1. LostOf(m, X) = r
  BY Zenon DEF LostOf
<1>2. calls \in Seq(Ids) /\ CallIds(m) = Range(calls) \ {NoCall}
  BY DEF Messages, Ids, CallIds
<1> HIDE DEF calls
<1>3. DOMAIN calls = 1..Len(calls) /\ Len(calls) \in Nat
  BY <1>2
<1>4. ids \in Seq(Ids) /\ \E f : Picks(ids, calls, I, f)
  BY <1>2, AtPicks
<1>5. PICK f : Picks(ids, calls, I, f)
  BY <1>4
<1> HIDE DEF ids
<1>6. /\ DOMAIN ids = 1..Len(ids) /\ Len(ids) \in Nat
      /\ \A k \in 1..Len(ids) : ids[k] \in Ids
  BY <1>4
<1>7. \A k \in 1..Len(ids) : /\ r[k] = ToolResult(ids[k], LostResult)
                             /\ r[k] \in Messages /\ r[k].role = "tool" /\ r[k].ref = ids[k]
  BY <1>6, LostResultIs
<1>8. r \in Seq(Messages) /\ Len(r) = Len(ids)
  <2>1. r \in [1..Len(ids) -> Messages]
    <3>1. \A k \in 1..Len(ids) : ToolResult(ids[k], LostResult) \in Messages
      BY <1>6, LostResultIs
    <3> QED BY <1>6, <3>1
  <2> HIDE DEF r
  <2> QED BY <1>6, <2>1, ListOf
<1> HIDE DEF r
<1>9. \A k \in 1..Len(ids) : ids[k] \in Range(calls) \ {NoCall}
  <2> SUFFICES ASSUME NEW k \in 1..Len(ids) PROVE ids[k] \in Range(calls) \ {NoCall}
    OBVIOUS
  <2>1. f[k] \in DOMAIN calls /\ ids[k] = calls[f[k]] /\ calls[f[k]] # NoCall
    BY <1>3, <1>5 DEF Picks
  <2> QED BY <2>1 DEF Range
<1>10. ASSUME NEW id \in Range(calls), id # NoCall, id \notin X
       PROVE  \E k \in 1..Len(ids) : ids[k] = id
  <2>1. PICK i \in DOMAIN calls : calls[i] = id
    BY DEF Range
  <2>2. i \in I /\ i \in 1..Len(calls)
    BY <1>3, <1>10, <2>1
  <2>3. PICK k \in 1..Len(ids) : f[k] = i
    BY <1>5, <2>2 DEF Picks
  <2>4. ids[k] = calls[f[k]]
    BY <1>5 DEF Picks
  <2> QED BY <2>1, <2>3, <2>4
<1> QED BY <1>1, <1>2, <1>7, <1>8, <1>9, <1>10

\* A message and the results behind it.
LEMMA Behind ==
  ASSUME NEW m \in Messages, NEW s \in Seq(Messages)
  PROVE  LET p == <<m>> \o s
         IN  /\ p \in Seq(Messages) /\ Len(p) = Len(s) + 1 /\ p[1] = m
             /\ \A d \in 1..Len(p) : d # 1 => d - 1 \in 1..Len(s) /\ p[d] = s[d - 1]
             /\ \A k \in 1..Len(s) : k + 1 \in 1..Len(p) /\ p[k + 1] = s[k]
<1>1. <<m>> \in Seq(Messages) /\ Len(<<m>>) = 1 /\ <<m>>[1] = m /\ Len(s) \in Nat
  OBVIOUS
<1>2. PICK a : a = <<m>>
  OBVIOUS
<1>3. PICK p : p = a \o s
  OBVIOUS
<1>4. /\ p \in Seq(Messages) /\ Len(p) = 1 + Len(s)
      /\ \A i \in 1..1 : p[i] = a[i]
      /\ \A i \in (1 + 1)..(1 + Len(s)) : p[i] = s[i - 1]
  <2>1. /\ a \in Seq(Messages) /\ Len(a) = 1
    BY <1>1, <1>2
  <2>2. /\ p \in Seq(Messages) /\ Len(p) = Len(a) + Len(s)
        /\ \A i \in 1 .. Len(a) + Len(s) : p[i] = IF i <= Len(a) THEN a[i] ELSE s[i - Len(a)]
    BY <1>3, <2>1, ConcatProperties
  <2> QED BY <1>1, <2>1, <2>2
<1>5. p[1] = m
  BY <1>1, <1>2, <1>4
<1>6. \A d \in 1..Len(p) : d # 1 => d - 1 \in 1..Len(s) /\ p[d] = s[d - 1]
  BY <1>1, <1>4
<1>7. \A k \in 1..Len(s) : k + 1 \in 1..Len(p) /\ p[k + 1] = s[k]
  BY <1>1, <1>4
<1> QED BY <1>1, <1>2, <1>3, <1>4, <1>5, <1>6, <1>7

\* The last of the results that follow message i directly.
EndsAt(h, i, b) ==
  /\ b \in i..Len(h) /\ \A k \in (i + 1)..b : h[k].role = "tool"
  /\ b < Len(h) => h[b + 1].role # "tool"

LEMMA ResultsEnd ==
  ASSUME NEW h, NEW n \in Nat, Len(h) = n, NEW i \in 1..n
  PROVE  \E b : EndsAt(h, i, b)
<1> DEFINE Over == {b \in i..n : b < n => h[b + 1].role # "tool"}
<1>1. n \in Over /\ Over \in SUBSET Nat
  OBVIOUS
<1>2. PICK b \in Over : \A c \in Over : b <= c
  <2> HIDE DEF Over
  <2> QED BY <1>1, Least
<1>3. ASSUME NEW k \in (i + 1)..b PROVE h[k].role = "tool"
  <2>1. k - 1 \in i..n /\ k - 1 < n /\ ~(b <= k - 1) /\ (k - 1) + 1 = k
    BY <1>2
  <2>2. k - 1 \notin Over
    BY <1>2, <2>1
  <2> QED BY <2>1, <2>2
<1>4. EndsAt(h, i, b)
  BY <1>2, <1>3 DEF EndsAt
<1> QED BY <1>4

Backfills(h, F) ==
  \E P : \E pos : /\ Headed(h, P) /\ Trailing(h, P) /\ Supplied(h, P)
                  /\ Laid(F, P, pos, Messages)

LEMMA BackfillIs ==
  ASSUME NEW h \in Seq(Messages)
  PROVE  Backfills(h, BackfillMissingToolResults(h))
<1> DEFINE n == Len(h)
           Fulfilled == {h[i].ref : i \in {j \in DOMAIN h : h[j].role = "tool"}}
           Lost(i) == LostOf(h[i], Fulfilled)
           Callers(last) ==
             {i \in 1..last : /\ h[i].role = "assistant"
                              /\ \A j \in (i + 1)..last : h[j].role = "tool"
                              /\ last < n => h[last + 1].role # "tool"}
           After(last) == IF Callers(last) = {} THEN <<>>
                          ELSE Lost(CHOOSE i \in Callers(last) : TRUE)
           P == [i \in DOMAIN h |-> <<h[i]>> \o After(i)]
<1>1. BackfillMissingToolResults(h) = FlattenSeq(P)
  BY Zenon DEF BackfillMissingToolResults, LostOf
<1>2. n \in Nat /\ DOMAIN h = 1..n /\ \A i \in 1..n : h[i] \in Messages
  OBVIOUS
<1>3. \A i \in 1..n : h[i].role = "tool" => h[i].ref \in Fulfilled
  BY <1>2
<1>4. \A x \in Fulfilled : \E j \in 1..n : h[j].role = "tool" /\ h[j].ref = x
  BY <1>2
<1> HIDE DEF n, Fulfilled
<1>5. ASSUME NEW b \in 1..n
      PROVE  /\ After(b) \in Seq(Messages)
             /\ \A k \in 1..Len(After(b)) :
                  /\ After(b)[k].role = "tool"
                  /\ \E c \in 1..b : /\ After(b)[k].ref \in CallIds(h[c])
                                     /\ \A j \in (c + 1)..b : h[j].role = "tool"
  <2>1. CASE Callers(b) = {}
    <3>1. After(b) = <<>>
      BY <2>1
    <3> HIDE DEF After
    <3> QED BY <3>1
  <2>2. CASE Callers(b) # {}
    <3>1. PICK c \in Callers(b) : After(b) = Lost(c)
      BY <2>2
    <3>2. c \in 1..b /\ c \in 1..n /\ h[c].role = "assistant"
          /\ \A j \in (c + 1)..b : h[j].role = "tool"
      BY <1>2, <3>1
    <3>3. /\ LostOf(h[c], Fulfilled) \in Seq(Messages)
          /\ \A k \in 1..Len(LostOf(h[c], Fulfilled)) :
               /\ LostOf(h[c], Fulfilled)[k].role = "tool"
               /\ LostOf(h[c], Fulfilled)[k].ref \in CallIds(h[c])
      BY <1>2, <3>2, LostAnswers
    <3> HIDE DEF After, Callers
    <3> QED BY <3>1, <3>2, <3>3
  <2> QED BY <2>1, <2>2
<1>6. ASSUME NEW i \in 1..n, NEW id \in CallIds(h[i]), id \notin Fulfilled
      PROVE  \E b \in 1..n : \E k \in 1..Len(After(b)) : After(b)[k].ref = id
  <2>1. h[i].role = "assistant"
    BY DEF CallIds
  <2>2. PICK b : EndsAt(h, i, b)
    BY <1>2, ResultsEnd DEF n
  <2>3. /\ b \in 1..n /\ i \in 1..b /\ \A k \in (i + 1)..b : h[k].role = "tool"
        /\ b < n => h[b + 1].role # "tool"
    BY <1>2, <2>2 DEF EndsAt, n
  <2>4. i \in Callers(b)
    BY <2>1, <2>3
  <2>5. ASSUME NEW c \in Callers(b) PROVE c = i
    <3>1. /\ c \in 1..b /\ h[c].role = "assistant"
          /\ \A k \in (c + 1)..b : h[k].role = "tool"
      OBVIOUS
    <3>2. ~(c < i) /\ ~(i < c)
      BY <2>1, <2>3, <3>1
    <3> QED BY <1>2, <2>3, <3>1, <3>2
  <2>6. After(b) = LostOf(h[i], Fulfilled)
    <3>1. (CHOOSE c \in Callers(b) : TRUE) = i
      BY <2>4, <2>5
    <3> QED BY <2>4, <3>1
  <2>7. \E k \in 1..Len(LostOf(h[i], Fulfilled)) : LostOf(h[i], Fulfilled)[k].ref = id
    BY <1>2, <1>6, <2>1, LostAnswers
  <2> HIDE DEF After
  <2> QED BY <2>3, <2>6, <2>7
<1> HIDE DEF After
<1>7. ASSUME NEW i \in 1..n
      PROVE  /\ P[i] \in Seq(Messages) /\ Len(P[i]) = Len(After(i)) + 1 /\ P[i][1] = h[i]
             /\ Len(After(i)) \in Nat
             /\ \A d \in 1..Len(P[i]) : d # 1 => d - 1 \in 1..Len(After(i)) /\ P[i][d] = After(i)[d - 1]
             /\ \A k \in 1..Len(After(i)) : k + 1 \in 1..Len(P[i]) /\ P[i][k + 1] = After(i)[k]
  <2>1. P[i] = <<h[i]>> \o After(i)
    BY <1>2
  <2> HIDE DEF P
  <2>2. After(i) \in Seq(Messages) /\ h[i] \in Messages
    BY <1>2, <1>5
  <2>3. Len(After(i)) \in Nat
    BY <2>2
  <2> QED BY <2>1, <2>2, <2>3, Behind
<1>8. P \in Seq(Seq(Messages)) /\ Len(P) = n
  <2>1. P \in [1..n -> Seq(Messages)]
    <3>1. \A i \in 1..n : <<h[i]>> \o After(i) \in Seq(Messages)
      <4> SUFFICES ASSUME NEW i \in 1..n PROVE <<h[i]>> \o After(i) \in Seq(Messages)
        OBVIOUS
      <4>1. P[i] = <<h[i]>> \o After(i)
        BY <1>2
      <4> HIDE DEF P
      <4> QED BY <1>7, <4>1
    <3> QED BY <1>2, <3>1
  <2> HIDE DEF P
  <2> QED BY <1>2, <2>1, ListOf
<1> HIDE DEF P
<1>9. Headed(h, P)
  BY <1>7, <1>8 DEF Headed, n
<1>10. Trailing(h, P)
  <2> SUFFICES ASSUME NEW i \in 1..n, NEW d \in 1..Len(P[i]), d # 1
      PROVE  /\ P[i][d].role = "tool"
             /\ \E c \in 1..i : /\ P[i][d].ref \in CallIds(h[c])
                                /\ \A k \in (c + 1)..i : h[k].role = "tool"
    BY DEF Trailing, n
  <2>1. d - 1 \in 1..Len(After(i)) /\ P[i][d] = After(i)[d - 1]
    BY <1>7
  <2> QED BY <1>5, <2>1
<1>11. Supplied(h, P)
  <2> SUFFICES ASSUME NEW i \in 1..n, NEW id \in CallIds(h[i]),
                      ~ \E j \in 1..n : h[j].role = "tool" /\ h[j].ref = id
      PROVE  \E b \in 1..n : \E d \in 1..Len(P[b]) : d # 1 /\ P[b][d].ref = id
    BY DEF Supplied, n
  <2>1. id \notin Fulfilled
    BY <1>4
  <2>2. PICK b \in 1..n : \E k \in 1..Len(After(b)) : After(b)[k].ref = id
    BY <1>6, <2>1
  <2>3. PICK k \in 1..Len(After(b)) : After(b)[k].ref = id
    BY <2>2
  <2>4. k + 1 \in 1..Len(P[b]) /\ P[b][k + 1] = After(b)[k] /\ k + 1 # 1
    BY <1>7
  <2> QED BY <2>3, <2>4
<1>12. \E pos : Laid(FlattenSeq(P), P, pos, Messages)
  BY <1>8, FlattenLaid
<1> QED BY <1>1, <1>9, <1>10, <1>11, <1>12 DEF Backfills

-----------------------------------------------------------------------------
\* What stays of the results answers a call that stays.
LEMMA OrphansDropped ==
  ASSUME NEW h \in Seq(Messages)
  PROVE  Declared(DropOrphanToolResults(h))
<1> DEFINE n == Len(h)
           DeclaredBefore(i) == UNION {CallIds(h[j]) : j \in 1..(i - 1)}
           I == {i \in DOMAIN h : h[i].role = "tool" => h[i].ref \in DeclaredBefore(i)}
           r == At(h, I)
<1>1. DropOrphanToolResults(h) = r
  BY Zenon DEF DropOrphanToolResults
<1>2. n \in Nat /\ DOMAIN h = 1..n
  OBVIOUS
<1>3. r \in Seq(Messages) /\ \E f : Picks(r, h, I, f)
  BY AtPicks
<1> HIDE DEF r
<1>4. PICK f : Picks(r, h, I, f)
  BY <1>3
<1>5. Len(r) \in Nat
  BY <1>3
<1>6. ASSUME NEW j \in 1..Len(r), r[j].role = "tool"
      PROVE  \E i \in 1..Len(r) : r[j].ref \in CallIds(r[i])
  <2>1. r[j] = h[f[j]] /\ f[j] \in I /\ f[j] \in 1..n
    BY <1>4 DEF Picks
  <2>2. r[j].ref \in DeclaredBefore(f[j])
    BY <1>6, <2>1
  <2>3. PICK b \in 1..(f[j] - 1) : r[j].ref \in CallIds(h[b])
    BY <2>2
  <2>4. b \in 1..n
    BY <1>2, <2>1
  <2>5. h[b].role # "tool"
    BY <2>3, ToolsCallNothing
  <2>6. b \in I
    BY <1>2, <2>4, <2>5
  <2>7. PICK i \in 1..Len(r) : f[i] = b
    BY <1>4, <2>4, <2>6 DEF Picks
  <2>8. r[i] = h[b]
    BY <1>4, <2>7 DEF Picks
  <2> QED BY <2>3, <2>8
<1> QED BY <1>1, <1>6 DEF Declared

Sound(h) == Placed(h) /\ Named(h)

LEMMA ThinsSound ==
  ASSUME NEW h, NEW a, Sound(h), Thins(a, h)
  PROVE  Sound(a) /\ a \in Seq(Messages)
BY ThinsPlaced, ThinsNamed DEF Sound, Thins

LEMMA BackfillLegal ==
  ASSUME NEW h, Sound(h), Declared(h)
  PROVE  Sound(BackfillMissingToolResults(h)) /\ Legal(BackfillMissingToolResults(h))
<1>1. h \in Seq(Messages)
  BY DEF Sound, Placed
<1> DEFINE F == BackfillMissingToolResults(h)
<1>2. Backfills(h, F)
  BY <1>1, BackfillIs
<1> HIDE DEF F
<1>3. PICK P : \E pos : /\ Headed(h, P) /\ Trailing(h, P) /\ Supplied(h, P)
                        /\ Laid(F, P, pos, Messages)
  BY <1>2 DEF Backfills
<1>4. PICK pos : /\ Headed(h, P) /\ Trailing(h, P) /\ Supplied(h, P)
                 /\ Laid(F, P, pos, Messages)
  BY <1>3
<1>5. Placed(F) /\ Named(F) /\ Legal(F)
  BY <1>4, FilledLegal DEF Sound
<1> QED BY <1>5 DEF F, Sound

LEMMA RepairLegal ==
  ASSUME NEW h, Sound(h)
  PROVE  Sound(Repair(h)) /\ Legal(Repair(h))
<1> DEFINE a == SanitizeMessages(h)
           b == DropEmptyMessages(a)
           c == MergeConsecutiveText(b)
           d == DropOrphanToolResults(c)
<1>1. h \in Seq(Messages)
  BY DEF Sound, Placed
<1>2. Sound(a) /\ a \in Seq(Messages)
  BY <1>1, Sanitizes, ThinsSound
<1> HIDE DEF a
<1>3. Sound(b) /\ b \in Seq(Messages)
  BY <1>2, DropsEmpty, ThinsSound
<1> HIDE DEF b
<1>4. Sound(c) /\ c \in Seq(Messages)
  BY <1>3, Merges, ThinsSound
<1> HIDE DEF c
<1>5. Sound(d) /\ d \in Seq(Messages) /\ Declared(d)
  BY <1>4, DropsOrphans, OrphansDropped, ThinsSound
<1> HIDE DEF d
<1>6. Repair(h) = BackfillMissingToolResults(d)
  BY DEF Repair, a, b, c, d
<1> QED BY <1>5, <1>6, BackfillLegal

-----------------------------------------------------------------------------
\* Trimming.
LEMMA MinIn ==
  ASSUME NEW S \in SUBSET Nat, S # {}
  PROVE  Min(S) \in S
<1>1. \E n \in S : \A m \in S : n <= m
  BY Least
<1> QED BY <1>1 DEF Min

LEMMA MaxIn ==
  ASSUME NEW n \in Nat, NEW S \in SUBSET (1..n), S # {}
  PROVE  Max(S) \in S
<1> DEFINE R == {n - i : i \in S}
<1>1. R \in SUBSET Nat /\ R # {}
  <2>1. \A i \in S : n - i \in Nat
    <3>1. \A i \in 1..n : n - i \in Nat
      OBVIOUS
    <3> QED BY <3>1
  <2> QED BY <2>1
<1>2. PICK x \in R : \A y \in R : x <= y
  <2> HIDE DEF R
  <2> QED BY <1>1, Least
<1>3. PICK m \in S : x = n - m
  BY <1>2
<1>4. ASSUME NEW i \in S PROVE m >= i
  <2>1. n - i \in R
    OBVIOUS
  <2>2. n - m <= n - i
    BY <1>2, <1>3, <2>1
  <2>3. m \in Nat /\ i \in Nat
    OBVIOUS
  <2> QED BY <2>2, <2>3
<1> QED BY <1>3, <1>4 DEF Max

LEMMA FromThins ==
  ASSUME NEW h \in Seq(Messages), NEW s \in 1..(Len(h) + 1)
  PROVE  Thins(From(h, s), h)
<1> DEFINE n == Len(h)
           r == From(h, s)
<1>1. n \in Nat /\ s \in Nat /\ 1 <= s /\ s <= n + 1
  OBVIOUS
<1>2. r \in Seq(Messages) /\ Len(r) = n - s + 1 /\ \A k \in 1..(n - s + 1) : r[k] = h[s + k - 1]
  <2>1. \A k \in s..n : k \in 1..n /\ h[k] \in Messages
    BY <1>1
  <2>2. r \in Seq(Messages) /\ Len(r) = n - s + 1
    BY <1>1, <2>1, SubSeqProperties DEF From
  <2>3. \A k \in 1..(n - s + 1) : r[k] = h[s + k - 1]
    BY <1>1, <2>1, SubSeqProperties DEF From
  <2> QED BY <2>2, <2>3
<1> HIDE DEF r
<1> DEFINE f == [k \in 1..(n - s + 1) |-> s + k - 1]
<1>3. f \in [1..(n - s + 1) -> 1..n]
  BY <1>1
<1>4. \A k, l \in 1..(n - s + 1) : k < l => f[k] < f[l]
  BY <1>1
<1>5. \A k \in 1..(n - s + 1) : Like(r[k], h[f[k]])
  BY <1>2 DEF Like
<1> HIDE DEF f
<1>6. Thinned(r, h, f)
  BY <1>2, <1>3, <1>4, <1>5 DEF Thinned
<1> QED BY <1>2, <1>6 DEF Thins, r

LEMMA FromSound ==
  ASSUME NEW h, Sound(h), NEW s \in 1..(Len(h) + 1)
  PROVE  Sound(From(h, s))
<1>1. h \in Seq(Messages)
  BY DEF Sound, Placed
<1> QED BY <1>1, FromThins, ThinsSound

LEMMA NothingSound == Sound(<<>>)
<1>1. <<>> \in Seq(Messages) /\ Len(<<>>) = 0
  OBVIOUS
<1> QED BY <1>1 DEF Sound, Placed, Named, InPlace, Apart

LEMMA UserTailSound ==
  ASSUME NEW h, Sound(h)
  PROVE  Sound(UserTail(h)) /\ Sound(LastUserTail(h))
<1> DEFINE users == {i \in DOMAIN h : h[i].role = "user"}
<1>1. DOMAIN h = 1..Len(h) /\ Len(h) \in Nat
  BY DEF Sound, Placed
<1>2. users \in SUBSET (1..Len(h)) /\ users \in SUBSET Nat
  BY <1>1
<1>3. /\ UserTail(h) = IF users = {} THEN <<>> ELSE From(h, Min(users))
      /\ LastUserTail(h) = IF users = {} THEN <<>> ELSE From(h, Max(users))
  BY Zenon DEF UserTail, LastUserTail
<1> HIDE DEF users
<1>4. CASE users = {}
  BY <1>3, <1>4, NothingSound
<1>5. CASE users # {}
  <2>1. Min(users) \in users /\ Max(users) \in users
    BY <1>1, <1>2, <1>5, MinIn, MaxIn
  <2>2. Min(users) \in 1..(Len(h) + 1) /\ Max(users) \in 1..(Len(h) + 1)
    <3>1. \A i \in users : i \in 1..(Len(h) + 1)
      BY <1>1, <1>2
    <3> QED BY <2>1, <3>1
  <2> QED BY <1>3, <1>5, <2>2, FromSound
<1> QED BY <1>4, <1>5

LEMMA KeptSound ==
  ASSUME NEW h, Sound(h), NEW budget
  PROVE  Sound(KeptWithin(h, budget))
<1> DEFINE S == {s \in DOMAIN h : s = Len(h) \/ Tokens(From(h, s)) <= budget}
<1>1. h \in Seq(Messages) /\ DOMAIN h = 1..Len(h) /\ Len(h) \in Nat
  BY DEF Sound, Placed
<1>2. KeptWithin(h, budget) = IF h = <<>> THEN <<>> ELSE From(h, Min(S))
  BY Zenon DEF KeptWithin
<1>3. CASE h = <<>>
  BY <1>2, <1>3, NothingSound
<1>4. CASE h # <<>>
  <2>1. Len(h) # 0
    BY <1>1, <1>4
  <2>2. S \in SUBSET Nat /\ S # {}
    BY <1>1, <2>1
  <2>3. Min(S) \in S
    <3> HIDE DEF S
    <3> QED BY <2>2, MinIn
  <2>4. Min(S) \in 1..(Len(h) + 1)
    <3>1. S \in SUBSET (1..(Len(h) + 1))
      BY <1>1
    <3> QED BY <2>3, <3>1
  <2> HIDE DEF S
  <2> QED BY <1>2, <1>4, <2>4, FromSound
<1> QED BY <1>3, <1>4

Scanned(n) == [start : 0..n, declared : SUBSET Ids]

LEMMA LegalStart ==
  ASSUME NEW h \in Seq(Messages)
  PROVE  FindLegalMessageStart(h) \in 0..Len(h)
<1> DEFINE n == Len(h)
           X == Scanned(n)
           x == [start |-> 0, declared |-> {}]
           Turn(i, a) ==
             CASE h[i].role = "assistant" ->
                    [a EXCEPT !.declared = @ \union CallIds(h[i])]
               [] h[i].role = "tool" /\ h[i].ref \notin a.declared ->
                    [start |-> i, declared |-> {}]
               [] OTHER -> a
           st == [i \in 1..n |-> [a \in X |-> Turn(i, a)]]
           Step(f, i) == IF i = 0 THEN x ELSE Turn(i, f[i - 1])
           scan == CHOOSE f : f = [i \in 0..n |-> Step(f, i)]
<1>1. n \in Nat /\ \A i \in 1..n : CallIds(h[i]) \in SUBSET Ids
  <2>1. n \in Nat
    OBVIOUS
  <2>2. ASSUME NEW i \in 1..n PROVE CallIds(h[i]) \in SUBSET Ids
    <3> HIDE DEF n
    <3>0. h[i] \in Messages
      BY DEF n
    <3>1. h[i].calls \in Seq(Ids)
      BY <3>0 DEF Messages, Ids
    <3>2. Range(h[i].calls) \in SUBSET Ids
      BY <3>1 DEF Range
    <3> QED BY <3>2 DEF CallIds
  <2> QED BY <2>1, <2>2
<1>2. FindLegalMessageStart(h) = scan[n].start
  BY Zenon DEF FindLegalMessageStart
<1> HIDE DEF n
<1>3. x \in X
  BY <1>1 DEF Scanned
<1>4. \A i \in 1..n : \A a \in X : Turn(i, a) \in X
  <2> SUFFICES ASSUME NEW i \in 1..n, NEW a \in X PROVE Turn(i, a) \in X
    OBVIOUS
  <2>1. /\ [a EXCEPT !.declared = @ \union CallIds(h[i])] \in X
        /\ [start |-> i, declared |-> {}] \in X
    BY <1>1 DEF Scanned
  <2> HIDE DEF X
  <2> QED BY <2>1
<1> HIDE DEF X, x, Turn
<1>5. st \in [1..n -> [X -> X]]
  BY <1>4
<1>6. PICK g : Solution(X, n, x, st, g)
  <2> HIDE DEF st
  <2> QED BY <1>1, <1>3, <1>5, Recurrence
<1>7. g \in [0..n -> X] /\ g[0] = x /\ \A i \in 1..n : g[i] = Turn(i, g[i - 1])
  <2>1. g \in [0..n -> X] /\ g[0] = x /\ \A i \in 1..n : g[i] = st[i][g[i - 1]]
    BY <1>6 DEF Solution
  <2>2. \A i \in 1..n : g[i - 1] \in X
    BY <1>1, <2>1
  <2> QED BY <2>1, <2>2
<1>8. g = [i \in 0..n |-> Step(g, i)]
  BY <1>1, <1>7
<1>9. scan = [i \in 0..n |-> Step(scan, i)]
  <2> HIDE DEF Step
  <2> QED BY <1>8
<1> HIDE DEF scan
<1>10. \A i \in 0..n : scan[i] = Step(scan, i)
  <2> HIDE DEF Step
  <2> QED BY <1>9, Zenon
<1> DEFINE Same == {i \in 0..n : scan[i] = g[i]}
<1>11. 0 \in Same
  BY <1>1, <1>7, <1>10
<1>12. \A i \in 1..n : i - 1 \in Same => i \in Same
  BY <1>1, <1>7, <1>10
<1>13. \A i \in 0..n : i \in Same
  <2> HIDE DEF Same
  <2> QED BY <1>1, <1>11, <1>12, UpTo
<1>14. scan[n] \in X
  BY <1>1, <1>7, <1>13
<1> QED BY <1>2, <1>14 DEF X, n, Scanned

Sounds == {h \in Seq(Messages) : Sound(h)}

LEMMA ShortenedSound ==
  ASSUME NEW h \in Sounds
  PROVE  Shortened(h) \in Sounds
<1> DEFINE start == FindLegalMessageStart(h)
           incomplete == IncompleteToolCalls(h)
           rest == From(h, Min(incomplete) + 1)
           next == UserTail(rest)
<1>1. h \in Seq(Messages) /\ Sound(h) /\ DOMAIN h = 1..Len(h) /\ Len(h) \in Nat
  BY DEF Sounds
<1>2. Shortened(h) = CASE start # 0                        -> From(h, start + 1)
                       [] incomplete # {} /\ next # <<>>   -> next
                       [] OTHER                            -> h
  BY Zenon DEF Shortened
<1>3. start \in 0..Len(h)
  BY <1>1, LegalStart
<1>4. incomplete \in SUBSET (1..Len(h))
  BY <1>1 DEF IncompleteToolCalls
<1> HIDE DEF start, incomplete
<1>5. Sound(From(h, start + 1))
  <2>1. start + 1 \in 1..(Len(h) + 1)
    BY <1>1, <1>3
  <2> QED BY <1>1, <2>1, FromSound
<1>6. ASSUME incomplete # {} PROVE Sound(next)
  <2>1. incomplete \in SUBSET Nat
    BY <1>1, <1>4
  <2>2. Min(incomplete) \in incomplete
    BY <1>6, <2>1, MinIn
  <2>3. Min(incomplete) + 1 \in 1..(Len(h) + 1)
    <3>1. \A i \in incomplete : i + 1 \in 1..(Len(h) + 1)
      BY <1>1, <1>4
    <3> QED BY <2>2, <3>1
  <2>4. Sound(rest)
    BY <1>1, <2>3, FromSound
  <2> HIDE DEF rest
  <2> QED BY <2>4, UserTailSound
<1> HIDE DEF next
<1>7. Sound(Shortened(h))
  BY <1>1, <1>2, <1>5, <1>6
<1> QED BY <1>7 DEF Sounds, Sound, Placed

LEMMA TailSound ==
  ASSUME NEW kept, Sound(kept), NEW fallback, Sound(fallback)
  PROVE  Sound(LegalHistoryTail(kept, fallback))
<1> DEFINE tail == IF UserTail(kept) # <<>> THEN UserTail(kept)
                   ELSE IF LastUserTail(fallback) # <<>> THEN LastUserTail(fallback)
                   ELSE kept
           n == Len(tail)
           Step(f, k) == IF k = 0 THEN tail ELSE Shortened(f[k - 1])
           shorter == CHOOSE f : f = [k \in 0..n |-> Step(f, k)]
           st == [i \in 1..n |-> [t \in Sounds |-> Shortened(t)]]
<1>1. LegalHistoryTail(kept, fallback) = shorter[n]
  BY Zenon DEF LegalHistoryTail
<1>2. Sound(tail)
  BY UserTailSound
<1> HIDE DEF tail
<1>3. tail \in Sounds /\ n \in Nat
  BY <1>2 DEF Sounds, Sound, Placed
<1> HIDE DEF n
<1>4. st \in [1..n -> [Sounds -> Sounds]]
  BY ShortenedSound
<1>5. PICK g : Solution(Sounds, n, tail, st, g)
  <2> HIDE DEF st
  <2> QED BY <1>3, <1>4, Recurrence
<1>6. g \in [0..n -> Sounds] /\ g[0] = tail /\ \A i \in 1..n : g[i] = Shortened(g[i - 1])
  <2>1. g \in [0..n -> Sounds] /\ g[0] = tail /\ \A i \in 1..n : g[i] = st[i][g[i - 1]]
    BY <1>5 DEF Solution
  <2>2. \A i \in 1..n : g[i - 1] \in Sounds
    BY <1>3, <2>1
  <2> QED BY <2>1, <2>2
<1>7. g = [i \in 0..n |-> Step(g, i)]
  BY <1>3, <1>6
<1>8. shorter = [i \in 0..n |-> Step(shorter, i)]
  <2> HIDE DEF Step
  <2> QED BY <1>7
<1> HIDE DEF shorter
<1>9. \A i \in 0..n : shorter[i] = Step(shorter, i)
  <2> HIDE DEF Step
  <2> QED BY <1>8, Zenon
<1> DEFINE Same == {i \in 0..n : shorter[i] = g[i]}
<1>10. 0 \in Same
  BY <1>3, <1>6, <1>9
<1>11. \A i \in 1..n : i - 1 \in Same => i \in Same
  BY <1>3, <1>6, <1>9
<1>12. \A i \in 0..n : i \in Same
  <2> HIDE DEF Same
  <2> QED BY <1>3, <1>10, <1>11, UpTo
<1>13. shorter[n] \in Sounds
  BY <1>3, <1>6, <1>12
<1> QED BY <1>1, <1>13 DEF Sounds

\* System messages may stand in front.
LEMMA SystemInFront ==
  ASSUME NEW s \in Seq(Messages), \A i \in 1..Len(s) : s[i].role = "system",
         NEW t, Sound(t)
  PROVE  Sound(s \o t)
<1> DEFINE u == s \o t
           m == Len(s)
           n == Len(t)
<1>1. t \in Seq(Messages) /\ InPlace(t) /\ Apart(t) /\ Named(t)
  BY DEF Sound, Placed
<1>2. /\ u \in Seq(Messages) /\ Len(u) = m + n /\ m \in Nat /\ n \in Nat
      /\ \A i \in 1 .. m + n : u[i] = IF i <= m THEN s[i] ELSE t[i - m]
  BY <1>1, ConcatProperties
<1> HIDE DEF u, m, n
<1>3. \A i \in 1..(m + n) : \/ u[i].role = "system" /\ CallIds(u[i]) = {}
                            \/ i - m \in 1..n /\ m < i /\ u[i] = t[i - m]
  <2> SUFFICES ASSUME NEW i \in 1..(m + n)
      PROVE  \/ u[i].role = "system" /\ CallIds(u[i]) = {}
             \/ i - m \in 1..n /\ m < i /\ u[i] = t[i - m]
    OBVIOUS
  <2>1. CASE i <= m
    <3>1. i \in 1..m
      BY <1>2, <2>1
    <3>2. u[i].role = "system"
      BY <1>2, <2>1, <3>1 DEF m
    <3> QED BY <3>2 DEF CallIds
  <2>2. CASE ~(i <= m)
    BY <1>2, <2>2
  <2> QED BY <2>1, <2>2
<1>4. InPlace(u)
  <2> SUFFICES ASSUME NEW i \in 1..(m + n), NEW j \in 1..(m + n),
                      u[j].role = "tool", u[j].ref \in CallIds(u[i])
               PROVE  i < j /\ \A k \in (i + 1)..j : u[k].role = "tool"
    BY <1>2 DEF InPlace
  <2>1. /\ i - m \in 1..n /\ u[i] = t[i - m] /\ m < i
        /\ j - m \in 1..n /\ u[j] = t[j - m] /\ m < j
    BY <1>3
  <2>2. i - m < j - m /\ \A k \in ((i - m) + 1)..(j - m) : t[k].role = "tool"
    BY <1>1, <2>1 DEF InPlace, n
  <2>3. i < j
    BY <1>2, <2>2
  <2>4. ASSUME NEW k \in (i + 1)..j PROVE u[k].role = "tool"
    <3>1. k \in 1..(m + n) /\ ~(k <= m) /\ k - m \in ((i - m) + 1)..(j - m)
      BY <1>2, <2>1
    <3>2. u[k] = t[k - m]
      BY <1>2, <3>1
    <3> QED BY <2>2, <3>1, <3>2
  <2> QED BY <2>3, <2>4
<1>5. Apart(u)
  <2> SUFFICES ASSUME NEW i \in 1..(m + n), NEW j \in 1..(m + n), NEW id,
                      id \in CallIds(u[i]), id \in CallIds(u[j])
               PROVE  i = j
    BY <1>2 DEF Apart
  <2>1. i - m \in 1..n /\ u[i] = t[i - m] /\ j - m \in 1..n /\ u[j] = t[j - m]
    BY <1>3
  <2>2. i - m = j - m
    BY <1>1, <2>1 DEF Apart, n
  <2> QED BY <1>2, <2>2
<1>6. Named(u)
  <2> SUFFICES ASSUME NEW i \in 1..(m + n), u[i].role = "assistant"
               PROVE  NoCall \notin Range(u[i].calls)
    BY <1>2 DEF Named
  <2>1. i - m \in 1..n /\ u[i] = t[i - m]
    BY <1>3
  <2> QED BY <1>1, <2>1 DEF Named, n
<1> QED BY <1>2, <1>4, <1>5, <1>6 DEF Sound, Placed, u

LEMMA FittedSound ==
  ASSUME NEW h, Sound(h), NEW w, FitContextWindow(h, w) # None
  PROVE  Sound(FitContextWindow(h, w))
<1> DEFINE budget   == w - Completion
           system   == At(h, {i \in DOMAIN h : h[i].role = "system"})
           others   == At(h, {i \in DOMAIN h : h[i].role # "system"})
           rest     == budget - PromptTokens(system)
           tail     == LegalHistoryTail(KeptWithin(others, rest), others)
           fitted   == system \o tail
<1>1. FitContextWindow(h, w) =
        IF h = <<>> \/ w <= 0 THEN h
        ELSE IF budget <= 0 THEN None
        ELSE IF PromptTokens(h) <= budget THEN h
        ELSE IF rest <= 0 \/ PromptTokens(fitted) > budget THEN None ELSE fitted
  BY Zenon DEF FitContextWindow
<1>2. FitContextWindow(h, w) = h \/ FitContextWindow(h, w) = fitted
  <2> HIDE DEF budget, rest, fitted
  <2> QED BY <1>1
<1>3. h \in Seq(Messages) /\ DOMAIN h = 1..Len(h)
  BY DEF Sound, Placed
<1>4. system \in Seq(Messages) /\ \A i \in 1..Len(system) : system[i].role = "system"
  <2> DEFINE I == {i \in DOMAIN h : h[i].role = "system"}
  <2>1. system \in Seq(Messages) /\ \E f : Picks(system, h, I, f)
    BY <1>3, AtPicks
  <2> HIDE DEF system
  <2>2. PICK f : Picks(system, h, I, f)
    BY <2>1
  <2>3. \A i \in 1..Len(system) : system[i] = h[f[i]] /\ f[i] \in I
    BY <2>2 DEF Picks
  <2> QED BY <2>1, <2>3
<1>5. Sound(others)
  BY <1>3, ThinsAt, ThinsSound
<1> HIDE DEF system, others
<1>6. Sound(tail)
  BY <1>5, KeptSound, TailSound
<1> HIDE DEF tail
<1>7. Sound(fitted)
  BY <1>4, <1>6, SystemInFront
<1> QED BY <1>2, <1>7

LEMMA PreparedLegal ==
  ASSUME NEW h \in Seq(Messages), InPlace(h), Apart(h), MaxResult \in Nat, NEW w,
         PrepareForModel(h, w) # None
  PROVE  Sound(PrepareForModel(h, w)) /\ Legal(PrepareForModel(h, w))
<1> DEFINE a == StripMalformedToolCalls(h)
           b == Repair(a)
           c == TruncateToolResults(b)
           d == FitContextWindow(c, w)
<1>1. Sound(a)
  <2>1. Thins(a, h) /\ Named(a)
    BY Strips
  <2>2. Placed(h)
    BY DEF Placed
  <2> HIDE DEF a
  <2> QED BY <2>1, <2>2, ThinsPlaced DEF Sound
<1> HIDE DEF a
<1>2. Sound(b)
  BY <1>1, RepairLegal
<1> HIDE DEF b
<1>3. Sound(c)
  <2>1. b \in Seq(Messages)
    BY <1>2 DEF Sound, Placed
  <2> QED BY <1>2, <2>1, Truncates, ThinsSound
<1>4. PrepareForModel(h, w) = IF d = None THEN None ELSE Repair(d)
  BY Zenon DEF PrepareForModel, PrepareHistory, a, b
<1> HIDE DEF c
<1>5. d # None
  BY <1>4
<1>6. Sound(d)
  BY <1>3, <1>5, FittedSound
<1> HIDE DEF d
<1> QED BY <1>4, <1>5, <1>6, RepairLegal

-----------------------------------------------------------------------------
\* Calls with distinct ids are the calls of one message each.
LEMMA DistinctApart ==
  ASSUME NEW h \in Seq(Messages), CallsDistinct(h)
  PROVE  Apart(h)
<1> DEFINE n == Len(h)
           P == [i \in DOMAIN h |-> h[i].calls]
           F == FlattenSeq(P)
<1>1. n \in Nat /\ DOMAIN h = 1..n /\ \A i \in 1..n : h[i].calls \in Seq(Ids)
  <2>1. n \in Nat /\ DOMAIN h = 1..n /\ \A i \in 1..n : h[i] \in Messages
    OBVIOUS
  <2> QED BY <2>1 DEF Messages, Ids
<1>2. \A p, q \in DOMAIN F : F[p] = F[q] => p = q
  BY DEF CallsDistinct, IsInjective
<1> HIDE DEF n
<1>3. P \in Seq(Seq(Ids)) /\ Len(P) = n /\ \A i \in 1..n : P[i] = h[i].calls
  <2>1. P \in [1..n -> Seq(Ids)]
    BY <1>1
  <2> QED BY <1>1, <2>1, ListOf
<1> HIDE DEF P
<1>4. PICK pos : Laid(F, P, pos, Ids)
  BY <1>3, FlattenLaid
<1>5. F \in Seq(Ids) /\ pos \in [0..n -> Nat] /\ Rises(pos, n)
  BY <1>3, <1>4, LaidOrder DEF Laid
<1> HIDE DEF F
<1>6. DOMAIN F = 1..Len(F)
  BY <1>5
<1>7. ASSUME NEW i \in 1..n, NEW j \in 1..n, i < j,
             NEW id, id \in CallIds(h[i]), id \in CallIds(h[j])
      PROVE  FALSE
  <2>0. ASSUME NEW k \in 1..n, id \in CallIds(h[k]) PROVE \E d \in 1..Len(P[k]) : P[k][d] = id
    <3>1. id \in Range(h[k].calls)
      BY <2>0 DEF CallIds
    <3>2. PICK d \in DOMAIN h[k].calls : h[k].calls[d] = id
      BY <3>1 DEF Range
    <3>3. DOMAIN h[k].calls = 1..Len(h[k].calls)
      BY <1>1
    <3> QED BY <1>3, <3>2, <3>3
  <2>1. PICK d \in 1..Len(P[i]) : P[i][d] = id
    BY <1>7, <2>0
  <2>2. PICK e \in 1..Len(P[j]) : P[j][e] = id
    BY <1>7, <2>0
  <2>3. /\ pos[i - 1] + d \in 1..Len(F) /\ F[pos[i - 1] + d] = id
        /\ pos[i - 1] + d <= pos[i]
    BY <1>3, <1>4, <2>1, LaidPlace
  <2>4. /\ pos[j - 1] + e \in 1..Len(F) /\ F[pos[j - 1] + e] = id
        /\ pos[j - 1] < pos[j - 1] + e
    BY <1>3, <1>4, <2>2, LaidPlace
  <2>5. pos[i - 1] + d = pos[j - 1] + e
    BY <1>2, <1>6, <2>3, <2>4
  <2>6. pos[i] <= pos[j - 1] /\ pos[i] \in Nat /\ pos[j - 1] \in Nat
    <3>1. i \in 0..n /\ j - 1 \in 0..n /\ i <= j - 1
      BY <1>1, <1>7
    <3> QED BY <1>5, <3>1 DEF Rises
  <2>7. PICK p, q : p = pos[i - 1] + d /\ q = pos[j - 1] + e
    OBVIOUS
  <2>8. p <= pos[i] /\ pos[j - 1] < q /\ p = q /\ p \in Nat
    <3>1. \A x \in 1..Len(F) : x \in Nat
      OBVIOUS
    <3> QED BY <2>3, <2>4, <2>5, <2>7, <3>1
  <2> QED BY <2>6, <2>8
<1> QED BY <1>1, <1>7 DEF Apart, n

LEMMA HistoriesFit ==
  ASSUME NEW h \in Histories, CallsDistinct(h)
  PROVE  h \in Seq(Messages) /\ InPlace(h) /\ Apart(h) /\ MaxResult \in Nat
<1>1. h \in Seq(Messages) /\ ResultsInPlace(h) /\ MaxResult \in Nat
  BY HistoriesAssumption, ResultLimitAssumption
<1>2. InPlace(h)
  BY <1>1 DEF InPlace, ResultsInPlace
<1> QED BY <1>1, <1>2, DistinctApart

\* The payload says of calls and results what the request says.
LEMMA PayloadLegal ==
  ASSUME NEW ms \in Seq(Messages), Legal(ms)
  PROVE  LET p == Payload(ms)
         IN  /\ CallsAnswered(p) /\ ResultsDeclared(p)
             /\ \A i \in DOMAIN p : HasContent(p[i]) \/ p[i].calls # <<>>
<1> DEFINE p == Payload(ms)
           Mute(m) == m.calls = <<>> /\ ~HasContent(m)
           Filled(m) == [m EXCEPT !.text = <<"(empty)">>]
<1>1. p = [i \in DOMAIN ms |-> IF Mute(ms[i]) THEN Filled(ms[i]) ELSE ms[i]]
  BY DEF Payload
<1>2. \A m \in Messages : /\ Filled(m).role = m.role /\ Filled(m).calls = m.calls
                          /\ Filled(m).ref = m.ref /\ HasContent(Filled(m))
  <2>1. <<"(empty)">> # <<>>
    OBVIOUS
  <2> QED BY <2>1 DEF Messages, HasContent
<1>3. DOMAIN ms = 1..Len(ms) /\ Len(ms) \in Nat /\ \A i \in 1..Len(ms) : ms[i] \in Messages
  OBVIOUS
<1> HIDE DEF p, Filled
<1>4. \A i \in 1..Len(ms) : /\ p[i].role = ms[i].role /\ p[i].calls = ms[i].calls
                            /\ p[i].ref = ms[i].ref
                            /\ HasContent(p[i]) \/ p[i].calls # <<>>
  BY <1>1, <1>2, <1>3
<1>5. DOMAIN p = 1..Len(ms)
  BY <1>1, <1>3
<1>6. Len(p) = Len(ms)
  <2>1. p \in [1..Len(ms) -> {p[i] : i \in 1..Len(ms)}]
    BY <1>1, <1>3
  <2> QED BY <1>3, <2>1, ListOf
<1>7. \A i \in 1..Len(ms) : CallIds(p[i]) = CallIds(ms[i])
  BY <1>4 DEF CallIds
<1>8. ASSUME NEW i \in 1..Len(ms), p[i].role = "assistant", NEW id \in Range(p[i].calls)
      PROVE  \E j \in (i + 1)..Len(ms) :
               /\ p[j].role = "tool" /\ p[j].ref = id
               /\ \A k \in (i + 1)..j : p[k].role = "tool"
  <2>1. ms[i].role = "assistant" /\ id \in Range(ms[i].calls)
    BY <1>4, <1>8
  <2>2. PICK j \in (i + 1)..Len(ms) : /\ ms[j].role = "tool" /\ ms[j].ref = id
                                      /\ \A k \in (i + 1)..j : ms[k].role = "tool"
    BY <1>3, <2>1 DEF Legal, CallsAnswered
  <2>3. \A k \in (i + 1)..j : k \in 1..Len(ms)
    BY <1>3
  <2>4. j \in 1..Len(ms)
    BY <1>3
  <2> QED BY <1>4, <2>2, <2>3, <2>4
<1>9. CallsAnswered(p)
  <2>1. ASSUME NEW i \in DOMAIN p, p[i].role = "assistant", NEW id \in Range(p[i].calls)
        PROVE  \E j \in (i + 1)..Len(p) :
                 /\ p[j].role = "tool" /\ p[j].ref = id
                 /\ \A k \in (i + 1)..j : p[k].role = "tool"
    <3>1. i \in 1..Len(ms)
      BY <1>5
    <3>2. PICK j \in (i + 1)..Len(ms) : /\ p[j].role = "tool" /\ p[j].ref = id
                                        /\ \A k \in (i + 1)..j : p[k].role = "tool"
      BY <1>8, <2>1, <3>1
    <3>3. j \in (i + 1)..Len(p)
      BY <1>6
    <3> QED BY <3>2, <3>3
  <2> QED BY <2>1, Zenon DEF CallsAnswered
<1>10. ResultsDeclared(p)
  <2> SUFFICES ASSUME NEW j \in 1..Len(ms), p[j].role = "tool"
               PROVE  \E i \in 1..(j - 1) :
                        /\ p[j].ref \in CallIds(p[i])
                        /\ \A k \in (i + 1)..j : p[k].role = "tool"
    BY <1>5 DEF ResultsDeclared
  <2>1. ms[j].role = "tool"
    BY <1>4
  <2>2. PICK i \in 1..(j - 1) : /\ ms[j].ref \in CallIds(ms[i])
                                /\ \A k \in (i + 1)..j : ms[k].role = "tool"
    BY <1>3, <2>1 DEF Legal, ResultsDeclared
  <2>3. i \in 1..Len(ms) /\ \A k \in (i + 1)..j : k \in 1..Len(ms)
    BY <1>3
  <2> QED BY <1>4, <1>7, <2>2, <2>3
<1> QED BY <1>4, <1>5, <1>9, <1>10 DEF p

\* What the run keeps until the end of the call.
RequestPrepared ==
  /\ history \in Histories
  /\ stage \notin {"prepare", "refused"} =>
       /\ PrepareForModel(history, window) # None
       /\ request = PrepareForModel(history, window)

LEMMA PreparedStays ==
  CallSpec => []RequestPrepared
<1>1. CallInit => RequestPrepared
  BY DEF CallInit, RequestPrepared
<1>2. RequestPrepared /\ [CallNext]_callVars => RequestPrepared'
  <2> SUFFICES ASSUME RequestPrepared, [CallNext]_callVars PROVE RequestPrepared'
    OBVIOUS
  <2>1. CASE Prepare
    BY <2>1 DEF RequestPrepared, Prepare
  <2>2. CASE Generate
    BY <2>2 DEF RequestPrepared, Generate, Attempted, call
  <2>3. CASE CreateStream
    BY <2>3 DEF RequestPrepared, CreateStream, call
  <2>4. CASE CreateFails
    BY <2>4 DEF RequestPrepared, CreateFails, Attempted, call
  <2>5. CASE Receive
    BY <2>5 DEF RequestPrepared, Receive, call
  <2>6. CASE EmitDelta
    BY <2>6 DEF RequestPrepared, EmitDelta, call
  <2>7. CASE StreamEnds
    BY <2>7 DEF RequestPrepared, StreamEnds, Attempted, call
  <2>8. CASE Retry
    BY <2>8 DEF RequestPrepared, Retry, call
  <2>9. CASE UNCHANGED callVars
    BY <2>9 DEF RequestPrepared, callVars
  <2> QED BY <2>1, <2>2, <2>3, <2>4, <2>5, <2>6, <2>7, <2>8, <2>9 DEF CallNext
<1> QED BY <1>1, <1>2, PTL DEF CallSpec

\* Whatever history a call starts from and wherever the window cuts it, what is
\* sent answers every call, carries no result of a call that was dropped and no
\* message that says nothing (governor.py, window.py, history.py).
THEOREM RequestsAreLegal == CallSpec => []RequestLegal
<1>1. RequestPrepared => RequestLegal
  <2> SUFFICES ASSUME RequestPrepared, stage = "create", CallsDistinct(history)
               PROVE  LET ms == Payload(request)
                      IN  /\ CallsAnswered(ms) /\ ResultsDeclared(ms)
                          /\ \A i \in DOMAIN ms : HasContent(ms[i]) \/ ms[i].calls # <<>>
    BY DEF RequestLegal
  <2>1. history \in Histories /\ PrepareForModel(history, window) # None
        /\ request = PrepareForModel(history, window)
    BY DEF RequestPrepared
  <2>2. /\ history \in Seq(Messages) /\ InPlace(history) /\ Apart(history)
        /\ MaxResult \in Nat
    BY <2>1, HistoriesFit
  <2>3. Sound(request) /\ Legal(request)
    BY <2>1, <2>2, PreparedLegal
  <2>4. request \in Seq(Messages)
    BY <2>3 DEF Sound, Placed
  <2> QED BY <2>3, <2>4, PayloadLegal
<1> QED BY <1>1, PreparedStays, PTL
=============================================================================
