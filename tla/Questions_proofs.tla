--------------------------- MODULE Questions_proofs ---------------------------
(***************************************************************************)
(* What holds of a conversation, its queue and its questions, for any      *)
(* number of messages and questions.  First pauses: the invariant is       *)
(* inductive once it is added that a controller being closed stays paused  *)
(* and that `stopping` lasts exactly as long as a Stop waits.  A start is  *)
(* the only step that ends a pause, so the work is to show that every      *)
(* start is guarded.                                                       *)
(*                                                                         *)
(* Then the messages: that none is lost or taken twice, and that they are  *)
(* taken in order, is one invariant, QueueInv.  The queue is sorted by the *)
(* numbers given out at arrival, the input of the run is the end of what   *)
(* was steered into it, and each message is in one place; so what comes    *)
(* back from a run is what it has not taken, and finds its old place.      *)
(*                                                                         *)
(* Questions, last, take the controller's own steps, so what is proved of  *)
(* the controller holds beside them; and a question has one outcome.  The  *)
(* latter rests on what each stage of a question says of its Future, its   *)
(* card, the user's reply and what the model was told, and on the run that *)
(* stays where it is, and stays cancelled, while a question waits.         *)
(***************************************************************************)
EXTENDS Questions, FiniteSetTheorems, TLAPS


IInv ==
  /\ Idle /\ pending # <<>> => paused
  /\ stopping => paused
  /\ closing => paused
  /\ stopping = waiting
  /\ stopping \in BOOLEAN /\ paused \in BOOLEAN /\ closing \in BOOLEAN

LEMMA InitIInv == Init => IInv
BY DEF Init, IInv, Idle

\* Every way a message is dispatched or steered, under the guards its callers
\* share: no Stop in progress, not closing.
LEMMA SteerKeepsIInv ==
  ASSUME IInv, NEW m, NEW queue, Steer(m, queue), UNCHANGED stopVars, ~closing, ~stopping
  PROVE  IInv'
BY DEF IInv, Steer, Start, NotStarted, Idle, stopVars

\* submit, answer_question, notify, steer and remove_pending.
LEMMA InputKeepsIInv ==
  ASSUME IInv, NEW m \in Messages,
         Submit(m) \/ SubmitAnswer(m) \/ Notify(m) \/ SteerPending(m) \/ RemovePending(m)
  PROVE  IInv'
<1>1. CASE Submit(m)
  BY <1>1 DEF IInv, Submit, MayStart, Start, NotStarted, Idle, stopVars
<1>2. CASE SubmitAnswer(m)
  <2>1. CASE stopping
    BY <1>2, <2>1 DEF IInv, SubmitAnswer, NotStarted, Idle, stopVars
  <2>2. CASE ~stopping
    BY <1>2, <2>2, SteerKeepsIInv DEF SubmitAnswer
  <2> QED BY <2>1, <2>2
<1>3. CASE Notify(m)
  <2>1. CASE HeldBack
    BY <1>3, <2>1 DEF IInv, Notify, ReportIsHeldBack, HeldBack, NotStarted, Idle, stopVars
  <2>2. CASE ~HeldBack /\ Idle
    BY <1>3, <2>2 DEF IInv, Notify, ReportIsHeldBack, HeldBack, Start, Idle, stopVars
  <2>3. CASE ~HeldBack /\ ~Idle
    BY <1>3, <2>3, SteerKeepsIInv DEF Notify, ReportIsHeldBack, HeldBack
  <2> QED BY <2>1, <2>2, <2>3
<1>4. CASE SteerPending(m)
  BY <1>4, SteerKeepsIInv DEF SteerPending
<1>5. CASE RemovePending(m)
  <2>1. pending # <<>>
    BY <1>5 DEF RemovePending, Queued, Ids, Range
  <2> QED BY <1>5, <2>1 DEF IInv, RemovePending, NotStarted, Idle, stopVars
<1> QED BY <1>1, <1>2, <1>3, <1>4, <1>5

\* A run that ends leaves a paused queue, an empty one, or the next run.
LEMMA FinishKeepsIInv ==
  ASSUME IInv, Finish
  PROVE  IInv'
<1>1. CASE MayContinue /\ pending' # <<>>
  BY <1>1 DEF IInv, Finish, MayContinue, Start, Idle, stopVars
<1>2. CASE ~(MayContinue /\ pending' # <<>>)
  <2>1. /\ paused' = PauseAfterRun
        /\ UNCHANGED stopVars
    BY <1>2 DEF Finish
  <2>2. pending' # <<>> => PauseAfterRun
    BY <1>2 DEF IInv, MayContinue, PauseAfterRun
  <2>3. paused => PauseAfterRun
    BY DEF PauseAfterRun
  <2>4. PauseAfterRun \in BOOLEAN
    BY DEF PauseAfterRun
  <2> HIDE DEF PauseAfterRun
  <2> QED BY <2>1, <2>2, <2>3, <2>4 DEF IInv, stopVars
<1> QED BY <1>1, <1>2

LEMMA RunKeepsIInv ==
  ASSUME IInv, Run
  PROVE  IInv'
<1>1. CASE TaskBegins
  BY <1>1 DEF IInv, TaskBegins, Idle, stopVars
<1>2. CASE StreamReady
  BY <1>2 DEF IInv, StreamReady, Idle, stopVars
<1>3. CASE Drain
  BY <1>3 DEF IInv, Drain, Idle, stopVars
<1>4. CASE CloseIfEmpty \/ CloseOnError \/ CloseOnCancel
  BY <1>4 DEF IInv, CloseIfEmpty, CloseOnError, CloseOnCancel, Idle, stopVars
<1>5. CASE Finish
  BY <1>5, FinishKeepsIInv
<1> QED BY <1>1, <1>2, <1>3, <1>4, <1>5 DEF Run

LEMMA StopKeepsIInv ==
  ASSUME IInv, Stop \/ StopEnds \/ CloseBegins \/ CloseEnds
  PROVE  IInv'
<1>1. CASE Stop
  BY <1>1 DEF IInv, Stop, CancelActive, Idle
<1>2. CASE StopEnds
  BY <1>2 DEF IInv, StopEnds, ClearActive, Idle
<1>3. CASE CloseBegins
  BY <1>3 DEF IInv, CloseBegins, CancelActive, Idle
<1>4. CASE CloseEnds
  BY <1>4 DEF IInv, CloseEnds, Idle
<1> QED BY <1>1, <1>2, <1>3, <1>4

LEMMA NextKeepsIInv ==
  ASSUME IInv, [Next]_vars
  PROVE  IInv'
<1>1. CASE UNCHANGED vars
  BY <1>1 DEF IInv, vars, Idle
<1>2. CASE Next
  BY <1>2, InputKeepsIInv, RunKeepsIInv, StopKeepsIInv DEF Next
<1> QED BY <1>1, <1>2

LEMMA Inductive == Spec => []IInv
<1> QED BY InitIInv, NextKeepsIInv, PTL DEF Spec

\* An idle conversation with messages in its queue is paused, whatever
\* interleaving of messages, reports, Stops, failures and steering led there,
\* and a Stop in progress keeps it paused.
THEOREM NothingIsStranded == Spec => []HeldOrRunning
<1>1. IInv => HeldOrRunning
  BY DEF IInv, NoStrandedInput, StopHoldsQueue, HeldOrRunning
<1> QED BY <1>1, Inductive, PTL

-----------------------------------------------------------------------------
\* What a step that ends a pause looks like.
UserStep ==
  paused /\ ~paused' => /\ ~closing /\ ~stopping
                        /\ accepted' \intersect Reports = accepted \intersect Reports
                        /\ Idle

LEMMA UserMessage ==
  ASSUME NEW m, m \notin Reports, Enqueue(m)
  PROVE  accepted' \intersect Reports = accepted \intersect Reports
BY DEF Enqueue

LEMMA InputIsUserStep ==
  ASSUME IInv, NEW m \in Messages,
         Submit(m) \/ SubmitAnswer(m) \/ Notify(m) \/ SteerPending(m) \/ RemovePending(m)
  PROVE  UserStep
<1>1. CASE Submit(m)
  <2>1. m \notin Reports
    BY <1>1, MessagesAssumption DEF Submit
  <2>2. paused /\ ~paused' => ~closing /\ ~stopping /\ Idle
    BY <1>1 DEF Submit, MayStart, Start, NotStarted
  <2> QED BY <1>1, <2>1, <2>2, UserMessage DEF UserStep, Submit
<1>2. CASE SubmitAnswer(m)
  <2>1. m \notin Reports
    BY <1>2, MessagesAssumption DEF SubmitAnswer
  <2>2. paused /\ ~paused' => ~closing /\ ~stopping /\ Idle
    BY <1>2 DEF SubmitAnswer, Steer, Start, NotStarted
  <2> QED BY <1>2, <2>1, <2>2, UserMessage DEF UserStep, SubmitAnswer
<1>3. CASE Notify(m)
  BY <1>3 DEF UserStep, Notify, ReportIsHeldBack, HeldBack, NotStarted
<1>4. CASE SteerPending(m)
  BY <1>4 DEF UserStep, SteerPending, Steer, Start, NotStarted, ghostVars
<1>5. CASE RemovePending(m)
  BY <1>5 DEF UserStep, RemovePending, NotStarted
<1> QED BY <1>1, <1>2, <1>3, <1>4, <1>5

LEMMA OtherStepsKeepPause ==
  ASSUME Run \/ Stop \/ StopEnds \/ CloseBegins \/ CloseEnds
  PROVE  UserStep
<1>1. CASE Finish
  BY <1>1 DEF UserStep, Finish, MayContinue, PauseAfterRun
<1>2. CASE TaskBegins \/ StreamReady \/ Drain
  BY <1>2 DEF UserStep, TaskBegins, StreamReady, Drain
<1>3. CASE CloseIfEmpty \/ CloseOnError \/ CloseOnCancel
  BY <1>3 DEF UserStep, CloseIfEmpty, CloseOnError, CloseOnCancel
<1>4. CASE Stop \/ StopEnds \/ CloseBegins \/ CloseEnds
  BY <1>4 DEF UserStep, Stop, StopEnds, CloseBegins, CloseEnds, CancelActive
<1> QED BY <1>1, <1>2, <1>3, <1>4 DEF Run

\* Only a user's message, answer or "steer" ends a pause: never a background
\* report, never the end of a run, never while closing or stopping.
THEOREM OnlyUserResumes == Spec => ResumedByUser
<1>1. IInv /\ [Next]_vars => [UserStep]_vars
  <2> SUFFICES ASSUME IInv, Next PROVE UserStep
    OBVIOUS
  <2> QED BY InputIsUserStep, OtherStepsKeepPause DEF Next
<1> QED BY <1>1, Inductive, PTL DEF Spec, ResumedByUser, UserStep

-----------------------------------------------------------------------------
\* Nth lists a finite set of numbers from the smallest up.  The number of members up to
\* n tells the members apart, so it takes all the values there are.
LEMMA NthLists ==
  ASSUME NEW S \in SUBSET Nat, IsFiniteSet(S)
  PROVE  /\ Cardinality(S) \in Nat
         /\ \A i \in 1..Cardinality(S) : Nth(S, i) \in S
         /\ \A i, j \in 1..Cardinality(S) : i < j => Nth(S, i) < Nth(S, j)
         /\ \A n \in S : \E i \in 1..Cardinality(S) : Nth(S, i) = n
<1> DEFINE Upto(n) == {k \in S : k <= n}
           N == Cardinality(S)
           rank == [n \in S |-> Cardinality(Upto(n))]
<1>0. \A n \in S : n \in Nat
  OBVIOUS
<1>1. N \in Nat
  BY FS_CardinalityType
<1>2. ASSUME NEW n \in S
      PROVE  /\ IsFiniteSet(Upto(n)) /\ Cardinality(Upto(n)) \in 1..N
  <2>1. IsFiniteSet(Upto(n)) /\ Cardinality(Upto(n)) <= N
    BY FS_Subset
  <2>2. Cardinality(Upto(n)) \in Nat /\ Cardinality(Upto(n)) # 0
    <3>1. n \in Upto(n)
      OBVIOUS
    <3> QED BY <2>1, <3>1, FS_CardinalityType, FS_EmptySet
  <2> QED BY <1>1, <2>1, <2>2
<1>3. ASSUME NEW m \in S, NEW n \in S, m < n
      PROVE  rank[m] < rank[n]
  <2>1. Upto(m) \in SUBSET Upto(n) /\ n \in Upto(n) /\ n \notin Upto(m)
    <3>1. m \in Nat /\ n \in Nat /\ \A k \in S : k \in Nat
      BY <1>0
    <3>2. \A k \in S : k <= m => k <= n
      BY <1>3, <3>1
    <3>3. n <= n /\ ~(n <= m)
      BY <1>3, <3>1
    <3> QED BY <3>2, <3>3
  <2>2. Cardinality(Upto(m)) <= Cardinality(Upto(n)) /\ Cardinality(Upto(m)) # Cardinality(Upto(n))
    <3> HIDE DEF Upto
    <3> QED BY <1>2, <2>1, FS_Subset
  <2>3. rank[m] = Cardinality(Upto(m)) /\ rank[n] = Cardinality(Upto(n))
    BY DEF rank
  <2>4. rank[m] \in 1..N /\ rank[n] \in 1..N
    BY <1>2, <2>3
  <2> HIDE DEF rank, Upto
  <2> QED BY <2>2, <2>3, <2>4, <1>1
<1>4. \A i \in 1..N : \E n \in S : rank[n] = i
  <2>1. rank \in [S -> 1..N]
    BY <1>2
  <2>2. IsInjective(rank)
    <3> SUFFICES ASSUME NEW m \in S, NEW n \in S, rank[m] = rank[n] PROVE m = n
      BY <2>1 DEF IsInjective
    <3>1. ~(m < n) /\ ~(n < m)
      <4> HIDE DEF rank
      <4> QED BY <1>3, <2>1, <1>1
    <3> QED BY <3>1, <1>0
  <2>3. rank \in Injection(S, 1..N)
    BY <2>1, <2>2 DEF Injection
  <2>4. Cardinality(S) = Cardinality(1..N) /\ IsFiniteSet(1..N)
    <3>1. 1 \in Int /\ N \in Int /\ (1 > N => N = 0)
      BY <1>1
    <3> HIDE DEF N
    <3>2. IsFiniteSet(1..N) /\ Cardinality(1..N) = IF 1 > N THEN 0 ELSE N - 1 + 1
      BY <3>1, FS_Interval
    <3> QED BY <1>1, <3>1, <3>2 DEF N
  <2> DEFINE T == 1..N
  <2> HIDE DEF rank, T
  <2>5. rank \in Injection(S, T) /\ Cardinality(S) = Cardinality(T) /\ IsFiniteSet(T)
    BY <2>3, <2>4 DEF T
  <2>6. rank \in Surjection(S, T)
    BY <2>5, FS_Injection, Zenon
  <2> QED BY <2>6 DEF Surjection, T
<1>5. ASSUME NEW i \in 1..N
      PROVE  Nth(S, i) \in S /\ rank[Nth(S, i)] = i
  <2>1. PICK n \in S : rank[n] = i
    BY <1>4
  <2>2. Nth(S, i) \in S /\ Cardinality(Upto(Nth(S, i))) = i
    BY <2>1 DEF Nth
  <2> QED BY <2>2
<1>6. ASSUME NEW i \in 1..N, NEW j \in 1..N, i < j
      PROVE  Nth(S, i) < Nth(S, j)
  <2> HIDE DEF rank
  <2>0. Nth(S, i) \in S /\ Nth(S, j) \in S
    BY <1>5, Zenon
  <2>1. Nth(S, i) \in Nat /\ Nth(S, j) \in Nat
    BY <1>0, <2>0, Zenon
  <2>3. i \in Nat /\ j \in Nat
    BY <1>1
  <2>2. Nth(S, i) # Nth(S, j) /\ ~(Nth(S, j) < Nth(S, i))
    BY <1>3, <1>5, <1>6, <2>0, <2>1, <2>3
  <2> QED BY <2>1, <2>2
<1>7. ASSUME NEW n \in S
      PROVE  \E i \in 1..N : Nth(S, i) = n
  <2>1. rank[n] \in 1..N
    BY <1>2
  <2>2. rank[Nth(S, rank[n])] = rank[n] /\ Nth(S, rank[n]) \in S
    BY <1>5, <2>1
  <2> HIDE DEF rank
  <2>3. n \in Nat /\ Nth(S, rank[n]) \in Nat
    BY <1>0, <2>2, Zenon
  <2>6. rank[n] \in Nat
    BY <1>1, <2>1
  <2>4. ~(Nth(S, rank[n]) < n) /\ ~(n < Nth(S, rank[n]))
    BY <1>3, <2>2, <2>3, <2>6
  <2>5. Nth(S, rank[n]) = n
    BY <2>3, <2>4
  <2> QED BY <2>1, <2>5
<1> QED BY <1>1, <1>5, <1>6, <1>7

\* What Select returns: the items at the positions asked for, in the order of the queue.
LEMMA SelectLists ==
  ASSUME NEW X, NEW queue \in Seq(X), NEW at \in SUBSET DOMAIN queue
  PROVE  /\ Select(queue, at) \in Seq(X)
         /\ DOMAIN Select(queue, at) = 1..Cardinality(at) /\ Cardinality(at) \in Nat
         /\ Len(Select(queue, at)) = Cardinality(at)
         /\ \A i \in DOMAIN Select(queue, at) :
              Nth(at, i) \in at /\ Select(queue, at)[i] = queue[Nth(at, i)]
         /\ \A i, j \in DOMAIN Select(queue, at) : i < j => Nth(at, i) < Nth(at, j)
         /\ \A k \in at : \E i \in DOMAIN Select(queue, at) : Nth(at, i) = k
<1>1. at \in SUBSET Nat /\ IsFiniteSet(at) /\ at \in SUBSET (1..Len(queue))
  <2>1. DOMAIN queue = 1..Len(queue) /\ Len(queue) \in Nat
    OBVIOUS
  <2>2. IsFiniteSet(1..Len(queue))
    BY <2>1, FS_Interval
  <2> QED BY <2>1, <2>2, FS_Subset
<1>2. /\ Cardinality(at) \in Nat
      /\ \A i \in 1..Cardinality(at) : Nth(at, i) \in at
      /\ \A i, j \in 1..Cardinality(at) : i < j => Nth(at, i) < Nth(at, j)
      /\ \A k \in at : \E i \in 1..Cardinality(at) : Nth(at, i) = k
  BY <1>1, NthLists
<1>3. \A i \in 1..Cardinality(at) : queue[Nth(at, i)] \in X
  BY <1>1, <1>2
<1>4. Select(queue, at) \in [1..Cardinality(at) -> X]
  BY <1>3 DEF Select
<1>5. Select(queue, at) \in Seq(X) /\ Len(Select(queue, at)) = Cardinality(at)
  BY <1>2, <1>4
<1> QED BY <1>2, <1>4, <1>5 DEF Select

\* The messages of a queue.
Held(queue) == Range(Ids(queue))

\* In the order of submission.
Sorted(queue) ==
  \A i, j \in DOMAIN queue : i < j => queue[i].order < queue[j].order

QueueItem == [id : Messages, order : Nat, steer : BOOLEAN]

LEMMA IdsOf ==
  ASSUME NEW queue \in Seq(QueueItem)
  PROVE  /\ Ids(queue) \in Seq(Messages) /\ Len(Ids(queue)) = Len(queue)
         /\ DOMAIN Ids(queue) = DOMAIN queue
         /\ \A i \in DOMAIN queue : Ids(queue)[i] = queue[i].id /\ queue[i] \in QueueItem
         /\ Held(queue) = {queue[i].id : i \in DOMAIN queue}
<1>1. \A i \in 1..Len(queue) : queue[i] \in QueueItem /\ queue[i].id \in Messages
  <2>1. \A i \in 1..Len(queue) : queue[i] \in QueueItem
    OBVIOUS
  <2> QED BY <2>1 DEF QueueItem
<1>2. Ids(queue) \in [1..Len(queue) -> Messages] /\ Len(queue) \in Nat
  BY <1>1 DEF Ids
<1>3. Ids(queue) \in Seq(Messages) /\ Len(Ids(queue)) = Len(queue)
  BY <1>2
<1> QED BY <1>1, <1>3 DEF Ids, Held, Range

\* A selection keeps the order of a queue and mentions no message twice that the queue
\* mentions once.
LEMMA SelectKeeps ==
  ASSUME NEW queue \in Seq(QueueItem), NEW at \in SUBSET DOMAIN queue
  PROVE  /\ Select(queue, at) \in Seq(QueueItem)
         /\ Held(Select(queue, at)) = {queue[i].id : i \in at}
         /\ Range(Select(queue, at)) \subseteq Range(queue)
         /\ IsInjective(Ids(queue)) => IsInjective(Ids(Select(queue, at)))
         /\ Sorted(queue) => Sorted(Select(queue, at))
<1> DEFINE part == Select(queue, at)
<1>1. /\ part \in Seq(QueueItem)
      /\ DOMAIN part = 1..Cardinality(at) /\ Cardinality(at) \in Nat
      /\ \A i \in DOMAIN part : Nth(at, i) \in at /\ part[i] = queue[Nth(at, i)]
      /\ \A i, j \in DOMAIN part : i < j => Nth(at, i) < Nth(at, j)
      /\ \A k \in at : \E i \in DOMAIN part : Nth(at, i) = k
  BY SelectLists
<1> HIDE DEF part
<1>2. /\ DOMAIN Ids(part) = DOMAIN part /\ Held(part) = {part[i].id : i \in DOMAIN part}
      /\ \A i \in DOMAIN part : Ids(part)[i] = part[i].id
  BY <1>1, IdsOf
<1>3. DOMAIN Ids(queue) = DOMAIN queue /\ \A i \in DOMAIN queue : Ids(queue)[i] = queue[i].id
  BY IdsOf
<1>4. Held(part) = {queue[i].id : i \in at}
  BY <1>1, <1>2
<1>5. Range(part) \subseteq Range(queue)
  BY <1>1 DEF Range
<1>6. ASSUME IsInjective(Ids(queue)) PROVE IsInjective(Ids(part))
  <2> SUFFICES ASSUME NEW i \in DOMAIN part, NEW j \in DOMAIN part, part[i].id = part[j].id
               PROVE  i = j
    BY <1>2 DEF IsInjective
  <2>1. Nth(at, i) = Nth(at, j)
    BY <1>1, <1>3, <1>6 DEF IsInjective
  <2>2. i \in Nat /\ j \in Nat /\ Nth(at, i) \in Nat
    BY <1>1
  <2> QED BY <1>1, <2>1, <2>2
<1>7. ASSUME Sorted(queue) PROVE Sorted(part)
  BY <1>1, <1>7 DEF Sorted
<1> QED BY <1>1, <1>4, <1>5, <1>6, <1>7 DEF part

\* One more message, and two lists one after the other.
LEMMA Appended ==
  ASSUME NEW X, NEW s \in Seq(X), NEW e \in X
  PROVE  /\ Append(s, e) \in Seq(X)
         /\ Range(Append(s, e)) = Range(s) \union {e}
         /\ IsInjective(s) /\ e \notin Range(s) => IsInjective(Append(s, e))
<1> DEFINE t == Append(s, e)
<1>1. /\ t \in Seq(X) /\ Len(t) = Len(s) + 1 /\ Len(s) \in Nat
      /\ DOMAIN t = 1..Len(t) /\ DOMAIN s = 1..Len(s)
      /\ t[Len(t)] = e /\ \A i \in 1..Len(s) : t[i] = s[i]
  OBVIOUS
<1> HIDE DEF t
<1>2. \A i \in DOMAIN t : (i \in DOMAIN s /\ t[i] = s[i]) \/ (i = Len(t) /\ t[i] = e)
  <2>1. \A i \in DOMAIN t : i \in DOMAIN s \/ i = Len(t)
    BY <1>1
  <2> QED BY <1>1, <2>1
<1>3. \A i \in DOMAIN s : i \in DOMAIN t /\ t[i] = s[i] /\ i # Len(t)
  BY <1>1
<1>4. Len(t) \in DOMAIN t /\ t[Len(t)] = e
  BY <1>1
<1>5. Range(t) = Range(s) \union {e}
  BY <1>2, <1>3, <1>4 DEF Range
<1>6. IsInjective(s) /\ e \notin Range(s) => IsInjective(t)
  BY <1>2 DEF IsInjective, Range
<1> QED BY <1>1, <1>5, <1>6 DEF t

LEMMA SameSequence ==
  ASSUME NEW X, NEW s \in Seq(X), NEW t \in Seq(X), Len(s) = Len(t),
         \A i \in 1..Len(s) : s[i] = t[i]
  PROVE  s = t
OBVIOUS

LEMMA JoinedAt ==
  ASSUME NEW X, NEW s \in Seq(X), NEW t \in Seq(X)
  PROVE  /\ s \o t \in Seq(X) /\ Len(s) \in Nat /\ Len(t) \in Nat
         /\ Len(s \o t) = Len(s) + Len(t)
         /\ DOMAIN (s \o t) = 1..(Len(s) + Len(t))
         /\ DOMAIN s = 1..Len(s) /\ DOMAIN t = 1..Len(t)
         /\ \A i \in 1..(Len(s) + Len(t)) :
              (s \o t)[i] = IF i <= Len(s) THEN s[i] ELSE t[i - Len(s)]
OBVIOUS

LEMMA Joined ==
  ASSUME NEW X, NEW s \in Seq(X), NEW t \in Seq(X)
  PROVE  /\ s \o t \in Seq(X)
         /\ Range(s \o t) = Range(s) \union Range(t)
         /\ IsInjective(s) /\ IsInjective(t) /\ Range(s) \intersect Range(t) = {}
              => IsInjective(s \o t)
<1> DEFINE u == s \o t
<1>1. /\ u \in Seq(X) /\ Len(u) = Len(s) + Len(t) /\ Len(s) \in Nat /\ Len(t) \in Nat
      /\ DOMAIN u = 1..Len(u) /\ DOMAIN s = 1..Len(s) /\ DOMAIN t = 1..Len(t)
      /\ \A i \in 1..Len(u) : u[i] = IF i <= Len(s) THEN s[i] ELSE t[i - Len(s)]
  BY JoinedAt
<1> HIDE DEF u
<1>2. \A i \in DOMAIN u : \/ i \in DOMAIN s /\ u[i] = s[i]
                          \/ i - Len(s) \in DOMAIN t /\ u[i] = t[i - Len(s)]
  BY <1>1
<1>3. \A i \in DOMAIN s : i \in DOMAIN u /\ u[i] = s[i]
  BY <1>1
<1>4. \A i \in DOMAIN t : i + Len(s) \in DOMAIN u /\ u[i + Len(s)] = t[i]
  BY <1>1
<1>5. Range(u) = Range(s) \union Range(t)
  <2>1. Range(u) \subseteq Range(s) \union Range(t)
    BY <1>2 DEF Range
  <2>2. Range(s) \subseteq Range(u)
    BY <1>3 DEF Range
  <2>3. Range(t) \subseteq Range(u)
    BY <1>4 DEF Range
  <2> QED BY <2>1, <2>2, <2>3
<1>6. ASSUME IsInjective(s), IsInjective(t), Range(s) \intersect Range(t) = {}
      PROVE  IsInjective(u)
  <2> SUFFICES ASSUME NEW i \in DOMAIN u, NEW j \in DOMAIN u, u[i] = u[j] PROVE i = j
    BY DEF IsInjective
  <2>1. i \in Nat /\ j \in Nat
    BY <1>1
  <2>2. CASE i \in DOMAIN s /\ u[i] = s[i] /\ j \in DOMAIN s /\ u[j] = s[j]
    BY <1>6, <2>2 DEF IsInjective
  <2>3. CASE /\ i - Len(s) \in DOMAIN t /\ u[i] = t[i - Len(s)]
             /\ j - Len(s) \in DOMAIN t /\ u[j] = t[j - Len(s)]
    <3>1. i - Len(s) = j - Len(s)
      BY <1>6, <2>3 DEF IsInjective
    <3> QED BY <1>1, <2>1, <3>1
  <2>4. ASSUME NEW k \in DOMAIN s, NEW l \in DOMAIN t, s[k] = t[l]
        PROVE  FALSE
    BY <1>6, <2>4 DEF Range
  <2> QED BY <1>2, <2>2, <2>3, <2>4
<1> QED BY <1>1, <1>5, <1>6 DEF u

-----------------------------------------------------------------------------
\* A queue as the code keeps it: in the order of submission, no message twice.
Regular(queue) ==
  queue \in Seq(QueueItem) /\ Sorted(queue) /\ IsInjective(Ids(queue))

\* What one order was given to is one message, and younger messages have larger ones.
Numbers(items, next) ==
  /\ \A a \in items : a.order < next
  /\ \A a, b \in items : a.order = b.order => a.id = b.id

\* The same messages as in others, perhaps fewer of them and with other flags.
Alike(items, others) == \A a \in items : \E b \in others : a.id = b.id /\ a.order = b.order

LEMMA NumbersOfAlike ==
  ASSUME NEW items, NEW others, NEW next, Numbers(others, next), Alike(items, others)
  PROVE  Numbers(items, next)
<1>1. \A a \in items : a.order < next
  BY DEF Numbers, Alike
<1>2. \A a, b \in items : a.order = b.order => a.id = b.id
  BY DEF Numbers, Alike
<1> QED BY <1>1, <1>2 DEF Numbers

LEMMA SelectRegular ==
  ASSUME NEW queue, Regular(queue), NEW at \in SUBSET DOMAIN queue
  PROVE  /\ Regular(Select(queue, at))
         /\ Held(Select(queue, at)) = {queue[i].id : i \in at}
         /\ Range(Select(queue, at)) \subseteq Range(queue)
BY SelectKeeps DEF Regular

LEMMA WithoutRegular ==
  ASSUME NEW queue, Regular(queue), NEW m
  PROVE  /\ Regular(Without(queue, m))
         /\ Held(Without(queue, m)) = Held(queue) \ {m}
         /\ Range(Without(queue, m)) \subseteq Range(queue)
<1>1. DOMAIN queue \ At(queue, m) \in SUBSET DOMAIN queue
  OBVIOUS
<1>2. /\ Regular(Without(queue, m))
      /\ Held(Without(queue, m)) = {queue[i].id : i \in DOMAIN queue \ At(queue, m)}
      /\ Range(Without(queue, m)) \subseteq Range(queue)
  BY <1>1, SelectRegular DEF Without
<1>3. Held(queue) = {queue[i].id : i \in DOMAIN queue}
  BY IdsOf DEF Regular
<1>4. {queue[i].id : i \in DOMAIN queue \ At(queue, m)} = {queue[i].id : i \in DOMAIN queue} \ {m}
  BY DEF At
<1> QED BY <1>2, <1>3, <1>4

\* The one entry of a message.
LEMMA OneAt ==
  ASSUME NEW queue, Regular(queue), NEW m \in Held(queue)
  PROVE  LET one == Select(queue, At(queue, m)) IN
         /\ one \in Seq(QueueItem) /\ Len(one) = 1
         /\ Range(one) \subseteq Range(queue)
         /\ one[1].id = m
<1>1. /\ queue \in Seq(QueueItem) /\ DOMAIN Ids(queue) = DOMAIN queue
      /\ \A i \in DOMAIN queue : Ids(queue)[i] = queue[i].id
      /\ Held(queue) = {queue[i].id : i \in DOMAIN queue}
  BY IdsOf DEF Regular
<1>2. PICK k \in DOMAIN queue : queue[k].id = m
  BY <1>1
<1>3. \A i \in DOMAIN queue : queue[i].id = m => i = k
  BY <1>1, <1>2 DEF Regular, IsInjective
<1>4. At(queue, m) = {k}
  BY <1>2, <1>3 DEF At
<1>5. Cardinality({k}) = 1
  BY FS_Singleton
<1>6. At(queue, m) \in SUBSET DOMAIN queue /\ Cardinality(At(queue, m)) = 1
  BY <1>4, <1>5
<1>7. /\ Select(queue, At(queue, m)) \in Seq(QueueItem)
      /\ Range(Select(queue, At(queue, m))) \subseteq Range(queue)
  BY <1>1, <1>6, SelectKeeps
<1>8. /\ Len(Select(queue, At(queue, m))) = Cardinality(At(queue, m))
      /\ DOMAIN Select(queue, At(queue, m)) = 1..Cardinality(At(queue, m))
      /\ \A i \in DOMAIN Select(queue, At(queue, m)) :
           /\ Nth(At(queue, m), i) \in At(queue, m)
           /\ Select(queue, At(queue, m))[i] = queue[Nth(At(queue, m), i)]
  BY <1>1, <1>6, SelectLists, ZenonT(40)
<1>9. 1 \in DOMAIN Select(queue, At(queue, m))
  BY <1>6, <1>8
<1>10. Select(queue, At(queue, m))[1] = queue[k]
  BY <1>4, <1>8, <1>9
<1> QED BY <1>2, <1>6, <1>7, <1>8, <1>10

\* Changing flags changes nothing else.
LEMMA FlagsOnly ==
  ASSUME NEW queue, Regular(queue),
         NEW flagged \in [DOMAIN queue -> QueueItem],
         \A i \in DOMAIN queue : flagged[i].id = queue[i].id /\ flagged[i].order = queue[i].order
  PROVE  /\ Regular(flagged)
         /\ Held(flagged) = Held(queue)
         /\ Alike(Range(flagged), Range(queue))
<1>1. /\ queue \in Seq(QueueItem) /\ DOMAIN Ids(queue) = DOMAIN queue
      /\ \A i \in DOMAIN queue : Ids(queue)[i] = queue[i].id
      /\ Held(queue) = {queue[i].id : i \in DOMAIN queue}
  BY IdsOf DEF Regular
<1>2. flagged \in Seq(QueueItem) /\ DOMAIN flagged = DOMAIN queue
  <2>1. DOMAIN queue = 1..Len(queue) /\ Len(queue) \in Nat
    BY <1>1
  <2> QED BY <2>1
<1>3. /\ DOMAIN Ids(flagged) = DOMAIN queue
      /\ \A i \in DOMAIN queue : Ids(flagged)[i] = queue[i].id
      /\ Held(flagged) = {flagged[i].id : i \in DOMAIN queue}
  BY <1>2, IdsOf
<1>4. Held(flagged) = Held(queue)
  BY <1>1, <1>3
<1>5. IsInjective(Ids(flagged))
  BY <1>1, <1>3 DEF Regular, IsInjective
<1>6. Sorted(flagged)
  BY <1>2 DEF Regular, Sorted
<1>7. Alike(Range(flagged), Range(queue))
  BY <1>2 DEF Alike, Range
<1> QED BY <1>2, <1>4, <1>5, <1>6, <1>7 DEF Regular

LEMMA RequestSteerRegular ==
  ASSUME NEW queue, Regular(queue), NEW m
  PROVE  /\ Regular(RequestSteer(queue, m))
         /\ Held(RequestSteer(queue, m)) = Held(queue)
         /\ Alike(Range(RequestSteer(queue, m)), Range(queue))
<1> DEFINE flagged == RequestSteer(queue, m)
<1>1. \A i \in DOMAIN queue : queue[i] \in QueueItem
  BY DEF Regular
<1>2. flagged \in [DOMAIN queue -> QueueItem]
  BY <1>1 DEF RequestSteer, QueueItem
<1>3. \A i \in DOMAIN queue : flagged[i].id = queue[i].id /\ flagged[i].order = queue[i].order
  BY <1>1 DEF RequestSteer, QueueItem
<1> HIDE DEF flagged
<1>4. Regular(flagged) /\ Held(flagged) = Held(queue) /\ Alike(Range(flagged), Range(queue))
  BY <1>2, <1>3, FlagsOnly
<1> QED BY <1>4 DEF flagged

LEMMA ClearSteerRegular ==
  ASSUME NEW queue, Regular(queue)
  PROVE  /\ Regular(ClearSteer(queue))
         /\ Held(ClearSteer(queue)) = Held(queue)
         /\ Alike(Range(ClearSteer(queue)), Range(queue))
<1> DEFINE flagged == ClearSteer(queue)
<1>1. \A i \in DOMAIN queue : queue[i] \in QueueItem
  BY DEF Regular
<1>2. flagged \in [DOMAIN queue -> QueueItem]
  BY <1>1 DEF ClearSteer, QueueItem
<1>3. \A i \in DOMAIN queue : flagged[i].id = queue[i].id /\ flagged[i].order = queue[i].order
  BY <1>1 DEF ClearSteer, QueueItem
<1> HIDE DEF flagged
<1>4. Regular(flagged) /\ Held(flagged) = Held(queue) /\ Alike(Range(flagged), Range(queue))
  BY <1>2, <1>3, FlagsOnly
<1> QED BY <1>4 DEF flagged

\* A new message, with the next number.
LEMMA NewItemRegular ==
  ASSUME NEW queue, Regular(queue), NEW m \in Messages, m \notin Held(queue),
         nextOrder \in Nat, NEW others,
         Numbers(Range(queue) \union others, nextOrder), \A a \in others : a.order \in Nat
  PROVE  /\ Regular(Append(queue, Item(m)))
         /\ Held(Append(queue, Item(m))) = Held(queue) \union {m}
         /\ Numbers(Range(Append(queue, Item(m))) \union others, nextOrder + 1)
<1> DEFINE longer == Append(queue, Item(m))
<1>1. Item(m) \in QueueItem /\ Item(m).id = m /\ Item(m).order = nextOrder
  BY DEF Item, QueueItem
<1>2. /\ queue \in Seq(QueueItem) /\ DOMAIN Ids(queue) = DOMAIN queue
      /\ \A i \in DOMAIN queue : Ids(queue)[i] = queue[i].id /\ queue[i] \in QueueItem
      /\ Held(queue) = {queue[i].id : i \in DOMAIN queue}
  BY IdsOf DEF Regular
<1>3. longer \in Seq(QueueItem) /\ Range(longer) = Range(queue) \union {Item(m)}
  BY <1>1, <1>2, Appended
<1>4. /\ Len(longer) = Len(queue) + 1 /\ Len(queue) \in Nat
      /\ DOMAIN longer = 1..Len(longer) /\ DOMAIN queue = 1..Len(queue)
      /\ longer[Len(longer)] = Item(m) /\ \A i \in 1..Len(queue) : longer[i] = queue[i]
  BY <1>1, <1>2
<1> HIDE DEF longer
<1>5. /\ DOMAIN Ids(longer) = DOMAIN longer
      /\ \A i \in DOMAIN longer : Ids(longer)[i] = longer[i].id
      /\ Held(longer) = {longer[i].id : i \in DOMAIN longer}
  BY <1>3, IdsOf
<1>6. \A i \in DOMAIN longer : i \in DOMAIN queue \/ i = Len(longer)
  BY <1>4
<1>7. \A i \in DOMAIN queue : i \in DOMAIN longer /\ longer[i] = queue[i] /\ i < Len(longer)
  BY <1>4
<1>8. Len(longer) \in DOMAIN longer
  BY <1>4
<1>9. Held(longer) = Held(queue) \union {m}
  BY <1>1, <1>2, <1>4, <1>5, <1>6, <1>7, <1>8
<1>10. IsInjective(Ids(longer))
  <2> SUFFICES ASSUME NEW i \in DOMAIN longer, NEW j \in DOMAIN longer,
                      longer[i].id = longer[j].id
               PROVE  i = j
    BY <1>5 DEF IsInjective
  <2>1. CASE i \in DOMAIN queue /\ j \in DOMAIN queue
    BY <1>2, <1>7, <2>1 DEF Regular, IsInjective
  <2>2. CASE i \in DOMAIN queue /\ j = Len(longer)
    BY <1>1, <1>2, <1>4, <1>7, <2>2
  <2>3. CASE i = Len(longer) /\ j \in DOMAIN queue
    BY <1>1, <1>2, <1>4, <1>7, <2>3
  <2> QED BY <1>6, <2>1, <2>2, <2>3
<1>11. \A a \in Range(queue) : a.order < nextOrder
  BY DEF Numbers
<1>12. Sorted(longer)
  <2> SUFFICES ASSUME NEW i \in DOMAIN longer, NEW j \in DOMAIN longer, i < j
               PROVE  longer[i].order < longer[j].order
    BY DEF Sorted
  <2>1. i \in DOMAIN queue
    BY <1>4
  <2>2. longer[i] = queue[i] /\ queue[i] \in Range(queue)
    BY <1>7, <2>1 DEF Range
  <2>3. CASE j \in DOMAIN queue
    BY <1>7, <2>1, <2>3 DEF Regular, Sorted
  <2>4. CASE j = Len(longer)
    BY <1>1, <1>4, <1>11, <2>2, <2>4
  <2> QED BY <1>6, <2>3, <2>4
<1>13. Numbers(Range(longer) \union others, nextOrder + 1)
  <2>1. \A a \in Range(queue) \union others : a.order \in Nat /\ a.order < nextOrder
    BY <1>2 DEF Numbers, Range, QueueItem
  <2>2. \A a \in Range(longer) \union others : a.order < nextOrder + 1
    BY <1>1, <1>3, <2>1
  <2>3. \A a \in Range(longer) \union others :
          a \in Range(queue) \union others \/ a = Item(m)
    BY <1>3
  <2>4. \A a \in Range(queue) \union others : a.order # nextOrder
    BY <2>1
  <2>5. \A a, b \in Range(longer) \union others : a.order = b.order => a.id = b.id
    BY <1>1, <2>3, <2>4 DEF Numbers
  <2> QED BY <2>2, <2>5 DEF Numbers
<1> QED BY <1>3, <1>9, <1>10, <1>12, <1>13 DEF Regular, longer

\* Sorting a queue whose entries have different numbers puts all of them in order.
LEMMA ByOrderRegular ==
  ASSUME NEW queue \in Seq(QueueItem), IsInjective(Ids(queue)),
         \A a, b \in Range(queue) : a.order = b.order => a.id = b.id
  PROVE  /\ Regular(ByOrder(queue))
         /\ Range(ByOrder(queue)) = Range(queue)
         /\ Held(ByOrder(queue)) = Held(queue)
<1> DEFINE orders == {queue[k].order : k \in DOMAIN queue}
           n      == Len(queue)
           sorted == ByOrder(queue)
<1>1. /\ n \in Nat /\ DOMAIN queue = 1..n /\ DOMAIN Ids(queue) = DOMAIN queue
      /\ \A i \in DOMAIN queue : Ids(queue)[i] = queue[i].id /\ queue[i] \in QueueItem
      /\ Held(queue) = {queue[i].id : i \in DOMAIN queue}
  BY IdsOf
<1>2. \A i, j \in DOMAIN queue : queue[i].order = queue[j].order => i = j
  BY <1>1 DEF IsInjective, Range
<1>3. orders \in SUBSET Nat
  BY <1>1 DEF QueueItem
<1>4. IsFiniteSet(orders) /\ Cardinality(orders) = n
  <2> DEFINE f == [k \in 1..n |-> queue[k].order]
             T == 1..n
  <2>1. f \in Surjection(1..n, orders)
    BY <1>1 DEF Surjection
  <2>2. f \in Injection(1..n, orders)
    <3>1. f \in [1..n -> orders]
      BY <1>1
    <3>2. IsInjective(f)
      BY <1>1, <1>2 DEF IsInjective
    <3> QED BY <3>1, <3>2 DEF Injection
  <2>3. IsFiniteSet(T) /\ Cardinality(T) = n
    <3>1. 1 \in Int /\ n \in Int /\ (1 > n => n = 0)
      BY <1>1
    <3> HIDE DEF n
    <3>2. IsFiniteSet(1..n) /\ Cardinality(1..n) = IF 1 > n THEN 0 ELSE n - 1 + 1
      BY <3>1, FS_Interval
    <3> QED BY <1>1, <3>1, <3>2
  <2>4. f \in Surjection(T, orders) /\ f \in Injection(T, orders)
    BY <2>1, <2>2
  <2> HIDE DEF f, T, orders, n
  <2>5. IsFiniteSet(orders) /\ (Cardinality(orders) = Cardinality(T) <=> f \in Injection(T, orders))
    BY <2>3, <2>4, FS_Surjection, Zenon
  <2> QED BY <2>3, <2>4, <2>5
<1>5. /\ \A i \in DOMAIN queue : Nth(orders, i) \in orders
      /\ \A i, j \in DOMAIN queue : i < j => Nth(orders, i) < Nth(orders, j)
      /\ \A k \in orders : \E i \in DOMAIN queue : Nth(orders, i) = k
  <2> HIDE DEF orders, n
  <2>1. /\ \A i \in 1..Cardinality(orders) : Nth(orders, i) \in orders
        /\ \A i, j \in 1..Cardinality(orders) : i < j => Nth(orders, i) < Nth(orders, j)
        /\ \A k \in orders : \E i \in 1..Cardinality(orders) : Nth(orders, i) = k
    BY <1>3, <1>4, NthLists
  <2> QED BY <1>1, <1>4, <2>1
<1>6. /\ sorted = [i \in DOMAIN queue |->
                     CHOOSE item \in Range(queue) : item.order = Nth(orders, i)]
  BY DEF ByOrder
<1>7. \A i \in DOMAIN queue : sorted[i] \in Range(queue) /\ sorted[i].order = Nth(orders, i)
  <2> SUFFICES ASSUME NEW i \in DOMAIN queue
               PROVE  sorted[i] \in Range(queue) /\ sorted[i].order = Nth(orders, i)
    OBVIOUS
  <2>1. sorted[i] = CHOOSE item \in Range(queue) : item.order = Nth(orders, i)
    <3> HIDE DEF sorted, orders
    <3> QED BY <1>6
  <2>2. \E item \in Range(queue) : item.order = Nth(orders, i)
    BY <1>5 DEF Range
  <2> HIDE DEF sorted, orders
  <2> QED BY <2>1, <2>2
<1> HIDE DEF sorted
<1>8. sorted \in Seq(QueueItem) /\ DOMAIN sorted = DOMAIN queue
  <2>1. Range(queue) \subseteq QueueItem
    BY <1>1 DEF Range
  <2>2. sorted \in [1..n -> QueueItem]
    BY <1>1, <1>6, <1>7, <2>1
  <2> QED BY <1>1, <2>2
<1>9. Sorted(sorted)
  <2> HIDE DEF orders
  <2>1. \A i, j \in DOMAIN queue : i < j => sorted[i].order < sorted[j].order
    BY <1>5, <1>7
  <2> QED BY <1>8, <2>1 DEF Sorted
<1>10. \A a, b \in Range(queue) : a.order = b.order => a = b
  BY <1>2 DEF Range
<1>11. Range(sorted) = Range(queue)
  <2>1. Range(sorted) \subseteq Range(queue)
    BY <1>7, <1>8 DEF Range
  <2>2. ASSUME NEW item \in Range(queue) PROVE item \in Range(sorted)
    <3>1. item.order \in orders
      BY DEF Range
    <3>2. PICK i \in DOMAIN queue : Nth(orders, i) = item.order
      BY <1>5, <3>1
    <3> HIDE DEF orders
    <3>3. sorted[i] = item
      BY <1>7, <1>10, <3>2
    <3> QED BY <1>8, <3>3 DEF Range
  <2> QED BY <2>1, <2>2
<1>12. /\ DOMAIN Ids(sorted) = DOMAIN sorted
       /\ \A i \in DOMAIN sorted : Ids(sorted)[i] = sorted[i].id
       /\ Held(sorted) = {sorted[i].id : i \in DOMAIN sorted}
  BY <1>8, IdsOf
<1>13. Held(sorted) = Held(queue)
  <2>1. Held(sorted) = {item.id : item \in Range(sorted)}
    BY <1>12 DEF Range
  <2>2. Held(queue) = {item.id : item \in Range(queue)}
    BY <1>1 DEF Range
  <2> QED BY <1>11, <2>1, <2>2
<1>14. IsInjective(Ids(sorted))
  <2> SUFFICES ASSUME NEW i \in DOMAIN queue, NEW j \in DOMAIN queue,
                      sorted[i].id = sorted[j].id
               PROVE  i = j
    BY <1>8, <1>12 DEF IsInjective
  <2>1. PICK k \in DOMAIN queue : sorted[i] = queue[k]
    BY <1>7 DEF Range
  <2>2. PICK l \in DOMAIN queue : sorted[j] = queue[l]
    BY <1>7 DEF Range
  <2>3. k = l
    BY <1>1, <2>1, <2>2 DEF IsInjective
  <2>4. sorted[i].order = sorted[j].order
    BY <2>1, <2>2, <2>3
  <2>5. i \in Nat /\ j \in Nat /\ sorted[i].order \in Nat
    BY <1>1, <2>1 DEF QueueItem
  <2>6. ~(i < j) /\ ~(j < i)
    BY <1>8, <1>9, <2>4, <2>5 DEF Sorted
  <2> QED BY <2>5, <2>6
<1> QED BY <1>8, <1>9, <1>11, <1>13, <1>14 DEF Regular, sorted

-----------------------------------------------------------------------------
\* The input of the run is the end of what was steered into it.
EndOf(s, t) ==
  Len(s) <= Len(t) /\ \A i \in 1..Len(s) : s[i] = t[Len(t) - Len(s) + i]

LEMMA EndIsSuffix ==
  ASSUME NEW X, NEW s \in Seq(X), NEW t \in Seq(X), EndOf(s, t)
  PROVE  IsSuffix(s, t)
<1> DEFINE p == Reverse(s)
           q == Reverse(t)
<1>1. Len(s) \in Nat /\ Len(t) \in Nat /\ Len(s) <= Len(t)
  BY DEF EndOf
<1>2. \A i \in 1..Len(s) : s[(Len(s) - i) + 1] \in X
  BY <1>1
<1>3. \A i \in 1..Len(t) : t[(Len(t) - i) + 1] \in X
  BY <1>1
<1>4. p \in [1..Len(s) -> X] /\ q \in [1..Len(t) -> X]
  BY <1>2, <1>3 DEF Reverse
<1> HIDE DEF p, q
<1>5. p \in Seq(X) /\ q \in Seq(X) /\ Len(p) = Len(s) /\ Len(q) = Len(t)
  <2>1. p \in Seq(X) /\ Len(p) = Len(s)
    BY <1>1, <1>4
  <2>2. q \in Seq(X) /\ Len(q) = Len(t)
    BY <1>1, <1>4
  <2> QED BY <2>1, <2>2
<1>6. \A i \in 1..Len(s) : p[i] = q[i]
  <2> SUFFICES ASSUME NEW i \in 1..Len(s) PROVE p[i] = q[i]
    OBVIOUS
  <2>1. i \in 1..Len(t) /\ (Len(s) - i) + 1 \in 1..Len(s)
    BY <1>1
  <2>2. p[i] = s[(Len(s) - i) + 1] /\ q[i] = t[(Len(t) - i) + 1]
    BY <2>1 DEF Reverse, p, q
  <2>3. s[(Len(s) - i) + 1] = t[Len(t) - Len(s) + ((Len(s) - i) + 1)]
    BY <2>1 DEF EndOf
  <2>4. Len(t) - Len(s) + ((Len(s) - i) + 1) = (Len(t) - i) + 1
    BY <1>1, <2>1
  <2> QED BY <2>2, <2>3, <2>4
<1>7. /\ SubSeq(p, 1, Len(p)) \in Seq(X) /\ SubSeq(q, 1, Len(p)) \in Seq(X)
      /\ Len(SubSeq(p, 1, Len(p))) = Len(p) /\ Len(SubSeq(q, 1, Len(p))) = Len(p)
      /\ \A i \in 1..Len(p) : SubSeq(p, 1, Len(p))[i] = p[i] /\ SubSeq(q, 1, Len(p))[i] = q[i]
  BY <1>1, <1>5
<1>8. SubSeq(p, 1, Len(p)) = SubSeq(q, 1, Len(p))
  BY <1>5, <1>6, <1>7
<1>9. IsPrefix(p, q)
  BY <1>1, <1>5, <1>8 DEF IsPrefix
<1> QED BY <1>9 DEF IsSuffix, p, q

\* What _restore_unconsumed takes back is what the run has not taken.
LEMMA UnconsumedIsInput ==
  ASSUME steered \in Seq(QueueItem), input \in Seq(Messages), EndOf(input, Ids(steered))
  PROVE  /\ Unconsumed(Len(input)) \in Seq(QueueItem)
         /\ Ids(Unconsumed(Len(input))) = input
         /\ Range(Unconsumed(Len(input))) \subseteq Range(steered)
<1> DEFINE part == Unconsumed(Len(input))
           off  == Len(steered) - Len(input)
<1>1. /\ Ids(steered) \in Seq(Messages) /\ Len(Ids(steered)) = Len(steered)
      /\ DOMAIN steered = 1..Len(steered) /\ DOMAIN input = 1..Len(input)
      /\ \A i \in DOMAIN steered : Ids(steered)[i] = steered[i].id
  BY IdsOf
<1>2. Len(input) \in Nat /\ Len(steered) \in Nat /\ Len(input) <= Len(steered)
  BY <1>1 DEF EndOf
<1>3. /\ part \in Seq(QueueItem) /\ Len(part) = Len(input) /\ DOMAIN part = 1..Len(input)
      /\ \A i \in 1..Len(input) : part[i] = steered[off + i]
  BY <1>1, <1>2 DEF Unconsumed
<1>4. \A i \in 1..Len(input) : off + i \in DOMAIN steered
  BY <1>1, <1>2
<1> HIDE DEF part
<1>5. /\ Ids(part) \in Seq(Messages) /\ Len(Ids(part)) = Len(part)
      /\ \A i \in DOMAIN part : Ids(part)[i] = part[i].id
  BY <1>3, IdsOf
<1>6. \A i \in 1..Len(input) : Ids(part)[i] = input[i]
  <2> SUFFICES ASSUME NEW i \in 1..Len(input) PROVE Ids(part)[i] = input[i]
    OBVIOUS
  <2>1. Ids(part)[i] = steered[off + i].id
    BY <1>3, <1>5
  <2>2. input[i] = Ids(steered)[off + i]
    BY <1>1 DEF EndOf
  <2> QED BY <1>1, <1>4, <2>1, <2>2
<1>7. Ids(part) = input
  BY <1>3, <1>5, <1>6
<1>8. Range(part) \subseteq Range(steered)
  BY <1>3, <1>4 DEF Range
<1> QED BY <1>3, <1>7, <1>8 DEF part

-----------------------------------------------------------------------------
\* Every message accepted and not removed is in one place.
Placed ==
  /\ IsInjective(input) /\ IsInjective(delivered)
  /\ Held(pending) \intersect Range(input) = {}
  /\ Held(pending) \intersect Range(delivered) = {}
  /\ Range(input) \intersect Range(delivered) = {}
  /\ Held(pending) \union Range(input) \union Range(delivered) = accepted \ removed
  /\ removed \subseteq accepted

QueueInv ==
  /\ Regular(pending)
  /\ steered \in Seq(QueueItem) /\ input \in Seq(Messages) /\ delivered \in Seq(Messages)
  /\ nextOrder \in Nat
  /\ Numbers(Range(pending) \union Range(steered), nextOrder)
  /\ IF phase = "running" THEN EndOf(input, Ids(steered)) ELSE input = <<>>
  /\ phase \in {"created", "starting"} => active \in Held(pending)
  /\ ~closing => Placed

\* A queue that may become `pending`, with or without a message just accepted.
Accepts(queue) ==
  /\ Regular(queue)
  /\ nextOrder' \in Nat /\ Numbers(Range(queue) \union Range(steered), nextOrder')
  /\ phase \in {"created", "starting"} => active \in Held(queue)
  /\ Held(queue) \intersect Range(input) = {}
  /\ Held(queue) \intersect Range(delivered) = {}
  /\ Held(queue) \union Range(input) \union Range(delivered) = accepted' \ removed'
  /\ removed' \subseteq accepted'
  /\ delivered' = delivered /\ ~closing

LEMMA InitQueueInv == Init => QueueInv
<1> SUFFICES ASSUME Init PROVE QueueInv
  OBVIOUS
<1>1. <<>> \in Seq(QueueItem) /\ <<>> \in Seq(Messages) /\ 0 \in Nat
  OBVIOUS
<1>2. \A i \in DOMAIN <<>> : FALSE
  OBVIOUS
<1>3. Range(<<>>) = {} /\ IsInjective(<<>>) /\ Sorted(<<>>)
  BY <1>2 DEF Range, IsInjective, Sorted
<1>4. DOMAIN Ids(<<>>) = DOMAIN <<>> /\ Held(<<>>) = {<<>>[i].id : i \in DOMAIN <<>>}
  BY <1>1, IdsOf
<1>5. IsInjective(Ids(<<>>)) /\ Held(<<>>) = {}
  BY <1>2, <1>4 DEF IsInjective
<1>6. Regular(<<>>)
  BY <1>1, <1>3, <1>5 DEF Regular
<1>7. Numbers({}, 0)
  BY DEF Numbers
<1>8. Numbers(Range(pending) \union Range(steered), nextOrder)
  BY <1>3, <1>7 DEF Init
<1>9. Placed
  BY <1>3, <1>5 DEF Init, Placed
<1> QED BY <1>1, <1>6, <1>8, <1>9 DEF Init, QueueInv

LEMMA PendingAccepted ==
  ASSUME QueueInv, ~closing, UNCHANGED <<nextOrder, ghostVars>>
  PROVE  Accepts(pending)
BY DEF QueueInv, Placed, Accepts, ghostVars

LEMMA NewMessageAccepted ==
  ASSUME QueueInv, ~closing, NEW m \in Messages, Enqueue(m)
  PROVE  Accepts(Append(pending, Item(m))) /\ m \in Held(Append(pending, Item(m)))
<1> DEFINE queue == Append(pending, Item(m))
<1>1. /\ Regular(pending) /\ nextOrder \in Nat /\ steered \in Seq(QueueItem)
      /\ Numbers(Range(pending) \union Range(steered), nextOrder) /\ Placed
  BY DEF QueueInv
<1>2. m \notin Held(pending) /\ m \notin Range(input) /\ m \notin Range(delivered)
  BY <1>1 DEF Placed, Enqueue
<1>3. \A a \in Range(steered) : a.order \in Nat
  <2>1. \A i \in DOMAIN steered : steered[i] \in QueueItem
    BY <1>1
  <2> QED BY <2>1 DEF Range, QueueItem
<1>4. /\ Regular(queue) /\ Held(queue) = Held(pending) \union {m}
      /\ Numbers(Range(queue) \union Range(steered), nextOrder + 1)
  BY <1>1, <1>2, <1>3, NewItemRegular
<1> HIDE DEF queue
<1>5. /\ Held(queue) \union Range(input) \union Range(delivered) = accepted' \ removed'
      /\ removed' \subseteq accepted'
  BY <1>1, <1>4 DEF Placed, Enqueue
<1>6. Held(queue) \intersect Range(input) = {} /\ Held(queue) \intersect Range(delivered) = {}
  BY <1>1, <1>2, <1>4 DEF Placed
<1>7. phase \in {"created", "starting"} => active \in Held(queue)
  BY <1>4 DEF QueueInv
<1>8. nextOrder' = nextOrder + 1 /\ nextOrder' \in Nat /\ delivered' = delivered
  BY <1>1 DEF Enqueue
<1>9. Accepts(queue)
  BY <1>4, <1>5, <1>6, <1>7, <1>8 DEF Accepts
<1> QED BY <1>4, <1>9 DEF queue

LEMMA FlagsAccepted ==
  ASSUME NEW queue, Accepts(queue), NEW m
  PROVE  Accepts(RequestSteer(queue, m))
<1> DEFINE flagged == RequestSteer(queue, m)
<1>1. /\ Regular(flagged) /\ Held(flagged) = Held(queue) /\ Alike(Range(flagged), Range(queue))
  BY RequestSteerRegular DEF Accepts
<1> HIDE DEF flagged
<1>2. Alike(Range(flagged) \union Range(steered), Range(queue) \union Range(steered))
  BY <1>1 DEF Alike
<1>3. Numbers(Range(flagged) \union Range(steered), nextOrder')
  BY <1>2, NumbersOfAlike DEF Accepts
<1> QED BY <1>1, <1>3 DEF Accepts, flagged

\* The message stays in the queue, and perhaps a task is started for one of them.
LEMMA QueuedKeepsInv ==
  ASSUME QueueInv, NEW queue, Accepts(queue), pending' = queue,
         UNCHANGED <<steered, input, closing>>,
         \/ UNCHANGED <<active, phase>>
         \/ Idle /\ phase' = "created" /\ active' \in Held(queue)
  PROVE  QueueInv'
<1>1. /\ steered' \in Seq(QueueItem) /\ input' \in Seq(Messages) /\ delivered' \in Seq(Messages)
      /\ nextOrder' \in Nat /\ Regular(pending)'
      /\ Numbers(Range(pending) \union Range(steered), nextOrder)'
  BY DEF QueueInv, Accepts
<1>2. IF phase' = "running" THEN EndOf(input, Ids(steered))' ELSE input' = <<>>
  BY DEF QueueInv, Idle
<1>3. phase' \in {"created", "starting"} => active' \in Held(pending')
  BY DEF Accepts
<1>4. Placed'
  BY DEF QueueInv, Placed, Accepts
<1> QED BY <1>1, <1>2, <1>3, <1>4 DEF QueueInv

\* The message goes into the run.
LEMMA SteeredKeepsInv ==
  ASSUME QueueInv, NEW queue, Accepts(queue), NEW m \in Held(queue),
         phase = "running", UNCHANGED <<active, phase, closing>>,
         input' = Append(input, m), pending' = Without(queue, m),
         steered' = steered \o Select(queue, At(queue, m))
  PROVE  QueueInv'
<1> DEFINE one == Select(queue, At(queue, m))
<1>1. /\ Regular(Without(queue, m)) /\ Held(Without(queue, m)) = Held(queue) \ {m}
      /\ Range(Without(queue, m)) \subseteq Range(queue)
  BY WithoutRegular DEF Accepts
<1>2. one \in Seq(QueueItem) /\ Len(one) = 1 /\ Range(one) \subseteq Range(queue) /\ one[1].id = m
  BY OneAt DEF Accepts
<1>3. /\ steered \in Seq(QueueItem) /\ input \in Seq(Messages) /\ delivered \in Seq(Messages)
      /\ EndOf(input, Ids(steered)) /\ Placed
  BY DEF QueueInv, Accepts
<1>4. m \in Messages
  <2>1. PICK i \in DOMAIN queue : m = queue[i].id /\ queue[i] \in QueueItem
    BY IdsOf DEF Accepts, Regular
  <2> QED BY <2>1 DEF QueueItem
<1> HIDE DEF one
<1>5. /\ steered' \in Seq(QueueItem) /\ Range(steered') = Range(steered) \union Range(one)
  BY <1>2, <1>3, Joined DEF one
<1>6. /\ input' \in Seq(Messages) /\ Range(input') = Range(input) \union {m}
      /\ IsInjective(input')
  <2>1. m \notin Range(input)
    BY DEF Accepts
  <2> QED BY <1>3, <1>4, <2>1, Appended DEF Placed
<1>7. Numbers(Range(pending) \union Range(steered), nextOrder)'
  <2>1. Alike(Range(pending') \union Range(steered'), Range(queue) \union Range(steered))
    BY <1>1, <1>2, <1>5 DEF Alike
  <2> QED BY <2>1, NumbersOfAlike DEF Accepts
<1>8. EndOf(input', Ids(steered'))
  <2>1. /\ Len(Ids(steered)) = Len(steered) /\ Len(Ids(steered')) = Len(steered')
        /\ \A i \in DOMAIN steered : Ids(steered)[i] = steered[i].id
        /\ \A i \in DOMAIN steered' : Ids(steered')[i] = steered'[i].id
    BY <1>3, <1>5, IdsOf
  <2>2. /\ Len(steered) \in Nat /\ Len(input) \in Nat /\ Len(input) <= Len(steered)
        /\ DOMAIN steered = 1..Len(steered)
    BY <1>3, <2>1 DEF EndOf
  <2>3. /\ Len(steered') = Len(steered) + 1 /\ DOMAIN steered' = 1..(Len(steered) + 1)
        /\ steered'[Len(steered) + 1] = one[1]
        /\ \A i \in 1..Len(steered) : steered'[i] = steered[i]
    <3>1. steered' = steered \o one
      BY DEF one
    <3>2. /\ Len(steered \o one) = Len(steered) + 1
          /\ DOMAIN (steered \o one) = 1..(Len(steered) + 1)
          /\ \A i \in 1..(Len(steered) + 1) :
               (steered \o one)[i] = IF i <= Len(steered) THEN steered[i] ELSE one[i - Len(steered)]
      <4>1. /\ Len(steered \o one) = Len(steered) + Len(one)
            /\ DOMAIN (steered \o one) = 1..(Len(steered) + Len(one))
            /\ \A i \in 1..(Len(steered) + Len(one)) :
                 (steered \o one)[i] = IF i <= Len(steered) THEN steered[i]
                                                           ELSE one[i - Len(steered)]
        <5>1. one \in Seq(QueueItem) /\ steered \in Seq(QueueItem)
          BY <1>2, <1>3
        <5> QED BY <5>1, JoinedAt
      <4> QED BY <1>2, <4>1
    <3>3. (Len(steered) + 1) - Len(steered) = 1 /\ ~(Len(steered) + 1 <= Len(steered))
      BY <2>2
    <3>4. /\ Len(steered) + 1 \in 1..(Len(steered) + 1)
          /\ \A i \in 1..Len(steered) : i \in 1..(Len(steered) + 1) /\ i <= Len(steered)
      BY <2>2
    <3>5. (steered \o one)[Len(steered) + 1] = one[1]
      BY <3>2, <3>3, <3>4
    <3>6. \A i \in 1..Len(steered) : (steered \o one)[i] = steered[i]
      BY <3>2, <3>4
    <3> QED BY <3>1, <3>2, <3>5, <3>6
  <2>4. /\ Len(input') = Len(input) + 1 /\ input'[Len(input) + 1] = m
        /\ \A i \in 1..Len(input) : input'[i] = input[i]
    BY <1>3, <1>4
  <2>5. ASSUME NEW i \in 1..Len(input')
        PROVE  input'[i] = Ids(steered')[Len(Ids(steered')) - Len(input') + i]
    <3>1. Len(Ids(steered')) - Len(input') + i = Len(steered) - Len(input) + i
      BY <2>1, <2>2, <2>3, <2>4
    <3>2. CASE i \in 1..Len(input)
      <4>1. Len(steered) - Len(input) + i \in 1..Len(steered)
        BY <2>2, <3>2
      <4>2. input[i] = Ids(steered)[Len(steered) - Len(input) + i]
        BY <1>3, <2>1, <3>2 DEF EndOf
      <4>3. Len(steered) - Len(input) + i \in DOMAIN steered'
        BY <2>2, <2>3, <4>1
      <4> DEFINE k == Len(steered) - Len(input) + i
      <4> HIDE DEF k
      <4>4. k \in DOMAIN steered /\ k \in DOMAIN steered' /\ steered'[k] = steered[k]
        BY <2>2, <2>3, <4>1, <4>3 DEF k
      <4>5. Ids(steered')[k] = Ids(steered)[k]
        BY <2>1, <4>4
      <4>6. input'[i] = input[i] /\ input[i] = Ids(steered)[k]
        BY <2>4, <3>2, <4>2 DEF k
      <4>7. Len(Ids(steered')) - Len(input') + i = k
        BY <3>1 DEF k
      <4> QED BY <4>5, <4>6, <4>7
    <3>3. CASE i = Len(input) + 1
      <4>1. Len(steered) - Len(input) + i = Len(steered) + 1 /\ Len(steered) + 1 \in DOMAIN steered'
        BY <2>2, <2>3, <3>3
      <4> QED BY <1>2, <2>1, <2>3, <2>4, <3>1, <3>3, <4>1
    <3> QED BY <2>2, <2>4, <3>2, <3>3
  <2>6. Len(input') <= Len(Ids(steered'))
    BY <2>1, <2>2, <2>3, <2>4
  <2> QED BY <2>5, <2>6 DEF EndOf
<1>9. Placed'
  BY <1>1, <1>3, <1>6 DEF Placed, Accepts
<1> QED BY <1>1, <1>3, <1>5, <1>6, <1>7, <1>8, <1>9 DEF QueueInv, Accepts

LEMMA SteerKeepsQueue ==
  ASSUME QueueInv, NEW queue, Accepts(queue), NEW m \in Held(queue), Steer(m, queue),
         UNCHANGED closing
  PROVE  QueueInv'
<1>1. CASE Idle /\ Start(m) /\ pending' = queue /\ UNCHANGED <<steered, input>>
  BY <1>1, QueuedKeepsInv DEF Start
<1>2. CASE pending' = RequestSteer(queue, m) /\ NotStarted /\ UNCHANGED <<steered, input>>
  BY <1>2, FlagsAccepted, QueuedKeepsInv DEF NotStarted
<1>3. CASE /\ phase = "running" /\ open /\ input' = Append(input, m)
           /\ pending' = Without(queue, m)
           /\ steered' = steered \o Select(queue, At(queue, m))
           /\ NotStarted
  BY <1>3, SteeredKeepsInv DEF NotStarted
<1>4. CASE pending' = queue /\ NotStarted /\ UNCHANGED <<steered, input>>
  BY <1>4, QueuedKeepsInv DEF NotStarted
<1> QED BY <1>1, <1>2, <1>3, <1>4 DEF Steer

LEMMA InputKeepsQueue ==
  ASSUME QueueInv, NEW m \in Messages,
         Submit(m) \/ SubmitAnswer(m) \/ Notify(m) \/ SteerPending(m) \/ RemovePending(m)
  PROVE  QueueInv'
<1> DEFINE queue == Append(pending, Item(m))
<1>1. ASSUME Enqueue(m), ~closing PROVE Accepts(queue) /\ m \in Held(queue)
  BY <1>1, NewMessageAccepted
<1>2. ASSUME Regular(queue) PROVE queue[1].id \in Held(queue)
  <2>1. Len(queue) \in Nat /\ Len(queue) > 0
    <3>1. pending \in Seq(QueueItem) /\ Item(m) \in QueueItem
      BY DEF QueueInv, Regular, Item, QueueItem
    <3> QED BY <3>1
  <2>2. 1 \in DOMAIN queue
    <3> HIDE DEF queue
    <3> QED BY <1>2, <2>1 DEF Regular
  <2> HIDE DEF queue
  <2> QED BY <1>2, <2>2, IdsOf DEF Regular
<1> HIDE DEF queue
<1>3. CASE Submit(m)
  <2>1. Accepts(queue) /\ m \in Held(queue) /\ pending' = queue /\ UNCHANGED <<steered, input, closing>>
    BY <1>1, <1>3 DEF Submit, stopVars, queue
  <2>2. CASE MayStart /\ Start(m)
    BY <2>1, <2>2, QueuedKeepsInv DEF MayStart, Start
  <2>3. CASE NotStarted
    BY <2>1, <2>3, QueuedKeepsInv DEF NotStarted
  <2> QED BY <1>3, <2>2, <2>3 DEF Submit
<1>4. CASE SubmitAnswer(m)
  <2>1. Accepts(queue) /\ m \in Held(queue) /\ UNCHANGED closing
    BY <1>1, <1>4 DEF SubmitAnswer, stopVars
  <2>2. CASE pending' = queue /\ NotStarted /\ UNCHANGED <<steered, input>>
    BY <2>1, <2>2, QueuedKeepsInv DEF NotStarted
  <2>3. CASE Steer(m, queue)
    BY <2>1, <2>3, SteerKeepsQueue
  <2> QED BY <1>4, <2>2, <2>3 DEF SubmitAnswer, queue
<1>5. CASE Notify(m)
  <2>1. Accepts(queue) /\ m \in Held(queue) /\ UNCHANGED closing
    BY <1>1, <1>5 DEF Notify, stopVars
  <2>2. CASE pending' = queue /\ NotStarted /\ UNCHANGED <<steered, input>>
    BY <2>1, <2>2, QueuedKeepsInv DEF NotStarted
  <2>3. CASE Idle /\ pending' = queue /\ Start(queue[1].id) /\ UNCHANGED <<steered, input>>
    <3>1. queue[1].id \in Held(queue)
      BY <1>2, <2>1 DEF Accepts
    <3> QED BY <2>1, <2>3, <3>1, QueuedKeepsInv DEF Start
  <2>4. CASE Steer(m, queue)
    BY <2>1, <2>4, SteerKeepsQueue
  <2> QED BY <1>5, <2>2, <2>3, <2>4 DEF Notify, queue
<1>6. CASE SteerPending(m)
  <2>1. Accepts(pending) /\ m \in Held(pending)
    BY <1>6, PendingAccepted DEF SteerPending, Queued, Held
  <2> QED BY <1>6, <2>1, SteerKeepsQueue DEF SteerPending, stopVars
<1>7. CASE RemovePending(m)
  <2>1. /\ pending' = Without(pending, m) /\ removed' = removed \union {m} /\ m # active
        /\ m \in Held(pending)
        /\ UNCHANGED <<steered, nextOrder, input, closing, accepted, delivered, active, phase>>
    BY <1>7 DEF RemovePending, NotStarted, stopVars, Queued, Held
  <2>2. /\ Regular(pending') /\ Held(pending') = Held(pending) \ {m}
        /\ Range(pending') \subseteq Range(pending)
    BY <2>1, WithoutRegular DEF QueueInv
  <2>3. Numbers(Range(pending) \union Range(steered), nextOrder)'
    BY <2>1, <2>2 DEF QueueInv, Numbers
  <2>4. phase' \in {"created", "starting"} => active' \in Held(pending')
    BY <2>1, <2>2 DEF QueueInv
  <2>5. ~closing' => Placed'
    BY <2>1, <2>2 DEF QueueInv, Placed
  <2>6. IF phase' = "running" THEN EndOf(input, Ids(steered))' ELSE input' = <<>>
    BY <2>1 DEF QueueInv
  <2> QED BY <2>1, <2>2, <2>3, <2>4, <2>5, <2>6 DEF QueueInv
<1> QED BY <1>3, <1>4, <1>5, <1>6, <1>7

LEMMA StreamReadyKeepsQueue ==
  ASSUME QueueInv, StreamReady
  PROVE  QueueInv'
<1> DEFINE rest   == Without(pending, active)
           wanted == {i \in DOMAIN rest : rest[i].steer}
<1>1. /\ phase = "starting" /\ phase' = "running" /\ active \in Held(pending) /\ input = <<>>
      /\ pending' = Select(rest, DOMAIN rest \ wanted) /\ steered' = Select(rest, wanted)
      /\ input' = Ids(steered') /\ delivered' = Append(delivered, active)
      /\ UNCHANGED <<nextOrder, active, closing, accepted, removed>>
  BY DEF StreamReady, QueueInv, stopVars
<1>2. /\ Regular(rest) /\ Held(rest) = Held(pending) \ {active}
      /\ Range(rest) \subseteq Range(pending)
  BY WithoutRegular DEF QueueInv
<1> HIDE DEF rest
<1>3. wanted \in SUBSET DOMAIN rest /\ DOMAIN rest \ wanted \in SUBSET DOMAIN rest
  OBVIOUS
<1> HIDE DEF wanted
<1>4. /\ Regular(pending') /\ Held(pending') = {rest[i].id : i \in DOMAIN rest \ wanted}
      /\ Range(pending') \subseteq Range(rest)
  BY <1>1, <1>2, <1>3, SelectRegular
<1>5. /\ Regular(steered') /\ Held(steered') = {rest[i].id : i \in wanted}
      /\ Range(steered') \subseteq Range(rest)
  BY <1>1, <1>2, <1>3, SelectRegular
<1>6. /\ DOMAIN Ids(rest) = DOMAIN rest /\ Held(rest) = {rest[i].id : i \in DOMAIN rest}
      /\ \A i \in DOMAIN rest : Ids(rest)[i] = rest[i].id
  BY <1>2, IdsOf DEF Regular
<1>7. \A i, j \in DOMAIN rest : rest[i].id = rest[j].id => i = j
  BY <1>2, <1>6 DEF Regular, IsInjective
<1>8. Held(pending') \intersect Held(steered') = {}
  BY <1>3, <1>4, <1>5, <1>7
<1>9. Held(pending') \union Held(steered') = Held(rest)
  BY <1>3, <1>4, <1>5, <1>6
<1>10. /\ input' \in Seq(Messages) /\ Range(input') = Held(steered') /\ IsInjective(input')
       /\ steered' \in Seq(QueueItem)
  BY <1>1, <1>5, IdsOf DEF Regular, Held
<1>11. EndOf(input, Ids(steered))'
  <2>1. Len(input') \in Nat
    BY <1>10
  <2>2. \A i \in 1..Len(input') : Len(input') - Len(input') + i = i
    BY <2>1
  <2> QED BY <1>1, <2>1, <2>2 DEF EndOf
<1>12. active \in Messages /\ delivered \in Seq(Messages)
  <2>1. pending \in Seq(QueueItem)
    BY DEF QueueInv, Regular
  <2>2. /\ Held(pending) = {pending[i].id : i \in DOMAIN pending}
        /\ \A i \in DOMAIN pending : pending[i] \in QueueItem
    BY <2>1, IdsOf
  <2>3. PICK i \in DOMAIN pending : active = pending[i].id /\ pending[i] \in QueueItem
    BY <1>1, <2>2
  <2> QED BY <2>3 DEF QueueItem, QueueInv
<1>13. /\ delivered' \in Seq(Messages) /\ Range(delivered') = Range(delivered) \union {active}
       /\ IsInjective(delivered) /\ active \notin Range(delivered) => IsInjective(delivered')
  BY <1>1, <1>12, Appended
<1>14. Range(input) = {}
  BY <1>1 DEF Range
<1>15. ~closing' => Placed'
  <2> SUFFICES ASSUME ~closing PROVE Placed'
    BY <1>1
  <2>1. Placed
    BY DEF QueueInv
  <2>2. active \notin Range(delivered)
    BY <1>1, <2>1 DEF Placed
  <2>3. IsInjective(input') /\ IsInjective(delivered')
    BY <1>10, <1>13, <2>1, <2>2 DEF Placed
  <2>4. Held(pending') \intersect Range(input') = {}
    BY <1>8, <1>10
  <2>5. /\ Held(pending') \intersect Range(delivered') = {}
        /\ Range(input') \intersect Range(delivered') = {}
    BY <1>2, <1>9, <1>10, <1>13, <2>1 DEF Placed
  <2>6. Held(pending') \union Range(input') \union Range(delivered') = accepted' \ removed'
    <3>1. Held(pending) \union Range(delivered) = accepted \ removed
      BY <1>14, <2>1 DEF Placed
    <3> QED BY <1>1, <1>2, <1>9, <1>10, <1>13, <3>1
  <2>7. removed' \subseteq accepted'
    BY <1>1, <2>1 DEF Placed
  <2> QED BY <2>3, <2>4, <2>5, <2>6, <2>7 DEF Placed
<1>16. Numbers(Range(pending) \union Range(steered), nextOrder)'
  <2>1. Numbers(Range(pending), nextOrder)
    BY DEF QueueInv, Numbers
  <2>2. Range(pending') \union Range(steered') \subseteq Range(pending)
    BY <1>2, <1>4, <1>5
  <2> QED BY <1>1, <2>1, <2>2 DEF Numbers
<1> QED BY <1>1, <1>4, <1>10, <1>11, <1>13, <1>15, <1>16 DEF QueueInv

LEMMA DrainKeepsQueue ==
  ASSUME QueueInv, Drain
  PROVE  QueueInv'
<1>1. /\ phase = "running" /\ phase' = "running"
      /\ input' = <<>> /\ delivered' = delivered \o input
      /\ UNCHANGED <<pending, steered, nextOrder, active, closing, accepted, removed>>
      /\ input \in Seq(Messages) /\ delivered \in Seq(Messages) /\ steered \in Seq(QueueItem)
  BY DEF Drain, stopVars, QueueInv
<1>2. /\ delivered' \in Seq(Messages) /\ Range(delivered') = Range(delivered) \union Range(input)
      /\ IsInjective(delivered) /\ IsInjective(input) /\ Range(delivered) \intersect Range(input) = {}
           => IsInjective(delivered')
  BY <1>1, Joined
<1>3. input' \in Seq(Messages) /\ Range(input') = {} /\ IsInjective(input') /\ Len(input') = 0
  BY <1>1 DEF Range, IsInjective
<1>4. EndOf(input, Ids(steered))'
  <2>1. Len(Ids(steered)) \in Nat
    BY <1>1, IdsOf
  <2> QED BY <1>1, <1>3, <2>1 DEF EndOf
<1>5. ~closing' => Placed'
  BY <1>1, <1>2, <1>3 DEF QueueInv, Placed
<1>6. Regular(pending)' /\ Numbers(Range(pending) \union Range(steered), nextOrder)'
  BY <1>1 DEF QueueInv
<1> QED BY <1>1, <1>2, <1>3, <1>4, <1>5, <1>6 DEF QueueInv

\* What a run that ends gives back.
LEMMA RestoreKeeps ==
  ASSUME QueueInv, RestoreUnconsumed, ~closing \/ phase # "running"
  PROVE  /\ Regular(pending') /\ Held(pending') = Held(pending) \union Range(input)
         /\ Alike(Range(pending'), Range(pending) \union Range(steered))
<1>1. /\ Regular(pending) /\ (phase = "running" => Placed) /\ steered \in Seq(QueueItem) /\ input \in Seq(Messages)
      /\ Numbers(Range(pending) \union Range(steered), nextOrder)
      /\ (phase # "running" => input = <<>>) /\ (phase = "running" => EndOf(input, Ids(steered)))
  BY DEF QueueInv
<1>2. CASE phase = "running" /\ steered # <<>> /\ input # <<>>
  <2> DEFINE back   == Unconsumed(Len(input))
             queue  == pending \o back
  <2>1. /\ back \in Seq(QueueItem) /\ Ids(back) = input /\ Range(back) \subseteq Range(steered)
    BY <1>1, <1>2, UnconsumedIsInput
  <2>2. pending' = ClearSteer(ByOrder(queue))
    BY <1>2 DEF RestoreUnconsumed
  <2> HIDE DEF back
  <2>3. queue \in Seq(QueueItem) /\ Range(queue) = Range(pending) \union Range(back)
    BY <1>1, <2>1, Joined DEF Regular
  <2> HIDE DEF queue
  <2>4. Ids(queue) = Ids(pending) \o Ids(back)
    <3>1. /\ Ids(pending) \in Seq(Messages) /\ Len(Ids(pending)) = Len(pending)
          /\ DOMAIN pending = 1..Len(pending)
          /\ \A i \in DOMAIN pending : Ids(pending)[i] = pending[i].id
      BY <1>1, IdsOf DEF Regular
    <3>2. /\ Ids(back) \in Seq(Messages) /\ Len(Ids(back)) = Len(back)
          /\ DOMAIN back = 1..Len(back)
          /\ \A i \in DOMAIN back : Ids(back)[i] = back[i].id
      BY <2>1, IdsOf
    <3>3. /\ Ids(queue) \in Seq(Messages) /\ Len(Ids(queue)) = Len(queue)
          /\ DOMAIN queue = 1..Len(queue)
          /\ \A i \in DOMAIN queue : Ids(queue)[i] = queue[i].id
      BY <2>3, IdsOf
    <3>4. /\ Len(queue) = Len(pending) + Len(back) /\ Len(pending) \in Nat /\ Len(back) \in Nat
          /\ \A i \in 1..(Len(pending) + Len(back)) :
               queue[i] = IF i <= Len(pending) THEN pending[i] ELSE back[i - Len(pending)]
      BY <1>1, <2>1, JoinedAt DEF Regular, queue
    <3>5. /\ Ids(pending) \o Ids(back) \in Seq(Messages)
          /\ Len(Ids(pending) \o Ids(back)) = Len(Ids(pending)) + Len(Ids(back))
          /\ \A i \in 1..(Len(Ids(pending)) + Len(Ids(back))) :
               (Ids(pending) \o Ids(back))[i] =
                 IF i <= Len(Ids(pending)) THEN Ids(pending)[i]
                                           ELSE Ids(back)[i - Len(Ids(pending))]
      <4>1. Ids(pending) \in Seq(Messages) /\ Ids(back) \in Seq(Messages)
        BY <3>1, <3>2
      <4> QED BY <4>1, JoinedAt
    <3>6. ASSUME NEW i \in 1..Len(queue)
          PROVE  Ids(queue)[i] = (Ids(pending) \o Ids(back))[i]
      <4>1. CASE i <= Len(pending)
        <5>1. i \in DOMAIN pending
          BY <3>1, <3>4, <4>1
        <5>2. Ids(queue)[i] = queue[i].id /\ queue[i] = pending[i]
          BY <3>3, <3>4, <4>1
        <5>3. (Ids(pending) \o Ids(back))[i] = Ids(pending)[i]
          BY <3>1, <3>2, <3>4, <3>5, <4>1
        <5> QED BY <3>1, <5>1, <5>2, <5>3
      <4>2. CASE ~(i <= Len(pending))
        <5>1. i - Len(pending) \in DOMAIN back
          BY <3>2, <3>4, <4>2
        <5>2. Ids(queue)[i] = queue[i].id /\ queue[i] = back[i - Len(pending)]
          BY <3>3, <3>4, <4>2
        <5>3. (Ids(pending) \o Ids(back))[i] = Ids(back)[i - Len(pending)]
          BY <3>1, <3>2, <3>4, <3>5, <4>2
        <5> QED BY <3>2, <5>1, <5>2, <5>3
      <4> QED BY <4>1, <4>2
    <3>7. Len(Ids(queue)) = Len(Ids(pending) \o Ids(back))
      BY <3>1, <3>2, <3>3, <3>4, <3>5
    <3> QED BY <3>3, <3>5, <3>6, <3>7, SameSequence
  <2>5. /\ IsInjective(Ids(queue)) /\ Held(queue) = Held(pending) \union Range(input)
    <3>1. Ids(pending) \in Seq(Messages) /\ Ids(back) \in Seq(Messages)
      BY <1>1, <2>1, IdsOf DEF Regular
    <3> QED BY <1>1, <1>2, <2>1, <2>4, <3>1, Joined DEF Held, Placed, Regular
  <2>6. \A a, b \in Range(queue) : a.order = b.order => a.id = b.id
    BY <1>1, <2>1, <2>3 DEF Numbers
  <2>7. /\ Regular(ByOrder(queue)) /\ Range(ByOrder(queue)) = Range(queue)
        /\ Held(ByOrder(queue)) = Held(queue)
    BY <2>3, <2>5, <2>6, ByOrderRegular
  <2>8. /\ Regular(pending') /\ Held(pending') = Held(queue) /\ Alike(Range(pending'), Range(queue))
    BY <2>2, <2>7, ClearSteerRegular
  <2>9. Range(queue) \subseteq Range(pending) \union Range(steered)
    BY <2>1, <2>3
  <2> QED BY <2>5, <2>8, <2>9 DEF Alike
<1>3. CASE ~(phase = "running" /\ steered # <<>> /\ input # <<>>)
  <2>1. pending' = ClearSteer(pending)
    BY <1>3 DEF RestoreUnconsumed
  <2>2. input = <<>>
    <3>1. CASE phase = "running" /\ steered = <<>>
      <4>1. Len(Ids(steered)) = 0
        BY <1>1, <3>1, IdsOf
      <4> QED BY <1>1, <3>1, <4>1 DEF EndOf
    <3> QED BY <1>1, <1>3, <3>1
  <2>3. Range(input) = {}
    BY <2>2 DEF Range
  <2>4. /\ Regular(pending') /\ Held(pending') = Held(pending)
        /\ Alike(Range(pending'), Range(pending))
    BY <1>1, <2>1, ClearSteerRegular
  <2> QED BY <2>3, <2>4 DEF Alike
<1> QED BY <1>2, <1>3

\* The end of a run, or of a task that never began: nothing is left in either.
LEMMA GivenBackKeepsInv ==
  ASSUME QueueInv,
         \/ RestoreUnconsumed /\ (~closing \/ phase # "running")
         \/ UNCHANGED pending /\ closing,
         steered' = <<>>, input' = <<>>, phase' # "running",
         UNCHANGED <<nextOrder, closing, ghostVars>>,
         phase' \in {"created", "starting"} => active' \in Held(pending')
  PROVE  QueueInv'
<1>1. /\ steered' \in Seq(QueueItem) /\ input' \in Seq(Messages) /\ delivered' \in Seq(Messages)
      /\ nextOrder' \in Nat
  BY DEF QueueInv, ghostVars
<1>2. Range(input') = {} /\ Range(steered') = {} /\ IsInjective(input')
  BY DEF Range, IsInjective
<1>3. /\ Regular(pending') /\ (~closing => Held(pending') = Held(pending) \union Range(input))
      /\ Alike(Range(pending'), Range(pending) \union Range(steered))
  <2>1. CASE UNCHANGED pending /\ closing
    BY <2>1 DEF QueueInv, Alike
  <2>2. CASE RestoreUnconsumed /\ (~closing \/ phase # "running")
    BY <2>2, RestoreKeeps
  <2> QED BY <2>1, <2>2
<1>4. Numbers(Range(pending) \union Range(steered), nextOrder)'
  <2>1. Alike(Range(pending') \union Range(steered'), Range(pending) \union Range(steered))
    BY <1>2, <1>3
  <2> QED BY <2>1, NumbersOfAlike DEF QueueInv
<1>5. ~closing' => Placed'
  BY <1>2, <1>3 DEF QueueInv, Placed, ghostVars
<1> QED BY <1>1, <1>3, <1>4, <1>5 DEF QueueInv

\* The oldest message of a queue is in it.
LEMMA FirstIsHeld ==
  ASSUME NEW queue, Regular(queue), queue # <<>>
  PROVE  1 \in DOMAIN queue /\ queue[1].id \in Held(queue)
<1>1. 1 \in DOMAIN queue
  BY DEF Regular
<1> QED BY <1>1, IdsOf DEF Regular

LEMMA FinishKeepsQueue ==
  ASSUME QueueInv, Finish
  PROVE  QueueInv'
<1>1. /\ IF closing THEN UNCHANGED pending ELSE RestoreUnconsumed
      /\ steered' = <<>> /\ input' = <<>>
      /\ UNCHANGED <<nextOrder, closing, ghostVars>>
  BY DEF Finish, stopVars
<1>2. CASE MayContinue /\ pending' # <<>>
  <2>1. Start(pending'[1].id) /\ ~closing
    BY <1>2 DEF Finish, MayContinue
  <2>2. Regular(pending')
    BY <1>1, <2>1, RestoreKeeps
  <2>3. pending'[1].id \in Held(pending')
    BY <1>2, <2>2, FirstIsHeld
  <2> QED BY <1>1, <2>1, <2>3, GivenBackKeepsInv DEF Start
<1>3. CASE ~(MayContinue /\ pending' # <<>>)
  <2>1. phase' = "none"
    BY <1>3 DEF Finish
  <2> QED BY <1>1, <2>1, GivenBackKeepsInv
<1> QED BY <1>2, <1>3

\* Steps that move no message.
LEMMA StillKeepsInv ==
  ASSUME QueueInv,
         UNCHANGED <<pending, steered, nextOrder, active, input, ghostVars>>,
         \/ UNCHANGED phase
         \/ phase = "created" /\ phase' = "starting",
         closing => closing'
  PROVE  QueueInv'
BY DEF QueueInv, Placed, ghostVars

LEMMA RunKeepsQueue ==
  ASSUME QueueInv, Run
  PROVE  QueueInv'
<1>1. CASE TaskBegins
  BY <1>1, StillKeepsInv DEF TaskBegins, runVars, stopVars
<1>2. CASE StreamReady
  BY <1>2, StreamReadyKeepsQueue
<1>3. CASE Drain
  BY <1>3, DrainKeepsQueue
<1>4. CASE CloseIfEmpty \/ CloseOnError \/ CloseOnCancel
  BY <1>4, StillKeepsInv DEF CloseIfEmpty, CloseOnError, CloseOnCancel, stopVars
<1>5. CASE Finish
  BY <1>5, FinishKeepsQueue
<1> QED BY <1>1, <1>2, <1>3, <1>4, <1>5 DEF Run

\* The last step of close drops what is left, which is no longer accounted for.
LEMMA CloseEndsKeepsQueue ==
  ASSUME QueueInv, CloseEnds
  PROVE  QueueInv'
<1>1. /\ closing /\ closing' /\ Idle /\ phase' = phase /\ pending' = <<>>
      /\ UNCHANGED <<steered, input, nextOrder, active, delivered>>
  BY DEF CloseEnds, runVars, ghostVars
<1>2. \A i \in DOMAIN <<>> : FALSE
  OBVIOUS
<1>3. <<>> \in Seq(QueueItem) /\ Range(<<>>) = {} /\ Sorted(<<>>)
  BY <1>2 DEF Range, Sorted
<1>4. DOMAIN Ids(<<>>) = DOMAIN <<>>
  BY <1>3, IdsOf
<1>5. Regular(<<>>)
  BY <1>2, <1>3, <1>4 DEF Regular, IsInjective
<1>6. Numbers(Range(pending) \union Range(steered), nextOrder)'
  BY <1>1, <1>3 DEF QueueInv, Numbers
<1>7. phase' = "none"
  BY <1>1 DEF Idle
<1> QED BY <1>1, <1>5, <1>6, <1>7 DEF QueueInv

LEMMA StopKeepsQueue ==
  ASSUME QueueInv, IInv, Stop \/ StopEnds \/ CloseBegins \/ CloseEnds
  PROVE  QueueInv'
<1>1. CASE Stop
  BY <1>1, StillKeepsInv DEF Stop
<1>2. CASE StopEnds
  <2>1. CASE NeverBegan
    <3>1. /\ RestoreUnconsumed /\ steered' = <<>> /\ phase' = "none"
          /\ UNCHANGED <<nextOrder, closing, ghostVars>>
      BY <1>2, <2>1 DEF StopEnds, ClearActive
    <3>2. input' = <<>>
      BY <1>2, <2>1 DEF StopEnds, QueueInv, NeverBegan
    <3>3. phase # "running"
      BY <2>1 DEF NeverBegan
    <3> QED BY <3>1, <3>2, <3>3, GivenBackKeepsInv
  <2>2. CASE ~NeverBegan
    BY <1>2, <2>2, StillKeepsInv DEF StopEnds
  <2> QED BY <2>1, <2>2
<1>3. CASE CloseBegins
  BY <1>3, StillKeepsInv DEF CloseBegins
<1>4. CASE CloseEnds
  BY <1>4, CloseEndsKeepsQueue
<1> QED BY <1>1, <1>2, <1>3, <1>4

LEMMA NextKeepsQueue ==
  ASSUME QueueInv, IInv, [Next]_vars
  PROVE  QueueInv'
<1>1. CASE UNCHANGED vars
  BY <1>1, StillKeepsInv DEF vars, ghostVars
<1>2. CASE Next
  BY <1>2, InputKeepsQueue, RunKeepsQueue, StopKeepsQueue DEF Next
<1> QED BY <1>1, <1>2

LEMMA QueueInductive == Spec => []QueueInv
<1> QED BY InitQueueInv, NextKeepsQueue, Inductive, PTL DEF Spec

\* Every message the controller accepted is queued, in the input of the run, or taken by
\* a run, once, unless the user removed it, whatever Stops, failures, closing and
\* steering happen; the input of a run is always the end of what was steered into it,
\* which _restore_unconsumed relies on.
THEOREM EveryMessageKept == Spec => []NothingLost
<1>1. ASSUME QueueInv PROVE NothingLost
  <2> DEFINE ids   == Ids(pending)
             trail == ids \o input \o delivered
  <2>1. /\ ids \in Seq(Messages) /\ input \in Seq(Messages) /\ delivered \in Seq(Messages)
        /\ IsInjective(ids)
    BY <1>1, IdsOf DEF QueueInv, Regular
  <2>2. ~closing => Placed
    BY <1>1 DEF QueueInv
  <2>3. ~closing => IsInjective(trail) /\ Range(trail) = accepted \ removed
    <3> SUFFICES ASSUME Placed PROVE IsInjective(trail) /\ Range(trail) = accepted \ removed
      BY <2>2
    <3>1. Range(ids) = Held(pending)
      BY DEF Held
    <3> HIDE DEF ids
    <3> DEFINE front == ids \o input
    <3>2. /\ front \in Seq(Messages) /\ Range(front) = Range(ids) \union Range(input)
          /\ IsInjective(front)
      BY <2>1, <3>1, Joined DEF Placed
    <3> HIDE DEF front
    <3>3. /\ Range(front \o delivered) = Range(front) \union Range(delivered)
          /\ IsInjective(front \o delivered)
      BY <2>1, <3>1, <3>2, Joined DEF Placed
    <3> QED BY <3>1, <3>2, <3>3 DEF front, Placed
  <2>4. phase = "running" => IsSuffix(input, Ids(steered))
    <3>1. Ids(steered) \in Seq(Messages)
      BY <1>1, IdsOf DEF QueueInv
    <3> QED BY <1>1, <2>1, <3>1, EndIsSuffix DEF QueueInv
  <2> QED BY <2>3, <2>4 DEF NothingLost
<1> QED BY <1>1, QueueInductive, PTL

-----------------------------------------------------------------------------
\* What the end of a run starts is older than the rest of the queue.
FollowUp ==
  Finish /\ active' # None =>
    \A i \in DOMAIN pending' : pending'[i].id # active' =>
      \E j \in DOMAIN pending' :
        pending'[j].id = active' /\ pending'[j].order < pending'[i].order

LEMMA FinishFollowsUp ==
  ASSUME QueueInv
  PROVE  FollowUp
<1> SUFFICES ASSUME Finish, active' # None,
                    NEW i \in DOMAIN pending', pending'[i].id # active'
             PROVE  \E j \in DOMAIN pending' :
                      pending'[j].id = active' /\ pending'[j].order < pending'[i].order
  BY DEF FollowUp
<1>1. MayContinue /\ pending' # <<>> /\ active' = pending'[1].id
  BY DEF Finish, Start
<1>2. RestoreUnconsumed /\ ~closing
  BY <1>1 DEF Finish, MayContinue
<1>3. Regular(pending')
  BY <1>2, RestoreKeeps
<1>4. 1 \in DOMAIN pending' /\ i # 1
  BY <1>1, <1>3, FirstIsHeld
<1>5. 1 < i
  BY <1>3, <1>4 DEF Regular
<1>6. pending'[1].order < pending'[i].order
  BY <1>3, <1>4, <1>5 DEF Regular, Sorted
<1> QED BY <1>1, <1>4, <1>6

\* A run that ends is followed by the oldest message in the queue, also when input it had
\* not consumed has just been put back among younger messages.
THEOREM OldestRunsNext == Spec => FollowUpsInOrder
<1>1. QueueInv => [FollowUp]_vars
  BY FinishFollowsUp
<1> QED BY <1>1, QueueInductive, PTL DEF Spec, FollowUpsInOrder, FollowUp

-------------------------------------------------------------------------------
(* Questions.                                                                  *)

\* Every step with questions is a step of the controller, or leaves it alone.
LEMMA StepsAreControllerSteps ==
  ASSUME [QuestionsNext]_allVars
  PROVE  [Next]_vars
<1>1. CASE UNCHANGED allVars
  BY <1>1 DEF allVars
<1>2. CASE Client
  BY <1>2 DEF Client, Next, Messages
<1>3. ASSUME NEW q \in Answers, Ask(q) \/ Answered(q) \/ Expires(q) \/ Interrupted(q) \/ BackgroundEnds(q)
      PROVE  UNCHANGED vars
  BY <1>3 DEF Ask, Answered, Expires, Interrupted, BackgroundEnds
<1>4. ASSUME NEW q \in Answers, NEW r \in Replies, Answer(q, r)
      PROVE  SubmitAnswer(q) \/ UNCHANGED vars
  BY <1>4 DEF Answer
<1>5. ASSUME NEW q \in Answers, Reported(q)
      PROVE  ReportOf[q] \in Messages /\ (Notify(ReportOf[q]) \/ UNCHANGED vars)
  BY <1>5, ReportOfAssumption DEF Reported, Messages
<1>6. CASE BeginRun \/ GetReady \/ Take \/ EndRun \/ LeaveRun \/ StopReturns \/ CloseQuestions
  BY <1>6 DEF BeginRun, GetReady, Take, EndRun, LeaveRun, StopReturns, CloseQuestions, Next, Run
<1>7. \A q \in Answers : q \in Messages
  BY DEF Messages
<1> QED
  BY <1>1, <1>2, <1>3, <1>4, <1>5, <1>6, <1>7 DEF QuestionsNext, Waiter, Next

LEMMA QuestionsFollowController == QuestionsSpec => Spec
<1>1. QuestionsInit => Init
  BY DEF QuestionsInit
<1> QED BY <1>1, StepsAreControllerSteps, PTL DEF QuestionsSpec, Spec

\* Questions strand nothing: whatever is asked, answered, skipped, late or
\* reported, an idle queue that holds messages is paused, and stays so while a
\* Stop waits.
THEOREM QuestionsStrandNothing == QuestionsSpec => []HeldOrRunning
BY QuestionsFollowController, NothingIsStranded, PTL

\* A late answer resumes a conversation as a user's message does; a report of a
\* question that was not answered in time never does.
THEOREM OnlyAnswersResume == QuestionsSpec => ResumedByUser
BY QuestionsFollowController, OnlyUserResumes, PTL

\* Late answers and reports, too, are queued, in the input of the run or taken, once,
\* and wait for their turn.
THEOREM QuestionsLoseNothing == QuestionsSpec => []NothingLost /\ FollowUpsInOrder
BY QuestionsFollowController, EveryMessageKept, OldestRunsNext, PTL

-------------------------------------------------------------------------------
(* One outcome.                                                                *)

Stages == {"none", "foreground", "interrupted", "lost", "background", "reporting", "over"}
Words  == Replies \union {"pending"}

QuestionsTyped ==
  /\ stage  \in [Answers -> Stages]
  /\ future \in [Answers -> {"none", "open"} \union Replies]
  /\ reply  \in [Answers -> {"none"} \union Replies]
  /\ told   \in [Answers -> Seq(Words)]

Untold(q)    == Len(told[q]) = 0
ToldOnce(q, w) == Len(told[q]) = 1 /\ told[q][1] = w
Unanswered(q) == q \in cards /\ reply[q] = "none" /\ Untold(q)

\* The Stop has taken the question from the run before it was answered.
Overtaken(q) ==
  /\ q \notin cards
  /\ \/ reply[q] = "answered" /\ ToldOnce(q, "answered")
     \/ reply[q] = "skipped" /\ Untold(q)

\* The conversation was closed over it.
Dropped(q) == closing /\ q \notin cards /\ reply[q] = "none" /\ Untold(q)

\* The run waits in the question; a Stop has cancelled it.
RunWaits == phase = "running" /\ open /\ (stopping => cancelled)

InForeground(q) ==
  /\ RunWaits
  /\ future[q] # "none"
  /\ \/ Done(q) /\ reply[q] = future[q] /\ Untold(q) /\ q \notin cards
     \/ ~Done(q) /\ Unanswered(q)
     \/ ~Done(q) /\ cancelled /\ Overtaken(q)

InBackground(q) ==
  /\ future[q] # "none" /\ ToldOnce(q, "pending")
  /\ reply[q] = IF Done(q) THEN future[q] ELSE "none"

InReport(q) ==
  /\ Done(q) /\ ToldOnce(q, "pending") /\ q \notin cards
  /\ reply[q] = future[q] \/ (reply[q] = "none" /\ future[q] = "skipped")

IsOver(q) ==
  /\ q \in cards => closing
  /\ \/ ToldOnce(q, "pending")
     \/ ToldOnce(q, reply[q]) /\ reply[q] # "none"
     \/ /\ Len(told[q]) = 2 /\ told[q][1] = "pending" /\ told[q][2] \in Replies
        /\ reply[q] = told[q][2] \/ (reply[q] = "none" /\ told[q][2] = "skipped")

Staged(q) ==
  /\ stage[q] = "none" => q \notin cards /\ reply[q] = "none" /\ Untold(q) /\ future[q] = "none"
  /\ stage[q] = "foreground" => InForeground(q)
  /\ stage[q] = "interrupted" => future[q] = "none" /\ (Unanswered(q) \/ Overtaken(q) \/ Dropped(q))
  /\ stage[q] = "lost" => future[q] = "none" /\ q \notin cards /\ Untold(q)
  /\ stage[q] = "background" => InBackground(q)
  /\ stage[q] = "reporting" => InReport(q)
  /\ stage[q] = "over" => future[q] = "none" /\ IsOver(q)

QInv == QuestionsTyped /\ \A q \in Answers : Staged(q)

\* What a question sees of a step that is not about it.
Same(q) ==
  /\ stage'[q] = stage[q] /\ future'[q] = future[q]
  /\ reply'[q] = reply[q] /\ told'[q] = told[q]
  /\ q \in cards' <=> q \in cards

\* A run with a question in it stays in it, and stays cancelled.
Steady(q) ==
  /\ stage[q] = "foreground" /\ RunWaits => RunWaits' /\ (cancelled => cancelled')
  /\ closing => closing'

LEMMA SameKeepsStaged ==
  ASSUME NEW q \in Answers, Staged(q), Same(q), Steady(q)
  PROVE  Staged(q)'
<1>1. Done(q)' <=> Done(q)
  BY DEF Done, Same
<1>2. CASE stage[q] = "foreground"
  BY <1>1, <1>2 DEF Staged, Same, Steady, InForeground, Unanswered, Overtaken, Untold, ToldOnce
<1>3. CASE stage[q] # "foreground"
  BY <1>1, <1>3 DEF Staged, Same, Steady, Unanswered, Overtaken, Dropped, Untold, ToldOnce,
                    InBackground, InReport, IsOver
<1> QED BY <1>2, <1>3

LEMMA SteerKeepsRun ==
  ASSUME NEW m, NEW queue, Steer(m, queue), UNCHANGED open, UNCHANGED stopVars, RunWaits
  PROVE  RunWaits' /\ (cancelled => cancelled')
BY DEF Steer, RunWaits, Start, NotStarted, Idle, stopVars

\* Messages, reports, steering and removals leave a waiting run alone.
LEMMA MessagesKeepRun ==
  ASSUME NEW m, RunWaits,
         Submit(m) \/ SubmitAnswer(m) \/ Notify(m) \/ SteerPending(m) \/ RemovePending(m)
  PROVE  RunWaits' /\ (cancelled => cancelled')
<1>1. CASE Submit(m)
  BY <1>1 DEF Submit, MayStart, RunWaits, NotStarted, Idle, stopVars
<1>2. CASE SubmitAnswer(m)
  BY <1>2, SteerKeepsRun DEF SubmitAnswer, RunWaits, NotStarted, stopVars
<1>3. CASE Notify(m)
  BY <1>3, SteerKeepsRun DEF Notify, RunWaits, NotStarted, Idle, stopVars
<1>4. CASE SteerPending(m)
  BY <1>4, SteerKeepsRun DEF SteerPending
<1>5. CASE RemovePending(m)
  BY <1>5 DEF RemovePending, RunWaits, NotStarted, stopVars
<1> QED BY <1>1, <1>2, <1>3, <1>4, <1>5

\* So does everything else but the end of the run.
LEMMA OthersKeepRun ==
  ASSUME RunWaits, TaskBegins \/ StreamReady \/ Drain \/ Finish
                     \/ Stop \/ StopEnds \/ CloseBegins \/ CloseEnds
  PROVE  RunWaits' /\ (cancelled => cancelled')
<1>1. CASE TaskBegins \/ StreamReady \/ Drain \/ Finish
  BY <1>1 DEF TaskBegins, StreamReady, Drain, Finish, RunWaits, stopVars
<1>2. CASE Stop \/ CloseBegins
  BY <1>2 DEF Stop, CloseBegins, CancelActive, RunWaits, Idle
<1>3. CASE StopEnds \/ CloseEnds
  BY <1>3 DEF StopEnds, CloseEnds, NeverBegan, RunWaits, Idle
<1> QED BY <1>1, <1>2, <1>3

\* Closing is for good.
LEMMA ClosingStays ==
  ASSUME [Next]_vars, closing
  PROVE  closing'
<1>1. CASE UNCHANGED vars
  BY <1>1 DEF vars
<1>2. ASSUME NEW m \in Messages,
             Submit(m) \/ SubmitAnswer(m) \/ Notify(m) \/ SteerPending(m) \/ RemovePending(m)
      PROVE  closing'
  BY <1>2 DEF Submit, SubmitAnswer, Notify, SteerPending, RemovePending, stopVars
<1>3. CASE Run
  BY <1>3 DEF Run, TaskBegins, StreamReady, Drain, CloseIfEmpty, CloseOnError, CloseOnCancel,
              Finish, stopVars
<1>4. CASE Stop \/ StopEnds \/ CloseBegins \/ CloseEnds
  BY <1>4 DEF Stop, StopEnds, CloseBegins, CloseEnds
<1> QED BY <1>1, <1>2, <1>3, <1>4 DEF Next

LEMMA StepsAreSteady ==
  ASSUME NEW q \in Answers, [QuestionsNext]_allVars
  PROVE  Steady(q)
<1>1. closing => closing'
  BY StepsAreControllerSteps, ClosingStays
<1> SUFFICES ASSUME stage[q] = "foreground", RunWaits
             PROVE  RunWaits' /\ (cancelled => cancelled')
  BY <1>1 DEF Steady
<1>2. CASE UNCHANGED vars
  BY <1>2 DEF vars, RunWaits
<1>3. CASE Client
  BY <1>3, MessagesKeepRun, OthersKeepRun DEF Client
<1>4. ASSUME NEW p \in Answers, NEW r \in Replies, Answer(p, r)
      PROVE  RunWaits' /\ (cancelled => cancelled')
  BY <1>4, <1>2, MessagesKeepRun DEF Answer
<1>5. ASSUME NEW p \in Answers, Ask(p) \/ Waiter(p)
      PROVE  RunWaits' /\ (cancelled => cancelled')
  <2>1. UNCHANGED vars \/ Notify(ReportOf[p])
    BY <1>5 DEF Ask, Waiter, Answered, Expires, Interrupted, BackgroundEnds, Reported
  <2> QED BY <2>1, <1>2, MessagesKeepRun
<1>6. CASE BeginRun \/ GetReady \/ Take \/ LeaveRun \/ StopReturns \/ CloseQuestions
  BY <1>6, OthersKeepRun DEF BeginRun, GetReady, Take, LeaveRun, StopReturns, CloseQuestions
<1>7. CASE EndRun
  BY <1>7 DEF EndRun, Asking
<1> QED BY <1>2, <1>3, <1>4, <1>5, <1>6, <1>7 DEF QuestionsNext, allVars

\* A step on one question leaves the others as they are.
LEMMA OnlyOne ==
  ASSUME QInv, [QuestionsNext]_allVars, NEW q \in Answers, Staged(q)',
         QuestionsTyped', \A r \in Answers \ {q} : Same(r)
  PROVE  QInv'
BY SameKeepsStaged, StepsAreSteady DEF QInv

\* What is told is one word more.
LEMMA TellingTold ==
  ASSUME QuestionsTyped, NEW q \in Answers, NEW w \in Words, told' = [told EXCEPT ![q] = Append(@, w)]
  PROVE  /\ told' \in [Answers -> Seq(Words)]
         /\ \A p \in Answers \ {q} : told'[p] = told[p]
         /\ Untold(q) => Len(told'[q]) = 1 /\ told'[q][1] = w
         /\ ToldOnce(q, "pending") =>
              Len(told'[q]) = 2 /\ told'[q][1] = "pending" /\ told'[q][2] = w
<1>1. told[q] \in Seq(Words)
  BY DEF QuestionsTyped
<1>2. Append(told[q], w) \in Seq(Words)
  BY <1>1
<1>3. told'[q] = Append(told[q], w)
  BY DEF QuestionsTyped
<1>4. told' \in [Answers -> Seq(Words)] /\ \A p \in Answers \ {q} : told'[p] = told[p]
  BY <1>2 DEF QuestionsTyped
<1>5. /\ Len(told'[q]) = Len(told[q]) + 1
      /\ told'[q][Len(told[q]) + 1] = w
      /\ \A i \in 1 .. Len(told[q]) : told'[q][i] = told[q][i]
  BY <1>1, <1>3
<1> QED BY <1>4, <1>5 DEF Untold, ToldOnce

LEMMA AskKeepsQInv ==
  ASSUME QInv, NEW q \in Answers, Ask(q)
  PROVE  QInv'
<1>1. /\ stage' = [stage EXCEPT ![q] = "foreground"] /\ future' = [future EXCEPT ![q] = "open"]
      /\ cards' = cards \union {q} /\ reply' = reply /\ told' = told
      /\ UNCHANGED vars
  BY DEF Ask, Enter
<1>2. stage[q] = "none" /\ RunWaits
  BY DEF Ask, RunWaits
<1>3. QuestionsTyped'
  BY <1>1 DEF QInv, QuestionsTyped, Stages
<1>4. \A r \in Answers \ {q} : Same(r)
  BY <1>1 DEF QInv, QuestionsTyped, Same
<1>5. stage'[q] = "foreground" /\ future'[q] = "open" /\ reply'[q] = "none" /\ Untold(q)' /\ q \in cards'
  BY <1>1, <1>2 DEF QInv, QuestionsTyped, Staged, Untold
<1>6. RunWaits'
  BY <1>1, <1>2 DEF RunWaits, vars
<1>7. Staged(q)'
  BY <1>5, <1>6 DEF Staged, InForeground, Done, Replies, Unanswered
<1> QED BY <1>3, <1>4, <1>7, OnlyOne DEF QuestionsNext

LEMMA AnswerKeepsQInv ==
  ASSUME QInv, NEW q \in Answers, NEW r \in Replies, Answer(q, r)
  PROVE  QInv'
<1>0. /\ stage' = stage /\ reply' = [reply EXCEPT ![q] = r]
      /\ future' = future \/ future' = [future EXCEPT ![q] = r]
      /\ told' = told \/ (r = "answered" /\ told' = [told EXCEPT ![q] = Append(@, r)])
      /\ cards' = cards \/ cards' = cards \ {q}
  BY DEF Answer, Tell
<1>1. QuestionsTyped' /\ \A p \in Answers \ {q} : Same(p)
  <2>1. r \in Words
    BY DEF Words
  <2>2. told' \in [Answers -> Seq(Words)] /\ \A p \in Answers \ {q} : told'[p] = told[p]
    <3>1. QuestionsTyped
      BY DEF QInv
    <3>2. CASE told' = told
      BY <3>1, <3>2 DEF QuestionsTyped
    <3>3. CASE told' = [told EXCEPT ![q] = Append(@, r)]
      BY <3>1, <3>3, <2>1, TellingTold
    <3> QED BY <1>0, <3>2, <3>3
  <2>3. /\ future' \in [Answers -> {"none", "open"} \union Replies]
        /\ reply' \in [Answers -> {"none"} \union Replies]
        /\ \A p \in Answers \ {q} : future'[p] = future[p] /\ reply'[p] = reply[p]
    BY <1>0 DEF QInv, QuestionsTyped
  <2> QED BY <1>0, <2>2, <2>3 DEF QInv, QuestionsTyped, Same
<1>2. Steady(q)
  BY StepsAreSteady DEF QuestionsNext
<1> SUFFICES Staged(q)'
  BY <1>1, OnlyOne DEF QuestionsNext
<1>3. CASE Waits(q)
  <2>0. QuestionsTyped /\ Staged(q) /\ stage[q] \in Stages
    BY DEF QInv, QuestionsTyped
  <2>1. /\ future[q] = "open" /\ future'[q] = r /\ reply'[q] = r /\ told' = told /\ ~Done(q)
        /\ stage' = stage /\ q \in cards
        /\ stage[q] # "background" => q \notin cards' /\ ~stopping
    BY <1>3, <2>0 DEF Answer, Waits, QuestionsTyped
  <2>2. Done(q)'
    BY <2>1 DEF Done
  <2>3. stage[q] \in {"foreground", "background"}
    BY <2>0, <2>1 DEF Stages, Staged, InReport
  <2>4. CASE stage[q] = "foreground"
    <3>1. RunWaits /\ Untold(q)
      BY <2>0, <2>1, <2>4 DEF Staged, InForeground, Overtaken, Unanswered
    <3>2. RunWaits' /\ Untold(q)'
      BY <3>1, <2>1, <2>4, <1>2 DEF Steady, Untold
    <3>3. InForeground(q)'
      BY <3>2, <2>1, <2>2, <2>4 DEF InForeground, Replies
    <3> QED BY <3>3, <2>1, <2>4 DEF Staged
  <2>5. CASE stage[q] = "background"
    <3>1. InBackground(q)'
      BY <2>0, <2>1, <2>2, <2>5 DEF Staged, InBackground, ToldOnce, Replies
    <3> QED BY <3>1, <2>1, <2>5 DEF Staged
  <2> QED BY <2>3, <2>4, <2>5
<1>4. CASE ~Waits(q)
  <2>0. QuestionsTyped /\ Staged(q) /\ stage[q] \in Stages
    BY DEF QInv, QuestionsTyped
  <2>1. /\ ~closing /\ q \in cards /\ ~Done(q)
        /\ cards' = cards \ {q} /\ future' = future /\ stage' = stage /\ reply'[q] = r
        /\ IF r = "answered" THEN told' = [told EXCEPT ![q] = Append(@, r)] ELSE told' = told
    BY <1>4, <2>0 DEF Answer, Tell, QuestionsTyped
  <2>2. ~(stage[q] \in {"none", "lost", "over", "reporting"})
    BY <2>0, <2>1 DEF Staged, InReport, IsOver
  <2>3. stage[q] # "background"
    BY <2>0, <2>1, <1>4 DEF Staged, InBackground, Waits, Done, QuestionsTyped
  <2>4. stage[q] \in {"foreground", "interrupted"}
    BY <2>0, <2>2, <2>3 DEF Stages
  <2>5. Unanswered(q)
    BY <2>0, <2>1, <2>4 DEF Staged, InForeground, Overtaken, Dropped
  <2>6. Overtaken(q)'
    <3>1. CASE r = "answered"
      <4>1. r \in Words /\ told' = [told EXCEPT ![q] = Append(@, r)]
        BY <3>1, <2>1 DEF Words, Replies
      <4>2. Len(told'[q]) = 1 /\ told'[q][1] = r
        BY <4>1, <2>0, <2>5, TellingTold DEF Unanswered
      <4> QED BY <4>2, <3>1, <2>1 DEF Overtaken, ToldOnce
    <3>2. CASE r = "skipped"
      BY <3>2, <2>1, <2>5 DEF Overtaken, Unanswered, Untold
    <3> QED BY <3>1, <3>2 DEF Replies
  <2>7. stage[q] = "foreground" => RunWaits /\ stopping /\ cancelled /\ future[q] # "none"
    BY <2>0, <2>1, <1>4 DEF Staged, InForeground, RunWaits, Waits, Done, QuestionsTyped
  <2>8. stage[q] = "interrupted" => future[q] = "none"
    BY <2>0 DEF Staged
  <2>9. ~Done(q)'
    BY <2>1 DEF Done
  <2>10. stage[q] = "foreground" => RunWaits' /\ cancelled'
    BY <2>7, <1>2 DEF Steady
  <2> QED BY <2>1, <2>4, <2>6, <2>7, <2>8, <2>9, <2>10 DEF Staged, InForeground
<1> QED BY <1>3, <1>4

\* Each waiter's step: what becomes of the question it waits for.
LEMMA EnterKeeps ==
  ASSUME QuestionsTyped, NEW q \in Answers, NEW s \in Stages,
         NEW f \in {"none", "open"} \union Replies, Enter(q, s, f)
  PROVE  /\ stage' \in [Answers -> Stages] /\ stage'[q] = s
         /\ future' \in [Answers -> {"none", "open"} \union Replies] /\ future'[q] = f
         /\ \A p \in Answers \ {q} : stage'[p] = stage[p] /\ future'[p] = future[p]
BY DEF Enter, QuestionsTyped

LEMMA AnsweredKeepsQInv ==
  ASSUME QInv, NEW q \in Answers, Answered(q)
  PROVE  QInv'
<1>1. QuestionsTyped /\ InForeground(q) /\ Done(q) /\ future[q] \in Words
  BY DEF QInv, Staged, Answered, Done, Words
<1>2. /\ reply' = reply /\ cards' = cards
      /\ told' = [told EXCEPT ![q] = Append(@, future[q])]
      /\ Enter(q, "over", "none")
  BY DEF Answered, Tell
<1>3. /\ stage'[q] = "over" /\ future'[q] = "none"
      /\ \A p \in Answers \ {q} : stage'[p] = stage[p] /\ future'[p] = future[p]
      /\ stage' \in [Answers -> Stages]
      /\ future' \in [Answers -> {"none", "open"} \union Replies]
  BY <1>1, <1>2, EnterKeeps DEF Stages
<1>4. /\ told' \in [Answers -> Seq(Words)]
      /\ \A p \in Answers \ {q} : told'[p] = told[p]
      /\ Untold(q) => Len(told'[q]) = 1 /\ told'[q][1] = future[q]
  <2> DEFINE w == future[q]
  <2>1. w \in Words /\ told' = [told EXCEPT ![q] = Append(@, w)]
    BY <1>1, <1>2
  <2>2. QuestionsTyped
    BY <1>1
  <2> HIDE DEF w
  <2>3. /\ told' \in [Answers -> Seq(Words)]
        /\ \A p \in Answers \ {q} : told'[p] = told[p]
        /\ Untold(q) => Len(told'[q]) = 1 /\ told'[q][1] = w
    BY <2>1, <2>2, TellingTold
  <2> QED BY <2>3 DEF w
<1>5. Len(told'[q]) = 1 /\ told'[q][1] = reply[q] /\ reply[q] # "none" /\ q \notin cards
  BY <1>1, <1>4 DEF InForeground, Done, Replies
<1>6. Staged(q)'
  BY <1>2, <1>3, <1>5 DEF Staged, IsOver, ToldOnce
<1>7. QuestionsTyped' /\ \A p \in Answers \ {q} : Same(p)
  BY <1>1, <1>2, <1>3, <1>4 DEF QuestionsTyped, Same
<1> QED BY <1>6, <1>7, OnlyOne DEF QuestionsNext, Waiter

LEMMA ExpiresKeepsQInv ==
  ASSUME QInv, NEW q \in Answers, Expires(q)
  PROVE  QInv'
<1>1. QuestionsTyped /\ Unanswered(q)
  BY DEF QInv, Staged, Expires, InForeground, Overtaken
<1>2. /\ reply' = reply /\ cards' = cards
      /\ told' = [told EXCEPT ![q] = Append(@, "pending")]
      /\ Enter(q, "background", "open")
  BY DEF Expires, Tell
<1>3. /\ stage'[q] = "background" /\ future'[q] = "open"
      /\ \A p \in Answers \ {q} : stage'[p] = stage[p] /\ future'[p] = future[p]
      /\ stage' \in [Answers -> Stages]
      /\ future' \in [Answers -> {"none", "open"} \union Replies]
  BY <1>1, <1>2, EnterKeeps DEF Stages
<1>4. /\ told' \in [Answers -> Seq(Words)]
      /\ \A p \in Answers \ {q} : told'[p] = told[p]
      /\ Len(told'[q]) = 1 /\ told'[q][1] = "pending"
  BY <1>1, <1>2, TellingTold DEF Words, Unanswered
<1>5. Staged(q)'
  BY <1>1, <1>2, <1>3, <1>4 DEF Staged, InBackground, ToldOnce, Done, Replies, Unanswered
<1>6. QuestionsTyped' /\ \A p \in Answers \ {q} : Same(p)
  BY <1>1, <1>2, <1>3, <1>4 DEF QuestionsTyped, Same
<1> QED BY <1>5, <1>6, OnlyOne DEF QuestionsNext, Waiter

\* An answer the run has not woken up for is lost; another question stays open
\* to the client, or has been overtaken.
LEMMA InterruptedKeepsQInv ==
  ASSUME QInv, NEW q \in Answers, Interrupted(q)
  PROVE  QInv'
<1>1. QuestionsTyped /\ InForeground(q)
  BY DEF QInv, Staged, Interrupted
<1>2. /\ reply' = reply /\ cards' = cards /\ told' = told
      /\ Enter(q, IF Done(q) THEN "lost" ELSE "interrupted", "none")
  BY DEF Interrupted
<1>3. /\ stage'[q] = IF Done(q) THEN "lost" ELSE "interrupted"
      /\ future'[q] = "none"
      /\ \A p \in Answers \ {q} : stage'[p] = stage[p] /\ future'[p] = future[p]
      /\ stage' \in [Answers -> Stages]
      /\ future' \in [Answers -> {"none", "open"} \union Replies]
  BY <1>1, <1>2, EnterKeeps DEF Stages
<1>4. Staged(q)'
  BY <1>1, <1>2, <1>3 DEF Staged, InForeground, Overtaken, Unanswered, Untold, ToldOnce
<1>5. QuestionsTyped' /\ \A p \in Answers \ {q} : Same(p)
  BY <1>1, <1>2, <1>3 DEF QuestionsTyped, Same
<1> QED BY <1>4, <1>5, OnlyOne DEF QuestionsNext, Waiter

LEMMA BackgroundEndsKeepsQInv ==
  ASSUME QInv, NEW q \in Answers, BackgroundEnds(q)
  PROVE  QInv'
<1>1. QuestionsTyped /\ InBackground(q) /\ Outcome(q) \in Replies
  BY DEF QInv, Staged, BackgroundEnds, Outcome, Done, Replies
<1>2. reply' = reply /\ told' = told
  BY DEF BackgroundEnds
<1>3. CASE closing
  <2>1. cards' = cards /\ Enter(q, "over", "none")
    BY <1>3 DEF BackgroundEnds
  <2>2. /\ stage'[q] = "over" /\ future'[q] = "none"
        /\ \A p \in Answers \ {q} : stage'[p] = stage[p] /\ future'[p] = future[p]
        /\ stage' \in [Answers -> Stages]
        /\ future' \in [Answers -> {"none", "open"} \union Replies]
    BY <1>1, <2>1, EnterKeeps DEF Stages
  <2>3. closing'
    BY <1>3, StepsAreSteady DEF QuestionsNext, Waiter, Steady
  <2>4. Staged(q)'
    BY <1>1, <1>2, <2>2, <2>3 DEF Staged, IsOver, InBackground, ToldOnce
  <2>5. QuestionsTyped' /\ \A p \in Answers \ {q} : Same(p)
    BY <1>1, <1>2, <2>1, <2>2 DEF QuestionsTyped, Same
  <2> QED BY <2>4, <2>5, OnlyOne DEF QuestionsNext, Waiter
<1>4. CASE ~closing
  <2>1. cards' = cards \ {q} /\ Enter(q, "reporting", Outcome(q))
    BY <1>4 DEF BackgroundEnds
  <2>2. /\ stage'[q] = "reporting" /\ future'[q] = Outcome(q)
        /\ \A p \in Answers \ {q} : stage'[p] = stage[p] /\ future'[p] = future[p]
        /\ stage' \in [Answers -> Stages]
        /\ future' \in [Answers -> {"none", "open"} \union Replies]
    BY <1>1, <2>1, EnterKeeps DEF Stages
  <2>3. InReport(q)'
    BY <1>1, <1>2, <2>1, <2>2 DEF InReport, InBackground, ToldOnce, Done, Outcome
  <2>4. Staged(q)'
    BY <2>2, <2>3 DEF Staged
  <2>5. QuestionsTyped' /\ \A p \in Answers \ {q} : Same(p)
    BY <1>1, <1>2, <2>1, <2>2 DEF QuestionsTyped, Same
  <2> QED BY <2>4, <2>5, OnlyOne DEF QuestionsNext, Waiter
<1> QED BY <1>3, <1>4

LEMMA ReportedKeepsQInv ==
  ASSUME QInv, NEW q \in Answers, Reported(q)
  PROVE  QInv'
<1> DEFINE w == future[q]
<1>1. QuestionsTyped /\ InReport(q) /\ w \in Words
  BY DEF QInv, Staged, Reported, InReport, Done, Words
<1>2. reply' = reply /\ cards' = cards /\ Enter(q, "over", "none")
  BY DEF Reported
<1>3. /\ stage'[q] = "over" /\ future'[q] = "none"
      /\ \A p \in Answers \ {q} : stage'[p] = stage[p] /\ future'[p] = future[p]
      /\ stage' \in [Answers -> Stages]
      /\ future' \in [Answers -> {"none", "open"} \union Replies]
  BY <1>1, <1>2, EnterKeeps DEF Stages
<1>4. told' = told \/ told' = [told EXCEPT ![q] = Append(@, w)]
  BY DEF Reported, Tell
<1>5. q \notin cards /\ w \in Replies /\ ToldOnce(q, "pending")
      /\ (reply[q] = w \/ (reply[q] = "none" /\ w = "skipped"))
  BY <1>1 DEF InReport, Done
<1> HIDE DEF w
<1>6. CASE told' = told
  <2>1. Staged(q)'
    BY <1>2, <1>3, <1>5, <1>6 DEF Staged, IsOver, ToldOnce
  <2>2. QuestionsTyped' /\ \A p \in Answers \ {q} : Same(p)
    BY <1>1, <1>2, <1>3, <1>6 DEF QuestionsTyped, Same
  <2> QED BY <2>1, <2>2, OnlyOne DEF QuestionsNext, Waiter
<1>7. CASE told' = [told EXCEPT ![q] = Append(@, w)]
  <2>1. /\ told' \in [Answers -> Seq(Words)]
        /\ \A p \in Answers \ {q} : told'[p] = told[p]
        /\ Len(told'[q]) = 2 /\ told'[q][1] = "pending" /\ told'[q][2] = w
    BY <1>1, <1>5, <1>7, TellingTold
  <2>2. Staged(q)'
    BY <1>2, <1>3, <1>5, <2>1 DEF Staged, IsOver
  <2>3. QuestionsTyped' /\ \A p \in Answers \ {q} : Same(p)
    BY <1>1, <1>2, <1>3, <2>1 DEF QuestionsTyped, Same
  <2> QED BY <2>2, <2>3, OnlyOne DEF QuestionsNext, Waiter
<1> QED BY <1>4, <1>6, <1>7

\* Closing takes every card, and the background waits with it.
LEMMA CloseKeepsQInv ==
  ASSUME QInv, CloseQuestions
  PROVE  QInv'
<1>1. /\ QuestionsTyped /\ reply' = reply /\ told' = told /\ cards' = {} /\ closing
      /\ stage' = [q \in Answers |-> IF stage[q] = "background" THEN "over" ELSE stage[q]]
      /\ future' = [q \in Answers |-> IF stage[q] = "reporting" THEN future[q] ELSE "none"]
  BY DEF CloseQuestions, CloseEnds, QInv
<1>2. closing' /\ phase # "running"
  BY <1>1 DEF CloseQuestions, CloseEnds, Idle
<1>3. QuestionsTyped'
  BY <1>1 DEF QuestionsTyped, Stages
<1>4. ASSUME NEW q \in Answers
      PROVE  Staged(q)'
  <2>1. Staged(q) /\ stage[q] # "foreground"
    BY <1>2 DEF QInv, Staged, InForeground, RunWaits
  <2>2. /\ stage'[q] = IF stage[q] = "background" THEN "over" ELSE stage[q]
        /\ future'[q] = IF stage[q] = "reporting" THEN future[q] ELSE "none"
    BY <1>1
  <2>3. CASE stage[q] = "background"
    BY <1>1, <1>2, <2>1, <2>2, <2>3 DEF Staged, InBackground, IsOver, ToldOnce
  <2>4. CASE stage[q] = "interrupted"
    BY <1>1, <1>2, <2>1, <2>2, <2>4 DEF Staged, Unanswered, Overtaken, Dropped, ToldOnce, Untold
  <2>5. CASE stage[q] = "reporting"
    BY <1>1, <2>1, <2>2, <2>5 DEF Staged, InReport, ToldOnce, Done
  <2>6. CASE stage[q] = "over"
    BY <1>1, <1>2, <2>1, <2>2, <2>6 DEF Staged, IsOver, ToldOnce
  <2>7. CASE stage[q] \in {"none", "lost"}
    BY <1>1, <2>1, <2>2, <2>7 DEF Staged, Untold
  <2> QED BY <1>1, <2>1, <2>3, <2>4, <2>5, <2>6, <2>7 DEF QuestionsTyped, Stages
<1> QED BY <1>3, <1>4 DEF QInv

LEMMA QInvInductive == QInv /\ [QuestionsNext]_allVars => QInv'
<1> SUFFICES ASSUME QInv, [QuestionsNext]_allVars
             PROVE  QInv'
  OBVIOUS
<1>1. CASE UNCHANGED questionVars
  <2>1. QuestionsTyped' /\ \A q \in Answers : Same(q)
    BY <1>1 DEF QInv, QuestionsTyped, Same, questionVars
  <2> QED BY <2>1, SameKeepsStaged, StepsAreSteady DEF QInv
<1>2. ASSUME NEW q \in Answers, Waiter(q)
      PROVE  QInv'
  BY <1>2, AnsweredKeepsQInv, ExpiresKeepsQInv, InterruptedKeepsQInv,
     BackgroundEndsKeepsQInv, ReportedKeepsQInv DEF Waiter
<1>3. CASE UNCHANGED allVars \/ Client \/ BeginRun \/ GetReady \/ Take \/ EndRun \/ LeaveRun
           \/ StopReturns
  BY <1>1, <1>3 DEF allVars, Client, BeginRun, GetReady, Take, EndRun, LeaveRun, StopReturns
<1> QED
  BY <1>2, <1>3, AskKeepsQInv, AnswerKeepsQInv, CloseKeepsQInv DEF QuestionsNext

LEMMA QInvInitially == QuestionsInit => QInv
BY DEF QuestionsInit, QInv, QuestionsTyped, Stages, Staged, Untold

LEMMA QInvGivesOneOutcome == QInv => OneOutcome
<1> SUFFICES ASSUME QInv, NEW q \in Answers
             PROVE  /\ \A i, j \in Final(q) : i = j
                    /\ Len(told[q]) = 2 => told[q][1] = "pending"
                    /\ \A i \in Final(q) :
                         /\ reply[q] # "none" => told[q][i] = reply[q]
                         /\ told[q][i] = "answered" => reply[q] = "answered"
                    /\ told[q] = <<"skipped">> => reply[q] = "skipped"
                    /\ q \in cards /\ Done(q) => stage[q] = "background"
                    /\ q \in cards /\ ~closing => stage[q] \in {"foreground", "background", "interrupted"}
  BY DEF OneOutcome
<1>1. QuestionsTyped /\ Staged(q) /\ stage[q] \in Stages /\ told[q] \in Seq(Words)
  BY DEF QInv, QuestionsTyped
<1>2. /\ q \in cards /\ Done(q) => stage[q] = "background"
      /\ q \in cards /\ ~closing => stage[q] \in {"foreground", "background", "interrupted"}
  BY <1>1 DEF Staged, Stages, InForeground, Overtaken, InReport, IsOver, Done, Replies
<1>3. \/ Untold(q)
      \/ ToldOnce(q, "pending")
      \/ Len(told[q]) = 1 /\ told[q][1] = reply[q] /\ reply[q] # "none"
      \/ /\ Len(told[q]) = 2 /\ told[q][1] = "pending" /\ told[q][2] \in Replies
         /\ reply[q] = told[q][2] \/ (reply[q] = "none" /\ told[q][2] = "skipped")
  BY <1>1 DEF Staged, Stages, InForeground, InBackground, InReport, IsOver, Unanswered, Overtaken,
              Dropped, ToldOnce
<1>4. DOMAIN told[q] = 1 .. Len(told[q])
  BY <1>1
<1>5. CASE Untold(q)
  BY <1>2, <1>4, <1>5 DEF Untold, Final
<1>6. CASE ToldOnce(q, "pending")
  BY <1>2, <1>4, <1>6 DEF ToldOnce, Final
<1>7. CASE Len(told[q]) = 1 /\ told[q][1] = reply[q] /\ reply[q] # "none"
  BY <1>2, <1>4, <1>7 DEF Final
<1>8. CASE /\ Len(told[q]) = 2 /\ told[q][1] = "pending" /\ told[q][2] \in Replies
           /\ reply[q] = told[q][2] \/ (reply[q] = "none" /\ told[q][2] = "skipped")
  BY <1>2, <1>4, <1>8 DEF Final, Replies
<1> QED BY <1>3, <1>5, <1>6, <1>7, <1>8

\* A question has one outcome, whatever becomes of the run that asked it, of the
\* conversation and of the message a late answer turns into: the model is told
\* once, of what the user said (wait, answer_question, _finish_question).
THEOREM OneOutcomeHolds == QuestionsSpec => []OneOutcome
BY QInvInitially, QInvInductive, QInvGivesOneOutcome, PTL DEF QuestionsSpec
===============================================================================
