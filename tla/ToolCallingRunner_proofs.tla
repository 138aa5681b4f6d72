----------------------- MODULE ToolCallingRunner_proofs -----------------------
(***************************************************************************)
(* The transcript of one run, for any number of iterations, calls and      *)
(* steered inputs.  SavedPairs is not inductive: a checkpoint saves what   *)
(* `messages` holds.  Its strengthening follows the messages through an    *)
(* iteration: they are closed, except between a response with calls and    *)
(* the results of those calls, where exactly the last message is open.     *)
(***************************************************************************)
EXTENDS ToolCallingRunner, SequenceTheorems, FiniteSetTheorems, TLAPS

Refs  == Inputs \union {"task"} \union Nat
Msg   == [role : {"user", "assistant", "tool"}, calls : Seq(Nat), ref : Refs]
ACall == [id : Nat, safe : BOOLEAN]

Closed(ms) == (\A a \in DOMAIN ms : Answered(ms, a)) /\ ResultsDeclared(ms)

Plain(xs) == \A i \in DOMAIN xs : xs[i].calls = <<>> /\ xs[i].role # "tool"

\* The last message declares the calls cs; what precedes it is closed.
OpenBy(ms, cs) ==
  /\ ms # <<>> /\ ms[Len(ms)] = Calling(cs)
  /\ \A a \in DOMAIN ms : a = Len(ms) \/ Answered(ms, a)
  /\ ResultsDeclared(ms)

-----------------------------------------------------------------------------
LEMMA FunctionAsSequence ==
  ASSUME NEW S, NEW n \in Nat, NEW f \in [1..n -> S]
  PROVE  f \in Seq(S) /\ Len(f) = n
<1>1. f \in Seq(S)
  BY SeqDef
<1>2. Len(f) \in Nat /\ 1..Len(f) = 1..n
  BY <1>1, LenProperties
<1> QED BY <1>1, <1>2

LEMMA MessageTypes ==
  /\ Reply \in Msg
  /\ \A m \in Inputs \union {"task"} : User(m) \in Msg
  /\ \A id \in Nat : Result(id) \in Msg
  /\ \A cs \in Seq(ACall) : Calling(cs) \in Msg
<1>1. <<>> \in Seq(Nat)
  BY EmptySeq
<1>2. ASSUME NEW cs \in Seq(ACall) PROVE Calling(cs) \in Msg
  <2>1. cs \in [1..Len(cs) -> ACall] /\ Len(cs) \in Nat /\ DOMAIN cs = 1..Len(cs)
    BY LenProperties
  <2>2. [i \in DOMAIN cs |-> cs[i].id] \in [1..Len(cs) -> Nat]
    BY <2>1 DEF ACall
  <2>3. [i \in DOMAIN cs |-> cs[i].id] \in Seq(Nat)
    BY <2>1, <2>2, FunctionAsSequence
  <2> QED BY <2>3 DEF Calling, Msg, Refs
<1> QED BY <1>1, <1>2 DEF Msg, Refs, Reply, User, Result

\* Replies and user messages leave a closed transcript closed.
LEMMA PlainGrowth ==
  ASSUME NEW ms \in Seq(Msg), NEW xs \in Seq(Msg), Closed(ms), Plain(xs)
  PROVE  Closed(ms \o xs)
<1> DEFINE all == ms \o xs
<1>1. /\ all \in Seq(Msg) /\ Len(all) = Len(ms) + Len(xs)
      /\ \A i \in 1..Len(ms) + Len(xs) :
           all[i] = IF i <= Len(ms) THEN ms[i] ELSE xs[i - Len(ms)]
  BY ConcatProperties
<1>2. /\ Len(ms) \in Nat /\ Len(xs) \in Nat /\ DOMAIN all = 1..Len(all)
      /\ DOMAIN ms = 1..Len(ms) /\ DOMAIN xs = 1..Len(xs)
  BY <1>1, LenProperties
<1> HIDE DEF all
<1>3. ASSUME NEW a \in DOMAIN all PROVE Answered(all, a)
  <2>1. CASE a <= Len(ms)
    <3>1. a \in DOMAIN ms /\ all[a] = ms[a] /\ Answered(ms, a)
      BY <1>1, <1>2, <2>1 DEF Closed
    <3>2. \A k \in DOMAIN ms[a].calls :
            a + k \in DOMAIN all /\ all[a + k] = ms[a + k]
      BY <1>1, <1>2, <3>1 DEF Answered
    <3> QED BY <3>1, <3>2 DEF Answered
  <2>2. CASE ~(a <= Len(ms))
    <3>1. a - Len(ms) \in DOMAIN xs /\ all[a] = xs[a - Len(ms)]
      BY <1>1, <1>2, <2>2
    <3>2. all[a].calls = <<>>
      BY <3>1 DEF Plain
    <3> QED BY <3>2 DEF Answered
  <2> QED BY <2>1, <2>2
<1>4. ResultsDeclared(all)
  <2> SUFFICES ASSUME NEW i \in DOMAIN all, all[i].role = "tool"
               PROVE  \E a \in 1..(i - 1) : \E k \in DOMAIN all[a].calls :
                        a + k = i /\ all[a].calls[k] = all[i].ref
    BY DEF ResultsDeclared
  <2>1. i <= Len(ms)
    <3> SUFFICES ASSUME ~(i <= Len(ms)) PROVE FALSE
      OBVIOUS
    <3>1. i - Len(ms) \in DOMAIN xs /\ all[i] = xs[i - Len(ms)]
      BY <1>1, <1>2
    <3> QED BY <3>1 DEF Plain
  <2>2. i \in DOMAIN ms /\ all[i] = ms[i]
    BY <1>1, <1>2, <2>1
  <2>3. PICK a \in 1..(i - 1) : \E k \in DOMAIN ms[a].calls :
          a + k = i /\ ms[a].calls[k] = ms[i].ref
    BY <2>2 DEF Closed, ResultsDeclared
  <2>4. all[a] = ms[a]
    BY <1>1, <1>2, <2>2, <2>3
  <2> QED BY <2>2, <2>3, <2>4
<1>5. Closed(all)
  BY <1>3, <1>4 DEF Closed
<1> QED BY <1>5 DEF all

LEMMA AppendAddsOne ==
  ASSUME NEW S, NEW s \in Seq(S), NEW x \in S
  PROVE  Append(s, x) = s \o <<x>> /\ <<x>> \in Seq(S)
OBVIOUS

LEMMA PlainAppend ==
  ASSUME NEW ms \in Seq(Msg), Closed(ms)
  PROVE  /\ Append(ms, Reply) \in Seq(Msg)
         /\ Closed(Append(ms, Reply)) /\ Last(Append(ms, Reply)) = Reply
<1>1. Reply \in Msg /\ Append(ms, Reply) = ms \o <<Reply>> /\ <<Reply>> \in Seq(Msg)
  BY MessageTypes, AppendAddsOne
<1>2. Plain(<<Reply>>)
  BY DEF Plain, Reply
<1>3. Closed(ms \o <<Reply>>)
  BY <1>1, <1>2, PlainGrowth
<1>4. /\ Append(ms, Reply) \in Seq(Msg)
      /\ Append(ms, Reply)[Len(Append(ms, Reply))] = Reply
  BY <1>1, AppendProperties
<1> QED BY <1>1, <1>3, <1>4 DEF Last

\* A response with calls opens it ...
LEMMA CallsOpen ==
  ASSUME NEW ms \in Seq(Msg), NEW cs \in Seq(ACall), Closed(ms)
  PROVE  /\ Append(ms, Calling(cs)) \in Seq(Msg)
         /\ OpenBy(Append(ms, Calling(cs)), cs)
<1> DEFINE all == Append(ms, Calling(cs))
<1>1. Calling(cs) \in Msg
  BY MessageTypes
<1>2. /\ all \in Seq(Msg) /\ Len(all) = Len(ms) + 1
      /\ \A i \in 1..Len(ms) : all[i] = ms[i]
      /\ all[Len(ms) + 1] = Calling(cs)
  BY <1>1, AppendProperties
<1>3. /\ Len(ms) \in Nat /\ DOMAIN ms = 1..Len(ms) /\ DOMAIN all = 1..Len(all)
      /\ all # <<>>
  BY <1>2, LenProperties, EmptySeq
<1> HIDE DEF all
<1>4. ASSUME NEW a \in DOMAIN all, a # Len(all) PROVE Answered(all, a)
  <2>1. a \in DOMAIN ms /\ all[a] = ms[a] /\ Answered(ms, a)
    BY <1>2, <1>3, <1>4 DEF Closed
  <2>2. \A k \in DOMAIN ms[a].calls : a + k \in DOMAIN all /\ all[a + k] = ms[a + k]
    BY <1>2, <1>3, <2>1 DEF Answered
  <2> QED BY <2>1, <2>2 DEF Answered
<1>5. ResultsDeclared(all)
  <2> SUFFICES ASSUME NEW i \in DOMAIN all, all[i].role = "tool"
               PROVE  \E a \in 1..(i - 1) : \E k \in DOMAIN all[a].calls :
                        a + k = i /\ all[a].calls[k] = all[i].ref
    BY DEF ResultsDeclared
  <2>1. i \in DOMAIN ms /\ all[i] = ms[i]
    BY <1>2, <1>3 DEF Calling
  <2>2. PICK a \in 1..(i - 1) : \E k \in DOMAIN ms[a].calls :
          a + k = i /\ ms[a].calls[k] = ms[i].ref
    BY <2>1 DEF Closed, ResultsDeclared
  <2>3. all[a] = ms[a]
    BY <1>2, <1>3, <2>1, <2>2
  <2> QED BY <2>1, <2>2, <2>3
<1>6. OpenBy(all, cs)
  BY <1>2, <1>3, <1>4, <1>5 DEF OpenBy
<1> QED BY <1>2, <1>6 DEF all

\* ... and the results, in call order, close it again.
LEMMA ResultsClose ==
  ASSUME NEW ms \in Seq(Msg), NEW cs \in Seq(ACall), OpenBy(ms, cs)
  PROVE  LET rs == [i \in DOMAIN cs |-> Result(cs[i].id)]
         IN  ms \o rs \in Seq(Msg) /\ Closed(ms \o rs)
<1> DEFINE rs == [i \in DOMAIN cs |-> Result(cs[i].id)]
           all == ms \o rs
<1>1. cs \in [1..Len(cs) -> ACall] /\ Len(cs) \in Nat /\ DOMAIN cs = 1..Len(cs)
  BY LenProperties
<1>2. rs \in [1..Len(cs) -> Msg]
  BY <1>1, MessageTypes DEF ACall
<1>3. rs \in Seq(Msg) /\ Len(rs) = Len(cs)
  BY <1>1, <1>2, FunctionAsSequence
<1>4. \A i \in 1..Len(cs) : rs[i] = Result(cs[i].id)
  BY <1>1
<1> HIDE DEF rs
<1>5. /\ all \in Seq(Msg) /\ Len(all) = Len(ms) + Len(rs)
      /\ \A i \in 1..Len(ms) + Len(rs) :
           all[i] = IF i <= Len(ms) THEN ms[i] ELSE rs[i - Len(ms)]
  BY <1>3, ConcatProperties
<1>6. /\ Len(ms) \in Nat \ {0} /\ DOMAIN ms = 1..Len(ms) /\ DOMAIN all = 1..Len(all)
  BY <1>5, LenProperties, EmptySeq DEF OpenBy
<1> HIDE DEF all
<1>7. /\ all[Len(ms)] = Calling(cs)
      /\ \A k \in 1..Len(cs) : /\ Len(ms) + k \in DOMAIN all
                               /\ all[Len(ms) + k] = Result(cs[k].id)
  <2>1. all[Len(ms)] = Calling(cs)
    BY <1>1, <1>3, <1>5, <1>6 DEF OpenBy
  <2>2. ASSUME NEW k \in 1..Len(cs)
        PROVE  Len(ms) + k \in DOMAIN all /\ all[Len(ms) + k] = rs[k]
    <3>1. /\ Len(ms) + k \in 1..Len(ms) + Len(rs)
          /\ ~(Len(ms) + k <= Len(ms)) /\ (Len(ms) + k) - Len(ms) = k
      BY <1>1, <1>3, <1>6
    <3> QED BY <1>5, <1>6, <3>1
  <2> QED BY <1>4, <2>1, <2>2
<1>8. /\ DOMAIN Calling(cs).calls = 1..Len(cs)
      /\ \A k \in 1..Len(cs) : Calling(cs).calls[k] = cs[k].id
  BY <1>1 DEF Calling
<1>9. ASSUME NEW a \in DOMAIN all PROVE Answered(all, a)
  <2>1. CASE a = Len(ms)
    BY <1>7, <1>8, <2>1 DEF Answered
  <2>2. CASE a < Len(ms)
    <3>1. a \in DOMAIN ms /\ all[a] = ms[a] /\ Answered(ms, a)
      BY <1>1, <1>3, <1>5, <1>6, <2>2 DEF OpenBy
    <3>2. \A k \in DOMAIN ms[a].calls :
            a + k \in DOMAIN all /\ all[a + k] = ms[a + k]
      BY <1>1, <1>3, <1>5, <1>6, <3>1 DEF Answered
    <3> QED BY <3>1, <3>2 DEF Answered
  <2>3. CASE a > Len(ms)
    <3>1. a - Len(ms) \in 1..Len(cs) /\ all[a] = rs[a - Len(ms)]
      BY <1>1, <1>3, <1>5, <1>6, <2>3
    <3>2. all[a] = Result(cs[a - Len(ms)].id)
      BY <1>4, <3>1
    <3>3. all[a].calls = <<>>
      BY <3>2 DEF Result
    <3> QED BY <3>3 DEF Answered
  <2> QED BY <1>1, <1>3, <1>5, <1>6, <2>1, <2>2, <2>3
<1>10. ResultsDeclared(all)
  <2> SUFFICES ASSUME NEW i \in DOMAIN all, all[i].role = "tool"
               PROVE  \E a \in 1..(i - 1) : \E k \in DOMAIN all[a].calls :
                        a + k = i /\ all[a].calls[k] = all[i].ref
    BY DEF ResultsDeclared
  <2>1. CASE i <= Len(ms)
    <3>1. i \in DOMAIN ms /\ all[i] = ms[i]
      BY <1>1, <1>3, <1>5, <1>6, <2>1
    <3>2. PICK a \in 1..(i - 1) : \E k \in DOMAIN ms[a].calls :
            a + k = i /\ ms[a].calls[k] = ms[i].ref
      BY <3>1 DEF OpenBy, ResultsDeclared
    <3>3. all[a] = ms[a]
      BY <1>1, <1>3, <1>5, <1>6, <3>1, <3>2
    <3> QED BY <3>1, <3>2, <3>3
  <2>2. CASE ~(i <= Len(ms))
    <3> DEFINE k == i - Len(ms)
    <3>1. i \in 1..Len(ms) + Len(cs)
      BY <1>3, <1>5, <1>6
    <3>2. k \in 1..Len(cs) /\ Len(ms) + k = i /\ Len(ms) \in 1..(i - 1)
      BY <1>1, <1>6, <2>2, <3>1
    <3>3. all[i] = Result(cs[k].id)
      BY <1>7, <3>2
    <3>4. all[i].ref = cs[k].id
      BY <3>3 DEF Result
    <3> QED BY <1>7, <1>8, <3>2, <3>4
  <2> QED BY <2>1, <2>2
<1>11. Closed(all)
  BY <1>9, <1>10 DEF Closed
<1> QED BY <1>5, <1>11 DEF all, rs

-----------------------------------------------------------------------------
\* The strengthening.

InIteration == {"saveInput", "request", "saveCalls", "tools", "saveResults", "saveReply", "conclude"}

Types ==
  /\ TypeOK
  /\ pc \in InIteration => iteration < MaxIterations
  /\ messages \in Seq(Msg) /\ input \in Seq(Inputs)
  /\ calls \in Seq(ACall) /\ nextCall \in Nat

\* The messages through an iteration.
Shape ==
  /\ pc \in {"saveCalls", "tools"} => OpenBy(messages, calls)
  /\ pc \notin {"saveCalls", "tools", "ended"} => Closed(messages)

\* How a run comes to its last reply.
Endings ==
  /\ pc \in {"saveReply", "conclude", "saveLast"} => Last(messages) = Reply
  /\ pc = "conclude" => saved = messages
  /\ pc = "ended" => ~open
  /\ pc # "ended" => stop \in {"none", "model_error", "max_iterations"}
  /\ pc \notin {"ended", "saveLast"} => stop = "none"
  /\ pc = "saveLast" => ~open

IInv == Types /\ Shape /\ SavedPairs /\ Endings /\ EndsClosed

LEMMA InitHolds == Init => IInv
<1> SUFFICES ASSUME Init PROVE IInv
  OBVIOUS
<1>1. User("task") \in Msg /\ <<User("task")>> \in Seq(Msg)
  BY MessageTypes
<1>2. Types
  <2>1. <<>> \in Seq(Inputs) /\ <<>> \in Seq(ACall)
    BY EmptySeq
  <2> QED BY <1>1, <2>1, BoundsAssumption DEF Init, Types, TypeOK, SavePoints, InIteration
<1>3. Closed(messages)
  <2>1. messages = <<User("task")>>
    BY DEF Init
  <2>2. \A a \in DOMAIN messages : messages[a].calls = <<>> /\ messages[a].role # "tool"
    BY <2>1 DEF User
  <2> QED BY <2>2 DEF Closed, Answered, ResultsDeclared
<1>4. SavedPairs
  BY <1>3 DEF Init, SavedPairs, Pairs, CallsAnswered, Closed
<1> QED BY <1>2, <1>3, <1>4 DEF Init, IInv, Shape, Endings, EndsClosed

LEMMA SaveKeepsPairs ==
  ASSUME Shape, pc \in SavePoints
  PROVE  Pairs(messages)
<1>1. CASE pc = "saveCalls"
  BY <1>1 DEF Shape, OpenBy, Pairs, CallsAnswered
<1>2. CASE pc # "saveCalls"
  BY <1>2 DEF Shape, SavePoints, Closed, Pairs, CallsAnswered
<1> QED BY <1>1, <1>2

-----------------------------------------------------------------------------
\* The steps.

LEMMA SteerKeeps ==
  ASSUME IInv, NEW m \in Inputs, Steer(m)
  PROVE  IInv'
<1>1. /\ UNCHANGED <<messages, saved, pc, iteration, calls, left, status, nextCall, open, stop>>
      /\ open /\ input' = Append(input, m) /\ accepted' = accepted \union {m}
  BY DEF Steer, toolVars
<1>2. input' \in Seq(Inputs)
  BY <1>1, AppendProperties DEF IInv, Types
<1>3. Types'
  BY <1>1, <1>2 DEF IInv, Types, TypeOK
<1>4. pc # "ended"
  BY <1>1 DEF IInv, Endings
<1> QED BY <1>1, <1>3, <1>4 DEF IInv, Shape, SavedPairs, Endings, EndsClosed

LEMMA IterationStartsKeeps ==
  ASSUME IInv, IterationStarts
  PROVE  IInv'
<1>1. /\ pc = "iterate" /\ iteration < MaxIterations /\ input' = <<>>
      /\ messages' = messages \o TakenInput /\ pc' \in {"request", "saveInput"}
      /\ UNCHANGED <<saved, iteration, calls, left, status, nextCall, open, accepted, stop>>
  BY DEF IterationStarts, Within, toolVars
<1>2. TakenInput \in Seq(Msg) /\ Plain(TakenInput)
  <2>1. /\ input \in [1..Len(input) -> Inputs] /\ Len(input) \in Nat
        /\ DOMAIN input = 1..Len(input)
    BY LenProperties DEF IInv, Types
  <2>2. TakenInput \in [1..Len(input) -> Msg]
    BY <2>1, MessageTypes DEF TakenInput
  <2> QED BY <2>1, <2>2, FunctionAsSequence DEF TakenInput, Plain, User
<1>3. Closed(messages')
  BY <1>1, <1>2, PlainGrowth DEF IInv, Types, Shape
<1>4. Types'
  <2>1. messages' \in Seq(Msg)
    BY <1>1, <1>2, ConcatProperties DEF IInv, Types
  <2>2. <<>> \in Seq(Inputs)
    BY EmptySeq
  <2> QED BY <1>1, <2>1, <2>2 DEF IInv, Types, TypeOK, SavePoints, InIteration
<1> QED BY <1>1, <1>3, <1>4 DEF IInv, Shape, SavedPairs, Endings, EndsClosed

\* The three ways to the last reply.
LEMMA ReplyKeeps ==
  ASSUME IInv, IterationsExhausted \/ ModelFails \/ ModelAnswers
  PROVE  IInv'
<1>1. /\ messages' = Append(messages, Reply)
      /\ UNCHANGED <<saved, iteration, calls, left, status, nextCall, input, accepted>>
  BY DEF IterationsExhausted, ModelFails, ModelAnswers, WithLastWord, toolVars, inputVars
<1>2. /\ pc \in {"iterate", "request"} /\ open' \in BOOLEAN
      /\ \/ pc' = "saveLast" /\ open' = FALSE /\ stop' \in {"model_error", "max_iterations"}
         \/ pc' = "saveReply" /\ pc = "request" /\ stop' = stop
  BY DEF IterationsExhausted, ModelFails, ModelAnswers, inputVars, IInv, Types, TypeOK
<1>3. /\ messages' \in Seq(Msg) /\ Closed(messages') /\ Last(messages') = Reply
  BY <1>1, <1>2, PlainAppend DEF IInv, Types, Shape
<1>4. Types'
  BY <1>1, <1>2, <1>3 DEF IInv, Types, TypeOK, SavePoints, InIteration
<1>5. Endings'
  BY <1>2, <1>3 DEF IInv, Endings
<1> QED BY <1>1, <1>2, <1>3, <1>4, <1>5 DEF IInv, Shape, SavedPairs, EndsClosed

LEMMA ModelCallsKeeps ==
  ASSUME IInv, ModelCalls
  PROVE  IInv'
<1>1. PICK n \in 1..MaxCalls : \E safe \in [1..n -> BOOLEAN] :
        calls' = [i \in 1..n |-> [id |-> nextCall + i - 1, safe |-> safe[i]]]
  BY DEF ModelCalls
<1>2. /\ pc = "request" /\ pc' = "saveCalls" /\ nextCall' = nextCall + Len(calls')
      /\ status' = [i \in DOMAIN calls' |-> "waiting"] /\ left' = DOMAIN calls'
      /\ messages' = Append(messages, Calling(calls'))
      /\ UNCHANGED <<saved, iteration, input, open, accepted, stop>>
  BY DEF ModelCalls, inputVars
<1>3. calls' \in Seq(ACall)
  <2>1. n \in Nat /\ nextCall \in Nat
    BY BoundsAssumption DEF IInv, Types
  <2>2. calls' \in [1..n -> ACall]
    BY <1>1, <2>1 DEF ACall
  <2> QED BY <2>1, <2>2, FunctionAsSequence
<1>4. messages' \in Seq(Msg) /\ OpenBy(messages', calls')
  BY <1>2, <1>3, CallsOpen DEF IInv, Types, Shape
<1>5. nextCall' \in Nat
  BY <1>2, <1>3, LenProperties DEF IInv, Types
<1>6. Types'
  BY <1>2, <1>3, <1>4, <1>5 DEF IInv, Types, TypeOK, SavePoints, InIteration
<1> QED BY <1>2, <1>4, <1>6 DEF IInv, Shape, SavedPairs, Endings, EndsClosed

\* Starting, refusing, running and finishing calls leaves the messages alone.
LEMMA ToolStepKeeps ==
  ASSUME IInv,
         BatchStarts \/ BatchEnds \/ \E p \in Positions : Refuse(p) \/ Execute(p) \/ Finish(p)
  PROVE  IInv'
<1>1. UNCHANGED <<messages, saved, pc, iteration, calls, nextCall, input, open, accepted, stop>>
  BY DEF BatchStarts, BatchEnds, Refuse, Execute, Finish, inputVars
<1>2. /\ DOMAIN status' = DOMAIN calls' /\ left' \subseteq DOMAIN calls'
      /\ \A p \in DOMAIN status' :
           status'[p] \in {"waiting", "approval", "running"} \union {"done", "refused"}
  <2>1. CASE BatchEnds
    BY <1>1, <2>1 DEF BatchEnds, IInv, Types, TypeOK
  <2>2. CASE BatchStarts
    BY <1>1, <2>2 DEF BatchStarts, IInv, Types, TypeOK
  <2>3. ASSUME NEW p \in Positions, Refuse(p) \/ Execute(p) \/ Finish(p)
        PROVE  /\ DOMAIN status' = DOMAIN status /\ left' = left
               /\ \A q \in DOMAIN status : status'[q] \in {status[q], "refused", "running", "done"}
    BY <2>3 DEF Refuse, Execute, Finish
  <2> QED BY <1>1, <2>1, <2>2, <2>3 DEF IInv, Types, TypeOK
<1>3. Types'
  BY <1>1, <1>2 DEF IInv, Types, TypeOK
<1> QED BY <1>1, <1>3 DEF IInv, Shape, SavedPairs, Endings, EndsClosed

LEMMA ToolsEndKeeps ==
  ASSUME IInv, ToolsEnd
  PROVE  IInv'
<1>1. /\ pc = "tools" /\ pc' = "saveResults" /\ messages' = messages \o InCallOrder
      /\ UNCHANGED <<saved, iteration, calls, left, status, nextCall, input, open, accepted, stop>>
  BY DEF ToolsEnd, toolVars, inputVars
<1>2. messages' \in Seq(Msg) /\ Closed(messages')
  BY <1>1, ResultsClose DEF IInv, Types, Shape, InCallOrder
<1>3. Types'
  BY <1>1, <1>2 DEF IInv, Types, TypeOK, SavePoints, InIteration
<1> QED BY <1>1, <1>2, <1>3 DEF IInv, Shape, SavedPairs, Endings, EndsClosed

LEMMA CheckpointKeeps ==
  ASSUME IInv, Checkpoint
  PROVE  IInv'
<1>1. /\ pc \in SavePoints /\ saved' = messages /\ pc' = After(pc)
      /\ iteration' = IF pc = "saveResults" THEN iteration + 1 ELSE iteration
      /\ UNCHANGED <<messages, calls, left, status, nextCall, input, open, accepted, stop>>
  BY DEF Checkpoint, toolVars, inputVars
<1>2. SavedPairs'
  BY <1>1, SaveKeepsPairs DEF IInv, SavedPairs, Pairs, CallsAnswered, ResultsDeclared, Answered
<1>3. \/ pc = "saveInput" /\ pc' = "request"
      \/ pc = "saveCalls" /\ pc' = "tools"
      \/ pc = "saveResults" /\ pc' = "iterate"
      \/ pc = "saveReply" /\ pc' = "conclude"
      \/ pc = "saveLast" /\ pc' = "ended"
  BY <1>1 DEF SavePoints, After
<1>4. Types'
  BY <1>1, <1>3, BoundsAssumption DEF IInv, Types, TypeOK, SavePoints, InIteration
<1>5. Shape'
  BY <1>1, <1>3 DEF IInv, Shape
<1>6. Endings' /\ EndsClosed'
  BY <1>1, <1>3 DEF IInv, Endings, EndsClosed
<1> QED BY <1>2, <1>4, <1>5, <1>6 DEF IInv

LEMMA ConcludeKeeps ==
  ASSUME IInv, Conclude
  PROVE  IInv'
<1>1. /\ pc = "conclude"
      /\ \/ /\ input = <<>> /\ pc' = "ended" /\ open' = FALSE /\ stop' = "completed"
            /\ iteration' = iteration
         \/ pc' = "iterate" /\ iteration' = iteration + 1 /\ UNCHANGED <<open, stop>>
      /\ UNCHANGED <<messages, saved, calls, left, status, nextCall, input, accepted>>
  BY DEF Conclude, NothingWaits, toolVars
<1>2. /\ iteration \in 0..MaxIterations /\ iteration < MaxIterations
      /\ open \in BOOLEAN /\ stop = "none"
  BY <1>1 DEF IInv, Types, TypeOK, InIteration, Endings
<1>3. iteration' = iteration \/ iteration' = iteration + 1
  BY <1>1
<1>4. iteration' \in 0..MaxIterations
  BY <1>2, <1>3, BoundsAssumption
<1>5. /\ stop' \in {"none", "completed"} /\ pc' \in {"ended", "iterate"}
      /\ open' \in BOOLEAN
  BY <1>1, <1>2
<1>6. Types'
  BY <1>1, <1>4, <1>5 DEF IInv, Types, TypeOK, SavePoints, InIteration
<1> QED BY <1>1, <1>6 DEF IInv, Shape, SavedPairs, Endings, EndsClosed

LEMMA BreakKeeps ==
  ASSUME IInv, Raise \/ Cancel
  PROVE  IInv'
<1>1. /\ pc' = "ended" /\ open' = FALSE /\ stop' \in {"raised", "cancelled"}
      /\ UNCHANGED <<messages, saved, iteration, calls, left, status, nextCall, input, accepted>>
  BY DEF Raise, Cancel, toolVars
<1>2. Types'
  BY <1>1 DEF IInv, Types, TypeOK, SavePoints, InIteration
<1> QED BY <1>1, <1>2 DEF IInv, Shape, SavedPairs, Endings, EndsClosed

LEMMA StepKeeps == IInv /\ [Next]_vars => IInv'
<1> SUFFICES ASSUME IInv, [Next]_vars PROVE IInv'
  OBVIOUS
<1>1. CASE \E m \in Inputs : Steer(m)
  BY <1>1, SteerKeeps
<1>2. CASE Loop
  BY <1>2, IterationStartsKeeps, ReplyKeeps, ToolStepKeeps, ToolsEndKeeps, CheckpointKeeps,
     ConcludeKeeps DEF Loop
<1>3. CASE Model
  BY <1>3, ReplyKeeps, ModelCallsKeeps DEF Model
<1>4. CASE \E p \in Positions : Call(p)
  BY <1>4, ToolStepKeeps DEF Call
<1>5. CASE Raise \/ Cancel
  BY <1>5, BreakKeeps
<1>6. CASE UNCHANGED vars
  BY <1>6 DEF vars, toolVars, inputVars, IInv, Types, TypeOK, Shape, SavedPairs, Endings,
              EndsClosed
<1> QED BY <1>1, <1>2, <1>3, <1>4, <1>5, <1>6 DEF Next

-----------------------------------------------------------------------------
\* Every variable keeps its type, and the model is asked at most MaxIterations
\* times (the loop of _run_iterations).
THEOREM RunIsTyped == Spec => []TypeOK
<1>1. IInv => TypeOK
  BY DEF IInv, Types
<1> QED BY <1>1, InitHolds, StepKeeps, PTL DEF Spec

\* Whatever checkpoint a run of any length dies after, the saved messages pair
\* up: _checkpoint never writes a result without its call, nor a call that is
\* neither answered at once nor the last message.
THEOREM CheckpointsPair == Spec => []SavedPairs
<1>1. IInv => SavedPairs
  BY DEF IInv
<1> QED BY <1>1, InitHolds, StepKeeps, PTL DEF Spec

\* A run that ends by itself has saved a transcript whose last word is the
\* model's, and one that completes leaves no steered input unanswered.
THEOREM RunsEndClosed == Spec => []EndsClosed
<1>1. IInv => EndsClosed
  BY DEF IInv
<1> QED BY <1>1, InitHolds, StepKeeps, PTL DEF Spec

-----------------------------------------------------------------------------
\* The batches.  Calls are taken in order: what has left is settled, what is
\* behind the head batch waits.

BatchInv ==
  /\ pc = "saveCalls" =>
       left = DOMAIN calls /\ \A p \in DOMAIN calls : status[p] = "waiting"
  /\ pc = "tools" =>
       /\ left \subseteq DOMAIN calls
       /\ \A p \in left : \A q \in DOMAIN calls : p < q => q \in left
       /\ \A p \in DOMAIN calls \ left : status[p] \in Settled
       /\ \A p \in left \ HeadBatch : status[p] = "waiting"

CallPositions == DOMAIN calls \subseteq Nat /\ DOMAIN status = DOMAIN calls

LEMMA CallsArePlaced == IInv => CallPositions
<1> SUFFICES ASSUME IInv PROVE CallPositions
  OBVIOUS
<1>1. calls \in Seq(ACall) /\ DOMAIN status = DOMAIN calls
  BY DEF IInv, Types, TypeOK
<1>2. DOMAIN calls = 1..Len(calls) /\ Len(calls) \in Nat
  BY <1>1, LenProperties
<1> QED BY <1>1, <1>2 DEF CallPositions

\* Calls behind the head batch stay behind it when it ends.
LEMMA BatchEndsKeepsBatches ==
  ASSUME CallPositions, BatchInv, BatchEnds
  PROVE  BatchInv'
<1>1. /\ pc = "tools" /\ UNCHANGED <<pc, calls, status>> /\ left' = left \ HeadBatch
      /\ \A p \in HeadBatch : status[p] \in Settled
  BY DEF BatchEnds
<1>2. /\ left \subseteq DOMAIN calls
      /\ \A p \in left : \A q \in DOMAIN calls : p < q => q \in left
      /\ \A p \in DOMAIN calls \ left : status[p] \in Settled
      /\ \A p \in left \ HeadBatch : status[p] = "waiting"
  BY <1>1 DEF BatchInv
<1>3. ASSUME NEW p \in left', NEW q \in DOMAIN calls, p < q PROVE q \in left'
  <2>1. p \in left /\ p \notin HeadBatch /\ q \in left
    BY <1>1, <1>2, <1>3
  <2>2. left \subseteq Nat
    BY <1>2 DEF CallPositions
  <2>3. q \notin HeadBatch
    BY <1>3, <2>1, <2>2 DEF HeadBatch
  <2> QED BY <1>1, <2>1, <2>3
<1>4. \A p \in left' \ HeadBatch' : status[p] = "waiting"
  BY <1>1, <1>2
<1> QED BY <1>1, <1>2, <1>3, <1>4 DEF BatchInv, Settled

LEMMA BatchStartsKeepsBatches ==
  ASSUME CallPositions, BatchInv, BatchStarts
  PROVE  BatchInv'
<1>1. /\ pc = "tools" /\ UNCHANGED <<pc, calls, left>>
      /\ status' = [p \in DOMAIN status |-> IF p \in HeadBatch THEN "approval" ELSE status[p]]
  BY DEF BatchStarts
<1>2. HeadBatch' = HeadBatch /\ HeadBatch \subseteq left
  BY <1>1 DEF HeadBatch
<1>3. \A p \in DOMAIN calls \ HeadBatch : status'[p] = status[p]
  BY <1>1 DEF CallPositions
<1> QED BY <1>1, <1>2, <1>3 DEF BatchInv, Settled

\* Only calls of the head batch ask, run and settle.
LEMMA CallKeepsBatches ==
  ASSUME CallPositions, BatchInv, NEW p \in Positions, Call(p)
  PROVE  BatchInv'
<1>1. /\ pc = "tools" /\ UNCHANGED <<pc, calls, left>>
      /\ p \in DOMAIN status /\ status[p] \in {"approval", "running"}
      /\ \A q \in DOMAIN status \ {p} : status'[q] = status[q]
  BY DEF Call, Refuse, Execute, Finish
<1>2. p \in HeadBatch
  BY <1>1 DEF BatchInv, Settled, CallPositions
<1>3. HeadBatch' = HeadBatch /\ HeadBatch \subseteq left
  BY <1>1 DEF HeadBatch
<1> QED BY <1>1, <1>2, <1>3 DEF BatchInv, Settled, CallPositions

LEMMA OthersKeepBatches ==
  ASSUME BatchInv,
         \/ \E m \in Inputs : Steer(m)
         \/ IterationStarts \/ IterationsExhausted \/ ToolsEnd \/ Checkpoint \/ Conclude
         \/ Model \/ Raise \/ Cancel \/ UNCHANGED vars
  PROVE  BatchInv'
<1>1. CASE ModelCalls
  BY <1>1 DEF ModelCalls, BatchInv
<1>2. CASE Checkpoint
  <2>1. /\ UNCHANGED <<calls, left, status>>
        /\ pc' = "tools" => pc = "saveCalls"
        /\ pc' # "saveCalls"
    BY <1>2 DEF Checkpoint, After, SavePoints, toolVars
  <2>2. CASE pc' = "tools"
    <3>1. left' = DOMAIN calls' /\ \A p \in DOMAIN calls' : status'[p] = "waiting"
      BY <2>1, <2>2 DEF BatchInv
    <3> QED BY <2>1, <3>1 DEF BatchInv
  <2> QED BY <2>1, <2>2 DEF BatchInv
<1>3. CASE (\E m \in Inputs : Steer(m)) \/ UNCHANGED vars
  BY <1>3 DEF Steer, vars, toolVars, BatchInv, HeadBatch
<1>4. CASE \/ IterationStarts \/ IterationsExhausted \/ ToolsEnd \/ Conclude
           \/ ModelFails \/ ModelAnswers \/ Raise \/ Cancel
  <2>1. pc' \notin {"saveCalls", "tools"}
    BY <1>4 DEF IterationStarts, IterationsExhausted, ToolsEnd, Conclude, ModelFails,
       ModelAnswers, Raise, Cancel
  <2> QED BY <2>1 DEF BatchInv
<1> QED BY <1>1, <1>2, <1>3, <1>4 DEF Model

LEMMA BatchesKept == IInv /\ BatchInv /\ [Next]_vars => BatchInv'
<1> SUFFICES ASSUME IInv, BatchInv, [Next]_vars PROVE BatchInv'
  OBVIOUS
<1>1. CallPositions
  BY CallsArePlaced
<1> QED BY <1>1, BatchEndsKeepsBatches, BatchStartsKeepsBatches, CallKeepsBatches,
     OthersKeepBatches DEF Next, Loop

LEMMA BatchesApart == IInv /\ BatchInv => SerialToolsAlone
<1> SUFFICES ASSUME IInv, BatchInv, pc = "tools",
                    NEW p \in DOMAIN status, NEW q \in DOMAIN status, p < q,
                    status[q] # "waiting", Active(p) \/ status[p] = "waiting",
                    NEW i \in p..q
             PROVE  calls[i].safe
  BY DEF SerialToolsAlone
<1>1. CallPositions /\ p \in DOMAIN calls /\ q \in DOMAIN calls /\ p \in Nat /\ q \in Nat
  BY CallsArePlaced DEF CallPositions
<1>2. p \in left
  BY <1>1 DEF BatchInv, Active, Settled
<1>3. q \in left
  BY <1>1, <1>2 DEF BatchInv
<1>4. q \in HeadBatch
  BY <1>3 DEF BatchInv
<1>5. \A j \in left : j <= q => calls[j].safe
  BY <1>1, <1>2, <1>4 DEF HeadBatch
<1>6. i \in DOMAIN calls
  <2>1. DOMAIN calls = 1..Len(calls) /\ Len(calls) \in Nat
    BY LenProperties DEF IInv, Types
  <2> QED BY <1>1, <2>1
<1>7. i \in left
  BY <1>1, <1>2, <1>6 DEF BatchInv
<1> QED BY <1>1, <1>5, <1>7

\* However many calls a response holds and however they end, a tool that is not
\* parallel-safe overlaps no other call, and none is taken past it
\* (_partition_calls, execute_many).
THEOREM SerialAlone == Spec => []SerialToolsAlone
<1>1. Init => BatchInv
  BY DEF Init, BatchInv
<1> QED BY <1>1, BatchesKept, BatchesApart, InitHolds, StepKeeps, PTL DEF Spec

-----------------------------------------------------------------------------
\* The input.  InputKept is inductive; the lemmas say what each growth of the
\* messages does to the steered ones among them.

TakenOf(ms) == {i \in DOMAIN ms : ms[i].role = "user" /\ ms[i].ref # "task"}
RefsOf(ms)  == {ms[i].ref : i \in TakenOf(ms)}

InputInv ==
  /\ IsFiniteSet(accepted)
  /\ RefsOf(messages) \union Range(input) = accepted
  /\ Cardinality(TakenOf(messages)) + Len(input) = Cardinality(accepted)

LEMMA TakenIsFinite ==
  ASSUME NEW ms \in Seq(Msg)
  PROVE  IsFiniteSet(TakenOf(ms)) /\ Cardinality(TakenOf(ms)) \in Nat
<1>1. DOMAIN ms = 1..Len(ms) /\ Len(ms) \in Nat
  BY LenProperties
<1>2. IsFiniteSet(1..Len(ms))
  BY <1>1, FS_Interval
<1>3. TakenOf(ms) \subseteq 1..Len(ms)
  BY <1>1 DEF TakenOf
<1> QED BY <1>2, <1>3, FS_Subset, FS_CardinalityType

LEMMA TakenJoined ==
  ASSUME NEW ms \in Seq(Msg), NEW xs \in Seq(Msg)
  PROVE  /\ TakenOf(ms \o xs) = TakenOf(ms) \union {Len(ms) + i : i \in TakenOf(xs)}
         /\ RefsOf(ms \o xs) = RefsOf(ms) \union RefsOf(xs)
<1> DEFINE all == ms \o xs
<1>1. /\ all \in Seq(Msg) /\ Len(all) = Len(ms) + Len(xs)
      /\ \A i \in 1..Len(ms) + Len(xs) :
           all[i] = IF i <= Len(ms) THEN ms[i] ELSE xs[i - Len(ms)]
  BY ConcatProperties
<1>2. /\ Len(ms) \in Nat /\ Len(xs) \in Nat /\ DOMAIN all = 1..Len(all)
      /\ DOMAIN ms = 1..Len(ms) /\ DOMAIN xs = 1..Len(xs)
  BY <1>1, LenProperties
<1> HIDE DEF all
<1>3. \A i \in DOMAIN ms : i \in DOMAIN all /\ all[i] = ms[i]
  BY <1>1, <1>2
<1>4. ASSUME NEW j \in DOMAIN xs
      PROVE  Len(ms) + j \in DOMAIN all /\ all[Len(ms) + j] = xs[j]
  <2>1. /\ Len(ms) + j \in 1..Len(ms) + Len(xs)
        /\ ~(Len(ms) + j <= Len(ms)) /\ (Len(ms) + j) - Len(ms) = j
    BY <1>2
  <2> QED BY <1>1, <1>2, <2>1
<1>5. \A i \in DOMAIN all : i \in DOMAIN ms \/ \E j \in DOMAIN xs : i = Len(ms) + j
  <2> SUFFICES ASSUME NEW i \in DOMAIN all, i \notin DOMAIN ms
               PROVE  \E j \in DOMAIN xs : i = Len(ms) + j
    OBVIOUS
  <2>1. i - Len(ms) \in DOMAIN xs /\ i = Len(ms) + (i - Len(ms))
    BY <1>1, <1>2
  <2> QED BY <2>1
<1>6. TakenOf(all) = TakenOf(ms) \union {Len(ms) + i : i \in TakenOf(xs)}
  BY <1>3, <1>4, <1>5 DEF TakenOf
<1>7. \A i \in TakenOf(xs) : all[Len(ms) + i].ref = xs[i].ref
  BY <1>4 DEF TakenOf
<1>8. \A i \in TakenOf(ms) : all[i].ref = ms[i].ref
  BY <1>3 DEF TakenOf
<1>9. RefsOf(all) = RefsOf(ms) \union RefsOf(xs)
  BY <1>6, <1>7, <1>8 DEF RefsOf
<1> QED BY <1>6, <1>9 DEF all

\* What the model and the tools say is no input.
LEMMA TakenUnmoved ==
  ASSUME NEW ms \in Seq(Msg), NEW xs \in Seq(Msg), \A i \in DOMAIN xs : xs[i].role # "user"
  PROVE  TakenOf(ms \o xs) = TakenOf(ms) /\ RefsOf(ms \o xs) = RefsOf(ms)
<1>1. TakenOf(xs) = {} /\ RefsOf(xs) = {}
  BY DEF TakenOf, RefsOf
<1>2. /\ TakenOf(ms \o xs) = TakenOf(ms) \union {Len(ms) + i : i \in TakenOf(xs)}
      /\ RefsOf(ms \o xs) = RefsOf(ms) \union RefsOf(xs)
  BY TakenJoined
<1>3. {Len(ms) + i : i \in TakenOf(xs)} = {}
  BY <1>1
<1> QED BY <1>1, <1>2, <1>3

LEMMA TakenUnmovedByOne ==
  ASSUME NEW ms \in Seq(Msg), NEW x \in Msg, x.role # "user"
  PROVE  TakenOf(Append(ms, x)) = TakenOf(ms) /\ RefsOf(Append(ms, x)) = RefsOf(ms)
<1>1. Append(ms, x) = ms \o <<x>> /\ <<x>> \in Seq(Msg)
  BY AppendAddsOne
<1>2. \A i \in DOMAIN <<x>> : <<x>>[i].role # "user"
  OBVIOUS
<1> QED BY <1>1, <1>2, TakenUnmoved

LEMMA UnmovedKeepsInput ==
  ASSUME InputInv, UNCHANGED <<input, accepted>>,
         TakenOf(messages') = TakenOf(messages), RefsOf(messages') = RefsOf(messages)
  PROVE  InputInv'
BY DEF InputInv, RefsOf, TakenOf, Range

LEMMA SteerKeepsInput ==
  ASSUME IInv, InputInv, NEW m \in Inputs, Steer(m)
  PROVE  InputInv'
<1>1. /\ m \notin accepted /\ messages' = messages
      /\ input' = Append(input, m) /\ accepted' = accepted \union {m}
  BY DEF Steer
<1>2. input \in Seq(Inputs) /\ messages \in Seq(Msg)
  BY DEF IInv, Types
<1>3. IsFiniteSet(accepted') /\ Cardinality(accepted') = Cardinality(accepted) + 1
  BY <1>1, FS_AddElement DEF InputInv
<1>4. Len(input') = Len(input) + 1 /\ Range(input') = Range(input) \union {m}
  <2>1. /\ input' \in Seq(Inputs) /\ Len(input') = Len(input) + 1
        /\ \A i \in 1..Len(input) : input'[i] = input[i]
        /\ input'[Len(input) + 1] = m
    BY <1>1, <1>2, AppendProperties
  <2>2. /\ Len(input) \in Nat /\ DOMAIN input = 1..Len(input)
        /\ DOMAIN input' = 1..Len(input) + 1
    BY <1>2, <2>1, LenProperties
  <2>3. DOMAIN input' = DOMAIN input \union {Len(input) + 1}
    BY <2>2
  <2> QED BY <2>1, <2>2, <2>3 DEF Range
<1>5. TakenOf(messages') = TakenOf(messages) /\ RefsOf(messages') = RefsOf(messages)
  BY <1>1
<1>6. RefsOf(messages') \union Range(input') = accepted'
  BY <1>1, <1>4, <1>5 DEF InputInv
<1>7. Cardinality(TakenOf(messages')) + Len(input') = Cardinality(accepted')
  <2>1. Cardinality(TakenOf(messages)) \in Nat /\ Len(input) \in Nat
    BY <1>2, TakenIsFinite, LenProperties
  <2> QED BY <1>3, <1>4, <1>5, <2>1 DEF InputInv
<1> QED BY <1>3, <1>6, <1>7 DEF InputInv, RefsOf, TakenOf, Range

\* The top of an iteration moves the whole queue into the messages.
LEMMA IterationKeepsInput ==
  ASSUME IInv, InputInv, IterationStarts
  PROVE  InputInv'
<1> DEFINE n == Len(input)
           k == Len(messages)
<1>1. input' = <<>> /\ messages' = messages \o TakenInput /\ accepted' = accepted
  BY DEF IterationStarts
<1>2. /\ messages \in Seq(Msg) /\ input \in [1..n -> Inputs]
      /\ n \in Nat /\ k \in Nat /\ DOMAIN input = 1..n /\ DOMAIN messages = 1..k
  BY LenProperties DEF IInv, Types
<1>3. TakenInput \in Seq(Msg) /\ DOMAIN TakenInput = 1..n
  <2>1. TakenInput \in [1..n -> Msg]
    BY <1>2, MessageTypes DEF TakenInput
  <2> QED BY <1>2, <2>1, FunctionAsSequence
<1>4. \A i \in 1..n : TakenInput[i].role = "user" /\ TakenInput[i].ref = input[i]
  BY <1>2 DEF TakenInput, User
<1>5. TakenOf(TakenInput) = 1..n
  BY <1>2, <1>3, <1>4, InputsAssumption DEF TakenOf
<1>6. RefsOf(TakenInput) = Range(input)
  BY <1>2, <1>4, <1>5 DEF RefsOf, Range
<1>7. TakenOf(messages') = TakenOf(messages) \union ((k + 1)..(k + n))
  <2>1. {k + i : i \in 1..n} = (k + 1)..(k + n)
    <3>1. \A j \in (k + 1)..(k + n) : j - k \in 1..n /\ j = k + (j - k)
      BY <1>2
    <3>2. \A i \in 1..n : k + i \in (k + 1)..(k + n)
      BY <1>2
    <3> QED BY <3>1, <3>2
  <2>2. /\ TakenOf(messages \o TakenInput)
             = TakenOf(messages) \union {k + i : i \in TakenOf(TakenInput)}
        /\ RefsOf(messages \o TakenInput) = RefsOf(messages) \union RefsOf(TakenInput)
    BY <1>2, <1>3, TakenJoined
  <2>3. {k + i : i \in TakenOf(TakenInput)} = {k + i : i \in 1..n}
    BY <1>5
  <2>4. TakenOf(messages') = TakenOf(messages \o TakenInput)
    BY <1>1
  <2> QED BY <2>1, <2>2, <2>3, <2>4
<1>8. RefsOf(messages') = RefsOf(messages) \union Range(input)
  BY <1>1, <1>2, <1>3, <1>6, TakenJoined
<1>9. Cardinality(TakenOf(messages')) = Cardinality(TakenOf(messages)) + n
  <2> DEFINE A == TakenOf(messages)
             B == (k + 1)..(k + n)
  <2>1. IsFiniteSet(A) /\ Cardinality(A) \in Nat
    BY <1>2, TakenIsFinite
  <2>2. IsFiniteSet(B) /\ Cardinality(B) = n
    <3>1. k + 1 \in Int /\ k + n \in Int
      BY <1>2
    <3>2. /\ IsFiniteSet(B)
          /\ Cardinality(B) = IF k + 1 > k + n THEN 0 ELSE (k + n) - (k + 1) + 1
      BY <3>1, FS_Interval
    <3> QED BY <1>2, <3>2
  <2>3. A \cap B = {}
    BY <1>2 DEF TakenOf
  <2> HIDE DEF A, B
  <2>4. Cardinality(A \union B) = Cardinality(A) + Cardinality(B)
    <3>1. Cardinality(A \union B) = Cardinality(A) + Cardinality(B) - Cardinality(A \cap B)
      BY <2>1, <2>2, FS_Union
    <3>2. Cardinality(A \cap B) = 0
      BY <2>3, FS_EmptySet
    <3> QED BY <1>2, <2>1, <2>2, <3>1, <3>2
  <2> QED BY <1>7, <2>2, <2>4 DEF A, B
<1>10. Range(input') = {} /\ Len(input') = 0
  BY <1>1 DEF Range
<1>11. RefsOf(messages') \union Range(input') = accepted'
  BY <1>1, <1>8, <1>10 DEF InputInv
<1>12. Cardinality(TakenOf(messages')) + Len(input') = Cardinality(accepted')
  <2>1. Cardinality(TakenOf(messages)) \in Nat
    BY <1>2, TakenIsFinite
  <2> QED BY <1>1, <1>2, <1>9, <1>10, <2>1 DEF InputInv
<1>13. IsFiniteSet(accepted')
  BY <1>1 DEF InputInv
<1> QED BY <1>11, <1>12, <1>13 DEF InputInv, RefsOf, TakenOf, Range

LEMMA AnswersKeepInput ==
  ASSUME IInv, InputInv,
         \/ IterationsExhausted \/ Model \/ ToolsEnd
         \/ BatchStarts \/ BatchEnds \/ Checkpoint \/ Conclude \/ Raise \/ Cancel
         \/ \E p \in Positions : Call(p)
         \/ UNCHANGED vars
  PROVE  InputInv'
<1>1. UNCHANGED <<input, accepted>>
  BY DEF IterationsExhausted, Model, ModelFails, ModelAnswers, ModelCalls, ToolsEnd, BatchStarts,
     BatchEnds, Checkpoint, Conclude, Raise, Cancel, Call, Refuse, Execute, Finish, inputVars, vars
<1>2. messages \in Seq(Msg) /\ Reply \in Msg /\ Reply.role # "user"
  BY MessageTypes DEF IInv, Types, Reply
<1>3. CASE IterationsExhausted \/ ModelFails \/ ModelAnswers
  <2>1. messages' = Append(messages, Reply)
    BY <1>3 DEF IterationsExhausted, ModelFails, ModelAnswers, WithLastWord
  <2> QED BY <1>1, <1>2, <2>1, TakenUnmovedByOne, UnmovedKeepsInput
<1>4. CASE ModelCalls
  <2>1. calls' \in Seq(ACall)
    BY <1>4, StepKeeps DEF Next, Model, IInv, Types
  <2>2. messages' = Append(messages, Calling(calls')) /\ Calling(calls') \in Msg
    BY <1>4, <2>1, MessageTypes DEF ModelCalls
  <2>3. Calling(calls').role # "user"
    BY DEF Calling
  <2> QED BY <1>1, <1>2, <2>2, <2>3, TakenUnmovedByOne, UnmovedKeepsInput
<1>5. CASE ToolsEnd
  <2>1. messages' = messages \o InCallOrder
    BY <1>5 DEF ToolsEnd
  <2>2. InCallOrder \in Seq(Msg)
    <3>1. /\ calls \in [1..Len(calls) -> ACall] /\ Len(calls) \in Nat
          /\ DOMAIN calls = 1..Len(calls)
      BY LenProperties DEF IInv, Types
    <3>2. InCallOrder \in [1..Len(calls) -> Msg]
      BY <3>1, MessageTypes DEF InCallOrder, ACall
    <3> QED BY <3>1, <3>2, FunctionAsSequence
  <2>3. \A i \in DOMAIN InCallOrder : InCallOrder[i].role # "user"
    BY DEF InCallOrder, Result
  <2> QED BY <1>1, <1>2, <2>1, <2>2, <2>3, TakenUnmoved, UnmovedKeepsInput
<1>6. CASE \/ BatchStarts \/ BatchEnds \/ Checkpoint \/ Conclude \/ Raise \/ Cancel
           \/ \E p \in Positions : Call(p)
           \/ UNCHANGED vars
  <2>1. messages' = messages
    BY <1>6 DEF BatchStarts, BatchEnds, Checkpoint, Conclude, Raise, Cancel, Call, Refuse,
       Execute, Finish, vars
  <2> QED BY <1>1, <2>1, UnmovedKeepsInput
<1> QED BY <1>3, <1>4, <1>5, <1>6 DEF Model

LEMMA InputStepKeeps == IInv /\ InputInv /\ [Next]_vars => InputInv'
BY SteerKeepsInput, IterationKeepsInput, AnswersKeepInput DEF Next, Loop

LEMMA InitInput == Init => InputInv
<1> SUFFICES ASSUME Init PROVE InputInv
  OBVIOUS
<1>1. messages = <<User("task")>> /\ input = <<>> /\ accepted = {}
  BY DEF Init
<1>2. TakenOf(messages) = {} /\ RefsOf(messages) = {}
  BY <1>1 DEF TakenOf, RefsOf, User
<1>3. Range(input) = {} /\ Len(input) = 0
  BY <1>1 DEF Range
<1> QED BY <1>1, <1>2, <1>3, FS_EmptySet DEF InputInv

\* For any number of inputs and iterations, what steer accepted is in the queue
\* or, once, in the conversation: the top of an iteration drops and repeats
\* nothing, wherever the run is interrupted.
THEOREM SteeredInputKept == Spec => []InputKept
<1>1. InputInv => InputKept
  BY DEF InputInv, InputKept, TakenOf, RefsOf, TakenAt
<1> QED BY <1>1, InitInput, InputStepKeeps, InitHolds, StepKeeps, PTL DEF Spec
=============================================================================
