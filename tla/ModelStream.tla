------------------------------ MODULE ModelStream ------------------------------
(* One model call of a run: the request is fitted to the context window        *)
(* (agent/runner.py, ContextWindow), sent and, when it fails before anything   *)
(* was shown, sent again (providers/base.py); the streamed reply is shown      *)
(* delta by delta and assembled (providers/openai_chat_completions.py).  The   *)
(* service at the other end is external: it sends any chunks and fails at any  *)
(* point.                                                                      *)
EXTENDS ContextWindow

CONSTANTS
  Histories,    \* run messages a call may start from
  Windows,      \* context_window_tokens
  Chunks,       \* chunks the service may send
  Replies,      \* replies of a call that does not stream
  Exceptions,   \* what the SDK of the service raises
  MaxChunks,    \* bound: chunks of one attempt
  MaxRetries, RetryDelays, MaxDelay     \* RetryConfig, in tenths of a second

TextKinds == {"content", "refusal", "reasoning"}

(* What an AgentError of a call may say. *)
ErrorCodes == {
  "model_timeout", "model_connection_error", "model_auth_error", "model_permission_error",
  "model_quota_error", "model_rate_limit", "model_bad_request", "model_server_error",
  "model_request_error", "model_response_parse_error", "model_stream_incomplete"}

(* What a chunk may say of a call, in place i of those its reply has. *)
CallDeltas(I) == [index : I, id : STRING \union {None}, name : STRING \union {None},
                  args : Seq(STRING)]

(* What a run's messages are made of: what others write, and what the repair   *)
(* and the cut of a long result put in.                                        *)
Vocabulary == STRING \union {LostResult, "[truncated]"}
Messages == [role : STRING \union AllowedRoles, text : Seq(Vocabulary), parts : BOOLEAN,
             reasoning : BOOLEAN, calls : Seq(STRING \union {NoCall}),
             ref : STRING \union {NoCall}, ui : BOOLEAN]

(* A run appends the results of a reply's calls before anything else.          *)
ASSUME HistoriesAssumption ==
  \A h \in Histories : h \in Seq(Messages) /\ (CallsDistinct(h) => ResultsInPlace(h))

ASSUME StreamAssumption ==
  /\ MaxRetries \in Nat /\ MaxDelay \in Nat /\ RetryDelays \in Seq(Nat)
  /\ None \notin Nat \union ErrorCodes
  /\ \A c \in Chunks :
       /\ c.text \in [TextKinds -> Seq(STRING)]
       /\ c.tools \in Seq(CallDeltas(Nat \union {None}))

VARIABLES
  history, window, streams,    \* the call: run messages, window, stream or not
  request,      \* the messages of the ModelRequest
  stage,
  attempt,      \* repetitions so far
  options,      \* the payload asks for stream_options
  acc,          \* _ChatStreamAccumulator of the attempt
  emits,        \* parsed deltas the callbacks have not been given yet
  escaped,      \* has_streamed_delta
  pause,        \* the delay before the next attempt
  answer,       \* the ModelResponse of the attempt
  sent,         \* ghost: chunks of the attempt
  shown         \* ghost: deltas the callbacks were given, of all attempts

callVars == <<history, window, streams, request, stage, attempt, options, acc, emits,
          escaped, pause, answer, sent, shown>>
call == <<history, window, streams, request>>

NoText == [k \in TextKinds |-> <<>>]

NewAccumulator == [text |-> NoText, tools |-> <<>>, finish |-> None]

-------------------------------------------------------------------------------
(* Errors.  An exception e has a kind, a status code, an error type or code    *)
(* naming a quota, a message naming one or stream_options, and headers.        *)

LooksLikeQuotaError(e) == e.quota \/ (e.status \in {402, 429} /\ e.quotaText)

ClassifyErrorCode(e) ==
  CASE e.kind = "timeout"                         -> "model_timeout"
    [] e.kind = "connection"                      -> "model_connection_error"
    [] e.kind = None /\ e.status = 401            -> "model_auth_error"
    [] e.kind = None /\ e.status = 403            -> "model_permission_error"
    [] e.kind = None /\ e.status \notin {401, 403}
         /\ (e.status = 402 \/ LooksLikeQuotaError(e)) -> "model_quota_error"
    [] OTHER -> CASE e.status = 429 -> "model_rate_limit"
                  [] e.status = 400 -> "model_bad_request"
                  [] e.status # None /\ e.status >= 500 -> "model_server_error"
                  [] OTHER -> "model_request_error"

IsRecoverableError(e) ==
  IF e.shouldRetry # None THEN e.shouldRetry
  ELSE /\ ~LooksLikeQuotaError(e)
       /\ \/ e.kind \in {"timeout", "connection"}
          \/ e.status \in {408, 409, 429}
          \/ e.status # None /\ e.status >= 500

ShouldRetryStreamWithoutOptions(e) == e.status \in {400, 422} /\ e.optionsRefused

Floor(n) == IF n > 0 THEN n ELSE 1                   \* at least 0.1 s

RetryAfterFromHeaders(e) ==
  CASE e.retryMs # None /\ e.retryMs > 0 -> e.retryMs
    [] (e.retryMs = None \/ e.retryMs = 0) /\ e.retryAfter # None -> Floor(e.retryAfter)
    [] OTHER -> None

RetryAfterFromText(e) == IF e.retryText = None THEN None ELSE Floor(e.retryText)

RetryAfter(e) ==
  IF RetryAfterFromHeaders(e) # None THEN RetryAfterFromHeaders(e) ELSE RetryAfterFromText(e)

Response(text, calls, finish, error, recoverable, after) ==
  [text |-> text, calls |-> calls, finish |-> finish, error |-> error,
   recoverable |-> recoverable, after |-> after]

ErrorResponse(e) ==
  Response(NoText, <<>>, "error", ClassifyErrorCode(e), IsRecoverableError(e), RetryAfter(e))
StreamIdleTimeoutResponse == Response(NoText, <<>>, "error", "model_timeout", TRUE, None)
ParseErrorResponse ==
  Response(NoText, <<>>, "error", "model_response_parse_error", FALSE, None)

ShouldRetryResponse(r) == r.error # None /\ r.recoverable

AtMost(a, b) == IF a < b THEN a ELSE b

RetryDelay(r, index) ==
  IF r.after # None /\ r.after > 0 THEN AtMost(r.after, MaxDelay)
  ELSE IF RetryDelays = <<>> THEN 0
  ELSE AtMost(RetryDelays[AtMost(index, Len(RetryDelays))], MaxDelay)

-------------------------------------------------------------------------------
(* Replies.  The arguments of a call arrive in fragments; "{" then "}" stands  *)
(* for the text of one JSON object.                                            *)
Object == <<"{", "}">>
OrObject(fragments) == IF fragments = <<>> THEN Object ELSE fragments

Parses(c) == c.name # None /\ c.id # None /\ c.args = Object

(* _parse_response of a reply that was not streamed. *)
ParseResponse(reply) ==
  LET calls == [i \in DOMAIN reply.calls |-> [reply.calls[i] EXCEPT !.args = OrObject(@)]]
  IN  IF reply.choice /\ \A i \in DOMAIN calls : Parses(calls[i])
      THEN Response(reply.text, calls, IF reply.finish = None THEN "stop" ELSE reply.finish,
                    None, FALSE, None)
      ELSE ParseErrorResponse

IndexOf(d, hint) == IF d.index = None THEN hint ELSE d.index
Either(new, old) == IF new = None THEN old ELSE new

AccumulateByPosition(tools, d, hint) ==              \* mutant: the index is ignored
  LET old == IF hint \in DOMAIN tools THEN tools[hint]
             ELSE [id |-> None, name |-> None, args |-> <<>>]
      new == [id |-> Either(d.id, old.id), name |-> Either(d.name, old.name),
              args |-> old.args \o d.args]
  IN  [j \in DOMAIN tools \union {hint} |-> IF j = hint THEN new ELSE tools[j]]

AccumulateToolDelta(tools, d, hint) ==
  LET i   == IndexOf(d, hint)
      old == IF i \in DOMAIN tools THEN tools[i] ELSE [id |-> None, name |-> None, args |-> <<>>]
      new == [id |-> Either(d.id, old.id), name |-> Either(d.name, old.name),
              args |-> old.args \o d.args]
  IN  [j \in DOMAIN tools \union {i} |-> IF j = i THEN new ELSE tools[j]]

Consume(a, c) ==
  IF ~c.choice THEN a
  ELSE LET tools[n \in 0..Len(c.tools)] ==
             IF n = 0 THEN a.tools ELSE AccumulateToolDelta(tools[n - 1], c.tools[n], n - 1)
       IN  [text   |-> [k \in DOMAIN a.text |-> a.text[k] \o c.text[k]],
            tools  |-> tools[Len(c.tools)],
            finish |-> Either(c.finish, a.finish)]

(* What the callbacks are given for a chunk, in their order. *)
ParsedStreamChunk(c) ==
  IF ~c.choice THEN <<>>
  ELSE LET Said(k) == IF c.text[k] = <<>> THEN <<>> ELSE <<[kind |-> k, words |-> c.text[k]]>>
       IN  Said("content") \o Said("refusal") \o Said("reasoning")
           \o [i \in DOMAIN c.tools |->
                 [kind |-> "tool", call |-> [c.tools[i] EXCEPT !.index = IndexOf(c.tools[i], i - 1)]]]

FallbackId(i) == "call_" \o ToString(i)

ParseStreamToolCalls(tools) ==
  LET named   == {i \in DOMAIN tools : tools[i].name # None}
      Nth(k)  == CHOOSE i \in named : Cardinality({j \in named : j <= i}) = k
      Call(i) == [id   |-> IF tools[i].id = None THEN FallbackId(i) ELSE tools[i].id,
                  name |-> tools[i].name, args |-> OrObject(tools[i].args)]
  IN  [k \in 1..Cardinality(named) |-> Call(Nth(k))]

Finalize(a) ==
  LET calls == ParseStreamToolCalls(a.tools)
  IN  IF a.finish = None
      THEN Response(a.text, <<>>, "error", "model_stream_incomplete", TRUE, None)
      ELSE IF \A i \in DOMAIN calls : Parses(calls[i])
      THEN Response(a.text, calls, a.finish, None, FALSE, None)
      ELSE ParseErrorResponse

-------------------------------------------------------------------------------
CallInit ==
  /\ history \in Histories /\ window \in Windows /\ streams \in BOOLEAN
  /\ request = <<>> /\ stage = "prepare" /\ attempt = 0 /\ options = TRUE
  /\ acc = NewAccumulator /\ emits = <<>> /\ escaped = FALSE
  /\ pause = 0 /\ answer = None /\ sent = <<>> /\ shown = <<>>

(* The messages of the payload: only a message with calls may be empty. *)
Payload(ms) ==
  [i \in DOMAIN ms |->
     IF ms[i].calls = <<>> /\ ~HasContent(ms[i]) THEN [ms[i] EXCEPT !.text = <<"(empty)">>]
                                                ELSE ms[i]]

(* _run_iterations up to the request: a ValueError ends the run. *)
Prepare ==
  /\ stage = "prepare"
  /\ LET prepared == PrepareForModel(history, window)
     IN  IF prepared = None THEN stage' = "refused" /\ UNCHANGED request
                               ELSE stage' = "create" /\ request' = prepared
  /\ UNCHANGED <<history, window, streams, attempt, options, acc, emits, escaped, pause,
                 answer, sent, shown>>

(* The end of an attempt in generate_with_retry, generate_stream_with_retry.   *)
RetriesAfterShowing(r) == ShouldRetryResponse(r) /\ attempt < MaxRetries     \* mutant
Retries(r) == ShouldRetryResponse(r) /\ ~escaped /\ attempt < MaxRetries

Attempted(r) ==
  /\ answer' = r
  /\ IF Retries(r) THEN stage' = "backoff" /\ pause' = RetryDelay(r, attempt + 1)
                   ELSE stage' = "returned" /\ UNCHANGED pause
  /\ UNCHANGED <<call, attempt, options, acc, emits, escaped, sent, shown>>

(* create() of a call that does not stream: a reply or an exception. *)
Generate ==
  /\ stage = "create" /\ ~streams
  /\ \/ \E reply \in Replies : Attempted(ParseResponse(reply))
     \/ \E e \in Exceptions : Attempted(ErrorResponse(e))

(* _create_stream: a service that refuses stream_options is asked without. *)
CreateStream ==
  /\ stage = "create" /\ streams
  /\ stage' = "stream"
  /\ UNCHANGED <<call, attempt, options, acc, emits, escaped, pause, answer, sent, shown>>

CreateFails ==
  /\ stage = "create" /\ streams
  /\ \/ Attempted(StreamIdleTimeoutResponse)
     \/ \E e \in Exceptions :
          IF options /\ ShouldRetryStreamWithoutOptions(e)
          THEN /\ options' = FALSE
               /\ UNCHANGED <<call, stage, attempt, acc, emits, escaped, pause, answer, sent, shown>>
          ELSE Attempted(ErrorResponse(e))

Receive ==
  /\ stage = "stream" /\ emits = <<>> /\ Len(sent) < MaxChunks
  /\ \E c \in Chunks :
       /\ acc' = Consume(acc, c)
       /\ emits' = ParsedStreamChunk(c)
       /\ sent' = Append(sent, c)
  /\ UNCHANGED <<call, stage, attempt, options, escaped, pause, answer, shown>>

(* One callback: the delta counts as shown before the callback is awaited. *)
EmitDelta ==
  /\ stage = "stream" /\ emits # <<>>
  /\ escaped' = TRUE
  /\ shown' = Append(shown, Head(emits))
  /\ emits' = Tail(emits)
  /\ UNCHANGED <<call, stage, attempt, options, acc, pause, answer, sent>>

(* The stream ends, stalls for more than the idle timeout, or raises. *)
StreamEnds ==
  /\ stage = "stream" /\ emits = <<>>
  /\ \/ Attempted(Finalize(acc))
     \/ Attempted(StreamIdleTimeoutResponse)
     \/ \E e \in Exceptions : Attempted(ErrorResponse(e))

(* asyncio.sleep(delay) is over: the same request is sent again. *)
Retry ==
  /\ stage = "backoff"
  /\ stage' = "create" /\ attempt' = attempt + 1 /\ options' = TRUE
  /\ acc' = NewAccumulator /\ answer' = None /\ sent' = <<>> /\ pause' = 0
  /\ UNCHANGED <<call, emits, escaped, shown>>

CallNext == Prepare \/ Generate \/ CreateStream \/ CreateFails \/ Receive \/ EmitDelta
        \/ StreamEnds \/ Retry

CallSpec == CallInit /\ [][CallNext]_callVars

-------------------------------------------------------------------------------
(* Properties.                                                                 *)

(* Whatever a stopped, steered or restarted run left behind, and wherever the  *)
(* window cuts it, the request answers every call and carries no result of a   *)
(* call it dropped, nor a message that says nothing: services refuse these.  An *)
(* id two calls share is outside of it: the repair then takes one call's       *)
(* result for the other's.                                                     *)
RequestLegal ==
  stage = "create" /\ CallsDistinct(history) =>
    LET ms == Payload(request)
    IN  /\ CallsAnswered(ms) /\ ResultsDeclared(ms)
        /\ \A i \in DOMAIN ms : HasContent(ms[i]) \/ ms[i].calls # <<>>

(* Trimming gives up no more than it must: what is sent is all of the repaired *)
(* conversation or its longest part that opens on a user message and fits, and *)
(* a call is refused only when not even the last user message fits.            *)
KeepsAllThatFits ==
  LET budget   == window - Completion
      repaired == PrepareHistory(StripMalformedToolCalls(history))
      tails    == FittingTails(repaired, budget)
      others   == SelectSeq(request, LAMBDA m : m.role # "system")
  IN  stage \in {"create", "refused"} /\ CallsDistinct(history) =>
        \/ request = repaired /\ (window <= 0 \/ PromptTokens(repaired) <= budget)
        \/ request = <<>> /\ tails = {}
        \/ others \in tails /\ \A t \in tails : Len(t) <= Len(others)

(* A reader is shown one attempt only, each delta once and in order: a call    *)
(* that failed after a delta escaped is not repeated, and the reply that is    *)
(* returned says what was shown.                                               *)
ShownOnce ==
  LET parsed == FlattenSeq([i \in DOMAIN sent |-> ParsedStreamChunk(sent[i])])
      Words(k) == FlattenSeq([i \in DOMAIN shown |->
                                IF shown[i].kind = k THEN shown[i].words ELSE <<>>])
  IN  /\ shown \o emits = parsed
      /\ stage = "returned" /\ streams /\ answer.error = None =>
           \A k \in TextKinds : answer.text[k] = Words(k)

(* The calls a run executes are the calls it was shown: those of a complete    *)
(* reply, in the order of their indexes, each with the whole of its arguments  *)
(* and a name, however the deltas of several calls were interleaved.           *)
CallsAssembled ==
  LET Of(i)   == {k \in DOMAIN shown : shown[k].kind = "tool" /\ shown[k].call.index = i}
      Args(i) == FlattenSeq([k \in DOMAIN shown |->
                               IF k \in Of(i) THEN shown[k].call.args ELSE <<>>])
      named   == {shown[k].call.index :
                    k \in {j \in DOMAIN shown : shown[j].kind = "tool" /\ shown[j].call.name # None}}
      Position(i) == Cardinality({j \in named : j <= i})
  IN  stage = "returned" /\ streams /\ answer.calls # <<>> =>
        /\ answer.error = None /\ Len(answer.calls) = Cardinality(named)
        /\ \A i \in named :
             LET c == answer.calls[Position(i)]
             IN  /\ c.args = OrObject(Args(i)) /\ c.args = Object
                 /\ \E k \in Of(i) : shown[k].call.name = c.name
                 /\ c.id = FallbackId(i) \/ \E k \in Of(i) : shown[k].call.id = c.id
=============================================================================
