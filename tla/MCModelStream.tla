----------------------------- MODULE MCModelStream -----------------------------
(* Small instances of ModelStream for TLC.  A behaviour either varies the      *)
(* conversation and the window and ends with the request, or varies what the   *)
(* service does with one request: the instances add up.                        *)
EXTENDS ModelStream

VARIABLE focus

User(n) == Message("user", [i \in 1..n |-> "word"])
Answering(id, n) == [Message("tool", [i \in 1..n |-> "word"]) EXCEPT !.ref = id]
Reply(n) == Message("assistant", [i \in 1..n |-> "word"])
Photo == [User(1) EXCEPT !.parts = TRUE]

\* Earlier turns: a plain one, one with tools, one stopped before its results
\* were stored, one whose stop recover has closed, one whose reply was followed
\* by a steered message, one with a call without an id.
Turn(a, b) == {
  <<User(2), Reply(1)>>,
  <<User(1), ToolCalls(<<a, b>>), Answering(a, 3), Answering(b, 0), Reply(1)>>,
  <<Photo, ToolCalls(<<a>>), Answering(a, 1), ToolCalls(<<b>>), Answering(b, 2), Reply(1)>>,
  <<User(1), ToolCalls(<<a, b>>)>>,
  Recovered(<<User(1), ToolCalls(<<a>>)>>),
  <<User(1), Reply(2), User(1), [Reply(0) EXCEPT !.reasoning = TRUE]>>,
  <<User(1), ToolCalls(<<NoCall, a>>), Answering(NoCall, 1), Answering(a, 1), Reply(1)>>,
  <<User(1), ToolCalls(<<NoCall>>), Answering(NoCall, 1), Reply(1)>>}

\* The run that makes the call.
Current == {
  <<User(1)>>,
  <<User(3)>>,
  <<User(1), ToolCalls(<<"e">>), Answering("e", 3)>>,
  <<User(1), ToolCalls(<<"e">>), Answering("e", 1), User(1)>>,
  <<User(1), Reply(1), User(1)>>}

Conversation(t1, t2, t3) == <<SystemMessage>> \o t1 \o t2 \o t3
PlainHistory == Conversation(<<>>, <<>>, <<User(1)>>)
MCHistories ==
  {PlainHistory} \union
  {Conversation(t1, t2, t3) : t1 \in Turn("a", "b") \union {<<>>}, t2 \in Turn("c", "d"),
                              t3 \in Current}
  \union {Conversation(t1, t2, t3) : t1 \in Turn("a", "b"), t2 \in Turn("a", "b"),
                                     t3 \in Current}

Said(kind, word) == [NoText EXCEPT ![kind] = <<word>>]
Delta(index, id, name, args) == [index |-> index, id |-> id, name |-> name, args |-> args]
Chunk(text, tools, finish) == [choice |-> TRUE, text |-> text, tools |-> tools, finish |-> finish]

MCChunks == {
  [Chunk(NoText, <<>>, None) EXCEPT !.choice = FALSE],
  Chunk(Said("content", "w"), <<>>, None),
  Chunk([Said("reasoning", "r") EXCEPT !["content"] = <<"v">>], <<>>, None),
  Chunk(NoText, <<Delta(0, "x", "read", <<"{">>)>>, None),
  Chunk(NoText, <<Delta(0, None, None, <<"}">>)>>, None),
  Chunk(NoText, <<Delta(1, None, "list", <<"{", "}">>)>>, None),
  Chunk(NoText, <<Delta(None, "y", None, <<>>), Delta(None, "z", "find", <<>>)>>, None),
  Chunk(NoText, <<>>, "stop"),
  Chunk(Said("refusal", "n"), <<>>, "tool_calls")}

Call(id, args) == [id |-> id, name |-> "read", args |-> args]
PlainReply == [choice |-> TRUE, text |-> Said("content", "w"), calls |-> <<>>, finish |-> "stop"]
MCReplies == {
  PlainReply, [PlainReply EXCEPT !.choice = FALSE],
  [PlainReply EXCEPT !.calls = <<Call("x", <<>>), Call("y", <<"{", "}">>)>>, !.finish = None],
  [PlainReply EXCEPT !.calls = <<Call("x", <<"{">>)>>],
  [PlainReply EXCEPT !.calls = <<Call(None, <<>>)>>]}

Raised == [kind |-> None, status |-> None, quota |-> FALSE, quotaText |-> FALSE,
           optionsRefused |-> FALSE, shouldRetry |-> None, retryMs |-> None,
           retryAfter |-> None, retryText |-> None]
MCExceptions == {
  [Raised EXCEPT !.kind = "timeout"],
  [Raised EXCEPT !.kind = "connection", !.quota = TRUE],
  [Raised EXCEPT !.status = 401],
  [Raised EXCEPT !.status = 400, !.optionsRefused = TRUE],
  [Raised EXCEPT !.status = 402, !.quotaText = TRUE, !.shouldRetry = TRUE],
  [Raised EXCEPT !.status = 429, !.retryMs = 0, !.retryAfter = 0],
  [Raised EXCEPT !.status = 429, !.quotaText = TRUE],
  [Raised EXCEPT !.status = 503, !.retryText = 900],
  [Raised EXCEPT !.status = 500, !.shouldRetry = FALSE, !.retryMs = 5]}

MCRetryDelays == <<10, 20>>

Focus ==
  \/ focus = "window" /\ stage' \in {"create", "refused"}
  \/ focus = "service"

MCInit ==
  /\ CallInit
  /\ \/ focus = "window" /\ streams
     \/ focus = "service" /\ history = PlainHistory /\ window = 0
MCNext == CallNext /\ Focus /\ UNCHANGED focus
MCSpec == MCInit /\ [][MCNext]_<<callVars, focus>>
=============================================================================
