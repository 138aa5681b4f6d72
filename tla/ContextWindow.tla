---------------------------- MODULE ContextWindow -----------------------------
(* The model-facing copy of a run's messages (agent/context/governor.py,       *)
(* window.py, history.py): malformed calls are stripped, the sequence is       *)
(* repaired, long tool results are cut, and the oldest messages are dropped    *)
(* until the rest fits the window.  One unit of the estimate is a word, an id, *)
(* or the fixed cost of a message.                                             *)
EXTENDS Transcript, Integers, FiniteSets, FiniteSetsExt

CONSTANTS
  MaxResult,     \* longest tool result sent, in words
  Completion,    \* what a window reserves for the reply and for safety
  ToolTokens,    \* the tool definitions
  None           \* no request: fit_context_window raises ValueError

ASSUME ResultLimitAssumption == MaxResult \in Nat     \* others are refused

-------------------------------------------------------------------------------
(* governor.py: a call without an id is dropped, and a message that is left    *)
(* with no call and nothing to say.                                            *)
Usable(id) == id # NoCall

StripNothing(ms) == ms                              \* mutant: calls without an id stay
StripMalformedToolCalls(ms) ==
  LET Valid(calls) == At(calls, {k \in DOMAIN calls : Usable(calls[k])})
      Bad(m) == m.role = "assistant" /\ m.calls # <<>> /\ Valid(m.calls) = <<>>
      kept   == At(ms, {i \in DOMAIN ms : Bad(ms[i]) => HasContent(ms[i]) \/ ms[i].reasoning})
  IN  [i \in DOMAIN kept |-> [kept[i] EXCEPT !.calls = Valid(@)]]

TruncateToolResults(ms) ==
  [i \in DOMAIN ms |->
     IF ms[i].role = "tool" /\ Len(ms[i].text) > MaxResult
     THEN [ms[i] EXCEPT !.text = Append(SubSeq(@, 1, MaxResult), "[truncated]")]
     ELSE ms[i]]

PrepareHistory(ms) == TruncateToolResults(Repair(ms))

-------------------------------------------------------------------------------
(* window.py.                                                                  *)
ImageTokens == 3

MessageTokens(m) ==
  1 + Len(m.text) + Len(m.calls) + (IF m.ref = NoCall THEN 0 ELSE 1)
    + (IF m.reasoning THEN 1 ELSE 0) + (IF m.parts THEN ImageTokens ELSE 0)

Tokens(ms) == FoldSeq(LAMBDA m, n : n + MessageTokens(m), 0, ms)
PromptTokens(ms) == Tokens(ms) + ToolTokens

From(ms, s) == SubSeq(ms, s, Len(ms))

UserTail(ms) ==
  LET users == {i \in DOMAIN ms : ms[i].role = "user"}
  IN  IF users = {} THEN <<>> ELSE From(ms, Min(users))

LastUserTail(ms) ==
  LET users == {i \in DOMAIN ms : ms[i].role = "user"}
  IN  IF users = {} THEN <<>> ELSE From(ms, Max(users))

(* The position of the last tool result no earlier assistant message declared, *)
(* counting declarations behind the previous such result only.                 *)
FindLegalMessageStart(ms) ==
  LET scan[i \in 0..Len(ms)] ==
        IF i = 0 THEN [start |-> 0, declared |-> {}]
        ELSE LET before == scan[i - 1]
             IN  CASE ms[i].role = "assistant" ->
                        [before EXCEPT !.declared = @ \union CallIds(ms[i])]
                   [] ms[i].role = "tool" /\ ms[i].ref \notin before.declared ->
                        [start |-> i, declared |-> {}]
                   [] OTHER -> before
  IN  scan[Len(ms)].start

IncompleteToolCalls(ms) ==
  LET fulfilled == {ms[i].ref : i \in {j \in DOMAIN ms : ms[j].role = "tool"}}
  IN  {i \in DOMAIN ms : ~(CallIds(ms[i]) \subseteq fulfilled)}

(* One turn of the loop of _legal_history_tail; the tail itself when it ends.  *)
Shortened(tail) ==
  LET start      == FindLegalMessageStart(tail)
      incomplete == IncompleteToolCalls(tail)
      next       == UserTail(From(tail, Min(incomplete) + 1))
  IN  CASE start # 0                        -> From(tail, start + 1)
        [] incomplete # {} /\ next # <<>>   -> next
        [] OTHER                            -> tail

KeptTail(kept, fallback) == kept                    \* mutant: may open on a result
LegalHistoryTail(kept, fallback) ==
  LET tail == IF UserTail(kept) # <<>> THEN UserTail(kept)
              ELSE IF LastUserTail(fallback) # <<>> THEN LastUserTail(fallback)
              ELSE kept
      shorter[k \in 0..Len(tail)] == IF k = 0 THEN tail ELSE Shortened(shorter[k - 1])
  IN  shorter[Len(tail)]

(* The longest end of the conversation within the budget, its last message in  *)
(* any case.                                                                   *)
KeptWithin(ms, budget) ==
  IF ms = <<>> THEN <<>>
  ELSE From(ms, Min({s \in DOMAIN ms : s = Len(ms) \/ Tokens(From(ms, s)) <= budget}))

FitContextWindow(ms, window) ==
  LET budget   == window - Completion
      system   == At(ms, {i \in DOMAIN ms : ms[i].role = "system"})
      others   == At(ms, {i \in DOMAIN ms : ms[i].role # "system"})
      rest     == budget - PromptTokens(system)
      fitted   == system \o LegalHistoryTail(KeptWithin(others, rest), others)
  IN  IF ms = <<>> \/ window <= 0 THEN ms
      ELSE IF budget <= 0 THEN None
      ELSE IF PromptTokens(ms) <= budget THEN ms
      ELSE IF rest <= 0 \/ PromptTokens(fitted) > budget THEN None ELSE fitted

PrepareForModel(ms, window) ==
  LET fitted == FitContextWindow(PrepareHistory(StripMalformedToolCalls(ms)), window)
  IN  IF fitted = None THEN None ELSE Repair(fitted)

-------------------------------------------------------------------------------
(* Reference notions for the properties.                                       *)

\* The parts of a conversation that open on a user message and fit behind the
\* system messages.
FittingTails(ms, budget) ==
  LET system == SelectSeq(ms, LAMBDA m : m.role = "system")
      others == SelectSeq(ms, LAMBDA m : m.role # "system")
  IN  {From(others, s) : s \in {i \in DOMAIN others :
         others[i].role = "user" /\ PromptTokens(system \o From(others, i)) <= budget}}

\* The results of a call follow it, behind at most other results.
ResultsInPlace(ms) ==
  \A j \in DOMAIN ms : ms[j].role = "tool" =>
    \A i \in DOMAIN ms : ms[j].ref \in CallIds(ms[i]) =>
      i < j /\ \A k \in (i + 1)..j : ms[k].role = "tool"

\* No id names two calls.
CallsDistinct(ms) ==
  LET calls == FlattenSeq([i \in DOMAIN ms |-> ms[i].calls])
  IN  IsInjective(calls)
=============================================================================
