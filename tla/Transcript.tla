------------------------------ MODULE Transcript ------------------------------
(***************************************************************************)
(* The conversation messages of the SDK and the pure functions of          *)
(* agent/context/history.py that repair them.                              *)
(*                                                                         *)
(* A message keeps only what those functions look at: its role, its text   *)
(* as a sequence of words, whether the content is a list of parts, whether *)
(* it carries reasoning, the ids of its tool calls, the call a tool result *)
(* answers, and whether it carries metadata outside the provider fields    *)
(* (the server's "_bumblehive_ui").  None, "" and blank content are all    *)
(* the empty sequence.                                                     *)
(***************************************************************************)
EXTENDS Naturals, Sequences, FiniteSets, SequencesExt

CONSTANT NoCall      \* no id: of a call, or of the call a tool message answers

\* The words the code itself writes.
RuntimeContext   == "<runtime_context>"
InterruptedReply == "[Previous turn was interrupted before a response was generated.]"
InterruptedTool  == "[Previous turn was interrupted after tool execution.]"
LostResult       == "[Tool result unavailable - call was interrupted or lost]"

AllowedRoles == {"system", "user", "assistant", "tool"}

Message(role, text) ==
  [role |-> role, text |-> text, parts |-> FALSE, reasoning |-> FALSE,
   calls |-> <<>>, ref |-> NoCall, ui |-> FALSE]

UserMessage(word)  == Message("user", <<word>>)
SystemMessage      == Message("system", <<"prompt">>)
Assistant(word)    == Message("assistant", <<word>>)
ToolCalls(ids)     == [Message("assistant", <<>>) EXCEPT !.calls = ids]
ToolResult(id, word) == [Message("tool", <<word>>) EXCEPT !.ref = id]

HasContent(m) == m.text # <<>>

IsPlainText(m) == m.calls = <<>> /\ ~m.reasoning /\ ~m.parts

-----------------------------------------------------------------------------
\* The elements of s at the positions in I, in their order: what a loop keeps.
At(s, I) ==
  LET at[n \in 0..Len(s)] ==
        IF n = 0 THEN <<>>
        ELSE IF n \in I THEN Append(at[n - 1], s[n]) ELSE at[n - 1]
  IN  at[Len(s)]

\* What a run persists: its messages without the per-turn system prompt and
\* runtime context.
StripUserRuntimeContext(m) ==
  IF m.text # <<>> /\ Last(m.text) = RuntimeContext
  THEN [m EXCEPT !.text = Front(m.text)]
  ELSE m

WithRuntimeContext(ms) ==                      \* mutant: context not stripped
  At(ms, {i \in DOMAIN ms : ms[i].role # "system"})
RunMessagesToHistory(ms) ==
  LET Stripped == [i \in DOMAIN ms |->
                     IF ms[i].role = "user" THEN StripUserRuntimeContext(ms[i])
                                            ELSE ms[i]]
      Kept(i) == ms[i].role # "system" /\ (ms[i].role = "user" => HasContent(Stripped[i]))
  IN  At(Stripped, {i \in DOMAIN ms : Kept(i)})

-----------------------------------------------------------------------------
\* The five stages of repair_message_sequence.
SanitizeMessages(ms) ==
  LET kept == At(ms, {i \in DOMAIN ms : ms[i].role \in AllowedRoles})
  IN  [k \in DOMAIN kept |-> [kept[k] EXCEPT !.ui = FALSE]]

DropEmptyMessages(ms) ==
  LET Kept(m) == \/ m.role = "assistant" /\ (m.calls # <<>> \/ m.reasoning)
                 \/ m.role = "tool" /\ m.ref # NoCall
                 \/ HasContent(m)
  IN  At(ms, {i \in DOMAIN ms : Kept(ms[i])})

MergeConsecutiveText(ms) ==
  LET Mergeable(a, b) == /\ b.role \in {"user", "assistant"}
                         /\ a.role = b.role
                         /\ IsPlainText(a) /\ IsPlainText(b)
      opening == At([i \in DOMAIN ms |-> i],
                    {i \in DOMAIN ms : i = 1 \/ ~Mergeable(ms[i - 1], ms[i])})
      Until(k) == IF k = Len(opening) THEN Len(ms) ELSE opening[k + 1] - 1
      TextOf(k) == FlattenSeq([j \in 1..(Until(k) - opening[k] + 1) |->
                                 ms[opening[k] + j - 1].text])
  IN  [k \in DOMAIN opening |-> [ms[opening[k]] EXCEPT !.text = TextOf(k)]]

CallIds(m) == IF m.role = "assistant" THEN Range(m.calls) \ {NoCall} ELSE {}

DropOrphanToolResults(ms) ==
  LET DeclaredBefore(i) == UNION {CallIds(ms[j]) : j \in 1..(i - 1)}
  IN  At(ms, {i \in DOMAIN ms : ms[i].role = "tool" => ms[i].ref \in DeclaredBefore(i)})

\* The results missing anywhere in the transcript are put behind the tool results
\* that directly follow the call's message.
BackfillMissingToolResults(ms) ==
  LET Fulfilled == {ms[i].ref : i \in {j \in DOMAIN ms : ms[j].role = "tool"}}
      Lost(i) ==
        LET ids == At(ms[i].calls, {k \in DOMAIN ms[i].calls :
                                      ms[i].calls[k] \notin Fulfilled \union {NoCall}})
        IN  [k \in DOMAIN ids |-> ToolResult(ids[k], LostResult)]
      \* The message whose results end here, if any.
      Callers(last) ==
        {i \in 1..last : /\ ms[i].role = "assistant"
                         /\ \A j \in (i + 1)..last : ms[j].role = "tool"
                         /\ last < Len(ms) => ms[last + 1].role # "tool"}
      After(last) == IF Callers(last) = {} THEN <<>>
                     ELSE Lost(CHOOSE i \in Callers(last) : TRUE)
  IN  FlattenSeq([i \in DOMAIN ms |-> <<ms[i]>> \o After(i)])

Repair(ms) ==
  BackfillMissingToolResults(DropOrphanToolResults(
    MergeConsecutiveText(DropEmptyMessages(SanitizeMessages(ms)))))

RecoveredOpen(ms) == Repair(ms)                \* mutant: no closing reply

\* SessionManager.recover: the repaired sequence, closed by a placeholder reply
\* when the previous turn stopped after a user message or a tool result.
Recovered(ms) ==
  LET r == Repair(ms)
  IN  IF r = <<>> THEN r
      ELSE CASE Last(r).role = "user" -> Append(r, Assistant(InterruptedReply))
             [] Last(r).role = "tool" -> Append(r, Assistant(InterruptedTool))
             [] OTHER -> r

-----------------------------------------------------------------------------
\* Reference notions, independent of the way the repair is computed.

\* Every tool call is answered by a tool result that directly follows it.
CallsAnswered(ms) ==
  \A i \in DOMAIN ms : ms[i].role = "assistant" =>
    \A id \in Range(ms[i].calls) :
      \E j \in (i + 1)..Len(ms) :
        /\ ms[j].role = "tool" /\ ms[j].ref = id
        /\ \A k \in (i + 1)..j : ms[k].role = "tool"

\* Every tool result answers a call of the assistant message it follows.
ResultsDeclared(ms) ==
  \A j \in DOMAIN ms : ms[j].role = "tool" =>
    \E i \in 1..(j - 1) :
      /\ ms[j].ref \in CallIds(ms[i])
      /\ \A k \in (i + 1)..j : ms[k].role = "tool"

\* A transcript a new user turn can be appended to.
Closed(ms) == ms # <<>> => Last(ms).role \notin {"user", "tool"}

\* The words of the user messages, in order: what the user said.
UserWords(ms) ==
  LET IsUser(m) == m.role = "user"
      Users     == SelectSeq(ms, IsUser)
  IN  FlattenSeq([i \in DOMAIN Users |-> Users[i].text])
=============================================================================
