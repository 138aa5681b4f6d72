------------------------------- MODULE TextEdit -------------------------------
(***************************************************************************)
(* The pure text functions of the file tools: how edit_file                *)
(* (tools/builtins/file.py) finds and replaces old_text, how apply_patch   *)
(* (patch.py) prepares one edit, and which lines or pages a read returns.  *)
(*                                                                         *)
(* A text is a sequence of tokens: letters, " " for blank space within a   *)
(* line, "lf" and "crlf" for the two line ends.  Positions start at 1 and  *)
(* a span runs from start up to, and without, end.  Curly quotes are left  *)
(* out: with none in the texts the quote matchers find what the others do. *)
(* The text extracted from a range of PDF pages is taken to fit an answer. *)
(***************************************************************************)
EXTENDS Naturals, Sequences, SequencesExt

Least(a, b) == IF a < b THEN a ELSE b

\* text[i-1:j], which takes no notice of an end beyond the text.
Slice(t, i, j) == SubSeq(t, i, Least(j, Len(t)))

Blank == {" ", "lf", "crlf"}

\* Python's replace("\r\n", "\n") and back.
Lf(t)      == [i \in DOMAIN t |-> IF t[i] = "crlf" THEN "lf" ELSE t[i]]
HasCrlf(t) == Contains(t, "crlf")
Restored(original, t) ==
  IF HasCrlf(original) THEN [i \in DOMAIN t |-> IF t[i] = "lf" THEN "crlf" ELSE t[i]] ELSE t

\* str.strip, str.rstrip and the blanks str.lstrip takes off.
Solid(t)  == {i \in DOMAIN t : t[i] \notin Blank}
Strip(t)  == IF Solid(t) = {} THEN <<>> ELSE SubSeq(t, Min(Solid(t)), Max(Solid(t)))
Rstrip(t) == IF Solid(t) = {} THEN <<>> ELSE SubSeq(t, 1, Max(Solid(t)))
Indent(t) == IF Solid(t) = {} THEN t ELSE SubSeq(t, 1, Min(Solid(t)) - 1)

-------------------------------------------------------------------------------
(* Lines.                                                                      *)

\* text.split("\n"), "\n".join(lines), text.splitlines().
Split(t) ==
  FoldLeft(LAMBDA ls, x : IF x = "lf" THEN Append(ls, <<>>)
                          ELSE [ls EXCEPT ![Len(ls)] = Append(@, x)],
           << <<>> >>, t)
Join(ls) == FlattenSeq([i \in DOMAIN ls |-> IF i = 1 THEN ls[1] ELSE <<"lf">> \o ls[i]])
SplitLines(t) == IF Last(Split(t)) = <<>> THEN Front(Split(t)) ELSE Split(t)

\* Where line i of a text with these lines starts.
LineStart(ls, i) == 1 + Len(Join(Append(SubSeq(ls, 1, i - 1), <<>>)))

\* The number of the line a position lies on.
LineAt(t, i) == 1 + Len(SelectSeq(SubSeq(t, 1, i - 1), LAMBDA x : x = "lf"))

-------------------------------------------------------------------------------
(* Matches of old_text.                                                        *)

Span(i, n)  == [start |-> i, end |-> i + n]
Said(t, m)  == SubSeq(t, m.start, m.end - 1)
Occurs(t, old) == {i \in 1 .. Len(t) + 1 - Len(old) : SubSeq(t, i, i + Len(old) - 1) = old}

\* content.find(old_text, start) until it fails, each from behind the last match.
ExactMatches(t, old) ==
  LET behind(ms) == IF ms = <<>> THEN 1 ELSE Last(ms).end
      take(ms, i) == IF i < behind(ms) THEN ms ELSE Append(ms, Span(i, Len(old)))
  IN FoldLeft(take, <<>>, SetToSortSeq(Occurs(t, old), <))

\* Runs of whole lines that are those of old_text but for the blanks around them.
TrimMatches(t, old) ==
  LET ls == SplitLines(t)
      os == SplitLines(old)
      window(i) == SubSeq(ls, i, i + Len(os) - 1)
      same(i) == \A k \in DOMAIN os : Strip(window(i)[k]) = Strip(os[k])
      found == {i \in 1 .. Len(ls) + 1 - Len(os) : same(i)}
  IN IF os = <<>> THEN <<>>
     ELSE [k \in 1 .. Cardinality(found) |->
             LET i == SetToSortSeq(found, <)[k]
             IN Span(LineStart(ls, i), Len(Join(window(i))))]

Matches(t, old) ==
  IF ExactMatches(t, old) # <<>> THEN ExactMatches(t, old) ELSE TrimMatches(t, old)

\* _match_covers_line: from the line it starts on to the last it says something of.
CoversLine(t, m, line) ==
  LET last == IF m.end > m.start /\ t[m.end - 1] = "lf" THEN m.end - 1 ELSE m.end
  IN LineAt(t, m.start) <= line /\ line <= LineAt(t, last)

\* The matches an edit with these arguments replaces, none if it is refused.
Selected(t, ms, e) ==
  LET on == SelectSeq(ms, LAMBDA m : CoversLine(t, m, e.hint))
      one == CASE e.all -> ms
               [] ~e.all /\ e.occurrence # 0 ->
                    IF e.occurrence > Len(ms) THEN <<>> ELSE <<ms[e.occurrence]>>
               [] ~e.all /\ e.occurrence = 0 /\ e.hint # 0 -> on
               [] OTHER -> ms
      enough == e.all \/ Len(one) = 1
  IN IF enough /\ (e.expected = 0 \/ e.expected = Len(one)) THEN one ELSE <<>>

-------------------------------------------------------------------------------
(* The replacement.                                                            *)

\* _strip_trailing_ws, for files that are not Markdown.
TrailStripped(t) == Join([i \in DOMAIN Split(t) |-> Rstrip(Split(t)[i])])

\* _reindent_like_match: the extra indentation of the match goes to new_text too.
Reindented(old, said, new) ==
  LET o == Split(old)
      a == Split(said)
      both == {i \in DOMAIN o : Strip(o[i]) # <<>> /\ Strip(a[i]) # <<>>}
      was == Indent(o[Min(both)])
      is  == Indent(a[Min(both)])
      delta == SubSeq(is, Len(was) + 1, Len(is))
  IN IF Len(o) # Len(a) THEN new
     ELSE IF both = {} \/ \E i \in both : Strip(o[i]) # Strip(a[i]) THEN new
     ELSE IF ~IsPrefix(was, is) THEN new
     ELSE Join([i \in DOMAIN Split(new) |->
                  IF Split(new)[i] = <<>> THEN <<>> ELSE delta \o Split(new)[i]])

\* One match replaced in u, a text that still is t up to the end of the match;
\* a deletion that leaves an empty line takes its line end along.
ReplaceOne(t, u, m, old, new) ==
  LET r == Reindented(old, Said(t, m), new)
      closed == m.end > m.start /\ t[m.end - 1] = "lf"
      eats == r = <<>> /\ ~closed /\ m.end <= Len(u) /\ u[m.end] = "lf"
      end == IF eats THEN m.end + 1 ELSE m.end
  IN Slice(u, 1, m.start - 1) \o r \o Slice(u, end, Len(u))

\* Mutant: from the first to the last.
Forward(t, ms, old, new) == FoldLeft(LAMBDA u, m : ReplaceOne(t, u, m, old, new), t, ms)
\* From the last to the first, so that the earlier positions stay valid.
Replaced(t, ms, old, new) == FoldRight(LAMBDA m, u : ReplaceOne(t, u, m, old, new), ms, t)

\* edit_file on a file that says raw: the new text, and how many replacements.
EditText(raw, e) ==
  LET t == Lf(raw)
      old == Lf(e.old)
      new == TrailStripped(Lf(e.new))
      ms == Selected(t, Matches(t, old), e)
  IN [ok |-> ms # <<>>, text |-> Restored(raw, Replaced(t, ms, old, new)), spans |-> ms]

-------------------------------------------------------------------------------
(* One edit of a patch, on the text the file has or an earlier edit gave it.   *)

LineEnded(t) == IF t = <<>> \/ Last(t) = "lf" THEN t ELSE Append(t, "lf")

PatchText(t, e) ==
  LET old == Lf(e.old)
      at == Occurs(Lf(t), old)
      i == Min(at)
  IN IF e.action = "add"
     THEN [ok |-> TRUE, text |-> Restored(t, LineEnded(Lf(t) \o Lf(e.new)))]
     ELSE IF Cardinality(at) # 1 THEN [ok |-> FALSE, text |-> t]
     ELSE [ok |-> TRUE,
           text |-> Restored(t, LineEnded(SubSeq(Lf(t), 1, i - 1) \o Lf(e.new)
                                        \o SubSeq(Lf(t), i + Len(old), Len(t))))]

-------------------------------------------------------------------------------
(* What a read returns: lines from offset, or pages of a PDF.                  *)

\* The lines that fit into cap, each with its line number and the line end before it.
Fitting(ls, from, to, cap) ==
  {k \in from .. to : FoldLeft(LAMBDA n, l : n + Len(l) + 2, 0, SubSeq(ls, from, k)) - 1 <= cap}

\* At least one line is returned, cut where cap says.
ReadLines(t, offset, limit, default, cap) ==
  LET ls == SplitLines(Lf(t))
      start == IF offset > 1 THEN offset ELSE 1
      to == Least(start - 1 + (IF limit = 0 THEN default ELSE limit), Len(ls))
      fit == Fitting(ls, start, to, cap)
      cut == fit # start .. to
      end == IF ~cut THEN to ELSE IF fit = {} THEN start ELSE Max(fit)
  IN [kind |-> IF start > Len(ls) THEN "error" ELSE "lines",
      from |-> start, to |-> end, truncated |-> cut, next |-> IF end < Len(ls) THEN end + 1 ELSE 0]

\* total pages, the range asked for (<<>> for none), at most cap of them.
ReadPages(total, pages, cap) ==
  LET start == IF pages = <<>> \/ pages[1] = 0 THEN 1 ELSE pages[1]
      asked == IF pages = <<>> THEN cap ELSE pages[Len(pages)]
      to == Least(asked, total)
      end == IF to + 1 - start > cap THEN start + cap - 1 ELSE to
  IN [kind |-> IF total = 0 THEN "empty" ELSE IF start > to THEN "error" ELSE "lines",
      from |-> start, to |-> end, truncated |-> FALSE,
      next |-> IF end < total THEN end + 1 ELSE 0]

\* The text of an office document, up to cap.
ReadDocument(t, cap) ==
  [kind |-> "lines", from |-> 1, to |-> Least(Len(t), cap),
   truncated |-> Len(t) > cap, next |-> 0]
===============================================================================
