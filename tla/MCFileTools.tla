------------------------------ MODULE MCFileTools ------------------------------
(* Scripts for FileTools: what the calls of a behaviour are, on which files,   *)
(* and what may disturb them.                                                  *)
EXTENDS FileTools

Texts(S, n) == UNION {[1 .. k -> S] : k \in 0 .. n}
File(t) == [there |-> TRUE, text |-> t, time |-> 0]

Script(files, calls, outs, fails, stops) ==
  [files |-> files, calls |-> calls, outside |-> outs, faults |-> fails, stops |-> stops]

Read(s, offset, limit) ==
  [tool |-> "read_file", session |-> s, path |-> "p", offset |-> offset, limit |-> limit,
   force |-> FALSE]
Pdf(pages) == [tool |-> "read_pdf", session |-> 1, path |-> "p", offset |-> 1, limit |-> 0,
               pages |-> pages]
Office == [tool |-> "read_office", session |-> 1, path |-> "p", offset |-> 1, limit |-> 0]
Write(s, t) == [tool |-> "write_file", session |-> s, path |-> "p", text |-> t]
Edit(s, old, new) ==
  [tool |-> "edit_file", session |-> s, path |-> "p", old |-> old, new |-> new,
   all |-> FALSE, occurrence |-> 0, hint |-> 0, expected |-> 0]
Change(p, action, old, new) == [path |-> p, action |-> action, old |-> old, new |-> new]
Patch(edits) == [tool |-> "apply_patch", session |-> 1, dry |-> FALSE, edits |-> edits]

One(t) == [p \in {"p"} |-> File(t)]

\* One edit of one text, every way to select a match.
Edits ==
  LET base(old, new) == Edit(1, old, new)
      select(e) == {e, [e EXCEPT !.all = TRUE], [e EXCEPT !.occurrence = 2],
                    [e EXCEPT !.hint = 2], [e EXCEPT !.all = TRUE, !.expected = 2]}
      olds == Texts({"a", " ", "lf"}, 2) \union {<<"a", "lf", "a">>}
      news == {<<>>, <<"b", " ", "lf", "b">>}
  IN UNION {select(base(old, new)) : old \in olds, new \in news}

EditTexts == Texts({"a", " ", "lf"}, 3) \union {Append(t, "a") : t \in [1 .. 3 -> {"a", " ", "lf"}]}

EditScripts ==
  {Script(One(t), <<e>>, 0, 0, {}) : t \in EditTexts, e \in Edits}
  \union {Script(One(<<"a", "crlf", " ", "a", "crlf">>), <<e>>, 0, 0, {}) : e \in Edits}

\* Two sessions, or one whose first run is stopped, on one file.
RaceScripts ==
  LET t == <<"a", "lf", "b">>
      firsts == {Read(1, 1, 0), Write(1, <<"a">>), Edit(1, <<"a">>, <<"c">>)}
      seconds == {Read(1, 1, 0), Read(1, 2, 1), Edit(1, <<"b">>, <<"a">>)}
      meets(b) == IF b.tool = "read_file" THEN Write(2, t) ELSE Edit(2, <<"b">>, <<"a">>)
  IN {Script(One(t), <<a, b>>, 1, 0, {1}) : a \in firsts, b \in seconds}
     \union {Script(One(t), <<a, b, meets(b)>>, 0, 0, {}) :
               a \in firsts, b \in seconds \ {Read(1, 2, 1)}}
     \union {Script(One(t), <<Write(1, <<"c">>), Read(1, 1, 0)>>, 0, 1, {1})}
     \union {Script([p \in {"p"} |-> NoFile], <<Edit(1, old, <<"a">>), Read(1, 1, 1)>>, 1, 0, {}) :
               old \in {<<>>, <<"a">>}}

\* Long lines, pages, and what is too large.
ReadScripts ==
  {Script(One(t), <<Read(1, k, n)>>, 0, 0, {}) :
     t \in Texts({"a", "lf"}, 5), k \in 1 .. 3, n \in {0, 1, 2}}
  \union {Script(One([i \in 1 .. n |-> "a"]), <<Pdf(pages)>>, 0, 0, {}) :
            n \in 0 .. 4, pages \in {<<>>} \union {<<a, b>> : a \in 0 .. 3, b \in 1 .. 5} \union {<<2>>}}
  \union {Script(One([i \in 1 .. n |-> "a"]), <<Office>>, 1, 0, {}) : n \in {0, 7, 8}}
  \union {Script(One(<<>>), <<Write(1, <<"a", "a", "a", "a", "a">>)>>, 0, 0, {})}

\* Two edits, of one file or two, with an editor outside or writes that fail.
PatchScripts ==
  LET texts == {<<"a">>, <<"a", "lf">>, <<"a", "crlf">>}
      edits == {Change(p, act, <<"a">>, new) :
                  p \in {"p", "q"}, act \in {"add", "replace"}, new \in {<<>>, <<"b">>, <<"a">>}}
      files(t) == [p \in {"p", "q"} |-> IF p = "p" THEN File(t) ELSE NoFile]
  IN {Script(files(t), <<Patch(<<d, e>>)>>, 0, 2, {1}) : t \in texts, d \in edits, e \in edits}
     \union {Script(files(<<"a">>), <<Patch(<<d, Change("q", "add", <<>>, <<"b">>)>>)>>, 1, 1, {}) :
               d \in edits}
     \union {Script(files(<<"a">>), <<[Patch(<<d>>) EXCEPT !.dry = TRUE]>>, 1, 0, {}) : d \in edits}

AllScripts == EditScripts \union RaceScripts \union ReadScripts \union PatchScripts
===============================================================================
