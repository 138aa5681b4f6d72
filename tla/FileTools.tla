------------------------------ MODULE FileTools -------------------------------
(***************************************************************************)
(* read_file, write_file, edit_file and apply_patch (tools/builtins), the  *)
(* notes each session keeps of what it has read (workspace.py, state.py),  *)
(* and the report of changed files (file_changes.py).  Every call runs in  *)
(* a thread of its own, also on after the run that made it was stopped, so *)
(* calls of two sessions, and an editor outside, meet between two accesses *)
(* to the disk.  A note's mtime is the number of writes to the file, its   *)
(* content hash the text.                                                  *)
(***************************************************************************)
EXTENDS Naturals, Sequences, FiniteSets, TextEdit, Dicts

CONSTANTS
  Scripts,      \* what a behaviour starts from and may do, see FilesInit
  MaxStates,    \* max_entries of the FileStateStore
  ReadDefault,  \* _DEFAULT_READ_LIMIT
  ReadCap,      \* _MAX_READ_CHARS
  PageCap,      \* _MAX_PDF_PAGES
  WriteCap      \* _MAX_WRITE_CHARS

VARIABLES
  script,   \* the files there are, the calls there will be, what else may happen
  disk,     \* disk[p]: whether there is a file, what it says, how often it was written
  store,    \* FileStateStore._states: sessions, the least recently used first
  notes,    \* notes[k]: the k-th FileStates object made
  call,     \* call[c]: the thread of a call
  outside, faults,   \* how many changes from outside and failures are left
  disturbed \* calls during which someone else wrote one of their files (history)

fileVars == <<script, disk, store, notes, call, outside, faults, disturbed>>

Calls == DOMAIN script.calls
Args(c) == script.calls[c]

NoFile == [there |-> FALSE, text |-> <<>>, time |-> 0]
NoAnswer == [kind |-> "none"]
Note(p, f) == [path |-> p, text |-> f.text, time |-> f.time]

NewCall == [pc |-> "new", mine |-> 0, before |-> <<>>, raw |-> <<>>, seen |-> <<>>,
            warned |-> FALSE, writes |-> <<>>, at |-> 1, backup |-> <<>>, spans |-> <<>>,
            noted |-> {}, unrestored |-> FALSE, answer |-> NoAnswer, heard |-> TRUE,
            after |-> <<>>, changes |-> {}]

\* With nothing done yet.
FilesInitial ==
  /\ disk = script.files
  /\ store = <<>> /\ notes = <<>>
  /\ call = [c \in DOMAIN script.calls |-> NewCall]
  /\ outside = script.outside /\ faults = script.faults
  /\ disturbed = {}

FilesInit == script \in Scripts /\ FilesInitial

Set(c, fields) == call' = [call EXCEPT ![c] = Updated(@, fields)]
Go(c, pc)      == Set(c, [pc |-> pc])
Answer(c, a)   == [pc |-> "ended", answer |-> a]
Error          == [kind |-> "error"]
Success        == [kind |-> "ok"]

Reads(a) == a.tool \in {"read_file", "read_pdf", "read_office"}
Paths(a) == IF a.tool = "apply_patch" THEN {a.edits[k].path : k \in DOMAIN a.edits} ELSE {a.path}

\* The files a change is looked for in, before and after the call.
Targets(a) == IF Reads(a) \/ (a.tool = "apply_patch" /\ a.dry) THEN {} ELSE Paths(a)
Live(c) == call[c].pc \notin {"new", "done"}

\* A write of p by x, which is a call or the outside.
Written(p, x, f) ==
  /\ disk' = [disk EXCEPT ![p] = [f EXCEPT !.time = disk[p].time + 1]]
  /\ disturbed' = disturbed \union
       {c \in Calls \ {x} : Live(c) /\ p \in Paths(Args(c))}
Text(t) == [there |-> TRUE, text |-> t, time |-> 0]

FirstStep == [read_file |-> "load", read_pdf |-> "load", read_office |-> "load",
              write_file |-> "check",
              edit_file |-> "check", apply_patch |-> "prepare"]
Snapshot(c) == [p \in Targets(Args(c)) |-> disk[p]]

\* Scripts are of files and calls there can be: a file that is not there says nothing,
\* the calls name files of the script, the name of a file says which tool reads it,
\* and a patch has edits.
IsFile(f) == DOMAIN f = {"there", "text", "time"} /\ (~f.there => f.text = <<>>)
IsCall(a, files) ==
  /\ a.tool \in DOMAIN FirstStep /\ Paths(a) \subseteq files
  /\ a.tool = "apply_patch" => Len(a.edits) \in Nat \ {0} /\ DOMAIN a.edits = 1 .. Len(a.edits)

ASSUME ScriptsAssumption ==
  \A s \in Scripts :
    /\ \A p \in DOMAIN s.files : IsFile(s.files[p])
    /\ 0 \notin DOMAIN s.calls
    /\ \A c \in DOMAIN s.calls : IsCall(s.calls[c], DOMAIN s.files)
    /\ \A c, d \in DOMAIN s.calls : LET a == s.calls[c]  b == s.calls[d]
         IN Reads(a) /\ Reads(b) /\ a.path = b.path => a.tool = b.tool

-------------------------------------------------------------------------------
(* The notes of a session.                                                     *)

Seen(k, p) == {n \in notes[k].read : n.path = p}
Fresh(ns, p) == {n \in ns : n.path # p}
Ranged(c, n) == [offset |-> Args(c).offset, limit |-> Args(c).limit, note |-> n]
SamePath(a, b) == a.note.path = b.note.path   \* mutant: the range is not in the key
SameKey(a, b) == a.offset = b.offset /\ a.limit = b.limit /\ a.note.path = b.note.path

NotReadYet == [read |-> {}, cache |-> {}]

\* for_session: the session's notes become the last used; the first one too many goes.
ForSession(c) ==
  LET s == Args(c).session
      have == {i \in DOMAIN store : store[i].session = s}
      k == IF have = {} THEN Len(notes) + 1 ELSE store[Min(have)].notes
      popped == IF have = {} THEN store ELSE RemoveAt(store, Min(have))
      kept == Append(popped, [session |-> s, notes |-> k])
  IN /\ store' = IF Len(kept) > MaxStates THEN Tail(kept) ELSE kept
     /\ notes' = IF have = {} THEN Append(notes, NotReadYet) ELSE notes
     /\ Set(c, [pc |-> FirstStep[Args(c).tool], mine |-> k, before |-> Snapshot(c)])

RecordRead(c) ==
  LET p == Args(c).path  n == Note(p, disk[p])  new == Ranged(c, n)
      k == call[c].mine
  IN IF ~disk[p].there THEN UNCHANGED notes
     ELSE notes' = [notes EXCEPT
            ![k].read = Fresh(@, p) \union {n},
            ![k].cache = {e \in @ : ~SameKey(e, new)} \union {new}]

Invalidated(cache, ps) == {e \in cache : e.note.path \notin ps}

RecordWrites(c, ps) ==
  notes' = [notes EXCEPT
     ![call[c].mine].read = {n \in @ : n.path \notin ps}
                              \union {Note(p, disk[p]) : p \in {q \in ps : disk[q].there}},
     ![call[c].mine].cache = Invalidated(@, ps)]

\* check_read: the text decides; a note of the same text gets the new mtime.
CheckRead(k, p) ==
  [warned |-> disk[p].there /\ ~ \E n \in Seen(k, p) : n.text = disk[p].text,
   read |-> {IF n.path = p /\ n.text = disk[p].text THEN Note(p, disk[p]) ELSE n :
               n \in notes[k].read}]

\* is_unchanged, on the note of this very range.
CachedRange(c) == {e \in notes[call[c].mine].cache : SameKey(e, Ranged(c, Note(Args(c).path, NoFile)))}
IsUnchanged(c) == \E e \in CachedRange(c) : e.note = Note(Args(c).path, disk[Args(c).path])


-------------------------------------------------------------------------------
(* Steps of a call.                                                            *)

Rest == UNCHANGED <<script, outside, faults>>
Quiet == Rest /\ UNCHANGED <<disk, store, disturbed>>
At(c, pc) == call[c].pc = pc
Tool(c)   == Args(c).tool
Path(c)   == Args(c).path
Pending(c) == call[c].writes[call[c].at]

\* Calls of one session overlap if they only read, or if the run of one was stopped.
Begin(c) ==
  /\ At(c, "new")
  /\ \A d \in Calls \ {c} :
       Args(d).session = Args(c).session /\ Live(d) /\ call[d].heard =>
         Reads(Args(c)) /\ Reads(Args(d))
  /\ ForSession(c)
  /\ Rest /\ UNCHANGED <<disk, disturbed>>

\* read_bytes of a text, the pages of a PDF, or the text of a document; the name
\* of the file says which.
LoadRead(c) ==
  LET t == disk[Path(c)].text
      pages == IF Tool(c) = "read_pdf" THEN ReadPages(Len(t), Args(c).pages, PageCap)
               ELSE ReadDocument(t, ReadCap)
  IN /\ At(c, "load") /\ Reads(Args(c))
     /\ CASE ~disk[Path(c)].there -> Set(c, Answer(c, Error))
          [] disk[Path(c)].there /\ Tool(c) = "read_file" ->
               Set(c, IF t = <<>> THEN Answer(c, [kind |-> "empty"])
                      ELSE [pc |-> "dedup", raw |-> t])
          [] OTHER -> Set(c, IF pages.kind = "error" THEN Answer(c, Error)
                             ELSE [pc |-> "record", raw |-> t, answer |-> pages])
     /\ UNCHANGED notes /\ Quiet

Deduplicate(c) ==
  LET ask == ~Args(c).force /\ CachedRange(c) # {} /\ disk[Path(c)].there
      same == ask /\ IsUnchanged(c)
      lines == ReadLines(call[c].raw, Args(c).offset, Args(c).limit, ReadDefault, ReadCap)
  IN /\ At(c, "dedup")
     /\ notes' = IF ask /\ ~same
                 THEN [notes EXCEPT ![call[c].mine].cache = Invalidated(@, {Path(c)})]
                 ELSE notes
     /\ Set(c, IF same THEN [pc |-> "ended", answer |-> [kind |-> "already"],
                             seen |-> disk[Path(c)].text]
               ELSE IF lines.kind = "error" THEN Answer(c, Error)
               ELSE [pc |-> "record", answer |-> lines])
     /\ Quiet

RecordsRead(c) ==
  /\ At(c, "record") /\ Reads(Args(c))
  /\ RecordRead(c)
  /\ Set(c, [pc |-> "ended",
             noted |-> IF disk[Path(c)].there THEN {<<Path(c), disk[Path(c)].text>>} ELSE {}])
  /\ Quiet

\* What a write or an edit checks before it loads anything.
CheckWrite(c) ==
  /\ At(c, "check") /\ Tool(c) = "write_file"
  /\ Set(c, IF Len(Args(c).text) > WriteCap THEN Answer(c, Error)
            ELSE [pc |-> "open", writes |-> <<[path |-> Path(c), text |-> Args(c).text]>>])
  /\ UNCHANGED notes /\ Quiet

CheckEdit(c) ==
  LET e == Args(c)  k == call[c].mine
  IN /\ At(c, "check") /\ Tool(c) = "edit_file"
     /\ IF disk[e.path].there
        THEN Set(c, [pc |-> "load", seen |-> disk[e.path].text,
                     warned |-> e.old # <<>> /\ CheckRead(k, e.path).warned])
        ELSE Set(c, IF e.old # <<>> THEN Answer(c, Error)
                    ELSE [pc |-> "open", writes |-> <<[path |-> e.path, text |-> e.new]>>])
     /\ notes' = IF disk[e.path].there /\ e.old # <<>>
                 THEN [notes EXCEPT ![k].read = CheckRead(k, e.path).read] ELSE notes
     /\ Quiet

\* The file as it is now, edited; an empty old_text fills a file without words.
LoadEdit(c) ==
  LET e == Args(c)
      t == disk[e.path].text
      new == IF e.old # <<>> THEN EditText(t, e)
             ELSE [ok |-> Solid(t) = {}, text |-> e.new, spans |-> <<>>]
  IN /\ At(c, "load") /\ Tool(c) = "edit_file"
     /\ Set(c, IF ~disk[e.path].there \/ ~new.ok THEN Answer(c, Error)
               ELSE [pc |-> "open", raw |-> t, spans |-> new.spans,
                     writes |-> <<[path |-> e.path, text |-> new.text]>>])
     /\ UNCHANGED notes /\ Quiet

\* One edit of a patch, on what an earlier edit makes of the file or on the file,
\* read with universal newlines.
Prepare(c) ==
  LET e == Args(c).edits[call[c].at]
      ws == call[c].writes
      mine == {i \in DOMAIN ws : ws[i].path = e.path}
      file == disk[e.path]
      new == PatchText(IF mine # {} THEN ws[Min(mine)].text ELSE Lf(file.text), e)
      known == mine # {} \/ file.there \/ e.action = "add"
      w == [path |-> e.path, text |-> new.text]
  IN /\ At(c, "prepare")
     /\ IF ~known \/ ~new.ok THEN Set(c, Answer(c, Error))
        ELSE Set(c, Updated(
               IF call[c].at < Len(Args(c).edits) THEN [at |-> call[c].at + 1]
               ELSE IF Args(c).dry THEN Answer(c, Success)
               ELSE [at |-> 1, pc |-> "backup"],
               [writes |-> IF mine = {} THEN Append(ws, w) ELSE [ws EXCEPT ![Min(mine)] = w]]))
     /\ UNCHANGED notes /\ Quiet

\* To the next file of the patch, or on to pc.
NextFile(c, pc) ==
  IF call[c].at < Len(call[c].writes) THEN [at |-> call[c].at + 1] ELSE [at |-> 1, pc |-> pc]

Backup(c) ==
  /\ At(c, "backup")
  /\ Set(c, Updated(NextFile(c, "open"),
                    [backup |-> Append(call[c].backup, disk[Pending(c).path])]))
  /\ UNCHANGED notes /\ Quiet

\* write_text and write_bytes: the file is emptied, then filled.
Open(c) ==
  /\ At(c, "open")
  /\ Written(Pending(c).path, c, Text(<<>>))
  /\ Go(c, "fill")
  /\ Rest /\ UNCHANGED <<store, notes>>

Fill(c) ==
  /\ At(c, "fill")
  /\ Written(Pending(c).path, c, Text(Pending(c).text))
  /\ Set(c, Updated([pc |-> "open"], NextFile(c, "record")))
  /\ Rest /\ UNCHANGED <<store, notes>>

WriteFails(c) ==
  /\ call[c].pc \in {"open", "fill"} /\ faults > 0
  /\ faults' = faults - 1
  /\ Set(c, IF Tool(c) = "apply_patch" THEN [at |-> 1, pc |-> "restore"] ELSE Answer(c, Error))
  /\ UNCHANGED <<script, outside, disk, store, notes, disturbed>>

\* Mutant: files that were not there stay.
PutBackOld(p, c, old) ==
  IF old.there THEN Written(p, c, old) ELSE UNCHANGED <<disk, disturbed>>
\* Files there were are written back, others unlinked.
PutBack(p, c, old) ==
  IF old.there \/ disk[p].there THEN Written(p, c, old) ELSE UNCHANGED <<disk, disturbed>>

Restore(c) ==
  LET old == call[c].backup[call[c].at]
  IN /\ At(c, "restore")
     /\ PutBack(Pending(c).path, c, old)
     /\ Set(c, Updated(NextFile(c, "ended"), [answer |-> Error]))
     /\ Rest /\ UNCHANGED <<store, notes>>

RestoreFails(c) ==
  /\ At(c, "restore") /\ faults > 0
  /\ faults' = faults - 1
  /\ Set(c, [pc |-> "ended", answer |-> Error, unrestored |-> TRUE])
  /\ UNCHANGED <<script, outside, disk, store, notes, disturbed>>

RecordsWrite(c) ==
  LET ps == {call[c].writes[i].path : i \in DOMAIN call[c].writes}
  IN /\ At(c, "record") /\ ~Reads(Args(c))
     /\ RecordWrites(c, ps)
     /\ Set(c, [pc |-> "ended", answer |-> Success,
                noted |-> {<<p, disk[p].text>> : p \in {q \in ps : disk[q].there}}])
     /\ Quiet

\* finish: the files whose text is another than before, line ends apart.
Changed(f, g) == f.there # g.there \/ Lf(f.text) # Lf(g.text)

Report(c) ==
  /\ At(c, "ended") /\ call[c].heard
  /\ Set(c, [pc |-> "done", after |-> Snapshot(c),
             changes |-> {p \in Targets(Args(c)) : Changed(call[c].before[p], disk[p])}])
  /\ UNCHANGED notes /\ Quiet

\* The run is stopped: its answer goes nowhere, the thread goes on.
Stop(c) ==
  /\ Live(c) /\ call[c].heard /\ c \in script.stops
  /\ Set(c, [heard |-> FALSE])
  /\ UNCHANGED notes /\ Quiet

Editor(p) ==
  /\ outside > 0
  /\ outside' = outside - 1
  /\ \E f \in {NoFile, Text(<<"b">>), Text(<<"b", "lf", "a">>)} : Written(p, 0, f)
  /\ UNCHANGED <<script, faults, store, notes, call>>

FilesNext ==
  \/ \E c \in Calls :
       \/ Begin(c) \/ LoadRead(c) \/ Deduplicate(c) \/ RecordsRead(c)
       \/ CheckWrite(c) \/ CheckEdit(c) \/ LoadEdit(c) \/ Prepare(c) \/ Backup(c)
       \/ Open(c) \/ Fill(c) \/ WriteFails(c) \/ Restore(c) \/ RestoreFails(c)
       \/ RecordsWrite(c) \/ Report(c) \/ Stop(c)
  \/ \E p \in DOMAIN disk : Editor(p)

FilesSpec == FilesInit /\ [][FilesNext]_fileVars

-------------------------------------------------------------------------------
(* Properties.                                                                 *)

Finished(c) == call[c].pc \in {"ended", "done"}
Did(c, kind) == Finished(c) /\ call[c].answer.kind = kind
SameSession(c, d) == Args(c).session = Args(d).session
SameRange(c, d) ==
  /\ SameSession(c, d) /\ Path(c) = Path(d)
  /\ Args(c).offset = Args(d).offset /\ Args(c).limit = Args(d).limit

(* "file range already read" is true of the text the session was last shown of *)
(* this range, and an edit without a warning is of a text the session was      *)
(* shown or wrote, unless the file changed while that call or this one was     *)
(* between two looks at it (read_file, edit_file, FileStates).                 *)
AlreadyShown(c) ==
  \E d \in Calls : /\ Tool(d) = "read_file" /\ SameRange(c, d)
                   /\ <<Path(c), call[c].seen>> \in call[d].noted
                   /\ call[d].raw = call[c].seen \/ d \in disturbed

EditsWhatItSaw(c) ==
  /\ call[c].raw = call[c].seen \/ c \in disturbed
  /\ \E d \in Calls \ {c} : SameSession(c, d) /\ <<Path(c), call[c].seen>> \in call[d].noted

NothingUnseen ==
  \A c \in Calls :
    /\ Did(c, "already") => AlreadyShown(c)
    /\ Tool(c) = "edit_file" /\ Did(c, "ok") /\ call[c].spans # <<>> /\ ~call[c].warned =>
         EditsWhatItSaw(c)

(* A patch that succeeded made every file what its edits in their order make   *)
(* of it; one that failed, or only tried, left every file as it was, unless it *)
(* said it could not restore them; and the files reported as changed are those *)
(* that did: as far as nobody else wrote these files meanwhile (apply_patch,   *)
(* FileChangeTracker).                                                         *)
EditedTo(t, edits, p) ==
  LET upTo[k \in 0 .. Len(edits)] ==
        IF k = 0 THEN t
        ELSE IF edits[k].path = p THEN PatchText(upTo[k - 1], edits[k]).text ELSE upTo[k - 1]
  IN upTo
Patched(c, p) == EditedTo(Lf(call[c].before[p].text), Args(c).edits, p)[Len(Args(c).edits)]

PatchAllOrNothing ==
  \A c \in Calls : Tool(c) = "apply_patch" /\ At(c, "done") /\ c \notin disturbed =>
    LET before == call[c].before  after == call[c].after
    IN /\ call[c].changes = {p \in Targets(Args(c)) : Changed(before[p], after[p])}
       /\ Did(c, "ok") => \A p \in Targets(Args(c)) : after[p].there /\ after[p].text = Patched(c, p)
       /\ Did(c, "error") /\ ~call[c].unrestored =>
            \A p \in Targets(Args(c)) :
              after[p].there = before[p].there /\ after[p].text = before[p].text

\* What a further read from k on returns, and where such reads get from i on.
Total(c) == IF Tool(c) = "read_pdf" THEN Len(call[c].raw) ELSE Len(SplitLines(Lf(call[c].raw)))
Further(c, k) ==
  IF Tool(c) = "read_pdf"
  THEN ReadPages(Total(c), <<k, Least(k - 1 + PageCap, Total(c))>>, PageCap)
  ELSE ReadLines(call[c].raw, k, Args(c).limit, ReadDefault, ReadCap)
Visited(c, i) ==
  LET from == FoldLeft(LAMBDA S, k : S \union ({Further(c, j).next : j \in S} \ {0}),
                       {i}, [k \in 1 .. Total(c) |-> k])
  IN {Further(c, j) : j \in from}

ReadsFollowOn(c) ==
  LET a == call[c].answer
      all == {a} \union (IF a.next = 0 THEN {} ELSE Visited(c, a.next))
  IN \A i \in a.from .. Total(c) :
       Cardinality({r \in all : r.from <= i /\ i <= r.to}) = 1

WholeLines(t, m) ==
  /\ m.start = 1 \/ t[m.start - 1] = "lf"
  /\ m.start <= Len(t) /\ (m.end = Len(t) + 1 \/ t[m.end] = "lf")

SameButBlanks(a, old) ==
  LET os == SplitLines(old)  ls == Split(a)
  IN Len(ls) = Len(os) /\ \A i \in DOMAIN ls : Strip(ls[i]) = Strip(os[i])

Spans(t, old) ==
  LET all == {m \in [start : 1 .. Len(t) + 1, end : 1 .. Len(t) + 1] : m.start <= m.end}
      exact == {m \in all : Said(t, m) = old}
  IN IF exact # {} THEN exact
     ELSE {m \in all : WholeLines(t, m) /\ SameButBlanks(Said(t, m), old)}
Apart(a, b) == a.end < b.start \/ b.end < a.start

\* new_text as it may stand in the file: its lines indented by up to k blanks.
Says(new, k) ==
  {Join([i \in DOMAIN Split(new) |->
           IF Split(new)[i] = <<>> THEN <<>> ELSE [j \in 1 .. n |-> " "] \o Split(new)[i]]) :
     n \in 0 .. k}

\* The texts in which the spans S of t are replaced, from left to right.
Outcomes(t, S, new) ==
  LET word == Says(TrailStripped(new), Len(t))
      step(ts, m) ==
        {[text |-> a.text \o SubSeq(t, a.at, m.start - 1) \o w, at |-> m.end] : a \in ts, w \in word}
          \union {[text |-> a.text \o SubSeq(t, a.at, m.start - 1), at |-> m.end + 1] :
                    a \in {b \in ts : <<>> \in word}}
      all == FoldLeft(step, {[text |-> <<>>, at |-> 1]},
                      SetToSortSeq(S, LAMBDA a, b : a.start < b.start))
  IN {a.text \o SubSeq(t, a.at, Len(t)) : a \in all}

EditTouchesOnlyMatches(c) ==
  LET e == Args(c)
      t == Lf(call[c].before[e.path].text)
      spans == Spans(t, Lf(e.old))
  IN \/ \E a, b \in spans : a # b /\ ~Apart(a, b)
     \/ \E S \in SUBSET spans :
          /\ IF e.all THEN S = spans ELSE Cardinality(S) = 1
          /\ e.expected \in {0, Cardinality(S)}
          /\ e.hint # 0 => \A m \in S : LineAt(t, m.start) <= e.hint /\ e.hint <= LineAt(t, m.end)
          /\ e.occurrence # 0 => \A m \in S :
               Cardinality({n \in spans : n.start <= m.start}) = e.occurrence
          /\ e.all \/ e.occurrence # 0 \/ e.hint # 0 \/ Cardinality(spans) = 1
          /\ Lf(call[c].after[e.path].text) \in Outcomes(t, S, Lf(e.new))

(* Following next_offset or next_pages shows each line or page once; and an    *)
(* edit replaces what says the same as old_text by what says the same as       *)
(* new_text, once or wherever it is said, and nothing else: a deletion may     *)
(* take along the line end it leaves alone.  Matches that touch each other are *)
(* left out: replacing one then moves the other (read_file, _read_pdf,         *)
(* edit_file, _find_matches, _reindent_like_match).                            *)
TextsExact ==
  \A c \in Calls :
    /\ Tool(c) \in {"read_file", "read_pdf"} /\ Did(c, "lines") => ReadsFollowOn(c)
    /\ Tool(c) = "edit_file" /\ At(c, "done") /\ Did(c, "ok") /\ c \notin disturbed
         /\ Args(c).old # <<>> => EditTouchesOnlyMatches(c)

(* What read_file says of itself: a session is only told "file range already   *)
(* read" of a range that one of its answers did show as it now stands.         *)
AlreadyReadIsTrue ==
  \A c \in Calls : Did(c, "already") =>
    \E d \in Calls : /\ SameRange(c, d) /\ call[d].heard
                     /\ Did(d, "lines") /\ call[d].raw = call[c].seen
===============================================================================
