-------------------------- MODULE BuiltinTools_proofs --------------------------
(***************************************************************************)
(* Proofs about the built-in tools.                                        *)
(*                                                                         *)
(* File tools (FileTools), for any files, texts, calls and sessions: what  *)
(* a patch that nobody disturbs has done to the files at each point of its *)
(* way (PatchInv), from which what it reports follows; whose notes are     *)
(* whose, which call took them, and what a call knows by them (NotesInv).  *)
(*                                                                         *)
(* Shell tools (ExecSessions), for any number of conversations, closers,   *)
(* processes, chunks and table entries: who holds a process, and what      *)
(* becomes of its output (IInv).                                           *)
(***************************************************************************)
EXTENDS FileTools, ExecSessions, FiniteSetTheorems, SequenceTheorems, TLAPS

-------------------------------------------------------------------------------
(* Sequences of anything.                                                      *)

IsSeq(s) == Len(s) \in Nat /\ s = [i \in 1 .. Len(s) |-> s[i]]

LEMMA IsSeqOf == ASSUME NEW s, IsSeq(s) PROVE s \in Seq({s[i] : i \in 1 .. Len(s)})
BY SeqDef DEF IsSeq

LEMMA SeqIs == ASSUME NEW T, NEW s \in Seq(T) PROVE IsSeq(s)
<1>1. Len(s) \in Nat /\ s \in [1 .. Len(s) -> T]
  BY LenProperties
<1>2. QED BY <1>1 DEF IsSeq

LEMMA AppendIs ==
  ASSUME NEW s, NEW e, IsSeq(s)
  PROVE  /\ IsSeq(Append(s, e)) /\ Len(Append(s, e)) = Len(s) + 1
         /\ \A i \in 1 .. Len(s) : Append(s, e)[i] = s[i]
         /\ Append(s, e)[Len(s) + 1] = e
<1> DEFINE T == {s[i] : i \in 1 .. Len(s)} \union {e}
<1>1. s \in Seq(T)
  <2>1. s \in Seq({s[i] : i \in 1 .. Len(s)}) /\ {s[i] : i \in 1 .. Len(s)} \subseteq T
    BY IsSeqOf
  <2> HIDE DEF T
  <2>2. QED BY <2>1, SeqMonotonic
<1>2. /\ Append(s, e) \in Seq(T) /\ Len(Append(s, e)) = Len(s) + 1
      /\ \A i \in 1 .. Len(s) : Append(s, e)[i] = s[i]
      /\ Append(s, e)[Len(s) + 1] = e
  BY <1>1, AppendProperties
<1> HIDE DEF T
<1>3. IsSeq(Append(s, e))
  BY <1>2, SeqIs
<1>4. QED BY <1>2, <1>3

LEMMA ChangedAt ==
  ASSUME NEW s, NEW k, NEW e, IsSeq(s), k \in 1 .. Len(s)
  PROVE  /\ IsSeq([s EXCEPT ![k] = e]) /\ Len([s EXCEPT ![k] = e]) = Len(s)
         /\ \A i \in 1 .. Len(s) : [s EXCEPT ![k] = e][i] = IF i = k THEN e ELSE s[i]
<1> DEFINE T == {s[i] : i \in 1 .. Len(s)} \union {e}
<1>1. s \in Seq(T)
  <2>1. s \in Seq({s[i] : i \in 1 .. Len(s)}) /\ {s[i] : i \in 1 .. Len(s)} \subseteq T
    BY IsSeqOf
  <2> HIDE DEF T
  <2>2. QED BY <2>1, SeqMonotonic
<1>2. /\ [s EXCEPT ![k] = e] \in Seq(T) /\ Len([s EXCEPT ![k] = e]) = Len(s)
      /\ \A i \in 1 .. Len(s) : [s EXCEPT ![k] = e][i] = IF i = k THEN e ELSE s[i]
  <2>1. e \in T
    OBVIOUS
  <2>2. QED BY <1>1, <2>1, ExceptSeq
<1> HIDE DEF T
<1>3. IsSeq([s EXCEPT ![k] = e])
  BY <1>2, SeqIs
<1>4. QED BY <1>2, <1>3

-------------------------------------------------------------------------------
(* What a script, the disk and the calls are.                                   *)

CallFields ==
  {"pc", "mine", "before", "raw", "seen", "warned", "writes", "at", "backup", "spans",
   "noted", "unrestored", "answer", "heard", "after", "changes"}

\* Where a call of each tool can be.
Places ==
  [read_file   |-> {"new", "load", "dedup", "record", "ended", "done"},
   read_pdf    |-> {"new", "load", "record", "ended", "done"},
   read_office |-> {"new", "load", "record", "ended", "done"},
   write_file  |-> {"new", "check", "open", "fill", "record", "ended", "done"},
   edit_file   |-> {"new", "check", "load", "open", "fill", "record", "ended", "done"},
   apply_patch |-> {"new", "prepare", "backup", "open", "fill", "restore", "record",
                    "ended", "done"}]

Edits(c) == Len(Args(c).edits)
Writes(c) == Len(call[c].writes)

\* What a patch has to write and to put back, and where it is.
PatchShape(c) ==
  LET pc == call[c].pc  at == call[c].at  backup == call[c].backup
  IN /\ IsSeq(call[c].writes) /\ IsSeq(backup)
     /\ \A i \in 1 .. Writes(c) : call[c].writes[i].path \in Paths(Args(c))
     /\ \A i \in 1 .. Len(backup) : IsFile(backup[i])
     /\ pc \in {"new", "prepare"} =>
          at \in 1 .. Edits(c) /\ backup = <<>> /\ (at > 1 => Writes(c) # 0)
     /\ pc = "backup" => at \in 1 .. Writes(c) /\ Len(backup) = at - 1
     /\ pc \in {"open", "fill", "restore"} => at \in 1 .. Writes(c) /\ Len(backup) = Writes(c)

FilesShape ==
  /\ script \in Scripts
  /\ DOMAIN disk = DOMAIN script.files
  /\ \A p \in DOMAIN disk : IsFile(disk[p])
  /\ DOMAIN call = Calls
  /\ \A c \in Calls : DOMAIN call[c] = CallFields /\ call[c].pc \in Places[Tool(c)]
  /\ \A c \in Calls : call[c].pc = "new" => call[c] = NewCall
  /\ \A c \in Calls : Tool(c) = "apply_patch" => PatchShape(c)

-------------------------------------------------------------------------------
(* What a step does to a call, and to the files of the others.                 *)

LEMMA Script ==
  ASSUME FilesShape
  PROVE  /\ 0 \notin Calls
         /\ \A c \in Calls : IsCall(Args(c), DOMAIN disk)
BY ScriptsAssumption DEF FilesShape, Calls, Args

LEMMA SetIs ==
  ASSUME FilesShape, NEW c \in Calls, NEW fields, DOMAIN fields \subseteq CallFields,
         Set(c, fields), script' = script
  PROVE  /\ Calls' = Calls /\ DOMAIN call' = Calls
         /\ \A d \in Calls : Args(d)' = Args(d)
         /\ \A d \in Calls \ {c} : call'[d] = call[d]
         /\ DOMAIN call'[c] = CallFields
         /\ \A k \in DOMAIN fields : call'[c][k] = fields[k]
         /\ \A k \in CallFields \ DOMAIN fields : call'[c][k] = call[c][k]
BY DEF FilesShape, Set, Updated, Calls, Args

\* What x writes is not a file of another call that is undisturbed.
Calm(x) ==
  /\ DOMAIN disk' = DOMAIN disk /\ disturbed \subseteq disturbed'
  /\ \A d \in Calls \ {x} : \A p \in Paths(Args(d)) :
       Live(d) /\ d \notin disturbed' => disk'[p] = disk[p]

Same(f, g) == f.there = g.there /\ f.text = g.text

LEMMA WrittenIs ==
  ASSUME FilesShape, NEW x, NEW p, NEW f, IsFile(f), Written(p, x, f)
  PROVE  /\ Calm(x)
         /\ \A q \in DOMAIN disk \ {p} : disk'[q] = disk[q]
         /\ \A q \in DOMAIN disk : IsFile(disk'[q])
         /\ p \in DOMAIN disk => Same(disk'[p], f)
<1>1. \A q \in DOMAIN disk : IsFile(disk[q])
  BY DEF FilesShape
<1>2. /\ DOMAIN disk' = DOMAIN disk
      /\ \A q \in DOMAIN disk \ {p} : disk'[q] = disk[q]
      /\ p \in DOMAIN disk => Same(disk'[p], f) /\ IsFile(disk'[p])
  BY DEF Written, IsFile, Same
<1>3. Calm(x)
  <2>1. ASSUME NEW d \in Calls \ {x}, NEW q \in Paths(Args(d)), Live(d), d \notin disturbed'
        PROVE  disk'[q] = disk[q]
    <3>1. q \in DOMAIN disk
      BY Script DEF IsCall
    <3>2. p \notin Paths(Args(d))
      BY <2>1 DEF Written
    <3>3. QED BY <1>2, <2>1, <3>1, <3>2
  <2>2. QED BY <1>2, <2>1 DEF Calm, Written
<1>4. QED BY <1>1, <1>2, <1>3

LEMMA UnwrittenIs ==
  ASSUME FilesShape, NEW x, UNCHANGED <<disk, disturbed>>
  PROVE  Calm(x) /\ \A q \in DOMAIN disk : IsFile(disk'[q])
BY DEF FilesShape, Calm

\* A step that sets fields of a call, and may write files.
LEMMA SetShape ==
  ASSUME FilesShape, NEW c \in Calls, NEW fields, DOMAIN fields \subseteq CallFields,
         Set(c, fields), script' = script,
         DOMAIN disk' = DOMAIN disk, \A q \in DOMAIN disk : IsFile(disk'[q]),
         "pc" \in DOMAIN fields => fields.pc \in Places[Tool(c)] \ {"new"},
         "pc" \notin DOMAIN fields => call[c].pc # "new",
         Tool(c) = "apply_patch" => PatchShape(c)'
  PROVE  FilesShape'
<1>1. /\ Calls' = Calls /\ DOMAIN call' = Calls
      /\ \A d \in Calls : Args(d)' = Args(d)
      /\ \A d \in Calls \ {c} : call'[d] = call[d]
      /\ DOMAIN call'[c] = CallFields
  BY SetIs
<1>2. call'[c].pc \in Places[Tool(c)] \ {"new"}
  BY SetIs DEF FilesShape, CallFields
<1>3. \A d \in Calls : Tool(d)' = Tool(d)
  BY <1>1 DEF Tool
<1>4. ASSUME NEW d \in Calls \ {c}, Tool(d) = "apply_patch" PROVE PatchShape(d)'
  BY <1>1, <1>4 DEF FilesShape, PatchShape, Edits, Writes
<1>5. QED BY <1>1, <1>2, <1>3, <1>4 DEF FilesShape

-------------------------------------------------------------------------------
(* What the edits of a patch make of a file.                                   *)

\* Induction over the natural numbers, stated for sets: the library states it for
\* operators.
LEMMA LeastOf ==
  ASSUME NEW S \in SUBSET Nat, S # {}
  PROVE  \E n \in S : \A m \in S : n <= m
<1> DEFINE Below == OpToRel(<, Nat)
<1>1. \A x, y \in Nat : y < x => <<y, x>> \in Below
  BY Zenon DEF OpToRel
<1>2. \E x \in S : \A y \in S : <<y, x>> \notin Below
  BY NatLessThanWellFounded, WFMin, Zenon
<1> HIDE DEF Below
<1>3. PICK x \in S : \A y \in S : <<y, x>> \notin Below
  BY <1>2
<1>4. \A y \in S : ~(y < x)
  BY <1>1, <1>3, Zenon
<1>5. QED BY <1>4

LEMMA UpTo ==
  ASSUME NEW n \in Nat, NEW S, 0 \in S, \A i \in 1..n : i - 1 \in S => i \in S
  PROVE  \A i \in 0..n : i \in S
<1> DEFINE Out == {i \in 0..n : i \notin S}
<1>1. SUFFICES ASSUME Out # {} PROVE FALSE
  OBVIOUS
<1>2. Out \in SUBSET Nat
  OBVIOUS
<1>3. PICK k \in Out : \A m \in Out : k <= m
  <2> HIDE DEF Out
  <2> QED BY <1>1, <1>2, LeastOf
<1>4. k \in 1..n /\ k - 1 \in 0..n /\ ~(k <= k - 1)
  BY <1>3
<1>5. k - 1 \in S
  BY <1>3, <1>4
<1>6. QED BY <1>3, <1>4, <1>5

\* The texts of a file, one edit after the other.
EditsFrom(g, t, edits, p, n) ==
  /\ g[0] = t
  /\ \A k \in 1 .. n : g[k] = IF edits[k].path = p THEN PatchText(g[k - 1], edits[k]).text
                                                    ELSE g[k - 1]

LEMMA EditsOne ==
  ASSUME NEW t, NEW edits, NEW p, Len(edits) \in Nat
  PROVE  EditsFrom(EditedTo(t, edits, p), t, edits, p, Len(edits))
<1> DEFINE n == Len(edits)
           Step(f, k) == IF k = 0 THEN t
                         ELSE IF edits[k].path = p THEN PatchText(f[k - 1], edits[k]).text
                                                   ELSE f[k - 1]
           upTo == CHOOSE f : f = [k \in 0 .. n |-> Step(f, k)]
           Good == {k \in 0 .. n : \E f : f = [i \in 0 .. k |-> Step(f, i)]}
<1>1. 0 \in Good
  <2>1. [i \in 0 .. 0 |-> t] = [j \in 0 .. 0 |-> Step([i \in 0 .. 0 |-> t], j)]
    OBVIOUS
  <2>2. \E f : f = [i \in 0 .. 0 |-> Step(f, i)]
    <3> HIDE DEF Step
    <3> QED BY <2>1
  <2>3. QED BY <2>2
<1>2. ASSUME NEW k \in 1 .. n, k - 1 \in Good PROVE k \in Good
  <2>1. PICK f : f = [i \in 0 .. k - 1 |-> Step(f, i)]
    BY <1>2
  <2> DEFINE g == [i \in 0 .. k |-> IF i = k THEN Step(f, k) ELSE f[i]]
  <2>2. \A i \in 0 .. k - 1 : g[i] = f[i]
    OBVIOUS
  <2>3. \A i \in 0 .. k - 1 : f[i] = Step(f, i)
    <3> HIDE DEF Step
    <3> QED BY <2>1
  <2>4. \A i \in 0 .. k : Step(g, i) = Step(f, i)
    <3> TAKE i \in 0 .. k
    <3>1. i # 0 => g[i - 1] = f[i - 1]
      BY <2>2
    <3> HIDE DEF g
    <3>2. QED BY <3>1
  <2>5. \A i \in 0 .. k : g[i] = Step(g, i)
    <3> HIDE DEF Step
    <3> QED BY <2>2, <2>3, <2>4
  <2>6. g = [i \in 0 .. k |-> Step(g, i)]
    <3>1. g = [i \in 0 .. k |-> g[i]]
      OBVIOUS
    <3> HIDE DEF g, Step
    <3>2. QED BY <2>5, <3>1
  <2>7. \E h : h = [i \in 0 .. k |-> Step(h, i)]
    <3> HIDE DEF g, Step
    <3> QED BY <2>6
  <2>8. QED BY <2>7
<1>3. n \in Good
  <2>1. n \in Nat /\ n \in 0 .. n
    OBVIOUS
  <2> HIDE DEF Good, n
  <2> QED BY <1>1, <1>2, <2>1, UpTo
<1>4. upTo = [k \in 0 .. n |-> Step(upTo, k)]
  <2>1. \E f : f = [k \in 0 .. n |-> Step(f, k)]
    BY <1>3
  <2> HIDE DEF Step
  <2>2. QED BY <2>1
<1>5. EditedTo(t, edits, p) = upTo
  BY DEF EditedTo
<1> HIDE DEF upTo
<1>6. \A k \in 0 .. n : upTo[k] = Step(upTo, k)
  <2> HIDE DEF Step
  <2> QED BY <1>4
<1>7. QED BY <1>5, <1>6 DEF EditsFrom

-------------------------------------------------------------------------------
(* The invariant of a patch that nobody disturbs.                              *)

Patching(c) == Tool(c) = "apply_patch" /\ ~Args(c).dry /\ c \notin disturbed

Base(c, p) == Lf(call[c].before[p].text)
Made(c, p, k) == EditedTo(Base(c, p), Args(c).edits, p)[k]

\* What is to be written when the first k edits are prepared: one text for each file.
Preparing(c, ws, k) ==
     /\ \A i, j \in 1 .. Len(ws) : ws[i].path = ws[j].path => i = j
     /\ \A j \in 1 .. k : \E i \in 1 .. Len(ws) : ws[i].path = Args(c).edits[j].path
     /\ \A i \in 1 .. Len(ws) : ws[i].text = Made(c, ws[i].path, k)
     /\ \A p \in Paths(Args(c)) :
          (\A i \in 1 .. Len(ws) : ws[i].path # p) => Made(c, p, k) = Base(c, p)
Prepared(c, k) == Preparing(c, call[c].writes, k)

Snapped(c)   == \A p \in Paths(Args(c)) : IsFile(call[c].before[p])
Untouched(c) == \A p \in Paths(Args(c)) : disk[p] = call[c].before[p]
Backed(c, k) ==
  \A i \in 1 .. k : call[c].backup[i] = call[c].before[call[c].writes[i].path]
Filled(c, k) ==
  \A i \in 1 .. k : Same(disk[call[c].writes[i].path], Text(call[c].writes[i].text))
Returned(c, k) ==
  \A i \in 1 .. k : LET p == call[c].writes[i].path IN Same(disk[p], call[c].before[p])

InPatch(c) ==
  LET pc == call[c].pc  at == call[c].at  kind == call[c].answer.kind
  IN /\ pc # "new" => Snapped(c)
     /\ pc = "prepare" => Prepared(c, at - 1) /\ Untouched(c)
     /\ pc = "backup" => Prepared(c, Edits(c)) /\ Untouched(c) /\ Backed(c, at - 1)
     /\ pc \in {"open", "fill"} =>
          Prepared(c, Edits(c)) /\ Backed(c, Writes(c)) /\ Filled(c, at - 1)
     /\ pc = "restore" =>
          Prepared(c, Edits(c)) /\ Backed(c, Writes(c)) /\ Returned(c, at - 1)
     /\ pc = "record" => Prepared(c, Edits(c)) /\ Filled(c, Writes(c))
     /\ pc = "ended" /\ kind = "ok" => Prepared(c, Edits(c)) /\ Filled(c, Writes(c))
     /\ pc = "ended" /\ kind = "error" /\ ~call[c].unrestored =>
          \A p \in Paths(Args(c)) : Same(disk[p], call[c].before[p])
     /\ pc = "done" /\ kind = "ok" =>
          \A p \in Paths(Args(c)) :
            call[c].after[p].there /\ call[c].after[p].text = Made(c, p, Edits(c))
     /\ pc = "done" /\ kind = "error" /\ ~call[c].unrestored =>
          \A p \in Paths(Args(c)) : Same(call[c].after[p], call[c].before[p])

Reported(c) ==
  call[c].pc = "done" =>
    /\ call[c].changes = {p \in Targets(Args(c)) : Changed(call[c].before[p], call[c].after[p])}

PatchInv ==
  /\ FilesShape
  /\ \A c \in Calls : Reported(c) /\ (Patching(c) => InPatch(c))

\* A step of x leaves what is known of another call.
LEMMA OthersKept ==
  ASSUME PatchInv, NEW x, Calm(x), script' = script,
         \A d \in Calls \ {x} : call'[d] = call[d],
         NEW c \in Calls \ {x}
  PROVE  Reported(c)' /\ (Patching(c)' => InPatch(c)')
<1>1. /\ call'[c] = call[c] /\ Args(c)' = Args(c) /\ Tool(c)' = Tool(c)
      /\ c \in disturbed => c \in disturbed'
  BY DEF Calm, Args, Tool
<1>2. Reported(c)'
  BY <1>1 DEF Reported, PatchInv
<1>3. ASSUME Patching(c)' PROVE InPatch(c)'
  <2>1. Patching(c) /\ InPatch(c)
    BY <1>1, <1>3 DEF Patching, PatchInv
  <2>2. /\ Snapped(c)' = Snapped(c)
        /\ \A k : Prepared(c, k) => Prepared(c, k)'
        /\ Edits(c)' = Edits(c) /\ Writes(c)' = Writes(c)
        /\ \A k : Backed(c, k) => Backed(c, k)'
        /\ \A p : Made(c, p, Edits(c))' = Made(c, p, Edits(c))
    <3>1. Edits(c)' = Edits(c) /\ Writes(c)' = Writes(c)
      BY <1>1 DEF Edits, Writes
    <3>2. \A p, k : Made(c, p, k)' = Made(c, p, k) /\ Base(c, p)' = Base(c, p)
      BY <1>1 DEF Made, Base
    <3>3. \A k : Prepared(c, k) => Prepared(c, k)'
      BY <1>1, <3>2 DEF Prepared, Preparing
    <3>4. Snapped(c)' = Snapped(c) /\ \A k : Backed(c, k) => Backed(c, k)'
      BY <1>1 DEF Snapped, Backed
    <3>5. QED BY <3>1, <3>2, <3>3, <3>4
  <2>3. CASE call[c].pc \in {"new", "done"}
    BY <1>1, <2>1, <2>2, <2>3 DEF InPatch
  <2>4. CASE call[c].pc \notin {"new", "done"}
    <3>1. \A p \in Paths(Args(c)) : disk'[p] = disk[p]
      BY <1>3, <2>4 DEF Calm, Live, Patching
    <3>2. Untouched(c) => Untouched(c)'
      BY <1>1, <3>1 DEF Untouched
    <3>3. PatchShape(c) /\ \A i \in 1 .. Writes(c) : call[c].writes[i].path \in Paths(Args(c))
      BY <2>1 DEF PatchInv, FilesShape, Patching, PatchShape
    <3>4. ASSUME NEW m, 1 .. m \subseteq 1 .. Writes(c)
          PROVE  (Filled(c, m) => Filled(c, m)') /\ (Returned(c, m) => Returned(c, m)')
      BY <1>1, <3>1, <3>3, <3>4 DEF Filled, Returned
    <3>5. ASSUME call[c].pc \in {"prepare", "backup"} PROVE InPatch(c)'
      BY <1>1, <2>1, <2>2, <3>2, <3>5 DEF InPatch
    <3>6. ASSUME call[c].pc \in {"open", "fill", "restore"} PROVE InPatch(c)'
      <4>1. call[c].at \in 1 .. Writes(c) /\ Writes(c) \in Nat
        BY <3>3, <3>6 DEF PatchShape, IsSeq, Writes
      <4>2. /\ Filled(c, call[c].at - 1) => Filled(c, call[c].at - 1)'
            /\ Returned(c, call[c].at - 1) => Returned(c, call[c].at - 1)'
        BY <1>1, <3>4, <4>1
      <4>3. QED BY <1>1, <2>1, <2>2, <3>6, <4>1, <4>2 DEF InPatch
    <3>7. ASSUME call[c].pc \in {"record", "ended"} PROVE InPatch(c)'
      <4>1. Filled(c, Writes(c)) => Filled(c, Writes(c))'
        BY <1>1, <2>2, <3>4
      <4>2. ASSUME \A p \in Paths(Args(c)) : Same(disk[p], call[c].before[p])
            PROVE  \A p \in Paths(Args(c)) : Same(disk[p], call[c].before[p])'
        BY <1>1, <3>1, <4>2
      <4>3. QED BY <1>1, <2>1, <2>2, <3>7, <4>1, <4>2 DEF InPatch
    <3>8. ASSUME call[c].pc \notin {"new", "prepare", "backup", "open", "fill", "restore",
                                    "record", "ended", "done"}
          PROVE  InPatch(c)'
      BY <1>1, <2>1, <2>2, <3>8 DEF InPatch
    <3>9. QED BY <2>4, <3>5, <3>6, <3>7, <3>8
  <2>5. QED BY <2>3, <2>4
<1>4. QED BY <1>2, <1>3

\* A step of a call that keeps what is known of itself.
LEMMA Steps ==
  ASSUME PatchInv, NEW c \in Calls, NEW fields, DOMAIN fields \subseteq CallFields,
         Set(c, fields), script' = script, Calm(c),
         \A q \in DOMAIN disk : IsFile(disk'[q]),
         "pc" \in DOMAIN fields => fields.pc \in Places[Tool(c)] \ {"new"},
         "pc" \notin DOMAIN fields => call[c].pc # "new",
         Tool(c) = "apply_patch" => PatchShape(c)',
         Reported(c)', Patching(c)' => InPatch(c)'
  PROVE  PatchInv'
<1>1. FilesShape /\ DOMAIN disk' = DOMAIN disk
  BY DEF PatchInv, Calm
<1>2. FilesShape'
  BY <1>1, SetShape
<1>3. Calls' = Calls /\ \A d \in Calls \ {c} : call'[d] = call[d]
  BY <1>1, SetIs
<1>4. \A d \in Calls \ {c} : Reported(d)' /\ (Patching(d)' => InPatch(d)')
  BY <1>3, OthersKept
<1>5. QED BY <1>2, <1>3, <1>4 DEF PatchInv

\* Of another tool nothing is claimed while it works.
LEMMA OtherTool ==
  ASSUME PatchInv, NEW c \in Calls, Tool(c) # "apply_patch",
         NEW fields, DOMAIN fields \subseteq CallFields,
         Set(c, fields), script' = script, Calm(c),
         \A q \in DOMAIN disk : IsFile(disk'[q]),
         "pc" \in DOMAIN fields => fields.pc \in Places[Tool(c)] \ {"new", "done"},
         "pc" \notin DOMAIN fields => call[c].pc \notin {"new", "done"}
  PROVE  PatchInv'
<1>1. FilesShape
  BY DEF PatchInv
<1>2. call'[c].pc # "done" /\ Args(c)' = Args(c)
  BY <1>1, SetIs DEF CallFields
<1>3. Reported(c)' /\ ~Patching(c)'
  BY <1>2 DEF Reported, Patching, Tool
<1>4. QED BY <1>3, Steps

LEMMA Still ==
  ASSUME PatchInv, UNCHANGED <<disk, disturbed>>, NEW c
  PROVE  Calm(c) /\ \A q \in DOMAIN disk : IsFile(disk'[q])
BY UnwrittenIs DEF PatchInv

-------------------------------------------------------------------------------
(* What each step of a call sets.                                              *)

Pages(c) ==
  LET t == disk[Path(c)].text
  IN IF Tool(c) = "read_pdf" THEN ReadPages(Len(t), Args(c).pages, PageCap)
     ELSE ReadDocument(t, ReadCap)
Lines(c) == ReadLines(call[c].raw, Args(c).offset, Args(c).limit, ReadDefault, ReadCap)

LEMMA LoadReadIs ==
  ASSUME NEW c, LoadRead(c)
  PROVE  \/ Set(c, Answer(c, Error)) \/ Set(c, Answer(c, [kind |-> "empty"]))
         \/ /\ disk[Path(c)].there /\ Tool(c) = "read_file"
            /\ Set(c, [pc |-> "dedup", raw |-> disk[Path(c)].text])
         \/ /\ disk[Path(c)].there /\ Tool(c) # "read_file"
            /\ Set(c, [pc |-> "record", raw |-> disk[Path(c)].text, answer |-> Pages(c)])
BY DEF LoadRead, Pages

LEMMA DeduplicateIs ==
  ASSUME NEW c, Deduplicate(c)
  PROVE  \/ /\ CachedRange(c) # {} /\ IsUnchanged(c) /\ notes' = notes
            /\ Set(c, [pc |-> "ended", answer |-> [kind |-> "already"],
                       seen |-> disk[Path(c)].text])
         \/ /\ notes' \in {notes, [notes EXCEPT ![call[c].mine].cache = Invalidated(@, {Path(c)})]}
            /\ \/ Set(c, Answer(c, Error))
               \/ Lines(c).kind # "error" /\ Set(c, [pc |-> "record", answer |-> Lines(c)])
<1> DEFINE ask == ~Args(c).force /\ CachedRange(c) # {} /\ disk[Path(c)].there
           same == ask /\ IsUnchanged(c)
<1>1. notes' = IF ask /\ ~same
               THEN [notes EXCEPT ![call[c].mine].cache = Invalidated(@, {Path(c)})] ELSE notes
  BY DEF Deduplicate
<1>2. Set(c, IF same THEN [pc |-> "ended", answer |-> [kind |-> "already"],
                           seen |-> disk[Path(c)].text]
             ELSE IF Lines(c).kind = "error" THEN Answer(c, Error)
             ELSE [pc |-> "record", answer |-> Lines(c)])
  BY DEF Deduplicate, Lines
<1>3. CASE same
  BY <1>1, <1>2, <1>3
<1>4. CASE ~same
  <2> HIDE DEF ask, same
  <2>1. notes' \in {notes, [notes EXCEPT ![call[c].mine].cache = Invalidated(@, {Path(c)})]}
    BY <1>1
  <2>2. \/ Set(c, Answer(c, Error))
        \/ Lines(c).kind # "error" /\ Set(c, [pc |-> "record", answer |-> Lines(c)])
    BY <1>2, <1>4
  <2>3. QED BY <2>1, <2>2
<1>5. QED BY <1>3, <1>4

LEMMA CheckEditIs ==
  ASSUME NEW c, CheckEdit(c)
  PROVE  LET e == Args(c)  k == call[c].mine
         IN \/ /\ disk[e.path].there
               /\ Set(c, [pc |-> "load", seen |-> disk[e.path].text,
                          warned |-> e.old # <<>> /\ CheckRead(k, e.path).warned])
               /\ notes' = IF e.old # <<>> THEN [notes EXCEPT ![k].read = CheckRead(k, e.path).read]
                           ELSE notes
            \/ Set(c, Answer(c, Error)) /\ notes' = notes
            \/ Set(c, [pc |-> "open", writes |-> <<[path |-> e.path, text |-> e.new]>>])
               /\ notes' = notes
BY DEF CheckEdit

LEMMA LoadEditIs ==
  ASSUME NEW c, LoadEdit(c)
  PROVE  LET e == Args(c)  t == disk[e.path].text
             new == IF e.old # <<>> THEN EditText(t, e)
                    ELSE [ok |-> Solid(t) = {}, text |-> e.new, spans |-> <<>>]
         IN \/ Set(c, Answer(c, Error))
            \/ /\ disk[e.path].there
               /\ Set(c, [pc |-> "open", raw |-> t, spans |-> new.spans,
                          writes |-> <<[path |-> e.path, text |-> new.text]>>])
BY DEF LoadEdit

-------------------------------------------------------------------------------
(* The steps of the tools that read, write or edit one file.                   *)

LEMMA LoadReadKept == ASSUME PatchInv, NEW c \in Calls, LoadRead(c) PROVE PatchInv'
<1>1. Tool(c) \in {"read_file", "read_pdf", "read_office"}
  BY DEF LoadRead, Reads, Tool
<1>2. script' = script /\ Calm(c) /\ \A q \in DOMAIN disk : IsFile(disk'[q])
  BY Still DEF LoadRead, Quiet, Rest
<1>3. ASSUME NEW fields, Set(c, fields), DOMAIN fields \subseteq CallFields,
             "pc" \in DOMAIN fields,
             fields.pc \in {"ended", "record"} \/ (fields.pc = "dedup" /\ Tool(c) = "read_file")
      PROVE  PatchInv'
  <2>1. fields.pc \in Places[Tool(c)] \ {"new", "done"}
    BY <1>1, <1>3 DEF Places
  <2>2. QED BY <1>1, <1>2, <1>3, <2>1, OtherTool
<1>4. QED BY <1>3, LoadReadIs DEF Answer, CallFields

LEMMA DeduplicateKept == ASSUME PatchInv, NEW c \in Calls, Deduplicate(c) PROVE PatchInv'
<1>1. Tool(c) = "read_file"
  BY Script DEF Deduplicate, At, PatchInv, FilesShape, Places, IsCall, FirstStep, Tool
<1>2. script' = script /\ Calm(c) /\ \A q \in DOMAIN disk : IsFile(disk'[q])
  BY Still DEF Deduplicate, Quiet, Rest
<1>3. ASSUME NEW fields, Set(c, fields), DOMAIN fields \subseteq CallFields,
             "pc" \in DOMAIN fields, fields.pc \in {"ended", "record"}
      PROVE  PatchInv'
  <2>1. fields.pc \in Places[Tool(c)] \ {"new", "done"}
    BY <1>1, <1>3 DEF Places
  <2>2. QED BY <1>1, <1>2, <1>3, <2>1, OtherTool
<1>4. QED BY <1>3, DeduplicateIs DEF Answer, CallFields

LEMMA RecordsReadKept == ASSUME PatchInv, NEW c \in Calls, RecordsRead(c) PROVE PatchInv'
<1>1. Tool(c) \in {"read_file", "read_pdf", "read_office"}
  BY DEF RecordsRead, Reads, Tool
<1>2. script' = script /\ Calm(c) /\ \A q \in DOMAIN disk : IsFile(disk'[q])
  BY Still DEF RecordsRead, Quiet, Rest
<1>3. ASSUME NEW fields, Set(c, fields), DOMAIN fields \subseteq CallFields,
             "pc" \in DOMAIN fields, fields.pc = "ended"
      PROVE  PatchInv'
  <2>1. fields.pc \in Places[Tool(c)] \ {"new", "done"}
    BY <1>1, <1>3 DEF Places
  <2>2. QED BY <1>1, <1>2, <1>3, <2>1, OtherTool
<1>4. QED BY <1>3 DEF RecordsRead, CallFields

LEMMA CheckWriteKept == ASSUME PatchInv, NEW c \in Calls, CheckWrite(c) PROVE PatchInv'
<1>1. Tool(c) = "write_file"
  BY DEF CheckWrite
<1>2. script' = script /\ Calm(c) /\ \A q \in DOMAIN disk : IsFile(disk'[q])
  BY Still DEF CheckWrite, Quiet, Rest
<1>3. ASSUME NEW fields, Set(c, fields), DOMAIN fields \subseteq CallFields,
             "pc" \in DOMAIN fields, fields.pc \in {"ended", "open"}
      PROVE  PatchInv'
  <2>1. fields.pc \in Places[Tool(c)] \ {"new", "done"}
    BY <1>1, <1>3 DEF Places
  <2>2. QED BY <1>1, <1>2, <1>3, <2>1, OtherTool
<1>4. QED BY <1>3 DEF CheckWrite, Answer, CallFields

LEMMA EditKept ==
  ASSUME PatchInv, NEW c \in Calls, CheckEdit(c) \/ LoadEdit(c)
  PROVE  PatchInv'
<1>1. Tool(c) = "edit_file"
  BY DEF CheckEdit, LoadEdit
<1>2. script' = script /\ Calm(c) /\ \A q \in DOMAIN disk : IsFile(disk'[q])
  BY Still DEF CheckEdit, LoadEdit, Quiet, Rest
<1>3. ASSUME NEW fields, Set(c, fields), DOMAIN fields \subseteq CallFields,
             "pc" \in DOMAIN fields, fields.pc \in {"ended", "load", "open"}
      PROVE  PatchInv'
  <2>1. fields.pc \in Places[Tool(c)] \ {"new", "done"}
    BY <1>1, <1>3 DEF Places
  <2>2. QED BY <1>1, <1>2, <1>3, <2>1, OtherTool
<1>4. CASE CheckEdit(c)
  BY <1>3, <1>4, CheckEditIs DEF Answer, CallFields
<1>5. CASE LoadEdit(c)
  BY <1>3, <1>5, LoadEditIs DEF Answer, CallFields
<1>6. QED BY <1>4, <1>5

-------------------------------------------------------------------------------
(* The steps of a patch.                                                       *)

LEMMA MadeIs ==
  ASSUME NEW c, NEW p, IsCall(Args(c), DOMAIN disk), Tool(c) = "apply_patch"
  PROVE  /\ Made(c, p, 0) = Base(c, p)
         /\ \A k \in 1 .. Edits(c) :
              Made(c, p, k) = IF Args(c).edits[k].path = p
                              THEN PatchText(Made(c, p, k - 1), Args(c).edits[k]).text
                              ELSE Made(c, p, k - 1)
<1>1. Len(Args(c).edits) \in Nat
  BY DEF IsCall, Tool
<1>2. EditsFrom(EditedTo(Base(c, p), Args(c).edits, p), Base(c, p), Args(c).edits, p, Edits(c))
  BY <1>1, EditsOne DEF Edits
<1>3. QED BY <1>2 DEF EditsFrom, Made

LEMMA BeginKept == ASSUME PatchInv, NEW c \in Calls, Begin(c) PROVE PatchInv'
<1>1. IsCall(Args(c), DOMAIN disk) /\ FilesShape
  BY Script DEF PatchInv
<1>2. script' = script /\ Calm(c) /\ \A q \in DOMAIN disk : IsFile(disk'[q])
  BY Still DEF Begin, Rest
<1>3. call[c] = NewCall
  BY DEF Begin, At, PatchInv, FilesShape
<1>4. ASSUME NEW k, Set(c, [pc |-> FirstStep[Args(c).tool], mine |-> k, before |-> Snapshot(c)])
      PROVE  PatchInv'
  <2> DEFINE fields == [pc |-> FirstStep[Args(c).tool], mine |-> k, before |-> Snapshot(c)]
  <2>1. /\ DOMAIN fields \subseteq CallFields /\ "pc" \in DOMAIN fields
        /\ fields.pc \in Places[Tool(c)] \ {"new", "done"}
    BY <1>1 DEF IsCall, FirstStep, Places, Tool, CallFields
  <2>2. CASE Tool(c) # "apply_patch"
    <3> HIDE DEF fields
    <3> QED BY <1>2, <1>4, <2>1, <2>2, OtherTool DEF fields
  <2>3. CASE Tool(c) = "apply_patch"
    <3>1. /\ Args(c)' = Args(c) /\ Tool(c)' = Tool(c) /\ disk' = disk
          /\ call'[c].pc = "prepare" /\ call'[c].before = Snapshot(c)
          /\ call'[c].writes = <<>> /\ call'[c].backup = <<>> /\ call'[c].at = 1
      BY <1>1, <1>2, <1>3, <1>4, <2>1, <2>3, SetIs
         DEF Begin, FirstStep, Tool, CallFields, NewCall
    <3>2. PatchShape(c)'
      <4>1. IsSeq(<<>>) /\ Len(<<>>) = 0
        BY DEF IsSeq
      <4>2. 1 \in 1 .. Edits(c)
        BY <1>1, <2>3 DEF IsCall, Edits, Tool
      <4>3. QED BY <3>1, <4>1, <4>2 DEF PatchShape, Edits, Writes
    <3>3. ASSUME Patching(c)' PROVE InPatch(c)'
      <4>1. \A p \in Paths(Args(c)) : call'[c].before[p] = disk[p] /\ IsFile(disk[p])
        BY <1>1, <2>3, <3>1, <3>3
           DEF Snapshot, Targets, Reads, IsCall, FilesShape, Patching, Tool
      <4>2. Snapped(c)' /\ Untouched(c)'
        BY <3>1, <4>1 DEF Snapped, Untouched
      <4>3. IsCall(Args(c), DOMAIN disk)'
        BY <1>1, <3>1
      <4>4. \A p : Made(c, p, 0)' = Base(c, p)'
        BY <2>3, <3>1, EditsOne, <1>1 DEF EditsFrom, Made, Base, IsCall, Tool
      <4>5. Prepared(c, 0)'
        BY <3>1, <4>4 DEF Prepared, Preparing
      <4>6. QED BY <3>1, <4>2, <4>5 DEF InPatch
    <3>4. Reported(c)'
      BY <3>1 DEF Reported
    <3> HIDE DEF fields
    <3>5. QED BY <1>2, <1>4, <2>1, <3>2, <3>3, <3>4, Steps DEF fields
  <2>4. QED BY <2>2, <2>3
<1>5. QED BY <1>4 DEF Begin, ForSession

\* The texts to write, with that of one more edit.
NextWrites(c) ==
  LET e == Args(c).edits[call[c].at]
      ws == call[c].writes
      mine == {i \in DOMAIN ws : ws[i].path = e.path}
      new == PatchText(IF mine # {} THEN ws[Min(mine)].text ELSE Lf(disk[e.path].text), e)
      w == [path |-> e.path, text |-> new.text]
  IN IF mine = {} THEN Append(ws, w) ELSE [ws EXCEPT ![Min(mine)] = w]

LEMMA PrepareIs ==
  ASSUME NEW c, Prepare(c)
  PROVE  \/ Set(c, Answer(c, Error))
         \/ /\ call[c].at < Edits(c)
            /\ Set(c, Updated([at |-> call[c].at + 1], [writes |-> NextWrites(c)]))
         \/ Args(c).dry /\ Set(c, Updated(Answer(c, Success), [writes |-> NextWrites(c)]))
         \/ /\ ~(call[c].at < Edits(c)) /\ ~Args(c).dry
            /\ Set(c, Updated([at |-> 1, pc |-> "backup"], [writes |-> NextWrites(c)]))
BY DEF Prepare, NextWrites, Edits

LEMMA MinIs == ASSUME NEW S \in SUBSET Nat, S # {} PROVE Min(S) \in S
BY LeastOf DEF Min

LEMMA NextWritesIs ==
  ASSUME NEW c, PatchShape(c), IsCall(Args(c), DOMAIN disk),
         call[c].pc = "prepare", Tool(c) = "apply_patch"
  PROVE  /\ IsSeq(NextWrites(c)) /\ Len(NextWrites(c)) # 0
         /\ \A i \in 1 .. Len(NextWrites(c)) : NextWrites(c)[i].path \in Paths(Args(c))
         /\ Untouched(c) /\ Prepared(c, call[c].at - 1) =>
              Preparing(c, NextWrites(c), call[c].at)
<1> DEFINE at == call[c].at
           ws == call[c].writes
           edits == Args(c).edits
           e == edits[at]
           p == e.path
           mine == {i \in DOMAIN ws : ws[i].path = p}
           new == PatchText(IF mine # {} THEN ws[Min(mine)].text ELSE Lf(disk[p].text), e)
           w == [path |-> p, text |-> new.text]
           nw == NextWrites(c)
<1>1. IsSeq(ws) /\ Len(ws) \in Nat /\ DOMAIN ws = 1 .. Len(ws)
  BY DEF PatchShape, IsSeq
<1>2. at \in 1 .. Edits(c)
  BY DEF PatchShape
<1>3. nw = IF mine = {} THEN Append(ws, w) ELSE [ws EXCEPT ![Min(mine)] = w]
  BY DEF NextWrites
<1>4. mine # {} => Min(mine) \in 1 .. Len(ws) /\ ws[Min(mine)].path = p
  <2>1. mine \in SUBSET Nat
    BY <1>1
  <2>2. mine # {} => Min(mine) \in mine
    <3> HIDE DEF mine
    <3> QED BY <2>1, MinIs
  <2>3. QED BY <1>1, <2>2
<1>5. w.path = p /\ w.text = new.text
  OBVIOUS
<1> HIDE DEF mine, w, new
<1>6. /\ IsSeq(nw)
      /\ Len(nw) = IF mine = {} THEN Len(ws) + 1 ELSE Len(ws)
      /\ mine = {} => nw[Len(nw)] = w
      /\ \A i \in 1 .. Len(ws) : nw[i] = IF mine # {} /\ i = Min(mine) THEN w ELSE ws[i]
  <2>1. CASE mine = {}
    BY <1>1, <1>3, <2>1, AppendIs
  <2>2. CASE mine # {}
    <3> DEFINE m == Min(mine)
    <3>1. m \in 1 .. Len(ws) /\ nw = [ws EXCEPT ![m] = w]
      BY <1>3, <1>4, <2>2
    <3> HIDE DEF m
    <3>2. /\ IsSeq([ws EXCEPT ![m] = w]) /\ Len([ws EXCEPT ![m] = w]) = Len(ws)
          /\ \A i \in 1 .. Len(ws) : [ws EXCEPT ![m] = w][i] = IF i = m THEN w ELSE ws[i]
      <4> HIDE DEF ws, nw
      <4> QED BY <1>1, <3>1, ChangedAt, Zenon
    <3>3. QED BY <2>2, <3>1, <3>2 DEF m
  <2>3. QED BY <2>1, <2>2
<1>7. Len(nw) # 0
  BY <1>1, <1>4, <1>6
<1>8. ASSUME \A i \in 1 .. Len(ws) : ws[i].path \in Paths(Args(c)), p \in Paths(Args(c))
      PROVE  \A i \in 1 .. Len(nw) : nw[i].path \in Paths(Args(c))
  BY <1>1, <1>5, <1>6, <1>8
<1>9. \A i \in 1 .. Len(ws) : ws[i].path \in Paths(Args(c))
  BY DEF PatchShape, Writes
<1>10. p \in Paths(Args(c))
  BY <1>2 DEF IsCall, Paths, Edits, Tool
<1>11. ASSUME Untouched(c), Prepared(c, at - 1)
       PROVE  Preparing(c, nw, at)
  <2>1. /\ \A i, j \in 1 .. Len(ws) : ws[i].path = ws[j].path => i = j
        /\ \A j \in 1 .. at - 1 : \E i \in 1 .. Len(ws) : ws[i].path = edits[j].path
        /\ \A i \in 1 .. Len(ws) : ws[i].text = Made(c, ws[i].path, at - 1)
        /\ \A q \in Paths(Args(c)) :
             (\A i \in 1 .. Len(ws) : ws[i].path # q) => Made(c, q, at - 1) = Base(c, q)
    BY <1>11 DEF Prepared, Preparing
  <2>2. \A q : Made(c, q, at) = IF p = q THEN PatchText(Made(c, q, at - 1), e).text
                                ELSE Made(c, q, at - 1)
    BY <1>2, <1>11, MadeIs
  <2>3. w.text = Made(c, p, at)
    <3>1. CASE mine # {}
      BY <1>4, <1>5, <2>1, <2>2, <3>1 DEF new
    <3>2. CASE mine = {}
      <4>1. \A i \in 1 .. Len(ws) : ws[i].path # p
        BY <1>1, <3>2 DEF mine
      <4>2. Made(c, p, at - 1) = Base(c, p) /\ Lf(disk[p].text) = Base(c, p)
        BY <1>10, <1>11, <2>1, <4>1 DEF Untouched, Base
      <4>3. QED BY <1>5, <2>2, <3>2, <4>2 DEF new
    <3>3. QED BY <3>1, <3>2
  <2>4. \A i \in 1 .. Len(nw) : nw[i].path = p <=> nw[i] = w
    <3>1. ASSUME NEW i \in 1 .. Len(ws), ws[i].path = p PROVE mine # {} /\ i = Min(mine)
      <4>1. mine # {}
        BY <1>1, <3>1 DEF mine
      <4>2. QED BY <1>4, <2>1, <3>1, <4>1
    <3>2. QED BY <1>1, <1>5, <1>6, <3>1
  <2>5. \A i \in 1 .. Len(nw) : i \in 1 .. Len(ws) \/ (mine = {} /\ i = Len(nw))
    BY <1>1, <1>6
  <2>6. \A i \in 1 .. Len(ws) : nw[i].path = ws[i].path
    BY <1>4, <1>5, <1>6
  <2>7. mine = {} => \A i \in 1 .. Len(ws) : ws[i].path # p
    BY <1>1 DEF mine
  <2>8. \A i, j \in 1 .. Len(nw) : nw[i].path = nw[j].path => i = j
    BY <1>1, <1>5, <1>6, <2>1, <2>5, <2>6, <2>7
  <2>9. \A j \in 1 .. at : \E i \in 1 .. Len(nw) : nw[i].path = edits[j].path
    <3>1. \E i \in 1 .. Len(nw) : nw[i].path = p
      BY <1>1, <1>4, <1>5, <1>6, <1>7
    <3>2. ASSUME NEW j \in 1 .. at - 1 PROVE \E i \in 1 .. Len(nw) : nw[i].path = edits[j].path
      BY <1>1, <1>6, <2>1, <2>6
    <3>3. QED BY <1>2, <3>1, <3>2
  <2>10. \A i \in 1 .. Len(nw) : nw[i].text = Made(c, nw[i].path, at)
    BY <1>5, <1>6, <2>1, <2>2, <2>3, <2>4, <2>5, <2>6
  <2>11. \A q \in Paths(Args(c)) :
           (\A i \in 1 .. Len(nw) : nw[i].path # q) => Made(c, q, at) = Base(c, q)
    <3> TAKE q \in Paths(Args(c))
    <3> HAVE \A i \in 1 .. Len(nw) : nw[i].path # q
    <3>1. q # p
      BY <1>2, <2>9
    <3>2. \A i \in 1 .. Len(ws) : ws[i].path # q
      BY <1>1, <1>6, <2>6
    <3>3. QED BY <2>1, <2>2, <3>1, <3>2
  <2>12. QED BY <2>8, <2>9, <2>10, <2>11 DEF Preparing
<1>12. QED BY <1>6, <1>7, <1>8, <1>9, <1>10, <1>11

\* What depends on the files as they were, and on the arguments, stays.
LEMMA Framed ==
  ASSUME NEW c, script' = script, call'[c].before = call[c].before
  PROVE  /\ Args(c)' = Args(c) /\ Tool(c)' = Tool(c) /\ Edits(c)' = Edits(c)
         /\ Snapped(c) => Snapped(c)'
         /\ \A ws, k : Preparing(c, ws, k) => Preparing(c, ws, k)'
         /\ \A p, k : Made(c, p, k)' = Made(c, p, k)
<1>1. Args(c)' = Args(c) /\ Tool(c)' = Tool(c) /\ Edits(c)' = Edits(c)
  BY DEF Args, Tool, Edits
<1>2. \A p, k : Made(c, p, k)' = Made(c, p, k) /\ Base(c, p)' = Base(c, p)
  BY <1>1 DEF Made, Base
<1>3. Snapped(c) => Snapped(c)'
  BY <1>1 DEF Snapped
<1>4. \A ws, k : Preparing(c, ws, k) => Preparing(c, ws, k)'
  BY <1>1, <1>2 DEF Preparing
<1>5. QED BY <1>1, <1>2, <1>3, <1>4

LEMMA InPatchFacts ==
  ASSUME PatchInv, NEW c \in Calls
  PROVE  /\ FilesShape /\ IsCall(Args(c), DOMAIN disk) /\ DOMAIN call[c] = CallFields
         /\ call[c].pc \in Places[Tool(c)]
         /\ Tool(c) = "apply_patch" => PatchShape(c)
         /\ Patching(c) => InPatch(c)
         /\ Tool(c) \in DOMAIN FirstStep
BY Script DEF PatchInv, FilesShape, Tool, IsCall

LEMMA PrepareKept == ASSUME PatchInv, NEW c \in Calls, Prepare(c) PROVE PatchInv'
<1>1. /\ FilesShape /\ IsCall(Args(c), DOMAIN disk) /\ call[c].pc = "prepare"
      /\ Tool(c) = "apply_patch" /\ PatchShape(c)
      /\ Patching(c) => InPatch(c)
  <2>1. call[c].pc = "prepare" /\ call[c].pc \in Places[Tool(c)] /\ Tool(c) \in DOMAIN FirstStep
    BY InPatchFacts DEF Prepare, At
  <2>2. Tool(c) = "apply_patch"
    BY <2>1 DEF Places, FirstStep
  <2>3. QED BY <2>1, <2>2, InPatchFacts
<1>2. /\ script' = script /\ disk' = disk /\ disturbed' = disturbed
      /\ Calm(c) /\ \A q \in DOMAIN disk : IsFile(disk'[q])
  BY Still DEF Prepare, Quiet, Rest
<1>3. /\ IsSeq(NextWrites(c)) /\ Len(NextWrites(c)) # 0
      /\ \A i \in 1 .. Len(NextWrites(c)) : NextWrites(c)[i].path \in Paths(Args(c))
      /\ Untouched(c) /\ Prepared(c, call[c].at - 1) =>
           Preparing(c, NextWrites(c), call[c].at)
  BY <1>1, NextWritesIs
<1>4. ASSUME Patching(c)
      PROVE  /\ Snapped(c) /\ Prepared(c, call[c].at - 1) /\ Untouched(c)
             /\ Preparing(c, NextWrites(c), call[c].at)
  BY <1>1, <1>3, <1>4 DEF InPatch
<1>5. call[c].at \in 1 .. Edits(c) /\ Edits(c) \in Nat /\ call[c].backup = <<>>
  BY <1>1 DEF PatchShape, Edits, IsCall, Tool
<1>6. \A pc \in {"prepare", "backup", "ended"} : pc \in Places["apply_patch"] \ {"new", "done"}
  BY DEF Places
<1>7. CASE Set(c, Answer(c, Error))
  <2>1. /\ call'[c].pc = "ended" /\ call'[c].answer = Error
        /\ call'[c].before = call[c].before /\ call'[c].writes = call[c].writes
        /\ call'[c].backup = call[c].backup
    BY <1>1, <1>2, <1>7, SetIs DEF Answer, CallFields
  <2>2. PatchShape(c)' /\ Reported(c)'
    BY <1>1, <1>2, <2>1, Framed DEF PatchShape, Reported, Writes
  <2>3. ASSUME Patching(c)' PROVE InPatch(c)'
    <3>1. Patching(c)
      BY <1>2, <2>1, <2>3, Framed DEF Patching
    <3>2. Snapped(c)' /\ \A p \in Paths(Args(c))' : Same(disk'[p], call'[c].before[p])
      BY <1>2, <1>4, <2>1, <3>1, Framed DEF Untouched, Same
    <3>3. QED BY <2>1, <3>2 DEF InPatch, Error
  <2>4. QED BY <1>1, <1>2, <1>6, <1>7, <2>2, <2>3, Steps DEF Answer, CallFields
<1>8. ASSUME NEW fields, Set(c, fields), DOMAIN fields \subseteq CallFields,
             {"at", "writes"} \subseteq DOMAIN fields, "before" \notin DOMAIN fields,
             "backup" \notin DOMAIN fields, fields.writes = NextWrites(c),
             \/ /\ "pc" \notin DOMAIN fields /\ fields.at = call[c].at + 1
                /\ call[c].at < Edits(c)
             \/ /\ "pc" \in DOMAIN fields /\ fields.pc = "backup" /\ fields.at = 1
                /\ ~(call[c].at < Edits(c))
      PROVE  PatchInv'
  <2>1. /\ call'[c].before = call[c].before /\ call'[c].writes = NextWrites(c)
        /\ call'[c].backup = <<>> /\ call'[c].at = fields.at
        /\ "pc" \in DOMAIN fields => call'[c].pc = fields.pc
        /\ "pc" \notin DOMAIN fields => call'[c].pc = "prepare"
    BY <1>1, <1>2, <1>5, <1>8, SetIs DEF CallFields
  <2>2. Len(NextWrites(c)) \in Nat
    BY <1>3 DEF IsSeq
  <2>3. PatchShape(c)' /\ Reported(c)'
    <3>1. IsSeq(<<>>) /\ Len(<<>>) = 0
      BY DEF IsSeq
    <3>2. CASE "pc" \notin DOMAIN fields
      BY <1>1, <1>2, <1>3, <1>5, <1>8, <2>1, <2>2, <3>1, <3>2, Framed
         DEF PatchShape, Reported, Writes
    <3>3. CASE "pc" \in DOMAIN fields
      BY <1>1, <1>2, <1>3, <1>5, <1>8, <2>1, <2>2, <3>1, <3>3, Framed
         DEF PatchShape, Reported, Writes
    <3>4. QED BY <3>2, <3>3
  <2>4. ASSUME Patching(c)' PROVE InPatch(c)'
    <3>1. Patching(c)
      BY <1>2, <2>1, <2>4, Framed DEF Patching
    <3>2. PICK ws, k : ws = NextWrites(c) /\ k = call[c].at
      OBVIOUS
    <3>3. Snapped(c)' /\ Preparing(c, ws, k)'
      BY <1>2, <1>4, <2>1, <3>1, <3>2, Framed
    <3>4. Untouched(c)'
      BY <1>2, <1>4, <2>1, <3>1, Framed DEF Untouched
    <3>5. Prepared(c, k)'
      BY <2>1, <3>2, <3>3 DEF Prepared
    <3>6. CASE "pc" \notin DOMAIN fields
      <4>1. call'[c].at - 1 = k
        BY <1>5, <1>8, <2>1, <3>2, <3>6
      <4>2. QED BY <2>1, <3>3, <3>4, <3>5, <3>6, <4>1 DEF InPatch
    <3>7. CASE "pc" \in DOMAIN fields
      <4>1. k = Edits(c) /\ Edits(c)' = Edits(c) /\ call'[c].at - 1 = 0
        BY <1>2, <1>5, <1>8, <2>1, <3>2, <3>7, Framed
      <4>2. Backed(c, 0)'
        BY DEF Backed
      <4>3. QED BY <1>8, <2>1, <3>3, <3>4, <3>5, <3>7, <4>1, <4>2 DEF InPatch
    <3>8. QED BY <3>6, <3>7
  <2>5. QED BY <1>1, <1>2, <1>6, <1>8, <2>3, <2>4, Steps
<1>9. CASE Args(c).dry /\ Set(c, Updated(Answer(c, Success), [writes |-> NextWrites(c)]))
  <2> DEFINE fields == Updated(Answer(c, Success), [writes |-> NextWrites(c)])
  <2>1. /\ DOMAIN fields = {"pc", "answer", "writes"} /\ fields.pc = "ended"
        /\ fields.writes = NextWrites(c)
    BY DEF Updated, Answer
  <2> HIDE DEF fields
  <2>2. /\ call'[c].pc = "ended" /\ call'[c].writes = NextWrites(c)
        /\ call'[c].before = call[c].before /\ call'[c].backup = <<>>
    BY <1>1, <1>2, <1>5, <1>9, <2>1, SetIs DEF CallFields, fields
  <2>3. PatchShape(c)' /\ Reported(c)' /\ ~Patching(c)'
    BY <1>1, <1>2, <1>3, <1>9, <2>2, Framed DEF PatchShape, Reported, Writes, Patching, IsSeq
  <2>4. QED BY <1>1, <1>2, <1>6, <1>9, <2>1, <2>3, Steps DEF CallFields, fields
<1>10. CASE /\ call[c].at < Edits(c)
            /\ Set(c, Updated([at |-> call[c].at + 1], [writes |-> NextWrites(c)]))
  <2> DEFINE fields == Updated([at |-> call[c].at + 1], [writes |-> NextWrites(c)])
  <2>1. /\ DOMAIN fields = {"at", "writes"} /\ fields.at = call[c].at + 1
        /\ fields.writes = NextWrites(c)
    BY DEF Updated
  <2> HIDE DEF fields
  <2>2. Set(c, fields)
    BY <1>10 DEF fields
  <2>3. QED BY <1>8, <1>10, <2>1, <2>2 DEF CallFields
<1>11. CASE /\ ~(call[c].at < Edits(c))
            /\ Set(c, Updated([at |-> 1, pc |-> "backup"], [writes |-> NextWrites(c)]))
  <2> DEFINE fields == Updated([at |-> 1, pc |-> "backup"], [writes |-> NextWrites(c)])
  <2>1. /\ DOMAIN fields = {"at", "pc", "writes"} /\ fields.at = 1 /\ fields.pc = "backup"
        /\ fields.writes = NextWrites(c)
    BY DEF Updated
  <2> HIDE DEF fields
  <2>2. Set(c, fields)
    BY <1>11 DEF fields
  <2>3. QED BY <1>8, <1>11, <2>1, <2>2 DEF CallFields
<1>12. QED BY <1>7, <1>9, <1>10, <1>11, PrepareIs

\* A call that is at pc is one of apply_patch, or of a tool that writes one file.
LEMMA Writers ==
  ASSUME PatchInv, NEW c \in Calls, call[c].pc \in {"open", "fill", "record", "ended"}
  PROVE  /\ Tool(c) # "apply_patch" => "ended" \in Places[Tool(c)]
         /\ call[c].pc \in {"open", "fill"} => {"open", "fill", "record"} \subseteq Places[Tool(c)]
<1>1. call[c].pc \in Places[Tool(c)] /\ Tool(c) \in DOMAIN FirstStep
  BY InPatchFacts
<1>2. QED BY <1>1 DEF Places, FirstStep

\* The file a patch is at.
LEMMA PendingIs ==
  ASSUME PatchInv, NEW c \in Calls, Tool(c) = "apply_patch",
         call[c].pc \in {"backup", "open", "fill", "restore"}
  PROVE  /\ call[c].at \in 1 .. Writes(c) /\ Writes(c) \in Nat
         /\ Pending(c) = call[c].writes[call[c].at]
         /\ Pending(c).path \in Paths(Args(c)) /\ Pending(c).path \in DOMAIN disk
         /\ IsFile(disk[Pending(c).path])
         /\ \A i \in 1 .. Writes(c) : call[c].writes[i].path \in Paths(Args(c)) \cap DOMAIN disk
         /\ IsSeq(call[c].writes) /\ IsSeq(call[c].backup)
         /\ \A i \in 1 .. Len(call[c].backup) : IsFile(call[c].backup[i])
         /\ Len(call[c].backup) = IF call[c].pc = "backup" THEN call[c].at - 1 ELSE Writes(c)
<1>1. PatchShape(c) /\ IsCall(Args(c), DOMAIN disk) /\ \A p \in DOMAIN disk : IsFile(disk[p])
  BY InPatchFacts DEF FilesShape
<1>2. /\ call[c].at \in 1 .. Writes(c) /\ Writes(c) \in Nat
      /\ IsSeq(call[c].writes) /\ IsSeq(call[c].backup)
      /\ \A i \in 1 .. Writes(c) : call[c].writes[i].path \in Paths(Args(c))
      /\ \A i \in 1 .. Len(call[c].backup) : IsFile(call[c].backup[i])
      /\ Len(call[c].backup) = IF call[c].pc = "backup" THEN call[c].at - 1 ELSE Writes(c)
  BY <1>1 DEF PatchShape, IsSeq, Writes
<1>3. QED BY <1>1, <1>2 DEF IsCall, Pending

LEMMA BackupKept == ASSUME PatchInv, NEW c \in Calls, Backup(c) PROVE PatchInv'
<1> DEFINE file == disk[Pending(c).path]
           fields == Updated(NextFile(c, "open"), [backup |-> Append(call[c].backup, file)])
<1>1. /\ FilesShape /\ call[c].pc = "backup" /\ Tool(c) = "apply_patch" /\ PatchShape(c)
      /\ Patching(c) => InPatch(c)
  <2>1. call[c].pc = "backup" /\ call[c].pc \in Places[Tool(c)] /\ Tool(c) \in DOMAIN FirstStep
    BY InPatchFacts DEF Backup, At
  <2>2. Tool(c) = "apply_patch"
    BY <2>1 DEF Places, FirstStep
  <2>3. QED BY <2>1, <2>2, InPatchFacts
<1>2. /\ script' = script /\ disk' = disk /\ disturbed' = disturbed /\ Set(c, fields)
      /\ Calm(c) /\ \A q \in DOMAIN disk : IsFile(disk'[q])
  BY Still DEF Backup, Quiet, Rest
<1>3. /\ IsSeq(Append(call[c].backup, file)) /\ Len(Append(call[c].backup, file)) = call[c].at
      /\ \A i \in 1 .. call[c].at - 1 : Append(call[c].backup, file)[i] = call[c].backup[i]
      /\ Append(call[c].backup, file)[call[c].at] = file
      /\ \A i \in 1 .. call[c].at : IsFile(Append(call[c].backup, file)[i])
  <2>1. IsSeq(call[c].backup) /\ Len(call[c].backup) = call[c].at - 1 /\ call[c].at \in Nat
    BY <1>1, PendingIs
  <2>2. /\ IsSeq(Append(call[c].backup, file)) /\ Len(Append(call[c].backup, file)) = call[c].at
        /\ \A i \in 1 .. call[c].at - 1 : Append(call[c].backup, file)[i] = call[c].backup[i]
        /\ Append(call[c].backup, file)[call[c].at] = file
    BY <2>1, AppendIs
  <2>3. IsFile(file) /\ \A i \in 1 .. call[c].at - 1 : IsFile(call[c].backup[i])
    BY <1>1, <2>1, PendingIs
  <2> HIDE DEF file
  <2>4. QED BY <2>1, <2>2, <2>3
<1>4. /\ fields.backup = Append(call[c].backup, file)
      /\ DOMAIN fields = IF call[c].at < Writes(c) THEN {"at", "backup"} ELSE {"at", "pc", "backup"}
      /\ fields.at = IF call[c].at < Writes(c) THEN call[c].at + 1 ELSE 1
      /\ call[c].at >= Writes(c) => fields.pc = "open"
  <2>1. call[c].at \in Nat /\ Writes(c) \in Nat
    BY <1>1, PendingIs
  <2>2. QED BY <2>1 DEF Updated, NextFile, Writes
<1> HIDE DEF fields, file
<1>5. /\ call'[c].before = call[c].before /\ call'[c].writes = call[c].writes
      /\ call'[c].at = fields.at
      /\ call'[c].backup = Append(call[c].backup, file)
      /\ call'[c].pc = IF call[c].at < Writes(c) THEN "backup" ELSE "open"
  <2>1. /\ \A k \in DOMAIN fields : call'[c][k] = fields[k]
        /\ \A k \in CallFields \ DOMAIN fields : call'[c][k] = call[c][k]
    BY <1>1, <1>2, <1>4, SetIs DEF CallFields
  <2>2. call[c].at \in Nat /\ Writes(c) \in Nat
    BY <1>1, PendingIs
  <2>3. QED BY <1>1, <1>4, <2>1, <2>2 DEF CallFields
<1>6. /\ call[c].at \in 1 .. Writes(c) /\ Writes(c) \in Nat /\ Writes(c)' = Writes(c)
      /\ fields.at \in 1 .. Writes(c)
  <2>1. call[c].at \in 1 .. Writes(c) /\ Writes(c) \in Nat /\ Writes(c)' = Writes(c)
    BY <1>1, <1>5, PendingIs DEF Writes
  <2>2. QED BY <1>4, <2>1
<1>7. PatchShape(c)' /\ Reported(c)'
  <2>1. call[c].at < Writes(c) => fields.at = call[c].at + 1 /\ Len(call'[c].backup) = fields.at - 1
    BY <1>3, <1>4, <1>5, <1>6
  <2>2. ~(call[c].at < Writes(c)) => Len(call'[c].backup) = Writes(c)
    BY <1>3, <1>5, <1>6
  <2>3. /\ IsSeq(call'[c].writes) /\ IsSeq(call'[c].backup)
        /\ \A i \in 1 .. Writes(c)' : call'[c].writes[i].path \in Paths(Args(c))'
        /\ \A i \in 1 .. Len(call'[c].backup) : IsFile(call'[c].backup[i])
    BY <1>1, <1>2, <1>3, <1>5, <1>6, Framed DEF PatchShape
  <2>4. QED BY <1>5, <1>6, <2>1, <2>2, <2>3 DEF PatchShape, Reported
<1>8. ASSUME Patching(c)' PROVE InPatch(c)'
  <2>1. Patching(c) /\ Snapped(c) /\ Prepared(c, Edits(c)) /\ Untouched(c) /\ Backed(c, call[c].at - 1)
    <3>1. Patching(c)
      BY <1>2, <1>5, <1>8, Framed DEF Patching
    <3>2. QED BY <1>1, <3>1 DEF InPatch
  <2>2. Snapped(c)' /\ Prepared(c, Edits(c))' /\ Untouched(c)'
    <3>1. PICK ws, k : ws = call[c].writes /\ k = Edits(c)
      OBVIOUS
    <3>2. Snapped(c)' /\ Preparing(c, ws, k)' /\ Edits(c)' = k
      BY <1>2, <1>5, <2>1, <3>1, Framed DEF Prepared
    <3>3. Untouched(c)'
      BY <1>2, <1>5, <2>1, Framed DEF Untouched
    <3>4. QED BY <1>5, <3>1, <3>2, <3>3 DEF Prepared
  <2>3. PICK at : at = call[c].at /\ at \in 1 .. Writes(c) /\ at \in Nat
    BY <1>6
  <2>4. Backed(c, at)'
    <3>1. file = call[c].before[call[c].writes[at].path]
      BY <1>1, <2>1, <2>3, PendingIs DEF Untouched, file
    <3>2. \A i \in 1 .. at - 1 : call[c].backup[i] = call[c].before[call[c].writes[i].path]
      BY <2>1, <2>3 DEF Backed
    <3>3. \A i \in 1 .. at : Append(call[c].backup, file)[i] = call[c].before[call[c].writes[i].path]
      <4> TAKE i \in 1 .. at
      <4>1. CASE i = at
        BY <1>3, <2>3, <3>1, <4>1
      <4>2. CASE i # at
        <5>1. i \in 1 .. at - 1
          BY <2>3, <4>2
        <5>2. QED BY <1>3, <2>3, <3>2, <5>1
      <4>3. QED BY <4>1, <4>2
    <3>4. QED BY <1>5, <3>3 DEF Backed
  <2>5. CASE at < Writes(c)
    <3>1. call'[c].at - 1 = at /\ call'[c].pc = "backup"
      BY <1>4, <1>5, <2>3, <2>5
    <3>2. QED BY <2>2, <2>4, <3>1 DEF InPatch
  <2>6. CASE ~(at < Writes(c))
    <3>1. Writes(c)' = at /\ call'[c].at - 1 = 0 /\ call'[c].pc = "open"
      BY <1>4, <1>5, <1>6, <2>3, <2>6
    <3>2. Filled(c, 0)'
      BY DEF Filled
    <3>3. QED BY <2>2, <2>4, <3>1, <3>2 DEF InPatch
  <2>7. QED BY <2>5, <2>6
<1>9. "pc" \in DOMAIN fields => fields.pc \in Places[Tool(c)] \ {"new"}
  BY <1>1, <1>4, <1>6 DEF Places
<1>10. QED BY <1>1, <1>2, <1>4, <1>7, <1>8, <1>9, Steps DEF CallFields

\* The files of a patch are apart: writing one leaves the others it wrote.
LEMMA Apart1 ==
  ASSUME NEW c, NEW ws, NEW k, Preparing(c, ws, k), NEW at \in 1 .. Len(ws), Len(ws) \in Nat
  PROVE  \A i \in 1 .. at - 1 : ws[i].path # ws[at].path
BY DEF Preparing

LEMMA TextIs == \A t : IsFile(Text(t)) /\ Text(t).there /\ Text(t).text = t
BY DEF IsFile, Text

LEMMA OpenKept == ASSUME PatchInv, NEW c \in Calls, Open(c) PROVE PatchInv'
<1>1. /\ FilesShape /\ call[c].pc = "open" /\ script' = script
      /\ Set(c, [pc |-> "fill"]) /\ Written(Pending(c).path, c, Text(<<>>))
  BY InPatchFacts DEF Open, At, Go, Rest
<1>2. /\ Calm(c) /\ \A q \in DOMAIN disk \ {Pending(c).path} : disk'[q] = disk[q]
      /\ \A q \in DOMAIN disk : IsFile(disk'[q])
  BY <1>1, TextIs, WrittenIs
<1>3. "fill" \in Places[Tool(c)] \ {"new", "done"}
  BY <1>1, InPatchFacts DEF Places, FirstStep
<1>4. CASE Tool(c) # "apply_patch"
  BY <1>1, <1>2, <1>3, <1>4, OtherTool DEF CallFields
<1>5. CASE Tool(c) = "apply_patch"
  <2>1. /\ call'[c].pc = "fill" /\ call'[c].before = call[c].before
        /\ call'[c].writes = call[c].writes /\ call'[c].at = call[c].at
        /\ call'[c].backup = call[c].backup
    BY <1>1, SetIs DEF CallFields
  <2>2. PatchShape(c) /\ (Patching(c) => InPatch(c))
    BY <1>5, InPatchFacts
  <2>3. PatchShape(c)' /\ Reported(c)'
    BY <1>1, <2>1, <2>2, Framed DEF PatchShape, Reported, Writes
  <2>4. ASSUME Patching(c)' PROVE InPatch(c)'
    <3>1. Patching(c)
      BY <1>1, <1>2, <2>1, <2>4, Framed DEF Patching, Calm
    <3>2. /\ Snapped(c) /\ Prepared(c, Edits(c)) /\ Backed(c, Writes(c))
          /\ Filled(c, call[c].at - 1)
      BY <1>1, <2>2, <3>1 DEF InPatch
    <3>3. PICK ws, at, n : /\ ws = call[c].writes /\ at = call[c].at /\ n = Edits(c)
                           /\ at \in 1 .. Len(ws) /\ Len(ws) \in Nat
                           /\ \A i \in 1 .. Len(ws) : ws[i].path \in DOMAIN disk
                           /\ Pending(c).path = ws[at].path
      BY <1>1, <1>5, PendingIs DEF Writes
    <3>4. Snapped(c)' /\ Preparing(c, ws, n)' /\ Edits(c)' = n /\ Writes(c)' = Len(ws)
      BY <1>1, <2>1, <3>2, <3>3, Framed DEF Prepared, Writes
    <3>5. Backed(c, Len(ws))'
      BY <2>1, <3>2, <3>3 DEF Backed, Writes
    <3>6. Filled(c, at - 1)'
      <4>1. \A i \in 1 .. at - 1 : ws[i].path # ws[at].path
        BY <3>2, <3>3, Apart1 DEF Prepared
      <4>2. \A i \in 1 .. at - 1 : i \in 1 .. Len(ws) /\ disk'[ws[i].path] = disk[ws[i].path]
        BY <1>2, <3>3, <4>1
      <4>3. QED BY <2>1, <3>2, <3>3, <4>2 DEF Filled
    <3>7. QED BY <2>1, <3>3, <3>4, <3>5, <3>6 DEF InPatch, Prepared
  <2>5. QED BY <1>1, <1>2, <1>3, <2>3, <2>4, Steps DEF CallFields
<1>6. QED BY <1>4, <1>5

LEMMA FillKept == ASSUME PatchInv, NEW c \in Calls, Fill(c) PROVE PatchInv'
<1> DEFINE fields == Updated([pc |-> "open"], NextFile(c, "record"))
<1>1. /\ FilesShape /\ call[c].pc = "fill" /\ script' = script
      /\ Set(c, fields) /\ Written(Pending(c).path, c, Text(Pending(c).text))
  BY InPatchFacts DEF Fill, At, Rest
<1>2. /\ Calm(c) /\ \A q \in DOMAIN disk \ {Pending(c).path} : disk'[q] = disk[q]
      /\ \A q \in DOMAIN disk : IsFile(disk'[q])
      /\ Pending(c).path \in DOMAIN disk => Same(disk'[Pending(c).path], Text(Pending(c).text))
  BY <1>1, TextIs, WrittenIs
<1>3. {"open", "record"} \subseteq Places[Tool(c)] \ {"new", "done"}
  BY <1>1, InPatchFacts DEF Places, FirstStep
<1>4. /\ DOMAIN fields = {"pc", "at"}
      /\ fields.pc = IF call[c].at < Writes(c) THEN "open" ELSE "record"
      /\ fields.at = IF call[c].at < Writes(c) THEN call[c].at + 1 ELSE 1
  BY DEF Updated, NextFile, Writes
<1> HIDE DEF fields
<1>5. CASE Tool(c) # "apply_patch"
  BY <1>1, <1>2, <1>3, <1>4, <1>5, OtherTool DEF CallFields
<1>6. CASE Tool(c) = "apply_patch"
  <2>1. /\ call'[c].pc = fields.pc /\ call'[c].before = call[c].before
        /\ call'[c].writes = call[c].writes /\ call'[c].at = fields.at
        /\ call'[c].backup = call[c].backup
    BY <1>1, <1>4, SetIs DEF CallFields
  <2>2. PatchShape(c) /\ (Patching(c) => InPatch(c))
    BY <1>6, InPatchFacts
  <2>3. PICK ws, at, n : /\ ws = call[c].writes /\ at = call[c].at /\ n = Edits(c)
                         /\ at \in 1 .. Len(ws) /\ Len(ws) \in Nat
                         /\ \A i \in 1 .. Len(ws) : ws[i].path \in DOMAIN disk
                         /\ Pending(c) = ws[at] /\ Len(call[c].backup) = Len(ws)
    BY <1>1, <1>6, PendingIs DEF Writes
  <2>4. fields.at \in 1 .. Len(ws) /\ Writes(c) = Len(ws) /\ Writes(c)' = Len(ws)
    BY <1>4, <2>1, <2>3 DEF Writes
  <2>5. PatchShape(c)' /\ Reported(c)'
    BY <1>1, <1>4, <2>1, <2>2, <2>3, <2>4, Framed DEF PatchShape, Reported, Writes
  <2>6. ASSUME Patching(c)' PROVE InPatch(c)'
    <3>1. Patching(c)
      BY <1>1, <1>2, <2>1, <2>6, Framed DEF Patching, Calm
    <3>2. /\ Snapped(c) /\ Prepared(c, Edits(c)) /\ Backed(c, Writes(c))
          /\ Filled(c, call[c].at - 1)
      BY <1>1, <2>2, <3>1 DEF InPatch
    <3>3. Snapped(c)' /\ Preparing(c, ws, n)' /\ Edits(c)' = n
      BY <1>1, <2>1, <2>3, <3>2, Framed DEF Prepared
    <3>4. Backed(c, Len(ws))'
      BY <2>1, <2>3, <2>4, <3>2 DEF Backed
    <3>5. Filled(c, at)'
      <4>1. \A i \in 1 .. at - 1 : ws[i].path # ws[at].path
        BY <2>3, <3>2, Apart1 DEF Prepared
      <4>2. \A i \in 1 .. at - 1 : i \in 1 .. Len(ws) /\ disk'[ws[i].path] = disk[ws[i].path]
        BY <1>2, <2>3, <4>1
      <4>3. Same(disk'[ws[at].path], Text(ws[at].text))
        BY <1>2, <2>3
      <4>4. \A i \in 1 .. at - 1 : Same(disk'[ws[i].path], Text(ws[i].text))
        BY <2>3, <3>2, <4>2 DEF Filled
      <4>5. \A i \in 1 .. at : Same(disk'[ws[i].path], Text(ws[i].text))
        BY <2>3, <4>3, <4>4
      <4>6. QED BY <2>1, <2>3, <4>5 DEF Filled
    <3>6. CASE at < Len(ws)
      <4>1. call'[c].pc = "open" /\ call'[c].at - 1 = at
        BY <1>4, <2>1, <2>3, <2>4, <3>6
      <4>2. QED BY <2>1, <2>3, <2>4, <3>3, <3>4, <3>5, <4>1 DEF InPatch, Prepared
    <3>7. CASE ~(at < Len(ws))
      <4>1. call'[c].pc = "record" /\ Len(ws) = at
        BY <1>4, <2>1, <2>3, <2>4, <3>7
      <4>2. QED BY <2>1, <2>3, <2>4, <3>3, <3>4, <3>5, <4>1 DEF InPatch, Prepared
    <3>8. QED BY <3>6, <3>7
  <2>7. QED BY <1>1, <1>2, <1>3, <1>4, <2>5, <2>6, Steps DEF CallFields
<1>7. QED BY <1>5, <1>6

LEMMA WriteFailsKept == ASSUME PatchInv, NEW c \in Calls, WriteFails(c) PROVE PatchInv'
<1>1. /\ FilesShape /\ call[c].pc \in {"open", "fill"} /\ script' = script
      /\ disk' = disk /\ disturbed' = disturbed
      /\ Set(c, IF Tool(c) = "apply_patch" THEN [at |-> 1, pc |-> "restore"] ELSE Answer(c, Error))
  BY InPatchFacts DEF WriteFails
<1>2. Calm(c) /\ \A q \in DOMAIN disk : IsFile(disk'[q])
  BY <1>1, Still
<1>3. CASE Tool(c) # "apply_patch"
  <2>1. Set(c, Answer(c, Error)) /\ "ended" \in Places[Tool(c)]
    BY <1>1, <1>3, Writers
  <2>2. QED BY <1>1, <1>2, <1>3, <2>1, OtherTool DEF CallFields, Answer
<1>4. CASE Tool(c) = "apply_patch"
  <2>1. Set(c, [at |-> 1, pc |-> "restore"])
    BY <1>1, <1>4
  <2>2. /\ call'[c].pc = "restore" /\ call'[c].before = call[c].before
        /\ call'[c].writes = call[c].writes /\ call'[c].at = 1
        /\ call'[c].backup = call[c].backup
    BY <1>1, <2>1, SetIs DEF CallFields
  <2>3. PatchShape(c) /\ (Patching(c) => InPatch(c))
    BY <1>4, InPatchFacts
  <2>4. 1 \in 1 .. Writes(c) /\ Writes(c) = Len(call[c].backup) /\ Writes(c)' = Writes(c)
    BY <1>1, <1>4, <2>2, PendingIs DEF Writes
  <2>5. PatchShape(c)' /\ Reported(c)'
    BY <1>1, <2>2, <2>3, <2>4, Framed DEF PatchShape, Reported
  <2>6. ASSUME Patching(c)' PROVE InPatch(c)'
    <3>1. Patching(c)
      BY <1>1, <2>2, <2>6, Framed DEF Patching
    <3>2. Snapped(c) /\ Prepared(c, Edits(c)) /\ Backed(c, Writes(c))
      BY <1>1, <2>3, <3>1 DEF InPatch
    <3>3. PICK ws, n : ws = call[c].writes /\ n = Edits(c)
      OBVIOUS
    <3>4. Snapped(c)' /\ Preparing(c, ws, n)' /\ Edits(c)' = n
      BY <1>1, <2>2, <3>2, <3>3, Framed DEF Prepared
    <3>5. Backed(c, Writes(c))' /\ Returned(c, 0)'
      BY <2>2, <2>4, <3>2 DEF Backed, Returned
    <3>6. QED BY <2>2, <3>3, <3>4, <3>5 DEF InPatch, Prepared
  <2>7. "restore" \in Places[Tool(c)]
    BY <1>4 DEF Places
  <2>8. QED BY <1>1, <1>2, <2>1, <2>5, <2>6, <2>7, Steps DEF CallFields
<1>5. QED BY <1>3, <1>4

\* What is put back is what was backed up.
LEMMA PutBackIs ==
  ASSUME FilesShape, NEW c, NEW p \in DOMAIN disk, NEW old, IsFile(old), PutBack(p, c, old)
  PROVE  /\ Calm(c)
         /\ \A q \in DOMAIN disk \ {p} : disk'[q] = disk[q]
         /\ \A q \in DOMAIN disk : IsFile(disk'[q])
         /\ Same(disk'[p], old)
<1>1. CASE old.there \/ disk[p].there
  BY <1>1, WrittenIs DEF PutBack
<1>2. CASE ~(old.there \/ disk[p].there)
  <2>1. UNCHANGED <<disk, disturbed>>
    BY <1>2 DEF PutBack
  <2>2. IsFile(disk[p])
    BY DEF FilesShape
  <2>3. IsFile(old) => (old.there = disk[p].there => Same(disk[p], old))
    BY <1>2, <2>2 DEF IsFile, Same
  <2>4. old.there = FALSE /\ disk[p].there = FALSE
    BY <1>2
  <2>5. QED BY <2>1, <2>3, <2>4, UnwrittenIs
<1>3. QED BY <1>1, <1>2

\* A patch writes every file it names.
LEMMA EveryFile ==
  ASSUME NEW c, Tool(c) = "apply_patch", IsCall(Args(c), DOMAIN disk), Prepared(c, Edits(c)),
         NEW p \in Paths(Args(c))
  PROVE  \E i \in 1 .. Writes(c) : call[c].writes[i].path = p
<1>1. PICK k \in 1 .. Edits(c) : Args(c).edits[k].path = p
  BY DEF Paths, IsCall, Tool, Edits
<1>2. QED BY <1>1 DEF Prepared, Preparing, Writes

LEMMA RestoreKept == ASSUME PatchInv, NEW c \in Calls, Restore(c) PROVE PatchInv'
<1> DEFINE old == call[c].backup[call[c].at]
           fields == Updated(NextFile(c, "ended"), [answer |-> Error])
<1>1. /\ FilesShape /\ call[c].pc = "restore" /\ Tool(c) = "apply_patch" /\ PatchShape(c)
      /\ Patching(c) => InPatch(c)
  <2>1. call[c].pc = "restore" /\ call[c].pc \in Places[Tool(c)] /\ Tool(c) \in DOMAIN FirstStep
    BY InPatchFacts DEF Restore, At
  <2>2. Tool(c) = "apply_patch"
    BY <2>1 DEF Places, FirstStep
  <2>3. QED BY <2>1, <2>2, InPatchFacts
<1>2. script' = script /\ Set(c, fields) /\ PutBack(Pending(c).path, c, old)
  BY DEF Restore, Rest
<1>3. PICK ws, at, n : /\ ws = call[c].writes /\ at = call[c].at /\ n = Edits(c)
                       /\ at \in 1 .. Len(ws) /\ Len(ws) \in Nat
                       /\ \A i \in 1 .. Len(ws) : ws[i].path \in DOMAIN disk
                       /\ Pending(c) = ws[at] /\ Len(call[c].backup) = Len(ws)
                       /\ IsFile(old)
  BY <1>1, PendingIs DEF Writes
<1>4. /\ DOMAIN fields = IF at < Len(ws) THEN {"at", "answer"} ELSE {"at", "pc", "answer"}
      /\ fields.at = IF at < Len(ws) THEN at + 1 ELSE 1
      /\ ~(at < Len(ws)) => fields.pc = "ended"
      /\ fields.answer = Error
  BY <1>3 DEF Updated, NextFile
<1>5. /\ Calm(c) /\ \A q \in DOMAIN disk \ {ws[at].path} : disk'[q] = disk[q]
      /\ \A q \in DOMAIN disk : IsFile(disk'[q])
      /\ Same(disk'[ws[at].path], old)
  BY <1>1, <1>2, <1>3, PutBackIs
<1> HIDE DEF fields
<1>6. /\ call'[c].before = call[c].before /\ call'[c].writes = ws
      /\ call'[c].at = fields.at /\ call'[c].backup = call[c].backup
      /\ call'[c].answer = Error /\ call'[c].unrestored = call[c].unrestored
      /\ call'[c].pc = IF at < Len(ws) THEN "restore" ELSE "ended"
  <2>1. /\ \A k \in DOMAIN fields : call'[c][k] = fields[k]
        /\ \A k \in CallFields \ DOMAIN fields : call'[c][k] = call[c][k]
    BY <1>1, <1>2, <1>4, SetIs DEF CallFields
  <2>2. QED BY <1>1, <1>3, <1>4, <2>1 DEF CallFields
<1>7. fields.at \in 1 .. Len(ws) /\ Writes(c) = Len(ws) /\ Writes(c)' = Len(ws)
  BY <1>3, <1>4, <1>6 DEF Writes
<1>8. PatchShape(c)' /\ Reported(c)'
  BY <1>1, <1>2, <1>3, <1>6, <1>7, Framed DEF PatchShape, Reported, Writes
<1>9. ASSUME Patching(c)' PROVE InPatch(c)'
  <2>1. Patching(c)
    BY <1>2, <1>5, <1>6, <1>9, Framed DEF Patching, Calm
  <2>2. /\ Snapped(c) /\ Prepared(c, Edits(c)) /\ Backed(c, Writes(c))
        /\ Returned(c, call[c].at - 1)
    BY <1>1, <2>1 DEF InPatch
  <2>3. Snapped(c)' /\ Preparing(c, ws, n)' /\ Edits(c)' = n /\ Args(c)' = Args(c)
    BY <1>2, <1>3, <1>6, <2>2, Framed DEF Prepared
  <2>4. Backed(c, Len(ws))'
    BY <1>3, <1>6, <1>7, <2>2 DEF Backed
  <2>5. Returned(c, at)'
    <3>1. \A i \in 1 .. at - 1 : ws[i].path # ws[at].path
      BY <1>3, <2>2, Apart1 DEF Prepared
    <3>2. \A i \in 1 .. at - 1 : i \in 1 .. Len(ws) /\ disk'[ws[i].path] = disk[ws[i].path]
      <4>1. \A i \in 1 .. at - 1 : i \in 1 .. Len(ws)
        BY <1>3
      <4>2. QED BY <1>3, <1>5, <3>1, <4>1, Zenon
    <3>3. Same(disk'[ws[at].path], call[c].before[ws[at].path])
      BY <1>3, <1>5, <1>7, <2>2 DEF Backed
    <3>4. \A i \in 1 .. at - 1 : Same(disk'[ws[i].path], call[c].before[ws[i].path])
      BY <1>3, <2>2, <3>2 DEF Returned
    <3>5. \A i \in 1 .. at : Same(disk'[ws[i].path], call[c].before[ws[i].path])
      <4>1. \A i \in 1 .. at : i = at \/ i \in 1 .. at - 1
        BY <1>3
      <4>2. QED BY <3>3, <3>4, <4>1, Zenon
    <3>6. QED BY <1>3, <1>6, <3>5 DEF Returned
  <2>6. CASE at < Len(ws)
    <3>1. call'[c].pc = "restore" /\ call'[c].at - 1 = at
      BY <1>3, <1>4, <1>6, <2>6
    <3>2. QED BY <1>3, <1>6, <1>7, <2>3, <2>4, <2>5, <3>1 DEF InPatch, Prepared
  <2>7. CASE ~(at < Len(ws))
    <3>1. call'[c].pc = "ended" /\ Len(ws) = at
      BY <1>3, <1>6, <2>7
    <3>2. \A p \in Paths(Args(c)) : Same(disk'[p], call[c].before[p])
      <4> TAKE p \in Paths(Args(c))
      <4>1. PICK i \in 1 .. Len(ws) : ws[i].path = p
        BY <1>1, <1>3, <1>7, <2>2, EveryFile, InPatchFacts
      <4>2. QED BY <1>3, <1>6, <2>5, <3>1, <4>1 DEF Returned
    <3>3. QED BY <1>6, <2>3, <3>1, <3>2 DEF InPatch, Error
  <2>8. QED BY <2>6, <2>7
<1>10. "pc" \in DOMAIN fields => fields.pc \in Places[Tool(c)] \ {"new"}
  BY <1>1, <1>3, <1>4 DEF Places
<1>11. QED BY <1>1, <1>2, <1>4, <1>5, <1>8, <1>9, <1>10, Steps DEF CallFields

LEMMA RestoreFailsKept == ASSUME PatchInv, NEW c \in Calls, RestoreFails(c) PROVE PatchInv'
<1>1. /\ FilesShape /\ call[c].pc = "restore" /\ Tool(c) = "apply_patch" /\ PatchShape(c)
      /\ Patching(c) => InPatch(c)
  <2>1. call[c].pc = "restore" /\ call[c].pc \in Places[Tool(c)] /\ Tool(c) \in DOMAIN FirstStep
    BY InPatchFacts DEF RestoreFails, At
  <2>2. Tool(c) = "apply_patch"
    BY <2>1 DEF Places, FirstStep
  <2>3. QED BY <2>1, <2>2, InPatchFacts
<1>2. /\ script' = script /\ disk' = disk /\ disturbed' = disturbed
      /\ Set(c, [pc |-> "ended", answer |-> Error, unrestored |-> TRUE])
      /\ Calm(c) /\ \A q \in DOMAIN disk : IsFile(disk'[q])
  BY Still DEF RestoreFails
<1>3. /\ call'[c].pc = "ended" /\ call'[c].answer = Error /\ call'[c].unrestored
      /\ call'[c].before = call[c].before /\ call'[c].writes = call[c].writes
      /\ call'[c].backup = call[c].backup
  BY <1>1, <1>2, SetIs DEF CallFields
<1>4. PatchShape(c)' /\ Reported(c)'
  BY <1>1, <1>2, <1>3, Framed DEF PatchShape, Reported, Writes
<1>5. ASSUME Patching(c)' PROVE InPatch(c)'
  <2>1. Patching(c) /\ Snapped(c)
    BY <1>1, <1>2, <1>3, <1>5, Framed DEF Patching, InPatch
  <2>2. Snapped(c)'
    BY <1>2, <1>3, <2>1, Framed
  <2>3. QED BY <1>3, <2>2 DEF InPatch, Error
<1>6. "ended" \in Places[Tool(c)] \ {"new"}
  BY <1>1 DEF Places
<1>7. QED BY <1>1, <1>2, <1>4, <1>5, <1>6, Steps DEF CallFields

LEMMA RecordsWriteKept == ASSUME PatchInv, NEW c \in Calls, RecordsWrite(c) PROVE PatchInv'
<1>1. FilesShape /\ call[c].pc = "record" /\ (Patching(c) => InPatch(c))
  BY InPatchFacts DEF RecordsWrite, At
<1>2. PICK noted : Set(c, [pc |-> "ended", answer |-> Success, noted |-> noted])
  BY DEF RecordsWrite
<1>3. /\ script' = script /\ disk' = disk /\ disturbed' = disturbed
      /\ Calm(c) /\ \A q \in DOMAIN disk : IsFile(disk'[q])
  BY Still DEF RecordsWrite, Quiet, Rest
<1>4. CASE Tool(c) # "apply_patch"
  <2>1. "ended" \in Places[Tool(c)]
    BY <1>1, <1>4, Writers
  <2>2. QED BY <1>2, <1>3, <1>4, <2>1, OtherTool DEF CallFields
<1>5. CASE Tool(c) = "apply_patch"
  <2>1. /\ call'[c].pc = "ended" /\ call'[c].answer = Success
        /\ call'[c].before = call[c].before /\ call'[c].writes = call[c].writes
        /\ call'[c].backup = call[c].backup
    BY <1>1, <1>2, <1>3, SetIs DEF CallFields
  <2>2. PatchShape(c)' /\ Reported(c)'
    BY <1>1, <1>3, <1>5, <2>1, Framed, InPatchFacts DEF PatchShape, Reported, Writes
  <2>3. ASSUME Patching(c)' PROVE InPatch(c)'
    <3>1. Patching(c)
      BY <1>3, <2>1, <2>3, Framed DEF Patching
    <3>2. Snapped(c) /\ Prepared(c, Edits(c)) /\ Filled(c, Writes(c))
      BY <1>1, <3>1 DEF InPatch
    <3>3. PICK ws, n : ws = call[c].writes /\ n = Edits(c)
      OBVIOUS
    <3>4. Snapped(c)' /\ Preparing(c, ws, n)' /\ Edits(c)' = n
      BY <1>3, <2>1, <3>2, <3>3, Framed DEF Prepared
    <3>5. Filled(c, Len(ws))' /\ Writes(c)' = Len(ws)
      BY <1>3, <2>1, <3>2, <3>3 DEF Filled, Writes
    <3>6. QED BY <2>1, <3>3, <3>4, <3>5 DEF InPatch, Prepared, Success
  <2>4. "ended" \in Places[Tool(c)] \ {"new"}
    BY <1>5 DEF Places
  <2>5. QED BY <1>1, <1>2, <1>3, <2>2, <2>3, <2>4, Steps DEF CallFields
<1>6. QED BY <1>4, <1>5

LEMMA ReportKept == ASSUME PatchInv, NEW c \in Calls, Report(c) PROVE PatchInv'
<1> DEFINE changed == {p \in Targets(Args(c)) : Changed(call[c].before[p], disk[p])}
<1>1. /\ FilesShape /\ call[c].pc = "ended" /\ IsCall(Args(c), DOMAIN disk)
      /\ Tool(c) = "apply_patch" => PatchShape(c)
      /\ Patching(c) => InPatch(c)
  BY InPatchFacts DEF Report, At
<1>2. /\ script' = script /\ disk' = disk /\ disturbed' = disturbed
      /\ Set(c, [pc |-> "done", after |-> Snapshot(c), changes |-> changed])
      /\ Calm(c) /\ \A q \in DOMAIN disk : IsFile(disk'[q])
  BY Still DEF Report, Quiet, Rest
<1> HIDE DEF changed
<1>3. /\ call'[c].pc = "done" /\ call'[c].after = Snapshot(c) /\ call'[c].changes = changed
      /\ call'[c].before = call[c].before /\ call'[c].writes = call[c].writes
      /\ call'[c].backup = call[c].backup /\ call'[c].answer = call[c].answer
      /\ call'[c].unrestored = call[c].unrestored
  BY <1>1, <1>2, SetIs DEF CallFields
<1>4. Tool(c) = "apply_patch" => PatchShape(c)'
  BY <1>1, <1>2, <1>3, Framed DEF PatchShape, Writes
<1>5. \A p \in Targets(Args(c)) : call'[c].after[p] = disk[p]
  BY <1>3 DEF Snapshot
<1>6. Reported(c)'
  <2>1. Targets(Args(c))' = Targets(Args(c))
    BY <1>2, <1>3, Framed
  <2>2. changed = {p \in Targets(Args(c)) : Changed(call'[c].before[p], call'[c].after[p])}
    BY <1>3, <1>5 DEF changed
  <2>3. QED BY <1>3, <2>1, <2>2 DEF Reported
<1>7. ASSUME Patching(c)' PROVE InPatch(c)'
  <2>1. Patching(c) /\ Tool(c) = "apply_patch" /\ Targets(Args(c)) = Paths(Args(c))
    BY <1>2, <1>3, <1>7, Framed DEF Patching, Targets, Reads, Tool
  <2>2. /\ Args(c)' = Args(c) /\ Snapped(c)' /\ Edits(c)' = Edits(c)
        /\ \A p, k : Made(c, p, k)' = Made(c, p, k)
    BY <1>1, <1>2, <1>3, <2>1, Framed DEF InPatch
  <2>3. ASSUME call[c].answer.kind = "ok", NEW p \in Paths(Args(c))
        PROVE  disk[p].there /\ disk[p].text = Made(c, p, Edits(c))
    <3>1. Prepared(c, Edits(c)) /\ Filled(c, Writes(c))
      BY <1>1, <2>1, <2>3 DEF InPatch
    <3>2. PICK i \in 1 .. Writes(c) : call[c].writes[i].path = p
      BY <1>1, <2>1, <3>1, EveryFile
    <3>3. Same(disk[p], Text(call[c].writes[i].text))
      BY <3>1, <3>2 DEF Filled
    <3>4. call[c].writes[i].text = Made(c, p, Edits(c))
      BY <3>1, <3>2 DEF Prepared, Preparing, Writes
    <3>5. QED BY <3>3, <3>4, TextIs DEF Same
  <2>4. ASSUME call[c].answer.kind = "error", ~call[c].unrestored, NEW p \in Paths(Args(c))
        PROVE  Same(disk[p], call[c].before[p])
    BY <1>1, <2>1, <2>4 DEF InPatch
  <2>5. call'[c].answer.kind = "ok" =>
          \A p \in Paths(Args(c)) :
            call'[c].after[p].there /\ call'[c].after[p].text = Made(c, p, Edits(c))
    BY <1>3, <1>5, <2>1, <2>3
  <2>6. call'[c].answer.kind = "error" /\ ~call'[c].unrestored =>
          \A p \in Paths(Args(c)) : Same(call'[c].after[p], call'[c].before[p])
    BY <1>3, <1>5, <2>1, <2>4
  <2>7. QED BY <1>3, <2>2, <2>5, <2>6 DEF InPatch
<1>8. "done" \in Places[Tool(c)] \ {"new"}
  BY InPatchFacts DEF Places, FirstStep
<1>9. QED BY <1>1, <1>2, <1>4, <1>6, <1>7, <1>8, Steps DEF CallFields

LEMMA StopKept == ASSUME PatchInv, NEW c \in Calls, Stop(c) PROVE PatchInv'
<1>1. /\ FilesShape /\ call[c].pc \notin {"new", "done"}
      /\ Tool(c) = "apply_patch" => PatchShape(c)
      /\ Patching(c) => InPatch(c)
  BY InPatchFacts DEF Stop, Live
<1>2. /\ script' = script /\ disk' = disk /\ disturbed' = disturbed /\ Set(c, [heard |-> FALSE])
      /\ Calm(c) /\ \A q \in DOMAIN disk : IsFile(disk'[q])
  BY Still DEF Stop, Quiet, Rest
<1>3. CASE Tool(c) # "apply_patch"
  BY <1>1, <1>2, <1>3, OtherTool DEF CallFields
<1>4. CASE Tool(c) = "apply_patch"
  <2>1. \A k \in CallFields \ {"heard"} : call'[c][k] = call[c][k]
    BY <1>1, <1>2, SetIs DEF CallFields
  <2>2. /\ call'[c].pc = call[c].pc /\ call'[c].at = call[c].at
        /\ call'[c].before = call[c].before /\ call'[c].writes = call[c].writes
        /\ call'[c].backup = call[c].backup /\ call'[c].answer = call[c].answer
        /\ call'[c].unrestored = call[c].unrestored
    BY <2>1 DEF CallFields
  <2>3. PatchShape(c)' /\ Reported(c)'
    BY <1>1, <1>2, <1>4, <2>2, Framed DEF PatchShape, Reported, Writes
  <2>4. ASSUME Patching(c)' PROVE InPatch(c)'
    <3>1. Patching(c) /\ InPatch(c)
      BY <1>1, <1>2, <2>2, <2>4, Framed DEF Patching
    <3>2. PICK ws, at, n : ws = call[c].writes /\ at = call[c].at /\ n = Edits(c)
      OBVIOUS
    <3>3. /\ Args(c)' = Args(c) /\ Edits(c)' = n /\ Writes(c)' = Len(ws) /\ Writes(c) = Len(ws)
          /\ Snapped(c) => Snapped(c)'
          /\ \A k : Preparing(c, ws, k) => Preparing(c, ws, k)'
      BY <1>2, <2>2, <3>2, Framed DEF Writes
    <3>4. /\ Untouched(c) => Untouched(c)'
          /\ \A k : Backed(c, k) => Backed(c, k)'
          /\ \A k : Filled(c, k) => Filled(c, k)'
          /\ \A k : Returned(c, k) => Returned(c, k)'
      BY <1>2, <2>2, <3>3 DEF Untouched, Backed, Filled, Returned
    <3>5. QED BY <1>1, <1>2, <2>2, <3>1, <3>2, <3>3, <3>4 DEF InPatch, Prepared
  <2>5. QED BY <1>1, <1>2, <2>3, <2>4, Steps DEF CallFields
<1>5. QED BY <1>3, <1>4

LEMMA EditorKept == ASSUME PatchInv, NEW p \in DOMAIN disk, Editor(p) PROVE PatchInv'
<1>1. FilesShape /\ 0 \notin Calls /\ script' = script /\ call' = call
  BY Script DEF PatchInv, Editor
<1>2. PICK f \in {NoFile, Text(<<"b">>), Text(<<"b", "lf", "a">>)} : Written(p, 0, f)
  BY DEF Editor
<1>3. IsFile(f)
  BY TextIs DEF IsFile, NoFile
<1>4. Calm(0) /\ \A q \in DOMAIN disk : IsFile(disk'[q])
  BY <1>1, <1>2, <1>3, WrittenIs
<1>5. /\ Calls' = Calls /\ DOMAIN disk' = DOMAIN disk
      /\ \A c \in Calls : Args(c)' = Args(c) /\ Tool(c)' = Tool(c)
  BY <1>1, <1>4 DEF Calls, Args, Tool, Calm
<1>6. FilesShape'
  BY <1>1, <1>4, <1>5 DEF FilesShape, PatchShape, Edits, Writes
<1>7. \A c \in Calls : Reported(c)' /\ (Patching(c)' => InPatch(c)')
  BY <1>1, <1>4, OthersKept
<1>8. QED BY <1>5, <1>6, <1>7 DEF PatchInv

-------------------------------------------------------------------------------
LEMMA FilesInitially == ASSUME FilesInit PROVE PatchInv
<1>1. /\ script \in Scripts /\ disk = script.files /\ DOMAIN call = Calls
      /\ \A c \in Calls : call[c] = NewCall
      /\ \A p \in DOMAIN disk : IsFile(disk[p])
      /\ \A c \in Calls : IsCall(Args(c), DOMAIN disk)
  BY ScriptsAssumption DEF FilesInit, FilesInitial, Calls, Args
<1>2. NewCall.pc = "new" /\ NewCall.at = 1 /\ NewCall.writes = <<>> /\ NewCall.backup = <<>>
      /\ DOMAIN NewCall = CallFields
  BY DEF NewCall, CallFields
<1>3. FilesShape
  <2>1. IsSeq(<<>>) /\ Len(<<>>) = 0
    BY DEF IsSeq
  <2>2. ASSUME NEW c \in Calls, Tool(c) = "apply_patch" PROVE PatchShape(c)
    <3>1. 1 \in 1 .. Edits(c)
      BY <1>1, <2>2 DEF IsCall, Tool, Edits
    <3>2. QED BY <1>1, <1>2, <2>1, <3>1 DEF PatchShape, Writes
  <2>3. \A c \in Calls : "new" \in Places[Tool(c)]
    BY <1>1 DEF IsCall, FirstStep, Places, Tool
  <2>4. QED BY <1>1, <1>2, <2>2, <2>3 DEF FilesShape
<1>4. QED BY <1>1, <1>2, <1>3 DEF PatchInv, Reported, InPatch

LEMMA FilesKept == ASSUME PatchInv, [FilesNext]_fileVars PROVE PatchInv'
<1>1. ASSUME NEW c \in Calls,
             \/ Begin(c) \/ LoadRead(c) \/ Deduplicate(c) \/ RecordsRead(c)
             \/ CheckWrite(c) \/ CheckEdit(c) \/ LoadEdit(c) \/ Prepare(c) \/ Backup(c)
             \/ Open(c) \/ Fill(c) \/ WriteFails(c) \/ Restore(c) \/ RestoreFails(c)
             \/ RecordsWrite(c) \/ Report(c) \/ Stop(c)
      PROVE  PatchInv'
  BY <1>1, BeginKept, LoadReadKept, DeduplicateKept, RecordsReadKept, CheckWriteKept, EditKept,
     PrepareKept, BackupKept, OpenKept, FillKept, WriteFailsKept, RestoreKept, RestoreFailsKept,
     RecordsWriteKept, ReportKept, StopKept
<1>2. CASE UNCHANGED fileVars
  <2>1. /\ script' = script /\ disk' = disk /\ call' = call /\ disturbed' = disturbed
    BY <1>2 DEF fileVars
  <2>2. FilesShape'
    BY <2>1 DEF PatchInv, FilesShape, PatchShape, Edits, Writes, Calls, Args, Tool
  <2>3. Calls' = Calls /\ 0 \notin Calls /\ Calm(0)
    BY <2>1, Script, Still DEF Calls, PatchInv
  <2>4. \A c \in Calls : Reported(c)' /\ (Patching(c)' => InPatch(c)')
    BY <2>1, <2>3, OthersKept
  <2>5. QED BY <2>2, <2>3, <2>4 DEF PatchInv
<1>3. QED BY <1>1, <1>2, EditorKept DEF FilesNext

\* A patch that is not only tried says of every file it names what the invariant says.
LEMMA PatchInvMeans == ASSUME PatchInv PROVE PatchAllOrNothing
<1> SUFFICES ASSUME NEW c \in Calls, Tool(c) = "apply_patch", At(c, "done"), c \notin disturbed
             PROVE  LET before == call[c].before  after == call[c].after
    IN /\ call[c].changes = {p \in Targets(Args(c)) : Changed(before[p], after[p])}
       /\ Did(c, "ok") => \A p \in Targets(Args(c)) : after[p].there /\ after[p].text = Patched(c, p)
       /\ Did(c, "error") /\ ~call[c].unrestored =>
            \A p \in Targets(Args(c)) :
              after[p].there = before[p].there /\ after[p].text = before[p].text
  BY DEF PatchAllOrNothing
<1>1. /\ call[c].pc = "done" /\ Patching(c) => InPatch(c)
      /\ call[c].changes = {p \in Targets(Args(c)) : Changed(call[c].before[p], call[c].after[p])}
  BY DEF PatchInv, Reported, At
<1>2. Targets(Args(c)) \subseteq Paths(Args(c)) /\ (Args(c).dry => Targets(Args(c)) = {})
  BY DEF Targets, Tool
<1>3. CASE Args(c).dry
  BY <1>1, <1>2, <1>3
<1>4. CASE ~Args(c).dry
  <2>1. InPatch(c) /\ call[c].pc = "done"
    BY <1>1, <1>4 DEF Patching, At
  <2>2. \A p : Patched(c, p) = Made(c, p, Edits(c))
    BY DEF Patched, Made, Base, Edits
  <2>3. QED BY <1>1, <1>2, <2>1, <2>2 DEF InPatch, Did, Same
<1>5. QED BY <1>3, <1>4

(* A patch that ended, while nobody else wrote its files, made every file what *)
(* its edits make of it, or left every file as it was and said so; and the     *)
(* files it reports as changed are those that did (apply_patch,                *)
(* FileChangeTracker).                                                         *)
THEOREM PatchesWhole == FilesSpec => []PatchAllOrNothing
<1>1. FilesSpec => []PatchInv
  BY FilesInitially, FilesKept, PTL DEF FilesSpec
<1>2. PatchInv => PatchAllOrNothing
  BY PatchInvMeans
<1>3. QED BY <1>1, <1>2, PTL

-------------------------------------------------------------------------------
(* File tools: what the notes of a session say, and what a call knows by them.  *)

Begun(c) == call[c].pc # "new"
Noted(c, p, t) == <<p, t>> \in call[c].noted

\* One session holds an object of notes, in the store or in its calls.
OneSession ==
  /\ \A i, j \in 1 .. Len(store) :
       store[i].notes = store[j].notes => store[i].session = store[j].session
  /\ \A i \in 1 .. Len(store), c \in Calls :
       Begun(c) /\ call[c].mine = store[i].notes => Args(c).session = store[i].session
  /\ \A c, d \in Calls :
       Begun(c) /\ Begun(d) /\ call[c].mine = call[d].mine => SameSession(c, d)

NotesShape ==
  /\ IsSeq(store) /\ IsSeq(notes)
  /\ \A k \in 1 .. Len(notes) : DOMAIN notes[k] = {"read", "cache"}
  /\ \A i \in 1 .. Len(store) : store[i].notes \in 1 .. Len(notes)
  /\ \A c \in Calls : Begun(c) => call[c].mine \in 1 .. Len(notes)
  /\ OneSession

\* What is noted as read or written, and as the answer to a range, a call did note.
Did1(d, k, n) == Begun(d) /\ call[d].mine = k /\ Noted(d, n.path, n.text)
DidRange(d, k, e) ==
  /\ Did1(d, k, e.note)
  /\ Reads(Args(d)) /\ Path(d) = e.note.path
  /\ Args(d).offset = e.offset /\ Args(d).limit = e.limit
  /\ call[d].raw = e.note.text \/ d \in disturbed
ReadNoted(k)  == \A n \in notes[k].read : \E d \in Calls : Did1(d, k, n)
CacheNoted(k) == \A e \in notes[k].cache : \E d \in Calls : DidRange(d, k, e)

\* An edit that was not warned is of a text some call of its session noted.
Known(c) ==
  \E d \in Calls \ {c} : SameSession(c, d) /\ Noted(d, Path(c), call[c].seen)
SeenIs(c)  == c \in disturbed \/ disk[Path(c)].text = call[c].seen
RawIs(c)   == c \in disturbed \/ disk[Path(c)].text = call[c].raw

Own(c) ==
  LET pc == call[c].pc
  IN /\ call[c].noted # {} => pc \in {"ended", "done"}
     /\ call[c].answer.kind = "already" => Tool(c) = "read_file" /\ AlreadyShown(c)
     /\ Reads(Args(c)) /\ pc \in {"dedup", "record"} => RawIs(c)
     /\ Tool(c) = "edit_file" =>
          /\ pc \in {"new", "check", "load"} => call[c].spans = <<>>
          /\ pc = "load" => SeenIs(c)
          /\ pc = "load" /\ Args(c).old # <<>> /\ ~call[c].warned => Known(c)
          /\ call[c].spans # <<>> =>
               /\ call[c].raw = call[c].seen \/ c \in disturbed
               /\ ~call[c].warned => Known(c)

NotesInv ==
  /\ NotesShape
  /\ \A k \in 1 .. Len(notes) : ReadNoted(k) /\ CacheNoted(k)
  /\ \A c \in Calls : Own(c)

-------------------------------------------------------------------------------
\* A step of x adds to what was noted, and leaves what it has read once it noted it.
Grown ==
  /\ Calls' = Calls /\ disturbed \subseteq disturbed'
  /\ \A c \in Calls :
       /\ Args(c)' = Args(c) /\ Tool(c)' = Tool(c)
       /\ call[c].noted \subseteq call'[c].noted
       /\ call[c].noted # {} => call'[c].raw = call[c].raw
       /\ Begun(c) => call'[c].pc # "new" /\ call'[c].mine = call[c].mine

LEMMA GrownMeans ==
  ASSUME Grown
  PROVE  /\ \A d \in Calls : \A k, n : Did1(d, k, n) => Did1(d, k, n)'
         /\ \A d \in Calls : \A k, e : DidRange(d, k, e) => DidRange(d, k, e)'
         /\ \A c \in Calls : call'[c].seen = call[c].seen => (Known(c) => Known(c)')
         /\ \A c \in Calls : call'[c].seen = call[c].seen => (AlreadyShown(c) => AlreadyShown(c)')
<1>1. \A d \in Calls : \A k, n : Did1(d, k, n) => Did1(d, k, n)'
  BY DEF Grown, Did1, Noted, Begun
<1>2. \A d \in Calls : \A k, e : DidRange(d, k, e) => DidRange(d, k, e)'
  <2>1. ASSUME NEW d \in Calls, NEW k, NEW e, DidRange(d, k, e) PROVE DidRange(d, k, e)'
    <3>1. Did1(d, k, e.note)'
      BY <1>1, <2>1 DEF DidRange
    <3>2. call'[d].raw = call[d].raw /\ Args(d)' = Args(d) /\ (d \in disturbed => d \in disturbed')
      BY <2>1 DEF DidRange, Did1, Noted, Grown
    <3>3. QED BY <2>1, <3>1, <3>2 DEF DidRange, Path
  <2>2. QED BY <2>1
<1>3. ASSUME NEW c \in Calls, call'[c].seen = call[c].seen, Known(c) PROVE Known(c)'
  <2>1. PICK d \in Calls \ {c} : SameSession(c, d) /\ Noted(d, Path(c), call[c].seen)
    BY <1>3 DEF Known
  <2>2. SameSession(c, d)' /\ Noted(d, Path(c), call[c].seen)'
    BY <1>3, <2>1 DEF Grown, SameSession, Noted, Path
  <2>3. QED BY <2>1, <2>2 DEF Known, Grown
<1>4. ASSUME NEW c \in Calls, call'[c].seen = call[c].seen, AlreadyShown(c) PROVE AlreadyShown(c)'
  <2>1. PICK d \in Calls : /\ Tool(d) = "read_file" /\ SameRange(c, d)
                           /\ <<Path(c), call[c].seen>> \in call[d].noted
                           /\ call[d].raw = call[c].seen \/ d \in disturbed
    BY <1>4 DEF AlreadyShown
  <2>2. /\ Tool(d)' = "read_file" /\ SameRange(c, d)'
        /\ <<Path(c)', call'[c].seen>> \in call'[d].noted
        /\ call'[d].raw = call'[c].seen \/ d \in disturbed'
    BY <1>4, <2>1 DEF Grown, SameRange, SameSession, Path
  <2>3. QED BY <2>1, <2>2 DEF AlreadyShown, Grown
<1>5. QED BY <1>1, <1>2, <1>3, <1>4

\* What a call knows stays when another one steps.
LEMMA OwnKept ==
  ASSUME FilesShape, NotesInv, Grown, NEW x, Calm(x), NEW c \in Calls \ {x}, call'[c] = call[c]
  PROVE  Own(c)'
<1>1. Own(c) /\ Args(c)' = Args(c) /\ Tool(c)' = Tool(c) /\ (c \in disturbed => c \in disturbed')
  BY DEF NotesInv, Grown
<1>2. (Known(c) => Known(c)') /\ (AlreadyShown(c) => AlreadyShown(c)')
  BY GrownMeans
<1>3. ASSUME call[c].pc \in {"load", "dedup", "record"}, Tool(c) # "apply_patch"
      PROVE  (SeenIs(c) => SeenIs(c)') /\ (RawIs(c) => RawIs(c)')
  <2>1. Path(c) \in Paths(Args(c)) /\ Live(c)
    BY <1>3 DEF Paths, Path, Tool, Live
  <2>2. c \notin disturbed' => disk'[Path(c)] = disk[Path(c)]
    BY <2>1 DEF Calm
  <2>3. QED BY <1>1, <2>2 DEF SeenIs, RawIs, Path
<1>4. Reads(Args(c)) => Tool(c) # "apply_patch"
  BY DEF Reads, Tool
<1>5. QED BY <1>1, <1>2, <1>3, <1>4 DEF Own

LEMMA SetGrows ==
  ASSUME FilesShape, NEW c \in Calls, NEW fields, DOMAIN fields \subseteq CallFields \ {"mine"},
         Set(c, fields), script' = script, Calm(c), Begun(c),
         "pc" \in DOMAIN fields => fields.pc # "new",
         "noted" \in DOMAIN fields \/ "raw" \in DOMAIN fields => call[c].noted = {}
  PROVE  /\ Grown
         /\ \A d \in Calls \ {c} : call'[d] = call[d]
         /\ \A k \in DOMAIN fields : call'[c][k] = fields[k]
         /\ \A k \in CallFields \ DOMAIN fields : call'[c][k] = call[c][k]
<1>1. /\ Calls' = Calls /\ \A d \in Calls : Args(d)' = Args(d)
      /\ \A d \in Calls \ {c} : call'[d] = call[d]
      /\ \A k \in DOMAIN fields : call'[c][k] = fields[k]
      /\ \A k \in CallFields \ DOMAIN fields : call'[c][k] = call[c][k]
  BY SetIs
<1>2. \A d \in Calls : Tool(d)' = Tool(d)
  BY <1>1 DEF Tool
<1>3. /\ call[c].noted \subseteq call'[c].noted
      /\ call[c].noted # {} => call'[c].raw = call[c].raw
      /\ call'[c].pc # "new" /\ call'[c].mine = call[c].mine
  BY <1>1 DEF CallFields, Begun
<1>4. Grown
  <2>1. \A d \in Calls : /\ call[d].noted \subseteq call'[d].noted
                         /\ call[d].noted # {} => call'[d].raw = call[d].raw
                         /\ Begun(d) => call'[d].pc # "new" /\ call'[d].mine = call[d].mine
    BY <1>1, <1>3 DEF Begun
  <2>2. QED BY <1>1, <1>2, <2>1 DEF Grown, Calm
<1>5. QED BY <1>1, <1>4

\* A step of c that keeps what it knows, and the notes true.
NotesTrue == \A k \in 1 .. Len(notes) : ReadNoted(k) /\ CacheNoted(k)

LEMMA NotesStay ==
  ASSUME NotesInv, Grown, notes' = notes
  PROVE  NotesTrue'
<1>1. ASSUME NEW k \in 1 .. Len(notes) PROVE ReadNoted(k)' /\ CacheNoted(k)'
  <2>1. ReadNoted(k) /\ CacheNoted(k)
    BY DEF NotesInv
  <2>2. ReadNoted(k)'
    BY <2>1, GrownMeans DEF ReadNoted, Grown
  <2>3. CacheNoted(k)'
    BY <2>1, GrownMeans DEF CacheNoted, Grown
  <2>4. QED BY <2>2, <2>3
<1>2. QED BY <1>1 DEF NotesTrue

LEMMA SameHolders ==
  ASSUME NotesInv, Grown, store' = store, IsSeq(notes'), Len(notes') = Len(notes),
         \A k \in 1 .. Len(notes) : DOMAIN notes'[k] = {"read", "cache"},
         \A c \in Calls : call'[c].pc # "new" => Begun(c)
  PROVE  NotesShape'
<1>1. \A c \in Calls : Begun(c)' => Begun(c) /\ call'[c].mine = call[c].mine
  BY DEF Begun, Grown
<1>2. \A c \in Calls : Begun(c)' => call'[c].mine \in 1 .. Len(notes)
  BY <1>1 DEF NotesInv, NotesShape
<1>3. OneSession'
  <2>1. Calls' = Calls /\ \A c \in Calls : Args(c)' = Args(c)
    BY DEF Grown
  <2>2. ASSUME NEW c \in Calls, NEW d \in Calls, Begun(c)', Begun(d)', call'[c].mine = call'[d].mine
        PROVE  SameSession(c, d)'
    BY <1>1, <2>1, <2>2 DEF NotesInv, NotesShape, OneSession, SameSession
  <2>3. ASSUME NEW i \in 1 .. Len(store), NEW c \in Calls, Begun(c)',
               call'[c].mine = store[i].notes
        PROVE  Args(c).session' = store[i].session
    BY <1>1, <2>1, <2>3 DEF NotesInv, NotesShape, OneSession
  <2>4. QED BY <2>1, <2>2, <2>3 DEF NotesInv, NotesShape, OneSession
<1>4. QED BY <1>2, <1>3 DEF NotesInv, NotesShape, Grown

LEMMA NotesSteps ==
  ASSUME FilesShape, NotesInv, Grown, NEW c \in Calls, Begun(c), Calm(c),
         \A d \in Calls \ {c} : call'[d] = call[d],
         store' = store, IsSeq(notes'), Len(notes') = Len(notes),
         \A k \in 1 .. Len(notes) : DOMAIN notes'[k] = {"read", "cache"},
         NotesTrue', Own(c)'
  PROVE  NotesInv'
<1>1. NotesShape'
  BY SameHolders DEF Begun
<1>2. \A d \in Calls \ {c} : Own(d)'
  BY OwnKept
<1>3. QED BY <1>1, <1>2 DEF NotesInv, NotesTrue, Grown

\* With the notes as they are.
LEMMA QuietStep ==
  ASSUME FilesShape, NotesInv, Grown, NEW c \in Calls, Begun(c), Calm(c),
         \A d \in Calls \ {c} : call'[d] = call[d], store' = store, notes' = notes, Own(c)'
  PROVE  NotesInv'
BY NotesStay, NotesSteps DEF NotesInv, NotesShape

\* Some notes of c's session are dropped or said of a later moment, and c may add its own.
LEMMA OtherNotes ==
  ASSUME FilesShape, NotesInv, Grown, NEW c \in Calls, Begun(c), Calm(c),
         \A d \in Calls \ {c} : call'[d] = call[d], store' = store, Own(c)',
         NEW k, k = call[c].mine, NEW r, NEW e,
         notes' = [notes EXCEPT ![k].read = r, ![k].cache = e],
         \A n \in r : \/ \E m \in notes[k].read : n.path = m.path /\ n.text = m.text
                      \/ Did1(c, k, n)',
         \A x \in e : x \in notes[k].cache \/ DidRange(c, k, x)'
  PROVE  NotesInv'
<1>1. IsSeq(notes)
  BY DEF NotesInv, NotesShape
<1>2. k \in 1 .. Len(notes)
  BY DEF NotesInv, NotesShape
<1> DEFINE new == [[notes[k] EXCEPT !.read = r] EXCEPT !.cache = e]
<1>3. new.read = r /\ new.cache = e /\ DOMAIN new = {"read", "cache"}
  BY <1>1, <1>2 DEF NotesInv, NotesShape
<1>4. notes' = [notes EXCEPT ![k] = new]
  BY <1>1, <1>2 DEF IsSeq
<1> HIDE DEF new
<1>5. /\ IsSeq(notes') /\ Len(notes') = Len(notes)
      /\ \A i \in 1 .. Len(notes) : notes'[i] = IF i = k THEN new ELSE notes[i]
  <2>1. IsSeq([notes EXCEPT ![k] = new])
    BY <1>1, <1>2, ChangedAt
  <2>2. Len([notes EXCEPT ![k] = new]) = Len(notes)
    BY <1>1, <1>2, ChangedAt
  <2>3. \A i \in 1 .. Len(notes) : [notes EXCEPT ![k] = new][i] = IF i = k THEN new ELSE notes[i]
    BY <1>1, <1>2, ChangedAt
  <2>4. QED BY <1>4, <2>1, <2>2, <2>3
<1>6. NotesTrue'
  <2>1. ASSUME NEW i \in 1 .. Len(notes) PROVE ReadNoted(i)' /\ CacheNoted(i)'
    <3>1. ReadNoted(i) /\ CacheNoted(i)
      BY DEF NotesInv
    <3>2. \A n \in notes'[i].read : \/ \E m \in notes[i].read : n.path = m.path /\ n.text = m.text
                                    \/ Did1(c, i, n)'
      BY <1>2, <1>3, <1>5
    <3>3. \A x \in notes'[i].cache : x \in notes[i].cache \/ DidRange(c, i, x)'
      BY <1>2, <1>3, <1>5
    <3>4. ReadNoted(i)'
      <4>1. ASSUME NEW n \in notes'[i].read PROVE \E d \in Calls : Did1(d, i, n)'
        <5>1. CASE Did1(c, i, n)'
          BY <5>1
        <5>2. ASSUME NEW m \in notes[i].read, n.path = m.path, n.text = m.text
              PROVE  \E d \in Calls : Did1(d, i, n)'
          <6>1. PICK d \in Calls : Did1(d, i, m)
            BY <3>1 DEF ReadNoted
          <6>2. Did1(d, i, n)
            BY <5>2, <6>1 DEF Did1
          <6>3. QED BY <6>2, GrownMeans
        <5>3. QED BY <3>2, <5>1, <5>2
      <4>2. QED BY <4>1 DEF ReadNoted, Grown
    <3>5. CacheNoted(i)'
      <4>1. ASSUME NEW x \in notes'[i].cache PROVE \E d \in Calls : DidRange(d, i, x)'
        BY <3>1, <3>3, GrownMeans DEF CacheNoted
      <4>2. QED BY <4>1 DEF CacheNoted, Grown
    <3>6. QED BY <3>4, <3>5
  <2>2. QED BY <1>5, <2>1 DEF NotesTrue
<1>7. \A i \in 1 .. Len(notes) : DOMAIN notes'[i] = {"read", "cache"}
  BY <1>3, <1>5 DEF NotesInv, NotesShape
<1>8. QED BY <1>5, <1>6, <1>7, NotesSteps

-------------------------------------------------------------------------------
(* The steps that take no notes.                                               *)

\* Own of a call that is neither a read that answers nor an edit at work.
LEMMA OwnOf ==
  ASSUME FilesShape, NotesInv, Grown, NEW c \in Calls,
         call'[c].noted = call[c].noted, call[c].noted # {} => call'[c].pc \in {"ended", "done"},
         call'[c].seen = call[c].seen, call'[c].raw = call[c].raw,
         call'[c].spans = call[c].spans, call'[c].warned = call[c].warned,
         \/ call'[c].answer = call[c].answer \/ call'[c].answer.kind # "already",
         Tool(c) = "edit_file" => call'[c].pc \notin {"new", "check", "load"}
                                  \/ (call'[c].pc = call[c].pc /\ disk' = disk),
         Reads(Args(c)) => call'[c].pc \notin {"dedup", "record"}
                           \/ (call'[c].pc = call[c].pc /\ disk' = disk)
  PROVE  Own(c)'
<1>1. Own(c) /\ Args(c)' = Args(c) /\ Tool(c)' = Tool(c) /\ (c \in disturbed => c \in disturbed')
  BY DEF NotesInv, Grown
<1>2. (Known(c) => Known(c)') /\ (AlreadyShown(c) => AlreadyShown(c)')
  BY GrownMeans
<1>3. disk' = disk => (SeenIs(c) => SeenIs(c)') /\ (RawIs(c) => RawIs(c)')
  BY <1>1 DEF SeenIs, RawIs, Path
<1>4. call'[c].noted # {} => call'[c].pc \in {"ended", "done"}
  OBVIOUS
<1>5. call'[c].answer.kind = "already" => Tool(c)' = "read_file" /\ AlreadyShown(c)'
  BY <1>1, <1>2 DEF Own
<1>6. Reads(Args(c))' /\ call'[c].pc \in {"dedup", "record"} => RawIs(c)'
  BY <1>1, <1>3 DEF Own
<1>7. ASSUME Tool(c)' = "edit_file"
      PROVE  /\ call'[c].pc \in {"new", "check", "load"} => call'[c].spans = <<>>
             /\ call'[c].pc = "load" => SeenIs(c)'
             /\ call'[c].pc = "load" /\ Args(c)'.old # <<>> /\ ~call'[c].warned => Known(c)'
             /\ call'[c].spans # <<>> =>
                  /\ call'[c].raw = call'[c].seen \/ c \in disturbed'
                  /\ ~call'[c].warned => Known(c)'
  BY <1>1, <1>2, <1>3, <1>7 DEF Own
<1>8. QED BY <1>4, <1>5, <1>6, <1>7 DEF Own

\* Where no tool but another is.
LEMMA NotAt ==
  ASSUME PatchInv, NEW c \in Calls
  PROVE  /\ FilesShape /\ Tool(c) \in DOMAIN FirstStep /\ call[c].pc \in Places[Tool(c)]
         /\ call[c].pc \in {"prepare", "backup", "restore"} => Tool(c) = "apply_patch"
         /\ call[c].pc = "dedup" => Tool(c) = "read_file"
         /\ call[c].pc \in {"check", "open", "fill"} => ~Reads(Args(c))
         /\ call[c].pc = "load" => Reads(Args(c)) \/ Tool(c) = "edit_file"
         /\ Reads(Args(c)) <=> Tool(c) \in {"read_file", "read_pdf", "read_office"}
<1>1. FilesShape /\ Tool(c) \in DOMAIN FirstStep /\ call[c].pc \in Places[Tool(c)]
  BY InPatchFacts
<1>2. Reads(Args(c)) <=> Tool(c) \in {"read_file", "read_pdf", "read_office"}
  BY DEF Reads, Tool
<1>3. QED BY <1>1, <1>2 DEF Places, FirstStep

\* A patch, or the write of a file: of these the notes say nothing until it is recorded.
LEMMA WorkSeen ==
  ASSUME PatchInv, NotesInv, NEW c \in Calls, NEW fields, Set(c, fields),
         DOMAIN fields \subseteq {"pc", "writes", "at", "backup", "answer", "unrestored"},
         script' = script, Calm(c), store' = store, notes' = notes,
         ~Reads(Args(c)), call[c].pc \in {"check", "prepare", "backup", "open", "fill", "restore"},
         "pc" \in DOMAIN fields => fields.pc \notin {"new", "check", "load"},
         "pc" \notin DOMAIN fields => call[c].pc # "check",
         "answer" \in DOMAIN fields => fields.answer \in {Error, Success}
  PROVE  NotesInv'
<1>1. FilesShape /\ Own(c) /\ Begun(c) /\ call[c].noted = {}
  BY DEF PatchInv, NotesInv, Own, Begun
<1>2. /\ Grown
      /\ \A d \in Calls \ {c} : call'[d] = call[d]
      /\ \A k \in DOMAIN fields : call'[c][k] = fields[k]
      /\ \A k \in CallFields \ DOMAIN fields : call'[c][k] = call[c][k]
  BY <1>1, SetGrows DEF CallFields
<1>3. /\ call'[c].noted = call[c].noted /\ call'[c].seen = call[c].seen
      /\ call'[c].raw = call[c].raw /\ call'[c].spans = call[c].spans
      /\ call'[c].warned = call[c].warned
      /\ call'[c].answer = call[c].answer \/ call'[c].answer \in {Error, Success}
      /\ call'[c].pc \notin {"new", "check", "load"}
  BY <1>2 DEF CallFields
<1>4. call'[c].answer = call[c].answer \/ call'[c].answer.kind # "already"
  BY <1>3 DEF Error, Success
<1>5. Own(c)'
  <2>1. call'[c].noted = {} /\ call'[c].pc \notin {"new", "check", "load"}
    BY <1>1, <1>3
  <2>2. Tool(c) = "edit_file" => call'[c].pc \notin {"new", "check", "load"}
    BY <2>1
  <2>3. Reads(Args(c)) => call'[c].pc \notin {"dedup", "record"}
    OBVIOUS
  <2>4. /\ call'[c].noted = call[c].noted
        /\ call[c].noted # {} => call'[c].pc \in {"ended", "done"}
        /\ call'[c].seen = call[c].seen /\ call'[c].raw = call[c].raw
        /\ call'[c].spans = call[c].spans /\ call'[c].warned = call[c].warned
    BY <1>1, <1>3
  <2>5. FilesShape /\ Grown
    BY <1>1, <1>2
  <2> QED BY <1>4, <2>2, <2>3, <2>4, <2>5, OwnOf
<1>6. QED BY <1>1, <1>2, <1>5, QuietStep

\* What a write does is known to the calls it disturbs.
LEMMA WriteStepsCalm ==
  ASSUME PatchInv, NEW c \in Calls,
         \/ CheckWrite(c) \/ Prepare(c) \/ Backup(c) \/ Open(c) \/ Fill(c) \/ WriteFails(c)
         \/ Restore(c) \/ RestoreFails(c)
  PROVE  Calm(c)
<1>1. FilesShape
  BY DEF PatchInv
<1>2. CASE CheckWrite(c) \/ Prepare(c) \/ Backup(c) \/ WriteFails(c) \/ RestoreFails(c)
  <2>1. UNCHANGED <<disk, disturbed>>
    BY <1>2 DEF CheckWrite, Prepare, Backup, WriteFails, RestoreFails, Quiet
  <2>2. QED BY <2>1, Still
<1>3. CASE Open(c) \/ Fill(c)
  BY <1>1, <1>3, TextIs, WrittenIs DEF Open, Fill
<1>4. CASE Restore(c)
  <2>1. call[c].pc = "restore" /\ Tool(c) = "apply_patch"
    BY <1>4, NotAt DEF Restore, At
  <2>2. PICK old : old = call[c].backup[call[c].at] /\ IsFile(old)
    <3>1. IsFile(call[c].backup[call[c].at])
      BY <2>1, PendingIs
    <3>2. QED BY <3>1
  <2>3. Pending(c).path \in DOMAIN disk
    BY <2>1, PendingIs
  <2>4. PutBack(Pending(c).path, c, old)
    BY <1>4, <2>2 DEF Restore
  <2>5. QED BY <1>1, <2>2, <2>3, <2>4, PutBackIs
<1>5. QED BY <1>2, <1>3, <1>4

LEMMA WriteStepsSeen ==
  ASSUME PatchInv, NotesInv, NEW c \in Calls,
         \/ CheckWrite(c) \/ Prepare(c) \/ Backup(c) \/ Open(c) \/ Fill(c) \/ WriteFails(c)
         \/ Restore(c) \/ RestoreFails(c),
         Calm(c)
  PROVE  NotesInv'
<1>1. /\ script' = script /\ store' = store /\ notes' = notes
      /\ call[c].pc \in {"check", "prepare", "backup", "open", "fill", "restore"}
      /\ call[c].pc = "check" => CheckWrite(c)
  BY DEF CheckWrite, Prepare, Backup, Open, Fill, WriteFails, Restore, RestoreFails, Quiet, Rest, At
<1>2. ~Reads(Args(c))
  <2>1. Tool(c) = "apply_patch" => ~Reads(Args(c))
    BY DEF Reads, Tool
  <2>2. QED BY <1>1, <2>1, NotAt
<1>3. ASSUME NEW fields, Set(c, fields),
             DOMAIN fields \subseteq {"pc", "writes", "at", "backup", "answer", "unrestored"},
             "pc" \in DOMAIN fields => fields.pc \notin {"new", "check", "load"},
             "pc" \notin DOMAIN fields => call[c].pc # "check",
             "answer" \in DOMAIN fields => fields.answer \in {Error, Success}
      PROVE  NotesInv'
  BY <1>1, <1>2, <1>3, WorkSeen
<1>4. CASE CheckWrite(c)
  <2>1. \/ Set(c, Answer(c, Error))
        \/ Set(c, [pc |-> "open", writes |-> <<[path |-> Path(c), text |-> Args(c).text]>>])
    BY <1>4 DEF CheckWrite
  <2>2. QED BY <1>3, <2>1 DEF Answer
<1>5. CASE Prepare(c)
  <2>1. call[c].pc = "prepare"
    BY <1>5 DEF Prepare, At
  <2>2. QED BY <1>3, <1>5, <2>1, PrepareIs DEF Answer, Updated
<1>6. CASE Backup(c)
  <2>1. call[c].pc = "backup" /\ Set(c, Updated(NextFile(c, "open"),
                    [backup |-> Append(call[c].backup, disk[Pending(c).path])]))
    BY <1>6 DEF Backup, At
  <2>2. QED BY <1>3, <2>1 DEF Updated, NextFile
<1>7. CASE Open(c)
  BY <1>3, <1>7 DEF Open, Go
<1>8. CASE Fill(c)
  <2>1. call[c].pc = "fill" /\ Set(c, Updated([pc |-> "open"], NextFile(c, "record")))
    BY <1>8 DEF Fill, At
  <2>2. QED BY <1>3, <2>1 DEF Updated, NextFile
<1>9. CASE WriteFails(c)
  <2>1. Set(c, [at |-> 1, pc |-> "restore"]) \/ Set(c, Answer(c, Error))
    BY <1>9 DEF WriteFails
  <2>2. QED BY <1>3, <2>1 DEF Answer
<1>10. CASE Restore(c)
  <2>1. call[c].pc = "restore" /\ Set(c, Updated(NextFile(c, "ended"), [answer |-> Error]))
    BY <1>10 DEF Restore, At
  <2>2. QED BY <1>3, <2>1 DEF Updated, NextFile
<1>11. CASE RestoreFails(c)
  BY <1>3, <1>11 DEF RestoreFails
<1>12. QED BY <1>4, <1>5, <1>6, <1>7, <1>8, <1>9, <1>10, <1>11

-------------------------------------------------------------------------------
(* The reads.                                                                   *)

\* What a read or an edit answers that shows no text.
LEMMA EndsOwn ==
  ASSUME FilesShape, NotesInv, NEW c \in Calls, Begun(c), NEW a, a.kind # "already",
         Set(c, Answer(c, a)), script' = script, Calm(c)
  PROVE  Grown /\ Own(c)' /\ \A d \in Calls \ {c} : call'[d] = call[d]
<1> DEFINE fields == Answer(c, a)
<1>1. DOMAIN fields = {"pc", "answer"} /\ fields.pc = "ended" /\ fields.answer = a
  BY DEF Answer
<1> HIDE DEF fields
<1>2. /\ Grown
      /\ \A d \in Calls \ {c} : call'[d] = call[d]
      /\ \A k \in DOMAIN fields : call'[c][k] = fields[k]
      /\ \A k \in CallFields \ DOMAIN fields : call'[c][k] = call[c][k]
  BY <1>1, SetGrows DEF CallFields, fields
<1>3. /\ call'[c].noted = call[c].noted /\ call'[c].seen = call[c].seen
      /\ call'[c].raw = call[c].raw /\ call'[c].spans = call[c].spans
      /\ call'[c].warned = call[c].warned
      /\ call'[c].pc = "ended" /\ call'[c].answer = a
  BY <1>1, <1>2 DEF CallFields
<1>4. Own(c)'
  BY <1>2, <1>3, OwnOf
<1>5. QED BY <1>2, <1>4

\* A read that has its text.
LEMMA ReadsOwn ==
  ASSUME FilesShape, NotesInv, NEW c \in Calls, Begun(c), Reads(Args(c)), call[c].noted = {},
         NEW fields, Set(c, fields), DOMAIN fields \subseteq {"pc", "raw", "answer"},
         script' = script, Calm(c), disk' = disk,
         "pc" \in DOMAIN fields, fields.pc # "new",
         "answer" \in DOMAIN fields => fields.answer.kind # "already",
         "raw" \in DOMAIN fields => fields.raw = disk[Path(c)].text,
         "raw" \notin DOMAIN fields => RawIs(c)
  PROVE  Grown /\ Own(c)' /\ \A d \in Calls \ {c} : call'[d] = call[d]
<1>1. /\ Grown
      /\ \A d \in Calls \ {c} : call'[d] = call[d]
      /\ \A k \in DOMAIN fields : call'[c][k] = fields[k]
      /\ \A k \in CallFields \ DOMAIN fields : call'[c][k] = call[c][k]
  BY SetGrows DEF CallFields
<1>2. /\ call'[c].noted = {} /\ call'[c].seen = call[c].seen
      /\ call'[c].answer = call[c].answer \/ call'[c].answer.kind # "already"
      /\ call'[c].raw = disk[Path(c)].text \/ (RawIs(c) /\ call'[c].raw = call[c].raw)
  BY <1>1 DEF CallFields
<1>3. /\ Own(c) /\ Args(c)' = Args(c) /\ Tool(c)' = Tool(c)
      /\ c \in disturbed => c \in disturbed'
  BY <1>1 DEF NotesInv, Grown
<1>4. RawIs(c)'
  BY <1>2, <1>3 DEF RawIs, Path
<1>5. call'[c].answer.kind = "already" => Tool(c)' = "read_file" /\ AlreadyShown(c)'
  <2>1. AlreadyShown(c) => AlreadyShown(c)'
    BY <1>1, <1>2, GrownMeans
  <2>2. QED BY <1>2, <1>3, <2>1 DEF Own
<1>6. Tool(c)' # "edit_file"
  BY <1>3 DEF Reads, Tool
<1>7. QED BY <1>1, <1>2, <1>4, <1>5, <1>6 DEF Own

LEMMA LoadReadSeen == ASSUME PatchInv, NotesInv, NEW c \in Calls, LoadRead(c) PROVE NotesInv'
<1>1. /\ FilesShape /\ Begun(c) /\ Reads(Args(c)) /\ call[c].noted = {}
      /\ script' = script /\ disk' = disk /\ store' = store /\ notes' = notes
  BY DEF PatchInv, NotesInv, Own, LoadRead, At, Begun, Quiet, Rest
<1>2. Calm(c)
  BY Still DEF LoadRead, Quiet
<1>3. CASE Set(c, Answer(c, Error)) \/ Set(c, Answer(c, [kind |-> "empty"]))
  BY <1>1, <1>2, <1>3, EndsOwn, QuietStep DEF Error
<1>4. ASSUME NEW fields, Set(c, fields), DOMAIN fields \subseteq {"pc", "raw", "answer"},
             {"pc", "raw"} \subseteq DOMAIN fields, fields.pc # "new",
             "answer" \in DOMAIN fields => fields.answer.kind # "already",
             fields.raw = disk[Path(c)].text
      PROVE  NotesInv'
  <2>1. Grown /\ Own(c)' /\ \A d \in Calls \ {c} : call'[d] = call[d]
    BY <1>1, <1>2, <1>4, ReadsOwn
  <2>2. QED BY <1>1, <1>2, <2>1, QuietStep
<1>5. Pages(c).kind # "already"
  BY DEF Pages, ReadPages, ReadDocument
<1>6. QED BY <1>3, <1>4, <1>5, LoadReadIs

\* A change of one part of a session's notes is a change of both.
LEMMA OnePart ==
  ASSUME NotesShape, NEW k \in 1 .. Len(notes), NEW x
  PROVE  /\ [notes EXCEPT ![k].cache = x]
              = [notes EXCEPT ![k].read = notes[k].read, ![k].cache = x]
         /\ [notes EXCEPT ![k].read = x]
              = [notes EXCEPT ![k].read = x, ![k].cache = notes[k].cache]
<1>1. DOMAIN notes[k] = {"read", "cache"} /\ k \in DOMAIN notes
  BY DEF NotesShape, IsSeq
<1>2. [notes[k] EXCEPT !.cache = x]
        = [[notes[k] EXCEPT !.read = notes[k].read] EXCEPT !.cache = x]
  BY <1>1
<1>3. [notes[k] EXCEPT !.read = x]
        = [[notes[k] EXCEPT !.read = x] EXCEPT !.cache = notes[k].cache]
  BY <1>1
<1>4. [notes EXCEPT ![k].cache = x]
        = [notes EXCEPT ![k].read = notes[k].read, ![k].cache = x]
  BY <1>1, <1>2
<1>5. [notes EXCEPT ![k].read = x]
        = [notes EXCEPT ![k].read = x, ![k].cache = notes[k].cache]
  BY <1>1, <1>3
<1>6. QED BY <1>4, <1>5

\* What the cache has of a range, an answer did show.
LEMMA CacheShown ==
  ASSUME PatchInv, NotesInv, NEW c \in Calls, call[c].pc = "dedup",
         CachedRange(c) # {}, IsUnchanged(c)
  PROVE  \E d \in Calls \ {c} :
           /\ Tool(d) = "read_file" /\ SameRange(c, d)
           /\ <<Path(c), disk[Path(c)].text>> \in call[d].noted
           /\ call[d].raw = disk[Path(c)].text \/ d \in disturbed
<1> DEFINE k == call[c].mine  t == disk[Path(c)].text
<1>1. FilesShape /\ Begun(c) /\ Tool(c) = "read_file" /\ call[c].noted = {}
  BY NotAt DEF NotesInv, Own, Begun
<1>2. k \in 1 .. Len(notes)
  BY <1>1 DEF NotesInv, NotesShape
<1>3. PICK e \in notes[k].cache :
        /\ Args(c).offset = e.offset /\ Args(c).limit = e.limit
        /\ e.note.path = Path(c) /\ e.note.text = t
  <2>1. PICK e \in CachedRange(c) : e.note = Note(Args(c).path, disk[Args(c).path])
    BY DEF IsUnchanged
  <2>2. e \in notes[k].cache /\ SameKey(e, Ranged(c, Note(Args(c).path, NoFile)))
    BY <2>1 DEF CachedRange
  <2>3. QED BY <2>1, <2>2 DEF SameKey, Ranged, Note, Path
<1>4. PICK d \in Calls : DidRange(d, k, e)
  BY <1>2, <1>3 DEF NotesInv, CacheNoted
<1>5. /\ Begun(d) /\ call[d].mine = k /\ <<Path(c), t>> \in call[d].noted
      /\ Reads(Args(d)) /\ Path(d) = Path(c)
      /\ Args(d).offset = e.offset /\ Args(d).limit = e.limit
      /\ call[d].raw = t \/ d \in disturbed
  BY <1>3, <1>4 DEF DidRange, Did1, Noted
<1>6. SameRange(c, d)
  BY <1>1, <1>3, <1>5 DEF NotesInv, NotesShape, OneSession, SameRange
<1>7. Tool(d) = "read_file"
  <2>1. Reads(Args(c))
    BY <1>1 DEF Reads, Tool
  <2>2. script \in Scripts /\ c \in DOMAIN script.calls /\ d \in DOMAIN script.calls
    BY <1>1 DEF FilesShape, Calls
  <2>3. QED BY <1>1, <1>5, <2>1, <2>2, ScriptsAssumption DEF Args, Path, Tool
<1>8. QED BY <1>1, <1>5, <1>6, <1>7

LEMMA DeduplicateSeen == ASSUME PatchInv, NotesInv, NEW c \in Calls, Deduplicate(c) PROVE NotesInv'
<1>1. /\ FilesShape /\ Begun(c) /\ Tool(c) = "read_file" /\ call[c].noted = {}
      /\ Reads(Args(c)) /\ call[c].pc = "dedup"
      /\ script' = script /\ disk' = disk /\ store' = store
  BY NotAt DEF NotesInv, Own, Deduplicate, At, Begun, Quiet, Rest
<1>2. Calm(c) /\ call[c].mine \in 1 .. Len(notes) /\ NotesShape
  BY <1>1, Still DEF Deduplicate, Quiet, NotesInv, NotesShape
<1>3. CASE /\ CachedRange(c) # {} /\ IsUnchanged(c) /\ notes' = notes
           /\ Set(c, [pc |-> "ended", answer |-> [kind |-> "already"],
                      seen |-> disk[Path(c)].text])
  <2> DEFINE fields == [pc |-> "ended", answer |-> [kind |-> "already"], seen |-> disk[Path(c)].text]
  <2>1. PICK d \in Calls \ {c} :
          /\ Tool(d) = "read_file" /\ SameRange(c, d)
          /\ <<Path(c), disk[Path(c)].text>> \in call[d].noted
          /\ call[d].raw = disk[Path(c)].text \/ d \in disturbed
    BY <1>1, <1>3, CacheShown
  <2>2. /\ Grown
        /\ \A b \in Calls \ {c} : call'[b] = call[b]
        /\ \A k \in DOMAIN fields : call'[c][k] = fields[k]
        /\ \A k \in CallFields \ DOMAIN fields : call'[c][k] = call[c][k]
    BY <1>1, <1>2, <1>3, SetGrows DEF CallFields
  <2>3. /\ call'[c].noted = {} /\ call'[c].seen = disk[Path(c)].text /\ call'[c].pc = "ended"
    BY <1>1, <2>2 DEF CallFields
  <2>4. Args(c)' = Args(c) /\ Args(d)' = Args(d) /\ Tool(c)' = Tool(c) /\ Tool(d)' = Tool(d)
    BY <1>1, <2>1, <2>2 DEF Grown
  <2>5. AlreadyShown(c)'
    <3>1. /\ d \in Calls' /\ Tool(d)' = "read_file" /\ SameRange(c, d)'
          /\ <<Path(c)', call'[c].seen>> \in call'[d].noted
          /\ call'[d].raw = call'[c].seen \/ d \in disturbed'
      BY <2>1, <2>2, <2>3, <2>4 DEF Grown, SameRange, SameSession, Path
    <3>2. QED BY <3>1 DEF AlreadyShown
  <2>6. Own(c)'
    BY <1>1, <2>3, <2>4, <2>5 DEF Own
  <2>7. QED BY <1>1, <1>2, <1>3, <2>2, <2>6, QuietStep
<1>4. CASE /\ notes' \in {notes, [notes EXCEPT ![call[c].mine].cache = Invalidated(@, {Path(c)})]}
           /\ \/ Set(c, Answer(c, Error))
              \/ Lines(c).kind # "error" /\ Set(c, [pc |-> "record", answer |-> Lines(c)])
  <2>1. Grown /\ Own(c)' /\ \A d \in Calls \ {c} : call'[d] = call[d]
    <3>1. CASE Set(c, Answer(c, Error))
      BY <1>1, <1>2, <3>1, EndsOwn DEF Error
    <3>2. CASE Set(c, [pc |-> "record", answer |-> Lines(c)])
      <4>1. RawIs(c)
        BY <1>1 DEF NotesInv, Own
      <4>2. Lines(c).kind # "already"
        BY DEF Lines, ReadLines
      <4>3. QED BY <1>1, <1>2, <3>2, <4>1, <4>2, ReadsOwn
    <3>3. QED BY <1>4, <3>1, <3>2
  <2>2. CASE notes' = notes
    BY <1>1, <1>2, <2>1, <2>2, QuietStep
  <2>3. CASE notes' = [notes EXCEPT ![call[c].mine].cache = Invalidated(@, {Path(c)})]
    <3> DEFINE k == call[c].mine
               left == Invalidated(notes[k].cache, {Path(c)})
    <3>1. notes' = [notes EXCEPT ![k].read = notes[k].read, ![k].cache = left]
      BY <1>2, <2>3, OnePart
    <3>2. left \subseteq notes[k].cache
      BY DEF Invalidated
    <3> HIDE DEF left
    <3>3. QED BY <1>1, <1>2, <2>1, <3>1, <3>2, OtherNotes
  <2>4. QED BY <1>4, <2>2, <2>3
<1>5. QED BY <1>3, <1>4, DeduplicateIs

LEMMA RecordsReadSeen == ASSUME PatchInv, NotesInv, NEW c \in Calls, RecordsRead(c) PROVE NotesInv'
<1>0. PICK k, p, n, new : /\ k = call[c].mine /\ p = Path(c)
                          /\ n = Note(p, disk[p]) /\ new = Ranged(c, n)
  OBVIOUS
<1> DEFINE fields == [pc |-> "ended", noted |-> IF disk[p].there THEN {<<p, disk[p].text>>} ELSE {}]
<1>1. /\ FilesShape /\ Begun(c) /\ call[c].noted = {} /\ Reads(Args(c)) /\ RawIs(c)
      /\ script' = script /\ disk' = disk /\ store' = store /\ disturbed' = disturbed
      /\ Set(c, fields)
  BY <1>0 DEF PatchInv, NotesInv, Own, RecordsRead, At, Begun, Quiet, Rest
<1>2. Calm(c) /\ k \in 1 .. Len(notes) /\ NotesShape
  BY <1>0, <1>1, Still DEF NotesInv, NotesShape
<1>3. /\ Grown
      /\ \A d \in Calls \ {c} : call'[d] = call[d]
      /\ \A f \in DOMAIN fields : call'[c][f] = fields[f]
      /\ \A f \in CallFields \ DOMAIN fields : call'[c][f] = call[c][f]
  BY <1>1, <1>2, SetGrows DEF CallFields
<1>4. /\ call'[c].pc = "ended" /\ call'[c].noted = fields.noted /\ call'[c].mine = k
      /\ call'[c].seen = call[c].seen /\ call'[c].raw = call[c].raw
      /\ call'[c].answer = call[c].answer
  BY <1>0, <1>3 DEF CallFields
<1>5. Args(c)' = Args(c) /\ Tool(c)' = Tool(c) /\ Tool(c) # "edit_file"
  BY <1>1, <1>3 DEF Grown, Reads, Tool
<1>6. Own(c)'
  <2>1. AlreadyShown(c) => AlreadyShown(c)'
    BY <1>3, <1>4, GrownMeans
  <2>2. QED BY <1>4, <1>5, <2>1 DEF Own, NotesInv
<1>7. CASE ~disk[p].there
  <2>1. notes' = notes
    BY <1>0, <1>7 DEF RecordsRead, RecordRead, Path
  <2>2. QED BY <1>1, <1>2, <1>3, <1>6, <2>1, QuietStep
<1>8. CASE disk[p].there
  <2> DEFINE r == Fresh(notes[k].read, p) \union {n}
             e == {x \in notes[k].cache : ~SameKey(x, new)} \union {new}
  <2>1. notes' = [notes EXCEPT ![k].read = r, ![k].cache = e]
    <3>1. notes' = [notes EXCEPT ![k].read = Fresh(@, p) \union {n},
                                 ![k].cache = {x \in @ : ~SameKey(x, new)} \union {new}]
      BY <1>0, <1>8 DEF RecordsRead, RecordRead, Path
    <3>2. DOMAIN notes[k] = {"read", "cache"} /\ k \in DOMAIN notes
      BY <1>2 DEF NotesShape, IsSeq
    <3>3. QED BY <3>1, <3>2
  <2>2. n.path = p /\ n.text = disk[p].text /\ new.note = n
        /\ new.offset = Args(c).offset /\ new.limit = Args(c).limit
    BY <1>0 DEF Note, Ranged
  <2>3. Did1(c, k, n)'
    BY <1>1, <1>3, <1>4, <1>8, <2>2 DEF Did1, Begun, Noted
  <2>4. DidRange(c, k, new)'
    BY <1>0, <1>1, <1>4, <1>5, <2>2, <2>3 DEF DidRange, RawIs, Path
  <2>5. /\ \A m \in r : m \in notes[k].read \/ m = n
        /\ \A x \in e : x \in notes[k].cache \/ x = new
    BY DEF Fresh
  <2> HIDE DEF r, e
  <2>6. /\ \A m \in r : \/ \E o \in notes[k].read : m.path = o.path /\ m.text = o.text
                        \/ Did1(c, k, m)'
        /\ \A x \in e : x \in notes[k].cache \/ DidRange(c, k, x)'
    BY <2>3, <2>4, <2>5
  <2>7. QED BY <1>0, <1>1, <1>2, <1>3, <1>6, <2>1, <2>6, OtherNotes
<1>9. QED BY <1>7, <1>8

-------------------------------------------------------------------------------
(* The writes.                                                                  *)

LEMMA RecordsWriteSeen ==
  ASSUME PatchInv, NotesInv, NEW c \in Calls, RecordsWrite(c)
  PROVE  NotesInv'
<1>0. PICK k : k = call[c].mine
  OBVIOUS
<1> DEFINE ps == {call[c].writes[i].path : i \in DOMAIN call[c].writes}
           here == {q \in ps : disk[q].there}
           fields == [pc |-> "ended", answer |-> Success,
                      noted |-> {<<p, disk[p].text>> : p \in here}]
           r == {n \in notes[k].read : n.path \notin ps} \union {Note(p, disk[p]) : p \in here}
           e == Invalidated(notes[k].cache, ps)
<1>1. /\ FilesShape /\ Begun(c) /\ call[c].noted = {} /\ ~Reads(Args(c))
      /\ script' = script /\ disk' = disk /\ store' = store /\ disturbed' = disturbed
      /\ Set(c, fields)
  BY DEF PatchInv, NotesInv, Own, RecordsWrite, At, Begun, Quiet, Rest
<1>2. Calm(c) /\ k \in 1 .. Len(notes) /\ NotesShape
  BY <1>0, <1>1, Still DEF NotesInv, NotesShape
<1>3. notes' = [notes EXCEPT ![k].read = r, ![k].cache = e]
  <2>1. notes' = [notes EXCEPT ![k].read = {n \in @ : n.path \notin ps}
                                             \union {Note(p, disk[p]) : p \in here},
                               ![k].cache = Invalidated(@, ps)]
    BY <1>0 DEF RecordsWrite, RecordWrites
  <2>2. DOMAIN notes[k] = {"read", "cache"} /\ k \in DOMAIN notes
    BY <1>2 DEF NotesShape, IsSeq
  <2> HIDE DEF ps, here
  <2>3. QED BY <2>1, <2>2
<1>4. /\ \A m \in r : m \in notes[k].read \/ \E p \in here : m = Note(p, disk[p])
      /\ \A x \in e : x \in notes[k].cache
  BY DEF Invalidated
<1> HIDE DEF ps, here, r, e
<1>5. /\ Grown
      /\ \A d \in Calls \ {c} : call'[d] = call[d]
      /\ \A f \in DOMAIN fields : call'[c][f] = fields[f]
      /\ \A f \in CallFields \ DOMAIN fields : call'[c][f] = call[c][f]
  BY <1>1, <1>2, SetGrows DEF CallFields
<1>6. /\ call'[c].pc = "ended" /\ call'[c].noted = {<<p, disk[p].text>> : p \in here}
      /\ call'[c].mine = k /\ call'[c].seen = call[c].seen /\ call'[c].raw = call[c].raw
      /\ call'[c].spans = call[c].spans /\ call'[c].warned = call[c].warned
      /\ call'[c].answer = Success
  BY <1>0, <1>5 DEF CallFields
<1>7. Own(c)'
  <2>1. Known(c) => Known(c)'
    BY <1>5, <1>6, GrownMeans
  <2>2. call'[c].answer.kind # "already"
    BY <1>6 DEF Success
  <2>3. Own(c) /\ Args(c)' = Args(c) /\ Tool(c)' = Tool(c)
    BY <1>5 DEF NotesInv, Grown
  <2>4. QED BY <1>1, <1>6, <2>1, <2>2, <2>3 DEF Own
<1>8. \A n : (\E p \in here : n = Note(p, disk[p])) => Did1(c, k, n)'
  BY <1>6 DEF Did1, Begun, Noted, Note
<1>9. \A m \in r : \/ \E o \in notes[k].read : m.path = o.path /\ m.text = o.text
                   \/ Did1(c, k, m)'
  BY <1>4, <1>8
<1>10. QED BY <1>0, <1>1, <1>2, <1>3, <1>4, <1>5, <1>7, <1>9, OtherNotes

\* What an edit is not warned of, its session has noted.
LEMMA UnwarnedIsNoted ==
  ASSUME PatchInv, NotesInv, NEW c \in Calls, call[c].pc = "check", disk[Path(c)].there,
         ~CheckRead(call[c].mine, Path(c)).warned
  PROVE  \E d \in Calls \ {c} : SameSession(c, d) /\ Noted(d, Path(c), disk[Path(c)].text)
<1>1. PICK k : k = call[c].mine
  OBVIOUS
<1>2. Begun(c) /\ call[c].noted = {} /\ k \in 1 .. Len(notes)
  BY <1>1 DEF NotesInv, NotesShape, Own, Begun
<1>3. PICK n \in notes[k].read : n.path = Path(c) /\ n.text = disk[Path(c)].text
  BY <1>1 DEF CheckRead, Seen
<1>4. PICK d \in Calls : Did1(d, k, n)
  BY <1>2, <1>3 DEF NotesInv, ReadNoted
<1>5. SameSession(c, d) /\ Noted(d, Path(c), disk[Path(c)].text)
  BY <1>1, <1>2, <1>3, <1>4 DEF Did1, NotesInv, NotesShape, OneSession
<1>6. QED BY <1>2, <1>5 DEF Noted

LEMMA CheckEditSeen == ASSUME PatchInv, NotesInv, NEW c \in Calls, CheckEdit(c) PROVE NotesInv'
<1>1. /\ FilesShape /\ Begun(c) /\ call[c].noted = {} /\ Tool(c) = "edit_file"
      /\ ~Reads(Args(c)) /\ call[c].pc = "check" /\ call[c].spans = <<>>
      /\ script' = script /\ disk' = disk /\ store' = store /\ disturbed' = disturbed
  BY DEF PatchInv, NotesInv, Own, CheckEdit, At, Begun, Quiet, Rest, Reads, Tool
<1>2. Calm(c)
  BY <1>1, Still
<1>3. PICK k : k = call[c].mine /\ k \in 1 .. Len(notes) /\ NotesShape
  BY <1>1 DEF NotesInv, NotesShape
<1>4. CASE Set(c, Answer(c, Error)) /\ notes' = notes
  BY <1>1, <1>2, <1>4, EndsOwn, QuietStep DEF Error
<1>5. CASE /\ Set(c, [pc |-> "open", writes |-> <<[path |-> Path(c), text |-> Args(c).new]>>])
           /\ notes' = notes
  <2> DEFINE fields == [pc |-> "open", writes |-> <<[path |-> Path(c), text |-> Args(c).new]>>]
  <2>1. "answer" \notin DOMAIN fields /\ DOMAIN fields = {"pc", "writes"} /\ fields.pc = "open"
    OBVIOUS
  <2> HIDE DEF fields
  <2>2. Set(c, fields)
    BY <1>5 DEF fields
  <2>3. QED BY <1>1, <1>2, <1>5, <2>1, <2>2, WorkSeen, OtherTool
<1>6. CASE /\ disk[Path(c)].there
           /\ Set(c, [pc |-> "load", seen |-> disk[Path(c)].text,
                      warned |-> Args(c).old # <<>> /\ CheckRead(k, Path(c)).warned])
           /\ notes' = IF Args(c).old # <<>>
                       THEN [notes EXCEPT ![k].read = CheckRead(k, Path(c)).read] ELSE notes
  <2> DEFINE fields == [pc |-> "load", seen |-> disk[Path(c)].text,
                        warned |-> Args(c).old # <<>> /\ CheckRead(k, Path(c)).warned]
  <2>1. /\ Grown
        /\ \A d \in Calls \ {c} : call'[d] = call[d]
        /\ \A f \in DOMAIN fields : call'[c][f] = fields[f]
        /\ \A f \in CallFields \ DOMAIN fields : call'[c][f] = call[c][f]
    BY <1>1, <1>2, <1>6, SetGrows DEF CallFields
  <2>2. /\ call'[c].pc = "load" /\ call'[c].seen = disk[Path(c)].text
        /\ call'[c].noted = {} /\ call'[c].spans = <<>> /\ call'[c].answer = call[c].answer
    BY <1>1, <2>1 DEF CallFields
  <2>3. call'[c].warned <=> Args(c).old # <<>> /\ CheckRead(k, Path(c)).warned
    BY <2>1 DEF CallFields
  <2>4. Args(c)' = Args(c) /\ Tool(c)' = Tool(c) /\ \A d \in Calls : Args(d)' = Args(d)
    BY <1>1, <2>1 DEF Grown
  <2>5. SeenIs(c)'
    BY <1>1, <2>2, <2>4 DEF SeenIs, Path
  <2>6. Args(c).old # <<>> /\ ~call'[c].warned => Known(c)'
    <3>1. SUFFICES ASSUME ~CheckRead(k, Path(c)).warned PROVE Known(c)'
      BY <2>3
    <3>2. PICK d \in Calls \ {c} : SameSession(c, d) /\ Noted(d, Path(c), disk[Path(c)].text)
      BY <1>1, <1>3, <1>6, <3>1, UnwarnedIsNoted
    <3>3. d \in Calls' \ {c} /\ SameSession(c, d)' /\ Noted(d, Path(c), call[c].seen)'
      BY <2>1, <2>2, <2>4, <3>2 DEF SameSession, Noted, Path, Grown
    <3>4. QED BY <3>3 DEF Known
  <2>7. Own(c)'
    <3>1. call'[c].answer.kind # "already"
      BY <1>1, <2>2 DEF NotesInv, Own
    <3>2. QED BY <1>1, <2>2, <2>4, <2>5, <2>6, <3>1 DEF Own
  <2>8. CASE Args(c).old = <<>>
    BY <1>1, <1>2, <1>6, <2>1, <2>7, <2>8, QuietStep
  <2>9. CASE Args(c).old # <<>>
    <3> DEFINE r == CheckRead(k, Path(c)).read
               e == notes[k].cache
    <3>1. notes' = [notes EXCEPT ![k].read = r, ![k].cache = e]
      <4>1. notes' = [notes EXCEPT ![k].read = r]
        BY <1>6, <2>9
      <4> HIDE DEF r
      <4>2. QED BY <1>3, <4>1, OnePart
    <3>2. \A n \in r : \E m \in notes[k].read : n.path = m.path /\ n.text = m.text
      BY DEF CheckRead, Note
    <3> HIDE DEF r
    <3>3. \A n \in r : \/ \E m \in notes[k].read : n.path = m.path /\ n.text = m.text
                       \/ Did1(c, k, n)'
      BY <3>2
    <3>4. \A x \in e : x \in notes[k].cache \/ DidRange(c, k, x)'
      OBVIOUS
    <3> HIDE DEF e
    <3>5. QED BY <1>1, <1>2, <1>3, <2>1, <2>7, <3>1, <3>3, <3>4, OtherNotes
  <2>10. QED BY <2>8, <2>9
<1>7. QED BY <1>3, <1>4, <1>5, <1>6, CheckEditIs DEF Path

LEMMA LoadEditSeen == ASSUME PatchInv, NotesInv, NEW c \in Calls, LoadEdit(c) PROVE NotesInv'
<1>1. /\ FilesShape /\ Begun(c) /\ call[c].noted = {} /\ Tool(c) = "edit_file"
      /\ ~Reads(Args(c)) /\ call[c].pc = "load" /\ Own(c)
      /\ script' = script /\ disk' = disk /\ store' = store /\ notes' = notes
      /\ disturbed' = disturbed
  BY DEF PatchInv, NotesInv, Own, LoadEdit, At, Begun, Quiet, Rest, Reads, Tool
<1>2. Calm(c)
  BY <1>1, Still
<1>3. CASE Set(c, Answer(c, Error))
  BY <1>1, <1>2, <1>3, EndsOwn, QuietStep DEF Error
<1>4. ASSUME NEW spans, NEW ws, Args(c).old = <<>> => spans = <<>>,
             Set(c, [pc |-> "open", raw |-> disk[Path(c)].text, spans |-> spans, writes |-> ws])
      PROVE  NotesInv'
  <2> DEFINE fields == [pc |-> "open", raw |-> disk[Path(c)].text, spans |-> spans, writes |-> ws]
  <2>1. /\ Grown
        /\ \A d \in Calls \ {c} : call'[d] = call[d]
        /\ \A f \in DOMAIN fields : call'[c][f] = fields[f]
        /\ \A f \in CallFields \ DOMAIN fields : call'[c][f] = call[c][f]
    BY <1>1, <1>2, <1>4, SetGrows DEF CallFields
  <2>2. /\ call'[c].pc = "open" /\ call'[c].seen = call[c].seen
        /\ call'[c].raw = disk[Path(c)].text /\ call'[c].noted = {}
        /\ call'[c].spans = spans /\ call'[c].answer = call[c].answer
        /\ call'[c].warned = call[c].warned
    BY <1>1, <2>1 DEF CallFields
  <2>3. Args(c)' = Args(c) /\ Tool(c)' = Tool(c)
    BY <1>1, <2>1 DEF Grown
  <2>4. call'[c].raw = call'[c].seen \/ c \in disturbed'
    BY <1>1, <2>2 DEF Own, SeenIs
  <2>5. call'[c].spans # <<>> /\ ~call'[c].warned => Known(c)'
    <3>1. Known(c) => Known(c)'
      BY <2>1, <2>2, GrownMeans
    <3>2. QED BY <1>1, <1>4, <2>2, <3>1 DEF Own
  <2>6. Own(c)'
    <3>1. call'[c].answer.kind # "already"
      BY <1>1, <2>2 DEF Own
    <3>2. QED BY <1>1, <2>2, <2>3, <2>4, <2>5, <3>1 DEF Own
  <2>7. QED BY <1>1, <1>2, <2>1, <2>6, QuietStep
<1>5. QED
  <2>1. PICK new : /\ Args(c).old = <<>> => new.spans = <<>>
                   /\ \/ Set(c, Answer(c, Error))
                      \/ Set(c, [pc |-> "open", raw |-> disk[Path(c)].text, spans |-> new.spans,
                                 writes |-> <<[path |-> Path(c), text |-> new.text]>>])
    <3> DEFINE new == IF Args(c).old # <<>> THEN EditText(disk[Path(c)].text, Args(c))
                      ELSE [ok |-> Solid(disk[Path(c)].text) = {}, text |-> Args(c).new,
                            spans |-> <<>>]
    <3>1. Args(c).old = <<>> => new.spans = <<>>
      OBVIOUS
    <3>2. \/ Set(c, Answer(c, Error))
          \/ Set(c, [pc |-> "open", raw |-> disk[Path(c)].text, spans |-> new.spans,
                     writes |-> <<[path |-> Path(c), text |-> new.text]>>])
      BY LoadEditIs DEF Path
    <3>3. QED BY <3>1, <3>2
  <2>2. QED BY <1>3, <1>4, <2>1

-------------------------------------------------------------------------------
(* The end of a call, a stop, and an editor.                                    *)

LEMMA ReportSeen == ASSUME PatchInv, NotesInv, NEW c \in Calls, Report(c) PROVE NotesInv'
<1> DEFINE fields == [pc |-> "done", after |-> Snapshot(c),
                      changes |-> {p \in Targets(Args(c)) : Changed(call[c].before[p], disk[p])}]
<1>1. /\ FilesShape /\ Begun(c) /\ Set(c, fields)
      /\ script' = script /\ store' = store /\ notes' = notes
  BY DEF PatchInv, Report, At, Begun, Quiet, Rest
<1>2. Calm(c)
  BY Still DEF Report, Quiet
<1>3. DOMAIN fields = {"pc", "after", "changes"} /\ fields.pc = "done"
  OBVIOUS
<1> HIDE DEF fields
<1>4. /\ Grown
      /\ \A d \in Calls \ {c} : call'[d] = call[d]
      /\ \A f \in DOMAIN fields : call'[c][f] = fields[f]
      /\ \A f \in CallFields \ DOMAIN fields : call'[c][f] = call[c][f]
  BY <1>1, <1>2, <1>3, SetGrows DEF CallFields
<1>5. /\ call'[c].noted = call[c].noted /\ call'[c].seen = call[c].seen
      /\ call'[c].raw = call[c].raw /\ call'[c].spans = call[c].spans
      /\ call'[c].warned = call[c].warned /\ call'[c].answer = call[c].answer
      /\ call'[c].pc = "done"
  BY <1>3, <1>4 DEF CallFields
<1>6. Own(c)'
  BY <1>1, <1>4, <1>5, OwnOf
<1>7. QED BY <1>1, <1>2, <1>4, <1>6, QuietStep

LEMMA StopSeen == ASSUME PatchInv, NotesInv, NEW c \in Calls, Stop(c) PROVE NotesInv'
<1> DEFINE fields == [heard |-> FALSE]
<1>1. /\ FilesShape /\ Begun(c) /\ Set(c, fields)
      /\ script' = script /\ disk' = disk /\ store' = store /\ notes' = notes
  BY DEF PatchInv, Stop, Live, Begun, Quiet, Rest
<1>2. Calm(c)
  BY Still DEF Stop, Quiet
<1>3. /\ Grown
      /\ \A d \in Calls \ {c} : call'[d] = call[d]
      /\ \A f \in CallFields \ DOMAIN fields : call'[c][f] = call[c][f]
  BY <1>1, <1>2, SetGrows DEF CallFields
<1>4. /\ call'[c].noted = call[c].noted /\ call'[c].seen = call[c].seen
      /\ call'[c].raw = call[c].raw /\ call'[c].spans = call[c].spans
      /\ call'[c].warned = call[c].warned /\ call'[c].answer = call[c].answer
      /\ call'[c].pc = call[c].pc
  BY <1>3 DEF CallFields
<1>5. call[c].noted # {} => call'[c].pc \in {"ended", "done"}
  BY <1>4 DEF NotesInv, Own
<1>6. Own(c)'
  BY <1>1, <1>3, <1>4, <1>5, OwnOf
<1>7. QED BY <1>1, <1>2, <1>3, <1>6, QuietStep

\* A step of no call.
LEMMA NoCallSeen ==
  ASSUME FilesShape, NotesInv, Calm(0),
         script' = script, call' = call, store' = store, notes' = notes
  PROVE  NotesInv'
<1>1. Grown
  BY DEF Grown, Calls, Args, Tool, Calm, Begun
<1>2. NotesTrue'
  BY <1>1, NotesStay
<1>3. NotesShape'
  BY <1>1, SameHolders DEF Begun, NotesInv, NotesShape
<1>4. \A c \in Calls : Own(c)'
  BY <1>1, OwnKept, Script
<1>5. QED BY <1>1, <1>2, <1>3, <1>4 DEF NotesInv, NotesTrue, Grown

LEMMA EditorSeen == ASSUME PatchInv, NotesInv, NEW p \in DOMAIN disk, Editor(p) PROVE NotesInv'
<1>1. FilesShape /\ script' = script /\ call' = call /\ store' = store /\ notes' = notes
  BY DEF PatchInv, Editor
<1>2. PICK f \in {NoFile, Text(<<"b">>), Text(<<"b", "lf", "a">>)} : Written(p, 0, f)
  BY DEF Editor
<1>3. IsFile(f)
  BY TextIs DEF NoFile, IsFile
<1>4. Calm(0)
  BY <1>1, <1>2, <1>3, WrittenIs
<1>5. QED BY <1>1, <1>4, NoCallSeen

-------------------------------------------------------------------------------
(* The begin of a call.                                                         *)

\* What is kept of a store.
LEMMA Popped ==
  ASSUME NEW T, NEW s \in Seq(T), NEW i \in 1 .. Len(s)
  PROVE  RemoveAt(s, i) \in Seq(T)
<1>1. SubSeq(s, 1, i - 1) \in Seq(T)
  BY SubSeqProperties
<1>2. SubSeq(s, i + 1, Len(s)) \in Seq(T)
  BY SubSeqProperties
<1>3. QED BY <1>1, <1>2, ConcatProperties DEF RemoveAt

LEMMA KeptIs ==
  ASSUME NEW T, NEW s \in Seq(T), NEW e \in T
  PROVE  Append(s, e) \in Seq(T) /\ Tail(Append(s, e)) \in Seq(T)
<1>1. Append(s, e) \in Seq(T) /\ Append(s, e) # <<>>
  BY AppendProperties
<1>2. QED BY <1>1, HeadTailProperties

\* for_session: the notes are the session's own or new, and what the store holds it held.
LEMMA ForSessionIs ==
  ASSUME NotesShape, NEW c \in Calls, ForSession(c)
  PROVE  \E k :
           /\ \/ k = Len(notes) + 1 /\ notes' = Append(notes, NotReadYet)
              \/ /\ notes' = notes
                 /\ \E i \in 1 .. Len(store) : store[i].notes = k /\ store[i].session = Args(c).session
           /\ IsSeq(store')
           /\ \A i \in 1 .. Len(store') :
                \/ store'[i].notes = k /\ store'[i].session = Args(c).session
                \/ \E j \in 1 .. Len(store) : store'[i] = store[j]
           /\ Set(c, [pc |-> FirstStep[Args(c).tool], mine |-> k, before |-> Snapshot(c)])
<1> DEFINE s == Args(c).session
           have == {i \in DOMAIN store : store[i].session = s}
           k == IF have = {} THEN Len(notes) + 1 ELSE store[Min(have)].notes
           e == [session |-> s, notes |-> k]
           T == {store[i] : i \in 1 .. Len(store)} \union {e}
           popped == IF have = {} THEN store ELSE RemoveAt(store, Min(have))
           kept == Append(popped, e)
<1>1. IsSeq(store) /\ DOMAIN store = 1 .. Len(store) /\ Len(store) \in Nat
  BY DEF NotesShape, IsSeq
<1>2. have # {} => Min(have) \in 1 .. Len(store) /\ store[Min(have)].session = s
  <2>1. have \in SUBSET Nat
    BY <1>1
  <2>2. have # {} => Min(have) \in have
    BY <2>1, MinIs
  <2>3. QED BY <1>1, <2>2
<1>3. store \in Seq(T)
  <2>1. store \in Seq({store[i] : i \in 1 .. Len(store)})
    BY <1>1, IsSeqOf
  <2>2. {store[i] : i \in 1 .. Len(store)} \subseteq T
    OBVIOUS
  <2> HIDE DEF T
  <2>3. QED BY <2>1, <2>2
<1>4. e \in T
  OBVIOUS
<1>5. \A x \in T : \/ x.notes = k /\ x.session = s
                   \/ \E j \in 1 .. Len(store) : x = store[j]
  OBVIOUS
<1>6. /\ store' = IF Len(kept) > MaxStates THEN Tail(kept) ELSE kept
      /\ notes' = IF have = {} THEN Append(notes, NotReadYet) ELSE notes
      /\ Set(c, [pc |-> FirstStep[Args(c).tool], mine |-> k, before |-> Snapshot(c)])
  BY DEF ForSession
<1>7. \/ k = Len(notes) + 1 /\ notes' = Append(notes, NotReadYet)
      \/ /\ notes' = notes
         /\ \E i \in 1 .. Len(store) : store[i].notes = k /\ store[i].session = s
  BY <1>2, <1>6
<1> HIDE DEF T, e, k, have
<1>8. popped \in Seq(T)
  BY <1>2, <1>3, Popped
<1> HIDE DEF popped
<1>9. store' \in Seq(T)
  BY <1>4, <1>6, <1>8, KeptIs
<1>10. IsSeq(store') /\ \A i \in 1 .. Len(store') : store'[i] \in T
  <2>1. IsSeq(store')
    BY <1>9, SeqIs
  <2>2. \A i \in 1 .. Len(store') : store'[i] \in T
    BY <1>9
  <2>3. QED BY <2>1, <2>2
<1>11. \A i \in 1 .. Len(store') :
         \/ store'[i].notes = k /\ store'[i].session = s
         \/ \E j \in 1 .. Len(store) : store'[i] = store[j]
  BY <1>5, <1>10
<1>12. QED BY <1>6, <1>7, <1>10, <1>11

LEMMA BeginSeen == ASSUME PatchInv, NotesInv, NEW c \in Calls, Begin(c) PROVE NotesInv'
<1>1. PICK k :
        /\ \/ k = Len(notes) + 1 /\ notes' = Append(notes, NotReadYet)
           \/ /\ notes' = notes
              /\ \E i \in 1 .. Len(store) : store[i].notes = k /\ store[i].session = Args(c).session
        /\ IsSeq(store')
        /\ \A i \in 1 .. Len(store') :
             \/ store'[i].notes = k /\ store'[i].session = Args(c).session
             \/ \E j \in 1 .. Len(store) : store'[i] = store[j]
        /\ Set(c, [pc |-> FirstStep[Args(c).tool], mine |-> k, before |-> Snapshot(c)])
  BY ForSessionIs DEF Begin, NotesInv
<1>2. /\ FilesShape /\ call[c] = NewCall /\ script' = script
      /\ disk' = disk /\ disturbed' = disturbed /\ Tool(c) \in DOMAIN FirstStep
  BY InPatchFacts DEF PatchInv, FilesShape, Begin, At, Rest
<1>3. Calm(c)
  BY <1>2, Still
<1> DEFINE fields == [pc |-> FirstStep[Args(c).tool], mine |-> k, before |-> Snapshot(c)]
<1>4. /\ Calls' = Calls /\ \A d \in Calls : Args(d)' = Args(d)
      /\ \A d \in Calls \ {c} : call'[d] = call[d]
      /\ \A f \in DOMAIN fields : call'[c][f] = fields[f]
      /\ \A f \in CallFields \ DOMAIN fields : call'[c][f] = call[c][f]
  BY <1>1, <1>2, SetIs DEF CallFields
<1>5. /\ call'[c].pc = FirstStep[Tool(c)] /\ call'[c].mine = k
      /\ call'[c].noted = {} /\ call'[c].spans = <<>> /\ call'[c].answer = NoAnswer
  BY <1>2, <1>4 DEF CallFields, NewCall, Tool
<1>6. ~Begun(c) /\ call[c].noted = {}
  BY <1>2 DEF NewCall, Begun
<1>7. Grown
  <2>1. \A d \in Calls : Tool(d)' = Tool(d)
    BY <1>4 DEF Tool
  <2>2. \A d \in Calls : /\ call[d].noted \subseteq call'[d].noted
                         /\ call[d].noted # {} => call'[d].raw = call[d].raw
                         /\ Begun(d) => call'[d].pc # "new" /\ call'[d].mine = call[d].mine
    BY <1>4, <1>5, <1>6 DEF Begun
  <2>3. QED BY <1>2, <1>4, <2>1, <2>2 DEF Grown
<1>8. /\ IsSeq(notes') /\ Len(notes') \in Nat /\ Len(notes) \in Nat /\ Len(notes) <= Len(notes')
      /\ k \in 1 .. Len(notes')
      /\ \A i \in 1 .. Len(notes) : notes'[i] = notes[i]
      /\ \A i \in 1 .. Len(notes') : i \in 1 .. Len(notes) \/ notes'[i] = NotReadYet
  <2>1. IsSeq(notes) /\ Len(notes) \in Nat /\ \A i \in 1 .. Len(store) : store[i].notes \in 1 .. Len(notes)
    BY DEF NotesInv, NotesShape, IsSeq
  <2>2. CASE notes' = notes /\ \E i \in 1 .. Len(store) : store[i].notes = k
    BY <2>1, <2>2
  <2>3. CASE k = Len(notes) + 1 /\ notes' = Append(notes, NotReadYet)
    <3>1. /\ IsSeq(notes') /\ Len(notes') = Len(notes) + 1
          /\ \A i \in 1 .. Len(notes) : notes'[i] = notes[i]
          /\ notes'[Len(notes) + 1] = NotReadYet
      BY <2>1, <2>3, AppendIs
    <3>2. QED BY <2>1, <2>3, <3>1
  <2>4. QED BY <1>1, <2>2, <2>3
<1>9. /\ \A j \in 1 .. Len(store) : store[j].notes = k => store[j].session = Args(c).session
      /\ \A d \in Calls : Begun(d) /\ call[d].mine = k => SameSession(c, d)
  <2>1. OneSession /\ NotesShape /\ Len(notes) \in Nat
    BY DEF NotesInv, NotesShape, IsSeq
  <2>2. CASE k = Len(notes) + 1
    <3>1. \A j \in 1 .. Len(store) : store[j].notes # k
      BY <2>1, <2>2 DEF NotesShape
    <3>2. \A d \in Calls : Begun(d) => call[d].mine # k
      BY <2>1, <2>2 DEF NotesShape
    <3>3. QED BY <3>1, <3>2
  <2>3. CASE \E i \in 1 .. Len(store) : store[i].notes = k /\ store[i].session = Args(c).session
    BY <2>1, <2>3 DEF OneSession, SameSession
  <2>4. QED BY <1>1, <2>2, <2>3
<1>10. \A d \in Calls : Begun(d)' => \/ d = c /\ call'[d].mine = k
                                     \/ Begun(d) /\ call'[d].mine = call[d].mine
  BY <1>4, <1>5 DEF Begun
<1>11. OneSession'
  <2>1. ASSUME NEW i \in 1 .. Len(store'), NEW j \in 1 .. Len(store'),
               store'[i].notes = store'[j].notes
        PROVE  store'[i].session = store'[j].session
    <3>1. \A a \in 1 .. Len(store), b \in 1 .. Len(store) :
            store[a].notes = store[b].notes => store[a].session = store[b].session
      BY DEF NotesInv, NotesShape, OneSession
    <3>2. \/ store'[i].notes = k /\ store'[i].session = Args(c).session
          \/ \E a \in 1 .. Len(store) : store'[i] = store[a]
      BY <1>1
    <3>3. \/ store'[j].notes = k /\ store'[j].session = Args(c).session
          \/ \E a \in 1 .. Len(store) : store'[j] = store[a]
      BY <1>1
    <3>4. QED BY <1>9, <2>1, <3>1, <3>2, <3>3
  <2>2. ASSUME NEW i \in 1 .. Len(store'), NEW d \in Calls, Begun(d)',
               call'[d].mine = store'[i].notes
        PROVE  Args(d)'.session = store'[i].session
    <3>1. CASE d = c /\ call'[d].mine = k
      BY <1>1, <1>4, <1>9, <2>2, <3>1
    <3>2. CASE Begun(d) /\ call'[d].mine = call[d].mine
      <4>1. \/ store'[i].notes = k /\ store'[i].session = Args(c).session
            \/ \E a \in 1 .. Len(store) : store'[i] = store[a]
        BY <1>1
      <4>2. \A a \in 1 .. Len(store) :
              call[d].mine = store[a].notes => Args(d).session = store[a].session
        BY <3>2 DEF NotesInv, NotesShape, OneSession
      <4>3. call[d].mine = k => Args(c).session = Args(d).session
        BY <1>9, <3>2 DEF SameSession
      <4>4. QED BY <1>4, <2>2, <3>2, <4>1, <4>2, <4>3
    <3>3. QED BY <1>10, <2>2, <3>1, <3>2
  <2>3. ASSUME NEW b \in Calls, NEW d \in Calls, Begun(b)', Begun(d)',
               call'[b].mine = call'[d].mine
        PROVE  SameSession(b, d)'
    <3>1. SameSession(b, d)
      BY <1>9, <1>10, <2>3 DEF NotesInv, NotesShape, OneSession, SameSession
    <3>2. QED BY <1>4, <3>1 DEF SameSession
  <2>4. QED BY <1>4, <2>1, <2>2, <2>3 DEF OneSession
<1>12. NotesShape'
  <2>1. \A i \in 1 .. Len(notes') : DOMAIN notes'[i] = {"read", "cache"}
    BY <1>8 DEF NotesInv, NotesShape, NotReadYet
  <2>2. \A i \in 1 .. Len(store') : store'[i].notes \in 1 .. Len(notes')
    <3>1. \A j \in 1 .. Len(store) : store[j].notes \in 1 .. Len(notes')
      BY <1>8 DEF NotesInv, NotesShape
    <3>2. QED BY <1>1, <1>8, <3>1
  <2>3. \A d \in Calls : Begun(d)' => call'[d].mine \in 1 .. Len(notes')
    <3>1. \A d \in Calls : Begun(d) => call[d].mine \in 1 .. Len(notes')
      BY <1>8 DEF NotesInv, NotesShape
    <3>2. QED BY <1>8, <1>10, <3>1
  <2>4. QED BY <1>1, <1>4, <1>8, <1>11, <2>1, <2>2, <2>3 DEF NotesShape
<1>13. \A i \in 1 .. Len(notes') : ReadNoted(i)' /\ CacheNoted(i)'
  <2>1. ASSUME NEW i \in 1 .. Len(notes) PROVE ReadNoted(i)' /\ CacheNoted(i)'
    <3>1. ReadNoted(i) /\ CacheNoted(i) /\ notes'[i] = notes[i]
      BY <1>8 DEF NotesInv
    <3>2. ReadNoted(i)'
      BY <1>7, <3>1, GrownMeans DEF ReadNoted, Grown
    <3>3. CacheNoted(i)'
      BY <1>7, <3>1, GrownMeans DEF CacheNoted, Grown
    <3>4. QED BY <3>2, <3>3
  <2>2. ASSUME NEW i \in 1 .. Len(notes'), notes'[i] = NotReadYet
        PROVE  ReadNoted(i)' /\ CacheNoted(i)'
    BY <2>2 DEF ReadNoted, CacheNoted, NotReadYet
  <2>3. QED BY <1>8, <2>1, <2>2
<1>14. \A d \in Calls \ {c} : Own(d)'
  BY <1>2, <1>3, <1>4, <1>7, OwnKept
<1>15. Own(c)'
  <2>1. Args(c)' = Args(c) /\ Tool(c)' = Tool(c)
    BY <1>4 DEF Tool
  <2>2. call'[c].pc \notin {"dedup", "record"} /\ (Tool(c) = "edit_file" => call'[c].pc = "check")
    BY <1>2, <1>5 DEF FirstStep
  <2>3. call'[c].answer.kind # "already"
    BY <1>5 DEF NoAnswer
  <2>4. QED BY <1>5, <2>1, <2>2, <2>3 DEF Own
<1>16. QED BY <1>4, <1>12, <1>13, <1>14, <1>15 DEF NotesInv

-------------------------------------------------------------------------------
(* The invariant of the notes, and what it says of the answers.                 *)

LEMMA NotesInitially == ASSUME FilesInit PROVE NotesInv
<1>1. /\ store = <<>> /\ notes = <<>>
      /\ \A c \in Calls : call[c] = NewCall
  BY DEF FilesInit, FilesInitial, Calls
<1>2. NotesShape
  <2>1. IsSeq(<<>>) /\ Len(<<>>) = 0
    BY DEF IsSeq
  <2>2. \A c \in Calls : ~Begun(c)
    BY <1>1 DEF Begun, NewCall
  <2>3. QED BY <1>1, <2>1, <2>2 DEF NotesShape, OneSession
<1>3. \A c \in Calls : Own(c)
  <2>1. ASSUME NEW c \in Calls PROVE Own(c)
    <3>1. /\ call[c].pc = "new" /\ call[c].noted = {} /\ call[c].spans = <<>>
          /\ call[c].answer.kind = "none"
      BY <1>1 DEF NewCall, NoAnswer
    <3>2. QED BY <3>1 DEF Own
  <2>2. QED BY <2>1
<1>4. QED BY <1>1, <1>2, <1>3 DEF NotesInv

LEMMA NotesKept == ASSUME PatchInv, NotesInv, [FilesNext]_fileVars PROVE NotesInv'
<1>1. FilesShape
  BY DEF PatchInv
<1>2. ASSUME NEW c \in Calls,
             \/ Begin(c) \/ LoadRead(c) \/ Deduplicate(c) \/ RecordsRead(c)
             \/ CheckWrite(c) \/ CheckEdit(c) \/ LoadEdit(c) \/ Prepare(c) \/ Backup(c)
             \/ Open(c) \/ Fill(c) \/ WriteFails(c) \/ Restore(c) \/ RestoreFails(c)
             \/ RecordsWrite(c) \/ Report(c) \/ Stop(c)
      PROVE  NotesInv'
  <2>1. CASE \/ Begin(c) \/ LoadRead(c) \/ Deduplicate(c) \/ RecordsRead(c)
             \/ CheckEdit(c) \/ LoadEdit(c) \/ RecordsWrite(c) \/ Report(c) \/ Stop(c)
    BY <2>1, BeginSeen, LoadReadSeen, DeduplicateSeen, RecordsReadSeen, CheckEditSeen,
       LoadEditSeen, RecordsWriteSeen, ReportSeen, StopSeen
  <2>2. CASE \/ CheckWrite(c) \/ Prepare(c) \/ Backup(c) \/ Open(c) \/ Fill(c) \/ WriteFails(c)
             \/ Restore(c) \/ RestoreFails(c)
    BY <2>2, WriteStepsCalm, WriteStepsSeen
  <2>3. QED BY <1>2, <2>1, <2>2
<1>3. ASSUME NEW p \in DOMAIN disk, Editor(p) PROVE NotesInv'
  BY <1>3, EditorSeen
<1>4. CASE UNCHANGED fileVars
  <2>1. script' = script /\ call' = call /\ store' = store /\ notes' = notes
        /\ UNCHANGED <<disk, disturbed>>
    BY <1>4 DEF fileVars
  <2>2. Calm(0)
    BY <2>1, Still
  <2>3. QED BY <1>1, <2>1, <2>2, NoCallSeen
<1>5. QED BY <1>2, <1>3, <1>4 DEF FilesNext

-------------------------------------------------------------------------------
(* "file range already read" is true, and an edit is of what its session saw.   *)
LEMMA NotesInvMeans == ASSUME NotesInv PROVE NothingUnseen
<1>1. ASSUME NEW c \in Calls PROVE Did(c, "already") => AlreadyShown(c)
  BY DEF NotesInv, Own, Did
<1>2. ASSUME NEW c \in Calls, Tool(c) = "edit_file", call[c].spans # <<>>, ~call[c].warned
      PROVE  EditsWhatItSaw(c)
  <2>1. Known(c) /\ (call[c].raw = call[c].seen \/ c \in disturbed)
    BY <1>2 DEF NotesInv, Own
  <2>2. QED BY <2>1 DEF Known, Noted, EditsWhatItSaw
<1>3. QED BY <1>1, <1>2 DEF NothingUnseen

(* "file range already read" is true, and an edit without a warning is of a    *)
(* text the session was shown or wrote, for every script of files and calls,   *)
(* whatever is stopped, fails or is written from outside (read_file,           *)
(* edit_file, FileStates).                                                     *)
THEOREM NothingIsUnseen == FilesSpec => []NothingUnseen
<1>1. FilesInit => PatchInv /\ NotesInv
  BY FilesInitially, NotesInitially
<1>2. PatchInv /\ NotesInv /\ [FilesNext]_fileVars => (PatchInv /\ NotesInv)'
  BY FilesKept, NotesKept
<1>3. PatchInv /\ NotesInv => NothingUnseen
  BY NotesInvMeans
<1>4. QED BY <1>1, <1>2, <1>3, PTL DEF FilesSpec

-------------------------------------------------------------------------------
(* Shell tools: the invariant.                                                *)

Session ==
  [proc : {"none", "running", "exited"}, kids : BOOLEAN, sig : BOOLEAN,
   made : Nat, pipe : Nat, buf : Nat, drop : Nat, told : Nat, lost : Nat,
   readers : {"none", "reading", "cancelled"}, due : BOOLEAN,
   timer : {"none", "armed", "killing", "done"}, idle : BOOLEAN,
   owner : Tasks \union {None}, closed : BOOLEAN, closer : Tasks \union {None},
   stage : {"none", "timer", "kill", "readers"}, term : Tasks \union {None, "timer"},
   asked : BOOLEAN, cut : BOOLEAN]

\* Where a call can be: at the table, at its session, in an exec without
\* session, or closing.
AtLock    == {"lock", "cleanup"}
AtSession == {"poll", "send", "kill", "pollkill", "join", "grace"}
CallAt    == AtLock \union AtSession \union
             {"idle", "spawn", "communicate", "killed", "pop", "close"}

CallType ==
  [pc : CallAt, op : {"none", "start", "write", "list", "exec", "close"},
   on : Sessions \union {None}, todo : SUBSET Sessions, held : Nat, round : Nat]

ExecTypeOK ==
  /\ ses \in [Sessions -> Session] /\ task \in [Tasks -> CallType]
  /\ table \subseteq Sessions /\ shut \in BOOLEAN
  /\ lock \in Tasks \union {None} /\ cancels \in Nat

\* The manager's lock is kept while stale sessions are closed, and from the
\* count to the entry of a new one; there is room for that entry.
HoldsLock(t) == task[t].pc = "cleanup" \/ (task[t].pc = "spawn" /\ task[t].op = "start")

RoomKept ==
  /\ \A t \in Tasks : HoldsLock(t) => lock = t
  /\ Cardinality(table) <= MaxSessions
  /\ \A t \in Tasks : task[t].pc = "spawn" /\ task[t].op = "start"
                        => Cardinality(table) < MaxSessions

\* Descendants are counted once the command is gone.  A kill that began has
\* signalled the group; so has every close, unless it was cancelled or still
\* stops the timer.
Signalled ==
  \A s \in Sessions :
    /\ ses[s].kids => ses[s].proc = "exited"
    /\ ses[s].term # None \/ ses[s].asked => ses[s].sig
    /\ ses[s].stage \in {"kill", "readers"} => ses[s].sig
    /\ ses[s].closer # None => ses[s].closed
    /\ ses[s].closed => ses[s].sig \/ ses[s].cut \/ ses[s].closer # None

\* Who is inside a close of a session has it on its list and took it off the table.
ClosersClose ==
  \A s \in Sessions : ses[s].closer # None =>
    LET t == ses[s].closer IN task[t].pc \in {"cleanup", "close"} /\ s \in task[t].todo /\ s \notin table

\* A command nobody signalled is in the table, being closed, about to be closed,
\* waited for, or in a close that was cancelled.
WithinReach ==
  \A s \in Sessions : Alive(s) /\ ~ses[s].sig =>
    \/ s \in table \/ ses[s].cut \/ ses[s].closer # None
    \/ \E t \in Tasks : \/ task[t].pc = "close" /\ s \in task[t].todo
                        \/ task[t].pc = "communicate" /\ task[t].on = s

\* A call works on a session of its own, and on none before it found or spawned
\* one; what is in the table or to be closed was spawned.
OwnSession ==
  /\ \A t \in Tasks :
       /\ task[t].on # None => /\ ses[task[t].on].owner = t
                               /\ ses[task[t].on].proc # "none"
                               /\ ~ses[task[t].on].idle
       /\ task[t].on = None => task[t].held = 0 /\ task[t].pc \notin AtSession \union {"communicate", "pop"}
       /\ task[t].pc \in {"idle", "spawn"} \/ (task[t].pc \in AtLock /\ task[t].op # "write")
            => task[t].on = None
       /\ task[t].pc = "join" => Exited(task[t].on)
       /\ \A s \in task[t].todo : ses[s].proc # "none"
  /\ \A s \in table : ses[s].proc # "none"

\* What was written adds up; a command without a session has no readers.
HeldBy(s) == IF ses[s].owner \in Tasks /\ task[ses[s].owner].on = s
             THEN task[ses[s].owner].held ELSE 0

Counted(r) == r.pipe + r.buf + r.drop + r.told + r.lost

Balanced ==
  /\ \A s \in Sessions : ses[s].made = Counted(ses[s]) + HeldBy(s)
  /\ \A t \in Tasks : task[t].pc \in {"communicate", "killed"} => task[t].held = 0
  /\ \A t \in Tasks : task[t].pc = "communicate" =>
       ses[task[t].on].made = 0 /\ ses[task[t].on].readers # "reading"

\* Before any cancellation and any closing of the manager nobody takes a session
\* from a call that works on it, and what is in the table is read.
Undisturbed ==
  cancels = 0 /\ ~shut =>
    /\ \A s \in Sessions : ses[s].lost = 0
    /\ \A s \in table : \/ ses[s].readers = "reading"
                        \/ \E t \in Tasks : task[t].on = s /\ task[t].pc = "pop"
    /\ \A t \in Tasks :
         /\ task[t].on # None /\ task[t].pc \in AtLock \union AtSession
              => task[t].on \in table /\ ses[task[t].on].readers = "reading"
         /\ task[t].pc = "cleanup" => \A s \in task[t].todo : ~Busy(s)
         /\ task[t].pc = "close" => \A s \in task[t].todo : s = task[t].on

IInv ==
  /\ ExecTypeOK /\ RoomKept /\ Signalled /\ ClosersClose /\ WithinReach
  /\ OwnSession /\ Balanced /\ Undisturbed
-----------------------------------------------------------------------------
\* Lemmas about one session.

LEMMA Consts ==
  /\ None \notin Tasks /\ None \notin Sessions /\ "timer" \notin Tasks /\ "timer" # None
  /\ MaxSessions \in Nat /\ BufferLimit \in Nat /\ IsFiniteSet(Sessions)
BY ExecAssumption DEF ExecAssumption, Tasks

\* r can take the place of q: nothing that was signalled, closed or reached by
\* somebody stops being so.
Follows(r, q) ==
  /\ r \in Session /\ r.owner = q.owner /\ (r.idle => q.idle)
  /\ r.proc = "none" <=> q.proc = "none"
  /\ r.proc = "running" \/ r.kids => q.proc = "running" \/ q.kids
  /\ q.proc = "exited" => r.proc = "exited"
  /\ r.kids => r.proc = "exited"
  /\ q.sig => r.sig
  /\ r.term # None \/ r.asked => r.sig
  /\ r.closer = q.closer /\ r.closed = q.closed /\ r.cut = q.cut
  /\ r.stage \in {"kill", "readers"} => r.sig

SameOutput(r, q) ==
  /\ r.made = q.made /\ r.pipe = q.pipe /\ r.buf = q.buf /\ r.drop = q.drop
  /\ r.told = q.told /\ r.lost = q.lost /\ r.readers = q.readers

\* What a kill does not touch.
Agree(r, q) ==
  /\ SameOutput(r, q) /\ r.proc = q.proc /\ r.kids = q.kids /\ r.due = q.due
  /\ r.timer = q.timer /\ r.idle = q.idle /\ r.owner = q.owner /\ r.closed = q.closed
  /\ r.closer = q.closer /\ r.stage = q.stage /\ r.cut = q.cut

LEMMA FollowsItself ==
  ASSUME IInv, NEW s \in Sessions
  PROVE  ses[s] \in Session /\ Follows(ses[s], ses[s]) /\ SameOutput(ses[s], ses[s])
BY DEF IInv, ExecTypeOK, Signalled, Follows, SameOutput

\* kill: the group is signalled when it returns or first waits.
LEMMA KillChanges ==
  ASSUME NEW r \in Session, NEW h \in Tasks \union {"timer"}, r.term # None \/ r.asked => r.sig
  PROVE  Kill(r, h) \in Session /\ Agree(Kill(r, h), r) /\ Kill(r, h).sig
<1>1. CASE r.term # None \/ r.asked
  BY <1>1 DEF Kill, Agree, SameOutput
<1>2. CASE ~(r.term # None \/ r.asked) /\ r.proc = "exited"
  BY <1>2 DEF Kill, Session, Agree, SameOutput
<1>3. CASE ~(r.term # None \/ r.asked) /\ r.proc # "exited"
  BY <1>3 DEF Kill, Session, Agree, SameOutput
<1>. QED
  BY <1>1, <1>2, <1>3

LEMMA KillFollows ==
  ASSUME NEW r \in Session, NEW q, Follows(r, q), NEW h \in Tasks \union {"timer"}
  PROVE  Follows(Kill(r, h), q) /\ SameOutput(Kill(r, h), r) /\ Kill(r, h).sig
<1>1. Kill(r, h) \in Session /\ Agree(Kill(r, h), r) /\ Kill(r, h).sig
  BY KillChanges DEF Follows
<1>. QED
  BY <1>1 DEF Agree, Follows, SameOutput

LEMMA KillWaitedFollows ==
  ASSUME NEW r \in Session, NEW q, Follows(r, q), r.term # None
  PROVE  Follows(KillWaited(r), q) /\ SameOutput(KillWaited(r), r) /\ KillWaited(r).sig
<1>1. KillWaited(r) \in Session /\ Agree(KillWaited(r), r) /\ KillWaited(r).sig = r.sig
  BY DEF KillWaited, Session, Agree, SameOutput
<1>. QED
  BY <1>1 DEF Agree, Follows, SameOutput

\* A table that only shrinks has room for what it had room for.
LEMMA SmallerTable ==
  ASSUME IInv, NEW T \in SUBSET table
  PROVE  /\ Cardinality(T) \in Nat /\ Cardinality(table) \in Nat
         /\ Cardinality(T) <= Cardinality(table)
<1>1. IsFiniteSet(table)
  BY Consts, FS_Subset DEF IInv, ExecTypeOK
<1>. QED
  BY <1>1, FS_Subset, FS_CardinalityType

-----------------------------------------------------------------------------
\* The ways in which a step goes on.

\* Calls stay where they are, or move on at their session.
MovesOn ==
  /\ task' \in [Tasks -> CallType]
  /\ \A t \in Tasks :
       /\ task'[t].op = task[t].op /\ task'[t].on = task[t].on
       /\ task'[t].todo = task[t].todo /\ task'[t].held = task[t].held
       /\ \/ task'[t].pc = task[t].pc
          \/ /\ task[t].pc \in AtSession /\ task'[t].pc \in AtSession
             /\ task'[t].pc = "join" => Exited(task[t].on)

\* One session changes, and nothing that it wrote is counted twice or forgotten.
Changes(s, r) ==
  /\ ses' = [ses EXCEPT ![s] = r] /\ Follows(r, ses[s])
  /\ r.readers = ses[s].readers /\ r.lost = ses[s].lost
  /\ r.made + Counted(ses[s]) = ses[s].made + Counted(r)
  /\ r.made = ses[s].made \/ ses[s].readers = "reading"

\* The process, its readers, its timer or a kill.
LEMMA SessionKeeps ==
  ASSUME IInv, MovesOn, NEW s \in Sessions, NEW r, Changes(s, r),
         UNCHANGED <<table, shut, lock, cancels>>
  PROVE  IInv'
<1>. USE Consts DEF IInv
<1>1. ses' \in [Sessions -> Session] /\ \A x \in Sessions : ses'[x] = IF x = s THEN r ELSE ses[x]
  BY DEF Changes, Follows, ExecTypeOK
<1>2. \A x \in Sessions : Follows(ses'[x], ses[x])
  BY <1>1, FollowsItself DEF Changes
<1>3. ExecTypeOK'
  BY <1>1 DEF ExecTypeOK, MovesOn
<1>4. RoomKept'
  BY DEF RoomKept, HoldsLock, MovesOn, AtSession
<1>5. Signalled'
  BY <1>2 DEF Signalled, Follows
<1>6. ClosersClose'
  BY <1>2 DEF ClosersClose, Follows, MovesOn, AtSession, ExecTypeOK, Session
<1>7. WithinReach'
  BY <1>2 DEF WithinReach, Alive, Follows, MovesOn, AtSession
<1>8. OwnSession'
  <2>1. \A t \in Tasks : task[t].on \in Sessions \union {None} /\ task[t].todo \subseteq Sessions
    BY DEF ExecTypeOK, CallType
  <2>. QED
    BY <1>2, <2>1 DEF OwnSession, Follows, MovesOn, AtSession, AtLock, Exited, ExecTypeOK
<1>9. Balanced'
  <2>1. \A x \in Sessions : HeldBy(x)' = HeldBy(x) /\ HeldBy(x) \in Nat
    BY <1>2 DEF HeldBy, Follows, MovesOn, ExecTypeOK, CallType
  <2>2. \A q \in Session : q.made \in Nat /\ Counted(q) \in Nat
    BY DEF Session, Counted
  <2>3. r.made = Counted(r) + HeldBy(s)
    BY <2>1, <2>2 DEF Balanced, Changes, Follows, ExecTypeOK
  <2>4. \A x \in Sessions : ses'[x].made = Counted(ses'[x]) + HeldBy(x)'
    BY <1>1, <2>1, <2>3 DEF Balanced
  <2>5. \A t \in Tasks : task[t].pc = "communicate" => task[t].on \in Sessions
    BY DEF OwnSession, ExecTypeOK, CallType
  <2>. QED
    BY <1>1, <2>4, <2>5 DEF Balanced, Changes, MovesOn, AtSession
<1>10. Undisturbed'
  BY <1>1 DEF Undisturbed, Busy, Changes, MovesOn, AtSession, AtLock, ExecTypeOK, CallType
<1>. QED
  BY <1>3, <1>4, <1>5, <1>6, <1>7, <1>8, <1>9, <1>10

\* A call ends, and hands over or loses the output it held.
LEMMA EndKeeps ==
  ASSUME IInv, NEW t \in Tasks, task' = [task EXCEPT ![t] = NoCall],
         lock' = lock \/ (lock = t /\ lock' = None), UNCHANGED <<table, shut, cancels>>,
         task[t].pc \in {"cleanup", "close"} => task[t].todo = {}, task[t].pc # "pop",
         ses' \in [Sessions -> Session],
         \A x \in Sessions \ {task[t].on} : ses'[x] = ses[x],
         task[t].on # None =>
           LET q == ses[task[t].on]  r == ses'[task[t].on] IN
           /\ Follows(r, q) /\ r.made = q.made /\ Counted(r) = Counted(q) + task[t].held
           /\ cancels = 0 /\ ~shut => r.lost = q.lost /\ r.readers = q.readers
           /\ task[t].pc = "communicate" /\ (r.proc = "running" \/ r.kids) => r.sig
  PROVE  IInv'
<1>. USE Consts DEF IInv
<1>1. task[t].on \in Sessions \union {None}
  BY DEF ExecTypeOK, CallType
<1>2. NoCall \in CallType /\ NoCall.pc = "idle" /\ NoCall.on = None /\ NoCall.held = 0 /\ NoCall.todo = {}
  BY DEF NoCall, CallType, CallAt
<1>3. task' \in [Tasks -> CallType] /\ \A y \in Tasks : task'[y] = IF y = t THEN NoCall ELSE task[y]
  BY <1>2 DEF ExecTypeOK
<1>4. \A x \in Sessions : Follows(ses'[x], ses[x])
  BY <1>1, FollowsItself
<1>5. ExecTypeOK'
  BY <1>3 DEF ExecTypeOK
<1>6. RoomKept'
  BY <1>2, <1>3 DEF RoomKept, HoldsLock
<1>7. Signalled'
  BY <1>4 DEF Signalled, Follows
<1>8. ClosersClose'
  BY <1>3, <1>4 DEF ClosersClose, Follows, ExecTypeOK, Session
<1>9. WithinReach'
  <2>. SUFFICES ASSUME NEW x \in Sessions, Alive(x)', ~ses'[x].sig PROVE
         \/ x \in table' \/ ses'[x].cut \/ ses'[x].closer # None
         \/ \E y \in Tasks : \/ task'[y].pc = "close" /\ x \in task'[y].todo
                             \/ task'[y].pc = "communicate" /\ task'[y].on = x
    BY DEF WithinReach
  <2>1. Alive(x) /\ ~ses[x].sig
    BY <1>4 DEF Follows, Alive
  <2>2. ~(task[t].pc = "communicate" /\ task[t].on = x) /\ ~(task[t].pc = "close" /\ x \in task[t].todo)
    BY DEF Alive
  <2>. QED
    BY <1>3, <1>4, <2>1, <2>2 DEF WithinReach, Follows
<1>10. OwnSession'
  <2>1. \A y \in Tasks : task[y].on \in Sessions \union {None} /\ task[y].todo \subseteq Sessions
    BY DEF ExecTypeOK, CallType
  <2>. QED
    BY <1>2, <1>3, <1>4, <2>1 DEF OwnSession, Follows, Exited, ExecTypeOK, AtLock, AtSession
<1>11. Balanced'
  <2>1. \A q \in Session : q.made \in Nat /\ Counted(q) \in Nat
    BY DEF Session, Counted
  <2>2. \A x \in Sessions : x # task[t].on => HeldBy(x)' = HeldBy(x)
    BY <1>2, <1>3, <1>4 DEF HeldBy, Follows
  <2>3. \A x \in Sessions : x = task[t].on => HeldBy(x) = task[t].held /\ HeldBy(x)' = 0
    BY <1>2, <1>3, <1>4, Consts DEF HeldBy, Follows, OwnSession
  <2>4. task[t].held \in Nat
    BY DEF ExecTypeOK, CallType
  <2>rest. \A x \in Sessions : x = task[t].on =>
           Counted(ses'[x]) \in Nat /\ ses'[x].made = Counted(ses'[x])
    BY <2>1, <2>3, <2>4, Consts DEF Balanced, ExecTypeOK
  <2>5. \A x \in Sessions : ses'[x].made = Counted(ses'[x]) + HeldBy(x)'
    <3>1. ASSUME NEW x \in Sessions, x = task[t].on
          PROVE  ses'[x].made = Counted(ses'[x]) + HeldBy(x)'
      BY <3>1, <2>3, <2>rest
    <3>2. ASSUME NEW x \in Sessions, x # task[t].on
          PROVE  ses'[x].made = Counted(ses'[x]) + HeldBy(x)'
      BY <3>2, <2>2 DEF Balanced
    <3>. QED
      BY <3>1, <3>2
  <2>6. \A y \in Tasks \ {t} : task[y].on # None => task[y].on # task[t].on
    BY DEF OwnSession
  <2>7. \A y \in Tasks : task[y].pc = "communicate" => task[y].on \in Sessions
    BY DEF OwnSession, ExecTypeOK, CallType
  <2>. QED
    BY <1>2, <1>3, <2>5, <2>6, <2>7 DEF Balanced
<1>12. Undisturbed'
  <2>1. \A y \in Tasks \ {t} : task[y].on # None => task[y].on # task[t].on
    BY DEF OwnSession
  <2>2. \A y \in Tasks : task[y].on \in Sessions \union {None}
    BY DEF ExecTypeOK, CallType
  <2>. SUFFICES ASSUME cancels = 0, ~shut PROVE Undisturbed'
    BY DEF Undisturbed
  <2>3. \A x \in Sessions : ses'[x].lost = 0
    BY <1>1 DEF Undisturbed
  <2>4. \A y \in Tasks : task'[y].on # None /\ task'[y].pc \in AtLock \union AtSession
              => task'[y].on \in table /\ ses'[task'[y].on].readers = "reading"
    BY <1>2, <1>3, <2>1, <2>2 DEF Undisturbed
  <2>7. \A x \in table : \/ ses'[x].readers = "reading"
                         \/ \E y \in Tasks : task'[y].on = x /\ task'[y].pc = "pop"
    <3>1. \A x \in table : x \in Sessions /\ ses'[x].readers = ses[x].readers
      BY <1>1 DEF ExecTypeOK
    <3>2. \A x \in table : \/ ses[x].readers = "reading"
                           \/ \E y \in Tasks : task[y].on = x /\ task[y].pc = "pop"
      BY DEF Undisturbed
    <3>. QED
      BY <1>3, <3>1, <3>2
  <2>5. \A y \in Tasks : task'[y].pc = "cleanup" => \A x \in task'[y].todo : ~Busy(x)'
    BY <1>2, <1>3, <2>2, Consts DEF Undisturbed, Busy, ExecTypeOK, CallType
  <2>6. \A y \in Tasks : task'[y].pc = "close" => \A x \in task'[y].todo : x = task'[y].on
    BY <1>2, <1>3 DEF Undisturbed
  <2>. QED
    BY <2>3, <2>4, <2>5, <2>6, <2>7 DEF Undisturbed
<1>. QED
  BY <1>5, <1>6, <1>7, <1>8, <1>9, <1>10, <1>11, <1>12

\* A call leaves its session to close it, at once or when the lock is free, or
\* goes back to the table for another round, with the output it has so far.
LEMMA LeavesKeeps ==
  ASSUME IInv, NEW t \in Tasks, NEW s \in Sessions, s = task[t].on, NEW r, NEW u \in CallType,
         task[t].pc \in AtSession \union {"pop"},
         task' = [task EXCEPT ![t] = u], u.on = s, u.op = task[t].op,
         ses' = [ses EXCEPT ![s] = r], Follows(r, ses[s]), r.made = ses[s].made,
         Counted(r) + u.held = Counted(ses[s]) + task[t].held,
         cancels = 0 /\ ~shut => r.lost = ses[s].lost,
         \/ u.pc = "close" /\ u.todo = {s} /\ table' = table \ {s}
         \/ u.pc = "pop" /\ u.todo = task[t].todo /\ table' = table
         \/ /\ u.pc = "lock" /\ u.todo = task[t].todo /\ table' = table
            /\ u.op = "write" /\ r.readers = ses[s].readers /\ task[t].pc # "pop",
         UNCHANGED <<shut, lock, cancels>>
  PROVE  IInv'
<1>. USE Consts DEF IInv
<1>1. table' \subseteq table
  OBVIOUS
<1>2. task' \in [Tasks -> CallType] /\ \A y \in Tasks : task'[y] = IF y = t THEN u ELSE task[y]
  BY DEF ExecTypeOK
<1>3. ses' \in [Sessions -> Session] /\ \A x \in Sessions : ses'[x] = IF x = s THEN r ELSE ses[x]
  BY DEF ExecTypeOK, Follows
<1>4. \A x \in Sessions : Follows(ses'[x], ses[x])
  BY <1>3, FollowsItself
<1>5. ExecTypeOK'
  BY <1>1, <1>2, <1>3 DEF ExecTypeOK
<1>6. RoomKept'
  BY <1>1, <1>2, SmallerTable DEF RoomKept, HoldsLock
<1>7. Signalled'
  BY <1>4 DEF Signalled, Follows
<1>8. ClosersClose'
  BY <1>2, <1>4 DEF ClosersClose, Follows, ExecTypeOK, Session, AtSession
<1>9. WithinReach'
  BY <1>2, <1>4 DEF WithinReach, Follows, Alive, AtSession
<1>10. OwnSession'
  <2>1. \A y \in Tasks : task[y].on \in Sessions \union {None} /\ task[y].todo \subseteq Sessions
    BY DEF ExecTypeOK, CallType
  <2>2. \A y \in Tasks : task'[y].on # None => /\ ses'[task'[y].on].owner = y
                                              /\ ses'[task'[y].on].proc # "none"
                                              /\ ~ses'[task'[y].on].idle
    BY <1>1, <1>2, <1>4, <2>1 DEF OwnSession, Follows
  <2>3. \A y \in Tasks : task'[y].on = None =>
          task'[y].held = 0 /\ task'[y].pc \notin AtSession \union {"communicate", "pop"}
    BY <1>1, <1>2, <1>4 DEF OwnSession, ExecTypeOK, AtSession
  <2>4. \A y \in Tasks :
          task'[y].pc \in {"idle", "spawn"} \/ (task'[y].pc \in AtLock /\ task'[y].op # "write")
            => task'[y].on = None
    BY <1>1, <1>2, <1>4 DEF OwnSession, AtLock, AtSession
  <2>5. \A y \in Tasks : task'[y].pc = "join" => Exited(task[y].on)'
    <3>1. \A y \in Tasks : task'[y].pc = "join" =>
            task[y].on = task'[y].on /\ Exited(task[y].on) /\ task[y].on # None
      BY <1>1, <1>2, <1>4 DEF OwnSession, AtSession
    <3>2. \A x \in Sessions : Exited(x) => Exited(x)'
      BY <1>4 DEF Follows, Exited
    <3>3. QED BY ONLY <2>1, <3>1, <3>2 DEF Exited
  <2>6. \A y \in Tasks : \A x \in task'[y].todo : ses'[x].proc # "none"
    BY <1>1, <1>2, <1>4, <2>1 DEF OwnSession, Follows
  <2>7. \A x \in table' : ses'[x].proc # "none"
    BY <1>1, <1>2, <1>4 DEF OwnSession, Follows, ExecTypeOK
  <2>. QED
    BY ONLY <2>2, <2>3, <2>4, <2>5, <2>6, <2>7 DEF OwnSession
<1>11. Balanced'
  <2>1. \A q \in Session : q.made \in Nat /\ Counted(q) \in Nat
    BY DEF Session, Counted
  <2>2. \A x \in Sessions : x # s => HeldBy(x)' = HeldBy(x)
    BY <1>2, <1>4 DEF HeldBy, Follows
  <2>3. HeldBy(s) = task[t].held /\ HeldBy(s)' = u.held
    BY <1>2, <1>4 DEF HeldBy, Follows, OwnSession
  <2>4. task[t].held \in Nat /\ u.held \in Nat
    BY DEF ExecTypeOK, CallType
  <2>5. r.made = Counted(r) + u.held
    BY <2>1, <2>3, <2>4 DEF Balanced, ExecTypeOK, Follows
  <2>6. \A x \in Sessions : ses'[x].made = Counted(ses'[x]) + HeldBy(x)'
    BY <1>3, <2>2, <2>3, <2>5 DEF Balanced
  <2>7. \A y \in Tasks \ {t} : task[y].on # s
    BY DEF OwnSession
  <2>8. \A y \in Tasks : task[y].pc = "communicate" => task[y].on \in Sessions
    BY DEF OwnSession, ExecTypeOK, CallType
  <2>. QED
    BY <1>2, <1>3, <2>6, <2>7, <2>8 DEF Balanced
<1>12. Undisturbed'
  <2>. SUFFICES ASSUME cancels = 0, ~shut PROVE Undisturbed'
    BY DEF Undisturbed
  <2>1. \A y \in Tasks \ {t} : task[y].on # s
    BY DEF OwnSession
  <2>2. \A y \in Tasks : task[y].on \in Sessions \union {None} /\ task[y].todo \subseteq Sessions
    BY DEF ExecTypeOK, CallType
  <2>3. \A x \in Sessions : ses'[x].lost = 0
    BY <1>3 DEF Undisturbed
  <2>4. \A y \in Tasks : task'[y].on # None /\ task'[y].pc \in AtLock \union AtSession
              => task'[y].on \in table' /\ ses'[task'[y].on].readers = "reading"
    BY <1>2, <1>3, <2>1, <2>2 DEF Undisturbed, AtLock, AtSession
  <2>7. \A x \in table' : \/ ses'[x].readers = "reading"
                          \/ \E y \in Tasks : task'[y].on = x /\ task'[y].pc = "pop"
    <3>1. \A x \in table' : x \in Sessions /\ x \in table
      BY DEF ExecTypeOK
    <3>2. ASSUME NEW x \in table', x # s
          PROVE  \/ ses'[x].readers = "reading"
                 \/ \E y \in Tasks : task'[y].on = x /\ task'[y].pc = "pop"
      <4>1. \/ ses[x].readers = "reading"
            \/ \E y \in Tasks : task[y].on = x /\ task[y].pc = "pop"
        BY <3>1 DEF Undisturbed
      <4>. QED
        BY <1>2, <1>3, <3>1, <3>2, <4>1
    <3>3. ASSUME s \in table'
          PROVE  \/ ses'[s].readers = "reading"
                 \/ \E y \in Tasks : task'[y].on = s /\ task'[y].pc = "pop"
      <4>1. CASE u.pc = "pop"
        BY <1>2, <4>1
      <4>2. CASE u.pc # "pop"
        <5>1. r.readers = ses[s].readers /\ task[t].pc # "pop" /\ s \in table
          BY <3>3, <4>2
        <5>2. \A y \in Tasks : task[y].on = s => y = t
          BY <2>1
        <5>. QED
          BY <1>3, <5>1, <5>2 DEF Undisturbed
      <4>. QED
        BY <4>1, <4>2
    <3>. QED
      BY <3>2, <3>3
  <2>5. \A y \in Tasks : task'[y].pc = "cleanup" => \A x \in task'[y].todo : ~Busy(x)'
    BY <1>2, <2>2 DEF Undisturbed, Busy
  <2>6. \A y \in Tasks : task'[y].pc = "close" => \A x \in task'[y].todo : x = task'[y].on
    BY <1>2 DEF Undisturbed
  <2>. QED
    BY <2>3, <2>4, <2>5, <2>6, <2>7 DEF Undisturbed
<1>. QED
  BY <1>5, <1>6, <1>7, <1>8, <1>9, <1>10, <1>11, <1>12

-----------------------------------------------------------------------------
\* The process, its readers and the clock.

LEMMA StaysPut ==
  ASSUME IInv, UNCHANGED task
  PROVE  MovesOn
BY DEF MovesOn, IInv, ExecTypeOK

\* What the readers do not touch.
SameState(r, q) ==
  /\ r.proc = q.proc /\ r.kids = q.kids /\ r.sig = q.sig /\ r.due = q.due
  /\ r.timer = q.timer /\ r.idle = q.idle /\ r.owner = q.owner /\ r.closed = q.closed
  /\ r.closer = q.closer /\ r.stage = q.stage /\ r.term = q.term /\ r.asked = q.asked
  /\ r.cut = q.cut

LEMMA OutputKeeps ==
  ASSUME IInv, NEW s \in Sessions, Output(s) \/ ReadStream(s)
  PROVE  IInv'
<1>. DEFINE q == ses[s]
<1>1. q \in Session /\ Follows(q, q) /\ ses \in [Sessions -> Session]
  BY FollowsItself DEF IInv, ExecTypeOK
<1>2. ASSUME NEW r \in Session, SameState(r, q) PROVE Follows(r, q)
  BY <1>1, <1>2 DEF SameState, Follows
<1>3. CASE Output(s)
  <2>. DEFINE r == [q EXCEPT !.made = @ + 1, !.pipe = @ + 1]
  <2>1. r \in Session /\ SameState(r, q)
    <3>1. q.made + 1 \in Nat /\ q.pipe + 1 \in Nat
      BY <1>1 DEF Session
    <3>2. ASSUME NEW m \in Nat, NEW n \in Nat
          PROVE  LET x == [q EXCEPT !.made = m, !.pipe = n] IN x \in Session /\ SameState(x, q)
      BY <1>1 DEF Session, SameState
    <3>. QED
      BY Zenon, <3>1, <3>2
  <2>2. /\ r.made = q.made + 1 /\ r.pipe = q.pipe + 1 /\ r.buf = q.buf /\ r.drop = q.drop
        /\ r.told = q.told /\ r.lost = q.lost /\ r.readers = q.readers
    BY <1>1 DEF Session
  <2>3. ses' = [ses EXCEPT ![s] = r]
    BY <1>1, <1>3 DEF Output
  <2>4. q.readers = "reading"
    BY <1>3 DEF Output
  <2>. HIDE DEF r
  <2>5. r.made + Counted(q) = q.made + Counted(r)
    BY <1>1, <2>2 DEF Counted, Session
  <2>6. Changes(s, r)
    BY <1>2, <2>1, <2>2, <2>3, <2>4, <2>5 DEF Changes
  <2>. QED
    BY <1>3, <2>6, SessionKeeps, StaysPut DEF Output
<1>4. CASE ReadStream(s)
  <2>. DEFINE p == [q EXCEPT !.pipe = @ - 1]
              r == Buffered(p)
  <2>1. q.pipe > 0 /\ q.pipe \in Nat /\ q.buf \in Nat /\ q.drop \in Nat
    BY <1>1, <1>4 DEF ReadStream, Session
  <2>2. /\ p \in Session /\ SameState(p, q)
        /\ p.pipe = q.pipe - 1 /\ p.made = q.made /\ p.buf = q.buf /\ p.drop = q.drop
        /\ p.told = q.told /\ p.lost = q.lost /\ p.readers = q.readers
    BY <1>1, <2>1 DEF Session, SameState
  <2>3. ses' = [ses EXCEPT ![s] = r]
    BY <1>1, <1>4 DEF ReadStream
  <2>. HIDE DEF p
  <2>4. /\ r \in Session /\ SameState(r, p) /\ r.buf + r.drop = p.buf + p.drop + 1
        /\ r.made = p.made /\ r.pipe = p.pipe
        /\ r.told = p.told /\ r.lost = p.lost /\ r.readers = p.readers
    <3>1. CASE p.buf + 1 > BufferLimit
      <4>. DEFINE n == p.drop + (p.buf + 1) - BufferLimit
      <4>1. n \in Nat /\ BufferLimit + n = p.buf + p.drop + 1
        BY <2>1, <2>2, <3>1, Consts
      <4>2. r = [p EXCEPT !.buf = BufferLimit, !.drop = n]
        BY <3>1 DEF Buffered
      <4>. HIDE DEF n, r
      <4>3. /\ r \in Session /\ SameState(r, p) /\ r.buf = BufferLimit /\ r.drop = n
            /\ r.made = p.made /\ r.pipe = p.pipe
            /\ r.told = p.told /\ r.lost = p.lost /\ r.readers = p.readers
        BY <2>2, <4>1, <4>2, Consts DEF Session, SameState
      <4>. QED
        BY <4>1, <4>3
    <3>2. CASE ~(p.buf + 1 > BufferLimit)
      <4>1. r = [p EXCEPT !.buf = p.buf + 1]
        BY <3>2 DEF Buffered
      <4>. QED
        BY <2>1, <2>2, <3>2, <4>1, Consts DEF Session, SameState
    <3>. QED
      BY <3>1, <3>2
  <2>. HIDE DEF r
  <2>5. Follows(r, q)
    BY <1>2, <2>2, <2>4 DEF SameState
  <2>6. r.made + Counted(q) = q.made + Counted(r)
    <3>1. r.buf \in Nat /\ r.drop \in Nat /\ q.told \in Nat /\ q.lost \in Nat /\ q.made \in Nat
      BY <1>1, <2>4 DEF Session
    <3>2. /\ r.made = q.made /\ r.pipe = q.pipe - 1 /\ r.told = q.told /\ r.lost = q.lost
          /\ r.buf + r.drop = q.buf + q.drop + 1
      BY <2>2, <2>4
    <3>. HIDE DEF q
    <3>. QED
      BY <2>1, <3>1, <3>2 DEF Counted
  <2>7. Changes(s, r)
    BY <2>2, <2>3, <2>4, <2>5, <2>6 DEF Changes
  <2>. QED
    BY <1>4, <2>7, SessionKeeps, StaysPut DEF ReadStream
<1>. QED
  BY <1>3, <1>4

\* What does not touch the output.
LEMMA QuietKeeps ==
  ASSUME IInv, MovesOn, NEW s \in Sessions, NEW r, Follows(r, ses[s]), SameOutput(r, ses[s]),
         ses' = [ses EXCEPT ![s] = r], UNCHANGED <<table, shut, lock, cancels>>
  PROVE  IInv'
<1>1. Counted(r) = Counted(ses[s]) /\ r.made = ses[s].made
  BY DEF Counted, SameOutput
<1>2. Changes(s, r)
  BY <1>1 DEF Changes, SameOutput
<1>. QED
  BY <1>2, SessionKeeps

\* What neither an exit nor the clock touches.
Others(r, q) ==
  /\ SameOutput(r, q) /\ r.sig = q.sig /\ r.idle = q.idle /\ r.owner = q.owner
  /\ r.closed = q.closed /\ r.closer = q.closer /\ r.stage = q.stage /\ r.term = q.term
  /\ r.asked = q.asked /\ r.cut = q.cut

LEMMA ProcessKeeps ==
  ASSUME IInv, NEW s \in Sessions,
         \/ \E kids \in BOOLEAN : Exits(s, kids)
         \/ KilledDies(s) \/ KidsExit(s) \/ DeadlinePasses(s)
  PROVE  IInv'
<1>. DEFINE q == ses[s]
<1>1. q \in Session /\ Follows(q, q) /\ ses \in [Sessions -> Session]
  BY FollowsItself DEF IInv, ExecTypeOK
<1>2. ASSUME NEW kids \in BOOLEAN, Exits(s, kids) PROVE IInv'
  <2>1. LET r == [q EXCEPT !.proc = "exited", !.kids = kids] IN Follows(r, q) /\ SameOutput(r, q)
    BY ZenonT(40), <1>1, <1>2 DEF Exits, Session, Follows, SameOutput
  <2>. QED
    BY Zenon, <1>1, <1>2, <2>1, QuietKeeps, StaysPut DEF Exits
<1>3. CASE KilledDies(s)
  <2>. DEFINE r == [q EXCEPT !.proc = "exited", !.kids = FALSE]
  <2>1. r \in Session /\ r.proc = "exited" /\ r.kids = FALSE /\ Others(r, q)
    BY <1>1 DEF Session, Others, SameOutput
  <2>2. q.proc # "none" /\ ses' = [ses EXCEPT ![s] = r]
    BY <1>1, <1>3 DEF KilledDies, Alive, Follows
  <2>. HIDE DEF r
  <2>3. Follows(r, q) /\ SameOutput(r, q)
    BY <1>1, <2>1, <2>2 DEF Follows, Others
  <2>. QED
    BY <1>3, <2>2, <2>3, QuietKeeps, StaysPut DEF KilledDies
<1>4. CASE KidsExit(s)
  <2>1. LET r == [q EXCEPT !.kids = FALSE] IN Follows(r, q) /\ SameOutput(r, q)
    BY ZenonT(40), <1>1, <1>4 DEF KidsExit, Exited, Session, Follows, SameOutput
  <2>. QED
    BY <1>1, <1>4, <2>1, QuietKeeps, StaysPut DEF KidsExit
<1>5. CASE DeadlinePasses(s)
  <2>. DEFINE r == [q EXCEPT !.due = TRUE]
  <2>1. r \in Session /\ r.proc = q.proc /\ r.kids = q.kids /\ Others(r, q)
    BY <1>1 DEF Session, Others, SameOutput
  <2>2. ses' = [ses EXCEPT ![s] = r]
    BY <1>1, <1>5 DEF DeadlinePasses
  <2>. HIDE DEF r
  <2>3. Follows(r, q) /\ SameOutput(r, q)
    BY <1>1, <2>1 DEF Follows, Others
  <2>. QED
    BY <1>5, <2>2, <2>3, QuietKeeps, StaysPut DEF DeadlinePasses
<1>. QED
  BY <1>2, <1>3, <1>4, <1>5

\* The timer and its kill.
LEMMA TimerKeeps ==
  ASSUME IInv, NEW s \in Sessions, WatchTimeout(s) \/ TimerKills(s)
  PROVE  IInv'
<1>. DEFINE q == ses[s]
            stopped(r) == [r EXCEPT !.timer = "done"]
            armed == [q EXCEPT !.timer = "killing"]
<1>1. q \in Session /\ Follows(q, q) /\ ses \in [Sessions -> Session] /\ SameOutput(q, q)
  BY FollowsItself DEF IInv, ExecTypeOK
<1>2. ASSUME NEW r \in Session, Follows(r, q), SameOutput(r, q)
      PROVE  Follows(stopped(r), q) /\ SameOutput(stopped(r), q)
  BY <1>2 DEF Session, Follows, SameOutput
<1>3. Follows(stopped(q), q) /\ SameOutput(stopped(q), q)
  BY <1>1, <1>2
<1>4. armed \in Session /\ Follows(armed, q) /\ SameOutput(armed, q)
  BY <1>1 DEF Session, Follows, SameOutput
<1>5. Follows(Kill(armed, "timer"), q) /\ SameOutput(Kill(armed, "timer"), q)
  <2>. HIDE DEF armed
  <2>1. Follows(Kill(armed, "timer"), q) /\ SameOutput(Kill(armed, "timer"), armed)
    BY <1>4, KillFollows
  <2>. QED
    BY <1>4, <2>1 DEF SameOutput
<1>6. Follows(Kill(q, "timer"), q) /\ SameOutput(Kill(q, "timer"), q)
  BY <1>1, KillFollows DEF SameOutput
<1>7. q.term = "timer" => /\ Follows(stopped(KillWaited(q)), q)
                          /\ SameOutput(stopped(KillWaited(q)), q)
  <2>. SUFFICES ASSUME q.term = "timer" PROVE Follows(stopped(KillWaited(q)), q)
                                              /\ SameOutput(stopped(KillWaited(q)), q)
    OBVIOUS
  <2>1. Follows(KillWaited(q), q) /\ SameOutput(KillWaited(q), q)
    BY <1>1, Consts, KillWaitedFollows
  <2>. QED
    BY <1>2, <2>1 DEF Follows
<1>8. PICK r : Follows(r, q) /\ SameOutput(r, q) /\ ses' = [ses EXCEPT ![s] = r]
  BY <1>1, <1>3, <1>5, <1>6, <1>7 DEF WatchTimeout, TimerKills
<1>. QED
  BY <1>8, QuietKeeps, StaysPut DEF WatchTimeout, TimerKills

LEMMA BecomesIdleKeeps ==
  ASSUME IInv, NEW s \in Sessions, BecomesIdle(s)
  PROVE  IInv'
<1>. DEFINE q == ses[s]  r == [q EXCEPT !.idle = TRUE]
<1>1. q \in Session /\ ses \in [Sessions -> Session]
  BY FollowsItself
  DEF IInv, ExecTypeOK
<1>2. r \in Session /\ r.idle /\ r = [q EXCEPT !.idle = r.idle]
  BY <1>1 DEF Session
<1>3. ses' = [ses EXCEPT ![s] = r]
  BY <1>1 DEF BecomesIdle
<1>. USE DEF IInv, BecomesIdle
<1>4. ExecTypeOK'
  BY <1>1, <1>2, <1>3 DEF ExecTypeOK
<1>5. RoomKept' /\ ClosersClose' /\ WithinReach' /\ Signalled'
  BY <1>1, <1>3 DEF RoomKept, HoldsLock, ClosersClose, WithinReach, Signalled, Alive, Session
<1>6. OwnSession'
  BY <1>1, <1>3 DEF OwnSession, Busy, Exited, Session
<1>7. Balanced' /\ Undisturbed'
  BY <1>1, <1>3 DEF Balanced, Counted, HeldBy, Undisturbed, Busy, Session
<1>. QED
  BY <1>4, <1>5, <1>6, <1>7

-----------------------------------------------------------------------------
\* What a call does at its session.

LEMMA CallFacts ==
  ASSUME IInv, NEW t \in Tasks
  PROVE  /\ task \in [Tasks -> CallType] /\ task[t] \in CallType
         /\ task[t].on \in Sessions \union {None} /\ task[t].todo \subseteq Sessions
         /\ task[t].held \in Nat /\ t # None
         /\ task[t].pc \in AtSession \union {"communicate", "pop"} => task[t].on \in Sessions
BY Consts DEF IInv, ExecTypeOK, CallType, OwnSession

LEMMA GotoMoves ==
  ASSUME IInv, NEW t \in Tasks, NEW pc \in AtSession, task[t].pc \in AtSession,
         pc = "join" => Exited(task[t].on), Goto(t, pc)
  PROVE  MovesOn
<1>1. task' \in [Tasks -> CallType]
  BY CallFacts DEF Goto, CallType, CallAt
<1>. QED
  BY <1>1, CallFacts DEF Goto, MovesOn, CallType

LEMMA MovesKeep ==
  ASSUME IInv, MovesOn, NEW s \in Sessions, UNCHANGED <<ses, table, shut, lock, cancels>>
  PROVE  IInv'
<1>1. ses' = [ses EXCEPT ![s] = ses[s]]
  BY DEF IInv, ExecTypeOK
<1>. QED
  BY <1>1, FollowsItself, QuietKeeps

LEMMA KillKeeps ==
  ASSUME IInv, MovesOn, NEW s \in Sessions, NEW t \in Tasks,
         \/ ses' = [ses EXCEPT ![s] = Kill(ses[s], t)]
         \/ ses[s].term = t /\ ses' = [ses EXCEPT ![s] = KillWaited(ses[s])],
         UNCHANGED <<table, shut, lock, cancels>>
  PROVE  IInv'
<1>1. PICK r : Follows(r, ses[s]) /\ SameOutput(r, ses[s]) /\ ses' = [ses EXCEPT ![s] = r]
  BY FollowsItself, KillFollows, KillWaitedFollows, CallFacts
<1>. QED
  BY <1>1, QuietKeeps

LEMMA SentKeeps ==
  ASSUME IInv, NEW t \in Tasks, Sent(t) \/ PollWaited(t)
  PROVE  IInv'
<1>. DEFINE s == task[t].on
<1>1. s \in Sessions /\ task[t].pc \in AtSession
  BY CallFacts DEF Sent, PollWaited, AtSession
<1>2. PICK pc \in AtSession : Goto(t, pc) /\ (pc = "join" => Exited(s))
  BY DEF Sent, PollWaited, AfterKill, AtSession
<1>3. MovesOn
  BY <1>1, <1>2, GotoMoves
<1>4. UNCHANGED ses \/ ses' = [ses EXCEPT ![s] = Kill(ses[s], t)]
  BY DEF Sent, PollWaited
<1>5. UNCHANGED <<table, shut, lock, cancels>>
  BY DEF Sent, PollWaited
<1>. QED
  BY <1>1, <1>3, <1>4, <1>5, MovesKeep, KillKeeps

LEMMA KillStepKeeps ==
  ASSUME IInv, NEW t \in Tasks, KillStep(t)
  PROVE  IInv'
<1>. DEFINE s == task[t].on
<1>1. s \in Sessions /\ task[t].pc \in AtSession
  BY CallFacts DEF KillStep, AtSession
<1>2. CASE ses[s].asked \/ ses[s].term = t
  <2>1. PICK pc \in AtSession : Goto(t, pc) /\ (pc = "join" => Exited(s))
    BY <1>2 DEF KillStep, AfterKill, AtSession
  <2>2. MovesOn
    BY <1>1, <2>1, GotoMoves
  <2>3. CASE ses[s].asked
    <3>1. ses' = [ses EXCEPT ![s] = ses[s]]
      BY <1>2, <2>3 DEF KillStep
    <3>. QED
      BY <1>1, <2>2, <3>1, FollowsItself, QuietKeeps DEF KillStep
  <2>4. CASE ~ses[s].asked
    <3>1. ses[s].term = t /\ ses' = [ses EXCEPT ![s] = KillWaited(ses[s])]
      BY <1>2, <2>4 DEF KillStep
    <3>. QED
      BY <1>1, <2>2, <3>1, KillKeeps DEF KillStep
  <2>. QED
    BY <2>3, <2>4
<1>3. CASE ~(ses[s].asked \/ ses[s].term = t)
  BY <1>1, <1>3, StaysPut, KillKeeps DEF KillStep
<1>. QED
  BY <1>2, <1>3

\* A call tells, or loses, what it held; the buffer is taken.
LEMMA OutputFollows ==
  ASSUME NEW q \in Session, NEW r \in Session, Follows(q, q), SameState(r, q)
  PROVE  Follows(r, q)
BY DEF SameState, Follows

LEMMA Handed ==
  ASSUME NEW q \in Session, NEW n \in Nat
  PROVE  LET r == Told(q, n)  l == Lost(q, n) IN
         /\ r \in Session /\ SameState(r, q) /\ r.made = q.made /\ r.lost = q.lost
         /\ r.readers = q.readers /\ Counted(r) = Counted(q) + n
         /\ l \in Session /\ SameState(l, q) /\ l.made = q.made /\ Counted(l) = Counted(q) + n
<1>. DEFINE r == Told(q, n)  l == Lost(q, n)
<1>1. /\ q.told \in Nat /\ q.lost \in Nat /\ q.pipe \in Nat /\ q.buf \in Nat /\ q.drop \in Nat
      /\ q.told + n \in Nat /\ q.lost + n \in Nat
  BY DEF Session
<1>2. /\ r \in Session /\ SameState(r, q) /\ r.made = q.made /\ r.pipe = q.pipe /\ r.buf = q.buf
      /\ r.drop = q.drop /\ r.told = q.told + n /\ r.lost = q.lost /\ r.readers = q.readers
  <2>1. ASSUME NEW m \in Nat
        PROVE  LET x == [q EXCEPT !.told = m] IN
               /\ x \in Session /\ SameState(x, q) /\ x.made = q.made /\ x.pipe = q.pipe
               /\ x.buf = q.buf /\ x.drop = q.drop /\ x.told = m /\ x.lost = q.lost
               /\ x.readers = q.readers
    BY DEF Session, SameState
  <2>. QED
    BY <1>1, <2>1 DEF Told
<1>3. /\ l \in Session /\ SameState(l, q) /\ l.made = q.made /\ l.pipe = q.pipe /\ l.buf = q.buf
      /\ l.drop = q.drop /\ l.told = q.told /\ l.lost = q.lost + n
  <2>1. ASSUME NEW m \in Nat
        PROVE  LET x == [q EXCEPT !.lost = m] IN
               /\ x \in Session /\ SameState(x, q) /\ x.made = q.made /\ x.pipe = q.pipe
               /\ x.buf = q.buf /\ x.drop = q.drop /\ x.told = q.told /\ x.lost = m
    BY DEF Session, SameState
  <2>. QED
    BY <1>1, <2>1 DEF Lost
<1>. HIDE DEF r, l
<1>4. Counted(r) = Counted(q) + n /\ Counted(l) = Counted(q) + n
  BY <1>1, <1>2, <1>3 DEF Counted
<1>. QED
  BY <1>2, <1>3, <1>4 DEF r, l

LEMMA TellsFollows ==
  ASSUME IInv, NEW s \in Sessions, NEW n \in Nat
  PROVE  LET q == ses[s]  r == Told(q, n)  l == Lost(q, n) IN
         /\ Follows(r, q) /\ r.made = q.made /\ r.lost = q.lost /\ r.readers = q.readers
         /\ Counted(r) = Counted(q) + n
         /\ Follows(l, q) /\ l.made = q.made /\ Counted(l) = Counted(q) + n
<1>1. ses[s] \in Session /\ Follows(ses[s], ses[s])
  BY FollowsItself
<1>. QED
  BY <1>1, Handed, OutputFollows

LEMMA TakesFollows ==
  ASSUME IInv, NEW s \in Sessions, NEW h \in {"none", "reading", "cancelled"}
  PROVE  LET q == ses[s]  r == [Drained(q) EXCEPT !.readers = h] IN
         /\ r \in Session /\ Follows(r, q) /\ r.made = q.made /\ r.lost = q.lost /\ r.readers = h
         /\ Counted(r) + q.buf + q.drop = Counted(q)
<1>. DEFINE q == ses[s]  r == [Drained(q) EXCEPT !.readers = h]
<1>1. q \in Session /\ Follows(q, q)
  BY FollowsItself
<1>2. /\ q.told \in Nat /\ q.lost \in Nat /\ q.pipe \in Nat /\ q.buf \in Nat /\ q.drop \in Nat
  BY <1>1 DEF Session
<1>3. /\ r \in Session /\ SameState(r, q) /\ r.made = q.made /\ r.pipe = q.pipe /\ r.buf = 0
      /\ r.drop = 0 /\ r.told = q.told /\ r.lost = q.lost /\ r.readers = h
  BY ZenonT(40), <1>1 DEF Session, SameState, Drained
<1>. HIDE DEF q, r
<1>4. Counted(r) + q.buf + q.drop = Counted(q)
  BY <1>2, <1>3 DEF Counted
<1>. QED
  BY <1>1, <1>3, <1>4, OutputFollows DEF q, r

LEMMA TakesAndTellsFollows ==
  ASSUME IInv, NEW s \in Sessions, NEW r \in Session, Follows(r, ses[s]), NEW n \in Nat
  PROVE  LET x == Told(r, n) IN
         /\ Follows(x, ses[s]) /\ x.made = r.made /\ x.lost = r.lost /\ x.readers = r.readers
         /\ Counted(x) = Counted(r) + n
<1>. DEFINE x == Told(r, n)
<1>1. /\ x \in Session /\ SameState(x, r) /\ x.made = r.made /\ x.lost = r.lost
      /\ x.readers = r.readers /\ Counted(x) = Counted(r) + n
  BY Handed
<1>. HIDE DEF x
<1>2. Follows(x, ses[s])
  BY <1>1 DEF SameState, Follows
<1>. QED
  BY <1>1, <1>2 DEF x

\* An exec that gives up waits for its killed process.
LEMMA KilledOffKeeps ==
  ASSUME IInv, NEW t \in Tasks, NEW s \in Sessions, s = task[t].on, task[t].pc = "communicate",
         task' = [task EXCEPT ![t].pc = "killed"], NEW r, ses' = [ses EXCEPT ![s] = r],
         Follows(r, ses[s]), SameOutput(r, ses[s]), r.sig, UNCHANGED <<table, shut>>,
         lock' = lock \/ (lock = t /\ lock' = None), cancels' \in {cancels, cancels + 1}
  PROVE  IInv'
<1>. USE Consts DEF IInv
<1>1. /\ task' \in [Tasks -> CallType]
      /\ \A y \in Tasks : /\ y # t => task'[y] = task[y]
                          /\ task'[y].on = task[y].on /\ task'[y].todo = task[y].todo
                          /\ task'[y].held = task[y].held /\ task'[y].op = task[y].op
      /\ task'[t].pc = "killed"
  BY CallFacts DEF CallType, CallAt
<1>2. ses' \in [Sessions -> Session] /\ \A x \in Sessions : ses'[x] = IF x = s THEN r ELSE ses[x]
  BY DEF ExecTypeOK, Follows
<1>3. \A x \in Sessions : Follows(ses'[x], ses[x]) /\ SameOutput(ses'[x], ses[x])
  BY <1>2, FollowsItself
<1>4. ExecTypeOK'
  BY <1>1, <1>2 DEF ExecTypeOK
<1>5. RoomKept'
  BY <1>1 DEF RoomKept, HoldsLock
<1>6. Signalled'
  BY <1>3 DEF Signalled, Follows
<1>7. ClosersClose'
  BY <1>1, <1>3 DEF ClosersClose, Follows, ExecTypeOK, Session
<1>8. WithinReach'
  <2>. SUFFICES ASSUME NEW x \in Sessions, Alive(x)', ~ses'[x].sig PROVE
         \/ x \in table' \/ ses'[x].cut \/ ses'[x].closer # None
         \/ \E y \in Tasks : \/ task'[y].pc = "close" /\ x \in task'[y].todo
                             \/ task'[y].pc = "communicate" /\ task'[y].on = x
    BY DEF WithinReach
  <2>1. x # s /\ Alive(x) /\ ~ses[x].sig
    BY <1>2, <1>3 DEF Follows, Alive
  <2>. QED
    BY <1>1, <1>2, <2>1 DEF WithinReach
<1>9. OwnSession'
  <2>1. \A y \in Tasks : task[y].on \in Sessions \union {None} /\ task[y].todo \subseteq Sessions
    BY CallFacts
  <2>2. \A y \in Tasks : task'[y].on # None => /\ ses'[task'[y].on].owner = y
                                              /\ ses'[task'[y].on].proc # "none"
                                              /\ ~ses'[task'[y].on].idle
    BY <1>1, <1>3, <2>1 DEF OwnSession, Follows
  <2>3. \A y \in Tasks : task'[y].on = None =>
          task'[y].held = 0 /\ task'[y].pc \notin AtSession \union {"communicate", "pop"}
    BY <1>1, <1>3 DEF OwnSession, ExecTypeOK, AtSession
  <2>4. \A y \in Tasks :
          task'[y].pc \in {"idle", "spawn"} \/ (task'[y].pc \in AtLock /\ task'[y].op # "write")
            => task'[y].on = None
    BY <1>1, <1>3 DEF OwnSession, AtLock, AtSession
  <2>5. \A y \in Tasks : task'[y].pc = "join" => Exited(task[y].on)'
    <3>1. \A y \in Tasks : task'[y].pc = "join" =>
            task[y].on = task'[y].on /\ Exited(task[y].on) /\ task[y].on # None
      BY <1>1, <1>3 DEF OwnSession, AtSession
    <3>2. \A x \in Sessions : Exited(x) => Exited(x)'
      BY <1>3 DEF Follows, Exited
    <3>3. QED BY ONLY <2>1, <3>1, <3>2 DEF Exited
  <2>6. \A y \in Tasks : \A x \in task'[y].todo : ses'[x].proc # "none"
    BY <1>1, <1>3, <2>1 DEF OwnSession, Follows
  <2>7. \A x \in table' : ses'[x].proc # "none"
    BY <1>1, <1>3 DEF OwnSession, Follows, ExecTypeOK
  <2>. QED
    BY ONLY <2>2, <2>3, <2>4, <2>5, <2>6, <2>7 DEF OwnSession
<1>10. Balanced'
  <2>1. \A x \in Sessions : HeldBy(x)' = HeldBy(x) /\ Counted(ses'[x]) = Counted(ses[x])
    <3>1. \A x \in Sessions : HeldBy(x)' = HeldBy(x)
      BY <1>1, <1>3 DEF HeldBy, Follows
    <3>2. \A x \in Sessions : Counted(ses'[x]) = Counted(ses[x])
      BY <1>1 DEF SameOutput, Counted
    <3>. QED
      BY <3>1, <3>2
  <2>2. \A y \in Tasks : task[y].pc = "communicate" => task[y].on \in Sessions
    BY CallFacts
  <2>. QED
    BY <1>1, <1>3, <2>1, <2>2 DEF Balanced, SameOutput
<1>11. Undisturbed'
  <2>. SUFFICES ASSUME cancels' = 0, ~shut PROVE Undisturbed'
    BY DEF Undisturbed
  <2>1. cancels = 0
    BY DEF ExecTypeOK
  <2>. QED
    BY SMTT(30), <1>1, <1>3, <2>1, CallFacts DEF Undisturbed, Busy, SameOutput, AtLock, AtSession
<1>. QED
  BY <1>4, <1>5, <1>6, <1>7, <1>8, <1>9, <1>10, <1>11

-----------------------------------------------------------------------------
\* A call comes to its end.

\* One that works on no session.
LEMMA PlainEndKeeps ==
  ASSUME IInv, NEW t \in Tasks, task' = [task EXCEPT ![t] = NoCall], task[t].on = None,
         lock' = lock \/ (lock = t /\ lock' = None), UNCHANGED <<ses, table, shut, cancels>>,
         task[t].pc \in {"cleanup", "close"} => task[t].todo = {}, task[t].pc # "pop"
  PROVE  IInv'
BY EndKeeps DEF IInv, ExecTypeOK

LEMMA TurnedKeeps ==
  ASSUME IInv, NEW t \in Tasks,
         Turned(t) \/ Refused(t) \/ Listed(t) \/ SpawnFails(t)
  PROVE  IInv'
<1>1. CASE Turned(t)
  <2>1. task[t].on = None
    BY <1>1 DEF Turned, Barred, IInv, OwnSession, AtLock
  <2>. QED
    BY <1>1, <2>1, PlainEndKeeps DEF Turned
<1>2. CASE Refused(t) \/ Listed(t)
  <2>1. AtTable(t, "start") \/ AtTable(t, "list")
    BY <1>2 DEF Refused, Listed
  <2>2. task[t].on = None
    BY <2>1 DEF AtTable, IInv, OwnSession, AtLock
  <2>3. lock = None \/ lock = t
    BY <2>1 DEF AtTable, IInv, RoomKept, HoldsLock
  <2>4. (task[t].pc \in {"cleanup", "close"} => task[t].todo = {}) /\ task[t].pc # "pop"
    BY <2>1 DEF AtTable
  <2>. QED
    BY <1>2, <2>2, <2>3, <2>4, PlainEndKeeps DEF Refused, Listed
<1>3. CASE SpawnFails(t)
  <2>1. task[t].on = None
    BY <1>3 DEF SpawnFails, IInv, OwnSession
  <2>. QED
    BY <1>3, <2>1, PlainEndKeeps DEF SpawnFails
<1>. QED
  BY <1>1, <1>2, <1>3

\* One that works on a session, of which it alone changes the record.
LEMMA SessionEndKeeps ==
  ASSUME IInv, NEW t \in Tasks, task' = [task EXCEPT ![t] = NoCall], NEW s \in Sessions,
         s = task[t].on, NEW r, ses' = [ses EXCEPT ![s] = r],
         lock' = lock \/ (lock = t /\ lock' = None), UNCHANGED <<table, shut, cancels>>,
         task[t].pc \in {"cleanup", "close"} => task[t].todo = {}, task[t].pc # "pop",
         Follows(r, ses[s]), r.made = ses[s].made, Counted(r) = Counted(ses[s]) + task[t].held,
         cancels = 0 /\ ~shut => r.lost = ses[s].lost /\ r.readers = ses[s].readers,
         task[t].pc = "communicate" /\ (r.proc = "running" \/ r.kids) => r.sig
  PROVE  IInv'
<1>1. ses' \in [Sessions -> Session] /\ ses'[s] = r /\ \A x \in Sessions \ {s} : ses'[x] = ses[x]
  BY DEF IInv, ExecTypeOK, Follows
<1>. QED
  BY <1>1, EndKeeps

LEMMA ReturnKeeps ==
  ASSUME IInv, NEW t \in Tasks, Return(t), UNCHANGED <<table, shut, lock, cancels>>,
         task[t].pc \notin {"communicate", "pop"},
         task[t].pc \in {"cleanup", "close"} => task[t].todo = {}
  PROVE  IInv'
<1>1. CASE task[t].on = None
  BY <1>1, PlainEndKeeps DEF Return
<1>2. CASE task[t].on # None
  <2>. DEFINE s == task[t].on  r == Told(ses[s], task[t].held)
  <2>1. s \in Sessions /\ task[t].held \in Nat
    BY <1>2, CallFacts
  <2>2. ses' = [ses EXCEPT ![s] = r] /\ task' = [task EXCEPT ![t] = NoCall]
    BY <1>2 DEF Return
  <2>3. /\ Follows(r, ses[s]) /\ r.made = ses[s].made /\ r.lost = ses[s].lost
        /\ r.readers = ses[s].readers /\ Counted(r) = Counted(ses[s]) + task[t].held
    BY <2>1, TellsFollows
  <2>. HIDE DEF r
  <2>. QED
    BY <2>1, <2>2, <2>3, SessionEndKeeps
<1>. QED
  BY <1>1, <1>2

LEMMA SendFailsKeeps ==
  ASSUME IInv, NEW t \in Tasks, SendFails(t) \/ Closed(t)
  PROVE  IInv'
BY ReturnKeeps DEF SendFails, Closed

LEMMA KilledKeeps ==
  ASSUME IInv, NEW t \in Tasks, Killed(t)
  PROVE  IInv'
<1>1. CASE task[t].on = None
  BY <1>1, PlainEndKeeps DEF Killed
<1>2. CASE task[t].on # None
  <2>. DEFINE s == task[t].on  r == ses[s]
  <2>1. s \in Sessions /\ ses' = [ses EXCEPT ![s] = r]
    BY <1>2, CallFacts DEF Killed, IInv, ExecTypeOK
  <2>2. Counted(r) = Counted(r) + task[t].held
    BY <2>1, FollowsItself DEF Killed, IInv, Balanced, Counted, Session
  <2>. QED
    BY <2>1, <2>2, FollowsItself, SessionEndKeeps DEF Killed
<1>. QED
  BY <1>1, <1>2

LEMMA NotFoundKeeps ==
  ASSUME IInv, NEW t \in Tasks, NotFound(t)
  PROVE  IInv'
<1>1. /\ lock = None \/ lock = t
      /\ task[t].pc \in AtLock /\ (task[t].pc = "cleanup" => task[t].todo = {})
      /\ lock' = None /\ task' = [task EXCEPT ![t] = NoCall] /\ UNCHANGED <<table, shut, cancels>>
  BY DEF NotFound, AtTable, IInv, RoomKept, HoldsLock, AtLock
<1>2. CASE task[t].on = None
  BY <1>1, <1>2, PlainEndKeeps DEF NotFound, AtLock
<1>3. CASE task[t].on # None
  <2>. DEFINE s == task[t].on  r == Lost(ses[s], task[t].held)
  <2>1. s \in Sessions /\ task[t].held \in Nat
    BY <1>3, CallFacts
  <2>2. ses' = [ses EXCEPT ![s] = r]
    BY <1>3 DEF NotFound, Forfeit, Lost
  <2>3. Follows(r, ses[s]) /\ r.made = ses[s].made /\ Counted(r) = Counted(ses[s]) + task[t].held
    BY <2>1, TellsFollows
  <2>4. ~(cancels = 0 /\ ~shut)
    BY <1>1, <1>3 DEF NotFound, IInv, Undisturbed
  <2>. HIDE DEF r
  <2>. QED
    BY <1>1, <2>1, <2>2, <2>3, <2>4, SessionEndKeeps DEF AtLock
<1>. QED
  BY <1>2, <1>3

LEMMA NothingCounted ==
  ASSUME NEW q \in Session, Counted(q) = 0
  PROVE  q.buf = 0 /\ q.drop = 0 /\ q.lost = 0
<1>1. q.pipe \in Nat /\ q.buf \in Nat /\ q.drop \in Nat /\ q.told \in Nat /\ q.lost \in Nat
  BY DEF Session
<1>2. ASSUME NEW m \in Nat, NEW n \in Nat, m + n = 0 PROVE m = 0 /\ n = 0
  BY <1>2
<1>3. q.pipe + q.buf + q.drop + q.told = 0 /\ q.lost = 0
  BY <1>1, <1>2 DEF Counted
<1>4. q.pipe + q.buf + q.drop = 0
  <2>1. q.pipe + q.buf + q.drop \in Nat
    BY <1>1
  <2>. QED
    BY <1>1, <1>2, <1>3, <2>1
<1>5. q.pipe + q.buf = 0 /\ q.drop = 0
  BY <1>1, <1>2, <1>4
<1>. QED
  BY <1>1, <1>2, <1>3, <1>5

\* An exec without session gives out what its process wrote, which the model
\* counts for sessions only.
LEMMA CommunicatedKeeps ==
  ASSUME IInv, NEW t \in Tasks, Communicated(t)
  PROVE  IInv'
<1>. DEFINE s == task[t].on  q == ses[s]
<1>1. /\ s \in Sessions /\ task[t].pc = "communicate" /\ task[t].held = 0 /\ q.made = 0
      /\ s # None /\ UNCHANGED <<table, shut, lock, cancels>>
  BY CallFacts, Consts DEF Communicated, IInv, Balanced
<1>2. q \in Session /\ Follows(q, q) /\ ses \in [Sessions -> Session]
  BY <1>1, FollowsItself DEF IInv, ExecTypeOK
<1>3. CASE ~q.due
  <2>. DEFINE r == [q EXCEPT !.pipe = 0, !.told = q.made]
  <2>1. r \in Session /\ SameState(r, q) /\ r.made = q.made /\ r.pipe = 0 /\ r.told = q.made
        /\ r.buf = q.buf /\ r.drop = q.drop /\ r.lost = q.lost /\ r.readers = q.readers
    BY <1>2 DEF Session, SameState
  <2>2. ses' = [ses EXCEPT ![s] = r] /\ ~Alive(s) /\ task' = [task EXCEPT ![t] = NoCall]
    BY <1>1, <1>2, <1>3 DEF Communicated
  <2>. HIDE DEF r
  <2>3. Counted(q) = 0
    <3>1. q.owner = t
      BY <1>1 DEF IInv, OwnSession
    <3>2. HeldBy(s) = 0
      BY <1>1, <3>1 DEF HeldBy
    <3>3. q.made = Counted(q) + HeldBy(s)
      BY <1>1 DEF IInv, Balanced
    <3>4. Counted(q) \in Nat
      BY <1>2 DEF Counted, Session
    <3>. QED
      BY <1>1, <3>2, <3>3, <3>4
  <2>4. Counted(r) = 0
    <3>1. q.pipe \in Nat /\ q.buf \in Nat /\ q.drop \in Nat /\ q.told \in Nat /\ q.lost \in Nat
      BY <1>2 DEF Session
    <3>2. q.buf = 0 /\ q.drop = 0 /\ q.lost = 0
      BY <1>2, <2>3, NothingCounted
    <3>3. r.pipe = 0 /\ r.told = 0 /\ r.buf = 0 /\ r.drop = 0 /\ r.lost = 0
      BY <1>1, <2>1, <3>2
    <3>. QED
      BY <3>3 DEF Counted
  <2>5. Follows(r, q)
    BY <1>2, <2>1, OutputFollows
  <2>6. ~(r.proc = "running" \/ r.kids)
    BY <2>1, <2>2 DEF Alive, SameState
  <2>7. Counted(r) = Counted(q) + task[t].held
    BY <1>1, <2>3, <2>4
  <2>8. task[t].pc \notin {"cleanup", "close", "pop"}
    BY <1>1
  <2>. HIDE DEF q, s
  <2>. QED
    BY <1>1, <2>1, <2>2, <2>5, <2>6, <2>7, <2>8, SessionEndKeeps DEF q, s
<1>4. CASE q.due
  <2>. DEFINE r == Kill(q, t)
  <2>1. Follows(r, q) /\ SameOutput(r, q) /\ r.sig
    BY <1>2, KillFollows
  <2>2. ses' = [ses EXCEPT ![s] = r] /\ task' = [task EXCEPT ![t].pc = "killed"]
    BY <1>1, <1>4 DEF Communicated, Goto
  <2>. HIDE DEF r
  <2>. QED
    BY <1>1, <2>1, <2>2, KilledOffKeeps
<1>. QED
  BY <1>3, <1>4

-----------------------------------------------------------------------------
\* A call leaves its session.

LEMMA LeaveKeeps ==
  ASSUME IInv, NEW t \in Tasks, NEW s \in Sessions, s = task[t].on, task[t].pc \in AtSession,
         NEW n \in Nat, Leave(t, n), NEW r, ses' = [ses EXCEPT ![s] = r],
         Follows(r, ses[s]), r.made = ses[s].made,
         Counted(r) + n = Counted(ses[s]) + task[t].held,
         cancels = 0 /\ ~shut => r.lost = ses[s].lost, UNCHANGED <<shut, lock, cancels>>
  PROVE  IInv'
<1>1. CASE lock = None
  <2>. DEFINE u == [task[t] EXCEPT !.held = n, !.pc = "close", !.todo = {s}]
  <2>1. /\ u \in CallType /\ u.on = s /\ u.op = task[t].op /\ u.pc = "close"
        /\ u.todo = {s} /\ u.held = n
    BY CallFacts DEF CallType, CallAt
  <2>2. task' = [task EXCEPT ![t] = u] /\ table' = table \ {s}
    BY <1>1, CallFacts DEF Leave
  <2>. HIDE DEF u
  <2>. QED
    BY <2>1, <2>2, LeavesKeeps
<1>2. CASE lock # None
  <2>. DEFINE u == [task[t] EXCEPT !.held = n, !.pc = "pop"]
  <2>1. /\ u \in CallType /\ u.on = s /\ u.op = task[t].op /\ u.pc = "pop"
        /\ u.todo = task[t].todo /\ u.held = n
    BY CallFacts DEF CallType, CallAt
  <2>2. task' = [task EXCEPT ![t] = u] /\ table' = table
    BY <1>2, CallFacts DEF Leave
  <2>. HIDE DEF u
  <2>. QED
    BY <2>1, <2>2, LeavesKeeps
<1>. QED
  BY <1>1, <1>2

LEMMA CollectKeeps ==
  ASSUME IInv, NEW t \in Tasks, NEW h \in {"none", "reading", "cancelled"},
         task[t].pc \in {"join", "grace"}, Collect(t, h),
         Exited(task[t].on) \/ h = ses[task[t].on].readers,
         UNCHANGED <<shut, lock, cancels>>
  PROVE  IInv'
<1>. DEFINE s == task[t].on  q == ses[s]
            n == task[t].held + q.buf + q.drop
            r == [Drained(q) EXCEPT !.readers = h]
<1>1. s \in Sessions /\ task[t].held \in Nat /\ task[t].pc \in AtSession
  BY CallFacts DEF AtSession
<1>2. /\ r \in Session /\ Follows(r, q) /\ r.made = q.made /\ r.lost = q.lost /\ r.readers = h
      /\ q.buf \in Nat /\ q.drop \in Nat /\ Counted(r) + q.buf + q.drop = Counted(q)
      /\ Counted(r) \in Nat
  <2>1. \A x \in Session : Counted(x) \in Nat /\ x.buf \in Nat /\ x.drop \in Nat
    BY DEF Session, Counted
  <2>2. \A x : Follows(x, q) => x \in Session
    BY DEF Follows
  <2>3. q \in Session
    BY <1>1, FollowsItself
  <2>4. /\ r \in Session /\ Follows(r, q) /\ r.made = q.made /\ r.lost = q.lost /\ r.readers = h
        /\ Counted(r) + q.buf + q.drop = Counted(q)
    BY <1>1, TakesFollows
  <2>. HIDE DEF r, q
  <2>. QED
    BY <2>1, <2>2, <2>3, <2>4
<1>3. n \in Nat /\ Counted(r) + n = Counted(q) + task[t].held
  <2>1. ASSUME NEW a \in Nat, NEW b \in Nat, NEW c \in Nat, NEW d \in Nat
        PROVE  b + c + d \in Nat /\ a + (b + c + d) = a + c + d + b
    OBVIOUS
  <2>2. n \in Nat /\ Counted(r) + n = Counted(r) + q.buf + q.drop + task[t].held
    <3>. HIDE DEF r, q, s
    <3>. QED
      BY <1>1, <1>2, <2>1
  <2>. QED
    BY <1>2, <2>2
<1>4. CASE Exited(s) /\ ses' = [ses EXCEPT ![s] = r] /\ Leave(t, n)
  <2>. HIDE DEF r, n
  <2>. QED
    BY <1>1, <1>2, <1>3, <1>4, LeaveKeeps
<1>5. CASE /\ ~Exited(s) /\ UNCHANGED table /\ ses' = [ses EXCEPT ![s] = Told(r, n)]
           /\ task' = [task EXCEPT ![t] = NoCall]
  <2>. DEFINE x == Told(r, n)
  <2>1. /\ Follows(x, q) /\ x.made = q.made /\ x.lost = q.lost /\ x.readers = h
        /\ Counted(x) = Counted(q) + task[t].held
    <3>. HIDE DEF r, n
    <3>1. /\ Follows(x, q) /\ x.made = r.made /\ x.lost = r.lost /\ x.readers = r.readers
          /\ Counted(x) = Counted(r) + n
      BY <1>1, <1>2, <1>3, TakesAndTellsFollows
    <3>. QED
      BY <1>2, <1>3, <3>1
  <2>2. task[t].pc \notin {"cleanup", "close", "communicate", "pop"} /\ h = q.readers
    BY <1>5
  <2>. HIDE DEF x
  <2>. QED
    BY <1>1, <1>5, <2>1, <2>2, SessionEndKeeps DEF x
<1>6. CASE /\ ~Exited(s) /\ UNCHANGED table /\ task[t].op = "write"
           /\ ses' = [ses EXCEPT ![s] = r]
           /\ task' = [task EXCEPT ![t] =
                         [task[t] EXCEPT !.held = n, !.pc = "lock", !.round = @ + 1]]
  <2>. DEFINE u == [task[t] EXCEPT !.held = n, !.pc = "lock", !.round = @ + 1]
  <2>1. /\ u \in CallType /\ u.on = s /\ u.op = task[t].op /\ u.pc = "lock"
        /\ u.todo = task[t].todo /\ u.held = n
    <3>1. task[t].round + 1 \in Nat
      BY CallFacts DEF CallType
    <3>2. ASSUME NEW k \in Nat, NEW m \in Nat
          PROVE  LET x == [task[t] EXCEPT !.held = m, !.pc = "lock", !.round = k] IN
                 /\ x \in CallType /\ x.on = s /\ x.op = task[t].op /\ x.pc = "lock"
                 /\ x.todo = task[t].todo /\ x.held = m
      BY CallFacts DEF CallType, CallAt, AtLock
    <3>. QED
      BY Zenon, <1>3, <3>1, <3>2
  <2>2. task' = [task EXCEPT ![t] = u]
    BY <1>6, CallFacts
  <2>3. u.pc = "lock" /\ u.todo = task[t].todo /\ table' = table
        /\ u.op = "write" /\ r.readers = ses[s].readers /\ task[t].pc # "pop"
    BY <1>2, <1>6, <2>1
  <2>. HIDE DEF u, n, r
  <2>. QED
    BY <1>1, <1>2, <1>3, <1>6, <2>1, <2>2, <2>3, LeavesKeeps
<1>. QED
  BY <1>4, <1>5, <1>6 DEF Collect

LEMMA JoinedKeeps ==
  ASSUME IInv, NEW t \in Tasks, Joined(t) \/ Graced(t)
  PROVE  IInv'
<1>1. CASE Joined(t)
  <2>1. Exited(task[t].on)
    BY <1>1 DEF Joined, IInv, OwnSession
  <2>2. CASE Ended(task[t].on)
    BY <1>1, <2>1, <2>2, CollectKeeps DEF Joined
  <2>3. CASE ~Ended(task[t].on)
    BY <1>1, <2>1, <2>3, CollectKeeps DEF Joined
  <2>. QED
    BY <2>2, <2>3
<1>2. CASE Graced(t)
  <2>1. ses[task[t].on].readers \in {"none", "reading", "cancelled"}
    <3>1. task[t].on \in Sessions
      BY <1>2, CallFacts DEF Graced, AtSession
    <3>. QED
      BY <3>1, FollowsItself DEF Session
  <2>. QED
    BY <1>2, <2>1, CollectKeeps DEF Graced
<1>. QED
  BY <1>1, <1>2

LEMMA JoinRaisesKeeps ==
  ASSUME IInv, NEW t \in Tasks, JoinRaises(t)
  PROVE  IInv'
<1>. DEFINE s == task[t].on  q == ses[s]  r == Lost(q, task[t].held)
<1>1. /\ s \in Sessions /\ task[t].held \in Nat /\ task[t].pc = "join" /\ task[t].pc \in AtSession
      /\ ses' = [ses EXCEPT ![s] = r] /\ UNCHANGED <<shut, lock, cancels>>
  BY CallFacts DEF JoinRaises, AtSession, Forfeit, Lost
<1>2. Follows(r, q) /\ r.made = q.made /\ Counted(r) = Counted(q) + task[t].held
  BY <1>1, TellsFollows
<1>3. ~(cancels = 0 /\ ~shut)
  BY <1>1, Consts DEF JoinRaises, IInv, Undisturbed
<1>4. CASE Leave(t, 0)
  <2>1. Counted(r) + 0 = Counted(q) + task[t].held
    <3>1. \A x \in Session : Counted(x) \in Nat
      BY DEF Session, Counted
    <3>. HIDE DEF r
    <3>. QED
      BY <1>1, <1>2, <3>1 DEF Follows
  <2>. HIDE DEF r
  <2>. QED
    BY <1>1, <1>2, <1>3, <1>4, <2>1, LeaveKeeps
<1>5. CASE task' = [task EXCEPT ![t] = NoCall] /\ UNCHANGED table
  <2>. HIDE DEF r
  <2>. QED
    BY <1>1, <1>2, <1>3, <1>5, SessionEndKeeps
<1>. QED
  BY <1>4, <1>5 DEF JoinRaises

LEMMA PopKeeps ==
  ASSUME IInv, NEW t \in Tasks, Pop(t)
  PROVE  IInv'
<1>. DEFINE s == task[t].on  u == [task[t] EXCEPT !.pc = "close", !.todo = {s}]
<1>1. s \in Sessions /\ ses' = [ses EXCEPT ![s] = ses[s]]
  BY CallFacts DEF Pop, IInv, ExecTypeOK
<1>2. /\ u \in CallType /\ u.on = s /\ u.op = task[t].op /\ u.pc = "close"
      /\ u.todo = {s} /\ u.held = task[t].held
  BY <1>1, CallFacts DEF CallType, CallAt
<1>3. task' = [task EXCEPT ![t] = u] /\ table' = table \ {s} /\ task[t].pc = "pop"
  BY CallFacts DEF Pop
<1>. HIDE DEF u
<1>. QED
  BY <1>1, <1>2, <1>3, FollowsItself, LeavesKeeps DEF Pop

-----------------------------------------------------------------------------
\* At the table.

\* A call that has no session yet, or is between two rounds, moves on there.
LEMMA TableKeeps ==
  ASSUME IInv, NEW t \in Tasks, NEW u \in CallType, task' = [task EXCEPT ![t] = u],
         u.on = task[t].on, u.held = task[t].held,
         task[t].pc \in AtLock \union {"idle"}, task[t].pc = "cleanup" => task[t].todo = {},
         u.pc \in AtLock \union {"spawn"}, task[t].pc # "idle" => u.op = task[t].op,
         u.pc = "cleanup" => u.todo \subseteq Stale, u.pc # "cleanup" => u.todo = task[t].todo,
         u.pc = "spawn" => u.op # "write",
         lock' = lock \/ (lock \in {None, t} /\ lock' = t),
         u.pc = "cleanup" \/ (u.pc = "spawn" /\ u.op = "start") => lock' = t,
         u.pc = "spawn" /\ u.op = "start" => Cardinality(table) < MaxSessions,
         UNCHANGED <<ses, table, shut, cancels>>
  PROVE  IInv'
<1>. USE Consts DEF IInv
<1>1. task' \in [Tasks -> CallType] /\ \A y \in Tasks : task'[y] = IF y = t THEN u ELSE task[y]
  BY DEF ExecTypeOK
<1>2. \A y \in Tasks : task'[y].on = task[y].on /\ task'[y].held = task[y].held
  BY <1>1
<1>3. \A y \in Tasks : task[y].on \in Sessions \union {None} /\ task[y].todo \subseteq Sessions
  BY CallFacts
<1>4. ExecTypeOK'
  BY <1>1 DEF ExecTypeOK
<1>5. RoomKept'
  BY <1>1 DEF RoomKept, HoldsLock
<1>6. Signalled'
  BY DEF Signalled
<1>7. ClosersClose'
  BY <1>1 DEF ClosersClose, ExecTypeOK, Session, AtLock
<1>8. WithinReach'
  BY <1>1 DEF WithinReach, Alive, AtLock
<1>9. OwnSession'
  <2>1. u.on = None \/ (u.op = "write" /\ u.pc \in AtLock)
    BY DEF OwnSession, AtLock
  <2>2. \A x \in u.todo : ses[x].proc # "none"
    BY DEF OwnSession, Stale, AtLock
  <2>. QED
    BY <1>1, <1>3, <2>1, <2>2 DEF OwnSession, Exited, AtLock, AtSession
<1>10. Balanced'
  BY <1>1, <1>2 DEF Balanced, HeldBy, AtLock
<1>11. Undisturbed'
  <2>1. \A x \in Stale : ~Busy(x)
    BY <1>3 DEF Stale, Busy, OwnSession, ExecTypeOK
  <2>2. u.on # None => task[t].pc \in AtLock
    BY DEF OwnSession
  <2>. QED
    BY <1>1, <1>2, <1>3, <2>1, <2>2 DEF Undisturbed, Busy, AtLock
<1>. QED
  BY <1>4, <1>5, <1>6, <1>7, <1>8, <1>9, <1>10, <1>11

LEMMA CallKeeps ==
  ASSUME IInv, NEW t \in Tasks,
         (\E op \in {"start", "write", "list", "exec"} : Call(t, op)) \/ CallClose(t)
  PROVE  IInv'
<1>1. ASSUME NEW op \in {"start", "write", "list", "exec"}, Call(t, op) PROVE IInv'
  <2>. DEFINE u == [task[t] EXCEPT !.op = op, !.pc = IF op = "exec" THEN "spawn" ELSE "lock"]
  <2>1. /\ u \in CallType /\ u.on = task[t].on /\ u.held = task[t].held /\ u.todo = task[t].todo
        /\ u.op = op /\ u.pc = IF op = "exec" THEN "spawn" ELSE "lock"
    BY CallFacts DEF CallType, CallAt, AtLock
  <2>2. /\ task' = [task EXCEPT ![t] = u] /\ task[t].pc = "idle"
        /\ UNCHANGED <<ses, table, shut, lock, cancels>>
    BY <1>1 DEF Call
  <2>. HIDE DEF u
  <2>. QED
    BY <2>1, <2>2, TableKeeps DEF AtLock
<1>2. CASE CallClose(t)
  <2>. DEFINE u == [task[t] EXCEPT !.op = "close", !.pc = "lock"]
  <2>1. /\ u \in CallType /\ u.on = task[t].on /\ u.held = task[t].held /\ u.todo = task[t].todo
        /\ u.op = "close" /\ u.pc = "lock"
    BY ZenonT(40), CallFacts DEF CallType, CallAt, AtLock
  <2>2. /\ task' = [task EXCEPT ![t] = u] /\ task[t].pc = "idle"
        /\ UNCHANGED <<ses, table, shut, lock, cancels>>
    BY <1>2 DEF CallClose
  <2>. HIDE DEF u
  <2>. QED
    BY <2>1, <2>2, TableKeeps DEF AtLock
<1>. QED
  BY <1>1, <1>2

LEMMA CleanupKeeps ==
  ASSUME IInv, NEW t \in Tasks, Cleanup(t) \/ BeginSpawn(t)
  PROVE  IInv'
<1>1. CASE Cleanup(t)
  <2>. DEFINE u == [task[t] EXCEPT !.pc = "cleanup", !.todo = Stale]
  <2>1. Stale \subseteq Sessions
    BY DEF Stale, IInv, ExecTypeOK
  <2>2. /\ u \in CallType /\ u.on = task[t].on /\ u.held = task[t].held /\ u.todo = Stale
        /\ u.op = task[t].op /\ u.pc = "cleanup"
    BY ZenonT(40), <2>1, CallFacts DEF CallType, CallAt, AtLock
  <2>3. /\ task' = [task EXCEPT ![t] = u] /\ task[t].pc = "lock" /\ lock = None /\ lock' = t
        /\ UNCHANGED <<ses, table, shut, cancels>>
    BY <1>1 DEF Cleanup
  <2>. HIDE DEF u
  <2>. QED
    BY <2>2, <2>3, TableKeeps DEF AtLock
<1>2. CASE BeginSpawn(t)
  <2>. DEFINE u == [task[t] EXCEPT !.pc = "spawn"]
  <2>1. /\ u \in CallType /\ u.on = task[t].on /\ u.held = task[t].held /\ u.todo = task[t].todo
        /\ u.op = task[t].op /\ u.pc = "spawn"
    BY CallFacts DEF CallType, CallAt
  <2>2. /\ task' = [task EXCEPT ![t] = u] /\ lock' = t /\ Cardinality(table) < MaxSessions
        /\ UNCHANGED <<ses, table, shut, cancels>>
    BY <1>2 DEF BeginSpawn, Goto, Locked
  <2>3. /\ task[t].op = "start" /\ task[t].pc \in AtLock /\ lock \in {None, t}
        /\ (task[t].pc = "cleanup" => task[t].todo = {})
    BY <1>2 DEF BeginSpawn, AtTable, AtLock, IInv, RoomKept, HoldsLock
  <2>. HIDE DEF u
  <2>. QED
    BY <2>1, <2>2, <2>3, TableKeeps DEF AtLock
<1>. QED
  BY <1>1, <1>2

\* A process is spawned, under the lock when it becomes a session.
LEMMA SpawnKeeps ==
  ASSUME IInv, NEW t \in Tasks, NEW s \in Sessions, Spawn(t, s)
  PROVE  IInv'
<1>. USE Consts DEF IInv
<1>. DEFINE start == task[t].op = "start"
            r == Spawned(t, s)
            u == [task[t] EXCEPT !.on = s, !.pc = IF start THEN "poll" ELSE "communicate"]
<1>1. /\ r \in Session /\ r.proc = "running" /\ r.owner = t /\ ~r.kids /\ ~r.idle /\ ~r.closed
      /\ r.made = 0 /\ r.pipe = 0 /\ r.buf = 0 /\ r.drop = 0 /\ r.told = 0 /\ r.lost = 0
      /\ r.closer = None /\ r.stage = "none" /\ r.term = None /\ ~r.asked
      /\ r.readers = IF start THEN "reading" ELSE "none"
  BY DEF Spawned, NoProcess, Session
<1>2. /\ u \in CallType /\ u.on = s /\ u.op = task[t].op /\ u.todo = task[t].todo
      /\ u.held = task[t].held /\ u.pc = IF start THEN "poll" ELSE "communicate"
  BY ZenonT(40), CallFacts DEF CallType, CallAt, AtSession
<1>3. /\ ses' = [ses EXCEPT ![s] = r] /\ task' = [task EXCEPT ![t] = u]
      /\ task[t].pc = "spawn" /\ ses[s].proc = "none" /\ UNCHANGED <<shut, cancels>>
      /\ start => table' = table \union {s} /\ lock' = None
      /\ ~start => UNCHANGED <<table, lock>>
  BY CallFacts DEF Spawn
<1>. HIDE DEF r, u
<1>4. /\ task' \in [Tasks -> CallType]
      /\ \A y \in Tasks : task'[y] = IF y = t THEN u ELSE task[y]
  BY <1>2, <1>3 DEF ExecTypeOK
<1>5. /\ ses' \in [Sessions -> Session]
      /\ \A x \in Sessions : ses'[x] = IF x = s THEN r ELSE ses[x]
  BY <1>1, <1>3 DEF ExecTypeOK
<1>6. /\ task[t].on = None /\ task[t].held = 0 /\ s \notin table
      /\ \A y \in Tasks : task[y].on # s /\ s \notin task[y].todo
  <2>1. \A y \in Tasks : task[y].on # s
    BY <1>3 DEF OwnSession
  <2>2. \A y \in Tasks : s \notin task[y].todo
    BY <1>3 DEF OwnSession
  <2>. QED
    BY <1>3, <2>1, <2>2 DEF OwnSession
<1>7. \A y \in Tasks : task[y].on \in Sessions \union {None} /\ task[y].todo \subseteq Sessions
  BY CallFacts
<1>8. ExecTypeOK'
  BY <1>3, <1>4, <1>5 DEF ExecTypeOK
<1>9. RoomKept'
  <2>1. CASE ~start
    BY <1>2, <1>3, <1>4, <2>1 DEF RoomKept, HoldsLock
  <2>2. CASE start
    <3>1. Cardinality(table) < MaxSessions /\ lock = t
      BY <1>3, <2>2 DEF RoomKept, HoldsLock
    <3>2. IsFiniteSet(table) /\ Cardinality(table) \in Nat
      BY FS_Subset, FS_CardinalityType DEF ExecTypeOK
    <3>3. Cardinality(table') = Cardinality(table) + 1
      BY <1>3, <1>6, <2>2, <3>2, FS_AddElement
    <3>4. \A y \in Tasks : ~HoldsLock(y)'
      BY <1>2, <1>4, <2>2, <3>1 DEF RoomKept, HoldsLock
    <3>5. Cardinality(table') <= MaxSessions
      BY <3>1, <3>2, <3>3
    <3>. QED
      BY <3>4, <3>5 DEF RoomKept, HoldsLock
  <2>. QED
    BY <2>1, <2>2
<1>10. Signalled'
  BY <1>1, <1>5 DEF Signalled
<1>11. ClosersClose'
  <2>1. \A x \in Sessions : x # s => (x \in table' <=> x \in table)
    BY <1>3
  <2>. QED
    BY <1>1, <1>2, <1>3, <1>4, <1>5, <2>1 DEF ClosersClose, ExecTypeOK, Session
<1>12. WithinReach'
  BY <1>2, <1>3, <1>4, <1>5 DEF WithinReach, Alive
<1>13. OwnSession'
  <2>1. \A y \in Tasks \ {t} : task'[y] = task[y] /\ (task[y].on # None => ses'[task[y].on] = ses[task[y].on])
    BY <1>4, <1>5, <1>6, <1>7
  <2>2. \A y \in Tasks : \A x \in task'[y].todo : ses'[x].proc # "none"
    BY <1>2, <1>4, <1>5, <1>6, <1>7 DEF OwnSession
  <2>3. \A x \in table' : ses'[x].proc # "none"
    BY <1>1, <1>3, <1>5 DEF OwnSession, ExecTypeOK
  <2>4. task'[t] = u /\ ses'[s] = r
    BY <1>4, <1>5
  <2>. QED
    BY <1>1, <1>2, <2>1, <2>2, <2>3, <2>4 DEF OwnSession, Exited, AtLock, AtSession
<1>14. Balanced'
  <2>1. \A x \in Sessions : x # s => HeldBy(x)' = HeldBy(x) /\ ses'[x] = ses[x]
    BY <1>2, <1>4, <1>5, <1>6 DEF HeldBy
  <2>2. HeldBy(s)' = 0 /\ ses'[s] = r
    BY <1>1, <1>2, <1>4, <1>5, <1>6 DEF HeldBy
  <2>3. r.made = Counted(r) + 0
    BY <1>1 DEF Counted
  <2>4. \A x \in Sessions : ses'[x].made = Counted(ses'[x]) + HeldBy(x)'
    BY <2>1, <2>2, <2>3 DEF Balanced
  <2>5. \A y \in Tasks : task[y].pc = "communicate" => task[y].on \in Sessions /\ task[y].on # s
    BY <1>6, CallFacts
  <2>. QED
    BY <1>1, <1>2, <1>4, <1>5, <1>6, <2>4, <2>5 DEF Balanced
<1>15. Undisturbed'
  <2>. SUFFICES ASSUME cancels = 0, ~shut PROVE Undisturbed'
    BY <1>3 DEF Undisturbed
  <2>1. \A x \in Sessions : ses'[x].lost = 0
    BY <1>1, <1>5 DEF Undisturbed
  <2>2. \A y \in Tasks \ {t} : task'[y] = task[y] /\ task[y].on # s
    BY <1>4, <1>6
  <2>3. task'[t] = u /\ ses'[s] = r /\ table \subseteq table' /\ (u.pc = "poll" => s \in table')
    BY <1>2, <1>3, <1>4, <1>5
  <2>4. \A y \in Tasks : task'[y].on # None /\ task'[y].pc \in AtLock \union AtSession
              => task'[y].on \in table' /\ ses'[task'[y].on].readers = "reading"
    BY <1>1, <1>2, <1>5, <1>7, <2>2, <2>3 DEF Undisturbed, AtLock, AtSession
  <2>5. \A x \in table' : \/ ses'[x].readers = "reading"
                          \/ \E y \in Tasks : task'[y].on = x /\ task'[y].pc = "pop"
    <3>1. \A x \in table : \/ ses[x].readers = "reading"
                           \/ \E y \in Tasks \ {t} : task[y].on = x /\ task[y].pc = "pop"
      BY <1>3 DEF Undisturbed
    <3>2. ASSUME NEW x \in table' PROVE x \in table \/ (x = s /\ r.readers = "reading")
      BY <1>1, <1>3
    <3>3. ASSUME NEW x \in table PROVE ses'[x] = ses[x]
      BY <1>5, <1>6 DEF ExecTypeOK
    <3>. QED
      BY <2>2, <2>3, <3>1, <3>2, <3>3
  <2>6. \A y \in Tasks : task'[y].pc = "cleanup" => \A x \in task'[y].todo : ~Busy(x)'
    BY <1>2, <1>4, <1>6 DEF Undisturbed, Busy
  <2>7. \A y \in Tasks : task'[y].pc = "close" => \A x \in task'[y].todo : x = task'[y].on
    BY <1>2, <1>4 DEF Undisturbed
  <2>. QED
    BY <2>1, <2>4, <2>5, <2>6, <2>7 DEF Undisturbed
<1>. QED
  BY <1>8, <1>9, <1>10, <1>11, <1>12, <1>13, <1>14, <1>15

\* write finds the session, which no other call can work on.
LEMMA LookupKeeps ==
  ASSUME IInv, NEW t \in Tasks, NEW s \in Sessions, Lookup(t, s)
  PROVE  IInv'
<1>. USE Consts DEF IInv
<1>. DEFINE q == ses[s]
<1>1. PICK pc \in {"poll", "send", "kill"} : task' = [task EXCEPT ![t] = [@ EXCEPT !.on = s, !.pc = pc]]
  BY DEF Lookup
<1>. DEFINE u == [task[t] EXCEPT !.on = s, !.pc = pc]
<1>2. /\ u \in CallType /\ u.on = s /\ u.pc = pc /\ u.op = task[t].op
      /\ u.todo = task[t].todo /\ u.held = task[t].held /\ task' = [task EXCEPT ![t] = u]
  BY ZenonT(40), <1>1, CallFacts DEF CallType, CallAt, AtSession
<1>. HIDE DEF u
<1>3. task' \in [Tasks -> CallType] /\ \A y \in Tasks : task'[y] = IF y = t THEN u ELSE task[y]
  BY <1>2 DEF ExecTypeOK
<1>4. /\ s \in table /\ q.owner = t /\ task[t].on \in {None, s} /\ lock' = None
      /\ task[t].pc \in AtLock /\ (task[t].pc = "cleanup" => task[t].todo = {})
      /\ (lock = None \/ lock = t) /\ UNCHANGED <<table, shut, cancels>>
  BY DEF Lookup, AtTable, AtLock, RoomKept, HoldsLock
<1>5. PICK r : /\ Follows(r, q) /\ SameOutput(r, q) /\ ~r.idle /\ ses' = [ses EXCEPT ![s] = r]
  <2>. DEFINE r == [q EXCEPT !.idle = FALSE]
  <2>1. r \in Session /\ SameOutput(r, q) /\ ~r.idle
        /\ r.proc = q.proc /\ r.kids = q.kids /\ r.sig = q.sig /\ r.owner = q.owner
        /\ r.closed = q.closed /\ r.closer = q.closer /\ r.stage = q.stage /\ r.term = q.term
        /\ r.asked = q.asked /\ r.cut = q.cut
    <3>1. q \in Session
      BY FollowsItself
    <3>. QED
      BY <3>1 DEF Session, SameOutput
  <2>2. ses' = [ses EXCEPT ![s] = r] \/ ses' = [ses EXCEPT ![s] = Kill(r, t)]
    BY DEF Lookup
  <2>. HIDE DEF r
  <2>3. Follows(r, q)
    BY <2>1, FollowsItself DEF Follows
  <2>4. Follows(Kill(r, t), q) /\ SameOutput(Kill(r, t), r)
    BY <2>1, <2>3, KillFollows
  <2>5. ~Kill(r, t).idle
    <3>1. Follows(Kill(r, t), r)
      BY <2>1, <2>3, KillFollows DEF Follows
    <3>. QED
      BY <2>1, <3>1 DEF Follows
  <2>6. SameOutput(Kill(r, t), q)
    BY <2>1, <2>4 DEF SameOutput
  <2>. QED
    BY <2>1, <2>2, <2>3, <2>4, <2>5, <2>6
<1>6. ses' \in [Sessions -> Session] /\ \A x \in Sessions : ses'[x] = IF x = s THEN r ELSE ses[x]
  BY <1>5 DEF ExecTypeOK, Follows
<1>7. \A x \in Sessions : Follows(ses'[x], ses[x]) /\ SameOutput(ses'[x], ses[x])
  BY <1>5, <1>6, FollowsItself
<1>8. \A y \in Tasks : task[y].on \in Sessions \union {None} /\ task[y].todo \subseteq Sessions
  BY CallFacts
<1>9. ExecTypeOK'
  BY <1>3, <1>4, <1>6 DEF ExecTypeOK
<1>10. RoomKept'
  BY <1>2, <1>3, <1>4 DEF RoomKept, HoldsLock
<1>11. Signalled'
  BY <1>7 DEF Signalled, Follows
<1>12. ClosersClose'
  BY <1>2, <1>3, <1>4, <1>7 DEF ClosersClose, Follows, ExecTypeOK, Session, AtLock
<1>13. WithinReach'
  BY <1>2, <1>3, <1>4, <1>7 DEF WithinReach, Follows, Alive, AtLock
<1>14. OwnSession'
  <2>1. q.proc # "none"
    BY <1>4 DEF OwnSession
  <2>2. ses'[s] = r /\ r.owner = t /\ r.proc # "none" /\ ~r.idle
    BY <1>4, <1>5, <1>6, <2>1 DEF Follows
  <2>3. u.pc \in {"poll", "send", "kill"} /\ task'[t] = u
    BY <1>2, <1>3
  <2>4. \A y \in Tasks : \A x \in task'[y].todo : ses'[x].proc # "none"
    BY <1>2, <1>3, <1>7, <1>8 DEF OwnSession, Follows
  <2>5. \A x \in table' : ses'[x].proc # "none"
    BY <1>4, <1>7 DEF OwnSession, Follows, ExecTypeOK
  <2>6. \A y \in Tasks \ {t} :
          /\ task'[y].on # None => /\ ses'[task'[y].on].owner = y /\ ses'[task'[y].on].proc # "none"
                                   /\ ~ses'[task'[y].on].idle
          /\ task'[y].on = None => task'[y].held = 0 /\ task'[y].pc \notin AtSession \union {"communicate", "pop"}
          /\ task'[y].pc \in {"idle", "spawn"} \/ (task'[y].pc \in AtLock /\ task'[y].op # "write")
               => task'[y].on = None
          /\ task'[y].pc = "join" => ses'[task'[y].on].proc = "exited"
    BY <1>3, <1>7, <1>8 DEF OwnSession, Follows, Exited, AtSession
  <2>. QED
    <3>1. /\ task'[t].on = s /\ ses'[task'[t].on].owner = t /\ ses'[task'[t].on].proc # "none"
          /\ ~ses'[task'[t].on].idle /\ s # None
          /\ task'[t].pc \notin AtLock \union {"idle", "spawn", "join"}
      BY <1>2, <2>2, <2>3 DEF AtLock
    <3>. QED
      BY <2>4, <2>5, <2>6, <3>1 DEF OwnSession, Exited, AtLock
<1>15. Balanced'
  <2>1. \A x \in Sessions : x # s => HeldBy(x)' = HeldBy(x)
    BY <1>2, <1>3, <1>4, <1>7 DEF HeldBy, Follows, OwnSession
  <2>2. HeldBy(s)' = HeldBy(s)
    BY <1>2, <1>3, <1>4, <1>7 DEF HeldBy, Follows, OwnSession
  <2>3. \A x \in Sessions : Counted(ses'[x]) = Counted(ses[x])
    BY <1>7 DEF SameOutput, Counted
  <2>4. \A y \in Tasks : task[y].pc = "communicate" => task[y].on \in Sessions
    BY CallFacts
  <2>. QED
    BY <1>2, <1>3, <1>7, <2>1, <2>2, <2>3, <2>4 DEF Balanced, SameOutput
<1>16. Undisturbed'
  <2>. SUFFICES ASSUME cancels = 0, ~shut PROVE Undisturbed'
    BY <1>4 DEF Undisturbed
  <2>1. \A y \in Tasks \ {t} : task[y].on # s
    BY <1>4 DEF OwnSession
  <2>2. q.readers = "reading"
    BY <1>4, <2>1 DEF Undisturbed, AtLock
  <2>3. \A x \in Sessions : ses'[x].lost = 0 /\ ses'[x].readers = ses[x].readers
    BY <1>7 DEF Undisturbed, SameOutput
  <2>4. \A y \in Tasks : task'[y].on # None /\ task'[y].pc \in AtLock \union AtSession
              => task'[y].on \in table' /\ ses'[task'[y].on].readers = "reading"
    BY <1>2, <1>3, <1>4, <1>8, <2>2, <2>3 DEF Undisturbed
  <2>5. \A x \in table' : \/ ses'[x].readers = "reading"
                          \/ \E y \in Tasks : task'[y].on = x /\ task'[y].pc = "pop"
    <3>1. \A x \in table : \/ ses[x].readers = "reading"
                           \/ \E y \in Tasks \ {t} : task[y].on = x /\ task[y].pc = "pop"
      BY <1>4 DEF Undisturbed, AtLock
    <3>. QED
      BY <1>3, <1>4, <2>3, <3>1 DEF ExecTypeOK
  <2>6. \A y \in Tasks : task'[y].pc = "cleanup" => \A x \in task'[y].todo : ~Busy(x)'
    <3>1. \A y \in Tasks \ {t} : task[y].pc # "cleanup"
      BY <1>4 DEF RoomKept, HoldsLock
    <3>. QED
      BY <1>2, <1>3, <3>1
  <2>7. \A y \in Tasks : task'[y].pc = "close" => \A x \in task'[y].todo : x = task'[y].on
    BY <1>2, <1>3 DEF Undisturbed
  <2>. QED
    BY <2>3, <2>4, <2>5, <2>6, <2>7 DEF Undisturbed
<1>. QED
  BY <1>9, <1>10, <1>11, <1>12, <1>13, <1>14, <1>15, <1>16

-----------------------------------------------------------------------------
\* Closing.

\* What the stage of a close does not touch.
Restaged(r, q) ==
  /\ r \in Session /\ SameOutput(r, q) /\ r.proc = q.proc /\ r.kids = q.kids /\ r.sig = q.sig
  /\ r.idle = q.idle /\ r.owner = q.owner /\ r.closed = q.closed /\ r.closer = q.closer
  /\ r.term = q.term /\ r.asked = q.asked /\ r.cut = q.cut

LEMMA CloseKillFollows ==
  ASSUME NEW r \in Session, NEW q, Follows(r, q), NEW t \in Tasks
  PROVE  Follows(CloseKill(r, t), q) /\ SameOutput(CloseKill(r, t), r) /\ CloseKill(r, t).sig
<1>. DEFINE k == Kill(r, t)
<1>1. Follows(k, q) /\ SameOutput(k, r) /\ k.sig /\ k \in Session
  BY KillFollows DEF Follows
<1>2. PICK p : p \in {"readers", "kill"} /\ CloseKill(r, t) = [k EXCEPT !.stage = p]
  BY DEF CloseKill
<1>. HIDE DEF k
<1>. DEFINE x == [k EXCEPT !.stage = p]
<1>3. ASSUME NEW y \in Session, NEW z \in {"readers", "kill"}
      PROVE  LET w == [y EXCEPT !.stage = z] IN Restaged(w, y)
  BY DEF Session, SameOutput, Restaged
<1>4. Restaged(x, k)
  BY <1>1, <1>2, <1>3
<1>. HIDE DEF x
<1>5. Follows(x, q) /\ SameOutput(x, r) /\ x.sig
  BY <1>1, <1>4 DEF Follows, SameOutput, Restaged
<1>. QED
  BY <1>2, <1>5 DEF x

LEMMA CloseStepKeeps ==
  ASSUME IInv, NEW t \in Tasks, NEW s \in Sessions, CloseStep(t, s)
  PROVE  IInv'
<1>. DEFINE q == ses[s]
<1>1. q \in Session /\ Follows(q, q) /\ t # None
  BY FollowsItself, CallFacts
<1>2. Follows(CloseKill(q, t), q) /\ SameOutput(CloseKill(q, t), q)
  BY <1>1, CloseKillFollows
<1>3. CASE ses' = [ses EXCEPT ![s] = CloseKill(q, t)]
  BY <1>2, <1>3, QuietKeeps, StaysPut DEF CloseStep
<1>4. CASE q.term = t /\ ses' = [ses EXCEPT ![s] = CloseKill(KillWaited(q), t)]
  <2>1. Follows(KillWaited(q), q) /\ SameOutput(KillWaited(q), q)
    BY <1>1, <1>4, KillWaitedFollows
  <2>2. KillWaited(q) \in Session
    BY <2>1 DEF Follows
  <2>3. /\ Follows(CloseKill(KillWaited(q), t), q)
        /\ SameOutput(CloseKill(KillWaited(q), t), KillWaited(q))
    BY <2>1, <2>2, CloseKillFollows
  <2>4. SameOutput(CloseKill(KillWaited(q), t), q)
    BY <2>1, <2>3 DEF SameOutput
  <2>. QED
    BY <1>4, <2>3, <2>4, QuietKeeps, StaysPut DEF CloseStep
<1>. QED
  BY <1>3, <1>4 DEF CloseStep

\* The manager's close takes the whole table with it.
LEMMA CloseManagerKeeps ==
  ASSUME IInv, NEW t \in Tasks, CloseManager(t)
  PROVE  IInv'
<1>. USE Consts DEF IInv
<1>1. /\ task[t].pc = "lock" /\ task[t].op = "close" /\ lock = None /\ task[t].on = None
      /\ table \subseteq Sessions /\ UNCHANGED <<ses, lock, cancels>>
  BY DEF CloseManager, OwnSession, AtLock, ExecTypeOK
<1>2. CASE shut
  BY <1>1, <1>2, PlainEndKeeps DEF CloseManager
<1>3. CASE ~shut
  <2>. DEFINE u == [task[t] EXCEPT !.pc = "close", !.todo = table]
  <2>1. /\ u \in CallType /\ u.on = task[t].on /\ u.op = task[t].op /\ u.pc = "close"
        /\ u.todo = table /\ u.held = task[t].held
    <3>1. ASSUME NEW c \in CallType, NEW d \in SUBSET Sessions
          PROVE  LET v == [c EXCEPT !.pc = "close", !.todo = d] IN
                 /\ v \in CallType /\ v.on = c.on /\ v.op = c.op /\ v.pc = "close"
                 /\ v.todo = d /\ v.held = c.held
      BY DEF CallType, CallAt
    <3>. QED
      BY Zenon, <1>1, <3>1, CallFacts
  <2>2. task' = [task EXCEPT ![t] = u] /\ shut' = TRUE /\ table' = {}
    BY <1>3 DEF CloseManager
  <2>. HIDE DEF u
  <2>3. task' \in [Tasks -> CallType] /\ \A y \in Tasks : task'[y] = IF y = t THEN u ELSE task[y]
    BY <2>1, <2>2 DEF ExecTypeOK
  <2>4. \A y \in Tasks : task[y].on \in Sessions \union {None} /\ task[y].todo \subseteq Sessions
    BY CallFacts
  <2>5. ExecTypeOK'
    BY <1>1, <2>2, <2>3 DEF ExecTypeOK
  <2>6. RoomKept'
    <3>1. Cardinality({}) = 0
      BY FS_EmptySet
    <3>2. \A y \in Tasks : ~HoldsLock(y)'
      BY <1>1, <2>1, <2>3 DEF RoomKept, HoldsLock
    <3>. QED
      BY <2>2, <3>1, <3>2 DEF RoomKept, HoldsLock
  <2>7. Signalled'
    BY <1>1 DEF Signalled
  <2>8. ClosersClose'
    BY <1>1, <2>2, <2>3 DEF ClosersClose, ExecTypeOK, Session
  <2>9. WithinReach'
    BY <1>1, <2>1, <2>3 DEF WithinReach, Alive
  <2>10. OwnSession'
    BY <1>1, <2>1, <2>2, <2>3, <2>4 DEF OwnSession, Exited, AtLock, AtSession
  <2>11. Balanced'
    BY <1>1, <2>1, <2>3 DEF Balanced, HeldBy
  <2>12. Undisturbed'
    BY <2>2 DEF Undisturbed
  <2>. QED
    BY <2>5, <2>6, <2>7, <2>8, <2>9, <2>10, <2>11, <2>12
<1>. QED
  BY <1>2, <1>3

\* The close of a session begins or, where another has begun, is skipped.
LEMMA SkippedKeeps ==
  ASSUME IInv, NEW t \in Tasks, NEW s \in Sessions, BeginClose(t, s), ses[s].closed
  PROVE  IInv'
<1>. USE Consts DEF IInv
<1>. DEFINE u == [task[t] EXCEPT !.todo = @ \ {s}]
<1>1. /\ u \in CallType /\ u.on = task[t].on /\ u.op = task[t].op /\ u.pc = task[t].pc
      /\ u.todo = task[t].todo \ {s} /\ u.held = task[t].held
  BY CallFacts DEF CallType
<1>2. /\ task' = [task EXCEPT ![t] = u] /\ table' = table \ {s} /\ UNCHANGED <<ses, shut, lock, cancels>>
      /\ task[t].pc \in {"cleanup", "close"} /\ s \in task[t].todo /\ ses[s].closer = None
  BY DEF BeginClose
<1>. HIDE DEF u
<1>3. task' \in [Tasks -> CallType] /\ \A y \in Tasks : task'[y] = IF y = t THEN u ELSE task[y]
  BY <1>1, <1>2 DEF ExecTypeOK
<1>4. \A y \in Tasks : task[y].on \in Sessions \union {None} /\ task[y].todo \subseteq Sessions
  BY CallFacts
<1>5. ExecTypeOK'
  BY <1>2, <1>3 DEF ExecTypeOK
<1>6. RoomKept'
  BY <1>1, <1>2, <1>3, SmallerTable DEF RoomKept, HoldsLock
<1>7. Signalled'
  BY <1>2 DEF Signalled
<1>8. ClosersClose'
  BY <1>1, <1>2, <1>3 DEF ClosersClose, ExecTypeOK, Session
<1>9. WithinReach'
  BY <1>1, <1>2, <1>3 DEF WithinReach, Alive, Signalled
<1>10. OwnSession'
  BY <1>1, <1>2, <1>3, <1>4 DEF OwnSession, Exited
<1>11. Balanced'
  BY <1>1, <1>2, <1>3 DEF Balanced, HeldBy
<1>12. Undisturbed'
  <2>. SUFFICES ASSUME cancels = 0, ~shut PROVE Undisturbed'
    BY <1>2 DEF Undisturbed
  <2>1. \A y \in Tasks : task[y].on # None /\ task[y].pc \in AtLock \union AtSession => task[y].on # s
    BY <1>2 DEF Undisturbed, Busy, OwnSession, AtLock, AtSession
  <2>. QED
    BY <1>1, <1>2, <1>3, <2>1 DEF Undisturbed, Busy
<1>. QED
  BY <1>5, <1>6, <1>7, <1>8, <1>9, <1>10, <1>11, <1>12

\* What the beginning of a close does to the record of a session.
Marked(r, q, t) ==
  /\ r \in Session /\ SameOutput(r, q) /\ r.proc = q.proc /\ r.kids = q.kids
  /\ r.owner = q.owner /\ r.idle = q.idle /\ r.cut = q.cut /\ r.closed /\ r.closer = t
  /\ q.sig => r.sig
  /\ r.term # None \/ r.asked => r.sig
  /\ r.stage \in {"kill", "readers"} => r.sig

LEMMA MarkClosedMarks ==
  ASSUME NEW q \in Session, Follows(q, q), NEW t \in Tasks
  PROVE  Marked(MarkClosed(q, t), q, t)
<1>. DEFINE a == [q EXCEPT !.closed = TRUE, !.closer = t, !.timer = "done"]
            c == KillDropped(a, "timer")
<1>1. /\ a \in Session /\ SameOutput(a, q) /\ a.proc = q.proc /\ a.kids = q.kids /\ a.sig = q.sig
      /\ a.owner = q.owner /\ a.idle = q.idle /\ a.cut = q.cut /\ a.closed /\ a.closer = t
      /\ a.term = q.term /\ a.asked = q.asked /\ a.stage = q.stage
  BY DEF Session, SameOutput
<1>. HIDE DEF a
<1>2. PICK h : h \in {None, a.term} /\ c = [a EXCEPT !.term = h]
  BY DEF KillDropped
<1>3. /\ c \in Session /\ SameOutput(c, a) /\ c.proc = a.proc /\ c.kids = a.kids /\ c.sig = a.sig
      /\ c.owner = a.owner /\ c.idle = a.idle /\ c.cut = a.cut /\ c.closed = a.closed
      /\ c.closer = a.closer /\ c.term = h /\ c.asked = a.asked /\ c.stage = a.stage
  <2>1. h \in Tasks \union {None, "timer"}
    BY <1>1, <1>2 DEF Session
  <2>2. ASSUME NEW y \in Session, NEW z \in Tasks \union {None, "timer"}
        PROVE  LET w == [y EXCEPT !.term = z] IN
               /\ w \in Session /\ SameOutput(w, y) /\ w.proc = y.proc /\ w.kids = y.kids
               /\ w.sig = y.sig /\ w.owner = y.owner /\ w.idle = y.idle /\ w.cut = y.cut
               /\ w.closed = y.closed /\ w.closer = y.closer /\ w.term = z
               /\ w.asked = y.asked /\ w.stage = y.stage
    BY DEF Session, SameOutput
  <2>. HIDE DEF c
  <2>. QED
    BY ZenonT(40), <1>1, <1>2, <2>1, <2>2
<1>. HIDE DEF c
<1>4. Marked(c, q, t)
  BY <1>1, <1>2, <1>3 DEF Marked, Follows, SameOutput
<1>5. CASE q.timer \in {"armed", "killing"}
  <2>1. MarkClosed(q, t) = [c EXCEPT !.stage = "timer"]
    BY <1>5 DEF MarkClosed, a, c
  <2>2. ASSUME NEW y \in Session
        PROVE  LET w == [y EXCEPT !.stage = "timer"] IN Restaged(w, y) /\ w.stage = "timer"
    BY DEF Session, SameOutput, Restaged
  <2>. DEFINE w == [c EXCEPT !.stage = "timer"]
  <2>3. Restaged(w, c) /\ w.stage = "timer"
    BY <1>3, <2>2
  <2>. HIDE DEF w
  <2>4. Marked(w, q, t)
    BY <1>4, <2>3 DEF Marked, Restaged, SameOutput
  <2>. QED
    BY <2>1, <2>4 DEF w
<1>6. CASE q.timer \notin {"armed", "killing"}
  <2>. DEFINE w == CloseKill(c, t)
  <2>1. MarkClosed(q, t) = w
    BY <1>6 DEF MarkClosed, a, c
  <2>2. Follows(c, c)
    BY <1>1, <1>3, <1>4 DEF Marked, Follows
  <2>3. /\ Follows(w, c) /\ SameOutput(w, c) /\ w.proc = c.proc /\ w.kids = c.kids /\ w.idle = c.idle
    <3>1. Follows(w, c) /\ SameOutput(w, c)
      BY <1>3, <2>2, CloseKillFollows
    <3>2. w.proc = c.proc /\ w.kids = c.kids /\ w.idle = c.idle
      <4>. DEFINE k == Kill(c, t)
      <4>1. k \in Session /\ k.proc = c.proc /\ k.kids = c.kids /\ k.idle = c.idle
        BY <1>3, <2>2, KillChanges DEF Agree, Follows
      <4>2. PICK p : p \in {"readers", "kill"} /\ w = [k EXCEPT !.stage = p]
        BY DEF CloseKill
      <4>. HIDE DEF k, w
      <4>. QED
        BY <4>1, <4>2 DEF Session
    <3>. QED
      BY <3>1, <3>2
  <2>. HIDE DEF w
  <2>4. Marked(w, q, t)
    BY <1>4, <2>3 DEF Marked, Follows, SameOutput
  <2>. QED
    BY <2>1, <2>4
<1>. QED
  BY <1>5, <1>6

LEMMA MarkedKeeps ==
  ASSUME IInv, NEW t \in Tasks, NEW s \in Sessions, BeginClose(t, s), ~ses[s].closed
  PROVE  IInv'
<1>. USE Consts DEF IInv
<1>. DEFINE q == ses[s]  r == MarkClosed(q, t)
<1>1. Marked(r, q, t)
  BY FollowsItself, MarkClosedMarks
<1>2. /\ ses' = [ses EXCEPT ![s] = r] /\ table' = table \ {s} /\ UNCHANGED <<shut, lock, cancels, task>>
      /\ task[t].pc \in {"cleanup", "close"} /\ s \in task[t].todo /\ q.closer = None
  BY DEF BeginClose
<1>. HIDE DEF r
<1>3. /\ ses' \in [Sessions -> Session]
      /\ \A x \in Sessions : ses'[x] = IF x = s THEN r ELSE ses[x]
  BY <1>1, <1>2 DEF ExecTypeOK, Marked
<1>4. \A y \in Tasks : task[y].on \in Sessions \union {None} /\ task[y].todo \subseteq Sessions
  BY CallFacts
<1>5. \A x \in Sessions :
        /\ ses'[x].proc = ses[x].proc /\ ses'[x].kids = ses[x].kids /\ ses'[x].owner = ses[x].owner
        /\ ses'[x].idle = ses[x].idle /\ ses'[x].cut = ses[x].cut /\ SameOutput(ses'[x], ses[x])
        /\ ses[x].sig => ses'[x].sig
  BY <1>1, <1>3 DEF Marked, SameOutput
<1>6. ExecTypeOK'
  BY <1>2, <1>3 DEF ExecTypeOK
<1>7. RoomKept'
  BY <1>2, SmallerTable DEF RoomKept, HoldsLock
<1>8. Signalled'
  <2>1. \A x \in Sessions \ {s} : ses'[x] = ses[x]
    BY <1>3
  <2>2. ses'[s] = r /\ (q.kids => q.proc = "exited")
    BY <1>3 DEF Signalled
  <2>. QED
    BY <1>1, <2>1, <2>2 DEF Signalled, Marked
<1>9. ClosersClose'
  BY <1>1, <1>2, <1>3 DEF ClosersClose, Marked
<1>10. WithinReach'
  BY <1>1, <1>2, <1>3, <1>5 DEF WithinReach, Alive, Marked
<1>11. OwnSession'
  <2>1. \A x \in table : x \in Sessions
    BY DEF ExecTypeOK
  <2>. QED
    BY <1>2, <1>4, <1>5, <2>1 DEF OwnSession, Exited
<1>12. Balanced'
  <2>1. \A x \in Sessions : HeldBy(x)' = HeldBy(x) /\ Counted(ses'[x]) = Counted(ses[x])
    BY <1>2, <1>5 DEF HeldBy, SameOutput, Counted
  <2>2. \A y \in Tasks : task[y].pc = "communicate" => task[y].on \in Sessions
    BY CallFacts
  <2>. QED
    BY <1>2, <1>5, <2>1, <2>2 DEF Balanced, SameOutput
<1>13. Undisturbed'
  <2>. SUFFICES ASSUME cancels = 0, ~shut PROVE Undisturbed'
    BY <1>2 DEF Undisturbed
  <2>1. \A y \in Tasks : task[y].on # None /\ task[y].pc \in AtLock \union AtSession => task[y].on # s
    BY <1>2 DEF Undisturbed, Busy, OwnSession, AtLock, AtSession
  <2>2. \A x \in Sessions : ses'[x].lost = ses[x].lost /\ ses'[x].readers = ses[x].readers
    BY <1>5 DEF SameOutput
  <2>3. \A x \in table : x \in Sessions
    BY DEF ExecTypeOK
  <2>. QED
    BY <1>2, <1>4, <2>1, <2>2, <2>3 DEF Undisturbed, Busy
<1>. QED
  BY <1>6, <1>7, <1>8, <1>9, <1>10, <1>11, <1>12, <1>13

LEMMA BeginCloseKeeps ==
  ASSUME IInv, NEW t \in Tasks, NEW s \in Sessions, BeginClose(t, s)
  PROVE  IInv'
<1>1. ses[s].closed \in BOOLEAN
  BY FollowsItself DEF Session
<1>. QED
  BY <1>1, SkippedKeeps, MarkedKeeps

LEMMA CloseEndsKeeps ==
  ASSUME IInv, NEW t \in Tasks, NEW s \in Sessions, CloseEnds(t, s)
  PROVE  IInv'
<1>. USE Consts DEF IInv
<1>. DEFINE q == ses[s]
            u == [task[t] EXCEPT !.todo = @ \ {s}]
<1>1. PICK h : /\ h \in {"none", "reading", "cancelled"}
               /\ ses' = [ses EXCEPT ![s] =
                    [q EXCEPT !.closer = None, !.stage = "none", !.readers = h]]
  <2>1. q.readers \in {"none", "reading", "cancelled"}
    BY FollowsItself DEF Session
  <2>. QED
    BY Zenon, <2>1 DEF CloseEnds
<1>. DEFINE r == [q EXCEPT !.closer = None, !.stage = "none", !.readers = h]
<1>2. /\ r \in Session /\ r.proc = q.proc /\ r.kids = q.kids /\ r.owner = q.owner /\ r.idle = q.idle
      /\ r.cut = q.cut /\ r.sig = q.sig /\ r.term = q.term /\ r.asked = q.asked
      /\ r.closed = q.closed /\ r.closer = None /\ r.stage = "none"
      /\ r.made = q.made /\ r.pipe = q.pipe /\ r.buf = q.buf /\ r.drop = q.drop
      /\ r.told = q.told /\ r.lost = q.lost
  BY ZenonT(40), <1>1, FollowsItself DEF Session
<1>3. /\ u \in CallType /\ u.on = task[t].on /\ u.op = task[t].op /\ u.pc = task[t].pc
      /\ u.todo = task[t].todo \ {s} /\ u.held = task[t].held
  BY CallFacts DEF CallType
<1>4. /\ ses' = [ses EXCEPT ![s] = r] /\ task' = [task EXCEPT ![t] = u]
      /\ q.closer = t /\ q.stage = "readers" /\ UNCHANGED <<table, shut, lock, cancels>>
  BY <1>1, CallFacts DEF CloseEnds
<1>. HIDE DEF r, u
<1>5. task' \in [Tasks -> CallType] /\ \A y \in Tasks : task'[y] = IF y = t THEN u ELSE task[y]
  BY <1>3, <1>4 DEF ExecTypeOK
<1>6. ses' \in [Sessions -> Session] /\ \A x \in Sessions : ses'[x] = IF x = s THEN r ELSE ses[x]
  BY <1>2, <1>4 DEF ExecTypeOK
<1>7. \A y \in Tasks : task[y].on \in Sessions \union {None} /\ task[y].todo \subseteq Sessions
  BY CallFacts
<1>8. task[t].pc \in {"cleanup", "close"} /\ s \in task[t].todo /\ s \notin table /\ q.sig /\ q.closed
  BY <1>4 DEF ClosersClose, Signalled
<1>9. \A x \in Sessions : /\ ses'[x].proc = ses[x].proc /\ ses'[x].kids = ses[x].kids
                          /\ ses'[x].owner = ses[x].owner /\ ses'[x].idle = ses[x].idle
                          /\ ses'[x].sig = ses[x].sig /\ ses'[x].cut = ses[x].cut
                          /\ ses'[x].made = ses[x].made /\ ses'[x].lost = ses[x].lost
                          /\ Counted(ses'[x]) = Counted(ses[x])
  BY <1>2, <1>6 DEF Counted
<1>10. ExecTypeOK'
  BY <1>4, <1>5, <1>6 DEF ExecTypeOK
<1>11. RoomKept'
  BY <1>3, <1>4, <1>5 DEF RoomKept, HoldsLock
<1>12. Signalled'
  BY ZenonT(40), <1>2, <1>6, <1>8 DEF Signalled
<1>13. ClosersClose'
  BY <1>2, <1>3, <1>4, <1>5, <1>6 DEF ClosersClose, ExecTypeOK, Session
<1>14. WithinReach'
  BY <1>3, <1>4, <1>5, <1>6, <1>8, <1>9 DEF WithinReach, Alive
<1>15. OwnSession'
  <2>1. \A x \in table : x \in Sessions
    BY DEF ExecTypeOK
  <2>. QED
    BY <1>3, <1>4, <1>5, <1>7, <1>9, <2>1 DEF OwnSession, Exited
<1>16. Balanced'
  <2>1. \A x \in Sessions : HeldBy(x)' = HeldBy(x)
    BY <1>3, <1>5, <1>9 DEF HeldBy
  <2>2. \A y \in Tasks : task[y].pc = "communicate" => task[y].on \in Sessions
    BY CallFacts
  <2>3. \A y \in Tasks : task[y].pc = "communicate" => ses'[task[y].on].readers # "reading"
    <3>1. ASSUME NEW y \in Tasks, task[y].pc = "communicate", task[y].on = s
          PROVE  ses'[s].readers # "reading"
      <4>1. q.readers # "reading"
        BY <3>1 DEF Balanced
      <4>2. ses'[s].readers # "reading"
        BY <1>4, <4>1, FollowsItself DEF CloseEnds, Ended, Session, ExecTypeOK
      <4>. QED
        BY <4>2
    <3>. QED
      BY <1>6, <2>2, <3>1 DEF Balanced
  <2>. QED
    BY <1>3, <1>5, <1>9, <2>1, <2>2, <2>3 DEF Balanced
<1>17. Undisturbed'
  <2>. SUFFICES ASSUME cancels = 0, ~shut PROVE Undisturbed'
    BY <1>4 DEF Undisturbed
  <2>1. \A y \in Tasks : task[y].on # None /\ task[y].pc \in AtLock \union AtSession => task[y].on # s
    BY <1>8 DEF Undisturbed
  <2>2. \A x \in table : x \in Sessions /\ x # s
    BY <1>8 DEF ExecTypeOK
  <2>. QED
    BY <1>3, <1>4, <1>5, <1>6, <1>7, <1>9, <2>1, <2>2 DEF Undisturbed, Busy
<1>. QED
  BY <1>10, <1>11, <1>12, <1>13, <1>14, <1>15, <1>16, <1>17

-----------------------------------------------------------------------------
\* A cancellation.

\* What it leaves of a session whose record was q, when a call forfeits n chunks.
Survives(r, q, n) ==
  /\ r \in Session /\ r.proc = q.proc /\ r.kids = q.kids /\ r.owner = q.owner
  /\ r.idle = q.idle /\ r.closed = q.closed /\ r.made = q.made /\ Counted(r) = Counted(q) + n
  /\ q.sig => r.sig
  /\ q.cut => r.cut
  /\ r.term # None \/ r.asked => r.sig
  /\ r.stage \in {"kill", "readers"} => r.sig

\* What it does not touch of one that a call forfeited from.
Spared(r, q) ==
  /\ r \in Session /\ r.proc = q.proc /\ r.kids = q.kids /\ r.owner = q.owner /\ r.sig = q.sig
  /\ r.idle = q.idle /\ r.closed = q.closed /\ r.made = q.made /\ r.pipe = q.pipe
  /\ r.buf = q.buf /\ r.drop = q.drop /\ r.told = q.told /\ r.lost = q.lost
  /\ r.asked = q.asked /\ r.term \in {q.term, None}

LEMMA SparedSurvives ==
  ASSUME NEW f \in Session, NEW q, NEW n, Survives(f, q, n), NEW r, Spared(r, f),
         f.cut => r.cut, r.stage \in {"none", f.stage}
  PROVE  Survives(r, q, n)
<1>1. Counted(r) = Counted(f)
  BY DEF Spared, Counted
<1>. QED
  BY <1>1 DEF Spared, Survives

SameRest(r, q) ==
  r.cut = q.cut /\ r.stage = q.stage /\ r.closer = q.closer /\ r.readers = q.readers

LEMMA KillDroppedSpares ==
  ASSUME NEW y \in Session, NEW h
  PROVE  Spared(KillDropped(y, h), y) /\ SameRest(KillDropped(y, h), y)
<1>1. CASE y.term = h
  BY <1>1 DEF KillDropped, Session, Spared, SameRest
<1>2. CASE y.term # h
  BY <1>2 DEF KillDropped, Session, Spared, SameRest
<1>. QED
  BY <1>1, <1>2

LEMMA InterruptedSurvives ==
  ASSUME IInv, NEW t \in Tasks, NEW s \in Sessions
  PROVE  LET q == ses[s]  r == Interrupted(t, s) IN
         /\ Survives(r, q, IF task[t].on = s THEN task[t].held ELSE 0)
         /\ r.closer = IF q.closer = t THEN None ELSE q.closer
         /\ q.closer = t \/ (task[t].pc = "close" /\ s \in task[t].todo) => r.cut
         /\ task[t].pc = "communicate" /\ task[t].on = s => r.sig
         /\ task[t].on # s => r.readers = q.readers
<1>. USE Consts
<1>. DEFINE q == ses[s]
            n == IF task[t].on = s THEN task[t].held ELSE 0
            f == IF task[t].on = s THEN Forfeit(t, q) ELSE q
            dropped == KillDropped(f, t)
<1>1. q \in Session /\ Follows(q, q) /\ task[t].held \in Nat /\ t # None
  BY FollowsItself, CallFacts
<1>2. /\ f \in Session /\ SameState(f, q) /\ f.made = q.made /\ Counted(f) = Counted(q) + n
      /\ task[t].on # s => f = q
  <2>1. CASE task[t].on = s
    <3>1. f = Lost(q, task[t].held)
      BY <2>1 DEF Forfeit, Lost
    <3>. HIDE DEF f, q
    <3>. QED
      BY <1>1, <2>1, <3>1, Handed
  <2>2. CASE task[t].on # s
    <3>1. Counted(q) \in Nat
      BY <1>1 DEF Session, Counted
    <3>. HIDE DEF q
    <3>. QED
      BY <1>1, <2>2, <3>1 DEF SameState
  <2>. QED
    BY <2>1, <2>2
<1>. HIDE DEF f
<1>3. Survives(f, q, n)
  <2>. HIDE DEF q, n
  <2>. QED
    BY <1>1, <1>2 DEF Survives, SameState, Follows
<1>4. Survives(dropped, q, n) /\ SameRest(dropped, f)
  <2>1. Spared(dropped, f) /\ SameRest(dropped, f)
    BY <1>2, KillDroppedSpares
  <2>. HIDE DEF dropped, n
  <2>. QED
    BY <1>2, <1>3, <2>1, SparedSurvives DEF SameRest
<1>5. dropped \in Session
  BY <1>4 DEF Survives
<1>. HIDE DEF dropped
<1>6. CASE q.closer = t
  <2>. DEFINE r == [dropped EXCEPT !.closer = None, !.stage = "none", !.cut = TRUE]
  <2>1. Interrupted(t, s) = r
    BY <1>2, <1>6 DEF Interrupted, SameState, f, dropped
  <2>2. ASSUME NEW y \in Session
        PROVE  LET w == [y EXCEPT !.closer = None, !.stage = "none", !.cut = TRUE] IN
               Spared(w, y) /\ w.cut /\ w.stage = "none" /\ w.closer = None /\ w.readers = y.readers
    BY DEF Session, Spared
  <2>3. Spared(r, dropped) /\ r.cut /\ r.stage = "none" /\ r.closer = None /\ r.readers = dropped.readers
    BY Zenon, <1>5, <2>2
  <2>. HIDE DEF r, n
  <2>4. Survives(r, q, n)
    BY <1>4, <1>5, <2>3, SparedSurvives
  <2>5. ~(task[t].pc = "communicate")
    BY <1>6 DEF IInv, ClosersClose
  <2>. QED
    BY <1>2, <1>4, <1>6, <2>1, <2>3, <2>4, <2>5 DEF n, SameRest
<1>7. CASE q.closer # t /\ task[t].pc = "close" /\ s \in task[t].todo
  <2>. DEFINE r == [f EXCEPT !.cut = TRUE]
  <2>1. Interrupted(t, s) = r
    BY <1>2, <1>7 DEF Interrupted, SameState, f
  <2>2. ASSUME NEW y \in Session
        PROVE  LET w == [y EXCEPT !.cut = TRUE] IN
               Spared(w, y) /\ w.cut /\ w.stage = y.stage /\ w.closer = y.closer /\ w.readers = y.readers
    BY DEF Session, Spared
  <2>3. Spared(r, f) /\ r.cut /\ r.stage = f.stage /\ r.closer = f.closer /\ r.readers = f.readers
    BY <1>2, <2>2
  <2>. HIDE DEF r, n
  <2>4. Survives(r, q, n)
    BY <1>2, <1>3, <2>3, SparedSurvives
  <2>. QED
    BY <1>2, <1>7, <2>1, <2>3, <2>4 DEF n, SameState
<1>8. CASE q.closer # t /\ ~(task[t].pc = "close" /\ s \in task[t].todo) /\ task[t].on # s
  <2>1. Interrupted(t, s) = f
    BY <1>2, <1>8 DEF Interrupted, SameState, f
  <2>. HIDE DEF n
  <2>. QED
    BY <1>2, <1>3, <1>8, <2>1 DEF n, SameState
<1>9. CASE q.closer # t /\ task[t].on = s /\ task[t].pc = "communicate"
  <2>. DEFINE r == Kill(f, t)
  <2>1. Interrupted(t, s) = r
    BY <1>2, <1>9 DEF Interrupted, SameState, StopsProcess, f
  <2>2. r \in Session /\ Agree(r, f) /\ r.sig
    BY <1>2, <1>3, KillChanges DEF Survives
  <2>. HIDE DEF r
  <2>3. Counted(r) = Counted(f)
    BY <2>2 DEF Agree, SameOutput, Counted
  <2>. HIDE DEF n
  <2>4. Survives(r, q, n)
    BY <1>3, <2>2, <2>3 DEF Survives, Agree, SameOutput
  <2>. QED
    BY <1>2, <1>9, <2>1, <2>2, <2>4 DEF n, SameState, Agree
<1>10. CASE /\ q.closer # t /\ task[t].on = s /\ task[t].pc # "communicate"
            /\ ~(task[t].pc = "close" /\ s \in task[t].todo)
  <2>1. PICK p : /\ p \in {"none", "reading", "cancelled"}
                 /\ Interrupted(t, s) = [dropped EXCEPT !.readers = p]
    <3>1. dropped.readers \in {"none", "reading", "cancelled"}
      BY <1>5 DEF Session
    <3>. QED
      BY <1>2, <1>10, <3>1 DEF Interrupted, SameState, f, dropped
  <2>. DEFINE r == [dropped EXCEPT !.readers = p]
  <2>2. ASSUME NEW y \in Session, NEW v \in {"none", "reading", "cancelled"}
        PROVE  LET w == [y EXCEPT !.readers = v] IN
               Spared(w, y) /\ w.cut = y.cut /\ w.stage = y.stage /\ w.closer = y.closer
    BY DEF Session, Spared
  <2>3. Spared(r, dropped) /\ r.cut = dropped.cut /\ r.stage = dropped.stage /\ r.closer = dropped.closer
    BY <1>5, <2>1, <2>2
  <2>. HIDE DEF r, n
  <2>4. Survives(r, q, n)
    BY <1>4, <1>5, <2>3, SparedSurvives
  <2>. QED
    BY <1>2, <1>4, <1>10, <2>1, <2>3, <2>4 DEF n, r, SameState, SameRest
<1>. QED
  BY <1>6, <1>7, <1>8, <1>9, <1>10

\* What it leaves of the call.
LEMMA AfterCancelFacts ==
  ASSUME IInv, NEW t \in Tasks
  PROVE  LET u == AfterCancel(t) IN
         /\ u \in CallType /\ u.held = 0 /\ u.pc \in {"idle", "pop", "killed"}
         /\ u.on = task[t].on \/ u.on = None
         /\ u.on = None => u.pc \in {"idle", "killed"}
         /\ u.pc # "idle" => u.on = task[t].on
         /\ u.pc = "idle" => u.on = None
         /\ u.todo \subseteq task[t].todo
<1>. DEFINE u == AfterCancel(t)
<1>1. CASE task[t].pc = "communicate"
  <2>1. u = [task[t] EXCEPT !.pc = "killed"] /\ task[t].held = 0
    BY <1>1 DEF AfterCancel, IInv, Balanced
  <2>. QED
    BY <2>1, CallFacts DEF CallType, CallAt
<1>2. CASE task[t].op = "start" /\ task[t].pc \in {"poll", "pollkill", "join", "grace"}
  <2>1. u = [task[t] EXCEPT !.pc = "pop", !.held = 0]
    BY <1>2 DEF AfterCancel
  <2>2. task[t].on # None /\ task[t] \in CallType
    BY <1>2, CallFacts DEF AtSession, IInv, OwnSession
  <2>3. ASSUME NEW c \in CallType PROVE [c EXCEPT !.pc = "pop", !.held = 0] \in CallType
    BY DEF CallType, CallAt
  <2>4. u \in CallType
    BY Zenon, <2>1, <2>2, <2>3
  <2>5. /\ u.held = 0 /\ u.pc = "pop" /\ u.on = task[t].on /\ u.todo = task[t].todo
    BY <2>1, <2>2 DEF CallType
  <2>. QED
    BY <2>2, <2>4, <2>5
<1>3. CASE u = NoCall
  BY <1>3 DEF NoCall, CallType, CallAt
<1>. QED
  BY <1>1, <1>2, <1>3 DEF AfterCancel

LEMMA CancelKeeps ==
  ASSUME IInv, NEW t \in Tasks, Cancel(t)
  PROVE  IInv'
<1>. USE Consts DEF IInv
<1>. DEFINE u == AfterCancel(t)
            n(x) == IF task[t].on = x THEN task[t].held ELSE 0
<1>1. /\ u \in CallType /\ u.held = 0 /\ u.pc \in {"idle", "pop", "killed"}
      /\ u.on = task[t].on \/ u.on = None
      /\ u.on = None => u.pc \in {"idle", "killed"}
      /\ u.pc # "idle" => u.on = task[t].on
      /\ u.pc = "idle" => u.on = None
      /\ u.todo \subseteq task[t].todo
  BY AfterCancelFacts
<1>2. /\ task' = [task EXCEPT ![t] = u] /\ cancels' = cancels + 1
      /\ lock' = IF lock = t THEN None ELSE lock
      /\ ses' = [s \in Sessions |-> Interrupted(t, s)] /\ UNCHANGED <<table, shut>>
  BY DEF Cancel
<1>. HIDE DEF u
<1>3. task' \in [Tasks -> CallType] /\ \A y \in Tasks : task'[y] = IF y = t THEN u ELSE task[y]
  BY <1>1, <1>2 DEF ExecTypeOK
<1>4. \A x \in Sessions :
        /\ Survives(ses'[x], ses[x], n(x))
        /\ ses'[x].closer = IF ses[x].closer = t THEN None ELSE ses[x].closer
        /\ ses[x].closer = t \/ (task[t].pc = "close" /\ x \in task[t].todo) => ses'[x].cut
        /\ task[t].pc = "communicate" /\ task[t].on = x => ses'[x].sig
        /\ task[t].on # x => ses'[x].readers = ses[x].readers
  BY <1>2, InterruptedSurvives
<1>. HIDE DEF n
<1>5. ses' \in [Sessions -> Session]
  BY <1>2, <1>4 DEF Survives
<1>6. \A x \in Sessions :
        /\ ses'[x].proc = ses[x].proc /\ ses'[x].kids = ses[x].kids /\ ses'[x].owner = ses[x].owner
        /\ ses'[x].idle = ses[x].idle /\ ses'[x].closed = ses[x].closed /\ ses'[x].made = ses[x].made
        /\ ses[x].sig => ses'[x].sig
        /\ ses[x].cut => ses'[x].cut
  BY <1>4 DEF Survives
<1>7. \A y \in Tasks : task[y].on \in Sessions \union {None} /\ task[y].todo \subseteq Sessions
  BY CallFacts
<1>8. cancels' \in Nat /\ cancels' # 0
  BY <1>2 DEF ExecTypeOK
<1>9. ExecTypeOK'
  BY <1>2, <1>3, <1>5, <1>8 DEF ExecTypeOK
<1>10. RoomKept'
  BY <1>1, <1>2, <1>3 DEF RoomKept, HoldsLock
<1>11. Signalled'
  <2>1. \A x \in Sessions : /\ ses'[x].term # None \/ ses'[x].asked => ses'[x].sig
                            /\ ses'[x].stage \in {"kill", "readers"} => ses'[x].sig
    BY <1>4 DEF Survives
  <2>2. \A x \in Sessions : ses'[x].closed => ses'[x].sig \/ ses'[x].cut \/ ses'[x].closer # None
    BY <1>4, <1>6 DEF Signalled
  <2>3. \A x \in Sessions : ses'[x].closer # None => ses'[x].closed
    BY <1>4, <1>6 DEF Signalled
  <2>. QED
    BY <1>6, <2>1, <2>2, <2>3 DEF Signalled
<1>12. ClosersClose'
  BY <1>2, <1>3, <1>4 DEF ClosersClose, ExecTypeOK, Session
<1>13. WithinReach'
  <2>. SUFFICES ASSUME NEW x \in Sessions, Alive(x)', ~ses'[x].sig PROVE
         \/ x \in table' \/ ses'[x].cut \/ ses'[x].closer # None
         \/ \E y \in Tasks : \/ task'[y].pc = "close" /\ x \in task'[y].todo
                             \/ task'[y].pc = "communicate" /\ task'[y].on = x
    BY DEF WithinReach
  <2>1. Alive(x) /\ ~ses[x].sig
    BY <1>6 DEF Alive
  <2>2. ~(task[t].pc = "communicate" /\ task[t].on = x)
    BY <1>4
  <2>. QED
    BY <1>2, <1>3, <1>4, <1>6, <2>1, <2>2 DEF WithinReach
<1>14. OwnSession'
  <2>1. \A x \in table : x \in Sessions
    BY DEF ExecTypeOK
  <2>2. task'[t] = u /\ (u.on # None => u.on = task[t].on)
    BY <1>1, <1>3
  <2>. QED
    BY <1>1, <1>2, <1>3, <1>6, <1>7, <2>1, <2>2 DEF OwnSession, Exited, AtLock, AtSession
<1>15. Balanced'
  <2>1. \A x \in Sessions : HeldBy(x) = HeldBy(x)' + n(x) /\ HeldBy(x)' \in Nat
    <3>1. ASSUME NEW x \in Sessions, task[t].on = x
          PROVE  HeldBy(x) = HeldBy(x)' + n(x) /\ HeldBy(x)' \in Nat
      <4>1. ses[x].owner = t /\ task[t].held \in Nat
        BY <3>1, CallFacts DEF OwnSession
      <4>2. HeldBy(x) = task[t].held /\ n(x) = task[t].held
        BY <3>1, <4>1 DEF HeldBy, n
      <4>3. HeldBy(x)' = 0
        BY <1>1, <1>3, <1>6, <4>1 DEF HeldBy
      <4>. QED
        BY <4>1, <4>2, <4>3
    <3>2. ASSUME NEW x \in Sessions, task[t].on # x
          PROVE  HeldBy(x) = HeldBy(x)' + n(x) /\ HeldBy(x)' \in Nat
      <4>1. HeldBy(x)' = HeldBy(x)
        BY <1>1, <1>3, <1>6, <3>2 DEF HeldBy
      <4>2. HeldBy(x) \in Nat
        BY CallFacts DEF HeldBy
      <4>3. n(x) = 0
        BY <3>2 DEF n
      <4>. QED
        BY <4>1, <4>2, <4>3
    <3>. QED
      BY <3>1, <3>2
  <2>2. \A x \in Sessions : ses'[x].made = Counted(ses'[x]) + HeldBy(x)'
    <3>. SUFFICES ASSUME NEW x \in Sessions PROVE ses'[x].made = Counted(ses'[x]) + HeldBy(x)'
      OBVIOUS
    <3>1. ses'[x].made = ses[x].made /\ Counted(ses'[x]) = Counted(ses[x]) + n(x)
      BY <1>4 DEF Survives
    <3>2. ses[x].made = Counted(ses[x]) + HeldBy(x)
      BY DEF Balanced
    <3>3. Counted(ses[x]) \in Nat /\ n(x) \in Nat
      BY CallFacts, FollowsItself DEF Session, Counted, n
    <3>. QED
      BY <2>1, <3>1, <3>2, <3>3
  <2>3. \A y \in Tasks : task'[y].pc = "communicate" =>
          /\ y # t /\ task'[y] = task[y] /\ task[y].on \in Sessions /\ task[y].on # task[t].on
    BY <1>1, <1>3, CallFacts DEF OwnSession
  <2>4. \A y \in Tasks : task'[y].pc \in {"communicate", "killed"} => task'[y].held = 0
    BY <1>1, <1>3 DEF Balanced
  <2>5. \A y \in Tasks : task'[y].pc = "communicate" =>
          ses'[task'[y].on].made = 0 /\ ses'[task'[y].on].readers # "reading"
    BY <1>4, <1>6, <2>3 DEF Balanced
  <2>. QED
    BY <2>2, <2>4, <2>5 DEF Balanced
<1>16. Undisturbed'
  BY <1>8 DEF Undisturbed
<1>. QED
  BY <1>9, <1>10, <1>11, <1>12, <1>13, <1>14, <1>15, <1>16

-----------------------------------------------------------------------------
\* Every step.

LEMMA InitKeeps == Init => IInv
<1>. SUFFICES ASSUME Init PROVE IInv
  OBVIOUS
<1>. USE Consts DEF Init
<1>1. NoProcess \in Session /\ Counted(NoProcess) = 0
  BY DEF NoProcess, Session, Counted
<1>2. NoCall \in CallType
  BY DEF NoCall, CallType, CallAt
<1>3. \A s \in Sessions : ses[s] = NoProcess
  OBVIOUS
<1>4. \A t \in Tasks : task[t] = NoCall
  OBVIOUS
<1>5. Cardinality(table) = 0
  BY FS_EmptySet
<1>6. ExecTypeOK
  BY <1>1, <1>2 DEF ExecTypeOK
<1>7. RoomKept
  BY <1>4, <1>5 DEF RoomKept, HoldsLock, NoCall
<1>8. Signalled /\ ClosersClose /\ WithinReach
  BY <1>3 DEF Signalled, ClosersClose, WithinReach, NoProcess, Alive
<1>9. OwnSession
  BY <1>4 DEF OwnSession, NoCall, AtSession
<1>10. Balanced
  <2>1. \A s \in Sessions : HeldBy(s) = 0 /\ ses[s].made = 0 /\ Counted(ses[s]) = 0
    BY <1>1, <1>3 DEF HeldBy, NoProcess
  <2>. QED
    BY <1>4, <2>1 DEF Balanced, NoCall
<1>11. Undisturbed
  BY <1>3, <1>4 DEF Undisturbed, NoCall, NoProcess
<1>. QED
  BY <1>6, <1>7, <1>8, <1>9, <1>10, <1>11 DEF IInv

LEMMA StutterKeeps ==
  ASSUME IInv, UNCHANGED vars
  PROVE  IInv'
<1>. USE DEF IInv, vars
<1>1. ExecTypeOK' /\ RoomKept' /\ Signalled'
  BY DEF ExecTypeOK, RoomKept, HoldsLock, Signalled
<1>2. ClosersClose' /\ WithinReach' /\ OwnSession'
  BY DEF ClosersClose, WithinReach, Alive, OwnSession, Exited
<1>3. Balanced' /\ Undisturbed'
  BY DEF Balanced, HeldBy, Undisturbed, Busy
<1>. QED
  BY <1>1, <1>2, <1>3

LEMMA WorkKeeps ==
  ASSUME IInv, NEW t \in Tasks, Work(t) \/ Spawning(t)
  PROVE  IInv'
<1>1. ASSUME NEW s \in Sessions,
             Lookup(t, s) \/ BeginClose(t, s) \/ CloseStep(t, s) \/ CloseEnds(t, s) \/ Spawn(t, s)
      PROVE  IInv'
  BY <1>1, LookupKeeps, BeginCloseKeeps, CloseStepKeeps, CloseEndsKeeps, SpawnKeeps
<1>2. CASE Turned(t) \/ Refused(t) \/ Listed(t) \/ SpawnFails(t) \/ SendFails(t) \/ Closed(t) \/ Killed(t)
  BY <1>2, TurnedKeeps, SendFailsKeeps, KilledKeeps
<1>3. CASE Cleanup(t) \/ BeginSpawn(t) \/ NotFound(t) \/ CloseManager(t) \/ Communicated(t)
  BY <1>3, CleanupKeeps, NotFoundKeeps, CloseManagerKeeps, CommunicatedKeeps
<1>4. CASE PollWaited(t) \/ KillStep(t) \/ Joined(t) \/ Graced(t) \/ JoinRaises(t) \/ Pop(t)
  BY <1>4, SentKeeps, KillStepKeeps, JoinedKeeps, JoinRaisesKeeps, PopKeeps
<1>. QED
  BY <1>1, <1>2, <1>3, <1>4 DEF Work, Spawning

LEMMA NextKeeps ==
  ASSUME IInv, [Next]_vars
  PROVE  IInv'
<1>1. ASSUME NEW t \in Tasks, Work(t) \/ Spawning(t)
      PROVE  IInv'
  BY <1>1, WorkKeeps
<1>2. ASSUME NEW s \in Sessions, Machine(s)
      PROVE  IInv'
  BY <1>2, ProcessKeeps, OutputKeeps, TimerKeeps DEF Machine
<1>3. CASE Environment
  <2>1. ASSUME NEW s \in Sessions,
               \/ Output(s) \/ KidsExit(s) \/ BecomesIdle(s)
               \/ \E kids \in BOOLEAN : Exits(s, kids)
        PROVE  IInv'
    BY <2>1, OutputKeeps, ProcessKeeps, BecomesIdleKeeps
  <2>2. ASSUME NEW t \in Tasks,
               \/ Cancel(t) \/ Sent(t) \/ CallClose(t)
               \/ \E op \in {"start", "write", "list", "exec"} : Call(t, op)
        PROVE  IInv'
    BY <2>2, CancelKeeps, SentKeeps, CallKeeps
  <2>. QED
    BY <1>3, <2>1, <2>2 DEF Environment
<1>4. CASE UNCHANGED vars
  BY <1>4, StutterKeeps
<1>. QED
  BY <1>1, <1>2, <1>3, <1>4 DEF Next

\* Everything above holds in every state, however many conversations, closers,
\* processes and chunks there are.
THEOREM Invariant == Spec => []IInv
<1>1. Init => IInv
  BY InitKeeps
<1>2. IInv /\ [Next]_vars => IInv'
  BY NextKeeps
<1>. QED
  BY <1>1, <1>2, PTL DEF Spec

\* The table never holds more processes than it allows, and a command that runs
\* and whose group nobody killed is in the table, in some call's hands, or a
\* close of it was cancelled half-way.
THEOREM CommandsHeld == Spec => []ProcessesHeld
<1>1. IInv => ProcessesHeld
  <2>. SUFFICES ASSUME IInv PROVE ProcessesHeld
    OBVIOUS
  <2>1. TableBounded
    BY DEF IInv, RoomKept, TableBounded
  <2>2. \A s \in Sessions : ses[s].closer # None => \E t \in Tasks : s \in task[t].todo
    BY DEF IInv, ClosersClose, ExecTypeOK, Session
  <2>3. NoOrphan
    BY <2>2 DEF IInv, WithinReach, NoOrphan
  <2>. QED
    BY <2>1, <2>3 DEF ProcessesHeld
<1>. QED
  BY <1>1, Invariant, PTL

\* What one call holds of a session is all that any call holds of it.
LEMMA HeldOnce ==
  ASSUME IInv, NEW s \in Sessions
  PROVE  Held(s) = HeldBy(s)
<1>. DEFINE T == {t \in Tasks : task[t].on = s}
<1>1. \A t \in T : t = ses[s].owner
  BY Consts DEF IInv, OwnSession
<1>2. CASE T = {}
  <2>1. ~(ses[s].owner \in Tasks /\ task[ses[s].owner].on = s)
    BY <1>2
  <2>. QED
    BY <1>2, <2>1 DEF Held, HeldBy
<1>3. CASE T # {}
  <2>1. (CHOOSE t \in T : TRUE) \in T
    BY <1>3
  <2>2. (CHOOSE t \in T : TRUE) = ses[s].owner /\ ses[s].owner \in Tasks /\ task[ses[s].owner].on = s
    BY <1>1, <2>1
  <2>. QED
    BY <1>3, <2>2 DEF Held, HeldBy
<1>. QED
  BY <1>2, <1>3

\* Every chunk a command wrote is in its pipe, in the buffer, counted as dropped,
\* held by a call, handed over once or lost, and lost only to a cancellation or
\* the closing of the manager.
THEOREM OutputGivenOnce == Spec => []OutputAccounted
<1>1. IInv => OutputAccounted
  <2>. SUFFICES ASSUME IInv, NEW s \in Sessions
                PROVE  /\ ses[s].made = ses[s].pipe + ses[s].buf + ses[s].drop + Held(s)
                                        + ses[s].told + ses[s].lost
                       /\ cancels = 0 /\ ~shut => ses[s].lost = 0
    BY DEF OutputAccounted
  <2>1. /\ ses[s].pipe \in Nat /\ ses[s].buf \in Nat /\ ses[s].drop \in Nat
        /\ ses[s].told \in Nat /\ ses[s].lost \in Nat
    BY FollowsItself DEF Session
  <2>2. HeldBy(s) \in Nat
    BY CallFacts DEF HeldBy
  <2>3. ses[s].made = Counted(ses[s]) + HeldBy(s)
    BY DEF IInv, Balanced
  <2>4. ses[s].made = ses[s].pipe + ses[s].buf + ses[s].drop + Held(s) + ses[s].told + ses[s].lost
    BY <2>1, <2>2, <2>3, HeldOnce DEF Counted
  <2>. QED
    BY <2>4 DEF IInv, Undisturbed
<1>. QED
  BY <1>1, Invariant, PTL
===============================================================================
