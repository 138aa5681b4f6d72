-------------------------- MODULE ServerData_proofs --------------------------
(***************************************************************************)
(* What holds of the skills and the settings of the server.                *)
(*                                                                         *)
(* Skills: an upload is installed as a whole or not at all, for any        *)
(* uploads, skills and limits.  The invariant SkInv says at every step of  *)
(* an operation which packages are in their place and which among the      *)
(* backups, and what the kept list can be; the packages themselves are     *)
(* those of the outermost directories, which takes an induction over the   *)
(* depth of directories, made with the least depth at which it would fail. *)
(*                                                                         *)
(* Settings: saving the page one was shown keeps what one was not shown,   *)
(* for any clients, files and edits.  SeInv says that the file holds what  *)
(* is in use, and which page a client has that was shown the latest        *)
(* configuration; what is left is what loading, merging and restoring do   *)
(* to a JSON object, a lemma each.                                         *)
(***************************************************************************)
EXTENDS Skills, Settings, FiniteSetTheorems, SequenceTheorems, TLAPS


-------------------------------------------------------------------------------
(* Skills: the invariant.                                                     *)

\* What the record of an operation holds.
Fields(kind) ==
  {"kind", "pc", "before", "new", "todo", "kept", "done", "ok", "torn", "seen"}
    \union (IF kind = "install" THEN {"upload", "replace", "stamp"}
            ELSE IF kind = "remove" THEN {"name"} ELSE {})

JobBusy == job.pc \notin {"idle", "over"}
Distinct(seq) == \A i, j \in DOMAIN seq : seq[i] = seq[j] => i = j
Done(n) == n \in ToSet(job.done)

JobTyped ==
  \/ job = NoJob
  \/ /\ job.kind \in {"install", "remove", "reload"}
     /\ DOMAIN job = Fields(job.kind)
     /\ job.pc \in {"begun", "over", "reload"}
                     \union (IF job.kind = "install" THEN {"out", "in", "back", "undo", "redo"}
                             ELSE {"rmtree"})
     /\ job.torn \in BOOLEAN /\ job.seen \in BOOLEAN /\ job.ok \in BOOLEAN
     /\ job.before = [n \in SkillNames |-> job.before[n]]
     /\ job.kind = "install" => job.upload \in Uploads /\ (job.pc = "reload" => FALSE)
     /\ job.kind = "remove" => job.name \in SkillNames
     /\ job.kind = "reload" => job.pc \in {"begun", "over"}
     /\ job.pc \in {"begun", "out", "in", "rmtree", "reload"} => job.ok
     /\ job.pc \in {"back", "undo", "redo"} => ~job.ok
     /\ job.pc \in {"begun", "out", "in", "back"} => ~job.torn

\* What an installation is to put in place: the packages of the upload.
Goal ==
  /\ \A n \in SkillNames : n \in DOMAIN job.new <=> Uploaded(n) # {}
  /\ DOMAIN job.new \subseteq SkillNames
  /\ \A n \in DOMAIN job.new : job.new[n] = [skill |-> n, stamp |-> job.stamp]

\* The packages that are in place, and those still to come.
Progress ==
  /\ job.todo \subseteq DOMAIN job.new
  /\ job.done \in Seq(DOMAIN job.new \ job.todo)
  /\ Distinct(job.done)
  /\ job.pc \in {"out", "in"} => \A n \in DOMAIN job.new \ job.todo : Done(n)
  /\ job.pc \in {"in", "back"} => job.todo # {}
  /\ job.pc = "redo" => job.done # <<>>

\* The old packages that were taken out.
Backups ==
  /\ job.pc \in {"in", "back"} => Name \in DOMAIN job.kept
  /\ \A n \in SkillNames : Done(n) => n \in DOMAIN job.kept
  /\ DOMAIN job.kept \subseteq SkillNames
  /\ \A n \in DOMAIN job.kept : job.kept[n] = job.before[n]

Plan == Goal /\ Progress /\ Backups

\* The directory as it is between two packages, or when one of them is moved.
Placed(n) == IF Done(n) THEN job.new[n] ELSE job.before[n]
World ==
  /\ job.pc = "out" => \A n \in SkillNames : skills[n] = Placed(n)
  /\ job.pc \in {"in", "back"} => \A n \in SkillNames \ {Name} : skills[n] = Placed(n)
  /\ job.pc = "undo" /\ ~job.torn => \A n \in SkillNames : skills[n] = Placed(n)
  /\ job.pc = "redo" /\ ~job.torn => \A n \in SkillNames \ {Head(job.done)} : skills[n] = Placed(n)

\* A kept list that looks current is: of the directory, or of that before the operation.
ListTold == Hit(Snapshot(skills)) => cached = Listed(skills)
ListKept == Hit(Snapshot(job.before)) => cached = Listed(job.before)

\* An installation, an operation that has not begun to work, and a removal.
InstallInv == job.kind = "install" /\ job.pc \notin {"begun", "over"} => Plan /\ World
BegunInv == job.pc = "begun" => skills = job.before /\ job.done = <<>> /\ job.kept = <<>>
RemoveInv ==
  job.kind = "remove" /\ job.pc \in {"rmtree", "reload"} =>
    \A n \in SkillNames \ {job.name} : skills[n] = job.before[n]
\* The kept list; a list the settings page makes meanwhile is no obstacle unless the
\* operation fails.
CacheInv ==
  /\ ~JobBusy /\ ~raced => ListTold
  /\ JobBusy /\ ~job.seen => listing = NoListing
  /\ JobBusy /\ ~job.seen /\ ~raced /\ (job.kind = "install" \/ job.pc = "begun") => ListKept
  /\ job.pc = "rmtree" /\ ~job.seen /\ ~raced =>
       cached = Listed(skills) /\ job.name \in DOMAIN cached.list

(* The invariant of SkillsSpec.                                                *)
SkInv ==
  /\ JobTyped /\ skills = [n \in SkillNames |-> skills[n]] /\ raced \in BOOLEAN
  /\ job # NoJob => InstallInv /\ BegunInv /\ RemoveInv
  /\ CacheInv
  /\ InstallAllOrNothing

-------------------------------------------------------------------------------
(* Sequences, numbers and paths.                                              *)

LEMMA HeadAndTail ==
  ASSUME NEW S, NEW seq \in Seq(S), seq # <<>>
  PROVE  /\ Head(seq) \in S /\ Tail(seq) \in Seq(S)
         /\ ToSet(seq) = ToSet(Tail(seq)) \union {Head(seq)}
         /\ Distinct(seq) => Distinct(Tail(seq)) /\ Head(seq) \notin ToSet(Tail(seq))
<1> DEFINE rest == Tail(seq)
<1>1. /\ Head(seq) \in S /\ rest \in Seq(S) /\ Head(seq) = seq[1]
      /\ Len(rest) = Len(seq) - 1
      /\ \A i \in 1..Len(rest) : rest[i] = seq[i + 1]
  BY HeadTailProperties
<1>2. /\ Len(seq) \in Nat \ {0} /\ DOMAIN seq = 1..Len(seq) /\ DOMAIN rest = 1..Len(rest)
  BY <1>1, LenProperties, EmptySeq
<1> HIDE DEF rest
<1>3. \A i \in DOMAIN rest : i + 1 \in DOMAIN seq /\ rest[i] = seq[i + 1]
  BY <1>1, <1>2
<1>4. \A i \in DOMAIN seq : i = 1 \/ (i - 1 \in DOMAIN rest /\ rest[i - 1] = seq[i])
  <2> SUFFICES ASSUME NEW i \in DOMAIN seq, i # 1
               PROVE  i - 1 \in DOMAIN rest /\ rest[i - 1] = seq[i]
    OBVIOUS
  <2>1. i - 1 \in DOMAIN rest /\ (i - 1) + 1 = i
    BY <1>1, <1>2
  <2> QED BY <1>3, <2>1
<1>5. 1 \in DOMAIN seq /\ \A i \in DOMAIN rest : i + 1 # 1 /\ i \in Nat
  BY <1>1, <1>2
<1>6. ToSet(seq) = ToSet(rest) \union {Head(seq)}
  <2>1. \A i \in DOMAIN seq : seq[i] = Head(seq) \/ seq[i] \in ToSet(rest)
    BY <1>1, <1>4 DEF ToSet
  <2>2. \A i \in DOMAIN rest : rest[i] \in ToSet(seq)
    BY <1>3 DEF ToSet
  <2>3. Head(seq) \in ToSet(seq)
    BY <1>1, <1>5 DEF ToSet
  <2> QED BY <2>1, <2>2, <2>3 DEF ToSet
<1>7. ASSUME Distinct(seq) PROVE Distinct(rest) /\ Head(seq) \notin ToSet(rest)
  <2>1. Distinct(rest)
    <3> SUFFICES ASSUME NEW i \in DOMAIN rest, NEW j \in DOMAIN rest, rest[i] = rest[j]
                 PROVE  i = j
      BY DEF Distinct
    <3>1. i + 1 = j + 1
      BY <1>3, <1>7 DEF Distinct
    <3> QED BY <1>5, <3>1
  <2>2. Head(seq) \notin ToSet(rest)
    BY <1>1, <1>3, <1>5, <1>7 DEF Distinct, ToSet
  <2> QED BY <2>1, <2>2
<1> QED BY <1>1, <1>6, <1>7 DEF rest

LEMMA Least ==
  ASSUME NEW S \in SUBSET Nat, S # {}
  PROVE  \E n \in S : \A m \in S : n <= m
<1> DEFINE Below == OpToRel(<, Nat)
<1>1. \A x, y \in Nat : y < x => <<y, x>> \in Below
  BY Zenon DEF OpToRel
<1>2. \E x \in S : \A y \in S : <<y, x>> \notin Below
  BY NatLessThanWellFounded, WFMin, Zenon
<1> HIDE DEF Below
<1>3. PICK x \in S : \A y \in S : <<y, x>> \notin Below
  BY <1>2
<1>4. \A y \in S : ~(y < x)
  BY <1>1, <1>3, Zenon
<1>5. QED BY <1>4

(***************************************************************************)
(* The packages of an archive.                                             *)

Paths == Seq(STRING)

LEMMA PrefixIs ==
  ASSUME NEW s \in Paths, NEW t \in Paths
  PROVE  IsPrefix(s, t) <=> Len(s) <= Len(t) /\ \A i \in 1..Len(s) : s[i] = t[i]
<1>1. ASSUME Len(s) <= Len(t)
      PROVE  SubSeq(s, 1, Len(s)) = SubSeq(t, 1, Len(s)) <=> \A i \in 1..Len(s) : s[i] = t[i]
  <2> DEFINE a == SubSeq(s, 1, Len(s))
             b == SubSeq(t, 1, Len(s))
  <2>1. a \in Paths /\ b \in Paths /\ Len(a) = Len(s) /\ Len(b) = Len(s)
    BY <1>1 DEF Paths
  <2>2. \A i \in 1..Len(s) : a[i] = s[i] /\ b[i] = t[i]
    BY <1>1 DEF Paths
  <2>3. a = b <=> \A i \in 1..Len(s) : a[i] = b[i]
    <3> HIDE DEF a, b
    <3> QED BY <2>1 DEF Paths
  <2>4. QED BY <2>2, <2>3
<1>2. QED BY <1>1 DEF IsPrefix

LEMMA PrefixOrder ==
  ASSUME NEW s \in Paths, NEW t \in Paths
  PROVE  /\ IsPrefix(s, t) => Len(s) <= Len(t)
         /\ IsPrefix(s, s)
         /\ IsPrefix(s, t) /\ Len(s) >= Len(t) => s = t
         /\ \A u \in Paths : IsPrefix(s, t) /\ IsPrefix(t, u) => IsPrefix(s, u)
<1>1. IsPrefix(s, t) => Len(s) <= Len(t)
  BY PrefixIs
<1>2. IsPrefix(s, s)
  BY PrefixIs DEF Paths
<1>3. IsPrefix(s, t) /\ Len(s) >= Len(t) => s = t
  BY PrefixIs DEF Paths
<1>4. ASSUME NEW u \in Paths, IsPrefix(s, t), IsPrefix(t, u) PROVE IsPrefix(s, u)
  <2>1. Len(s) <= Len(t) /\ Len(t) <= Len(u) /\ (\A i \in 1..Len(s) : s[i] = t[i])
        /\ (\A i \in 1..Len(t) : t[i] = u[i])
    BY <1>4, PrefixIs
  <2>2. Len(s) \in Nat /\ Len(t) \in Nat /\ Len(u) \in Nat
    BY DEF Paths
  <2>3. Len(s) <= Len(u) /\ \A i \in 1..Len(s) : s[i] = u[i]
    BY <2>1, <2>2
  <2>4. QED BY <2>3, PrefixIs
<1>5. QED BY <1>1, <1>2, <1>3, <1>4

Minimal(d, all) == \A r \in all : IsPrefix(r, d) => r = d

LEMMA OuterDirectory ==
  ASSUME NEW all \in SUBSET Paths, NEW d \in all
  PROVE  \E r \in all : IsPrefix(r, d) /\ Minimal(r, all)
<1> DEFINE Lens == {n \in Nat : \E r \in all : IsPrefix(r, d) /\ Len(r) = n}
<1>1. Len(d) \in Lens
  BY PrefixOrder DEF Paths
<1>2. PICK n \in Lens : \A m \in Lens : n <= m
  <2>1. Lens \in SUBSET Nat /\ Lens # {}
    BY <1>1
  <2> HIDE DEF Lens
  <2> QED BY <2>1, Least
<1>3. PICK r \in all : IsPrefix(r, d) /\ Len(r) = n
  BY <1>2
<1>4. ASSUME NEW q \in all, IsPrefix(q, r) PROVE q = r
  <2>1. IsPrefix(q, d)
    BY <1>3, <1>4, PrefixOrder
  <2>2. Len(q) \in Lens
    BY <2>1 DEF Paths
  <2>3. QED BY <1>2, <1>3, <1>4, <2>2, PrefixOrder
<1>5. QED BY <1>3, <1>4 DEF Minimal

LEMMA SkillRootsIs ==
  ASSUME NEW entries, Candidates(entries) \subseteq Paths
  PROVE  SkillRoots(entries) = {d \in Candidates(entries) : Minimal(d, Candidates(entries))}
<1> DEFINE all == Candidates(entries)
<1> HIDE DEF all
<1>1. all \in SUBSET Paths
  BY DEF all
<1> DEFINE W(n) == {d \in all : Len(d) <= n /\ Minimal(d, all)}
           Outer(f, n) == IF n = 0 THEN {} ELSE f[n - 1]
           Step(f, n) ==
             Outer(f, n) \union {d \in all : Len(d) = n /\ \A r \in Outer(f, n) : ~IsPrefix(r, d)}
           taken == CHOOSE f : f = [n \in Nat |-> Step(f, n)]
           h == [n \in Nat |-> W(n)]
<1>2. ASSUME NEW n \in Nat, NEW f, n > 0 => f[n - 1] = W(n - 1)
      PROVE  Step(f, n) = W(n)
  <2>1. ASSUME NEW d \in W(n) PROVE d \in Step(f, n)
    <3>1. CASE n > 0 /\ Len(d) <= n - 1
      BY <1>2, <2>1, <3>1
    <3>2. CASE ~(n > 0 /\ Len(d) <= n - 1)
      <4>1. Len(d) = n
        BY <1>1, <2>1, <3>2 DEF Paths
      <4>2. ASSUME NEW r \in Outer(f, n) PROVE ~IsPrefix(r, d)
        <5>1. n > 0 /\ r \in W(n - 1)
          BY <1>2, <4>2
        <5>2. r \in all /\ Len(r) <= n - 1 /\ r # d
          BY <4>1, <5>1
        <5>3. QED BY <2>1, <5>2 DEF Minimal
      <4>3. QED BY <2>1, <4>1, <4>2
    <3>3. QED BY <3>1, <3>2
  <2>2. ASSUME NEW d \in Step(f, n) PROVE d \in W(n)
    <3>1. CASE d \in Outer(f, n)
      BY <1>1, <1>2, <3>1 DEF Paths
    <3>2. CASE d \notin Outer(f, n)
      <4>1. d \in all /\ Len(d) = n /\ \A r \in Outer(f, n) : ~IsPrefix(r, d)
        BY <2>2, <3>2
      <4>2. PICK r \in all : IsPrefix(r, d) /\ Minimal(r, all)
        BY <1>1, <4>1, OuterDirectory
      <4>3. r = d
        <5>1. SUFFICES ASSUME r # d PROVE FALSE
          OBVIOUS
        <5>2. Len(r) < Len(d) /\ Len(r) \in Nat
          BY <1>1, <4>1, <4>2, <5>1, PrefixOrder DEF Paths
        <5>3. n > 0 /\ Len(r) <= n - 1
          BY <4>1, <5>2
        <5>4. r \in Outer(f, n)
          BY <1>2, <4>2, <5>3
        <5>5. QED BY <4>1, <4>2, <5>4
      <4>4. QED BY <4>1, <4>2, <4>3
    <3>3. QED BY <3>1, <3>2
  <2>3. QED BY <2>1, <2>2
<1>3. h = [n \in Nat |-> Step(h, n)]
  <2>1. ASSUME NEW n \in Nat PROVE W(n) = Step(h, n)
    <3>1. n > 0 => h[n - 1] = W(n - 1)
      OBVIOUS
    <3> HIDE DEF W, Step, h
    <3> QED BY <1>2, <3>1
  <2> HIDE DEF W, Step
  <2> QED BY <2>1
<1>4. taken = [n \in Nat |-> Step(taken, n)]
  <2> HIDE DEF h, Step
  <2> QED BY <1>3
<1>5. SkillRoots(entries) = UNION {taken[Len(d)] : d \in all}
  BY DEF SkillRoots, all
<1> HIDE DEF taken
<1>6. \A n \in Nat : taken[n] = W(n)
  <2> DEFINE Bad == {n \in Nat : taken[n] # W(n)}
  <2>1. SUFFICES ASSUME Bad # {} PROVE FALSE
    OBVIOUS
  <2>2. PICK n \in Bad : \A m \in Bad : n <= m
    <3>1. Bad \in SUBSET Nat
      OBVIOUS
    <3> HIDE DEF Bad
    <3> QED BY <2>1, <3>1, Least
  <2>3. n > 0 => taken[n - 1] = W(n - 1)
    <3> HIDE DEF W
    <3>1. n > 0 => n - 1 \in Nat /\ ~(n <= n - 1)
      OBVIOUS
    <3>2. QED BY <2>2, <3>1
  <2>4. taken[n] = Step(taken, n)
    <3> HIDE DEF Step
    <3> QED BY <1>4
  <2> HIDE DEF W, Step
  <2> QED BY <1>2, <2>2, <2>3, <2>4
<1>7. QED BY <1>1, <1>5, <1>6 DEF all, Paths

LEMMA Prepended ==
  ASSUME NEW S, NEW seq \in Seq(S), NEW x
  PROVE  /\ <<x>> \o seq \in Seq(S \union {x})
         /\ ToSet(<<x>> \o seq) = ToSet(seq) \union {x}
         /\ Distinct(seq) /\ x \notin ToSet(seq) => Distinct(<<x>> \o seq)
<1> DEFINE all == <<x>> \o seq
           n == Len(seq)
<1>1. /\ all \in Seq(S \union {x}) /\ Len(all) = n + 1 /\ all[1] = x
      /\ \A i \in 2..(n + 1) : all[i] = seq[i - 1]
  <2>1. seq \in Seq(S \union {x}) /\ <<x>> \in Seq(S \union {x})
    OBVIOUS
  <2>2. Len(<<x>>) = 1 /\ <<x>>[1] = x
    OBVIOUS
  <2>3. QED BY <2>1, <2>2, ConcatProperties
<1>2. n \in Nat /\ DOMAIN seq = 1..n /\ DOMAIN all = 1..(n + 1)
  BY <1>1, LenProperties
<1> HIDE DEF all, n
<1>3. \A i \in DOMAIN all : i = 1 \/ (i - 1 \in DOMAIN seq /\ all[i] = seq[i - 1])
  BY <1>1, <1>2
<1>4. \A i \in DOMAIN seq : i + 1 \in DOMAIN all /\ all[i + 1] = seq[i]
  <2> SUFFICES ASSUME NEW i \in DOMAIN seq PROVE i + 1 \in DOMAIN all /\ all[i + 1] = seq[i]
    OBVIOUS
  <2>1. i + 1 \in 2..(n + 1) /\ (i + 1) - 1 = i
    BY <1>2
  <2> QED BY <1>1, <1>2, <2>1
<1>5. 1 \in DOMAIN all
  BY <1>2
<1>6. ToSet(all) = ToSet(seq) \union {x}
  <2>1. \A i \in DOMAIN all : all[i] = x \/ all[i] \in ToSet(seq)
    BY <1>1, <1>3 DEF ToSet
  <2>2. \A i \in DOMAIN seq : seq[i] \in ToSet(all)
    BY <1>4 DEF ToSet
  <2>3. x \in ToSet(all)
    BY <1>1, <1>5 DEF ToSet
  <2> QED BY <2>1, <2>2, <2>3 DEF ToSet
<1>7. ASSUME Distinct(seq), x \notin ToSet(seq) PROVE Distinct(all)
  <2> SUFFICES ASSUME NEW i \in DOMAIN all, NEW j \in DOMAIN all, all[i] = all[j]
               PROVE  i = j
    BY DEF Distinct
  <2>1. \A k \in DOMAIN all : k # 1 => all[k] # x
    BY <1>3, <1>7 DEF ToSet
  <2>2. CASE i = 1 \/ j = 1
    BY <1>1, <2>1, <2>2
  <2>3. CASE i # 1 /\ j # 1
    <3>1. i - 1 = j - 1
      BY <1>3, <1>7, <2>3 DEF Distinct
    <3> QED BY <1>2, <3>1
  <2> QED BY <2>2, <2>3
<1> QED BY <1>1, <1>6, <1>7 DEF all

(***************************************************************************)
(* What an operation does to its record.                                   *)

DidGo(fields) ==
  /\ DOMAIN job' = DOMAIN job
  /\ \A f \in DOMAIN job : job'[f] = IF f \in DOMAIN fields THEN fields[f] ELSE job[f]

LEMMA GoesTo ==
  ASSUME NEW fields, DOMAIN fields \subseteq DOMAIN job, Goes(fields)
  PROVE  DidGo(fields)
BY DEF Goes, Updated, DidGo

LEMMA FailsTo ==
  ASSUME NEW fields, DOMAIN fields \subseteq {"torn"}, {"pc", "ok", "torn"} \subseteq DOMAIN job,
         Fails(fields)
  PROVE  /\ DOMAIN job' = DOMAIN job
         /\ job'.pc = "over" /\ job'.ok = FALSE
         /\ job'.torn = IF DOMAIN fields = {} THEN job.torn ELSE fields["torn"]
         /\ \A f \in DOMAIN job \ {"pc", "ok", "torn"} : job'[f] = job[f]
         /\ raced' = (raced \/ job.seen \/ job'.torn)
         /\ UNCHANGED <<cached, listing, jobs>>
<1>1. DOMAIN Updated([pc |-> "over", ok |-> FALSE], fields) = {"pc", "ok"} \union DOMAIN fields
  BY DEF Updated
<1>2. DidGo(Updated([pc |-> "over", ok |-> FALSE], fields))
  BY <1>1, GoesTo DEF Fails
<1>3. DOMAIN fields = {} \/ DOMAIN fields = {"torn"}
  OBVIOUS
<1>4. QED BY <1>1, <1>2, <1>3 DEF DidGo, Fails, Updated

(***************************************************************************)
(* What the packages of an upload are.                                     *)

LEMMA CandidatesArePaths ==
  ASSUME NEW u \in Uploads, NEW k \in DOMAIN u
  PROVE  Candidates(u[k].entries) \subseteq Paths
<1> DEFINE es == u[k].entries
<1>1. ASSUME NEW i \in Unpacked(es) PROVE Front(es[i].path) \in Paths
  <2>1. es[i].path \in Paths
    BY <1>1, UploadsAssumption DEF Unpacked, Paths
  <2>2. es[i].path # <<>>
    BY <1>1 DEF Unpacked, Ignored
  <2>3. Len(es[i].path) - 1 \in 0..Len(es[i].path)
    BY <2>1, <2>2 DEF Paths
  <2>4. QED BY <2>1, <2>3 DEF Front, Paths
<1>2. QED BY <1>1 DEF Candidates

LEMMA OutermostAre ==
  ASSUME NEW u \in Uploads, NEW k \in DOMAIN u
  PROVE  SkillRoots(u[k].entries) = Outermost(u[k].entries)
<1> DEFINE es == u[k].entries
<1>1. Candidates(es) = {Front(es[i].path) : i \in {j \in DOMAIN es :
        ~Ignored(es[j]) /\ ~es[j].dir /\ Last(es[j].path) = "SKILL.md"}}
  BY DEF Candidates, Unpacked
<1>2. Outermost(es) = {d \in Candidates(es) : Minimal(d, Candidates(es))}
  BY <1>1 DEF Outermost, Minimal
<1>3. QED BY <1>2, CandidatesArePaths, SkillRootsIs

Packages(u, stamp) ==
  UNION {{Package(k, u[k].entries, d, stamp) : d \in SkillRoots(u[k].entries)} : k \in DOMAIN u}

LEMMA Extracted ==
  ASSUME NEW u, NEW stamp, Extract(u, stamp).ok
  PROVE  Extract(u, stamp).packages = Packages(u, stamp)
BY DEF Extract, Packages, Refused

\* What tells the packages: their archive and directory.
LEMMA PackagesAre ==
  ASSUME NEW u, NEW stamp, NEW p
  PROVE  p \in Packages(u, stamp) <=>
           \E k \in DOMAIN u : \E d \in SkillRoots(u[k].entries) :
             p = Package(k, u[k].entries, d, stamp)
<1> DEFINE Of(k) == {Package(k, u[k].entries, d, stamp) : d \in SkillRoots(u[k].entries)}
<1>1. \A k : p \in Of(k) <=> \E d \in SkillRoots(u[k].entries) : p = Package(k, u[k].entries, d, stamp)
  OBVIOUS
<1>2. Packages(u, stamp) = UNION {Of(k) : k \in DOMAIN u}
  BY DEF Packages
<1> HIDE DEF Of
<1>3. p \in Packages(u, stamp) <=> \E k \in DOMAIN u : p \in Of(k)
  BY <1>2
<1>4. QED BY <1>1, <1>3, Zenon

LEMMA PackageIs ==
  ASSUME NEW k, NEW es, NEW d, NEW stamp
  PROVE  Package(k, es, d, stamp).name = PackageName(k, d)
BY DEF Package

LEMMA PackageHolds ==
  ASSUME NEW k, NEW es, NEW d, NEW stamp, NEW p, p = Package(k, es, d, stamp)
  PROVE  p.holds = [skill |-> p.holds.skill, stamp |-> stamp]
BY DEF Package

LEMMA PackagesNamed ==
  ASSUME NEW stamp, job.upload \in Uploads, NEW n
  PROVE  (\E p \in Packages(job.upload, stamp) : p.name = n) <=> Uploaded(n) # {}
<1> DEFINE u == job.upload
           P(k, d) == Package(k, u[k].entries, d, stamp)
           Roots(k) == SkillRoots(u[k].entries)
<1>1. ASSUME NEW p \in Packages(u, stamp), p.name = n
      PROVE  \E k \in DOMAIN u : \E d \in Roots(k) : PackageName(k, d) = n
  <2>1. PICK k \in DOMAIN u : \E d \in Roots(k) : p = P(k, d)
    BY <1>1, PackagesAre
  <2>2. PICK d \in Roots(k) : p = P(k, d)
    BY <2>1
  <2>3. p.name = PackageName(k, d)
    BY <2>2, PackageIs
  <2>4. QED BY <1>1, <2>3
<1>2. ASSUME NEW k \in DOMAIN u, NEW d \in Roots(k), PackageName(k, d) = n
      PROVE  \E p \in Packages(u, stamp) : p.name = n
  <2>1. P(k, d) \in Packages(u, stamp)
    BY PackagesAre
  <2>2. P(k, d).name = n
    BY <1>2, PackageIs
  <2>3. QED BY <2>1, <2>2, Zenon
<1>3. \A k \in DOMAIN u : Roots(k) = Outermost(u[k].entries)
  BY OutermostAre
<1>4. Uploaded(n) = {k \in DOMAIN u : \E d \in Outermost(u[k].entries) : n = PackageName(k, d)}
  BY DEF Uploaded, PackageName
<1> HIDE DEF Roots
<1>5. Uploaded(n) # {} <=> \E k \in DOMAIN u : \E d \in Roots(k) : PackageName(k, d) = n
  BY <1>3, <1>4
<1>6. QED BY <1>1, <1>2, <1>5

LEMMA PackageStamped ==
  ASSUME NEW u, NEW stamp, NEW p \in Packages(u, stamp)
  PROVE  p.holds = [skill |-> p.holds.skill, stamp |-> stamp]
<1>1. PICK k \in DOMAIN u : \E d \in SkillRoots(u[k].entries) : p = Package(k, u[k].entries, d, stamp)
  BY PackagesAre
<1>2. PICK d \in SkillRoots(u[k].entries) : p = Package(k, u[k].entries, d, stamp)
  BY <1>1
<1>3. QED BY <1>2, PackageHolds

\* The invariant but for what ends with the operation.
SkTyped == JobTyped /\ skills = [n \in SkillNames |-> skills[n]] /\ raced \in BOOLEAN

\* What an installation leaves alone while it works.
Steady ==
  /\ job'.kind = job.kind /\ job'.before = job.before /\ job'.new = job.new
  /\ job'.upload = job.upload /\ job'.stamp = job.stamp /\ job'.seen = job.seen
  /\ UNCHANGED <<cached, listing, raced>>

LEMMA InstallFields ==
  ASSUME JobTyped, job # NoJob, job.kind = "install"
  PROVE  /\ DOMAIN job = {"kind", "pc", "before", "new", "todo", "kept", "done", "ok",
                          "torn", "seen", "upload", "replace", "stamp"}
         /\ job.upload \in Uploads
BY DEF JobTyped, Fields

LEMMA PutPlaces ==
  ASSUME SkTyped, NEW n \in SkillNames, NEW package, Put(n, package)
  PROVE  /\ skills' = [m \in SkillNames |-> skills'[m]]
         /\ skills'[n] = package
         /\ \A m \in SkillNames \ {n} : skills'[m] = skills[m]
BY DEF SkTyped, Put

LEMMA SteadyPlan ==
  ASSUME Steady, Plan
  PROVE  Goal'
<1>1. \A n : Uploaded(n)' = Uploaded(n)
  BY DEF Steady, Uploaded
<1>2. QED BY <1>1 DEF Steady, Goal, Plan

LEMMA SteadyCache ==
  ASSUME SkInv, job # NoJob, job.kind = "install", JobBusy, Steady, JobBusy', job'.pc # "rmtree"
  PROVE  CacheInv'
BY DEF SkInv, CacheInv, Steady, JobBusy, ListKept, Hit, Snapshot, Listed, LoadSkills, Loads

\* The operations still under way end with what they do to the directory.
LEMMA WorkingIs ==
  ASSUME SkInv, job.pc \in {"out", "in", "back", "undo", "redo"}
  PROVE  job # NoJob /\ job.kind = "install" /\ Plan /\ World /\ JobBusy
BY DEF SkInv, InstallInv, JobTyped, NoJob, JobBusy

LEMMA NameIs ==
  ASSUME job.todo # {}
  PROVE  Name \in job.todo
BY DEF Name

\* A step of an installation that goes on.
LEMMA StepsOn ==
  ASSUME SkInv, job.pc \in {"out", "in", "back", "undo", "redo"}, Steady, Plan', World',
         DOMAIN job' = DOMAIN job, job'.pc \in {"out", "in", "back", "undo", "redo"},
         job'.ok \in BOOLEAN, job'.torn \in BOOLEAN,
         job'.pc \in {"out", "in"} => job'.ok,
         job'.pc \in {"back", "undo", "redo"} => ~job'.ok,
         job'.pc \in {"out", "in", "back"} => ~job'.torn,
         skills' = [m \in SkillNames |-> skills'[m]]
  PROVE  SkInv'
<1>1. job # NoJob /\ job.kind = "install" /\ JobBusy
  BY WorkingIs
<1>2. JobTyped'
  BY <1>1, InstallFields DEF SkInv, JobTyped, Steady, Fields, NoJob
<1>3. CacheInv'
  BY <1>1, SteadyCache DEF JobBusy
<1>4. QED
  BY <1>1, <1>2, <1>3
     DEF SkInv, InstallInv, BegunInv, RemoveInv, InstallAllOrNothing, Does, Steady

LEMMA MoveOutKeeps ==
  ASSUME SkInv, MoveOut
  PROVE  SkInv'
<1>1. job # NoJob /\ job.kind = "install" /\ Plan /\ World /\ JobBusy /\ job.pc = "out" /\ job.todo # {}
  BY WorkingIs DEF MoveOut, Does
<1>2. DidGo([pc |-> "in", kept |-> Updated(job.kept, [n \in {Name} |-> skills[n]])])
  BY <1>1, InstallFields, GoesTo DEF MoveOut, SkInv
<1>3. /\ job'.pc = "in" /\ job'.kept = Updated(job.kept, [n \in {Name} |-> skills[n]])
      /\ job'.todo = job.todo /\ job'.done = job.done /\ job'.torn = job.torn
      /\ job'.ok = job.ok /\ DOMAIN job' = DOMAIN job
  BY <1>1, <1>2, InstallFields DEF DidGo, SkInv
<1>4. Steady
  BY <1>1, <1>2, InstallFields DEF DidGo, SkInv, Steady, MoveOut, Others
<1>5. Name \in job.todo /\ Name' = Name /\ Name \in SkillNames
  BY <1>1, <1>3, NameIs DEF Name, Plan, Goal, Progress
<1>6. skills[Name] = job.before[Name]
  BY <1>1, <1>5 DEF World, Placed, Done, ToSet, Plan, Goal, Progress
<1>7. Plan'
  <2>1. /\ DOMAIN job'.kept = DOMAIN job.kept \union {Name}
        /\ \A n \in DOMAIN job'.kept : job'.kept[n] = IF n = Name THEN skills[n] ELSE job.kept[n]
    BY <1>3 DEF Updated
  <2>2. \A n \in DOMAIN job'.kept : job'.kept[n] = job'.before[n]
    BY <2>1, <1>1, <1>4, <1>6 DEF Plan, Backups, Steady, Done
  <2>3. Backups'
    BY <1>1, <1>3, <1>5, <2>1, <2>2 DEF Plan, Backups, Done
  <2>4. Progress'
    BY <1>1, <1>3, <1>4, <1>5 DEF Plan, Progress, Steady, Done
  <2>5. QED BY <1>1, <1>4, <2>3, <2>4, SteadyPlan DEF Plan
<1>8. World' /\ skills' = [m \in SkillNames |-> skills'[m]]
  BY <1>1, <1>3, <1>4, <1>5, PutPlaces DEF World, Placed, Done, Steady, SkInv, SkTyped, MoveOut
<1>9. QED
  BY <1>1, <1>3, <1>4, <1>7, <1>8, StepsOn DEF SkInv, JobTyped

LEMMA MoveInKeeps ==
  ASSUME SkInv, MoveIn
  PROVE  SkInv'
<1>1. job # NoJob /\ job.kind = "install" /\ Plan /\ World /\ JobBusy /\ job.pc = "in"
  BY WorkingIs DEF MoveIn, Does
<1>2. DidGo([pc |-> "out", todo |-> job.todo \ {Name}, done |-> <<Name>> \o job.done])
  BY <1>1, InstallFields, GoesTo DEF MoveIn, SkInv
<1>3. /\ job'.pc = "out" /\ job'.kept = job.kept
      /\ job'.todo = job.todo \ {Name} /\ job'.done = <<Name>> \o job.done /\ job'.torn = job.torn
      /\ job'.ok = job.ok /\ DOMAIN job' = DOMAIN job
  BY <1>1, <1>2, InstallFields DEF DidGo, SkInv
<1>4. Steady
  BY <1>1, <1>2, InstallFields DEF DidGo, SkInv, Steady, MoveIn, Others
<1>5. Name \in job.todo /\ Name \in SkillNames /\ Name \in DOMAIN job.new
  BY <1>1, NameIs DEF Plan, Goal, Progress
<1>6. /\ ~Done(Name)
      /\ job'.done \in Seq(DOMAIN job.new \ job'.todo) /\ Distinct(job'.done)
      /\ \A n : n \in ToSet(job'.done) <=> n = Name \/ Done(n)
  <2>1. job.done \in Seq(DOMAIN job.new \ job.todo) /\ Distinct(job.done)
    BY <1>1 DEF Plan, Progress
  <2>2. ~Done(Name)
    BY <1>5, <2>1 DEF Done, ToSet
  <2>3. (DOMAIN job.new \ job.todo) \union {Name} = DOMAIN job.new \ job'.todo
    BY <1>3, <1>5
  <2>4. QED BY <1>3, <2>1, <2>2, <2>3, Prepended, SMTT(30) DEF Done
<1>7. Plan'
  <2>1. Progress'
    BY <1>1, <1>3, <1>4, <1>6 DEF Plan, Progress, Steady, Done
  <2>2. Backups'
    BY <1>1, <1>3, <1>4, <1>6 DEF Plan, Backups, Steady, Done
  <2>3. QED BY <1>1, <1>4, <2>1, <2>2, SteadyPlan DEF Plan
<1>8. World' /\ skills' = [m \in SkillNames |-> skills'[m]]
  BY <1>1, <1>3, <1>4, <1>5, <1>6, PutPlaces DEF World, Placed, Done, Steady, SkInv, SkTyped, MoveIn
<1>9. QED
  BY <1>1, <1>3, <1>4, <1>7, <1>8, StepsOn DEF SkInv, JobTyped

\* The steps of an installation that change nothing but how it goes on.
LEMMA TurnBackKeeps ==
  ASSUME SkInv, MoveOutFails \/ MoveInFails \/ MoveBackFails
  PROVE  SkInv'
<1>1. job # NoJob /\ job.kind = "install" /\ Plan /\ World /\ JobBusy /\ job.pc \in {"out", "in", "back"}
  BY WorkingIs DEF MoveOutFails, MoveInFails, MoveBackFails, Does
<1>2. PICK fields \in {[pc |-> "undo", ok |-> FALSE], [pc |-> "back", ok |-> FALSE],
                       [pc |-> "undo", torn |-> TRUE]} :
        /\ DidGo(fields)
        /\ fields.pc = "back" => job.pc = "in"
        /\ "ok" \in DOMAIN fields => job.pc \in {"out", "in"} /\ (job.pc = "in" => fields.pc = "back")
        /\ "torn" \in DOMAIN fields => job.pc = "back"
  <2>1. CASE MoveOutFails
    BY <1>1, <2>1, InstallFields, GoesTo DEF MoveOutFails, SkInv, Does
  <2>2. CASE MoveInFails
    BY <1>1, <2>2, InstallFields, GoesTo DEF MoveInFails, SkInv, Does
  <2>3. CASE MoveBackFails
    BY <1>1, <2>3, InstallFields, GoesTo DEF MoveBackFails, SkInv, Does
  <2>4. QED BY <2>1, <2>2, <2>3
<1>3. /\ job'.pc = fields.pc /\ job'.kept = job.kept /\ job'.todo = job.todo /\ job'.done = job.done
      /\ DOMAIN job' = DOMAIN job
      /\ \/ job.pc = "out" /\ job'.pc = "undo" /\ job'.ok = FALSE /\ job'.torn = job.torn
         \/ job.pc = "in" /\ job'.pc = "back" /\ job'.ok = FALSE /\ job'.torn = job.torn
         \/ job.pc = "back" /\ job'.pc = "undo" /\ job'.ok = job.ok /\ job'.torn = TRUE
  BY <1>1, <1>2, InstallFields DEF DidGo, SkInv
<1>4. skills' = skills /\ Others
  BY DEF MoveOutFails, MoveInFails, MoveBackFails
<1>5. Steady
  BY <1>1, <1>2, <1>4, InstallFields DEF DidGo, SkInv, Steady, Others
<1>6. Name' = Name
  BY <1>3 DEF Name
<1>7. Plan'
  <2>1. Progress' /\ Backups'
    BY <1>1, <1>3, <1>5, <1>6 DEF Plan, Progress, Backups, Steady, Done
  <2>2. QED BY <1>1, <1>5, <2>1, SteadyPlan DEF Plan
<1>8. World' /\ skills' = [m \in SkillNames |-> skills'[m]]
  BY <1>1, <1>3, <1>4, <1>5, <1>6 DEF World, Placed, Done, Steady, SkInv, SkTyped
<1>9. job.ok \in BOOLEAN /\ (job.pc = "back" => job.ok = FALSE) /\ job.torn = FALSE
  BY <1>1, InstallFields DEF SkInv, JobTyped
<1>10. QED
  BY <1>1, <1>3, <1>5, <1>7, <1>8, <1>9, StepsOn

LEMMA MoveBackKeeps ==
  ASSUME SkInv, MoveBack
  PROVE  SkInv'
<1>1. job # NoJob /\ job.kind = "install" /\ Plan /\ World /\ JobBusy /\ job.pc = "back"
  BY WorkingIs DEF MoveBack, Does
<1>2. DidGo([pc |-> "undo"])
  BY <1>1, InstallFields, GoesTo DEF MoveBack, SkInv
<1>3. /\ job'.pc = "undo" /\ job'.kept = job.kept /\ job'.todo = job.todo /\ job'.done = job.done
      /\ job'.ok = job.ok /\ job'.torn = job.torn /\ DOMAIN job' = DOMAIN job
  BY <1>1, <1>2, InstallFields DEF DidGo, SkInv
<1>4. Steady
  BY <1>1, <1>2, InstallFields DEF DidGo, SkInv, Steady, MoveBack, Others
<1>5. Name \in job.todo /\ Name \in SkillNames /\ Name \in DOMAIN job.kept
  BY <1>1, NameIs DEF Plan, Goal, Progress, Backups
<1>6. job.kept[Name] = job.before[Name] /\ ~Done(Name)
  BY <1>1, <1>5 DEF Plan, Progress, Backups, Done, ToSet
<1>7. Plan'
  <2>1. Progress' /\ Backups'
    BY <1>1, <1>3, <1>4 DEF Plan, Progress, Backups, Steady, Done
  <2>2. QED BY <1>1, <1>4, <2>1, SteadyPlan DEF Plan
<1>8. World' /\ skills' = [m \in SkillNames |-> skills'[m]]
  BY <1>1, <1>3, <1>4, <1>5, <1>6, PutPlaces DEF World, Placed, Done, Steady, SkInv, SkTyped, MoveBack, PutBack
<1>9. job.ok = FALSE /\ job.torn = FALSE
  BY <1>1, InstallFields DEF SkInv, JobTyped
<1>10. QED
  BY <1>1, <1>3, <1>4, <1>7, <1>8, <1>9, StepsOn

LEMMA LastDone ==
  ASSUME SkInv, job # NoJob, Plan, job.done # <<>>
  PROVE  /\ Last1 \in SkillNames /\ Last1 \in DOMAIN job.kept
         /\ Done(Last1) /\ Last1 \notin ToSet(Tail(job.done))
         /\ ToSet(job.done) = ToSet(Tail(job.done)) \union {Last1}
         /\ Tail(job.done) \in Seq(DOMAIN job.new \ job.todo) /\ Distinct(Tail(job.done))
<1>1. job.done \in Seq(DOMAIN job.new \ job.todo) /\ Distinct(job.done)
  BY DEF Plan, Progress
<1>2. QED BY <1>1, HeadAndTail DEF Last1, Done, Plan, Goal, Backups

LEMMA DeleteKeeps ==
  ASSUME SkInv, Delete
  PROVE  SkInv'
<1>1. job # NoJob /\ job.kind = "install" /\ Plan /\ World /\ JobBusy /\ job.pc = "undo" /\ job.done # <<>>
  BY WorkingIs DEF Delete, Does
<1>2. DidGo([pc |-> "redo"])
  BY <1>1, InstallFields, GoesTo DEF Delete, SkInv
<1>3. /\ job'.pc = "redo" /\ job'.kept = job.kept /\ job'.todo = job.todo /\ job'.done = job.done
      /\ job'.ok = job.ok /\ job'.torn = job.torn /\ DOMAIN job' = DOMAIN job
  BY <1>1, <1>2, InstallFields DEF DidGo, SkInv
<1>4. Steady
  BY <1>1, <1>2, InstallFields DEF DidGo, SkInv, Steady, Delete, Others
<1>5. Plan'
  <2>1. Progress' /\ Backups'
    BY <1>1, <1>3, <1>4 DEF Plan, Progress, Backups, Steady, Done
  <2>2. QED BY <1>1, <1>4, <2>1, SteadyPlan DEF Plan
<1>6. World' /\ skills' = [m \in SkillNames |-> skills'[m]]
  BY <1>1, <1>3, <1>4, PutPlaces, LastDone DEF World, Placed, Done, Steady, SkInv, SkTyped, Delete, Last1
<1>7. job.ok = FALSE /\ job.torn \in BOOLEAN
  BY <1>1, InstallFields DEF SkInv, JobTyped
<1>8. QED
  BY <1>1, <1>3, <1>4, <1>5, <1>6, <1>7, StepsOn

LEMMA RedoKeeps ==
  ASSUME SkInv, Redo
  PROVE  SkInv'
<1>1. job # NoJob /\ job.kind = "install" /\ Plan /\ World /\ JobBusy /\ job.pc = "redo" /\ job.done # <<>>
  BY WorkingIs DEF Redo, Does, Plan, Progress
<1>2. DidGo([pc |-> "undo", done |-> Tail(job.done)])
  BY <1>1, InstallFields, GoesTo DEF Redo, SkInv
<1>3. /\ job'.pc = "undo" /\ job'.kept = job.kept /\ job'.todo = job.todo /\ job'.done = Tail(job.done)
      /\ job'.ok = job.ok /\ job'.torn = job.torn /\ DOMAIN job' = DOMAIN job
  BY <1>1, <1>2, InstallFields DEF DidGo, SkInv
<1>4. Steady
  BY <1>1, <1>2, InstallFields DEF DidGo, SkInv, Steady, Redo, Others
<1>5. Plan'
  <2>1. Progress' /\ Backups'
    BY <1>1, <1>3, <1>4, LastDone DEF Plan, Progress, Backups, Steady, Done
  <2>2. QED BY <1>1, <1>4, <2>1, SteadyPlan DEF Plan
<1>6. job.kept[Last1] = job.before[Last1]
  BY <1>1, LastDone DEF Plan, Backups
<1>7. World' /\ skills' = [m \in SkillNames |-> skills'[m]]
  BY <1>1, <1>3, <1>4, <1>6, PutPlaces, LastDone DEF World, Placed, Done, Steady, SkInv, SkTyped, Redo, Last1
<1>8. job.ok = FALSE /\ job.torn \in BOOLEAN
  BY <1>1, InstallFields DEF SkInv, JobTyped
<1>9. QED
  BY <1>1, <1>3, <1>4, <1>5, <1>7, <1>8, StepsOn

LEMMA JobFields ==
  ASSUME JobTyped, job # NoJob
  PROVE  /\ {"kind", "pc", "before", "new", "todo", "kept", "done", "ok", "torn", "seen"}
              \subseteq DOMAIN job
         /\ job.kind = "remove" => "name" \in DOMAIN job
         /\ job.kind = "install" => {"upload", "replace", "stamp"} \subseteq DOMAIN job
BY DEF JobTyped, Fields

LEMMA FailsEnds ==
  ASSUME SkInv, job # NoJob, JobBusy, job.kind # "reload",
         NEW fields \in {<<>>, [torn |-> TRUE]}, Fails(fields),
         skills' = [n \in SkillNames |-> skills'[n]],
         job.kind = "install" /\ ~job'.torn => skills' = job.before,
         ~raced /\ ~job.seen /\ ~job'.torn => ListTold'
  PROVE  SkInv'
<1>1. DOMAIN fields \subseteq {"torn"}
  OBVIOUS
<1>2. /\ DOMAIN job' = DOMAIN job
      /\ job'.pc = "over" /\ job'.ok = FALSE /\ job'.torn \in BOOLEAN
      /\ \A f \in DOMAIN job \ {"pc", "ok", "torn"} : job'[f] = job[f]
      /\ raced' = (raced \/ job.seen \/ job'.torn)
      /\ UNCHANGED <<cached, listing>>
  <2>1. {"pc", "ok", "torn"} \subseteq DOMAIN job /\ job.torn \in BOOLEAN
    BY JobFields DEF SkInv, JobTyped
  <2>2. (DOMAIN fields = {}) \/ (DOMAIN fields # {} /\ fields["torn"] = TRUE)
    OBVIOUS
  <2>3. QED BY <1>1, <2>1, <2>2, FailsTo
<1>3. /\ job'.kind = job.kind /\ job'.before = job.before /\ job'.seen = job.seen
      /\ job.kind = "install" => job'.upload = job.upload
      /\ job.kind = "remove" => job'.name = job.name
  BY <1>2, JobFields DEF SkInv
<1>4. JobTyped'
  BY <1>2, <1>3 DEF SkInv, JobTyped, Fields, NoJob
<1>5. CacheInv'
  BY <1>2, <1>3 DEF CacheInv, JobBusy, SkInv, JobTyped
<1>6. InstallAllOrNothing'
  <2>1. ~raced' => ListTold'
    BY <1>2
  <2>2. QED BY <1>2, <1>3, <2>1 DEF InstallAllOrNothing, ListTold, Does
<1>7. raced' \in BOOLEAN
  BY <1>2 DEF SkInv, JobTyped
<1>8. QED
  BY <1>2, <1>4, <1>5, <1>6, <1>7 DEF SkInv, InstallInv, BegunInv, RemoveInv, NoJob

LEMMA TornIs ==
  ASSUME JobTyped, job # NoJob
  PROVE  /\ Fails(<<>>) => job'.torn = job.torn
         /\ Fails([torn |-> TRUE]) => job'.torn = TRUE
<1>1. {"pc", "ok", "torn"} \subseteq DOMAIN job
  BY JobFields
<1>2. ASSUME Fails(<<>>) PROVE job'.torn = job.torn
  <2>1. PICK fields : fields = <<>>
    OBVIOUS
  <2>2. Fails(fields) /\ DOMAIN fields = {}
    BY <1>2, <2>1
  <2>3. QED BY <1>1, <2>2, FailsTo
<1>3. ASSUME Fails([torn |-> TRUE]) PROVE job'.torn = TRUE
  <2>1. PICK fields : fields = [torn |-> TRUE]
    OBVIOUS
  <2>2. Fails(fields) /\ DOMAIN fields = {"torn"} /\ fields["torn"] = TRUE
    BY <1>3, <2>1
  <2>3. QED BY <1>1, <2>2, FailsTo
<1>4. QED BY <1>2, <1>3

LEMMA Unchanged ==
  ASSUME SkInv, job # NoJob, JobBusy, job.kind = "install" \/ job.pc = "begun", skills' = job.before, cached' = cached
  PROVE  ~raced /\ ~job.seen => ListTold'
BY DEF SkInv, CacheInv, ListTold, ListKept, Hit, Snapshot, Listed, LoadSkills

LEMMA DeleteFailsKeeps ==
  ASSUME SkInv, DeleteFails
  PROVE  SkInv'
<1>1. job # NoJob /\ job.kind = "install" /\ Plan /\ JobBusy /\ job.done # <<>>
  BY WorkingIs DEF DeleteFails, Does
<1>2. job'.torn = TRUE
  BY <1>1, TornIs DEF SkInv, DeleteFails
<1>3. skills' = [n \in SkillNames |-> skills'[n]]
  BY <1>1, LastDone, PutPlaces DEF SkInv, SkTyped, DeleteFails
<1>4. QED BY <1>1, <1>2, <1>3, FailsEnds DEF DeleteFails

LEMMA RedoFailsKeeps ==
  ASSUME SkInv, RedoFails
  PROVE  SkInv'
<1>1. job # NoJob /\ job.kind = "install" /\ JobBusy
  BY WorkingIs DEF RedoFails, Does
<1>2. job'.torn = TRUE
  BY <1>1, TornIs DEF SkInv, RedoFails
<1>3. skills' = [n \in SkillNames |-> skills'[n]]
  BY DEF SkInv, RedoFails
<1>4. QED BY <1>1, <1>2, <1>3, FailsEnds DEF RedoFails

LEMMA RaisedKeeps ==
  ASSUME SkInv, Raised
  PROVE  SkInv'
<1>1. job # NoJob /\ job.kind = "install" /\ Plan /\ World /\ JobBusy /\ job.pc = "undo" /\ job.done = <<>>
  BY WorkingIs DEF Raised, Does
<1>2. job'.torn = job.torn
  BY <1>1, TornIs DEF SkInv, Raised
<1>3. ~job'.torn => skills' = job.before
  <2>1. ~job.torn => \A n \in SkillNames : skills[n] = job.before[n]
    BY <1>1 DEF World, Placed, Done, ToSet
  <2>2. skills = [n \in SkillNames |-> skills[n]] /\ job.before = [n \in SkillNames |-> job.before[n]]
    BY <1>1 DEF SkInv, JobTyped
  <2>3. skills' = skills
    BY DEF Raised
  <2>4. QED BY <1>2, <2>1, <2>2, <2>3
<1>4. cached' = cached
  BY DEF Raised, Fails
<1>5. ~raced /\ ~job.seen /\ ~job'.torn => ListTold'
  BY <1>1, <1>3, <1>4, Unchanged
<1>6. skills' = [n \in SkillNames |-> skills'[n]]
  BY DEF SkInv, Raised
<1>7. QED BY <1>1, <1>3, <1>5, <1>6, FailsEnds DEF Raised

LEMMA StageKeeps ==
  ASSUME SkInv, Stage
  PROVE  SkInv'
<1> DEFINE x == Extract(job.upload, job.stamp)
           ps == x.packages
           names == {p.name : p \in ps}
           bad == \/ ~x.ok
                  \/ \E p, q \in ps : p # q /\ p.name = q.name
                  \/ \E p \in ps : ~Loads(p.name, p.holds)
                  \/ ~job.replace /\ \E n \in names : Exists(n)
           new == [n \in names |-> (CHOOSE p \in ps : p.name = n).holds]
           fields == [pc |-> "out", todo |-> names, new |-> new]
<1>1. job # NoJob /\ job.kind = "install" /\ job.pc = "begun" /\ JobBusy
  BY DEF Stage, Does, NoJob, JobBusy
<1>2. job.before = skills /\ job.done = <<>> /\ job.kept = <<>> /\ skills' = skills
  BY <1>1 DEF SkInv, BegunInv, Stage
<1>3. CASE bad
  <2>1. Fails(<<>>)
    BY <1>3 DEF Stage
  <2>2. cached' = cached
    BY <2>1 DEF Fails
  <2>3. ~raced /\ ~job.seen => ListTold'
    BY <1>1, <1>2, <2>2, Unchanged
  <2>4. skills' = [n \in SkillNames |-> skills'[n]]
    BY <1>2 DEF SkInv
  <2>5. QED BY <1>1, <1>2, <2>1, <2>3, <2>4, FailsEnds
<1>4. CASE ~bad
  <2>1. Goes(fields) /\ Others
    BY <1>4 DEF Stage
  <2>2. x.ok /\ ps = Packages(job.upload, job.stamp)
    BY <1>4, Extracted
  <2>3. \A p \in ps : p.name \in SkillNames /\ p.holds = [skill |-> p.name, stamp |-> job.stamp]
    <3>1. ASSUME NEW p \in ps
          PROVE  p.name \in SkillNames /\ p.holds = [skill |-> p.name, stamp |-> job.stamp]
      <4>1. Loads(p.name, p.holds)
        BY <1>4
      <4>2. p.name \in SkillNames /\ p.holds.skill = p.name
        BY <4>1 DEF Loads
      <4>3. p.holds = [skill |-> p.holds.skill, stamp |-> job.stamp]
        <5> HIDE DEF ps
        <5> QED BY <2>2, PackageStamped
      <4> HIDE DEF ps
      <4>4. QED BY <4>2, <4>3
    <3>2. QED BY <3>1
  <2>4. \A n : n \in names <=> Uploaded(n) # {}
    <3>1. job.upload \in Uploads
      BY <1>1, InstallFields DEF SkInv
    <3>2. \A n : n \in names <=> \E p \in ps : p.name = n
      OBVIOUS
    <3> HIDE DEF ps, names
    <3>3. QED BY <2>2, <3>1, <3>2, PackagesNamed
  <2>5. \A n \in names : new[n] = [skill |-> n, stamp |-> job.stamp]
    <3>1. ASSUME NEW n \in names PROVE new[n] = [skill |-> n, stamp |-> job.stamp]
      <4> DEFINE p == CHOOSE p \in ps : p.name = n
      <4>1. p \in ps /\ p.name = n
        BY <3>1
      <4>2. new[n] = p.holds
        BY <3>1
      <4> HIDE DEF p, ps
      <4>3. QED BY <2>3, <4>1, <4>2
    <3> HIDE DEF new, names
    <3>2. QED BY <3>1
  <2>6. names \subseteq SkillNames
    BY <2>3
  <2>7. DOMAIN new = names
    OBVIOUS
  <2> HIDE DEF x, ps, names, bad, new
  <2>8. DidGo(fields)
    <3>1. DOMAIN fields \subseteq DOMAIN job
      BY <1>1, JobFields DEF SkInv
    <3> HIDE DEF fields
    <3>2. QED BY <2>1, <3>1, GoesTo
  <2>9. /\ job'.pc = "out" /\ job'.todo = names /\ job'.new = new
        /\ job'.kept = job.kept /\ job'.done = job.done /\ job'.ok = job.ok /\ job'.torn = job.torn
        /\ job'.kind = job.kind /\ job'.before = job.before /\ job'.seen = job.seen
        /\ job'.upload = job.upload /\ job'.stamp = job.stamp
        /\ DOMAIN job' = DOMAIN job
    BY <1>1, <2>8, InstallFields DEF DidGo, SkInv
  <2>10. UNCHANGED <<cached, listing, raced>>
    BY <2>1 DEF Others
  <2>11. Goal'
    <3>1. \A n : Uploaded(n)' = Uploaded(n)
      BY <2>9 DEF Uploaded
    <3>2. QED BY <2>4, <2>5, <2>6, <2>7, <2>9, <3>1 DEF Goal
  <2>12. Progress' /\ Backups'
    BY <1>2, <2>7, <2>9 DEF Progress, Backups, Distinct, Done, ToSet
  <2>13. World'
    BY <1>2, <2>9 DEF World, Placed, Done, ToSet
  <2>14. JobTyped'
    BY <1>1, <2>9, InstallFields DEF SkInv, JobTyped, Fields, NoJob
  <2>15. CacheInv'
    BY <1>1, <2>9, <2>10 DEF SkInv, CacheInv, JobBusy, ListKept, Hit, Listed, Snapshot, LoadSkills, Loads
  <2>16. QED
    BY <1>1, <1>2, <2>9, <2>10, <2>11, <2>12, <2>13, <2>14, <2>15
       DEF SkInv, InstallInv, BegunInv, RemoveInv, InstallAllOrNothing, Does, Plan
<1>5. QED BY <1>3, <1>4

LEMMA AsksKeeps ==
  ASSUME SkInv, Install \/ RemoveSkill \/ Reload
  PROVE  SkInv'
<1>1. PICK fields :
        /\ fields.kind \in {"install", "remove", "reload"} /\ Asks(fields)
        /\ \/ /\ fields.kind = "install" /\ DOMAIN fields = {"kind", "upload", "replace", "stamp"}
              /\ fields.upload \in Uploads
           \/ fields.kind = "remove" /\ DOMAIN fields = {"kind", "name"} /\ fields.name \in SkillNames
           \/ fields.kind = "reload" /\ DOMAIN fields = {"kind"}
  <2>1. CASE Install
    <3>1. PICK u \in Uploads, r \in BOOLEAN :
            Asks([kind |-> "install", upload |-> u, replace |-> r, stamp |-> jobs + 2])
      BY <2>1 DEF Install
    <3>2. WITNESS [kind |-> "install", upload |-> u, replace |-> r, stamp |-> jobs + 2]
    <3>3. QED BY <3>1
  <2>2. CASE RemoveSkill
    <3>1. PICK n \in SkillNames : Asks([kind |-> "remove", name |-> n])
      BY <2>2 DEF RemoveSkill
    <3>2. WITNESS [kind |-> "remove", name |-> n]
    <3>3. QED BY <3>1
  <2>3. CASE Reload
    <3>1. Asks([kind |-> "reload"])
      BY <2>3 DEF Reload
    <3>2. WITNESS [kind |-> "reload"]
    <3>3. QED BY <3>1
  <2>4. QED BY <2>1, <2>2, <2>3
<1>2. /\ job.pc \in {"idle", "over"} /\ job' = Updated(Begun(fields.kind), fields)
      /\ UNCHANGED <<skills, cached, listing, raced>>
  BY <1>1 DEF Asks
<1>3. /\ DOMAIN job' = Fields(fields.kind)
      /\ job'.kind = fields.kind /\ job'.pc = "begun" /\ job'.before = skills
      /\ job'.kept = <<>> /\ job'.done = <<>> /\ job'.ok = TRUE /\ job'.torn = FALSE
      /\ job'.seen = (listing # NoListing)
      /\ fields.kind = "install" => job'.upload \in Uploads
      /\ fields.kind = "remove" => job'.name \in SkillNames
  BY <1>1, <1>2 DEF Updated, Begun, Fields
<1>4. JobTyped'
  BY <1>1, <1>2, <1>3 DEF SkInv, JobTyped
<1>5. CacheInv'
  <2>1. Listed(job.before)' = Listed(skills) /\ Snapshot(job.before)' = Snapshot(skills)
    BY <1>3 DEF Listed, Snapshot, LoadSkills, Loads
  <2>2. ~JobBusy /\ (~raced => ListTold)
    BY <1>2 DEF SkInv, CacheInv, JobBusy
  <2>3. ListTold => ListKept'
    BY <1>2, <2>1 DEF ListTold, ListKept, Hit
  <2>4. QED BY <1>2, <1>3, <2>2, <2>3 DEF CacheInv, JobBusy
<1>6. QED
  BY <1>2, <1>3, <1>4, <1>5 DEF SkInv, InstallInv, BegunInv, RemoveInv, InstallAllOrNothing, Does

LEMMA FindKeeps ==
  ASSUME SkInv, Find
  PROVE  SkInv'
<1> DEFINE pc == IF job.name \in DOMAIN ListNow.list THEN "rmtree" ELSE "reload"
<1>1. /\ job # NoJob /\ job.kind = "remove" /\ job.pc = "begun" /\ JobBusy
      /\ skills = job.before /\ job.name \in SkillNames
  BY DEF Find, Does, NoJob, JobBusy, SkInv, BegunInv, JobTyped
<1>2. DidGo([pc |-> pc])
  BY <1>1, JobFields, GoesTo DEF Find, SkInv
<1>3. /\ job'.pc = pc /\ DOMAIN job' = DOMAIN job
      /\ \A f \in DOMAIN job \ {"pc"} : job'[f] = job[f]
  BY <1>1, <1>2, JobFields DEF DidGo, SkInv
<1>4. /\ job'.kind = "remove" /\ job'.before = job.before /\ job'.name = job.name
      /\ job'.ok = job.ok /\ job'.torn = job.torn /\ job'.seen = job.seen
  BY <1>1, <1>3, JobFields DEF SkInv
<1>5. cached' = ListNow /\ UNCHANGED <<skills, listing, raced>>
  BY DEF Find
<1>6. JobTyped'
  BY <1>1, <1>3, <1>4 DEF SkInv, JobTyped, NoJob
<1>7. ~job.seen /\ ~raced => ListNow = Listed(skills)
  BY <1>1 DEF SkInv, CacheInv, ListKept, ListNow
<1>8. Listed(skills)' = Listed(skills)
  BY <1>5 DEF Listed, Snapshot, LoadSkills, Loads
<1>9. CacheInv'
  BY <1>1, <1>3, <1>4, <1>5, <1>7, <1>8 DEF SkInv, CacheInv, JobBusy
<1>10. QED
  BY <1>1, <1>3, <1>4, <1>5, <1>6, <1>9
     DEF SkInv, InstallInv, BegunInv, RemoveInv, InstallAllOrNothing, Does

LEMMA RmtreeKeeps ==
  ASSUME SkInv, Rmtree
  PROVE  SkInv'
<1>1. /\ job # NoJob /\ job.kind = "remove" /\ job.pc = "rmtree" /\ JobBusy
      /\ job.name \in SkillNames
  BY DEF Rmtree, Does, NoJob, JobBusy, SkInv, JobTyped
<1>2. DidGo([pc |-> "reload"])
  BY <1>1, JobFields, GoesTo DEF Rmtree, SkInv
<1>3. /\ job'.pc = "reload" /\ DOMAIN job' = DOMAIN job
      /\ \A f \in DOMAIN job \ {"pc"} : job'[f] = job[f]
  BY <1>1, <1>2, JobFields DEF DidGo, SkInv
<1>4. /\ job'.kind = "remove" /\ job'.before = job.before /\ job'.name = job.name
      /\ job'.ok = job.ok /\ job'.torn = job.torn /\ job'.seen = job.seen
  BY <1>1, <1>3, JobFields DEF SkInv
<1>5. /\ skills' = [m \in SkillNames |-> skills'[m]]
      /\ \A m \in SkillNames \ {job.name} : skills'[m] = job.before[m]
  BY <1>1, PutPlaces DEF Rmtree, SkInv, SkTyped, RemoveInv
<1>6. UNCHANGED <<cached, listing, raced>>
  BY DEF Rmtree, Others
<1>7. JobTyped'
  BY <1>1, <1>3, <1>4 DEF SkInv, JobTyped, NoJob
<1>8. CacheInv'
  BY <1>1, <1>3, <1>4, <1>6 DEF SkInv, CacheInv, JobBusy
<1>9. QED
  BY <1>1, <1>3, <1>4, <1>5, <1>6, <1>7, <1>8
     DEF SkInv, InstallInv, BegunInv, RemoveInv, InstallAllOrNothing, Does

LEMMA RmtreeFailsKeeps ==
  ASSUME SkInv, RmtreeFails
  PROVE  SkInv'
<1>1. /\ job # NoJob /\ job.kind = "remove" /\ job.pc = "rmtree" /\ JobBusy
      /\ job.name \in SkillNames
  BY DEF RmtreeFails, Does, NoJob, JobBusy, SkInv, JobTyped
<1>2. Fails(<<>>) /\ cached' = cached
  BY DEF RmtreeFails, Fails
<1>3. \/ ~Exists(job.name) /\ UNCHANGED skills
      \/ Put(job.name, Broken)
  BY DEF RmtreeFails
<1>4. skills' = [m \in SkillNames |-> skills'[m]]
  BY <1>1, <1>3, PutPlaces DEF SkInv, SkTyped
<1>5. ASSUME ~raced, ~job.seen PROVE ListTold'
  <2>1. cached = Listed(skills) /\ job.name \in DOMAIN cached.list
    BY <1>1, <1>5 DEF SkInv, CacheInv
  <2>2. Loads(job.name, skills[job.name])
    BY <2>1 DEF Listed, LoadSkills
  <2>3. Exists(job.name) /\ skills[job.name] # Broken
    <3>1. job.name # "none"
      BY <1>1, SkillNamesAssumption
    <3>2. QED BY <2>2, <3>1 DEF Loads, Exists, Broken
  <2>4. Put(job.name, Broken)
    BY <1>3, <2>3
  <2>5. job.name \in DOMAIN Snapshot(skills)
    BY <1>1, <2>3 DEF Snapshot, Exists, SkInv
  <2>6. skills'[job.name] = Broken
    BY <1>1, <2>4, PutPlaces DEF SkInv, SkTyped
  <2>7. job.name \notin DOMAIN Snapshot(skills)'
    BY <2>6 DEF Snapshot
  <2>8. cached.files = Snapshot(skills)
    BY <2>1 DEF Listed
  <2>9. QED BY <1>2, <2>5, <2>7, <2>8 DEF ListTold, Hit
<1>6. QED BY <1>1, <1>2, <1>4, <1>5, FailsEnds

LEMMA RefreshKeeps ==
  ASSUME SkInv, Refresh
  PROVE  SkInv'
<1>1. /\ job # NoJob
      /\ \/ job.kind = "remove" /\ job.pc = "reload"
         \/ job.kind = "install" /\ job.pc = "out" /\ job.todo = {}
         \/ job.kind = "reload" /\ job.pc = "begun"
  BY DEF Refresh, Does, NoJob, SkInv, JobTyped
<1>2. DidGo([pc |-> "over"])
  BY <1>1, JobFields, GoesTo DEF Refresh, SkInv
<1>3. /\ job'.pc = "over" /\ DOMAIN job' = DOMAIN job
      /\ \A f \in DOMAIN job \ {"pc"} : job'[f] = job[f]
  BY <1>1, <1>2, JobFields DEF DidGo, SkInv
<1>4. /\ job'.kind = job.kind /\ job'.before = job.before
      /\ job'.ok = job.ok /\ job'.torn = job.torn /\ job'.seen = job.seen
      /\ job.kind = "remove" => job'.name = job.name
      /\ job.kind = "install" => job'.upload = job.upload /\ job'.stamp = job.stamp
  BY <1>1, <1>3, JobFields DEF SkInv
<1>5. cached' = Listed(skills) /\ raced' = FALSE /\ UNCHANGED <<skills, listing>>
  BY DEF Refresh
<1>6. JobTyped'
  BY <1>1, <1>3, <1>4 DEF SkInv, JobTyped, NoJob
<1>7. Listed(skills)' = Listed(skills)
  BY <1>5 DEF Listed, Snapshot, LoadSkills, Loads
<1>8. CacheInv'
  BY <1>3, <1>5, <1>7 DEF CacheInv, JobBusy, ListTold
<1>9. ASSUME job.kind = "install"
      PROVE  \A n \in SkillNames :
               IF Uploaded(n)' # {} THEN skills[n] = [skill |-> n, stamp |-> job.stamp]
               ELSE skills[n] = job.before[n]
  <2>1. Plan /\ World /\ job.pc = "out" /\ job.todo = {}
    BY <1>1, <1>9 DEF SkInv, InstallInv
  <2>2. \A n : Uploaded(n)' = Uploaded(n)
    BY <1>4, <1>9 DEF Uploaded
  <2>3. \A n \in SkillNames : Done(n) <=> n \in DOMAIN job.new
    <3>1. job.done \in Seq(DOMAIN job.new) /\ \A n \in DOMAIN job.new : Done(n)
      BY <2>1 DEF Plan, Progress
    <3>2. \A n : Done(n) => n \in DOMAIN job.new
      BY <3>1 DEF Done, ToSet
    <3>3. QED BY <3>1, <3>2
  <2>4. QED BY <2>1, <2>2, <2>3 DEF World, Placed, Plan, Goal
<1>10. job.kind = "install" => job.ok
  BY <1>1 DEF SkInv, JobTyped
<1>11. InstallAllOrNothing'
  <2>1. job.kind = "remove" => \A n \in SkillNames \ {job.name} : skills[n] = job.before[n]
    BY <1>1 DEF SkInv, RemoveInv
  <2>2. QED BY <1>3, <1>4, <1>5, <1>7, <1>9, <1>10, <2>1 DEF InstallAllOrNothing, Does
<1>12. QED
  BY <1>1, <1>3, <1>4, <1>5, <1>6, <1>8, <1>11 DEF SkInv, InstallInv, BegunInv, RemoveInv

LEMMA ListBeginsKeeps ==
  ASSUME SkInv, ListBegins
  PROVE  SkInv'
<1>1. UNCHANGED <<skills, cached, raced>>
  BY DEF ListBegins
<1>2. CASE ~JobBusy
  <2>1. job' = job
    BY <1>2 DEF ListBegins, JobBusy
  <2>2. SkTyped' /\ CacheInv'
    BY <1>1, <1>2, <2>1 DEF SkInv, SkTyped, JobTyped, CacheInv, JobBusy, ListTold, Hit, Listed, Snapshot, LoadSkills, Loads
  <2>3. job # NoJob => (InstallInv /\ BegunInv /\ RemoveInv)'
    BY <1>1, <1>2, <2>1 DEF SkInv, InstallInv, BegunInv, RemoveInv, JobBusy, JobTyped
  <2>4. InstallAllOrNothing'
    <3>1. \A n : Uploaded(n)' = Uploaded(n)
      BY <2>1 DEF Uploaded
    <3>2. Snapshot(skills)' = Snapshot(skills) /\ Listed(skills)' = Listed(skills)
      BY <1>1 DEF Listed, Snapshot, LoadSkills, Loads
    <3>3. QED BY <1>1, <2>1, <3>1, <3>2 DEF SkInv, InstallAllOrNothing, Does, Hit
  <2>5. QED BY <2>1, <2>2, <2>3, <2>4 DEF SkInv, SkTyped
<1>3. CASE JobBusy
  <2>1. job # NoJob
    BY <1>3 DEF JobBusy, NoJob
  <2>2. job' = [job EXCEPT !.seen = TRUE]
    BY <1>3 DEF ListBegins, JobBusy
  <2>3. /\ DOMAIN job' = DOMAIN job /\ job'.seen = TRUE
        /\ \A f \in DOMAIN job \ {"seen"} : job'[f] = job[f]
    BY <2>1, <2>2, JobFields DEF SkInv
  <2>4. /\ job'.kind = job.kind /\ job'.pc = job.pc /\ job'.before = job.before
        /\ job'.new = job.new /\ job'.todo = job.todo /\ job'.kept = job.kept
        /\ job'.done = job.done /\ job'.ok = job.ok /\ job'.torn = job.torn
        /\ job.kind = "remove" => job'.name = job.name
        /\ job.kind = "install" => job'.upload = job.upload /\ job'.stamp = job.stamp
    BY <2>1, <2>3, JobFields DEF SkInv
  <2>5. JobTyped'
    BY <2>1, <2>3, <2>4 DEF SkInv, JobTyped, NoJob
  <2>6. CacheInv'
    BY <1>3, <2>3, <2>4 DEF CacheInv, JobBusy
  <2>7. InstallInv'
    <3>1. SUFFICES ASSUME job.kind = "install", job.pc \notin {"begun", "over"} PROVE Plan' /\ World'
      BY <2>4 DEF InstallInv
    <3>2. Plan /\ World
      BY <2>1, <3>1 DEF SkInv, InstallInv
    <3>3. \A n : Uploaded(n)' = Uploaded(n)
      BY <2>4, <3>1 DEF Uploaded
    <3>4. Goal'
      BY <2>4, <3>1, <3>2, <3>3 DEF Plan, Goal
    <3>5. Progress'
      BY <2>4, <3>2 DEF Plan, Progress, Done
    <3>6. Name' = Name
      BY <2>4 DEF Name
    <3>7. Backups'
      BY <2>4, <3>2, <3>6 DEF Plan, Backups, Done
    <3>8. World'
      BY <1>1, <2>4, <3>2, <3>6 DEF World, Placed, Done
    <3>9. QED BY <3>4, <3>5, <3>7, <3>8 DEF Plan
  <2>8. BegunInv' /\ RemoveInv' /\ InstallAllOrNothing'
    BY <1>1, <1>3, <2>1, <2>4 DEF SkInv, BegunInv, RemoveInv, InstallAllOrNothing, Does, JobBusy
  <2>9. QED BY <1>1, <2>5, <2>6, <2>7, <2>8 DEF SkInv
<1>4. QED BY <1>2, <1>3

LEMMA ListReadsKeeps ==
  ASSUME SkInv, ListReads
  PROVE  SkInv'
<1>1. /\ UNCHANGED <<skills, job, raced>> /\ listing' = NoListing /\ listing # NoListing
      /\ cached' = [files |-> listing.files, list |-> LoadSkills(skills)]
  BY DEF ListReads
<1>2. Snapshot(skills)' = Snapshot(skills) /\ Listed(skills)' = Listed(skills)
  BY <1>1 DEF Listed, Snapshot, LoadSkills, Loads
<1>3. ListTold'
  BY <1>1, <1>2 DEF ListTold, Hit, Listed
<1>4. CacheInv'
  BY <1>1, <1>3 DEF SkInv, CacheInv, JobBusy
<1>5. SkTyped' /\ (job # NoJob => InstallInv' /\ BegunInv' /\ RemoveInv')
  <2>1. \A n : Uploaded(n)' = Uploaded(n)
    BY <1>1 DEF Uploaded
  <2>2. Plan => Plan'
    BY <1>1, <2>1 DEF Plan, Goal, Progress, Backups, Done, Name
  <2>3. World => World'
    BY <1>1 DEF World, Placed, Done, Name
  <2>4. SkTyped'
    BY <1>1 DEF SkInv, SkTyped, JobTyped
  <2>5. QED BY <1>1, <2>2, <2>3, <2>4 DEF SkInv, InstallInv, BegunInv, RemoveInv
<1>6. InstallAllOrNothing'
  BY <1>1, <1>3 DEF SkInv, InstallAllOrNothing, ListTold, Uploaded, Does
<1>7. QED BY <1>1, <1>4, <1>5, <1>6 DEF SkInv, SkTyped

LEMMA SkInitHolds ==
  ASSUME SkillsInit
  PROVE  SkInv
<1>1. job = NoJob /\ job.pc = "idle" /\ raced = FALSE /\ listing = NoListing
  BY DEF SkillsInit, NoJob
<1>2. skills = [n \in SkillNames |-> skills[n]]
  BY DEF SkillsInit
<1>3. ListTold
  BY DEF SkillsInit, ListTold, Hit, NoList
<1>4. QED
  BY <1>1, <1>2, <1>3 DEF SkInv, JobTyped, CacheInv, JobBusy, InstallAllOrNothing, Does

LEMMA SkillsStepKeeps ==
  ASSUME SkInv, [SkillsNext]_skillVars
  PROVE  SkInv'
<1>1. CASE Install \/ RemoveSkill \/ Reload
  BY <1>1, AsksKeeps
<1>2. CASE Stage
  BY <1>2, StageKeeps
<1>3. CASE MoveOut \/ MoveIn \/ MoveBack
  BY <1>3, MoveOutKeeps, MoveInKeeps, MoveBackKeeps
<1>4. CASE MoveOutFails \/ MoveInFails \/ MoveBackFails
  BY <1>4, TurnBackKeeps
<1>5. CASE Delete \/ DeleteFails \/ Redo \/ RedoFails \/ Raised
  BY <1>5, DeleteKeeps, DeleteFailsKeeps, RedoKeeps, RedoFailsKeeps, RaisedKeeps
<1>6. CASE Find \/ Rmtree \/ RmtreeFails \/ Refresh
  BY <1>6, FindKeeps, RmtreeKeeps, RmtreeFailsKeeps, RefreshKeeps
<1>7. CASE ListBegins \/ ListReads
  BY <1>7, ListBeginsKeeps, ListReadsKeeps
<1>8. CASE UNCHANGED skillVars
  <2>1. UNCHANGED <<skills, cached, job, listing, raced>>
    BY <1>8 DEF skillVars
  <2>2. \A n : Uploaded(n)' = Uploaded(n)
    BY <2>1 DEF Uploaded
  <2>3. (Plan => Plan') /\ (World => World')
    BY <2>1, <2>2 DEF Plan, Goal, Progress, Backups, Done, Name, World, Placed
  <2>4. Snapshot(skills)' = Snapshot(skills) /\ Listed(skills)' = Listed(skills)
    BY <2>1 DEF Listed, Snapshot, LoadSkills, Loads
  <2>5. CacheInv'
    BY <2>1, <2>4 DEF SkInv, CacheInv, JobBusy, ListTold, ListKept, Hit, Listed, Snapshot, LoadSkills, Loads
  <2>6. InstallAllOrNothing'
    BY <2>1, <2>2, <2>4 DEF SkInv, InstallAllOrNothing, Does, Hit
  <2>7. JobTyped'
    BY <2>1 DEF SkInv, JobTyped
  <2>8. QED
    BY <2>1, <2>3, <2>5, <2>6, <2>7 DEF SkInv, InstallInv, BegunInv, RemoveInv
<1>9. QED BY <1>1, <1>2, <1>3, <1>4, <1>5, <1>6, <1>7, <1>8 DEF SkillsNext

(* What is in place, among the backups and in the kept list at every step of   *)
(* an operation (_commit_staged_skills, remove_skill, list_skills).            *)
THEOREM SkillsInvariant == SkillsSpec => []SkInv
  BY SkInitHolds, SkillsStepKeeps, PTL DEF SkillsSpec

(* An upload is installed as a whole, or every skill is the one it was, and    *)
(* the kept list is what the directory holds: for any skills and uploads, any  *)
(* limits and any number of operations and failures (install_skills).          *)
THEOREM InstallsWhole == SkillsSpec => []InstallAllOrNothing
<1>1. SkInv => InstallAllOrNothing
  BY DEF SkInv
<1>2. QED BY <1>1, SkillsInvariant, PTL

-------------------------------------------------------------------------------
(* Settings: the invariant.                                                   *)

\* A server as it is kept, and a configuration: every key, the defaults where nothing
\* is set, and servers of different names.
IsServer(item) ==
  /\ item = [name |-> item.name, url |-> item.url, headers |-> item.headers, own |-> item.own]
  /\ IsFunction(item.headers)
  /\ item.name # Null /\ item.url # Null /\ (item.own = Null => "default" = Null)

IsConfig(c) ==
  /\ c = [s \in Sections \union {"mcp_servers"} |-> c[s]]
  /\ \A s \in Sections : c[s] = [k \in Keys[s] |-> c[s][k]]
  /\ \A s \in DOMAIN DefaultValues : \A k \in DOMAIN DefaultValues[s] :
       c[s][k] = Null => DefaultValues[s][k] = Null
  /\ IsServerList(c.mcp_servers)
  /\ \A i \in DOMAIN c.mcp_servers : IsServer(c.mcp_servers[i])

\* What the file means to the server, in use or not.
Current == LoadConfig(saved)

\* The page client c was shown, and, if nothing was saved since, what it says.
ShownInv(c) ==
  shown[c] # Null =>
    /\ shown[c] = [page |-> shown[c].page, at |-> shown[c].at]
    /\ shown[c].at \in 0..saves
    /\ shown[c].at = saves =>
         /\ shown[c].page = PublicConfig(Current)
         /\ \A i \in DOMAIN draft[c] : draft[c][i].from \in 0..Len(Current.mcp_servers)

\* An edited server list: every server has a name of its own, and headers.
IsItem(item) ==
  /\ {"name", "headers"} \subseteq DOMAIN item /\ item.name # Null
  /\ IsFunction(item.headers)
IsDraft(list) ==
  /\ list \in Seq({list[i] : i \in DOMAIN list})
  /\ \A i \in DOMAIN list :
       list[i] = [item |-> list[i].item, from |-> list[i].from] /\ IsItem(list[i].item)
  /\ \A i, j \in DOMAIN list : list[i].item.name = list[j].item.name => i = j

\* The update under way.
SavingInv ==
  saving # Idle =>
    /\ DOMAIN saving = {"client", "patch", "list", "fresh", "old", "new"}
    /\ saving.client \in Clients
    /\ config # Null
    /\ saving.old = config
    /\ IsConfig(saving.new)
    /\ LoadConfig(saving.new) = saving.new

\* What a saved page means for the update u.
KeepsSecrets(u) ==
  u.fresh =>
       /\ \A i \in DOMAIN u.list : Recognised(u, i) =>
            u.new.mcp_servers[i].headers = Meant(u, i)
       /\ u.new.provider.api_key =
            IF "api_key" \in DOMAIN u.patch.provider THEN u.patch.provider.api_key
            ELSE u.old.provider.api_key

(* The invariant of SettingsSpec.                                              *)
SeInv ==
  /\ DOMAIN shown = Clients /\ DOMAIN draft = Clients
  /\ IsConfig(Current)
  /\ config # Null => config = Current
  /\ saves \in Nat
  /\ \A c \in Clients : ShownInv(c) /\ IsDraft(draft[c])
  /\ SavingInv
  /\ saving # Idle => KeepsSecrets(saving)
  /\ last # Idle => KeepsSecrets(last)

-------------------------------------------------------------------------------
(* JSON objects and configurations.                                           *)

\* null is none of the objects and lists of JSON.
NullIsPlain == \A f, D : Null # [k \in D |-> f[k]]

LEMMA NotNull ==
  ASSUME NullIsPlain, NEW f, f = [k \in DOMAIN f |-> f[k]]
  PROVE  f # Null
BY DEF NullIsPlain

LEMMA UpdatedIs ==
  ASSUME NEW u, NEW v
  PROVE  /\ DOMAIN Updated(u, v) = DOMAIN u \union DOMAIN v
         /\ \A k \in DOMAIN v : Updated(u, v)[k] = v[k]
         /\ \A k \in DOMAIN u \ DOMAIN v : Updated(u, v)[k] = u[k]
BY DEF Updated

LEMMA UpdatedPlain ==
  ASSUME NEW u, NEW v
  PROVE  Updated(u, v) = [k \in DOMAIN Updated(u, v) |-> Updated(u, v)[k]]
BY DEF Updated

LEMMA WithList ==
  ASSUME NEW u, NEW v, NEW S, DOMAIN u = S, DOMAIN v = {"mcp_servers"}, "mcp_servers" \notin S
  PROVE  /\ Updated(u, v) = [k \in S \union {"mcp_servers"} |-> Updated(u, v)[k]]
BY DEF Updated

All == Sections \union {"mcp_servers"}

LEMMA ToDictIs ==
  ASSUME NEW c
  PROVE  /\ ToDict(c) = [k \in All |-> ToDict(c)[k]]
         /\ \A s \in Sections :
              ToDict(c)[s] = [k \in {j \in Keys[s] : c[s][j] # Null} |-> c[s][k]]
         /\ ToDict(c).mcp_servers = c.mcp_servers
<1> DEFINE new == [mcp_servers |-> c.mcp_servers]
           old == [s \in Sections |-> [k \in {j \in Keys[s] : c[s][j] # Null} |-> c[s][k]]]
<1>1. ToDict(c) = Updated(old, new)
  BY DEF ToDict
<1>2. DOMAIN new = {"mcp_servers"} /\ new.mcp_servers = c.mcp_servers
  OBVIOUS
<1>3. DOMAIN old = Sections /\ "mcp_servers" \notin Sections
  BY DEF Sections
<1>4. \A s \in Sections : old[s] = [k \in {j \in Keys[s] : c[s][j] # Null} |-> c[s][k]]
  OBVIOUS
<1> HIDE DEF new, old
<1>5. /\ Updated(old, new) = [k \in Sections \union {"mcp_servers"} |-> Updated(old, new)[k]]
      /\ \A s \in Sections : Updated(old, new)[s] = old[s]
      /\ Updated(old, new).mcp_servers = new.mcp_servers
  BY <1>2, <1>3 DEF Updated
<1>6. QED BY <1>1, <1>2, <1>4, <1>5 DEF All

LEMMA FromMappingIs ==
  ASSUME NEW d
  PROVE  /\ FromMapping(d) = [k \in All |-> FromMapping(d)[k]]
         /\ \A s \in Sections :
              FromMapping(d)[s] =
                [k \in Keys[s] |-> ValueOf(SectionOf(d, s), k)]
         /\ FromMapping(d).mcp_servers =
              [i \in DOMAIN ServerList(d) |-> ServerOf(ServerList(d)[i])]
<1> DEFINE sec(s) == [k \in Keys[s] |-> ValueOf(SectionOf(d, s), k)]
<1>1. PICK list : list = [i \in DOMAIN ServerList(d) |-> ServerOf(ServerList(d)[i])]
  OBVIOUS
<1>2. PICK old : old = [s \in Sections |-> sec(s)]
  OBVIOUS
<1>3. PICK new : new = [mcp_servers |-> list]
  OBVIOUS
<1>4. FromMapping(d) = Updated(old, new)
  BY <1>1, <1>2, <1>3 DEF FromMapping
<1> HIDE DEF sec
<1>5. /\ DOMAIN new = {"mcp_servers"} /\ new.mcp_servers = list
      /\ DOMAIN old = Sections /\ "mcp_servers" \notin Sections
      /\ \A s \in Sections : old[s] = sec(s)
  BY <1>2, <1>3 DEF Sections
<1>6. /\ Updated(old, new) = [k \in Sections \union {"mcp_servers"} |-> Updated(old, new)[k]]
      /\ \A s \in Sections : Updated(old, new)[s] = old[s]
      /\ Updated(old, new).mcp_servers = new.mcp_servers
  <2>1. Updated(old, new) = [k \in Sections \union {"mcp_servers"} |-> Updated(old, new)[k]]
    BY <1>5, WithList
  <2>2. \A s \in Sections : Updated(old, new)[s] = old[s]
    BY <1>5 DEF Updated
  <2>3. Updated(old, new).mcp_servers = new.mcp_servers
    BY <1>5 DEF Updated
  <2>4. QED BY <2>1, <2>2, <2>3
<1>7. FromMapping(d) = [k \in All |-> FromMapping(d)[k]] /\ FromMapping(d).mcp_servers = list
      /\ \A s \in Sections : FromMapping(d)[s] = sec(s)
  BY <1>4, <1>5, <1>6 DEF All
<1>8. QED BY <1>1, <1>7 DEF sec

\* A section with its defaults.
Filled(d, s) ==
  Updated(SectionOf(d, s),
          [k \in {j \in DOMAIN DefaultValues[s] : ~Given(SectionOf(d, s), j)} |-> DefaultValues[s][k]])

LEMMA WithDefaultsIs ==
  ASSUME NullIsPlain, NEW d
  PROVE  /\ \A s \in DOMAIN DefaultValues : SectionOf(WithDefaults(d), s) = Filled(d, s)
         /\ \A s \in Sections \ DOMAIN DefaultValues : SectionOf(WithDefaults(d), s) = SectionOf(d, s)
         /\ ServerList(WithDefaults(d)) = ServerList(d)
<1>0. PICK new : new = [s \in DOMAIN DefaultValues |-> Filled(d, s)]
  OBVIOUS
<1>1. WithDefaults(d) = Updated(d, new)
  BY <1>0 DEF WithDefaults, Filled
<1>2. DOMAIN new = DOMAIN DefaultValues /\ \A s \in DOMAIN DefaultValues : new[s] = Filled(d, s)
  BY <1>0
<1>3. /\ DOMAIN WithDefaults(d) = DOMAIN d \union DOMAIN DefaultValues
      /\ \A s \in DOMAIN DefaultValues : WithDefaults(d)[s] = Filled(d, s)
      /\ \A k \in DOMAIN d \ DOMAIN DefaultValues : WithDefaults(d)[k] = d[k]
  <2>1. /\ DOMAIN Updated(d, new) = DOMAIN d \union DOMAIN new
        /\ \A k \in DOMAIN new : Updated(d, new)[k] = new[k]
        /\ \A k \in DOMAIN d \ DOMAIN new : Updated(d, new)[k] = d[k]
    BY UpdatedIs
  <2>2. QED BY <1>1, <1>2, <2>1
<1>4. \A s \in DOMAIN DefaultValues : Filled(d, s) # Null
  <2>1. \A s : Filled(d, s) = [k \in DOMAIN Filled(d, s) |-> Filled(d, s)[k]]
    BY UpdatedPlain DEF Filled
  <2>2. QED BY <2>1, NotNull
<1>5. "mcp_servers" \notin DOMAIN DefaultValues
  BY DEF DefaultValues
<1>6. \A s \in DOMAIN DefaultValues : SectionOf(WithDefaults(d), s) = Filled(d, s)
  BY <1>3, <1>4 DEF SectionOf, Given
<1>7. \A s \in Sections \ DOMAIN DefaultValues : SectionOf(WithDefaults(d), s) = SectionOf(d, s)
  BY <1>3 DEF SectionOf, Given
<1>8. ServerList(WithDefaults(d)) = ServerList(d)
  BY <1>3, <1>5 DEF ServerList, Given
<1>9. QED BY <1>6, <1>7, <1>8

LEMMA ListIs ==
  ASSUME NEW list, list \in Seq({list[i] : i \in DOMAIN list})
  PROVE  /\ Len(list) \in Nat /\ DOMAIN list = 1..Len(list)
         /\ list = [i \in DOMAIN list |-> list[i]]
BY LenProperties

LEMMA IsList ==
  ASSUME NEW list, NEW n \in Nat, DOMAIN list = 1..n, list = [i \in DOMAIN list |-> list[i]]
  PROVE  list \in Seq({list[i] : i \in DOMAIN list})
<1>1. list \in [1..n -> {list[i] : i \in DOMAIN list}]
  OBVIOUS
<1>2. QED BY <1>1

LEMMA ServerIs ==
  ASSUME NullIsPlain, NEW item, Given(item, "name"), Given(item, "url"),
         Given(item, "headers") => IsFunction(item.headers)
  PROVE  /\ IsServer(ServerOf(item))
         /\ ServerOf(item).name = item.name
         /\ ServerOf(item).headers = IF Given(item, "headers") THEN item.headers ELSE <<>>
<1>1. IsFunction(<<>>)
  BY DEF IsFunction
<1>2. QED BY <1>1 DEF IsServer, ServerOf, Given

LEMMA ServersAre ==
  ASSUME NullIsPlain, NEW list, IsServerList(list),
         \A i \in DOMAIN list : Given(list[i], "name") /\ Given(list[i], "url"),
         NEW new, new = [i \in DOMAIN list |-> ServerOf(list[i])]
  PROVE  IsServerList(new) /\ \A i \in DOMAIN new : IsServer(new[i])
<1>1. \A i \in DOMAIN list : /\ IsServer(new[i]) /\ new[i].name = list[i].name
                             /\ IsFunction(new[i].headers)
  <2> TAKE i \in DOMAIN list
  <2>1. PICK item : item = list[i]
    OBVIOUS
  <2>2. /\ Given(item, "name") /\ Given(item, "url")
        /\ Given(item, "headers") => IsFunction(item.headers)
    BY <2>1 DEF IsServerList
  <2>3. PICK one : one = ServerOf(item)
    OBVIOUS
  <2>4. IsServer(one) /\ one.name = item.name
    BY <2>2, <2>3, ServerIs
  <2>5. QED BY <2>1, <2>3, <2>4 DEF IsServer
<1>2. new \in Seq({new[i] : i \in DOMAIN new})
  <2>1. list \in Seq({list[i] : i \in DOMAIN list})
    BY DEF IsServerList
  <2>2. Len(list) \in Nat /\ DOMAIN new = 1..Len(list) /\ new = [i \in DOMAIN new |-> new[i]]
    BY <2>1, ListIs
  <2>3. QED BY <2>2, IsList
<1>3. \A i \in DOMAIN list : Given(list[i], "name") /\ list[i].name = new[i].name
  BY <1>1
<1>4. DOMAIN new = DOMAIN list
  OBVIOUS
<1>5. \A i, j \in DOMAIN new : new[i].name = new[j].name => i = j
  BY <1>3, <1>4 DEF IsServerList
<1>6. \A i \in DOMAIN new : Given(new[i], "headers") =>
        IsFunction(new[i].headers)
  BY <1>1, <1>4
<1>7. \A i, j \in DOMAIN new :
        Given(new[i], "name") /\ Given(new[j], "name") /\ new[i].name = new[j].name => i = j
  BY <1>5
<1>8. IsServerList(new)
  BY <1>2, <1>6, <1>7, Zenon DEF IsServerList
<1>9. QED BY <1>1, <1>4, <1>8

\* What a JSON object becomes when it is loaded.
LEMMA ConfigFrom ==
  ASSUME NullIsPlain, NEW d, IsServerList(ServerList(d)), Valid(d),
         NEW c, c = FromMapping(WithDefaults(d))
  PROVE  /\ IsConfig(c)
         /\ c.mcp_servers = [i \in DOMAIN ServerList(d) |-> ServerOf(ServerList(d)[i])]
         /\ c.provider.api_key =
              IF "api_key" \in DOMAIN SectionOf(d, "provider") THEN SectionOf(d, "provider").api_key
              ELSE Null
<1> DEFINE w == WithDefaults(d)
<1>1. /\ c = [k \in All |-> c[k]]
      /\ \A s \in Sections :
           c[s] = [k \in Keys[s] |-> ValueOf(SectionOf(w, s), k)]
      /\ c.mcp_servers = [i \in DOMAIN ServerList(w) |-> ServerOf(ServerList(w)[i])]
  BY FromMappingIs
<1>2. /\ \A s \in DOMAIN DefaultValues : SectionOf(w, s) = Filled(d, s)
      /\ \A s \in Sections \ DOMAIN DefaultValues : SectionOf(w, s) = SectionOf(d, s)
      /\ ServerList(w) = ServerList(d)
  BY WithDefaultsIs
<1> HIDE DEF w
<1>3. DOMAIN DefaultValues \subseteq Sections
      /\ \A s \in DOMAIN DefaultValues : DOMAIN DefaultValues[s] \subseteq Keys[s]
  BY DEF DefaultValues, Sections, Keys
<1>4. ASSUME NEW s \in DOMAIN DefaultValues, NEW k \in DOMAIN DefaultValues[s]
      PROVE  c[s][k] = Null => DefaultValues[s][k] = Null
  <2>1. c[s][k] = ValueOf(Filled(d, s), k)
    <3>1. s \in Sections /\ k \in Keys[s] /\ SectionOf(w, s) = Filled(d, s)
      BY <1>2, <1>3
    <3>2. c[s] = [j \in Keys[s] |-> ValueOf(Filled(d, s), j)]
      BY <1>1, <3>1
    <3>3. QED BY <3>1, <3>2
  <2>2. k \in DOMAIN Filled(d, s)
        /\ Filled(d, s)[k] = IF Given(SectionOf(d, s), k) THEN SectionOf(d, s)[k] ELSE DefaultValues[s][k]
    BY DEF Filled, Updated, Given
  <2>3. QED BY <2>1, <2>2 DEF Given, ValueOf
<1>5. IsServerList(c.mcp_servers) /\ \A i \in DOMAIN c.mcp_servers : IsServer(c.mcp_servers[i])
  BY <1>1, <1>2, ServersAre DEF Valid
<1>6. IsConfig(c)
  BY <1>1, <1>4, <1>5 DEF IsConfig, All
<1>7. c.provider.api_key =
        IF "api_key" \in DOMAIN SectionOf(d, "provider") THEN SectionOf(d, "provider").api_key ELSE Null
  <2>1. "provider" \in Sections /\ "api_key" \in Keys["provider"]
        /\ "provider" \in DOMAIN DefaultValues /\ "api_key" \notin DOMAIN DefaultValues["provider"]
    BY DEF Sections, Keys, DefaultValues
  <2>2. "api_key" \in DOMAIN Filled(d, "provider") <=> "api_key" \in DOMAIN SectionOf(d, "provider")
    BY <2>1 DEF Filled, Updated
  <2>3. "api_key" \in DOMAIN SectionOf(d, "provider") =>
          Filled(d, "provider")["api_key"] = SectionOf(d, "provider")["api_key"]
    BY <2>1 DEF Filled, Updated
  <2>4. c["provider"]["api_key"] =
          IF "api_key" \in DOMAIN Filled(d, "provider") THEN Filled(d, "provider")["api_key"] ELSE Null
    <3> DEFINE s == "provider"
    <3>1. s \in Sections /\ "api_key" \in Keys[s] /\ SectionOf(w, s) = Filled(d, s)
      BY <1>2, <2>1
    <3> HIDE DEF s
    <3>2. c[s] = [j \in Keys[s] |-> ValueOf(Filled(d, s), j)]
      BY <1>1, <3>1
    <3>3. c[s]["api_key"] = IF "api_key" \in DOMAIN Filled(d, s) THEN Filled(d, s)["api_key"] ELSE Null
      BY <3>1, <3>2 DEF ValueOf
    <3>4. QED BY <3>3 DEF s
  <2>5. QED BY <2>2, <2>3, <2>4
<1>8. QED BY <1>1, <1>2, <1>6, <1>7

\* A configuration as an object with its keys that are set.
LEMMA SetKeys ==
  ASSUME NullIsPlain, NEW c, IsConfig(c)
  PROVE  /\ ServerList(ToDict(c)) = c.mcp_servers
         /\ \A s \in Sections :
              /\ s \in DOMAIN ToDict(c) /\ ToDict(c)[s] # Null
              /\ SectionOf(ToDict(c), s) = [k \in {j \in Keys[s] : c[s][j] # Null} |-> c[s][k]]
         /\ Valid(ToDict(c))
<1>1. c.mcp_servers # Null
  BY NotNull, ListIs DEF IsConfig, IsServerList
<1>2. /\ DOMAIN ToDict(c) = All /\ ToDict(c).mcp_servers = c.mcp_servers
      /\ \A s \in Sections :
           ToDict(c)[s] = [k \in {j \in Keys[s] : c[s][j] # Null} |-> c[s][k]]
  BY ToDictIs
<1>3. \A s \in Sections : ToDict(c)[s] # Null
  <2> TAKE s \in Sections
  <2>1. PICK f : f = [k \in {j \in Keys[s] : c[s][j] # Null} |-> c[s][k]]
    OBVIOUS
  <2>2. f # Null
    BY <2>1, NotNull
  <2>3. QED BY <1>2, <2>1, <2>2
<1>4. ServerList(ToDict(c)) = c.mcp_servers
  BY <1>1, <1>2 DEF ServerList, Given, All
<1>5. Valid(ToDict(c))
  <2>1. \A i \in DOMAIN c.mcp_servers :
          Given(c.mcp_servers[i], "name") /\ Given(c.mcp_servers[i], "url")
    <3> TAKE i \in DOMAIN c.mcp_servers
    <3>1. PICK item : item = c.mcp_servers[i]
      OBVIOUS
    <3>2. IsServer(item)
      BY <3>1 DEF IsConfig
    <3>3. "name" \in DOMAIN item /\ "url" \in DOMAIN item
      BY <3>2 DEF IsServer
    <3>4. QED BY <3>1, <3>2, <3>3 DEF IsServer, Given
  <2>2. QED BY <1>4, <2>1 DEF Valid
<1>6. QED BY <1>2, <1>3, <1>4, <1>5 DEF SectionOf, Given, All

LEMMA SameFunction ==
  ASSUME NEW f, NEW g, NEW S, f = [k \in S |-> f[k]], g = [k \in S |-> g[k]],
         \A k \in S : f[k] = g[k]
  PROVE  f = g
<1>1. [k \in S |-> f[k]] = [k \in S |-> g[k]]
  OBVIOUS
<1>2. QED BY <1>1, Zenon

\* A configuration names the type of its provider.
LEMMA TypeIsSet ==
  ASSUME NEW c, IsConfig(c), NEW s \in Sections, NEW k \in Keys[s], k = "type"
  PROVE  c[s][k] # Null
<1>1. s = "provider"
  BY DEF Sections, Keys
<1>2. s \in DOMAIN DefaultValues /\ k \in DOMAIN DefaultValues[s]
      /\ DefaultValues[s][k] = DefaultValues.provider.type
  BY <1>1 DEF DefaultValues
<1>3. QED BY <1>2, NullAssumption DEF IsConfig

LEMMA FromConfig ==
  ASSUME NullIsPlain, NEW c, IsConfig(c)
  PROVE  FromMapping(c) = c
<1>1. \A s \in Sections : SectionOf(c, s) = c[s]
  BY NotNull DEF IsConfig, SectionOf, Given
<1>2. ServerList(c) = c.mcp_servers
  BY NotNull, ListIs DEF IsConfig, IsServerList, ServerList, Given
<1>3. \A s \in Sections : FromMapping(c)[s] = c[s]
  <2> TAKE s \in Sections
  <2>1. FromMapping(c)[s] =
          [k \in Keys[s] |-> ValueOf(SectionOf(c, s), k)]
    BY FromMappingIs, ZenonT(30)
  <2>2. c[s] = [k \in Keys[s] |-> c[s][k]]
    BY DEF IsConfig
  <2>3. \A k \in Keys[s] : k = "type" => c[s][k] # Null
    BY TypeIsSet
  <2>4. \A k \in Keys[s] : ValueOf(c[s], k) = c[s][k]
    BY <2>2, <2>3 DEF ValueOf
  <2>5. QED BY <1>1, <2>1, <2>2, <2>4
<1>4. \A i \in DOMAIN c.mcp_servers : ServerOf(c.mcp_servers[i]) = c.mcp_servers[i]
  <2> TAKE i \in DOMAIN c.mcp_servers
  <2>1. PICK item : item = c.mcp_servers[i]
    OBVIOUS
  <2>2. IsServer(item)
    BY <2>1 DEF IsConfig
  <2>3. item.headers # Null
    BY <2>2, NotNull DEF IsServer, IsFunction
  <2>4. ServerOf(item) = item
    BY <2>2, <2>3 DEF ServerOf, IsServer, Given
  <2>5. QED BY <2>1, <2>4
<1>5. FromMapping(c).mcp_servers = c.mcp_servers
  BY <1>2, <1>4, FromMappingIs, ListIs DEF IsConfig, IsServerList
<1>6. PICK f : f = FromMapping(c)
  OBVIOUS
<1>7. f = [k \in All |-> f[k]]
  BY <1>6, FromMappingIs
<1>8. \A k \in All : f[k] = c[k]
  BY <1>3, <1>5, <1>6 DEF All
<1>9. c = [k \in All |-> c[k]]
  BY DEF IsConfig, All
<1>10. f = c
  BY <1>7, <1>8, <1>9, SameFunction
<1>11. QED BY <1>6, <1>10, Zenon

LEMMA SectionsFrom ==
  ASSUME NEW w, NEW new, new = FromMapping(w), NEW s \in Sections
  PROVE  new[s] = [k \in Keys[s] |-> ValueOf(SectionOf(w, s), k)]
<1>1. FromMapping(w)[s] =
        [k \in Keys[s] |-> ValueOf(SectionOf(w, s), k)]
  BY FromMappingIs, ZenonT(30)
<1>2. QED BY <1>1

\* Loading a configuration that was saved gives the same one.
LEMMA LoadedIs ==
  ASSUME NullIsPlain, NEW c, IsConfig(c)
  PROVE  LoadConfig(c) = c
<1>1. c # Null
  BY NotNull DEF IsConfig
<1>2. PICK d : d = ToDict(c)
  OBVIOUS
<1>3. PICK w : w = WithDefaults(d)
  OBVIOUS
<1>4. PICK new : new = FromMapping(w)
  OBVIOUS
<1>11. LoadConfig(c) = new
  BY <1>1, <1>2, <1>3, <1>4, FromConfig DEF LoadConfig
<1>5. /\ ServerList(d) = c.mcp_servers /\ Valid(d)
      /\ \A s \in Sections : SectionOf(d, s) = [k \in {j \in Keys[s] : c[s][j] # Null} |-> c[s][k]]
  BY <1>2, SetKeys
<1>6. \A s \in Sections : new[s] = c[s]
  <2> TAKE s \in Sections
  <2>2. new[s] = [k \in Keys[s] |-> ValueOf(SectionOf(w, s), k)]
    BY <1>4, SectionsFrom
  <2>3. c[s] = [k \in Keys[s] |-> c[s][k]]
    BY DEF IsConfig
  <2>4. CASE s \in DOMAIN DefaultValues
    <3>1. SectionOf(w, s) = Filled(d, s)
      BY <1>3, <2>4, WithDefaultsIs
    <3>2. ASSUME NEW k \in Keys[s]
          PROVE  ValueOf(Filled(d, s), k) = c[s][k]
      <4>1. CASE c[s][k] # Null
        <5>1. k \in DOMAIN SectionOf(d, s) /\ SectionOf(d, s)[k] = c[s][k]
          BY <1>5, <4>1
        <5>2. k \in DOMAIN Filled(d, s) /\ Filled(d, s)[k] = c[s][k]
          BY <4>1, <5>1 DEF Filled, Updated, Given
        <5>3. QED BY <4>1, <5>2 DEF ValueOf
      <4>2. CASE c[s][k] = Null
        <5>1. k \notin DOMAIN SectionOf(d, s)
          BY <1>5, <4>2
        <5>2. k \in DOMAIN DefaultValues[s] =>
                Filled(d, s)[k] = DefaultValues[s][k] /\ DefaultValues[s][k] = Null
          BY <2>4, <4>2, <5>1 DEF Filled, Updated, Given, IsConfig
        <5>3. k \notin DOMAIN DefaultValues[s] => k \notin DOMAIN Filled(d, s)
          BY <5>1 DEF Filled, Updated
        <5>4. k # "type"
          BY <4>2, TypeIsSet
        <5>5. QED BY <4>2, <5>2, <5>3, <5>4 DEF ValueOf
      <4>3. QED BY <4>1, <4>2
    <3>3. QED BY <2>2, <2>3, <3>1, <3>2
  <2>5. CASE s \notin DOMAIN DefaultValues
    <3>1. SectionOf(w, s) = [k \in {j \in Keys[s] : c[s][j] # Null} |-> c[s][k]]
      BY <1>3, <1>5, <2>5, WithDefaultsIs
    <3>2. ASSUME NEW k \in Keys[s]
          PROVE  ValueOf(SectionOf(w, s), k) = c[s][k]
      BY <3>1, TypeIsSet DEF ValueOf
    <3>3. QED BY <2>2, <2>3, <3>2
  <2>6. QED BY <2>4, <2>5
<1>7. IsServerList(ServerList(d))
  BY <1>5 DEF IsConfig
<1>8. new.mcp_servers = c.mcp_servers
  <2>1. new.mcp_servers = [i \in DOMAIN c.mcp_servers |-> ServerOf(c.mcp_servers[i])]
    BY <1>3, <1>4, <1>5, <1>7, ConfigFrom
  <2>2. FromMapping(c).mcp_servers = [i \in DOMAIN ServerList(c) |-> ServerOf(ServerList(c)[i])]
    BY FromMappingIs
  <2>3. ServerList(c) = c.mcp_servers
    BY NotNull, ListIs DEF IsConfig, IsServerList, ServerList, Given
  <2>4. QED BY <2>1, <2>2, <2>3, FromConfig
<1>9. new = [k \in All |-> new[k]]
  BY <1>4, FromMappingIs
<1>10. QED BY <1>11, <1>6, <1>8, <1>9 DEF IsConfig, All

\* The value of a header that comes back.
Known(list, i, item, h) == {k \in Namesake(list, i, item) : h \in DOMAIN list[k].headers}
Value(list, i, item, h) ==
  IF item.headers[h] = "" /\ Known(list, i, item, h) # {}
  THEN list[Max(Known(list, i, item, h))].headers[h] ELSE item.headers[h]

LEMMA RestoredIs ==
  ASSUME NullIsPlain, NEW list, NEW i, NEW item,
         Given(item, "headers") => IsFunction(item.headers),
         NEW r, r = Restored(list, i, item)
  PROVE  /\ Given(r, "name") <=> Given(item, "name")
         /\ Given(item, "name") => r.name = item.name
         /\ Given(r, "headers") => IsFunction(r.headers)
         /\ Given(item, "headers") =>
              /\ Given(r, "headers") /\ DOMAIN r.headers = DOMAIN item.headers
              /\ \A h \in DOMAIN item.headers : r.headers[h] = Value(list, i, item, h)
<1> DEFINE value(h) == Value(list, i, item, h)
<1>1. CASE ~Given(item, "headers")
  BY <1>1 DEF Restored
<1>2. CASE Given(item, "headers")
  <2>1. PICK new : new = [h \in DOMAIN item.headers |-> value(h)]
    OBVIOUS
  <2>2. r = [item EXCEPT !.headers = new]
    BY <1>2, <2>1 DEF Restored, Value, Known
  <2>3. \A h \in DOMAIN item.headers : new[h] = value(h)
    BY <2>1
  <2>4. DOMAIN new = DOMAIN item.headers /\ new = [h \in DOMAIN new |-> new[h]]
    BY <2>1
  <2>12. IsFunction(new)
    BY <2>4 DEF IsFunction
  <2> HIDE DEF value
  <2>5. "headers" \in DOMAIN item
    BY <1>2 DEF Given
  <2>6. DOMAIN r = DOMAIN item /\ r.headers = new /\ ("name" \in DOMAIN item => r.name = item.name)
    BY <2>2, <2>5
  <2>7. new # Null
    BY <2>4, NotNull
  <2>8. Given(r, "headers") /\ (Given(r, "name") <=> Given(item, "name"))
    BY <2>5, <2>6, <2>7 DEF Given
  <2>9. \A h \in DOMAIN item.headers : r.headers[h] = value(h)
    BY <2>3, <2>6
  <2>10. Given(item, "name") => r.name = item.name
    BY <2>6 DEF Given
  <2>11. QED BY <2>4, <2>12, <2>6, <2>8, <2>9, <2>10 DEF value
<1>3. QED BY <1>1, <1>2

LEMMA RestoredKeeps ==
  ASSUME NullIsPlain, NEW list, NEW i, NEW item,
         Given(item, "headers") => IsFunction(item.headers),
         NEW r, r = Restored(list, i, item)
  PROVE  /\ Given(r, "name") => Given(item, "name") /\ r.name = item.name
         /\ Given(r, "headers") => IsFunction(r.headers)
<1>1. (Given(r, "name") <=> Given(item, "name")) /\ (Given(item, "name") => r.name = item.name)
  BY RestoredIs
<1>2. Given(r, "headers") => IsFunction(r.headers)
  BY RestoredIs
<1>3. QED BY <1>1, <1>2

LEMMA RestoredList ==
  ASSUME NullIsPlain, NEW list, NEW items, IsServerList(items),
         NEW new, new = [i \in DOMAIN items |-> Restored(list, i, items[i])]
  PROVE  IsServerList(new)
<1>1. DOMAIN new = DOMAIN items /\ new = [i \in DOMAIN new |-> new[i]]
  OBVIOUS
<1>2. \A i \in DOMAIN new :
        /\ Given(new[i], "name") => Given(items[i], "name") /\ new[i].name = items[i].name
        /\ Given(new[i], "headers") => IsFunction(new[i].headers)
  <2> TAKE i \in DOMAIN new
  <2>1. PICK item : item = items[i]
    OBVIOUS
  <2>2. Given(item, "headers") => IsFunction(item.headers)
    BY <1>1, <2>1 DEF IsServerList
  <2>3. PICK r : r = Restored(list, i, item)
    OBVIOUS
  <2>4. /\ Given(r, "name") => Given(item, "name") /\ r.name = item.name
        /\ Given(r, "headers") => IsFunction(r.headers)
    BY <2>2, <2>3, RestoredKeeps
  <2>5. new[i] = r
    BY <1>1, <2>1, <2>3
  <2>6. QED BY <2>1, <2>4, <2>5
<1>3. new \in Seq({new[i] : i \in DOMAIN new})
  <2>1. Len(items) \in Nat /\ DOMAIN items = 1..Len(items)
    BY ListIs DEF IsServerList
  <2>2. QED BY <1>1, <2>1, IsList
<1>4. \A i, j \in DOMAIN new :
        Given(new[i], "name") /\ Given(new[j], "name") /\ new[i].name = new[j].name => i = j
  <2>1. \A i, j \in DOMAIN items :
          Given(items[i], "name") /\ Given(items[j], "name") /\ items[i].name = items[j].name => i = j
    BY DEF IsServerList
  <2>2. \A i \in DOMAIN new : Given(new[i], "name") => Given(items[i], "name") /\ new[i].name = items[i].name
    BY <1>2, Zenon
  <2>3. DOMAIN new = DOMAIN items
    BY <1>1, Zenon
  <2> HIDE DEF Given
  <2>4. TAKE i, j \in DOMAIN new
  <2>5. HAVE Given(new[i], "name") /\ Given(new[j], "name") /\ new[i].name = new[j].name
  <2>6. Given(items[i], "name") /\ Given(items[j], "name") /\ items[i].name = items[j].name
    BY <2>2, <2>5
  <2>7. QED BY <2>1, <2>3, <2>6
<1>5. QED BY <1>2, <1>3, <1>4, Zenon DEF IsServerList

\* What an update makes of the list and of the key.
LEMMA MergedIs ==
  ASSUME NullIsPlain, NEW c, IsConfig(c), NEW patch, IsServerList(ServerList(patch)),
         NEW merged, merged = MergePatch(ToDict(c), RestoreMasked(ToDict(c), patch))
  PROVE  /\ IsServerList(ServerList(merged))
         /\ Given(patch, "mcp_servers") =>
              ServerList(merged) = [i \in DOMAIN patch.mcp_servers |->
                                      Restored(c.mcp_servers, i, patch.mcp_servers[i])]
         /\ Given(patch, "provider") =>
              SectionOf(merged, "provider") = Updated(SectionOf(ToDict(c), "provider"), patch.provider)
<1>1. PICK base : base = ToDict(c)
  OBVIOUS
<1>2. /\ ServerList(base) = c.mcp_servers /\ IsServerList(ServerList(base))
      /\ "provider" \in DOMAIN base /\ base.provider # Null
      /\ SectionOf(base, "provider") = base.provider
  <2>1. "provider" \in Sections
    BY DEF Sections
  <2>2. ServerList(base) = c.mcp_servers /\ "provider" \in DOMAIN base /\ base.provider # Null
    BY <1>1, <2>1, SetKeys
  <2>3. QED BY <2>2 DEF IsConfig, SectionOf, Given
<1>3. PICK full : full = RestoreMasked(base, patch)
  OBVIOUS
<1>4. PICK items : items = [i \in DOMAIN patch.mcp_servers |->
                              Restored(c.mcp_servers, i, patch.mcp_servers[i])]
  OBVIOUS
<1>5. /\ DOMAIN full = DOMAIN patch
      /\ \A k \in DOMAIN patch \ {"mcp_servers"} : full[k] = patch[k]
      /\ ~Given(patch, "mcp_servers") => full = patch
      /\ Given(patch, "mcp_servers") => full.mcp_servers = items
  <2>1. CASE ~Given(patch, "mcp_servers")
    BY <1>3, <2>1 DEF RestoreMasked
  <2>2. CASE Given(patch, "mcp_servers")
    <3>1. full = [patch EXCEPT !.mcp_servers = items]
      BY <1>2, <1>3, <1>4, <2>2 DEF RestoreMasked
    <3>2. "mcp_servers" \in DOMAIN patch
      BY <2>2 DEF Given
    <3>3. QED BY <2>2, <3>1, <3>2
  <2>3. QED BY <2>1, <2>2
<1>6. PICK new : new = [k \in DOMAIN full |->
                          IF k \in Sections /\ Given(full, k) /\ Given(base, k)
                          THEN Updated(base[k], full[k]) ELSE full[k]]
  OBVIOUS
<1>7. merged = Updated(base, new)
  BY <1>1, <1>3, <1>6 DEF MergePatch
<1>8. DOMAIN new = DOMAIN patch /\ DOMAIN merged = DOMAIN base \union DOMAIN patch
      /\ (\A k \in DOMAIN patch : merged[k] = new[k])
      /\ (\A k \in DOMAIN base \ DOMAIN patch : merged[k] = base[k])
  BY <1>5, <1>6, <1>7 DEF Updated
<1>9. "mcp_servers" \notin Sections /\ "provider" \in Sections
  BY DEF Sections
<1>10. "mcp_servers" \in DOMAIN patch => merged.mcp_servers = full.mcp_servers
  BY <1>5, <1>6, <1>8, <1>9
<1>11. CASE Given(patch, "mcp_servers")
  <2>1. items # Null /\ IsServerList(items)
    <3>1. IsServerList(patch.mcp_servers)
      BY <1>11 DEF ServerList
    <3>2. IsServerList(items)
      BY <1>4, <3>1, RestoredList
    <3>3. QED BY <1>4, <3>2, NotNull
  <2>2. ServerList(merged) = items
    BY <1>5, <1>8, <1>10, <1>11, <2>1 DEF ServerList, Given
  <2>3. QED
    <3>1. Given(patch, "provider") =>
            SectionOf(merged, "provider") = Updated(SectionOf(base, "provider"), patch.provider)
      <4>1. SUFFICES ASSUME Given(patch, "provider")
            PROVE SectionOf(merged, "provider") = Updated(SectionOf(base, "provider"), patch.provider)
        OBVIOUS
      <4>2. merged.provider = Updated(base.provider, patch.provider)
        BY <1>2, <1>5, <1>6, <1>8, <1>9, <4>1 DEF Given
      <4>3. Updated(base.provider, patch.provider) # Null
        BY UpdatedPlain, NotNull
      <4>4. "provider" \in DOMAIN merged
        BY <1>2, <1>8
      <4>5. QED BY <1>2, <4>2, <4>3, <4>4 DEF SectionOf, Given
    <3>2. QED BY <1>1, <1>4, <2>1, <2>2, <3>1
<1>12. CASE ~Given(patch, "mcp_servers")
  <2>1. ServerList(merged) = <<>> \/ ServerList(merged) = ServerList(base)
    BY <1>5, <1>8, <1>10, <1>12 DEF ServerList, Given
  <2>2. IsServerList(<<>>)
    BY DEF IsServerList
  <2>3. Given(patch, "provider") =>
            SectionOf(merged, "provider") = Updated(SectionOf(base, "provider"), patch.provider)
    <4>1. SUFFICES ASSUME Given(patch, "provider")
          PROVE SectionOf(merged, "provider") = Updated(SectionOf(base, "provider"), patch.provider)
      OBVIOUS
    <4>2. merged.provider = Updated(base.provider, patch.provider)
      BY <1>2, <1>5, <1>6, <1>8, <1>9, <4>1 DEF Given
    <4>3. Updated(base.provider, patch.provider) # Null
      BY UpdatedPlain, NotNull
    <4>4. "provider" \in DOMAIN merged
      BY <1>2, <1>8
    <4>5. QED BY <1>2, <4>2, <4>3, <4>4 DEF SectionOf, Given
  <2>4. QED BY <1>1, <1>2, <1>12, <2>1, <2>2, <2>3
<1>13. QED BY <1>11, <1>12

LEMMA ItemIs ==
  ASSUME NullIsPlain, NEW item, IsItem(item)
  PROVE  Given(item, "name") /\ Given(item, "headers")
BY NotNull DEF IsItem, Given, IsFunction

\* The servers of a page one edits, as a list that is sent.
LEMMA ItemsAre ==
  ASSUME NullIsPlain, NEW list, IsDraft(list), NEW items, items = [i \in DOMAIN list |-> list[i].item]
  PROVE  items # Null /\ IsServerList(items)
<1>1. DOMAIN items = DOMAIN list /\ items = [i \in DOMAIN items |-> items[i]]
      /\ \A i \in DOMAIN list : items[i] = list[i].item
  OBVIOUS
<1>2. \A i \in DOMAIN list : IsItem(list[i].item)
  BY DEF IsDraft
<1>3. items \in Seq({items[i] : i \in DOMAIN items})
  <2>1. Len(list) \in Nat /\ DOMAIN list = 1..Len(list)
    BY ListIs DEF IsDraft
  <2>2. QED BY <1>1, <2>1, IsList
<1>4. \A i \in DOMAIN items : Given(items[i], "headers") => IsFunction(items[i].headers)
  BY <1>1, <1>2 DEF IsItem
<1>5. \A i, j \in DOMAIN items :
        Given(items[i], "name") /\ Given(items[j], "name") /\ items[i].name = items[j].name => i = j
  BY <1>1 DEF IsDraft
<1>6. IsServerList(items)
  BY <1>3, <1>4, <1>5, Zenon DEF IsServerList
<1>7. QED BY <1>1, <1>6, NotNull

LEMMA OfOne ==
  ASSUME NEW j \in Int
  PROVE  Max({j}) = j
<1>1. Max({j}) = CHOOSE x \in {j} : \A y \in {j} : x >= y
  BY DEF Max
<1>2. j >= j
  OBVIOUS
<1>3. QED BY <1>1, <1>2

\* The saved server a server the update can tell stands for.
LEMMA NamesakeIs ==
  ASSUME NEW old, IsServerList(old), \A k \in DOMAIN old : IsServer(old[k]),
         NEW i, NEW j \in DOMAIN old, NEW item, Given(item, "name"),
         item.name = old[j].name \/ (Named(old, item.name) = {} /\ i = j)
  PROVE  Namesake(old, i, item) = {j}
<1>0. j \in Int
  BY ListIs DEF IsServerList
<1>1. CASE item.name = old[j].name
  <2>1. \A k \in DOMAIN old : Given(old[k], "name")
    <3> TAKE k \in DOMAIN old
    <3>1. PICK one : one = old[k]
      OBVIOUS
    <3>2. IsServer(one)
      BY <3>1
    <3>3. "name" \in DOMAIN one /\ one.name # Null
      BY <3>2 DEF IsServer
    <3>4. QED BY <3>1, <3>3 DEF Given
  <2>2. \A k \in DOMAIN old : old[k].name = item.name => k = j
    BY <1>1, <2>1 DEF IsServerList
  <2>3. Named(old, item.name) = {j}
    BY <1>1, <2>2 DEF Named
  <2>4. QED BY <1>0, <2>3, OfOne DEF Namesake
<1>2. CASE Named(old, item.name) = {} /\ i = j
  BY <1>2 DEF Namesake
<1>3. QED BY <1>1, <1>2

\* An empty value stands for the one the server had.
Full(typed, had) == [h \in DOMAIN typed |-> IF typed[h] = "" /\ h \in DOMAIN had THEN had[h] ELSE typed[h]]

\* What is restored is what was meant.
LEMMA RestoredMeant ==
  ASSUME NullIsPlain, NEW old, IsServerList(old), \A k \in DOMAIN old : IsServer(old[k]),
         NEW i, NEW j \in DOMAIN old, NEW item, IsItem(item),
         item.name = old[j].name \/ (Named(old, item.name) = {} /\ i = j),
         NEW one, one = ServerOf(Restored(old, i, item))
  PROVE  one.headers = Full(item.headers, old[j].headers)
<1>1. Given(item, "name") /\ Given(item, "headers") /\ IsFunction(item.headers)
  BY ItemIs DEF IsItem
<1>2. Namesake(old, i, item) = {j} /\ j \in Int
  BY <1>1, NamesakeIs, ListIs DEF IsServerList
<1>3. PICK r : r = Restored(old, i, item)
  OBVIOUS
<1>4. /\ Given(r, "headers") /\ IsFunction(r.headers) /\ DOMAIN r.headers = DOMAIN item.headers
      /\ \A h \in DOMAIN item.headers :
           r.headers[h] = Value(old, i, item, h)
  BY <1>1, <1>3, RestoredIs
<1>5. one.headers = r.headers
  BY <1>3, <1>4 DEF ServerOf
<1>6. ASSUME NEW h \in DOMAIN item.headers
      PROVE  r.headers[h] = IF item.headers[h] = "" /\ h \in DOMAIN old[j].headers
                            THEN old[j].headers[h] ELSE item.headers[h]
  <2>1. PICK known : known = Known(old, i, item, h)
    OBVIOUS
  <2>2. r.headers[h] = IF item.headers[h] = "" /\ known # {}
                       THEN old[Max(known)].headers[h] ELSE item.headers[h]
    BY <1>4, <2>1 DEF Value
  <2>3. known = IF h \in DOMAIN old[j].headers THEN {j} ELSE {}
    BY <1>2, <2>1 DEF Known
  <2>4. QED BY <1>2, <2>2, <2>3, OfOne
<1>7. r.headers = [h \in DOMAIN r.headers |-> r.headers[h]]
  BY <1>4 DEF IsFunction
<1>8. QED BY <1>4, <1>5, <1>6, <1>7 DEF Full

\* The key of the provider is the one that was sent, else the one it had.
LEMMA KeyKept ==
  ASSUME NullIsPlain, NEW c, IsConfig(c), NEW patch, Given(patch, "provider"),
         NEW all, all = Updated(SectionOf(ToDict(c), "provider"), patch.provider)
  PROVE  (IF "api_key" \in DOMAIN all THEN all.api_key ELSE Null)
           = IF "api_key" \in DOMAIN patch.provider THEN patch.provider.api_key ELSE c.provider.api_key
<1>1. "provider" \in Sections /\ "api_key" \in Keys["provider"]
  BY DEF Sections, Keys
<1>2. PICK own : own = SectionOf(ToDict(c), "provider")
  OBVIOUS
<1>3. own = [k \in {j \in Keys["provider"] : c["provider"][j] # Null} |-> c["provider"][k]]
  BY <1>1, <1>2, SetKeys
<1>4. "api_key" \in DOMAIN own <=> c["provider"]["api_key"] # Null
  BY <1>1, <1>3
<1>5. "api_key" \in DOMAIN own => own["api_key"] = c["provider"]["api_key"]
  BY <1>1, <1>3
<1>6. PICK sent : sent = patch.provider
  OBVIOUS
<1>7. /\ DOMAIN all = DOMAIN own \union DOMAIN sent
      /\ "api_key" \in DOMAIN sent => all["api_key"] = sent["api_key"]
      /\ "api_key" \notin DOMAIN sent /\ "api_key" \in DOMAIN own => all["api_key"] = own["api_key"]
  BY <1>2, <1>6 DEF Updated
<1>8. QED BY <1>4, <1>5, <1>6, <1>7

\* A page that is saved as it was shown keeps the secrets.
LEMMA SavedKeeps ==
  ASSUME NullIsPlain, NEW c, IsConfig(c), NEW list, IsDraft(list),
         \A i \in DOMAIN list : list[i].from \in 0..Len(c.mcp_servers),
         NEW patch, Given(patch, "provider"), Given(patch, "mcp_servers"),
         patch.mcp_servers = [i \in DOMAIN list |-> list[i].item],
         NEW merged, merged = MergePatch(ToDict(c), RestoreMasked(ToDict(c), patch)), Valid(merged),
         NEW u, u.list = list, u.patch = patch, u.old = c, u.new = FromMapping(WithDefaults(merged))
  PROVE  KeepsSecrets(u)
<1>1. IsServerList(ServerList(patch))
  BY ItemsAre DEF ServerList
<1>2. PICK items : items = [i \in DOMAIN patch.mcp_servers |->
                              Restored(c.mcp_servers, i, patch.mcp_servers[i])]
  OBVIOUS
<1>3. IsServerList(ServerList(merged)) /\ ServerList(merged) = items
      /\ SectionOf(merged, "provider") = Updated(SectionOf(ToDict(c), "provider"), patch.provider)
  <2>1. IsServerList(ServerList(merged))
    BY <1>1, MergedIs
  <2>2. ServerList(merged) = items
    BY <1>1, <1>2, MergedIs
  <2>3. SectionOf(merged, "provider") = Updated(SectionOf(ToDict(c), "provider"), patch.provider)
    BY <1>1, MergedIs
  <2>4. QED BY <2>1, <2>2, <2>3
<1>4. PICK new : new = FromMapping(WithDefaults(merged))
  OBVIOUS
<1>5. new.mcp_servers = [i \in DOMAIN items |-> ServerOf(items[i])]
  BY <1>3, <1>4, ConfigFrom
<1>6. new.provider.api_key =
        IF "api_key" \in DOMAIN SectionOf(merged, "provider")
        THEN SectionOf(merged, "provider").api_key ELSE Null
  BY <1>3, <1>4, ConfigFrom
<1>7. new.provider.api_key =
        IF "api_key" \in DOMAIN patch.provider THEN patch.provider.api_key ELSE c.provider.api_key
  BY <1>3, <1>6, KeyKept
<1>8. ASSUME NEW i \in DOMAIN u.list, Recognised(u, i)
      PROVE  u.new.mcp_servers[i].headers = Meant(u, i)
  <2>1. PICK item : item = list[i].item
    OBVIOUS
  <2>2. PICK j : j = list[i].from
    OBVIOUS
  <2>3. PICK old : old = c.mcp_servers
    OBVIOUS
  <2>4. IsServerList(old) /\ \A k \in DOMAIN old : IsServer(old[k])
    BY <2>3 DEF IsConfig
  <2>5. IsItem(item) /\ i \in DOMAIN list
    BY <1>8, <2>1 DEF IsDraft
  <2>6. j \in DOMAIN old
        /\ (item.name = old[j].name \/ (Named(old, item.name) = {} /\ i = j))
    <3>1. j # 0 /\ (item.name = old[j].name \/ (Named(old, item.name) = {} /\ i = j))
      BY <1>8, <2>1, <2>2, <2>3 DEF Recognised
    <3>2. j \in 0..Len(old) /\ Len(old) \in Nat /\ DOMAIN old = 1..Len(old)
      BY <2>2, <2>3, <2>4, <2>5, ListIs DEF IsServerList
    <3>3. QED BY <3>1, <3>2
  <2>7. PICK one : one = ServerOf(Restored(old, i, item))
    OBVIOUS
  <2>8. new.mcp_servers[i] = one
    BY <1>2, <1>5, <2>1, <2>3, <2>5, <2>7
  <2>9. one.headers = Full(item.headers, old[j].headers)
    BY <2>4, <2>5, <2>6, <2>7, RestoredMeant
  <2>10. Meant(u, i) = Full(item.headers, old[j].headers)
    BY <2>1, <2>2, <2>3 DEF Meant, Full
  <2>11. QED BY <1>4, <2>8, <2>9, <2>10
<1>9. QED BY <1>4, <1>7, <1>8 DEF KeepsSecrets

-------------------------------------------------------------------------------
(* The pages of the clients and the steps.                                    *)

\* The configuration the server starts with.
LEMMA FileLoads ==
  ASSUME NullIsPlain, NEW f \in Files
  PROVE  IsConfig(LoadConfig(f))
<1>1. CASE f = Null
  <2>1. LoadConfig(f) = FromMapping(WithDefaults(<<>>))
    BY <1>1 DEF LoadConfig
  <2>2. ServerList(<<>>) = <<>>
    BY DEF ServerList, Given
  <2>3. IsServerList(ServerList(<<>>)) /\ Valid(<<>>)
    <3>1. IsServerList(<<>>)
      BY DEF IsServerList
    <3>2. QED BY <2>2, <3>1 DEF Valid
  <2>4. QED BY <2>1, <2>3, ConfigFrom
<1>2. CASE f # Null
  <2>1. IsServerList(ServerList(f)) /\ Valid(f)
    BY <1>2, ServersAssumption
  <2>2. PICK g : g = FromMapping(f)
    OBVIOUS
  <2>3. PICK list : list = [i \in DOMAIN ServerList(f) |-> ServerOf(ServerList(f)[i])]
    OBVIOUS
  <2>4. g.mcp_servers = list
    BY <2>2, <2>3, FromMappingIs
  <2>5. IsServerList(list) /\ \A i \in DOMAIN list : IsServer(list[i])
    BY <2>1, <2>3, ServersAre DEF Valid
  <2>6. PICK d : d = ToDict(g)
    OBVIOUS
  <2>7. "mcp_servers" \in DOMAIN d /\ d.mcp_servers = list
    <3>1. DOMAIN ToDict(g) = All /\ ToDict(g).mcp_servers = g.mcp_servers
      BY ToDictIs
    <3>2. QED BY <2>4, <2>6, <3>1 DEF All
  <2>8. list # Null
    BY <2>3, NotNull
  <2>9. ServerList(d) = list
    BY <2>7, <2>8 DEF ServerList, Given
  <2>10. Valid(d)
    <3> SUFFICES ASSUME NEW i \in DOMAIN list PROVE Given(list[i], "name") /\ Given(list[i], "url")
      BY <2>9 DEF Valid
    <3>1. PICK one : one = list[i]
      OBVIOUS
    <3>2. IsServer(one)
      BY <2>5, <3>1
    <3>3. "name" \in DOMAIN one /\ "url" \in DOMAIN one
      BY <3>2 DEF IsServer
    <3>4. QED BY <3>1, <3>2, <3>3 DEF IsServer, Given
  <2>11. LoadConfig(f) = FromMapping(WithDefaults(d))
    BY <1>2, <2>2, <2>6 DEF LoadConfig
  <2>12. QED BY <2>5, <2>9, <2>10, <2>11, ConfigFrom
<1>3. QED BY <1>1, <1>2

\* The page a client is shown.
LEMMA PublicIs ==
  ASSUME NullIsPlain, NEW c, IsConfig(c), NEW page, page = PublicConfig(c)
  PROVE  /\ DOMAIN page.mcp_servers = DOMAIN c.mcp_servers
         /\ \A i \in DOMAIN c.mcp_servers :
              page.mcp_servers[i] = [name |-> c.mcp_servers[i].name, url |-> c.mcp_servers[i].url,
                                     headers |-> Masked(c.mcp_servers[i].headers)]
<1>1. PICK d : d = ToDict(c)
  OBVIOUS
<1>2. DOMAIN d = All /\ d.mcp_servers = c.mcp_servers
  BY <1>1, ToDictIs
<1>3. {"provider", "runtime", "mcp_servers"} \subseteq DOMAIN d
  BY <1>2 DEF All, Sections
<1>4. PICK p : p = [k \in DOMAIN d.provider \ {"api_key"} |-> d.provider[k]]
  OBVIOUS
<1>5. PICK r : r = Updated([workspace |-> "home"], d.runtime)
  OBVIOUS
<1>6. PICK l : l = [i \in DOMAIN d.mcp_servers |->
                      [name |-> d.mcp_servers[i].name, url |-> d.mcp_servers[i].url,
                       headers |-> Masked(d.mcp_servers[i].headers)]]
  OBVIOUS
<1>7. page = [d EXCEPT !.provider = p, !.runtime = r, !.mcp_servers = l]
  <2>1. PublicConfig(c) = [d EXCEPT
           !.provider = [k \in DOMAIN d.provider \ {"api_key"} |-> d.provider[k]],
           !.runtime = Updated([workspace |-> "home"], d.runtime),
           !.mcp_servers = [i \in DOMAIN d.mcp_servers |->
              [name |-> d.mcp_servers[i].name, url |-> d.mcp_servers[i].url,
               headers |-> Masked(d.mcp_servers[i].headers)]]]
    BY <1>1, <1>3 DEF PublicConfig
  <2>2. QED BY <1>4, <1>5, <1>6, <2>1
<1>8. page.mcp_servers = l
  BY <1>3, <1>7
<1>9. QED BY <1>2, <1>6, <1>8

\* The server list of the page as it opens.
LEMMA OpenedIs ==
  ASSUME NullIsPlain, NEW c, IsConfig(c), NEW list, list = Opened(PublicConfig(c))
  PROVE  /\ IsDraft(list)
         /\ \A i \in DOMAIN list : list[i].from \in 0..Len(c.mcp_servers)
<1>1. PICK page : page = PublicConfig(c)
  OBVIOUS
<1>2. PICK old : old = c.mcp_servers
  OBVIOUS
<1>3. DOMAIN page.mcp_servers = DOMAIN old
      /\ \A i \in DOMAIN old :
           page.mcp_servers[i] = [name |-> old[i].name, url |-> old[i].url,
                                  headers |-> Masked(old[i].headers)]
  BY <1>1, <1>2, PublicIs
<1>4. IsServerList(old) /\ \A i \in DOMAIN old : IsServer(old[i])
  BY <1>2 DEF IsConfig
<1>5. Len(old) \in Nat /\ DOMAIN old = 1..Len(old)
  BY <1>4, ListIs DEF IsServerList
<1>6. list = [i \in DOMAIN page.mcp_servers |-> [item |-> page.mcp_servers[i], from |-> i]]
  BY <1>1 DEF Opened
<1>7. DOMAIN list = DOMAIN old
      /\ \A i \in DOMAIN old : list[i] = [item |-> page.mcp_servers[i], from |-> i]
  BY <1>3, <1>6
<1>8. list \in Seq({list[i] : i \in DOMAIN list})
  BY <1>5, <1>6, <1>7, IsList
<1>9. ASSUME NEW i \in DOMAIN old
      PROVE  /\ list[i] = [item |-> list[i].item, from |-> list[i].from]
             /\ IsItem(list[i].item) /\ list[i].item.name = old[i].name /\ list[i].from = i
             /\ Given(old[i], "name")
  <2>1. PICK one : one = old[i]
    OBVIOUS
  <2>2. PICK masked : masked = Masked(one.headers)
    OBVIOUS
  <2>3. PICK item : item = [name |-> one.name, url |-> one.url, headers |-> masked]
    OBVIOUS
  <2>4. list[i] = [item |-> item, from |-> i]
    BY <1>3, <1>7, <2>1, <2>2, <2>3
  <2>5. IsFunction(masked)
    BY <2>2 DEF IsFunction, Masked
  <2>6. one.name # Null /\ "name" \in DOMAIN one
    <3>1. IsServer(one)
      BY <1>4, <2>1
    <3>2. QED BY <3>1 DEF IsServer
  <2>7. IsItem(item)
    BY <2>3, <2>5, <2>6 DEF IsItem
  <2>8. list[i].item = item /\ list[i].from = i /\ item.name = one.name
    BY <2>3, <2>4
  <2>9. QED BY <2>1, <2>4, <2>6, <2>7, <2>8 DEF Given
<1>10. \A i, j \in DOMAIN list : list[i].item.name = list[j].item.name => i = j
  BY <1>4, <1>7, <1>9 DEF IsServerList
<1>11. IsDraft(list)
  <2>1. \A i \in DOMAIN list :
          list[i] = [item |-> list[i].item, from |-> list[i].from] /\ IsItem(list[i].item)
    BY <1>7, <1>9
  <2>2. QED BY <1>8, <1>10, <2>1, Zenon DEF IsDraft
<1>12. \A i \in DOMAIN list : list[i].from \in 0..Len(c.mcp_servers)
  <2>1. \A i \in DOMAIN list : list[i].from = i /\ i \in 1..Len(old)
    BY <1>5, <1>7, <1>9
  <2>2. QED BY <1>2, <1>5, <2>1
<1>13. QED BY <1>11, <1>12

\* One more server on the page, one that is edited, one that is taken away.
LEMMA DraftAdds ==
  ASSUME NEW list, IsDraft(list), NEW one, one = [item |-> one.item, from |-> one.from], IsItem(one.item),
         \A j \in DOMAIN list : list[j].item.name # one.item.name,
         NEW new, IsFunction(new), DOMAIN new = 1..Len(list) + 1, new[Len(list) + 1] = one,
         \A i \in DOMAIN list : new[i] = list[i]
  PROVE  /\ IsDraft(new)
         /\ \A i \in DOMAIN new :
              (i \in DOMAIN list /\ new[i].from = list[i].from) \/ new[i].from = one.from
<1>1. Len(list) \in Nat /\ DOMAIN list = 1..Len(list) /\ list \in Seq({list[i] : i \in DOMAIN list})
  BY ListIs DEF IsDraft
<1>3. /\ DOMAIN new = 1..Len(list) + 1 /\ new = [i \in DOMAIN new |-> new[i]]
      /\ \A i \in DOMAIN list : new[i] = list[i]
      /\ new[Len(list) + 1] = one
  BY DEF IsFunction
<1>5. \A i \in DOMAIN new : i \in DOMAIN list \/ i = Len(list) + 1
  BY <1>1, <1>3
<1>6. new \in Seq({new[i] : i \in DOMAIN new})
  BY <1>1, <1>3, IsList
<1>7. \A i \in DOMAIN new : new[i] = [item |-> new[i].item, from |-> new[i].from] /\ IsItem(new[i].item)
  <2> TAKE i \in DOMAIN new
  <2>1. CASE i \in DOMAIN list
    BY <1>3, <2>1 DEF IsDraft
  <2>2. CASE i = Len(list) + 1
    BY <1>3, <2>2
  <2>3. QED BY <1>5, <2>1, <2>2
<1>8. \A i, j \in DOMAIN new : new[i].item.name = new[j].item.name => i = j
  BY <1>3, <1>5 DEF IsDraft
<1>9. IsDraft(new)
  BY <1>6, <1>7, <1>8, Zenon DEF IsDraft
<1>10. QED BY <1>3, <1>5, <1>9

LEMMA DraftEdits ==
  ASSUME NEW list, IsDraft(list), NEW k \in DOMAIN list, NEW item, IsItem(item),
         \A j \in DOMAIN list \ {k} : list[j].item.name # item.name,
         NEW new, new = [list EXCEPT ![k].item = item]
  PROVE  IsDraft(new) /\ DOMAIN new = DOMAIN list /\ \A i \in DOMAIN new : new[i].from = list[i].from
<1>1. Len(list) \in Nat /\ DOMAIN list = 1..Len(list) /\ list \in Seq({list[i] : i \in DOMAIN list})
  BY ListIs DEF IsDraft
<1>2. PICK was : was = list[k]
  OBVIOUS
<1>3. was = [item |-> was.item, from |-> was.from]
  BY <1>2 DEF IsDraft
<1>4. PICK one : one = [was EXCEPT !.item = item]
  OBVIOUS
<1>5. new = [list EXCEPT ![k] = one]
  BY <1>2, <1>4
<1>6. DOMAIN new = DOMAIN list /\ new[k] = one /\ \A i \in DOMAIN list \ {k} : new[i] = list[i]
  BY <1>1, <1>5
<1>14. new = [i \in DOMAIN new |-> new[i]]
  BY <1>5
<1>7. one = [item |-> item, from |-> was.from]
  BY <1>3, <1>4
<1>8. one.item = item /\ one.from = was.from /\ one = [item |-> one.item, from |-> one.from]
  BY <1>7
<1>9. new \in Seq({new[i] : i \in DOMAIN new})
  <2>1. Len(list) \in Nat /\ DOMAIN new = 1..Len(list)
    BY <1>1, <1>6
  <2>2. IsFunction(new)
    BY <1>14 DEF IsFunction
  <2>3. \A f : IsFunction(f) /\ DOMAIN f = 1..Len(list) => f \in Seq({f[i] : i \in DOMAIN f})
    BY <2>1, IsList DEF IsFunction
  <2>4. QED BY <2>1, <2>2, <2>3, ZenonT(30)
<1>10. \A i \in DOMAIN new : new[i] = [item |-> new[i].item, from |-> new[i].from] /\ IsItem(new[i].item)
  <2> TAKE i \in DOMAIN new
  <2>1. CASE i # k
    BY <1>6, <2>1 DEF IsDraft
  <2>2. CASE i = k
    BY <1>6, <1>8, <2>2
  <2>3. QED BY <2>1, <2>2
<1>11. \A i, j \in DOMAIN new : new[i].item.name = new[j].item.name => i = j
  BY <1>6, <1>8 DEF IsDraft
<1>12. IsDraft(new)
  BY <1>9, <1>10, <1>11, Zenon DEF IsDraft
<1>13. QED BY <1>2, <1>6, <1>8, <1>12

LEMMA DraftDrops ==
  ASSUME NEW list, IsDraft(list), NEW k \in DOMAIN list, NEW new, new = RemoveAt(list, k)
  PROVE  /\ IsDraft(new)
         /\ \A i \in DOMAIN new : \E j \in DOMAIN list : new[i] = list[j]
<1>1. Len(list) \in Nat /\ DOMAIN list = 1..Len(list) /\ list \in Seq({list[i] : i \in DOMAIN list})
  BY ListIs DEF IsDraft
<1>2. new = SubSeq(list, 1, k - 1) \o SubSeq(list, k + 1, Len(list))
  BY DEF RemoveAt
<1> DEFINE place(i) == IF i < k THEN i ELSE i + 1
<1>11. PICK S : S = {list[i] : i \in DOMAIN list}
  OBVIOUS
<1>12. PICK head : head = SubSeq(list, 1, k - 1)
  OBVIOUS
<1>13. PICK tail : tail = SubSeq(list, k + 1, Len(list))
  OBVIOUS
<1>14. head \in Seq(S) /\ Len(head) = k - 1 /\ \A i \in 1..k - 1 : head[i] = list[i]
  BY <1>1, <1>11, <1>12
<1>15. tail \in Seq(S) /\ Len(tail) = Len(list) - k /\ \A i \in 1..Len(list) - k : tail[i] = list[k + i]
  <2>1. k + 1 \in Int /\ Len(list) \in Int /\ \A i \in k + 1..Len(list) : list[i] \in S
    BY <1>1, <1>11
  <2>2. /\ tail \in Seq(S)
        /\ Len(tail) = IF k + 1 <= Len(list) THEN Len(list) - (k + 1) + 1 ELSE 0
        /\ \A i \in 1..Len(list) - (k + 1) + 1 : tail[i] = list[k + 1 + i - 1]
    BY <1>13, <2>1, SubSeqProperties, SMTT(30)
  <2>3. k \in 1..Len(list)
    BY <1>1
  <2>4. Len(tail) = Len(list) - k
    BY <1>1, <2>2, <2>3
  <2>5. \A i \in 1..Len(list) - k : tail[i] = list[k + i]
    <3> TAKE i \in 1..Len(list) - k
    <3>1. i \in 1..Len(list) - (k + 1) + 1 /\ k + 1 + i - 1 = k + i
      BY <1>1, <2>3
    <3>2. QED BY <2>2, <3>1
  <2>6. QED BY <2>2, <2>4, <2>5
<1>16. new = head \o tail /\ k \in 1..Len(list)
  BY <1>1, <1>2, <1>12, <1>13
<1>17. DOMAIN new = 1..Len(list) - 1 /\ new \in Seq(S)
  <2>1. new \in Seq(S) /\ Len(new) = Len(head) + Len(tail)
    BY <1>14, <1>15, <1>16, ConcatProperties
  <2>2. Len(new) = Len(list) - 1
    BY <1>1, <1>14, <1>15, <1>16, <2>1
  <2>3. QED BY <2>1, <2>2
<1>18. \A i \in DOMAIN new : new[i] = IF i < k THEN head[i] ELSE tail[i - (k - 1)]
  <2>1. \A i \in 1..Len(head) + Len(tail) :
          new[i] = IF i <= Len(head) THEN head[i] ELSE tail[i - Len(head)]
    <3>1. head \in Seq(S) /\ tail \in Seq(S)
      BY <1>14, <1>15
    <3>2. \A i \in 1..Len(head) + Len(tail) :
            (head \o tail)[i] = IF i <= Len(head) THEN head[i] ELSE tail[i - Len(head)]
      BY <3>1, ConcatProperties
    <3>3. QED BY <1>16, <3>2, Zenon
  <2>2. TAKE i \in DOMAIN new
  <2>5. k \in 1..Len(list) /\ Len(list) \in Nat /\ i \in 1..Len(list) - 1
        /\ Len(head) = k - 1 /\ Len(tail) = Len(list) - k
    BY <1>1, <1>14, <1>15, <1>16, <1>17, Zenon
  <2>3. i \in 1..Len(head) + Len(tail) /\ Len(head) = k - 1 /\ (i <= k - 1 <=> i < k)
    BY <2>5
  <2>4. QED BY <2>1, <2>3
<1>19. \A i \in DOMAIN new : place(i) \in DOMAIN list /\ new[i] = list[place(i)]
  <2> TAKE i \in DOMAIN new
  <2>1. i \in 1..Len(list) - 1 /\ k \in 1..Len(list) /\ Len(list) \in Nat
    BY <1>1, <1>16, <1>17
  <2>2. CASE i < k
    BY <1>1, <1>14, <1>18, <2>1, <2>2, SMTT(30)
  <2>3. CASE ~(i < k)
    <3>1. i - (k - 1) \in 1..Len(list) - k /\ k + (i - (k - 1)) = i + 1 /\ i + 1 \in 1..Len(list)
      BY <2>1, <2>3
    <3>2. new[i] = tail[i - (k - 1)]
      BY <1>18, <2>3
    <3>3. tail[i - (k - 1)] = list[i + 1]
      BY <1>15, <3>1
    <3>4. QED BY <1>1, <2>3, <3>1, <3>2, <3>3
  <2>4. QED BY <2>2, <2>3
<1>20. new = [i \in DOMAIN new |-> new[i]]
  BY <1>17
<1>3. /\ DOMAIN new = 1..Len(list) - 1 /\ new = [i \in DOMAIN new |-> new[i]]
      /\ \A i \in DOMAIN new : place(i) \in DOMAIN list /\ new[i] = list[place(i)]
  BY <1>17, <1>19, <1>20, Zenon
<1>4. \A i, j \in DOMAIN new : place(i) = place(j) => i = j
  BY <1>1, <1>3
<1> HIDE DEF place
<1>5. Len(list) - 1 \in Nat
  BY <1>1
<1>6. new \in Seq({new[i] : i \in DOMAIN new})
  BY <1>3, <1>5, IsList
<1>7. \A i \in DOMAIN new : new[i] = [item |-> new[i].item, from |-> new[i].from] /\ IsItem(new[i].item)
  BY <1>3 DEF IsDraft
<1>8. \A i, j \in DOMAIN new : new[i].item.name = new[j].item.name => i = j
  BY <1>3, <1>4 DEF IsDraft
<1>9. IsDraft(new)
  BY <1>6, <1>7, <1>8, Zenon DEF IsDraft
<1>10. QED BY <1>3, <1>9

\* The part of the state a client has.
ClientInv(c) == ShownInv(c) /\ IsDraft(draft[c])

LEMMA ShownNow ==
  ASSUME NullIsPlain, NEW c \in Clients, DOMAIN shown = Clients, DOMAIN draft = Clients,
         NEW new, IsConfig(new), NEW n, Show(c, new, n),
         Current' = new, saves' = n, n \in Nat
  PROVE  /\ DOMAIN shown' = Clients /\ DOMAIN draft' = Clients
         /\ ClientInv(c)'
         /\ \A d \in Clients \ {c} : shown'[d] = shown[d] /\ draft'[d] = draft[d]
<1>1. PICK page : page = PublicConfig(new)
  OBVIOUS
<1>2. PICK list : list = Opened(page)
  OBVIOUS
<1>3. PICK view : view = [page |-> page, at |-> n]
  OBVIOUS
<1>4. shown' = [shown EXCEPT ![c] = view] /\ draft' = [draft EXCEPT ![c] = list]
  BY <1>1, <1>2, <1>3 DEF Show
<1>5. shown'[c] = view /\ draft'[c] = list
  BY <1>4
<1>6. DOMAIN shown' = Clients /\ DOMAIN draft' = Clients
      /\ \A d \in Clients \ {c} : shown'[d] = shown[d] /\ draft'[d] = draft[d]
  BY <1>4
<1>7. IsDraft(list) /\ \A i \in DOMAIN list : list[i].from \in 0..Len(new.mcp_servers)
  BY <1>1, <1>2, OpenedIs
<1>8. view = [page |-> view.page, at |-> view.at] /\ view.at = n /\ view.page = page
  BY <1>3
<1>9. ShownInv(c)'
  <2>1. view.at \in 0..n
    BY <1>8
  <2>2. QED BY <1>1, <1>5, <1>7, <1>8, <2>1 DEF ShownInv
<1>10. QED BY <1>5, <1>6, <1>7, <1>9 DEF ClientInv

LEMMA ClientStays ==
  ASSUME NEW c \in Clients, ClientInv(c), shown'[c] = shown[c], draft'[c] = draft[c],
         Current' = Current, saves' = saves
  PROVE  ClientInv(c)'
BY DEF ClientInv, ShownInv

\* A page one was shown before another update is not the one in use.
LEMMA ClientAges ==
  ASSUME NEW c \in Clients, ClientInv(c), shown'[c] = shown[c], draft'[c] = draft[c],
         saves \in Nat, saves' = saves + 1
  PROVE  ClientInv(c)'
<1>1. ShownInv(c)'
  <2>1. SUFFICES ASSUME shown[c] # Null
        PROVE  /\ shown[c] = [page |-> shown[c].page, at |-> shown[c].at]
               /\ shown[c].at \in 0..saves + 1 /\ shown[c].at # saves + 1
    BY DEF ShownInv
  <2>2. shown[c] = [page |-> shown[c].page, at |-> shown[c].at]
    BY <2>1 DEF ClientInv, ShownInv
  <2>3. shown[c].at \in 0..saves
    BY <2>1 DEF ClientInv, ShownInv
  <2>4. QED BY <2>2, <2>3
<1>2. QED BY <1>1 DEF ClientInv

SeParts ==
  /\ DOMAIN shown = Clients /\ DOMAIN draft = Clients
  /\ IsConfig(Current)
  /\ config # Null => config = Current
  /\ saves \in Nat
  /\ SavingInv
  /\ saving # Idle => KeepsSecrets(saving)
  /\ last # Idle => KeepsSecrets(last)

LEMMA SeIs ==
  /\ SeInv <=> (SeParts /\ \A c \in Clients : ClientInv(c))
  /\ SeInv' <=> (SeParts' /\ \A c \in Clients : ClientInv(c)')
BY DEF SeInv, SeParts, ClientInv

LEMMA LookKeeps ==
  ASSUME NullIsPlain, SeInv, NEW c \in Clients, Look(c)
  PROVE  SeInv'
<1>1. SeParts /\ \A d \in Clients : ClientInv(d)
  BY SeIs
<1>2. /\ config # Null /\ Show(c, config, saves)
      /\ UNCHANGED <<saved, config, saving, last, saves, edits>>
  BY DEF Look
<1>3. Current' = Current /\ config = Current
  BY <1>1, <1>2 DEF Current, SeParts
<1>4. /\ DOMAIN shown' = Clients /\ DOMAIN draft' = Clients
      /\ ClientInv(c)'
      /\ \A d \in Clients \ {c} : shown'[d] = shown[d] /\ draft'[d] = draft[d]
  BY <1>1, <1>2, <1>3, ShownNow DEF SeParts
<1>5. \A d \in Clients : ClientInv(d)'
  <2> TAKE d \in Clients
  <2>1. CASE d = c
    BY <1>4, <2>1
  <2>2. CASE d # c
    <3>1. shown'[d] = shown[d] /\ draft'[d] = draft[d]
      BY <1>4, <2>2
    <3>2. QED BY <1>1, <1>2, <1>3, <3>1, ClientStays
  <2>3. QED BY <2>1, <2>2
<1>6. SeParts'
  BY <1>1, <1>2, <1>3, <1>4 DEF SeParts, SavingInv
<1>7. QED BY <1>5, <1>6, SeIs

LEMMA EditedIs ==
  ASSUME NEW item, IsItem(item), NEW new \in Edited(item), Given(new, "name")
  PROVE  IsItem(new)
<1>1. {"name", "headers"} \subseteq DOMAIN item /\ IsFunction(item.headers)
  BY DEF IsItem
<1>2. CASE \E n \in ServerNames : new = [item EXCEPT !.name = n]
  <2>1. PICK n \in ServerNames : new = [item EXCEPT !.name = n]
    BY <1>2
  <2>2. DOMAIN new = DOMAIN item /\ new.headers = item.headers
    BY <1>1, <2>1
  <2>3. QED BY <1>1, <2>2 DEF IsItem, Given
<1>3. ASSUME NEW f, IsFunction(f), new = [item EXCEPT !.headers = f]
      PROVE  IsItem(new)
  <2>1. DOMAIN new = DOMAIN item /\ new.headers = f
    BY <1>1, <1>3
  <2>2. QED BY <1>1, <1>3, <2>1 DEF IsItem, Given
<1>4. IsFunction(<<>>)
  BY DEF IsFunction
<1>5. \A u, v : IsFunction(Updated(u, v))
  BY UpdatedPlain DEF IsFunction
<1>6. \/ \E n \in ServerNames : new = [item EXCEPT !.name = n]
      \/ new = [item EXCEPT !.headers = <<>>]
      \/ new = [item EXCEPT !.headers = Updated(item.headers, [auth |-> "new"])]
      \/ new = [item EXCEPT !.headers = Updated(item.headers, [tenant |-> ""])]
  BY DEF Edited
<1>7. QED BY <1>2, <1>3, <1>4, <1>5, <1>6

LEMMA AddedIs ==
  ASSUME NEW new \in Added, Given(new, "name")
  PROVE  IsItem(new)
<1>1. PICK n \in ServerNames, f \in NewHeaders : new = [name |-> n, url |-> "url", headers |-> f]
  BY DEF Added
<1>2. IsFunction(f)
  BY <1>1 DEF IsFunction, NewHeaders
<1>3. QED BY <1>1, <1>2 DEF IsItem, Given

\* An edit of the list of c that keeps the places its servers were shown at.
LEMMA EditKeeps ==
  ASSUME SeInv, NEW c \in Clients, NEW list, IsDraft(list),
         \A i \in DOMAIN list :
           list[i].from = 0 \/ \E j \in DOMAIN draft[c] : list[i].from = draft[c][j].from,
         draft' = [draft EXCEPT ![c] = list],
         UNCHANGED <<saved, config, shown, saving, last, saves>>
  PROVE  SeInv'
<1>1. SeParts /\ \A d \in Clients : ClientInv(d)
  BY SeIs
<1>2. Current' = Current
  BY DEF Current
<1>3. DOMAIN draft' = Clients /\ draft'[c] = list /\ \A d \in Clients \ {c} : draft'[d] = draft[d]
  BY <1>1 DEF SeParts
<1>4. ClientInv(c)'
  <2>1. ShownInv(c)'
    <3>1. SUFFICES ASSUME shown[c] # Null, shown[c].at = saves
          PROVE  \A i \in DOMAIN list : list[i].from \in 0..Len(Current.mcp_servers)
      BY <1>1, <1>2, <1>3 DEF ShownInv, ClientInv
    <3>2. \A i \in DOMAIN draft[c] : draft[c][i].from \in 0..Len(Current.mcp_servers)
      BY <1>1, <3>1 DEF ShownInv, ClientInv
    <3>3. Len(Current.mcp_servers) \in Nat
      BY <1>1, ListIs DEF SeParts, IsConfig, IsServerList
    <3>4. 0 \in 0..Len(Current.mcp_servers)
      BY <3>3
    <3>5. QED BY <3>2, <3>4
  <2>2. QED BY <1>3, <2>1 DEF ClientInv
<1>5. \A d \in Clients : ClientInv(d)'
  <2> TAKE d \in Clients
  <2>1. CASE d # c
    BY <1>1, <1>2, <1>3, <2>1, ClientStays
  <2>2. QED BY <1>4, <2>1
<1>6. SeParts'
  BY <1>1, <1>2, <1>3 DEF SeParts, SavingInv
<1>7. QED BY <1>5, <1>6, SeIs

LEMMA TestKeeps ==
  ASSUME SeInv, NEW c \in Clients, NEW k, NEW item, Test(c, k, item),
         \/ k = Len(draft[c]) + 1 /\ item \in Added
         \/ k \in DOMAIN draft[c] /\ item \in Edited(draft[c][k].item)
  PROVE  SeInv'
<1>1. PICK list : list = draft[c]
  OBVIOUS
<1>2. IsDraft(list) /\ DOMAIN draft = Clients
  BY <1>1 DEF SeInv
<1>3. Len(list) \in Nat /\ DOMAIN list = 1..Len(list)
  BY <1>2, ListIs DEF IsDraft
<1>4. PICK original : original = IF k = Len(draft[c]) + 1 THEN Null ELSE draft[c][k].item.name
  OBVIOUS
<1>5. Given(item, "name")
  <2>1. TestHeaders(ToDict(config), item, original) # {}
    BY <1>4 DEF Test
  <2>2. QED BY <2>1 DEF TestHeaders
<1>6. /\ \A j \in DOMAIN list \ {k} : list[j].item.name # item.name
      /\ UNCHANGED <<saved, config, shown, saving, last, saves>>
  BY <1>1 DEF Test
<1>7. draft' = [draft EXCEPT ![c] =
        IF k = Len(list) + 1 THEN Append(list, [item |-> item, from |-> 0])
        ELSE [list EXCEPT ![k].item = item]]
  BY <1>1 DEF Test
<1>8. CASE k = Len(list) + 1 /\ item \in Added
  <2>7. PICK one : one = [item |-> item, from |-> 0]
    OBVIOUS
  <2>1. PICK new : new = Append(list, one)
    OBVIOUS
  <2>2. IsItem(item)
    BY <1>5, <1>8, AddedIs
  <2>3. \A j \in DOMAIN list : list[j].item.name # item.name
    BY <1>3, <1>6, <1>8
  <2>8. one = [item |-> one.item, from |-> one.from] /\ one.item = item /\ one.from = 0
    BY <2>7
  <2>9. IsItem(one.item) /\ \A j \in DOMAIN list : list[j].item.name # one.item.name
    BY <2>2, <2>3, <2>8
  <2>10. DOMAIN new = 1..Len(list) + 1 /\ new[Len(list) + 1] = one
         /\ \A i \in DOMAIN list : new[i] = list[i]
    <3>1. list \in Seq({list[i] : i \in DOMAIN list})
      BY <1>2 DEF IsDraft
    <3>2. QED BY <1>3, <2>1, <3>1
  <2>11. IsFunction(new)
    <3>1. list \in Seq({list[i] : i \in DOMAIN list})
      BY <1>2 DEF IsDraft
    <3>2. PICK S : S = {list[i] : i \in DOMAIN list} \union {one}
      OBVIOUS
    <3>3. list \in Seq(S) /\ one \in S
      BY <1>3, <3>1, <3>2
    <3>4. new \in Seq(S)
      BY <2>1, <3>3, AppendProperties
    <3>5. \A f \in Seq(S) : f = [i \in DOMAIN f |-> f[i]]
      OBVIOUS
    <3>6. QED BY <3>4, <3>5 DEF IsFunction
  <2>4. /\ IsDraft(new)
        /\ \A i \in DOMAIN new :
             (i \in DOMAIN list /\ new[i].from = list[i].from) \/ new[i].from = one.from
    BY <1>2, <2>8, <2>9, <2>10, <2>11, DraftAdds
  <2>5. draft' = [draft EXCEPT ![c] = new]
    BY <1>7, <1>8, <2>1, <2>7
  <2>6. QED BY <1>1, <1>6, <2>4, <2>5, <2>8, EditKeeps
<1>9. CASE k \in DOMAIN list /\ item \in Edited(list[k].item)
  <2>1. PICK new : new = [list EXCEPT ![k].item = item]
    OBVIOUS
  <2>2. IsItem(item)
    BY <1>2, <1>5, <1>9, EditedIs DEF IsDraft
  <2>3. /\ IsDraft(new) /\ DOMAIN new = DOMAIN list
        /\ \A i \in DOMAIN new : new[i].from = list[i].from
    <3>1. IsDraft(new)
      BY <1>2, <1>6, <1>9, <2>1, <2>2, DraftEdits
    <3>2. DOMAIN new = DOMAIN list
      BY <1>2, <1>6, <1>9, <2>1, <2>2, DraftEdits
    <3>3. \A i \in DOMAIN new : new[i].from = list[i].from
      BY <1>2, <1>6, <1>9, <2>1, <2>2, DraftEdits
    <3>4. QED BY <3>1, <3>2, <3>3
  <2>4. k # Len(list) + 1
    BY <1>3, <1>9
  <2>5. draft' = [draft EXCEPT ![c] = new]
    BY <1>7, <2>1, <2>4
  <2>6. QED BY <1>1, <1>6, <2>3, <2>5, EditKeeps
<1>10. QED BY <1>1, <1>8, <1>9

LEMMA DelistKeeps ==
  ASSUME SeInv, NEW c \in Clients, NEW k, Delist(c, k)
  PROVE  SeInv'
<1>1. PICK list : list = draft[c]
  OBVIOUS
<1>2. IsDraft(list) /\ DOMAIN draft = Clients
  BY <1>1 DEF SeInv
<1>3. PICK new : new = RemoveAt(list, k)
  OBVIOUS
<1>4. /\ k \in DOMAIN list /\ draft' = [draft EXCEPT ![c] = new]
      /\ UNCHANGED <<saved, config, shown, saving, last, saves>>
  BY <1>1, <1>3 DEF Delist
<1>5. IsDraft(new) /\ \A i \in DOMAIN new : \E j \in DOMAIN list : new[i] = list[j]
  BY <1>2, <1>3, <1>4, DraftDrops
<1>6. \A i \in DOMAIN new : \E j \in DOMAIN list : new[i].from = list[j].from
  BY <1>5
<1>7. QED BY <1>1, <1>4, <1>5, <1>6, EditKeeps

\* Only the update under way changes.
LEMMA OthersStay ==
  ASSUME SeInv, UNCHANGED <<saved, config, shown, draft, last, saves>>,
         SavingInv', saving' # Idle => KeepsSecrets(saving')
  PROVE  SeInv'
<1>1. SeParts /\ \A d \in Clients : ClientInv(d)
  BY SeIs
<1>2. Current' = Current
  BY DEF Current
<1>3. \A d \in Clients : ClientInv(d)'
  BY <1>1, <1>2, ClientStays
<1>4. SeParts'
  BY <1>1, <1>2 DEF SeParts
<1>5. QED BY <1>3, <1>4, SeIs

LEMMA BeginKeeps ==
  ASSUME NullIsPlain, SeInv, NEW c \in Clients, NEW patch, IsServerList(ServerList(patch)),
         NEW list, NEW fresh,
         fresh => /\ Given(patch, "provider") /\ Given(patch, "mcp_servers")
                  /\ IsDraft(list) /\ patch.mcp_servers = [i \in DOMAIN list |-> list[i].item]
                  /\ \A i \in DOMAIN list : list[i].from \in 0..Len(Current.mcp_servers),
         BeginUpdate(c, patch, list, fresh)
  PROVE  SeInv'
<1>1. PICK old : old = config
  OBVIOUS
<1>2. config # Null /\ old = Current /\ IsConfig(old)
  BY <1>1 DEF BeginUpdate, SeInv
<1>3. PICK merged : merged = MergePatch(ToDict(old), RestoreMasked(ToDict(old), patch))
  OBVIOUS
<1>4. PICK new : new = FromMapping(WithDefaults(merged))
  OBVIOUS
<1>5. PICK u : u = [client |-> c, patch |-> patch, list |-> list, fresh |-> fresh, old |-> old, new |-> new]
  OBVIOUS
<1>6. Valid(merged) /\ saving' = u /\ UNCHANGED <<saved, config, shown, draft, last, saves>>
  BY <1>1, <1>3, <1>4, <1>5 DEF BeginUpdate
<1>7. IsServerList(ServerList(merged))
  BY <1>2, <1>3, MergedIs
<1>8. IsConfig(new)
  BY <1>4, <1>6, <1>7, ConfigFrom
<1>9. LoadConfig(new) = new
  BY <1>8, LoadedIs
<1>10. /\ DOMAIN u = {"client", "patch", "list", "fresh", "old", "new"}
       /\ u.client = c /\ u.list = list /\ u.patch = patch /\ u.old = old /\ u.new = new /\ u.fresh = fresh
  BY <1>5
<1>11. SavingInv'
  BY <1>1, <1>2, <1>6, <1>8, <1>9, <1>10 DEF SavingInv
<1>12. KeepsSecrets(u)
  <2>1. CASE ~fresh
    BY <1>10, <2>1 DEF KeepsSecrets
  <2>2. CASE fresh
    BY <1>2, <1>3, <1>4, <1>6, <1>10, <2>2, SavedKeeps
  <2>3. QED BY <2>1, <2>2
<1>13. QED BY <1>6, <1>11, <1>12, OthersStay

\* The patch the web UI sends.
LEMMA PageIs ==
  ASSUME NullIsPlain, NEW c \in Clients, IsDraft(draft[c]), NEW key, NEW patch, patch = Page(c, key)
  PROVE  /\ Given(patch, "provider") /\ Given(patch, "mcp_servers")
         /\ patch.mcp_servers = [i \in DOMAIN draft[c] |-> draft[c][i].item]
         /\ IsServerList(ServerList(patch))
<1> DEFINE own(s) == Keys[s] \ {"api_key"}
           section(s) == [k \in own(s) |-> IF Given(shown[c].page[s], k) THEN shown[c].page[s][k] ELSE Null]
<1>1. PICK items : items = [i \in DOMAIN draft[c] |-> draft[c][i].item]
  OBVIOUS
<1>2. PICK list : list = [mcp_servers |-> items]
  OBVIOUS
<1>3. PICK all : all = [s \in Sections |-> IF s = "provider" THEN Updated(section(s), key) ELSE section(s)]
  OBVIOUS
<1>4. patch = Updated(all, list)
  BY <1>1, <1>2, <1>3 DEF Page
<1>5. PICK provider : provider = Updated(section("provider"), key)
  OBVIOUS
<1>6. DOMAIN all = Sections /\ "provider" \in Sections /\ "mcp_servers" \notin Sections
      /\ all["provider"] = provider
  BY <1>3, <1>5 DEF Sections
<1> HIDE DEF own, section
<1>7. DOMAIN list = {"mcp_servers"} /\ list.mcp_servers = items
  BY <1>2
<1>8. DOMAIN patch = Sections \union {"mcp_servers"} /\ patch.mcp_servers = items
      /\ patch["provider"] = provider
  BY <1>4, <1>6, <1>7 DEF Updated
<1>9. provider # Null
  BY <1>5, UpdatedPlain, NotNull
<1>10. items # Null /\ IsServerList(items)
  BY <1>1, ItemsAre
<1>11. Given(patch, "provider") /\ Given(patch, "mcp_servers")
  BY <1>6, <1>8, <1>9, <1>10 DEF Given
<1>12. QED BY <1>1, <1>8, <1>10, <1>11 DEF ServerList

LEMMA SavePageKeeps ==
  ASSUME NullIsPlain, SeInv, NEW c \in Clients, SavePage(c)
  PROVE  SeInv'
<1>1. PICK key : BeginUpdate(c, Page(c, key), draft[c], shown[c].at = saves)
  BY DEF SavePage
<1>2. shown[c] # Null
  BY DEF SavePage
<1>3. PICK patch : patch = Page(c, key)
  OBVIOUS
<1>4. PICK list : list = draft[c]
  OBVIOUS
<1>5. PICK fresh : fresh = (shown[c].at = saves)
  OBVIOUS
<1>6. IsDraft(list)
  BY <1>4 DEF SeInv
<1>7. /\ Given(patch, "provider") /\ Given(patch, "mcp_servers")
      /\ patch.mcp_servers = [i \in DOMAIN list |-> list[i].item]
      /\ IsServerList(ServerList(patch))
  BY <1>3, <1>4, <1>6, PageIs
<1>8. fresh => \A i \in DOMAIN list : list[i].from \in 0..Len(Current.mcp_servers)
  BY <1>2, <1>4, <1>5 DEF SeInv, ShownInv
<1>9. BeginUpdate(c, patch, list, fresh)
  BY <1>1, <1>3, <1>4, <1>5
<1>10. QED BY <1>6, <1>7, <1>8, <1>9, BeginKeeps

LEMMA SendUpdateKeeps ==
  ASSUME NullIsPlain, SeInv, NEW c \in Clients, SendUpdate(c)
  PROVE  SeInv'
<1>1. PICK r \in Requests : BeginUpdate(c, r, <<>>, FALSE)
  BY DEF SendUpdate
<1>2. IsServerList(ServerList(r))
  BY ServersAssumption
<1>3. QED BY <1>1, <1>2, BeginKeeps

LEMMA UpdateKeeps ==
  ASSUME NullIsPlain, SeInv, Update
  PROVE  SeInv'
<1>1. SeParts /\ \A d \in Clients : ClientInv(d)
  BY SeIs
<1>2. PICK c : c = saving.client
  OBVIOUS
<1>3. PICK new : new = saving.new
  OBVIOUS
<1>4. /\ saving # Idle /\ saved' = new /\ config' = new /\ Show(c, new, saves + 1)
      /\ last' = saving /\ saving' = Idle /\ saves' = saves + 1
  BY <1>2, <1>3 DEF Update
<1>5. c \in Clients /\ IsConfig(new) /\ LoadConfig(new) = new /\ KeepsSecrets(saving)
  BY <1>1, <1>2, <1>3, <1>4 DEF SeParts, SavingInv
<1>6. Current' = new
  BY <1>4, <1>5 DEF Current
<1>7. saves \in Nat /\ saves + 1 \in Nat
  BY <1>1 DEF SeParts
<1>8. /\ DOMAIN shown' = Clients /\ DOMAIN draft' = Clients
      /\ ClientInv(c)'
      /\ \A d \in Clients \ {c} : shown'[d] = shown[d] /\ draft'[d] = draft[d]
  BY <1>1, <1>4, <1>5, <1>6, <1>7, ShownNow DEF SeParts
<1>9. \A d \in Clients : ClientInv(d)'
  <2> TAKE d \in Clients
  <2>1. CASE d # c
    <3>1. shown'[d] = shown[d] /\ draft'[d] = draft[d]
      BY <1>8, <2>1
    <3>2. QED BY <1>1, <1>4, <1>7, <3>1, ClientAges
  <2>2. QED BY <1>8, <2>1
<1>10. SeParts'
  BY <1>4, <1>5, <1>6, <1>7, <1>8 DEF SeParts, SavingInv
<1>11. QED BY <1>9, <1>10, SeIs

LEMMA DownKeeps ==
  ASSUME NullIsPlain, SeInv, Down
  PROVE  SeInv'
<1>1. SeParts /\ \A d \in Clients : ClientInv(d)
  BY SeIs
<1>2. config' = Null /\ saving' = Idle /\ UNCHANGED <<shown, draft, last>>
  BY DEF Down
<1>3. CASE UNCHANGED <<saved, saves>>
  <2>1. Current' = Current
    BY <1>3 DEF Current
  <2>2. \A d \in Clients : ClientInv(d)'
    BY <1>1, <1>2, <1>3, <2>1, ClientStays
  <2>3. SeParts'
    BY <1>1, <1>2, <1>3, <2>1 DEF SeParts, SavingInv
  <2>4. QED BY <2>2, <2>3, SeIs
<1>4. CASE saving # Idle /\ saved' = saving.new /\ saves' = saves + 1
  <2>1. Current' = saving.new /\ IsConfig(saving.new)
    BY <1>1, <1>4 DEF Current, SeParts, SavingInv
  <2>2. saves \in Nat /\ saves' \in Nat
    BY <1>1, <1>4 DEF SeParts
  <2>3. \A d \in Clients : ClientInv(d)'
    BY <1>1, <1>2, <1>4, <2>2, ClientAges
  <2>4. SeParts'
    BY <1>1, <1>2, <2>1, <2>2 DEF SeParts, SavingInv
  <2>5. QED BY <2>3, <2>4, SeIs
<1>5. QED BY <1>3, <1>4 DEF Down

LEMMA UpKeeps ==
  ASSUME SeInv, Up
  PROVE  SeInv'
<1>1. SeParts /\ \A d \in Clients : ClientInv(d)
  BY SeIs
<1>2. config = Null /\ config' = Current /\ UNCHANGED <<saved, shown, draft, saving, last, saves>>
  BY DEF Up, Current
<1>3. Current' = Current
  BY <1>2 DEF Current
<1>4. \A d \in Clients : ClientInv(d)'
  BY <1>1, <1>2, <1>3, ClientStays
<1>5. saving = Idle
  BY <1>1, <1>2 DEF SeParts, SavingInv
<1>6. SeParts'
  BY <1>1, <1>2, <1>3, <1>5 DEF SeParts, SavingInv
<1>7. QED BY <1>4, <1>6, SeIs

LEMMA SeInitHolds ==
  ASSUME NullIsPlain, SettingsInit
  PROVE  SeInv
<1>1. saved \in Files /\ config = Current /\ saving = Idle /\ last = Idle /\ saves = 0
  BY DEF SettingsInit, Current
<1>2. IsConfig(Current)
  BY <1>1, FileLoads DEF Current
<1>3. /\ DOMAIN shown = Clients /\ DOMAIN draft = Clients
      /\ \A c \in Clients : shown[c] = Null /\ draft[c] = <<>>
  BY DEF SettingsInit
<1>4. IsDraft(<<>>)
  BY DEF IsDraft
<1>5. \A c \in Clients : ClientInv(c)
  BY <1>3, <1>4 DEF ClientInv, ShownInv
<1>6. SeParts
  BY <1>1, <1>2, <1>3 DEF SeParts, SavingInv
<1>7. QED BY <1>5, <1>6, SeIs

LEMMA SettingsStepKeeps ==
  ASSUME NullIsPlain, SeInv, [SettingsNext]_settingsVars
  PROVE  SeInv'
<1>1. CASE UNCHANGED settingsVars
  BY <1>1, OthersStay DEF settingsVars, SeInv, SavingInv
<1>2. ASSUME NEW c \in Clients, Look(c) PROVE SeInv'
  BY <1>2, LookKeeps
<1>3. ASSUME NEW c \in Clients, SavePage(c) PROVE SeInv'
  BY <1>3, SavePageKeeps
<1>4. ASSUME NEW c \in Clients, SendUpdate(c) PROVE SeInv'
  BY <1>4, SendUpdateKeeps
<1>5. ASSUME NEW c \in Clients, NEW i, Delist(c, i) PROVE SeInv'
  BY <1>5, DelistKeeps
<1>6. ASSUME NEW c \in Clients, NEW i \in DOMAIN draft[c],
             NEW item \in Edited(draft[c][i].item), Test(c, i, item)
      PROVE  SeInv'
  BY <1>6, TestKeeps
<1>7. ASSUME NEW c \in Clients, NEW item \in Added, Test(c, Len(draft[c]) + 1, item)
      PROVE  SeInv'
  BY <1>7, TestKeeps
<1>8. CASE Update
  BY <1>8, UpdateKeeps
<1>9. CASE UpdateFails
  BY <1>9, OthersStay DEF UpdateFails, SavingInv
<1>10. CASE Down
  BY <1>10, DownKeeps
<1>11. CASE Up
  BY <1>11, UpKeeps
<1>12. QED BY <1>1, <1>2, <1>3, <1>4, <1>5, <1>6, <1>7, <1>8, <1>9, <1>10, <1>11 DEF SettingsNext

(* The file holds what the server uses, and who was shown the latest page has  *)
(* what it says (update_config, public_config, _load_config).                  *)
THEOREM SettingsInvariant ==
  ASSUME NullIsPlain
  PROVE  SettingsSpec => []SeInv
<1>1. SettingsInit => SeInv
  BY SeInitHolds
<1>2. SeInv /\ [SettingsNext]_settingsVars => SeInv'
  BY SettingsStepKeeps
<1>3. QED BY <1>1, <1>2, PTL DEF SettingsSpec

(* Saving the page one was shown keeps every secret one was not shown, and a   *)
(* restart changes no setting: for any clients, files and requests whose       *)
(* server lists repeat no name, and any number of edits and updates            *)
(* (RuntimeService.update_config, _restore_masked_mcp_headers).                *)
THEOREM SecretsSurvive ==
  ASSUME NullIsPlain
  PROVE  SettingsSpec => []SecretsKept
<1>1. SeInv => SecretsKept
  BY DEF SeInv, SecretsKept, KeepsSecrets, Current
<1>2. QED BY <1>1, SettingsInvariant, PTL
===============================================================================
