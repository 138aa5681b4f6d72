-------------------------------- MODULE Skills --------------------------------
(***************************************************************************)
(* Skills of the runtime: archives that are uploaded and unpacked          *)
(* (skill_uploads.py), packages that are checked and put in place of the   *)
(* installed ones (skills/manager.py), and the list of them that is kept   *)
(* (skills/loader.py).  One operation at a time works in a thread, under   *)
(* the service's lock (runtime_service.py); the settings page lists the    *)
(* skills without it, between any two accesses to the directory.           *)
(*                                                                         *)
(* A path is a sequence of names.  A package is the skill its SKILL.md     *)
(* declares, or no skill, and a stamp for the modification times the       *)
(* package was unpacked with, which moving it keeps.  Links are left out.  *)
(***************************************************************************)
EXTENDS Naturals, Sequences, FiniteSets, SequencesExt, Dicts

CONSTANTS
  SkillNames,
  Uploads,      \* requests to install: sequences of archives
  Limits,       \* MAX_ARCHIVES, ..._BYTES, ..._ENTRIES, MAX_EXTRACTED_BYTES, MAX_SKILLS
  MaxJobs,      \* bound: operations
  MaxSkillFaults, \* bound: failing moves and deletions
  Absent

\* What stands for a package that declares no skill is no name.
ASSUME SkillNamesAssumption == "none" \notin SkillNames

\* The names of an entry's path are those between its slashes.
ASSUME UploadsAssumption ==
  \A upload \in Uploads : \A k \in DOMAIN upload :
    \A i \in DOMAIN upload[k].entries : upload[k].entries[i].path \in Seq(STRING)

VARIABLES
  skills,   \* skills[n]: the package in directory n, Absent, or Broken
  cached,   \* _cache: the files of a list, and the list
  job,      \* the operation under way, or the last one
  listing,  \* a list of the settings page under way
  raced,    \* an operation failed while the settings page listed, or with its rollback
            \* (history)
  jobs, skillFaults

skillVars == <<skills, cached, job, listing, raced, jobs, skillFaults>>

\* What a deletion that fails half-way leaves: no SKILL.md, other files.
Broken == [skill |-> "none", stamp |-> 0]

-------------------------------------------------------------------------------
(* Uploads.  An archive has a size and entries, in their order: a path, what   *)
(* kind of path it is, whether it is a directory, a size, and the skill it     *)
(* declares if it is a SKILL.md.                                               *)

Refused == [ok |-> FALSE]
Summed(numbers) == FoldLeft(LAMBDA n, x : n + x, 0, numbers)

\* _safe_archive_path: entries that are passed over, and such that are refused.
Ignored(e) == e.path = <<>> \/ Contains(e.path, "__MACOSX") \/ e.kind = "appledouble"
Unsafe(e)  == e.kind = "unsafe" \/ (e.kind = "link" /\ ~Ignored(e))

\* The places of the entries that are unpacked.
Unpacked(entries) == {i \in DOMAIN entries : ~Ignored(entries[i]) /\ ~entries[i].dir}
Repeated(entries) ==
  \E i, j \in Unpacked(entries) : i # j /\ entries[i].path = entries[j].path

\* The directories with a SKILL.md.
Candidates(entries) ==
  {Front(entries[i].path) : i \in {j \in Unpacked(entries) : Last(entries[j].path) = "SKILL.md"}}

\* _find_skill_roots: those of fewer names first, none inside one that was taken.
SkillRoots(entries) ==
  LET all == Candidates(entries)
      taken[n \in Nat] ==
        LET outer == IF n = 0 THEN {} ELSE taken[n - 1]
        IN outer \union {d \in all : Len(d) = n /\ \A r \in outer : ~IsPrefix(r, d)}
  IN UNION {taken[Len(d)] : d \in all}

\* The package in directory d of the k-th archive, which is unpacked into "k".
PackageName(k, d) == IF d = <<>> THEN ToString(k - 1) ELSE Last(d)
Package(k, entries, d, stamp) ==
  [from |-> <<k, d>>, name |-> PackageName(k, d),
   holds |-> [skill |-> entries[CHOOSE i \in Unpacked(entries) :
                                  entries[i].path = Append(d, "SKILL.md")].skill,
              stamp |-> stamp]]

\* extract_skill_archives, one archive after the other.
Extract(upload, stamp) ==
  LET entries(k) == upload[k].entries
      bytes(es) == Summed([i \in DOMAIN es |-> es[i].bytes])
      packages == UNION {{Package(k, entries(k), d, stamp) : d \in SkillRoots(entries(k))} :
                           k \in DOMAIN upload}
      refused(k) ==
        \/ ~upload[k].zip
        \/ Summed([j \in 1 .. k |-> upload[j].bytes]) > Limits.bytes
        \/ Summed([j \in 1 .. k |-> Len(entries(j))]) > Limits.entries
        \/ Summed([j \in 1 .. k |-> bytes(entries(j))]) > Limits.extracted
        \/ \E e \in ToSet(entries(k)) : Unsafe(e)
        \/ Repeated(entries(k))
  IN IF \/ upload = <<>> \/ Len(upload) > Limits.archives
        \/ \E k \in DOMAIN upload : refused(k)
        \/ packages = {} \/ Cardinality(packages) > Limits.skills
     THEN Refused
     ELSE [ok |-> TRUE, packages |-> packages]

-------------------------------------------------------------------------------
(* The directory and its list.                                                 *)

Exists(n) == skills[n] # Absent

\* load_skills: a skill is told by its name, which must be that of its directory.
Loads(n, package) == n \in SkillNames /\ package # Absent /\ package.skill = n
LoadSkills(dir) == [n \in {m \in DOMAIN dir : Loads(m, dir[m])} |-> dir[n].stamp]

\* _snapshot_skill_files: the files there are and their modification times.
Snapshot(dir) ==
  [n \in {m \in DOMAIN dir : dir[m] \notin {Absent, Broken}} |-> dir[n].stamp]

NoList == [files |-> Absent]
Listed(dir) == [files |-> Snapshot(dir), list |-> LoadSkills(dir)]
Hit(files) == cached.files # Absent /\ cached.files = files
ListNow == IF Hit(Snapshot(skills)) THEN cached ELSE Listed(skills)

NoJob == [pc |-> "idle"]
NoListing == [pc |-> "idle"]

SkillsInit ==
  /\ skills \in [SkillNames -> {Absent} \union {[skill |-> n, stamp |-> 1] : n \in SkillNames}]
  /\ cached \in {NoList, Listed(skills)}
  /\ job = NoJob /\ listing = NoListing
  /\ raced = FALSE /\ jobs = 0 /\ skillFaults = 0

-------------------------------------------------------------------------------
(* Operations.                                                                 *)

Does(pc) == job.pc = pc
Goes(fields) == job' = Updated(job, fields)
Fault == skillFaults < MaxSkillFaults /\ skillFaults' = skillFaults + 1
NoFault == UNCHANGED skillFaults
Put(n, package) == skills' = [skills EXCEPT ![n] = package]
Others == UNCHANGED <<cached, listing, raced, jobs>>

\* The operation ends with an error.
Fails(fields) ==
  /\ Goes(Updated([pc |-> "over", ok |-> FALSE], fields))
  /\ raced' = (raced \/ job.seen \/ job'.torn)
  /\ UNCHANGED <<cached, listing, jobs>>

\* What an operation is before its first step; `before`, `torn` and `seen` are history.
Begun(kind) ==
  [kind |-> kind, pc |-> "begun", before |-> skills, new |-> <<>>, todo |-> {},
   kept |-> <<>>, done |-> <<>>, ok |-> TRUE, torn |-> FALSE, seen |-> listing # NoListing]

Asks(fields) ==
  /\ job.pc \in {"idle", "over"} /\ jobs < MaxJobs
  /\ jobs' = jobs + 1
  /\ job' = Updated(Begun(fields.kind), fields)
  /\ UNCHANGED <<skills, cached, listing, raced, skillFaults>>

Install == \E u \in Uploads, r \in BOOLEAN :
             Asks([kind |-> "install", upload |-> u, replace |-> r, stamp |-> jobs + 2])
RemoveSkill == \E n \in SkillNames : Asks([kind |-> "remove", name |-> n])
Reload == Asks([kind |-> "reload"])

\* The packages are unpacked, staged and checked before anything is touched.
Stage ==
  LET x == Extract(job.upload, job.stamp)
      ps == x.packages
      names == {p.name : p \in ps}
      bad == \/ ~x.ok
             \/ \E p, q \in ps : p # q /\ p.name = q.name
             \/ \E p \in ps : ~Loads(p.name, p.holds)
             \/ ~job.replace /\ \E n \in names : Exists(n)
  IN /\ Does("begun") /\ job.kind = "install"
     /\ IF bad THEN Fails(<<>>)
        ELSE /\ Goes([pc |-> "out", todo |-> names,
                      new |-> [n \in names |-> (CHOOSE p \in ps : p.name = n).holds]])
             /\ Others
     /\ NoFault /\ UNCHANGED skills

\* _commit_staged_skills: the old package moves to the backups, the new one in.
Name == CHOOSE n \in job.todo : TRUE

MoveOut ==
  /\ Does("out") /\ job.todo # {}
  /\ Put(Name, Absent)
  /\ Goes([pc |-> "in", kept |-> Updated(job.kept, [n \in {Name} |-> skills[n]])])
  /\ NoFault /\ Others

MoveIn ==
  /\ Does("in")
  /\ Put(Name, job.new[Name])
  /\ Goes([pc |-> "out", todo |-> job.todo \ {Name}, done |-> <<Name>> \o job.done])
  /\ NoFault /\ Others

MoveOutFails ==
  /\ Does("out") /\ job.todo # {} /\ Exists(Name) /\ Fault
  /\ Goes([pc |-> "undo", ok |-> FALSE]) /\ Others /\ UNCHANGED skills

MoveInFails ==
  /\ Does("in") /\ Fault
  /\ Goes([pc |-> "back", ok |-> FALSE]) /\ Others /\ UNCHANGED skills

\* Mutant: the package that could not be replaced stays among the backups.
KeepsBackup == UNCHANGED skills
PutBack == Put(Name, job.kept[Name])

MoveBack ==
  /\ Does("back") /\ PutBack
  /\ Goes([pc |-> "undo"]) /\ NoFault /\ Others

MoveBackFails ==
  /\ Does("back") /\ job.kept[Name] # Absent /\ Fault
  /\ Goes([pc |-> "undo", torn |-> TRUE]) /\ Others /\ UNCHANGED skills

\* The rollback, the last package first: the new one is deleted, the old one put back.
Last1 == Head(job.done)

Delete ==
  /\ Does("undo") /\ job.done # <<>>
  /\ Put(Last1, Absent) /\ Goes([pc |-> "redo"]) /\ NoFault /\ Others

DeleteFails ==
  /\ Does("undo") /\ job.done # <<>> /\ Fault
  /\ Put(Last1, Broken) /\ Fails([torn |-> TRUE])

Redo ==
  /\ Does("redo")
  /\ Put(Last1, job.kept[Last1])
  /\ Goes([pc |-> "undo", done |-> Tail(job.done)]) /\ NoFault /\ Others

RedoFails ==
  /\ Does("redo") /\ job.kept[Last1] # Absent /\ Fault
  /\ Fails([torn |-> TRUE]) /\ UNCHANGED skills

\* The error is raised; the backups go with the temporary directory.
Raised ==
  /\ Does("undo") /\ job.done = <<>>
  /\ Fails(<<>>) /\ NoFault /\ UNCHANGED skills

\* get_skill: what the kept list does not know is not removed.
Find ==
  /\ Does("begun") /\ job.kind = "remove"
  /\ cached' = ListNow
  /\ Goes([pc |-> IF job.name \in DOMAIN ListNow.list THEN "rmtree" ELSE "reload"])
  /\ NoFault /\ UNCHANGED <<skills, listing, raced, jobs>>

Rmtree ==
  /\ Does("rmtree") /\ Exists(job.name)
  /\ Put(job.name, Absent) /\ Goes([pc |-> "reload"]) /\ NoFault /\ Others

RmtreeFails ==
  /\ Does("rmtree")
  /\ \/ ~Exists(job.name) /\ NoFault /\ UNCHANGED skills
     \/ Exists(job.name) /\ Fault /\ Put(job.name, Broken)
  /\ Fails(<<>>)

Refresh ==
  /\ \/ Does("reload") \/ (Does("out") /\ job.todo = {})
     \/ (Does("begun") /\ job.kind = "reload")
  /\ cached' = Listed(skills) /\ raced' = FALSE
  /\ Goes([pc |-> "over"]) /\ NoFault /\ UNCHANGED <<skills, listing, jobs>>

\* list_skills of the settings page: the files are looked at, then read.
ListBegins ==
  /\ listing = NoListing
  /\ ~Hit(Snapshot(skills))
  /\ listing' = [pc |-> "load", files |-> Snapshot(skills)]
  /\ job' = IF job.pc \in {"idle", "over"} THEN job ELSE [job EXCEPT !.seen = TRUE]
  /\ UNCHANGED <<skills, cached, raced, jobs, skillFaults>>

ListReads ==
  /\ listing # NoListing
  /\ listing' = NoListing
  /\ cached' = [files |-> listing.files, list |-> LoadSkills(skills)]
  /\ UNCHANGED <<skills, job, raced, jobs, skillFaults>>

SkillsNext ==
  \/ Install \/ RemoveSkill \/ Reload \/ Stage
  \/ MoveOut \/ MoveIn \/ MoveOutFails \/ MoveInFails \/ MoveBack \/ MoveBackFails
  \/ Delete \/ DeleteFails \/ Redo \/ RedoFails \/ Raised
  \/ Find \/ Rmtree \/ RmtreeFails \/ Refresh \/ ListBegins \/ ListReads

SkillsSpec == SkillsInit /\ [][SkillsNext]_skillVars

-------------------------------------------------------------------------------
(* Properties.                                                                 *)

\* The directories of an archive that hold a skill and lie in no other such one.
Outermost(entries) ==
  LET dirs == {Front(entries[i].path) : i \in {j \in DOMAIN entries :
                 ~Ignored(entries[j]) /\ ~entries[j].dir /\ Last(entries[j].path) = "SKILL.md"}}
  IN {d \in dirs : \A r \in dirs : IsPrefix(r, d) => r = d}

\* What an installed upload leaves in the directory.
Uploaded(n) ==
  {k \in DOMAIN job.upload : \E d \in Outermost(job.upload[k].entries) :
     n = IF d = <<>> THEN ToString(k - 1) ELSE Last(d)}

(* An upload is installed as a whole: each of its outermost packages once, in  *)
(* place of the one of that name, and nothing else changes; or it fails, and   *)
(* every skill is the one it was, unless a move or a deletion failed in the    *)
(* rollback too.  After an operation the kept list is what the directory       *)
(* holds, or is seen not to be, unless the settings page listed the skills     *)
(* while an operation failed, or a rollback failed (install_skills,            *)
(* remove_skill, list_skills).                                                 *)
InstallAllOrNothing ==
  Does("over") =>
    /\ job.kind = "install" /\ job.ok =>
         \A n \in SkillNames :
           IF Uploaded(n) # {} THEN skills[n] = [skill |-> n, stamp |-> job.stamp]
           ELSE skills[n] = job.before[n]
    /\ job.kind = "install" /\ ~job.ok /\ ~job.torn => skills = job.before
    /\ job.kind = "remove" /\ job.ok =>
         \A n \in SkillNames : n # job.name => skills[n] = job.before[n]
    /\ Hit(Snapshot(skills)) /\ ~raced => cached = Listed(skills)
===============================================================================
