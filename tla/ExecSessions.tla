----------------------------- MODULE ExecSessions -----------------------------
(* The shell tools (tools/builtins/shell.py): commands that run to their end,  *)
(* commands that become sessions to poll and write to, their time limits, the  *)
(* table of sessions and its closing.  Tool calls are tasks of one event loop: *)
(* an action runs from one await to the next, a cancellation hits a task where *)
(* it waits.  Output is counted in chunks.                                     *)
EXTENDS Naturals, FiniteSets

CONSTANTS
  Owners,       \* conversations; the tools of one run one call at a time
  Closers,      \* tasks that close the manager
  Sessions,     \* identities of spawned processes, each used once
  Timed,        \* those started with a time limit
  Loud,         \* those that write
  MaxSessions,  \* max_sessions of the manager
  BufferLimit,  \* _SESSION_BUFFER_CHAR_LIMIT, in chunks
  MaxChunks,    \* bound: chunks one process writes
  MaxCalls,     \* bound: tool calls
  MaxCancels,   \* bound: cancellations
  MaxRounds,    \* bound: further polls of one wait_for
  None          \* no task, no session

ASSUME ExecAssumption ==
  /\ MaxSessions \in Nat /\ BufferLimit \in Nat
  /\ IsFiniteSet(Sessions)
  /\ None \notin Owners \union Closers \union Sessions
  /\ "timer" \notin Owners \union Closers \union {None}

VARIABLES
  ses,      \* ses[s]: the process and its ExecSession
  table,    \* _sessions of the manager
  shut,     \* _closed of the manager
  lock,     \* the task that holds the manager's _lock, or None
  task,     \* task[t]: what the call of a task does
  calls, cancels   \* how many so far

vars == <<ses, table, shut, lock, task, calls, cancels>>

Tasks == Owners \union Closers

(* proc, kids: the command and its descendants, which hold its pipes; sig: the *)
(* group was sent SIGKILL; made, pipe: chunks written, and not yet read;       *)
(* buf, drop: _chunks and _dropped_chars; told, lost: chunks handed to a call  *)
(* that returned, and to one that did not; closer, stage: who is inside close  *)
(* and where; term: holder of _termination_lock; asked: _termination_requested;*)
(* cut: a close was cancelled inside.                                          *)
NoProcess == [proc |-> "none", kids |-> FALSE, sig |-> FALSE, made |-> 0, pipe |-> 0,
              buf |-> 0, drop |-> 0, told |-> 0, lost |-> 0, readers |-> "none",
              due |-> FALSE, timer |-> "none", idle |-> FALSE, owner |-> None,
              closed |-> FALSE, closer |-> None, stage |-> "none",
              term |-> None, asked |-> FALSE, cut |-> FALSE]

NoCall == [pc |-> "idle", op |-> "none", on |-> None, todo |-> {}, held |-> 0, round |-> 0]

Alive(s)  == ses[s].proc = "running" \/ ses[s].kids
Exited(s) == ses[s].proc = "exited"
Ended(s)  == ses[s].readers = "reading" /\ ~Alive(s) /\ ses[s].pipe = 0  \* at end of file
Stale     == {s \in table : ses[s].idle}
Busy(s)   == \E t \in Tasks : task[t].on = s

Init ==
  /\ ses = [s \in Sessions |-> NoProcess]
  /\ table = {} /\ shut = FALSE /\ lock = None
  /\ task = [t \in Tasks |-> NoCall]
  /\ calls = 0 /\ cancels = 0

-------------------------------------------------------------------------------
(* The process, the reader tasks and the clock.                                *)

Output(s) ==                         \* the command or a descendant writes
  /\ s \in Loud /\ Alive(s) /\ ses[s].readers = "reading" /\ ses[s].made < MaxChunks
  /\ ses' = [ses EXCEPT ![s] = [ses[s] EXCEPT !.made = @ + 1, !.pipe = @ + 1]]
  /\ UNCHANGED <<table, shut, lock, task, calls, cancels>>

Exits(s, kids) ==                    \* by itself; descendants may stay
  /\ ses[s].proc = "running" /\ ~ses[s].sig
  /\ ses' = [ses EXCEPT ![s] = [@ EXCEPT !.proc = "exited", !.kids = kids]]
  /\ UNCHANGED <<table, shut, lock, task, calls, cancels>>

KilledDies(s) ==                     \* the whole group of a signalled process
  /\ Alive(s) /\ ses[s].sig
  /\ ses' = [ses EXCEPT ![s] = [@ EXCEPT !.proc = "exited", !.kids = FALSE]]
  /\ UNCHANGED <<table, shut, lock, task, calls, cancels>>

KidsExit(s) ==
  /\ Exited(s) /\ ses[s].kids /\ ~ses[s].sig
  /\ ses' = [ses EXCEPT ![s].kids = FALSE]
  /\ UNCHANGED <<table, shut, lock, task, calls, cancels>>

(* _read_stream appends a chunk and drops the oldest ones beyond the limit.    *)
Buffered(r) ==
  LET n == r.buf + 1 IN
  IF n > BufferLimit THEN [r EXCEPT !.buf = BufferLimit, !.drop = @ + n - BufferLimit]
  ELSE [r EXCEPT !.buf = n]

ReadStream(s) ==
  /\ ses[s].readers = "reading" /\ ses[s].pipe > 0
  /\ ses' = [ses EXCEPT ![s] = Buffered([ses[s] EXCEPT !.pipe = @ - 1])]
  /\ UNCHANGED <<table, shut, lock, task, calls, cancels>>

DeadlinePasses(s) ==
  /\ s \in Timed /\ Alive(s) /\ ~ses[s].due
  /\ ses' = [ses EXCEPT ![s].due = TRUE]
  /\ UNCHANGED <<table, shut, lock, task, calls, cancels>>

BecomesIdle(s) ==                    \* idle_timeout since the last access
  /\ s \in table /\ ~Busy(s) /\ ~ses[s].idle
  /\ ses' = [ses EXCEPT ![s].idle = TRUE]
  /\ UNCHANGED <<table, shut, lock, task, calls, cancels>>

(* kill: under the termination lock the group is signalled once and its exit   *)
(* awaited for up to five seconds.  Kill is what h does until it first waits.  *)
Kill(r, h) ==
  IF r.term # None \/ r.asked THEN r
  ELSE IF r.proc = "exited" THEN [r EXCEPT !.sig = TRUE, !.asked = TRUE]
  ELSE [r EXCEPT !.sig = TRUE, !.term = h]
KillWaited(r)     == [r EXCEPT !.asked = TRUE, !.term = None]
KillStuck(r, h)   == r               \* mutant: the lock of a cancelled kill stays
KillDropped(r, h) == [r EXCEPT !.term = IF @ = h THEN None ELSE @]

WatchTimeout(s) ==
  /\ ses[s].timer = "armed" /\ ses[s].due
  /\ ses' = [ses EXCEPT ![s] =
       IF @.closed \/ Exited(s) THEN [@ EXCEPT !.timer = "done"]
       ELSE Kill([@ EXCEPT !.timer = "killing"], "timer")]
  /\ UNCHANGED <<table, shut, lock, task, calls, cancels>>

TimerKills(s) ==
  /\ ses[s].timer = "killing"
  /\ ses' = [ses EXCEPT ![s] =
       IF @.asked THEN [@ EXCEPT !.timer = "done"]
       ELSE IF @.term = "timer" THEN [KillWaited(@) EXCEPT !.timer = "done"]
       ELSE Kill(@, "timer")]
  /\ ses[s].asked \/ ses[s].term \in {"timer", None}
  /\ UNCHANGED <<table, shut, lock, task, calls, cancels>>

-------------------------------------------------------------------------------
(* A task's call.  Goto and End move one task; a call that does not return     *)
(* normally loses the output it holds.                                         *)

Goto(t, pc) == task' = [task EXCEPT ![t].pc = pc]

Told(r, n) == [r EXCEPT !.told = @ + n]
Lost(r, n) == [r EXCEPT !.lost = @ + n]

Return(t) ==
  /\ task' = [task EXCEPT ![t] = NoCall]
  /\ ses' = IF task[t].on = None THEN ses
            ELSE [ses EXCEPT ![task[t].on] = Told(@, task[t].held)]

Forfeit(t, r) == [r EXCEPT !.lost = @ + task[t].held]

Call(t, op) ==                       \* a run calls exec, write_stdin or the list
  /\ t \in Owners /\ task[t].pc = "idle" /\ calls < MaxCalls
  /\ task' = [task EXCEPT ![t] =
       [@ EXCEPT !.op = op, !.pc = IF op = "exec" THEN "spawn" ELSE "lock"]]
  /\ calls' = calls + 1
  /\ UNCHANGED <<ses, table, shut, lock, cancels>>

CallClose(t) ==                      \* on a closed manager only while it still closes
  /\ t \in Closers /\ task[t].pc = "idle"
  /\ ~shut \/ \E x \in Closers : task[x].op = "close"
  /\ task' = [task EXCEPT ![t] = [@ EXCEPT !.op = "close", !.pc = "lock"]]
  /\ UNCHANGED <<ses, table, shut, lock, calls, cancels>>

(* start, write and list take the lock and close the sessions that were stale  *)
(* when they got it; start raises and list returns nothing on a closed manager.*)
Barred(t) == shut /\ task[t].op # "write"

Turned(t) ==
  /\ task[t].pc = "lock" /\ task[t].op # "close" /\ lock = None /\ Barred(t)
  /\ task' = [task EXCEPT ![t] = NoCall]
  /\ UNCHANGED <<ses, table, shut, lock, calls, cancels>>

Cleanup(t) ==
  /\ task[t].pc = "lock" /\ task[t].op # "close" /\ lock = None /\ ~Barred(t)
  /\ Stale # {}
  /\ lock' = t
  /\ task' = [task EXCEPT ![t] = [@ EXCEPT !.pc = "cleanup", !.todo = Stale]]
  /\ UNCHANGED <<ses, table, shut, calls, cancels>>

AtTable(t, op) ==
  /\ task[t].op = op
  /\ \/ task[t].pc = "lock" /\ lock = None /\ ~Barred(t) /\ Stale = {}
     \/ task[t].pc = "cleanup" /\ task[t].todo = {}

Refused(t) ==                        \* maximum exec sessions reached
  /\ AtTable(t, "start") /\ Cardinality(table) >= MaxSessions
  /\ task' = [task EXCEPT ![t] = NoCall] /\ lock' = None
  /\ UNCHANGED <<ses, table, shut, calls, cancels>>

Locked(t)   == t

BeginSpawn(t) ==                     \* the lock is kept while the process starts
  /\ AtTable(t, "start") /\ Cardinality(table) < MaxSessions
  /\ Goto(t, "spawn") /\ lock' = Locked(t)
  /\ UNCHANGED <<ses, table, shut, calls, cancels>>

Spawned(t, s) ==
  [NoProcess EXCEPT !.proc = "running", !.owner = t,
     !.readers = IF task[t].op = "start" THEN "reading" ELSE "none",
     !.timer = IF task[t].op = "start" /\ s \in Timed THEN "armed" ELSE "none"]

Spawn(t, s) ==
  /\ task[t].pc = "spawn" /\ ses[s].proc = "none"
  /\ ses' = [ses EXCEPT ![s] = Spawned(t, s)]
  /\ task' = [task EXCEPT ![t] =
       [@ EXCEPT !.on = s, !.pc = IF task[t].op = "start" THEN "poll" ELSE "communicate"]]
  /\ IF task[t].op = "start"
       THEN table' = table \union {s} /\ lock' = None
       ELSE UNCHANGED <<table, lock>>
  /\ UNCHANGED <<shut, calls, cancels>>

SpawnFails(t) ==
  /\ task[t].pc = "spawn"
  /\ task' = [task EXCEPT ![t] = NoCall]
  /\ lock' = IF lock = t THEN None ELSE lock
  /\ UNCHANGED <<ses, table, shut, calls, cancels>>

Listed(t) ==
  /\ AtTable(t, "list")
  /\ task' = [task EXCEPT ![t] = NoCall] /\ lock' = None
  /\ UNCHANGED <<ses, table, shut, calls, cancels>>

(* write finds the session of its owner; a later round of wait_for that finds  *)
(* it gone reports an error and drops what it had gathered.                    *)
Lookup(t, s) ==
  /\ AtTable(t, "write")
  /\ s \in table /\ ses[s].owner = t
  /\ task[t].on \in {None, s}
  /\ lock' = None
  /\ \E pc \in IF task[t].on = s THEN {"poll"} ELSE {"poll", "send", "kill"} :
       task' = [task EXCEPT ![t] = [@ EXCEPT !.on = s, !.pc = pc]]
  /\ ses' = [ses EXCEPT ![s] =
       LET r == [@ EXCEPT !.idle = FALSE] IN
       IF task'[t].pc = "kill" THEN Kill(r, t) ELSE r]
  /\ UNCHANGED <<table, shut, calls, cancels>>

NotFound(t) ==
  /\ AtTable(t, "write")
  /\ task[t].on \notin table
  /\ task' = [task EXCEPT ![t] = NoCall] /\ lock' = None
  /\ ses' = IF task[t].on = None THEN ses ELSE [ses EXCEPT ![task[t].on] = Forfeit(t, @)]
  /\ UNCHANGED <<table, shut, calls, cancels>>

(* Writing to stdin waits until the process reads; closing it likewise.        *)
Sent(t) ==
  /\ task[t].pc = "send" /\ ~ses[task[t].on].closed /\ ~Exited(task[t].on)
  /\ \/ Goto(t, "poll") /\ UNCHANGED ses
     \/ Goto(t, "kill") /\ ses' = [ses EXCEPT ![task[t].on] = Kill(@, t)]
  /\ UNCHANGED <<table, shut, lock, calls, cancels>>

SendFails(t) ==                      \* closed, exited, or a broken pipe
  /\ task[t].pc = "send" /\ (ses[task[t].on].closed \/ Exited(task[t].on))
  /\ Return(t)
  /\ UNCHANGED <<table, shut, lock, calls, cancels>>

-------------------------------------------------------------------------------
(* poll: wait for the exit or the yield time, enforce the deadline, wait for   *)
(* the readers of an exited process or briefly for output, take the buffer.    *)

AfterKill(s) == IF Exited(s) THEN "join" ELSE "grace"

PollWaited(t) ==
  LET s == task[t].on IN
  /\ task[t].pc = "poll"
  /\ IF ~Exited(s) /\ ses[s].due
       THEN Goto(t, "pollkill") /\ ses' = [ses EXCEPT ![s] = Kill(@, t)]
       ELSE Goto(t, AfterKill(s)) /\ UNCHANGED ses
  /\ UNCHANGED <<table, shut, lock, calls, cancels>>

KillStep(t) ==
  LET s == task[t].on IN
  /\ task[t].pc \in {"kill", "pollkill"}
  /\ ses[s].asked \/ ses[s].term \in {t, None}
  /\ IF ses[s].asked \/ ses[s].term = t
       THEN /\ ses' = [ses EXCEPT ![s] = IF @.asked THEN @ ELSE KillWaited(@)]
            /\ Goto(t, IF task[t].pc = "kill" THEN "poll" ELSE AfterKill(s))
       ELSE ses' = [ses EXCEPT ![s] = Kill(@, t)] /\ UNCHANGED task
  /\ UNCHANGED <<table, shut, lock, calls, cancels>>

Copied(r)  == [r EXCEPT !.drop = 0]  \* mutant: the buffer is not cleared
Drained(r) == [r EXCEPT !.buf = 0, !.drop = 0]

(* A poll that saw the exit is done: start and write take the session off the  *)
(* table, when the lock is free without waiting, and close it.  One round of   *)
(* wait_for that saw no exit may be followed by another.                       *)
Leave(t, held) ==
  IF lock = None
    THEN /\ table' = table \ {task[t].on}
         /\ task' = [task EXCEPT ![t] =
              [@ EXCEPT !.held = held, !.pc = "close", !.todo = {task[t].on}]]
    ELSE /\ task' = [task EXCEPT ![t] = [@ EXCEPT !.held = held, !.pc = "pop"]]
         /\ UNCHANGED table

Collect(t, readers) ==
  LET s == task[t].on
      n == task[t].held + ses[s].buf + ses[s].drop
      r == [Drained(ses[s]) EXCEPT !.readers = readers] IN
  \/ Exited(s) /\ ses' = [ses EXCEPT ![s] = r] /\ Leave(t, n)
  \/ /\ ~Exited(s) /\ UNCHANGED table
     /\ ses' = [ses EXCEPT ![s] = Told(r, n)]
     /\ task' = [task EXCEPT ![t] = NoCall]
  \/ /\ ~Exited(s) /\ UNCHANGED table
     /\ task[t].op = "write" /\ task[t].round < MaxRounds
     /\ ses' = [ses EXCEPT ![s] = r]
     /\ task' = [task EXCEPT ![t] =
          [task[t] EXCEPT !.held = n, !.pc = "lock", !.round = @ + 1]]

Joined(t) ==                         \* the readers ended, or two seconds passed
  LET s == task[t].on IN
  /\ task[t].pc = "join" /\ ses[s].readers # "cancelled"
  /\ Collect(t, IF Ended(s) THEN "reading" ELSE "cancelled")
  /\ UNCHANGED <<shut, lock, calls, cancels>>

Graced(t) ==
  /\ task[t].pc = "grace"
  /\ Collect(t, ses[task[t].on].readers)
  /\ UNCHANGED <<shut, lock, calls, cancels>>

(* The readers were cancelled with an earlier poll: gather passes their        *)
(* CancelledError on.  start cleans its session up on any exception.           *)
JoinRaises(t) ==
  LET s == task[t].on IN
  /\ task[t].pc = "join" /\ ses[s].readers = "cancelled"
  /\ ses' = [ses EXCEPT ![s] = Forfeit(t, @)]
  /\ IF task[t].op = "start" THEN Leave(t, 0)
     ELSE task' = [task EXCEPT ![t] = NoCall] /\ UNCHANGED table
  /\ UNCHANGED <<shut, lock, calls, cancels>>

Pop(t) ==
  /\ task[t].pc = "pop" /\ lock = None
  /\ table' = table \ {task[t].on}
  /\ task' = [task EXCEPT ![t] = [@ EXCEPT !.pc = "close", !.todo = {task[t].on}]]
  /\ UNCHANGED <<ses, shut, lock, calls, cancels>>

-------------------------------------------------------------------------------
(* close of a session: mark it closed, stop its timer, kill, wait for the      *)
(* readers.  The cleanup closes stale sessions one by one under the lock, the  *)
(* manager's close all of them at once after it emptied the table.             *)

CloseManager(t) ==
  /\ task[t].pc = "lock" /\ task[t].op = "close" /\ lock = None
  /\ IF shut THEN task' = [task EXCEPT ![t] = NoCall] /\ UNCHANGED <<table, shut>>
     ELSE /\ shut' = TRUE /\ table' = {}
          /\ task' = [task EXCEPT ![t] = [@ EXCEPT !.pc = "close", !.todo = table]]
  /\ UNCHANGED <<ses, lock, calls, cancels>>

CloseKill(r, t) ==
  LET k == Kill(r, t) IN [k EXCEPT !.stage = IF k.asked THEN "readers" ELSE "kill"]

MarkClosed(r, t) ==
  LET c == KillDropped([r EXCEPT !.closed = TRUE, !.closer = t, !.timer = "done"], "timer")
  IN IF r.timer \in {"armed", "killing"} THEN [c EXCEPT !.stage = "timer"]
     ELSE CloseKill(c, t)

BeginClose(t, s) ==
  /\ task[t].pc \in {"cleanup", "close"} /\ s \in task[t].todo /\ ses[s].closer = None
  /\ task[t].pc = "cleanup" => \A x \in task[t].todo : ses[x].closer # t
  /\ IF ses[s].closed
       THEN task' = [task EXCEPT ![t].todo = @ \ {s}] /\ UNCHANGED ses
       ELSE ses' = [ses EXCEPT ![s] = MarkClosed(@, t)] /\ UNCHANGED task
  /\ table' = table \ {s}
  /\ UNCHANGED <<shut, lock, calls, cancels>>

CloseStep(t, s) ==
  /\ ses[s].closer = t
  /\ \/ ses[s].stage = "timer" /\ ses' = [ses EXCEPT ![s] = CloseKill(@, t)]
     \/ ses[s].stage = "kill" /\ ses[s].term = t
          /\ ses' = [ses EXCEPT ![s] = CloseKill(KillWaited(@), t)]
     \/ ses[s].stage = "kill" /\ ses[s].term = None /\ ses' = [ses EXCEPT ![s] = CloseKill(@, t)]
  /\ UNCHANGED <<table, shut, lock, task, calls, cancels>>

CloseEnds(t, s) ==                   \* _finish_reader_tasks
  /\ ses[s].closer = t /\ ses[s].stage = "readers"
  /\ ses' = [ses EXCEPT ![s] =
       [ses[s] EXCEPT !.closer = None, !.stage = "none",
                      !.readers = IF Ended(s) THEN @ ELSE "cancelled"]]
  /\ task' = [task EXCEPT ![t].todo = @ \ {s}]
  /\ UNCHANGED <<table, shut, lock, calls, cancels>>

Closed(t) ==
  /\ task[t].pc = "close" /\ task[t].todo = {}
  /\ Return(t)
  /\ UNCHANGED <<table, shut, lock, calls, cancels>>

-------------------------------------------------------------------------------
(* exec without yield_time_ms: one process, waited for and never in the table. *)

Communicated(t) ==
  LET s == task[t].on IN
  /\ task[t].pc = "communicate"
  /\ IF ses[s].due \* TimeoutError
       THEN ses' = [ses EXCEPT ![s] = Kill(@, t)] /\ Goto(t, "killed")
       ELSE /\ ~Alive(s)
            /\ ses' = [ses EXCEPT ![s] = [@ EXCEPT !.pipe = 0, !.told = ses[s].made]]
            /\ task' = [task EXCEPT ![t] = NoCall]
  /\ UNCHANGED <<table, shut, lock, calls, cancels>>

Killed(t) ==
  /\ task[t].pc = "killed"
  /\ task' = [task EXCEPT ![t] = NoCall]
  /\ UNCHANGED <<ses, table, shut, lock, calls, cancels>>

-------------------------------------------------------------------------------
(* A cancellation interrupts the await the task is in.  Inside a close it      *)
(* leaves the rest of that close undone; a manager's close passes it on to all *)
(* of its closes; start still removes and closes the session it began to poll. *)

LeftRunning(r, t) == r               \* mutant: exec forgets its process
StopsProcess(r, t) == Kill(r, t)

Interrupted(t, s) ==
  LET r == IF task[t].on = s THEN Forfeit(t, ses[s]) ELSE ses[s] IN
  IF r.closer = t
    THEN [KillDropped(r, t) EXCEPT !.closer = None, !.stage = "none", !.cut = TRUE]
  ELSE IF task[t].pc = "close" /\ s \in task[t].todo THEN [r EXCEPT !.cut = TRUE]
  ELSE IF task[t].on # s THEN r
  ELSE IF task[t].pc = "communicate" THEN StopsProcess(r, t)
  ELSE [KillDropped(r, t) EXCEPT
          !.readers = IF task[t].pc = "join" /\ ~Ended(s) THEN "cancelled" ELSE @]

AfterCancel(t) ==
  IF task[t].pc = "communicate" THEN [task[t] EXCEPT !.pc = "killed"]
  ELSE IF task[t].op = "start" /\ task[t].pc \in {"poll", "pollkill", "join", "grace"}
    THEN [task[t] EXCEPT !.pc = "pop", !.held = 0]
  ELSE NoCall

Cancel(t) ==
  /\ task[t].pc # "idle" /\ cancels < MaxCancels
  /\ ses' = [s \in Sessions |-> Interrupted(t, s)]
  /\ task' = [task EXCEPT ![t] = AfterCancel(t)]
  /\ lock' = IF lock = t THEN None ELSE lock
  /\ cancels' = cancels + 1
  /\ UNCHANGED <<table, shut, calls>>

-------------------------------------------------------------------------------
Work(t) ==
  \/ Turned(t) \/ Cleanup(t) \/ Refused(t) \/ BeginSpawn(t) \/ Listed(t) \/ NotFound(t)
  \/ SendFails(t) \/ PollWaited(t) \/ KillStep(t) \/ Joined(t) \/ Graced(t)
  \/ JoinRaises(t) \/ Pop(t) \/ CloseManager(t) \/ Closed(t)
  \/ Communicated(t) \/ Killed(t)
  \/ \E s \in Sessions : Lookup(t, s) \/ BeginClose(t, s) \/ CloseStep(t, s) \/ CloseEnds(t, s)

Spawning(t) == SpawnFails(t) \/ \E s \in Sessions : Spawn(t, s)

Machine(s) ==
  \/ KilledDies(s) \/ ReadStream(s) \/ DeadlinePasses(s)
  \/ WatchTimeout(s) \/ TimerKills(s)

Environment ==
  \/ \E s \in Sessions : Output(s) \/ KidsExit(s) \/ BecomesIdle(s)
                         \/ \E kids \in BOOLEAN : Exits(s, kids)
  \/ \E t \in Tasks : Cancel(t) \/ Sent(t) \/ CallClose(t)
                      \/ \E op \in {"start", "write", "list", "exec"} : Call(t, op)

Next ==
  \/ Environment
  \/ \E t \in Tasks : Work(t) \/ Spawning(t)
  \/ \E s \in Sessions : Machine(s)

(* The event loop runs every ready task and timer, a process can be spawned or *)
(* not, a signalled process dies and time passes.  Nothing makes a process     *)
(* write, read or exit.                                                        *)
Fairness ==
  /\ \A t \in Tasks : WF_vars(Work(t)) /\ WF_vars(Spawning(t))
  /\ \A s \in Sessions : WF_vars(Machine(s))

Spec == Init /\ [][Next]_vars /\ Fairness

-------------------------------------------------------------------------------
(* Properties.                                                                 *)

(* No run holds more processes than the table allows: the lock is kept from    *)
(* the count to the entry, through the cleanup and the spawn (start).          *)
TableBounded == Cardinality(table) <= MaxSessions

(* A command never outlives everyone who could stop it: while it runs and no   *)
(* one killed its group, it is in the table, some call works on it, or a close *)
(* of it was cancelled half-way (ExecSessionManager.start, write, close).      *)
NoOrphan ==
  \A s \in Sessions : Alive(s) /\ ~ses[s].sig =>
     \/ s \in table \/ ses[s].cut
     \/ \E t \in Tasks : task[t].on = s \/ s \in task[t].todo

(* Both at once: as many processes as the table allows, and each within reach, *)
(* whatever calls race for the table, its entries and its cleanup (start,      *)
(* write, close).                                                              *)
ProcessesHeld == TableBounded /\ NoOrphan

(* Output is given out once: what the readers read is in the buffer, counted   *)
(* as dropped, held by a call or handed over, and only a cancellation or the   *)
(* closing of the manager loses what a call held (_read_stream, poll).         *)
Held(s) == LET T == {t \in Tasks : task[t].on = s} IN
           IF T = {} THEN 0 ELSE task[CHOOSE t \in T : TRUE].held

OutputAccounted ==
  \A s \in Sessions :
    /\ ses[s].made = ses[s].pipe + ses[s].buf + ses[s].drop + Held(s) + ses[s].told + ses[s].lost
    /\ cancels = 0 /\ ~shut => ses[s].lost = 0

(* Every call comes to its end, on a session without a time limit only if the  *)
(* command lets it; nobody's call waits for the command of another.  A time    *)
(* limit holds though nobody polls the session, and through every race of its  *)
(* timer with polls, terminations and closes (_watch_timeout, kill).           *)
Unlimited(t) == task[t].on \in Sessions \ Timed

ExecEnds ==
  /\ \A t \in Tasks : task[t].pc # "idle" ~> task[t].pc = "idle" \/ Unlimited(t)
  /\ \A s \in Timed : ses[s].due ~> Exited(s) \/ ses[s].cut
=============================================================================
