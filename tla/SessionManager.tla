---------------------------- MODULE SessionManager ----------------------------
(***************************************************************************)
(* One persisted conversation of the SDK: session/manager.py over          *)
(* stores/json_file.py, driven by BumblehiveRuntime._run_with_session.     *)
(*                                                                         *)
(* The clients are asyncio tasks that run turns, clear, delete or stamp    *)
(* the same session id.  File operations run in worker threads: a thread   *)
(* outlives the task that awaits it, so a cancelled task may leave one     *)
(* behind.  A SessionState object holds a history and an asyncio.Lock; the *)
(* cache maps the session id to one such object, and a deleted object may  *)
(* still be held by a task that waits for its lock.                        *)
(*                                                                         *)
(* Every action is what one task does between two suspension points.       *)
(***************************************************************************)
EXTENDS Transcript, FiniteSets, Integers

CONSTANTS
  Clients,      \* the tasks that use the session
  Turns,        \* the user messages that may be sent, each at most once
  None,         \* no client
  MaxObjects,   \* bound on the SessionState objects ever created
  MaxCancels,   \* bound on the cancellations one operation receives
  MaxFaults,    \* bound on the file operations that raise
  MaxCrashes,   \* bound on process restarts
  MaxClears,    \* bound on clear calls
  MaxDeletes    \* bound on delete calls

ASSUME ConstantsAssumption ==
  /\ None \notin Clients /\ {NoCall, RuntimeContext} \intersect Turns = {}
  /\ MaxObjects \in Nat \ {0} /\ MaxCancels \in Nat /\ MaxFaults \in Nat
  /\ MaxCrashes \in Nat /\ MaxClears \in Nat /\ MaxDeletes \in Nat

VARIABLES
  pc,           \* where each task is suspended
  op,           \* the operation each task performs
  turn,         \* the user message of each task's turn
  obj,          \* the SessionState each task obtained (0: none)
  stage,        \* what the save a task awaits is for
  run,          \* the run messages of each task's turn
  thread,       \* the worker thread each task awaits
  interrupted,  \* replace_and_save remembers a CancelledError
  cached,       \* the SessionState in the cache (0: none)
  created,      \* the number of SessionState objects created so far
  histories,    \* the history of every SessionState
  holder,       \* the task holding the lock of every SessionState
  loader,       \* the task holding _load_lock
  disk,         \* the messages of the JSON document (<<>>: none, or no file)
  orphans,      \* file operations of threads nobody awaits any more
  used,         \* ghost: turns sent so far
  gone,         \* ghost: user messages removed by a delete that returned
  cancels, faults, crashes, clears, deletes   \* ghost: the bounded events so far

taskVars  == <<pc, op, turn, obj, stage, run, thread, interrupted, cancels>>
cacheVars == <<cached, created, histories, holder, loader>>
fileVars  == <<disk, orphans>>
ghostVars == <<used, gone, faults, crashes, clears, deletes>>
vars      == <<taskVars, cacheVars, fileVars, ghostVars>>

PCs    == {"idle", "loadWait", "loading", "lockWait", "saving", "unlinking",
           "running", "returned"}
Stages == {"none", "recover", "user", "checkpoint", "close", "clear", "stamp"}

NoThread == [kind |-> "none", content |-> <<>>, state |-> "none"]
Thread(kind, content) == [kind |-> kind, content |-> content, state |-> "running"]

Objects == 1..MaxObjects

Init ==
  /\ pc = [c \in Clients |-> "idle"]
  /\ op = [c \in Clients |-> "none"]
  /\ turn = [c \in Clients |-> None]
  /\ obj = [c \in Clients |-> 0]
  /\ stage = [c \in Clients |-> "none"]
  /\ run = [c \in Clients |-> <<>>]
  /\ thread = [c \in Clients |-> NoThread]
  /\ interrupted = [c \in Clients |-> FALSE]
  /\ cached = 0 /\ created = 0 /\ loader = None
  /\ histories = [o \in Objects |-> <<>>]
  /\ holder = [o \in Objects |-> None]
  /\ disk = <<>> /\ orphans = {}
  /\ used = {} /\ gone = {}
  /\ cancels = [c \in Clients |-> 0]
  /\ faults = 0 /\ crashes = 0 /\ clears = 0 /\ deletes = 0

-----------------------------------------------------------------------------
\* Parts of actions.

\* The task's operation is over; its lock, if it held one, is free again.
Finish(c) ==
  /\ pc' = [pc EXCEPT ![c] = "idle"]
  /\ op' = [op EXCEPT ![c] = "none"]
  /\ turn' = [turn EXCEPT ![c] = None]
  /\ obj' = [obj EXCEPT ![c] = 0]
  /\ stage' = [stage EXCEPT ![c] = "none"]
  /\ run' = [run EXCEPT ![c] = <<>>]
  /\ thread' = [thread EXCEPT ![c] = NoThread]
  /\ interrupted' = [interrupted EXCEPT ![c] = FALSE]
  /\ cancels' = [cancels EXCEPT ![c] = 0]
  /\ holder' = [o \in Objects |-> IF holder[o] = c THEN None ELSE holder[o]]

\* replace_and_save up to its first await: the save thread is started.
StartSave(c, why, messages) ==
  /\ pc' = [pc EXCEPT ![c] = "saving"]
  /\ stage' = [stage EXCEPT ![c] = why]
  /\ thread' = [thread EXCEPT ![c] = Thread("save", messages)]
  /\ interrupted' = [interrupted EXCEPT ![c] = FALSE]

\* _run_with_session when the lock is held and the history is recovered.
AppendUser(c, history) ==
  /\ run' = [run EXCEPT ![c] =
               <<SystemMessage>> \o history \o
               <<Message("user", <<turn[c], RuntimeContext>>)>>]
  /\ StartSave(c, "user", Append(history, UserMessage(turn[c])))

\* Leaving `async with _load_lock`, normally or by an exception.
LoaderKept(c) == loader                        \* mutant: never released
LoaderAfter(c) == IF loader = c THEN None ELSE loader

LaneOpen(c) == TRUE                            \* mutant: no lock
LaneFree(c) == holder[obj[c]] = None

NeverRecovers(history) == FALSE                 \* mutant: no recovery
NeedsRecovery(history) == Recovered(history) # history

\* What replace_and_save puts into the SessionState once the file is saved.
UnlessInterrupted(c) ==                        \* mutant: raise before publishing
  IF interrupted[c] THEN histories[obj[c]] ELSE thread[c].content
Published(c) == thread[c].content

\* delete pops whatever object the session id maps to by then.
CacheAfterDelete(c) == IF obj[c] # 0 THEN 0 ELSE cached

LastAssistant(history) ==
  {i \in DOMAIN history : /\ history[i].role = "assistant"
                          /\ \A j \in DOMAIN history :
                               j > i => history[j].role # "assistant"}

-----------------------------------------------------------------------------
\* SessionManager.get, first part: the cache, else the load lock.
Get(c) ==
  /\ obj' = [obj EXCEPT ![c] = cached]
  /\ pc' = [pc EXCEPT ![c] = IF cached # 0 THEN "lockWait" ELSE "loadWait"]

BeginTurn(c, t) ==
  /\ pc[c] = "idle" /\ t \notin used
  /\ Get(c)
  /\ op' = [op EXCEPT ![c] = "turn"]
  /\ turn' = [turn EXCEPT ![c] = t]
  /\ used' = used \union {t}
  /\ UNCHANGED <<stage, run, thread, interrupted, cancels, cacheVars, fileVars,
                 gone, faults, crashes, clears, deletes>>

BeginClear(c) ==
  /\ pc[c] = "idle" /\ clears < MaxClears
  /\ Get(c)
  /\ op' = [op EXCEPT ![c] = "clear"]
  /\ clears' = clears + 1
  /\ UNCHANGED <<turn, stage, run, thread, interrupted, cancels, cacheVars,
                 fileVars, used, gone, faults, crashes, deletes>>

\* delete: an uncached session is unlinked without any lock.
BeginDelete(c) ==
  /\ pc[c] = "idle" /\ deletes < MaxDeletes
  /\ op' = [op EXCEPT ![c] = "delete"]
  /\ obj' = [obj EXCEPT ![c] = cached]
  /\ IF cached = 0
     THEN /\ pc' = [pc EXCEPT ![c] = "unlinking"]
          /\ thread' = [thread EXCEPT ![c] = Thread("unlink", <<>>)]
     ELSE /\ pc' = [pc EXCEPT ![c] = "lockWait"]
          /\ UNCHANGED thread
  /\ deletes' = deletes + 1
  /\ UNCHANGED <<turn, stage, run, interrupted, cancels, cacheVars, fileVars,
                 used, gone, faults, crashes, clears>>

\* persist_run_duration of the server, after the turn left the lane.
BeginStamp(c) ==
  /\ pc[c] = "returned"
  /\ Get(c)
  /\ op' = [op EXCEPT ![c] = "stamp"]
  /\ UNCHANGED <<turn, stage, run, thread, interrupted, cancels, cacheVars,
                 fileVars, ghostVars>>

\* An SDK caller, or a turn that ended with an error, stamps nothing.
EndTurn(c) ==
  /\ pc[c] = "returned"
  /\ Finish(c)
  /\ UNCHANGED <<cached, created, histories, loader, fileVars, ghostVars>>

\* get, under _load_lock: the second look at the cache, else load the file.
EnterLoad(c) ==
  /\ pc[c] = "loadWait" /\ loader = None
  /\ IF cached # 0
     THEN /\ obj' = [obj EXCEPT ![c] = cached]
          /\ pc' = [pc EXCEPT ![c] = "lockWait"]
          /\ UNCHANGED <<loader, thread>>
     ELSE /\ created < MaxObjects
          /\ loader' = c
          /\ thread' = [thread EXCEPT ![c] = Thread("load", <<>>)]
          /\ pc' = [pc EXCEPT ![c] = "loading"]
          /\ UNCHANGED obj
  /\ UNCHANGED <<op, turn, stage, run, interrupted, cancels, cached, created,
                 histories, holder, fileVars, ghostVars>>

LoadDone(c) ==
  /\ pc[c] = "loading" /\ thread[c].state = "ok"
  /\ created' = created + 1
  /\ histories' = [histories EXCEPT ![created + 1] = thread[c].content]
  /\ cached' = created + 1
  /\ obj' = [obj EXCEPT ![c] = created + 1]
  /\ loader' = LoaderAfter(c)
  /\ pc' = [pc EXCEPT ![c] = "lockWait"]
  /\ thread' = [thread EXCEPT ![c] = NoThread]
  /\ UNCHANGED <<op, turn, stage, run, interrupted, cancels, holder, fileVars,
                 ghostVars>>

\* The first statement under session.lock, by operation.
EnterLane(c) ==
  LET history == histories[obj[c]] IN
  /\ pc[c] = "lockWait" /\ LaneFree(c)
  /\ \/ /\ op[c] = "turn"
        /\ holder' = [holder EXCEPT ![obj[c]] = c]
        /\ IF NeedsRecovery(history)
           THEN StartSave(c, "recover", Recovered(history)) /\ UNCHANGED run
           ELSE AppendUser(c, history)
        /\ UNCHANGED <<op, turn, obj, cancels>>
     \/ /\ op[c] = "clear"
        /\ holder' = [holder EXCEPT ![obj[c]] = c]
        /\ StartSave(c, "clear", <<>>)
        /\ UNCHANGED <<op, turn, obj, run, cancels>>
     \/ /\ op[c] = "delete"
        /\ holder' = [holder EXCEPT ![obj[c]] = c]
        /\ pc' = [pc EXCEPT ![c] = "unlinking"]
        /\ thread' = [thread EXCEPT ![c] = Thread("unlink", <<>>)]
        /\ UNCHANGED <<op, turn, obj, stage, run, interrupted, cancels>>
     \/ /\ op[c] = "stamp" /\ LastAssistant(history) # {}
        /\ holder' = [holder EXCEPT ![obj[c]] = c]
        /\ \E i \in LastAssistant(history) :
             StartSave(c, "stamp", [history EXCEPT ![i].ui = TRUE])
        /\ UNCHANGED <<op, turn, obj, run, cancels>>
     \/ /\ op[c] = "stamp" /\ LastAssistant(history) = {}
        /\ Finish(c)
  /\ UNCHANGED <<cached, created, histories, loader, fileVars, ghostVars>>

-----------------------------------------------------------------------------
\* Worker threads.

\* os.replace or unlink takes effect.  A load keeps what it read; an unlink
\* keeps, for the ghost `gone`, what it removed.
FileAfter(kind, content) ==
  CASE kind = "save"   -> content
    [] kind = "unlink" -> <<>>
    [] OTHER           -> disk

ThreadDone(c) ==
  /\ thread[c].state = "running"
  /\ disk' = FileAfter(thread[c].kind, thread[c].content)
  /\ thread' = [thread EXCEPT ![c] =
       [kind |-> @.kind, state |-> "ok",
        content |-> IF @.kind = "save" THEN @.content ELSE disk]]
  /\ UNCHANGED <<pc, op, turn, obj, stage, run, interrupted, cancels, cacheVars,
                 orphans, ghostVars>>

\* SessionFileError: the document is untouched.
ThreadFails(c) ==
  /\ thread[c].state = "running" /\ faults < MaxFaults
  /\ thread' = [thread EXCEPT ![c] =
       [kind |-> @.kind, state |-> "failed", content |-> @.content]]
  /\ faults' = faults + 1
  /\ UNCHANGED <<pc, op, turn, obj, stage, run, interrupted, cancels, cacheVars,
                 fileVars, used, gone, crashes, clears, deletes>>

\* A thread whose task is gone still finishes, or fails unnoticed.
OrphanEnds ==
  \E o \in orphans :
    /\ orphans' = orphans \ {o}
    /\ disk' \in {disk, FileAfter(o.kind, o.content)}
    /\ UNCHANGED <<taskVars, cacheVars, ghostVars>>

\* The file operation of a task whose await is cancelled: not yet picked up by
\* the executor and withdrawn, already over, or left running.
Abandon(c) ==
  \/ UNCHANGED orphans
  \/ /\ thread[c].state = "running" /\ thread[c].kind # "load"
     /\ orphans' = orphans \union {[kind |-> thread[c].kind,
                                    content |-> thread[c].content]}

-----------------------------------------------------------------------------
\* The end of replace_and_save: publish, then raise a remembered cancellation.
SaveDone(c) ==
  /\ pc[c] = "saving" /\ thread[c].state = "ok"
  /\ histories' = [histories EXCEPT ![obj[c]] = Published(c)]
  /\ \/ /\ interrupted[c] \/ stage[c] \in {"close", "clear", "stamp"}
        /\ Finish(c)
     \/ /\ ~interrupted[c] /\ stage[c] = "recover"
        /\ AppendUser(c, thread[c].content)
        /\ UNCHANGED <<op, turn, obj, cancels, holder>>
     \/ /\ ~interrupted[c] /\ stage[c] \in {"user", "checkpoint"}
        /\ pc' = [pc EXCEPT ![c] = "running"]
        /\ stage' = [stage EXCEPT ![c] = "none"]
        /\ thread' = [thread EXCEPT ![c] = NoThread]
        /\ UNCHANGED <<op, turn, obj, run, interrupted, cancels, holder>>
  /\ UNCHANGED <<cached, created, loader, fileVars, ghostVars>>

\* An Exception inside the turn: recover again, then leave the lane.
CloseTurn(c) ==
  LET history == histories[obj[c]] IN
  IF NeedsRecovery(history)
  THEN /\ StartSave(c, "close", Recovered(history))
       /\ UNCHANGED <<op, turn, obj, run, cancels, holder>>
  ELSE Finish(c)

\* SessionFileError replaces a remembered cancellation.
SaveFailed(c) ==
  /\ pc[c] = "saving" /\ thread[c].state = "failed"
  /\ IF stage[c] = "checkpoint" THEN CloseTurn(c) ELSE Finish(c)
  /\ UNCHANGED <<cached, created, histories, loader, fileVars, ghostVars>>

LoadFailed(c) ==
  /\ pc[c] = "loading" /\ thread[c].state = "failed"
  /\ loader' = LoaderAfter(c)
  /\ Finish(c)
  /\ UNCHANGED <<cached, created, histories, fileVars, ghostVars>>

\* delete after the unlink: a cached session is evicted.
DeleteDone(c) ==
  /\ pc[c] = "unlinking" /\ thread[c].state = "ok"
  /\ cached' = CacheAfterDelete(c)
  /\ gone' = gone \union Range(UserWords(thread[c].content))
  /\ Finish(c)
  /\ UNCHANGED <<created, histories, loader, fileVars, used, faults, crashes,
                 clears, deletes>>

DeleteFailed(c) ==
  /\ pc[c] = "unlinking" /\ thread[c].state = "failed"
  /\ Finish(c)
  /\ UNCHANGED <<cached, created, histories, loader, fileVars, ghostVars>>

-----------------------------------------------------------------------------
\* The agent run between two checkpoints.

\* The runner appends to its messages and saves a checkpoint: a tool round asked
\* for, its results, or the final reply.
Checkpoint(c) ==
  LET last  == Last(run[c])
      Asked == \E i \in DOMAIN run[c] : turn[c] \in CallIds(run[c][i])
      Answer == IF last.calls # <<>>
                THEN {ToolResult(turn[c], turn[c])}
                ELSE {Assistant(turn[c])} \union
                     (IF Asked THEN {} ELSE {ToolCalls(<<turn[c]>>)})
  IN
  /\ pc[c] = "running"
  /\ last.role # "assistant" \/ last.calls # <<>>
  /\ \E m \in Answer :
       /\ run' = [run EXCEPT ![c] = Append(@, m)]
       /\ StartSave(c, "checkpoint", RunMessagesToHistory(Append(run[c], m)))
  /\ UNCHANGED <<op, turn, obj, cancels, cacheVars, fileVars, ghostVars>>

RunReturns(c) ==
  /\ pc[c] = "running"
  /\ Last(run[c]).role = "assistant" /\ Last(run[c]).calls = <<>>
  /\ pc' = [pc EXCEPT ![c] = "returned"]
  /\ obj' = [obj EXCEPT ![c] = 0]
  /\ holder' = [holder EXCEPT ![obj[c]] = None]
  /\ UNCHANGED <<op, turn, stage, run, thread, interrupted, cancels, cached,
                 created, histories, loader, fileVars, ghostVars>>

\* A provider, tool or context error reaches _run_with_session.
RunRaises(c) ==
  /\ pc[c] = "running" /\ faults < MaxFaults
  /\ faults' = faults + 1
  /\ CloseTurn(c)
  /\ UNCHANGED <<cached, created, histories, loader, fileVars, used, gone, crashes, clears, deletes>>

-----------------------------------------------------------------------------
\* Task.cancel: CancelledError is raised where the task is suspended.  The first
\* one in replace_and_save is remembered, every other ends the operation; none
\* is an Exception, so the turn is not closed here.
Cancel(c) ==
  /\ pc[c] # "idle" /\ cancels[c] < MaxCancels
  /\ IF pc[c] = "saving" /\ ~interrupted[c]
     THEN /\ interrupted' = [interrupted EXCEPT ![c] = TRUE]
          /\ cancels' = [cancels EXCEPT ![c] = @ + 1]
          /\ UNCHANGED <<pc, op, turn, obj, stage, run, thread, holder, loader, orphans>>
     ELSE /\ Finish(c)
          /\ loader' = LoaderAfter(c)
          /\ Abandon(c)
  /\ UNCHANGED <<cached, created, histories, disk, ghostVars>>

\* The process dies and starts again: only the document survives.
Crash ==
  /\ crashes < MaxCrashes
  /\ pc' = [c \in Clients |-> "idle"]
  /\ op' = [c \in Clients |-> "none"]
  /\ turn' = [c \in Clients |-> None]
  /\ obj' = [c \in Clients |-> 0]
  /\ stage' = [c \in Clients |-> "none"]
  /\ run' = [c \in Clients |-> <<>>]
  /\ thread' = [c \in Clients |-> NoThread]
  /\ interrupted' = [c \in Clients |-> FALSE]
  /\ cancels' = [c \in Clients |-> 0]
  /\ cached' = 0 /\ loader' = None
  /\ created' = 0
  /\ histories' = [o \in Objects |-> <<>>]
  /\ holder' = [o \in Objects |-> None]
  /\ orphans' = {}
  /\ crashes' = crashes + 1
  /\ UNCHANGED <<disk, used, gone, faults, clears, deletes>>

-----------------------------------------------------------------------------
\* What a task does by itself once its awaits are over.
Advance(c) ==
  \/ EnterLoad(c) \/ LoadDone(c) \/ LoadFailed(c) \/ EnterLane(c)
  \/ ThreadDone(c) \/ SaveDone(c) \/ SaveFailed(c)
  \/ DeleteDone(c) \/ DeleteFailed(c)
  \/ Checkpoint(c) \/ RunReturns(c) \/ EndTurn(c)

Begin(c) ==
  \/ \E t \in Turns : BeginTurn(c, t)
  \/ BeginClear(c) \/ BeginDelete(c) \/ BeginStamp(c)

Next ==
  \/ \E c \in Clients :
       Begin(c) \/ Advance(c) \/ ThreadFails(c) \/ RunRaises(c) \/ Cancel(c)
  \/ OrphanEnds
  \/ Crash

Spec == Init /\ [][Next]_vars

\* The task's await is over: what it waits for is free, done or has failed.
Ready(c) ==
  \/ pc[c] \in {"running", "returned"}
  \/ pc[c] = "loadWait" /\ loader = None
  \/ pc[c] = "lockWait" /\ holder[obj[c]] = None
  \/ pc[c] \in {"loading", "saving", "unlinking"} /\ thread[c].state \in {"ok", "failed"}

Resumes(c) ==
  /\ Ready(c)
  /\ \E p \in PCs, s \in Stages : /\ pc' = [pc EXCEPT ![c] = p]
                                  /\ stage' = [stage EXCEPT ![c] = s]

\* The event loop resumes every ready task and the executor runs every thread;
\* nothing obliges a client to start an operation, a file or a provider to fail,
\* or anyone to cancel or crash.
Fairness == \A c \in Clients : /\ WF_<<pc, stage>>(Resumes(c))
                               /\ WF_vars(ThreadDone(c))

FairSpec == Spec /\ Fairness

-----------------------------------------------------------------------------
\* Properties.

\* session.lock is the lane of one conversation: whatever the interleaving of
\* gets, loads, cancellations and restarts, at most one task is between its
\* first statement under the lock and its release.
InLane(c) == pc[c] \in {"saving", "running"} \/ (pc[c] = "unlinking" /\ obj[c] # 0)
LaneExclusive == \A c, d \in Clients : InLane(c) /\ InLane(d) => c = d

\* "Atomically save messages, then publish them to the in-memory state": when
\* nobody is in the lane, the cached history is what a restart would load, after
\* failed saves and after cancelled ones too.
MemoryMatchesDisk ==
  cached # 0 /\ holder[cached] = None => histories[cached] = disk

\* recover before a turn: the user message is appended to a transcript whose
\* calls are answered, whose results are declared, and that ends in a reply,
\* however the previous turn or the previous process ended.
TurnOpensOnClosedHistory ==
  \A c \in Clients : stage[c] = "user" =>
    LET before == Front(thread[c].content) IN
    Closed(before) /\ CallsAnswered(before) /\ ResultsDeclared(before)

\* A document that some save wrote can be loaded and resumed: at every moment,
\* between any two steps of a save, its tool results belong to the calls they
\* follow and only its last calls may lack results.
DiskAlwaysResumable ==
  /\ ResultsDeclared(disk)
  /\ \A i \in DOMAIN disk :
       disk[i].calls # <<>> /\ i < Len(disk)
         => disk[i + 1].role = "tool"

\* A deleted conversation does not come back: no user message that a returned
\* delete removed is ever in the document again.
DeletedTurnsStayDeleted ==
  Range(UserWords(disk)) \intersect gone = {}

\* The UI-only timing of a reply stays with the reply while the reply is stored.
Stamped(ms) == {ms[i].text : i \in {j \in DOMAIN ms : ms[j].ui}}
Texts(ms)   == {ms[i].text : i \in DOMAIN ms}
TimingSurvives ==
  [][Stamped(disk) \intersect Texts(disk') \subseteq
       Stamped(disk')]_disk

\* Every operation a task starts comes to its end, and so gives back the lane
\* and the load lock: after failures, cancellations and restarts too.
OperationsEnd == \A c \in Clients : pc[c] # "idle" ~> pc[c] = "idle"

\* The durable conversation as its users see it: it only grows, is closed, is
\* annotated or is erased as a whole.
Log == INSTANCE ConversationLog WITH log <- disk
ImplementsLog == Log!Spec
=============================================================================
