# Bumblehive in TLA+

Bumblehive is an agent SDK (`src/src/bumblehive`) with a conversation server on
top of it (`src/server/src/bumblehive_server`), both in Python on asyncio.
A user message becomes a *turn*: the server's controller queues it and starts a
task, the task leases the one runtime, the runtime takes the lane of the persisted
session, repairs its transcript, and runs a loop of model requests and tool calls
whose events are streamed back while more messages may be steered in. The tools
keep processes, files and connections; the settings page changes the runtime while
all this goes on. This directory holds a model of that, its checks and its proofs.

Contents: [the system](#the-system) · [the modules](#the-modules) · [checks](#what-is-checked) ·
[fairness](#fairness) · [proofs](#what-is-proved) · [findings](#what-the-checks-found) ·
[what no document speaks of](#what-the-models-show-beside-the-properties) ·
[not modelled](#what-is-not-modelled) · [plan](#the-plan)

Run `tlc -config <run>.cfg <MC module>.tla` for a check and
`tlapm <module>_proofs.tla` for a proof. `PROJECT.json` lists the runs, ties every
definition to the source lines it stands for, gives each property a plausible bug
that breaks it, and lists the hazards of the code with the properties that
watch them.

## The system

| component (source) | state | operations | what is hard | what makes it correct |
|---|---|---|---|---|
| conversation controller (`server/chat/session.py`) | queue of pending messages, messages steered into the run, active task, pause/stop/close flags | submit, late answers, notify, steer, remove, run, Stop, close | WebSocket handlers, background reports and the run's own task interleave; a Stop can hit before the task's first step | nothing accepted is lost, repeated or stranded; only users resume; Stop and close end |
| questions (`server/chat/questions.py`, `ask_user.py`) | a Future, a card and a background wait per question | ask, answer, skip, time out, report | an answer racing a timeout, a Stop or the closing | one outcome per question, and it arrives |
| run input queue (`agent/control.py`) | queued input, open flag | steer, drain, close, close-if-empty | input arrives while the final answer is being saved | input is kept and answered |
| tool-calling runner (`agent/runner.py`), executor (`tools/executor.py`) | run messages, checkpoint, batches of calls | iterate, request, execute, checkpoint, conclude | parallel calls, approvals, death between calls and results | checkpoints pair up, serial tools run alone, runs end closed |
| context window and governor (`agent/context/*`) | none, pure | strip, repair, cut, fit | pairs of calls and results must stay together | a trimmed request is legal and no shorter than it must be |
| providers (`providers/*`) | the reply being assembled, the retry loop | request, retry, stream | failure after a delta escaped, interleaved deltas | nothing is shown twice, calls are what was shown |
| session store and lane (`session/*`, `runtime.py`) | cached histories, one lock per session, JSON document | get, append, save, recover, clear, delete, stamp | worker threads outlive cancelled tasks, faults, restarts | one turn at a time, memory follows the file, every turn opens on a closed transcript |
| transcript repair (`agent/context/history.py`) | none, pure | sanitize, drop, merge, orphans, backfill | any prefix of a run may be on disk | the result can be sent to a provider |
| event stream (`observability/streaming.py`, `agent/run.py`) | bounded queue, background task, closed flags | emit, read, close | a full queue, two closers, cancellation inside a gather | in order, complete, the marker comes last, closing ends |
| runtime service (`server/runtime_service.py`) | the runtime, lease counter, lock, map of controllers | startup, lease, settings, MCP and skill requests, delete, shutdown | everybody queues at one lock and can be cancelled there | nobody loses the runtime under its feet, deletions are undisturbed, everything ends |
| background sub-agents (`server/subagents.py`) | table of tasks | start, report, cancel | the parent stops while the sub-agent starts | none is orphaned, the starting call always returns |
| exec sessions (`tools/builtins/shell.py`) | processes, readers, a bounded table | start, poll, write, close | time limits, cancelled starts and closes | bounded, in reach, output once, limits hold |
| file tools (`tools/builtins/file.py`, `patch.py`, `state.py`, `tools/file_changes.py`) | what was read and when | read, write, edit, patch several files | threads of stopped runs, editors outside, a patch failing in the middle | nothing counts as seen that was not; all or nothing; only matches change |
| MCP manager (`tools/mcp/manager.py`), runtime facade (`runtime.py`) | connections, registered tools, sessions, providers | initialize, connect, reload, replace, close | half-done connects, clashing names, failing replacements | tools have a server, nothing leaks, what serves is the file |
| settings (`server/runtime_service.py`, `config/schema.py`, `webui/.../draft.ts`) | file, configuration in use, what clients were shown | show, edit, test, save, restart | clients save what they were never shown | secrets survive and stay with their server |
| skills (`skills/*`, `server/skill_uploads.py`) | installed directories, cached list | upload, install, replace, remove, list | rollback, a list taken meanwhile | all or nothing, the list is true |
| everything else | | | | see [what is not modelled](#what-is-not-modelled) |

How they interact:

* The controller's task calls `stream_turn`, which takes a **lease** from the
  runtime service, opens an **event stream** over `runtime.stream`, tells the
  controller that the stream is ready, and reads events until the end marker.
* The stream's background task runs `_run_with_session`: it takes the session's
  lock (the **lane**), recovers, appends the user message, and runs the
  **runner**, whose checkpoint callback saves through the session manager.
* The runner fits its messages to the **window** and sends them through a
  **provider**, whose deltas go to the event stream as they come.
* `steer` goes from the controller through the stream into the run's **input
  queue**; what the run leaves there comes back through `take_pending`.
* A tool may ask a **question**, whose late answer becomes a message of the
  controller and whose report comes through its `notify`; so does the report of a
  **sub-agent**, which has a lease and a session of its own.
* Settings changes, deletions and the shutdown meet the leases at the service's
  **lock**. A settings change builds a runtime with its tools, connections and
  sessions, and closes the one it replaces.

## The modules

One action is what one task does between two suspension points: asyncio runs
nothing else meanwhile. Worker threads, processes, the provider and clients act in
steps of their own. A cancellation is a request that the task meets at its next
suspension point. Modules are composed where one's steps are another's
(`Questions` on `SessionController`, `ModelStream` on `ContextWindow` on
`Transcript`, `FileTools` on `TextEdit`); independent ones are only put side by side
in an MC module, to be checked in one run.

**Transcript** (operators, no state). A message is a record of its role, its words,
its calls, the call it answers and three flags; that is all `history.py`
looks at. The five repair stages and `recover`'s closing reply are operators
composed as in the code, next to reference notions (`CallsAnswered`,
`ResultsDeclared`, `Closed`) that are defined independently of them.

**SessionManager** with **ConversationLog**. The clients are tasks that run turns,
clear, delete or stamp one session id. `pc` and `stage` say where a task
waits: for `_load_lock`, for a load thread, for the session's lock, for a save
thread, for the model. `thread` is the worker thread a task awaits and `orphans`
the threads nobody awaits any more; `histories` and `holder` belong to
`SessionState` objects, of which `cached` is the one in the cache (a deleted object
may still be held by a waiting task). `disk` is the document; a save replaces it
at once (`os.replace`). `Crash` forgets everything but `disk`.
`ConversationLog` is what the sessions promise: a log that is extended, closed,
annotated or erased, never rolled back.

**ToolCallingRunner**. One run of `_run_iterations`: the start of an iteration
(drain input), the model's answer (any number of calls up to a bound, each
parallel-safe or not, a reply or an error), the batches (`left` are the calls that
have not been taken, `HeadBatch` those that are taken together), approval,
refusal, execution and completion of each call in any order, the checkpoints
before and after the calls, the conclusion (close the input unless some
arrived), the limit of iterations, exceptions and cancellation at every
suspension. `messages` are the run's, `saved` the last checkpoint.

**SessionController** and **Questions**. The queue of one conversation with its run
reduced to a phase (`created`, `starting`, `running`) and its input queue. Each
section under the controller's lock is one action, because none of them suspends
(`publish` only puts into unbounded queues). `waiting` stands for the Stops that
wait in `gather` for the task. The ghosts `accepted`, `removed` and `delivered` say
what became of each message. `Questions` adds the life of a question: `stage` says
who waits for the answer (the run, a background task, nobody any more), `future`
what has come in, `cards` what clients are shown. An `Answer` is a `SubmitAnswer` of
the controller when nobody waits, a `Reported` its `Notify`; the run cannot drain or
end while a question of it waits. `reply` and `told` are histories: what the user
said and what the model was told.

**EventStream**. The producer (`_run_background` around the run), the bounded queue,
a reader, and a second task that may close the stream; `pc` says where reader and
closer wait. A cancellation inside `await asyncio.gather(task)` cancels the
producer again and goes on waiting, which is what asyncio does.

**RuntimeService**. One task per turn, sub-agent, deletion and settings request,
plus the lifespan task, around `_lock`: an `asyncio.Lock` hands itself to its
first waiter and lets nobody past it, so the model keeps the queue of waiters.
`Leased` are the tasks inside a lease, `active` the code's counter.
`mapped` is the map of controllers, `_session_controllers`, and `ctrl` what the clients of a
conversation are connected to: nothing, an open or a closing controller. The two differ
when a client opens a conversation while it is being deleted: the deletion drops the
controller it then finds in the map, and the client keeps it. `missed` remembers the
deletions whose conversation has a turn they do not close. The sub-agents have the future `ready`, the state `starter` of the tool call that
started them, and the table `registered`. The lease of a task that is cancelled
*in the queue of the lock while it gives the lease back* is counted in `lost`.

**RuntimeTools**. What a runtime owns: `rt[r]` has its configuration, the connections
(`stacks`, as named in the manager's table), the tools each registered (`regs`) and
those in the registry (`tools`), and the state of its exec sessions and providers;
`open[r][s]` counts what is really open. Operations (startup, update, test, reload of
one or all, a library run, closing) step from one await to the next: connect, list,
register, unplug, close. A connect, a listing, a close and the writing of the file
may fail, and any await may be cancelled.

**ContextWindow** and **ModelStream**. The pure functions of `governor.py` and
`window.py` on the messages of `Transcript`, in units of a word, an id or the cost
of a message; then one model call: request, attempts with their retry delays,
chunks, deltas that wait for the callback (`emits`) and those it has shown, the
accumulator and its end. The service at the other end is external: any chunk, any
exception, at any time.

**ExecSessions**. `ses[s]` is a process with its `ExecSession`: whether it runs, was
signalled, is being closed, what it wrote (in chunks: `pipe`, `buf`, `drop`, `told`,
`lost`), its timer. `task[t]` is a tool call or a closing manager and where it waits;
`table` is the manager's and its lock belongs to one start at a time. `kids` are
processes that keep a pipe open after their parent has ended.

**TextEdit** and **FileTools**. `TextEdit` has the pure part: matching (exact, then line
by line without blanks), `occurrence`, `line_hint`, `replace_all`, reindentation, line
ends, the edits of `apply_patch`, windows of lines and pages. A text is a sequence of
letters, blanks and line ends. In `FileTools` a call runs in a thread: look at the disk,
look at the notes, write, take a note, answer; `disk[p]` counts the writes to a file as its
mtime, `notes` are the `FileStates` objects and `store` says which session has which.
Behaviours start from a `script`: the files, the calls, and how often an editor outside,
a failing write or a Stop may come in.

**Settings**. The file, the configuration in use, and for each client the page it was
`shown` and its `draft`. JSON objects are functions on the keys they have, so that a
missing key, `null` and an empty value differ as in the code. Saving is a merge, a
restoration of what was not shown, a validation and a write, and the runtime in use
follows; the process may stop in between and start again.

**Dicts** has the one operator on dictionaries both this module and the next need, `Updated`
(`{**d, **new}`).

**Skills**. Uploads are sequences of archives, archives sequences of entries; the checks
of `skill_uploads.py` decide where each is refused. An installation moves old packages
out and new ones in, one move at a time, each of which may fail, and then moves back;
the list of skills is kept with the files it was made from and may be taken by the
settings page between any two moves.

**MCSessionController, MCTools, MCModelStream, MCRuntimeTools** have a variable `focus`
chosen in the initial state and never changed: it names which part of the instance
varies in a behaviour, so that the sizes of the parts add up instead of multiplying.
The other MC modules only name constants and symmetries.

## What is checked

| run | module | question | bounds |
|---|---|---|---|
| `chat_queue` | MCSessionController | nothing lost, stranded, reordered or resumed by itself; Stop, close and the queue make progress; a question has one outcome and it arrives | 3 messages and a report; or 2 messages and a question; or a message and 2 questions |
| `run_tools` | MCToolCallingRunner | checkpoints pair, serial tools alone, input kept, closed endings, termination | 2 iterations, up to 3 calls, 2 steered messages |
| `model_call` | MCModelStream | the request is legal and as long as it may be; a reply is shown once, its calls are what was shown | 9 windows, up to 3 turns; 4 chunks of an attempt, 1 retry |
| `session_lane` | MCSessionManager | exclusive lane, memory equals file, turns open on closed transcripts, refinement of the log | 2 tasks, 3 turns, 1 clear, 1 cancellation per operation, 2 faults, 1 restart |
| `session_faults` | MCSessionManager | any document left behind can be resumed; every operation ends | 2 tasks, 2 turns, 1 delete, 2 cancellations per operation, 1 fault |
| `stream_order` | MCEventStream | order, completeness, marker, closed input, closing and waking | queue of 2, 5 events, 2 cancellations of closers |
| `runtime_service` | MCRuntimeService | leased runtime stays, nothing outlives what ended it, everything ends | 2 conversations, 1 sub-agent, 2 deleting and 1 settings task, 3 requests, 2 runtimes |
| `builtin_tools` | MCTools | processes bounded and in reach, output given out once, calls end; nothing unseen is taken as seen, patches are whole, edits touch only matches | 2 conversations, 1 closer, 2 commands for a table of 1, or 1 with a time limit, a buffer of 1 chunk and 2 chunks; 2 calls, 1 cancellation; texts of up to 4 tokens, up to 3 calls on 2 files, 2 failing writes |
| `runtime_tools` | MCRuntimeTools | tools have servers, nothing leaks, what serves is the file; secrets kept; skills all or nothing | 2 tasks, 2 servers with clashing tools, 3 runtimes, 3 operations, 2 faults, 1 cancellation; 2 clients, 2 saves, 2 edits; 2 skills, 15 uploads, 2 operations, 2 faults |
| `session_delete_race`, `session_timing`, `file_dedup` | | expected violations, see [findings](#what-the-checks-found) | as small as the counterexample |

Why the bounds are enough: every protocol here is about a task and whoever
comes at it from outside, so two tasks with one interloper of each kind show each
pair of steps in both orders. Three turns let one turn open on what the second
left behind while the third waits. A queue of two with five events is full, empty
and half-full at every kind of closing. Three calls make a parallel batch, a
serial call between parallel ones, and two batches. Two iterations give a
checkpoint before, between and after calls and the limit. Three messages are one
that runs, one that is steered and one that overtakes it; two questions can be open at
once, one in the background and one in the foreground. In `runtime_service` a
contended release needs a settings request and two waiters; a turn that loses its runtime
needs a deletion, the conversation opened again and the shutdown; and with two deletions
the second one misses the turn of the controller the first has dropped. A table of one is full with the first command and lets the second meet
its cleanup; a buffer of one overflows with the second chunk. Four chunks interleave
two calls and cut one of them; the nine windows leave room for nothing, for the last
message, for parts of turns and for all. Texts of four tokens hold two matches of one
letter with a blank, a line end or nothing between, at either end. Two saves of two
clients show a stale page and a restart between; two skills make an installation
fail with one package in place and one not. The uploads have one archive of each kind
the checks refuse.
The ghosts that count bounded events (`cancels`, `faults`, `crashes`, `requests`,
`interrupts`, `ops`, `saves`, `edits`, `jobs`) appear only in guards.

Deadlock is checked for `chat_queue` and `runtime_service`. It is not for the others:
a finished run, a closed stream, a finished script and a session whose turns are
used up really stop.

What the less obvious properties say:

* `OneOutcome` speaks of what the model is told: a result, a message or a report, once,
  or "pending" and then a report, and never a skip for an answer that was accepted.
  `OutcomeArrives` is its other half; only a Stop that finds the answer already
  accepted loses it (stage `lost`).
* `NothingLost` is what the count arithmetic of `_restore_unconsumed` is for;
  `FollowUpsInOrder` quantifies over the queue at the moment a run continues, also
  when restored steering was merged back between younger messages.
* `KeepsAllThatFits` compares trimming with the longest tail that fits, found by trying
  them all. Calls that share an id are outside of it and of `RequestLegal`.
* `MemoryMatchesDisk`: whenever nobody is in the lane, the cached history is what a
  restart would load. It holds through failures and single cancellations because
  `replace_and_save` waits for its thread under a shield.
* `DiskAlwaysResumable` needs no such care: whatever abandoned thread writes last,
  the document is a well-formed prefix.
* `ImplementsLog` is the refinement: with `log <- disk`, each step of the manager is
  an extension, a closing, an annotation, an erasure, or a stutter.
* `ClosesUnlessReporting` is the strongest termination of `aclose` that the code has.
* `LeasedRuntimeStays` also says how far `_active_runs` can be off: by the leases whose
  holder was cancelled in the queue; and that the shutdown, which goes by the map, takes
  the runtime from a turn whose open controller a deletion has dropped, and from its
  sub-agents, and from nobody else. A settings change takes it from nobody at all.
* `NothingOutlives` is about every deletion but those that `missed` a turn: it was started
  after the deletion began, or was under way with a controller an earlier one had dropped.
* `TextsExact` is about the pure functions. It states the outcome of an edit without its
  algorithm: some set of matches, chosen as asked, replaced by texts that say `new_text`,
  the rest as it was (matches that touch each other are left out); and it follows
  `next_offset` and `next_pages` to the end of a file.
* `NothingUnseen` and `PatchAllOrNothing` except calls whose files somebody else wrote
  between two of their looks (`disturbed`).
* `SecretsKept` speaks of servers the update can tell: by their name, or by their place if
  the name is new.

## Fairness

* The event loop resumes a task that can go on, and the executor runs the threads
  it was given: weak fairness of those steps, in every specification with liveness.
* The provider answers (its client has a timeout), tools and approvals end:
  assumed in `ToolCallingRunner` and, as the end of a run, in
  `SessionController`, whose run is bounded by `max_iterations`. A tool that waits
  forever for an approval would hold the queue, until a Stop.
* In `Questions` a waiter wakes up when its time is up, or earlier: both waits of
  `questions.py` have a timeout.
* In `ExecSessions` signalled processes die, timers expire and a spawn succeeds or fails;
  nothing makes a process write, read or exit. `ExecEnds` therefore speaks of
  calls on commands without a time limit only as far as they do not depend on it.
* `RuntimeService` assumes less: a run need not end by itself, only when it is
  cancelled, so its termination properties hold with runs that never finish. One weak
  fairness condition on all steps that go on by themselves (`Progress`) is enough,
  as clients make finitely many requests.
* Never assumed: that clients act, that anything is cancelled, fails or crashes,
  that a reader that holds an event asks for the next one.

## What is proved

TLAPS proves, for every value of the constants that satisfies the named
assumptions:

| theorem | module | property |
|---|---|---|
| `TurnsOpenClosed`, `DocumentResumable` | SessionManager_proofs | `TurnOpensOnClosedHistory`, `DiskAlwaysResumable` |
| `LaneIsExclusive`, `PublishedIsStored`, `DocumentIsLog` | SessionManager_proofs | `LaneExclusive`, `MemoryMatchesDisk`, `ImplementsLog` |
| `NothingIsStranded`, `OnlyUserResumes`, `EveryMessageKept`, `OldestRunsNext` | Questions_proofs | `HeldOrRunning`, `ResumedByUser`, `NothingLost`, `FollowUpsInOrder` |
| `QuestionsStrandNothing`, `OnlyAnswersResume`, `QuestionsLoseNothing`, `OneOutcomeHolds` | Questions_proofs | `HeldOrRunning`, `ResumedByUser`, `NothingLost` with `FollowUpsInOrder`, `OneOutcome` |
| `DeliveryHolds`, `MarkerMeansDone` | Streams_proofs | `Delivered`, `EndMeansDone` |
| `RequestsAreLegal`, `ShowsOneAttempt`, `CallsAreWhole` | Streams_proofs | `RequestLegal`, `ShownOnce`, `CallsAssembled` |
| `RunIsTyped`, `CheckpointsPair`, `RunsEndClosed`, `SerialAlone`, `SteeredInputKept` | ToolCallingRunner_proofs | `TypeOK`, `SavedPairs`, `EndsClosed`, `SerialToolsAlone`, `InputKept` |
| `LeaseKept`, `QuietEnds` | RuntimeService_proofs | `LeasedRuntimeStays`, `NothingOutlives` |
| `CommandsHeld`, `OutputGivenOnce` | BuiltinTools_proofs | `ProcessesHeld`, `OutputAccounted` |
| `PatchesWhole`, `NothingIsUnseen` | BuiltinTools_proofs | `PatchAllOrNothing`, `NothingUnseen` |
| `ToolsAreBacked`, `NoneLeaks`, `FileIsServed` | RuntimeTools_proofs | `ToolsBacked`, `NothingLeaks`, `ServesTheFile` |
| `SecretsSurvive`, `InstallsWhole` | ServerData_proofs | `SecretsKept`, `InstallAllOrNothing` |

**Sessions, transcripts.** What a turn opens on and what a restart finds is proved for any
tasks, turns, deletes, faults, cancellations and restarts. `ShapeInv` says of every stored
history, cached or on disk, and of every save under way, that it is a `Conversation`: a turn
is a user message, at most one call with its result, and a reply, may stop anywhere but lets the
next one begin only behind a reply, and no two are alike (`Order`, `Distinct`); that only turns
that began have spoken in it (`Known`, with `Spoken`); and of every run that it goes on
from such a history (`Works`, `Carries`). Then the repair is proved to close a conversation and to leave a closed one
alone, stage by stage (`NothingMerged`, `Backfilled`, `Repaired`, `RecoveredRestored`). The stages
are folds and flattenings; what they compute on a conversation is found by the position
at which a statement would fail first (`Least`, `UpTo`, `AtAll`), which replaces induction.
Of other transcripts the manager stores none; what the repair makes of those a call may
start from is proved with the model call.

**Sessions, lane.** Assumed: no deletes (`MaxDeletes = 0`) and at most one cancellation per
operation (`MaxCancels <= 1`); `session_delete_race` is the reason for the first, an
abandoned save that lands later the reason for the second. The invariant adds to
`LaneExclusive` and `MemoryMatchesDisk`: `OneObject` (every task that obtained a session holds
the cached object), `LockedLane` (whoever is inside the lane is the lock's holder),
`OwnThread` (what a task awaits is its own thread, and nobody else's save runs),
`NothingDeleted`, and `FileInStep` (while a save is in flight the document is the old history
or the new messages, according to the thread's state). Memory and file alone are not
inductive: between the thread's `os.replace` and the publication they differ, and only the
holder of the lock may be in that state. `ImplementsLog` needs in addition what the save
under way does to the document (`Moves`: it extends, closes, stamps or empties it) and
that a run has what is stored (`LogOf`); every step is then a step of `ConversationLog` or
leaves the document alone (`LogStep`). The operators of `Log!` are those of the manager,
which takes a lemma each (`LogRepair` and those before it).

**Controller.** `HeldOrRunning` needs "idle with pending messages implies
paused", "stopping implies paused", "closing implies paused once stopping is over",
and "stopping exactly while some Stop waits"; each is needed by another: the
restored queue of a stopped run is not stranded because the Stop paused it, and
it stays paused because what arrives meanwhile is held back. `NothingLost` and
`FollowUpsInOrder` need more (`QueueInv`): the queue is sorted by the numbers the
messages were given, no two share one, the run's input is the end of what was steered
into it, what a run takes off that input is what its start of `steered` says, and
every message accepted is in one place. The hard step is `_restore_unconsumed`, which
tells what was consumed by a count and merges the rest back by number. The model
states its two list operations by what they return, the queue without what was taken
and the two lists in the order of their numbers, so that the lemmas about them are
about positions and not about a recursion.

**Questions.** `StepsAreControllerSteps` is the refinement: with questions, every step is
one of the controller's or leaves it alone, so the controller's theorems hold.
`OneOutcome` is not inductive: that an answer in the background is reported as it was
given needs what each stage says of the Future, the card, the reply and the messages to
the model (`Staged`). The foreground stage says in addition that the run is in the
question, and is already cancelled if a Stop is under way, or a second outcome could
come from an answer that overtakes the Stop; `StepsAreSteady` shows that no other step
takes the run out of it. Steps on one question leave the others alone (`OnlyOne`).

**Event stream.** The contents of the queue have one of two shapes: `Flowing`, the events
after the last received up to the last emitted, or `Marked`, the same followed by
the end marker, and the second only when the producer is done. Lemmas say
that append and tail keep the shapes; order and completeness are read off them
until a close discards events, when the reader can be given no more.

**Model call.** `ShownOnce` is made inductive by what the callbacks have not been given yet.
`Follows`: what was shown and what is still to be shown are together what the chunks of this
attempt say. `Heard`: kind by kind, the words shown and the one delta that may be
waiting are the text of the accumulator. `Stages`: an attempt that is repeated has shown
nothing, so the next starts like the first. A flattened sequence is followed step by step by a
witness for its partial results (`Joined`), again in place of induction.
`CallsAssembled` adds `Gathered`: at every index the buffers hold the arguments, joined,
of the deltas of that index and a name and an id that one of them gave, and no buffer is
unnamed whose deltas gave a name. A delta reaches the buffers with its chunk and the
callbacks one by one, so `Gathered` speaks of `shown \o emits`. At the end the calls are
numbered by position among the named indexes (`Assembled`). Assumed of the service: a
chunk has a text of each kind and a list of call deltas, any of them empty, whose indexes
are natural numbers or missing, and `None` is no error code (`StreamAssumption`).

`RequestLegal` needs no induction over the steps but over the messages: what is sent is
`PrepareForModel` of the history the call began with, so the proof follows one pipeline.
`Sound`, which says that a result stands behind its call and behind other results only
(`InPlace`), that no id names the calls of two messages (`Apart`) and that no call is without
an id (`Named`), holds of what is left when messages are dropped or their texts changed
(`Thins`, `ThinsSound`), which covers sanitizing, merging, cutting and each tail that trimming
keeps (`FromSound`, `TailSound`), and of system messages put in front (`SystemInFront`). What
`DropOrphanToolResults` leaves is `Declared`; a backfill puts every message at the head of a list
of results (`Headed`, `Trailing`, `Supplied`), and laying the lists one behind the other makes a
legal request (`FilledLegal`). `RepairLegal` states that of the repair alone. The loops are
followed by witnesses for their partial results (`Recurrence`, `AtPicks`, `FlattenLaid`).
Assumed: a run's messages are messages (`Messages`), when no id names two calls
the results of a call stand behind it (`HistoriesAssumption`; the runner appends them before
anything else), and the limit of a result is a natural number (`ResultLimitAssumption`; the
code raises for others).

**Runner.** Messages are closed (`Pairs` with no call open) at all times but
between the checkpoint of the calls and the results, when exactly the last message
is open; the results of a batch follow in the order of the calls. With that,
`saved` pairs up as a former value of `messages`, and the endings are closed.
`SerialToolsAlone` follows from `BatchInv`: calls leave in order, what has left is
settled, what is behind the head batch waits, and a head batch with a serial call has
no other. `InputKept` follows from `InputInv`: the steered messages in the
conversation and those in the queue together are the accepted ones, and as many,
so none is there twice. Assumed: no steered message is the task itself
(`InputsAssumption`).

**Service.** Assumed: a task is of one kind. What is inductive: the lock is kept across steps exactly by the request that
builds or reworks a runtime (`LockKept`); the counter is the number of tasks inside a
lease and of the leases that were lost, and nobody is inside one while the lock is
kept (`LeasesCounted`); whoever is inside a lease works on the current runtime as long as
there is one, and a request that closes one closes another (`CurrentOpen`); a turn under way
has an open controller, or a deletion has closed it and waits for the turn, and a sub-agent
is in the table (`TurnsKnown`, `ChildrenKnown`); and what each step of a deletion
that `missed` nothing, and of the shutdown for the controllers it found, has ended
(`Deleting`, `ShuttingDown`). The last two are what both theorems come down to: that all are
gone at the end depends on nobody starting anything between two of those steps, and the
turns of which somebody could are just those the exceptions name.

**File tools.** `PatchInv` follows one patch: the texts to write are what the edits so far
make of the files it found (`Prepared`), no file has changed before the first write
(`Untouched`), what was put aside is what it found (`Backed`), the files it has written say
what they should (`Filled`), and a restore has put back those behind it (`Returned`); each
only while no other writer has `disturbed` the call. For that,
`EditedTo` is a recursive function whose value at each edit follows from the one before
(`EditsOne`). `NotesInv` is about the sessions: an object of notes belongs to one session, in
the store and in every call that holds it, also after the store dropped it and the session
got another (`OneSession`); each note in it is one that a call of this session took
(`ReadNoted`), each entry of the cache is of a read of this very range, and of what that read
returned unless somebody wrote the file in between (`CacheNoted`). A call knows from them what
it has not itself done: `Own` says what, from the check of an edit to its load, and from the
answer of a read to its note. Assumed of a script: a file that is not there says nothing,
calls name files of the script, a patch has edits, and reads of one path go through one
tool, which the suffix of the file's name decides (`ScriptsAssumption`).

**Exec sessions.** A command that nobody has signalled is in the table, in the hands of
a call or of a closing, or in a closing that was cancelled (`WithinReach`); for that the
invariant says who has which session (`OwnSession`, `ClosersClose`), that the
manager's lock is kept from the count of the table to the new entry (`RoomKept`), and
that a kill that began has signalled the group (`Signalled`). The pieces of output
add up by `Balanced`; that none is lost before any cancellation or closing is
`Undisturbed`, which says that nobody takes a session from a call that works on it.
The steps are sorted by what they do (a session changes, calls move on, one call goes
elsewhere), with one lemma for each kind.

**Runtimes.** One task works on a runtime at a time (`Apart`): the one that builds it,
the holder of the lock, or the one that closes it after it was replaced, and
the lock is held whenever the runtime serves or is to serve (`Locking`). Hence a step on
one runtime leaves the others as they were (`Local`), and what is left is to
follow one runtime: its tools are those of the servers in its table, whose names do not
clash (`ToolsOf`); every server is open as often as the table and the operation at
hand say (`Connections`); what an operation has still to close is what it found in
the table (`Agenda`); a runtime left alone is closed (`Ended`). `open` can exceed
`Held` only in a runtime that lost track of a connection. Assumed: a configuration names
a server once.

**Skills.** Most of `SkInv` is where each package is while an installation goes on, or back:
what is done is in its new place, what is not in its old one, the one at hand in
neither (`Placed`, `World`), every package that was replaced is among the backups (`Backups`), and what
was done and what is still to do are all there is (`Progress`). `CacheInv` is about the kept
list: it can be stale only if the settings page began a list during an operation that
then failed. `Goal` ties the packages to the archives: `_find_skill_roots` goes from
outer directories to inner ones, and takes exactly those that lie in no other
(`SkillRootsIs`, again by the least depth at which it would fail). Assumed: `"none"` is no
skill's name (`SkillNamesAssumption`), and entries have paths of names (`UploadsAssumption`).

**Settings.** `SeInv` says that the file, loaded, is what is in use; that the page of a client who
saw the latest update shows that, and each server of its draft the place it came from; and of
an update under way what it is going to write. The rest is about data: loading what was
saved gives it back (`LoadedIs`), a merge keeps a section's keys that were not sent
(`MergedIs`, `KeyKept`), and an empty header of a server that can be told has one server it can
stand for (`NamesakeIs`, `RestoredMeant`). Assumed: `null` is no object or list
(`NullIsPlain`, a hypothesis of the theorem, as it quantifies over all functions) and no list
that is in the file at first or that an API client sends has a name twice, and the file
is one that loads (`ServersAssumption`). The code does not reject a repeated name in the file;
the web UI does, and the MCP manager has one entry per name.

Conventions: the invariant of a module is the conjunction of the named parts it is
explained by, and was checked as an invariant of a run first. A step lemma per action
ends in `...Keeps`. In modules with theorems a field of a function's entry is updated as
`[f EXCEPT ![t] = [f[t] EXCEPT !.a = x, !.b = y]]`, and without a nested `@`:
the prover misreads several updates of `f` at one `t` inside a single EXCEPT.

Left to TLC, and why:

* liveness and fairness, which this prover does not reach;
* `KeepsAllThatFits`, which compares sums of estimates over whole transcripts, of any length,
  and needs a repaired part of a repaired transcript to stay as it is, which holds where no
  orphan result stood between messages of one author;
* the repair of transcripts in which two calls share an id or a result strays from its call;
* `TextsExact`, which speaks of the texts the functions of `TextEdit` compute by folds over
  lines and matches; the theorems about files hold whatever these return.

## What the checks found

Three runs end in a violation of what the source or its documentation says:

1. `session_delete_race`: a turn waiting for the lock of a deleted `SessionState`
   saves the deleted history again ("Delete one persisted session and evict its
   cached state").
2. `session_timing`: the recovery before the next turn strips the UI metadata and
   with it the stored duration of the previous reply ("Store UI-only timing").
3. `file_dedup`: `read_file` takes its note of a file after it read the text it returns,
   and from the thread of a stopped run too; the next read is told "file range already
   read" of a text that was never shown.

## What the models show beside the properties

The properties are as strong as the code lets them be; each exception in them is a
behaviour of the code a reader may want to know of.

* *Sessions*: a second cancellation during `await save_task` abandons a save that still
  lands; memory and file then differ until the next save.
* *Stream*: a run that fails while it is being cancelled reports the failure into a full
  queue, and `aclose`, which empties the queue only after the run has ended, does not
  return.
* *Service*: a task cancelled in the queue of the lock while it gives its lease back
  never does; every later settings change is refused as busy. A conversation a client
  opens while it is being deleted loses its place in the map when the deletion ends
  (`delete_session` pops whatever controller is there). Its turn goes on, may work on the
  session while it is deleted, and nothing that goes by the map finds it any more: a later
  deletion does not stop it, and the shutdown takes and closes the runtime it leases, though
  runs are to be finished or cancelled before a runtime is left
  (`docs/zh/reference/runtime.md`, line 84). A failing deletion keeps the closed controller, which refuses
  messages until the deletion is repeated.
* *Questions*: an answer accepted just before a Stop, which the run has not woken up
  for, reaches nobody. Two questions with one task id overwrite each other's card.
* *Exec sessions*: output can still arrive after a poll said that the command is done; a
  closing that is cancelled leaves its session marked closed with the process
  alive; a Stop during the two seconds in which the readers are joined cancels them;
  `close_all` ends at the first close that raises.
* *File tools*: `apply_patch` writes files that had CRLF with LF, and a change of line ends
  alone is not reported; `edit_file` counts matches that do not overlap while
  `apply_patch` refuses overlapping ones; trimmed matches that overlap are all replaced
  under `replace_all`; a deletion takes along the line end, and adjacent deletions may
  take more than one; a trailing line end in `old_text` of a trimmed match leaves a
  blank line and skips the reindentation.
* *MCP*: a cancelled listing forgets its open connection.
* *Transcript*: the ids a backfill has answered are collected over the whole
  transcript, so a second call with an id of the first (services without ids all
  get `call_0`) counts as answered. One repair is not always the last: two messages of
  the user that an orphan result stood between are merged by the second repair of the
  same call, so the request may say the same in fewer messages than the budget was
  computed for.
* *Settings*: a renamed server is told by its place only; removing one and renaming the
  next in the same save, or giving one the name of another, hands over header values.
  A provider type of `null` is loaded as the text `None`.
  Saving the page drops `tool_timeout` and `enabled_tools`. Of two stale pages the last
  one saved wins.
* *Skills*: a rollback that fails gives up, and the cleanup of its directory deletes the
  packages not yet moved back; a process that is killed between the two moves leaves
  the old package in the hidden directory only; a list taken during a failing
  installation may be kept until the next reload.

## What is not modelled

* Pure text and formats: prompts and context building, request and frame formats,
  search, rendering of skills, parsing of front matter, logging, the console.
* The front ends (TypeScript, Rust), but for the draft of the settings page: they are
  the clients of the modelled protocols, and act in the models as arbitrary clients
  that send each message once. A message id that is sent again after its first copy was
  consumed is accepted a second time by the code; the models leave it out.
* Which calls need an approval, and the frames of one: a decision does not suspend, so
  that the first one counts; the wait itself is in `ToolCallingRunner`.
* Times: a timeout, where modelled, is an event that may happen at any moment.
* `list_models`, which works on objects of its own.
* The shell's choice, environment and deny patterns; symbolic links; curly quotes in
  texts; the order of packages in an archive.
* The turn as a whole: the controller's `ready` and the lane's `append_user` are in two
  modules, so the message a Stop meets between them (it is in neither queue nor
  transcript) is listed as a hazard without a property.
* A second turn of a conversation at one time: the controller a client opens in place of one
  that a deletion has dropped could run a turn beside that of the dropped one. In
  `RuntimeService` a conversation has one turn at a time, and one `ctrl` for both.
* Threads of tools that outlive a cancelled `gather`, except those of the file tools.
  The thread of a cancelled skill operation, which works on after the lock is given back:
  the web framework does not cancel the handler of a plain request.
* A forced exit of the server, except where `SessionManager` and `Settings` restart.
* Components listed in `PROJECT.json` as `not_modelled`, each with its reason.

## The plan

What is left, in this order:

1. **The lane** with deletes, under a guard that excludes the race.
2. **Turn**: runner and lane composed (checkpoint as the lane's save), controller
   and lane composed (a Stop between `ready` and `append_user`).
