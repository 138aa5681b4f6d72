---------------------------- MODULE RuntimeService ----------------------------
(***************************************************************************)
(* The server's one runtime and everybody who uses it: runtime_service.py  *)
(* with its background sub-agents (subagents.py).                          *)
(*                                                                         *)
(* Turns, sub-agents and deletions lease the runtime; settings changes     *)
(* replace or rework it, only while nobody leases it; a shutdown stops     *)
(* every user before it closes it.  All of them meet at one asyncio.Lock,  *)
(* which hands itself over in the order of arrival and from which a        *)
(* waiting task can be cancelled.                                          *)
(***************************************************************************)
EXTENDS Naturals, Sequences, SequencesExt, FiniteSets

CONSTANTS
  Chats,        \* conversations; each name stands for the task of its turn too
  Children,     \* sub-agents the turns may start
  Deleters,     \* requests that delete a conversation
  Admins,       \* requests that change settings, MCP servers or skills
  Service,      \* the lifespan task: startup and shutdown
  None,
  MaxRequests, MaxRuntimes    \* bounds of the model

Leasers == Chats \union Children \union Deleters
Tasks   == Leasers \union Admins \union {Service}

ASSUME RuntimeAssumption ==
  /\ None \notin Tasks
  /\ MaxRequests \in Nat /\ MaxRuntimes \in Nat \ {0}

\* A task is of one kind.
ASSUME KindsAssumption ==
  /\ Chats \intersect Children = {} /\ Chats \intersect Deleters = {}
  /\ Children \intersect Deleters = {} /\ Leasers \intersect Admins = {}
  /\ Service \notin Leasers \union Admins

VARIABLES
  holder, queue,   \* _lock: who keeps it across steps, and who waits for it
  runtime,         \* _runtime: the number of the current runtime, or 0
  created, shut,   \* runtimes made so far, and those that were closed
  active,          \* _active_runs
  lost,            \* ghost: leases whose holder was cancelled giving them back
  pc, uses,        \* of each task: how far it is, and the runtime it works on
  cancels,         \* tasks asked to cancel that have not been resumed since
  mapped,          \* _session_controllers: conversations that have an entry
  ctrl,            \* of each conversation's controller: none, open or closing
  parent, ready, starter,   \* of each sub-agent; `starter` is the tool call
  registered,      \* SubagentTasks._tasks
  target, awaited, \* what a deletion or the shutdown deletes, and waits for
  missed,          \* ghost: deletions whose conversation has a turn they do not close
  requests         \* messages, deletions and settings requests so far

lockVars  == <<holder, queue>>
rtVars    == <<runtime, created, shut>>
leaseVars == <<active, lost>>
childVars == <<parent, ready, starter, registered>>
ctrlVars  == <<mapped, ctrl>>
waitVars  == <<target, awaited, missed>>
vars == <<lockVars, rtVars, leaseVars, pc, uses, cancels, ctrlVars, childVars, waitVars, requests>>

Init ==
  /\ holder = None /\ queue = <<>>
  /\ runtime = 0 /\ created = 0 /\ shut = {}
  /\ active = 0 /\ lost = 0
  /\ pc = [t \in Tasks |-> IF t = Service THEN "starting" ELSE "idle"]
  /\ uses = [t \in Tasks |-> 0] /\ cancels = {}
  /\ mapped = {} /\ ctrl = [s \in Chats |-> "none"]
  /\ parent = [c \in Children |-> None] /\ registered = {}
  /\ ready = [c \in Children |-> "unset"] /\ starter = [c \in Children |-> "none"]
  /\ target = [d \in Deleters |-> None]
  /\ awaited = [t \in Deleters \union {Service} |-> {}] /\ missed = {}
  /\ requests = 0

Serving == pc[Service] = "up"
Request == Serving /\ requests < MaxRequests /\ requests' = requests + 1
Over(t) == pc[t] \in {"idle", "done"}
Goes(t, to) == pc' = [pc EXCEPT ![t] = to]

-----------------------------------------------------------------------------
\* The lock.  A release wakes the first waiter, and until that waiter has run
\* nobody else gets the lock.
Free       == holder = None /\ queue = <<>>
Granted(t) == holder = None /\ queue # <<>> /\ Head(queue) = t

Section(t) == \/ Free /\ UNCHANGED lockVars
              \/ Granted(t) /\ queue' = Tail(queue) /\ UNCHANGED holder
Acquire(t, keeper) == \/ Free /\ holder' = keeper /\ UNCHANGED queue
                      \/ Granted(t) /\ holder' = keeper /\ queue' = Tail(queue)
Join(t) == ~Free /\ queue' = Append(queue, t) /\ UNCHANGED holder

Without(T) == SelectSeq(queue, LAMBDA u : u \notin T)
LeaveQueue(t) == Without({t})

\* task.cancel() for every task of T: one that waits for the lock loses its
\* place at once, unless it is the waiter the lock was just offered to.
RequestCancel(T) ==
  /\ cancels' = cancels \union T
  /\ queue' = Without({t \in T : ~Granted(t)})

-----------------------------------------------------------------------------
\* Leases.
InLease == {"running", "unwinding", "release", "abort"}
Leased  == {t \in Leasers : pc[t] \in InLease}

Ended(t) == IF t \in Children THEN "done" ELSE "idle"
After(t, exit) == IF t \in Chats /\ exit = "release" THEN "persist" ELSE Ended(t)

OneLess == active - 1

\* The map loses whatever controller it holds for s.  A closed one is of no use
\* to anybody; an open one stays with the clients that are connected to it.
Drop(s) == /\ mapped' = mapped \ {s}
           /\ ctrl' = [ctrl EXCEPT ![s] = IF @ = "closing" THEN "none" ELSE @]

\* The end of a lease; a successful deletion then drops the controller, and a
\* completed turn stores its duration through the runtime it no longer leases.
GiveBack(t, exit) ==
  /\ active' = OneLess
  /\ Goes(t, After(t, exit))
  /\ uses' = [uses EXCEPT ![t] = IF After(t, exit) = "persist" THEN @ ELSE 0]
  /\ IF t \in Deleters /\ exit = "release" THEN Drop(target[t]) ELSE UNCHANGED ctrlVars
  /\ target' = [d \in Deleters |-> IF d = t THEN None ELSE target[d]]
  /\ missed' = missed \ {t}

ExitLease(t, exit) ==
  \/ Free /\ GiveBack(t, exit) /\ UNCHANGED lockVars
  \/ Join(t) /\ Goes(t, exit)
     /\ UNCHANGED <<active, uses, ctrlVars, target, missed>>

\* lease: refused when there is no runtime.  A sub-agent tells its starter.
EnterLease(t) ==
  /\ pc[t] \in {"created", "queued"} /\ t \notin cancels
  /\ Section(t)
  /\ IF runtime # 0
     THEN active' = active + 1 /\ Goes(t, "running")
     ELSE UNCHANGED active /\ Goes(t, Ended(t))
  /\ uses' = [uses EXCEPT ![t] = runtime]
  /\ ready' = IF t \in Children
              THEN [ready EXCEPT ![t] = IF runtime # 0 THEN "set" ELSE "failed"]
              ELSE ready
  /\ UNCHANGED <<rtVars, lost, cancels, ctrlVars, parent, starter, registered,
                 waitVars, requests>>

QueueForLease(t) ==
  /\ pc[t] = "created" /\ t \notin cancels
  /\ Join(t) /\ Goes(t, "queued")
  /\ UNCHANGED <<rtVars, leaseVars, uses, cancels, ctrlVars, childVars, waitVars, requests>>

CancelledEarly(t) ==
  /\ pc[t] \in {"created", "queued"} /\ t \in cancels
  /\ queue' = LeaveQueue(t) /\ Goes(t, Ended(t)) /\ cancels' = cancels \ {t}
  /\ UNCHANGED <<holder, rtVars, leaseVars, uses, ctrlVars, childVars, waitVars, requests>>

Released(t) ==
  /\ pc[t] \in {"release", "abort"} /\ t \notin cancels
  /\ Granted(t) /\ queue' = Tail(queue)
  /\ GiveBack(t, pc[t])
  /\ UNCHANGED <<holder, rtVars, lost, cancels, childVars, awaited, requests>>

\* A cancellation that lands while the lease waits for the lock in its
\* `finally`: the task ends and the counter keeps the lease.
ReleaseInterrupted(t) ==
  /\ pc[t] \in {"release", "abort"} /\ t \in cancels
  /\ queue' = LeaveQueue(t) /\ lost' = lost + 1
  /\ Goes(t, Ended(t)) /\ uses' = [uses EXCEPT ![t] = 0] /\ cancels' = cancels \ {t}
  /\ UNCHANGED <<holder, rtVars, active, ctrlVars, childVars, waitVars, requests>>

-----------------------------------------------------------------------------
\* Turns.
DeletionsOf(s) == {d \in Deleters : target[d] = s /\ ~Over(d)}
CallsOf(s) == {c \in Children : parent[c] = s /\ starter[c] = "waiting"}

\* A message to the controller a client is connected to, or a client that opens
\* the conversation: get_session_controller makes a controller if the map has
\* none, also while the conversation is being deleted.  A new turn is not what
\* anybody waits for that waited for an earlier one.
StartTurn(s) ==
  /\ Request /\ pc[s] = "idle" /\ (ctrl[s] = "open" \/ s \notin mapped)
  /\ \/ ctrl[s] = "open" /\ UNCHANGED mapped
     \/ mapped' = mapped \union {s}
  /\ Goes(s, "created") /\ ctrl' = [ctrl EXCEPT ![s] = "open"]
  /\ awaited' = [t \in DOMAIN awaited |-> awaited[t] \ {s}]
  /\ missed' = missed \union DeletionsOf(s)
  /\ UNCHANGED <<lockVars, rtVars, leaseVars, uses, cancels, childVars, target>>

Stop(s) ==
  /\ Serving /\ ~Over(s)
  /\ RequestCancel({s})
  /\ UNCHANGED <<holder, rtVars, leaseVars, pc, uses, ctrlVars, childVars, waitVars, requests>>

\* The run of a turn is over, every call of it has returned.
TurnEnds(s) ==
  /\ pc[s] = "running" /\ s \notin cancels
  /\ \A c \in Children : parent[c] = s => starter[c] \in {"pending", "failed"}
  /\ \E exit \in {"release", "abort"} : ExitLease(s, exit)
  /\ UNCHANGED <<rtVars, lost, cancels, childVars, awaited, requests>>

\* A cancelled turn cancels its tool calls, and start() its sub-agent; the gather
\* of the calls does not wait for all of them.
TurnUnwinds(s) ==
  /\ pc[s] = "running" /\ s \in cancels
  /\ Goes(s, "unwinding")
  /\ LET calls == CallsOf(s)
         live  == {c \in calls : ~Over(c)}
     IN /\ starter' = [c \in Children |-> IF c \in calls THEN "stopping" ELSE starter[c]]
        /\ cancels' = (cancels \ {s}) \union live
        /\ queue' = Without({c \in live : ~Granted(c)})
  /\ UNCHANGED <<holder, rtVars, leaseVars, uses, ctrlVars, parent, ready, registered,
                 waitVars, requests>>

TurnUnwound(s) ==
  /\ pc[s] = "unwinding"
  /\ ExitLease(s, "abort") /\ cancels' = cancels \ {s}
  /\ UNCHANGED <<rtVars, lost, childVars, awaited, requests>>

\* persist_run_duration, after the lease.
Persisted(s) ==
  /\ pc[s] = "persist"
  /\ Goes(s, "idle") /\ uses' = [uses EXCEPT ![s] = 0] /\ cancels' = cancels \ {s}
  /\ UNCHANGED <<lockVars, rtVars, leaseVars, ctrlVars, childVars, waitVars, requests>>

-----------------------------------------------------------------------------
\* Sub-agents.
StartChild(s, c) ==
  /\ pc[s] = "running" /\ s \notin cancels /\ pc[c] = "idle" /\ starter[c] = "none"
  /\ parent' = [parent EXCEPT ![c] = s] /\ starter' = [starter EXCEPT ![c] = "waiting"]
  /\ registered' = registered \union {c} /\ Goes(c, "created")
  /\ UNCHANGED <<lockVars, rtVars, leaseVars, uses, cancels, ctrlVars, ready,
                 waitVars, requests>>

\* start() resumes: the sub-agent has its lease, or it stopped without one.
StartReturns(c) ==
  /\ starter[c] = "waiting" /\ ready[c] # "unset"
  /\ starter' = [starter EXCEPT ![c] = IF ready[c] = "set" THEN "pending" ELSE "failed"]
  /\ UNCHANGED <<lockVars, rtVars, leaseVars, pc, uses, cancels, ctrlVars, parent, ready,
                 registered, waitVars, requests>>

AtOnce(c) == TRUE                       \* mutant: does not wait for the sub-agent
ChildGone(c) == c \notin registered

\* A cancelled start() waits for the sub-agent it cancelled.
StartStops(c) ==
  /\ starter[c] = "stopping" /\ ChildGone(c)
  /\ starter' = [starter EXCEPT ![c] = "failed"]
  /\ UNCHANGED <<lockVars, rtVars, leaseVars, pc, uses, cancels, ctrlVars, parent, ready,
                 registered, waitVars, requests>>

\* _execute and _run_subagent: the run ends, and inside the lease its report or
\* its error goes to the conversation (SessionController!Notify).
ChildReports(c) ==
  /\ pc[c] = "running" /\ c \notin cancels
  /\ ExitLease(c, "release")
  /\ UNCHANGED <<rtVars, lost, cancels, parent, ready, starter, registered, awaited, requests>>

ChildUnwinds(c) ==
  /\ pc[c] = "running" /\ c \in cancels
  /\ ExitLease(c, "abort") /\ cancels' = cancels \ {c}
  /\ UNCHANGED <<rtVars, lost, childVars, awaited, requests>>

Settled(c) == IF ready[c] = "unset" THEN "failed" ELSE ready[c]

\* The done callback of the sub-agent's task.
Finished(c) ==
  /\ pc[c] = "done" /\ c \in registered
  /\ registered' = registered \ {c} /\ ready' = [ready EXCEPT ![c] = Settled(c)]
  /\ UNCHANGED <<lockVars, rtVars, leaseVars, pc, uses, cancels, ctrlVars, parent, starter,
                 waitVars, requests>>

-----------------------------------------------------------------------------
\* delete_session: close the controller, cancel the sub-agents, then delete.
ChildrenOf(s) == {c \in registered : parent[c] = s}
Nobody(T) == {}                         \* mutant: waits for tasks it does not cancel
Live(T) == {t \in T : ~Over(t)}

\* A conversation without an entry has nothing to close, though a turn may be
\* under way with a controller that an earlier deletion dropped.
DeleteBegins(d, s) ==
  /\ Request /\ pc[d] = "idle"
  /\ target' = [target EXCEPT ![d] = s] /\ Goes(d, "closing")
  /\ IF s \in mapped
     THEN /\ ctrl' = [ctrl EXCEPT ![s] = "closing"]
          /\ RequestCancel(Live({s})) /\ awaited' = [awaited EXCEPT ![d] = {s}]
          /\ UNCHANGED missed
     ELSE /\ missed' = IF Over(s) THEN missed ELSE missed \union {d}
          /\ UNCHANGED <<ctrl, cancels, queue, awaited>>
  /\ UNCHANGED <<holder, rtVars, leaseVars, uses, mapped, childVars>>

DeleteCancels(d) ==
  /\ pc[d] = "closing" /\ \A t \in awaited[d] : Over(t)
  /\ Goes(d, "cancelling")
  /\ RequestCancel(Live(ChildrenOf(target[d])))
  /\ awaited' = [awaited EXCEPT ![d] = ChildrenOf(target[d])]
  /\ UNCHANGED <<holder, rtVars, leaseVars, uses, ctrlVars, childVars, target, missed, requests>>

DeleteLeases(d) ==
  /\ pc[d] = "cancelling" /\ \A t \in awaited[d] : Over(t)
  /\ Goes(d, "created") /\ awaited' = [awaited EXCEPT ![d] = {}]
  /\ UNCHANGED <<lockVars, rtVars, leaseVars, uses, cancels, ctrlVars, childVars, target,
                 missed, requests>>

\* runtime.delete_session returns or fails; a failure keeps the closed controller.
DeleteDone(d) ==
  /\ pc[d] = "running"
  /\ \E exit \in {"release", "abort"} : ExitLease(d, exit)
  /\ UNCHANGED <<rtVars, lost, cancels, childVars, awaited, requests>>

-----------------------------------------------------------------------------
\* Settings: update_config, reload_mcp_servers, install, remove and reload skills.
Unused == active = 0

Keeper(a) == a

AdminAsks(a) ==
  /\ Request /\ pc[a] = "idle"
  /\ Goes(a, "created")
  /\ UNCHANGED <<lockVars, rtVars, leaseVars, uses, cancels, ctrlVars, childVars, waitVars>>

AdminQueues(a) ==
  /\ pc[a] = "created" /\ Join(a) /\ Goes(a, "queued")
  /\ UNCHANGED <<rtVars, leaseVars, uses, cancels, ctrlVars, childVars, waitVars, requests>>

\* RuntimeBusyError.
AdminRefused(a) ==
  /\ pc[a] \in {"created", "queued"} /\ ~Unused /\ Section(a)
  /\ Goes(a, "idle")
  /\ UNCHANGED <<rtVars, leaseVars, uses, cancels, ctrlVars, childVars, waitVars, requests>>

\* The lock is kept while a replacement is built, or the runtime reworked.
AdminWorks(a) ==
  /\ pc[a] \in {"created", "queued"} /\ Unused /\ Acquire(a, Keeper(a))
  /\ Goes(a, "building") \/ Goes(a, "reworking")
  /\ UNCHANGED <<rtVars, leaseVars, uses, cancels, ctrlVars, childVars, waitVars, requests>>

ReworkDone(a) ==
  /\ pc[a] = "reworking"
  /\ holder' = None /\ Goes(a, "idle")
  /\ UNCHANGED <<queue, rtVars, leaseVars, uses, cancels, ctrlVars, childVars, waitVars, requests>>

\* The replacement cannot be initialised, or the file not be written: it is closed.
UpdateFails(a) ==
  /\ pc[a] = "building"
  /\ holder' = None /\ Goes(a, "idle")
  /\ UNCHANGED <<queue, rtVars, leaseVars, uses, cancels, ctrlVars, childVars, waitVars, requests>>

Replace(a) ==
  /\ pc[a] = "building" /\ created < MaxRuntimes
  /\ created' = created + 1 /\ runtime' = created + 1
  /\ uses' = [uses EXCEPT ![a] = runtime]
  /\ holder' = None /\ Goes(a, "closing")
  /\ UNCHANGED <<queue, shut, leaseVars, cancels, ctrlVars, childVars, waitVars, requests>>

\* current.close(), outside the lock; also the last step of a shutdown.
CloseOld(t, to) ==
  /\ shut' = shut \union {uses[t]} /\ uses' = [uses EXCEPT ![t] = 0] /\ Goes(t, to)
  /\ UNCHANGED <<lockVars, runtime, created, leaseVars, cancels, ctrlVars, childVars, waitVars,
                 requests>>

UpdateCloses(a) == pc[a] = "closing" /\ CloseOld(a, "idle")

-----------------------------------------------------------------------------
\* The lifespan task.  The web server hands it the shutdown after the last
\* request has been answered.
Startup ==
  /\ pc[Service] = "starting"
  /\ \/ Goes(Service, "up") /\ runtime' = 1 /\ created' = 1
     \/ Goes(Service, "stopped") /\ UNCHANGED <<runtime, created>>
  /\ UNCHANGED <<lockVars, shut, leaseVars, uses, cancels, ctrlVars, childVars, waitVars, requests>>

ShutdownBegins ==
  /\ Serving /\ \A t \in Deleters \union Admins : Over(t)
  /\ RequestCancel(Live(mapped)) /\ awaited' = [awaited EXCEPT ![Service] = mapped]
  /\ mapped' = {} /\ ctrl' = [s \in Chats |-> IF s \in mapped THEN "none" ELSE ctrl[s]]
  /\ Goes(Service, "closing")
  /\ UNCHANGED <<holder, rtVars, leaseVars, uses, childVars, target, missed, requests>>

NoneOfThem == {}                        \* mutant: the sub-agents are not cancelled
AllOfThem == registered

ShutdownCancels ==
  /\ pc[Service] = "closing" /\ \A t \in awaited[Service] : Over(t)
  /\ RequestCancel(Live(AllOfThem)) /\ awaited' = [awaited EXCEPT ![Service] = AllOfThem]
  /\ Goes(Service, "cancelling")
  /\ UNCHANGED <<holder, rtVars, leaseVars, uses, ctrlVars, childVars, target, missed, requests>>

ShutdownTakes ==
  /\ pc[Service] = "cancelling" /\ \A t \in awaited[Service] : Over(t)
  /\ Section(Service)
  /\ runtime' = 0 /\ uses' = [uses EXCEPT ![Service] = runtime] /\ Goes(Service, "stopping")
  /\ UNCHANGED <<created, shut, leaseVars, cancels, ctrlVars, childVars, waitVars, requests>>

ShutdownCloses == pc[Service] = "stopping" /\ CloseOld(Service, "stopped")

Stopped == pc[Service] = "stopped" /\ UNCHANGED vars

-----------------------------------------------------------------------------
LeaseStep(t) == EnterLease(t) \/ QueueForLease(t) \/ CancelledEarly(t)
                \/ Released(t) \/ ReleaseInterrupted(t)
TurnStep(s)  == LeaseStep(s) \/ TurnUnwinds(s) \/ TurnUnwound(s) \/ Persisted(s)
ChildStep(c) == LeaseStep(c) \/ ChildUnwinds(c) \/ Finished(c)
                \/ StartReturns(c) \/ StartStops(c)
DeleteStep(d) == EnterLease(d) \/ QueueForLease(d) \/ Released(d)
                 \/ DeleteCancels(d) \/ DeleteLeases(d) \/ DeleteDone(d)
AdminStep(a) == AdminQueues(a) \/ AdminRefused(a) \/ AdminWorks(a)
                \/ ReworkDone(a) \/ UpdateFails(a) \/ Replace(a) \/ UpdateCloses(a)
ServiceStep  == ShutdownCancels \/ ShutdownTakes \/ ShutdownCloses

\* What goes on by itself: the event loop, and operations that end.
Progress ==
  \/ \E s \in Chats : TurnStep(s)
  \/ \E c \in Children : ChildStep(c)
  \/ \E d \in Deleters : DeleteStep(d)
  \/ \E a \in Admins : AdminStep(a)
  \/ ServiceStep

\* What clients ask for, what a run does, and the web server.
Demands ==
  \/ \E s \in Chats : \/ StartTurn(s) \/ Stop(s) \/ TurnEnds(s)
                      \/ \E c \in Children : StartChild(s, c)
                      \/ \E d \in Deleters : DeleteBegins(d, s)
  \/ \E c \in Children : ChildReports(c)
  \/ \E a \in Admins : AdminAsks(a)
  \/ Startup \/ ShutdownBegins

Next == Progress \/ Demands \/ Stopped

Spec == Init /\ [][Next]_vars

\* The event loop keeps resuming tasks that can go on; MCP connections, skill
\* threads and store operations end.  Nothing makes a client act, nor a run end
\* by itself.
FairSpec == Spec /\ WF_vars(Progress)

-----------------------------------------------------------------------------
\* Properties.

\* The turns of a conversation whose controller is open, and their sub-agents.
OfOpen(t) ==
  \E s \in Chats : ctrl[s] = "open" /\ (t = s \/ (t \in Children /\ parent[t] = s))

\* Whoever leases a runtime works on the current one, and it is open: no settings
\* change takes it away, nor is it reworked meanwhile.  The shutdown takes it from
\* nobody but the turns of controllers it has not closed, and their sub-agents:
\* those a client opened during a deletion, which then dropped them from the map
\* that the shutdown goes by.  It rests on `_active_runs`: the tasks inside a
\* lease, and those that were cancelled while they waited for the lock to give
\* theirs back.
LeasedRuntimeStays ==
  /\ active = Cardinality(Leased) + lost
  /\ \A t \in Leased :
       \/ uses[t] = runtime /\ runtime # 0 /\ runtime \notin shut
       \/ pc[Service] \in {"stopping", "stopped"} /\ OfOpen(t)
  /\ (\E a \in Admins : pc[a] \in {"building", "reworking"}) => Leased = {}

\* While the stored session is deleted, no turn of it is under way and none of
\* its sub-agents lives; unless a turn was started after the deletion began, or
\* was then under way with a controller an earlier deletion had dropped.
DeletesAreQuiet ==
  \A d \in Deleters \ missed : pc[d] = "running" =>
    /\ pc[target[d]] = "idle"
    /\ \A c \in Children : parent[c] = target[d] => Over(c)

\* A sub_agent call that failed or was stopped leaves no sub-agent behind, and
\* one that lives can be found by a deletion and by the shutdown.
NoOrphans ==
  \A c \in Children :
    /\ starter[c] = "failed" => pc[c] = "done"
    /\ ~Over(c) => c \in registered

\* Both: neither a deletion nor a stopped call leaves anything at work that
\* belongs to what it ended (close_session, delete_session, SubagentTasks).
NothingOutlives == DeletesAreQuiet /\ NoOrphans

\* A sub_agent call learns whether its sub-agent started, even if that was
\* cancelled before its first step; a deletion and a settings request are
\* answered, whoever is cancelled in the queue of the lock; a shutdown ends.
RequestsEnd ==
  /\ \A c \in Children : starter[c] = "waiting" ~> starter[c] # "waiting"
  /\ \A t \in Deleters \union Admins : pc[t] # "idle" ~> pc[t] = "idle"
  /\ pc[Service] = "closing" ~> pc[Service] = "stopped"
=============================================================================
