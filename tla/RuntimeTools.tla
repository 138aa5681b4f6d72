----------------------------- MODULE RuntimeTools -----------------------------
(* What a runtime owns beside its conversations: the tools of its MCP servers, *)
(* its exec sessions and its providers, and the service operations that build, *)
(* try, reload, replace and close them (runtime.py, tools/manager.py,          *)
(* tools/mcp/manager.py, providers/manager.py, runtime_service.py).  A runtime *)
(* gets its servers when it is built, or in the first run of a library user,   *)
(* who closes it between runs.  Operations here find no lease: RuntimeService  *)
(* models who waits for whom.                                                  *)
EXTENDS Naturals, Sequences, FiniteSets, SequencesExt

CONSTANTS
  Tasks,       \* requests, runs
  Servers,     \* MCP servers
  Offers,      \* Offers[s]: wrapped names of the tools s lists and enables
  Configs,     \* server lists a configuration may hold, in order: a dict by name
  MaxRuntimes, \* bound: runtimes that are built
  MaxOps,      \* bound: operations
  MaxFaults,   \* bound: failing connects, listings, closes, writes
  MaxCancels,  \* bound: cancellations
  None

ASSUME ToolsAssumption ==
  /\ Configs \subseteq Seq(Servers)
  /\ MaxRuntimes \in Nat \ {0} /\ None \notin Tasks \union Nat
  /\ \A c \in Configs : \A i, j \in DOMAIN c : c[i] = c[j] => i = j

Runtimes == 1..MaxRuntimes

VARIABLES
  library,   \* no service: runs initialize the tools of one runtime
  file,      \* the server list in the configuration file
  serving,   \* _runtime of the service, or None
  rt,        \* rt[r]: a runtime
  open,      \* open[r][s]: connections of r to s that were not closed
  lock,      \* holder of the service's lock; of _tools_init_lock in a library
  op,        \* op[t]: what a task does
  ops, faults, cancels,
  lost       \* runtimes that lost track of a connection: a cancelled listing,
             \* or a close that failed

vars == <<library, file, serving, rt, open, lock, op, ops, faults, cancels, lost>>
counters == <<ops, faults, cancels>>

(* known: _server_configs in order; stacks: keys of _stacks in order; regs:    *)
(* _registered_mcp_tool_names; tools: the MCP tools in the registry.           *)
NewRuntime(cfg) ==
  [cfg |-> cfg, known |-> <<>>, ready |-> FALSE, stacks |-> <<>>,
   regs |-> [s \in Servers |-> {}], tools |-> {}, exec |-> "open", providers |-> "open"]

NoRuntime == [NewRuntime(<<>>) EXCEPT !.exec = "none", !.providers = "none"]

NoOp == [op |-> "none", pc |-> "idle", r |-> None, old |-> None, todo |-> <<>>,
         done |-> <<>>]

Init ==
  /\ library \in BOOLEAN
  /\ file \in Configs
  /\ rt = [r \in Runtimes |->
             IF library /\ r = 1 THEN NewRuntime(file) ELSE NoRuntime]
  /\ serving = IF library THEN 1 ELSE None
  /\ open = [r \in Runtimes |-> [s \in Servers |-> 0]]
  /\ lock = None /\ op = [t \in Tasks |-> NoOp]
  /\ ops = 0 /\ faults = 0 /\ cancels = 0 /\ lost = {}

Fresh == {r \in Runtimes : rt[r] = NoRuntime}
NextFresh == CHOOSE r \in Fresh : TRUE

Become(t, rec) == op' = [op EXCEPT ![t] = rec]
Step(t, pc) == Become(t, [op[t] EXCEPT !.pc = pc])
Proceed(t, pc, todo) == Become(t, [op[t] EXCEPT !.pc = pc, !.todo = todo])
Ends(t) == Become(t, NoOp)
Unlock(t) == lock' = IF lock = t THEN None ELSE lock

-------------------------------------------------------------------------------
(* The operations and their beginnings under the lock.                         *)

Kinds == IF library THEN {"run", "shutdown"}
         ELSE {"startup", "update", "test", "reload", "reloadOne", "shutdown"}

Ask(t, kind) ==
  /\ op[t].pc = "idle" /\ ops < MaxOps /\ kind \in Kinds
  /\ Become(t, [NoOp EXCEPT !.op = kind, !.pc = "lock"])
  /\ ops' = ops + 1
  /\ UNCHANGED <<library, file, serving, rt, open, lock, faults, cancels, lost>>

(* sync_mcp_servers of a runtime, none of whose servers is connected yet or     *)
(* whose list is unchanged: the list is stored and connected in its order.     *)
BeginConnects(t, r, rec, old) ==
  /\ rt' = [rt EXCEPT ![r] = [rec EXCEPT !.known = rec.cfg]]
  /\ Become(t, [op[t] EXCEPT !.r = r, !.old = old, !.todo = rec.cfg, !.pc = "connect"])

Build(t) ==                          \* startup, update_config: _create_ready_runtime
  /\ op[t].pc = "lock" /\ lock = None /\ Fresh # {}
  /\ \/ op[t].op = "startup" /\ serving = None
        /\ BeginConnects(t, NextFresh, NewRuntime(file), None)
     \/ op[t].op = "update" /\ serving # None
        /\ \E c \in Configs : BeginConnects(t, NextFresh, NewRuntime(c), serving)
  /\ lock' = t
  /\ UNCHANGED <<library, file, serving, open, counters, lost>>

BeginTest(t) ==                      \* a tool manager of its own, without the lock
  /\ op[t].pc = "lock" /\ op[t].op = "test" /\ lock = None /\ serving # None /\ Fresh # {}
  /\ \E s \in Servers :
       BeginConnects(t, NextFresh, [NewRuntime(<<s>>) EXCEPT !.providers = "closed"], None)
  /\ UNCHANGED <<library, file, serving, open, lock, counters, lost>>

Initialize(t) ==                     \* a library run: initialize_tools
  /\ op[t].pc = "lock" /\ op[t].op = "run" /\ lock = None /\ serving # None
  /\ IF rt[serving].ready THEN Ends(t) /\ UNCHANGED <<lock, rt>>
     ELSE lock' = t /\ BeginConnects(t, serving, rt[serving], None)
  /\ UNCHANGED <<library, file, serving, open, counters, lost>>

Refuse(t) ==                         \* not started, already started
  /\ op[t].pc = "lock" /\ lock = None
  /\ IF op[t].op = "startup" THEN serving # None ELSE serving = None
  /\ Ends(t)
  /\ UNCHANGED <<library, file, serving, rt, open, lock, counters, lost>>

BeginUnplugs(t, closed, again) ==
  Become(t, [op[t] EXCEPT !.r = serving, !.pc = "unplug", !.todo = closed, !.done = again])

BeginReload(t) ==                    \* close_all, then connect_all
  /\ op[t].pc = "lock" /\ lock = None /\ serving # None
  /\ \/ op[t].op = "reload" /\ BeginUnplugs(t, rt[serving].stacks, rt[serving].known)
     \/ op[t].op = "reloadOne"
        /\ \E s \in ToSet(rt[serving].known) :
             BeginUnplugs(t, IF Contains(rt[serving].stacks, s) THEN <<s>> ELSE <<>>, <<s>>)
  /\ lock' = t
  /\ UNCHANGED <<library, file, serving, rt, open, counters, lost>>

BeginShutdown(t) ==
  /\ op[t].pc = "lock" /\ op[t].op = "shutdown" /\ lock = None /\ serving # None
  /\ Become(t, [op[t] EXCEPT !.r = serving, !.pc = "exec"])
  /\ serving' = None
  /\ UNCHANGED <<library, file, rt, open, lock, counters, lost>>

-------------------------------------------------------------------------------
(* connect_server: enter the client, list its tools, register them.  A failure *)
(* closes what this connect opened and fails the operation.                    *)

Head1(t) == Head(op[t].todo)

Plugged(t) == Contains(rt[op[t].r].stacks, Head1(t))

Connect(t) ==
  /\ op[t].pc = "connect" /\ op[t].todo # <<>> /\ ~Plugged(t)
  /\ open' = [open EXCEPT ![op[t].r][Head1(t)] = @ + 1]
  /\ Step(t, "list")
  /\ UNCHANGED <<library, file, serving, rt, lock, counters, lost>>

Skip(t) ==                           \* a run passes over what is connected
  /\ op[t].pc = "connect" /\ op[t].todo # <<>> /\ Plugged(t)
  /\ IF op[t].op = "run" THEN Proceed(t, "connect", Tail(op[t].todo))
                         ELSE Step(t, "failed")
  /\ UNCHANGED <<library, file, serving, rt, open, lock, counters, lost>>

ConnectFails(t) ==
  /\ op[t].pc = "connect" /\ op[t].todo # <<>> /\ faults < MaxFaults
  /\ Step(t, "failed")
  /\ faults' = faults + 1
  /\ UNCHANGED <<library, file, serving, rt, open, lock, ops, cancels, lost>>

(* The names are registered one by one; at one that is taken this server's are *)
(* unregistered again.                                                         *)
Registered(rec, s) ==
  [rec EXCEPT !.tools = rec.tools \union Offers[s], !.regs = [rec.regs EXCEPT ![s] = Offers[s]],
              !.stacks = Append(rec.stacks, s)]
KeepsNew(rec, s)   == [rec EXCEPT !.tools = rec.tools \union Offers[s]]  \* mutant: they stay
RolledBack(rec, s) == rec

ListTools(t) ==
  LET r == op[t].r  s == Head1(t) IN
  /\ op[t].pc = "list"
  /\ IF Offers[s] \intersect rt[r].tools = {}
       THEN /\ rt' = [rt EXCEPT ![r] = Registered(rt[r], s)]
            /\ Proceed(t, "connect", Tail(op[t].todo))
       ELSE rt' = [rt EXCEPT ![r] = RolledBack(rt[r], s)] /\ Step(t, "drop")
  /\ UNCHANGED <<library, file, serving, open, lock, counters, lost>>

ListFails(t) ==
  /\ op[t].pc = "list" /\ faults < MaxFaults
  /\ Step(t, "drop") /\ faults' = faults + 1
  /\ UNCHANGED <<library, file, serving, rt, open, lock, ops, cancels, lost>>

Drop(t) ==                           \* stack.aclose of the failed connect
  /\ op[t].pc = "drop"
  /\ open' = [open EXCEPT ![op[t].r][Head1(t)] = @ - 1]
  /\ Step(t, "failed")
  /\ UNCHANGED <<library, file, serving, rt, lock, counters, lost>>

(* What the operation built is closed again when it fails, and a tried manager *)
(* always.                                                                     *)
Owns(t) == op[t].op \in {"startup", "update", "test"}

Readied(r) == [rt EXCEPT ![r].ready = TRUE]

(* The connects are over: the reload or the run ends, startup and update       *)
(* install the new runtime.  update writes the file first.                     *)
Finish(t) ==
  LET r == op[t].r IN
  /\ op[t].pc = "connect" /\ op[t].todo = <<>>
  /\ \/ op[t].op = "test"
        /\ Step(t, "exec") /\ UNCHANGED <<lock, file, serving, rt>>
     \/ op[t].op \in {"reload", "reloadOne"}
        /\ Ends(t) /\ Unlock(t) /\ UNCHANGED <<file, serving, rt>>
     \/ op[t].op = "run"
        /\ rt' = Readied(r) /\ Ends(t) /\ Unlock(t) /\ UNCHANGED <<file, serving>>
     \/ op[t].op = "startup"
        /\ rt' = Readied(r) /\ serving' = r /\ Ends(t) /\ Unlock(t) /\ UNCHANGED file
     \/ op[t].op = "update"
        /\ rt' = Readied(r) /\ serving' = r /\ file' = rt[r].cfg /\ Unlock(t)
        /\ Become(t, [op[t] EXCEPT !.r = op[t].old, !.pc = "exec"])
  /\ UNCHANGED <<library, open, counters, lost>>

Switched(t) == op[t].r               \* mutant: the replacement was installed first
Kept(t)     == serving

WriteFails(t) ==                     \* the replacement is closed, the old one serves
  /\ op[t].pc = "connect" /\ op[t].todo = <<>> /\ op[t].op = "update"
  /\ faults < MaxFaults
  /\ Step(t, "exec") /\ faults' = faults + 1
  /\ serving' = Kept(t)
  /\ UNCHANGED <<library, file, rt, open, lock, ops, cancels, lost>>

Failed(t) ==
  /\ op[t].pc = "failed"
  /\ IF Owns(t) THEN Step(t, "exec") /\ UNCHANGED lock
     ELSE Ends(t) /\ Unlock(t)
  /\ UNCHANGED <<library, file, serving, rt, open, counters, lost>>

-------------------------------------------------------------------------------
(* close_server for each server in todo, in reloads and in closes: its tools   *)
(* and its entry go first, then its connection is awaited; an error in one     *)
(* leaves the others as they are.                                              *)

Without(seq, s) ==
  IF Contains(seq, s) THEN RemoveAt(seq, CHOOSE k \in DOMAIN seq : seq[k] = s) ELSE seq

Detached(rec, s) ==
  [rec EXCEPT !.tools = rec.tools \ rec.regs[s], !.regs = [rec.regs EXCEPT ![s] = {}],
              !.stacks = Without(rec.stacks, s)]

Unplug(t) ==
  /\ op[t].pc \in {"unplug", "mcp"} /\ op[t].todo # <<>>
  /\ rt' = [rt EXCEPT ![op[t].r] = Detached(rt[op[t].r], Head1(t))]
  /\ Step(t, IF op[t].pc = "unplug" THEN "unplugging" ELSE "closing")
  /\ UNCHANGED <<library, file, serving, open, lock, counters, lost>>

Unplugged(t) ==
  /\ op[t].pc \in {"unplugging", "closing"}
  /\ open' = [open EXCEPT ![op[t].r][Head1(t)] = @ - 1]
  /\ Proceed(t, IF op[t].pc = "unplugging" THEN "unplug" ELSE "mcp", Tail(op[t].todo))
  /\ UNCHANGED <<library, file, serving, rt, lock, counters, lost>>

UnplugFails(t) ==
  /\ op[t].pc \in {"unplugging", "closing"} /\ faults < MaxFaults
  /\ Step(t, IF op[t].pc = "unplugging" THEN "failed" ELSE "providers")
  /\ lost' = lost \union {op[t].r} /\ faults' = faults + 1
  /\ UNCHANGED <<library, file, serving, rt, open, lock, ops, cancels>>

Replug(t) ==                         \* the second half of a reload
  /\ op[t].pc = "unplug" /\ op[t].todo = <<>>
  /\ Proceed(t, "connect", op[t].done)
  /\ UNCHANGED <<library, file, serving, rt, open, lock, counters, lost>>

(* BumblehiveRuntime.close: the exec sessions, then the servers, then the      *)
(* providers, each in the `finally` of the one before.                         *)
CloseExec(t) ==
  /\ op[t].pc = "exec"
  /\ rt' = [rt EXCEPT ![op[t].r].exec = "closed"]
  /\ Proceed(t, "mcp", rt[op[t].r].stacks)
  /\ UNCHANGED <<library, file, serving, open, lock, counters, lost>>

McpClosed(t) ==
  /\ op[t].pc = "mcp" /\ op[t].todo = <<>>
  /\ Step(t, "providers")
  /\ UNCHANGED <<library, file, serving, rt, open, lock, counters, lost>>

CloseProviders(t) ==
  /\ op[t].pc = "providers"
  /\ rt' = [rt EXCEPT ![op[t].r].providers = "closed"]
  /\ Ends(t) /\ Unlock(t)
  /\ UNCHANGED <<library, file, serving, open, counters, lost>>

-------------------------------------------------------------------------------
(* A cancelled connect is cleaned up by the client itself; a cancelled listing *)
(* is not an Exception, and its open client is forgotten.  A cancelled close   *)
(* goes on with the `finally` clauses.                                         *)
Abandons(t) == NoOp                  \* mutant: only an Exception closes it
Unbuilds(t) == IF Owns(t) THEN [op[t] EXCEPT !.pc = "exec"] ELSE NoOp

AfterCancel(t) ==
  CASE op[t].pc = "lock" -> NoOp
    [] op[t].pc \in {"connect", "list", "drop"} -> Unbuilds(t)
    [] op[t].pc = "unplugging" -> NoOp
    [] op[t].pc = "exec" -> [op[t] EXCEPT !.pc = "mcp", !.todo = rt[op[t].r].stacks]
    [] op[t].pc = "closing" -> [op[t] EXCEPT !.pc = "providers"]

Cancel(t) ==
  /\ op[t].pc \in {"lock", "connect", "list", "drop", "unplugging", "exec", "closing"}
  /\ op[t].pc = "connect" => op[t].todo # <<>>
  /\ cancels < MaxCancels
  /\ op' = [op EXCEPT ![t] = AfterCancel(t)]
  /\ lock' = IF lock = t /\ AfterCancel(t) = NoOp THEN None ELSE lock
  /\ lost' = IF op[t].pc \in {"list", "drop", "unplugging", "closing"}
             THEN lost \union {op[t].r} ELSE lost
  /\ rt' = IF op[t].pc = "exec" THEN [rt EXCEPT ![op[t].r].exec = "closed"] ELSE rt
  /\ cancels' = cancels + 1
  /\ UNCHANGED <<library, file, serving, open, ops, faults>>

Work(t) ==
  \/ Build(t) \/ BeginTest(t) \/ Initialize(t) \/ Refuse(t) \/ BeginReload(t) \/ BeginShutdown(t)
  \/ Connect(t) \/ Skip(t) \/ ListTools(t) \/ Drop(t) \/ Finish(t) \/ Failed(t)
  \/ Unplug(t) \/ Unplugged(t) \/ Replug(t)
  \/ CloseExec(t) \/ McpClosed(t) \/ CloseProviders(t)

Environment(t) ==
  \/ \E kind \in Kinds : Ask(t, kind)
  \/ ConnectFails(t) \/ ListFails(t) \/ WriteFails(t) \/ UnplugFails(t) \/ Cancel(t)

Next == \E t \in Tasks : Work(t) \/ Environment(t)

Fairness == \A t \in Tasks : WF_vars(Work(t))

Spec == Init /\ [][Next]_vars /\ Fairness

-------------------------------------------------------------------------------
(* Properties.                                                                 *)

(* The registry holds the tools of the connected servers and no others, after  *)
(* name clashes, failing servers and cancellations too: a tool a model is told *)
(* of can be called (connect_server, close_server).                            *)
ToolsBacked ==
  \A r \in Runtimes :
    /\ rt[r].tools = UNION {rt[r].regs[s] : s \in ToSet(rt[r].stacks)}
    /\ \A s \in Servers : Contains(rt[r].stacks, s)
         => rt[r].regs[s] = Offers[s] /\ open[r][s] >= 1

(* A connection is known to its runtime or in the hands of an operation, and a *)
(* runtime that neither serves nor is worked on has closed everything: after a *)
(* failed or cancelled startup, update or try, and after a replacement.  Only  *)
(* a cancelled listing and a close that fails leave a connection behind.       *)
InHand(r, s) ==
  {t \in Tasks : /\ op[t].r = r /\ op[t].pc \in {"list", "drop", "unplugging", "closing"}
                 /\ Head1(t) = s}

NothingLeaks ==
  \A r \in Runtimes :
    /\ r \notin lost => \A s \in Servers :
         open[r][s] = (IF Contains(rt[r].stacks, s) THEN 1 ELSE 0) + Cardinality(InHand(r, s))
    /\ r # serving /\ (\A t \in Tasks : op[t].r # r) =>
         /\ rt[r].exec # "open" /\ rt[r].providers # "open"
         /\ r \notin lost => \A s \in Servers : open[r][s] = 0

(* What serves is what a restart would build, and nobody closes it: a failing  *)
(* or cancelled update leaves the old runtime, the old file, or both replaced. *)
ServesTheFile ==
  serving # None =>
    /\ rt[serving].cfg = file
    /\ rt[serving].exec = "open" /\ rt[serving].providers = "open"
=============================================================================
