-------------------------- MODULE RuntimeTools_proofs --------------------------
(***************************************************************************)
(* Proofs about RuntimeTools, for any number of tasks, servers, runtimes   *)
(* and configurations, in the server and in a library.                     *)
(***************************************************************************)
EXTENDS RuntimeTools, FiniteSetTheorems, SequenceTheorems, TLAPS

(***************************************************************************)
(* Who works on which runtime.                                             *)

Connecting == {"connect", "list", "drop", "failed"}
Unplugging == {"unplug", "unplugging"}
Closing    == {"exec", "mcp", "closing", "providers"}
Reloads    == {"reload", "reloadOne"}

Working(t) == op[t].pc \notin {"idle", "lock"}

Runtime ==
  [cfg : Seq(Servers), known : Seq(Servers), ready : BOOLEAN,
   stacks : Seq(Servers), regs : [Servers -> SUBSET UNION {Offers[s] : s \in Servers}],
   tools : SUBSET UNION {Offers[s] : s \in Servers},
   exec : {"none", "open", "closed"}, providers : {"none", "open", "closed"}]

Operation ==
  [op : {"none", "run", "shutdown", "startup", "update", "test"} \union Reloads,
   pc : {"idle", "lock"} \union Connecting \union Unplugging \union Closing,
   r : Runtimes \union {None}, old : Runtimes \union {None},
   todo : Seq(Servers), done : Seq(Servers)]

Types ==
  /\ file \in Configs
  /\ serving \in Runtimes \union {None} /\ lock \in Tasks \union {None}
  /\ rt \in [Runtimes -> Runtime]
  /\ open \in [Runtimes -> [Servers -> Int]]
  /\ op \in [Tasks -> Operation]
  /\ lost \subseteq Runtimes

\* What an operation is doing follows from its kind.
Phases(t) ==
  /\ op[t].pc = "idle" <=> op[t].op = "none"
  /\ ~Working(t) => op[t].r = None
  /\ Working(t) =>
       /\ op[t].r \in Runtimes /\ rt[op[t].r].exec # "none"
       /\ op[t].op \in Reloads => op[t].pc \in Connecting \union Unplugging
       /\ op[t].op = "run" => op[t].pc \in Connecting
       /\ op[t].op = "shutdown" => op[t].pc \in Closing
       /\ Owns(t) => op[t].pc \in Connecting \union Closing
  /\ op[t].pc \in {"list", "drop", "unplugging", "closing"} => op[t].todo # <<>>

\* The lock is held while a runtime that serves, or is to serve, is worked on.
Locking(t) ==
  /\ Working(t) /\ op[t].op \in Reloads \union {"run"} => op[t].r = serving /\ lock = t
  /\ (Working(t) /\ Owns(t)) \/ op[t].pc \in Closing => op[t].r # serving
  /\ op[t].pc \in Connecting /\ op[t].op = "startup" => lock = t /\ serving = None
  /\ op[t].pc \in Connecting /\ op[t].op = "update" =>
       lock = t /\ serving # None /\ op[t].old = serving

Apart ==
  \A t, u \in Tasks : t # u /\ Working(t) /\ Working(u) => op[t].r # op[u].r

Workers == Apart /\ \A t \in Tasks : Phases(t) /\ Locking(t)

(***************************************************************************)
(* A runtime that serves or will serve.                                    *)
Built(t) ==
  op[t].pc \in Connecting /\ op[t].op \in {"startup", "update"} =>
    /\ rt[op[t].r].exec = "open" /\ rt[op[t].r].providers = "open"
    /\ rt[op[t].r].cfg \in Configs
    /\ op[t].op = "startup" => rt[op[t].r].cfg = file

Serving == ServesTheFile /\ \A t \in Tasks : Built(t)

(***************************************************************************)
(* The tools of a runtime.                                                 *)
ToolsOf(r) ==
  /\ rt[r].tools = UNION {Offers[s] : s \in ToSet(rt[r].stacks)}
  /\ \A s \in ToSet(rt[r].stacks) : rt[r].regs[s] = Offers[s]
  /\ \A s, u \in ToSet(rt[r].stacks) : s # u => Offers[s] \intersect Offers[u] = {}

(***************************************************************************)
(* Its connections.                                                        *)
Distinct(seq) == \A i, j \in DOMAIN seq : seq[i] = seq[j] => i = j

Holds(t, r, s) ==
  /\ op[t].r = r /\ op[t].pc \in {"list", "drop", "unplugging", "closing"} /\ Head1(t) = s

Held(r, s) == (IF s \in ToSet(rt[r].stacks) THEN 1 ELSE 0)
            + (IF \E t \in Tasks : Holds(t, r, s) THEN 1 ELSE 0)

Connections(r) ==
  /\ Distinct(rt[r].stacks)
  /\ \A s \in Servers : /\ open[r][s] >= Held(r, s)
                        /\ r \notin lost => open[r][s] = Held(r, s)

\* What an operation has still to close.
Agenda(t) ==
  LET r == op[t].r  todo == op[t].todo IN
  /\ op[t].pc \in {"list", "drop"} => Head1(t) \notin ToSet(rt[r].stacks)
  /\ op[t].pc \in {"unplug", "mcp"} => Distinct(todo) /\ ToSet(todo) \subseteq ToSet(rt[r].stacks)
  /\ op[t].pc \in {"unplugging", "closing"} =>
       /\ Distinct(todo) /\ ToSet(Tail(todo)) \subseteq ToSet(rt[r].stacks)
       /\ Head(todo) \notin ToSet(rt[r].stacks)
  /\ op[t].pc \in {"mcp", "closing", "providers"} => rt[r].exec = "closed"
  /\ op[t].pc = "mcp" => ToSet(rt[r].stacks) \subseteq ToSet(todo)
  /\ op[t].pc = "closing" => ToSet(rt[r].stacks) \subseteq ToSet(Tail(todo))
  /\ op[t].pc = "providers" => r \in lost \/ rt[r].stacks = <<>>

Unattended(r) == r # serving /\ \A t \in Tasks : op[t].r # r

Ended(r) ==
  Unattended(r) =>
    /\ rt[r].exec # "open" /\ rt[r].providers # "open"
    /\ r \in lost \/ rt[r].stacks = <<>>

Runtimely ==
  \A r \in Runtimes :
    /\ rt[r].exec = "none" => rt[r] = NoRuntime
    /\ ToolsOf(r) /\ Connections(r) /\ Ended(r)

IInv == Types /\ Workers /\ Serving /\ Runtimely /\ \A t \in Tasks : Agenda(t)

-----------------------------------------------------------------------------
\* Sequences as the dicts they stand for.

LEMMA Listed ==
  ASSUME NEW S, NEW seq \in Seq(S)
  PROVE  /\ \A e : Contains(seq, e) <=> e \in ToSet(seq)
         /\ ToSet(seq) \subseteq S
         /\ ToSet(seq) = {} <=> seq = <<>>
<1>1. /\ seq \in [1..Len(seq) -> S] /\ Len(seq) \in Nat /\ DOMAIN seq = 1..Len(seq)
  BY LenProperties
<1>2. seq # <<>> => 1 \in DOMAIN seq
  BY <1>1, EmptySeq
<1>3. \A e : Contains(seq, e) <=> e \in ToSet(seq)
  BY <1>1 DEF Contains, ToSet
<1>4. ToSet(seq) \subseteq S
  BY <1>1 DEF ToSet
<1>5. seq # <<>> => seq[1] \in ToSet(seq)
  BY <1>2 DEF ToSet
<1>6. seq = <<>> => ToSet(seq) = {}
  BY DEF ToSet
<1> QED BY <1>3, <1>4, <1>5, <1>6

LEMMA HeadAndTail ==
  ASSUME NEW S, NEW seq \in Seq(S), seq # <<>>
  PROVE  /\ Head(seq) \in S /\ Tail(seq) \in Seq(S)
         /\ ToSet(seq) = ToSet(Tail(seq)) \union {Head(seq)}
         /\ Distinct(seq) => Distinct(Tail(seq)) /\ Head(seq) \notin ToSet(Tail(seq))
<1> DEFINE rest == Tail(seq)
<1>1. /\ Head(seq) \in S /\ rest \in Seq(S) /\ Head(seq) = seq[1]
      /\ Len(rest) = Len(seq) - 1
      /\ \A i \in 1..Len(rest) : rest[i] = seq[i + 1]
  BY HeadTailProperties
<1>2. /\ Len(seq) \in Nat \ {0} /\ DOMAIN seq = 1..Len(seq) /\ DOMAIN rest = 1..Len(rest)
  BY <1>1, LenProperties, EmptySeq
<1> HIDE DEF rest
<1>3. \A i \in DOMAIN rest : i + 1 \in DOMAIN seq /\ rest[i] = seq[i + 1]
  BY <1>1, <1>2
<1>4. \A i \in DOMAIN seq : i = 1 \/ (i - 1 \in DOMAIN rest /\ rest[i - 1] = seq[i])
  <2> SUFFICES ASSUME NEW i \in DOMAIN seq, i # 1
               PROVE  i - 1 \in DOMAIN rest /\ rest[i - 1] = seq[i]
    OBVIOUS
  <2>1. i - 1 \in DOMAIN rest /\ (i - 1) + 1 = i
    BY <1>1, <1>2
  <2> QED BY <1>3, <2>1
<1>5. 1 \in DOMAIN seq /\ \A i \in DOMAIN rest : i + 1 # 1 /\ i \in Nat
  BY <1>1, <1>2
<1>6. ToSet(seq) = ToSet(rest) \union {Head(seq)}
  <2>1. \A i \in DOMAIN seq : seq[i] = Head(seq) \/ seq[i] \in ToSet(rest)
    BY <1>1, <1>4 DEF ToSet
  <2>2. \A i \in DOMAIN rest : rest[i] \in ToSet(seq)
    BY <1>3 DEF ToSet
  <2>3. Head(seq) \in ToSet(seq)
    BY <1>1, <1>5 DEF ToSet
  <2> QED BY <2>1, <2>2, <2>3 DEF ToSet
<1>7. ASSUME Distinct(seq) PROVE Distinct(rest) /\ Head(seq) \notin ToSet(rest)
  <2>1. Distinct(rest)
    <3> SUFFICES ASSUME NEW i \in DOMAIN rest, NEW j \in DOMAIN rest, rest[i] = rest[j]
                 PROVE  i = j
      BY DEF Distinct
    <3>1. i + 1 = j + 1
      BY <1>3, <1>7 DEF Distinct
    <3> QED BY <1>5, <3>1
  <2>2. Head(seq) \notin ToSet(rest)
    BY <1>1, <1>3, <1>5, <1>7 DEF Distinct, ToSet
  <2> QED BY <2>1, <2>2
<1> QED BY <1>1, <1>6, <1>7 DEF rest

LEMMA Added ==
  ASSUME NEW S, NEW seq \in Seq(S), NEW s \in S, s \notin ToSet(seq), Distinct(seq)
  PROVE  /\ Append(seq, s) \in Seq(S) /\ ToSet(Append(seq, s)) = ToSet(seq) \union {s}
         /\ Distinct(Append(seq, s))
<1> DEFINE n == Len(seq)
           all == Append(seq, s)
<1>1. /\ all \in Seq(S) /\ Len(all) = n + 1
      /\ \A i \in 1..n : all[i] = seq[i]
      /\ all[n + 1] = s
  BY AppendProperties
<1>2. n \in Nat /\ DOMAIN seq = 1..n /\ DOMAIN all = 1..(n + 1)
  BY <1>1, LenProperties
<1> HIDE DEF all, n
<1>3. DOMAIN all = DOMAIN seq \union {n + 1} /\ n + 1 \notin DOMAIN seq
  BY <1>2
<1>4. \A i \in DOMAIN seq : all[i] = seq[i] /\ seq[i] # s
  BY <1>1, <1>2 DEF ToSet
<1>5. ToSet(all) = ToSet(seq) \union {s}
  BY <1>1, <1>3, <1>4 DEF ToSet
<1>6. Distinct(all)
  BY <1>1, <1>3, <1>4 DEF Distinct
<1> QED BY <1>1, <1>5, <1>6 DEF all

\* dict.pop
LEMMA Popped ==
  ASSUME NEW S, NEW seq \in Seq(S), NEW s, Distinct(seq)
  PROVE  /\ Without(seq, s) \in Seq(S)
         /\ ToSet(Without(seq, s)) = ToSet(seq) \ {s}
         /\ Distinct(Without(seq, s))
<1>1. Len(seq) \in Nat /\ DOMAIN seq = 1..Len(seq) /\ \A i \in DOMAIN seq : seq[i] \in S
  BY LenProperties
<1>2. CASE ~Contains(seq, s)
  BY <1>2, Listed DEF Without
<1>3. CASE Contains(seq, s)
  <2> DEFINE k == CHOOSE k \in DOMAIN seq : seq[k] = s
             n == Len(seq)
             a == SubSeq(seq, 1, k - 1)
             b == SubSeq(seq, k + 1, n)
             out == a \o b
  <2>1. k \in 1..n /\ seq[k] = s
    BY <1>1, <1>3 DEF Contains
  <2>2. Without(seq, s) = out
    BY <1>3 DEF Without, RemoveAt
  <2> HIDE DEF k
  <2>3. /\ a \in Seq(S) /\ Len(a) = k - 1
        /\ \A i \in 1..(k - 1) : a[i] = seq[i]
    <3>1. 1 \in Int /\ k - 1 \in Int /\ \A i \in 1..(k - 1) : seq[i] \in S
      BY <1>1, <2>1
    <3>2. /\ a \in Seq(S) /\ Len(a) = IF 1 <= k - 1 THEN (k - 1) - 1 + 1 ELSE 0
          /\ \A i \in 1..((k - 1) - 1 + 1) : a[i] = seq[1 + i - 1]
      BY <3>1, SubSeqProperties
    <3> QED BY <1>1, <2>1, <3>2
  <2>4. /\ b \in Seq(S) /\ Len(b) = n - k
        /\ \A i \in 1..(n - k) : b[i] = seq[k + i]
    <3>1. k + 1 \in Int /\ n \in Int /\ \A i \in (k + 1)..n : seq[i] \in S
      BY <1>1, <2>1
    <3>2. /\ b \in Seq(S) /\ Len(b) = IF k + 1 <= n THEN n - (k + 1) + 1 ELSE 0
          /\ \A i \in 1..(n - (k + 1) + 1) : b[i] = seq[(k + 1) + i - 1]
      BY <3>1, SubSeqProperties
    <3> QED BY <1>1, <2>1, <3>2
  <2> HIDE DEF a, b
  <2>5. /\ out \in Seq(S) /\ Len(out) = n - 1
        /\ \A i \in 1..(n - 1) : out[i] = IF i < k THEN seq[i] ELSE seq[i + 1]
    <3>1. /\ out \in Seq(S) /\ Len(out) = Len(a) + Len(b)
          /\ \A i \in 1..Len(a) + Len(b) : out[i] = IF i <= Len(a) THEN a[i] ELSE b[i - Len(a)]
      BY <2>3, <2>4, ConcatProperties
    <3>2. Len(a) + Len(b) = n - 1
      BY <1>1, <2>1, <2>3, <2>4
    <3>3. ASSUME NEW i \in 1..(n - 1) PROVE out[i] = IF i < k THEN seq[i] ELSE seq[i + 1]
      <4>1. CASE i < k
        <5>1. i <= Len(a) /\ i \in 1..(k - 1)
          BY <1>1, <2>1, <2>3, <4>1
        <5> QED BY <2>3, <3>1, <3>2, <4>1, <5>1
      <4>2. CASE ~(i < k)
        <5>1. ~(i <= Len(a)) /\ i - Len(a) \in 1..(n - k) /\ k + (i - Len(a)) = i + 1
          BY <1>1, <2>1, <2>3, <4>2
        <5> QED BY <2>4, <3>1, <3>2, <4>2, <5>1
      <4> QED BY <4>1, <4>2
    <3> QED BY <3>1, <3>2, <3>3
  <2> HIDE DEF out
  <2>6. DOMAIN out = 1..(n - 1)
    BY <2>5, LenProperties
  <2>7. \A i \in DOMAIN out : \E j \in DOMAIN seq \ {k} :
          out[i] = seq[j] /\ j = IF i < k THEN i ELSE i + 1
    <3> SUFFICES ASSUME NEW i \in 1..(n - 1)
                 PROVE  (IF i < k THEN i ELSE i + 1) \in (1..n) \ {k}
      BY <1>1, <2>5, <2>6
    <3> QED BY <1>1, <2>1
  <2>8. \A j \in DOMAIN seq \ {k} : \E i \in DOMAIN out : out[i] = seq[j]
    <3> SUFFICES ASSUME NEW j \in (1..n) \ {k} PROVE \E i \in 1..(n - 1) : out[i] = seq[j]
      BY <1>1, <2>6
    <3>1. CASE j < k
      <4>1. j \in 1..(n - 1)
        BY <1>1, <2>1, <3>1
      <4> QED BY <2>5, <3>1, <4>1
    <3>2. CASE j > k
      <4>1. j - 1 \in 1..(n - 1) /\ ~(j - 1 < k) /\ (j - 1) + 1 = j
        BY <1>1, <2>1, <3>2
      <4> QED BY <2>5, <4>1
    <3> QED BY <1>1, <2>1, <3>1, <3>2
  <2>9. ToSet(out) = ToSet(seq) \ {s}
    <3>1. \A j \in DOMAIN seq : seq[j] = s <=> j = k
      BY <1>1, <2>1 DEF Distinct
    <3> QED BY <2>7, <2>8, <3>1 DEF ToSet
  <2>10. Distinct(out)
    <3> SUFFICES ASSUME NEW i \in DOMAIN out, NEW j \in DOMAIN out, out[i] = out[j]
                 PROVE  i = j
      BY DEF Distinct
    <3>1. (IF i < k THEN i ELSE i + 1) = (IF j < k THEN j ELSE j + 1)
      BY <2>7 DEF Distinct
    <3> QED BY <1>1, <2>1, <2>6, <3>1
  <2> QED BY <2>2, <2>5, <2>9, <2>10
<1> QED BY <1>2, <1>3

-----------------------------------------------------------------------------
\* What a step does to the operations.

Kind  == {"none", "run", "shutdown", "startup", "update", "test"} \union Reloads
Phase == {"idle", "lock"} \union Connecting \union Unplugging \union Closing

Did(t, kind, pc, r, old, todo) ==
  /\ op' \in [Tasks -> Operation]
  /\ op'[t].op = kind /\ op'[t].pc = pc /\ op'[t].r = r /\ op'[t].old = old
  /\ op'[t].todo = todo
  /\ \A u \in Tasks : u # t => op'[u] = op[u]

LEMMA BecomeDid ==
  ASSUME Types, NEW t \in Tasks, NEW rec \in Operation, Become(t, rec)
  PROVE  Did(t, rec.op, rec.pc, rec.r, rec.old, rec.todo)
<1>1. op \in [Tasks -> Operation] /\ op' = [op EXCEPT ![t] = rec]
  BY DEF Types, Become
<1> QED BY <1>1 DEF Did

LEMMA OperationFields ==
  ASSUME Types, NEW t \in Tasks
  PROVE  /\ op[t].op \in Kind /\ op[t].pc \in Phase
         /\ op[t].r \in Runtimes \union {None} /\ op[t].old \in Runtimes \union {None}
         /\ op[t].todo \in Seq(Servers) /\ op[t].done \in Seq(Servers)
BY DEF Types, Operation, Kind, Phase

LEMMA NoOpTyped == NoOp \in Operation
<1>1. <<>> \in Seq(Servers)
  BY EmptySeq
<1> QED BY <1>1 DEF NoOp, Operation

LEMMA StepDid ==
  ASSUME Types, NEW t \in Tasks, NEW pc \in Phase, Step(t, pc)
  PROVE  Did(t, op[t].op, pc, op[t].r, op[t].old, op[t].todo)
<1> DEFINE rec == [op[t] EXCEPT !.pc = pc]
<1>1. op[t] \in Operation /\ pc \in Phase
  BY DEF Types
<1>2. rec \in Operation
  BY <1>1 DEF Operation, Phase
<1>3. /\ rec.op = op[t].op /\ rec.pc = pc /\ rec.r = op[t].r /\ rec.old = op[t].old
      /\ rec.todo = op[t].todo
  BY <1>1 DEF Operation
<1>4. Become(t, rec)
  BY DEF Step
<1> QED BY <1>2, <1>3, <1>4, BecomeDid

LEMMA ProceedDid ==
  ASSUME Types, NEW t \in Tasks, NEW pc \in Phase, NEW todo \in Seq(Servers),
         Proceed(t, pc, todo)
  PROVE  Did(t, op[t].op, pc, op[t].r, op[t].old, todo)
<1> DEFINE rec == [op[t] EXCEPT !.pc = pc, !.todo = todo]
<1>1. op[t] \in Operation /\ pc \in Phase
  BY DEF Types
<1>2. rec \in Operation
  BY <1>1 DEF Operation, Phase
<1>3. /\ rec.op = op[t].op /\ rec.pc = pc /\ rec.r = op[t].r /\ rec.old = op[t].old
      /\ rec.todo = todo
  BY <1>1 DEF Operation
<1>4. Become(t, rec)
  BY DEF Proceed
<1> QED BY <1>2, <1>3, <1>4, BecomeDid

LEMMA EndsDid ==
  ASSUME Types, NEW t \in Tasks, Ends(t)
  PROVE  Did(t, "none", "idle", None, None, <<>>)
<1>1. Become(t, NoOp)
  BY DEF Ends
<1> QED BY <1>1, NoOpTyped, BecomeDid DEF NoOp

LEMMA AskDid ==
  ASSUME Types, NEW t \in Tasks, NEW kind \in Kinds, Ask(t, kind)
  PROVE  Did(t, kind, "lock", None, None, <<>>)
<1> DEFINE rec == [NoOp EXCEPT !.op = kind, !.pc = "lock"]
<1>1. kind \in Kind
  BY DEF Kinds, Kind, Reloads
<1>2. NoOp \in Operation
  BY NoOpTyped
<1>3. rec \in Operation
  BY <1>1, <1>2 DEF Operation, Kind
<1>4. rec.op = kind /\ rec.pc = "lock" /\ rec.r = None /\ rec.old = None /\ rec.todo = <<>>
  BY DEF NoOp
<1>5. Become(t, rec)
  BY DEF Ask
<1> QED BY <1>3, <1>4, <1>5, BecomeDid

LEMMA ConnectsDid ==
  ASSUME Types, NEW t \in Tasks, NEW r \in Runtimes, NEW rec \in Runtime,
         NEW old \in Runtimes \union {None}, BeginConnects(t, r, rec, old)
  PROVE  /\ Did(t, op[t].op, "connect", r, old, rec.cfg)
         /\ rt' \in [Runtimes -> Runtime]
         /\ rt'[r] = [rec EXCEPT !.known = rec.cfg]
         /\ \A q \in Runtimes : q # r => rt'[q] = rt[q]
<1> DEFINE new == [op[t] EXCEPT !.r = r, !.old = old, !.todo = rec.cfg, !.pc = "connect"]
           next == [rec EXCEPT !.known = rec.cfg]
<1>1. op[t] \in Operation /\ rec.cfg \in Seq(Servers)
  BY DEF Types, Runtime
<1>2. new \in Operation
  BY <1>1 DEF Operation, Connecting
<1>3. /\ new.op = op[t].op /\ new.pc = "connect" /\ new.r = r /\ new.old = old
      /\ new.todo = rec.cfg
  BY <1>1 DEF Operation
<1>4. Become(t, new) /\ rt' = [rt EXCEPT ![r] = next]
  BY DEF BeginConnects
<1>5. Did(t, op[t].op, "connect", r, old, rec.cfg)
  BY <1>2, <1>3, <1>4, BecomeDid
<1>6. next \in Runtime
  BY <1>1 DEF Runtime
<1>7. rt \in [Runtimes -> Runtime]
  BY DEF Types
<1> HIDE DEF next
<1>8. rt' \in [Runtimes -> Runtime] /\ rt'[r] = next /\ \A q \in Runtimes : q # r => rt'[q] = rt[q]
  BY <1>4, <1>6, <1>7
<1> QED BY <1>5, <1>8 DEF next

LEMMA UnplugsDid ==
  ASSUME Types, NEW t \in Tasks, NEW closed \in Seq(Servers), NEW again \in Seq(Servers),
         BeginUnplugs(t, closed, again)
  PROVE  Did(t, op[t].op, "unplug", serving, op[t].old, closed)
<1> DEFINE rec == [op[t] EXCEPT !.r = serving, !.pc = "unplug", !.todo = closed, !.done = again]
<1>1. op[t] \in Operation /\ serving \in Runtimes \union {None}
  BY DEF Types
<1>2. rec \in Operation
  BY <1>1 DEF Operation, Unplugging
<1>3. /\ rec.op = op[t].op /\ rec.pc = "unplug" /\ rec.r = serving /\ rec.old = op[t].old
      /\ rec.todo = closed
  BY <1>1 DEF Operation
<1>4. Become(t, rec)
  BY DEF BeginUnplugs
<1> QED BY <1>2, <1>3, <1>4, BecomeDid

LEMMA CloseDid ==
  ASSUME Types, NEW t \in Tasks, NEW r \in Runtimes \union {None},
         Become(t, [op[t] EXCEPT !.r = r, !.pc = "exec"])
  PROVE  Did(t, op[t].op, "exec", r, op[t].old, op[t].todo)
<1> DEFINE rec == [op[t] EXCEPT !.r = r, !.pc = "exec"]
<1>1. op[t] \in Operation
  BY DEF Types
<1>2. rec \in Operation
  BY <1>1 DEF Operation, Closing
<1>3. /\ rec.op = op[t].op /\ rec.pc = "exec" /\ rec.r = r /\ rec.old = op[t].old
      /\ rec.todo = op[t].todo
  BY <1>1 DEF Operation
<1>4. Become(t, rec)
  OBVIOUS
<1> QED BY <1>2, <1>3, <1>4, BecomeDid

-----------------------------------------------------------------------------
\* A step of one task on one runtime leaves the others as they were.

Holding == {"list", "drop", "unplugging", "closing"}

\* r is the runtime that t changes.  It had it, or had none; afterwards it has
\* it, has none, or has another to close that nobody works on.
On(t, r) ==
  /\ \A u \in Tasks : u # t => op'[u] = op[u]
  /\ \A q \in Runtimes : q # r =>
       rt'[q] = rt[q] /\ open'[q] = open[q] /\ (q \in lost' <=> q \in lost)
  /\ op[t].r \in {None, r}
  /\ op'[t].r \in {None, r} \/ op'[t].pc \notin Holding
  /\ \A u \in Tasks : u # t /\ Working(u) => op[u].r # r /\ op[u].r # op'[t].r
  /\ serving \in {serving', r, None, op'[t].r} /\ serving' \in {serving, None, r}
  /\ (lock' = lock /\ serving' = serving) \/ lock \in {t, None}
  /\ file' = file \/ lock = t

LEMMA NoneIsNoTask == None \notin Tasks /\ None \notin Runtimes /\ Runtimes \subseteq Nat
BY ToolsAssumption DEF Runtimes

LEMMA OthersLocked ==
  ASSUME Workers, NEW t \in Tasks, NEW r \in Runtimes \union {None}, On(t, r),
         NEW u \in Tasks, u # t
  PROVE  Locking(u)'
<1>1. /\ op'[u] = op[u] /\ (Working(u) => op[u].r # r) /\ Locking(u) /\ Phases(u)
      /\ u # None
  BY NoneIsNoTask DEF On, Workers
<1>2. CASE lock' = lock /\ serving' = serving
  BY <1>1, <1>2 DEF Locking, Working, Owns
<1>3. CASE lock \in {t, None}
  <2>1. lock # u
    BY <1>1, <1>3
  <2>2. ~(Working(u) /\ op[u].op \in Reloads \union {"run"})
    BY <1>1, <2>1 DEF Locking
  <2>3. ~(op[u].pc \in Connecting /\ op[u].op \in {"startup", "update"})
    BY <1>1, <2>1 DEF Locking
  <2>4. ASSUME (Working(u) /\ Owns(u)) \/ op[u].pc \in Closing PROVE op[u].r # serving'
    <3>1. op[u].r # serving /\ Working(u)
      BY <1>1, <2>4 DEF Locking, Working, Closing
    <3>2. op[u].r # r /\ op[u].r # None
      BY <1>1, <3>1, NoneIsNoTask DEF Phases
    <3> QED BY <3>1, <3>2 DEF On
  <2> QED BY <1>1, <2>2, <2>3, <2>4 DEF Locking, Working, Owns
<1> QED BY <1>2, <1>3 DEF On

LEMMA OthersKeepWorking ==
  ASSUME Workers, NEW t \in Tasks, NEW r \in Runtimes \union {None}, On(t, r), Phases(t)', Locking(t)'
  PROVE  Workers'
<1>1. ASSUME NEW u \in Tasks, u # t PROVE Phases(u)'
  <2>1. op'[u] = op[u] /\ Phases(u) /\ (Working(u) => op[u].r # r)
    BY <1>1 DEF On, Workers
  <2>2. Working(u) => rt'[op[u].r] = rt[op[u].r]
    BY <2>1 DEF Phases, On
  <2> QED BY <2>1, <2>2 DEF Phases, Working, Owns
<1>2. ASSUME NEW u \in Tasks, u # t PROVE Locking(u)'
  BY <1>2, OthersLocked
<1>3. Apart'
  <2> SUFFICES ASSUME NEW u \in Tasks, NEW v \in Tasks, u # v, Working(u)', Working(v)'
               PROVE  op'[u].r # op'[v].r
    BY DEF Apart
  <2>1. CASE u # t /\ v # t
    <3>1. op'[u] = op[u] /\ op'[v] = op[v]
      BY <2>1 DEF On
    <3> QED BY <3>1 DEF Workers, Apart, Working
  <2>2. CASE u = t
    <3>1. op'[v] = op[v]
      BY <2>2 DEF On
    <3>2. op[v].r # op'[t].r
      BY <2>2, <3>1 DEF On, Working
    <3> QED BY <2>2, <3>1, <3>2
  <2>3. CASE v = t
    <3>1. op'[u] = op[u]
      BY <2>3 DEF On
    <3>2. op[u].r # op'[t].r
      BY <2>3, <3>1 DEF On, Working
    <3> QED BY <2>3, <3>1, <3>2
  <2> QED BY <2>1, <2>2, <2>3
<1> QED BY <1>1, <1>2, <1>3 DEF Workers

LEMMA OthersKeepServing ==
  ASSUME Workers, Serving, NEW t \in Tasks, NEW r \in Runtimes \union {None}, On(t, r),
         Built(t)', ServesTheFile'
  PROVE  Serving'
<1> SUFFICES ASSUME NEW u \in Tasks, u # t PROVE Built(u)'
  BY DEF Serving
<1>1. /\ op'[u] = op[u] /\ Built(u) /\ Phases(u) /\ Locking(u)
      /\ (Working(u) => op[u].r # r) /\ u # None
  BY NoneIsNoTask DEF On, Workers, Serving
<1>2. SUFFICES ASSUME op[u].pc \in Connecting, op[u].op \in {"startup", "update"}
               PROVE  /\ rt'[op[u].r].exec = "open" /\ rt'[op[u].r].providers = "open"
                      /\ rt'[op[u].r].cfg \in Configs
                      /\ op[u].op = "startup" => rt'[op[u].r].cfg = file'
  BY <1>1 DEF Built
<1>3. Working(u)
  BY <1>2 DEF Working, Connecting
<1>4. rt'[op[u].r] = rt[op[u].r] /\ lock = u
  BY <1>1, <1>2, <1>3 DEF On, Phases, Locking
<1>5. file' = file
  BY <1>4 DEF On
<1> QED BY <1>1, <1>2, <1>4, <1>5 DEF Built

LEMMA OthersKeepRuntimes ==
  ASSUME Workers, Runtimely, NEW t \in Tasks, NEW r \in Runtimes \union {None}, On(t, r),
         NEW q \in Runtimes, q # r
  PROVE  /\ rt'[q].exec = "none" => rt'[q] = NoRuntime
         /\ ToolsOf(q)' /\ Connections(q)' /\ Ended(q)'
<1>1. /\ rt'[q] = rt[q] /\ open'[q] = open[q] /\ (q \in lost' <=> q \in lost)
      /\ rt[q].exec = "none" => rt[q] = NoRuntime
      /\ ToolsOf(q) /\ Connections(q) /\ Ended(q)
  BY DEF On, Runtimely
<1>2. ToolsOf(q)'
  BY <1>1 DEF ToolsOf, ToSet
<1>3. \A s \in Servers : Held(q, s)' = Held(q, s)
  <2> SUFFICES ASSUME NEW s \in Servers
               PROVE  (\E u \in Tasks : Holds(u, q, s))' <=> \E u \in Tasks : Holds(u, q, s)
    BY <1>1 DEF Held, ToSet
  <2>1. q # None
    BY NoneIsNoTask
  <2>2. ~Holds(t, q, s)
    BY <2>1 DEF On, Holds
  <2>3. ~Holds(t, q, s)'
    BY <2>1 DEF On, Holds, Holding
  <2>4. \A u \in Tasks : u # t => (Holds(u, q, s)' <=> Holds(u, q, s))
    BY DEF On, Holds, Head1
  <2> QED BY <2>2, <2>3, <2>4
<1>4. Connections(q)'
  BY <1>1, <1>3 DEF Connections, Distinct
<1>5. Ended(q)'
  <2>1. ASSUME Unattended(q)' PROVE Unattended(q)
    <3>1. q # serving' /\ (\A u \in Tasks : op'[u].r # q) /\ q # None
      BY <2>1, NoneIsNoTask DEF Unattended
    <3>2. q # serving
      BY <3>1 DEF On
    <3>3. \A u \in Tasks : op[u].r # q
      BY <3>1 DEF On
    <3> QED BY <3>2, <3>3 DEF Unattended
  <2> QED BY <1>1, <2>1 DEF Ended
<1> QED BY <1>1, <1>2, <1>4, <1>5

LEMMA OthersKeepAgendas ==
  ASSUME Workers, NEW t \in Tasks, NEW r \in Runtimes \union {None}, On(t, r),
         NEW u \in Tasks, u # t, Agenda(u)
  PROVE  Agenda(u)'
<1>1. op'[u] = op[u]
  BY DEF On
<1>2. CASE Working(u)
  <2>1. op[u].r # r /\ op[u].r \in Runtimes
    BY <1>2 DEF On, Workers, Phases
  <2>2. rt'[op[u].r] = rt[op[u].r] /\ (op[u].r \in lost' <=> op[u].r \in lost)
    BY <2>1 DEF On
  <2> QED BY <1>1, <2>2 DEF Agenda, Head1
<1>3. CASE ~Working(u)
  BY <1>1, <1>3 DEF Agenda, Working
<1> QED BY <1>2, <1>3

LEMMA Local ==
  ASSUME IInv, Types', NEW t \in Tasks, NEW r \in Runtimes, On(t, r),
         Phases(t)', Locking(t)', Built(t)', ServesTheFile', Agenda(t)',
         (rt[r].exec = "none" => rt[r] = NoRuntime)',
         ToolsOf(r)', Connections(r)', Ended(r)'
  PROVE  IInv'
<1>1. Workers'
  BY OthersKeepWorking DEF IInv
<1>2. Serving'
  BY OthersKeepServing DEF IInv
<1>3. Runtimely'
  BY OthersKeepRuntimes DEF IInv, Runtimely
<1>4. \A u \in Tasks : Agenda(u)'
  BY OthersKeepAgendas DEF IInv
<1> QED BY <1>1, <1>2, <1>3, <1>4 DEF IInv

\* A step that works on nothing.
LEMMA Quiet ==
  ASSUME IInv, Types', NEW t \in Tasks, ~Working(t), ~Working(t)', Phases(t)',
         \A u \in Tasks : u # t => op'[u] = op[u],
         UNCHANGED <<rt, open, serving, file, lost>>, lock' = lock \/ lock = t
  PROVE  IInv'
<1>1. On(t, None)
  <2>1. op[t].r = None /\ op'[t].r = None
    BY DEF IInv, Workers, Phases
  <2>2. \A u \in Tasks : Working(u) => op[u].r # None
    BY NoneIsNoTask DEF IInv, Workers, Phases
  <2> QED BY <2>1, <2>2 DEF On
<1>2. Locking(t)' /\ Built(t)' /\ Agenda(t)'
  BY DEF Locking, Built, Agenda, Working, Connecting, Closing
<1>3. ServesTheFile'
  BY DEF IInv, Serving, ServesTheFile
<1>4. Workers'
  BY <1>1, <1>2, OthersKeepWorking DEF IInv
<1>5. Serving'
  BY <1>1, <1>2, <1>3, OthersKeepServing DEF IInv
<1>6. Runtimely'
  <2>1. \A q \in Runtimes : q # None
    BY NoneIsNoTask
  <2> QED BY <1>1, <2>1, OthersKeepRuntimes DEF IInv, Runtimely
<1>7. \A u \in Tasks : Agenda(u)'
  BY <1>1, <1>2, OthersKeepAgendas DEF IInv
<1> QED BY <1>4, <1>5, <1>6, <1>7 DEF IInv

-----------------------------------------------------------------------------
\* A step within an operation: t stays with its runtime r.

Within(t, r, pc, todo) ==
  /\ Working(t) /\ op[t].r = r /\ Did(t, op[t].op, pc, r, op[t].old, todo)
  /\ \/ pc \in Connecting /\ op[t].pc \in Connecting \union Unplugging
     \/ pc \in Unplugging /\ op[t].pc \in Unplugging
     \/ pc \in Closing /\ (op[t].pc \in Closing \/ (Owns(t) /\ op[t].pc \in Connecting))
  /\ pc \in Holding => todo # <<>>
  /\ UNCHANGED <<serving, lock, file>>
  /\ \A q \in Runtimes : q # r =>
       rt'[q] = rt[q] /\ open'[q] = open[q] /\ (q \in lost' <=> q \in lost)

\* What the step leaves alone of the runtime.
Settled(t, r) ==
  /\ rt'[r].cfg = rt[r].cfg /\ rt'[r].providers = rt[r].providers
  /\ rt'[r].exec = rt[r].exec \/ (op[t].pc \in Closing /\ rt'[r].exec = "closed")

LEMMA HasRuntime ==
  ASSUME Workers, NEW t \in Tasks, Working(t)
  PROVE  /\ op[t].r \in Runtimes /\ op[t].r # None /\ rt[op[t].r].exec # "none"
         /\ op[t].pc \in Closing => op[t].r # serving
BY NoneIsNoTask DEF Workers, Phases, Locking

LEMMA WithinIsOn ==
  ASSUME Types, Workers, NEW t \in Tasks, NEW r \in Runtimes, NEW pc, NEW todo,
         Within(t, r, pc, todo)
  PROVE  On(t, r) /\ Working(t)'
<1>1. /\ \A u \in Tasks : u # t => op'[u] = op[u]
      /\ op'[t].r = r /\ op'[t].pc = pc
  BY DEF Within, Did
<1>2. \A u \in Tasks : u # t /\ Working(u) => op[u].r # r
  BY DEF Workers, Apart, Within
<1>3. On(t, r)
  BY <1>1, <1>2 DEF On, Within
<1>4. Working(t)'
  BY <1>1 DEF Within, Working, Connecting, Unplugging, Closing
<1> QED BY <1>3, <1>4

LEMMA WithinPhases ==
  ASSUME Types, Workers, NEW t \in Tasks, NEW r \in Runtimes, NEW pc, NEW todo,
         Within(t, r, pc, todo),
         rt'[r].exec # "none"
  PROVE  Phases(t)' /\ Locking(t)'
<1>1. /\ op'[t].op = op[t].op /\ op'[t].pc = pc /\ op'[t].r = op[t].r
      /\ op'[t].old = op[t].old /\ op'[t].todo = todo
  BY DEF Within, Did
<1>2. /\ Phases(t) /\ Locking(t) /\ Working(t) /\ op[t].op # "none"
      /\ UNCHANGED <<serving, lock>>
  BY DEF Workers, Within, Phases, Working
<1>3. pc # "idle" /\ pc # "lock"
  BY DEF Within, Connecting, Unplugging, Closing
<1>4. CASE pc \in Connecting /\ op[t].pc \in Connecting \union Unplugging
  <2>1. Phases(t)'
    BY <1>1, <1>2, <1>3, <1>4 DEF Phases, Working, Owns, Within, Holding, Connecting, Unplugging,
       Closing, Reloads
  <2>2. Locking(t)'
    BY <1>1, <1>2, <1>3, <1>4 DEF Locking, Phases, Working, Owns, Connecting, Unplugging, Closing,
       Reloads
  <2> QED BY <2>1, <2>2
<1>5. CASE pc \in Unplugging /\ op[t].pc \in Unplugging
  <2>1. Phases(t)'
    BY <1>1, <1>2, <1>3, <1>5 DEF Phases, Working, Owns, Within, Holding, Connecting, Unplugging,
       Closing, Reloads
  <2>2. Locking(t)'
    BY <1>1, <1>2, <1>3, <1>5 DEF Locking, Phases, Working, Owns, Connecting, Unplugging, Closing,
       Reloads
  <2> QED BY <2>1, <2>2
<1>6. CASE pc \in Closing /\ (op[t].pc \in Closing \/ (Owns(t) /\ op[t].pc \in Connecting))
  <2>1. Phases(t)'
    BY <1>1, <1>2, <1>3, <1>6 DEF Phases, Working, Owns, Within, Holding, Connecting, Unplugging,
       Closing, Reloads
  <2>2. Locking(t)'
    BY <1>1, <1>2, <1>3, <1>6 DEF Locking, Phases, Working, Owns, Connecting, Unplugging, Closing,
       Reloads
  <2> QED BY <2>1, <2>2
<1> QED BY <1>4, <1>5, <1>6 DEF Within

LEMMA WithinKeeps ==
  ASSUME IInv, Types', NEW t \in Tasks, NEW r \in Runtimes, NEW pc, NEW todo,
         Within(t, r, pc, todo), Settled(t, r),
         Agenda(t)', ToolsOf(r)', Connections(r)'
  PROVE  IInv'
<1>1. /\ r \in Runtimes /\ rt[r].exec # "none" /\ Working(t)
      /\ op[t].pc \in Closing => r # serving
  BY HasRuntime DEF IInv, Within
<1>2. rt'[r].exec # "none"
  BY <1>1 DEF Settled
<1>3. On(t, r) /\ Working(t)' /\ Phases(t)' /\ Locking(t)'
  BY <1>2, WithinIsOn, WithinPhases DEF IInv
<1>4. op'[t].op = op[t].op /\ op'[t].pc = pc /\ op'[t].r = r /\ UNCHANGED <<serving, lock, file>>
  BY DEF Within, Did
<1>5. Built(t)'
  <2>1. SUFFICES ASSUME pc \in Connecting, op[t].op \in {"startup", "update"} PROVE Built(t)'
    BY <1>4 DEF Built
  <2>2. op[t].pc \in Connecting /\ op[t].pc \notin Closing
    BY <1>1, <2>1 DEF IInv, Workers, Phases, Owns, Within, Connecting, Unplugging, Closing
  <2>3. /\ rt[r].exec = "open" /\ rt[r].providers = "open"
        /\ rt[r].cfg \in Configs
        /\ op[t].op = "startup" => rt[r].cfg = file
    BY <2>1, <2>2 DEF Built, IInv, Serving, Within
  <2>4. rt'[r].exec = "open" /\ rt'[r].providers = "open" /\ rt'[r].cfg = rt[r].cfg
    BY <2>2, <2>3 DEF Settled
  <2> QED BY <1>4, <2>3, <2>4 DEF Built
<1>6. ServesTheFile'
  <2>1. ASSUME serving # None
        PROVE  /\ rt'[serving].cfg = file
               /\ rt'[serving].exec = "open" /\ rt'[serving].providers = "open"
    <3>1. /\ rt[serving].cfg = file
          /\ rt[serving].exec = "open" /\ rt[serving].providers = "open"
          /\ serving \in Runtimes
      BY <2>1 DEF IInv, Types, Serving, ServesTheFile
    <3>2. CASE serving = r
      BY <1>1, <3>1, <3>2 DEF Settled
    <3>3. CASE serving # r
      BY <3>1, <3>3 DEF Within
    <3> QED BY <3>2, <3>3
  <2> QED BY <1>4, <2>1 DEF ServesTheFile
<1>7. Ended(r)'
  BY <1>4 DEF Ended, Unattended
<1> QED BY <1>1, <1>2, <1>3, <1>5, <1>6, <1>7, Local

-----------------------------------------------------------------------------
\* The connections of the runtime t works on: only t can hold one.

LEMMA HeldByOne ==
  ASSUME Workers, NEW t \in Tasks, NEW r \in Runtimes, On(t, r), NEW s
  PROVE  /\ Held(r, s) = (IF s \in ToSet(rt[r].stacks) THEN 1 ELSE 0)
                       + (IF Holds(t, r, s) THEN 1 ELSE 0)
         /\ Held(r, s)' = (IF s \in ToSet(rt'[r].stacks) THEN 1 ELSE 0)
                        + (IF Holds(t, r, s)' THEN 1 ELSE 0)
<1>1. ASSUME NEW u \in Tasks, u # t PROVE ~Holds(u, r, s) /\ ~Holds(u, r, s)'
  <2>1. op'[u] = op[u] /\ (Working(u) => op[u].r # r)
    BY <1>1 DEF On
  <2> QED BY <2>1 DEF Holds, Working
<1> QED BY <1>1 DEF Held

LEMMA SameConnections ==
  ASSUME IInv, NEW t \in Tasks, NEW r \in Runtimes, NEW pc, NEW todo,
         Within(t, r, pc, todo),
         rt'[r].stacks = rt[r].stacks, rt'[r].tools = rt[r].tools,
         rt'[r].regs = rt[r].regs, open'[r] = open[r], lost' = lost,
         \/ pc \notin Holding /\ op[t].pc \notin Holding
         \/ pc \in Holding /\ op[t].pc \in Holding /\ todo = op[t].todo
  PROVE  ToolsOf(r)' /\ Connections(r)'
<1>1. /\ r \in Runtimes /\ On(t, r) /\ op'[t].pc = pc /\ op'[t].r = r /\ op'[t].todo = todo
      /\ ToolsOf(r) /\ Connections(r)
  BY HasRuntime, WithinIsOn DEF IInv, Within, Did, Runtimely
<1>2. \A s \in Servers : Holds(t, r, s)' <=> Holds(t, r, s)
  <2>1. CASE pc \notin Holding /\ op[t].pc \notin Holding
    BY <1>1, <2>1 DEF Holds, Holding
  <2>2. CASE pc \in Holding /\ op[t].pc \in Holding /\ todo = op[t].todo
    <3>1. op[t].r = r /\ Head1(t)' = Head1(t)
      BY <1>1, <2>2 DEF Within, Head1
    <3> QED BY <1>1, <2>2, <3>1 DEF Holds, Holding
  <2> QED BY <2>1, <2>2
<1>3. \A s \in Servers : Held(r, s)' = Held(r, s)
  BY <1>1, <1>2, HeldByOne DEF IInv
<1>4. ToolsOf(r)'
  BY <1>1 DEF ToolsOf
<1>5. Connections(r)'
  BY <1>1, <1>3 DEF Connections
<1> QED BY <1>4, <1>5

-----------------------------------------------------------------------------
\* Steps that only move an operation on.

Onward(t, pc) ==
  \/ pc \in Connecting /\ op[t].pc \in Connecting \union Unplugging
  \/ pc \in Unplugging /\ op[t].pc \in Unplugging
  \/ pc \in Closing /\ (op[t].pc \in Closing \/ (Owns(t) /\ op[t].pc \in Connecting))

LEMMA StayKeeps ==
  ASSUME IInv, NEW t \in Tasks, NEW r \in Runtimes, NEW pc, NEW todo,
         Working(t), op[t].r = r, Did(t, op[t].op, pc, r, op[t].old, todo), Onward(t, pc),
         \/ pc \notin Holding /\ op[t].pc \notin Holding
         \/ pc \in Holding /\ op[t].pc \in Holding /\ todo = op[t].todo,
         UNCHANGED <<rt, open, lost, serving, lock, file>>, Agenda(t)'
  PROVE  IInv'
<1>1. pc \in Holding => todo # <<>>
  BY DEF IInv, Workers, Phases, Holding
<1>2. Within(t, r, pc, todo)
  BY <1>1 DEF Within, Onward
<1>3. Types'
  BY DEF IInv, Types, Did
<1>4. Settled(t, r)
  BY DEF Settled
<1>5. ToolsOf(r)' /\ Connections(r)'
  BY <1>2, SameConnections
<1> QED BY <1>2, <1>3, <1>4, <1>5, WithinKeeps

\* To an await that has nothing to close yet.
LEMMA MoveKeeps ==
  ASSUME IInv, NEW t \in Tasks, NEW pc \in {"connect", "failed", "exec"}, NEW todo,
         Working(t), Did(t, op[t].op, pc, op[t].r, op[t].old, todo), Onward(t, pc),
         op[t].pc \notin Holding,
         UNCHANGED <<rt, open, lost, serving, lock, file>>
  PROVE  IInv'
<1>1. PICK r \in Runtimes : op[t].r = r
  BY HasRuntime DEF IInv
<1>2. Agenda(t)'
  BY DEF Did, Agenda
<1> QED BY <1>1, <1>2, StayKeeps DEF Holding

LEMMA SkipKeeps ==
  ASSUME IInv, NEW t \in Tasks, Skip(t)
  PROVE  IInv'
<1>1. /\ op[t].pc = "connect" /\ op[t].todo # <<>> /\ Working(t) /\ op[t].pc \notin Holding
      /\ UNCHANGED <<rt, open, lost, serving, lock, file>>
  BY DEF Skip, Working, Holding
<1>2. Onward(t, "connect") /\ Onward(t, "failed")
  BY <1>1 DEF Onward, Connecting
<1>3. CASE Proceed(t, "connect", Tail(op[t].todo))
  <2>1. Tail(op[t].todo) \in Seq(Servers)
    BY <1>1, OperationFields, HeadAndTail DEF IInv
  <2>2. Did(t, op[t].op, "connect", op[t].r, op[t].old, Tail(op[t].todo))
    BY <1>3, <2>1, ProceedDid DEF IInv, Phase, Connecting
  <2> QED BY <1>1, <1>2, <2>2, MoveKeeps
<1>4. CASE Step(t, "failed")
  <2>1. Did(t, op[t].op, "failed", op[t].r, op[t].old, op[t].todo)
    BY <1>4, StepDid DEF IInv, Phase, Connecting
  <2> QED BY <1>1, <1>2, <2>1, MoveKeeps
<1> QED BY <1>3, <1>4 DEF Skip

\* A failing connect or write, the end of a try, and the close that follows
\* what an operation built.
LEMMA TurnKeeps ==
  ASSUME IInv, NEW t \in Tasks, NEW pc \in {"failed", "exec"}, Step(t, pc),
         op[t].pc \in {"connect", "failed"}, pc = "exec" => Owns(t),
         UNCHANGED <<rt, open, lost, serving, lock, file>>
  PROVE  IInv'
<1>1. Working(t) /\ op[t].pc \notin Holding /\ Onward(t, pc)
  BY DEF Working, Holding, Onward, Connecting, Closing
<1>2. Did(t, op[t].op, pc, op[t].r, op[t].old, op[t].todo)
  BY StepDid DEF IInv, Phase, Connecting, Closing
<1> QED BY <1>1, <1>2, MoveKeeps

LEMMA ReplugKeeps ==
  ASSUME IInv, NEW t \in Tasks, Replug(t)
  PROVE  IInv'
<1>1. /\ op[t].pc = "unplug" /\ Proceed(t, "connect", op[t].done)
      /\ UNCHANGED <<rt, open, lost, serving, lock, file>>
  BY DEF Replug
<1>2. Working(t) /\ op[t].pc \notin Holding /\ Onward(t, "connect")
  BY <1>1 DEF Working, Holding, Onward, Connecting, Unplugging
<1>3. Did(t, op[t].op, "connect", op[t].r, op[t].old, op[t].done)
  BY <1>1, OperationFields, ProceedDid DEF IInv, Phase, Connecting
<1> QED BY <1>1, <1>2, <1>3, MoveKeeps

LEMMA McpClosedKeeps ==
  ASSUME IInv, NEW t \in Tasks, McpClosed(t)
  PROVE  IInv'
<1>1. /\ op[t].pc = "mcp" /\ op[t].todo = <<>> /\ Step(t, "providers")
      /\ UNCHANGED <<rt, open, lost, serving, lock, file>>
  BY DEF McpClosed
<1>2. Working(t) /\ Onward(t, "providers")
  BY <1>1 DEF Working, Onward, Closing
<1>3. Did(t, op[t].op, "providers", op[t].r, op[t].old, op[t].todo)
  BY <1>1, StepDid DEF IInv, Phase, Closing
<1>4. PICK r \in Runtimes : op[t].r = r
  BY <1>2, HasRuntime DEF IInv
<1>5. rt[r].exec = "closed" /\ rt[r].stacks = <<>>
  <2>1. rt[r].exec = "closed" /\ ToSet(rt[r].stacks) \subseteq ToSet(<<>>)
    BY <1>1, <1>4 DEF IInv, Agenda
  <2>2. rt[r].stacks \in Seq(Servers)
    BY DEF IInv, Types, Runtime
  <2>3. ToSet(<<>>) = {}
    BY DEF ToSet
  <2>4. ToSet(rt[r].stacks) = {}
    BY <2>1, <2>3
  <2> QED BY <2>1, <2>2, <2>4, Listed
<1>6. Agenda(t)'
  BY <1>1, <1>3, <1>4, <1>5 DEF Did, Agenda
<1> QED BY <1>1, <1>2, <1>3, <1>4, <1>6, StayKeeps DEF Holding

\* A failing listing.
LEMMA ListedBadlyKeeps ==
  ASSUME IInv, NEW t \in Tasks, op[t].pc = "list", Step(t, "drop"),
         UNCHANGED <<rt, open, lost, serving, lock, file>>
  PROVE  IInv'
<1>1. Working(t) /\ Onward(t, "drop")
  BY DEF Working, Onward, Connecting
<1>2. Did(t, op[t].op, "drop", op[t].r, op[t].old, op[t].todo)
  BY StepDid DEF IInv, Phase, Connecting
<1>3. PICK r \in Runtimes : op[t].r = r
  BY <1>1, HasRuntime DEF IInv
<1>4. Agenda(t)'
  BY <1>2, <1>3 DEF Did, Agenda, Head1, IInv
<1> QED BY <1>1, <1>2, <1>3, <1>4, StayKeeps DEF Holding

\* The exec sessions are closed, or their close is cancelled.
LEMMA ExecClosedKeeps ==
  ASSUME IInv, NEW t \in Tasks, op[t].pc = "exec",
         rt' = [rt EXCEPT ![op[t].r].exec = "closed"],
         Proceed(t, "mcp", rt[op[t].r].stacks),
         UNCHANGED <<open, lost, serving, lock, file>>
  PROVE  IInv'
<1>1. Working(t) /\ Onward(t, "mcp")
  BY DEF Working, Onward, Closing
<1>2. PICK r \in Runtimes : op[t].r = r
  BY <1>1, HasRuntime DEF IInv
<1>3. rt \in [Runtimes -> Runtime] /\ rt[r] \in Runtime
  BY DEF IInv, Types
<1>4. rt' = [rt EXCEPT ![r] = [rt[r] EXCEPT !.exec = "closed"]]
  BY <1>2
<1>5. [rt[r] EXCEPT !.exec = "closed"] \in Runtime
  BY <1>3 DEF Runtime
<1>6. /\ rt' \in [Runtimes -> Runtime] /\ rt'[r] = [rt[r] EXCEPT !.exec = "closed"]
      /\ \A q \in Runtimes : q # r => rt'[q] = rt[q]
  BY <1>3, <1>4, <1>5
<1>7. /\ rt'[r].exec = "closed" /\ rt'[r].cfg = rt[r].cfg /\ rt'[r].providers = rt[r].providers
      /\ rt'[r].stacks = rt[r].stacks /\ rt'[r].tools = rt[r].tools /\ rt'[r].regs = rt[r].regs
  BY <1>3, <1>6 DEF Runtime
<1>8. rt[r].stacks \in Seq(Servers)
  BY <1>3 DEF Runtime
<1>9. Did(t, op[t].op, "mcp", r, op[t].old, rt[r].stacks)
  BY <1>2, <1>8, ProceedDid DEF IInv, Phase, Closing
<1>10. Within(t, r, "mcp", rt[r].stacks)
  BY <1>1, <1>2, <1>6, <1>9 DEF Within, Onward, Holding
<1>11. Types'
  BY <1>6, <1>9 DEF IInv, Types, Did
<1>12. Settled(t, r)
  BY <1>7 DEF Settled, Closing
<1>13. ToolsOf(r)' /\ Connections(r)'
  BY <1>7, <1>10, SameConnections DEF Holding
<1>14. Agenda(t)'
  <2>1. Distinct(rt[r].stacks)
    BY DEF IInv, Runtimely, Connections
  <2> QED BY <1>7, <1>9, <2>1 DEF Did, Agenda
<1> QED BY <1>10, <1>11, <1>12, <1>13, <1>14, WithinKeeps

-----------------------------------------------------------------------------
\* Steps that open, register, unregister and close a connection.

\* What they start from: the runtime of t, the server in its hands, and what
\* is known of the runtime.
LEMMA AtHand ==
  ASSUME IInv, NEW t \in Tasks, Working(t), op[t].todo # <<>>
  PROVE  /\ Head1(t) \in Servers /\ Tail(op[t].todo) \in Seq(Servers)
         /\ ToSet(op[t].todo) = ToSet(Tail(op[t].todo)) \union {Head1(t)}
         /\ Distinct(op[t].todo) =>
              Distinct(Tail(op[t].todo)) /\ Head1(t) \notin ToSet(Tail(op[t].todo))
         /\ op[t].r \in Runtimes
         /\ rt[op[t].r] \in Runtime /\ rt[op[t].r].stacks \in Seq(Servers)
         /\ ToolsOf(op[t].r) /\ Connections(op[t].r) /\ Agenda(t)
<1>1. op[t].todo \in Seq(Servers)
  BY OperationFields DEF IInv
<1>2. op[t].r \in Runtimes
  BY HasRuntime DEF IInv
<1>3. rt[op[t].r] \in Runtime /\ rt[op[t].r].stacks \in Seq(Servers)
  BY <1>2 DEF IInv, Types, Runtime
<1>4. ToolsOf(op[t].r) /\ Connections(op[t].r) /\ Agenda(t)
  BY <1>2 DEF IInv, Runtimely
<1>5. /\ Head(op[t].todo) \in Servers /\ Tail(op[t].todo) \in Seq(Servers)
      /\ ToSet(op[t].todo) = ToSet(Tail(op[t].todo)) \union {Head(op[t].todo)}
      /\ Distinct(op[t].todo) =>
           Distinct(Tail(op[t].todo)) /\ Head(op[t].todo) \notin ToSet(Tail(op[t].todo))
  BY <1>1, HeadAndTail
<1> QED BY <1>2, <1>3, <1>4, <1>5 DEF Head1

\* The connections of r after the step, server by server.
LEMMA Recounted ==
  ASSUME IInv, Types', NEW t \in Tasks, NEW r \in Runtimes, On(t, r),
         Distinct(rt'[r].stacks), lost \subseteq lost',
         \A s \in Servers :
           LET before == (IF s \in ToSet(rt[r].stacks) THEN 1 ELSE 0)
                         + (IF Holds(t, r, s) THEN 1 ELSE 0)
               after  == (IF s \in ToSet(rt'[r].stacks) THEN 1 ELSE 0)
                         + (IF Holds(t, r, s)' THEN 1 ELSE 0)
           IN \/ open'[r][s] - open[r][s] = after - before
              \/ r \in lost' /\ open'[r][s] = open[r][s] /\ after <= before
  PROVE  Connections(r)'
<1> SUFFICES ASSUME NEW s \in Servers
             PROVE  open'[r][s] >= Held(r, s)' /\ (r \notin lost' => open'[r][s] = Held(r, s)')
  BY DEF Connections
<1>1. /\ open[r][s] >= Held(r, s) /\ (r \notin lost => open[r][s] = Held(r, s))
      /\ open[r][s] \in Int /\ open'[r][s] \in Int
  BY DEF IInv, Types, Runtimely, Connections
<1>2. /\ Held(r, s) = (IF s \in ToSet(rt[r].stacks) THEN 1 ELSE 0)
                    + (IF Holds(t, r, s) THEN 1 ELSE 0)
      /\ Held(r, s)' = (IF s \in ToSet(rt'[r].stacks) THEN 1 ELSE 0)
                     + (IF Holds(t, r, s)' THEN 1 ELSE 0)
  BY HeldByOne DEF IInv
<1>3. Held(r, s) \in Int /\ Held(r, s)' \in Int
  BY <1>2
<1>4. \/ open'[r][s] - open[r][s] = Held(r, s)' - Held(r, s)
      \/ r \in lost' /\ open'[r][s] = open[r][s] /\ Held(r, s)' <= Held(r, s)
  BY <1>2
<1> QED BY <1>1, <1>3, <1>4

LEMMA SameTools ==
  ASSUME NEW r \in Runtimes, ToolsOf(r), rt'[r].stacks = rt[r].stacks,
         rt'[r].tools = rt[r].tools, rt'[r].regs = rt[r].regs
  PROVE  ToolsOf(r)'
BY DEF ToolsOf

LEMMA ConnectKeeps ==
  ASSUME IInv, NEW t \in Tasks, Connect(t)
  PROVE  IInv'
<1>1. /\ op[t].pc = "connect" /\ op[t].todo # <<>> /\ ~Plugged(t)
      /\ open' = [open EXCEPT ![op[t].r][Head1(t)] = @ + 1] /\ Step(t, "list")
      /\ UNCHANGED <<rt, lost, serving, lock, file>> /\ Working(t)
  BY DEF Connect, Working
<1>2. PICK r \in Runtimes, s \in Servers : op[t].r = r /\ Head1(t) = s
  BY <1>1, AtHand
<1>3. /\ open' \in [Runtimes -> [Servers -> Int]]
      /\ open'[r][s] = open[r][s] + 1
      /\ \A u \in Servers : u # s => open'[r][u] = open[r][u]
      /\ \A q \in Runtimes : q # r => open'[q] = open[q]
  <2>1. open \in [Runtimes -> [Servers -> Int]] /\ open[r] \in [Servers -> Int]
    BY DEF IInv, Types
  <2>2. open' = [open EXCEPT ![r][s] = @ + 1]
    BY <1>1, <1>2
  <2> QED BY <2>1, <2>2
<1>4. Did(t, op[t].op, "list", r, op[t].old, op[t].todo)
  BY <1>1, <1>2, StepDid DEF IInv, Phase, Connecting
<1>5. Within(t, r, "list", op[t].todo)
  BY <1>1, <1>2, <1>3, <1>4 DEF Within, Connecting
<1>6. Types'
  BY <1>1, <1>3, <1>4 DEF IInv, Types, Did
<1>7. s \notin ToSet(rt[r].stacks)
  BY <1>1, <1>2, AtHand, Listed DEF Plugged
<1>8. Agenda(t)' /\ Settled(t, r) /\ ToolsOf(r)'
  <2>1. Agenda(t)'
    BY <1>1, <1>2, <1>4, <1>7 DEF Did, Agenda, Head1
  <2> QED BY <1>1, <1>2, <2>1, SameTools DEF Settled, IInv, Runtimely
<1>9. Connections(r)'
  <2>1. \A u : ~Holds(t, r, u) /\ (Holds(t, r, u)' <=> u = s)
    BY <1>1, <1>2, <1>4 DEF Holds, Did, Head1
  <2>2. On(t, r) /\ Distinct(rt'[r].stacks) /\ open[r] \in [Servers -> Int]
    BY <1>1, <1>5, WithinIsOn DEF IInv, Types, Runtimely, Connections
  <2> QED BY <1>1, <1>2, <1>3, <1>6, <1>7, <2>1, <2>2, Recounted
<1> QED BY <1>5, <1>6, <1>8, <1>9, WithinKeeps

\* What was opened and not registered is closed again.
LEMMA DropKeeps ==
  ASSUME IInv, NEW t \in Tasks, Drop(t)
  PROVE  IInv'
<1>1. /\ op[t].pc = "drop" /\ open' = [open EXCEPT ![op[t].r][Head1(t)] = @ - 1]
      /\ Step(t, "failed")
      /\ UNCHANGED <<rt, lost, serving, lock, file>> /\ Working(t) /\ op[t].todo # <<>>
  BY DEF Drop, Working, IInv, Workers, Phases
<1>2. PICK r \in Runtimes, s \in Servers : op[t].r = r /\ Head1(t) = s
  BY <1>1, AtHand
<1>3. /\ open' \in [Runtimes -> [Servers -> Int]]
      /\ open'[r][s] = open[r][s] - 1
      /\ \A u \in Servers : u # s => open'[r][u] = open[r][u]
      /\ \A q \in Runtimes : q # r => open'[q] = open[q]
  <2>1. open \in [Runtimes -> [Servers -> Int]] /\ open[r] \in [Servers -> Int]
    BY DEF IInv, Types
  <2>2. open' = [open EXCEPT ![r][s] = @ - 1]
    BY <1>1, <1>2
  <2> QED BY <2>1, <2>2
<1>4. Did(t, op[t].op, "failed", r, op[t].old, op[t].todo)
  BY <1>1, <1>2, StepDid DEF IInv, Phase, Connecting
<1>5. Within(t, r, "failed", op[t].todo)
  BY <1>1, <1>2, <1>3, <1>4 DEF Within, Connecting
<1>6. Types'
  BY <1>1, <1>3, <1>4 DEF IInv, Types, Did
<1>7. s \notin ToSet(rt[r].stacks)
  BY <1>1, <1>2, AtHand DEF Agenda
<1>8. Agenda(t)' /\ Settled(t, r) /\ ToolsOf(r)'
  <2>1. Agenda(t)'
    BY <1>4 DEF Did, Agenda
  <2> QED BY <1>1, <1>2, <2>1, SameTools DEF Settled, IInv, Runtimely
<1>9. Connections(r)'
  <2>1. \A u : (Holds(t, r, u) <=> u = s) /\ ~Holds(t, r, u)'
    BY <1>1, <1>2, <1>4 DEF Holds, Did, Head1
  <2>2. On(t, r) /\ Distinct(rt'[r].stacks) /\ open[r] \in [Servers -> Int]
    BY <1>1, <1>5, WithinIsOn DEF IInv, Types, Runtimely, Connections
  <2> QED BY <1>1, <1>2, <1>3, <1>6, <1>7, <2>1, <2>2, Recounted
<1> QED BY <1>5, <1>6, <1>8, <1>9, WithinKeeps

\* A cancelled listing and a close that fails leave the connection behind.
LEMMA LeavesKeeps ==
  ASSUME IInv, NEW t \in Tasks, NEW pc \in {"failed", "exec", "providers"},
         op[t].pc \in Holding, Onward(t, pc), pc = "providers" => op[t].pc = "closing",
         Did(t, op[t].op, pc, op[t].r, op[t].old, op[t].todo),
         lost' = lost \union {op[t].r}, UNCHANGED <<rt, open, serving, lock, file>>
  PROVE  IInv'
<1>1. Working(t) /\ op[t].todo # <<>>
  BY DEF Working, Holding, IInv, Workers, Phases
<1>2. PICK r \in Runtimes, s \in Servers : op[t].r = r /\ Head1(t) = s
  BY <1>1, AtHand
<1>3. Did(t, op[t].op, pc, r, op[t].old, op[t].todo) /\ lost' = lost \union {r}
  BY <1>2
<1>4. Within(t, r, pc, op[t].todo)
  BY <1>1, <1>2, <1>3 DEF Within, Onward
<1>5. Types'
  BY <1>3 DEF IInv, Types, Did
<1>6. Settled(t, r) /\ ToolsOf(r)'
  BY SameTools DEF Settled, IInv, Runtimely
<1>7. Agenda(t)'
  <2>1. pc = "providers" => rt[r].exec = "closed"
    BY <1>1, <1>2, AtHand DEF Agenda
  <2> QED BY <1>3, <2>1 DEF Did, Agenda
<1>8. Connections(r)'
  <2>1. \A u : ~Holds(t, r, u)'
    BY <1>3 DEF Holds, Did
  <2>2. On(t, r) /\ Distinct(rt'[r].stacks) /\ open[r] \in [Servers -> Int]
    BY <1>4, WithinIsOn DEF IInv, Types, Runtimely, Connections
  <2> QED BY <1>2, <1>3, <1>5, <2>1, <2>2, Recounted
<1> QED BY <1>4, <1>5, <1>6, <1>7, <1>8, WithinKeeps

\* What registering and closing do to a runtime.
LEMMA RegisteredTyped ==
  ASSUME NEW rec \in Runtime, NEW s \in Servers
  PROVE  LET new == Registered(rec, s) IN
         /\ new \in Runtime /\ new.cfg = rec.cfg /\ new.exec = rec.exec
         /\ new.providers = rec.providers
         /\ new.tools = rec.tools \union Offers[s] /\ new.stacks = Append(rec.stacks, s)
         /\ new.regs[s] = Offers[s] /\ \A u \in Servers : u # s => new.regs[u] = rec.regs[u]
<1> DEFINE names == UNION {Offers[u] : u \in Servers}
           regs == [rec.regs EXCEPT ![s] = Offers[s]]
           stacks == Append(rec.stacks, s)
           tools == rec.tools \union Offers[s]
<1>1. /\ rec.regs \in [Servers -> SUBSET names] /\ rec.stacks \in Seq(Servers)
      /\ rec.tools \subseteq names /\ Offers[s] \subseteq names
  BY DEF Runtime
<1>2. /\ regs \in [Servers -> SUBSET names] /\ regs[s] = Offers[s]
      /\ \A u \in Servers : u # s => regs[u] = rec.regs[u]
  BY <1>1
<1>3. stacks \in Seq(Servers) /\ tools \subseteq names
  BY <1>1, AppendProperties
<1> DEFINE new == [rec EXCEPT !.tools = tools, !.regs = regs, !.stacks = stacks]
<1>4. Registered(rec, s) = new
  BY DEF Registered
<1> HIDE DEF names, regs, stacks, tools
<1>5. /\ new.tools = tools /\ new.regs = regs /\ new.stacks = stacks
      /\ new.cfg = rec.cfg /\ new.exec = rec.exec /\ new.providers = rec.providers
  BY DEF Runtime
<1>6. new \in Runtime
  <2>1. rec \in Runtime /\ names = UNION {Offers[u] : u \in Servers}
    BY DEF names
  <2> QED BY <1>2, <1>3, <2>1 DEF Runtime
<1> QED BY <1>2, <1>4, <1>5, <1>6 DEF regs, stacks, tools

LEMMA DetachedTyped ==
  ASSUME NEW rec \in Runtime, NEW s \in Servers, Distinct(rec.stacks)
  PROVE  LET new == Detached(rec, s) IN
         /\ new \in Runtime /\ new.cfg = rec.cfg /\ new.exec = rec.exec
         /\ new.providers = rec.providers
         /\ new.tools = rec.tools \ rec.regs[s] /\ new.stacks = Without(rec.stacks, s)
         /\ \A u \in Servers : u # s => new.regs[u] = rec.regs[u]
<1> DEFINE names == UNION {Offers[u] : u \in Servers}
           regs == [rec.regs EXCEPT ![s] = {}]
           stacks == Without(rec.stacks, s)
           tools == rec.tools \ rec.regs[s]
<1>1. /\ rec.regs \in [Servers -> SUBSET names] /\ rec.stacks \in Seq(Servers)
      /\ rec.tools \subseteq names
  BY DEF Runtime
<1>2. /\ regs \in [Servers -> SUBSET names]
      /\ \A u \in Servers : u # s => regs[u] = rec.regs[u]
  BY <1>1
<1>3. stacks \in Seq(Servers) /\ tools \subseteq names
  BY <1>1, Popped
<1> DEFINE new == [rec EXCEPT !.tools = tools, !.regs = regs, !.stacks = stacks]
<1>4. Detached(rec, s) = new
  BY DEF Detached
<1> HIDE DEF names, regs, stacks, tools
<1>5. /\ new.tools = tools /\ new.regs = regs /\ new.stacks = stacks
      /\ new.cfg = rec.cfg /\ new.exec = rec.exec /\ new.providers = rec.providers
  BY DEF Runtime
<1>6. new \in Runtime
  <2>1. rec \in Runtime /\ names = UNION {Offers[u] : u \in Servers}
    BY DEF names
  <2> QED BY <1>2, <1>3, <2>1 DEF Runtime
<1> QED BY <1>2, <1>4, <1>5, <1>6 DEF regs, stacks, tools

LEMMA RuntimeChanges ==
  ASSUME Types, NEW r \in Runtimes, NEW rec \in Runtime, rt' = [rt EXCEPT ![r] = rec]
  PROVE  /\ rt' \in [Runtimes -> Runtime] /\ rt'[r] = rec
         /\ \A q \in Runtimes : q # r => rt'[q] = rt[q]
BY DEF Types

\* Registering makes the connection of t one of the runtime's.
LEMMA RegisterKeeps ==
  ASSUME IInv, NEW t \in Tasks, op[t].pc = "list",
         Offers[Head1(t)] \intersect rt[op[t].r].tools = {},
         rt' = [rt EXCEPT ![op[t].r] = Registered(rt[op[t].r], Head1(t))],
         Proceed(t, "connect", Tail(op[t].todo)),
         UNCHANGED <<open, lost, serving, lock, file>>
  PROVE  IInv'
<1>1. Working(t) /\ op[t].todo # <<>>
  BY DEF Working, Holding, IInv, Workers, Phases
<1>2. PICK r \in Runtimes, s \in Servers : op[t].r = r /\ Head1(t) = s
  BY <1>1, AtHand
<1>3. /\ rt[r] \in Runtime /\ rt[r].stacks \in Seq(Servers) /\ ToolsOf(r) /\ Connections(r)
      /\ Agenda(t) /\ Tail(op[t].todo) \in Seq(Servers)
  BY <1>1, <1>2, AtHand
<1> DEFINE new == Registered(rt[r], s)
<1>4. /\ new \in Runtime /\ new.cfg = rt[r].cfg /\ new.exec = rt[r].exec
      /\ new.providers = rt[r].providers
      /\ new.tools = rt[r].tools \union Offers[s] /\ new.stacks = Append(rt[r].stacks, s)
      /\ new.regs[s] = Offers[s] /\ \A u \in Servers : u # s => new.regs[u] = rt[r].regs[u]
  BY <1>3, RegisteredTyped
<1>5. rt' = [rt EXCEPT ![r] = new]
  BY <1>2
<1> HIDE DEF new
<1>6. /\ rt' \in [Runtimes -> Runtime] /\ rt'[r] = new
      /\ \A q \in Runtimes : q # r => rt'[q] = rt[q]
  BY <1>4, <1>5, RuntimeChanges DEF IInv
<1>7. Did(t, op[t].op, "connect", r, op[t].old, Tail(op[t].todo))
  BY <1>2, <1>3, ProceedDid DEF IInv, Phase, Connecting
<1>8. Within(t, r, "connect", Tail(op[t].todo))
  BY <1>1, <1>2, <1>6, <1>7 DEF Within, Connecting, Holding
<1>9. Types'
  BY <1>6, <1>7 DEF IInv, Types, Did
<1>10. /\ s \notin ToSet(rt[r].stacks) /\ Distinct(new.stacks)
       /\ ToSet(new.stacks) = ToSet(rt[r].stacks) \union {s}
  <2>1. s \notin ToSet(rt[r].stacks) /\ Distinct(rt[r].stacks)
    BY <1>2, <1>3 DEF Agenda, Connections
  <2> QED BY <1>3, <1>4, <2>1, Added
<1>11. ToolsOf(r)'
  <2> DEFINE old == ToSet(rt[r].stacks)
  <2>1. /\ rt[r].tools = UNION {Offers[u] : u \in old} /\ old \subseteq Servers
        /\ \A u \in old : rt[r].regs[u] = Offers[u]
        /\ \A u, v \in old : u # v => Offers[u] \intersect Offers[v] = {}
    BY <1>3, Listed DEF ToolsOf
  <2>2. Offers[s] \intersect rt[r].tools = {}
    BY <1>2
  <2>3. \A u \in old : Offers[u] \intersect Offers[s] = {}
    BY <2>1, <2>2
  <2>4. new.tools = UNION {Offers[u] : u \in old \union {s}}
    BY <1>4, <2>1
  <2> HIDE DEF old
  <2>5. \A u \in old \union {s} : new.regs[u] = Offers[u]
    BY <1>4, <2>1
  <2>6. \A u, v \in old \union {s} : u # v => Offers[u] \intersect Offers[v] = {}
    BY <2>1, <2>3
  <2>7. ToSet(new.stacks) = old \union {s}
    BY <1>10 DEF old
  <2> QED BY <1>6, <2>4, <2>5, <2>6, <2>7 DEF ToolsOf
<1>12. Connections(r)'
  <2>1. \A u : (Holds(t, r, u) <=> u = s) /\ ~Holds(t, r, u)'
    BY <1>1, <1>2, <1>7 DEF Holds, Did, Head1
  <2>2. On(t, r) /\ open[r] \in [Servers -> Int]
    BY <1>8, WithinIsOn DEF IInv, Types
  <2> QED BY <1>2, <1>6, <1>9, <1>10, <2>1, <2>2, Recounted
<1>13. Agenda(t)' /\ Settled(t, r)
  BY <1>4, <1>6, <1>7 DEF Did, Agenda, Settled
<1> QED BY <1>8, <1>9, <1>11, <1>12, <1>13, WithinKeeps

\* close_server takes the connection of its server into the hands of t ...
LEMMA UnplugKeeps ==
  ASSUME IInv, NEW t \in Tasks, Unplug(t)
  PROVE  IInv'
<1> DEFINE pc == IF op[t].pc = "unplug" THEN "unplugging" ELSE "closing"
<1>1. /\ op[t].pc \in {"unplug", "mcp"} /\ op[t].todo # <<>> /\ Step(t, pc)
      /\ rt' = [rt EXCEPT ![op[t].r] = Detached(rt[op[t].r], Head1(t))]
      /\ UNCHANGED <<open, lost, serving, lock, file>> /\ Working(t)
  BY DEF Unplug, Working
<1>2. /\ pc \in Phase /\ pc \in Holding /\ op[t].pc \notin Holding
      /\ pc = "unplugging" <=> op[t].pc = "unplug"
      /\ pc = "closing" <=> op[t].pc = "mcp"
      /\ \/ pc \in Unplugging /\ op[t].pc \in Unplugging
         \/ pc \in Closing /\ op[t].pc \in Closing
  BY <1>1 DEF Phase, Holding, Unplugging, Closing
<1> HIDE DEF pc
<1>3. PICK r \in Runtimes, s \in Servers : op[t].r = r /\ Head1(t) = s
  BY <1>1, AtHand
<1>4. /\ rt[r] \in Runtime /\ rt[r].stacks \in Seq(Servers) /\ ToolsOf(r) /\ Connections(r)
      /\ Agenda(t) /\ ToSet(op[t].todo) = ToSet(Tail(op[t].todo)) \union {s}
      /\ Distinct(op[t].todo) => s \notin ToSet(Tail(op[t].todo))
  BY <1>1, <1>3, AtHand
<1> DEFINE new == Detached(rt[r], s)
<1>5. /\ new \in Runtime /\ new.cfg = rt[r].cfg /\ new.exec = rt[r].exec
      /\ new.providers = rt[r].providers
      /\ new.tools = rt[r].tools \ rt[r].regs[s] /\ new.stacks = Without(rt[r].stacks, s)
      /\ \A u \in Servers : u # s => new.regs[u] = rt[r].regs[u]
  BY <1>4, DetachedTyped DEF Connections
<1>6. rt' = [rt EXCEPT ![r] = new]
  BY <1>1, <1>3
<1> HIDE DEF new
<1>7. /\ rt' \in [Runtimes -> Runtime] /\ rt'[r] = new
      /\ \A q \in Runtimes : q # r => rt'[q] = rt[q]
  BY <1>5, <1>6, RuntimeChanges DEF IInv
<1>8. Did(t, op[t].op, pc, r, op[t].old, op[t].todo)
  BY <1>1, <1>2, <1>3, StepDid DEF IInv
<1>9. Within(t, r, pc, op[t].todo)
  BY <1>1, <1>2, <1>3, <1>7, <1>8 DEF Within
<1>10. Types'
  BY <1>1, <1>7, <1>8 DEF IInv, Types, Did
<1>11. ToSet(new.stacks) = ToSet(rt[r].stacks) \ {s} /\ Distinct(new.stacks)
  BY <1>4, <1>5, Popped DEF Connections
<1>12. /\ Distinct(op[t].todo) /\ ToSet(op[t].todo) \subseteq ToSet(rt[r].stacks)
       /\ s \in ToSet(rt[r].stacks) /\ s \notin ToSet(Tail(op[t].todo))
       /\ op[t].pc = "mcp" => /\ rt[r].exec = "closed"
                              /\ ToSet(rt[r].stacks) \subseteq ToSet(op[t].todo)
  BY <1>1, <1>3, <1>4 DEF Agenda
<1>13. Agenda(t)'
  <2>1. /\ ToSet(Tail(op[t].todo)) \subseteq ToSet(new.stacks) /\ s \notin ToSet(new.stacks)
        /\ op[t].pc = "mcp" => ToSet(new.stacks) \subseteq ToSet(Tail(op[t].todo))
    BY <1>4, <1>11, <1>12
  <2>2. /\ op'[t].pc = pc /\ op'[t].r = r /\ op'[t].todo = op[t].todo
        /\ rt'[r].stacks = new.stacks /\ rt'[r].exec = rt[r].exec /\ Head(op[t].todo) = s
    BY <1>3, <1>5, <1>7, <1>8 DEF Did, Head1
  <2>3. pc \in {"unplugging", "closing"}
    BY <1>1, <1>2
  <2> QED BY <1>2, <1>12, <2>1, <2>2, <2>3 DEF Agenda
<1>14. ToolsOf(r)'
  <2> DEFINE old == ToSet(rt[r].stacks)
  <2>1. /\ rt[r].tools = UNION {Offers[u] : u \in old} /\ old \subseteq Servers
        /\ \A u \in old : rt[r].regs[u] = Offers[u]
        /\ \A u, v \in old : u # v => Offers[u] \intersect Offers[v] = {}
    BY <1>4, Listed DEF ToolsOf
  <2>2. new.tools = rt[r].tools \ Offers[s] /\ s \in old
    BY <1>5, <1>12, <2>1
  <2>3. ToSet(new.stacks) = old \ {s}
    BY <1>11
  <2> HIDE DEF old
  <2>4. \A u \in old \ {s} : Offers[u] \intersect Offers[s] = {}
    BY <2>1, <2>2
  <2>5. new.tools = UNION {Offers[u] : u \in old \ {s}}
    BY <2>1, <2>2, <2>4
  <2>6. \A u \in old \ {s} : new.regs[u] = Offers[u]
    BY <1>5, <2>1
  <2> QED BY <1>7, <2>1, <2>3, <2>5, <2>6 DEF ToolsOf
<1>15. Connections(r)'
  <2>1. \A u : ~Holds(t, r, u) /\ (Holds(t, r, u)' <=> u = s)
    BY <1>2, <1>3, <1>8 DEF Holds, Did, Head1, Holding
  <2>2. On(t, r) /\ open[r] \in [Servers -> Int]
    BY <1>9, WithinIsOn DEF IInv, Types
  <2> QED BY <1>1, <1>3, <1>7, <1>10, <1>11, <1>12, <2>1, <2>2, Recounted
<1>16. Settled(t, r)
  BY <1>5, <1>7 DEF Settled
<1> QED BY <1>9, <1>10, <1>13, <1>14, <1>15, <1>16, WithinKeeps

\* ... and awaits its close.
LEMMA UnpluggedKeeps ==
  ASSUME IInv, NEW t \in Tasks, Unplugged(t)
  PROVE  IInv'
<1> DEFINE pc == IF op[t].pc = "unplugging" THEN "unplug" ELSE "mcp"
           rest == Tail(op[t].todo)
<1>1. /\ op[t].pc \in {"unplugging", "closing"} /\ Proceed(t, pc, rest)
      /\ open' = [open EXCEPT ![op[t].r][Head1(t)] = @ - 1]
      /\ UNCHANGED <<rt, lost, serving, lock, file>> /\ Working(t) /\ op[t].todo # <<>>
  BY DEF Unplugged, Working, IInv, Workers, Phases
<1>2. /\ pc \in Phase /\ pc \notin Holding /\ op[t].pc \in Holding
      /\ pc \in {"unplug", "mcp"} /\ (pc = "mcp" <=> op[t].pc = "closing")
      /\ \/ pc \in Unplugging /\ op[t].pc \in Unplugging
         \/ pc \in Closing /\ op[t].pc \in Closing
  BY <1>1 DEF Phase, Holding, Unplugging, Closing
<1> HIDE DEF pc
<1>3. PICK r \in Runtimes, s \in Servers : op[t].r = r /\ Head1(t) = s
  BY <1>1, AtHand
<1>4. /\ rest \in Seq(Servers) /\ (Distinct(op[t].todo) => Distinct(rest)) /\ Agenda(t)
  BY <1>1, AtHand
<1>5. /\ open' \in [Runtimes -> [Servers -> Int]]
      /\ open'[r][s] = open[r][s] - 1
      /\ \A u \in Servers : u # s => open'[r][u] = open[r][u]
      /\ \A q \in Runtimes : q # r => open'[q] = open[q]
  <2>1. open \in [Runtimes -> [Servers -> Int]] /\ open[r] \in [Servers -> Int]
    BY DEF IInv, Types
  <2>2. open' = [open EXCEPT ![r][s] = @ - 1]
    BY <1>1, <1>3
  <2> QED BY <2>1, <2>2
<1>6. Did(t, op[t].op, pc, r, op[t].old, rest)
  BY <1>1, <1>2, <1>3, <1>4, ProceedDid DEF IInv
<1>7. Within(t, r, pc, rest)
  BY <1>1, <1>2, <1>3, <1>5, <1>6 DEF Within
<1>8. Types'
  BY <1>1, <1>5, <1>6 DEF IInv, Types, Did
<1>9. /\ Distinct(rest) /\ ToSet(rest) \subseteq ToSet(rt[r].stacks)
      /\ s \notin ToSet(rt[r].stacks)
      /\ op[t].pc = "closing" => rt[r].exec = "closed" /\ ToSet(rt[r].stacks) \subseteq ToSet(rest)
  BY <1>1, <1>3, <1>4 DEF Agenda, Head1
<1>10. Agenda(t)' /\ Settled(t, r) /\ ToolsOf(r)'
  <2>1. /\ op'[t].pc = pc /\ op'[t].r = r /\ op'[t].todo = rest /\ rt' = rt
    BY <1>1, <1>6 DEF Did
  <2> HIDE DEF rest
  <2>2. Agenda(t)'
    BY <1>2, <1>9, <2>1 DEF Agenda
  <2> QED BY <2>1, <2>2, SameTools DEF Settled, IInv, Runtimely
<1>11. Connections(r)'
  <2>1. \A u : (Holds(t, r, u) <=> u = s) /\ ~Holds(t, r, u)'
    BY <1>2, <1>3, <1>6 DEF Holds, Did, Head1, Holding
  <2>2. On(t, r) /\ Distinct(rt'[r].stacks) /\ open[r] \in [Servers -> Int]
    BY <1>1, <1>7, WithinIsOn DEF IInv, Types, Runtimely, Connections
  <2> QED BY <1>1, <1>3, <1>5, <1>8, <1>9, <2>1, <2>2, Recounted
<1> QED BY <1>7, <1>8, <1>10, <1>11, WithinKeeps

-----------------------------------------------------------------------------
\* The other steps within an operation.

LEMMA ListToolsKeeps ==
  ASSUME IInv, NEW t \in Tasks, ListTools(t)
  PROVE  IInv'
<1>1. op[t].pc = "list" /\ UNCHANGED <<open, lost, serving, lock, file>>
  BY DEF ListTools
<1>2. CASE Offers[Head1(t)] \intersect rt[op[t].r].tools = {}
  BY <1>1, <1>2, RegisterKeeps DEF ListTools
<1>3. CASE ~(Offers[Head1(t)] \intersect rt[op[t].r].tools = {})
  <2>1. rt' = [rt EXCEPT ![op[t].r] = rt[op[t].r]] /\ Step(t, "drop")
    BY <1>3 DEF ListTools, RolledBack
  <2>2. rt' = rt
    BY <2>1 DEF IInv, Types
  <2> QED BY <1>1, <2>1, <2>2, ListedBadlyKeeps
<1> QED BY <1>2, <1>3

LEMMA FaultKeeps ==
  ASSUME IInv, NEW t \in Tasks,
         ConnectFails(t) \/ ListFails(t) \/ WriteFails(t) \/ UnplugFails(t)
  PROVE  IInv'
<1>1. CASE ConnectFails(t)
  <2>1. /\ op[t].pc = "connect" /\ Step(t, "failed")
        /\ UNCHANGED <<rt, open, lost, serving, lock, file>>
    BY <1>1 DEF ConnectFails
  <2> QED BY <2>1, TurnKeeps
<1>2. CASE ListFails(t)
  <2>1. /\ op[t].pc = "list" /\ Step(t, "drop")
        /\ UNCHANGED <<rt, open, lost, serving, lock, file>>
    BY <1>2 DEF ListFails
  <2> QED BY <2>1, ListedBadlyKeeps
<1>3. CASE WriteFails(t)
  <2>1. /\ op[t].pc = "connect" /\ Step(t, "exec") /\ Owns(t)
        /\ UNCHANGED <<rt, open, lost, serving, lock, file>>
    BY <1>3 DEF WriteFails, Kept, Owns
  <2> QED BY <2>1, TurnKeeps
<1>4. CASE UnplugFails(t)
  <2> DEFINE pc == IF op[t].pc = "unplugging" THEN "failed" ELSE "providers"
  <2>1. /\ op[t].pc \in {"unplugging", "closing"} /\ Step(t, pc)
        /\ lost' = lost \union {op[t].r} /\ UNCHANGED <<rt, open, serving, lock, file>>
    BY <1>4 DEF UnplugFails
  <2>2. /\ pc \in Phase /\ pc \in {"failed", "exec", "providers"} /\ op[t].pc \in Holding
        /\ Onward(t, pc) /\ (pc = "providers" => op[t].pc = "closing")
    BY <2>1 DEF Phase, Holding, Onward, Connecting, Unplugging, Closing
  <2> HIDE DEF pc
  <2>3. Did(t, op[t].op, pc, op[t].r, op[t].old, op[t].todo)
    BY <2>1, <2>2, StepDid DEF IInv
  <2> QED BY <2>1, <2>2, <2>3, LeavesKeeps
<1> QED BY <1>1, <1>2, <1>3, <1>4

-----------------------------------------------------------------------------
\* The end of an operation.

\* What a step may change of a runtime without touching its servers.
Unplugs(r) ==
  /\ rt'[r].stacks = rt[r].stacks /\ rt'[r].tools = rt[r].tools /\ rt'[r].regs = rt[r].regs
  /\ rt'[r].cfg = rt[r].cfg /\ rt'[r].exec = rt[r].exec

LEMMA EndsKeeps ==
  ASSUME IInv, NEW t \in Tasks, NEW r \in Runtimes, Working(t), op[t].r = r, Ends(t),
         rt' \in [Runtimes -> Runtime], Unplugs(r),
         \A q \in Runtimes : q # r => rt'[q] = rt[q],
         UNCHANGED <<open, file>>,
         lost' \in {lost, lost \union {r}}, op[t].pc \in Holding => r \in lost',
         lock' \in {lock, None}, lock' = lock \/ lock = t,
         serving' = serving \/ (serving' = r /\ serving = None /\ lock = t),
         ServesTheFile', Ended(r)'
  PROVE  IInv'
<1>1. Did(t, "none", "idle", None, None, <<>>)
  BY EndsDid DEF IInv
<1>2. /\ op'[t].op = "none" /\ op'[t].pc = "idle" /\ op'[t].r = None /\ op'[t].old = None
      /\ op'[t].todo = <<>> /\ \A u \in Tasks : u # t => op'[u] = op[u]
  BY <1>1 DEF Did
<1>3. Types'
  BY <1>1 DEF Did, IInv, Types
<1>4. On(t, r)
  <2>1. \A u \in Tasks : u # t /\ Working(u) => op[u].r # r /\ op[u].r # None
    BY HasRuntime DEF IInv, Workers, Apart
  <2>2. \A q \in Runtimes : q # r => (q \in lost' <=> q \in lost)
    OBVIOUS
  <2>3. serving \in {serving', None} /\ serving' \in {serving, r}
    OBVIOUS
  <2>4. (lock' = lock /\ serving' = serving) \/ lock \in {t, None}
    OBVIOUS
  <2> QED BY <1>2, <2>1, <2>2, <2>3, <2>4 DEF On
<1>5. Phases(t)' /\ Locking(t)' /\ Built(t)' /\ Agenda(t)'
  BY <1>2 DEF Phases, Locking, Built, Agenda, Working, Owns, Connecting, Closing, Reloads
<1>6. (rt[r].exec = "none" => rt[r] = NoRuntime)'
  BY HasRuntime DEF Unplugs, IInv
<1>7. ToolsOf(r)'
  BY SameTools DEF Unplugs, IInv, Runtimely
<1>8. Connections(r)'
  <2>1. Distinct(rt'[r].stacks) /\ lost \subseteq lost'
    BY DEF Unplugs, IInv, Runtimely, Connections
  <2>2. \A s : ~Holds(t, r, s)'
    BY <1>2 DEF Holds
  <2>3. \A s : Holds(t, r, s) => r \in lost'
    BY DEF Holds, Holding
  <2>4. open[r] \in [Servers -> Int]
    BY DEF IInv, Types
  <2> QED BY <1>3, <1>4, <2>1, <2>2, <2>3, <2>4, Recounted DEF Unplugs
<1> QED BY <1>3, <1>4, <1>5, <1>6, <1>7, <1>8, Local

\* A runtime that serves stays as it is.
LEMMA StillServes ==
  ASSUME Serving, rt \in [Runtimes -> Runtime], NEW r \in Runtimes, serving' = serving, file' = file,
         r = serving => rt'[r].cfg = rt[r].cfg /\ rt'[r].exec = rt[r].exec
                                               /\ rt'[r].providers = rt[r].providers,
         serving \in Runtimes \union {None},
         \A q \in Runtimes : q # r => rt'[q] = rt[q]
  PROVE  ServesTheFile'
<1> SUFFICES ASSUME serving # None
             PROVE  /\ rt'[serving].cfg = file
                    /\ rt'[serving].exec = "open" /\ rt'[serving].providers = "open"
  BY DEF ServesTheFile
<1>1. /\ rt[serving].cfg = file /\ serving \in Runtimes
      /\ rt[serving].exec = "open" /\ rt[serving].providers = "open"
  BY DEF Serving, ServesTheFile
<1> QED BY <1>1

\* A run or a reload ends, done or not: its runtime serves on.
LEMMA ServedKeeps ==
  ASSUME IInv, NEW t \in Tasks, op[t].pc \in Connecting \union Unplugging, ~Owns(t), Ends(t),
         Unlock(t), rt' = rt \/ rt' = Readied(op[t].r), UNCHANGED <<open, serving, file>>,
         lost' \in {lost, lost \union {op[t].r}}, op[t].pc \in Holding => op[t].r \in lost'
  PROVE  IInv'
<1>1. Working(t)
  BY DEF Working, Connecting, Unplugging
<1>2. PICK r \in Runtimes : op[t].r = r
  BY <1>1, HasRuntime DEF IInv
<1>3. r = serving
  <2>1. op[t].op \in Kind /\ Phases(t) /\ Locking(t)
    BY OperationFields DEF IInv, Workers
  <2>2. op[t].op \in Reloads \union {"run"}
    BY <1>1, <2>1 DEF Phases, Working, Owns, Kind, Connecting, Unplugging, Closing
  <2> QED BY <1>1, <1>2, <2>1, <2>2 DEF Locking
<1>4. rt \in [Runtimes -> Runtime] /\ rt[r] \in Runtime /\ serving \in Runtimes \union {None}
  BY DEF IInv, Types
<1>5. /\ rt' \in [Runtimes -> Runtime] /\ \A q \in Runtimes : q # r => rt'[q] = rt[q]
      /\ Unplugs(r) /\ rt'[r].providers = rt[r].providers
  <2>1. CASE rt' = rt
    BY <1>4, <2>1 DEF Unplugs
  <2>2. CASE rt' = Readied(op[t].r)
    <3> DEFINE new == [rt[r] EXCEPT !.ready = TRUE]
    <3>1. rt' = [rt EXCEPT ![r] = new]
      BY <1>2, <2>2 DEF Readied
    <3>2. /\ new \in Runtime /\ new.stacks = rt[r].stacks /\ new.tools = rt[r].tools
          /\ new.regs = rt[r].regs /\ new.cfg = rt[r].cfg /\ new.exec = rt[r].exec
          /\ new.providers = rt[r].providers
      BY <1>4 DEF Runtime
    <3> HIDE DEF new
    <3>3. /\ rt' \in [Runtimes -> Runtime] /\ rt'[r] = new
          /\ \A q \in Runtimes : q # r => rt'[q] = rt[q]
      BY <3>1, <3>2, RuntimeChanges DEF IInv
    <3> QED BY <3>2, <3>3 DEF Unplugs
  <2> QED BY <2>1, <2>2
<1>6. ServesTheFile'
  BY <1>4, <1>5, StillServes DEF Unplugs, IInv
<1>7. Ended(r)'
  BY <1>3 DEF Ended, Unattended
<1>8. lock' \in {lock, None} /\ (lock' = lock \/ lock = t)
  BY DEF Unlock
<1>9. lost' \in {lost, lost \union {r}} /\ (op[t].pc \in Holding => r \in lost')
  BY <1>2
<1> QED BY <1>1, <1>2, <1>5, <1>6, <1>7, <1>8, <1>9, EndsKeeps

LEMMA CloseProvidersKeeps ==
  ASSUME IInv, NEW t \in Tasks, CloseProviders(t)
  PROVE  IInv'
<1>1. /\ op[t].pc = "providers" /\ Ends(t) /\ Unlock(t) /\ UNCHANGED <<open, serving, file, lost>>
      /\ rt' = [rt EXCEPT ![op[t].r].providers = "closed"] /\ Working(t)
  BY DEF CloseProviders, Working
<1>2. PICK r \in Runtimes : op[t].r = r
  BY <1>1, HasRuntime DEF IInv
<1>3. rt \in [Runtimes -> Runtime] /\ rt[r] \in Runtime /\ serving \in Runtimes \union {None}
  BY DEF IInv, Types
<1>4. r # serving /\ rt[r].exec = "closed" /\ (r \in lost \/ rt[r].stacks = <<>>)
  BY <1>1, <1>2, HasRuntime DEF IInv, Agenda, Closing
<1> DEFINE new == [rt[r] EXCEPT !.providers = "closed"]
<1>5. rt' = [rt EXCEPT ![r] = new]
  BY <1>1, <1>2
<1>6. /\ new \in Runtime /\ new.stacks = rt[r].stacks /\ new.tools = rt[r].tools
      /\ new.regs = rt[r].regs /\ new.cfg = rt[r].cfg /\ new.exec = rt[r].exec
      /\ new.providers = "closed"
  BY <1>3 DEF Runtime
<1> HIDE DEF new
<1>7. /\ rt' \in [Runtimes -> Runtime] /\ rt'[r] = new
      /\ \A q \in Runtimes : q # r => rt'[q] = rt[q]
  BY <1>5, <1>6, RuntimeChanges DEF IInv
<1>8. Unplugs(r)
  BY <1>6, <1>7 DEF Unplugs
<1>9. ServesTheFile'
  BY <1>1, <1>3, <1>4, <1>7, StillServes DEF IInv
<1>10. Ended(r)'
  BY <1>1, <1>4, <1>6, <1>7 DEF Ended
<1>11. lock' \in {lock, None} /\ (lock' = lock \/ lock = t)
  BY <1>1 DEF Unlock
<1>12. op[t].pc \notin Holding
  BY <1>1 DEF Holding
<1> QED BY <1>1, <1>2, <1>7, <1>8, <1>9, <1>10, <1>11, <1>12, EndsKeeps

LEMMA FailedKeeps ==
  ASSUME IInv, NEW t \in Tasks, Failed(t)
  PROVE  IInv'
<1>1. op[t].pc = "failed" /\ UNCHANGED <<rt, open, lost, serving, file>>
  BY DEF Failed
<1>2. CASE Owns(t)
  BY <1>1, <1>2, TurnKeeps DEF Failed
<1>3. CASE ~Owns(t)
  BY <1>1, <1>3, ServedKeeps DEF Failed, Connecting, Holding
<1> QED BY <1>2, <1>3

\* Only t works on what serves while nobody else holds the lock.
LEMMA Alone ==
  ASSUME Types, Workers, NEW t \in Tasks, lock \in {t, None}, serving # None,
         NEW u \in Tasks, u # t, Working(u)
  PROVE  op[u].r # serving
<1>1. Phases(u) /\ Locking(u) /\ op[u].op \in Kind
  BY OperationFields DEF Workers
<1>2. lock # u
  BY NoneIsNoTask
<1>3. op[u].op \notin Reloads \union {"run"} \/ op[u].r # serving
  BY <1>1, <1>2 DEF Locking
<1>4. op[u].op = "shutdown" => op[u].r # serving
  BY <1>1 DEF Phases, Locking
<1>5. Owns(u) => op[u].r # serving
  BY <1>1 DEF Locking
<1>6. op[u].op # "none"
  BY <1>1 DEF Phases, Working
<1> QED BY <1>1, <1>3, <1>4, <1>5, <1>6 DEF Kind, Owns

\* The connects are over.
LEMMA StartedKeeps ==
  ASSUME IInv, NEW t \in Tasks, NEW r \in Runtimes, op[t].r = r, op[t].pc = "connect",
         op[t].op \in {"startup", "update"}, rt' = Readied(r), serving' = r, Unlock(t),
         UNCHANGED <<open, lost>>,
         \/ op[t].op = "startup" /\ Ends(t) /\ UNCHANGED file
         \/ op[t].op = "update" /\ file' = rt[r].cfg
               /\ Become(t, [op[t] EXCEPT !.r = op[t].old, !.pc = "exec"])
  PROVE  IInv'
<1>1. /\ Working(t) /\ Owns(t) /\ op[t].pc \in Connecting /\ op[t].pc \notin Holding
      /\ Locking(t) /\ Phases(t)
  BY DEF Working, Owns, Connecting, Holding, IInv, Workers
<1>2. lock = t /\ r # serving
  BY <1>1 DEF Locking
<1>3. /\ rt[r].exec = "open" /\ rt[r].providers = "open" /\ rt[r].cfg \in Configs
      /\ op[t].op = "startup" => rt[r].cfg = file
  BY <1>1 DEF IInv, Serving, Built
<1>4. rt \in [Runtimes -> Runtime] /\ rt[r] \in Runtime
  BY DEF IInv, Types
<1> DEFINE new == [rt[r] EXCEPT !.ready = TRUE]
<1>5. rt' = [rt EXCEPT ![r] = new]
  BY DEF Readied
<1>6. /\ new \in Runtime /\ new.stacks = rt[r].stacks /\ new.tools = rt[r].tools
      /\ new.regs = rt[r].regs /\ new.cfg = rt[r].cfg /\ new.exec = rt[r].exec
      /\ new.providers = rt[r].providers
  BY <1>4 DEF Runtime
<1> HIDE DEF new
<1>7. /\ rt' \in [Runtimes -> Runtime] /\ rt'[r] = new
      /\ \A q \in Runtimes : q # r => rt'[q] = rt[q]
  BY <1>5, <1>6, RuntimeChanges DEF IInv
<1>8. Unplugs(r)
  BY <1>6, <1>7 DEF Unplugs
<1>9. file' = rt[r].cfg
  BY <1>3
<1>10. ServesTheFile'
  BY <1>3, <1>6, <1>7, <1>9 DEF ServesTheFile
<1>11. Ended(r)'
  BY DEF Ended, Unattended
<1>12. lock' = None
  BY <1>2 DEF Unlock
<1>13. CASE op[t].op = "startup"
  <2>1. serving = None
    BY <1>1, <1>13 DEF Locking
  <2> QED BY <1>1, <1>2, <1>7, <1>8, <1>10, <1>11, <1>12, <1>13, <2>1, EndsKeeps
<1>14. CASE op[t].op = "update"
  <2>1. serving # None /\ op[t].old = serving /\ serving \in Runtimes
    BY <1>1, <1>14 DEF Locking, IInv, Types
  <2>2. PICK old \in Runtimes : old = serving /\ old # r
    BY <1>2, <2>1
  <2>3. Did(t, "update", "exec", old, old, op[t].todo)
    <3>1. Become(t, [op[t] EXCEPT !.r = old, !.pc = "exec"])
      BY <1>14, <2>1, <2>2
    <3>2. Did(t, op[t].op, "exec", old, op[t].old, op[t].todo)
      BY <3>1, CloseDid DEF IInv
    <3> QED BY <1>14, <2>1, <2>2, <3>2
  <2>4. /\ op'[t].op = "update" /\ op'[t].pc = "exec" /\ op'[t].r = old
        /\ \A u \in Tasks : u # t => op'[u] = op[u]
    BY <2>3 DEF Did
  <2>5. \A u \in Tasks : u # t /\ Working(u) => op[u].r # r /\ op[u].r # old
    BY <1>1, <1>2, <2>1, <2>2, Alone DEF IInv, Workers, Apart
  <2>6. On(t, r)
    BY <1>2, <1>7, <2>2, <2>4, <2>5 DEF On, Holding
  <2>7. Types'
    BY <1>3, <1>7, <1>9, <1>12, <2>3 DEF Did, IInv, Types
  <2>8. rt'[old].exec = "open"
    BY <1>7, <2>1, <2>2 DEF IInv, Serving, ServesTheFile
  <2>9. Phases(t)' /\ Locking(t)'
    BY <2>2, <2>4, <2>8 DEF Phases, Locking, Working, Owns, Connecting, Unplugging, Closing, Reloads
  <2>10. Built(t)' /\ Agenda(t)'
    BY <2>4 DEF Built, Agenda, Connecting
  <2>11. (rt[r].exec = "none" => rt[r] = NoRuntime)'
    BY <1>3, <1>6, <1>7
  <2>12. ToolsOf(r)'
    BY <1>8, SameTools DEF Unplugs, IInv, Runtimely
  <2>13. Connections(r)'
    <3>1. Distinct(rt'[r].stacks)
      BY <1>8 DEF Unplugs, IInv, Runtimely, Connections
    <3>2. \A s : ~Holds(t, r, s) /\ ~Holds(t, r, s)'
      BY <1>1, <2>4 DEF Holds, Holding
    <3>3. open[r] \in [Servers -> Int]
      BY DEF IInv, Types
    <3> QED BY <1>8, <2>6, <2>7, <3>1, <3>2, <3>3, Recounted DEF Unplugs
  <2> QED BY <1>10, <1>11, <2>6, <2>7, <2>9, <2>10, <2>11, <2>12, <2>13, Local
<1> QED BY <1>13, <1>14

LEMMA FinishKeeps ==
  ASSUME IInv, NEW t \in Tasks, Finish(t)
  PROVE  IInv'
<1>1. op[t].pc = "connect" /\ UNCHANGED <<open, lost>> /\ Working(t)
  BY DEF Finish, Working
<1>2. PICK r \in Runtimes : op[t].r = r
  BY <1>1, HasRuntime DEF IInv
<1>3. CASE op[t].op = "test"
  BY <1>1, <1>3, TurnKeeps DEF Finish, Owns
<1>4. CASE op[t].op \in Reloads
  BY <1>1, <1>4, ServedKeeps DEF Finish, Owns, Reloads, Connecting, Holding
<1>5. CASE op[t].op = "run"
  BY <1>1, <1>5, ServedKeeps DEF Finish, Owns, Connecting, Holding
<1>6. CASE op[t].op \in {"startup", "update"}
  BY <1>1, <1>2, <1>6, StartedKeeps DEF Finish
<1> QED BY <1>3, <1>4, <1>5, <1>6 DEF Finish, Reloads

-----------------------------------------------------------------------------
\* Cancellations.

LEMMA CancelKeeps ==
  ASSUME IInv, NEW t \in Tasks, Cancel(t)
  PROVE  IInv'
<1>1. /\ op[t].pc \in {"lock", "connect", "list", "drop", "unplugging", "exec", "closing"}
      /\ UNCHANGED <<open, serving, file>> /\ Become(t, AfterCancel(t))
      /\ lock' = IF lock = t /\ AfterCancel(t) = NoOp THEN None ELSE lock
  BY DEF Cancel, Become
<1>2. op[t] \in Operation
  BY DEF IInv, Types
<1>3. CASE op[t].pc = "lock"
  <2>1. AfterCancel(t) = NoOp /\ UNCHANGED <<rt, lost>>
    BY <1>3 DEF Cancel, AfterCancel
  <2>2. Did(t, "none", "idle", None, None, <<>>)
    BY <1>1, <2>1, EndsDid DEF Ends, IInv
  <2>3. ~Working(t) /\ ~Working(t)' /\ Phases(t)'
    BY <1>3, <2>2 DEF Did, Working, Phases, Owns
  <2>4. Types'
    BY <1>1, <2>1, <2>2 DEF IInv, Types, Did
  <2>5. lock' = lock \/ lock = t
    BY <1>1
  <2> QED BY <1>1, <2>1, <2>2, <2>3, <2>4, <2>5, Quiet DEF Did
<1>4. CASE op[t].pc \in {"connect", "list", "drop"} /\ Owns(t)
  <2> DEFINE rec == [op[t] EXCEPT !.pc = "exec"]
  <2>1. AfterCancel(t) = rec /\ rt' = rt
    BY <1>4 DEF Cancel, AfterCancel, Unbuilds
  <2>2. Step(t, "exec")
    BY <1>1, <2>1 DEF Step
  <2>3. rec.pc = "exec" /\ NoOp.pc = "idle"
    BY <1>2 DEF Operation, NoOp
  <2>4. lock' = lock
    BY <1>1, <2>1, <2>3
  <2>5. CASE op[t].pc = "connect"
    BY <1>1, <1>4, <2>1, <2>2, <2>4, <2>5, TurnKeeps DEF Cancel
  <2>6. CASE op[t].pc \in {"list", "drop"}
    <3>1. Did(t, op[t].op, "exec", op[t].r, op[t].old, op[t].todo)
      BY <2>2, StepDid DEF IInv, Phase, Closing
    <3>2. Onward(t, "exec") /\ op[t].pc \in Holding /\ lost' = lost \union {op[t].r}
      BY <1>4, <2>6 DEF Onward, Holding, Connecting, Closing, Cancel
    <3> QED BY <1>1, <2>1, <2>4, <3>1, <3>2, LeavesKeeps
  <2> QED BY <1>4, <2>5, <2>6
<1>5. CASE op[t].pc \in {"connect", "list", "drop"} /\ ~Owns(t)
  <2>1. AfterCancel(t) = NoOp /\ rt' = rt
    BY <1>5 DEF Cancel, AfterCancel, Unbuilds
  <2>2. Ends(t) /\ Unlock(t)
    BY <1>1, <2>1 DEF Ends, Unlock
  <2>3. lost' \in {lost, lost \union {op[t].r}} /\ (op[t].pc \in Holding => op[t].r \in lost')
    BY <1>5 DEF Cancel, Holding
  <2> QED BY <1>1, <1>5, <2>1, <2>2, <2>3, ServedKeeps DEF Connecting
<1>6. CASE op[t].pc = "unplugging"
  <2>1. AfterCancel(t) = NoOp /\ rt' = rt /\ lost' = lost \union {op[t].r}
    BY <1>6 DEF Cancel, AfterCancel
  <2>2. Ends(t) /\ Unlock(t)
    BY <1>1, <2>1 DEF Ends, Unlock
  <2>3. ~Owns(t)
    BY <1>6 DEF IInv, Workers, Phases, Working, Connecting, Closing
  <2>4. lost' \in {lost, lost \union {op[t].r}} /\ op[t].r \in lost'
    BY <2>1
  <2> QED BY <1>1, <1>6, <2>1, <2>2, <2>3, <2>4, ServedKeeps DEF Unplugging
<1>7. CASE op[t].pc = "exec"
  <2> DEFINE rec == [op[t] EXCEPT !.pc = "mcp", !.todo = rt[op[t].r].stacks]
  <2>1. /\ AfterCancel(t) = rec /\ lost' = lost
        /\ rt' = [rt EXCEPT ![op[t].r].exec = "closed"]
    BY <1>7 DEF Cancel, AfterCancel
  <2>2. Proceed(t, "mcp", rt[op[t].r].stacks)
    BY <1>1, <2>1 DEF Proceed
  <2>3. rec.pc = "mcp" /\ NoOp.pc = "idle"
    BY <1>2 DEF Operation, NoOp
  <2>4. lock' = lock
    BY <1>1, <2>1, <2>3
  <2> QED BY <1>1, <1>7, <2>1, <2>2, <2>4, ExecClosedKeeps
<1>8. CASE op[t].pc = "closing"
  <2> DEFINE rec == [op[t] EXCEPT !.pc = "providers"]
  <2>1. AfterCancel(t) = rec /\ rt' = rt /\ lost' = lost \union {op[t].r}
    BY <1>8 DEF Cancel, AfterCancel
  <2>2. Step(t, "providers")
    BY <1>1, <2>1 DEF Step
  <2>3. rec.pc = "providers" /\ NoOp.pc = "idle"
    BY <1>2 DEF Operation, NoOp
  <2>4. lock' = lock
    BY <1>1, <2>1, <2>3
  <2>5. Did(t, op[t].op, "providers", op[t].r, op[t].old, op[t].todo)
    BY <2>2, StepDid DEF IInv, Phase, Closing
  <2>6. Onward(t, "providers") /\ op[t].pc \in Holding
    BY <1>8 DEF Onward, Holding, Closing
  <2> QED BY <1>1, <1>8, <2>1, <2>4, <2>5, <2>6, LeavesKeeps
<1> QED BY <1>1, <1>3, <1>4, <1>5, <1>6, <1>7, <1>8

-----------------------------------------------------------------------------
\* The beginning of an operation.

LEMMA StartsKeeps ==
  ASSUME IInv, Types', NEW t \in Tasks, NEW r \in Runtimes, op[t].pc = "lock", lock = None,
         NEW pc \in {"connect", "unplug", "exec"}, NEW old, NEW todo,
         Did(t, op[t].op, pc, r, old, todo),
         \A u \in Tasks : u # t /\ Working(u) => op[u].r # r,
         UNCHANGED <<open, lost, file>>,
         serving' = serving \/ (serving = r /\ serving' = None),
         rt'[r].stacks = rt[r].stacks, rt'[r].tools = rt[r].tools, rt'[r].regs = rt[r].regs,
         rt'[r].exec = "open", \A q \in Runtimes : q # r => rt'[q] = rt[q],
         Phases(t)', Locking(t)', Built(t)', ServesTheFile', Agenda(t)'
  PROVE  IInv'
<1>1. /\ op'[t].pc = pc /\ op'[t].r = r /\ \A u \in Tasks : u # t => op'[u] = op[u]
  BY DEF Did
<1>2. op[t].r = None
  BY DEF IInv, Workers, Phases, Working
<1>3. On(t, r)
  BY <1>1, <1>2 DEF On
<1>4. ToolsOf(r)'
  BY SameTools DEF IInv, Runtimely
<1>5. Connections(r)'
  <2>1. Distinct(rt'[r].stacks)
    BY DEF IInv, Runtimely, Connections
  <2>2. \A s : ~Holds(t, r, s) /\ ~Holds(t, r, s)'
    BY <1>1 DEF Holds
  <2>3. open[r] \in [Servers -> Int]
    BY DEF IInv, Types
  <2> QED BY <1>3, <2>1, <2>2, <2>3, Recounted
<1>6. Ended(r)'
  BY <1>1 DEF Ended, Unattended
<1> QED BY <1>3, <1>4, <1>5, <1>6, Local

\* A runtime, or a tool manager: one whose providers are not open.
BuiltFrom(rec, c) ==
  /\ rec \in Runtime /\ rec.cfg = c /\ rec.stacks = <<>> /\ rec.tools = {} /\ rec.exec = "open"
  /\ rec.regs = [s \in Servers |-> {}]

LEMMA BuiltTyped ==
  ASSUME NEW c \in Seq(Servers)
  PROVE  /\ BuiltFrom(NewRuntime(c), c) /\ NewRuntime(c).providers = "open"
         /\ BuiltFrom([NewRuntime(c) EXCEPT !.providers = "closed"], c)
<1>1. <<>> \in Seq(Servers)
  BY EmptySeq
<1>2. /\ NewRuntime(c) \in Runtime /\ NewRuntime(c).cfg = c /\ NewRuntime(c).stacks = <<>>
      /\ NewRuntime(c).tools = {} /\ NewRuntime(c).exec = "open"
      /\ NewRuntime(c).regs = [s \in Servers |-> {}] /\ NewRuntime(c).providers = "open"
  BY <1>1 DEF NewRuntime, Runtime
<1> DEFINE new == NewRuntime(c)
<1> HIDE DEF new
<1>3. BuiltFrom(new, c) /\ new.providers = "open"
  BY <1>2 DEF BuiltFrom, new
<1>4. BuiltFrom([new EXCEPT !.providers = "closed"], c)
  BY <1>3 DEF BuiltFrom, Runtime
<1> QED BY <1>3, <1>4 DEF new

LEMMA BuildsKeeps ==
  ASSUME IInv, NEW t \in Tasks, op[t].pc = "lock", lock = None,
         NEW r \in Runtimes, rt[r] = NoRuntime, NEW c \in Seq(Servers),
         NEW old \in Runtimes \union {None}, NEW rec \in Runtime, BuiltFrom(rec, c),
         BeginConnects(t, r, rec, old), UNCHANGED <<open, lost, file, serving>>,
         \/ op[t].op = "test" /\ lock' = lock
         \/ /\ op[t].op = "startup" /\ serving = None /\ c = file
            /\ rec.providers = "open" /\ lock' = t
         \/ /\ op[t].op = "update" /\ serving # None /\ old = serving /\ c \in Configs
            /\ rec.providers = "open" /\ lock' = t
  PROVE  IInv'
<1>1. Types
  BY DEF IInv
<1>2. /\ rec.cfg = c /\ rec.stacks = <<>> /\ rec.tools = {} /\ rec.exec = "open"
      /\ rec.regs = [s \in Servers |-> {}]
  BY DEF BuiltFrom
<1>3. Did(t, op[t].op, "connect", r, old, rec.cfg)
  BY <1>1, ConnectsDid
<1>4. /\ rt[r].stacks = <<>> /\ rt[r].tools = {} /\ rt[r].exec = "none"
      /\ rt[r].regs = [s \in Servers |-> {}]
  BY DEF NoRuntime, NewRuntime
<1>5. /\ rt' \in [Runtimes -> Runtime] /\ rt'[r] = [rec EXCEPT !.known = rec.cfg]
      /\ \A q \in Runtimes : q # r => rt'[q] = rt[q]
  BY <1>1, ConnectsDid
<1>6. /\ rt'[r].cfg = c /\ rt'[r].stacks = <<>> /\ rt'[r].tools = {} /\ rt'[r].exec = "open"
      /\ rt'[r].regs = [s \in Servers |-> {}] /\ rt'[r].providers = rec.providers
  BY <1>2, <1>5 DEF Runtime
<1>7. r # serving /\ \A u \in Tasks : Working(u) => op[u].r # r
  <2>1. r # serving
    BY <1>4, NoneIsNoTask DEF IInv, Serving, ServesTheFile
  <2>2. \A u \in Tasks : Working(u) => op[u].r # r
    BY <1>4, HasRuntime DEF IInv
  <2> QED BY <2>1, <2>2
<1>8. /\ op'[t].op = op[t].op /\ op'[t].pc = "connect" /\ op'[t].r = r /\ op'[t].old = old
      /\ op'[t].todo = c
  BY <1>2, <1>3 DEF Did
<1>9. Types'
  BY <1>3, <1>5 DEF Did, IInv, Types
<1>10. Phases(t)' /\ Locking(t)'
  BY <1>6, <1>7, <1>8 DEF Phases, Locking, Working, Owns, Connecting, Unplugging, Closing,
     Reloads
<1>11. Built(t)'
  <2>1. file \in Configs
    BY DEF IInv, Types
  <2> QED BY <1>2, <1>6, <1>8, <2>1 DEF Built
<1>12. ServesTheFile'
  <2>1. rt \in [Runtimes -> Runtime] /\ serving \in Runtimes \union {None} /\ Serving
    BY DEF IInv, Types
  <2> QED BY <1>5, <1>7, <2>1, StillServes
<1>13. Agenda(t)'
  BY <1>8 DEF Agenda
<1>14. /\ rt'[r].stacks = rt[r].stacks /\ rt'[r].tools = rt[r].tools
       /\ rt'[r].regs = rt[r].regs /\ rt'[r].exec = "open"
  BY <1>4, <1>6
<1> QED BY <1>3, <1>5, <1>7, <1>9, <1>10, <1>11, <1>12, <1>13, <1>14, StartsKeeps

LEMMA BuildKeeps ==
  ASSUME IInv, NEW t \in Tasks, Build(t) \/ BeginTest(t)
  PROVE  IInv'
<1>1. /\ op[t].pc = "lock" /\ lock = None /\ Fresh # {}
      /\ UNCHANGED <<open, lost, file, serving>>
  BY DEF Build, BeginTest
<1>2. PICK r \in Runtimes : r = NextFresh /\ rt[r] = NoRuntime
  BY <1>1 DEF NextFresh, Fresh
<1>3. /\ Configs \subseteq Seq(Servers) /\ file \in Configs
      /\ serving \in Runtimes \union {None}
  BY ToolsAssumption DEF IInv, Types
<1>4. CASE Build(t) /\ op[t].op = "startup"
  <2>1. /\ BeginConnects(t, r, NewRuntime(file), None) /\ serving = None /\ lock' = t
    BY <1>2, <1>4 DEF Build
  <2>2. file \in Seq(Servers)
    BY <1>3
  <2>3. BuiltFrom(NewRuntime(file), file) /\ NewRuntime(file).providers = "open"
    BY <2>2, BuiltTyped
  <2> QED BY <1>1, <1>2, <1>4, <2>1, <2>2, <2>3, BuildsKeeps DEF BuiltFrom
<1>5. CASE Build(t) /\ op[t].op = "update"
  <2>1. PICK c \in Configs : BeginConnects(t, r, NewRuntime(c), serving)
    BY <1>2, <1>5 DEF Build
  <2>2. serving # None /\ lock' = t
    BY <1>5 DEF Build
  <2>3. c \in Seq(Servers) /\ serving \in Runtimes \union {None}
    BY <1>3
  <2>4. BuiltFrom(NewRuntime(c), c) /\ NewRuntime(c).providers = "open"
    BY <2>3, BuiltTyped
  <2> QED BY <1>1, <1>2, <1>5, <2>1, <2>2, <2>3, <2>4, BuildsKeeps DEF BuiltFrom
<1>6. CASE BeginTest(t)
  <2>1. PICK s \in Servers :
          BeginConnects(t, r, [NewRuntime(<<s>>) EXCEPT !.providers = "closed"], None)
    BY <1>2, <1>6 DEF BeginTest
  <2>2. op[t].op = "test" /\ lock' = lock /\ <<s>> \in Seq(Servers)
    BY <1>6 DEF BeginTest
  <2>3. BuiltFrom([NewRuntime(<<s>>) EXCEPT !.providers = "closed"], <<s>>)
    BY <2>2, BuiltTyped
  <2> QED BY <1>1, <1>2, <2>1, <2>2, <2>3, BuildsKeeps DEF BuiltFrom
<1> QED BY <1>4, <1>5, <1>6 DEF Build

\* Work on the runtime that serves begins.
LEMMA ReloadKeeps ==
  ASSUME IInv, NEW t \in Tasks, BeginReload(t)
  PROVE  IInv'
<1>1. /\ op[t].pc = "lock" /\ lock = None /\ serving # None /\ op[t].op \in Reloads /\ lock' = t
      /\ UNCHANGED <<file, serving, rt, open, lost>>
  BY DEF BeginReload, Reloads
<1>2. PICK r \in Runtimes : serving = r
  BY <1>1 DEF IInv, Types
<1>3. /\ rt[r] \in Runtime /\ rt[r].stacks \in Seq(Servers) /\ rt[r].known \in Seq(Servers)
      /\ Distinct(rt[r].stacks)
  BY DEF IInv, Types, Runtime, Runtimely, Connections
<1>4. PICK todo \in Seq(Servers), done \in Seq(Servers) :
        BeginUnplugs(t, todo, done) /\ Distinct(todo) /\ ToSet(todo) \subseteq ToSet(rt[r].stacks)
  <2>1. CASE op[t].op = "reload"
    BY <1>2, <1>3, <2>1 DEF BeginReload
  <2>2. CASE op[t].op = "reloadOne"
    <3>1. PICK s \in ToSet(rt[r].known) :
            BeginUnplugs(t, IF Contains(rt[r].stacks, s) THEN <<s>> ELSE <<>>, <<s>>)
      BY <1>2, <2>2 DEF BeginReload
    <3>2. s \in Servers
      BY <1>3, Listed
    <3>3. <<s>> \in Seq(Servers) /\ <<>> \in Seq(Servers)
      BY <3>2
    <3>4. Distinct(<<s>>) /\ ToSet(<<s>>) = {s} /\ Distinct(<<>>) /\ ToSet(<<>>) = {}
      BY DEF Distinct, ToSet
    <3>5. Contains(rt[r].stacks, s) <=> s \in ToSet(rt[r].stacks)
      BY <1>3, Listed
    <3>6. CASE Contains(rt[r].stacks, s)
      <4>1. BeginUnplugs(t, <<s>>, <<s>>) /\ ToSet(<<s>>) \subseteq ToSet(rt[r].stacks)
        BY <3>1, <3>4, <3>5, <3>6
      <4> QED BY <3>3, <3>4, <4>1
    <3>7. CASE ~Contains(rt[r].stacks, s)
      <4>1. BeginUnplugs(t, <<>>, <<s>>) /\ ToSet(<<>>) \subseteq ToSet(rt[r].stacks)
        BY <3>1, <3>4, <3>7
      <4> QED BY <3>3, <3>4, <4>1
    <3> QED BY <3>6, <3>7
  <2> QED BY <1>1, <2>1, <2>2 DEF Reloads
<1>5. Did(t, op[t].op, "unplug", r, op[t].old, todo)
  BY <1>2, <1>4, UnplugsDid DEF IInv
<1>6. /\ op'[t].op = op[t].op /\ op'[t].pc = "unplug" /\ op'[t].r = r /\ op'[t].todo = todo
  BY <1>5 DEF Did
<1>7. Types'
  BY <1>1, <1>5 DEF Did, IInv, Types
<1>8. rt[r].exec = "open" /\ ServesTheFile'
  BY <1>1, <1>2 DEF IInv, Serving, ServesTheFile
<1>9. \A u \in Tasks : u # t /\ Working(u) => op[u].r # r
  BY <1>1, <1>2, Alone DEF IInv
<1>10. Phases(t)' /\ Locking(t)'
  BY <1>1, <1>2, <1>6, <1>8 DEF Phases, Locking, Working, Owns, Connecting, Unplugging, Closing,
     Reloads
<1>11. Built(t)' /\ Agenda(t)'
  BY <1>1, <1>4, <1>6 DEF Built, Agenda, Connecting
<1> QED BY <1>1, <1>2, <1>5, <1>7, <1>8, <1>9, <1>10, <1>11, StartsKeeps

LEMMA ShutdownKeeps ==
  ASSUME IInv, NEW t \in Tasks, BeginShutdown(t)
  PROVE  IInv'
<1>1. /\ op[t].pc = "lock" /\ lock = None /\ serving # None /\ op[t].op = "shutdown"
      /\ Become(t, [op[t] EXCEPT !.r = serving, !.pc = "exec"])
      /\ serving' = None /\ UNCHANGED <<file, rt, open, lock, lost>>
  BY DEF BeginShutdown
<1>2. PICK r \in Runtimes : serving = r
  BY <1>1 DEF IInv, Types
<1>3. Did(t, op[t].op, "exec", r, op[t].old, op[t].todo)
  BY <1>1, <1>2, CloseDid DEF IInv
<1>4. /\ op'[t].op = "shutdown" /\ op'[t].pc = "exec" /\ op'[t].r = r
  BY <1>1, <1>3 DEF Did
<1>5. Types'
  BY <1>1, <1>3 DEF Did, IInv, Types
<1>6. rt[r].exec = "open" /\ ServesTheFile'
  BY <1>1, <1>2 DEF IInv, Serving, ServesTheFile
<1>7. \A u \in Tasks : u # t /\ Working(u) => op[u].r # r
  BY <1>1, <1>2, Alone DEF IInv
<1>8. Phases(t)' /\ Locking(t)'
  BY <1>1, <1>4, <1>6, NoneIsNoTask DEF Phases, Locking, Working, Owns, Connecting, Unplugging,
     Closing, Reloads
<1>9. Built(t)' /\ Agenda(t)'
  BY <1>4 DEF Built, Agenda, Connecting
<1> QED BY <1>1, <1>2, <1>3, <1>5, <1>6, <1>7, <1>8, <1>9, StartsKeeps

LEMMA InitializeKeeps ==
  ASSUME IInv, NEW t \in Tasks, Initialize(t), ~rt[serving].ready
  PROVE  IInv'
<1>1. /\ op[t].pc = "lock" /\ lock = None /\ serving # None /\ op[t].op = "run" /\ lock' = t
      /\ BeginConnects(t, serving, rt[serving], None)
      /\ UNCHANGED <<file, serving, open, lost>>
  BY DEF Initialize
<1>2. PICK r \in Runtimes : serving = r
  BY <1>1 DEF IInv, Types
<1>3. rt[r] \in Runtime
  BY DEF IInv, Types
<1>4. /\ Did(t, op[t].op, "connect", r, None, rt[r].cfg) /\ rt' \in [Runtimes -> Runtime]
      /\ rt'[r] = [rt[r] EXCEPT !.known = rt[r].cfg]
      /\ \A q \in Runtimes : q # r => rt'[q] = rt[q]
  BY <1>1, <1>2, <1>3, ConnectsDid DEF IInv
<1>5. /\ rt'[r].cfg = rt[r].cfg /\ rt'[r].stacks = rt[r].stacks /\ rt'[r].tools = rt[r].tools
      /\ rt'[r].regs = rt[r].regs /\ rt'[r].exec = rt[r].exec
      /\ rt'[r].providers = rt[r].providers
  BY <1>3, <1>4 DEF Runtime
<1>6. /\ op'[t].op = "run" /\ op'[t].pc = "connect" /\ op'[t].r = r
  BY <1>1, <1>4 DEF Did
<1>7. Types'
  BY <1>1, <1>4 DEF Did, IInv, Types
<1>8. rt'[r].exec = "open"
  BY <1>1, <1>2, <1>5 DEF IInv, Serving, ServesTheFile
<1>9. ServesTheFile'
  BY <1>1, <1>4, <1>5, StillServes DEF IInv, Types
<1>10. \A u \in Tasks : u # t /\ Working(u) => op[u].r # r
  BY <1>1, <1>2, Alone DEF IInv
<1>11. Phases(t)' /\ Locking(t)'
  BY <1>1, <1>2, <1>6, <1>8 DEF Phases, Locking, Working, Owns, Connecting, Unplugging, Closing,
     Reloads
<1>12. Built(t)' /\ Agenda(t)'
  BY <1>6 DEF Built, Agenda
<1> QED BY <1>1, <1>2, <1>4, <1>5, <1>7, <1>8, <1>9, <1>10, <1>11, <1>12, StartsKeeps

\* An operation that begins with nothing to do, or is asked for.
LEMMA QuietKeeps ==
  ASSUME IInv, NEW t \in Tasks,
         \/ \E kind \in Kinds : Ask(t, kind)
         \/ Refuse(t)
         \/ Initialize(t) /\ rt[serving].ready
  PROVE  IInv'
<1>1. UNCHANGED <<rt, open, serving, file, lost, lock>>
  BY DEF Ask, Refuse, Initialize
<1>2. CASE \E kind \in Kinds : Ask(t, kind)
  <2>1. PICK kind \in Kinds : Ask(t, kind)
    BY <1>2
  <2>2. Did(t, kind, "lock", None, None, <<>>) /\ op[t].pc = "idle" /\ kind # "none"
    BY <2>1, AskDid DEF IInv, Ask, Kinds
  <2>3. ~Working(t) /\ ~Working(t)' /\ Phases(t)'
    BY <2>2 DEF Did, Working, Phases
  <2>4. Types'
    BY <1>1, <2>2 DEF IInv, Types, Did
  <2> QED BY <1>1, <2>2, <2>3, <2>4, Quiet DEF Did
<1>3. CASE Refuse(t) \/ (Initialize(t) /\ rt[serving].ready)
  <2>1. op[t].pc = "lock" /\ Ends(t)
    BY <1>3 DEF Refuse, Initialize
  <2>2. Did(t, "none", "idle", None, None, <<>>)
    BY <2>1, EndsDid DEF IInv
  <2>3. ~Working(t) /\ ~Working(t)' /\ Phases(t)'
    BY <2>1, <2>2 DEF Did, Working, Phases
  <2>4. Types'
    BY <1>1, <2>2 DEF IInv, Types, Did
  <2> QED BY <1>1, <2>2, <2>3, <2>4, Quiet DEF Did
<1> QED BY <1>2, <1>3

-----------------------------------------------------------------------------
\* The invariant.

LEMMA InitHolds == Init => IInv
<1> SUFFICES ASSUME Init PROVE IInv
  OBVIOUS
<1>1. /\ op \in [Tasks -> Operation]
      /\ \A t \in Tasks : /\ op[t].op = "none" /\ op[t].pc = "idle" /\ op[t].r = None
                          /\ op[t].todo = <<>>
  <2>1. \A t \in Tasks : op[t] = NoOp
    BY DEF Init
  <2>2. op \in [Tasks -> Operation]
    BY <2>1, NoOpTyped DEF Init
  <2> QED BY <2>1, <2>2 DEF NoOp
<1>2. file \in Configs /\ file \in Seq(Servers) /\ 1 \in Runtimes /\ <<>> \in Seq(Servers)
  BY ToolsAssumption DEF Init, Runtimes
<1>3. NoRuntime = [NewRuntime(<<>>) EXCEPT !.exec = "none", !.providers = "none"]
  BY DEF NoRuntime
<1>4. \A c \in Seq(Servers) :
        /\ NewRuntime(c) \in Runtime /\ NewRuntime(c).cfg = c
        /\ NewRuntime(c).stacks = <<>> /\ NewRuntime(c).tools = {}
        /\ NewRuntime(c).exec = "open" /\ NewRuntime(c).providers = "open"
  BY <1>2 DEF NewRuntime, Runtime
<1>5. /\ NoRuntime \in Runtime /\ NoRuntime.stacks = <<>> /\ NoRuntime.tools = {}
      /\ NoRuntime.exec = "none" /\ NoRuntime.providers = "none"
  BY <1>2, <1>3 DEF NewRuntime, Runtime
<1>6. \A r \in Runtimes : rt[r] = IF library /\ r = 1 THEN NewRuntime(file) ELSE NoRuntime
  BY DEF Init
<1>7. rt \in [Runtimes -> Runtime] /\ \A r \in Runtimes : rt[r].stacks = <<>> /\ rt[r].tools = {}
  BY <1>2, <1>4, <1>5, <1>6 DEF Init
<1>8. Types
  BY <1>1, <1>2, <1>7 DEF Init, Types
<1>9. Workers
  BY <1>1 DEF Workers, Apart, Phases, Locking, Working, Owns, Connecting, Closing
<1>10. Serving
  <2>1. serving # None => serving = 1 /\ library
    BY DEF Init
  <2>2. ServesTheFile
    BY <1>2, <1>4, <1>6, <2>1 DEF ServesTheFile
  <2> QED BY <1>1, <2>2 DEF Serving, Built, Connecting
<1>11. \A t \in Tasks : Agenda(t)
  BY <1>1 DEF Agenda
<1>12. ASSUME NEW r \in Runtimes
       PROVE  /\ rt[r].exec = "none" => rt[r] = NoRuntime
              /\ ToolsOf(r) /\ Connections(r) /\ Ended(r)
  <2>1. ToSet(<<>>) = {} /\ Distinct(<<>>)
    BY DEF ToSet, Distinct
  <2>2. ToolsOf(r)
    BY <1>7, <2>1 DEF ToolsOf
  <2>3. Connections(r)
    <3>1. \A s \in Servers : Held(r, s) = 0 /\ open[r][s] = 0
      BY <1>1, <1>7, <2>1 DEF Held, Holds, Init
    <3> QED BY <1>7, <2>1, <3>1 DEF Connections
  <2>4. Ended(r)
    <3>1. r # serving => rt[r] = NoRuntime
      BY <1>6 DEF Init
    <3> QED BY <1>5, <3>1 DEF Ended, Unattended
  <2>5. rt[r].exec = "none" => rt[r] = NoRuntime
    BY <1>2, <1>4, <1>6
  <2> QED BY <2>2, <2>3, <2>4, <2>5
<1> QED BY <1>8, <1>9, <1>10, <1>11, <1>12 DEF IInv, Runtimely

LEMMA StepKeeps ==
  ASSUME IInv, [Next]_vars
  PROVE  IInv'
<1>1. ASSUME NEW t \in Tasks, Work(t) PROVE IInv'
  <2>1. CASE Build(t) \/ BeginTest(t)
    BY <2>1, BuildKeeps
  <2>2. CASE Initialize(t)
    BY <2>2, InitializeKeeps, QuietKeeps
  <2>3. CASE Refuse(t)
    BY <2>3, QuietKeeps
  <2>4. CASE BeginReload(t)
    BY <2>4, ReloadKeeps
  <2>5. CASE BeginShutdown(t)
    BY <2>5, ShutdownKeeps
  <2>6. CASE Connect(t)
    BY <2>6, ConnectKeeps
  <2>7. CASE Skip(t)
    BY <2>7, SkipKeeps
  <2>8. CASE ListTools(t)
    BY <2>8, ListToolsKeeps
  <2>9. CASE Drop(t)
    BY <2>9, DropKeeps
  <2>10. CASE Finish(t)
    BY <2>10, FinishKeeps
  <2>11. CASE Failed(t)
    BY <2>11, FailedKeeps
  <2>12. CASE Unplug(t)
    BY <2>12, UnplugKeeps
  <2>13. CASE Unplugged(t)
    BY <2>13, UnpluggedKeeps
  <2>14. CASE Replug(t)
    BY <2>14, ReplugKeeps
  <2>15. CASE CloseExec(t)
    BY <2>15, ExecClosedKeeps DEF CloseExec
  <2>16. CASE McpClosed(t)
    BY <2>16, McpClosedKeeps
  <2>17. CASE CloseProviders(t)
    BY <2>17, CloseProvidersKeeps
  <2> QED BY <1>1, <2>1, <2>2, <2>3, <2>4, <2>5, <2>6, <2>7, <2>8, <2>9, <2>10, <2>11, <2>12,
             <2>13, <2>14, <2>15, <2>16, <2>17 DEF Work
<1>2. ASSUME NEW t \in Tasks, Environment(t) PROVE IInv'
  <2>1. CASE \E kind \in Kinds : Ask(t, kind)
    BY <2>1, QuietKeeps
  <2>2. CASE ConnectFails(t) \/ ListFails(t) \/ WriteFails(t) \/ UnplugFails(t)
    BY <2>2, FaultKeeps
  <2>3. CASE Cancel(t)
    BY <2>3, CancelKeeps
  <2> QED BY <1>2, <2>1, <2>2, <2>3 DEF Environment
<1>3. CASE UNCHANGED vars
  <2>1. UNCHANGED <<file, serving, rt, open, lock, op, lost>>
    BY <1>3 DEF vars
  <2>2. Types'
    BY <2>1 DEF IInv, Types
  <2>3. Workers'
    BY <2>1 DEF IInv, Workers, Apart, Phases, Locking, Working, Owns
  <2>4. Serving'
    BY <2>1 DEF IInv, Serving, Built, ServesTheFile
  <2>5. \A r, s : Held(r, s)' = Held(r, s)
    BY <2>1 DEF Held, Holds, Head1
  <2>6. Runtimely'
    BY <2>1, <2>5 DEF IInv, Runtimely, ToolsOf, Connections, Ended, Unattended
  <2>7. \A t \in Tasks : Agenda(t)'
    BY <2>1 DEF IInv, Agenda, Head1
  <2> QED BY <2>2, <2>3, <2>4, <2>6, <2>7 DEF IInv
<1> QED BY <1>1, <1>2, <1>3 DEF Next

\* Every step of the service and of a library keeps who works on which runtime,
\* what it serves, the tools and connections of each, and what is left to close.
THEOREM Invariant == Spec => []IInv
<1>1. Init => IInv
  BY InitHolds
<1>2. IInv /\ [Next]_vars => IInv'
  BY StepKeeps
<1> QED BY <1>1, <1>2, PTL DEF Spec

\* A model is never told of a tool whose server is not connected, whatever
\* clashes, fails or is cancelled while servers are connected and closed.
THEOREM ToolsAreBacked == Spec => []ToolsBacked
<1>1. IInv => ToolsBacked
  <2> SUFFICES ASSUME IInv, NEW r \in Runtimes
               PROVE  /\ rt[r].tools = UNION {rt[r].regs[s] : s \in ToSet(rt[r].stacks)}
                      /\ \A s \in Servers : Contains(rt[r].stacks, s)
                           => rt[r].regs[s] = Offers[s] /\ open[r][s] >= 1
    BY DEF ToolsBacked
  <2> DEFINE plugged == ToSet(rt[r].stacks)
  <2>1. /\ rt[r].tools = UNION {Offers[s] : s \in plugged}
        /\ \A s \in plugged : rt[r].regs[s] = Offers[s]
    BY DEF IInv, Runtimely, ToolsOf
  <2>2. \A e : Contains(rt[r].stacks, e) <=> e \in plugged
    <3>1. rt[r].stacks \in Seq(Servers)
      BY DEF IInv, Types, Runtime
    <3> QED BY <3>1, Listed
  <2>3. \A s \in Servers : s \in plugged => open[r][s] >= 1
    <3> SUFFICES ASSUME NEW s \in Servers, s \in plugged PROVE open[r][s] >= 1
      OBVIOUS
    <3>1. open[r][s] >= Held(r, s) /\ open[r][s] \in Int
      BY DEF IInv, Types, Runtimely, Connections
    <3>2. Held(r, s) \in {1, 2}
      BY DEF Held
    <3> QED BY <3>1, <3>2
  <2> HIDE DEF plugged
  <2>4. UNION {Offers[s] : s \in plugged} = UNION {rt[r].regs[s] : s \in plugged}
    BY <2>1
  <2>5. rt[r].tools = UNION {rt[r].regs[s] : s \in plugged}
    BY <2>1, <2>4
  <2> QED BY <2>1, <2>2, <2>3, <2>5 DEF plugged
<1> QED BY <1>1, Invariant, PTL

\* No connection is lost but by a cancelled listing or a close that fails, and
\* what no longer serves is closed, after failed and cancelled operations too.
THEOREM NoneLeaks == Spec => []NothingLeaks
<1>1. IInv => NothingLeaks
  <2> SUFFICES ASSUME IInv, NEW r \in Runtimes
               PROVE  /\ r \notin lost => \A s \in Servers :
                           open[r][s] = (IF Contains(rt[r].stacks, s) THEN 1 ELSE 0)
                                        + Cardinality(InHand(r, s))
                      /\ r # serving /\ (\A t \in Tasks : op[t].r # r) =>
                           /\ rt[r].exec # "open" /\ rt[r].providers # "open"
                           /\ r \notin lost => \A s \in Servers : open[r][s] = 0
    BY DEF NothingLeaks
  <2>1. \A e : Contains(rt[r].stacks, e) <=> e \in ToSet(rt[r].stacks)
    <3>1. rt[r].stacks \in Seq(Servers)
      BY DEF IInv, Types, Runtime
    <3> QED BY <3>1, Listed
  <2>2. \A s \in Servers : r \notin lost => open[r][s] = Held(r, s)
    BY DEF IInv, Runtimely, Connections
  <2>3. ASSUME NEW s \in Servers
        PROVE  Cardinality(InHand(r, s)) = IF \E t \in Tasks : Holds(t, r, s) THEN 1 ELSE 0
    <3>1. InHand(r, s) = {t \in Tasks : Holds(t, r, s)}
      BY DEF InHand, Holds
    <3>2. CASE \E t \in Tasks : Holds(t, r, s)
      <4>1. PICK t \in Tasks : Holds(t, r, s)
        BY <3>2
      <4>2. \A u \in Tasks : Holds(u, r, s) => u = t
        BY <4>1 DEF Holds, IInv, Workers, Apart, Working
      <4>3. InHand(r, s) = {t}
        BY <3>1, <4>1, <4>2
      <4> QED BY <3>2, <4>3, FS_Singleton
    <3>3. CASE ~\E t \in Tasks : Holds(t, r, s)
      <4>1. InHand(r, s) = {}
        BY <3>1, <3>3
      <4> QED BY <3>3, <4>1, FS_EmptySet
    <3> QED BY <3>2, <3>3
  <2>4. \A s \in Servers : r \notin lost =>
          open[r][s] = (IF Contains(rt[r].stacks, s) THEN 1 ELSE 0) + Cardinality(InHand(r, s))
    BY <2>1, <2>2, <2>3 DEF Held
  <2>5. ASSUME r # serving, \A t \in Tasks : op[t].r # r
        PROVE  /\ rt[r].exec # "open" /\ rt[r].providers # "open"
               /\ r \notin lost => \A s \in Servers : open[r][s] = 0
    <3>1. /\ rt[r].exec # "open" /\ rt[r].providers # "open"
          /\ r \in lost \/ rt[r].stacks = <<>>
      BY <2>5 DEF IInv, Runtimely, Ended, Unattended
    <3>2. ToSet(<<>>) = {}
      BY DEF ToSet
    <3>3. \A s \in Servers : r \notin lost => Held(r, s) = 0
      BY <2>5, <3>1, <3>2 DEF Held, Holds
    <3> QED BY <2>2, <3>1, <3>3
  <2> QED BY <2>4, <2>5
<1> QED BY <1>1, Invariant, PTL

\* What serves is what the file describes, and nobody closes it: an update that
\* fails or is cancelled replaces neither the runtime nor the file.
THEOREM FileIsServed == Spec => []ServesTheFile
<1>1. IInv => ServesTheFile
  BY DEF IInv, Serving
<1> QED BY <1>1, Invariant, PTL

================================================================================
