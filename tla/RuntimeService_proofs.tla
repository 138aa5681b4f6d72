------------------------ MODULE RuntimeService_proofs ------------------------
(***************************************************************************)
(* Proofs about RuntimeService, for any number of conversations,           *)
(* sub-agents, deletions, settings requests and runtimes.                  *)
(***************************************************************************)
EXTENDS RuntimeService, FiniteSetTheorems, TLAPS

\* Where a task of each kind can be.
TurnAt    == {"idle", "created", "queued", "running", "unwinding", "release", "abort", "persist"}
ChildAt   == {"idle", "created", "queued", "running", "release", "abort", "done"}
DeleteAt  == {"idle", "closing", "cancelling", "created", "queued", "running", "release", "abort"}
AdminAt   == {"idle", "created", "queued", "building", "reworking", "closing"}
ServiceAt == {"starting", "up", "closing", "cancelling", "stopping", "stopped"}

Places    == TurnAt \union ChildAt \union DeleteAt \union AdminAt \union ServiceAt

PlacesOK ==
  /\ pc \in [Tasks -> Places]
  /\ \A s \in Chats : pc[s] \in TurnAt
  /\ \A c \in Children : pc[c] \in ChildAt
  /\ \A d \in Deleters : pc[d] \in DeleteAt
  /\ \A a \in Admins : pc[a] \in AdminAt
  /\ pc[Service] \in ServiceAt

ServiceTypeOK ==
  /\ PlacesOK
  /\ holder \in Admins \union {None}
  /\ created \in Nat /\ runtime \in 0..created /\ shut \subseteq 0..created
  /\ uses \in [Tasks -> 0..created]
  /\ ctrl \in [Chats -> {"none", "open", "closing"}] /\ mapped \subseteq Chats
  /\ parent \in [Children -> Chats \union {None}]
  /\ ready \in [Children -> {"unset", "set", "failed"}]
  /\ starter \in [Children -> {"none", "waiting", "stopping", "pending", "failed"}]
  /\ registered \subseteq Children
  /\ target \in [Deleters -> Chats \union {None}]
  /\ awaited \in [Deleters \union {Service} -> SUBSET Tasks]
  /\ missed \subseteq Deleters

\* The lock: kept across steps exactly by the request that builds or reworks.
LockKept == \A a \in Admins : pc[a] \in {"building", "reworking"} <=> holder = a

\* _active_runs is the tasks inside a lease, and the leases that were lost;
\* nobody is inside one while the lock is kept.
LeasesCounted ==
  /\ IsFiniteSet(Leased) /\ lost \in Nat
  /\ active = Cardinality(Leased) + lost
  /\ holder # None => Leased = {}

\* The current runtime is open, and everybody inside a lease works on it until it
\* is taken away; who closes a runtime closes another one.
CurrentOpen ==
  /\ pc[Service] = "starting" => created = 0
  /\ pc[Service] \in {"up", "closing", "cancelling"} <=> runtime # 0
  /\ runtime # 0 => runtime \notin shut
  /\ runtime # 0 => \A t \in Leased : uses[t] = runtime
  /\ \A a \in Admins : pc[a] = "closing" => uses[a] # runtime

\* A conversation with a turn under way while the service is up has an open
\* controller, or a deletion has closed it and waits for the turn.
TurnsKnown ==
  Serving => \A s \in Chats : ~Over(s) =>
    ctrl[s] = "open" \/ \E d \in Deleters : pc[d] = "closing" /\ s \in awaited[d]

ChildrenKnown ==
  \A c \in Children :
    /\ pc[c] = "idle" <=> starter[c] = "none"
    /\ ~Over(c) => c \in registered
    /\ ready[c] = "failed" => pc[c] = "done"
    /\ starter[c] = "failed" => pc[c] = "done"

\* What a deletion that knows the turns of its conversation has ended by each of
\* its steps.
Deleting ==
  \A d \in Deleters : pc[d] # "idle" =>
    /\ target[d] \in Chats
    /\ d \notin missed =>
         /\ pc[d] = "closing" => Over(target[d]) \/ target[d] \in awaited[d]
         /\ pc[d] # "closing" => pc[target[d]] = "idle"
         /\ pc[d] = "cancelling" =>
              \A c \in Children : parent[c] = target[d] => Over(c) \/ c \in awaited[d]
         /\ pc[d] \notin {"closing", "cancelling"} =>
              \A c \in Children : parent[c] = target[d] => Over(c)

\* What the shutdown has ended by each of its steps: all but what belongs to the
\* controllers it did not find.
ShuttingDown ==
  /\ ~Serving => \A t \in Deleters \union Admins : pc[t] = "idle"
  /\ pc[Service] = "starting" => \A t \in Leasers : Over(t)
  /\ pc[Service] = "closing" =>
       \A s \in Chats : Over(s) \/ s \in awaited[Service] \/ ctrl[s] = "open"
  /\ pc[Service] = "cancelling" =>
       /\ \A s \in Chats : Over(s) \/ ctrl[s] = "open"
       /\ \A c \in Children : Over(c) \/ c \in awaited[Service] \/ OfOpen(c)
  /\ pc[Service] \in {"stopping", "stopped"} => \A t \in Leasers : Over(t) \/ OfOpen(t)

IInv ==
  /\ ServiceTypeOK /\ LockKept /\ LeasesCounted /\ CurrentOpen
  /\ TurnsKnown /\ ChildrenKnown /\ Deleting /\ ShuttingDown

-----------------------------------------------------------------------------
\* Lemmas about tasks, places and leases.

LEMMA Kinds ==
  /\ Chats \subseteq Leasers /\ Children \subseteq Leasers /\ Deleters \subseteq Leasers
  /\ Leasers \subseteq Tasks /\ Admins \subseteq Tasks /\ Service \in Tasks
  /\ None \notin Tasks
  /\ Chats \intersect Children = {} /\ Chats \intersect Deleters = {}
  /\ Children \intersect Deleters = {} /\ Leasers \intersect Admins = {}
  /\ Service \notin Leasers /\ Service \notin Admins
BY RuntimeAssumption, KindsAssumption
DEF RuntimeAssumption, KindsAssumption, Tasks, Leasers

\* A task that goes where its kind can be is somewhere it can be.
LEMMA GoesTo ==
  ASSUME PlacesOK, NEW t \in Tasks, NEW to, Goes(t, to),
         t \in Chats => to \in TurnAt, t \in Children => to \in ChildAt,
         t \in Deleters => to \in DeleteAt, t \in Admins => to \in AdminAt,
         t = Service => to \in ServiceAt
  PROVE  PlacesOK'
<1>1. to \in Places
  BY DEF Places, Tasks, Leasers
<1>2. pc' \in [Tasks -> Places]
  BY <1>1 DEF Goes, PlacesOK
<1>3. \A u \in Tasks : pc'[u] = IF u = t THEN to ELSE pc[u]
  BY DEF Goes, PlacesOK
<1>. QED
  BY <1>2, <1>3, Kinds DEF PlacesOK

\* A step that neither enters nor leaves a lease keeps the count; it may take
\* the lock if _active_runs is zero.
LEMMA CountStays ==
  ASSUME PlacesOK, LeasesCounted, NEW t \in Tasks, NEW to, Goes(t, to),
         t \in Leasers => (pc[t] \in InLease <=> to \in InLease),
         UNCHANGED leaseVars, holder' \in {holder, None} \/ active = 0
  PROVE  LeasesCounted'
<1>1. Leased' = Leased
  BY Kinds DEF Leased, Goes, PlacesOK
<1>2. active = 0 => Leased = {}
  BY FS_CardinalityType, FS_EmptySet DEF LeasesCounted
<1>. QED
  BY <1>1, <1>2 DEF LeasesCounted, leaseVars

\* lease: one more.
LEMMA CountGrows ==
  ASSUME PlacesOK, LeasesCounted, NEW t \in Leasers, Goes(t, "running"),
         pc[t] \notin InLease, active' = active + 1, UNCHANGED lost,
         holder = None, holder' = None
  PROVE  LeasesCounted'
<1>1. Leased' = Leased \union {t} /\ t \notin Leased
  BY Kinds DEF Leased, Goes, PlacesOK, InLease
<1>2. Cardinality(Leased') = Cardinality(Leased) + 1 /\ IsFiniteSet(Leased')
  BY <1>1, FS_AddElement DEF LeasesCounted
<1>3. Cardinality(Leased) \in Nat
  BY FS_CardinalityType DEF LeasesCounted
<1>. QED
  BY <1>2, <1>3 DEF LeasesCounted

\* The end of a lease: one less, given back or lost.
LEMMA CountShrinks ==
  ASSUME PlacesOK, LeasesCounted, NEW t \in Leasers, pc[t] \in InLease,
         NEW to, Goes(t, to), to \notin InLease, UNCHANGED holder,
         \/ active' = active - 1 /\ lost' = lost
         \/ active' = active /\ lost' = lost + 1
  PROVE  LeasesCounted'
<1>1. Leased' = Leased \ {t} /\ t \in Leased
  BY Kinds DEF Leased, Goes, PlacesOK
<1>2. Cardinality(Leased') = Cardinality(Leased) - 1 /\ IsFiniteSet(Leased')
  BY <1>1, FS_RemoveElement DEF LeasesCounted
<1>3. Cardinality(Leased) \in Nat
  BY FS_CardinalityType DEF LeasesCounted
<1>. QED
  BY <1>1, <1>2, <1>3 DEF LeasesCounted

-----------------------------------------------------------------------------
\* The inductive invariant, one lemma for each action or way of going on.

\* The invariant says nothing of the queue, the cancellations and the bound.
LEMMA UnlistedKeeps ==
  ASSUME IInv,
         UNCHANGED <<holder, rtVars, leaseVars, pc, uses, ctrlVars, childVars, waitVars>>
  PROVE  IInv'
BY DEF IInv, ServiceTypeOK, PlacesOK, LockKept, LeasesCounted, CurrentOpen, TurnsKnown,
       ChildrenKnown, Deleting, ShuttingDown, Leased, Serving, Over, OfOpen,
       rtVars, leaseVars, ctrlVars, childVars, waitVars

\* A lease is entered or refused.
LEMMA EnterLeaseKeeps ==
  ASSUME IInv, NEW t \in Leasers, EnterLease(t)
  PROVE  IInv'
<1>. USE Kinds DEF IInv, ServiceTypeOK, PlacesOK, ctrlVars, TurnAt, ChildAt, DeleteAt,
         AdminAt, ServiceAt, EnterLease, lockVars, Section, Free, Granted,
         Ended, rtVars, waitVars
<1>a. PICK to \in {"running", Ended(t)} :
        /\ Goes(t, to)
        /\ to = "running" <=> runtime # 0
        /\ active' = IF to = "running" THEN active + 1 ELSE active
  BY Zenon
<1>1. ServiceTypeOK'
  <2>1. PlacesOK'
    BY GoesTo, <1>a
  <2>. QED
    BY <2>1, <1>a
<1>2. LockKept'
  BY <1>a DEF LockKept, Goes
<1>3. LeasesCounted'
  <2>1. CASE to = "running"
    BY <1>a, <2>1, CountGrows DEF InLease
  <2>2. CASE to # "running"
    BY <1>a, <2>2, CountStays DEF InLease, leaseVars
  <2>. QED
    BY <2>1, <2>2
<1>4. CurrentOpen'
  BY <1>a DEF CurrentOpen, Leased, InLease, Leasers, Goes
<1>5. TurnsKnown'
  BY <1>a DEF TurnsKnown, Over, Goes, Serving, CurrentOpen
<1>6. ChildrenKnown'
  BY <1>a DEF ChildrenKnown, Over, Goes
<1>7. Deleting'
  BY <1>a DEF Deleting, Over, Goes, ShuttingDown, Serving, CurrentOpen
<1>8. ShuttingDown'
  BY <1>a DEF ShuttingDown, Over, OfOpen, Serving, Leasers, Goes, CurrentOpen
<1>. QED
  BY <1>1, <1>2, <1>3, <1>4, <1>5, <1>6, <1>7, <1>8

\* A task queues for its lease.
LEMMA QueueForLeaseKeeps ==
  ASSUME IInv, NEW t \in Leasers, QueueForLease(t)
  PROVE  IInv'
<1>. USE Kinds DEF IInv, ServiceTypeOK, PlacesOK, ctrlVars, TurnAt, ChildAt, DeleteAt,
         AdminAt, ServiceAt, QueueForLease, Join, Goes, rtVars, leaseVars,
         childVars, waitVars
<1>1. ServiceTypeOK'
  <2>1. PlacesOK'
    BY GoesTo
  <2>. QED
    BY <2>1
<1>2. LockKept'
  BY DEF LockKept
<1>3. LeasesCounted'
  BY CountStays DEF LeasesCounted, InLease, Leasers, LockKept
<1>4. CurrentOpen'
  BY DEF CurrentOpen, Leased, InLease, Leasers
<1>5. TurnsKnown'
  BY DEF TurnsKnown, Over, Serving
<1>6. ChildrenKnown'
  BY DEF ChildrenKnown, Over
<1>7. Deleting'
  BY DEF Deleting, Over
<1>8. ShuttingDown'
  BY DEF ShuttingDown, Over, OfOpen, Serving, Leasers
<1>. QED
  BY <1>1, <1>2, <1>3, <1>4, <1>5, <1>6, <1>7, <1>8

\* A turn or sub-agent is cancelled before it has a lease.
LEMMA CancelledEarlyKeeps ==
  ASSUME IInv, NEW t \in Chats \union Children, CancelledEarly(t)
  PROVE  IInv'
<1>. USE Kinds DEF IInv, ServiceTypeOK, PlacesOK, ctrlVars, TurnAt, ChildAt, DeleteAt,
         AdminAt, ServiceAt, CancelledEarly, Goes, Ended, rtVars, leaseVars,
         childVars, waitVars
<1>1. ServiceTypeOK'
  <2>1. PlacesOK'
    BY GoesTo
  <2>. QED
    BY <2>1
<1>2. LockKept'
  BY DEF LockKept
<1>3. LeasesCounted'
  BY CountStays DEF LeasesCounted, InLease, Leasers, LockKept
<1>4. CurrentOpen'
  BY DEF CurrentOpen, Leased, InLease, Leasers
<1>5. TurnsKnown'
  BY DEF TurnsKnown, Over, Serving
<1>6. ChildrenKnown'
  BY DEF ChildrenKnown, Over
<1>7. Deleting'
  BY DEF Deleting, Over
<1>8. ShuttingDown'
  BY DEF ShuttingDown, Over, OfOpen, Serving, Leasers
<1>. QED
  BY <1>1, <1>2, <1>3, <1>4, <1>5, <1>6, <1>7, <1>8

\* ... or while it waits to give its lease back.
LEMMA ReleaseInterruptedKeeps ==
  ASSUME IInv, NEW t \in Chats \union Children, ReleaseInterrupted(t)
  PROVE  IInv'
<1>. USE Kinds DEF IInv, ServiceTypeOK, PlacesOK, ctrlVars, TurnAt, ChildAt, DeleteAt,
         AdminAt, ServiceAt, ReleaseInterrupted, Goes, Ended, rtVars, childVars,
         waitVars
<1>1. ServiceTypeOK'
  <2>1. PlacesOK'
    BY GoesTo
  <2>. QED
    BY <2>1
<1>2. LockKept'
  BY DEF LockKept
<1>3. LeasesCounted'
  BY CountShrinks DEF LeasesCounted, InLease, Leasers, LockKept
<1>4. CurrentOpen'
  BY DEF CurrentOpen, Leased, InLease, Leasers
<1>5. TurnsKnown'
  BY DEF TurnsKnown, Over, Serving
<1>6. ChildrenKnown'
  BY DEF ChildrenKnown, Over
<1>7. Deleting'
  BY DEF Deleting, Over
<1>8. ShuttingDown'
  BY DEF ShuttingDown, Over, OfOpen, Serving, Leasers
<1>. QED
  BY <1>1, <1>2, <1>3, <1>4, <1>5, <1>6, <1>7, <1>8

\* A lease is given back.
LEMMA GiveBackKeeps ==
  ASSUME IInv, NEW t \in Leasers, pc[t] \in InLease,
         NEW exit \in {"release", "abort"}, GiveBack(t, exit),
         UNCHANGED <<holder, rtVars, lost, childVars, awaited>>
  PROVE  IInv'
<1>. USE Kinds DEF IInv, ServiceTypeOK, PlacesOK, ctrlVars, TurnAt, ChildAt, DeleteAt,
         AdminAt, ServiceAt, GiveBack, Drop, After, Ended, OneLess, InLease, rtVars,
         childVars
<1>1. ServiceTypeOK'
  <2>1. PlacesOK'
    BY GoesTo
  <2>2. uses' \in [Tasks -> 0..created']
    OBVIOUS
  <2>3. ctrl' \in [Chats -> {"none", "open", "closing"}]
    OBVIOUS
  <2>4. target' \in [Deleters -> Chats \union {None}]
    OBVIOUS
  <2>. QED
    BY <2>1, <2>2, <2>3, <2>4
<1>2. LockKept'
  BY DEF LockKept, Goes
<1>3. LeasesCounted'
  BY CountShrinks DEF LeasesCounted, InLease, Leasers, LockKept
<1>4. CurrentOpen'
  BY DEF CurrentOpen, Leased, InLease, Leasers, Goes
<1>5. TurnsKnown'
  BY DEF TurnsKnown, Over, Goes, Serving, Deleting
<1>6. ChildrenKnown'
  BY DEF ChildrenKnown, Over, Goes
<1>7. Deleting'
  BY DEF Deleting, Over, Goes
<1>8. ShuttingDown'
  BY DEF ShuttingDown, Over, OfOpen, Serving, Leasers, Goes, CurrentOpen
<1>. QED
  BY <1>1, <1>2, <1>3, <1>4, <1>5, <1>6, <1>7, <1>8

\* The end of a lease waits for the lock.
LEMMA WaitToGiveBackKeeps ==
  ASSUME IInv, NEW t \in Leasers, pc[t] \in InLease,
         NEW exit \in {"release", "abort"}, Goes(t, exit),
         UNCHANGED <<holder, rtVars, leaseVars, uses, ctrlVars, childVars, waitVars>>
  PROVE  IInv'
<1>. USE Kinds DEF IInv, ServiceTypeOK, PlacesOK, ctrlVars, TurnAt, ChildAt, DeleteAt,
         AdminAt, ServiceAt, Goes, InLease, rtVars, leaseVars, childVars,
         waitVars
<1>1. ServiceTypeOK'
  <2>1. PlacesOK'
    BY GoesTo
  <2>. QED
    BY <2>1
<1>2. LockKept'
  BY DEF LockKept
<1>3. LeasesCounted'
  BY CountStays DEF LeasesCounted, InLease, Leasers, LockKept
<1>4. CurrentOpen'
  BY DEF CurrentOpen, Leased, InLease, Leasers
<1>5. TurnsKnown'
  BY DEF TurnsKnown, Over, Serving
<1>6. ChildrenKnown'
  BY DEF ChildrenKnown, Over
<1>7. Deleting'
  BY DEF Deleting, Over
<1>8. ShuttingDown'
  BY DEF ShuttingDown, Over, OfOpen, Serving, Leasers
<1>. QED
  BY <1>1, <1>2, <1>3, <1>4, <1>5, <1>6, <1>7, <1>8

\* A turn that starts while its conversation is being deleted is one the deletion
\* does not know.
LEMMA StartTurnKeeps ==
  ASSUME IInv, NEW s \in Chats, StartTurn(s)
  PROVE  IInv'
<1>. USE Kinds DEF IInv, ServiceTypeOK, PlacesOK, ctrlVars, TurnAt, ChildAt, DeleteAt,
         AdminAt, ServiceAt, StartTurn, lockVars, Request, Goes, rtVars,
         leaseVars, childVars, waitVars
<1>1. ServiceTypeOK'
  <2>1. PlacesOK'
    BY GoesTo
  <2>2. awaited' \in [Deleters \union {Service} -> SUBSET Tasks]
    OBVIOUS
  <2>3. missed' \subseteq Deleters /\ mapped' \subseteq Chats
    BY DEF DeletionsOf
  <2>. QED
    BY <2>1, <2>2, <2>3
<1>2. LockKept'
  BY DEF LockKept
<1>3. LeasesCounted'
  BY CountStays DEF LeasesCounted, InLease, Leasers, LockKept
<1>4. CurrentOpen'
  BY DEF CurrentOpen, Leased, InLease, Leasers
<1>5. TurnsKnown'
  BY DEF TurnsKnown, Over, Serving
<1>6. ChildrenKnown'
  BY DEF ChildrenKnown, Over
<1>7. Deleting'
  BY DEF Deleting, Over, DeletionsOf
<1>8. ShuttingDown'
  BY DEF ShuttingDown, Over, OfOpen, Serving, Leasers
<1>. QED
  BY <1>1, <1>2, <1>3, <1>4, <1>5, <1>6, <1>7, <1>8

\* A cancelled turn stops its calls.
LEMMA TurnUnwindsKeeps ==
  ASSUME IInv, NEW s \in Chats, TurnUnwinds(s)
  PROVE  IInv'
<1>. USE Kinds DEF IInv, ServiceTypeOK, PlacesOK, ctrlVars, TurnAt, ChildAt, DeleteAt,
         AdminAt, ServiceAt, TurnUnwinds, CallsOf, Goes, rtVars, leaseVars,
         waitVars
<1>1. ServiceTypeOK'
  <2>1. PlacesOK'
    BY GoesTo
  <2>. QED
    BY <2>1
<1>2. LockKept'
  BY DEF LockKept
<1>3. LeasesCounted'
  BY CountStays DEF LeasesCounted, InLease, Leasers, LockKept
<1>4. CurrentOpen'
  BY DEF CurrentOpen, Leased, InLease, Leasers
<1>5. TurnsKnown'
  BY DEF TurnsKnown, Over, Serving
<1>6. ChildrenKnown'
  BY DEF ChildrenKnown, Over
<1>7. Deleting'
  BY DEF Deleting, Over
<1>8. ShuttingDown'
  BY DEF ShuttingDown, Over, OfOpen, Serving, Leasers
<1>. QED
  BY <1>1, <1>2, <1>3, <1>4, <1>5, <1>6, <1>7, <1>8

\* A turn has stored its duration.
LEMMA PersistedKeeps ==
  ASSUME IInv, NEW s \in Chats, Persisted(s)
  PROVE  IInv'
<1>. USE Kinds DEF IInv, ServiceTypeOK, PlacesOK, ctrlVars, TurnAt, ChildAt, DeleteAt,
         AdminAt, ServiceAt, Persisted, lockVars, Goes, rtVars, leaseVars,
         childVars, waitVars
<1>1. ServiceTypeOK'
  <2>1. PlacesOK'
    BY GoesTo
  <2>. QED
    BY <2>1
<1>2. LockKept'
  BY DEF LockKept
<1>3. LeasesCounted'
  BY CountStays DEF LeasesCounted, InLease, Leasers, LockKept
<1>4. CurrentOpen'
  BY DEF CurrentOpen, Leased, InLease, Leasers
<1>5. TurnsKnown'
  BY DEF TurnsKnown, Over, Serving
<1>6. ChildrenKnown'
  BY DEF ChildrenKnown, Over
<1>7. Deleting'
  BY DEF Deleting, Over
<1>8. ShuttingDown'
  BY DEF ShuttingDown, Over, OfOpen, Serving, Leasers
<1>. QED
  BY <1>1, <1>2, <1>3, <1>4, <1>5, <1>6, <1>7, <1>8

\* A running turn starts a sub-agent.
LEMMA StartChildKeeps ==
  ASSUME IInv, NEW s \in Chats, NEW c \in Children, StartChild(s, c)
  PROVE  IInv'
<1>. USE Kinds DEF IInv, ServiceTypeOK, PlacesOK, ctrlVars, TurnAt, ChildAt, DeleteAt,
         AdminAt, ServiceAt, StartChild, lockVars, Goes, rtVars, leaseVars,
         waitVars
<1>1. ServiceTypeOK'
  <2>1. PlacesOK'
    BY GoesTo
  <2>. QED
    BY <2>1
<1>2. LockKept'
  BY DEF LockKept
<1>3. LeasesCounted'
  BY CountStays DEF LeasesCounted, InLease, Leasers, LockKept
<1>4. CurrentOpen'
  BY DEF CurrentOpen, Leased, InLease, Leasers
<1>5. TurnsKnown'
  BY DEF TurnsKnown, Over, Serving
<1>6. ChildrenKnown'
  BY DEF ChildrenKnown, Over
<1>7. Deleting'
  BY DEF Deleting, Over
<1>8. ShuttingDown'
  BY DEF ShuttingDown, Over, OfOpen, Serving, Leasers
<1>. QED
  BY <1>1, <1>2, <1>3, <1>4, <1>5, <1>6, <1>7, <1>8

\* What a sub-agent's end or its lease tells its starter.
LEMMA ChildNewsKeeps ==
  ASSUME IInv, NEW c \in Children, StartReturns(c) \/ StartStops(c) \/ Finished(c)
  PROVE  IInv'
<1>. USE Kinds DEF IInv, ServiceTypeOK, PlacesOK, ctrlVars, TurnAt, ChildAt, DeleteAt,
         AdminAt, ServiceAt, StartReturns, lockVars, StartStops, ChildGone,
         Finished, Settled, rtVars, leaseVars, waitVars
<1>1. ServiceTypeOK'
  <2>1. CASE StartReturns(c)
    BY <2>1
  <2>2. CASE StartStops(c)
    BY <2>2
  <2>3. CASE Finished(c)
    BY <2>3
  <2>. QED
    BY <2>1, <2>2, <2>3
<1>2. LockKept'
  BY DEF LockKept
<1>3. LeasesCounted'
  BY DEF LeasesCounted, Leased
<1>4. CurrentOpen'
  BY DEF CurrentOpen, Leased, InLease, Leasers
<1>5. TurnsKnown'
  BY DEF TurnsKnown, Over, Serving
<1>6. ChildrenKnown'
  BY DEF ChildrenKnown, Over
<1>7. Deleting'
  BY DEF Deleting, Over
<1>8. ShuttingDown'
  BY DEF ShuttingDown, Over, OfOpen, Serving, Leasers
<1>. QED
  BY <1>1, <1>2, <1>3, <1>4, <1>5, <1>6, <1>7, <1>8

\* A deletion closes the controller.
LEMMA DeleteBeginsKeeps ==
  ASSUME IInv, NEW d \in Deleters, NEW s \in Chats, DeleteBegins(d, s)
  PROVE  IInv'
<1>. USE Kinds DEF IInv, ServiceTypeOK, PlacesOK, ctrlVars, TurnAt, ChildAt, DeleteAt,
         AdminAt, ServiceAt, DeleteBegins, Request, Goes, Live, RequestCancel,
         rtVars, leaseVars, childVars
<1>1. ServiceTypeOK'
  <2>1. PlacesOK'
    BY GoesTo
  <2>. QED
    BY <2>1
<1>2. LockKept'
  BY DEF LockKept
<1>3. LeasesCounted'
  BY CountStays DEF LeasesCounted, InLease, Leasers, LockKept
<1>4. CurrentOpen'
  BY DEF CurrentOpen, Leased, InLease, Leasers
<1>5. TurnsKnown'
  BY DEF TurnsKnown, Over, Serving
<1>6. ChildrenKnown'
  BY DEF ChildrenKnown, Over
<1>7. Deleting'
  BY DEF Deleting, Over, TurnsKnown, Serving
<1>8. ShuttingDown'
  BY DEF ShuttingDown, Over, OfOpen, Serving, Leasers
<1>. QED
  BY <1>1, <1>2, <1>3, <1>4, <1>5, <1>6, <1>7, <1>8

\* A deletion cancels the sub-agents.
LEMMA DeleteCancelsKeeps ==
  ASSUME IInv, NEW d \in Deleters, DeleteCancels(d)
  PROVE  IInv'
<1>. USE Kinds DEF IInv, ServiceTypeOK, PlacesOK, ctrlVars, TurnAt, ChildAt, DeleteAt,
         AdminAt, ServiceAt, DeleteCancels, ChildrenOf, Goes, RequestCancel,
         rtVars, leaseVars, childVars
<1>1. ServiceTypeOK'
  <2>1. PlacesOK'
    BY GoesTo
  <2>. QED
    BY <2>1
<1>2. LockKept'
  BY DEF LockKept
<1>3. LeasesCounted'
  BY CountStays DEF LeasesCounted, InLease, Leasers, LockKept
<1>4. CurrentOpen'
  BY DEF CurrentOpen, Leased, InLease, Leasers
<1>5. TurnsKnown'
  BY DEF TurnsKnown, Over, Serving
<1>6. ChildrenKnown'
  BY DEF ChildrenKnown, Over
<1>7. Deleting'
  BY DEF Deleting, Over, ChildrenKnown
<1>8. ShuttingDown'
  BY DEF ShuttingDown, Over, OfOpen, Serving, Leasers
<1>. QED
  BY <1>1, <1>2, <1>3, <1>4, <1>5, <1>6, <1>7, <1>8

\* A deletion asks for its lease.
LEMMA DeleteLeasesKeeps ==
  ASSUME IInv, NEW d \in Deleters, DeleteLeases(d)
  PROVE  IInv'
<1>. USE Kinds DEF IInv, ServiceTypeOK, PlacesOK, ctrlVars, TurnAt, ChildAt, DeleteAt,
         AdminAt, ServiceAt, DeleteLeases, lockVars, Goes, rtVars, leaseVars,
         childVars
<1>1. ServiceTypeOK'
  <2>1. PlacesOK'
    BY GoesTo
  <2>. QED
    BY <2>1
<1>2. LockKept'
  BY DEF LockKept
<1>3. LeasesCounted'
  BY CountStays DEF LeasesCounted, InLease, Leasers, LockKept
<1>4. CurrentOpen'
  BY DEF CurrentOpen, Leased, InLease, Leasers
<1>5. TurnsKnown'
  BY DEF TurnsKnown, Over, Serving
<1>6. ChildrenKnown'
  BY DEF ChildrenKnown, Over
<1>7. Deleting'
  BY DEF Deleting, Over
<1>8. ShuttingDown'
  BY DEF ShuttingDown, Over, OfOpen, Serving, Leasers
<1>. QED
  BY <1>1, <1>2, <1>3, <1>4, <1>5, <1>6, <1>7, <1>8

\* A settings request that asks, waits, is refused or gives up the lock.
LEMMA AdminKeeps ==
  ASSUME IInv, NEW a \in Admins,
         \/ AdminAsks(a) \/ AdminQueues(a) \/ AdminRefused(a)
         \/ ReworkDone(a) \/ UpdateFails(a)
  PROVE  IInv'
<1>. USE Kinds DEF IInv, ServiceTypeOK, PlacesOK, ctrlVars, TurnAt, ChildAt, DeleteAt,
         AdminAt, ServiceAt, rtVars, leaseVars, childVars, waitVars
<1>a. PICK to \in {"created", "queued", "idle"} :
        /\ Goes(a, to) /\ holder' \in {holder, None}
        /\ holder' # holder => holder = a
        /\ to = "idle" \/ pc[a] \in {"idle", "created"}
        /\ pc[a] \in {"building", "reworking"} => holder' = None
        /\ pc[a] = "idle" => Serving
        /\ UNCHANGED <<rtVars, leaseVars, uses, ctrlVars, childVars, waitVars>>
  <2>1. CASE AdminAsks(a)
    BY <2>1 DEF AdminAsks, Request, lockVars
  <2>2. CASE AdminQueues(a)
    BY <2>2 DEF AdminQueues, Join
  <2>3. CASE AdminRefused(a)
    BY <2>3 DEF AdminRefused, Section, Free, Granted, lockVars
  <2>4. CASE ReworkDone(a) \/ UpdateFails(a)
    BY <2>4 DEF ReworkDone, UpdateFails, LockKept
  <2>. QED
    BY <2>1, <2>2, <2>3, <2>4
<1>1. ServiceTypeOK'
  <2>1. PlacesOK'
    BY GoesTo, <1>a
  <2>. QED
    BY <2>1, <1>a
<1>2. LockKept'
  BY <1>a DEF LockKept, Goes
<1>3. LeasesCounted'
  BY CountStays, <1>a DEF LeasesCounted, InLease, Leasers, LockKept
<1>4. CurrentOpen'
  BY <1>a DEF CurrentOpen, Leased, InLease, Leasers, Goes
<1>5. TurnsKnown'
  BY <1>a DEF TurnsKnown, Over, Goes, Serving
<1>6. ChildrenKnown'
  BY <1>a DEF ChildrenKnown, Over, Goes
<1>7. Deleting'
  BY <1>a DEF Deleting, Over, Goes
<1>8. ShuttingDown'
  BY <1>a DEF ShuttingDown, Over, OfOpen, Serving, Leasers, Goes
<1>. QED
  BY <1>1, <1>2, <1>3, <1>4, <1>5, <1>6, <1>7, <1>8

\* The lock is kept for a settings request, which finds nobody inside a lease.
LEMMA AdminWorksKeeps ==
  ASSUME IInv, NEW a \in Admins, AdminWorks(a)
  PROVE  IInv'
<1>. USE Kinds DEF IInv, ServiceTypeOK, PlacesOK, ctrlVars, TurnAt, ChildAt, DeleteAt,
         AdminAt, ServiceAt, AdminWorks, Acquire, Free, Granted, Unused, Keeper,
         rtVars, leaseVars, childVars, waitVars
<1>a. PICK to \in {"building", "reworking"} : Goes(a, to)
  OBVIOUS
<1>1. ServiceTypeOK'
  <2>1. PlacesOK'
    BY GoesTo, <1>a
  <2>. QED
    BY <2>1, <1>a
<1>2. LockKept'
  BY <1>a DEF LockKept, Goes
<1>3. LeasesCounted'
  BY CountStays, <1>a DEF LeasesCounted, InLease, Leasers, LockKept
<1>4. CurrentOpen'
  BY <1>a DEF CurrentOpen, Leased, InLease, Leasers, Goes
<1>5. TurnsKnown'
  BY <1>a DEF TurnsKnown, Over, Goes, Serving
<1>6. ChildrenKnown'
  BY <1>a DEF ChildrenKnown, Over, Goes
<1>7. Deleting'
  BY <1>a DEF Deleting, Over, Goes
<1>8. ShuttingDown'
  BY <1>a DEF ShuttingDown, Over, OfOpen, Serving, Leasers, Goes
<1>. QED
  BY <1>1, <1>2, <1>3, <1>4, <1>5, <1>6, <1>7, <1>8

\* A replacement is installed: nobody works on the old runtime.
LEMMA ReplaceKeeps ==
  ASSUME IInv, NEW a \in Admins, Replace(a)
  PROVE  IInv'
<1>. USE Kinds DEF IInv, ServiceTypeOK, PlacesOK, ctrlVars, TurnAt, ChildAt, DeleteAt,
         AdminAt, ServiceAt, Replace, Goes, leaseVars, childVars, waitVars
<1>1. ServiceTypeOK'
  <2>1. PlacesOK'
    BY GoesTo
  <2>. QED
    BY <2>1
<1>2. LockKept'
  BY DEF LockKept
<1>3. LeasesCounted'
  BY CountStays DEF LeasesCounted, InLease, Leasers, LockKept
<1>4. CurrentOpen'
  BY DEF CurrentOpen, Leased, InLease, Leasers, LockKept, LeasesCounted, ShuttingDown, Serving
<1>5. TurnsKnown'
  BY DEF TurnsKnown, Over, Serving
<1>6. ChildrenKnown'
  BY DEF ChildrenKnown, Over
<1>7. Deleting'
  BY DEF Deleting, Over
<1>8. ShuttingDown'
  BY DEF ShuttingDown, Over, OfOpen, Serving, Leasers
<1>. QED
  BY <1>1, <1>2, <1>3, <1>4, <1>5, <1>6, <1>7, <1>8

\* The old runtime is closed.
LEMMA UpdateClosesKeeps ==
  ASSUME IInv, NEW a \in Admins, UpdateCloses(a)
  PROVE  IInv'
<1>. USE Kinds DEF IInv, ServiceTypeOK, PlacesOK, ctrlVars, TurnAt, ChildAt, DeleteAt,
         AdminAt, ServiceAt, UpdateCloses, lockVars, CloseOld, Goes, leaseVars,
         childVars, waitVars
<1>1. ServiceTypeOK'
  <2>1. PlacesOK'
    BY GoesTo
  <2>2. 0 \in 0..created /\ uses[a] \in 0..created
    OBVIOUS
  <2>3. shut' \subseteq 0..created'
    BY <2>2
  <2>4. uses' \in [Tasks -> 0..created']
    BY <2>2
  <2>. QED
    BY <2>1, <2>3, <2>4
<1>2. LockKept'
  BY DEF LockKept
<1>3. LeasesCounted'
  BY CountStays DEF LeasesCounted, InLease, Leasers, LockKept
<1>4. CurrentOpen'
  BY DEF CurrentOpen, Leased, InLease, Leasers
<1>5. TurnsKnown'
  BY DEF TurnsKnown, Over, Serving
<1>6. ChildrenKnown'
  BY DEF ChildrenKnown, Over
<1>7. Deleting'
  BY DEF Deleting, Over
<1>8. ShuttingDown'
  BY DEF ShuttingDown, Over, OfOpen, Serving, Leasers
<1>. QED
  BY <1>1, <1>2, <1>3, <1>4, <1>5, <1>6, <1>7, <1>8

\* The service starts, or fails to.
LEMMA StartupKeeps ==
  ASSUME IInv, Startup
  PROVE  IInv'
<1>. USE Kinds DEF IInv, ServiceTypeOK, PlacesOK, ctrlVars, TurnAt, ChildAt, DeleteAt,
         AdminAt, ServiceAt, Startup, lockVars, leaseVars, childVars, waitVars
<1>a. PICK to \in {"up", "stopped"} : Goes(Service, to)
  OBVIOUS
<1>1. ServiceTypeOK'
  <2>1. PlacesOK'
    BY <1>a, GoesTo
  <2>2. /\ created' \in Nat /\ runtime' \in 0..created' /\ 0..created \subseteq 0..created'
        /\ uses' \in [Tasks -> 0..created']
    BY DEF CurrentOpen
  <2>. QED
    BY <2>1, <2>2
<1>2. LockKept'
  BY <1>a DEF LockKept, Goes
<1>3. LeasesCounted'
  BY CountStays, <1>a DEF LeasesCounted, InLease, Leasers, LockKept
<1>4. CurrentOpen'
  <2>1. Leased' = {}
    BY <1>a DEF Leased, InLease, Leasers, Goes, ShuttingDown, Over
  <2>2. \A a \in Admins : pc'[a] # "closing"
    BY <1>a DEF Goes, ShuttingDown, Serving
  <2>3. shut \subseteq 0..0 /\ runtime = 0
    BY DEF CurrentOpen
  <2>. QED
    BY <1>a, <2>1, <2>2, <2>3 DEF CurrentOpen, Goes
<1>5. TurnsKnown'
  BY <1>a DEF TurnsKnown, Over, Goes, Serving, ShuttingDown, Leasers
<1>6. ChildrenKnown'
  BY <1>a DEF ChildrenKnown, Over, Goes
<1>7. Deleting'
  BY <1>a DEF Deleting, Over, Goes
<1>8. ShuttingDown'
  BY <1>a DEF ShuttingDown, Over, OfOpen, Serving, Leasers, Goes
<1>. QED
  BY <1>1, <1>2, <1>3, <1>4, <1>5, <1>6, <1>7, <1>8

\* A shutdown closes every controller.
LEMMA ShutdownBeginsKeeps ==
  ASSUME IInv, ShutdownBegins
  PROVE  IInv'
<1>. USE Kinds DEF IInv, ServiceTypeOK, PlacesOK, ctrlVars, TurnAt, ChildAt, DeleteAt,
         AdminAt, ServiceAt, ShutdownBegins, Goes, RequestCancel, Live, rtVars,
         leaseVars, childVars
<1>1. ServiceTypeOK'
  <2>1. PlacesOK'
    BY GoesTo
  <2>. QED
    BY <2>1
<1>2. LockKept'
  BY DEF LockKept
<1>3. LeasesCounted'
  BY CountStays DEF LeasesCounted, InLease, Leasers, LockKept
<1>4. CurrentOpen'
  <2>1. Leased' = Leased
    BY DEF Leased, Leasers
  <2>2. pc'[Service] = "closing" /\ \A a \in Admins : pc'[a] = pc[a]
    OBVIOUS
  <2>. QED
    BY <2>1, <2>2 DEF CurrentOpen, Serving
<1>5. TurnsKnown'
  BY DEF TurnsKnown, Over, Serving
<1>6. ChildrenKnown'
  BY DEF ChildrenKnown, Over
<1>7. Deleting'
  BY DEF Deleting, Over, Serving
<1>8. ShuttingDown'
  BY DEF ShuttingDown, Over, OfOpen, Serving, Leasers, TurnsKnown
<1>. QED
  BY <1>1, <1>2, <1>3, <1>4, <1>5, <1>6, <1>7, <1>8

\* ... then cancels every sub-agent.
LEMMA ShutdownCancelsKeeps ==
  ASSUME IInv, ShutdownCancels
  PROVE  IInv'
<1>. USE Kinds DEF IInv, ServiceTypeOK, PlacesOK, ctrlVars, TurnAt, ChildAt, DeleteAt,
         AdminAt, ServiceAt, ShutdownCancels, Goes, RequestCancel, AllOfThem,
         rtVars, leaseVars, childVars
<1>1. ServiceTypeOK'
  <2>1. PlacesOK'
    BY GoesTo
  <2>. QED
    BY <2>1
<1>2. LockKept'
  BY DEF LockKept
<1>3. LeasesCounted'
  BY CountStays DEF LeasesCounted, InLease, Leasers, LockKept
<1>4. CurrentOpen'
  BY DEF CurrentOpen, Leased, InLease, Leasers
<1>5. TurnsKnown'
  BY DEF TurnsKnown, Over, Serving
<1>6. ChildrenKnown'
  BY DEF ChildrenKnown, Over
<1>7. Deleting'
  BY DEF Deleting, Over
<1>8. ShuttingDown'
  BY DEF ShuttingDown, Over, OfOpen, Serving, Leasers, ChildrenKnown
<1>. QED
  BY <1>1, <1>2, <1>3, <1>4, <1>5, <1>6, <1>7, <1>8

\* ... then takes the runtime: nobody it could find is left who leases it.
LEMMA ShutdownTakesKeeps ==
  ASSUME IInv, ShutdownTakes
  PROVE  IInv'
<1>. USE Kinds DEF IInv, ServiceTypeOK, PlacesOK, ctrlVars, TurnAt, ChildAt, DeleteAt,
         AdminAt, ServiceAt, ShutdownTakes, lockVars, Section, Free, Granted,
         Goes, leaseVars, childVars, waitVars
<1>1. ServiceTypeOK'
  <2>1. PlacesOK'
    BY GoesTo
  <2>. QED
    BY <2>1
<1>2. LockKept'
  BY DEF LockKept
<1>3. LeasesCounted'
  BY CountStays DEF LeasesCounted, InLease, Leasers, LockKept
<1>4. CurrentOpen'
  <2>1. runtime' = 0 /\ pc'[Service] = "stopping"
    OBVIOUS
  <2>2. \A a \in Admins : pc'[a] # "closing"
    BY DEF ShuttingDown, Serving
  <2>. QED
    BY <2>1, <2>2 DEF CurrentOpen
<1>5. TurnsKnown'
  BY DEF TurnsKnown, Over, Serving
<1>6. ChildrenKnown'
  BY DEF ChildrenKnown, Over
<1>7. Deleting'
  BY DEF Deleting, Over
<1>8. ShuttingDown'
  BY DEF ShuttingDown, Over, OfOpen, Serving, Leasers
<1>. QED
  BY <1>1, <1>2, <1>3, <1>4, <1>5, <1>6, <1>7, <1>8

\* ... and closes it.
LEMMA ShutdownClosesKeeps ==
  ASSUME IInv, ShutdownCloses
  PROVE  IInv'
<1>. USE Kinds DEF IInv, ServiceTypeOK, PlacesOK, ctrlVars, TurnAt, ChildAt, DeleteAt,
         AdminAt, ServiceAt, ShutdownCloses, lockVars, CloseOld, Goes,
         leaseVars, childVars, waitVars
<1>1. ServiceTypeOK'
  <2>1. PlacesOK'
    BY GoesTo
  <2>2. 0 \in 0..created /\ uses[Service] \in 0..created
    OBVIOUS
  <2>3. shut' \subseteq 0..created'
    BY <2>2
  <2>4. uses' \in [Tasks -> 0..created']
    BY <2>2
  <2>. QED
    BY <2>1, <2>3, <2>4
<1>2. LockKept'
  BY DEF LockKept
<1>3. LeasesCounted'
  BY CountStays DEF LeasesCounted, InLease, Leasers, LockKept
<1>4. CurrentOpen'
  BY DEF CurrentOpen, Leased, InLease, Leasers, ShuttingDown, Over
<1>5. TurnsKnown'
  BY DEF TurnsKnown, Over, Serving
<1>6. ChildrenKnown'
  BY DEF ChildrenKnown, Over
<1>7. Deleting'
  BY DEF Deleting, Over
<1>8. ShuttingDown'
  BY DEF ShuttingDown, Over, OfOpen, Serving, Leasers
<1>. QED
  BY <1>1, <1>2, <1>3, <1>4, <1>5, <1>6, <1>7, <1>8

-----------------------------------------------------------------------------
\* The theorems.

LEMMA InitKeeps == Init => IInv
<1>. SUFFICES ASSUME Init PROVE IInv
  OBVIOUS
<1>. USE Kinds DEF Init, IInv, ServiceTypeOK, PlacesOK, Places,
         TurnAt, ChildAt, DeleteAt, AdminAt, ServiceAt
<1>1. \A t \in Tasks : pc[t] = IF t = Service THEN "starting" ELSE "idle"
  OBVIOUS
<1>2. ServiceTypeOK
  OBVIOUS
<1>3. Leased = {}
  BY <1>1 DEF Leased, InLease
<1>4. LeasesCounted
  BY <1>3, FS_EmptySet DEF LeasesCounted
<1>5. LockKept /\ CurrentOpen
  BY <1>1, <1>3 DEF LockKept, CurrentOpen
<1>6. TurnsKnown /\ ChildrenKnown /\ Deleting /\ ShuttingDown
  BY <1>1 DEF TurnsKnown, ChildrenKnown, Deleting, ShuttingDown, Serving, Over, Leasers
<1>. QED
  BY <1>2, <1>4, <1>5, <1>6

\* The end of a run inside its lease, however it ends.
LEMMA ExitKeeps ==
  ASSUME IInv, NEW t \in Leasers, pc[t] \in InLease,
         NEW exit \in {"release", "abort"}, ExitLease(t, exit),
         UNCHANGED <<rtVars, lost, childVars, awaited>>
  PROVE  IInv'
<1>1. CASE Free /\ GiveBack(t, exit) /\ UNCHANGED lockVars
  BY <1>1, GiveBackKeeps DEF lockVars
<1>2. CASE Join(t) /\ Goes(t, exit) /\ UNCHANGED <<active, uses, ctrlVars, target, missed>>
  BY <1>2, WaitToGiveBackKeeps DEF Join, leaseVars, waitVars
<1>. QED
  BY <1>1, <1>2 DEF ExitLease

\* A step of a task that leases, apart from its beginning and its run's end.
LEMMA LeaseStepKeeps ==
  ASSUME IInv, NEW t \in Chats \union Children, LeaseStep(t)
  PROVE  IInv'
<1>. USE Kinds
<1>1. CASE EnterLease(t) \/ QueueForLease(t)
  BY <1>1, EnterLeaseKeeps, QueueForLeaseKeeps
<1>2. CASE CancelledEarly(t) \/ ReleaseInterrupted(t)
  BY <1>2, CancelledEarlyKeeps, ReleaseInterruptedKeeps
<1>3. CASE Released(t)
  BY <1>3, GiveBackKeeps DEF Released, InLease
<1>. QED
  BY <1>1, <1>2, <1>3 DEF LeaseStep

LEMMA TurnKeeps ==
  ASSUME IInv, NEW s \in Chats, TurnStep(s) \/ TurnEnds(s) \/ Stop(s)
  PROVE  IInv'
<1>. USE Kinds
<1>1. CASE LeaseStep(s)
  BY <1>1, LeaseStepKeeps
<1>2. CASE TurnUnwinds(s) \/ Persisted(s)
  BY <1>2, TurnUnwindsKeeps, PersistedKeeps
<1>3. CASE TurnUnwound(s)
  BY <1>3, ExitKeeps DEF TurnUnwound, InLease
<1>4. CASE TurnEnds(s)
  BY <1>4, ExitKeeps DEF TurnEnds, InLease
<1>5. CASE Stop(s)
  BY <1>5, UnlistedKeeps DEF Stop, RequestCancel
<1>. QED
  BY <1>1, <1>2, <1>3, <1>4, <1>5 DEF TurnStep

LEMMA ChildKeeps ==
  ASSUME IInv, NEW c \in Children, ChildStep(c) \/ ChildReports(c)
  PROVE  IInv'
<1>. USE Kinds
<1>1. CASE LeaseStep(c)
  BY <1>1, LeaseStepKeeps
<1>2. CASE ChildUnwinds(c)
  BY <1>2, ExitKeeps DEF ChildUnwinds, InLease
<1>3. CASE ChildReports(c)
  BY <1>3, ExitKeeps DEF ChildReports, InLease, childVars
<1>4. CASE Finished(c) \/ StartReturns(c) \/ StartStops(c)
  BY <1>4, ChildNewsKeeps
<1>. QED
  BY <1>1, <1>2, <1>3, <1>4 DEF ChildStep

LEMMA DeleteKeeps ==
  ASSUME IInv, NEW d \in Deleters, DeleteStep(d)
  PROVE  IInv'
<1>. USE Kinds
<1>1. CASE EnterLease(d) \/ QueueForLease(d)
  BY <1>1, EnterLeaseKeeps, QueueForLeaseKeeps
<1>2. CASE Released(d)
  BY <1>2, GiveBackKeeps DEF Released, InLease
<1>3. CASE DeleteCancels(d) \/ DeleteLeases(d)
  BY <1>3, DeleteCancelsKeeps, DeleteLeasesKeeps
<1>4. CASE DeleteDone(d)
  BY <1>4, ExitKeeps DEF DeleteDone, InLease
<1>. QED
  BY <1>1, <1>2, <1>3, <1>4 DEF DeleteStep

\* Every step keeps the inductive invariant.
LEMMA NextKeeps == IInv /\ [Next]_vars => IInv'
<1>. SUFFICES ASSUME IInv, [Next]_vars PROVE IInv'
  OBVIOUS
<1>1. ASSUME NEW s \in Chats,
             \/ TurnStep(s) \/ StartTurn(s) \/ Stop(s) \/ TurnEnds(s)
             \/ \E c \in Children : StartChild(s, c)
             \/ \E d \in Deleters : DeleteBegins(d, s)
      PROVE  IInv'
  BY <1>1, TurnKeeps, StartTurnKeeps, StartChildKeeps, DeleteBeginsKeeps
<1>2. ASSUME NEW c \in Children, ChildStep(c) \/ ChildReports(c)
      PROVE  IInv'
  BY <1>2, ChildKeeps
<1>3. ASSUME NEW d \in Deleters, DeleteStep(d)
      PROVE  IInv'
  BY <1>3, DeleteKeeps
<1>4. ASSUME NEW a \in Admins, AdminStep(a) \/ AdminAsks(a)
      PROVE  IInv'
  BY <1>4, AdminKeeps, AdminWorksKeeps, ReplaceKeeps, UpdateClosesKeeps DEF AdminStep
<1>5. ASSUME ServiceStep \/ Startup \/ ShutdownBegins
      PROVE  IInv'
  BY <1>5, StartupKeeps, ShutdownBeginsKeeps, ShutdownCancelsKeeps, ShutdownTakesKeeps,
     ShutdownClosesKeeps DEF ServiceStep
<1>6. ASSUME UNCHANGED vars
      PROVE  IInv'
  BY <1>6, UnlistedKeeps DEF vars, lockVars
<1>. QED
  BY <1>1, <1>2, <1>3, <1>4, <1>5, <1>6 DEF Next, Progress, Demands, Stopped

\* The invariant holds however clients, deletions and the shutdown interleave,
\* conversations that are opened while they are deleted included.
THEOREM Invariant == Spec => []IInv
<1>1. Init => IInv
  BY InitKeeps
<1>2. IInv /\ [Next]_vars => IInv'
  BY NextKeeps
<1>. QED
  BY <1>1, <1>2, PTL DEF Spec

\* Whoever leases a runtime keeps it, open and not being reworked, through every
\* settings change and until the shutdown has stopped all it can find; the turns
\* it takes the runtime from have an open controller that the map has lost.
THEOREM LeaseKept == Spec => []LeasedRuntimeStays
<1>1. IInv => LeasedRuntimeStays
  <2>. SUFFICES ASSUME IInv PROVE LeasedRuntimeStays
    OBVIOUS
  <2>1. active = Cardinality(Leased) + lost
    BY DEF IInv, LeasesCounted
  <2>2. ASSUME NEW t \in Leased
        PROVE  \/ uses[t] = runtime /\ runtime # 0 /\ runtime \notin shut
               \/ pc[Service] \in {"stopping", "stopped"} /\ OfOpen(t)
    <3>1. CASE runtime # 0
      BY <3>1 DEF IInv, CurrentOpen
    <3>2. CASE runtime = 0
      <4>1. t \in Leasers /\ ~Over(t)
        BY DEF Leased, InLease, Over
      <4>2. pc[Service] \in {"starting", "stopping", "stopped"}
        BY <3>2 DEF IInv, CurrentOpen, ServiceTypeOK, PlacesOK, ServiceAt
      <4>. QED
        BY <4>1, <4>2 DEF IInv, ShuttingDown
    <3>. QED
      BY <3>1, <3>2
  <2>3. (\E a \in Admins : pc[a] \in {"building", "reworking"}) => Leased = {}
    BY Kinds DEF IInv, LockKept, LeasesCounted
  <2>. QED
    BY <2>1, <2>2, <2>3 DEF LeasedRuntimeStays
<1>. QED
  BY <1>1, Invariant, PTL

\* A deletion that missed no turn finds no turn and no sub-agent of its
\* conversation at work, and a failed or stopped sub_agent call leaves none behind.
THEOREM QuietEnds == Spec => []NothingOutlives
<1>1. IInv => NothingOutlives
  BY DEF IInv, NothingOutlives, DeletesAreQuiet, NoOrphans, Deleting, ChildrenKnown
<1>. QED
  BY <1>1, Invariant, PTL

=============================================================================
