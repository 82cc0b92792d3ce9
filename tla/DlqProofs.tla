------------------------------ MODULE DlqProofs ------------------------------
(***************************************************************************)
(* Theorems about Dlq for every set of identifiers and payloads, every      *)
(* retry limit, batch size and delay, and any number of faults, commands    *)
(* and restarts.                                                            *)
(***************************************************************************)
EXTENDS Dlq, TLAPS

\* A delay is a natural number, however far the shift overflows: nextDelay
\* answers with something between the base and the maximum.
LEMMA DelayType ==
    ASSUME NEW attempt, NEW base \in Nat, NEW max \in Nat
    PROVE  nextDelay(attempt, base, max) \in Nat
<1>1. BaseOf(base) \in Nat /\ MaxOf(max) \in Nat
  BY BackoffAssumption DEF BaseOf, MaxOf
<1>2. ASSUME NEW d, NEW b \in Nat, NEW m \in Nat
      PROVE  Clamp(d, b, m) \in Nat
  BY DEF Clamp
<1> QED
  BY <1>1, <1>2 DEF nextDelay

\* Sequences the store returns are sequences of identifiers it knows.
LEMMA DueBatchType ==
    ASSUME NEW limit \in Nat, NEW t, NEW s \in DueBatches(limit, t)
    PROVE  /\ s \in Seq(DOMAIN items)
           /\ ToSet(s) \subseteq Due(t)
           /\ IsInjective(s)
  BY DEF DueBatches, BoundedSeq, SeqOf, Due, ToSet

\* ReplayBatch selects identifiers the store knows.
LEMMA SelectionType ==
    ASSUME NEW limit \in Nat, NEW mode, NEW s \in Selections(limit, mode)
    PROVE  s \in Seq(DOMAIN items)
  BY DEF Selections, BoundedSeq, SeqOf

\* Writing the file keeps a map of items on it.
LEMMA PersistType ==
    ASSUME NEW ok, persistLocked(ok), IsItemMap(items'), IsItemMap(disk), faults \in Nat
    PROVE  IsItemMap(disk') /\ faults' \in Nat
  BY DEF persistLocked, IsItemMap

\* What MarkRetry makes of an item: one attempt more, the same payload, and
\* failed exactly when the attempts are used up.
LEMMA RetriedItem ==
    ASSUME NEW item \in Item, NEW next \in Nat
    PROVE  /\ Retried(item, next) \in Item
           /\ Retried(item, next).attempt = item.attempt + 1
           /\ Retried(item, next).payload = item.payload
           /\ Retried(item, next).status =
                IF Exhausted(item.attempt + 1) THEN "failed" ELSE "pending"
  BY DEF Retried, Item, Status

\* Every operation of the store keeps maps of items in memory and on the file.
LEMMA StoreTypes ==
    ASSUME IsItemMap(items), IsItemMap(disk), issued \subseteq Ids, faults \in Nat,
           NEW t \in Nat, NEW ok,
           \/ \E p \in Payloads, id \in Ids : Enqueue(p, id, t, ok)
           \/ \E batch \in DueBatches(BatchSize, t) : PickDue(batch, BatchSize, t, ok)
           \/ \E id \in Ids : MarkDone(id, ok)
           \/ \E id \in Ids, next \in Nat : MarkRetry(id, next, ok)
    PROVE  IsItemMap(items') /\ IsItemMap(disk') /\ issued' \subseteq Ids /\ faults' \in Nat
<1>1. CASE \E p \in Payloads, id \in Ids : Enqueue(p, id, t, ok)
  <2>1. PICK p \in Payloads, id \in Ids : Enqueue(p, id, t, ok)
    BY <1>1
  <2>2. CASE EnqueueDuplicate(p, id, ok)
    BY <2>2, PersistType DEF EnqueueDuplicate
  <2>3. CASE EnqueueNew(p, id, t, ok)
    <3>1. IsItemMap(items')
      BY <2>3 DEF EnqueueNew, Put, NewItem, IsItemMap, Item, Status
    <3> QED
      BY <2>3, <3>1, PersistType DEF EnqueueNew
  <2> QED
    BY <2>1, <2>2, <2>3 DEF Enqueue
<1>2. CASE \E batch \in DueBatches(BatchSize, t) : PickDue(batch, BatchSize, t, ok)
  <2>1. PICK batch \in DueBatches(BatchSize, t) : PickDue(batch, BatchSize, t, ok)
    BY <1>2
  <2>2. IsItemMap(items')
    BY <2>1 DEF PickDue, WithStatus, IsItemMap, Item, Status
  <2> QED
    BY <2>1, <2>2, PersistType DEF PickDue
<1>3. CASE \E id \in Ids : MarkDone(id, ok)
  <2>1. PICK id \in Ids : MarkDone(id, ok)
    BY <1>3
  <2>2. IsItemMap(items')
    BY <2>1 DEF MarkDone, IsItemMap, Item, Status
  <2> QED
    BY <2>1, <2>2, PersistType DEF MarkDone
<1>4. CASE \E id \in Ids, next \in Nat : MarkRetry(id, next, ok)
  <2>1. PICK id \in Ids, next \in Nat : MarkRetry(id, next, ok)
    BY <1>4
  <2>2. Retried(items[id], next) \in Item
    BY <2>1, RetriedItem DEF MarkRetry, IsItemMap
  <2>3. IsItemMap(items')
    BY <2>1, <2>2 DEF MarkRetry, IsItemMap
  <2> QED
    BY <2>1, <2>3, PersistType DEF MarkRetry
<1> QED
  BY <1>1, <1>2, <1>3, <1>4

\* What the worker and the operator hand to the store has the types it expects.
LEMMA WorkerMarkStore ==
    ASSUME TypeOK, NEW jitter \in 0 .. Jitter - 1, NEW ok, WorkerMark(now, jitter, ok)
    PROVE  /\ wBatch[1] \in Picked
           /\ \/ wStep = "ok" /\ MarkDone(wBatch[1].id, ok)
              \/ /\ wStep = "err"
                 /\ \E next \in Nat : MarkRetry(wBatch[1].id, next, ok)
<1>1. wBatch[1] \in Picked
  BY DEF TypeOK, WorkerMark
<1>2. WorkerDelay(wBatch[1].attempt, jitter) \in Nat
  <2>1. nextDelay(wBatch[1].attempt + 1, BaseDelay, MaxDelay) \in Nat
    BY DelayType, WorkerAssumption
  <2> QED
    BY <2>1, WorkerAssumption DEF WorkerDelay
<1>3. now + WorkerDelay(wBatch[1].attempt, jitter) \in Nat
  BY <1>2 DEF TypeOK
<1> QED
  BY <1>1, <1>3 DEF WorkerMark, WorkerStore

\* The same for the operator's replay: MarkDone after a relay that succeeded,
\* MarkRetry with a natural retry time after one that failed.
LEMMA AdminMarkStore ==
    ASSUME TypeOK, NEW ok, AdminMark(now, ok)
    PROVE  /\ aQueue[1] \in Ids
           /\ \/ aStep = "ok" /\ MarkDone(aQueue[1], ok)
              \/ aStep = "err" /\ \E next \in Nat : MarkRetry(aQueue[1], next, ok)
<1>1. aQueue[1] \in Ids
  BY DEF TypeOK, AdminMark
<1>2. now + AdminDelay \in Nat
  <2>1. AdminDelay \in Nat
    BY DelayType, AdminAssumption DEF AdminDelay
  <2> QED
    BY <2>1 DEF TypeOK
<1> QED
  BY <1>1, <1>2 DEF AdminMark

\* The tail of a sequence has no element the sequence does not have.
LEMMA TailRange ==
    ASSUME NEW S, NEW s \in Seq(S), s # <<>>
    PROVE  \A i \in DOMAIN Tail(s) : i + 1 \in DOMAIN s /\ Tail(s)[i] = s[i + 1]
  OBVIOUS

\* The disjuncts of Next, each with what its quantifiers range over.
LEMMA NextCases ==
    ASSUME Next
    PROVE  \/ \E p \in Payloads, id \in Ids, ok \in BOOLEAN : SessionEnqueue(p, id, ok)
           \/ \E batch \in DueBatches(BatchSize, now), ok \in BOOLEAN : DoWorkerPick(batch, ok)
           \/ \E outcome \in {"ok", "err"} : DoWorkerRelay(outcome)
           \/ \E jitter \in 0 .. Jitter - 1, ok \in BOOLEAN : DoWorkerMark(jitter, ok)
           \/ Command
           \/ DoAdminGet
           \/ \E outcome \in {"ok", "err"} : DoAdminRelay(outcome)
           \/ \E ok \in BOOLEAN : DoAdminMark(ok)
           \/ Restart
           \/ Tick
  BY DEF Next, WorkerStep, AdminStep

\* The counters of history stay natural numbers.
LEMMA ObservedType ==
    ASSUME deliveries \in [Ids -> Nat], failures \in [Ids -> Nat],
           NEW id \in Ids, NEW outcome, Observe(id, outcome)
    PROVE  deliveries' \in [Ids -> Nat] /\ failures' \in [Ids -> Nat]
<1>1. ASSUME NEW f \in [Ids -> Nat]
      PROVE  Plus1(f, id) \in [Ids -> Nat]
  BY DEF Plus1
<1> QED
  BY <1>1 DEF Observe

\* Every variable keeps its type.
THEOREM TypeCorrect == Spec => []TypeOK
<1>1. Init => TypeOK
  BY DEF Init, TypeOK, NewFileStore, WorkerInit, AdminInit, IsItemMap
<1>2. TypeOK /\ [Next]_vars => TypeOK'
  <2> SUFFICES ASSUME TypeOK, [Next]_vars
               PROVE  TypeOK'
    OBVIOUS
  <2>1. ASSUME NEW p \in Payloads, NEW id \in Ids, NEW ok \in BOOLEAN, SessionEnqueue(p, id, ok)
        PROVE  TypeOK'
    <3>1. IsItemMap(items') /\ IsItemMap(disk') /\ issued' \subseteq Ids /\ faults' \in Nat
      BY <2>1, StoreTypes DEF TypeOK, SessionEnqueue
    <3> QED
      BY <2>1, <3>1 DEF TypeOK, SessionEnqueue, workerVars, adminVars
  <2>2. ASSUME NEW batch \in DueBatches(BatchSize, now), NEW ok \in BOOLEAN, DoWorkerPick(batch, ok)
        PROVE  TypeOK'
    <3>1. IsItemMap(items') /\ IsItemMap(disk') /\ issued' \subseteq Ids /\ faults' \in Nat
      BY <2>2, StoreTypes DEF TypeOK, DoWorkerPick, WorkerPick
    <3>2. batch \in Seq(DOMAIN items)
      BY DueBatchType, WorkerAssumption
    <3>3. wBatch' \in Seq(Picked)
      <4>1. \A i \in DOMAIN batch :
              [id |-> batch[i], attempt |-> items[batch[i]].attempt] \in Picked
        BY <3>2 DEF TypeOK, Picked, IsItemMap, Item
      <4>2. [i \in DOMAIN batch |-> [id |-> batch[i], attempt |-> items[batch[i]].attempt]]
              \in Seq(Picked)
        BY <3>2, <4>1
      <4> QED
        BY <2>2, <4>2 DEF DoWorkerPick, WorkerPick
    <3> QED
      BY <2>2, <3>1, <3>3 DEF TypeOK, DoWorkerPick, WorkerPick, adminVars, historyVars
  <2>3. ASSUME NEW outcome \in {"ok", "err"}, DoWorkerRelay(outcome)
        PROVE  TypeOK'
    <3>1. wBatch[1].id \in Ids
      <4>1. wBatch[1] \in Picked
        BY <2>3 DEF TypeOK, DoWorkerRelay, WorkerRelay
      <4> QED
        BY <4>1 DEF Picked
    <3>2. deliveries' \in [Ids -> Nat] /\ failures' \in [Ids -> Nat]
      BY <2>3, <3>1, ObservedType DEF TypeOK, DoWorkerRelay
    <3> QED
      BY <2>3, <3>2 DEF TypeOK, DoWorkerRelay, WorkerRelay, storeVars, adminVars
  <2>4. ASSUME NEW jitter \in 0 .. Jitter - 1, NEW ok \in BOOLEAN, DoWorkerMark(jitter, ok)
        PROVE  TypeOK'
    <3>1. IsItemMap(items') /\ IsItemMap(disk') /\ issued' \subseteq Ids /\ faults' \in Nat
      BY <2>4, WorkerMarkStore, StoreTypes DEF TypeOK, DoWorkerMark, Picked
    <3> QED
      BY <2>4, <3>1 DEF TypeOK, DoWorkerMark, WorkerMark, adminVars, historyVars
  <2>5. CASE Command
    <3>1. aQueue' \in Seq(Ids)
      <4>1. ASSUME NEW id \in Ids, Replay(id)
            PROVE  aQueue' \in Seq(Ids)
        BY <4>1 DEF Replay
      <4>2. ASSUME NEW limit \in 1 .. Cardinality(Ids), NEW mode,
                   NEW selected \in Selections(limit, mode), ReplayBatch(selected, limit, mode)
            PROVE  aQueue' \in Seq(Ids)
        <5>1. selected \in Seq(DOMAIN items)
          BY SelectionType
        <5> QED
          BY <4>2, <5>1 DEF ReplayBatch, TypeOK, IsItemMap
      <4> QED
        BY <2>5, <4>1, <4>2 DEF Command
    <3>2. UNCHANGED <<aStep, aAttempt, storeVars>>
      BY <2>5 DEF Command, Replay, ReplayBatch
    <3> QED
      BY <2>5, <3>1, <3>2 DEF TypeOK, Command, storeVars, workerVars, historyVars
  <2>6. CASE DoAdminGet
    <3>1. aQueue[1] \in Ids /\ Tail(aQueue) \in Seq(Ids)
      BY <2>6 DEF TypeOK, DoAdminGet, AdminGet
    <3>2. aQueue[1] \in DOMAIN items => items[aQueue[1]].attempt \in Nat
      BY DEF TypeOK, IsItemMap, Item
    <3>3. aQueue' \in Seq(Ids) /\ aStep' \in {"get", "relay"} /\ aAttempt' \in Nat
      BY <2>6, <3>1, <3>2 DEF TypeOK, DoAdminGet, AdminGet
    <3>4. replays' \in [Ids -> Nat]
      BY <2>6, <3>1 DEF TypeOK, DoAdminGet, Plus1
    <3> QED
      BY <2>6, <3>3, <3>4 DEF TypeOK, DoAdminGet, AdminGet, storeVars, workerVars
  <2>7. ASSUME NEW outcome \in {"ok", "err"}, DoAdminRelay(outcome)
        PROVE  TypeOK'
    <3>1. aQueue[1] \in Ids
      BY <2>7 DEF TypeOK, DoAdminRelay, AdminRelay
    <3>2. deliveries' \in [Ids -> Nat] /\ failures' \in [Ids -> Nat]
      BY <2>7, <3>1, ObservedType DEF TypeOK, DoAdminRelay
    <3> QED
      BY <2>7, <3>2 DEF TypeOK, DoAdminRelay, AdminRelay, storeVars, workerVars
  <2>8. ASSUME NEW ok \in BOOLEAN, DoAdminMark(ok)
        PROVE  TypeOK'
    <3>1. IsItemMap(items') /\ IsItemMap(disk') /\ issued' \subseteq Ids /\ faults' \in Nat
      BY <2>8, AdminMarkStore, StoreTypes DEF TypeOK, DoAdminMark
    <3> QED
      BY <2>8, <3>1 DEF TypeOK, DoAdminMark, AdminMark, workerVars, historyVars
  <2>9. CASE Restart
    <3>1. IsItemMap(Loaded(disk))
      BY DEF TypeOK, Loaded, IsItemMap, Item, Status
    <3> QED
      BY <2>9, <3>1 DEF TypeOK, Restart, load, historyVars
  <2>10. CASE Tick
    BY <2>10 DEF TypeOK, Tick, storeVars, workerVars, adminVars, historyVars
  <2>11. CASE UNCHANGED vars
    BY <2>11 DEF TypeOK, vars, storeVars, workerVars, adminVars, historyVars
  <2> QED
    BY <2>1, <2>2, <2>3, <2>4, <2>5, <2>6, <2>7, <2>8, <2>9, <2>10, <2>11, NextCases
<1> QED
  BY <1>1, <1>2, PTL DEF Spec
-----------------------------------------------------------------------------
\* With nothing in hand the worker and the operator's command are at their first
\* step.
Idle ==
    /\ wBatch = <<>> => wStep = "relay"
    /\ aQueue = <<>> => aStep = "get"

\* The loops of runOnce and ReplayBatch end where they began.
THEOREM IdleBetweenLoops == Spec => []Idle
<1>1. Init => Idle
  BY DEF Init, WorkerInit, AdminInit, Idle
<1>2. TypeOK /\ Idle /\ [Next]_vars => Idle'
  <2> SUFFICES ASSUME TypeOK, Idle, [Next]_vars
               PROVE  Idle'
    OBVIOUS
  <2>1. wBatch' = <<>> => wStep' = "relay"
    BY NextCases DEF TypeOK, Idle, vars, workerVars, SessionEnqueue, DoWorkerPick, WorkerPick,
       DoWorkerRelay, WorkerRelay, DoWorkerMark, WorkerMark, Command, DoAdminGet, DoAdminRelay,
       DoAdminMark, Restart, Tick
  <2>2. aQueue' = <<>> => aStep' = "get"
    BY NextCases DEF TypeOK, Idle, vars, adminVars, SessionEnqueue, DoWorkerPick, DoWorkerRelay,
       DoWorkerMark, Command, Replay, ReplayBatch, DoAdminGet, AdminGet, DoAdminRelay, AdminRelay,
       DoAdminMark, AdminMark, Restart, Tick
  <2> QED
    BY <2>1, <2>2 DEF Idle
<1> QED
  BY <1>1, <1>2, TypeCorrect, PTL DEF Spec

\* No operation of the store drops an item, in memory or on the file.
LEMMA StoreKeeps ==
    ASSUME DOMAIN disk \subseteq DOMAIN items, NEW t, NEW ok,
           \/ \E p, id : Enqueue(p, id, t, ok)
           \/ \E batch : PickDue(batch, BatchSize, t, ok)
           \/ \E id : MarkDone(id, ok)
           \/ \E id, next : MarkRetry(id, next, ok)
    PROVE  /\ DOMAIN items \subseteq DOMAIN items'
           /\ DOMAIN disk \subseteq DOMAIN disk'
           /\ DOMAIN disk' \subseteq DOMAIN items'
<1>1. DOMAIN items \subseteq DOMAIN items'
  BY DEF Enqueue, EnqueueDuplicate, EnqueueNew, Put, PickDue, WithStatus, MarkDone, MarkRetry
<1>2. disk' = items' \/ disk' = disk
  BY DEF Enqueue, EnqueueDuplicate, EnqueueNew, PickDue, MarkDone, MarkRetry, persistLocked
<1> QED
  BY <1>1, <1>2

\* A mail Enqueue accepted is on the file from then on, and nobody holds an item
\* the store does not have.
THEOREM Durability == Spec => []AckedDurable
<1>1. Init => AckedDurable
  BY DEF Init, NewFileStore, WorkerInit, AdminInit, AckedDurable, WorkerHolds, AdminHolds
<1>2. TypeOK /\ Idle /\ AckedDurable /\ [Next]_vars => AckedDurable'
  <2> SUFFICES ASSUME TypeOK, Idle, AckedDurable, [Next]_vars
               PROVE  AckedDurable'
    OBVIOUS
  <2>a. ASSUME UNCHANGED storeVars, UNCHANGED acked,
               WorkerHolds' \union AdminHolds' \subseteq DOMAIN items
        PROVE  AckedDurable'
    BY <2>a DEF AckedDurable, storeVars
  <2>b. ASSUME DOMAIN items \subseteq DOMAIN items', DOMAIN disk \subseteq DOMAIN disk',
               DOMAIN disk' \subseteq DOMAIN items', acked' = acked,
               WorkerHolds' \union AdminHolds' \subseteq DOMAIN items
        PROVE  AckedDurable'
    BY <2>b DEF AckedDurable
  <2>c. WorkerHolds \subseteq DOMAIN items /\ AdminHolds \subseteq DOMAIN items
    BY DEF AckedDurable
  <2>1. ASSUME NEW p \in Payloads, NEW id \in Ids, NEW ok \in BOOLEAN, SessionEnqueue(p, id, ok)
        PROVE  AckedDurable'
    <3>1. /\ DOMAIN items \subseteq DOMAIN items' /\ DOMAIN disk \subseteq DOMAIN disk'
          /\ DOMAIN disk' \subseteq DOMAIN items'
      BY <2>1, StoreKeeps DEF SessionEnqueue, AckedDurable
    <3>2. ok => id \in DOMAIN disk'
      BY <2>1 DEF SessionEnqueue, Enqueue, EnqueueDuplicate, EnqueueNew, Duplicates, Put, persistLocked
    <3>3. WorkerHolds' = WorkerHolds /\ AdminHolds' = AdminHolds
      BY <2>1 DEF SessionEnqueue, workerVars, adminVars, WorkerHolds, AdminHolds
    <3> QED
      BY <2>1, <3>1, <3>2, <3>3 DEF SessionEnqueue, AckedDurable
  <2>2. ASSUME NEW batch \in DueBatches(BatchSize, now), NEW ok \in BOOLEAN, DoWorkerPick(batch, ok)
        PROVE  AckedDurable'
    <3>1. /\ DOMAIN items \subseteq DOMAIN items' /\ DOMAIN disk \subseteq DOMAIN disk'
          /\ DOMAIN disk' \subseteq DOMAIN items'
      BY <2>2, StoreKeeps DEF DoWorkerPick, WorkerPick, AckedDurable
    <3>2. batch \in Seq(DOMAIN items)
      BY DueBatchType, WorkerAssumption
    <3>3. WorkerHolds' \subseteq DOMAIN items
      <4>1. CASE ok
        BY <2>2, <3>2, <4>1 DEF DoWorkerPick, WorkerPick, WorkerHolds
      <4>2. CASE ~ok
        BY <2>2, <4>2 DEF DoWorkerPick, WorkerPick, WorkerHolds
      <4> QED
        BY <4>1, <4>2
    <3>4. AdminHolds' = AdminHolds
      BY <2>2 DEF DoWorkerPick, adminVars, AdminHolds
    <3> QED
      BY <2>2, <2>b, <2>c, <3>1, <3>3, <3>4 DEF DoWorkerPick, historyVars
  <2>3. ASSUME NEW outcome \in {"ok", "err"}, DoWorkerRelay(outcome)
        PROVE  AckedDurable'
    <3>1. WorkerHolds' = WorkerHolds /\ AdminHolds' = AdminHolds
      BY <2>3 DEF DoWorkerRelay, WorkerRelay, adminVars, WorkerHolds, AdminHolds
    <3> QED
      BY <2>3, <2>a, <2>c, <3>1 DEF DoWorkerRelay, WorkerRelay
  <2>4. ASSUME NEW jitter \in 0 .. Jitter - 1, NEW ok \in BOOLEAN, DoWorkerMark(jitter, ok)
        PROVE  AckedDurable'
    <3>1. /\ DOMAIN items \subseteq DOMAIN items' /\ DOMAIN disk \subseteq DOMAIN disk'
          /\ DOMAIN disk' \subseteq DOMAIN items'
      BY <2>4, WorkerMarkStore, StoreKeeps DEF DoWorkerMark, AckedDurable
    <3>2. WorkerHolds' \subseteq WorkerHolds
      BY <2>4, TailRange DEF DoWorkerMark, WorkerMark, WorkerHolds, TypeOK
    <3>3. AdminHolds' = AdminHolds
      BY <2>4 DEF DoWorkerMark, adminVars, AdminHolds
    <3> QED
      BY <2>4, <2>b, <2>c, <3>1, <3>2, <3>3 DEF DoWorkerMark, historyVars
  <2>5. CASE Command
    <3>1. WorkerHolds' = WorkerHolds
      BY <2>5 DEF Command, workerVars, WorkerHolds
    <3>2. AdminHolds' = {}
      BY <2>5 DEF Command, Replay, ReplayBatch, AdminHolds, Idle
    <3>3. UNCHANGED storeVars /\ UNCHANGED acked
      BY <2>5 DEF Command, Replay, ReplayBatch, historyVars
    <3> QED
      BY <2>a, <2>c, <3>1, <3>2, <3>3
  <2>6. CASE DoAdminGet
    <3>1. WorkerHolds' = WorkerHolds
      BY <2>6 DEF DoAdminGet, workerVars, WorkerHolds
    <3>2. AdminHolds' \subseteq DOMAIN items
      BY <2>6 DEF DoAdminGet, AdminGet, AdminHolds
    <3> QED
      BY <2>6, <2>a, <2>c, <3>1, <3>2 DEF DoAdminGet, AdminGet
  <2>7. ASSUME NEW outcome \in {"ok", "err"}, DoAdminRelay(outcome)
        PROVE  AckedDurable'
    <3>1. WorkerHolds' = WorkerHolds /\ AdminHolds' = AdminHolds
      BY <2>7 DEF DoAdminRelay, AdminRelay, workerVars, WorkerHolds, AdminHolds
    <3> QED
      BY <2>7, <2>a, <2>c, <3>1 DEF DoAdminRelay, AdminRelay
  <2>8. ASSUME NEW ok \in BOOLEAN, DoAdminMark(ok)
        PROVE  AckedDurable'
    <3>1. /\ DOMAIN items \subseteq DOMAIN items' /\ DOMAIN disk \subseteq DOMAIN disk'
          /\ DOMAIN disk' \subseteq DOMAIN items'
      BY <2>8, AdminMarkStore, StoreKeeps DEF DoAdminMark, AckedDurable
    <3>2. WorkerHolds' = WorkerHolds /\ AdminHolds' = {}
      BY <2>8 DEF DoAdminMark, AdminMark, workerVars, WorkerHolds, AdminHolds
    <3> QED
      BY <2>8, <2>b, <2>c, <3>1, <3>2 DEF DoAdminMark, historyVars
  <2>9. CASE Restart
    <3>1. WorkerHolds' = {} /\ AdminHolds' = {}
      BY <2>9 DEF Restart, WorkerHolds, AdminHolds
    <3>2. DOMAIN items' = DOMAIN disk /\ disk' = disk /\ acked' = acked
      BY <2>9 DEF Restart, load, Loaded, historyVars
    <3> QED
      BY <3>1, <3>2 DEF AckedDurable
  <2>10. CASE Tick
    <3>1. WorkerHolds' = WorkerHolds /\ AdminHolds' = AdminHolds
      BY <2>10 DEF Tick, workerVars, adminVars, WorkerHolds, AdminHolds
    <3> QED
      BY <2>10, <2>a, <2>c, <3>1 DEF Tick, historyVars
  <2>11. CASE UNCHANGED vars
    <3>1. WorkerHolds' = WorkerHolds /\ AdminHolds' = AdminHolds
      BY <2>11 DEF vars, workerVars, adminVars, WorkerHolds, AdminHolds
    <3> QED
      BY <2>11, <2>a, <2>c, <3>1 DEF vars, historyVars
  <2> QED
    BY <2>1, <2>2, <2>3, <2>4, <2>5, <2>6, <2>7, <2>8, <2>9, <2>10, <2>11, NextCases
<1> QED
  BY <1>1, <1>2, TypeCorrect, IdleBetweenLoops, PTL DEF Spec
-----------------------------------------------------------------------------
\* A failed relay of id that is not yet on record in the store.
WorkerOwes(id) == IF wBatch # <<>> /\ wStep = "err" /\ wBatch[1].id = id THEN 1 ELSE 0
AdminOwes(id)  == IF aQueue # <<>> /\ aStep = "err" /\ aQueue[1] = id THEN 1 ELSE 0

\* The words of a map of items are covered by what happened outside.
Earned(m) ==
    \A id \in DOMAIN m :
        /\ m[id].status = "done" => deliveries[id] > 0
        /\ m[id].status = "failed" => Exhausted(m[id].attempt)
        /\ m[id].attempt <= failures[id]

\* VerdictsEarned made inductive: the verdicts that are decided but not stored yet
\* are covered too, and attempts never outnumber failures.
Receipts ==
    /\ wBatch # <<>> /\ wStep = "ok" => deliveries[wBatch[1].id] > 0
    /\ aQueue # <<>> /\ aStep = "ok" => deliveries[aQueue[1]] > 0
    /\ Earned(items)
    /\ Earned(disk)
    /\ \A id \in DOMAIN items :
            items[id].attempt + WorkerOwes(id) + AdminOwes(id) <= failures[id]

\* The receipts say more than VerdictsEarned.
LEMMA ReceiptsImply == TypeOK /\ Receipts => VerdictsEarned
  BY FileStoreAssumption DEF Receipts, Earned, VerdictsEarned, Exhausted, TypeOK, IsItemMap, Item

\* History only grows, so what it covered it still covers.
LEMMA EarnedStays ==
    ASSUME TypeOK, TypeOK', NEW m, IsItemMap(m), Earned(m),
           \A id \in Ids : deliveries'[id] >= deliveries[id] /\ failures'[id] >= failures[id]
    PROVE  \A id \in DOMAIN m :
              /\ m[id].status = "done" => deliveries'[id] > 0
              /\ m[id].status = "failed" => Exhausted(m[id].attempt)
              /\ m[id].attempt <= failures'[id]
<1> TAKE id \in DOMAIN m
<1>1. id \in Ids /\ m[id].attempt \in Nat
  BY DEF IsItemMap, Item
<1>2. /\ deliveries[id] \in Nat /\ deliveries'[id] \in Nat
      /\ failures[id] \in Nat /\ failures'[id] \in Nat
  BY <1>1 DEF TypeOK
<1> QED
  BY <1>1, <1>2 DEF Earned

\* What history notes of a relay that came back: it only grows, by one failure or
\* by one delivery of the item relayed.
LEMMA Observed ==
    ASSUME deliveries \in [Ids -> Nat], failures \in [Ids -> Nat],
           NEW id \in Ids, NEW outcome, Observe(id, outcome)
    PROVE  /\ \A k \in Ids : deliveries'[k] \in Nat /\ deliveries'[k] >= deliveries[k]
           /\ \A k \in Ids : failures'[k] =
                IF outcome = "err" /\ k = id THEN failures[k] + 1 ELSE failures[k]
           /\ outcome = "ok" => deliveries'[id] > 0
<1>1. \A k \in Ids : deliveries'[k] =
         IF outcome = "ok" /\ k = id THEN deliveries[k] + 1 ELSE deliveries[k]
  BY DEF Observe, Plus1
<1>2. \A k \in Ids : failures'[k] =
         IF outcome = "err" /\ k = id THEN failures[k] + 1 ELSE failures[k]
  BY DEF Observe, Plus1
<1>3. \A k \in Ids : deliveries[k] \in Nat
  OBVIOUS
<1> QED
  BY <1>1, <1>2, <1>3

\* A relay came back: history takes note of it, the store does not yet.
LEMMA ObservedReceipts ==
    ASSUME TypeOK, TypeOK', Receipts, UNCHANGED storeVars, NEW id \in Ids, NEW outcome, Observe(id, outcome)
    PROVE  Earned(items)' /\ Earned(disk)'
<1>0. deliveries \in [Ids -> Nat] /\ failures \in [Ids -> Nat]
  BY DEF TypeOK
<1>1. \A k \in Ids : deliveries'[k] >= deliveries[k] /\ failures'[k] >= failures[k]
  BY <1>0, Observed
<1>2. IsItemMap(items) /\ IsItemMap(disk) /\ Earned(items) /\ Earned(disk)
  BY DEF TypeOK, Receipts
<1>3. items' = items /\ disk' = disk
  BY DEF storeVars
<1>4. Earned(items)'
  BY <1>1, <1>2, <1>3, EarnedStays DEF Earned
<1>5. Earned(disk)'
  BY <1>1, <1>2, <1>3, EarnedStays DEF Earned
<1> QED
  BY <1>4, <1>5

\* The store takes note of a verdict that was due to it.
LEMMA MarkedReceipts ==
    ASSUME TypeOK, Receipts, UNCHANGED <<deliveries, failures>>, NEW id \in Ids, NEW ok,
           \/ deliveries[id] > 0 /\ MarkDone(id, ok)
           \/ items[id].attempt + 1 <= failures[id] /\ \E next \in Nat : MarkRetry(id, next, ok)
    PROVE  /\ Earned(items)'
           /\ Earned(disk)'
           /\ DOMAIN items' = DOMAIN items
           /\ \A k \in DOMAIN items \ {id} : items'[k] = items[k]
<1>1. id \in DOMAIN items /\ items[id] \in Item
  BY DEF MarkDone, MarkRetry, TypeOK, IsItemMap
<1>2. /\ DOMAIN items' = DOMAIN items
      /\ \A k \in DOMAIN items \ {id} : items'[k] = items[k]
  BY DEF MarkDone, MarkRetry, TypeOK, IsItemMap
<1>3. /\ items'[id].status = "done" => deliveries[id] > 0
      /\ items'[id].status = "failed" => Exhausted(items'[id].attempt)
      /\ items'[id].attempt <= failures[id]
  <2>1. CASE deliveries[id] > 0 /\ MarkDone(id, ok)
    <3>1. items'[id].status = "done" /\ items'[id].attempt = items[id].attempt
      BY <1>1, <2>1 DEF MarkDone, Item, TypeOK, IsItemMap
    <3> QED
      BY <1>1, <2>1, <3>1 DEF Receipts, Earned
  <2>2. CASE items[id].attempt + 1 <= failures[id] /\ \E next \in Nat : MarkRetry(id, next, ok)
    <3>1. PICK next \in Nat : MarkRetry(id, next, ok)
      BY <2>2
    <3>2. items'[id] = Retried(items[id], next)
      BY <1>1, <3>1 DEF MarkRetry, TypeOK, IsItemMap
    <3> QED
      BY <1>1, <2>2, <3>2, RetriedItem
  <2> QED
    BY <2>1, <2>2
<1>4. Earned(items)'
  BY <1>2, <1>3 DEF Receipts, Earned
<1>5. disk' = items' \/ disk' = disk
  BY DEF MarkDone, MarkRetry, persistLocked
<1>6. Earned(disk)'
  BY <1>4, <1>5 DEF Receipts, Earned
<1> QED
  BY <1>2, <1>4, <1>6

\* An empty store owes nothing.
LEMMA ReceiptsInit == Init => Receipts
  BY DEF Init, NewFileStore, WorkerInit, AdminInit, Receipts, Earned

\* Every step of sessions, worker, operator and process keeps the receipts.
LEMMA ReceiptsStep ==
    ASSUME TypeOK, TypeOK', Idle, AckedDurable, Receipts, [Next]_vars
    PROVE  Receipts'
<1> USE DEF WorkerOwes, AdminOwes
<1>1. ASSUME NEW p \in Payloads, NEW id \in Ids, NEW ok \in BOOLEAN, SessionEnqueue(p, id, ok)
      PROVE  Receipts'
  <2>1. UNCHANGED <<wBatch, wStep, aQueue, aStep, deliveries, failures>>
    BY <1>1 DEF SessionEnqueue, workerVars, adminVars
  <2>2. disk' = items' \/ disk' = disk
    BY <1>1 DEF SessionEnqueue, Enqueue, EnqueueDuplicate, EnqueueNew, persistLocked
  <2>3. CASE EnqueueDuplicate(p, id, ok)
    BY <2>1, <2>2, <2>3 DEF EnqueueDuplicate, Receipts, Earned
  <2>4. CASE EnqueueNew(p, id, now, ok)
    <3>1. /\ DOMAIN items' = DOMAIN items \union {id}
          /\ items'[id] = NewItem(p, now)
          /\ \A k \in DOMAIN items \ {id} : items'[k] = items[k]
      BY <2>4 DEF EnqueueNew, Put
    <3>2. failures[id] \in Nat
      BY DEF TypeOK
    <3>3. 0 + WorkerOwes(id) + AdminOwes(id) <= failures[id]
      <4>1. CASE id \in DOMAIN items
        <5>1. items[id].attempt \in Nat
          BY <4>1 DEF TypeOK, IsItemMap, Item
        <5> QED
          BY <3>2, <4>1, <5>1 DEF Receipts
      <4>2. CASE id \notin DOMAIN items
        <5>1. wBatch # <<>> => wBatch[1].id \in WorkerHolds
          BY DEF WorkerHolds, TypeOK
        <5>2. aStep = "err" /\ aQueue # <<>> => aQueue[1] \in AdminHolds
          BY DEF AdminHolds
        <5> QED
          BY <3>2, <4>2, <5>1, <5>2 DEF AckedDurable
      <4> QED
        BY <4>1, <4>2
    <3>4. Earned(items)'
      BY <2>1, <3>1, <3>2 DEF Receipts, Earned, NewItem
    <3>5. Earned(disk)'
      BY <2>1, <2>2, <3>4 DEF Receipts, Earned
    <3>6. \A k \in DOMAIN items' : items'[k].attempt + WorkerOwes(k)' + AdminOwes(k)' <= failures'[k]
      BY <2>1, <3>1, <3>3 DEF Receipts, NewItem
    <3> QED
      BY <2>1, <3>4, <3>5, <3>6 DEF Receipts
  <2> QED
    BY <1>1, <2>3, <2>4 DEF SessionEnqueue, Enqueue
<1>2. ASSUME NEW batch \in DueBatches(BatchSize, now), NEW ok \in BOOLEAN, DoWorkerPick(batch, ok)
      PROVE  Receipts'
  <2>1. UNCHANGED <<wStep, aQueue, aStep, deliveries, failures>> /\ wStep = "relay"
    BY <1>2 DEF DoWorkerPick, WorkerPick, adminVars, historyVars, Idle
  <2>2. disk' = items' \/ disk' = disk
    BY <1>2 DEF DoWorkerPick, WorkerPick, PickDue, persistLocked
  <2>3. /\ DOMAIN items' = DOMAIN items
        /\ \A k \in DOMAIN items :
              /\ items'[k].attempt = items[k].attempt
              /\ items'[k].status \in {items[k].status, "processing"}
    BY <1>2 DEF DoWorkerPick, WorkerPick, PickDue, WithStatus, TypeOK, IsItemMap, Item
  <2>4. Earned(items)'
    BY <2>1, <2>3 DEF Receipts, Earned
  <2>5. Earned(disk)'
    BY <2>1, <2>2, <2>4 DEF Receipts, Earned
  <2> QED
    BY <2>1, <2>3, <2>4, <2>5 DEF Receipts
<1>3. ASSUME NEW outcome \in {"ok", "err"}, DoWorkerRelay(outcome)
      PROVE  Receipts'
  <2>0. deliveries \in [Ids -> Nat] /\ failures \in [Ids -> Nat]
    BY DEF TypeOK
  <2>1. wBatch # <<>> /\ wStep = "relay" /\ wStep' = outcome
        /\ UNCHANGED <<wBatch, aQueue, aStep>> /\ UNCHANGED storeVars
    BY <1>3 DEF DoWorkerRelay, WorkerRelay, adminVars
  <2>2. wBatch[1] \in Picked
    BY <2>1 DEF TypeOK
  <2>3. wBatch[1].id \in Ids /\ Observe(wBatch[1].id, outcome)
    BY <1>3, <2>2 DEF Picked, DoWorkerRelay
  <2>4. Earned(items)' /\ Earned(disk)'
    BY <2>1, <2>3, ObservedReceipts
  <2>5. \A k \in DOMAIN items : items[k].attempt + WorkerOwes(k)' + AdminOwes(k) <= failures'[k]
    <3> TAKE k \in DOMAIN items
    <3>1. k \in Ids /\ items[k].attempt \in Nat /\ failures[k] \in Nat
      BY DEF TypeOK, IsItemMap, Item
    <3>2. items[k].attempt + AdminOwes(k) <= failures[k]
      BY <2>1, <3>1 DEF Receipts
    <3>3. failures'[k] = IF outcome = "err" /\ k = wBatch[1].id THEN failures[k] + 1 ELSE failures[k]
      BY <2>0, <2>3, <3>1, Observed
    <3> QED
      BY <2>1, <3>1, <3>2, <3>3
  <2>6. /\ outcome = "ok" => deliveries'[wBatch[1].id] > 0
        /\ aQueue # <<>> /\ aStep = "ok" => deliveries'[aQueue[1]] > 0
    <3>1. /\ \A k \in Ids : deliveries'[k] \in Nat /\ deliveries'[k] >= deliveries[k]
          /\ outcome = "ok" => deliveries'[wBatch[1].id] > 0
      BY <2>0, <2>3, Observed
    <3>2. aQueue # <<>> => aQueue[1] \in Ids
      BY DEF TypeOK
    <3>3. aQueue # <<>> /\ aStep = "ok" => deliveries[aQueue[1]] > 0
      BY DEF Receipts
    <3>4. \A k \in Ids : deliveries[k] \in Nat
      BY <2>0
    <3> QED
      BY <3>1, <3>2, <3>3, <3>4
  <2>7. items' = items /\ disk' = disk
    BY <2>1 DEF storeVars
  <2> QED
    BY <2>1, <2>4, <2>5, <2>6, <2>7 DEF Receipts
<1>4. ASSUME NEW jitter \in 0 .. Jitter - 1, NEW ok \in BOOLEAN, DoWorkerMark(jitter, ok)
      PROVE  Receipts'
  <2>1. /\ wBatch # <<>> /\ wStep' = "relay"
        /\ UNCHANGED <<aQueue, aStep, deliveries, failures>>
    BY <1>4 DEF DoWorkerMark, WorkerMark, adminVars, historyVars
  <2> DEFINE id == wBatch[1].id
  <2>2. wBatch[1] \in Picked
    BY <2>1 DEF TypeOK
  <2>3. id \in Ids /\ id \in DOMAIN items
    BY <1>4, <2>2, WorkerMarkStore DEF DoWorkerMark, MarkDone, MarkRetry, Picked
  <2>4. \/ wStep = "ok" /\ MarkDone(id, ok)
        \/ wStep = "err" /\ \E next \in Nat : MarkRetry(id, next, ok)
    BY <1>4, WorkerMarkStore DEF DoWorkerMark
  <2>5. items[id].attempt \in Nat /\ failures[id] \in Nat
    BY <2>3 DEF TypeOK, IsItemMap, Item
  <2>6. wStep = "err" => items[id].attempt + 1 + AdminOwes(id) <= failures[id]
    BY <2>1, <2>3, <2>5 DEF Receipts
  <2>7. /\ Earned(items)' /\ Earned(disk)' /\ DOMAIN items' = DOMAIN items
        /\ \A k \in DOMAIN items \ {id} : items'[k] = items[k]
    <3>1. wStep = "err" => items[id].attempt + 1 <= failures[id]
      BY <2>5, <2>6
    <3>2. wStep = "ok" => deliveries[id] > 0
      BY <2>1 DEF Receipts
    <3> HIDE DEF id
    <3> QED
      BY <2>1, <2>3, <2>4, <3>1, <3>2, MarkedReceipts
  <2>8. items'[id].attempt + AdminOwes(id) <= failures[id]
    <3>1. CASE wStep = "ok"
      <4>1. items'[id].attempt = items[id].attempt
        BY <2>3, <2>4, <3>1 DEF MarkDone, TypeOK, IsItemMap, Item
      <4>2. items[id].attempt + AdminOwes(id) <= failures[id]
        BY <2>3, <2>5, <3>1 DEF Receipts
      <4> QED
        BY <4>1, <4>2
    <3>2. CASE wStep = "err"
      <4>1. items[id] \in Item
        BY <2>3 DEF TypeOK, IsItemMap
      <4>2. PICK next \in Nat : items' = [items EXCEPT ![id] = Retried(items[id], next)]
        BY <2>4, <3>2 DEF MarkRetry
      <4>3. items'[id].attempt = items[id].attempt + 1
        BY <2>3, <4>1, <4>2, RetriedItem
      <4> QED
        BY <3>2, <2>6, <4>3
    <3> QED
      BY <2>4, <3>1, <3>2
  <2>9. \A k \in DOMAIN items' : items'[k].attempt + WorkerOwes(k)' + AdminOwes(k)' <= failures'[k]
    <3> SUFFICES ASSUME NEW k \in DOMAIN items
                 PROVE  items'[k].attempt + WorkerOwes(k)' + AdminOwes(k)' <= failures'[k]
      BY <2>7
    <3>1. WorkerOwes(k)' = 0 /\ AdminOwes(k)' = AdminOwes(k)
      BY <2>1
    <3>2. items'[k].attempt \in Nat /\ items[k].attempt \in Nat /\ failures[k] \in Nat
      BY <2>7 DEF TypeOK, IsItemMap, Item
    <3>3. items[k].attempt + WorkerOwes(k) + AdminOwes(k) <= failures[k]
      BY DEF Receipts
    <3> QED
      BY <2>1, <2>7, <2>8, <3>1, <3>2, <3>3
  <2> QED
    BY <2>1, <2>7, <2>9 DEF Receipts
<1>5. CASE Command
  <2>1. UNCHANGED <<wBatch, wStep, deliveries, failures, aStep>> /\ aStep = "get" /\ UNCHANGED storeVars
    BY <1>5 DEF Command, Replay, ReplayBatch, workerVars, historyVars, Idle
  <2> QED
    BY <2>1 DEF Receipts, Earned, storeVars
<1>6. CASE DoAdminGet
  <2>1. /\ UNCHANGED <<wBatch, wStep, deliveries, failures>> /\ UNCHANGED storeVars
        /\ aStep = "get" /\ aStep' \in {"get", "relay"}
    BY <1>6 DEF DoAdminGet, AdminGet, workerVars
  <2> QED
    BY <2>1 DEF Receipts, Earned, storeVars
<1>7. ASSUME NEW outcome \in {"ok", "err"}, DoAdminRelay(outcome)
      PROVE  Receipts'
  <2>0. deliveries \in [Ids -> Nat] /\ failures \in [Ids -> Nat]
    BY DEF TypeOK
  <2>1. /\ aQueue # <<>> /\ aStep = "relay" /\ aStep' = outcome
        /\ UNCHANGED <<aQueue, wBatch, wStep>> /\ UNCHANGED storeVars
    BY <1>7 DEF DoAdminRelay, AdminRelay, workerVars
  <2>2. aQueue[1] \in Ids /\ Observe(aQueue[1], outcome)
    BY <1>7, <2>1 DEF TypeOK, DoAdminRelay
  <2>3. Earned(items)' /\ Earned(disk)'
    BY <2>1, <2>2, ObservedReceipts
  <2>4. \A k \in DOMAIN items : items[k].attempt + WorkerOwes(k) + AdminOwes(k)' <= failures'[k]
    <3> TAKE k \in DOMAIN items
    <3>1. k \in Ids /\ items[k].attempt \in Nat /\ failures[k] \in Nat
      BY DEF TypeOK, IsItemMap, Item
    <3>2. items[k].attempt + WorkerOwes(k) <= failures[k]
      BY <2>1, <3>1 DEF Receipts
    <3>3. failures'[k] = IF outcome = "err" /\ k = aQueue[1] THEN failures[k] + 1 ELSE failures[k]
      BY <2>0, <2>2, <3>1, Observed
    <3> QED
      BY <2>1, <3>1, <3>2, <3>3
  <2>5. /\ outcome = "ok" => deliveries'[aQueue[1]] > 0
        /\ wBatch # <<>> /\ wStep = "ok" => deliveries'[wBatch[1].id] > 0
    <3>1. wBatch # <<>> => wBatch[1] \in Picked
      BY DEF TypeOK
    <3>2. wBatch # <<>> => wBatch[1].id \in Ids
      BY <3>1 DEF Picked
    <3>3. wBatch # <<>> /\ wStep = "ok" => deliveries[wBatch[1].id] > 0
      BY DEF Receipts
    <3>4. /\ \A k \in Ids : deliveries'[k] \in Nat /\ deliveries'[k] >= deliveries[k]
          /\ outcome = "ok" => deliveries'[aQueue[1]] > 0
      BY <2>0, <2>2, Observed
    <3>5. \A k \in Ids : deliveries[k] \in Nat
      BY <2>0
    <3> QED
      BY <3>2, <3>3, <3>4, <3>5
  <2>6. items' = items /\ disk' = disk
    BY <2>1 DEF storeVars
  <2> QED
    BY <2>1, <2>3, <2>4, <2>5, <2>6 DEF Receipts
<1>8. ASSUME NEW ok \in BOOLEAN, DoAdminMark(ok)
      PROVE  Receipts'
  <2>1. /\ aQueue # <<>> /\ aStep' = "get"
        /\ UNCHANGED <<wBatch, wStep, deliveries, failures>>
    BY <1>8 DEF DoAdminMark, AdminMark, workerVars, historyVars
  <2> DEFINE id == aQueue[1]
  <2>2. id \in Ids /\ id \in DOMAIN items
    BY <1>8, AdminMarkStore DEF DoAdminMark, MarkDone, MarkRetry
  <2>3. \/ aStep = "ok" /\ MarkDone(id, ok)
        \/ aStep = "err" /\ \E next \in Nat : MarkRetry(id, next, ok)
    BY <1>8, AdminMarkStore DEF DoAdminMark
  <2>4. items[id].attempt \in Nat /\ failures[id] \in Nat
    BY <2>2 DEF TypeOK, IsItemMap, Item
  <2>5. aStep = "err" => items[id].attempt + 1 + WorkerOwes(id) <= failures[id]
    BY <2>1, <2>2, <2>4 DEF Receipts
  <2>6. /\ Earned(items)' /\ Earned(disk)' /\ DOMAIN items' = DOMAIN items
        /\ \A k \in DOMAIN items \ {id} : items'[k] = items[k]
    <3>1. aStep = "err" => items[id].attempt + 1 <= failures[id]
      BY <2>4, <2>5
    <3>2. aStep = "ok" => deliveries[id] > 0
      BY <2>1 DEF Receipts
    <3> HIDE DEF id
    <3> QED
      BY <2>1, <2>2, <2>3, <3>1, <3>2, MarkedReceipts
  <2>7. items'[id].attempt + WorkerOwes(id) <= failures[id]
    <3>1. CASE aStep = "ok"
      <4>1. items'[id].attempt = items[id].attempt
        BY <2>2, <2>3, <3>1 DEF MarkDone, TypeOK, IsItemMap, Item
      <4>2. items[id].attempt + WorkerOwes(id) <= failures[id]
        BY <2>2, <2>4, <3>1 DEF Receipts
      <4> QED
        BY <4>1, <4>2
    <3>2. CASE aStep = "err"
      <4>1. items[id] \in Item
        BY <2>2 DEF TypeOK, IsItemMap
      <4>2. PICK next \in Nat : items' = [items EXCEPT ![id] = Retried(items[id], next)]
        BY <2>3, <3>2 DEF MarkRetry
      <4>3. items'[id].attempt = items[id].attempt + 1
        BY <2>2, <4>1, <4>2, RetriedItem
      <4> QED
        BY <3>2, <2>5, <4>3
    <3> QED
      BY <2>3, <3>1, <3>2
  <2>8. \A k \in DOMAIN items' : items'[k].attempt + WorkerOwes(k)' + AdminOwes(k)' <= failures'[k]
    <3> SUFFICES ASSUME NEW k \in DOMAIN items
                 PROVE  items'[k].attempt + WorkerOwes(k)' + AdminOwes(k)' <= failures'[k]
      BY <2>6
    <3>1. AdminOwes(k)' = 0 /\ WorkerOwes(k)' = WorkerOwes(k)
      BY <2>1
    <3>2. items'[k].attempt \in Nat /\ items[k].attempt \in Nat /\ failures[k] \in Nat
      BY <2>6 DEF TypeOK, IsItemMap, Item
    <3>3. items[k].attempt + WorkerOwes(k) + AdminOwes(k) <= failures[k]
      BY DEF Receipts
    <3> QED
      BY <2>1, <2>6, <2>7, <3>1, <3>2, <3>3
  <2> QED
    BY <2>1, <2>6, <2>8 DEF Receipts
<1>9. CASE Restart
  <2>1. /\ wStep' = "relay" /\ aStep' = "get" /\ items' = Loaded(disk) /\ disk' = disk
        /\ UNCHANGED <<deliveries, failures>>
    BY <1>9 DEF Restart, load, historyVars
  <2>2. /\ DOMAIN Loaded(disk) = DOMAIN disk
        /\ \A k \in DOMAIN disk :
              /\ Loaded(disk)[k].attempt = disk[k].attempt
              /\ Loaded(disk)[k].status \in {disk[k].status, "pending"}
    BY DEF Loaded, TypeOK, IsItemMap, Item
  <2>3. Earned(items)' /\ Earned(disk)'
    BY <2>1, <2>2 DEF Receipts, Earned
  <2>4. \A k \in DOMAIN items' : items'[k].attempt + 0 + 0 <= failures'[k]
    <3> TAKE k \in DOMAIN items'
    <3>1. items'[k].attempt \in Nat
      BY DEF TypeOK, IsItemMap, Item
    <3> QED
      BY <2>3, <3>1 DEF Earned
  <2> QED
    BY <2>1, <2>3, <2>4 DEF Receipts
<1>10. CASE Tick
  BY <1>10 DEF Tick, storeVars, workerVars, adminVars, historyVars, Receipts, Earned
<1>11. CASE UNCHANGED vars
  BY <1>11 DEF vars, storeVars, workerVars, adminVars, historyVars, Receipts, Earned
<1> QED
  BY <1>1, <1>2, <1>3, <1>4, <1>5, <1>6, <1>7, <1>8, <1>9, <1>10, <1>11, NextCases

\* The store calls an item done only after a relay of it succeeded and failed only
\* after the retries allowed were used up, on the file as in memory.
THEOREM Verdicts == Spec => []VerdictsEarned
<1>1. TypeOK /\ TypeOK' /\ Idle /\ AckedDurable /\ Receipts /\ [Next]_vars => Receipts'
  BY ReceiptsStep
<1> QED
  BY <1>1, ReceiptsInit, ReceiptsImply, TypeCorrect, IdleBetweenLoops, Durability, PTL DEF Spec
-----------------------------------------------------------------------------
(***************************************************************************)
(* Who holds an item.  The proofs below look at a step through what it does *)
(* to the items, to the sets of items the worker and the operator have in   *)
(* hand, and to history: one predicate for each kind of step, and one lemma *)
(* that every step is of one of the kinds.                                  *)
(***************************************************************************)

\* The items in hand whose relay has succeeded and that are not marked yet.
WorkerDone == IF wBatch # <<>> /\ wStep = "ok" THEN {wBatch[1].id} ELSE {}
AdminDone  == IF aStep = "ok" THEN AdminHolds ELSE {}

\* The worker's batch has no item twice.
Distinct == \A i, j \in DOMAIN wBatch : wBatch[i].id = wBatch[j].id => i = j

\* The file is written, or the write failed.
Saved == disk' = items' \/ disk' = disk

SameBut(S) == DOMAIN items' = DOMAIN items /\ \A k \in DOMAIN items \ S : items'[k] = items[k]

\* What MarkDone and MarkRetry do to the map.
MarkedDone(id) ==
    /\ id \in DOMAIN items /\ SameBut({id})
    /\ items'[id].status = "done"
    /\ items'[id].attempt = items[id].attempt
    /\ items'[id].payload = items[id].payload

MarkedRetry(id) ==
    /\ id \in DOMAIN items /\ SameBut({id})
    /\ items'[id].status = IF Exhausted(items[id].attempt + 1) THEN "failed" ELSE "pending"
    /\ items'[id].attempt = items[id].attempt + 1
    /\ items'[id].payload = items[id].payload

SameWorker  == WorkerHolds' = WorkerHolds /\ WorkerDone' = WorkerDone
SameAdmin   == AdminHolds' = AdminHolds /\ AdminDone' = AdminDone
SameHistory == UNCHANGED <<deliveries, failures, replays, crashes>>

\* The clock, a command, a replay of an unknown item, an Enqueue of a duplicate.
QuietStep == UNCHANGED <<items, issued>> /\ Saved /\ SameWorker /\ SameAdmin /\ SameHistory

EnqueueStep(p, id) ==
    /\ Duplicates(p) = {}
    /\ id \in Ids \ issued /\ issued' = issued \union {id}
    /\ DOMAIN items' = DOMAIN items \union {id}
    /\ items'[id] = NewItem(p, now)
    /\ \A k \in DOMAIN items \ {id} : items'[k] = items[k]
    /\ Saved /\ SameWorker /\ SameAdmin /\ SameHistory

PickStep(B) ==
    /\ SameBut(B)
    /\ \A k \in B :
          /\ k \in DOMAIN items /\ items[k].status = "pending"
          /\ items'[k].status = "processing"
          /\ items'[k].attempt = items[k].attempt
          /\ items'[k].payload = items[k].payload
    /\ WorkerHolds = {} /\ WorkerHolds' \subseteq B
    /\ WorkerDone = {} /\ WorkerDone' = {}
    /\ UNCHANGED issued /\ Saved /\ SameAdmin /\ SameHistory

WorkerRelayStep(id, outcome) ==
    /\ id \in WorkerHolds /\ WorkerHolds' = WorkerHolds
    /\ WorkerDone = {} /\ WorkerDone' = IF outcome = "ok" THEN {id} ELSE {}
    /\ Observe(id, outcome) /\ UNCHANGED <<items, disk, issued, replays, crashes>> /\ SameAdmin

WorkerMarkStep(id) ==
    /\ id \in WorkerHolds /\ WorkerHolds' = WorkerHolds \ {id}
    /\ \/ WorkerDone = {id} /\ MarkedDone(id)
       \/ WorkerDone = {} /\ MarkedRetry(id)
    /\ WorkerDone' = {}
    /\ UNCHANGED issued /\ Saved /\ SameAdmin /\ SameHistory

AdminGetStep(id) ==
    /\ id \in DOMAIN items /\ AdminHolds = {} /\ AdminHolds' = {id} /\ AdminDone' = {}
    /\ replays' = Plus1(replays, id)
    /\ UNCHANGED <<items, disk, issued, deliveries, failures, crashes>> /\ SameWorker

AdminRelayStep(id, outcome) ==
    /\ AdminHolds = {id} /\ AdminHolds' = {id}
    /\ AdminDone = {} /\ AdminDone' = IF outcome = "ok" THEN {id} ELSE {}
    /\ Observe(id, outcome) /\ UNCHANGED <<items, disk, issued, replays, crashes>> /\ SameWorker

AdminMarkStep(id) ==
    /\ AdminHolds = {id} /\ AdminHolds' = {}
    /\ \/ AdminDone = {id} /\ MarkedDone(id)
       \/ AdminDone = {} /\ MarkedRetry(id)
    /\ AdminDone' = {}
    /\ UNCHANGED issued /\ Saved /\ SameWorker /\ SameHistory

RestartStep ==
    /\ DOMAIN items' = DOMAIN disk
    /\ \A k \in DOMAIN disk :
          /\ items'[k].attempt = disk[k].attempt
          /\ items'[k].payload = disk[k].payload
          /\ Active(items'[k]) <=> Active(disk[k])
          /\ Settled(disk[k]) => items'[k] = disk[k]
    /\ WorkerHolds' = {} /\ WorkerDone' = {} /\ AdminHolds' = {} /\ AdminDone' = {}
    /\ crashes' = crashes + 1
    /\ UNCHANGED <<disk, issued, deliveries, failures, replays>>

\* The kinds of steps.
StepKinds ==
    \/ QuietStep
    \/ \E p \in Payloads, id \in Ids : EnqueueStep(p, id)
    \/ \E B \in SUBSET Ids : PickStep(B)
    \/ \E id \in Ids, outcome \in {"ok", "err"} : WorkerRelayStep(id, outcome)
    \/ \E id \in Ids : WorkerMarkStep(id)
    \/ \E id \in Ids : AdminGetStep(id)
    \/ \E id \in Ids, outcome \in {"ok", "err"} : AdminRelayStep(id, outcome)
    \/ \E id \in Ids : AdminMarkStep(id)
    \/ RestartStep

\* MarkDone and MarkRetry do to the map what their names say.
LEMMA MarkEffect ==
    ASSUME TypeOK, NEW id, NEW ok
    PROVE  /\ MarkDone(id, ok) => MarkedDone(id) /\ Saved /\ UNCHANGED issued
           /\ \A next \in Nat : MarkRetry(id, next, ok) => MarkedRetry(id) /\ Saved /\ UNCHANGED issued
<1>1. ASSUME MarkDone(id, ok)
      PROVE  MarkedDone(id) /\ Saved /\ UNCHANGED issued
  BY <1>1 DEF MarkDone, MarkedDone, SameBut, Saved, persistLocked, TypeOK, IsItemMap, Item
<1>2. ASSUME NEW next \in Nat, MarkRetry(id, next, ok)
      PROVE  MarkedRetry(id) /\ Saved /\ UNCHANGED issued
  <2>1. id \in DOMAIN items /\ items[id] \in Item
    BY <1>2 DEF MarkRetry, TypeOK, IsItemMap
  <2>2. /\ items'[id] = Retried(items[id], next)
        /\ SameBut({id}) /\ Saved /\ UNCHANGED issued
    BY <1>2, <2>1 DEF MarkRetry, SameBut, Saved, persistLocked, TypeOK, IsItemMap
  <2> QED
    BY <2>1, <2>2, RetriedItem DEF MarkedRetry
<1> QED
  BY <1>1, <1>2

\* Taking the first item off the worker's batch takes it out of the worker's hands.
LEMMA TailHolds ==
    ASSUME TypeOK, Distinct, wBatch # <<>>, wBatch' = Tail(wBatch)
    PROVE  /\ Distinct'
           /\ wBatch[1].id \in WorkerHolds
           /\ WorkerHolds' = WorkerHolds \ {wBatch[1].id}
<1>1. wBatch \in Seq(Picked)
  BY DEF TypeOK
<1>2. \A i \in DOMAIN wBatch' : i + 1 \in DOMAIN wBatch /\ wBatch'[i] = wBatch[i + 1] /\ i \in Int
  BY <1>1, TailRange
<1>3. \A i \in DOMAIN wBatch : i # 1 => i - 1 \in DOMAIN wBatch' /\ i \in Int
  BY <1>1
<1>4. 1 \in DOMAIN wBatch /\ \A i \in DOMAIN wBatch' : i + 1 # 1
  BY <1>1
<1>5. Distinct'
  BY <1>2 DEF Distinct
<1>6. WorkerHolds' \subseteq WorkerHolds \ {wBatch[1].id}
  BY <1>2, <1>4 DEF Distinct, WorkerHolds
<1>7. WorkerHolds \ {wBatch[1].id} \subseteq WorkerHolds'
  <2> SUFFICES ASSUME NEW i \in DOMAIN wBatch, wBatch[i].id # wBatch[1].id
               PROVE  wBatch[i].id \in WorkerHolds'
    BY DEF WorkerHolds
  <2>1. i - 1 \in DOMAIN wBatch' /\ i - 1 + 1 = i
    BY <1>3
  <2>2. wBatch'[i - 1] = wBatch[i]
    BY <1>2, <2>1
  <2> QED
    BY <2>1, <2>2 DEF WorkerHolds
<1> QED
  BY <1>4, <1>5, <1>6, <1>7 DEF WorkerHolds

\* What a tick of the worker's timer does.
LEMMA PickEffect ==
    ASSUME TypeOK, Idle, NEW batch \in DueBatches(BatchSize, now), NEW ok \in BOOLEAN,
           DoWorkerPick(batch, ok)
    PROVE  PickStep(ToSet(batch)) /\ ToSet(batch) \in SUBSET Ids /\ Distinct'
<1>1. batch \in Seq(DOMAIN items) /\ ToSet(batch) \subseteq Due(now) /\ IsInjective(batch)
  BY DueBatchType, WorkerAssumption
<1>2. /\ SameBut(ToSet(batch))
      /\ \A k \in ToSet(batch) :
            /\ k \in DOMAIN items /\ items[k].status = "pending"
            /\ items'[k].status = "processing"
            /\ items'[k].attempt = items[k].attempt
            /\ items'[k].payload = items[k].payload
  BY <1>1 DEF DoWorkerPick, WorkerPick, PickDue, WithStatus, SameBut, Due, TypeOK, IsItemMap, Item
<1>3. UNCHANGED issued /\ Saved /\ SameAdmin /\ SameHistory
  BY DEF DoWorkerPick, WorkerPick, PickDue, persistLocked, Saved, SameAdmin, SameHistory,
     adminVars, historyVars, AdminHolds, AdminDone
<1>4. WorkerHolds = {} /\ WorkerDone = {} /\ WorkerDone' = {}
  BY DEF DoWorkerPick, WorkerPick, WorkerHolds, WorkerDone, Idle
<1>5. WorkerHolds' \subseteq ToSet(batch) /\ Distinct'
  <2>1. CASE ok
    <3>1. wBatch' = [i \in DOMAIN batch |-> [id |-> batch[i], attempt |-> items[batch[i]].attempt]]
      BY <2>1 DEF DoWorkerPick, WorkerPick
    <3> QED
      BY <3>1, <1>1 DEF WorkerHolds, ToSet, Distinct, IsInjective
  <2>2. CASE ~ok
    BY <2>2 DEF DoWorkerPick, WorkerPick, WorkerHolds, Distinct
  <2> QED
    BY <2>1, <2>2
<1>6. ToSet(batch) \in SUBSET Ids
  BY <1>2 DEF TypeOK, IsItemMap
<1> QED
  BY <1>2, <1>3, <1>4, <1>5, <1>6 DEF PickStep

\* Every step is of one of the kinds.
LEMMA Kinds ==
    ASSUME TypeOK, Idle, Distinct, [Next]_vars
    PROVE  StepKinds /\ Distinct'
<1>0. ASSUME UNCHANGED <<wBatch, wStep>>
      PROVE  SameWorker /\ Distinct'
  BY <1>0 DEF SameWorker, WorkerHolds, WorkerDone, Distinct
<1>00. ASSUME UNCHANGED <<aQueue, aStep>>
       PROVE  SameAdmin
  BY <1>00 DEF SameAdmin, AdminHolds, AdminDone
<1>1. ASSUME NEW p \in Payloads, NEW id \in Ids, NEW ok \in BOOLEAN, SessionEnqueue(p, id, ok)
      PROVE  StepKinds /\ Distinct'
  <2>1. SameWorker /\ Distinct' /\ SameAdmin /\ SameHistory
    BY <1>1, <1>0, <1>00 DEF SessionEnqueue, workerVars, adminVars, SameHistory
  <2>2. CASE EnqueueDuplicate(p, id, ok)
    BY <2>1, <2>2 DEF EnqueueDuplicate, persistLocked, Saved, QuietStep, StepKinds
  <2>3. CASE EnqueueNew(p, id, now, ok)
    <3>1. EnqueueStep(p, id)
      BY <2>1, <2>3 DEF EnqueueNew, Put, persistLocked, Saved, EnqueueStep
    <3> QED
      BY <2>1, <3>1 DEF StepKinds
  <2> QED
    BY <1>1, <2>2, <2>3 DEF SessionEnqueue, Enqueue
<1>2. ASSUME NEW batch \in DueBatches(BatchSize, now), NEW ok \in BOOLEAN, DoWorkerPick(batch, ok)
      PROVE  StepKinds /\ Distinct'
  BY <1>2, PickEffect DEF StepKinds
<1>3. ASSUME NEW outcome \in {"ok", "err"}, DoWorkerRelay(outcome)
      PROVE  StepKinds /\ Distinct'
  <2> DEFINE id == wBatch[1].id
  <2>1. /\ wBatch # <<>> /\ wStep = "relay" /\ wBatch' = wBatch /\ wStep' = outcome
        /\ Observe(id, outcome)
        /\ UNCHANGED <<items, disk, issued, replays, crashes, aQueue, aStep>>
    BY <1>3 DEF DoWorkerRelay, WorkerRelay, adminVars, storeVars
  <2>2. wBatch[1] \in Picked /\ 1 \in DOMAIN wBatch
    BY <2>1 DEF TypeOK
  <2>3. id \in Ids /\ id \in WorkerHolds
    BY <2>2 DEF Picked, WorkerHolds
  <2>4. WorkerHolds' = WorkerHolds /\ Distinct' /\ WorkerDone = {}
        /\ WorkerDone' = IF outcome = "ok" THEN {id} ELSE {}
    BY <2>1 DEF WorkerHolds, WorkerDone, Distinct
  <2>5. SameAdmin
    BY <2>1, <1>00
  <2> HIDE DEF id
  <2>6. WorkerRelayStep(id, outcome)
    BY <2>1, <2>3, <2>4, <2>5 DEF WorkerRelayStep
  <2> QED
    BY <2>3, <2>4, <2>6 DEF StepKinds
<1>4. ASSUME NEW jitter \in 0 .. Jitter - 1, NEW ok \in BOOLEAN, DoWorkerMark(jitter, ok)
      PROVE  StepKinds /\ Distinct'
  <2> DEFINE id == wBatch[1].id
  <2>1. /\ wBatch # <<>> /\ wBatch' = Tail(wBatch) /\ wStep' = "relay"
        /\ UNCHANGED <<aQueue, aStep>> /\ SameHistory
    BY <1>4 DEF DoWorkerMark, WorkerMark, adminVars, historyVars, SameHistory
  <2>2. /\ wBatch[1] \in Picked
        /\ \/ wStep = "ok" /\ MarkDone(id, ok)
           \/ wStep = "err" /\ \E next \in Nat : MarkRetry(id, next, ok)
    BY <1>4, WorkerMarkStore DEF DoWorkerMark
  <2>3. id \in Ids
    BY <2>2 DEF Picked
  <2>4. Distinct' /\ id \in WorkerHolds /\ WorkerHolds' = WorkerHolds \ {id}
    BY <2>1, TailHolds
  <2>5. /\ wStep = "ok" => WorkerDone = {id}
        /\ wStep = "err" => WorkerDone = {}
        /\ WorkerDone' = {}
    BY <2>1 DEF WorkerDone
  <2>6. SameAdmin
    BY <2>1, <1>00
  <2> HIDE DEF id
  <2>7. /\ Saved /\ UNCHANGED issued
        /\ \/ wStep = "ok" /\ MarkedDone(id)
           \/ wStep = "err" /\ MarkedRetry(id)
    BY <2>2, MarkEffect
  <2>8. WorkerMarkStep(id)
    BY <2>1, <2>4, <2>5, <2>6, <2>7 DEF WorkerMarkStep
  <2> QED
    BY <2>3, <2>4, <2>8 DEF StepKinds
<1>5. CASE Command
  <2>1. /\ UNCHANGED <<wBatch, wStep, items, disk, issued>> /\ SameHistory
        /\ aQueue = <<>> /\ aStep = "get" /\ aStep' = "get"
    BY <1>5 DEF Command, Replay, ReplayBatch, workerVars, storeVars, historyVars, SameHistory, Idle
  <2>2. SameAdmin
    BY <2>1 DEF SameAdmin, AdminHolds, AdminDone
  <2> QED
    BY <2>1, <2>2, <1>0 DEF QuietStep, Saved, StepKinds
<1>6. CASE DoAdminGet
  <2>1. /\ UNCHANGED <<wBatch, wStep, items, disk, issued, deliveries, failures, crashes>>
        /\ aQueue # <<>> /\ aStep = "get"
    BY <1>6 DEF DoAdminGet, AdminGet, workerVars, storeVars
  <2>2. SameWorker /\ Distinct'
    BY <2>1, <1>0
  <2>3. CASE aQueue[1] \in DOMAIN items
    <3>1. aStep' = "relay" /\ aQueue' = aQueue /\ replays' = Plus1(replays, aQueue[1])
      BY <1>6, <2>3 DEF DoAdminGet, AdminGet
    <3>2. AdminGetStep(aQueue[1])
      BY <2>1, <2>2, <2>3, <3>1 DEF AdminGetStep, AdminHolds, AdminDone
    <3>3. aQueue[1] \in Ids
      BY <2>3 DEF TypeOK, IsItemMap
    <3> QED
      BY <2>2, <3>2, <3>3 DEF StepKinds
  <2>4. CASE aQueue[1] \notin DOMAIN items
    <3>1. aStep' = "get" /\ replays' = replays
      BY <1>6, <2>1, <2>4 DEF DoAdminGet, AdminGet
    <3>2. SameAdmin
      BY <2>1, <3>1 DEF SameAdmin, AdminHolds, AdminDone
    <3> QED
      BY <2>1, <2>2, <3>1, <3>2 DEF QuietStep, Saved, SameHistory, StepKinds
  <2> QED
    BY <2>3, <2>4
<1>7. ASSUME NEW outcome \in {"ok", "err"}, DoAdminRelay(outcome)
      PROVE  StepKinds /\ Distinct'
  <2>1. /\ aQueue # <<>> /\ aStep = "relay" /\ aQueue' = aQueue /\ aStep' = outcome
        /\ Observe(aQueue[1], outcome)
        /\ UNCHANGED <<items, disk, issued, replays, crashes, wBatch, wStep>>
    BY <1>7 DEF DoAdminRelay, AdminRelay, workerVars, storeVars
  <2>2. aQueue[1] \in Ids
    BY <2>1 DEF TypeOK
  <2>3. AdminRelayStep(aQueue[1], outcome)
    BY <2>1, <1>0 DEF AdminRelayStep, AdminHolds, AdminDone
  <2> QED
    BY <2>1, <2>2, <2>3, <1>0 DEF StepKinds
<1>8. ASSUME NEW ok \in BOOLEAN, DoAdminMark(ok)
      PROVE  StepKinds /\ Distinct'
  <2>1. /\ aQueue # <<>> /\ aStep' = "get"
        /\ UNCHANGED <<wBatch, wStep>> /\ SameHistory
    BY <1>8 DEF DoAdminMark, AdminMark, workerVars, historyVars, SameHistory
  <2>2. /\ aQueue[1] \in Ids
        /\ \/ aStep = "ok" /\ MarkDone(aQueue[1], ok)
           \/ aStep = "err" /\ \E next \in Nat : MarkRetry(aQueue[1], next, ok)
    BY <1>8, AdminMarkStore DEF DoAdminMark
  <2>3. /\ Saved /\ UNCHANGED issued
        /\ \/ aStep = "ok" /\ MarkedDone(aQueue[1])
           \/ aStep = "err" /\ MarkedRetry(aQueue[1])
    BY <2>2, MarkEffect
  <2>4. AdminMarkStep(aQueue[1])
    BY <2>1, <2>3, <1>0 DEF AdminMarkStep, AdminHolds, AdminDone
  <2> QED
    BY <2>1, <2>2, <2>4, <1>0 DEF StepKinds
<1>9. CASE Restart
  <2>1. /\ items' = Loaded(disk) /\ wBatch' = <<>> /\ aQueue' = <<>> /\ crashes' = crashes + 1
        /\ UNCHANGED <<disk, issued, deliveries, failures, replays>>
    BY <1>9 DEF Restart, load, historyVars
  <2>2. WorkerHolds' = {} /\ WorkerDone' = {} /\ AdminHolds' = {} /\ AdminDone' = {} /\ Distinct'
    BY <2>1 DEF WorkerHolds, WorkerDone, AdminHolds, AdminDone, Distinct
  <2>3. /\ DOMAIN items' = DOMAIN disk
        /\ \A k \in DOMAIN disk :
              /\ items'[k].attempt = disk[k].attempt
              /\ items'[k].payload = disk[k].payload
              /\ Active(items'[k]) <=> Active(disk[k])
              /\ Settled(disk[k]) => items'[k] = disk[k]
    BY <2>1 DEF Loaded, Active, Settled, TypeOK, IsItemMap, Item, Status
  <2> QED
    BY <2>1, <2>2, <2>3 DEF RestartStep, StepKinds
<1>10. CASE Tick \/ UNCHANGED vars
  <2>1. UNCHANGED <<items, disk, issued, wBatch, wStep, aQueue, aStep>> /\ SameHistory
    BY <1>10 DEF Tick, vars, storeVars, workerVars, adminVars, historyVars, SameHistory
  <2> QED
    BY <2>1, <1>0, <1>00 DEF QuietStep, Saved, StepKinds
<1> QED
  BY <1>1, <1>2, <1>3, <1>4, <1>5, <1>6, <1>7, <1>8, <1>9, <1>10, NextCases
-----------------------------------------------------------------------------
\* An item the file calls settled and the operator did not replay is settled in
\* memory, the same way.
SettledAgrees ==
    \A id \in DOMAIN disk :
        Settled(disk[id]) /\ replays[id] = 0 => id \in DOMAIN items /\ items[id] = disk[id]

\* Who may touch an item.  An item in the operator's hands was replayed.  One in the
\* worker's hands that was never replayed is still the worker's: its status is the
\* one PickDue gave it.  Identifiers in use were generated.
Owned ==
    /\ DOMAIN items \subseteq issued
    /\ \A id \in AdminHolds : replays[id] > 0
    /\ \A id \in WorkerHolds : replays[id] = 0 => items[id].status = "processing"
    /\ SettledAgrees

\* Replays are only ever added.
LEMMA ReplaysGrow ==
    ASSUME TypeOK, StepKinds
    PROVE  \A k \in Ids : replays[k] \in Nat /\ replays'[k] \in Nat /\ replays'[k] >= replays[k]
<1>1. replays \in [Ids -> Nat]
  BY DEF TypeOK
<1>2. CASE UNCHANGED replays
  BY <1>1, <1>2
<1>3. ASSUME NEW id \in Ids, replays' = Plus1(replays, id)
      PROVE  \A k \in Ids : replays'[k] \in Nat /\ replays'[k] >= replays[k]
  BY <1>1, <1>3 DEF Plus1
<1>4. UNCHANGED replays \/ \E id \in Ids : replays' = Plus1(replays, id)
  BY DEF StepKinds, QuietStep, EnqueueStep, PickStep, WorkerRelayStep, WorkerMarkStep, AdminGetStep,
     AdminRelayStep, AdminMarkStep, RestartStep, SameHistory
<1> QED
  BY <1>1, <1>2, <1>3, <1>4

\* A step leaves an item alone that is settled on the file and was not replayed:
\* the worker does not pick it and does not hold it, and the operator does not
\* hold it.
LEMMA SettledStays ==
    ASSUME TypeOK, AckedDurable, Owned, StepKinds,
           NEW id \in DOMAIN disk, Settled(disk[id]), replays[id] = 0
    PROVE  /\ id \in DOMAIN items' /\ items'[id] = disk[id]
           /\ id \in DOMAIN disk' /\ disk'[id] = disk[id]
<1>0. /\ id \in DOMAIN items /\ items[id] = disk[id] /\ items[id].status \in {"done", "failed"}
      /\ id \in Ids
  BY DEF Owned, SettledAgrees, Settled, TypeOK, IsItemMap
<1>1. id \notin WorkerHolds /\ id \notin AdminHolds
  BY <1>0 DEF Owned
<1>2. ASSUME Saved, id \in DOMAIN items', items'[id] = items[id]
      PROVE  /\ id \in DOMAIN items' /\ items'[id] = disk[id]
             /\ id \in DOMAIN disk' /\ disk'[id] = disk[id]
  BY <1>0, <1>2 DEF Saved
<1>3. CASE QuietStep
  BY <1>0, <1>2, <1>3 DEF QuietStep
<1>4. ASSUME NEW p \in Payloads, NEW k \in Ids, EnqueueStep(p, k)
      PROVE  Saved /\ id \in DOMAIN items' /\ items'[id] = items[id]
  BY <1>0, <1>4 DEF EnqueueStep, Owned
<1>5. ASSUME NEW B \in SUBSET Ids, PickStep(B)
      PROVE  Saved /\ id \in DOMAIN items' /\ items'[id] = items[id]
  BY <1>0, <1>5 DEF PickStep, SameBut
<1>6. ASSUME NEW k \in Ids, WorkerMarkStep(k)
      PROVE  Saved /\ id \in DOMAIN items' /\ items'[id] = items[id]
  BY <1>0, <1>1, <1>6 DEF WorkerMarkStep, MarkedDone, MarkedRetry, SameBut
<1>7. ASSUME NEW k \in Ids, AdminMarkStep(k)
      PROVE  Saved /\ id \in DOMAIN items' /\ items'[id] = items[id]
  BY <1>0, <1>1, <1>7 DEF AdminMarkStep, MarkedDone, MarkedRetry, SameBut
<1>8. CASE RestartStep
  BY <1>8 DEF RestartStep
<1>9. CASE UNCHANGED <<items, disk>>
  BY <1>0, <1>9
<1> QED
  BY <1>2, <1>3, <1>4, <1>5, <1>6, <1>7, <1>8, <1>9
     DEF StepKinds, WorkerRelayStep, AdminGetStep, AdminRelayStep

\* The file agrees with memory after the step as it did before.
LEMMA AgreesStep ==
    ASSUME TypeOK, TypeOK', AckedDurable, Owned, StepKinds
    PROVE  SettledAgrees'
<1> SUFFICES ASSUME NEW id \in DOMAIN disk', Settled(disk'[id]), replays'[id] = 0
             PROVE  id \in DOMAIN items' /\ items'[id] = disk'[id]
  BY DEF SettledAgrees, Settled
<1>1. id \in Ids
  BY DEF TypeOK, IsItemMap
<1>2. replays[id] = 0
  BY <1>1, ReplaysGrow
<1>3. disk' = items' \/ disk' = disk
  BY DEF StepKinds, QuietStep, EnqueueStep, PickStep, WorkerRelayStep, WorkerMarkStep, AdminGetStep,
     AdminRelayStep, AdminMarkStep, RestartStep, Saved
<1>4. CASE disk' = items'
  BY <1>4
<1>5. CASE disk' = disk
  BY <1>2, <1>5, SettledStays
<1> QED
  BY <1>3, <1>4, <1>5

\* Every kind of step keeps items with their owners.
LEMMA OwnedStep ==
    ASSUME TypeOK, TypeOK', AckedDurable, Owned, StepKinds
    PROVE  Owned'
<1>0. WorkerHolds \subseteq DOMAIN items /\ AdminHolds \subseteq DOMAIN items
      /\ DOMAIN disk \subseteq DOMAIN items /\ DOMAIN items \subseteq Ids
  BY DEF AckedDurable, TypeOK, IsItemMap
<1>1. \A k \in Ids : replays[k] \in Nat /\ replays'[k] \in Nat /\ replays'[k] >= replays[k]
  BY ReplaysGrow
<1>2. SettledAgrees'
  BY AgreesStep
<1>3. DOMAIN items' \subseteq issued'
  BY <1>0 DEF Owned, StepKinds, QuietStep, EnqueueStep, PickStep, WorkerRelayStep, WorkerMarkStep,
     AdminGetStep, AdminRelayStep, AdminMarkStep, RestartStep, SameBut, MarkedDone, MarkedRetry
<1>4. \A id \in AdminHolds' : replays'[id] > 0
  <2>1. ASSUME AdminHolds' \subseteq AdminHolds
        PROVE  \A id \in AdminHolds' : replays'[id] > 0
    BY <1>0, <1>1, <2>1 DEF Owned
  <2>2. ASSUME NEW k \in Ids, AdminGetStep(k)
        PROVE  \A id \in AdminHolds' : replays'[id] > 0
    <3>1. AdminHolds' = {k} /\ replays' = Plus1(replays, k) /\ replays \in [Ids -> Nat]
      BY <2>2 DEF AdminGetStep, TypeOK
    <3>2. replays'[k] > 0
      BY <3>1 DEF Plus1
    <3> QED
      BY <3>1, <3>2
  <2> QED
    BY <2>1, <2>2 DEF StepKinds, QuietStep, EnqueueStep, PickStep, WorkerRelayStep, WorkerMarkStep,
       AdminRelayStep, AdminMarkStep, RestartStep, SameAdmin
<1>5. \A id \in WorkerHolds' : replays'[id] = 0 => items'[id].status = "processing"
  <2>1. ASSUME NEW id \in WorkerHolds, replays'[id] = 0, items'[id] = items[id]
        PROVE  items'[id].status = "processing"
    BY <1>0, <1>1, <2>1 DEF Owned
  <2>2. ASSUME NEW p \in Payloads, NEW k \in Ids, EnqueueStep(p, k)
        PROVE  \A id \in WorkerHolds' : replays'[id] = 0 => items'[id].status = "processing"
    BY <1>0, <2>1, <2>2 DEF EnqueueStep, SameWorker, Owned
  <2>3. ASSUME NEW B \in SUBSET Ids, PickStep(B)
        PROVE  \A id \in WorkerHolds' : replays'[id] = 0 => items'[id].status = "processing"
    BY <2>3 DEF PickStep
  <2>4. ASSUME NEW k \in Ids, WorkerMarkStep(k)
        PROVE  \A id \in WorkerHolds' : replays'[id] = 0 => items'[id].status = "processing"
    BY <1>0, <2>1, <2>4 DEF WorkerMarkStep, MarkedDone, MarkedRetry, SameBut
  <2>5. ASSUME NEW k \in Ids, AdminMarkStep(k)
        PROVE  \A id \in WorkerHolds' : replays'[id] = 0 => items'[id].status = "processing"
    <3>1. k \in AdminHolds /\ WorkerHolds' = WorkerHolds /\ SameBut({k})
      BY <2>5 DEF AdminMarkStep, SameWorker, MarkedDone, MarkedRetry
    <3>2. replays'[k] > 0
      BY <1>0, <1>1, <3>1 DEF Owned
    <3> QED
      BY <1>0, <2>1, <3>1, <3>2 DEF SameBut
  <2>6. CASE WorkerHolds' = {}
    BY <2>6
  <2>7. CASE UNCHANGED items /\ WorkerHolds' = WorkerHolds
    BY <1>0, <2>1, <2>7
  <2> QED
    BY <2>2, <2>3, <2>4, <2>5, <2>6, <2>7 DEF StepKinds, QuietStep, WorkerRelayStep, AdminGetStep,
       AdminRelayStep, RestartStep, SameWorker
<1> QED
  BY <1>2, <1>3, <1>4, <1>5 DEF Owned

\* What is known of every state: the parts of the inductive invariant so far.
Base == TypeOK /\ Idle /\ AckedDurable /\ Distinct /\ Owned

\* It holds of the queue.
LEMMA BaseHolds == Spec => []Base
<1>1. Init => Distinct /\ Owned
  BY DEF Init, NewFileStore, WorkerInit, AdminInit, Distinct, Owned, SettledAgrees, WorkerHolds, AdminHolds
<1>2. TypeOK /\ TypeOK' /\ Idle /\ AckedDurable /\ Distinct /\ Owned /\ [Next]_vars => Distinct' /\ Owned'
  BY Kinds, OwnedStep
<1> QED
  BY <1>1, <1>2, TypeCorrect, IdleBetweenLoops, Durability, PTL DEF Spec, Base

\* Once the file says an item is done or has failed, only a replay of that item by
\* the operator changes the file's word on it, at any interleaving of sessions,
\* worker and operator, with any failed writes and restarts.
THEOREM SettledForGood == Spec => DurablySettled
<1>1. Base /\ [Next]_vars =>
        [\A id \in DOMAIN disk :
            Settled(disk[id]) /\ replays[id] = 0 => id \in DOMAIN disk' /\ disk'[id] = disk[id]]_vars
  BY Kinds, SettledStays DEF Base
<1> QED
  BY <1>1, BaseHolds, PTL DEF Spec, DurablySettled
-----------------------------------------------------------------------------
(***************************************************************************)
(* The queue implements RetryLedger: the initial states map to its initial  *)
(* state, and each kind of step maps to a step of the ledger or to none.    *)
(***************************************************************************)

\* The word the file has for an item is one of the ledger's.
LEMMA WordType ==
    ASSUME TypeOK, NEW id \in Ids
    PROVE  LedgerWord(id) \in Ledger!Word
BY DEF TypeOK, IsItemMap, Item, Status, Active, LedgerWord, Ledger!Word

\* An item in the worker's hands may be relayed: the file has not closed it, or the
\* operator replayed it.
LEMMA WorkerMayRelay ==
    ASSUME TypeOK, AckedDurable, Owned, NEW id \in WorkerHolds, id \in Ids
    PROVE  LedgerWord(id) \notin {"done", "failed"} \/ replays[id] > 0
<1>1. replays[id] \in Nat
  BY DEF TypeOK
<1>2. ASSUME replays[id] = 0, id \in DOMAIN disk
      PROVE  Active(disk[id])
  <2>1. items[id].status = "processing"
    BY <1>2 DEF Owned
  <2>2. ~Settled(disk[id])
    BY <1>2, <2>1 DEF Owned, SettledAgrees, Settled
  <2> QED
    BY <1>2, <2>2 DEF TypeOK, IsItemMap, Item, Status, Active, Settled
<1> QED
  BY <1>1, <1>2 DEF LedgerWord

\* A step that saves the map, or fails to, is a write of the ledger.
LEMMA WriteMaps ==
    ASSUME TypeOK, TypeOK', AckedDurable, AckedDurable', Owned, VerdictsEarned', StepKinds,
           UNCHANGED <<deliveries, failures, replays>>
    PROVE  Ledger!Write
<1>1. \A id \in Ids : LedgerWord(id)' \in Ledger!Word
  BY WordType DEF Ledger!Word, TypeOK, IsItemMap, Item, Status, Active, LedgerWord
<1>2. ASSUME NEW id \in Ids
      PROVE  \/ LedgerWord(id)' = LedgerWord(id)
             \/ LedgerWord(id)' = "open" /\ (LedgerWord(id) = "unknown" \/ replays[id] > 0)
             \/ /\ LedgerWord(id)' = "done" /\ deliveries[id] > 0
                /\ LedgerWord(id) \notin {"done", "failed"} \/ replays[id] > 0
             \/ /\ LedgerWord(id)' = "failed"
                /\ LedgerWord(id) \notin {"done", "failed"} \/ replays[id] > 0
                /\ MaxRetries > 0 /\ failures[id] >= MaxRetries
  <2>0. replays[id] \in Nat
    BY DEF TypeOK
  <2>1. DOMAIN disk \subseteq DOMAIN disk'
    <3>1. disk' = disk \/ disk' = items'
      BY DEF StepKinds, QuietStep, EnqueueStep, PickStep, WorkerRelayStep, WorkerMarkStep, AdminGetStep,
         AdminRelayStep, AdminMarkStep, RestartStep, Saved
    <3>2. disk' = disk \/ DOMAIN items \subseteq DOMAIN items'
      BY DEF StepKinds, QuietStep, EnqueueStep, PickStep, WorkerRelayStep, WorkerMarkStep, AdminGetStep,
         AdminRelayStep, AdminMarkStep, RestartStep, SameBut, MarkedDone, MarkedRetry
    <3> QED
      BY <3>1, <3>2 DEF AckedDurable
  <2>2. CASE id \in DOMAIN disk /\ Settled(disk[id]) /\ replays[id] = 0
    <3>1. id \in DOMAIN disk' /\ disk'[id] = disk[id]
      BY <2>2, SettledStays
    <3> QED
      BY <2>2, <3>1 DEF LedgerWord
  <2>3. CASE ~(id \in DOMAIN disk /\ Settled(disk[id])) \/ replays[id] > 0
    <3>1. LedgerWord(id) \notin {"done", "failed"} \/ replays[id] > 0
      BY <2>3 DEF LedgerWord, Active, Settled, TypeOK, IsItemMap, Item, Status
    <3>2. CASE id \notin DOMAIN disk'
      BY <2>1, <3>2 DEF LedgerWord
    <3>3. CASE id \in DOMAIN disk' /\ Active(disk'[id])
      <4>1. LedgerWord(id)' = "open"
        BY <3>3 DEF LedgerWord, Active
      <4>2. LedgerWord(id) \in {"unknown", "open"} \/ replays[id] > 0
        BY <3>1, WordType DEF Ledger!Word
      <4> QED
        BY <4>1, <4>2
    <3>4. CASE id \in DOMAIN disk' /\ ~Active(disk'[id])
      <4>1. LedgerWord(id)' = disk'[id].status
        BY <3>4 DEF LedgerWord, Active
      <4>2. disk'[id].status \in {"done", "failed"}
        BY <3>4 DEF Active, TypeOK, IsItemMap, Item, Status
      <4>3. /\ disk'[id].status = "done" => deliveries[id] > 0
            /\ disk'[id].status = "failed" => MaxRetries > 0 /\ failures[id] >= MaxRetries
        BY <3>4 DEF VerdictsEarned
      <4> QED
        BY <3>1, <4>1, <4>2, <4>3
    <3> QED
      BY <3>2, <3>3, <3>4
  <2> QED
    BY <2>0, <2>2, <2>3
<1> QED
  BY <1>1, <1>2 DEF Ledger!Write, Ledger!Legal, Ledger!Closed

\* Every step of the queue is a step of the ledger.
LEMMA LedgerStep ==
    ASSUME TypeOK, TypeOK', AckedDurable, AckedDurable', Owned, VerdictsEarned', StepKinds
    PROVE  Ledger!Next
<1>1. CASE UNCHANGED <<deliveries, failures, replays>>
  BY <1>1, WriteMaps DEF Ledger!Next
<1>2. ASSUME NEW id \in Ids, NEW outcome \in {"ok", "err"}, Observe(id, outcome),
             UNCHANGED <<disk, replays>>,
             LedgerWord(id) \notin {"done", "failed"} \/ replays[id] > 0
      PROVE  Ledger!Next
  <2>1. \A k \in Ids : LedgerWord(k)' = LedgerWord(k)
    BY <1>2 DEF LedgerWord, Active
  <2>2. [k \in Ids |-> LedgerWord(k)'] = [k \in Ids |-> LedgerWord(k)]
    BY <2>1
  <2>3. CASE outcome = "ok"
    <3>1. deliveries' = [deliveries EXCEPT ![id] = @ + 1] /\ failures' = failures
      BY <1>2, <2>3 DEF Observe, Plus1
    <3>2. Ledger!Deliver(id)
      BY <1>2, <2>2, <3>1 DEF Ledger!Deliver, Ledger!Closed
    <3> QED
      BY <3>2 DEF Ledger!Next
  <2>4. CASE outcome = "err"
    <3>1. failures' = [failures EXCEPT ![id] = @ + 1] /\ deliveries' = deliveries
      BY <1>2, <2>4 DEF Observe, Plus1
    <3>2. Ledger!Fail(id)
      BY <1>2, <2>2, <3>1 DEF Ledger!Fail, Ledger!Closed
    <3> QED
      BY <3>2 DEF Ledger!Next
  <2> QED
    BY <2>3, <2>4
<1>3. ASSUME NEW id \in Ids, NEW outcome \in {"ok", "err"}, WorkerRelayStep(id, outcome)
      PROVE  Ledger!Next
  BY <1>2, <1>3, WorkerMayRelay DEF WorkerRelayStep
<1>4. ASSUME NEW id \in Ids, NEW outcome \in {"ok", "err"}, AdminRelayStep(id, outcome)
      PROVE  Ledger!Next
  BY <1>2, <1>4 DEF AdminRelayStep, Owned
<1>5. ASSUME NEW id \in Ids, AdminGetStep(id)
      PROVE  Ledger!Next
  <2>1. \A k \in Ids : LedgerWord(k)' = LedgerWord(k)
    BY <1>5 DEF LedgerWord, Active, AdminGetStep
  <2>2. [k \in Ids |-> LedgerWord(k)'] = [k \in Ids |-> LedgerWord(k)]
    BY <2>1
  <2>3. Ledger!Ask(id)
    BY <1>5, <2>2 DEF Ledger!Ask, AdminGetStep, Plus1
  <2> QED
    BY <2>3 DEF Ledger!Next
<1> QED
  BY <1>1, <1>3, <1>4, <1>5 DEF StepKinds, QuietStep, EnqueueStep, PickStep, WorkerMarkStep,
     AdminMarkStep, RestartStep, SameHistory

\* The dead-letter queue implements the ledger, for any number of items, sessions,
\* failed writes, replays and restarts.
THEOREM Refinement == Spec => ImplementsLedger
<1>1. Init => Ledger!Init
  BY DEF Init, NewFileStore, LedgerWord, Ledger!Init
<1>2. Base /\ Base' /\ VerdictsEarned' /\ [Next]_vars => [Ledger!Next]_(Ledger!vars)
  BY Kinds, LedgerStep DEF Base
<1> QED
  BY <1>1, <1>2, BaseHolds, Verdicts, PTL DEF Spec, ImplementsLedger, Ledger!Spec
-----------------------------------------------------------------------------
\* A mail waits in the map m once, but for mails the operator replayed.
UniqueIn(m) ==
    \A a, b \in DOMAIN m :
        a # b /\ m[a].payload = m[b].payload /\ Active(m[a]) /\ Active(m[b])
        => replays[a] + replays[b] > 0

\* The items of the map m were in the map from, and the ones that wait in m waited
\* there or were replayed.
Inherits(m, from) ==
    /\ DOMAIN m \subseteq DOMAIN from
    /\ \A k \in DOMAIN m :
          /\ m[k].payload = from[k].payload
          /\ Active(m[k]) => Active(from[k]) \/ replays[k] > 0

\* A step takes the map in memory from the map in memory or, at a restart, from the
\* file, or it adds an item that is not a duplicate.
LEMMA ItemsInherit ==
    ASSUME TypeOK, AckedDurable, Owned, StepKinds
    PROVE  \/ Inherits(items', items)
           \/ Inherits(items', disk)
           \/ \E p \in Payloads, id \in Ids : EnqueueStep(p, id)
<1>0. WorkerHolds \subseteq DOMAIN items
  BY DEF AckedDurable
<1>1. CASE UNCHANGED items
  BY <1>1 DEF Inherits
<1>2. ASSUME NEW B \in SUBSET Ids, PickStep(B)
      PROVE  Inherits(items', items)
  BY <1>2 DEF PickStep, SameBut, Inherits, Active
<1>3. ASSUME NEW id \in Ids, WorkerMarkStep(id)
      PROVE  Inherits(items', items)
  <2>1. replays[id] \in Nat
    BY DEF TypeOK
  <2>2. Active(items[id]) \/ replays[id] > 0
    BY <1>3, <2>1 DEF WorkerMarkStep, Owned, Active
  <2> QED
    BY <1>3, <2>2 DEF WorkerMarkStep, MarkedDone, MarkedRetry, SameBut, Inherits
<1>4. ASSUME NEW id \in Ids, AdminMarkStep(id)
      PROVE  Inherits(items', items)
  <2>1. replays[id] > 0
    BY <1>4 DEF AdminMarkStep, Owned
  <2> QED
    BY <1>4, <2>1 DEF AdminMarkStep, MarkedDone, MarkedRetry, SameBut, Inherits
<1>5. CASE RestartStep
  BY <1>5 DEF RestartStep, Inherits
<1> QED
  BY <1>1, <1>2, <1>3, <1>4, <1>5 DEF StepKinds, QuietStep, WorkerRelayStep, AdminGetStep, AdminRelayStep

\* Each step keeps a mail from waiting twice, in memory and on the file.
LEMMA UniqueStep ==
    ASSUME TypeOK, TypeOK', AckedDurable, Owned, StepKinds, UniqueIn(items), UniqueIn(disk)
    PROVE  UniqueIn(items)' /\ UniqueIn(disk)'
<1>0. /\ DOMAIN items \subseteq Ids /\ DOMAIN disk \subseteq Ids
      /\ \A k \in Ids : replays[k] \in Nat /\ replays'[k] \in Nat /\ replays'[k] >= replays[k]
  BY ReplaysGrow DEF TypeOK, IsItemMap
<1>1. ASSUME NEW from, DOMAIN from \subseteq Ids, UniqueIn(from), Inherits(items', from)
      PROVE  UniqueIn(items)'
  <2> SUFFICES ASSUME NEW a \in DOMAIN items', NEW b \in DOMAIN items', a # b,
                      items'[a].payload = items'[b].payload, Active(items'[a]), Active(items'[b])
               PROVE  replays'[a] + replays'[b] > 0
    BY DEF UniqueIn, Active
  <2>1. /\ a \in DOMAIN from /\ b \in DOMAIN from /\ from[a].payload = from[b].payload
        /\ Active(from[a]) \/ replays[a] > 0
        /\ Active(from[b]) \/ replays[b] > 0
    BY <1>1 DEF Inherits
  <2>2. replays[a] > 0 \/ replays[b] > 0 \/ replays[a] + replays[b] > 0
    BY <1>1, <2>1 DEF UniqueIn
  <2> QED
    BY <1>0, <1>1, <2>1, <2>2
<1>2. ASSUME NEW p \in Payloads, NEW id \in Ids, EnqueueStep(p, id)
      PROVE  UniqueIn(items)'
  <2> SUFFICES ASSUME NEW a \in DOMAIN items', NEW b \in DOMAIN items', a # b,
                      items'[a].payload = items'[b].payload, Active(items'[a]), Active(items'[b])
               PROVE  replays'[a] + replays'[b] > 0
    BY DEF UniqueIn, Active
  <2>1. /\ DOMAIN items' = DOMAIN items \union {id} /\ id \notin DOMAIN items
        /\ items'[id].payload = p /\ replays' = replays
        /\ \A k \in DOMAIN items : items'[k] = items[k]
        /\ \A k \in DOMAIN items : ~(items[k].payload = p /\ Active(items[k]))
    BY <1>2 DEF EnqueueStep, Owned, NewItem, SameHistory, Duplicates
  <2>2. a # id /\ b # id
    BY <2>1
  <2> QED
    BY <2>1, <2>2 DEF UniqueIn
<1>3. UniqueIn(items)'
  BY <1>0, <1>1, <1>2, ItemsInherit
<1>4. disk' = items' \/ disk' = disk
  BY DEF StepKinds, QuietStep, EnqueueStep, PickStep, WorkerRelayStep, WorkerMarkStep, AdminGetStep,
     AdminRelayStep, AdminMarkStep, RestartStep, Saved
<1>5. CASE disk' = items'
  BY <1>3, <1>5 DEF UniqueIn, Active
<1>6. CASE disk' = disk
  <2> SUFFICES ASSUME NEW a \in DOMAIN disk, NEW b \in DOMAIN disk, a # b,
                      disk[a].payload = disk[b].payload, Active(disk[a]), Active(disk[b])
               PROVE  replays'[a] + replays'[b] > 0
    BY <1>3, <1>6 DEF UniqueIn, Active
  <2>1. replays[a] + replays[b] > 0
    BY DEF UniqueIn
  <2> QED
    BY <1>0, <2>1
<1> QED
  BY <1>3, <1>4, <1>5, <1>6

\* Two items with one mail wait in the queue only after the operator replayed one of
\* them, in memory and on the file, whatever fails and restarts.
THEOREM NoDuplicates == Spec => []UniqueActive
<1>1. Init => UniqueIn(items) /\ UniqueIn(disk)
  BY DEF Init, NewFileStore, UniqueIn
<1>2. Base /\ Base' /\ UniqueIn(items) /\ UniqueIn(disk) /\ [Next]_vars
        => UniqueIn(items)' /\ UniqueIn(disk)'
  BY Kinds, UniqueStep DEF Base
<1>3. UniqueIn(items) /\ UniqueIn(disk) => UniqueActive
  BY DEF UniqueIn, UniqueActive
<1> QED
  BY <1>1, <1>2, <1>3, BaseHolds, PTL DEF Spec
-----------------------------------------------------------------------------
\* The attempts an item may have had: the limit, and one more for each replay that
\* is over.
InAdmin(id) == IF id \in AdminHolds THEN 1 ELSE 0
Allowed(id) == MaxRetries + replays[id] - InAdmin(id)

\* The attempt an item that waits in the queue is still to have counts too.
Within(m) ==
    \A id \in DOMAIN m : m[id].attempt + (IF Active(m[id]) THEN 1 ELSE 0) <= Allowed(id)

\* The inductive invariant.  The worker's attempt is on the account of an item in its
\* hands even when the operator has settled that item meanwhile.
Budgeted ==
    MaxRetries > 0 =>
        /\ Within(items) /\ Within(disk)
        /\ \A id \in WorkerHolds : items[id].attempt + 1 <= Allowed(id)

\* What is allowed never shrinks, and a replay that ends adds an attempt.
LEMMA AllowedGrows ==
    ASSUME TypeOK, Owned, StepKinds, NEW k \in Ids
    PROVE  /\ Allowed(k) \in Int /\ Allowed(k) >= MaxRetries
           /\ Allowed(k)' \in Int /\ Allowed(k)' >= Allowed(k)
           /\ AdminMarkStep(k) => Allowed(k)' = Allowed(k) + 1
<1>0. /\ replays[k] \in Nat /\ replays'[k] \in Nat /\ replays'[k] >= replays[k]
      /\ k \in AdminHolds => replays[k] > 0
      /\ MaxRetries \in Nat
  BY ReplaysGrow, FileStoreAssumption DEF Owned
<1>1. CASE k \notin AdminHolds /\ k \in AdminHolds'
  <2>1. PICK id \in Ids : AdminGetStep(id)
    BY <1>1 DEF StepKinds, QuietStep, EnqueueStep, PickStep, WorkerRelayStep, WorkerMarkStep,
       AdminRelayStep, AdminMarkStep, RestartStep, SameAdmin
  <2>2. id = k /\ replays' = Plus1(replays, k) /\ ~AdminMarkStep(k)
    BY <1>1, <2>1 DEF AdminGetStep, AdminMarkStep
  <2>3. replays'[k] = replays[k] + 1
    BY <2>2 DEF Plus1, TypeOK
  <2> QED
    BY <1>0, <1>1, <2>2, <2>3 DEF Allowed, InAdmin
<1>2. CASE ~(k \notin AdminHolds /\ k \in AdminHolds')
  <2>1. Allowed(k) = MaxRetries + replays[k] - InAdmin(k)
        /\ Allowed(k)' = MaxRetries + replays'[k] - InAdmin(k)'
    BY DEF Allowed
  <2>2. /\ InAdmin(k) \in {0, 1} /\ InAdmin(k)' \in {0, 1} /\ InAdmin(k)' <= InAdmin(k)
        /\ InAdmin(k) = 1 => replays[k] > 0
    BY <1>0, <1>2 DEF InAdmin
  <2>3. AdminMarkStep(k) => replays'[k] = replays[k] /\ InAdmin(k) = 1 /\ InAdmin(k)' = 0
    BY DEF AdminMarkStep, SameHistory, InAdmin
  <2> QED
    BY <1>0, <2>1, <2>2, <2>3
<1> QED
  BY <1>1, <1>2

\* What MarkRetry leaves of an item is within the limit or is the attempt it counts.
LEMMA RetryWithin ==
    ASSUME TypeOK, NEW id, MarkedRetry(id), MaxRetries > 0,
           NEW a \in Int, a >= MaxRetries, items[id].attempt + 1 <= a
    PROVE  items'[id].attempt + (IF Active(items'[id]) THEN 1 ELSE 0) <= a
<1>1. items[id].attempt \in Nat /\ MaxRetries \in Nat
  BY FileStoreAssumption DEF MarkedRetry, TypeOK, IsItemMap, Item
<1>2. items'[id].attempt = items[id].attempt + 1
  BY DEF MarkedRetry
<1>3. CASE Exhausted(items[id].attempt + 1)
  BY <1>1, <1>2, <1>3 DEF MarkedRetry, Active
<1>4. CASE ~Exhausted(items[id].attempt + 1)
  BY <1>1, <1>2, <1>4 DEF Exhausted
<1> QED
  BY <1>3, <1>4

\* Each step keeps the attempts within what is allowed.
LEMMA BudgetStep ==
    ASSUME TypeOK, TypeOK', AckedDurable, Owned, StepKinds, Budgeted
    PROVE  Budgeted'
<1> SUFFICES ASSUME MaxRetries > 0
             PROVE  /\ Within(items)' /\ Within(disk)'
                    /\ \A id \in WorkerHolds' : items'[id].attempt + 1 <= Allowed(id)'
  BY DEF Budgeted
<1> DEFINE Spent(item) == item.attempt + (IF Active(item) THEN 1 ELSE 0)
<1>0. /\ DOMAIN items \subseteq Ids /\ DOMAIN disk \subseteq Ids
      /\ DOMAIN items' \subseteq Ids /\ DOMAIN disk' \subseteq Ids
      /\ WorkerHolds \subseteq DOMAIN items /\ MaxRetries \in Nat
  BY FileStoreAssumption DEF TypeOK, IsItemMap, AckedDurable
<1>1. /\ \A k \in DOMAIN items : items[k].attempt \in Nat
      /\ \A k \in DOMAIN disk : disk[k].attempt \in Nat
      /\ \A k \in DOMAIN items' : items'[k].attempt \in Nat
  BY DEF TypeOK, IsItemMap, Item
<1>2. /\ \A k \in DOMAIN items : Spent(items[k]) \in Nat /\ Spent(items[k]) <= Allowed(k)
      /\ \A k \in DOMAIN disk : Spent(disk[k]) \in Nat /\ Spent(disk[k]) <= Allowed(k)
      /\ \A k \in WorkerHolds : items[k].attempt + 1 <= Allowed(k)
  BY <1>1 DEF Budgeted, Within
<1>3. \A k \in Ids : /\ Allowed(k) \in Int /\ Allowed(k) >= MaxRetries
                     /\ Allowed(k)' \in Int /\ Allowed(k)' >= Allowed(k)
                     /\ AdminMarkStep(k) => Allowed(k)' = Allowed(k) + 1
  BY AllowedGrows
<1> DEFINE Good == /\ \A k \in DOMAIN items' : Spent(items'[k]) <= Allowed(k)'
                   /\ \A k \in WorkerHolds' : items'[k].attempt + 1 <= Allowed(k)'
<1>4. ASSUME items' = items, WorkerHolds' = WorkerHolds
      PROVE  Good
  <2>1. ASSUME NEW k \in DOMAIN items
        PROVE  Spent(items'[k]) <= Allowed(k)'
    BY <1>0, <1>2, <1>3, <1>4
  <2>2. ASSUME NEW k \in WorkerHolds
        PROVE  items'[k].attempt + 1 <= Allowed(k)'
    BY <1>0, <1>1, <1>2, <1>3, <1>4
  <2> QED
    BY <1>4, <2>1, <2>2
<1>5. ASSUME NEW p \in Payloads, NEW id \in Ids, EnqueueStep(p, id)
      PROVE  Good
  <2>1. /\ DOMAIN items' = DOMAIN items \union {id} /\ id \notin DOMAIN items
        /\ items'[id].attempt = 0 /\ WorkerHolds' = WorkerHolds
        /\ \A k \in DOMAIN items : items'[k] = items[k]
    BY <1>5 DEF EnqueueStep, Owned, NewItem, SameWorker
  <2>2. Spent(items'[id]) <= Allowed(id)'
    BY <1>0, <1>3, <2>1
  <2>3. ASSUME NEW k \in DOMAIN items
        PROVE  Spent(items'[k]) <= Allowed(k)'
    BY <1>0, <1>2, <1>3, <2>1
  <2>4. ASSUME NEW k \in WorkerHolds
        PROVE  items'[k].attempt + 1 <= Allowed(k)'
    BY <1>0, <1>1, <1>2, <1>3, <2>1
  <2> QED
    BY <2>1, <2>2, <2>3, <2>4
<1>6. ASSUME NEW B \in SUBSET Ids, PickStep(B)
      PROVE  Good
  <2>1. ASSUME NEW k \in DOMAIN items
        PROVE  Spent(items'[k]) <= Allowed(k)'
    <3>1. Spent(items'[k]) = Spent(items[k])
      BY <1>6, <2>1 DEF PickStep, SameBut, Active
    <3> QED
      BY <1>0, <1>2, <1>3, <3>1
  <2>2. ASSUME NEW k \in WorkerHolds'
        PROVE  items'[k].attempt + 1 <= Allowed(k)'
    <3>1. k \in DOMAIN items /\ Active(items'[k])
      BY <1>6 DEF PickStep, Active
    <3> QED
      BY <2>1, <3>1
  <2>3. DOMAIN items' = DOMAIN items
    BY <1>6 DEF PickStep, SameBut
  <2> QED
    BY <2>1, <2>2, <2>3
<1>7. ASSUME NEW id \in Ids, SameBut({id}), WorkerHolds' \subseteq WorkerHolds,
             id \in DOMAIN items, Spent(items'[id]) <= Allowed(id)',
             id \in WorkerHolds' => items'[id].attempt + 1 <= Allowed(id)'
      PROVE  Good
  <2>1. ASSUME NEW k \in DOMAIN items
        PROVE  Spent(items'[k]) <= Allowed(k)'
    <3>1. k # id => items'[k] = items[k]
      BY <1>7 DEF SameBut
    <3> QED
      BY <1>0, <1>2, <1>3, <1>7, <3>1
  <2>2. ASSUME NEW k \in WorkerHolds'
        PROVE  items'[k].attempt + 1 <= Allowed(k)'
    <3>1. k # id => items'[k] = items[k]
      BY <1>0, <1>7 DEF SameBut
    <3> QED
      BY <1>0, <1>1, <1>2, <1>3, <1>7, <3>1
  <2> QED
    BY <1>7, <2>1, <2>2 DEF SameBut
<1>8. ASSUME NEW id \in Ids, WorkerMarkStep(id)
      PROVE  Good
  <2>1. /\ id \in WorkerHolds /\ WorkerHolds' = WorkerHolds \ {id} /\ SameBut({id})
        /\ MarkedDone(id) \/ MarkedRetry(id)
    BY <1>8 DEF WorkerMarkStep, MarkedDone, MarkedRetry
  <2>2. items[id].attempt + 1 <= Allowed(id)'
    BY <1>0, <1>1, <1>2, <1>3, <2>1
  <2>3. Spent(items'[id]) <= Allowed(id)'
    <3>0. items[id].attempt \in Nat /\ Allowed(id)' \in Int /\ Allowed(id)' >= MaxRetries
      BY <1>0, <1>1, <1>3, <2>1
    <3>1. CASE MarkedDone(id)
      BY <2>2, <3>0, <3>1 DEF MarkedDone, Active
    <3>2. CASE MarkedRetry(id)
      BY <2>2, <3>0, <3>2, RetryWithin
    <3> QED
      BY <2>1, <3>1, <3>2
  <2> QED
    BY <1>0, <1>7, <2>1, <2>3
<1>9. ASSUME NEW id \in Ids, AdminMarkStep(id)
      PROVE  Good
  <2>1. /\ id \in DOMAIN items /\ WorkerHolds' = WorkerHolds /\ SameBut({id})
        /\ MarkedDone(id) \/ MarkedRetry(id)
    BY <1>9 DEF AdminMarkStep, MarkedDone, MarkedRetry, SameWorker
  <2>2. /\ items[id].attempt <= Allowed(id) /\ Allowed(id)' = Allowed(id) + 1
        /\ items[id].attempt \in Nat /\ Allowed(id) \in Int /\ Allowed(id) >= MaxRetries
    BY <1>1, <1>2, <1>3, <1>9, <2>1
  <2>3. Spent(items'[id]) <= Allowed(id)'
    <3>1. CASE MarkedDone(id)
      BY <2>2, <3>1 DEF MarkedDone, Active
    <3>2. CASE MarkedRetry(id)
      <4>1. /\ Allowed(id)' \in Int /\ Allowed(id)' >= MaxRetries
            /\ items[id].attempt + 1 <= Allowed(id)'
        BY <1>0, <2>2
      <4> QED
        BY <3>2, <4>1, RetryWithin
    <3> QED
      BY <2>1, <3>1, <3>2
  <2>4. id \in WorkerHolds => items'[id].attempt + 1 <= Allowed(id)'
    BY <1>2, <2>1, <2>2 DEF MarkedDone, MarkedRetry
  <2> QED
    BY <1>7, <2>1, <2>3, <2>4
<1>10. ASSUME RestartStep
       PROVE  Good
  <2>1. ASSUME NEW k \in DOMAIN disk
        PROVE  Spent(items'[k]) <= Allowed(k)'
    <3>1. Spent(items'[k]) = Spent(disk[k])
      BY <1>10 DEF RestartStep
    <3> QED
      BY <1>0, <1>2, <1>3, <3>1
  <2> QED
    BY <1>10, <2>1 DEF RestartStep
<1>11. Good
  BY <1>4, <1>5, <1>6, <1>8, <1>9, <1>10 DEF StepKinds, QuietStep, WorkerRelayStep, AdminGetStep,
     AdminRelayStep, SameWorker
<1>12. \A k \in DOMAIN disk' : Spent(disk'[k]) <= Allowed(k)'
  <2>1. disk' = items' \/ disk' = disk
    BY DEF StepKinds, QuietStep, EnqueueStep, PickStep, WorkerRelayStep, WorkerMarkStep, AdminGetStep,
       AdminRelayStep, AdminMarkStep, RestartStep, Saved
  <2>2. CASE disk' = disk
    BY <1>0, <1>2, <1>3, <2>2
  <2> QED
    BY <1>11, <2>1, <2>2
<1> QED
  BY <1>11, <1>12 DEF Within, Active

\* The worker alone never takes an item past DLQ_MAX_RETRIES attempts, and each replay
\* by the operator adds one at most, whatever the interleaving, the failed writes and
\* the restarts.
THEOREM AttemptsBounded == Spec => []RetryBudget
<1>1. Init => Budgeted
  BY DEF Init, NewFileStore, WorkerInit, Budgeted, Within, WorkerHolds
<1>2. Base /\ Base' /\ Budgeted /\ [Next]_vars => Budgeted'
  BY Kinds, BudgetStep DEF Base
<1>3. Base /\ Budgeted => RetryBudget
  <2> SUFFICES ASSUME Base, Budgeted, MaxRetries > 0, NEW id \in DOMAIN items
               PROVE  items[id].attempt <= MaxRetries + replays[id]
    BY DEF RetryBudget
  <2>1. items[id].attempt \in Nat /\ replays[id] \in Nat /\ MaxRetries \in Nat
    BY FileStoreAssumption DEF Base, TypeOK, IsItemMap, Item
  <2>2. items[id].attempt + (IF Active(items[id]) THEN 1 ELSE 0) <= Allowed(id)
    BY DEF Budgeted, Within
  <2> QED
    BY <2>1, <2>2 DEF Allowed, InAdmin
<1> QED
  BY <1>1, <1>2, <1>3, BaseHolds, PTL DEF Spec
-----------------------------------------------------------------------------
\* A relay by the worker may yet deliver id: the item does not exist yet, waits in the
\* queue or is in the worker's hands, and the relay in course has not succeeded.
MayDeliver(id) ==
    \/ id \notin issued
    \/ /\ id \notin WorkerDone
       /\ \/ id \in WorkerHolds
          \/ id \in DOMAIN items /\ Active(items[id])

WorkerDue(id) == IF MayDeliver(id) THEN 1 ELSE 0
AdminDue(id)  == IF id \in AdminHolds /\ id \notin AdminDone THEN 1 ELSE 0

\* The inductive invariant: a delivery that may yet come is paid for as one that came.
Accounted == \A id \in Ids : deliveries[id] + WorkerDue(id) + AdminDue(id) <= 1 + crashes + replays[id]

\* A relay adds a delivery of the item it relays, if it succeeds, and nothing else.
LEMMA ObservedDelivery ==
    ASSUME TypeOK, NEW id \in Ids, NEW outcome \in {"ok", "err"}, Observe(id, outcome), NEW k \in Ids
    PROVE  deliveries'[k] = deliveries[k] + (IF k = id /\ outcome = "ok" THEN 1 ELSE 0)
<1>1. deliveries \in [Ids -> Nat]
  BY DEF TypeOK
<1>2. CASE outcome = "ok"
  BY <1>1, <1>2 DEF Observe, Plus1
<1>3. CASE outcome = "err"
  BY <1>1, <1>3 DEF Observe
<1> QED
  BY <1>2, <1>3

\* No step adds to what an item may be delivered without an end of the process or a
\* replay to account for it.
LEMMA AccountStep ==
    ASSUME TypeOK, TypeOK', AckedDurable, Owned, StepKinds, Accounted
    PROVE  Accounted'
<1> SUFFICES ASSUME NEW k \in Ids
             PROVE  deliveries'[k] + WorkerDue(k)' + AdminDue(k)' <= 1 + crashes' + replays'[k]
  BY DEF Accounted
<1>0. /\ deliveries[k] \in Nat /\ deliveries'[k] \in Nat /\ crashes \in Nat /\ crashes' \in Nat
      /\ replays[k] \in Nat /\ replays'[k] \in Nat
  BY DEF TypeOK
<1>1. /\ WorkerDue(k) \in {0, 1} /\ WorkerDue(k)' \in {0, 1}
      /\ AdminDue(k) \in {0, 1} /\ AdminDue(k)' \in {0, 1}
  BY DEF WorkerDue, AdminDue
<1>2. deliveries[k] + WorkerDue(k) + AdminDue(k) <= 1 + crashes + replays[k]
  BY DEF Accounted
<1>3. /\ WorkerHolds \subseteq DOMAIN items /\ AdminHolds \subseteq DOMAIN items
      /\ DOMAIN items \subseteq issued
  BY DEF AckedDurable, Owned
<1>4. /\ MayDeliver(k)' => WorkerDue(k)' = 1
      /\ ~MayDeliver(k)' => WorkerDue(k)' = 0
      /\ MayDeliver(k) => WorkerDue(k) = 1
      /\ ~MayDeliver(k) => WorkerDue(k) = 0
  BY DEF WorkerDue
<1>5. ASSUME SameAdmin, SameHistory, MayDeliver(k)' => MayDeliver(k)
      PROVE  deliveries'[k] + WorkerDue(k)' + AdminDue(k)' <= 1 + crashes' + replays'[k]
  <2>1. AdminDue(k)' = AdminDue(k) /\ WorkerDue(k)' <= WorkerDue(k)
    BY <1>1, <1>4, <1>5 DEF AdminDue, SameAdmin
  <2> QED
    BY <1>0, <1>1, <1>2, <1>5, <2>1 DEF SameHistory
<1>6. CASE QuietStep
  BY <1>5, <1>6 DEF QuietStep, MayDeliver, SameWorker, Active
<1>7. ASSUME NEW p \in Payloads, NEW id \in Ids, EnqueueStep(p, id)
      PROVE  MayDeliver(k)' => MayDeliver(k)
  BY <1>3, <1>7 DEF EnqueueStep, MayDeliver, SameWorker, Active
<1>8. ASSUME NEW B \in SUBSET Ids, PickStep(B)
      PROVE  MayDeliver(k)' => MayDeliver(k)
  BY <1>3, <1>8 DEF PickStep, SameBut, MayDeliver, Active
<1>9. ASSUME NEW id \in Ids, NEW outcome \in {"ok", "err"}, WorkerRelayStep(id, outcome)
      PROVE  deliveries'[k] + WorkerDue(k)' + AdminDue(k)' <= 1 + crashes' + replays'[k]
  <2>1. /\ crashes' = crashes /\ replays' = replays /\ AdminDue(k)' = AdminDue(k)
        /\ deliveries'[k] = deliveries[k] + (IF k = id /\ outcome = "ok" THEN 1 ELSE 0)
    BY <1>9, ObservedDelivery DEF WorkerRelayStep, SameAdmin, AdminDue
  <2>2. MayDeliver(k)' => MayDeliver(k)
    BY <1>9 DEF WorkerRelayStep, MayDeliver, Active
  <2>3. k = id /\ outcome = "ok" => MayDeliver(k) /\ ~MayDeliver(k)'
    BY <1>3, <1>9 DEF WorkerRelayStep, MayDeliver
  <2>4. WorkerDue(k)' + (IF k = id /\ outcome = "ok" THEN 1 ELSE 0) <= WorkerDue(k)
    BY <1>1, <1>4, <2>2, <2>3
  <2> QED
    BY <1>0, <1>1, <1>2, <2>1, <2>4
<1>10. ASSUME NEW id \in Ids, WorkerMarkStep(id)
       PROVE  MayDeliver(k)' => MayDeliver(k)
  <2>1. CASE WorkerDone = {id} /\ MarkedDone(id)
    BY <1>3, <1>10, <2>1 DEF WorkerMarkStep, MarkedDone, SameBut, MayDeliver, Active
  <2>2. CASE WorkerDone = {} /\ MarkedRetry(id)
    BY <1>3, <1>10, <2>2 DEF WorkerMarkStep, MarkedRetry, SameBut, MayDeliver, Active
  <2> QED
    BY <1>10, <2>1, <2>2 DEF WorkerMarkStep
<1>11. ASSUME NEW id \in Ids, AdminGetStep(id)
       PROVE  deliveries'[k] + WorkerDue(k)' + AdminDue(k)' <= 1 + crashes' + replays'[k]
  <2>1. /\ crashes' = crashes /\ deliveries' = deliveries
        /\ MayDeliver(k)' <=> MayDeliver(k)
    BY <1>11 DEF AdminGetStep, SameWorker, MayDeliver, Active
  <2>2. replays'[k] = replays[k] + (IF k = id THEN 1 ELSE 0)
    <3>1. replays \in [Ids -> Nat] /\ replays' = Plus1(replays, id)
      BY <1>11 DEF AdminGetStep, TypeOK
    <3> QED
      BY <3>1 DEF Plus1
  <2>3. AdminDue(k)' = (IF k = id THEN 1 ELSE 0) /\ AdminDue(k) = 0
    BY <1>11 DEF AdminGetStep, AdminDue
  <2> QED
    BY <1>0, <1>1, <1>2, <1>4, <2>1, <2>2, <2>3
<1>12. ASSUME NEW id \in Ids, NEW outcome \in {"ok", "err"}, AdminRelayStep(id, outcome)
       PROVE  deliveries'[k] + WorkerDue(k)' + AdminDue(k)' <= 1 + crashes' + replays'[k]
  <2>1. /\ crashes' = crashes /\ replays' = replays
        /\ deliveries'[k] = deliveries[k] + (IF k = id /\ outcome = "ok" THEN 1 ELSE 0)
        /\ MayDeliver(k)' <=> MayDeliver(k)
    BY <1>12, ObservedDelivery DEF AdminRelayStep, SameWorker, MayDeliver, Active
  <2>2. AdminDue(k)' + (IF k = id /\ outcome = "ok" THEN 1 ELSE 0) <= AdminDue(k)
    BY <1>12 DEF AdminRelayStep, AdminDue
  <2> QED
    BY <1>0, <1>1, <1>2, <1>4, <2>1, <2>2
<1>13. ASSUME NEW id \in Ids, AdminMarkStep(id)
       PROVE  deliveries'[k] + WorkerDue(k)' + AdminDue(k)' <= 1 + crashes' + replays'[k]
  <2>1. /\ SameHistory /\ AdminDue(k)' = 0
        /\ k # id => (MayDeliver(k)' => MayDeliver(k))
    BY <1>3, <1>13
       DEF AdminMarkStep, SameWorker, AdminDue, MarkedDone, MarkedRetry, SameBut, MayDeliver, Active
  <2>2. CASE AdminDone = {id} /\ MarkedDone(id)
    <3>1. MayDeliver(k)' => MayDeliver(k)
      BY <1>3, <1>13, <2>1, <2>2 DEF AdminMarkStep, SameWorker, MarkedDone, SameBut, MayDeliver, Active
    <3> QED
      BY <1>0, <1>1, <1>2, <1>4, <2>1, <3>1 DEF SameHistory
  <2>3. CASE AdminDone = {} /\ MarkedRetry(id)
    <3>1. k = id => AdminDue(k) = 1
      BY <1>13, <2>3 DEF AdminMarkStep, AdminDue
    <3> QED
      BY <1>0, <1>1, <1>2, <1>4, <2>1, <3>1 DEF SameHistory
  <2> QED
    BY <1>13, <2>2, <2>3 DEF AdminMarkStep
<1>14. CASE RestartStep
  <2>1. /\ crashes' = crashes + 1 /\ replays' = replays /\ deliveries' = deliveries
        /\ AdminDue(k)' = 0
    BY <1>14 DEF RestartStep, AdminDue
  <2> QED
    BY <1>0, <1>1, <1>2, <2>1
<1> QED
  BY <1>5, <1>6, <1>7, <1>8, <1>9, <1>10, <1>11, <1>12, <1>13, <1>14
     DEF StepKinds, EnqueueStep, PickStep, WorkerMarkStep

\* Relays of an item succeed once, and once more at most for each end of the process
\* and for each replay by the operator, at any interleaving.
THEOREM DeliveriesBounded == Spec => []DeliveryBound
<1>1. Init => Accounted
  <2> SUFFICES ASSUME Init, NEW id \in Ids
               PROVE  deliveries[id] + WorkerDue(id) + AdminDue(id) <= 1 + crashes + replays[id]
    BY DEF Accounted
  <2>1. deliveries[id] = 0 /\ replays[id] = 0 /\ crashes = 0
    BY DEF Init
  <2>2. WorkerDue(id) \in {0, 1} /\ AdminDue(id) = 0
    BY DEF Init, AdminInit, AdminHolds, WorkerDue, AdminDue
  <2> QED
    BY <2>1, <2>2
<1>2. Base /\ Base' /\ Accounted /\ [Next]_vars => Accounted'
  BY Kinds, AccountStep DEF Base
<1>3. Base /\ Accounted => DeliveryBound
  <2> SUFFICES ASSUME Base, Accounted, NEW id \in Ids
               PROVE  deliveries[id] <= 1 + crashes + replays[id]
    BY DEF DeliveryBound
  <2>1. deliveries[id] \in Nat /\ crashes \in Nat /\ replays[id] \in Nat
    BY DEF Base, TypeOK
  <2>2. WorkerDue(id) \in {0, 1} /\ AdminDue(id) \in {0, 1}
    BY DEF WorkerDue, AdminDue
  <2>3. deliveries[id] + WorkerDue(id) + AdminDue(id) <= 1 + crashes + replays[id]
    BY DEF Accounted
  <2> QED
    BY <2>1, <2>2, <2>3
<1> QED
  BY <1>1, <1>2, <1>3, BaseHolds, PTL DEF Spec
-----------------------------------------------------------------------------
\* The copies of an attempt count that are taken before a relay and used after it:
\* none is ahead of the map in memory, and the worker's is behind only for an item
\* the operator replayed.
Copies ==
    /\ \A id \in DOMAIN disk : disk[id].attempt <= items[id].attempt
    /\ \A i \in DOMAIN wBatch :
          /\ wBatch[i].attempt <= items[wBatch[i].id].attempt
          /\ replays[wBatch[i].id] = 0 => wBatch[i].attempt = items[wBatch[i].id].attempt
    /\ \A id \in AdminHolds : aAttempt <= items[id].attempt

\* But for a restart, attempt counts grow, and only where an item is marked.
LEMMA AttemptsGrow ==
    ASSUME TypeOK, AckedDurable, Owned, StepKinds, ~RestartStep, NEW id \in DOMAIN items
    PROVE  /\ id \in DOMAIN items' /\ items'[id].attempt >= items[id].attempt
           /\ items'[id].attempt # items[id].attempt => WorkerMarkStep(id) \/ AdminMarkStep(id)
<1>0. items[id].attempt \in Nat /\ id \in issued
  BY DEF TypeOK, IsItemMap, Item, Owned
<1>1. ASSUME NEW p \in Payloads, NEW k \in Ids, EnqueueStep(p, k)
      PROVE  id \in DOMAIN items' /\ items'[id] = items[id]
  BY <1>0, <1>1 DEF EnqueueStep
<1>2. ASSUME NEW B \in SUBSET Ids, PickStep(B)
      PROVE  id \in DOMAIN items' /\ items'[id].attempt = items[id].attempt
  BY <1>2 DEF PickStep, SameBut
<1>3. ASSUME NEW k \in Ids, WorkerMarkStep(k)
      PROVE  /\ id \in DOMAIN items' /\ items'[id].attempt >= items[id].attempt
             /\ items'[id].attempt # items[id].attempt => WorkerMarkStep(id)
  BY <1>0, <1>3 DEF WorkerMarkStep, MarkedDone, MarkedRetry, SameBut
<1>4. ASSUME NEW k \in Ids, AdminMarkStep(k)
      PROVE  /\ id \in DOMAIN items' /\ items'[id].attempt >= items[id].attempt
             /\ items'[id].attempt # items[id].attempt => AdminMarkStep(id)
  BY <1>0, <1>4 DEF AdminMarkStep, MarkedDone, MarkedRetry, SameBut
<1>5. CASE UNCHANGED items
  BY <1>0, <1>5
<1> QED
  BY <1>0, <1>1, <1>2, <1>3, <1>4, <1>5
     DEF StepKinds, QuietStep, WorkerRelayStep, AdminGetStep, AdminRelayStep

\* How a step changes the copies in hand: the worker takes copies of what it picks,
\* keeps the ones it has or lets some go; the operator's is taken by Get.
LEMMA CopiesMove ==
    ASSUME TypeOK, Idle, Distinct, [Next]_vars
    PROVE  /\ \/ \A i \in DOMAIN wBatch' : \E j \in DOMAIN wBatch : wBatch'[i] = wBatch[j]
              \/ /\ \A i \in DOMAIN wBatch' :
                       /\ wBatch'[i].id \in DOMAIN items
                       /\ wBatch'[i].attempt = items[wBatch'[i].id].attempt
                 /\ WorkerHolds = {} /\ AdminHolds' = AdminHolds
           /\ \/ AdminHolds' \subseteq AdminHolds /\ aAttempt' = aAttempt
              \/ AdminHolds' = {}
              \/ UNCHANGED items /\ \A id \in AdminHolds' : aAttempt' = items[id].attempt
<1>1. ASSUME NEW batch \in DueBatches(BatchSize, now), NEW ok \in BOOLEAN, DoWorkerPick(batch, ok)
      PROVE  /\ \A i \in DOMAIN wBatch' :
                   /\ wBatch'[i].id \in DOMAIN items
                   /\ wBatch'[i].attempt = items[wBatch'[i].id].attempt
             /\ WorkerHolds = {}
             /\ UNCHANGED <<AdminHolds, aAttempt>>
  <2>1. batch \in Seq(DOMAIN items)
    BY DueBatchType, WorkerAssumption
  <2>2. WorkerHolds = {} /\ UNCHANGED <<AdminHolds, aAttempt>>
    BY <1>1 DEF DoWorkerPick, WorkerPick, WorkerHolds, adminVars, AdminHolds
  <2>3. CASE ok
    <3>1. wBatch' = [i \in DOMAIN batch |-> [id |-> batch[i], attempt |-> items[batch[i]].attempt]]
      BY <1>1, <2>3 DEF DoWorkerPick, WorkerPick
    <3>2. \A i \in DOMAIN batch : batch[i] \in DOMAIN items
      BY <2>1
    <3> QED
      BY <2>2, <3>1, <3>2
  <2>4. CASE ~ok
    BY <1>1, <2>2, <2>4 DEF DoWorkerPick, WorkerPick
  <2> QED
    BY <2>3, <2>4
<1>2. ASSUME NEW jitter \in 0 .. Jitter - 1, NEW ok \in BOOLEAN, DoWorkerMark(jitter, ok)
      PROVE  /\ \A i \in DOMAIN wBatch' : \E j \in DOMAIN wBatch : wBatch'[i] = wBatch[j]
             /\ UNCHANGED <<AdminHolds, aAttempt>>
  <2>1. wBatch \in Seq(Picked) /\ wBatch # <<>> /\ wBatch' = Tail(wBatch)
    BY <1>2 DEF DoWorkerMark, WorkerMark, TypeOK
  <2>2. \A i \in DOMAIN wBatch' : i + 1 \in DOMAIN wBatch /\ wBatch'[i] = wBatch[i + 1]
    BY <2>1, TailRange
  <2> QED
    BY <1>2, <2>2 DEF DoWorkerMark, adminVars, AdminHolds
<1>3. CASE Restart
  BY <1>3 DEF Restart, AdminHolds
<1>4. CASE DoAdminGet
  <2>1. wBatch' = wBatch /\ UNCHANGED items
    BY <1>4 DEF DoAdminGet, AdminGet, workerVars, storeVars
  <2>2. \/ AdminHolds' = {}
        \/ \A id \in AdminHolds' : aAttempt' = items[id].attempt
    BY <1>4 DEF DoAdminGet, AdminGet, AdminHolds
  <2> QED
    BY <2>1, <2>2
<1>5. CASE Command
  <2>1. wBatch' = wBatch /\ aStep' = "get"
    BY <1>5 DEF Command, workerVars, Replay, ReplayBatch, Idle
  <2>2. AdminHolds' = {}
    BY <2>1 DEF AdminHolds
  <2> QED
    BY <2>1, <2>2
<1>6. ASSUME NEW outcome \in {"ok", "err"}, DoAdminRelay(outcome)
      PROVE  wBatch' = wBatch /\ AdminHolds' = AdminHolds /\ aAttempt' = aAttempt
  BY <1>6 DEF DoAdminRelay, AdminRelay, workerVars, AdminHolds
<1>7. ASSUME NEW ok \in BOOLEAN, DoAdminMark(ok)
      PROVE  wBatch' = wBatch /\ AdminHolds' = {}
  BY <1>7 DEF DoAdminMark, AdminMark, workerVars, AdminHolds
<1>8. ASSUME NEW p \in Payloads, NEW id \in Ids, NEW ok \in BOOLEAN, SessionEnqueue(p, id, ok)
      PROVE  wBatch' = wBatch /\ AdminHolds' = AdminHolds /\ aAttempt' = aAttempt
  BY <1>8 DEF SessionEnqueue, workerVars, adminVars, AdminHolds
<1>9. ASSUME NEW outcome \in {"ok", "err"}, DoWorkerRelay(outcome)
      PROVE  wBatch' = wBatch /\ AdminHolds' = AdminHolds /\ aAttempt' = aAttempt
  BY <1>9 DEF DoWorkerRelay, WorkerRelay, adminVars, AdminHolds
<1>10. CASE Tick \/ UNCHANGED vars
  <2>1. wBatch' = wBatch /\ AdminHolds' = AdminHolds /\ aAttempt' = aAttempt
    BY <1>10 DEF Tick, vars, workerVars, adminVars, AdminHolds
  <2> QED
    BY <2>1
<1> QED
  BY <1>1, <1>2, <1>3, <1>4, <1>5, <1>6, <1>7, <1>8, <1>9, <1>10, NextCases

\* Each step keeps the copies behind the map.
LEMMA CopiesStep ==
    ASSUME Base, Base', Copies, StepKinds, [Next]_vars
    PROVE  Copies'
<1>0. /\ TypeOK /\ TypeOK' /\ AckedDurable /\ Owned /\ AckedDurable'
      /\ Idle /\ Distinct
      /\ DOMAIN disk \subseteq DOMAIN items /\ DOMAIN disk' \subseteq DOMAIN items'
      /\ WorkerHolds \subseteq DOMAIN items /\ AdminHolds \subseteq DOMAIN items
      /\ WorkerHolds' \subseteq DOMAIN items' /\ AdminHolds' \subseteq DOMAIN items'
      /\ DOMAIN items \subseteq Ids
  BY DEF Base, AckedDurable, TypeOK, IsItemMap
<1>1. /\ \A id \in DOMAIN items : items[id].attempt \in Nat
      /\ \A id \in DOMAIN items' : items'[id].attempt \in Nat
      /\ \A id \in DOMAIN disk : disk[id].attempt \in Nat
      /\ \A i \in DOMAIN wBatch : wBatch[i].attempt \in Nat /\ wBatch[i].id \in WorkerHolds
      /\ \A i \in DOMAIN wBatch' : wBatch'[i].id \in WorkerHolds'
      /\ aAttempt \in Nat
  <2>1. /\ \A id \in DOMAIN items : items[id].attempt \in Nat
        /\ \A id \in DOMAIN items' : items'[id].attempt \in Nat
        /\ \A id \in DOMAIN disk : disk[id].attempt \in Nat
        /\ aAttempt \in Nat
    BY <1>0 DEF TypeOK, IsItemMap, Item
  <2>2. \A i \in DOMAIN wBatch : wBatch[i].attempt \in Nat
    <3>1. wBatch \in Seq(Picked)
      BY <1>0 DEF TypeOK
    <3>2. \A i \in DOMAIN wBatch : wBatch[i] \in Picked
      BY <3>1
    <3> QED
      BY <3>2 DEF Picked
  <2>3. /\ \A i \in DOMAIN wBatch : wBatch[i].id \in WorkerHolds
        /\ \A i \in DOMAIN wBatch' : wBatch'[i].id \in WorkerHolds'
    BY DEF WorkerHolds
  <2> QED
    BY <2>1, <2>2, <2>3
<1>2. CASE RestartStep
  <2>1. WorkerHolds' = {} /\ AdminHolds' = {} /\ disk' = disk
        /\ \A id \in DOMAIN disk : items'[id].attempt = disk[id].attempt
    BY <1>2 DEF RestartStep
  <2> QED
    BY <1>1, <2>1 DEF Copies
<1>3. CASE ~RestartStep
  <2>1. \A id \in DOMAIN items :
           /\ id \in DOMAIN items' /\ items'[id].attempt >= items[id].attempt
           /\ items'[id].attempt # items[id].attempt => WorkerMarkStep(id) \/ AdminMarkStep(id)
    BY <1>0, <1>3, AttemptsGrow
  <2>2. \A id \in DOMAIN disk' : disk'[id].attempt <= items'[id].attempt
    <3>1. disk' = items' \/ disk' = disk
      BY DEF StepKinds, QuietStep, EnqueueStep, PickStep, WorkerRelayStep, WorkerMarkStep, AdminGetStep,
         AdminRelayStep, AdminMarkStep, RestartStep, Saved
    <3>2. CASE disk' = items'
      BY <1>1, <3>2
    <3>3. CASE disk' = disk
      BY <1>0, <1>1, <2>1, <3>3 DEF Copies
    <3> QED
      BY <3>1, <3>2, <3>3
  <2>3. \A id \in AdminHolds' : aAttempt' <= items'[id].attempt
    <3>1. CASE AdminHolds' \subseteq AdminHolds /\ aAttempt' = aAttempt
      BY <1>0, <1>1, <2>1, <3>1 DEF Copies
    <3>2. CASE AdminHolds' = {}
      BY <3>2
    <3>3. CASE UNCHANGED items /\ \A id \in AdminHolds' : aAttempt' = items[id].attempt
      BY <1>0, <1>1, <3>3
    <3> QED
      BY <1>0, <3>1, <3>2, <3>3, CopiesMove
  <2>4. ASSUME NEW i \in DOMAIN wBatch'
        PROVE  /\ wBatch'[i].attempt <= items'[wBatch'[i].id].attempt
               /\ replays'[wBatch'[i].id] = 0 => wBatch'[i].attempt = items'[wBatch'[i].id].attempt
    <3> DEFINE id == wBatch'[i].id
    <3>0. id \in WorkerHolds' /\ ~WorkerMarkStep(id)
      BY <1>1 DEF WorkerMarkStep
    <3>1. id \in Ids => replays'[id] \in Nat /\ replays[id] \in Nat /\ replays'[id] >= replays[id]
      BY <1>0, ReplaysGrow
    <3>2. id \in DOMAIN items /\ AdminMarkStep(id) => replays[id] > 0
      BY <1>0 DEF AdminMarkStep, Owned
    <3>3. CASE \E j \in DOMAIN wBatch : wBatch'[i] = wBatch[j]
      <4>1. PICK j \in DOMAIN wBatch : wBatch'[i] = wBatch[j]
        BY <3>3
      <4>2. /\ id \in DOMAIN items /\ wBatch'[i].attempt \in Nat
            /\ wBatch'[i].attempt <= items[id].attempt
            /\ replays[id] = 0 => wBatch'[i].attempt = items[id].attempt
        BY <1>0, <1>1, <4>1 DEF Copies
      <4> HIDE DEF id
      <4>3. items'[id].attempt >= items[id].attempt /\ items[id].attempt \in Nat /\ items'[id].attempt \in Nat
        BY <1>1, <2>1, <4>2
      <4>4. replays'[id] = 0 => items'[id].attempt = items[id].attempt /\ replays[id] = 0
        BY <1>0, <2>1, <3>0, <3>1, <3>2, <4>2
      <4>5. /\ wBatch'[i].attempt <= items'[id].attempt
            /\ replays'[id] = 0 => wBatch'[i].attempt = items'[id].attempt
        BY <4>2, <4>3, <4>4
      <4> QED
        BY <4>5 DEF id
    <3>4. CASE /\ id \in DOMAIN items /\ wBatch'[i].attempt = items[id].attempt
               /\ WorkerHolds = {} /\ AdminHolds' = AdminHolds
      <4>1. ~AdminMarkStep(id)
        BY <3>4 DEF AdminMarkStep
      <4>2. items'[id].attempt = items[id].attempt
        BY <2>1, <3>0, <3>4, <4>1
      <4> QED
        BY <1>1, <3>4, <4>2
    <3> HIDE DEF id
    <3>5. \/ \E j \in DOMAIN wBatch : wBatch'[i] = wBatch[j]
          \/ /\ id \in DOMAIN items /\ wBatch'[i].attempt = items[id].attempt
             /\ WorkerHolds = {} /\ AdminHolds' = AdminHolds
      BY <1>0, CopiesMove DEF id
    <3> QED
      BY <3>3, <3>4, <3>5 DEF id
  <2> QED
    BY <2>2, <2>3, <2>4 DEF Copies
<1> QED
  BY <1>2, <1>3

\* The retry time MarkRetry stores is the one its caller computed.
LEMMA MarkRetryTime ==
    ASSUME TypeOK, NEW k \in Ids, NEW next, NEW ok, MarkRetry(k, next, ok),
           NEW id \in DOMAIN items, items'[id].attempt > items[id].attempt,
           items'[id].status = "pending"
    PROVE  id = k /\ items'[id].nextRetryAt = next /\ items'[id].attempt = items[id].attempt + 1
<1>1. items' = [items EXCEPT ![k] = Retried(items[k], next)] /\ items[id].attempt \in Nat
  BY DEF MarkRetry, TypeOK, IsItemMap, Item
<1>2. id = k
  BY <1>1
<1>3. items'[id] = Retried(items[id], next)
  BY <1>1, <1>2
<1> QED
  BY <1>2, <1>3 DEF Retried

\* Only MarkRetry adds an attempt.
LEMMA OnlyMarksCount ==
    ASSUME Base, Copies, Next, NEW id \in DOMAIN items, id \in DOMAIN items',
           items'[id].attempt > items[id].attempt
    PROVE  \/ \E jitter \in 0 .. Jitter - 1, ok \in BOOLEAN : DoWorkerMark(jitter, ok)
           \/ \E ok \in BOOLEAN : DoAdminMark(ok)
<1>0. TypeOK /\ Owned /\ items[id].attempt \in Nat /\ id \in issued
  BY DEF Base, TypeOK, IsItemMap, Item, Owned
<1>1. ASSUME NEW p \in Payloads, NEW k \in Ids, NEW ok \in BOOLEAN, SessionEnqueue(p, k, ok)
      PROVE  FALSE
  BY <1>0, <1>1 DEF SessionEnqueue, Enqueue, EnqueueDuplicate, EnqueueNew, Put
<1>2. ASSUME NEW batch \in DueBatches(BatchSize, now), NEW ok \in BOOLEAN, DoWorkerPick(batch, ok)
      PROVE  FALSE
  <2>1. items' = WithStatus(ToSet(batch), "processing") /\ items[id] \in Item
    BY <1>0, <1>2 DEF DoWorkerPick, WorkerPick, PickDue, TypeOK, IsItemMap
  <2>2. items'[id].attempt = items[id].attempt
    BY <2>1 DEF WithStatus, Item
  <2> QED
    BY <1>0, <2>2
<1>3. CASE Restart
  <2>1. items' = Loaded(disk) /\ id \in DOMAIN disk /\ disk[id] \in Item /\ disk[id].attempt \in Nat
    BY <1>0, <1>3 DEF Restart, load, Loaded, TypeOK, IsItemMap, Item
  <2>2. items'[id].attempt = disk[id].attempt
    BY <2>1 DEF Loaded, Item
  <2> QED
    BY <1>0, <2>1, <2>2 DEF Copies
<1>4. ASSUME UNCHANGED items
      PROVE  FALSE
  BY <1>0, <1>4
<1> QED
  BY <1>1, <1>2, <1>3, <1>4, NextCases DEF DoWorkerRelay, WorkerRelay, Command, Replay, ReplayBatch,
     DoAdminGet, AdminGet, DoAdminRelay, AdminRelay, Tick, storeVars

\* The wait that is stored with an attempt count is the one for that count, or for an
\* earlier one of an item the operator replayed.
LEMMA WaitStep ==
    ASSUME Base, Copies, Next, NEW id \in DOMAIN items, id \in DOMAIN items',
           items'[id].attempt > items[id].attempt, items'[id].status = "pending"
    PROVE  \E n \in 1 .. items'[id].attempt :
              /\ replays[id] = 0 => n = items'[id].attempt
              /\ items'[id].nextRetryAt - now - nextDelay(n, BaseDelay, MaxDelay) \in 0 .. Jitter - 1
<1>0. TypeOK /\ Owned /\ items[id].attempt \in Nat /\ now \in Nat /\ Jitter \in Nat \ {0}
  BY WorkerAssumption DEF Base, TypeOK, IsItemMap, Item
<1>1. ASSUME NEW a \in Nat, a <= items[id].attempt, replays[id] = 0 => a = items[id].attempt,
             NEW j \in 0 .. Jitter - 1, items'[id].attempt = items[id].attempt + 1,
             items'[id].nextRetryAt = now + (nextDelay(a + 1, BaseDelay, MaxDelay) + j)
      PROVE  \E n \in 1 .. items'[id].attempt :
                /\ replays[id] = 0 => n = items'[id].attempt
                /\ items'[id].nextRetryAt - now - nextDelay(n, BaseDelay, MaxDelay) \in 0 .. Jitter - 1
  <2>1. nextDelay(a + 1, BaseDelay, MaxDelay) \in Nat
    BY DelayType, WorkerAssumption
  <2>2. items'[id].nextRetryAt - now - nextDelay(a + 1, BaseDelay, MaxDelay) = j
    BY <1>0, <1>1, <2>1
  <2>3. a + 1 \in 1 .. items'[id].attempt /\ (replays[id] = 0 => a + 1 = items'[id].attempt)
    BY <1>0, <1>1
  <2> QED
    BY <1>1, <2>2, <2>3
<1>2. ASSUME NEW jitter \in 0 .. Jitter - 1, NEW ok \in BOOLEAN, DoWorkerMark(jitter, ok)
      PROVE  \E n \in 1 .. items'[id].attempt :
                /\ replays[id] = 0 => n = items'[id].attempt
                /\ items'[id].nextRetryAt - now - nextDelay(n, BaseDelay, MaxDelay) \in 0 .. Jitter - 1
  <2>1. 1 \in DOMAIN wBatch /\ wBatch[1].id \in Ids /\ wBatch[1].attempt \in Nat
    <3>1. wBatch \in Seq(Picked) /\ wBatch # <<>>
      BY <1>0, <1>2 DEF DoWorkerMark, WorkerMark, TypeOK
    <3>2. 1 \in DOMAIN wBatch /\ wBatch[1] \in Picked
      BY <3>1
    <3> QED
      BY <3>2 DEF Picked
  <2> DEFINE k == wBatch[1].id
             a == wBatch[1].attempt
  <2>2. \/ MarkDone(k, ok)
        \/ MarkRetry(k, now + WorkerDelay(a, jitter), ok)
    BY <1>2 DEF DoWorkerMark, WorkerMark, WorkerStore
  <2>3. ~MarkDone(k, ok)
    <3>1. MarkDone(k, ok) => MarkedDone(k)
      BY <1>0, MarkEffect
    <3> QED
      BY <1>0, <3>1 DEF MarkedDone, SameBut
  <2>4. id = k /\ items'[id].nextRetryAt = now + WorkerDelay(a, jitter)
        /\ items'[id].attempt = items[id].attempt + 1
    <3> HIDE DEF a
    <3> QED
      BY <1>0, <2>1, <2>2, <2>3, MarkRetryTime
  <2>5. a <= items[id].attempt /\ (replays[id] = 0 => a = items[id].attempt)
    BY <2>1, <2>4 DEF Copies
  <2>6. items'[id].nextRetryAt = now + (nextDelay(a + 1, BaseDelay, MaxDelay) + jitter)
    BY <2>4 DEF WorkerDelay
  <2> HIDE DEF a, k
  <2> QED
    BY <1>1, <2>1, <2>4, <2>5, <2>6 DEF a
<1>3. ASSUME NEW ok \in BOOLEAN, DoAdminMark(ok)
      PROVE  \E n \in 1 .. items'[id].attempt :
                /\ replays[id] = 0 => n = items'[id].attempt
                /\ items'[id].nextRetryAt - now - nextDelay(n, BaseDelay, MaxDelay) \in 0 .. Jitter - 1
  <2>1. aQueue # <<>> /\ aQueue[1] \in Ids /\ aAttempt \in Nat
    BY <1>0, <1>3 DEF DoAdminMark, AdminMark, TypeOK
  <2> DEFINE k == aQueue[1]
  <2>2. \/ aStep = "ok" /\ MarkDone(k, ok)
        \/ aStep = "err" /\ MarkRetry(k, now + AdminDelay, ok)
    BY <1>3 DEF DoAdminMark, AdminMark
  <2>3. ~MarkDone(k, ok)
    <3>1. MarkDone(k, ok) => MarkedDone(k)
      BY <1>0, MarkEffect
    <3> QED
      BY <1>0, <3>1 DEF MarkedDone, SameBut
  <2>4. id = k /\ items'[id].nextRetryAt = now + AdminDelay
        /\ items'[id].attempt = items[id].attempt + 1
    BY <1>0, <2>1, <2>2, <2>3, MarkRetryTime
  <2>5. id \in AdminHolds
    BY <2>1, <2>2, <2>4 DEF AdminHolds
  <2>6. aAttempt <= items[id].attempt /\ replays[id] > 0
    BY <1>0, <2>5 DEF Copies, Owned
  <2>7. nextDelay(aAttempt + 1, BaseDelay, MaxDelay) \in Nat
    BY DelayType, WorkerAssumption
  <2>8. items'[id].nextRetryAt = now + (nextDelay(aAttempt + 1, BaseDelay, MaxDelay) + 0)
    BY <2>4, <2>7, WiringAssumption DEF AdminDelay
  <2>9. 0 \in 0 .. Jitter - 1 /\ replays[id] # 0
    BY <1>0, <2>6
  <2> HIDE DEF k
  <2> QED
    BY <1>1, <2>1, <2>4, <2>6, <2>8, <2>9
<1> QED
  BY <1>2, <1>3, OnlyMarksCount

\* The wait after a failed relay follows the attempt count it is stored with, or, for
\* an item the operator replayed while a copy of it was in hand, an earlier count.
THEOREM WaitsFollow == Spec => WaitFollowsAttempts
<1>1. Init => Copies
  BY DEF Init, NewFileStore, WorkerInit, AdminInit, Copies, AdminHolds
<1>2. Base /\ Base' /\ Copies /\ [Next]_vars => Copies'
  <2> SUFFICES ASSUME Base, Base', Copies, [Next]_vars
               PROVE  Copies'
    OBVIOUS
  <2>1. StepKinds
    BY Kinds DEF Base
  <2> QED
    BY <2>1, CopiesStep
<1>3. Base /\ Copies /\ [Next]_vars =>
        [\A id \in DOMAIN items \intersect DOMAIN items' :
            items'[id].attempt > items[id].attempt /\ items'[id].status = "pending" =>
              \E n \in 1 .. items'[id].attempt :
                  /\ replays[id] = 0 => n = items'[id].attempt
                  /\ items'[id].nextRetryAt - now - nextDelay(n, BaseDelay, MaxDelay) \in 0 .. Jitter - 1]_vars
  BY WaitStep
<1> QED
  BY <1>1, <1>2, <1>3, BaseHolds, PTL DEF Spec, WaitFollowsAttempts
=============================================================================
