--------------------------------- MODULE Dlq ---------------------------------
(***************************************************************************)
(* The dead-letter queue at work, as cmd/smtp-to-max-relay/main.go wires    *)
(* it: SMTP sessions that put mails whose delivery failed into the store,   *)
(* the background worker, the operator's replay commands, writes of the     *)
(* file that fail, and the process dying and starting again.                *)
(***************************************************************************)
EXTENDS DlqWorker, DlqAdmin

CONSTANTS MaxCommands,   \* bound: operator commands
          MaxCrashes     \* bound: ends of the process

ASSUME DlqAssumption == MaxCommands \in Nat /\ MaxCrashes \in Nat

\* main.go gives the worker and the operator's commands the same two delays.
ASSUME WiringAssumption == AdminBaseDelay = BaseDelay /\ AdminMaxDelay = MaxDelay

VARIABLES now,       \* the wall clock
          commands,  \* operator commands so far
          crashes    \* ends of the process so far

\* History of the outside world; no action of the program reads it.
VARIABLES acked,       \* items whose Enqueue returned without an error
          deliveries,  \* relays of an item that succeeded, by identifier
          failures,    \* relays of an item that failed
          replays      \* relays of an item started by the operator

historyVars == <<acked, deliveries, failures, replays>>

vars == <<storeVars, workerVars, adminVars, now, commands, crashes, historyVars>>

Init ==
    /\ NewFileStore
    /\ WorkerInit
    /\ AdminInit
    /\ now = 0
    /\ commands = 0
    /\ crashes = 0
    /\ acked = {}
    /\ deliveries = [id \in Ids |-> 0]
    /\ failures = [id \in Ids |-> 0]
    /\ replays = [id \in Ids |-> 0]

Plus1(f, id) == [f EXCEPT ![id] = @ + 1]

\* A relay of id came back.
Observe(id, outcome) ==
    /\ deliveries' = IF outcome = "ok" THEN Plus1(deliveries, id) ELSE deliveries
    /\ failures' = IF outcome = "err" THEN Plus1(failures, id) ELSE failures
-----------------------------------------------------------------------------
\* relay.Service.Relay, called by a session, could not deliver p to MAX.
SessionEnqueue(p, id, ok) ==
    /\ Enqueue(p, id, now, ok)
    /\ acked' = IF ok THEN acked \union {id} ELSE acked
    /\ UNCHANGED <<workerVars, adminVars, now, commands, crashes, deliveries, failures, replays>>

DoWorkerPick(batch, ok) ==
    /\ WorkerPick(batch, now, ok)
    /\ UNCHANGED <<adminVars, now, commands, crashes, historyVars>>

DoWorkerRelay(outcome) ==
    /\ WorkerRelay(outcome)
    /\ Observe(wBatch[1].id, outcome)
    /\ UNCHANGED <<adminVars, now, commands, crashes, acked, replays>>

DoWorkerMark(jitter, ok) ==
    /\ WorkerMark(now, jitter, ok)
    /\ UNCHANGED <<adminVars, now, commands, crashes, historyVars>>

Command ==
    /\ commands < MaxCommands
    /\ commands' = commands + 1
    /\ \/ \E id \in Ids : Replay(id)
       \/ \E limit \in 1 .. Cardinality(Ids), mode \in {"only_pending", "only_failed"} :
            \E selected \in Selections(limit, mode) : ReplayBatch(selected, limit, mode)
    /\ UNCHANGED <<workerVars, now, crashes, historyVars>>

DoAdminGet ==
    /\ AdminGet
    /\ replays' = IF aStep' = "relay" THEN Plus1(replays, aQueue[1]) ELSE replays
    /\ UNCHANGED <<workerVars, now, commands, crashes, acked, deliveries, failures>>

DoAdminRelay(outcome) ==
    /\ AdminRelay(outcome)
    /\ Observe(aQueue[1], outcome)
    /\ UNCHANGED <<workerVars, now, commands, crashes, acked, replays>>

DoAdminMark(ok) ==
    /\ AdminMark(now, ok)
    /\ UNCHANGED <<workerVars, now, commands, crashes, historyVars>>

\* The process ends at any point, killed or shut down, and is started again.
Restart ==
    /\ crashes < MaxCrashes
    /\ crashes' = crashes + 1
    /\ load
    /\ wBatch' = <<>> /\ wStep' = "relay"
    /\ aQueue' = <<>> /\ aStep' = "get" /\ aAttempt' = 0
    /\ UNCHANGED <<now, commands, historyVars>>

\* Time passes.  It matters only while some item waits for its retry time.
Tick ==
    /\ \E id \in DOMAIN items : items[id].status = "pending" /\ items[id].nextRetryAt > now
    /\ now' = now + 1
    /\ UNCHANGED <<storeVars, workerVars, adminVars, commands, crashes, historyVars>>

WorkerStep ==
    \/ \E batch \in DueBatches(BatchSize, now), ok \in BOOLEAN : DoWorkerPick(batch, ok)
    \/ \E outcome \in {"ok", "err"} : DoWorkerRelay(outcome)
    \/ \E jitter \in 0 .. Jitter - 1, ok \in BOOLEAN : DoWorkerMark(jitter, ok)

AdminStep ==
    \/ DoAdminGet
    \/ \E outcome \in {"ok", "err"} : DoAdminRelay(outcome)
    \/ \E ok \in BOOLEAN : DoAdminMark(ok)

Next ==
    \/ \E p \in Payloads, id \in Ids, ok \in BOOLEAN : SessionEnqueue(p, id, ok)
    \/ WorkerStep
    \/ Command
    \/ AdminStep
    \/ Restart
    \/ Tick

Spec == Init /\ [][Next]_vars

\* The worker's timer keeps ticking and every relay returns (sends have a
\* timeout), and time passes.  Nothing makes an operator type a command or the
\* process die.
Fairness == WF_vars(WorkerStep) /\ WF_vars(AdminStep) /\ WF_vars(Tick)

FairSpec == Spec /\ Fairness
-----------------------------------------------------------------------------
\* Every variable has its type (maps of items in memory and on disk, batches in
\* hand, counters).
TypeOK ==
    /\ IsItemMap(items)
    /\ IsItemMap(disk)
    /\ issued \subseteq Ids
    /\ faults \in Nat
    /\ wBatch \in Seq(Picked)
    /\ wStep \in {"relay", "ok", "err"}
    /\ aQueue \in Seq(Ids)
    /\ aStep \in {"get", "relay", "ok", "err"}
    /\ aAttempt \in Nat
    /\ now \in Nat
    /\ commands \in Nat
    /\ crashes \in Nat
    /\ acked \subseteq Ids
    /\ deliveries \in [Ids -> Nat]
    /\ failures \in [Ids -> Nat]
    /\ replays \in [Ids -> Nat]

\* The file never runs ahead of memory, an item in hand is an item of the store
\* (MarkDone and MarkRetry never report "not found"), and a mail Enqueue accepted
\* is on the file, so no crash loses it.
AckedDurable ==
    /\ acked \subseteq DOMAIN disk
    /\ DOMAIN disk \subseteq DOMAIN items
    /\ WorkerHolds \union AdminHolds \subseteq DOMAIN items

\* An item is only ever called done, in memory or on the file, after a relay of
\* it succeeded, and only ever called failed after as many relays failed as
\* DLQ_MAX_RETRIES allows.
VerdictsEarned ==
    \A m \in {items, disk} : \A id \in DOMAIN m :
        /\ m[id].status = "done" => deliveries[id] > 0
        /\ m[id].status = "failed" => MaxRetries > 0 /\ failures[id] >= MaxRetries

\* A mail waits in the queue at most once: two active items with one payload
\* exist only after the operator replayed one of them (a replay that fails makes
\* a settled item pending again).
UniqueActive ==
    \A m \in {items, disk} : \A a, b \in DOMAIN m :
        /\ a # b
        /\ m[a].payload = m[b].payload
        /\ Active(m[a]) /\ Active(m[b])
        => replays[a] + replays[b] > 0

\* Relays of an item succeed once, and once more at most for each end of the
\* process (it may come between the relay and the save) and for each replay by the
\* operator (it may meet the worker's own attempt).  A relay that failed may have
\* reached chats as well: those copies are counted in MailFlow.
DeliveryBound ==
    \A id \in Ids : deliveries[id] <= 1 + crashes + replays[id]

\* The worker alone never takes an item past DLQ_MAX_RETRIES attempts; each
\* replay by the operator adds one at most.
RetryBudget ==
    MaxRetries > 0 => \A id \in DOMAIN items : items[id].attempt <= MaxRetries + replays[id]

\* Once the file says an item is done or has failed, only a replay of that item
\* by the operator changes the file's word on it, crashes and failed writes
\* included.
DurablySettled ==
    [][\A id \in DOMAIN disk :
          Settled(disk[id]) /\ replays[id] = 0 =>
            id \in DOMAIN disk' /\ disk'[id] = disk[id]]_vars

\* The word of the file on an item, as the ledger of RetryLedger.
LedgerWord(id) ==
    IF id \notin DOMAIN disk THEN "unknown"
    ELSE IF Active(disk[id]) THEN "open" ELSE disk[id].status

Ledger == INSTANCE RetryLedger WITH
    ledger    <- [id \in Ids |-> LedgerWord(id)],
    delivered <- deliveries,
    failed    <- failures,
    asked     <- replays

\* The queue implements the ledger: whatever the interleaving of sessions, worker
\* and operator, the failed writes and the restarts, an entry of the file never
\* leaves it, is closed only after the relays that justify it, and once closed is
\* neither relayed nor reopened unless the operator asked.
ImplementsLedger == Ledger!Spec

\* The wait after a failed relay follows the attempt count it is stored with, or,
\* for an item the operator has replayed, some attempt count of its past: a copy
\* taken before the replay is out of date, and the wait is computed from the copy.
WaitFollowsAttempts ==
    [][\A id \in DOMAIN items \intersect DOMAIN items' :
          items'[id].attempt > items[id].attempt /\ items'[id].status = "pending" =>
            \E n \in 1 .. items'[id].attempt :
                /\ replays[id] = 0 => n = items'[id].attempt
                /\ items'[id].nextRetryAt - now - nextDelay(n, BaseDelay, MaxDelay) \in 0 .. Jitter - 1]_vars

\* An item accepted into the queue is eventually done or given up.
Settles ==
    \A id \in Ids : id \in acked ~> (id \in DOMAIN items /\ Settled(items[id]))
=============================================================================
