------------------------------ MODULE DlqWorker ------------------------------
(***************************************************************************)
(* The background worker of the dead-letter queue, internal/dlq/worker.go.  *)
(* One goroutine takes a batch of due items on every tick of its timer and  *)
(* relays them one after another.  The store's mutex is free while a relay  *)
(* runs, so runOnce is split there: pick, then for each item relay and mark.*)
(* The relay itself is an outcome, success or error (a timeout of the       *)
(* attempt and the shutdown of the process are errors).  Counters of        *)
(* metrics are left out.                                                    *)
(***************************************************************************)
EXTENDS FileStore, Backoff

CONSTANTS BatchSize,   \* items taken per tick (10 in cmd/smtp-to-max-relay)
          BaseDelay,   \* DLQ_BASE_DELAY_MS
          MaxDelay,    \* DLQ_MAX_DELAY_MS
          Jitter       \* RandomJitter, 250 ms when it is not set

ASSUME WorkerAssumption ==
    /\ BatchSize \in Nat \ {0}
    /\ BaseDelay \in Nat
    /\ MaxDelay \in Nat
    /\ Jitter \in Nat \ {0}

VARIABLES wBatch,  \* copies of the picked items that are not marked yet
          wStep    \* where the worker is with the first of them

workerVars == <<wBatch, wStep>>

\* What the worker uses of the copy PickDue gave it.
Picked == [id : Ids, attempt : Nat]

WorkerInit == wBatch = <<>> /\ wStep = "relay"

\* The identifiers the worker has in hand.
WorkerHolds == {wBatch[i].id : i \in DOMAIN wBatch}

\* A tick of the timer.  When the store cannot be saved runOnce returns and the
\* batch is dropped.
WorkerPick(batch, now, ok) ==
    /\ wBatch = <<>>
    /\ PickDue(batch, BatchSize, now, ok)
    /\ wBatch' = IF ok
                 THEN [i \in DOMAIN batch |->
                        [id |-> batch[i], attempt |-> items[batch[i]].attempt]]
                 ELSE <<>>
    /\ UNCHANGED wStep

WorkerRelay(outcome) ==
    /\ wBatch # <<>>
    /\ wStep = "relay"
    /\ outcome \in {"ok", "err"}
    /\ wStep' = outcome
    /\ UNCHANGED <<wBatch, storeVars>>

\* Off by one: the attempt that just failed is not counted.
DelayBehind(attempt, jitter) == nextDelay(attempt, BaseDelay, MaxDelay) + jitter

\* The delay that follows the attempt of the worker's own copy.
WorkerDelay(attempt, jitter) == nextDelay(attempt + 1, BaseDelay, MaxDelay) + jitter

\* Bookkeeping after a relay that treats every outcome as a success.
MarkAnyDone(now, jitter, ok) == MarkDone(wBatch[1].id, ok)

\* MarkDone or MarkRetry; a failed write is only logged.
WorkerStore(now, jitter, ok) ==
    LET picked == wBatch[1]
    IN  \/ wStep = "ok" /\ MarkDone(picked.id, ok)
        \/ wStep = "err" /\ MarkRetry(picked.id, now + WorkerDelay(picked.attempt, jitter), ok)

\* A loop that stays with an item until it is delivered.
MarkUntilDelivered(now, jitter, ok) ==
    /\ wBatch # <<>>
    /\ wStep \in {"ok", "err"}
    /\ WorkerStore(now, jitter, ok)
    /\ wBatch' = IF wStep = "ok" THEN Tail(wBatch) ELSE wBatch
    /\ wStep' = "relay"

WorkerMark(now, jitter, ok) ==
    /\ wBatch # <<>>
    /\ wStep \in {"ok", "err"}
    /\ WorkerStore(now, jitter, ok)
    /\ wBatch' = Tail(wBatch)
    /\ wStep' = "relay"
=============================================================================
