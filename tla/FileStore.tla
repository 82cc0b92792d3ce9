------------------------------ MODULE FileStore ------------------------------
(***************************************************************************)
(* The dead-letter queue's store, internal/dlq/store.go: a map of items     *)
(* guarded by one mutex, written to a file in full (temporary file, then    *)
(* rename) after every change.  Each method runs under the mutex, so it is  *)
(* one step; the memory is changed before the file is written, so a failed  *)
(* write leaves the two apart.                                              *)
(*                                                                          *)
(* An item keeps what decides its fate: its payload (the recipient and the  *)
(* raw message, identified by the fingerprint), status, attempt count and   *)
(* next retry time.  LastError, CreatedAt and UpdatedAt are left out, and   *)
(* with them the order of the file and of List.                             *)
(***************************************************************************)
EXTENDS Integers, SequencesExt

CONSTANTS Ids,            \* the identifiers items can get
          Payloads,       \* distinct (recipient, raw message) pairs
          MaxRetries,     \* DLQ_MAX_RETRIES; 0 means no limit
          MaxDiskFaults   \* bound: writes of the file that fail

ASSUME FileStoreAssumption ==
    /\ MaxRetries \in Nat
    /\ MaxDiskFaults \in Nat

VARIABLES items,    \* the map in memory
          disk,     \* the map a restart would read from the file
          issued,   \* identifiers ever generated; a random hash is never reused
          faults    \* failed writes so far

storeVars == <<items, disk, issued, faults>>

Status == {"pending", "processing", "done", "failed"}

Item == [payload : Payloads, status : Status, attempt : Nat, nextRetryAt : Nat]

\* A map from some of the identifiers to items.
IsItemMap(m) == DOMAIN m \subseteq Ids /\ m \in [DOMAIN m -> Item]

Active(item)  == item.status \in {"pending", "processing"}
Settled(item) == item.status \in {"done", "failed"}

NewFileStore ==
    /\ items = <<>>
    /\ disk = <<>>
    /\ issued = {}
    /\ faults = 0

\* m with id bound to item, whether or not id was bound before.
Put(m, id, item) == [k \in DOMAIN m \union {id} |-> IF k = id THEN item ELSE m[k]]

\* A write that reports success and leaves the file as it was.
WriteForgotten(ok) ==
    /\ UNCHANGED disk
    /\ IF ok THEN UNCHANGED faults
             ELSE faults < MaxDiskFaults /\ faults' = faults + 1

\* The last step of every operation that changes the map.  The rename makes the
\* write all or nothing.
persistLocked(ok) ==
    \/ ok /\ disk' = items' /\ UNCHANGED faults
    \/ ~ok /\ faults < MaxDiskFaults /\ faults' = faults + 1 /\ UNCHANGED disk
-----------------------------------------------------------------------------
\* Enqueue

\* Duplicate search that overlooks the items a worker holds.
PendingOnly(p) == {id \in DOMAIN items : items[id].payload = p /\ items[id].status = "pending"}

\* The items the loop over s.items takes for the same mail.
Duplicates(p) == {id \in DOMAIN items : items[id].payload = p /\ Active(items[id])}

\* A duplicate refreshes LastError and UpdatedAt only.
EnqueueDuplicate(p, id, ok) ==
    /\ id \in Duplicates(p)
    /\ UNCHANGED <<items, issued>>
    /\ persistLocked(ok)

\* An item whose status is left at the zero value of its type.
UnsetItem(p, now) == [payload |-> p, status |-> "", attempt |-> 0, nextRetryAt |-> now]

NewItem(p, now) == [payload |-> p, status |-> "pending", attempt |-> 0, nextRetryAt |-> now]

EnqueueNew(p, id, now, ok) ==
    /\ Duplicates(p) = {}
    /\ id \in Ids \ issued
    /\ issued' = issued \union {id}
    /\ items' = Put(items, id, NewItem(p, now))
    /\ persistLocked(ok)

Enqueue(p, id, now, ok) == EnqueueDuplicate(p, id, ok) \/ EnqueueNew(p, id, now, ok)
-----------------------------------------------------------------------------
\* PickDue

\* A search that looks at the retry time only.
DueAnyStatus(now) == {id \in DOMAIN items : items[id].nextRetryAt <= now}

Due(now) == {id \in DOMAIN items : items[id].status = "pending" /\ items[id].nextRetryAt <= now}

\* The first limit due items by retry time; sort.Slice leaves ties in any order.
DueBatches(limit, now) ==
    {s \in BoundedSeq(Due(now), limit) :
        /\ IsInjective(s)
        /\ Len(s) < limit => ToSet(s) = Due(now)
        /\ \A i, j \in DOMAIN s :
              i < j => items[s[i]].nextRetryAt <= items[s[j]].nextRetryAt
        /\ \A i \in DOMAIN s, id \in Due(now) \ ToSet(s) :
              items[s[i]].nextRetryAt <= items[id].nextRetryAt}

WithStatus(S, status) ==
    [id \in DOMAIN items |->
        IF id \in S THEN [items[id] EXCEPT !.status = status] ELSE items[id]]

\* batch is what the loop collected; the caller gets it only when ok.
PickDue(batch, limit, now, ok) ==
    /\ batch \in DueBatches(limit, now)
    /\ items' = WithStatus(ToSet(batch), "processing")
    /\ UNCHANGED issued
    /\ IF batch = <<>> THEN ok /\ UNCHANGED <<disk, faults>>
                       ELSE persistLocked(ok)
-----------------------------------------------------------------------------
\* MarkDone and MarkRetry.  Neither looks at the status the item has now.

\* Gives the item back to the queue instead of closing it.
MarkReleased(id, ok) ==
    /\ id \in DOMAIN items
    /\ items' = [items EXCEPT ![id].status = "pending"]
    /\ UNCHANGED issued
    /\ persistLocked(ok)

MarkDone(id, ok) ==
    /\ id \in DOMAIN items
    /\ items' = [items EXCEPT ![id].status = "done"]
    /\ UNCHANGED issued
    /\ persistLocked(ok)

\* A limit that is never applied.
NeverExhausted(attempt) == FALSE

Exhausted(attempt) == MaxRetries > 0 /\ attempt >= MaxRetries

Retried(item, next) ==
    LET attempt == item.attempt + 1
    IN  [payload     |-> item.payload,
         attempt     |-> attempt,
         status      |-> IF Exhausted(attempt) THEN "failed" ELSE "pending",
         nextRetryAt |-> IF Exhausted(attempt) THEN item.nextRetryAt ELSE next]

MarkRetry(id, next, ok) ==
    /\ id \in DOMAIN items
    /\ items' = [items EXCEPT ![id] = Retried(items[id], next)]
    /\ UNCHANGED issued
    /\ persistLocked(ok)
-----------------------------------------------------------------------------
\* load, in the process that starts next.

\* A load that keeps the status of an item the dead process was holding.
LoadAsSaved(m) == m

\* An item that was being processed is due again.
Loaded(m) ==
    [id \in DOMAIN m |->
        IF m[id].status = "processing" THEN [m[id] EXCEPT !.status = "pending"] ELSE m[id]]

load == items' = Loaded(disk) /\ UNCHANGED <<disk, issued, faults>>
=============================================================================
