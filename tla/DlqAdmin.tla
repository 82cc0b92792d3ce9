------------------------------ MODULE DlqAdmin -------------------------------
(***************************************************************************)
(* The operator's replay commands, internal/dlq/admin.go: Replay of one     *)
(* item, whatever its status, and ReplayBatch of the pending or the failed  *)
(* ones.  They run in the bot's update loop, one command at a time, beside  *)
(* the worker and the SMTP sessions, and hold no lock while they relay.     *)
(* Summary, List, Show and ReplayDry change nothing and have no action.     *)
(***************************************************************************)
EXTENDS FileStore, Backoff

CONSTANTS AdminBaseDelay, AdminMaxDelay   \* the delays given to Admin

ASSUME AdminAssumption == AdminBaseDelay \in Nat /\ AdminMaxDelay \in Nat

VARIABLES aQueue,    \* identifiers the running command has still to replay
          aStep,     \* where it is with the first of them
          aAttempt   \* the attempt count Get returned

adminVars == <<aQueue, aStep, aAttempt>>

AdminInit == aQueue = <<>> /\ aStep = "get" /\ aAttempt = 0

\* The item being replayed, once Get has found it.
AdminHolds == IF aQueue # <<>> /\ aStep # "get" THEN {aQueue[1]} ELSE {}

\* /replay <id>; the identifier is the operator's input.
Replay(id) ==
    /\ aQueue = <<>>
    /\ aQueue' = <<id>>
    /\ UNCHANGED <<aStep, aAttempt, storeVars>>

\* The status each mode selects; an empty mode is only_pending.
parseReplayBatchMode(mode) == IF mode = "only_failed" THEN "failed" ELSE "pending"

\* The items List returns that have the wanted status, at most limit of them.
\* List is ordered by UpdatedAt, which the model leaves out: any order.
Selections(limit, mode) ==
    LET wanted == {id \in DOMAIN items : items[id].status = parseReplayBatchMode(mode)}
    IN  {s \in BoundedSeq(wanted, limit) :
            IsInjective(s) /\ (Len(s) < limit => ToSet(s) = wanted)}

\* /replay_batch <limit> [mode].  The statuses are read once, here.
ReplayBatch(selected, limit, mode) ==
    /\ aQueue = <<>>
    /\ selected \in Selections(limit, mode)
    /\ aQueue' = selected
    /\ UNCHANGED <<aStep, aAttempt, storeVars>>

\* Store.Get; an unknown identifier ends the replay.
AdminGet ==
    /\ aQueue # <<>>
    /\ aStep = "get"
    /\ \/ /\ aQueue[1] \in DOMAIN items
          /\ aStep' = "relay"
          /\ aAttempt' = items[aQueue[1]].attempt
          /\ UNCHANGED aQueue
       \/ /\ aQueue[1] \notin DOMAIN items
          /\ aQueue' = Tail(aQueue)
          /\ UNCHANGED <<aStep, aAttempt>>
    /\ UNCHANGED storeVars

AdminRelay(outcome) ==
    /\ aQueue # <<>>
    /\ aStep = "relay"
    /\ outcome \in {"ok", "err"}
    /\ aStep' = outcome
    /\ UNCHANGED <<aQueue, aAttempt, storeVars>>

AdminDelay == nextDelay(aAttempt + 1, AdminBaseDelay, AdminMaxDelay)

\* MarkDone or MarkRetry; a failed write is reported to the operator.
AdminMark(now, ok) ==
    /\ aQueue # <<>>
    /\ \/ aStep = "ok" /\ MarkDone(aQueue[1], ok)
       \/ aStep = "err" /\ MarkRetry(aQueue[1], now + AdminDelay, ok)
    /\ aQueue' = Tail(aQueue)
    /\ aStep' = "get"
    /\ UNCHANGED aAttempt
=============================================================================
