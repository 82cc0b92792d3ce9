----------------------------- MODULE RetryLedger -----------------------------
(***************************************************************************)
(* What the dead-letter queue promises, without its worker, its operator's  *)
(* commands, its clock or its file: a ledger of entries that survives the   *)
(* process, relays of an entry that succeed or fail, and the rule that      *)
(* binds the two.  One write may bring several entries up to date, because  *)
(* the file is written in full and an earlier write may have failed.        *)
(***************************************************************************)
EXTENDS Integers

CONSTANTS Ids,         \* entries
          MaxRetries   \* failed relays after which an entry is given up; 0: never

VARIABLES ledger,     \* what the durable record says of an entry
          delivered,  \* relays of it that succeeded
          failed,     \* relays of it that failed
          asked       \* relays of it the operator asked for

vars == <<ledger, delivered, failed, asked>>

Word == {"unknown", "open", "done", "failed"}

Closed(id) == ledger[id] \in {"done", "failed"}

Init ==
    /\ ledger = [id \in Ids |-> "unknown"]
    /\ delivered = [id \in Ids |-> 0]
    /\ failed = [id \in Ids |-> 0]
    /\ asked = [id \in Ids |-> 0]

\* The operator asks for a relay of an entry.
Ask(id) ==
    /\ asked' = [asked EXCEPT ![id] = @ + 1]
    /\ UNCHANGED <<ledger, delivered, failed>>

\* A relay comes back.  A closed entry is not relayed, unless the operator asked.
Deliver(id) ==
    /\ ~Closed(id) \/ asked[id] > 0
    /\ delivered' = [delivered EXCEPT ![id] = @ + 1]
    /\ UNCHANGED <<ledger, failed, asked>>

Fail(id) ==
    /\ ~Closed(id) \/ asked[id] > 0
    /\ failed' = [failed EXCEPT ![id] = @ + 1]
    /\ UNCHANGED <<ledger, delivered, asked>>

\* What a write may make of an entry: an entry never leaves the ledger, is closed
\* only with cause, and is opened again only when the operator asked.
Legal(id, word) ==
    \/ word = ledger[id]
    \/ word = "open" /\ (ledger[id] = "unknown" \/ asked[id] > 0)
    \/ word = "done" /\ delivered[id] > 0 /\ (~Closed(id) \/ asked[id] > 0)
    \/ /\ word = "failed" /\ (~Closed(id) \/ asked[id] > 0)
       /\ MaxRetries > 0 /\ failed[id] >= MaxRetries

Write ==
    /\ ledger' \in [Ids -> Word]
    /\ \A id \in Ids : Legal(id, ledger'[id])
    /\ UNCHANGED <<delivered, failed, asked>>

Next ==
    \/ \E id \in Ids : Ask(id) \/ Deliver(id) \/ Fail(id)
    \/ Write

Spec == Init /\ [][Next]_vars
=============================================================================
