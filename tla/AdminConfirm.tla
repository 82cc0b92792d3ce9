----------------------------- MODULE AdminConfirm ----------------------------
(***************************************************************************)
(* Confirmation of the operator's replay commands, internal/max/            *)
(* admin_confirm.go: /replay and /replay_batch only register the command    *)
(* under a random token; /confirm <token> runs it, once, if it comes in     *)
(* time.  The map is in memory: a restart forgets it.                       *)
(*                                                                          *)
(* Commands are taken from the administrator's chat only, so the chat in    *)
(* the key of the map is always the same and is left out.  A command is     *)
(* identified by the update that asked for it.                              *)
(***************************************************************************)
EXTENDS Integers, FiniteSets

CONSTANT TTL   \* five minutes

ASSUME ConfirmAssumption == TTL \in Nat

VARIABLES pendingConfirm,  \* token -> its command and when it expires
          now,             \* the wall clock
          asked,   \* history: token -> the command it was issued for, and when
          ran      \* history: what /confirm ran

confirmVars == <<pendingConfirm, asked, ran>>

ConfirmInit ==
    /\ pendingConfirm = <<>>
    /\ now = 0
    /\ asked = <<>>
    /\ ran = {}

Bind(f, x, v) == [y \in DOMAIN f \union {x} |-> IF y = x THEN v ELSE f[y]]
Unbind(f, x) == [y \in DOMAIN f \ {x} |-> f[y]]

\* now.After(action.expiresAt)
Expired(action) == now > action.expiresAt

purgeExpiredLocked(f) == [t \in {u \in DOMAIN f : ~Expired(f[u])} |-> f[t]]

\* A value that was not used before: eight random bytes.
randomToken == Cardinality(DOMAIN asked) + 1

\* /replay or /replay_batch.
registerConfirm(command) ==
    /\ pendingConfirm' = Bind(purgeExpiredLocked(pendingConfirm), randomToken,
                              [expiresAt |-> now + TTL, execute |-> command])
    /\ asked' = Bind(asked, randomToken, [command |-> command, at |-> now])
    /\ UNCHANGED ran

\* A run of a token's command; which of several runs of it this is.
Run(token, command) ==
    [token |-> token, command |-> command, at |-> now,
     number |-> Cardinality({r \in ran : r.token = token}) + 1]

\* There is a command under the token, and it is not too old.
Valid(token) == token \in DOMAIN pendingConfirm /\ ~Expired(pendingConfirm[token])

\* Keeps the entry of a command it has run.
ConsumeKeeping(token) ==
    /\ \/ Valid(token) /\ ran' = ran \union {Run(token, pendingConfirm[token].execute)}
       \/ ~Valid(token) /\ UNCHANGED ran
    /\ UNCHANGED <<pendingConfirm, asked>>

\* Leaves expiry to the purge.
ConsumeUnchecked(token) ==
    /\ pendingConfirm' = Unbind(pendingConfirm, token)
    /\ ran' = ran \union {Run(t, pendingConfirm[t].execute) : t \in {token} \intersect DOMAIN pendingConfirm}
    /\ UNCHANGED asked

\* /confirm: the entry is removed, and its command run, unless it is too old.
consumeConfirm(token) ==
    /\ pendingConfirm' = Unbind(pendingConfirm, token)
    /\ \/ Valid(token) /\ ran' = ran \union {Run(token, pendingConfirm[token].execute)}
       \/ ~Valid(token) /\ UNCHANGED ran
    /\ UNCHANGED asked

\* The process ends.
ConfirmsForgotten == pendingConfirm' = <<>> /\ UNCHANGED <<asked, ran>>
-----------------------------------------------------------------------------
\* A command that was asked for runs at most once for each token issued for it,
\* however often the /confirm arrives, and it is the command the token was issued for.
RunsOnce ==
    \A r \in ran : r.number = 1 /\ r.token \in DOMAIN asked /\ r.command = asked[r.token].command

\* A command only runs within five minutes of being asked for, late deliveries
\* and restarts included.
RunsInTime == \A r \in ran : r.at - asked[r.token].at <= TTL
=============================================================================
