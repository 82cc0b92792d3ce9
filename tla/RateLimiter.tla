----------------------------- MODULE RateLimiter -----------------------------
(***************************************************************************)
(* The rate-limited sender, internal/max/limited_sender.go: a token bucket  *)
(* (a channel of Burst tokens, refilled by a ticker) and a bounded queue of *)
(* callers that wait for a token for a limited time.  Callers are the       *)
(* goroutines of SMTP sessions, of the DLQ worker and of the bot.           *)
(*                                                                          *)
(* acquire is split at every channel operation and atomic: other goroutines *)
(* run between taking a slot and counting it.  The gauge that publishes the *)
(* count is a metric and is left out.                                       *)
(***************************************************************************)
EXTENDS Integers, FiniteSets

CONSTANTS Callers,
          Burst,           \* capacity of the bucket; NewRateLimitedSender makes it positive
          QueueCapacity,   \* capacity of the queue, 0 allowed
          MaxTicks         \* bound: ticks of the refill timer

ASSUME RateLimiterAssumption ==
    /\ Burst \in Nat \ {0}
    /\ QueueCapacity \in Nat
    /\ MaxTicks \in Nat

VARIABLES tokens,      \* tokens in the bucket
          slots,       \* slots of the queue taken
          queueDepth,  \* the atomic counter of waiting callers
          pc,          \* where each caller is in acquire
          cancelled,   \* callers whose context is done
          granted,     \* history: sends let through
          ticks        \* history: ticks of the refill timer

vars == <<tokens, slots, queueDepth, pc, cancelled, granted, ticks>>

Steps == {"idle", "fast", "enter", "up", "wait", "release", "down"}

\* The bucket starts full.
NewRateLimitedSender ==
    /\ tokens = Burst
    /\ slots = 0
    /\ queueDepth = 0
    /\ pc = [c \in Callers |-> "idle"]
    /\ cancelled = {}
    /\ granted = 0
    /\ ticks = 0

GoTo(c, from, to) == pc[c] = from /\ pc' = [pc EXCEPT ![c] = to]

\* <-r.tokens
TakeToken ==
    /\ tokens > 0
    /\ tokens' = tokens - 1
    /\ granted' = granted + 1

\* SendText or SendFile.
Send(c) ==
    /\ GoTo(c, "idle", "fast")
    /\ cancelled' = cancelled \ {c}
    /\ UNCHANGED <<tokens, slots, queueDepth, granted, ticks>>

\* The context of a call in progress ends: a timeout or a shutdown.
Cancel(c) ==
    /\ pc[c] # "idle"
    /\ cancelled' = cancelled \union {c}
    /\ UNCHANGED <<tokens, slots, queueDepth, pc, granted, ticks>>

\* The first select; when both the context and a token are ready, either.
FastPath(c) ==
    /\ \/ GoTo(c, "fast", "idle") /\ c \in cancelled /\ UNCHANGED <<tokens, granted>>
       \/ GoTo(c, "fast", "idle") /\ TakeToken
       \/ /\ GoTo(c, "fast", "enter")
          /\ c \notin cancelled /\ tokens = 0
          /\ UNCHANGED <<tokens, granted>>
    /\ UNCHANGED <<slots, queueDepth, cancelled, ticks>>

\* A queue that lets everyone wait.
EnterAlways(c) ==
    /\ GoTo(c, "enter", "up")
    /\ slots' = slots + 1
    /\ UNCHANGED <<tokens, queueDepth, cancelled, granted, ticks>>

\* The second select: a slot, or the call is dropped.
Enter(c) ==
    /\ \/ GoTo(c, "enter", "up") /\ slots < QueueCapacity /\ slots' = slots + 1
       \/ GoTo(c, "enter", "idle") /\ slots = QueueCapacity /\ UNCHANGED slots
    /\ UNCHANGED <<tokens, queueDepth, cancelled, granted, ticks>>

\* The slots taken instead of a count of its own.
DepthFromSlots(delta) == queueDepth' = slots

\* updateQueueDepth.  A negative result is stored as 0.
Add(delta) ==
    LET sum == queueDepth + delta
    IN  queueDepth' = IF sum < 0 THEN 0 ELSE sum

DepthUp(c) ==
    /\ GoTo(c, "up", "wait")
    /\ Add(1)
    /\ UNCHANGED <<tokens, slots, cancelled, granted, ticks>>

\* A wait without the timer.
WaitForToken(c) ==
    /\ GoTo(c, "wait", "release")
    /\ \/ c \in cancelled /\ UNCHANGED <<tokens, granted>>
       \/ TakeToken
    /\ UNCHANGED <<slots, queueDepth, cancelled, ticks>>

\* The third select: the context, the timer (which may fire at any time) or a token.
Wait(c) ==
    /\ GoTo(c, "wait", "release")
    /\ \/ c \in cancelled /\ UNCHANGED <<tokens, granted>>
       \/ UNCHANGED <<tokens, granted>>
       \/ TakeToken
    /\ UNCHANGED <<slots, queueDepth, cancelled, ticks>>

\* The deferred function gives the slot back before it counts down.
Release(c) ==
    /\ GoTo(c, "release", "down")
    /\ slots' = slots - 1
    /\ UNCHANGED <<tokens, queueDepth, cancelled, granted, ticks>>

DepthDown(c) ==
    /\ GoTo(c, "down", "idle")
    /\ Add(-1)
    /\ UNCHANGED <<tokens, slots, cancelled, granted, ticks>>

\* A refill that ignores the capacity of the bucket.
RefillAlways ==
    /\ ticks < MaxTicks
    /\ ticks' = ticks + 1
    /\ tokens' = tokens + 1
    /\ UNCHANGED <<slots, queueDepth, pc, cancelled, granted>>

\* A tick of refillLoop; a token that does not fit is thrown away.
Refill ==
    /\ ticks < MaxTicks
    /\ ticks' = ticks + 1
    /\ \/ tokens < Burst /\ tokens' = tokens + 1
       \/ tokens = Burst /\ UNCHANGED tokens
    /\ UNCHANGED <<slots, queueDepth, pc, cancelled, granted>>

Acquire(c) ==
    \/ FastPath(c) \/ Enter(c) \/ DepthUp(c)
    \/ Wait(c) \/ Release(c) \/ DepthDown(c)

Next == Refill \/ \E c \in Callers : Send(c) \/ Cancel(c) \/ Acquire(c)

Spec == NewRateLimitedSender /\ [][Next]_vars

\* Goroutines run and timers fire; nobody has to call.
FairSpec == Spec /\ \A c \in Callers : WF_vars(Acquire(c))
-----------------------------------------------------------------------------
\* Every variable has its type: the bucket and the queue stay within their
\* capacities, and no count goes below zero.
TypeOK ==
    /\ tokens \in 0 .. Burst
    /\ slots \in 0 .. QueueCapacity
    /\ queueDepth \in Nat
    /\ pc \in [Callers -> Steps]
    /\ cancelled \subseteq Callers
    /\ granted \in Nat
    /\ ticks \in Nat

At(S) == {c \in Callers : pc[c] \in S}

\* Sends never outrun the configured rate: at any moment no more calls got
\* through than the burst and the ticks of the refill timer allow, and quiet
\* times never save up more than one burst.
RateBound == granted + tokens <= Burst + ticks /\ tokens <= Burst

\* queueDepth is exact at every interleaving of callers: it counts those between
\* their Add(1) and their Add(-1), so the clamp at zero never hides a lost update,
\* and it exceeds the slots taken only by callers that have just left.  With the
\* type of slots, no more than QueueCapacity callers wait at any moment.
DepthExact ==
    /\ queueDepth = Cardinality(At({"wait", "release", "down"}))
    /\ queueDepth + Cardinality(At({"up"})) = slots + Cardinality(At({"down"}))

\* A call always returns, also when no token ever comes: it gets a token, is
\* dropped, times out or is cancelled.
CallsReturn == \A c \in Callers : pc[c] # "idle" ~> pc[c] = "idle"
=============================================================================
