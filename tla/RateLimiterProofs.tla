-------------------------- MODULE RateLimiterProofs --------------------------
(***************************************************************************)
(* The rate bound of RateLimiter, the capacities of its channels and the    *)
(* count of its waiting callers, for any callers, burst and queue.          *)
(***************************************************************************)
EXTENDS RateLimiter, FiniteSetTheorems, TLAPS

\* What the bucket and the history of it may do in one step.
LEMMA BucketSteps ==
    ASSUME tokens \in Nat, granted \in Nat, ticks \in Nat, [Next]_vars
    PROVE  \/ UNCHANGED <<tokens, granted, ticks>>
           \/ tokens > 0 /\ tokens' = tokens - 1 /\ granted' = granted + 1 /\ UNCHANGED ticks
           \/ tokens < Burst /\ tokens' = tokens + 1 /\ ticks' = ticks + 1 /\ UNCHANGED granted
           \/ tokens = Burst /\ UNCHANGED <<tokens, granted>> /\ ticks' = ticks + 1
<1>1. CASE Refill
  BY <1>1 DEF Refill
<1>2. ASSUME NEW c \in Callers, Acquire(c)
      PROVE  \/ UNCHANGED <<tokens, granted, ticks>>
             \/ tokens > 0 /\ tokens' = tokens - 1 /\ granted' = granted + 1 /\ UNCHANGED ticks
  BY <1>2 DEF Acquire, FastPath, Enter, DepthUp, Wait, Release, DepthDown, TakeToken
<1>3. ASSUME NEW c \in Callers, Send(c) \/ Cancel(c)
      PROVE  UNCHANGED <<tokens, granted, ticks>>
  BY <1>3 DEF Send, Cancel
<1>4. CASE UNCHANGED vars
  BY <1>4 DEF vars
<1> QED
  BY <1>1, <1>2, <1>3, <1>4 DEF Next

\* The bucket, the calls let through and the ticks are natural numbers, and the
\* bound holds: tokens enter one by one with a tick and leave one by one with a
\* call.
BucketInv == tokens \in Nat /\ granted \in Nat /\ ticks \in Nat /\ RateBound

\* No interleaving of callers, cancellations and refills lets more sends through
\* than burst and rate allow.
THEOREM RateHolds == Spec => []RateBound
<1>1. NewRateLimitedSender => BucketInv
  BY RateLimiterAssumption DEF NewRateLimitedSender, BucketInv, RateBound
<1>2. BucketInv /\ [Next]_vars => BucketInv'
  <2> SUFFICES ASSUME BucketInv, [Next]_vars
               PROVE  BucketInv'
    OBVIOUS
  <2> QED
    BY BucketSteps, RateLimiterAssumption DEF BucketInv, RateBound
<1>3. BucketInv => RateBound
  BY DEF BucketInv
<1> QED
  BY <1>1, <1>2, <1>3, PTL DEF Spec
-----------------------------------------------------------------------------
\* How a caller that moves from one place of acquire to another changes the set of
\* callers at the places in S, and their number.
Weight(place, S) == IF place \in S THEN 1 ELSE 0

\* One caller that moves changes the number of callers at some places by one at most.
LEMMA CountMove ==
    ASSUME pc \in [Callers -> Steps], NEW c \in Callers, NEW from, NEW to, GoTo(c, from, to),
           NEW S, IsFiniteSet(At(S))
    PROVE  /\ IsFiniteSet(At(S)')
           /\ Cardinality(At(S)') = Cardinality(At(S)) + Weight(to, S) - Weight(from, S)
<1>1. pc[c] = from /\ pc' = [pc EXCEPT ![c] = to]
  BY DEF GoTo
<1>2. c \in At(S) <=> from \in S
  BY <1>1 DEF At
<1>3. Cardinality(At(S)) \in Nat
  BY FS_CardinalityType
<1>4. CASE to \in S
  <2>1. At(S)' = At(S) \union {c}
    BY <1>1, <1>4 DEF At
  <2> QED
    BY <2>1, <1>2, <1>3, <1>4, FS_AddElement DEF Weight
<1>5. CASE to \notin S
  <2>1. At(S)' = At(S) \ {c}
    BY <1>1, <1>5 DEF At
  <2> QED
    BY <2>1, <1>2, <1>3, <1>5, FS_RemoveElement DEF Weight
<1> QED
  BY <1>4, <1>5

\* The callers that hold a slot, and those the count knows of.
Holding == {"up", "wait", "release"}
Counted == {"wait", "release", "down"}

\* Both counts are exact.  The callers in acquire are finitely many, whatever the
\* callers are, because they enter one by one.
CountsInv ==
    /\ IsFiniteSet(At(Holding)) /\ slots = Cardinality(At(Holding))
    /\ IsFiniteSet(At(Counted)) /\ queueDepth = Cardinality(At(Counted))

\* The inductive invariant of the sender.
SenderInv == TypeOK /\ CountsInv

\* The sender starts in it.
LEMMA SenderInit == NewRateLimitedSender => SenderInv
<1> SUFFICES ASSUME NewRateLimitedSender PROVE SenderInv
  OBVIOUS
<1>1. TypeOK
  BY RateLimiterAssumption DEF NewRateLimitedSender, TypeOK, Steps
<1>2. At(Holding) = {} /\ At(Counted) = {}
  BY DEF NewRateLimitedSender, At, Holding, Counted
<1>3. CountsInv
  BY <1>2, FS_EmptySet DEF CountsInv, NewRateLimitedSender
<1> QED
  BY <1>1, <1>3 DEF SenderInv

\* A step of a caller keeps it: what the caller's move does to the two numbers is
\* what the step does to slots and queueDepth.
LEMMA AcquireKeeps ==
    ASSUME SenderInv, NEW c \in Callers, Send(c) \/ Acquire(c)
    PROVE  SenderInv'
<1>0. /\ TypeOK /\ pc \in [Callers -> Steps]
      /\ slots \in Nat /\ slots <= QueueCapacity
      /\ queueDepth \in Nat
      /\ tokens \in Nat /\ tokens <= Burst
      /\ granted \in Nat /\ ticks \in Nat
      /\ Burst \in Nat /\ QueueCapacity \in Nat
  BY RateLimiterAssumption DEF SenderInv, TypeOK
<1>1. /\ IsFiniteSet(At(Holding)) /\ slots = Cardinality(At(Holding))
      /\ IsFiniteSet(At(Counted)) /\ queueDepth = Cardinality(At(Counted))
  BY DEF SenderInv, CountsInv
<1>2. ASSUME NEW from \in Steps, NEW to \in Steps, GoTo(c, from, to),
             slots' = slots + Weight(to, Holding) - Weight(from, Holding),
             queueDepth' = queueDepth + Weight(to, Counted) - Weight(from, Counted),
             slots' <= QueueCapacity,
             tokens' \in 0 .. Burst, granted' \in Nat, ticks' \in Nat, cancelled' \subseteq Callers
      PROVE  SenderInv'
  <2>1. /\ IsFiniteSet(At(Holding)') /\ slots' = Cardinality(At(Holding)')
        /\ IsFiniteSet(At(Counted)') /\ queueDepth' = Cardinality(At(Counted)')
    BY <1>0, <1>1, <1>2, CountMove
  <2>2. slots' \in Nat /\ queueDepth' \in Nat
    BY <2>1, FS_CardinalityType
  <2>3. pc' \in [Callers -> Steps]
    BY <1>0, <1>2 DEF GoTo
  <2>4. TypeOK'
    BY <1>0, <1>2, <2>2, <2>3 DEF TypeOK
  <2> QED
    BY <2>1, <2>4 DEF SenderInv, CountsInv, Holding, Counted
<1>3. CASE Send(c)
  <2>1. GoTo(c, "idle", "fast") /\ UNCHANGED <<tokens, slots, queueDepth, granted, ticks>>
        /\ cancelled' \subseteq Callers
    BY <1>0, <1>3 DEF Send, TypeOK
  <2>2. /\ slots' = slots + Weight("fast", Holding) - Weight("idle", Holding)
        /\ queueDepth' = queueDepth + Weight("fast", Counted) - Weight("idle", Counted)
    BY <1>0, <2>1 DEF Weight, Holding, Counted
  <2> QED
    BY <1>0, <1>2, <2>1, <2>2 DEF Steps
<1>4. CASE FastPath(c)
  <2>1. PICK to \in {"idle", "enter"} : GoTo(c, "fast", to)
    BY <1>4 DEF FastPath
  <2>2. /\ UNCHANGED <<slots, queueDepth, cancelled, ticks>>
        /\ tokens' \in 0 .. Burst /\ granted' \in Nat
    BY <1>0, <1>4 DEF FastPath, TakeToken
  <2>3. /\ slots' = slots + Weight(to, Holding) - Weight("fast", Holding)
        /\ queueDepth' = queueDepth + Weight(to, Counted) - Weight("fast", Counted)
    BY <1>0, <2>1, <2>2 DEF Weight, Holding, Counted
  <2> QED
    BY <1>0, <1>2, <2>1, <2>2, <2>3 DEF Steps, TypeOK
<1>5. CASE Enter(c)
  <2>1. /\ UNCHANGED <<tokens, queueDepth, cancelled, granted, ticks>>
        /\ \/ GoTo(c, "enter", "up") /\ slots < QueueCapacity /\ slots' = slots + 1
           \/ GoTo(c, "enter", "idle") /\ UNCHANGED slots
    BY <1>5 DEF Enter
  <2>2. PICK to \in {"idle", "up"} :
           /\ GoTo(c, "enter", to)
           /\ slots' = slots + Weight(to, Holding) - Weight("enter", Holding)
           /\ queueDepth' = queueDepth + Weight(to, Counted) - Weight("enter", Counted)
           /\ slots' <= QueueCapacity
    BY <1>0, <2>1 DEF Weight, Holding, Counted
  <2> QED
    BY <1>0, <1>2, <2>1, <2>2 DEF Steps, TypeOK
<1>6. CASE DepthUp(c)
  <2>1. GoTo(c, "up", "wait") /\ UNCHANGED <<tokens, slots, cancelled, granted, ticks>>
        /\ queueDepth' = queueDepth + 1
    BY <1>0, <1>6 DEF DepthUp, Add
  <2>2. /\ slots' = slots + Weight("wait", Holding) - Weight("up", Holding)
        /\ queueDepth' = queueDepth + Weight("wait", Counted) - Weight("up", Counted)
    BY <1>0, <2>1 DEF Weight, Holding, Counted
  <2> QED
    BY <1>0, <1>2, <2>1, <2>2 DEF Steps, TypeOK
<1>7. CASE Wait(c)
  <2>1. GoTo(c, "wait", "release") /\ UNCHANGED <<slots, queueDepth, cancelled, ticks>>
        /\ tokens' \in 0 .. Burst /\ granted' \in Nat
    BY <1>0, <1>7 DEF Wait, TakeToken
  <2>2. /\ slots' = slots + Weight("release", Holding) - Weight("wait", Holding)
        /\ queueDepth' = queueDepth + Weight("release", Counted) - Weight("wait", Counted)
    BY <1>0, <2>1 DEF Weight, Holding, Counted
  <2> QED
    BY <1>0, <1>2, <2>1, <2>2 DEF Steps, TypeOK
<1>8. CASE Release(c)
  <2>1. GoTo(c, "release", "down") /\ UNCHANGED <<tokens, queueDepth, cancelled, granted, ticks>>
        /\ slots' = slots - 1
    BY <1>8 DEF Release
  <2>2. /\ slots' = slots + Weight("down", Holding) - Weight("release", Holding)
        /\ queueDepth' = queueDepth + Weight("down", Counted) - Weight("release", Counted)
    BY <1>0, <2>1 DEF Weight, Holding, Counted
  <2> QED
    BY <1>0, <1>2, <2>1, <2>2 DEF Steps, TypeOK
<1>9. CASE DepthDown(c)
  \* The caller is counted, so the count is positive and the clamp does nothing.
  <2>1. GoTo(c, "down", "idle") /\ UNCHANGED <<tokens, slots, cancelled, granted, ticks>>
        /\ Add(-1)
    BY <1>9 DEF DepthDown
  <2>2. c \in At(Counted)
    BY <2>1 DEF GoTo, At, Counted
  <2>3. queueDepth # 0
    BY <1>1, <2>2, FS_EmptySet
  <2>4. queueDepth' = queueDepth - 1
    BY <1>0, <2>1, <2>3 DEF Add
  <2>5. /\ slots' = slots + Weight("idle", Holding) - Weight("down", Holding)
        /\ queueDepth' = queueDepth + Weight("idle", Counted) - Weight("down", Counted)
    BY <1>0, <2>1, <2>4 DEF Weight, Holding, Counted
  <2> QED
    BY <1>0, <1>2, <2>1, <2>5 DEF Steps, TypeOK
<1> QED
  BY <1>3, <1>4, <1>5, <1>6, <1>7, <1>8, <1>9 DEF Acquire

\* Every step of the sender keeps the invariant.
LEMMA SenderStep == SenderInv /\ [Next]_vars => SenderInv'
<1> SUFFICES ASSUME SenderInv, [Next]_vars PROVE SenderInv'
  OBVIOUS
<1>1. ASSUME UNCHANGED <<slots, queueDepth, pc>>, TypeOK'
      PROVE  SenderInv'
  BY <1>1 DEF SenderInv, CountsInv, At
<1>2. ASSUME NEW c \in Callers, Cancel(c)
      PROVE  SenderInv'
  BY <1>1, <1>2 DEF Cancel, SenderInv, TypeOK
<1>3. CASE Refill
  BY <1>1, <1>3, RateLimiterAssumption DEF Refill, SenderInv, TypeOK
<1>4. CASE UNCHANGED vars
  BY <1>1, <1>4 DEF vars, SenderInv, TypeOK
<1> QED
  BY <1>2, <1>3, <1>4, AcquireKeeps DEF Next

\* The counts say what DepthExact says: the callers counted or about to be are the
\* callers with a slot and those that have just given theirs back.
LEMMA CountsExact == SenderInv => DepthExact
<1> SUFFICES ASSUME SenderInv PROVE DepthExact
  OBVIOUS
<1> DEFINE U == At({"up"})
           D == At({"down"})
           R == At({"wait", "release"})
<1>1. IsFiniteSet(At(Holding)) /\ IsFiniteSet(At(Counted))
  BY DEF SenderInv, CountsInv
<1>2. /\ At(Holding) = U \union R /\ U \intersect R = {}
      /\ At(Counted) = R \union D /\ R \intersect D = {}
  BY DEF At, Holding, Counted
<1> HIDE DEF U, D, R
<1>3. IsFiniteSet(U) /\ IsFiniteSet(R) /\ IsFiniteSet(D)
  BY <1>1, <1>2, FS_Subset
<1>4. /\ Cardinality(At(Holding)) = Cardinality(U) + Cardinality(R)
      /\ Cardinality(At(Counted)) = Cardinality(R) + Cardinality(D)
  <2>1. Cardinality(U) \in Nat /\ Cardinality(R) \in Nat /\ Cardinality(D) \in Nat
    BY <1>3, FS_CardinalityType
  <2>2. /\ Cardinality(U \union R) = Cardinality(U) + Cardinality(R) - Cardinality(U \intersect R)
        /\ Cardinality(R \union D) = Cardinality(R) + Cardinality(D) - Cardinality(R \intersect D)
    BY <1>3, FS_Union
  <2>3. Cardinality(U \intersect R) = 0 /\ Cardinality(R \intersect D) = 0
    BY <1>2, FS_EmptySet
  <2> QED
    BY <1>2, <2>1, <2>2, <2>3
<1>5. Cardinality(U) \in Nat /\ Cardinality(R) \in Nat /\ Cardinality(D) \in Nat
  BY <1>3, FS_CardinalityType
<1>6. slots = Cardinality(At(Holding)) /\ queueDepth = Cardinality(At(Counted))
  BY DEF SenderInv, CountsInv
<1> QED
  BY <1>4, <1>5, <1>6 DEF DepthExact, U, D, Counted

\* The invariant holds of the sender.
LEMMA SenderHolds == Spec => []SenderInv
BY SenderInit, SenderStep, PTL DEF Spec

\* The bucket and the queue stay within their capacities and no count goes below
\* zero, at every interleaving of any number of callers.
THEOREM SenderTyped == Spec => []TypeOK
<1>1. SenderInv => TypeOK
  BY DEF SenderInv
<1> QED
  BY <1>1, SenderHolds, PTL

\* The atomic count of waiting callers is exact, and its clamp at zero never acts.
THEOREM DepthHolds == Spec => []DepthExact
BY CountsExact, SenderHolds, PTL
=============================================================================
