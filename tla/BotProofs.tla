------------------------------ MODULE BotProofs ------------------------------
(***************************************************************************)
(* The confirmation tokens of the operator's commands, in the bot's loop:   *)
(* for any number of updates, polls, restarts and any confirmations.        *)
(***************************************************************************)
EXTENDS BotLoop, FiniteSetTheorems, TLAPS

\* Tokens are numbered as they are issued, so that the next one is always new.
Numbered == \E n \in Nat : DOMAIN asked = 1 .. n

\* The clock, and the times commands were asked for.
Clocked == now \in Nat /\ \A t \in DOMAIN asked : asked[t].at \in Nat

\* A pending entry is the command its token was issued for, with its deadline.
PendingTrue ==
    /\ DOMAIN pendingConfirm \subseteq DOMAIN asked
    /\ \A t \in DOMAIN pendingConfirm :
          /\ pendingConfirm[t].execute = asked[t].command
          /\ pendingConfirm[t].expiresAt = asked[t].at + TTL

\* A token whose command ran is no longer pending.
Consumed == \A r \in ran : r.token \notin DOMAIN pendingConfirm

\* The inductive invariant of the confirmations.
ConfirmInv == Numbered /\ Clocked /\ PendingTrue /\ Consumed /\ RunsOnce /\ RunsInTime
-----------------------------------------------------------------------------
\* A new token is none of those that were issued.
LEMMA TokenNew ==
    ASSUME Numbered
    PROVE  randomToken \notin DOMAIN asked /\ \E n \in Nat : DOMAIN asked \union {randomToken} = 1 .. n
<1>1. PICK n \in Nat : DOMAIN asked = 1 .. n
  BY DEF Numbered
<1>2. Cardinality(1 .. n) = n
  BY FS_Interval
<1>3. randomToken = n + 1
  BY <1>1, <1>2 DEF randomToken
<1>4. DOMAIN asked \union {randomToken} = 1 .. n + 1
  BY <1>1, <1>3
<1> QED
  BY <1>1, <1>3, <1>4

\* The map starts empty.
LEMMA ConfirmStarts == ConfirmInit => ConfirmInv
<1> SUFFICES ASSUME ConfirmInit PROVE ConfirmInv
  OBVIOUS
<1>1. DOMAIN asked = 1 .. 0 /\ DOMAIN pendingConfirm = {} /\ DOMAIN asked = {}
  BY DEF ConfirmInit
<1> QED
  BY <1>1 DEF ConfirmInit, ConfirmInv, Numbered, Clocked, PendingTrue, Consumed, RunsOnce, RunsInTime

\* registerConfirm: what was pending and is not purged stays, and the new entry is
\* under a token nothing ran for.
LEMMA RegisterKeeps ==
    ASSUME ConfirmInv, NEW command, registerConfirm(command), UNCHANGED now
    PROVE  ConfirmInv'
<1> DEFINE k == randomToken
           purged == purgeExpiredLocked(pendingConfirm)
<1>1. k \notin DOMAIN asked /\ \E n \in Nat : DOMAIN asked \union {k} = 1 .. n
  BY TokenNew DEF ConfirmInv
<1>2. /\ DOMAIN asked' = DOMAIN asked \union {k}
      /\ asked'[k].command = command /\ asked'[k].at = now
      /\ \A t \in DOMAIN asked : asked'[t] = asked[t]
  BY <1>1 DEF registerConfirm, Bind
<1>3. /\ DOMAIN purged \subseteq DOMAIN pendingConfirm
      /\ \A t \in DOMAIN purged : purged[t] = pendingConfirm[t]
  BY DEF purgeExpiredLocked
<1>4. /\ DOMAIN pendingConfirm' = DOMAIN purged \union {k}
      /\ pendingConfirm'[k].execute = command /\ pendingConfirm'[k].expiresAt = now + TTL
      /\ \A t \in DOMAIN purged : t # k => pendingConfirm'[t] = purged[t]
  BY DEF registerConfirm, Bind
<1> HIDE DEF k, purged
<1>5. ran' = ran
  BY DEF registerConfirm
<1>6. Numbered' /\ Clocked'
  BY <1>1, <1>2 DEF ConfirmInv, Numbered, Clocked
<1>7. PendingTrue'
  BY <1>1, <1>2, <1>3, <1>4 DEF ConfirmInv, PendingTrue
<1>8. Consumed' /\ RunsOnce' /\ RunsInTime'
  BY <1>1, <1>2, <1>3, <1>4, <1>5 DEF ConfirmInv, Consumed, RunsOnce, RunsInTime
<1> QED
  BY <1>6, <1>7, <1>8 DEF ConfirmInv

\* consumeConfirm: the entry goes with the run.
LEMMA ConsumeKeeps ==
    ASSUME ConfirmInv, NEW token, consumeConfirm(token), UNCHANGED now
    PROVE  ConfirmInv'
<1>1. /\ DOMAIN pendingConfirm' = DOMAIN pendingConfirm \ {token}
      /\ \A t \in DOMAIN pendingConfirm \ {token} : pendingConfirm'[t] = pendingConfirm[t]
      /\ asked' = asked
  BY DEF consumeConfirm, Unbind
<1>2. Numbered' /\ Clocked' /\ PendingTrue'
  BY <1>1 DEF ConfirmInv, Numbered, Clocked, PendingTrue
<1>3. CASE ran' = ran
  BY <1>1, <1>2, <1>3 DEF ConfirmInv, Consumed, RunsOnce, RunsInTime
<1>4. CASE Valid(token) /\ ran' = ran \union {Run(token, pendingConfirm[token].execute)}
  <2> DEFINE r == Run(token, pendingConfirm[token].execute)
  <2>1. token \in DOMAIN pendingConfirm /\ token \in DOMAIN asked
        /\ ~(now > pendingConfirm[token].expiresAt)
    BY <1>4 DEF Valid, Expired, ConfirmInv, PendingTrue
  <2>2. {q \in ran : q.token = token} = {}
    BY <2>1 DEF ConfirmInv, Consumed
  <2>3. /\ r.token = token /\ r.command = pendingConfirm[token].execute
        /\ r.at = now /\ r.number = 1
    BY <2>2, FS_EmptySet DEF Run
  <2>4. r.command = asked[token].command
    BY <2>1, <2>3 DEF ConfirmInv, PendingTrue
  <2>5. r.at - asked[token].at <= TTL
    BY <2>1, <2>3, ConfirmAssumption DEF ConfirmInv, PendingTrue, Clocked
  <2> HIDE DEF r
  <2>6. ran' = ran \union {r}
    BY <1>4 DEF r
  <2> QED
    BY <1>1, <1>2, <2>1, <2>3, <2>4, <2>5, <2>6 DEF ConfirmInv, Consumed, RunsOnce, RunsInTime
<1> QED
  BY <1>3, <1>4 DEF consumeConfirm

\* The end of the process forgets what was pending, not what ran.
LEMMA ForgetKeeps ==
    ASSUME ConfirmInv, ConfirmsForgotten, UNCHANGED now
    PROVE  ConfirmInv'
<1>1. DOMAIN pendingConfirm' = {} /\ asked' = asked /\ ran' = ran
  BY DEF ConfirmsForgotten
<1> QED
  BY <1>1 DEF ConfirmInv, Numbered, Clocked, PendingTrue, Consumed, RunsOnce, RunsInTime

\* Time passes.
LEMMA TickKeeps ==
    ASSUME ConfirmInv, now' = now + 1, UNCHANGED confirmVars
    PROVE  ConfirmInv'
BY DEF ConfirmInv, confirmVars, Numbered, Clocked, PendingTrue, Consumed, RunsOnce, RunsInTime

\* Of the bot's steps only the handling of an update, the restart and the clock
\* touch the confirmations.
LEMMA ConfirmSteps == ConfirmInv /\ [Next]_vars => ConfirmInv'
<1> SUFFICES ASSUME ConfirmInv, [Next]_vars PROVE ConfirmInv'
  OBVIOUS
<1>1. CASE UNCHANGED <<confirmVars, now>>
  BY <1>1 DEF ConfirmInv, confirmVars, Numbered, Clocked, PendingTrue, Consumed, RunsOnce, RunsInTime
<1>2. CASE Handle
  <2>1. UNCHANGED now /\ handleBotUpdate(Head(channel))
    BY <1>2 DEF Handle
  <2> QED
    BY <1>1, <2>1, RegisterKeeps, ConsumeKeeps DEF handleBotUpdate
<1>3. CASE Restart
  BY <1>3, ForgetKeeps DEF Restart
<1>4. CASE Tick
  BY <1>4, TickKeeps DEF Tick
<1>5. ASSUME NEW update, Post(update)
      PROVE  UNCHANGED <<confirmVars, now>>
  BY <1>5 DEF Post
<1>6. CASE Poll \/ PollFails \/ Push \/ PollerStops \/ SpareExits
  BY <1>1, <1>6 DEF Poll, PollFails, Push, PollerStops, PollerLeaves, PollerExits, SpareExits
<1>7. CASE GetUpdates \/ Return \/ Shutdown
  BY <1>1, <1>7 DEF GetUpdates, Return, Shutdown
<1>8. CASE UNCHANGED vars
  BY <1>1, <1>8 DEF vars
<1> QED
  BY <1>1, <1>2, <1>3, <1>4, <1>5, <1>6, <1>7, <1>8 DEF Next, LoopStep

\* The invariant holds of the bot.
LEMMA ConfirmHolds == Spec => []ConfirmInv
<1>1. Init => ConfirmInv
  BY ConfirmStarts DEF Init
<1> QED
  BY <1>1, ConfirmSteps, PTL DEF Spec

\* However often and however late confirmations arrive, and across restarts and
\* repeated deliveries of an update, a token runs its own command, once.
THEOREM TokensRunOnce == Spec => []RunsOnce
<1>1. ConfirmInv => RunsOnce
  BY DEF ConfirmInv
<1> QED
  BY <1>1, ConfirmHolds, PTL

\* No command runs later than TTL after it was asked for.
THEOREM TokensRunInTime == Spec => []RunsInTime
<1>1. ConfirmInv => RunsInTime
  BY DEF ConfirmInv
<1> QED
  BY <1>1, ConfirmHolds, PTL
-----------------------------------------------------------------------------
(* The updates on their way from MAX to the handler. *)

Updates == [kind : {"replay", "plain", "other", "confirm"}, token : Nat]

\* Where MAX and the poller are.  The poller polls only when it has pushed its page.
Placed ==
    /\ log \in Seq(Updates)
    /\ committed \in Nat /\ start \in Nat /\ From \in Nat
    /\ committed <= From /\ start <= From /\ From <= Len(log)
    /\ handled \in Seq(Nat) /\ channel \in Seq(Nat) /\ page \in Seq(Nat)
    /\ poller = "poll" => page = <<>>
    /\ poller = "push" => page # <<>>

\* The inductive invariant of the updates.
FlowInv == Placed /\ Pipeline

\* An element that goes from the head of one sequence to the end of the one before.
LEMMA Moves ==
    ASSUME NEW S, NEW a \in Seq(S), NEW b \in Seq(S), b # <<>>
    PROVE  /\ Head(b) \in S /\ Tail(b) \in Seq(S) /\ Append(a, Head(b)) \in Seq(S)
           /\ Append(a, Head(b)) \o Tail(b) = a \o b
<1>1. Head(b) \in S /\ Tail(b) \in Seq(S) /\ Append(a, Head(b)) \in Seq(S)
  OBVIOUS
<1>2. PICK x \in S : x = Head(b)
  BY <1>1
<1>3. PICK t \in Seq(S) : t = Tail(b)
  BY <1>1
<1>4. /\ Len(b) = 1 + Len(t) /\ b[1] = x /\ Len(t) \in Nat /\ Len(a) \in Nat
      /\ \A i \in 1 .. Len(t) : t[i] = b[i + 1]
  BY <1>2, <1>3
<1>5. PICK c : c = Append(a, x)
  OBVIOUS
<1>6. c \in Seq(S) /\ Len(c) = Len(a) + 1 /\ c[Len(a) + 1] = x /\ \A i \in 1 .. Len(a) : c[i] = a[i]
  BY <1>5
<1>7. Len(c \o t) = Len(a \o b) /\ c \o t \in Seq(S) /\ a \o b \in Seq(S)
  <2>0. \A u, v \in Seq(S) : Len(u \o v) = Len(u) + Len(v) /\ u \o v \in Seq(S)
    OBVIOUS
  <2>1. Len(c \o t) = Len(c) + Len(t) /\ c \o t \in Seq(S)
    BY <1>3, <1>6, <2>0
  <2>2. Len(a \o b) = Len(a) + Len(b) /\ a \o b \in Seq(S)
    BY <2>0
  <2> QED
    BY <1>4, <1>6, <2>1, <2>2
<1>8. ASSUME NEW i \in 1 .. Len(a \o b)
      PROVE  (c \o t)[i] = (a \o b)[i]
  <2>0. i \in Nat /\ i >= 1 /\ i <= Len(a) + 1 + Len(t)
    BY <1>4, <1>8
  <2>1. CASE i <= Len(a)
    BY <1>4, <1>6, <2>0, <2>1
  <2>2. CASE i = Len(a) + 1
    BY <1>4, <1>6, <2>0, <2>2
  <2>3. CASE i > Len(a) + 1
    <3>1. (c \o t)[i] = t[i - (Len(a) + 1)] /\ (a \o b)[i] = b[i - Len(a)]
      BY <1>4, <1>6, <2>0, <2>3
    <3>2. i - (Len(a) + 1) \in 1 .. Len(t) /\ (i - (Len(a) + 1)) + 1 = i - Len(a)
      BY <1>4, <2>0, <2>3
    <3> QED
      BY <1>4, <3>1, <3>2
  <2>4. i <= Len(a) \/ i = Len(a) + 1 \/ i > Len(a) + 1
    BY <1>4, <2>0
  <2> QED
    BY <2>1, <2>2, <2>3, <2>4
<1>9. c \o t = a \o b
  BY <1>7, <1>8
<1> QED
  BY <1>1, <1>2, <1>3, <1>5, <1>9

\* An element appended to the second of two sequences.
LEMMA AppendsLast ==
    ASSUME NEW S, NEW a \in Seq(S), NEW b \in Seq(S), NEW x \in S
    PROVE  a \o Append(b, x) = Append(a \o b, x)
OBVIOUS

\* What comes after in the numbering comes after in the sequence.
LEMMA Continues ==
    ASSUME NEW a \in Seq(Nat), NEW b \in Seq(Nat), NEW A, NEW B, Enumerates(a, A), Enumerates(b, B),
           \A x \in A, y \in B : x < y
    PROVE  Enumerates(a \o b, A \union B)
<1> DEFINE s == a \o b
           n == Len(a)
<1>1. /\ n \in Nat /\ Len(b) \in Nat /\ DOMAIN a = 1 .. n /\ DOMAIN b = 1 .. Len(b) /\ DOMAIN s = 1 .. n + Len(b)
      /\ \A i \in DOMAIN a : i \in DOMAIN s /\ s[i] = a[i]
      /\ \A i \in DOMAIN b : i + n \in DOMAIN s /\ s[i + n] = b[i]
      /\ \A i \in DOMAIN s : i \in Nat /\ (i \in DOMAIN a \/ i - n \in DOMAIN b)
  OBVIOUS
<1>2. \A i \in DOMAIN s : i \notin DOMAIN a => i - n \in DOMAIN b /\ s[i] = b[i - n] /\ i > n
  BY <1>1
<1>3. (\A i \in DOMAIN a : a[i] \in A /\ a[i] \in Nat) /\ (\A i \in DOMAIN b : b[i] \in B /\ b[i] \in Nat)
  BY DEF Enumerates
<1> HIDE DEF s, n
<1>4. {s[i] : i \in DOMAIN s} = A \union B
  <2>1. ASSUME NEW i \in DOMAIN s
        PROVE  s[i] \in A \union B
    BY <1>1, <1>2, <1>3
  <2>2. ASSUME NEW x \in A
        PROVE  \E i \in DOMAIN s : s[i] = x
    <3>1. PICK i \in DOMAIN a : a[i] = x
      BY DEF Enumerates
    <3> QED
      BY <1>1, <3>1
  <2>3. ASSUME NEW y \in B
        PROVE  \E i \in DOMAIN s : s[i] = y
    <3>1. PICK i \in DOMAIN b : b[i] = y
      BY DEF Enumerates
    <3> QED
      BY <1>1, <3>1
  <2> QED
    BY <2>1, <2>2, <2>3
<1>5. ASSUME NEW i \in DOMAIN s, NEW j \in DOMAIN s, i < j
      PROVE  s[i] < s[j]
  <2>1. CASE j \in DOMAIN a
    <3>1. i \in DOMAIN a
      BY <1>1, <1>5, <2>1
    <3> QED
      BY <1>1, <1>5, <2>1, <3>1 DEF Enumerates
  <2>2. CASE i \in DOMAIN a /\ j \notin DOMAIN a
    BY <1>1, <1>2, <1>3, <2>2
  <2>3. CASE i \notin DOMAIN a /\ j \notin DOMAIN a
    <3>1. i - n \in DOMAIN b /\ j - n \in DOMAIN b /\ i - n < j - n /\ s[i] = b[i - n] /\ s[j] = b[j - n]
      BY <1>1, <1>2, <1>5, <2>3
    <3> QED
      BY <3>1 DEF Enumerates
  <2> QED
    BY <1>1, <1>2, <1>5, <2>1, <2>2, <2>3
<1> QED
  BY <1>4, <1>5 DEF Enumerates, s

\* At the beginning, and after a restart.
LEMMA FlowStarts ==
    ASSUME NEW k \in Nat, log \in Seq(Updates), k <= Len(log), marker = NoMarker, committed = k, start = k,
           handled = <<>>, channel = <<>>, page = <<>>, poller = "poll"
    PROVE  FlowInv
<1>1. From = k
  BY DEF From
<1>2. handled \in Seq(Nat) /\ channel \in Seq(Nat) /\ page \in Seq(Nat)
  OBVIOUS
<1>3. Placed
  BY <1>1, <1>2 DEF Placed
<1>4. Decoded(start, From) = {}
  BY <1>1 DEF Decoded
<1>5. PICK s : s = handled \o channel \o page
  OBVIOUS
<1>6. DOMAIN s = {}
  BY <1>5
<1>7. Enumerates(s, {})
  BY <1>6 DEF Enumerates
<1> QED
  BY <1>3, <1>4, <1>5, <1>7 DEF FlowInv, Pipeline

\* A step that changes neither what is on its way nor where the poller goes on.
LEMMA FlowStays ==
    ASSUME FlowInv, From' = From, start' = start, log' \in Seq(Updates), Len(log) <= Len(log'),
           \A i \in 1 .. Len(log) : log'[i] = log[i],
           committed' \in Nat, committed' <= From,
           handled' \in Seq(Nat), channel' \in Seq(Nat), page' \in Seq(Nat),
           handled' \o channel' \o page' = handled \o channel \o page,
           poller' = "poll" => page' = <<>>, poller' = "push" => page' # <<>>
    PROVE  FlowInv'
<1>0. start \in Nat /\ From \in Nat /\ From <= Len(log) /\ Len(log) \in Nat /\ Len(log') \in Nat
  <2>1. start \in Nat /\ From \in Nat /\ From <= Len(log) /\ log \in Seq(Updates)
    BY DEF FlowInv, Placed
  <2> QED
    BY <2>1
<1>1. Placed'
  BY <1>0 DEF FlowInv, Placed
<1>2. {i \in start' + 1 .. From' : log'[i].kind # "other"} = {i \in start + 1 .. From : log[i].kind # "other"}
  <2>1. \A i \in start + 1 .. From : i \in 1 .. Len(log)
    BY <1>0
  <2> QED
    BY <2>1
<1>3. Decoded(start, From)' = Decoded(start, From)
  BY <1>2 DEF Decoded
<1>4. PICK s : s = handled \o channel \o page
  OBVIOUS
<1>5. Enumerates(s, Decoded(start, From))
  BY <1>4 DEF FlowInv, Pipeline
<1>6. Enumerates(s, Decoded(start, From)')
  BY <1>3, <1>5
<1>7. s = handled' \o channel' \o page'
  BY <1>4
<1>8. Pipeline'
  BY <1>6, <1>7 DEF Pipeline, Enumerates
<1> QED
  BY <1>1, <1>8 DEF FlowInv

\* A page: the updates from where the poller was to where it goes on.
LEMMA FlowPolls ==
    ASSUME FlowInv, Poll
    PROVE  FlowInv'
<1> DEFINE to == IF From + PageLimit < Len(log) THEN From + PageLimit ELSE Len(log)
           new == Decoded(From, to)
<1>0. /\ log \in Seq(Updates) /\ start \in Nat /\ From \in Nat /\ start <= From /\ From <= Len(log)
      /\ handled \in Seq(Nat) /\ channel \in Seq(Nat) /\ page = <<>> /\ Len(log) \in Nat /\ PageLimit \in Nat
  BY BotAssumption DEF FlowInv, Placed, Poll
<1>1. to \in Nat /\ From <= to /\ to <= Len(log)
  BY <1>0
<1>2. /\ page' \in [1 .. Cardinality(new) -> new] /\ Enumerates(page', new)
      /\ marker' = to \/ (to = From /\ marker' = NoMarker)
      /\ committed' = From /\ poller' = (IF page' = <<>> THEN "poll" ELSE "push")
      /\ UNCHANGED <<log, start, handled, channel>>
  BY DEF Poll, serverVars
<1>3. new \subseteq Nat /\ IsFiniteSet(new)
  <2>1. new \subseteq From + 1 .. to
    BY DEF Decoded
  <2> HIDE DEF to, new
  <2>2. From + 1 \in Nat /\ to \in Nat
    BY <1>0, <1>1
  <2>3. IsFiniteSet(From + 1 .. to)
    BY <2>2, FS_Interval
  <2>4. From + 1 .. to \subseteq Nat
    BY <2>2
  <2> QED
    BY <2>1, <2>3, <2>4, FS_Subset
<1>4. \A x \in Decoded(start, From), y \in new : x < y
  BY <1>0, <1>1 DEF Decoded
<1>5. Decoded(start, From) \union new = {i \in start + 1 .. to : log[i].kind # "other"}
  BY <1>0, <1>1 DEF Decoded
<1> HIDE DEF new
<1>6. Cardinality(new) \in Nat
  BY <1>3, FS_CardinalityType
<1>7. page' \in Seq(Nat)
  <2>1. PICK n \in Nat : n = Cardinality(new)
    BY <1>6
  <2>2. page' \in [1 .. n -> Nat]
    BY <1>2, <1>3, <2>1
  <2> QED
    BY <2>2
<1> HIDE DEF to
<1>8. From' = to
  BY <1>1, <1>2 DEF From, NoMarker
<1>9. Placed'
  BY <1>0, <1>1, <1>2, <1>7, <1>8 DEF Placed
<1>10. PICK s : s = handled \o channel
  OBVIOUS
<1>11. s \in Seq(Nat) /\ Enumerates(s, Decoded(start, From))
  <2>1. s \in Seq(Nat)
    BY <1>0, <1>10
  <2>2. s \o page = s
    BY <1>0, <2>1
  <2> QED
    BY <1>10, <2>1, <2>2 DEF FlowInv, Pipeline
<1>12. Enumerates(s \o page', Decoded(start, From) \union new)
  BY <1>2, <1>4, <1>7, <1>11, Continues
<1>13. Decoded(start, From)' = Decoded(start, From) \union new
  BY <1>2, <1>5, <1>8 DEF Decoded
<1>14. Enumerates(s \o page', Decoded(start, From)')
  BY <1>12, <1>13
<1>15. s = handled' \o channel'
  BY <1>2, <1>10
<1>16. Pipeline'
  BY <1>14, <1>15 DEF Pipeline, Enumerates
<1> QED
  BY <1>9, <1>16 DEF FlowInv

\* An update goes into the channel.
LEMMA FlowPushes ==
    ASSUME FlowInv, Push
    PROVE  FlowInv'
<1>0. /\ log \in Seq(Updates) /\ From \in Nat /\ committed \in Nat /\ committed <= From
      /\ handled \in Seq(Nat) /\ channel \in Seq(Nat) /\ page \in Seq(Nat) /\ page # <<>>
  BY DEF FlowInv, Placed, Push
<1>1. /\ channel' = Append(channel, Head(page)) /\ page' = Tail(page)
      /\ poller' = (IF page' = <<>> THEN "poll" ELSE "push")
      /\ UNCHANGED <<log, committed, marker, start, handled>>
  BY DEF Push, serverVars
<1>2. Head(page) \in Nat /\ Tail(page) \in Seq(Nat)
  BY <1>0
<1>3. PICK s : s = handled \o channel
  OBVIOUS
<1>4. s \in Seq(Nat)
  BY <1>0, <1>3
<1>5. Append(s, Head(page)) \o Tail(page) = s \o page
  BY <1>0, <1>4, Moves
<1>6. handled \o Append(channel, Head(page)) = Append(s, Head(page))
  <2>1. PICK x \in Nat : x = Head(page)
    BY <1>2
  <2>2. handled \o Append(channel, x) = Append(handled \o channel, x)
    BY <1>0, AppendsLast
  <2> QED
    BY <1>3, <2>1, <2>2
<1>7. handled' \o channel' \o page' = handled \o channel \o page
  BY <1>1, <1>3, <1>5, <1>6
<1>8. channel' \in Seq(Nat) /\ page' \in Seq(Nat)
  BY <1>0, <1>1, <1>2
<1>9. From' = From
  BY <1>1 DEF From, NoMarker
<1>10. Len(log) <= Len(log')
  BY <1>0, <1>1
<1> QED
  BY <1>0, <1>1, <1>7, <1>8, <1>9, <1>10, FlowStays

\* An update is taken from the channel.
LEMMA FlowTakes ==
    ASSUME FlowInv, Handle
    PROVE  FlowInv'
<1>0. /\ log \in Seq(Updates) /\ From \in Nat /\ committed \in Nat /\ committed <= From
      /\ handled \in Seq(Nat) /\ channel \in Seq(Nat) /\ page \in Seq(Nat) /\ channel # <<>>
      /\ poller = "poll" => page = <<>>
      /\ poller = "push" => page # <<>>
  BY DEF FlowInv, Placed, Handle
<1>1. /\ handled' = Append(handled, Head(channel)) /\ channel' = Tail(channel)
      /\ UNCHANGED <<log, committed, poller, marker, page, start>>
  BY DEF Handle, serverVars, pollerVars
<1>2. /\ Append(handled, Head(channel)) \in Seq(Nat) /\ Tail(channel) \in Seq(Nat)
      /\ Append(handled, Head(channel)) \o Tail(channel) = handled \o channel
  BY <1>0, Moves
<1>3. handled' \o channel' \o page' = handled \o channel \o page
  BY <1>1, <1>2
<1>4. From' = From
  BY <1>1 DEF From, NoMarker
<1>5. Len(log) <= Len(log')
  BY <1>0, <1>1
<1> QED
  BY <1>0, <1>1, <1>2, <1>3, <1>4, <1>5, FlowStays

\* Every step of MAX, the poller and the loop keeps the invariant.
LEMMA FlowSteps ==
    ASSUME FlowInv, ConfirmInv, [Next]_vars
    PROVE  FlowInv'
<1>0. /\ log \in Seq(Updates) /\ From \in Nat /\ committed \in Nat /\ committed <= From /\ From <= Len(log)
      /\ handled \in Seq(Nat) /\ channel \in Seq(Nat) /\ page \in Seq(Nat) /\ Len(log) \in Nat
      /\ poller = "poll" => page = <<>>
      /\ poller = "push" => page # <<>>
  BY DEF FlowInv, Placed
<1>1. ASSUME UNCHANGED <<log, committed, marker, page, channel, start, handled>>, poller' \in {poller, "leaving", "exited"}
      PROVE  FlowInv'
  <2>1. From' = From /\ Len(log) <= Len(log')
    BY <1>0, <1>1 DEF From, NoMarker
  <2> QED
    BY <1>0, <1>1, <2>1, FlowStays
<1>2. ASSUME NEW update \in Updates, Post(update)
      PROVE  FlowInv'
  <2>1. log' = Append(log, update) /\ UNCHANGED <<committed, poller, marker, page, channel, start, handled>>
    BY <1>2 DEF Post, pollerVars
  <2>2. log' \in Seq(Updates) /\ Len(log) <= Len(log') /\ \A i \in 1 .. Len(log) : log'[i] = log[i]
    BY <1>0, <1>2, <2>1
  <2>3. From' = From
    BY <2>1 DEF From, NoMarker
  <2> QED
    BY <1>0, <2>1, <2>2, <2>3, FlowStays
<1>3. CASE PollFails
  <2>1. /\ committed' \in {committed, From} /\ UNCHANGED <<log, poller, marker, page, channel, start, handled>>
    BY <1>3 DEF PollFails, pollerVars
  <2>2. From' = From
    BY <2>1 DEF From, NoMarker
  <2>3. committed' \in Nat /\ committed' <= From /\ Len(log) <= Len(log')
    BY <1>0, <2>1
  <2> QED
    BY <1>0, <2>1, <2>2, <2>3, FlowStays
<1>4. CASE Restart
  <2>1. /\ marker' = NoMarker /\ page' = <<>> /\ channel' = <<>> /\ poller' = "poll"
        /\ start' = committed /\ handled' = <<>> /\ UNCHANGED <<log, committed>>
    BY <1>4 DEF Restart, serverVars
  <2>2. From' = committed
    BY <2>1 DEF From, NoMarker
  <2>3. handled' \in Seq(Nat) /\ channel' \in Seq(Nat) /\ page' \in Seq(Nat)
    BY <2>1
  <2>4. Placed'
    BY <1>0, <2>1, <2>2, <2>3 DEF Placed
  <2>5. Decoded(start, From)' = {}
    BY <1>0, <2>1, <2>2 DEF Decoded
  <2>6. PICK s : s = handled' \o channel' \o page'
    OBVIOUS
  <2>7. DOMAIN s = {}
    BY <2>1, <2>6
  <2>8. Pipeline'
    BY <2>5, <2>6, <2>7 DEF Pipeline, Enumerates
  <2> QED
    BY <2>4, <2>8 DEF FlowInv
<1>5. CASE PollerStops \/ SpareExits \/ GetUpdates \/ Return \/ Shutdown \/ Tick \/ UNCHANGED vars
  BY <1>1, <1>5 DEF PollerStops, PollerLeaves, PollerExits, SpareExits, GetUpdates, Return, Shutdown,
                    Tick, vars, serverVars, pollerVars
<1>6. CASE Poll \/ Push \/ Handle
  BY <1>6, FlowPolls, FlowPushes, FlowTakes
<1>7. ASSUME NEW kind \in {"replay", "plain", "other"}
      PROVE  [kind |-> kind, token |-> 0] \in Updates
  BY DEF Updates
<1>8. ASSUME NEW token \in DOMAIN asked
      PROVE  [kind |-> "confirm", token |-> token] \in Updates
  BY DEF Updates, ConfirmInv, Numbered
<1> QED
  BY <1>2, <1>3, <1>4, <1>5, <1>6, <1>7, <1>8 DEF Next, LoopStep

\* Nothing is lost, repeated or reordered between MAX and the handler of updates, for
\* any sizes of the pages and of the channel, any polls that fail and any restarts
\* (GetUpdates, getUpdatesPage and RunBotLoopWithUsername together).
THEOREM UpdatesFlow == Spec => []Pipeline
<1>1. ASSUME Init
      PROVE  FlowInv
  <2>1. log \in Seq(Updates) /\ 0 <= Len(log)
    BY <1>1 DEF Init
  <2> QED
    BY <1>1, <2>1, FlowStarts DEF Init, Fresh
<1>2. FlowInv /\ ConfirmInv /\ [Next]_vars => FlowInv'
  BY FlowSteps
<1>3. FlowInv => Pipeline
  BY DEF FlowInv
<1> QED
  BY <1>1, <1>2, <1>3, ConfirmHolds, PTL DEF Spec
=============================================================================
