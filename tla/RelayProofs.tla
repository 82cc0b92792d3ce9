----------------------------- MODULE RelayProofs -----------------------------
(***************************************************************************)
(* Theorems about Relay for any number of calls, chats, units and retries.  *)
(***************************************************************************)
EXTENDS Relay, FiniteSetTheorems, SequenceTheorems, TLAPS

Cursor == <<target, unit>>
MailUnits == (1 .. targets) \X (1 .. units)

\* The types of what the proofs look at, and what the steps of a call imply of each
\* other: a result is there when the call is over, and a pause has a retry after it.
Typed ==
    /\ pc \in {"idle", "parse", "send", "wait", "failed"}
    /\ targets \in Nat \ {0} /\ units \in Nat \ {0}
    /\ target \in 1 .. targets /\ unit \in 1 .. units
    /\ attempt \in 0 .. MaxSendRetries
    /\ result \in {"none", "ok", "parse", "send"}
    /\ taken \in Seq(MailUnits)
    /\ result # "none" => pc = "idle"
    /\ pc = "wait" => attempt < MaxSendRetries
-----------------------------------------------------------------------------
(* The kinds of steps, by what they do to the mail on its way. *)

Started ==
    /\ pc = "idle" /\ pc' = "parse" /\ result' = "none"
    /\ targets' \in Nat \ {0} /\ units' \in Nat \ {0}
    /\ target' = 1 /\ unit' = 1 /\ attempt' = 0
    /\ taken' = <<>>

SameMail == UNCHANGED <<targets, units>>

\* MAX took nothing, and the call is still with the same unit.
Moved ==
    /\ SameMail /\ UNCHANGED <<target, unit, taken>>
    /\ \/ UNCHANGED <<pc, attempt, result>>
       \/ pc = "parse" /\ pc' = "send" /\ UNCHANGED <<attempt, result>>
       \/ pc \in {"parse", "failed"} /\ pc' = "idle" /\ result' \in {"parse", "send"} /\ UNCHANGED attempt
       \/ /\ pc = "send" /\ pc' = IF attempt = MaxSendRetries THEN "failed" ELSE "wait"
          /\ UNCHANGED <<attempt, result>>
       \/ pc = "wait" /\ pc' = "failed" /\ UNCHANGED <<attempt, result>>
       \/ pc = "wait" /\ pc' = "send" /\ attempt' = attempt + 1 /\ UNCHANGED result

\* MAX took the unit.
Took == pc = "send" /\ SameMail /\ taken' = Append(taken, Cursor)

\* It did, but the call does not know.
TookUnknown ==
    /\ Took
    /\ pc' = IF attempt = MaxSendRetries THEN "failed" ELSE "wait"
    /\ UNCHANGED <<target, unit, attempt, result>>

TookNext ==
    /\ Took
    /\ pc' = "send" /\ attempt' = 0 /\ UNCHANGED result
    /\ \/ unit < units /\ unit' = unit + 1 /\ UNCHANGED target
       \/ unit = units /\ target < targets /\ unit' = 1 /\ target' = target + 1

TookLast ==
    /\ Took
    /\ unit = units /\ target = targets /\ UNCHANGED <<target, unit>>
    /\ pc' = "idle" /\ attempt' = 0 /\ result' = "ok"

RelayKinds == Started \/ Moved \/ TookUnknown \/ TookNext \/ TookLast

\* What a step of BotSender did: the unit was taken in the last post of it, if at all,
\* and a post that is repeated was not.
LEMMA SendTakes ==
    ASSUME NEW message, NEW validId, NEW outcome,
           SendText(message, validId, outcome) \/ SendFile(message, validId, outcome)
    PROVE  \/ taken' = Append(taken, message) /\ outcome \in {"ok", "error"}
           \/ taken' = taken /\ outcome \in {"error", "running"}
<1>1. CASE SendText(message, validId, outcome)
  BY <1>1 DEF SendText, Post, Answers
<1>2. CASE UploadFile(validId, outcome) \/ ReadyPause(outcome)
  BY <1>2 DEF UploadFile, ReadyPause
<1>3. CASE sendFileMessage(message, outcome)
  BY <1>3 DEF sendFileMessage, Post, Answers, Again
<1> QED
  BY <1>1, <1>2, <1>3 DEF SendFile

\* Every step is of one of the kinds.
LEMMA Kinds ==
    ASSUME Typed, [Next]_vars
    PROVE  RelayKinds
<1>1. ASSUME NEW replay \in BOOLEAN, NEW n \in 1 .. MaxTargets, NEW m \in 1 .. MaxUnits,
             NEW bad \in SUBSET (1 .. n), NEW c \in 1 .. m, Relay(replay, n, bad, c, m)
      PROVE  Started
  <2>1. n \in Nat \ {0} /\ m \in Nat \ {0}
    BY RelayAssumption
  <2> QED
    BY <1>1, <2>1 DEF Relay, Started
<1>2. CASE ContextDone \/ DayPasses \/ UNCHANGED vars
  BY <1>2 DEF ContextDone, DayPasses, vars, mailVars, senderVars, RelayKinds, Moved, SameMail
<1>3. CASE Parse
  BY <1>3 DEF Parse, mailVars, senderVars, RelayKinds, Moved, SameMail
<1>4. CASE ParseFails
  BY <1>4 DEF ParseFails, Return, mailVars, senderVars, RelayKinds, Moved, SameMail
<1>5. ASSUME NEW outcome \in {"ok", "error", "running"}, Send(outcome)
      PROVE  RelayKinds
  <2>1. pc = "send" /\ SameMail
    BY <1>5 DEF Send, mailVars, SameMail
  <2>2. \/ taken' = Append(taken, Cursor) /\ outcome \in {"ok", "error"}
        \/ taken' = taken /\ outcome \in {"error", "running"}
    BY <1>5, SendTakes DEF Send, Cursor
  <2>3. CASE outcome = "ok"
    <3>1. Advance /\ Took
      BY <1>5, <2>1, <2>2, <2>3 DEF Send, Took
    <3> QED
      BY <3>1 DEF Advance, Return, RelayKinds, TookNext, TookLast
  <2>4. CASE outcome = "error"
    <3>1. /\ pc' = IF attempt = MaxSendRetries THEN "failed" ELSE "wait"
          /\ UNCHANGED <<target, unit, attempt, result>>
      BY <1>5, <2>4 DEF Send, AfterFailure
    <3>2. CASE taken' = Append(taken, Cursor)
      BY <2>1, <3>1, <3>2 DEF RelayKinds, TookUnknown, Took
    <3>3. CASE taken' = taken
      BY <2>1, <3>1, <3>3 DEF RelayKinds, Moved
    <3> QED
      BY <2>2, <3>2, <3>3
  <2>5. CASE outcome = "running"
    BY <1>5, <2>1, <2>2, <2>5 DEF Send, RelayKinds, Moved
  <2> QED
    BY <2>3, <2>4, <2>5
<1>6. CASE Pause
  BY <1>6 DEF Pause, mailVars, senderVars, RelayKinds, Moved, SameMail
<1>7. ASSUME NEW ok \in BOOLEAN, Fail(ok)
      PROVE  RelayKinds
  BY <1>7 DEF Fail, Return, mailVars, senderVars, RelayKinds, Moved, SameMail
<1> QED
  BY <1>1, <1>2, <1>3, <1>4, <1>5, <1>6, <1>7 DEF Next, Step, RelayKinds

\* An element more at the end of a sequence.
LEMMA Appended ==
    ASSUME NEW S, NEW s \in Seq(S), NEW e \in S
    PROVE  /\ Append(s, e) \in Seq(S) /\ Len(Append(s, e)) = Len(s) + 1 /\ Len(s) \in Nat
           /\ DOMAIN Append(s, e) = DOMAIN s \union {Len(s) + 1} /\ DOMAIN s = 1 .. Len(s)
           /\ \A i \in DOMAIN s : Append(s, e)[i] = s[i]
           /\ Append(s, e)[Len(s) + 1] = e
OBVIOUS

\* An empty sequence has the type of any other.
LEMMA Emptied ==
    ASSUME NEW S, NEW s, s = <<>>
    PROVE  s \in Seq(S) /\ Len(s) = 0 /\ DOMAIN s = {} /\ DOMAIN s = 1 .. 0
OBVIOUS

\* The kinds of steps keep the types.
LEMMA TypedStep ==
    ASSUME Typed, RelayKinds
    PROVE  Typed'
<1>0. MaxSendRetries \in Nat
  BY RelayAssumption
<1>1. CASE Started
  <2>1. taken' \in Seq(MailUnits')
    BY <1>1, Emptied DEF Started
  <2> QED
    BY <1>0, <1>1, <2>1 DEF Started, Typed
<1>2. CASE Moved
  <2>1. taken' \in Seq(MailUnits')
    BY <1>2 DEF Moved, SameMail, MailUnits, Typed
  <2> QED
    BY <1>0, <1>2, <2>1 DEF Moved, SameMail, Typed
<1>3. ASSUME Took
      PROVE  taken' \in Seq(MailUnits')
  <2>1. MailUnits' = MailUnits /\ Cursor \in MailUnits
    BY <1>3 DEF Took, SameMail, MailUnits, Cursor, Typed
  <2> QED
    BY <1>3, <2>1, Appended DEF Took, Typed
<1>4. CASE TookUnknown
  BY <1>0, <1>3, <1>4 DEF TookUnknown, Took, SameMail, Typed
<1>5. CASE TookNext
  BY <1>0, <1>3, <1>5 DEF TookNext, Took, SameMail, Typed
<1>6. CASE TookLast
  BY <1>0, <1>3, <1>6 DEF TookLast, Took, SameMail, Typed
<1> QED
  BY <1>1, <1>2, <1>4, <1>5, <1>6 DEF RelayKinds

\* They hold of every state.
LEMMA TypedHolds == Spec => []Typed
<1>1. Init => Typed
  BY RelayAssumption DEF Init, SenderInit, Typed
<1>2. Typed /\ [Next]_vars => Typed'
  BY Kinds, TypedStep
<1> QED
  BY <1>1, <1>2, PTL DEF Spec
-----------------------------------------------------------------------------
\* What Enqueue was asked in this call: nothing before the call is over.
Queued ==
    /\ bypass \in BOOLEAN
    /\ pc # "idle" => queued = <<>> /\ result = "none"
    /\ bypass \/ ~DLQEnabled => queued = <<>>
    /\ queued # <<>> => Len(queued) = 1
    /\ queued # <<>> <=> result = "send" /\ DLQEnabled /\ ~bypass

\* A call asks Enqueue once if it fails, and never when it is a replay.
LEMMA QueuedHolds == Spec => []Queued
<1>0. Len(<<>>) = 0 /\ \A ok : Append(<<>>, ok) # <<>> /\ Len(Append(<<>>, ok)) = 1
  OBVIOUS
<1>1. Init => Queued
  BY DEF Init, Queued
<1>2. Typed /\ Queued /\ [Next]_vars => Queued'
  <2> SUFFICES ASSUME Typed, Queued, [Next]_vars
               PROVE  Queued'
    OBVIOUS
  <2>1. ASSUME NEW replay \in BOOLEAN, NEW n, NEW bad, NEW c, NEW m, Relay(replay, n, bad, c, m)
        PROVE  Queued'
    BY <2>1 DEF Relay, Queued
  <2>2. CASE ContextDone \/ DayPasses \/ Parse \/ Pause \/ UNCHANGED vars
    BY <2>2 DEF ContextDone, DayPasses, Parse, Pause, vars, mailVars, Queued
  <2>3. CASE ParseFails
    BY <2>3 DEF ParseFails, Return, mailVars, Queued
  <2>4. ASSUME NEW outcome \in {"ok", "error", "running"}, Send(outcome)
        PROVE  Queued'
    <3>1. /\ UNCHANGED <<bypass, queued>> /\ pc = "send"
          /\ result' = result \/ (result' = "ok" /\ pc' = "idle")
      BY <2>4 DEF Send, Advance, Return, mailVars
    <3> QED
      BY <3>1 DEF Queued
  <2>5. ASSUME NEW ok \in BOOLEAN, Fail(ok)
        PROVE  Queued'
    <3>1. pc = "failed" /\ pc' = "idle" /\ result' = "send" /\ bypass' = bypass /\ queued = <<>>
      BY <2>5 DEF Fail, Return, mailVars, Queued
    <3>2. CASE DLQEnabled /\ ~bypass
      <4>1. queued' = Append(<<>>, ok)
        BY <2>5, <3>1, <3>2 DEF Fail, Queue
      <4>2. queued' # <<>> /\ Len(queued') = 1
        BY <1>0, <4>1
      <4> QED
        BY <3>1, <3>2, <4>2 DEF Queued
    <3>3. CASE ~(DLQEnabled /\ ~bypass)
      <4>1. queued' = queued
        BY <2>5, <3>3 DEF Fail, Queue
      <4> QED
        BY <3>1, <3>3, <4>1 DEF Queued
    <3> QED
      BY <3>2, <3>3
  <2> QED
    BY <2>1, <2>2, <2>3, <2>4, <2>5 DEF Next, Step
<1> QED
  BY <1>1, <1>2, TypedHolds, PTL DEF Spec

\* A delivery that failed is handed to the dead-letter queue exactly once and a replay
\* never, whatever the sends and the queue answer.
THEOREM FailuresHandedOver == Spec => []HandedOver
<1>1. Queued => HandedOver
  <2>1. Len(<<>>) = 0
    OBVIOUS
  <2> QED
    BY <2>1 DEF Queued, HandedOver
<1> QED
  BY <1>1, QueuedHolds, PTL
-----------------------------------------------------------------------------
\* Earlier in the mail as a whole: an earlier chat, or an earlier unit of this one.
Before(p, q) == p[1] < q[1] \/ (p[1] = q[1] /\ p[2] < q[2])
Got(p) == \E i \in DOMAIN taken : taken[i] = p

\* MAX has everything before the cursor and nothing after it, and a call that reports
\* success is at the end.
Covered ==
    /\ \A i \in DOMAIN taken : ~Before(Cursor, taken[i])
    /\ \A p \in MailUnits : Before(p, Cursor) => Got(p)
    /\ result = "ok" => target = targets /\ unit = units /\ Got(Cursor)

\* What was taken stays taken, and the unit at the cursor is.
LEMMA TookGets ==
    ASSUME Typed, Took
    PROVE  /\ \A p : Got(p) => Got(p)'
           /\ \A p : p = Cursor => \E i \in DOMAIN taken' : taken'[i] = p
           /\ \A i \in DOMAIN taken' : taken'[i] = Cursor \/ \E j \in DOMAIN taken : taken'[i] = taken[j]
           /\ MailUnits' = MailUnits /\ Cursor \in MailUnits
<1>0. MailUnits' = MailUnits /\ Cursor \in MailUnits
  BY DEF Took, SameMail, MailUnits, Cursor, Typed
<1>1. /\ DOMAIN taken' = DOMAIN taken \union {Len(taken) + 1}
      /\ \A i \in DOMAIN taken : taken'[i] = taken[i]
      /\ taken'[Len(taken) + 1] = Cursor
  BY <1>0, Appended DEF Took, Typed
<1>2. \A p : Got(p) => Got(p)'
  BY <1>1 DEF Got
<1>3. \A p : p = Cursor => \E i \in DOMAIN taken' : taken'[i] = p
  BY <1>1
<1>4. \A i \in DOMAIN taken' : taken'[i] = Cursor \/ \E j \in DOMAIN taken : taken'[i] = taken[j]
  BY <1>1
<1> QED
  BY <1>0, <1>2, <1>3, <1>4

\* Every kind of step keeps the mail covered.
LEMMA CoveredStep ==
    ASSUME Typed, Typed', RelayKinds, Covered
    PROVE  Covered'
<1>0. /\ target \in Nat /\ unit \in Nat /\ targets \in Nat /\ units \in Nat
      /\ target <= targets /\ unit <= units
      /\ \A i \in DOMAIN taken : taken[i] \in MailUnits
      /\ \A p \in MailUnits : /\ p[1] \in Nat /\ p[2] \in Nat /\ p[1] >= 1 /\ p[2] >= 1
                              /\ p[1] <= targets /\ p[2] <= units
                              /\ p = <<p[1], p[2]>>
  <2>1. /\ target \in Nat /\ unit \in Nat /\ targets \in Nat /\ units \in Nat
        /\ target <= targets /\ unit <= units
    BY DEF Typed
  <2>2. \A i \in DOMAIN taken : taken[i] \in MailUnits
    BY DEF Typed
  <2>3. \A p \in MailUnits : /\ p[1] \in Nat /\ p[2] \in Nat /\ p[1] >= 1 /\ p[2] >= 1
                             /\ p[1] <= targets /\ p[2] <= units
                             /\ p = <<p[1], p[2]>>
    BY <2>1 DEF MailUnits
  <2> QED
    BY <2>1, <2>2, <2>3
<1>1. CASE Started
  <2>1. DOMAIN taken' = {} /\ Cursor' = <<1, 1>> /\ result' = "none"
    BY <1>1, Emptied DEF Started, Cursor
  <2>2. \A p \in MailUnits' : ~Before(p, Cursor')
    <3>1. targets' \in Nat /\ units' \in Nat
      BY DEF Typed
    <3>2. \A p \in MailUnits' : p[1] \in Nat /\ p[2] \in Nat /\ p[1] >= 1 /\ p[2] >= 1
      BY <3>1 DEF MailUnits
    <3> QED
      BY <2>1, <3>2 DEF Before
  <2> QED
    BY <2>1, <2>2 DEF Covered, Before
<1>2. CASE Moved
  <2>1. Cursor' = Cursor /\ MailUnits' = MailUnits /\ taken' = taken /\ UNCHANGED <<target, unit, targets, units>>
    BY <1>2 DEF Moved, SameMail, Cursor, MailUnits
  <2>2. result' = "ok" => result = "ok"
    BY <1>2 DEF Moved
  <2>3. \A p : Got(p)' <=> Got(p)
    BY <2>1 DEF Got
  <2>4. \A p, q : Before(p, q)' <=> Before(p, q)
    BY DEF Before
  <2> QED
    BY <2>1, <2>2, <2>3, <2>4 DEF Covered, Before, Got
<1>3. ASSUME Took, NEW q, q \in MailUnits, q = Cursor \/ Before(Cursor, q)
      PROVE  \A i \in DOMAIN taken' : ~Before(q, taken'[i])
  <2> TAKE i \in DOMAIN taken'
  <2>1. Cursor[1] \in Nat /\ Cursor[2] \in Nat
    BY <1>0 DEF Cursor
  <2>2. CASE taken'[i] = Cursor
    BY <1>0, <1>3, <2>1, <2>2 DEF Before
  <2>3. ASSUME NEW j \in DOMAIN taken, taken'[i] = taken[j]
        PROVE  ~Before(q, taken'[i])
    <3>1. ~Before(Cursor, taken[j]) /\ taken[j][1] \in Nat /\ taken[j][2] \in Nat
      BY <1>0 DEF Covered
    <3> QED
      BY <1>0, <1>3, <2>1, <2>3, <3>1 DEF Before
  <2> QED
    BY <1>3, <2>2, <2>3, TookGets
<1>4. ASSUME Took, NEW p \in MailUnits, Before(p, Cursor) \/ p = Cursor
      PROVE  \E i \in DOMAIN taken' : taken'[i] = p
  <2>1. CASE p = Cursor
    BY <1>4, <2>1, TookGets
  <2>2. CASE Before(p, Cursor)
    <3>1. Got(p)
      BY <2>2 DEF Covered
    <3> QED
      BY <1>4, <3>1, TookGets DEF Got
  <2> QED
    BY <1>4, <2>1, <2>2
<1>5. CASE TookUnknown
  <2>1. Took /\ Cursor' = Cursor /\ MailUnits' = MailUnits /\ Cursor \in MailUnits /\ result' = "none"
    BY <1>5, TookGets DEF TookUnknown, Took, Cursor, Typed
  <2>2. \A i \in DOMAIN taken' : ~Before(Cursor', taken'[i])
    BY <1>3, <2>1
  <2>3. \A p \in MailUnits : Before(p, Cursor') => \E i \in DOMAIN taken' : taken'[i] = p
    BY <1>4, <2>1
  <2> QED
    BY <2>1, <2>2, <2>3 DEF Covered, Before, Got
<1>6. CASE TookNext
  <2>1. Took /\ MailUnits' = MailUnits /\ result' = "none"
    BY <1>6, TookGets DEF TookNext, Took, Typed
  <2>2. Cursor' \in MailUnits
    BY <2>1 DEF Typed, Cursor, MailUnits
  <2>3. Before(Cursor, Cursor')
    BY <1>0, <1>6 DEF TookNext, Before, Cursor
  <2>4. \A p \in MailUnits : Before(p, Cursor') => Before(p, Cursor) \/ p = Cursor
    <3> SUFFICES ASSUME NEW p \in MailUnits, Before(p, Cursor'), ~Before(p, Cursor)
                 PROVE  p = Cursor
      OBVIOUS
    <3>1. p = <<p[1], p[2]>> /\ p[1] \in Nat /\ p[2] \in Nat /\ p[1] <= targets /\ p[2] <= units /\ p[2] >= 1
      BY <1>0
    <3>2. p[1] = target /\ p[2] = unit
      BY <1>0, <1>6, <3>1 DEF TookNext, Before, Cursor
    <3> QED
      BY <3>1, <3>2 DEF Cursor
  <2>5. \A i \in DOMAIN taken' : ~Before(Cursor', taken'[i])
    BY <1>3, <2>1, <2>2, <2>3
  <2>6. \A p \in MailUnits : Before(p, Cursor') => \E i \in DOMAIN taken' : taken'[i] = p
    BY <1>4, <2>1, <2>4
  <2> QED
    BY <2>1, <2>5, <2>6 DEF Covered, Before, Got
<1>7. CASE TookLast
  <2>1. /\ Took /\ Cursor' = Cursor /\ MailUnits' = MailUnits /\ Cursor \in MailUnits
        /\ target' = targets' /\ unit' = units'
    BY <1>7, TookGets DEF TookLast, Took, SameMail, Cursor
  <2>2. \A i \in DOMAIN taken' : ~Before(Cursor', taken'[i])
    BY <1>3, <2>1
  <2>3. \A p \in MailUnits : Before(p, Cursor') \/ p = Cursor' => \E i \in DOMAIN taken' : taken'[i] = p
    BY <1>4, <2>1
  <2> QED
    BY <2>1, <2>2, <2>3 DEF Covered, Before, Got
<1> QED
  BY <1>1, <1>2, <1>5, <1>6, <1>7 DEF RelayKinds

\* Covered holds of every state.
LEMMA CoveredHolds == Spec => []Covered
<1>1. Init => Covered
  <2> SUFFICES ASSUME Init
               PROVE  Covered
    OBVIOUS
  <2>1. DOMAIN taken = {} /\ Cursor = <<1, 1>> /\ result = "none" /\ targets = 1 /\ units = 1
    BY Emptied DEF Init, SenderInit, Cursor
  <2>2. \A p \in MailUnits : ~Before(p, Cursor)
    BY <2>1 DEF MailUnits, Before
  <2> QED
    BY <2>1, <2>2 DEF Covered
<1>2. Typed /\ Typed' /\ Covered /\ [Next]_vars => Covered'
  BY Kinds, CoveredStep
<1> QED
  BY <1>1, <1>2, TypedHolds, PTL DEF Spec

\* A call that reports success has brought every unit to every chat, and queued nothing.
THEOREM SuccessIsComplete == Spec => []SuccessComplete
<1>1. Typed /\ Covered /\ Queued => SuccessComplete
  <2> SUFFICES ASSUME Typed, Covered, Queued, result = "ok"
               PROVE  {taken[i] : i \in DOMAIN taken} = MailUnits /\ queued = <<>>
    BY DEF SuccessComplete, MailUnits
  <2>1. \A i \in DOMAIN taken : taken[i] \in MailUnits
    BY DEF Typed
  <2>2. ASSUME NEW p \in MailUnits
        PROVE  \E i \in DOMAIN taken : taken[i] = p
    <3>1. target = targets /\ unit = units /\ Got(Cursor) /\ targets \in Nat /\ units \in Nat
      BY DEF Covered, Typed
    <3>2. p = <<p[1], p[2]>> /\ p[1] \in Nat /\ p[2] \in Nat /\ p[1] <= targets /\ p[2] <= units
      BY <3>1 DEF MailUnits
    <3>3. Before(p, Cursor) \/ p = Cursor
      BY <3>1, <3>2 DEF Before, Cursor
    <3> QED
      BY <3>1, <3>3 DEF Covered, Got
  <2>3. queued = <<>>
    BY DEF Queued
  <2> QED
    BY <2>1, <2>2, <2>3
<1> QED
  BY <1>1, TypedHolds, CoveredHolds, QueuedHolds, PTL
-----------------------------------------------------------------------------
\* Place with the length of the mail as a parameter.
PlaceIn(p, u) == (p[1] - 1) * u + p[2]

\* The places follow each other up to the cursor.
Sequenced ==
    /\ Len(taken) = 0 => PlaceIn(Cursor, units) = 1
    /\ Len(taken) > 0 => /\ PlaceIn(taken[1], units) = 1
                         /\ PlaceIn(Cursor, units) - PlaceIn(taken[Len(taken)], units) \in {0, 1}
    /\ \A i \in 1 .. Len(taken) - 1 : PlaceIn(taken[i + 1], units) - PlaceIn(taken[i], units) \in {0, 1}

\* The next unit has the next place, also when it is the first one of the next chat.
LEMMA PlaceNext ==
    ASSUME Typed, TookNext
    PROVE  PlaceIn(Cursor', units) = PlaceIn(Cursor, units) + 1 /\ PlaceIn(Cursor, units) \in Int
<1>1. target \in Int /\ unit \in Int /\ units \in Int
  BY DEF Typed
<1>2. PlaceIn(Cursor, units) = (target - 1) * units + unit /\ PlaceIn(Cursor', units) = (target' - 1) * units + unit'
  BY <1>1 DEF PlaceIn, Cursor
<1>3. CASE unit' = unit + 1 /\ target' = target
  BY <1>1, <1>2, <1>3
<1>4. CASE unit = units /\ unit' = 1 /\ target' = target + 1
  <2>1. (target' - 1) * units = (target - 1) * units + units
    BY <1>1, <1>4
  <2> QED
    BY <1>1, <1>2, <1>4, <2>1
<1> QED
  BY <1>3, <1>4 DEF TookNext

\* Every kind of step keeps the places in sequence.
LEMMA SequencedStep ==
    ASSUME Typed, RelayKinds, Sequenced
    PROVE  Sequenced'
<1>0. PlaceIn(Cursor, units) \in Int
  BY DEF Typed, PlaceIn, Cursor
<1>1. CASE Started
  <2>1. Len(taken') = 0 /\ Cursor' = <<1, 1>> /\ units' \in Nat
    BY <1>1, Emptied DEF Started, Cursor
  <2>2. \A u \in Nat : PlaceIn(<<1, 1>>, u) = 1
    BY DEF PlaceIn
  <2> QED
    BY <2>1, <2>2 DEF Sequenced
<1>2. CASE Moved
  <2>1. taken' = taken /\ units' = units /\ Cursor' = Cursor
    BY <1>2 DEF Moved, SameMail, Cursor
  <2> QED
    BY <2>1 DEF Sequenced
<1>3. ASSUME Took, PlaceIn(Cursor', units) - PlaceIn(Cursor, units) \in {0, 1}
      PROVE  Sequenced'
  <2>1. PICK n \in Nat :
           /\ n = Len(taken) /\ Len(taken') = n + 1 /\ units' = units
           /\ \A i \in 1 .. n : taken'[i] = taken[i]
           /\ taken'[n + 1] = Cursor
    <3>1. Cursor \in MailUnits /\ units' = units
      BY <1>3, TookGets DEF Took, SameMail
    <3> QED
      BY <1>3, <3>1, Appended DEF Took, Typed
  <2>2. PlaceIn(taken'[n + 1], units) = PlaceIn(Cursor, units)
    BY <2>1
  <2>3. \A i \in 1 .. n : PlaceIn(taken'[i], units) = PlaceIn(taken[i], units)
    BY <2>1
  <2>4. PlaceIn(taken'[1], units) = 1
    <3>1. CASE n = 0
      BY <2>1, <2>2, <3>1 DEF Sequenced
    <3>2. CASE n > 0
      BY <2>1, <2>3, <3>2 DEF Sequenced
    <3> QED
      BY <2>1, <3>1, <3>2
  <2>5. ASSUME NEW i \in 1 .. n
        PROVE  PlaceIn(taken'[i + 1], units) - PlaceIn(taken'[i], units) \in {0, 1}
    <3>1. CASE i = n
      BY <2>1, <2>2, <2>3, <3>1 DEF Sequenced
    <3>2. CASE i < n
      <4>1. i + 1 \in 1 .. n /\ i \in 1 .. n - 1
        BY <2>1, <3>2
      <4> QED
        BY <2>1, <2>3, <4>1 DEF Sequenced
    <3> QED
      BY <2>1, <3>1, <3>2
  <2>6. PlaceIn(Cursor', units) - PlaceIn(taken'[n + 1], units) \in {0, 1}
    BY <1>3, <2>2
  <2>7. Len(taken') > 0 /\ (Len(taken') - 1) = n /\ units' = units /\ Len(taken') = n + 1
    BY <2>1
  <2> QED
    BY <2>4, <2>5, <2>6, <2>7 DEF Sequenced
<1>4. CASE TookUnknown \/ TookLast
  <2>1. Took /\ Cursor' = Cursor
    BY <1>4 DEF TookUnknown, TookLast, Cursor
  <2> QED
    BY <1>0, <1>3, <2>1
<1>5. CASE TookNext
  BY <1>0, <1>3, <1>5, PlaceNext DEF TookNext
<1> QED
  BY <1>1, <1>2, <1>4, <1>5 DEF RelayKinds
-----------------------------------------------------------------------------
\* How often an element is in a sequence.
CopiesIn(s, p) == Cardinality({j \in DOMAIN s : s[j] = p})

\* An attempt brings one copy at most: the unit at the cursor has been taken no more
\* often than there were attempts before, or are now that one has failed.
Repeated ==
    /\ \A i \in DOMAIN taken : CopiesIn(taken, taken[i]) <= MaxSendRetries + 1
    /\ pc \in {"parse", "send"} => CopiesIn(taken, Cursor) <= attempt
    /\ pc \in {"wait", "failed"} => CopiesIn(taken, Cursor) <= attempt + 1

\* The number of copies is a number, and is zero for what is not there.
LEMMA CopiesType ==
    ASSUME NEW S, NEW s \in Seq(S), NEW p
    PROVE  /\ CopiesIn(s, p) \in Nat /\ IsFiniteSet({j \in DOMAIN s : s[j] = p})
           /\ (\A j \in DOMAIN s : s[j] # p) => CopiesIn(s, p) = 0
<1>1. DOMAIN s = 1 .. Len(s) /\ Len(s) \in Nat
  OBVIOUS
<1>2. IsFiniteSet(DOMAIN s)
  BY <1>1, FS_Interval
<1>3. IsFiniteSet({j \in DOMAIN s : s[j] = p})
  <2>1. {j \in DOMAIN s : s[j] = p} \subseteq DOMAIN s
    OBVIOUS
  <2> QED
    BY <1>2, <2>1, FS_Subset
<1>4. CopiesIn(s, p) \in Nat
  BY <1>3, FS_CardinalityType DEF CopiesIn
<1>5. ASSUME \A j \in DOMAIN s : s[j] # p
      PROVE  CopiesIn(s, p) = 0
  <2>1. {j \in DOMAIN s : s[j] = p} = {}
    BY <1>5
  <2> QED
    BY <2>1, FS_EmptySet DEF CopiesIn
<1> QED
  BY <1>3, <1>4, <1>5

\* An element that is appended has a copy more, the others have as many as before.
LEMMA AppendedCopies ==
    ASSUME NEW S, NEW s \in Seq(S), NEW e \in S, NEW p
    PROVE  CopiesIn(Append(s, e), p) = CopiesIn(s, p) + (IF p = e THEN 1 ELSE 0)
<1> DEFINE t   == Append(s, e)
           n   == Len(s)
           old == {j \in DOMAIN s : s[j] = p}
           new == {j \in DOMAIN t : t[j] = p}
<1>1. /\ n \in Nat /\ DOMAIN s = 1 .. n /\ DOMAIN t = DOMAIN s \union {n + 1}
      /\ \A i \in DOMAIN s : t[i] = s[i]
      /\ t[n + 1] = e
  BY Appended
<1>2. IsFiniteSet(old) /\ CopiesIn(s, p) \in Nat
  BY CopiesType
<1>3. n + 1 \notin old
  BY <1>1
<1> HIDE DEF t, n
<1>4. CASE p = e
  <2>1. new = old \union {n + 1}
    BY <1>1, <1>4
  <2> HIDE DEF old, new
  <2>2. Cardinality(new) = Cardinality(old) + 1
    BY <1>2, <1>3, <2>1, FS_AddElement
  <2> QED
    BY <1>4, <2>2 DEF CopiesIn, old, new, t
<1>5. CASE p # e
  <2>1. new = old
    BY <1>1, <1>5
  <2>2. CopiesIn(t, p) = CopiesIn(s, p)
    BY <2>1 DEF CopiesIn
  <2> QED
    BY <1>2, <1>5, <2>2 DEF t
<1> QED
  BY <1>4, <1>5

\* Every kind of step keeps the copies within the attempts.
LEMMA RepeatedStep ==
    ASSUME Typed, Typed', RelayKinds, Covered, Repeated
    PROVE  Repeated'
<1>0. MaxSendRetries \in Nat /\ attempt \in 0 .. MaxSendRetries
  BY RelayAssumption DEF Typed
<1>1. CASE Started
  <2>1. DOMAIN taken' = {} /\ attempt' = 0 /\ pc' = "parse"
    BY <1>1, Emptied DEF Started
  <2>2. CopiesIn(taken', Cursor') = 0
    BY <2>1, CopiesType DEF Typed
  <2> QED
    BY <2>1, <2>2 DEF Repeated
<1>2. CASE Moved
  <2>1. taken' = taken /\ Cursor' = Cursor
    BY <1>2 DEF Moved, Cursor
  <2>2. CopiesIn(taken, Cursor) \in Nat
    BY CopiesType DEF Typed
  <2>3. /\ pc' \in {"parse", "send"} => CopiesIn(taken, Cursor) <= attempt'
        /\ pc' \in {"wait", "failed"} => CopiesIn(taken, Cursor) <= attempt' + 1
    BY <1>0, <1>2, <2>2 DEF Moved, Repeated, Typed
  <2> QED
    BY <2>1, <2>3 DEF Repeated
<1>3. ASSUME Took
      PROVE  /\ \A i \in DOMAIN taken' : CopiesIn(taken', taken'[i]) <= MaxSendRetries + 1
             /\ CopiesIn(taken', Cursor) <= attempt + 1
  <2>1. CopiesIn(taken, Cursor) <= attempt /\ CopiesIn(taken, Cursor) \in Nat
    BY <1>3, CopiesType DEF Took, Repeated, Typed
  <2>2. \A p : CopiesIn(taken', p) = CopiesIn(taken, p) + (IF p = Cursor THEN 1 ELSE 0)
    BY <1>3, TookGets, AppendedCopies DEF Took, Typed
  <2>3. CopiesIn(taken', Cursor) <= attempt + 1 /\ CopiesIn(taken', Cursor) <= MaxSendRetries + 1
    BY <1>0, <2>1, <2>2
  <2>4. ASSUME NEW i \in DOMAIN taken'
        PROVE  CopiesIn(taken', taken'[i]) <= MaxSendRetries + 1
    <3>1. CASE taken'[i] = Cursor
      BY <2>3, <3>1
    <3>2. CASE taken'[i] # Cursor
      <4>1. PICK k \in DOMAIN taken : taken'[i] = taken[k]
        BY <1>3, <3>2, TookGets
      <4>2. CopiesIn(taken, taken[k]) <= MaxSendRetries + 1 /\ CopiesIn(taken, taken[k]) \in Nat
        BY CopiesType DEF Repeated, Typed
      <4> QED
        BY <2>2, <3>2, <4>1, <4>2
    <3> QED
      BY <3>1, <3>2
  <2> QED
    BY <2>3, <2>4
<1>4. CASE TookUnknown
  <2>1. Took /\ Cursor' = Cursor /\ attempt' = attempt /\ pc' \in {"wait", "failed"}
    BY <1>4 DEF TookUnknown, Cursor
  <2> QED
    BY <1>3, <2>1 DEF Repeated
<1>5. CASE TookNext
  <2>1. Took /\ attempt' = 0 /\ pc' = "send"
    BY <1>5 DEF TookNext
  <2>2. CopiesIn(taken', Cursor') = 0
    <3>1. target \in Nat /\ unit \in Nat /\ units \in Nat
      BY DEF Typed
    <3>2. Before(Cursor, Cursor')
      BY <1>5, <3>1 DEF TookNext, Before, Cursor
    <3>3. ~Before(Cursor, Cursor)
      BY <3>1 DEF Before, Cursor
    <3>4. \A k \in DOMAIN taken : ~Before(Cursor, taken[k])
      BY DEF Covered
    <3>5. \A j \in DOMAIN taken' : taken'[j] # Cursor'
      BY <2>1, <3>2, <3>3, <3>4, TookGets
    <3> QED
      BY <3>5, CopiesType DEF Typed
  <2> QED
    BY <1>3, <2>1, <2>2 DEF Repeated
<1>6. CASE TookLast
  BY <1>3, <1>6 DEF TookLast, Repeated
<1> QED
  BY <1>1, <1>2, <1>4, <1>5, <1>6 DEF RelayKinds

\* Each chat sees the units of the mail in order and without a gap, chat after chat, and
\* a repeat is only ever of the unit before, at most once per immediate retry.
THEOREM UnitsInOrder == Spec => []InOrder
<1>1. Init => Sequenced /\ Repeated
  <2> SUFFICES ASSUME Init
               PROVE  Sequenced /\ Repeated
    OBVIOUS
  <2>1. /\ DOMAIN taken = {} /\ Len(taken) = 0 /\ pc = "idle"
        /\ Cursor = <<1, 1>> /\ units = 1
    BY Emptied DEF Init, SenderInit, Cursor
  <2>2. PlaceIn(Cursor, units) = 1
    BY <2>1 DEF PlaceIn
  <2> QED
    BY <2>1, <2>2 DEF Sequenced, Repeated
<1>2. /\ Typed /\ Typed' /\ Covered /\ [Next]_vars
      /\ Sequenced /\ Repeated
      => Sequenced' /\ Repeated'
  BY Kinds, SequencedStep, RepeatedStep
<1>3. Typed /\ Sequenced /\ Repeated => InOrder
  <2> SUFFICES ASSUME Typed, Sequenced, Repeated
               PROVE  InOrder
    OBVIOUS
  <2>1. taken # <<>> => Len(taken) > 0
    BY DEF Typed
  <2>2. taken # <<>> => Place(taken[1]) = 1
    BY <2>1 DEF Sequenced, Place, PlaceIn
  <2>3. \A i \in 1 .. Len(taken) - 1 : Place(taken[i + 1]) - Place(taken[i]) \in {0, 1}
    BY DEF Sequenced, Place, PlaceIn
  <2>4. \A i \in DOMAIN taken : Cardinality({j \in DOMAIN taken : taken[j] = taken[i]}) <= MaxSendRetries + 1
    BY DEF Repeated, CopiesIn
  <2> QED
    BY <2>2, <2>3, <2>4 DEF InOrder
<1> QED
  BY <1>1, <1>2, <1>3, TypedHolds, CoveredHolds, PTL DEF Spec
-----------------------------------------------------------------------------
Event == [at : Nat, delivered : BOOLEAN]

\* The types of the collector's state and of the histories.
Recorded ==
    /\ counters \in [Counters -> Nat]
    /\ returns \in [{"ok", "parse", "send"} -> Nat]
    /\ brought \in Nat /\ now \in Nat
    /\ seen \in Seq(Event)

\* What was observed so far.
Deliveries == Count(seen, TRUE)
Failures == Count(seen, FALSE)

\* The counters against the calls and the deliveries; the chats counted as relayed are
\* the ones before this one, and this one when the call is over with success.
Tallied ==
    /\ counters["received"] = returns["ok"] + returns["parse"] + returns["send"] + (IF pc = "idle" THEN 0 ELSE 1)
    /\ counters["failed"] = returns["parse"] + returns["send"]
    /\ counters["failed"] = Failures /\ counters["relayed"] = Deliveries
    /\ counters["relayed"] <= brought + target - (IF result = "ok" THEN 0 ELSE 1)
    /\ counters["dlqEnqueued"] <= returns["send"]

\* What a step does to the counters.
LEMMA Incremented ==
    ASSUME counters \in [Counters -> Nat], NEW names, Inc(names)
    PROVE  /\ counters' \in [Counters -> Nat]
           /\ \A c \in Counters : counters'[c] = counters[c] + (IF c \in names THEN 1 ELSE 0)
BY DEF Inc

\* A delivery more, with its outcome.
LEMMA AppendedWith ==
    ASSUME NEW s \in Seq(Event), NEW e \in Event, NEW b
    PROVE  /\ Count(s, b) \in Nat
           /\ e.delivered = b => Count(Append(s, e), b) = Count(s, b) + 1
           /\ e.delivered # b => Count(Append(s, e), b) = Count(s, b)
<1> DEFINE t == Append(s, e)
           n == Len(s)
<1>1. /\ DOMAIN t = DOMAIN s \union {n + 1} /\ DOMAIN s = 1 .. n /\ n \in Nat
      /\ \A i \in DOMAIN s : t[i] = s[i]
      /\ t[n + 1] = e
  BY Appended
<1>2. IsFiniteSet(With(s, b))
  <2>1. IsFiniteSet(DOMAIN s)
    BY <1>1, FS_Interval
  <2>2. With(s, b) \subseteq DOMAIN s
    BY DEF With
  <2> QED
    BY <2>1, <2>2, FS_Subset
<1>3. Count(s, b) \in Nat
  BY <1>2, FS_CardinalityType DEF Count
<1> HIDE DEF t, n
<1>4. ASSUME e.delivered = b
      PROVE  Count(t, b) = Count(s, b) + 1
  <2>1. With(t, b) = With(s, b) \union {n + 1}
    BY <1>1, <1>4 DEF With
  <2>2. n + 1 \notin With(s, b)
    BY <1>1 DEF With
  <2> QED
    BY <1>2, <2>1, <2>2, FS_AddElement DEF Count
<1>5. ASSUME e.delivered # b
      PROVE  Count(t, b) = Count(s, b)
  <2>1. With(t, b) = With(s, b)
    BY <1>1, <1>5 DEF With
  <2> QED
    BY <2>1 DEF Count
<1> QED
  BY <1>3, <1>4, <1>5 DEF t

\* An observation, as far as the counters are concerned.
ObservedDelivery == seen' \in Seq(Event) /\ Deliveries' = Deliveries + 1 /\ Failures' = Failures
ObservedFailure == seen' \in Seq(Event) /\ Deliveries' = Deliveries /\ Failures' = Failures + 1

\* ObserveDelivery appends one event with the outcome it was told.
LEMMA Observed ==
    ASSUME Recorded
    PROVE  /\ ObserveDelivery(TRUE) => ObservedDelivery
           /\ ObserveDelivery(FALSE) => ObservedFailure
<1>1. ASSUME NEW d \in BOOLEAN, ObserveDelivery(d)
      PROVE  \E e \in Event : seen' = Append(seen, e) /\ e.delivered = d
  <2>1. [at |-> now, delivered |-> d] \in Event
    BY DEF Recorded, Event
  <2> QED
    BY <1>1, <2>1 DEF ObserveDelivery
<1>2. ASSUME NEW e \in Event, seen' = Append(seen, e)
      PROVE  seen' \in Seq(Event)
  BY <1>2, Appended DEF Recorded
<1>3. ASSUME ObserveDelivery(TRUE)
      PROVE  ObservedDelivery
  <2>1. PICK e \in Event : seen' = Append(seen, e) /\ e.delivered = TRUE
    BY <1>1, <1>3, Zenon
  <2>2. e.delivered # FALSE
    BY <2>1
  <2>3. Deliveries' = Deliveries + 1
    BY <2>1, AppendedWith, Zenon DEF Deliveries, Recorded
  <2>4. Failures' = Failures
    BY <2>1, <2>2, AppendedWith, Zenon DEF Failures, Recorded
  <2> QED
    BY <1>2, <2>1, <2>3, <2>4 DEF ObservedDelivery
<1>4. ASSUME ObserveDelivery(FALSE)
      PROVE  ObservedFailure
  <2>1. PICK e \in Event : seen' = Append(seen, e) /\ e.delivered = FALSE
    BY <1>1, <1>4, Zenon
  <2>2. e.delivered # TRUE
    BY <2>1
  <2>3. Deliveries' = Deliveries
    BY <2>1, <2>2, AppendedWith, Zenon DEF Deliveries, Recorded
  <2>4. Failures' = Failures + 1
    BY <2>1, AppendedWith, Zenon DEF Failures, Recorded
  <2> QED
    BY <1>2, <2>1, <2>3, <2>4 DEF ObservedFailure
<1> QED
  BY <1>3, <1>4, Zenon

\* The chats before this one have the whole mail, and so has this one when the call is
\* over with success.
LEMMA CompleteCount ==
    ASSUME Typed, Covered
    PROVE  /\ Cardinality(Complete) \in Nat
           /\ Cardinality(Complete) >= target - (IF result = "ok" THEN 0 ELSE 1)
<1> DEFINE last == target - (IF result = "ok" THEN 0 ELSE 1)
<1>0. /\ target \in Nat /\ targets \in Nat /\ units \in Nat /\ unit \in Nat /\ last \in Nat
      /\ last <= target /\ target <= targets /\ unit <= units
  BY DEF Typed
<1>1. ASSUME NEW t \in 1 .. last, NEW u \in 1 .. units
      PROVE  \E i \in DOMAIN taken : taken[i] = <<t, u>>
  <2>1. <<t, u>> \in MailUnits /\ <<t, u>>[1] = t /\ <<t, u>>[2] = u
    BY <1>0 DEF MailUnits
  <2>2. CASE t < target
    <3>1. Before(<<t, u>>, Cursor)
      BY <1>0, <2>1, <2>2 DEF Before, Cursor
    <3> QED
      BY <2>1, <3>1 DEF Covered, Got
  <2>3. CASE t = target
    <3>1. result = "ok"
      BY <1>0, <2>3
    <3>2. unit = units /\ Got(Cursor)
      BY <3>1 DEF Covered
    <3>3. CASE u = unit
      BY <2>3, <3>2, <3>3 DEF Got, Cursor
    <3>4. CASE u < unit
      <4>1. Before(<<t, u>>, Cursor)
        BY <1>0, <2>1, <2>3, <3>4 DEF Before, Cursor
      <4> QED
        BY <2>1, <4>1 DEF Covered, Got
    <3> QED
      BY <1>0, <3>2, <3>3, <3>4
  <2> QED
    BY <1>0, <2>2, <2>3
<1>2. 1 .. last \subseteq Complete
  BY <1>0, <1>1 DEF Complete
<1>3. Complete \subseteq 1 .. targets
  BY DEF Complete
<1> HIDE DEF last
<1>4. IsFiniteSet(Complete)
  <2>1. IsFiniteSet(1 .. targets)
    BY <1>0, FS_Interval
  <2> QED
    BY <1>3, <2>1, FS_Subset
<1>5. Cardinality(1 .. last) = last
  <2>1. 1 \in Int /\ last \in Int /\ ~(1 > last) => Cardinality(1 .. last) = last - 1 + 1
    BY FS_Interval
  <2>2. 1 > last => Cardinality(1 .. last) = 0
    BY <1>0, FS_Interval
  <2> QED
    BY <1>0, <2>1, <2>2
<1>6. Cardinality(1 .. last) <= Cardinality(Complete) /\ Cardinality(Complete) \in Nat
  BY <1>2, <1>4, FS_Subset, FS_CardinalityType
<1> QED
  BY <1>0, <1>5, <1>6 DEF last

\* The steps that count, and the ones that do not.
LEMMA TalliedStep ==
    ASSUME Typed, Covered, Recorded, Tallied, [Next]_vars
    PROVE  Recorded' /\ Tallied'
<1>0. /\ Deliveries \in Nat /\ Failures \in Nat
      /\ counters["received"] \in Nat /\ counters["failed"] \in Nat
      /\ counters["relayed"] \in Nat /\ counters["dlqEnqueued"] \in Nat
      /\ returns["ok"] \in Nat /\ returns["parse"] \in Nat /\ returns["send"] \in Nat
      /\ brought \in Nat /\ target \in Nat /\ counters \in [Counters -> Nat]
  BY DEF Recorded, Counters, Typed, Tallied
<1>1. ASSUME NEW r \in {"ok", "parse", "send"}, Return(r)
      PROVE  /\ returns' \in [{"ok", "parse", "send"} -> Nat] /\ pc' = "idle" /\ result' = r
             /\ returns'["ok"] = returns["ok"] + (IF r = "ok" THEN 1 ELSE 0)
             /\ returns'["parse"] = returns["parse"] + (IF r = "parse" THEN 1 ELSE 0)
             /\ returns'["send"] = returns["send"] + (IF r = "send" THEN 1 ELSE 0)
  BY <1>1 DEF Return, Recorded
<1>2. ASSUME NEW names, Inc(names)
      PROVE  /\ counters' \in [Counters -> Nat]
             /\ counters'["received"] = counters["received"] + (IF "received" \in names THEN 1 ELSE 0)
             /\ counters'["relayed"] = counters["relayed"] + (IF "relayed" \in names THEN 1 ELSE 0)
             /\ counters'["failed"] = counters["failed"] + (IF "failed" \in names THEN 1 ELSE 0)
             /\ counters'["dlqEnqueued"] = counters["dlqEnqueued"] + (IF "dlqEnqueued" \in names THEN 1 ELSE 0)
  BY <1>0, <1>2, Incremented DEF Counters
<1>3. ASSUME NEW replay, NEW n, NEW bad, NEW c, NEW m, Relay(replay, n, bad, c, m)
      PROVE  Recorded' /\ Tallied'
  <2>1. /\ Inc({"received"}) /\ pc = "idle" /\ pc' = "parse" /\ target' = 1 /\ result' = "none"
        /\ brought' = brought + Cardinality(Complete)
        /\ UNCHANGED <<returns, seen, now>>
    BY <1>3 DEF Relay
  <2>2. /\ counters' \in [Counters -> Nat]
        /\ counters'["received"] = counters["received"] + 1 /\ counters'["relayed"] = counters["relayed"]
        /\ counters'["failed"] = counters["failed"] /\ counters'["dlqEnqueued"] = counters["dlqEnqueued"]
    BY <1>0, <1>2, <2>1
  <2>3. brought' \in Nat /\ counters["relayed"] <= brought'
    BY <1>0, <2>1, CompleteCount DEF Tallied
  <2>4. Recorded'
    BY <2>1, <2>2, <2>3 DEF Recorded
  <2>5. Deliveries' = Deliveries /\ Failures' = Failures
    BY <2>1, Zenon DEF Deliveries, Failures
  <2> QED
    BY <1>0, <2>1, <2>2, <2>3, <2>4, <2>5 DEF Tallied
<1>4. ASSUME UNCHANGED <<counters, returns, brought, target, seen>>, now' \in Nat,
             result' = result, pc = "idle" <=> pc' = "idle"
      PROVE  Recorded' /\ Tallied'
  <2>1. Deliveries' = Deliveries /\ Failures' = Failures
    BY <1>4, Zenon DEF Deliveries, Failures
  <2> QED
    BY <1>4, <2>1 DEF Recorded, Tallied
<1>5. ASSUME UNCHANGED <<returns, brought, now>>, Inc({"relayed"}), ObservedDelivery,
             result = "none", result' = "none", target' = target + 1, pc # "idle", pc' # "idle"
      PROVE  Recorded' /\ Tallied'
  <2>1. /\ counters' \in [Counters -> Nat]
        /\ counters'["received"] = counters["received"] /\ counters'["relayed"] = counters["relayed"] + 1
        /\ counters'["failed"] = counters["failed"] /\ counters'["dlqEnqueued"] = counters["dlqEnqueued"]
    BY <1>0, <1>2, <1>5
  <2>2. seen' \in Seq(Event) /\ Deliveries' = Deliveries + 1 /\ Failures' = Failures
    BY <1>5 DEF ObservedDelivery
  <2>3. Recorded'
    BY <1>5, <2>1, <2>2 DEF Recorded
  <2> QED
    BY <1>0, <1>5, <2>1, <2>2, <2>3 DEF Tallied
<1>6. ASSUME UNCHANGED <<brought, now, target>>, Inc({"relayed"}), ObservedDelivery, Return("ok"),
             result = "none", pc # "idle"
      PROVE  Recorded' /\ Tallied'
  <2>1. /\ counters' \in [Counters -> Nat]
        /\ counters'["received"] = counters["received"] /\ counters'["relayed"] = counters["relayed"] + 1
        /\ counters'["failed"] = counters["failed"] /\ counters'["dlqEnqueued"] = counters["dlqEnqueued"]
    BY <1>0, <1>2, <1>6
  <2>2. seen' \in Seq(Event) /\ Deliveries' = Deliveries + 1 /\ Failures' = Failures
    BY <1>6 DEF ObservedDelivery
  <2>3. /\ returns' \in [{"ok", "parse", "send"} -> Nat] /\ pc' = "idle" /\ result' = "ok"
        /\ returns'["ok"] = returns["ok"] + 1 /\ returns'["parse"] = returns["parse"] /\ returns'["send"] = returns["send"]
    BY <1>0, <1>1, <1>6
  <2>4. Recorded'
    BY <1>6, <2>1, <2>2, <2>3 DEF Recorded
  <2>5. /\ counters'["received"] = returns'["ok"] + returns'["parse"] + returns'["send"]
        /\ counters'["failed"] = returns'["parse"] + returns'["send"]
    BY <1>0, <1>6, <2>1, <2>3 DEF Tallied
  <2>6. counters'["relayed"] <= brought' + target' - (IF result' = "ok" THEN 0 ELSE 1)
    BY <1>0, <1>6, <2>1, <2>3 DEF Tallied
  <2>7. counters'["dlqEnqueued"] <= returns'["send"]
    BY <1>0, <2>1, <2>3 DEF Tallied
  <2>8. counters'["failed"] = Failures' /\ counters'["relayed"] = Deliveries'
    BY <1>0, <2>1, <2>2 DEF Tallied
  <2>9. (returns'["ok"] + returns'["parse"] + returns'["send"]) \in Int
    BY <2>3
  <2> QED
    BY <2>3, <2>4, <2>5, <2>6, <2>7, <2>8, <2>9 DEF Tallied
<1>7. ASSUME UNCHANGED <<brought, now, target>>, NEW names, Inc(names), ObservedFailure,
             NEW r \in {"parse", "send"}, Return(r), result = "none", pc # "idle",
             "failed" \in names, "received" \notin names, "relayed" \notin names,
             "dlqEnqueued" \in names => r = "send"
      PROVE  Recorded' /\ Tallied'
  <2>1. /\ counters' \in [Counters -> Nat]
        /\ counters'["received"] = counters["received"] /\ counters'["relayed"] = counters["relayed"]
        /\ counters'["failed"] = counters["failed"] + 1
        /\ counters'["dlqEnqueued"] <= counters["dlqEnqueued"] + (IF r = "send" THEN 1 ELSE 0)
        /\ counters'["dlqEnqueued"] \in Nat
    BY <1>0, <1>2, <1>7
  <2>2. seen' \in Seq(Event) /\ Deliveries' = Deliveries /\ Failures' = Failures + 1
    BY <1>7 DEF ObservedFailure
  <2>3. /\ returns' \in [{"ok", "parse", "send"} -> Nat] /\ pc' = "idle" /\ result' # "ok"
        /\ returns'["ok"] = returns["ok"]
        /\ returns'["parse"] = returns["parse"] + (IF r = "parse" THEN 1 ELSE 0)
        /\ returns'["send"] = returns["send"] + (IF r = "send" THEN 1 ELSE 0)
    BY <1>0, <1>1, <1>7
  <2>4. Recorded'
    BY <1>7, <2>1, <2>2, <2>3 DEF Recorded
  <2>5. /\ counters'["received"] = returns'["ok"] + returns'["parse"] + returns'["send"]
        /\ counters'["failed"] = returns'["parse"] + returns'["send"]
    BY <1>0, <1>7, <2>1, <2>3 DEF Tallied
  <2>6. counters'["relayed"] <= brought' + target' - (IF result' = "ok" THEN 0 ELSE 1)
    BY <1>0, <1>7, <2>1, <2>3 DEF Tallied
  <2>7. counters'["dlqEnqueued"] <= returns'["send"]
    BY <1>0, <2>1, <2>3 DEF Tallied
  <2>8. counters'["failed"] = Failures' /\ counters'["relayed"] = Deliveries'
    BY <1>0, <2>1, <2>2 DEF Tallied
  <2>9. (returns'["ok"] + returns'["parse"] + returns'["send"]) \in Int
    BY <2>3
  <2> QED
    BY <2>3, <2>4, <2>5, <2>6, <2>7, <2>8, <2>9 DEF Tallied
<1>8. CASE ContextDone \/ Parse \/ Pause \/ UNCHANGED vars
  BY <1>4, <1>8 DEF ContextDone, Parse, Pause, vars, collectorVars, Recorded
<1>9. CASE DayPasses
  <2>1. now' \in Nat
    BY <1>9 DEF DayPasses, Tick, Recorded
  <2> QED
    BY <1>4, <1>9, <2>1 DEF DayPasses, collectorVars
<1>10. CASE ParseFails
  <2>1. /\ UNCHANGED <<brought, now, target>> /\ Inc({"failed"}) /\ ObserveDelivery(FALSE)
        /\ Return("parse") /\ pc = "parse"
    BY <1>10, Zenon DEF ParseFails
  <2>2. ObservedFailure
    BY <2>1, Observed, Zenon
  <2>3. result = "none"
    BY <2>1 DEF Typed
  <2> QED
    BY <1>7, <2>1, <2>2, <2>3
<1>11. ASSUME NEW ok \in BOOLEAN, Fail(ok)
       PROVE  Recorded' /\ Tallied'
  <2>1. PICK names : Inc(names) /\ "failed" \in names /\ "received" \notin names /\ "relayed" \notin names
    BY <1>11 DEF Fail, Queue
  <2>2. UNCHANGED <<brought, now, target>> /\ ObserveDelivery(FALSE) /\ Return("send") /\ pc = "failed"
    BY <1>11, Zenon DEF Fail
  <2>3. ObservedFailure
    BY <2>2, Observed, Zenon
  <2>4. result = "none"
    BY <2>2 DEF Typed
  <2> QED
    BY <1>7, <2>1, <2>2, <2>3, <2>4
<1>12. ASSUME NEW outcome \in {"ok", "error", "running"}, Send(outcome)
       PROVE  Recorded' /\ Tallied'
  <2>1. pc = "send" /\ result = "none" /\ UNCHANGED <<brought, now>> /\ now \in Nat
    BY <1>12 DEF Send, Typed, Recorded
  <2>2. CASE outcome # "ok"
    <3>1. UNCHANGED <<counters, returns, seen, target, result>> /\ pc' # "idle"
      BY <1>12, <2>1, <2>2 DEF Send, AfterFailure, collectorVars
    <3> QED
      BY <1>4, <2>1, <3>1
  <2>3. CASE outcome = "ok" /\ unit < units
    <3>0. unit # units
      BY <2>3 DEF Typed
    <3>1. Counted /\ Advance
      BY <1>12, <2>3 DEF Send
    <3>2. UNCHANGED <<counters, seen>>
      BY <3>0, <3>1, Zenon DEF Counted, collectorVars
    <3>3. UNCHANGED <<returns, target, result>> /\ pc' = "send"
      BY <3>0, <3>1 DEF Advance
    <3> QED
      BY <1>4, <2>1, <3>2, <3>3
  <2>4. CASE outcome = "ok" /\ unit = units
    <3>1. Counted /\ Advance /\ ~(unit < units)
      BY <1>12, <2>4 DEF Send, Typed
    <3>2. Inc({"relayed"}) /\ ObserveDelivery(TRUE)
      BY <3>1, Zenon DEF Counted
    <3>3. ObservedDelivery
      BY <3>2, Observed, Zenon
    <3>4. CASE target' = target + 1 /\ pc' = "send" /\ UNCHANGED <<result, returns>>
      BY <1>5, <2>1, <3>2, <3>3, <3>4
    <3>5. CASE Return("ok") /\ target' = target
      BY <1>6, <2>1, <3>2, <3>3, <3>5
    <3> QED
      BY <3>1, <3>4, <3>5 DEF Advance
  <2> QED
    BY <2>2, <2>3, <2>4 DEF Typed
<1> QED
  BY <1>3, <1>8, <1>9, <1>10, <1>11, <1>12 DEF Next, Step

\* The counters tell the truth about the calls, those that failed half way through a
\* group included.
THEOREM CountersTellTruth == Spec => []CountersTrue
<1>1. Init => Recorded /\ Tallied
  <2> SUFFICES ASSUME Init
               PROVE  Recorded /\ Tallied
    OBVIOUS
  <2>1. Recorded
    <3>1. seen \in Seq(Event)
      BY Emptied DEF Init, CollectorInit
    <3> QED
      BY <3>1 DEF Init, CollectorInit, Recorded
  <2>2. \A b \in BOOLEAN : Count(seen, b) = 0
    <3>1. DOMAIN seen = {}
      BY Emptied DEF Init, CollectorInit
    <3>2. \A b \in BOOLEAN : With(seen, b) = {}
      BY <3>1 DEF With
    <3> QED
      BY <3>2, FS_EmptySet DEF Count
  <2>3. /\ \A c \in Counters : counters[c] = 0
        /\ returns["ok"] = 0 /\ returns["parse"] = 0 /\ returns["send"] = 0
        /\ pc = "idle" /\ brought = 0 /\ target = 1 /\ result = "none"
    BY DEF Init, CollectorInit
  <2>4. Deliveries = 0 /\ Failures = 0
    BY <2>2, Zenon DEF Deliveries, Failures
  <2> QED
    BY <2>1, <2>3, <2>4 DEF Tallied, Counters
<1>2. Typed /\ Covered /\ Recorded /\ Tallied /\ [Next]_vars => (Recorded /\ Tallied)'
  BY TalliedStep
<1>3. Typed /\ Covered /\ Recorded /\ Tallied => CountersTrue
  <2> SUFFICES ASSUME Typed, Covered, Recorded, Tallied
               PROVE  CountersTrue
    OBVIOUS
  <2>1. counters["relayed"] <= brought + Cardinality(Complete)
    <3>1. counters["relayed"] \in Nat /\ brought \in Nat /\ target \in Nat
      BY DEF Recorded, Typed, Counters
    <3> QED
      BY <3>1, CompleteCount DEF Tallied
  <2> QED
    BY <2>1 DEF Tallied, Deliveries, Failures, CountersTrue
<1> QED
  BY <1>1, <1>2, <1>3, TypedHolds, CoveredHolds, PTL DEF Spec
-----------------------------------------------------------------------------
\* What is kept of all that was seen: the newest.
TailOf(kept, all) ==
    /\ kept \in Seq(Event) /\ all \in Seq(Event)
    /\ Len(kept) = (IF Len(all) <= MaxStoredDeliveryEvents THEN Len(all) ELSE MaxStoredDeliveryEvents)
    /\ \A i \in 1 .. Len(kept) : kept[i] = all[i + (Len(all) - Len(kept))]

\* Deliveries are seen in the order of the clock.
OrderedBy(all, clock) ==
    /\ \A i, j \in 1 .. Len(all) : i < j => all[i].at <= all[j].at
    /\ \A i \in 1 .. Len(all) : all[i].at <= clock

KeptTail == TailOf(deliveryEvents, seen) /\ OrderedBy(seen, now) /\ now \in Nat

\* A delivery more: an older one is given up when there are too many.
LEMMA TailAppended ==
    ASSUME NEW kept, NEW all, TailOf(kept, all), NEW e \in Event
    PROVE  TailOf(Keep(Append(kept, e)), Append(all, e))
<1> DEFINE k == Append(kept, e)
           a == Append(all, e)
           n == Len(kept)
           m == Len(all)
           max == MaxStoredDeliveryEvents
           from == IF n + 1 > max THEN n + 1 - max + 1 ELSE 1
<1>0. max \in Nat /\ max > 0
  BY CollectorAssumption
<1>1. /\ k \in Seq(Event) /\ Len(k) = n + 1 /\ n \in Nat
      /\ k[n + 1] = e /\ \A i \in 1 .. n : k[i] = kept[i]
  <2>1. kept \in Seq(Event)
    BY DEF TailOf
  <2> QED
    BY <2>1
<1>2. /\ a \in Seq(Event) /\ Len(a) = m + 1 /\ m \in Nat
      /\ a[m + 1] = e /\ \A i \in 1 .. m : a[i] = all[i]
  <2>1. all \in Seq(Event)
    BY DEF TailOf
  <2> QED
    BY <2>1
<1>3. n = (IF m <= max THEN m ELSE max) /\ \A i \in 1 .. n : kept[i] = all[i + (m - n)]
  BY DEF TailOf
<1> HIDE DEF k, a, n, m, max
<1>4. Keep(k) = SubSeq(k, from, n + 1)
  <2>1. Keep(k) = SubSeq(k, IF Len(k) > max THEN Len(k) - max + 1 ELSE 1, Len(k))
    BY Zenon DEF Keep, max
  <2>2. Len(k) = n + 1
    BY <1>1
  <2>3. from = IF Len(k) > max THEN Len(k) - max + 1 ELSE 1
    BY <1>0, <1>1, <2>2 DEF from
  <2> HIDE DEF from
  <2> QED
    BY <2>1, <2>2, <2>3
<1>5. from \in Nat /\ from >= 1 /\ from <= n + 1 /\ from \in {1, 2}
  BY <1>0, <1>1, <1>2, <1>3
<1> HIDE DEF from
<1>6. /\ Keep(k) \in Seq(Event) /\ Len(Keep(k)) = n + 1 - from + 1
      /\ \A i \in 1 .. (n + 1 - from + 1) : Keep(k)[i] = k[from + i - 1]
  <2>1. \A i \in from .. n + 1 : k[i] \in Event
    BY <1>1, <1>5
  <2>2. PICK to \in Int : to = n + 1
    BY <1>1
  <2>3. /\ SubSeq(k, from, to) \in Seq(Event)
        /\ Len(SubSeq(k, from, to)) = IF from <= to THEN to - from + 1 ELSE 0
        /\ \A i \in 1 .. to - from + 1 : SubSeq(k, from, to)[i] = k[from + i - 1]
    <3>1. from \in Int /\ \A i \in from .. to : k[i] \in Event
      BY <1>5, <2>1, <2>2
    <3> QED
      BY <3>1, SubSeqProperties
  <2> QED
    BY <1>1, <1>4, <1>5, <2>2, <2>3
<1>7. Len(Keep(k)) = (IF m + 1 <= max THEN m + 1 ELSE max)
  BY <1>0, <1>1, <1>2, <1>3, <1>6 DEF from
<1>8. ASSUME NEW i \in 1 .. Len(Keep(k))
      PROVE  Keep(k)[i] = a[i + (m + 1 - Len(Keep(k)))]
  <2>1. Keep(k)[i] = k[from + i - 1] /\ i + (m + 1 - Len(Keep(k))) = (from + i - 1) + (m - n)
    BY <1>1, <1>2, <1>5, <1>6
  <2>2. from + i - 1 \in 1 .. n + 1 /\ n <= m
    BY <1>0, <1>1, <1>2, <1>3, <1>5, <1>6
  <2>3. CASE from + i - 1 = n + 1
    BY <1>1, <1>2, <2>1, <2>3
  <2>4. CASE from + i - 1 \in 1 .. n
    <3>1. (from + i - 1) + (m - n) \in 1 .. m
      BY <1>1, <1>2, <2>2, <2>4
    <3>2. k[from + i - 1] = all[(from + i - 1) + (m - n)]
      BY <1>1, <1>3, <2>4
    <3> QED
      BY <1>2, <2>1, <3>1, <3>2
  <2> QED
    BY <1>1, <2>2, <2>3, <2>4
<1> QED
  BY <1>2, <1>6, <1>7, <1>8 DEF TailOf, k, a, max

\* A delivery seen now comes last.
LEMMA OrderAppended ==
    ASSUME NEW all \in Seq(Event), NEW clock \in Nat, OrderedBy(all, clock), NEW e \in Event, e.at = clock
    PROVE  OrderedBy(Append(all, e), clock)
<1> DEFINE a == Append(all, e)
           m == Len(all)
<1>1. Len(a) = m + 1 /\ m \in Nat /\ a[m + 1] = e /\ \A i \in 1 .. m : a[i] = all[i]
  OBVIOUS
<1>2. \A i \in 1 .. m : all[i].at <= clock
  BY DEF OrderedBy
<1> HIDE DEF a, m
<1>3. \A i \in 1 .. m + 1 : a[i].at <= clock
  BY <1>1, <1>2
<1>4. ASSUME NEW i \in 1 .. m + 1, NEW j \in 1 .. m + 1, i < j
      PROVE  a[i].at <= a[j].at
  <2>1. CASE j = m + 1
    BY <1>1, <1>3, <2>1
  <2>2. CASE j \in 1 .. m
    <3>1. i \in 1 .. m
      BY <1>1, <1>4, <2>2
    <3> QED
      BY <1>1, <1>4, <2>2, <3>1 DEF OrderedBy, m
  <2> QED
    BY <1>1, <2>1, <2>2
<1> QED
  BY <1>1, <1>3, <1>4 DEF OrderedBy, a

\* The newest are kept, in order.
LEMMA KeptHolds == Spec => []KeptTail
<1>1. Init => KeptTail
  <2> SUFFICES ASSUME Init
               PROVE  KeptTail
    OBVIOUS
  <2>1. /\ Len(deliveryEvents) = 0 /\ Len(seen) = 0 /\ now = 0
        /\ deliveryEvents \in Seq(Event) /\ seen \in Seq(Event)
    BY Emptied DEF Init, CollectorInit
  <2> QED
    BY <2>1, CollectorAssumption DEF KeptTail, TailOf, OrderedBy
<1>2. KeptTail /\ [Next]_vars => KeptTail'
  <2> SUFFICES ASSUME KeptTail, [Next]_vars
               PROVE  KeptTail'
    OBVIOUS
  <2>1. ASSUME UNCHANGED <<deliveryEvents, seen>>, now' \in Nat, now' >= now
        PROVE  KeptTail'
    <3>1. OrderedBy(seen, now) /\ TailOf(deliveryEvents, seen) /\ now \in Nat
      BY DEF KeptTail
    <3>2. \A i \in 1 .. Len(seen) : seen[i].at \in Nat
      <4>1. \A i \in 1 .. Len(seen) : seen[i] \in Event
        BY <3>1 DEF TailOf
      <4> QED
        BY <4>1 DEF Event
    <3>3. OrderedBy(seen, now')
      BY <2>1, <3>1, <3>2 DEF OrderedBy
    <3>4. TailOf(deliveryEvents', seen') /\ OrderedBy(seen', now') /\ now' \in Nat
      BY <2>1, <3>1, <3>3
    <3> QED
      BY <3>4, Zenon DEF KeptTail, TailOf, OrderedBy
  <2>2. ASSUME NEW d \in BOOLEAN, ObserveDelivery(d), now' = now
        PROVE  KeptTail'
    <3>1. PICK e : e = [at |-> now, delivered |-> d]
      OBVIOUS
    <3>2. e \in Event /\ e.at = now
      BY <3>1 DEF KeptTail, Event
    <3>3. deliveryEvents' = Keep(Append(deliveryEvents, e)) /\ seen' = Append(seen, e)
      BY <2>2, <3>1, Zenon DEF ObserveDelivery
    <3>4. TailOf(deliveryEvents, seen) /\ OrderedBy(seen, now) /\ now \in Nat /\ seen \in Seq(Event)
      BY DEF KeptTail, TailOf
    <3>5. TailOf(deliveryEvents', seen')
      BY <3>2, <3>3, <3>4, TailAppended
    <3>6. OrderedBy(seen', now')
      BY <2>2, <3>2, <3>3, <3>4, OrderAppended
    <3> QED
      BY <2>2, <3>4, <3>5, <3>6, Zenon DEF KeptTail, TailOf, OrderedBy
  <2>3. now \in Nat
    BY DEF KeptTail
  <2>4. ASSUME NEW replay, NEW n, NEW bad, NEW c, NEW m, Relay(replay, n, bad, c, m)
        PROVE  KeptTail'
    BY <2>1, <2>3, <2>4 DEF Relay
  <2>5. CASE ContextDone \/ Parse \/ Pause \/ UNCHANGED vars
    BY <2>1, <2>3, <2>5 DEF ContextDone, Parse, Pause, vars, collectorVars
  <2>6. CASE DayPasses
    BY <2>1, <2>3, <2>6 DEF DayPasses, Tick, collectorVars
  <2>7. CASE ParseFails
    BY <2>2, <2>7, Zenon DEF ParseFails
  <2>8. ASSUME NEW ok \in BOOLEAN, Fail(ok)
        PROVE  KeptTail'
    BY <2>2, <2>8, Zenon DEF Fail
  <2>9. ASSUME NEW outcome \in {"ok", "error", "running"}, Send(outcome)
        PROVE  KeptTail'
    <3>1. now' = now
      BY <2>9, Zenon DEF Send
    <3>2. Counted \/ UNCHANGED collectorVars
      BY <2>9, Zenon DEF Send
    <3>3. ObserveDelivery(TRUE) \/ UNCHANGED collectorVars
      BY <3>2, Zenon DEF Counted
    <3>4. CASE ObserveDelivery(TRUE)
      BY <2>2, <3>1, <3>4, Zenon
    <3>5. CASE UNCHANGED collectorVars
      BY <2>1, <2>3, <3>1, <3>5 DEF collectorVars
    <3> QED
      BY <3>3, <3>4, <3>5
  <2> QED
    BY <2>4, <2>5, <2>6, <2>7, <2>8, <2>9 DEF Next, Step
<1> QED
  BY <1>1, <1>2, PTL DEF Spec

\* The places of some deliveries, counted from the end of the other sequence.
LEMMA ShiftedCount ==
    ASSUME NEW A \in SUBSET Nat, IsFiniteSet(A), NEW d \in Nat
    PROVE  Cardinality({i + d : i \in A}) = Cardinality(A)
<1> DEFINE B == {i + d : i \in A}
           f == [i \in A |-> i + d]
<1>1. f \in Bijection(A, B)
  <2>1. f \in [A -> B]
    OBVIOUS
  <2>2. \A i, j \in A : f[i] = f[j] => i = j
    OBVIOUS
  <2>3. \A t \in B : \E i \in A : f[i] = t
    OBVIOUS
  <2> QED
    BY <2>1, <2>2, <2>3 DEF Bijection, Injection, Surjection, IsInjective
<1> HIDE DEF B, f
<1>2. ExistsBijection(A, B)
  BY <1>1 DEF ExistsBijection
<1>3. Cardinality(B) = Cardinality(A)
  BY <1>2, FS_Bijection
<1> QED
  BY <1>3 DEF B

\* The kept deliveries report what all would when they are all, or when one of them is
\* from before the days of the report: then so is every one that was given up.
LEMMA TailReports ==
    ASSUME NEW kept, NEW all, TailOf(kept, all), NEW clock, OrderedBy(all, clock), now \in Nat,
           Recent(kept) # DOMAIN kept \/ Len(all) <= MaxStoredDeliveryEvents
    PROVE  Report(kept) = Report(all)
<1> DEFINE n == Len(kept)
           m == Len(all)
           d == m - n
<1>0. /\ kept \in Seq(Event) /\ all \in Seq(Event) /\ n \in Nat /\ m \in Nat
      /\ DOMAIN kept = 1 .. n /\ DOMAIN all = 1 .. m
      /\ MaxStoredDeliveryEvents \in Nat /\ Since \in Int
      /\ \A i \in 1 .. m : all[i].at \in Nat
  <2>1. kept \in Seq(Event) /\ all \in Seq(Event)
    BY DEF TailOf
  <2>2. \A i \in 1 .. m : all[i] \in Event
    BY <2>1
  <2>3. \A i \in 1 .. m : all[i].at \in Nat
    BY <2>2 DEF Event
  <2>4. MaxStoredDeliveryEvents \in Nat /\ Since \in Int
    BY CollectorAssumption DEF Since
  <2> QED
    BY <2>1, <2>3, <2>4
<1>1. /\ n = (IF m <= MaxStoredDeliveryEvents THEN m ELSE MaxStoredDeliveryEvents)
      /\ \A i \in 1 .. n : kept[i] = all[i + d]
  BY DEF TailOf
<1> HIDE DEF n, m
<1>2. d \in Nat /\ n + d = m
  BY <1>0, <1>1
<1> HIDE DEF d
<1>3. CASE m <= MaxStoredDeliveryEvents
  <2>1. n = m /\ d = 0
    BY <1>0, <1>1, <1>2, <1>3
  <2>2. \A i \in 1 .. n : kept[i] = all[i]
    BY <1>0, <1>1, <2>1
  <2>3. kept = all
    BY <1>0, <2>1, <2>2, SeqEqual DEF n, m
  <2> QED
    BY <2>3
<1>4. CASE Recent(kept) # DOMAIN kept
  <2>1. PICK k \in 1 .. n : ~(kept[k].at >= Since)
    BY <1>0, <1>4 DEF Recent
  <2>2. k + d \in 1 .. m /\ all[k + d].at < Since
    BY <1>0, <1>1, <1>2, <2>1
  <2>3. \A i \in 1 .. d : all[i].at < Since
    <3> TAKE i \in 1 .. d
    <3>1. i \in 1 .. m /\ i < k + d
      BY <1>0, <1>2, <2>2
    <3>2. all[i].at <= all[k + d].at
      BY <2>2, <3>1 DEF OrderedBy, m
    <3> QED
      BY <1>0, <2>2, <3>1, <3>2
  <2>4. Recent(all) = {i + d : i \in Recent(kept)}
    <3>1. ASSUME NEW j \in Recent(all)
          PROVE  \E i \in Recent(kept) : j = i + d
      <4>1. j \in 1 .. m /\ all[j].at >= Since
        BY <1>0 DEF Recent
      <4>2. j \notin 1 .. d
        BY <1>0, <2>3, <4>1
      <4>3. j - d \in 1 .. n /\ j = (j - d) + d
        BY <1>0, <1>2, <4>1, <4>2
      <4>4. j - d \in Recent(kept)
        BY <1>0, <1>1, <4>1, <4>3 DEF Recent
      <4> QED
        BY <4>3, <4>4
    <3>2. ASSUME NEW i \in Recent(kept)
          PROVE  i + d \in Recent(all)
      <4>1. i \in 1 .. n /\ kept[i].at >= Since
        BY <1>0 DEF Recent
      <4>2. i + d \in 1 .. m
        BY <1>0, <1>2, <4>1
      <4> QED
        BY <1>0, <1>1, <4>1, <4>2 DEF Recent
    <3> QED
      BY <3>1, <3>2
  <2>5. ASSUME NEW b
        PROVE  Recent(all) \intersect With(all, b) = {i + d : i \in Recent(kept) \intersect With(kept, b)}
    <3>1. \A i \in Recent(kept) : /\ i \in 1 .. n /\ i + d \in DOMAIN all
                                  /\ all[i + d] = kept[i]
      <4>1. \A i \in Recent(kept) : i \in 1 .. n
        BY <1>0 DEF Recent
      <4>2. \A i \in 1 .. n : i + d \in 1 .. m
        BY <1>0, <1>2
      <4> QED
        BY <1>0, <1>1, <4>1, <4>2
    <3>2. \A i \in Recent(kept) : i + d \in With(all, b) <=> i \in With(kept, b)
      BY <1>0, <3>1 DEF With
    <3> QED
      BY <2>4, <3>2
  <2>6. ASSUME NEW A \in SUBSET Recent(kept)
        PROVE  Cardinality({i + d : i \in A}) = Cardinality(A)
    <3>1. A \subseteq DOMAIN kept /\ DOMAIN kept \subseteq Nat
      BY <1>0 DEF Recent
    <3>2. IsFiniteSet(DOMAIN kept)
      BY <1>0, FS_Interval
    <3>3. IsFiniteSet(A) /\ A \in SUBSET Nat
      BY <3>1, <3>2, FS_Subset
    <3> QED
      BY <1>2, <3>3, ShiftedCount
  <2>7. Cardinality(Recent(all)) = Cardinality(Recent(kept))
    BY <2>4, <2>6
  <2>8. \A b : Cardinality(Recent(all) \intersect With(all, b)) = Cardinality(Recent(kept) \intersect With(kept, b))
    <3> TAKE b
    <3>1. Recent(kept) \intersect With(kept, b) \in SUBSET Recent(kept)
      OBVIOUS
    <3> QED
      BY <2>5, <2>6, <3>1
  <2> QED
    BY <2>7, <2>8, Zenon DEF Report
<1> QED
  BY <1>3, <1>4 DEF m

\* The report counts every delivery of its days as long as the kept deliveries reach
\* back beyond them or none had to be given up.
THEOREM ReportsExact == Spec => []ReportExact
<1>1. KeptTail => ReportExact
  <2> SUFFICES ASSUME KeptTail,
                      Recent(deliveryEvents) # DOMAIN deliveryEvents \/ Len(seen) <= MaxStoredDeliveryEvents
               PROVE  BuildLastDaysReport = Report(seen)
    BY DEF ReportExact
  <2>1. TailOf(deliveryEvents, seen) /\ OrderedBy(seen, now) /\ now \in Nat
    BY DEF KeptTail
  <2> QED
    BY <2>1, TailReports DEF BuildLastDaysReport
<1> QED
  BY <1>1, KeptHolds, PTL
=============================================================================
