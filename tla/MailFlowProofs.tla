---------------------------- MODULE MailFlowProofs ---------------------------
(***************************************************************************)
(* Theorems about MailFlow for any number of submissions, chats, immediate  *)
(* retries, changes of the alias, failed writes and restarts.               *)
(***************************************************************************)
EXTENDS MailFlow, FiniteSetTheorems, TLAPS

Calls == [chats : 0 .. GroupSize, next : 1 .. GroupSize, attempt : Nat]

SessionType ==
    [pc : {"new", "parse", "send", "queue", "answer", "answered", "broken"}, rcpts : Seq(Payloads),
     at : Nat \ {0}, call : Calls, reply : {"none", "250", "451"}]

StoreTyped ==
    /\ IsItemMap(items) /\ IsItemMap(disk)
    /\ DOMAIN items \subseteq issued /\ issued \subseteq Ids

WorkerTyped ==
    /\ wBatch \in Seq(Picked)
    /\ wStep \in {"relay", "ok", "err"}
    /\ wCall \in Calls

Typed ==
    /\ StoreTyped /\ WorkerTyped
    /\ members \in 0 .. GroupSize
    /\ submitted \in 0 .. MaxSubmissions
    /\ session \in [Sessions -> SessionType]
    /\ now \in Nat
-----------------------------------------------------------------------------
(* The store. *)

\* A retry time is a natural number, however far the shift of the delay overflows.
LEMMA RetryTime ==
    ASSUME NEW attempt, NEW t \in Nat, NEW jitter \in 0 .. Jitter - 1
    PROVE  t + WorkerDelay(attempt, jitter) \in Nat
<1>1. BaseOf(BaseDelay) \in Nat /\ MaxOf(MaxDelay) \in Nat
  BY BackoffAssumption, WorkerAssumption DEF BaseOf, MaxOf
<1>2. ASSUME NEW d, NEW b \in Nat, NEW m \in Nat
      PROVE  Clamp(d, b, m) \in Nat
  BY DEF Clamp
<1>3. nextDelay(attempt + 1, BaseDelay, MaxDelay) \in Nat
  BY <1>1, <1>2 DEF nextDelay
<1> QED
  BY <1>3, WorkerAssumption DEF WorkerDelay

\* What one operation of the store does to the maps: the file is as before or as the
\* memory is now, no item is lost and none changes its payload.
Changed ==
    /\ StoreTyped'
    /\ disk' = disk \/ disk' = items'
    /\ DOMAIN items \subseteq DOMAIN items'
    /\ \A id \in DOMAIN items : items'[id].payload = items[id].payload

\* Enqueue of a mail that is in the queue already.
LEMMA DuplicateEffect ==
    ASSUME StoreTyped, NEW p, NEW id, NEW ok, EnqueueDuplicate(p, id, ok)
    PROVE  /\ Changed /\ items' = items /\ id \in DOMAIN items
           /\ items[id].payload = p /\ Active(items[id])
           /\ ok => disk' = items'
<1>1. items' = items /\ issued' = issued /\ id \in DOMAIN items /\ items[id].payload = p /\ Active(items[id])
  BY DEF EnqueueDuplicate, Duplicates
<1>2. (disk' = items' \/ (disk' = disk /\ ~ok)) /\ IsItemMap(items') /\ IsItemMap(disk')
  BY <1>1 DEF EnqueueDuplicate, persistLocked, StoreTyped, IsItemMap
<1> QED
  BY <1>1, <1>2 DEF Changed, StoreTyped

\* Enqueue of a mail that is not.
LEMMA NewEffect ==
    ASSUME StoreTyped, NEW p \in Payloads, NEW id, NEW t \in Nat, NEW ok, EnqueueNew(p, id, t, ok)
    PROVE  /\ Changed /\ id \notin DOMAIN items /\ DOMAIN items' = DOMAIN items \union {id}
           /\ items'[id].payload = p /\ items'[id].status = "pending"
           /\ \A k \in DOMAIN items : items'[k] = items[k]
           /\ ok => disk' = items'
           /\ Duplicates(p) = {}
<1>1. /\ id \in Ids /\ id \notin issued /\ issued' = issued \union {id} /\ Duplicates(p) = {}
      /\ items' = Put(items, id, NewItem(p, t))
      /\ disk' = items' \/ (disk' = disk /\ ~ok)
  BY DEF EnqueueNew, persistLocked
<1>2. id \notin DOMAIN items
  BY <1>1 DEF StoreTyped
<1>3. /\ DOMAIN items' = DOMAIN items \union {id}
      /\ items'[id] = NewItem(p, t)
      /\ \A k \in DOMAIN items : items'[k] = items[k]
  BY <1>1, <1>2 DEF Put
<1>4. NewItem(p, t) \in Item /\ NewItem(p, t).payload = p /\ NewItem(p, t).status = "pending"
  BY DEF NewItem, Item, Status
<1>5. IsItemMap(items')
  BY <1>1, <1>4 DEF Put, IsItemMap, StoreTyped
<1>6. StoreTyped'
  BY <1>1, <1>3, <1>5 DEF StoreTyped, IsItemMap
<1> QED
  BY <1>1, <1>2, <1>3, <1>4, <1>6 DEF Changed

\* PickDue: the items that were picked are being processed, the others as before.
LEMMA PickEffect ==
    ASSUME StoreTyped, NEW batch, NEW t, NEW ok, PickDue(batch, BatchSize, t, ok)
    PROVE  /\ Changed /\ DOMAIN items' = DOMAIN items
           /\ batch \in Seq(DOMAIN items)
           /\ \A i \in DOMAIN batch : items[batch[i]].status = "pending"
           /\ \A i, j \in DOMAIN batch : batch[i] = batch[j] => i = j
           /\ \A i \in DOMAIN batch : items'[batch[i]].status = "processing"
           /\ \A id \in DOMAIN items : items'[id] = items[id]
                                       \/ (items[id].status = "pending" /\ items'[id].status = "processing")
<1>1. batch \in DueBatches(BatchSize, t) /\ BatchSize \in Nat
  BY WorkerAssumption DEF PickDue
<1>2. batch \in Seq(DOMAIN items) /\ ToSet(batch) \subseteq Due(t) /\ IsInjective(batch)
  BY <1>1 DEF DueBatches, BoundedSeq, SeqOf, Due, ToSet
<1>3. \A id \in ToSet(batch) : items[id].status = "pending"
  BY <1>2 DEF Due
<1>4. \A i \in DOMAIN batch : batch[i] \in ToSet(batch) /\ batch[i] \in DOMAIN items
  BY <1>2 DEF ToSet
<1>5. \A i, j \in DOMAIN batch : batch[i] = batch[j] => i = j
  BY <1>2 DEF IsInjective
<1>6. items' = WithStatus(ToSet(batch), "processing") /\ issued' = issued
  BY DEF PickDue
<1>7. /\ DOMAIN items' = DOMAIN items
      /\ \A id \in DOMAIN items : id \notin ToSet(batch) => items'[id] = items[id]
      /\ \A id \in DOMAIN items : id \in ToSet(batch) => items'[id] = [items[id] EXCEPT !.status = "processing"]
  BY <1>6 DEF WithStatus
<1>8. \A id \in DOMAIN items : items[id] \in Item
  BY DEF StoreTyped, IsItemMap
<1>9. \A item \in Item : /\ [item EXCEPT !.status = "processing"] \in Item
                         /\ [item EXCEPT !.status = "processing"].payload = item.payload
                         /\ [item EXCEPT !.status = "processing"].status = "processing"
  BY DEF Item, Status
<1>10. IsItemMap(items')
  BY <1>6, <1>7, <1>8, <1>9 DEF WithStatus, StoreTyped, IsItemMap
<1>11. (disk' = disk \/ disk' = items') /\ IsItemMap(disk')
  BY <1>10 DEF PickDue, persistLocked, StoreTyped, IsItemMap
<1>12. Changed
  BY <1>6, <1>7, <1>8, <1>9, <1>10, <1>11 DEF Changed, StoreTyped
<1>13. \A id \in DOMAIN items : items'[id] = items[id]
                                \/ (items[id].status = "pending" /\ items'[id].status = "processing")
  <2> TAKE id \in DOMAIN items
  <2>1. CASE id \in ToSet(batch)
    <3>1. items[id] \in Item /\ items[id].status = "pending"
      BY <1>3, <1>8, <2>1
    <3>2. items'[id].status = "processing"
      BY <1>7, <1>9, <2>1, <3>1
    <3> QED
      BY <3>1, <3>2
  <2> QED
    BY <1>7, <2>1
<1>14. \A i \in DOMAIN batch : items[batch[i]].status = "pending" /\ items'[batch[i]].status = "processing"
  <2> TAKE i \in DOMAIN batch
  <2>1. batch[i] \in ToSet(batch) /\ batch[i] \in DOMAIN items /\ items[batch[i]] \in Item
    BY <1>4, <1>8
  <2> QED
    BY <1>3, <1>7, <1>9, <2>1
<1> QED
  BY <1>2, <1>5, <1>7, <1>12, <1>13, <1>14

\* MarkDone and MarkRetry, as the worker uses them: one item gets a verdict.
LEMMA MarkEffect ==
    ASSUME StoreTyped, WorkerTyped, NEW t \in Nat, NEW jitter \in 0 .. Jitter - 1, NEW ok,
           wBatch # <<>>, WorkerStore(t, jitter, ok)
    PROVE  /\ Changed /\ DOMAIN items' = DOMAIN items /\ wBatch[1].id \in DOMAIN items
           /\ \A id \in DOMAIN items : id # wBatch[1].id => items'[id] = items[id]
           /\ wStep = "ok" => items'[wBatch[1].id].status = "done"
           /\ wStep # "ok" => items'[wBatch[1].id].status \in {"pending", "failed"}
<1> DEFINE id == wBatch[1].id
           next == t + WorkerDelay(wBatch[1].attempt, jitter)
<1>1. (wStep = "ok" /\ MarkDone(id, ok)) \/ (wStep = "err" /\ MarkRetry(id, next, ok))
  BY DEF WorkerStore
<1>2. next \in Nat
  BY RetryTime
<1> HIDE DEF id, next
<1>3. id \in DOMAIN items /\ issued' = issued
  BY <1>1 DEF MarkDone, MarkRetry
<1>4. items[id] \in Item
  BY <1>3 DEF StoreTyped, IsItemMap
<1>5. PICK item \in Item :
         /\ items' = [items EXCEPT ![id] = item] /\ item.payload = items[id].payload
         /\ wStep = "ok" => item.status = "done"
         /\ wStep # "ok" => item.status \in {"pending", "failed"}
  <2>1. CASE wStep = "ok" /\ MarkDone(id, ok)
    <3> DEFINE item == [items[id] EXCEPT !.status = "done"]
    <3>1. item \in Item /\ item.payload = items[id].payload /\ item.status = "done"
      BY <1>4 DEF Item, Status
    <3>2. items' = [items EXCEPT ![id] = item]
      BY <2>1 DEF MarkDone
    <3> QED
      BY <2>1, <3>1, <3>2
  <2>2. CASE wStep = "err" /\ MarkRetry(id, next, ok)
    <3> DEFINE item == Retried(items[id], next)
    <3>1. item \in Item /\ item.payload = items[id].payload /\ item.status \in {"pending", "failed"}
      BY <1>2, <1>4 DEF Retried, Item, Status
    <3>2. items' = [items EXCEPT ![id] = item]
      BY <2>2 DEF MarkRetry
    <3> QED
      BY <2>2, <3>1, <3>2
  <2> QED
    BY <1>1, <2>1, <2>2
<1>6. IsItemMap(items') /\ DOMAIN items' = DOMAIN items
  BY <1>3, <1>5 DEF StoreTyped, IsItemMap
<1>7. (disk' = disk \/ disk' = items') /\ IsItemMap(disk')
  BY <1>1, <1>6 DEF MarkDone, MarkRetry, persistLocked, StoreTyped, IsItemMap
<1>8. /\ items'[id] = item /\ \A k \in DOMAIN items : k # id => items'[k] = items[k]
  BY <1>3, <1>5
<1>9. Changed
  BY <1>3, <1>5, <1>6, <1>7, <1>8 DEF Changed, StoreTyped
<1> QED
  BY <1>3, <1>5, <1>6, <1>8, <1>9 DEF id
-----------------------------------------------------------------------------
(* The sessions. *)

\* Session s is now at p, with recipient a, call c and reply y; the others stay.
Becomes(s, p, a, c, y) ==
    /\ session' \in [Sessions -> SessionType]
    /\ \A q \in Sessions : q # s => session'[q] = session[q]
    /\ session'[s].pc = p /\ session'[s].at = a /\ session'[s].call = c /\ session'[s].reply = y
    /\ session'[s].rcpts = session[s].rcpts

\* A session with some of its fields replaced.
LEMMA Replaced ==
    ASSUME session \in [Sessions -> SessionType], NEW s \in Sessions,
           NEW new \in SessionType, session' = [session EXCEPT ![s] = new], new.rcpts = session[s].rcpts
    PROVE  Becomes(s, new.pc, new.at, new.call, new.reply)
BY DEF Becomes

\* The call replaced.
LEMMA MoreFields ==
    ASSUME NEW r \in SessionType, NEW c \in Calls, NEW new, new = [r EXCEPT !.call = c]
    PROVE  /\ new \in SessionType /\ new.rcpts = r.rcpts /\ new.pc = r.pc /\ new.at = r.at
           /\ new.call = c /\ new.reply = r.reply
BY DEF SessionType

\* The types of a session's fields.
LEMMA SessionFields ==
    ASSUME session \in [Sessions -> SessionType], NEW s \in Sessions
    PROVE  /\ session[s] \in SessionType
           /\ session[s].pc \in {"new", "parse", "send", "queue", "answer", "answered", "broken"}
           /\ session[s].rcpts \in Seq(Payloads) /\ session[s].at \in Nat \ {0}
           /\ session[s].call \in Calls /\ session[s].reply \in {"none", "250", "451"}
           /\ session[s].call.next \in 1 .. GroupSize /\ session[s].call.chats \in 0 .. GroupSize
<1>1. session[s] \in SessionType
  OBVIOUS
<1>2. session[s].call \in Calls
  BY <1>1 DEF SessionType
<1> QED
  BY <1>1, <1>2 DEF SessionType, Calls

\* No call is a call.
LEMMA NoCallType == NoCall \in Calls /\ NoCall.next = 1 /\ NoCall.chats = 0
  BY FlowAssumption DEF NoCall, NewCall, Calls

\* A session that will answer 451.
LEMMA Answers ==
    ASSUME session \in [Sessions -> SessionType], NEW s \in Sessions,
           session' = [session EXCEPT ![s].pc = "answer", ![s].reply = "451"]
    PROVE  Becomes(s, "answer", session[s].at, session[s].call, "451")
<1>0. PICK new : new = [session[s] EXCEPT !.pc = "answer", !.reply = "451"]
  OBVIOUS
<1>1. session' = [session EXCEPT ![s] = new]
  BY <1>0
<1>2. /\ new \in SessionType /\ new.rcpts = session[s].rcpts /\ new.pc = "answer" /\ new.at = session[s].at
      /\ new.call = session[s].call /\ new.reply = "451"
  <2>1. session[s] \in SessionType
    BY SessionFields
  <2> QED
    BY <1>0, <2>1 DEF SessionType
<1>3. Becomes(s, new.pc, new.at, new.call, new.reply)
  BY <1>1, <1>2, Replaced
<1> QED
  BY <1>2, <1>3

\* The relay for a recipient begins, or cannot.
LEMMA ParseEffect ==
    ASSUME Typed, NEW s \in Sessions, SessionParse(s)
    PROVE  \/ Becomes(s, "answer", session[s].at, session[s].call, "451") /\ sFailures' = sFailures + 1
           \/ /\ \E n \in 1 .. GroupSize, c \in Calls :
                    /\ c.chats = n /\ c.next = 1
                    /\ Becomes(s, "send", session[s].at, c, session[s].reply)
              /\ UNCHANGED sFailures
<1> DEFINE n == Parse(session[s].rcpts[session[s].at])
<1>0. n \in 0 .. GroupSize
  BY FlowAssumption DEF Parse, Typed
<1> HIDE DEF n
<1>1. session[s] \in SessionType /\ session \in [Sessions -> SessionType]
  BY SessionFields DEF Typed
<1>2. ASSUME n > 0, session' = [session EXCEPT ![s].pc = "send", ![s].call = NewCall(n)]
      PROVE  \E m \in 1 .. GroupSize, c \in Calls :
                /\ c.chats = m /\ c.next = 1
                /\ Becomes(s, "send", session[s].at, c, session[s].reply)
  <2> DEFINE c == NewCall(n)
  <2>0. PICK new : new = [session[s] EXCEPT !.pc = "send", !.call = c]
    OBVIOUS
  <2>1. n \in 1 .. GroupSize /\ c \in Calls /\ c.chats = n /\ c.next = 1
    BY <1>0, <1>2, FlowAssumption DEF Calls, NewCall
  <2>2. session' = [session EXCEPT ![s] = new]
    BY <1>1, <1>2, <2>0
  <2> HIDE DEF c
  <2>3. /\ new \in SessionType /\ new.rcpts = session[s].rcpts /\ new.pc = "send" /\ new.at = session[s].at
        /\ new.call = c /\ new.reply = session[s].reply
    BY <1>1, <2>0, <2>1 DEF SessionType
  <2>4. Becomes(s, new.pc, new.at, new.call, new.reply)
    BY <1>1, <2>2, <2>3, Replaced
  <2>5. Becomes(s, "send", session[s].at, c, session[s].reply)
    BY <2>3, <2>4
  <2> QED
    BY <2>1, <2>5
<1>3. ASSUME session' = [session EXCEPT ![s].pc = "answer", ![s].reply = "451"]
      PROVE  Becomes(s, "answer", session[s].at, session[s].call, "451")
  BY <1>1, <1>3, Answers
<1>4. \/ n = 0 /\ session' = [session EXCEPT ![s].pc = "answer", ![s].reply = "451"] /\ sFailures' = sFailures + 1
      \/ n > 0 /\ session' = [session EXCEPT ![s].pc = "send", ![s].call = NewCall(n)] /\ UNCHANGED sFailures
  BY Zenon DEF SessionParse, n
<1> QED
  BY <1>2, <1>3, <1>4

\* What a call of the sender does to its session: it is made again, the relay goes on to
\* the next chat, it has brought the mail to all of them, or it has failed.
SentAgain(s) ==
    /\ \E c \in Calls : /\ c.chats = session[s].call.chats /\ c.next = session[s].call.next
                        /\ Becomes(s, "send", session[s].at, c, session[s].reply)
    /\ full' = full

SentMore(s) ==
    /\ session[s].call.next < session[s].call.chats
    /\ \E c \in Calls : /\ c.chats = session[s].call.chats /\ c.next = session[s].call.next + 1
                        /\ Becomes(s, "send", session[s].at, c, session[s].reply)
    /\ full' = full

SentAll(s) ==
    /\ \/ /\ session[s].at < Len(session[s].rcpts)
          /\ Becomes(s, "parse", session[s].at + 1, NoCall, session[s].reply)
       \/ /\ ~(session[s].at < Len(session[s].rcpts))
          /\ Becomes(s, "answer", session[s].at, NoCall, "250")
    /\ full' = full \union {<<s, session[s].rcpts[session[s].at]>>}

SentNot(s) ==
    /\ Becomes(s, "queue", session[s].at, NoCall, session[s].reply)
    /\ full' = full

SentKinds(s, then) ==
    \/ then = "again" /\ SentAgain(s)
    \/ then = "next" /\ SentMore(s)
    \/ then = "done" /\ SentAll(s)
    \/ then = "failed" /\ SentNot(s)

\* Where a call goes on.
LEMMA CallGoesOn ==
    ASSUME NEW call \in Calls, NEW outcome, NEW then \in Then(call, outcome)
    PROVE  /\ then \in Ends
           /\ then = "again" => /\ NextCall(call, then) \in Calls /\ NextCall(call, then).chats = call.chats
                                /\ NextCall(call, then).next = call.next
           /\ then = "next" => /\ call.next < call.chats
                               /\ NextCall(call, then) \in Calls /\ NextCall(call, then).chats = call.chats
                               /\ NextCall(call, then).next = call.next + 1
           /\ then \in {"done", "failed"} => NextCall(call, then) = NoCall
<1>1. /\ then \in Ends /\ (then = "next" => call.next < call.chats)
  BY DEF Then, Ends
<1>2. /\ call.next \in 1 .. GroupSize /\ call.chats \in 0 .. GroupSize /\ call.attempt \in Nat
      /\ GroupSize \in Nat
  BY FlowAssumption DEF Calls
<1>3. ASSUME then = "again"
      PROVE  /\ NextCall(call, then) \in Calls /\ NextCall(call, then).chats = call.chats
             /\ NextCall(call, then).next = call.next
  <2>1. NextCall(call, then) = [call EXCEPT !.attempt = @ + 1]
    BY <1>3 DEF NextCall
  <2>2. call.attempt + 1 \in Nat
    BY <1>2
  <2> QED
    BY <1>2, <2>1, <2>2 DEF Calls
<1>4. ASSUME then = "next"
      PROVE  /\ NextCall(call, then) \in Calls /\ NextCall(call, then).chats = call.chats
             /\ NextCall(call, then).next = call.next + 1
  <2>1. NextCall(call, then) = [call EXCEPT !.next = @ + 1, !.attempt = 0]
    BY <1>4 DEF NextCall
  <2>2. PICK k \in 1 .. GroupSize : k = call.next + 1
    BY <1>1, <1>2, <1>4
  <2>3. PICK new : new = [call EXCEPT !.next = k, !.attempt = 0]
    OBVIOUS
  <2>4. new \in Calls /\ new.chats = call.chats /\ new.next = k
    BY <2>3 DEF Calls
  <2>5. NextCall(call, then) = new
    BY <2>1, <2>2, <2>3
  <2> QED
    BY <2>2, <2>4, <2>5
<1>5. then \in {"done", "failed"} => NextCall(call, then) = NoCall
  BY DEF NextCall
<1> QED
  BY <1>1, <1>3, <1>4, <1>5

\* A call of the sender by a session is one of these four.
LEMMA SendEffect ==
    ASSUME Typed, NEW s \in Sessions, NEW outcome, NEW then, SessionSend(s, outcome, then)
    PROVE  SentKinds(s, then)
<1> DEFINE this == session[s]
           c == NextCall(this.call, then)
<1>1. /\ this \in SessionType /\ this.call \in Calls /\ session \in [Sessions -> SessionType]
      /\ this.at \in Nat \ {0}
  BY SessionFields DEF Typed
<1>2. then \in Then(this.call, outcome) /\ this.pc = "send"
  BY DEF SessionSend, SenderReturns
<1>3. PICK on : on = [this EXCEPT !.call = c]
  OBVIOUS
<1>4. /\ session' = [session EXCEPT ![s] =
              CASE then \in {"again", "next"}                 -> on
                [] then = "failed"                            -> [on EXCEPT !.pc = "queue"]
                [] then = "done" /\ this.at < Len(this.rcpts) -> [on EXCEPT !.pc = "parse", !.at = @ + 1]
                [] OTHER                                      -> [on EXCEPT !.pc = "answer", !.reply = "250"]]
      /\ full' = IF then = "done" THEN full \union {<<s, this.rcpts[this.at]>>} ELSE full
  BY <1>3 DEF SessionSend
<1>5. /\ then \in {"again", "next", "done", "failed"}
      /\ c \in Calls
      /\ then = "again" => c.chats = this.call.chats /\ c.next = this.call.next
      /\ then = "next" => /\ this.call.next < this.call.chats
                          /\ c.chats = this.call.chats /\ c.next = this.call.next + 1
      /\ then \in {"done", "failed"} => c = NoCall
  BY <1>1, <1>2, CallGoesOn, NoCallType DEF Ends
<1> HIDE DEF c
<1>6. /\ on \in SessionType /\ on.rcpts = this.rcpts /\ on.pc = "send" /\ on.at = this.at
      /\ on.call = c /\ on.reply = this.reply
  BY <1>1, <1>2, <1>3, <1>5, MoreFields
<1>7. CASE then \in {"again", "next"}
  <2>1. session' = [session EXCEPT ![s] = on] /\ full' = full
    <3>1. then # "done" /\ then # "failed"
      BY <1>7
    <3>2. session' = [session EXCEPT ![s] = on]
      BY <1>4, <1>7
    <3> QED
      BY <1>4, <3>1, <3>2
  <2>2. Becomes(s, on.pc, on.at, on.call, on.reply)
    BY <1>1, <1>6, <2>1, Replaced
  <2> QED
    BY <1>5, <1>6, <1>7, <2>1, <2>2 DEF SentKinds, SentAgain, SentMore
<1>8. CASE then = "failed"
  <2>0. PICK new : new = [on EXCEPT !.pc = "queue"]
    OBVIOUS
  <2>1. session' = [session EXCEPT ![s] = new] /\ full' = full
    <3>1. then # "done" /\ then \notin {"again", "next"}
      BY <1>8
    <3>2. session' = [session EXCEPT ![s] = new]
      BY <1>4, <1>8, <2>0, <3>1
    <3> QED
      BY <1>4, <3>1, <3>2
  <2>2. /\ new \in SessionType /\ new.rcpts = this.rcpts /\ new.pc = "queue" /\ new.at = this.at
        /\ new.call = NoCall /\ new.reply = this.reply
    BY <1>5, <1>6, <1>8, <2>0 DEF SessionType
  <2>3. Becomes(s, new.pc, new.at, new.call, new.reply)
    BY <1>1, <2>1, <2>2, Replaced
  <2> QED
    BY <1>8, <2>1, <2>2, <2>3 DEF SentKinds, SentNot
<1>9. CASE then = "done" /\ this.at < Len(this.rcpts)
  <2>0. PICK new : new = [on EXCEPT !.pc = "parse", !.at = this.at + 1]
    OBVIOUS
  <2>1. session' = [session EXCEPT ![s] = new] /\ full' = full \union {<<s, this.rcpts[this.at]>>}
    BY <1>4, <1>6, <1>9, <2>0
  <2>2. /\ new \in SessionType /\ new.rcpts = this.rcpts /\ new.pc = "parse" /\ new.at = this.at + 1
        /\ new.call = NoCall /\ new.reply = this.reply
    <3>1. this.at + 1 \in Nat \ {0}
      BY <1>1
    <3> QED
      BY <1>5, <1>6, <1>9, <2>0, <3>1 DEF SessionType
  <2>3. Becomes(s, new.pc, new.at, new.call, new.reply)
    BY <1>1, <2>1, <2>2, Replaced
  <2> QED
    BY <1>9, <2>1, <2>2, <2>3 DEF SentKinds, SentAll
<1>10. CASE then = "done" /\ ~(this.at < Len(this.rcpts))
  <2>0. PICK new : new = [on EXCEPT !.pc = "answer", !.reply = "250"]
    OBVIOUS
  <2>1. session' = [session EXCEPT ![s] = new] /\ full' = full \union {<<s, this.rcpts[this.at]>>}
    BY <1>4, <1>10, <2>0
  <2>2. /\ new \in SessionType /\ new.rcpts = this.rcpts /\ new.pc = "answer" /\ new.at = this.at
        /\ new.call = NoCall /\ new.reply = "250"
    BY <1>5, <1>6, <1>10, <2>0 DEF SessionType
  <2>3. Becomes(s, new.pc, new.at, new.call, new.reply)
    BY <1>1, <2>1, <2>2, Replaced
  <2> QED
    BY <1>10, <2>1, <2>2, <2>3 DEF SentKinds, SentAll
<1> QED
  BY <1>5, <1>7, <1>8, <1>9, <1>10

\* The failed relay has left the mail in the queue and answers 451.
LEMMA QueueEffect ==
    ASSUME Typed, NEW s \in Sessions, NEW id, NEW saved, SessionQueue(s, id, saved)
    PROVE  Becomes(s, "answer", session[s].at, session[s].call, "451")
<1>1. session[s] \in SessionType /\ session \in [Sessions -> SessionType]
  BY SessionFields DEF Typed
<1>2. session' = [session EXCEPT ![s].pc = "answer", ![s].reply = "451"]
  BY DEF SessionQueue, AfterFailure
<1> QED
  BY <1>1, <1>2, Answers

\* The session answers.
LEMMA AnswerEffect ==
    ASSUME Typed, NEW s \in Sessions, SessionAnswer(s)
    PROVE  Becomes(s, "answered", 1, session[s].call, session[s].reply)
<1>1. session[s] \in SessionType /\ session \in [Sessions -> SessionType]
  BY SessionFields DEF Typed
<1>2. session' = [session EXCEPT ![s].pc = "answered", ![s].at = 1]
  BY DEF SessionAnswer
<1>3. PICK new : new = [session[s] EXCEPT !.pc = "answered", !.at = 1]
  OBVIOUS
<1>4. session' = [session EXCEPT ![s] = new]
  BY <1>1, <1>2, <1>3
<1>5. /\ new \in SessionType /\ new.rcpts = session[s].rcpts /\ new.pc = "answered" /\ new.at = 1
      /\ new.call = session[s].call /\ new.reply = session[s].reply
  <2>1. 1 \in Nat \ {0}
    OBVIOUS
  <2> QED
    BY <1>1, <1>3, <2>1 DEF SessionType
<1>6. Becomes(s, new.pc, new.at, new.call, new.reply)
  BY <1>1, <1>4, <1>5, Replaced
<1> QED
  BY <1>5, <1>6

\* What a session does next.
SessionActs(s) ==
    \/ SessionParse(s)
    \/ \E outcome \in Outcomes, then \in Ends : SessionSend(s, outcome, then)
    \/ \E id \in Ids, saved \in BOOLEAN : SessionQueue(s, id, saved)
    \/ SessionAnswer(s)

\* The recipients of a session: at least one, each once.
LEMMA EnvelopeType ==
    /\ Envelope \in Seq(Payloads) /\ 1 \in DOMAIN Envelope
    /\ \A i, j \in DOMAIN Envelope : Envelope[i] = Envelope[j] => i = j
<1>1. Group \in Payloads /\ Direct \in Payloads /\ Group # Direct
  BY FlowAssumption
<1>2. ASSUME NEW e, e = <<Group, Direct>>
      PROVE  e \in Seq(Payloads) /\ 1 \in DOMAIN e /\ \A i, j \in DOMAIN e : e[i] = e[j] => i = j
  <2>1. e \in Seq(Payloads) /\ DOMAIN e = {1, 2} /\ e[1] = Group /\ e[2] = Direct
    BY <1>1, <1>2
  <2> QED
    BY <1>1, <2>1
<1>3. ASSUME NEW e, e = <<Direct>>
      PROVE  e \in Seq(Payloads) /\ 1 \in DOMAIN e /\ \A i, j \in DOMAIN e : e[i] = e[j] => i = j
  <2>1. e \in Seq(Payloads) /\ DOMAIN e = {1} /\ e[1] = Direct
    BY <1>1, <1>3
  <2> QED
    BY <2>1
<1>4. Envelope = <<Group, Direct>> \/ Envelope = <<Direct>>
  BY DEF Envelope
<1> QED
  BY <1>2, <1>3, <1>4

\* A submission starts a session.
LEMMA SubmitEffect ==
    ASSUME Typed, Submit
    PROVE  /\ submitted' \in Sessions /\ submitted' \in 0 .. MaxSubmissions /\ waiting' = submitted'
           /\ session' \in [Sessions -> SessionType]
           /\ \A q \in Sessions : q # submitted' => session'[q] = session[q]
           /\ session'[submitted'].pc = "parse" /\ session'[submitted'].at = 1
           /\ session'[submitted'].call = NoCall /\ session'[submitted'].reply = "none"
           /\ session'[submitted'].rcpts = Envelope
<1>1. PICK s : s = submitted'
  OBVIOUS
<1>2. s \in Sessions /\ s \in 0 .. MaxSubmissions /\ waiting' = s
  BY <1>1, FlowAssumption DEF Submit, Typed, Sessions
<1>3. PICK new : new = [NewSession EXCEPT !.pc = "parse", !.rcpts = Envelope]
  OBVIOUS
<1>4. session' = [session EXCEPT ![s] = new]
  BY <1>1, <1>3 DEF Submit
<1>5. /\ new.pc = "parse" /\ new.at = 1 /\ new.call = NoCall /\ new.reply = "none" /\ new.rcpts = Envelope
      /\ new \in SessionType
  <2>1. new = [pc |-> "parse", rcpts |-> Envelope, at |-> 1, call |-> NoCall, reply |-> "none"]
    BY <1>3 DEF NewSession
  <2> QED
    BY <2>1, EnvelopeType, NoCallType DEF SessionType
<1>6. session' \in [Sessions -> SessionType] /\ session'[s] = new /\ \A q \in Sessions : q # s => session'[q] = session[q]
  BY <1>2, <1>4, <1>5 DEF Typed
<1> QED
  BY <1>1, <1>2, <1>5, <1>6

\* A restart breaks the sessions that are running.
LEMMA RestartSessions ==
    ASSUME Typed, Restart
    PROVE  /\ session' \in [Sessions -> SessionType]
           /\ \A s \in Sessions : /\ session'[s].pc \notin {"parse", "send", "queue", "answer"}
                                  /\ session'[s] = session[s] \/ session'[s].reply = "none"
<1>1. \A s \in Sessions : session[s] \in SessionType
  BY DEF Typed
<1>2. PICK broken : broken = [NewSession EXCEPT !.pc = "broken"]
  OBVIOUS
<1>3. broken \in SessionType /\ broken.pc = "broken" /\ broken.reply = "none"
  <2>1. broken = [pc |-> "broken", rcpts |-> <<>>, at |-> 1, call |-> NoCall, reply |-> "none"]
    BY <1>2 DEF NewSession
  <2>2. ASSUME NEW e, e = <<>>
        PROVE  e \in Seq(Payloads)
    BY <2>2
  <2> QED
    BY <2>1, <2>2, NoCallType DEF SessionType
<1>4. session' = [s \in Sessions |->
                     IF session[s].pc \in {"parse", "send", "queue", "answer"} THEN broken ELSE session[s]]
  BY <1>2 DEF Restart
<1>5. ASSUME NEW s \in Sessions
      PROVE  /\ session'[s] \in SessionType /\ session'[s].pc \notin {"parse", "send", "queue", "answer"}
             /\ session'[s] = session[s] \/ session'[s].reply = "none"
  <2>1. CASE session[s].pc \in {"parse", "send", "queue", "answer"}
    BY <1>3, <1>4, <2>1
  <2>2. CASE session[s].pc \notin {"parse", "send", "queue", "answer"}
    BY <1>1, <1>4, <2>2
  <2> QED
    BY <2>1, <2>2
<1> QED
  BY <1>4, <1>5

\* A restart reads the file: what was in hand is due again.
LEMMA LoadEffect ==
    ASSUME StoreTyped, DOMAIN disk \subseteq DOMAIN items, load
    PROVE  /\ StoreTyped' /\ disk' = disk /\ DOMAIN items' = DOMAIN disk
           /\ \A id \in DOMAIN disk :
                 /\ items'[id].payload = disk[id].payload
                 /\ items'[id] = disk[id] \/ (disk[id].status = "processing" /\ items'[id].status = "pending")
<1>1. items' = Loaded(disk) /\ disk' = disk /\ issued' = issued
  BY DEF load
<1>2. \A id \in DOMAIN disk : disk[id] \in Item
  BY DEF StoreTyped, IsItemMap
<1>3. \A item \in Item : LET i == [item EXCEPT !.status = "pending"]
                         IN  i \in Item /\ i.payload = item.payload /\ i.status = "pending"
  BY DEF Item, Status
<1>4. DOMAIN items' = DOMAIN disk
  BY <1>1 DEF Loaded
<1>5. ASSUME NEW id \in DOMAIN disk
      PROVE  /\ items'[id] \in Item /\ items'[id].payload = disk[id].payload
             /\ items'[id] = disk[id] \/ (disk[id].status = "processing" /\ items'[id].status = "pending")
  <2>1. CASE disk[id].status = "processing"
    BY <1>1, <1>2, <1>3, <2>1 DEF Loaded
  <2>2. CASE disk[id].status # "processing"
    BY <1>1, <1>2, <2>2 DEF Loaded
  <2> QED
    BY <2>1, <2>2
<1>6. IsItemMap(items')
  BY <1>1, <1>4, <1>5 DEF IsItemMap, StoreTyped, Loaded
<1> QED
  BY <1>1, <1>4, <1>5, <1>6 DEF StoreTyped
-----------------------------------------------------------------------------
\* A call that is under way has a chat to go to.
Calling ==
    /\ \A s \in Sessions : session[s].pc = "send" => session[s].call.next <= session[s].call.chats
    /\ wCall = NoCall \/ wCall.next <= wCall.chats

\* The items the worker has in hand are being processed, each is there once, and it
\* calls Relay for the first of them only.
Held ==
    /\ wBatch = <<>> => wStep = "relay" /\ wCall = NoCall
    /\ wStep # "relay" => wCall = NoCall
    /\ \A i \in DOMAIN wBatch : wBatch[i].id \in DOMAIN items /\ items[wBatch[i].id].status = "processing"
    /\ \A i, j \in DOMAIN wBatch : wBatch[i].id = wBatch[j].id => i = j

\* The file has no item the memory does not have, and the same payloads.
Agree ==
    /\ DOMAIN disk \subseteq DOMAIN items
    /\ \A id \in DOMAIN disk : disk[id].payload = items[id].payload

Base == Typed /\ Calling /\ Held /\ Agree

\* An operation of the store keeps file and memory in agreement.
LEMMA AgreeStep ==
    ASSUME Agree, Changed
    PROVE  Agree'
BY DEF Agree, Changed

\* Nothing of the store or of the worker changes.
LEMMA Quiet ==
    ASSUME Base, UNCHANGED <<items, disk, issued, wBatch, wStep, wCall>>
    PROVE  StoreTyped' /\ WorkerTyped' /\ Held' /\ Agree' /\ (wCall = NoCall \/ wCall.next <= wCall.chats)'
BY DEF Base, Typed, StoreTyped, WorkerTyped, IsItemMap, Calling, Held, Agree

\* Nothing of the sessions changes.
LEMMA SameSessions ==
    ASSUME Base, UNCHANGED <<session, members, submitted>>, now' \in Nat,
           StoreTyped', WorkerTyped', Held', Agree', (wCall = NoCall \/ wCall.next <= wCall.chats)'
    PROVE  Base'
BY DEF Base, Typed, Calling

\* A session changes, and the worker does not.
LEMMA OneSession ==
    ASSUME Base, NEW s \in Sessions, NEW p, NEW a, NEW c, NEW y, Becomes(s, p, a, c, y),
           p = "send" => c.next <= c.chats,
           UNCHANGED <<wBatch, wStep, wCall, members, submitted, now>>,
           StoreTyped', Held', Agree'
    PROVE  Base'
<1>1. Typed'
  BY DEF Base, Typed, WorkerTyped, Becomes
<1>2. Calling'
  <2>1. wCall' = NoCall' \/ wCall'.next <= wCall'.chats
    BY DEF Base, Calling, NoCall, NewCall
  <2>2. \A q \in Sessions : session'[q].pc = "send" => session'[q].call.next <= session'[q].call.chats
    BY DEF Base, Calling, Becomes
  <2> QED
    BY <2>1, <2>2 DEF Calling
<1> QED
  BY <1>1, <1>2 DEF Base

\* The elements of a tail.
LEMMA TailElements ==
    ASSUME NEW S, NEW s \in Seq(S), s # <<>>
    PROVE  /\ Tail(s) \in Seq(S) /\ 1 \in DOMAIN s /\ s[1] \in S
           /\ \A i \in DOMAIN Tail(s) : /\ i + 1 \in DOMAIN s /\ i + 1 # 1 /\ Tail(s)[i] = s[i + 1]
                                        /\ i \in Nat
OBVIOUS

\* The worker marks the first item and goes on to the next.
LEMMA MarkStep ==
    ASSUME Base, NEW jitter \in 0 .. Jitter - 1, NEW saved, DoWorkerMark(jitter, saved)
    PROVE  Base'
<1>1. /\ wBatch # <<>> /\ wStep \in {"ok", "err"} /\ WorkerStore(now, jitter, saved)
      /\ wBatch' = Tail(wBatch) /\ wStep' = "relay" /\ wCall' = wCall
      /\ UNCHANGED <<session, members, submitted, now>>
  BY DEF DoWorkerMark, WorkerMark, clientVars
<1>2. wBatch \in Seq(Picked) /\ wCall = NoCall /\ now \in Nat
  BY <1>1 DEF Base, Typed, WorkerTyped, Held
<1>3. /\ Changed /\ DOMAIN items' = DOMAIN items
      /\ \A id \in DOMAIN items : id # wBatch[1].id => items'[id] = items[id]
  BY <1>1, <1>2, MarkEffect DEF Base, Typed
<1>4. /\ Tail(wBatch) \in Seq(Picked) /\ 1 \in DOMAIN wBatch
      /\ \A i \in DOMAIN wBatch' : i + 1 \in DOMAIN wBatch /\ i + 1 # 1 /\ wBatch'[i] = wBatch[i + 1] /\ i \in Nat
  BY <1>1, <1>2, TailElements
<1>5. Held'
  <2>1. \A i \in DOMAIN wBatch' : wBatch'[i].id \in DOMAIN items' /\ items'[wBatch'[i].id].status = "processing"
    <3> TAKE i \in DOMAIN wBatch'
    <3>1. /\ wBatch[i + 1].id # wBatch[1].id /\ wBatch[i + 1].id \in DOMAIN items
          /\ items[wBatch[i + 1].id].status = "processing"
      BY <1>4 DEF Base, Held
    <3> QED
      BY <1>3, <1>4, <3>1
  <2>2. \A i, j \in DOMAIN wBatch' : wBatch'[i].id = wBatch'[j].id => i = j
    <3> TAKE i, j \in DOMAIN wBatch'
    <3>1. wBatch[i + 1].id = wBatch[j + 1].id => i + 1 = j + 1
      BY <1>4 DEF Base, Held
    <3>2. i \in Nat /\ j \in Nat /\ wBatch'[i] = wBatch[i + 1] /\ wBatch'[j] = wBatch[j + 1]
      BY <1>4
    <3> QED
      BY <3>1, <3>2
  <2> QED
    BY <1>1, <1>2, <2>1, <2>2 DEF Held, NoCall, NewCall
<1>6. StoreTyped' /\ Agree'
  BY <1>3, AgreeStep DEF Base, Changed
<1>7. WorkerTyped'
  BY <1>1, <1>2, <1>4 DEF WorkerTyped, Base, Typed, Calls
<1>8. (wCall = NoCall \/ wCall.next <= wCall.chats)'
  BY <1>1, <1>2 DEF NoCall, NewCall
<1> QED
  BY <1>1, <1>2, <1>5, <1>6, <1>7, <1>8, SameSessions

\* The worker picks a batch.
LEMMA PickStep ==
    ASSUME Base, NEW batch, NEW saved, DoWorkerPick(batch, saved)
    PROVE  Base'
<1>1. /\ wBatch = <<>> /\ PickDue(batch, BatchSize, now, saved) /\ wStep' = wStep /\ wCall' = wCall
      /\ wBatch' = IF saved THEN [i \in DOMAIN batch |-> [id |-> batch[i], attempt |-> items[batch[i]].attempt]]
                            ELSE <<>>
      /\ UNCHANGED <<session, members, submitted, now>>
  BY DEF DoWorkerPick, WorkerPick, clientVars
<1>2. /\ Changed /\ DOMAIN items' = DOMAIN items /\ batch \in Seq(DOMAIN items)
      /\ \A i, j \in DOMAIN batch : batch[i] = batch[j] => i = j
      /\ \A i \in DOMAIN batch : items'[batch[i]].status = "processing"
  BY <1>1, PickEffect DEF Base, Typed
<1>3. wStep = "relay" /\ wCall = NoCall /\ now \in Nat
  BY <1>1 DEF Base, Held, Typed
<1>4. wBatch' \in Seq(Picked) /\ \A i \in DOMAIN wBatch' : i \in DOMAIN batch /\ wBatch'[i].id = batch[i]
  <2>1. ASSUME NEW b, b = [i \in DOMAIN batch |-> [id |-> batch[i], attempt |-> items[batch[i]].attempt]]
        PROVE  b \in Seq(Picked) /\ DOMAIN b = DOMAIN batch /\ \A i \in DOMAIN b : b[i].id = batch[i]
    <3>1. \A id \in DOMAIN items : id \in Ids /\ items[id].attempt \in Nat
      BY DEF Base, Typed, StoreTyped, IsItemMap, Item
    <3>2. \A i \in DOMAIN batch : [id |-> batch[i], attempt |-> items[batch[i]].attempt] \in Picked
      BY <1>2, <3>1 DEF Picked
    <3>3. b \in Seq(Picked)
      BY <1>2, <2>1, <3>2
    <3> QED
      BY <2>1, <3>3
  <2>2. ASSUME NEW b, b = <<>>
        PROVE  b \in Seq(Picked) /\ DOMAIN b = {}
    BY <2>2
  <2> QED
    BY <1>1, <2>1, <2>2
<1>5. Held'
  <2>1. \A i \in DOMAIN wBatch' : wBatch'[i].id \in DOMAIN items' /\ items'[wBatch'[i].id].status = "processing"
    <3> TAKE i \in DOMAIN wBatch'
    <3>1. wBatch'[i].id = batch[i] /\ i \in DOMAIN batch /\ batch[i] \in DOMAIN items
      BY <1>2, <1>4
    <3> QED
      BY <1>2, <3>1
  <2>2. \A i, j \in DOMAIN wBatch' : wBatch'[i].id = wBatch'[j].id => i = j
    BY <1>2, <1>4
  <2> QED
    BY <1>1, <1>3, <2>1, <2>2 DEF Held, NoCall, NewCall
<1>6. StoreTyped' /\ Agree'
  BY <1>2, AgreeStep DEF Base, Changed
<1>7. WorkerTyped'
  BY <1>1, <1>3, <1>4 DEF WorkerTyped, Base, Typed, Calls
<1>8. (wCall = NoCall \/ wCall.next <= wCall.chats)'
  BY <1>1, <1>3 DEF NoCall, NewCall
<1> QED
  BY <1>1, <1>3, <1>5, <1>6, <1>7, <1>8, SameSessions

\* What happens to the worker's call of Relay: it begins, makes a call of the sender
\* again, goes on to the next chat, or ends.
Returns(then) == \E outcome : SenderReturns(items[wBatch[1].id].payload, wCall, outcome, then)

CallBegins ==
    /\ wBatch # <<>> /\ wStep = "relay" /\ wCall = NoCall
    /\ wCall' \in Calls /\ wCall'.next = 1 /\ wCall'.chats > 0
    /\ UNCHANGED <<storeVars, workerVars, wFailures, got, repeats, full>>

CallRepeats ==
    /\ wBatch # <<>> /\ wStep = "relay" /\ wCall # NoCall
    /\ wCall' \in Calls /\ wCall'.next = wCall.next /\ wCall'.next <= wCall'.chats
    /\ Returns("again")
    /\ UNCHANGED <<storeVars, workerVars, wFailures, full>>

CallContinues ==
    /\ wBatch # <<>> /\ wStep = "relay" /\ wCall # NoCall
    /\ wCall' \in Calls /\ wCall'.next = wCall.next + 1 /\ wCall'.next <= wCall'.chats
    /\ Returns("next")
    /\ UNCHANGED <<storeVars, workerVars, wFailures, full>>

CallSucceeds ==
    /\ wBatch # <<>> /\ wStep = "relay" /\ wCall # NoCall
    /\ wStep' = "ok" /\ wCall' = NoCall
    /\ Returns("done")
    /\ full' = full \union {<<wBatch[1].id, items[wBatch[1].id].payload>>}
    /\ UNCHANGED <<storeVars, wBatch, wFailures>>

CallFails ==
    /\ wBatch # <<>> /\ wStep = "relay"
    /\ wStep' = "err" /\ wCall' = NoCall
    /\ \/ UNCHANGED <<got, repeats>>
       \/ wCall # NoCall /\ Returns("failed")
    /\ wFailures' = wFailures + 1
    /\ UNCHANGED <<storeVars, wBatch, full>>

CallKinds == CallBegins \/ CallRepeats \/ CallContinues \/ CallSucceeds \/ CallFails

CallActs == WorkerParse \/ \E outcome \in Outcomes, then \in Ends : WorkerSend(outcome, then)

\* A step of the worker inside Relay is one of these five.
LEMMA CallEffect ==
    ASSUME Base, CallActs
    PROVE  CallKinds
<1>0. GroupSize \in Nat \ {0} /\ members \in 0 .. GroupSize /\ wCall \in Calls
  BY FlowAssumption DEF Base, Typed, WorkerTyped
<1>1. ASSUME NEW outcome, WorkerReturns(outcome)
      PROVE  /\ wBatch # <<>> /\ wStep = "relay" /\ wStep' = outcome /\ wCall' = NoCall
             /\ UNCHANGED <<storeVars, wBatch>>
             /\ wFailures' = IF outcome = "err" THEN wFailures + 1 ELSE wFailures
  BY <1>1 DEF WorkerReturns, WorkerRelay
<1>2. CASE WorkerParse
  <2> DEFINE n == Parse(items[wBatch[1].id].payload)
  <2>1. n \in 0 .. GroupSize
    BY <1>0 DEF Parse
  <2> HIDE DEF n
  <2>2. UNCHANGED <<got, repeats, full>>
    BY <1>2 DEF WorkerParse
  <2>3. CASE n > 0 /\ wCall' = NewCall(n) /\ UNCHANGED <<storeVars, workerVars, wFailures>>
    <3>1. wCall' \in Calls /\ wCall'.next = 1 /\ wCall'.chats > 0
      BY <1>0, <2>1, <2>3 DEF Calls, NewCall
    <3>2. wBatch # <<>> /\ wStep = "relay" /\ wCall = NoCall
      BY <1>2 DEF WorkerParse
    <3> QED
      BY <2>2, <2>3, <3>1, <3>2 DEF CallKinds, CallBegins
  <2>4. CASE WorkerReturns("err")
    BY <1>1, <2>2, <2>4 DEF CallKinds, CallFails
  <2> QED
    BY <1>2, <2>3, <2>4 DEF WorkerParse, n
<1>3. ASSUME NEW outcome \in Outcomes, NEW then \in Ends, WorkerSend(outcome, then)
      PROVE  CallKinds
  <2>1. /\ wBatch # <<>> /\ wStep = "relay" /\ wCall # NoCall
        /\ SenderReturns(items[wBatch[1].id].payload, wCall, outcome, then)
    BY <1>3 DEF WorkerSend
  <2>2. Returns(then) /\ then \in Then(wCall, outcome)
    BY <2>1 DEF Returns, SenderReturns
  <2>3. wCall.next <= wCall.chats /\ wCall.next \in Nat /\ wCall.chats \in Nat
    BY <1>0, <2>1 DEF Base, Calling, Calls
  <2>4. CASE /\ then \in {"again", "next"} /\ wCall' = NextCall(wCall, then)
             /\ UNCHANGED <<storeVars, workerVars, full, wFailures>>
    <3>1. /\ wCall' \in Calls /\ wCall'.chats = wCall.chats
          /\ then = "again" => wCall'.next = wCall.next
          /\ then = "next" => wCall.next < wCall.chats /\ wCall'.next = wCall.next + 1
      BY <1>0, <2>2, <2>4, CallGoesOn
    <3>2. wCall'.next <= wCall'.chats
      BY <2>3, <2>4, <3>1
    <3> QED
      BY <2>1, <2>2, <2>4, <3>1, <3>2 DEF CallKinds, CallRepeats, CallContinues
  <2>5. CASE /\ then = "done" /\ WorkerReturns("ok")
             /\ full' = full \union {<<wBatch[1].id, items[wBatch[1].id].payload>>}
    BY <1>1, <2>1, <2>2, <2>5 DEF CallKinds, CallSucceeds
  <2>6. CASE then = "failed" /\ WorkerReturns("err") /\ UNCHANGED full
    BY <1>1, <2>1, <2>2, <2>6 DEF CallKinds, CallFails
  <2> QED
    BY <1>3, <2>4, <2>5, <2>6 DEF WorkerSend
<1> QED
  BY <1>2, <1>3 DEF CallActs

\* The steps of the worker's call.
LEMMA CallStep ==
    ASSUME Base, CallActs
    PROVE  Base'
<1>1. CallKinds
  BY CallEffect
<1>2. UNCHANGED <<session, members, submitted, now>> /\ now \in Nat
  BY DEF CallActs, WorkerParse, WorkerSend, clientVars, Base, Typed
<1>3. UNCHANGED <<items, disk, issued, wBatch>>
  BY <1>1 DEF CallKinds, CallBegins, CallRepeats, CallContinues, CallSucceeds, CallFails, storeVars, workerVars
<1>4. StoreTyped' /\ Agree'
  BY <1>3 DEF Base, Typed, StoreTyped, IsItemMap, Agree
<1>5. WorkerTyped'
  BY <1>1, NoCallType DEF CallKinds, CallBegins, CallRepeats, CallContinues, CallSucceeds, CallFails, workerVars,
                          WorkerTyped, Base, Typed
<1>6. /\ wBatch # <<>>
      /\ wStep' # "relay" => wCall' = NoCall
      /\ wCall' = NoCall \/ wCall'.next <= wCall'.chats
  BY <1>1 DEF CallKinds, CallBegins, CallRepeats, CallContinues, CallSucceeds, CallFails, workerVars, Calls
<1>7. Held'
  BY <1>3, <1>6 DEF Base, Held, NoCall, NewCall
<1>8. (wCall = NoCall \/ wCall.next <= wCall.chats)'
  BY <1>6 DEF NoCall, NewCall
<1> QED
  BY <1>2, <1>4, <1>5, <1>7, <1>8, SameSessions

\* Enqueue does not touch what is in the queue.
LEMMA EnqueueKeeps ==
    ASSUME Base, NEW p \in Payloads, NEW id, NEW saved, Enqueue(p, id, now, saved),
           UNCHANGED <<wBatch, wStep, wCall>>
    PROVE  StoreTyped' /\ Held' /\ Agree' /\ Changed /\ \A k \in DOMAIN items : items'[k] = items[k]
<1>1. StoreTyped /\ now \in Nat
  BY DEF Base, Typed
<1>2. Changed /\ \A k \in DOMAIN items : items'[k] = items[k]
  <2>1. CASE EnqueueDuplicate(p, id, saved)
    BY <1>1, <2>1, DuplicateEffect
  <2>2. CASE EnqueueNew(p, id, now, saved)
    BY <1>1, <2>2, NewEffect
  <2> QED
    BY <2>1, <2>2 DEF Enqueue
<1>3. StoreTyped' /\ Agree' /\ DOMAIN items \subseteq DOMAIN items'
  BY <1>2, AgreeStep DEF Base, Changed
<1>4. Held'
  BY <1>2, <1>3 DEF Base, Held, NoCall, NewCall
<1> QED
  BY <1>2, <1>3, <1>4

\* The recipient a session is at, while it is running.
AtRecipient ==
    \A s \in Sessions : session[s].pc \in {"parse", "send", "queue"} => session[s].at \in DOMAIN session[s].rcpts

\* A step of a session.
LEMMA SessionStep ==
    ASSUME Base, AtRecipient, NEW s \in Sessions, SessionActs(s)
    PROVE  Base'
<1>0. Typed /\ session \in [Sessions -> SessionType]
  BY DEF Base, Typed
<1>1. UNCHANGED <<wBatch, wStep, wCall, members, submitted, now>>
  BY DEF SessionActs, SessionParse, SessionSend, SessionQueue, SessionAnswer, workerVars, clientVars
<1>2. ASSUME UNCHANGED storeVars
      PROVE  StoreTyped' /\ Held' /\ Agree'
  BY <1>1, <1>2, Quiet DEF storeVars
<1>3. CASE SessionParse(s)
  <2>1. StoreTyped' /\ Held' /\ Agree'
    BY <1>2, <1>3 DEF SessionParse
  <2>2. CASE Becomes(s, "answer", session[s].at, session[s].call, "451")
    BY <1>1, <2>1, <2>2, OneSession
  <2>3. ASSUME NEW n \in 1 .. GroupSize, NEW c \in Calls, c.chats = n, c.next = 1,
               Becomes(s, "send", session[s].at, c, session[s].reply)
        PROVE  Base'
    <3>1. c.next <= c.chats
      BY <2>3, FlowAssumption
    <3> QED
      BY <1>1, <2>1, <2>3, <3>1, OneSession
  <2> QED
    BY <1>0, <1>3, <2>2, <2>3, ParseEffect
<1>4. ASSUME NEW outcome, NEW then, SessionSend(s, outcome, then)
      PROVE  Base'
  <2>1. session[s].pc = "send" /\ UNCHANGED storeVars
    BY <1>4 DEF SessionSend
  <2>2. session[s].call.next <= session[s].call.chats
    BY <2>1 DEF Base, Calling
  <2>3. StoreTyped' /\ Held' /\ Agree'
    BY <1>2, <2>1
  <2>4. ASSUME NEW c \in Calls, Becomes(s, "send", session[s].at, c, session[s].reply), c.next <= c.chats
        PROVE  Base'
    BY <1>1, <2>3, <2>4, OneSession
  <2>5. CASE SentAgain(s)
    BY <2>2, <2>4, <2>5 DEF SentAgain
  <2>6. CASE SentMore(s)
    <3>1. PICK c \in Calls : /\ c.chats = session[s].call.chats /\ c.next = session[s].call.next + 1
                             /\ Becomes(s, "send", session[s].at, c, session[s].reply)
      BY <2>6 DEF SentMore
    <3>2. c.next <= c.chats
      BY <1>0, <2>6, <3>1, SessionFields DEF SentMore
    <3> QED
      BY <2>4, <3>1, <3>2
  <2>7. CASE SentAll(s)
    <3>1. CASE Becomes(s, "answer", session[s].at, NoCall, "250")
      BY <1>1, <2>3, <3>1, OneSession
    <3>2. CASE Becomes(s, "parse", session[s].at + 1, NoCall, session[s].reply)
      BY <1>1, <2>3, <3>2, OneSession
    <3> QED
      BY <2>7, <3>1, <3>2 DEF SentAll
  <2>8. CASE SentNot(s)
    BY <1>1, <2>3, <2>8, OneSession DEF SentNot
  <2> QED
    BY <1>0, <1>4, <2>5, <2>6, <2>7, <2>8, SendEffect DEF SentKinds
<1>5. ASSUME NEW id, NEW saved, SessionQueue(s, id, saved)
      PROVE  Base'
  <2>1. session[s].pc = "queue" /\ Enqueue(session[s].rcpts[session[s].at], id, now, saved)
    BY <1>5 DEF SessionQueue
  <2>2. session[s].rcpts[session[s].at] \in Payloads
    BY <1>0, <2>1, SessionFields DEF AtRecipient
  <2>3. StoreTyped' /\ Held' /\ Agree'
    BY <1>1, <2>1, <2>2, EnqueueKeeps
  <2>4. Becomes(s, "answer", session[s].at, session[s].call, "451")
    BY <1>0, <1>5, QueueEffect
  <2> QED
    BY <1>1, <2>3, <2>4, OneSession
<1>6. CASE SessionAnswer(s)
  <2>1. StoreTyped' /\ Held' /\ Agree'
    BY <1>2, <1>6 DEF SessionAnswer
  <2>2. Becomes(s, "answered", 1, session[s].call, session[s].reply)
    BY <1>0, <1>6, AnswerEffect
  <2> QED
    BY <1>1, <2>1, <2>2, OneSession
<1> QED
  BY <1>3, <1>4, <1>5, <1>6 DEF SessionActs
-----------------------------------------------------------------------------
\* A session is at one of its recipients, has brought the mail to the ones before and
\* has no answer yet; with 250 it answers when it has brought it to all.
RunningOf(s, this, brought) ==
    /\ this.pc \in {"parse", "send", "queue"} =>
          /\ this.at \in DOMAIN this.rcpts /\ this.reply = "none"
          /\ \A i, j \in DOMAIN this.rcpts : this.rcpts[i] = this.rcpts[j] => i = j
          /\ \A j \in DOMAIN this.rcpts : j < this.at => <<s, this.rcpts[j]>> \in brought
    /\ this.reply = "250" => \A j \in DOMAIN this.rcpts : <<s, this.rcpts[j]>> \in brought
    /\ this.pc = "answer" => this.reply # "none"

Running == \A s \in Sessions : RunningOf(s, session[s], full)

\* What was brought stays brought.
LEMMA RunningGrows ==
    ASSUME NEW s, NEW this, NEW f, NEW g, f \subseteq g, RunningOf(s, this, f)
    PROVE  RunningOf(s, this, g)
BY DEF RunningOf

\* A session that relays is at one of its recipients.
LEMMA RunningAt ==
    ASSUME Running
    PROVE  AtRecipient
BY DEF Running, RunningOf, AtRecipient

\* The other sessions are as before.
LEMMA RunningOthers ==
    ASSUME Running, NEW s \in Sessions, full \subseteq full',
           \A q \in Sessions : q # s => session'[q] = session[q],
           RunningOf(s, session'[s], full')
    PROVE  Running'
<1>1. ASSUME NEW q \in Sessions, q # s
      PROVE  RunningOf(q, session'[q], full')
  <2>1. RunningOf(q, session[q], full) /\ session'[q] = session[q]
    BY <1>1 DEF Running
  <2> QED
    BY <2>1, RunningGrows
<1>2. \A q \in Sessions : RunningOf(q, session'[q], full')
  BY <1>1
<1> QED
  BY <1>2 DEF Running, RunningOf

\* The sessions are as before.
LEMMA RunningSame ==
    ASSUME Running, full \subseteq full', session' = session
    PROVE  Running'
<1>1. \A q \in Sessions : RunningOf(q, session'[q], full')
  BY RunningGrows DEF Running
<1> QED
  BY <1>1 DEF Running, RunningOf

\* A step of a session keeps it so.
LEMMA RunningStep ==
    ASSUME Base, Running, NEW s \in Sessions, SessionActs(s)
    PROVE  Running' /\ full \subseteq full'
<1>0. /\ Typed /\ session \in [Sessions -> SessionType] /\ RunningOf(s, session[s], full)
      /\ session[s].rcpts \in Seq(Payloads) /\ session[s].at \in Nat \ {0}
  BY SessionFields DEF Base, Typed, Running
<1>1. ASSUME session[s].pc \in {"parse", "send", "queue"}
      PROVE  /\ session[s].at \in DOMAIN session[s].rcpts /\ session[s].reply = "none"
             /\ \A i, j \in DOMAIN session[s].rcpts : session[s].rcpts[i] = session[s].rcpts[j] => i = j
             /\ \A j \in DOMAIN session[s].rcpts : j < session[s].at => <<s, session[s].rcpts[j]>> \in full
  BY <1>0, <1>1 DEF RunningOf
<1>2. ASSUME NEW p \in {"answer", "answered"}, NEW a, NEW c, NEW y, Becomes(s, p, a, c, y), full' = full,
             y = "451" \/ (p = "answered" /\ y = session[s].reply)
      PROVE  Running'
  <2>1. RunningOf(s, session'[s], full')
    BY <1>0, <1>2 DEF Becomes, RunningOf
  <2> QED
    BY <1>2, <2>1, RunningOthers DEF Becomes
<1>3. ASSUME session[s].pc \in {"parse", "send", "queue"}, NEW p \in {"send", "queue"}, NEW c,
             Becomes(s, p, session[s].at, c, session[s].reply), full' = full
      PROVE  Running'
  <2>1. RunningOf(s, session'[s], full')
    BY <1>1, <1>3 DEF Becomes, RunningOf
  <2> QED
    BY <1>3, <2>1, RunningOthers DEF Becomes
<1>4. CASE SessionParse(s)
  <2>1. full' = full /\ session[s].pc = "parse"
    BY <1>4 DEF SessionParse
  <2> QED
    BY <1>0, <1>2, <1>3, <1>4, <2>1, ParseEffect
<1>5. ASSUME NEW outcome, NEW then, SessionSend(s, outcome, then)
      PROVE  Running' /\ full \subseteq full'
  <2>1. session[s].pc = "send"
    BY <1>5 DEF SessionSend
  <2>2. CASE SentAgain(s) \/ SentMore(s) \/ SentNot(s)
    BY <1>3, <2>1, <2>2 DEF SentAgain, SentMore, SentNot
  <2>3. CASE SentAll(s)
    <3>1. full \subseteq full' /\ <<s, session[s].rcpts[session[s].at]>> \in full'
      BY <2>3 DEF SentAll
    <3>2. \A j \in DOMAIN session[s].rcpts : j <= session[s].at => <<s, session[s].rcpts[j]>> \in full'
      <4> TAKE j \in DOMAIN session[s].rcpts
      <4>1. j \in Nat
        BY <1>0
      <4>2. CASE j < session[s].at
        <5>1. <<s, session[s].rcpts[j]>> \in full
          BY <1>1, <2>1, <4>2
        <5> QED
          BY <3>1, <5>1
      <4>3. CASE j = session[s].at
        BY <3>1, <4>3
      <4>4. CASE ~(j <= session[s].at)
        BY <4>4
      <4> QED
        BY <1>0, <4>1, <4>2, <4>3, <4>4
    <3>3. CASE session[s].at < Len(session[s].rcpts) /\ Becomes(s, "parse", session[s].at + 1, NoCall, session[s].reply)
      <4>1. /\ session[s].at + 1 \in DOMAIN session[s].rcpts
            /\ \A j \in DOMAIN session[s].rcpts : j < session[s].at + 1 => j <= session[s].at
        BY <1>0, <3>3
      <4>2. RunningOf(s, session'[s], full')
        BY <1>1, <2>1, <3>2, <3>3, <4>1 DEF Becomes, RunningOf
      <4> QED
        BY <3>1, <3>3, <4>2, RunningOthers DEF Becomes
    <3>4. CASE ~(session[s].at < Len(session[s].rcpts)) /\ Becomes(s, "answer", session[s].at, NoCall, "250")
      <4>1. \A j \in DOMAIN session[s].rcpts : <<s, session[s].rcpts[j]>> \in full'
        <5>1. \A j \in DOMAIN session[s].rcpts : j <= session[s].at
          BY <1>0, <3>4
        <5> QED
          BY <3>2, <5>1
      <4>2. RunningOf(s, session'[s], full')
        BY <3>4, <4>1 DEF Becomes, RunningOf
      <4> QED
        BY <3>1, <3>4, <4>2, RunningOthers DEF Becomes
    <3> QED
      BY <2>3, <3>1, <3>3, <3>4 DEF SentAll
  <2> QED
    BY <1>0, <1>5, <2>2, <2>3, SendEffect DEF SentKinds, SentAgain, SentMore, SentNot
<1>6. ASSUME NEW id, NEW saved, SessionQueue(s, id, saved)
      PROVE  Running' /\ full' = full
  <2>1. full' = full
    BY <1>6 DEF SessionQueue
  <2> QED
    BY <1>0, <1>2, <1>6, <2>1, QueueEffect
<1>7. CASE SessionAnswer(s)
  <2>1. full' = full
    BY <1>7 DEF SessionAnswer
  <2> QED
    BY <1>0, <1>2, <1>7, <2>1, AnswerEffect
<1> QED
  BY <1>4, <1>5, <1>6, <1>7 DEF SessionActs, SessionParse
-----------------------------------------------------------------------------
\* Every step keeps the types, the worker's hand and the sessions in order, and
\* nothing is taken back.
LEMMA OrderStep ==
    ASSUME Base, Running, [Next]_vars
    PROVE  Base' /\ Running' /\ full \subseteq full'
<1>0. now \in Nat
  BY DEF Base, Typed
<1>1. ASSUME UNCHANGED <<items, disk, issued, wBatch, wStep, wCall, session, submitted, full>>, now' \in Nat,
             members' \in 0 .. GroupSize
      PROVE  Base' /\ Running' /\ full \subseteq full'
  <2>1. StoreTyped' /\ WorkerTyped' /\ Held' /\ Agree' /\ (wCall = NoCall \/ wCall.next <= wCall.chats)'
    BY <1>1, Quiet
  <2>2. Typed' /\ Calling'
    BY <1>1, <2>1 DEF Base, Typed, Calling
  <2> QED
    BY <1>1, <2>1, <2>2, RunningSame DEF Base
<1>2. CASE Submit
  <2>1. UNCHANGED <<items, disk, issued, wBatch, wStep, wCall, members, now, full>>
    BY <1>2 DEF Submit, storeVars, workerVars
  <2>2. StoreTyped' /\ WorkerTyped' /\ Held' /\ Agree' /\ (wCall = NoCall \/ wCall.next <= wCall.chats)'
    BY <2>1, Quiet
  <2>3. PICK s : s = submitted'
    OBVIOUS
  <2>4. /\ s \in Sessions /\ submitted' \in 0 .. MaxSubmissions /\ session' \in [Sessions -> SessionType]
        /\ \A q \in Sessions : q # s => session'[q] = session[q]
        /\ session'[s].pc = "parse" /\ session'[s].at = 1
        /\ session'[s].reply = "none" /\ session'[s].rcpts = Envelope
    BY <1>2, <2>3, SubmitEffect DEF Base
  <2>5. Typed'
    BY <2>1, <2>2, <2>4 DEF Base, Typed
  <2>6. \A q \in Sessions : session'[q].pc = "send" => session'[q].call.next <= session'[q].call.chats
    BY <2>4 DEF Base, Calling
  <2>7. RunningOf(s, session'[s], full')
    <3>1. \A j \in DOMAIN Envelope : ~(j < 1)
      BY EnvelopeType
    <3> QED
      BY <2>4, <3>1, EnvelopeType DEF RunningOf
  <2>8. Running'
    BY <2>1, <2>4, <2>7, RunningOthers
  <2> QED
    BY <2>1, <2>2, <2>5, <2>6, <2>8 DEF Base, Calling
<1>3. CASE Timeout \/ Tick \/ UNCHANGED vars
  <2>1. /\ UNCHANGED <<items, disk, issued, wBatch, wStep, wCall, session, submitted, full, members>>
        /\ now' \in Nat
    BY <1>0, <1>3 DEF Timeout, Tick, vars, storeVars, workerVars, clientVars
  <2> QED
    BY <1>1, <2>1 DEF Base, Typed
<1>4. ASSUME NEW n \in 0 .. GroupSize, AliasChange(n)
      PROVE  Base' /\ Running' /\ full \subseteq full'
  BY <1>0, <1>1, <1>4 DEF AliasChange, storeVars, workerVars, clientVars
<1>5. ASSUME NEW s \in Sessions, SessionActs(s)
      PROVE  Base' /\ Running' /\ full \subseteq full'
  BY <1>5, RunningAt, SessionStep, RunningStep
<1>6. ASSUME NEW batch, NEW saved, DoWorkerPick(batch, saved)
      PROVE  Base' /\ Running' /\ full \subseteq full'
  BY <1>6, PickStep, RunningSame DEF DoWorkerPick
<1>7. CASE CallActs
  <2>1. Base' /\ session' = session
    BY <1>7, CallStep DEF CallActs, WorkerParse, WorkerSend
  <2>2. full \subseteq full'
    BY <1>7, CallEffect DEF CallKinds, CallBegins, CallRepeats, CallContinues, CallSucceeds, CallFails
  <2> QED
    BY <2>1, <2>2, RunningSame
<1>8. ASSUME NEW jitter \in 0 .. Jitter - 1, NEW saved, DoWorkerMark(jitter, saved)
      PROVE  Base' /\ Running' /\ full \subseteq full'
  BY <1>8, MarkStep, RunningSame DEF DoWorkerMark
<1>9. CASE Restart
  <2>1. /\ load /\ wBatch' = <<>> /\ wStep' = "relay" /\ wCall' = NoCall
        /\ UNCHANGED <<members, submitted, now, full>>
    BY <1>9 DEF Restart
  <2>2. /\ StoreTyped' /\ disk' = disk /\ DOMAIN items' = DOMAIN disk
        /\ \A id \in DOMAIN disk : items'[id].payload = disk[id].payload
    BY <2>1, LoadEffect DEF Base, Typed, Agree
  <2>3. /\ session' \in [Sessions -> SessionType]
        /\ \A s \in Sessions : /\ session'[s].pc \notin {"parse", "send", "queue", "answer"}
                               /\ session'[s] = session[s] \/ session'[s].reply = "none"
    BY <1>9, RestartSessions DEF Base
  <2>4. wBatch' \in Seq(Picked) /\ DOMAIN wBatch' = {}
    BY <2>1
  <2>5. WorkerTyped'
    BY <2>1, <2>4, NoCallType DEF WorkerTyped
  <2>6. Typed'
    BY <2>1, <2>2, <2>3, <2>5 DEF Base, Typed
  <2>7. Held'
    BY <2>1, <2>4 DEF Held, NoCall, NewCall
  <2>8. Agree' /\ Calling'
    BY <2>1, <2>2, <2>3 DEF Agree, Calling, NoCall, NewCall
  <2>9. \A s \in Sessions : RunningOf(s, session'[s], full')
    BY <2>1, <2>3 DEF Running, RunningOf
  <2>10. Running'
    BY <2>9 DEF Running, RunningOf
  <2> QED
    BY <2>1, <2>6, <2>7, <2>8, <2>10 DEF Base
<1> QED
  BY <1>2, <1>3, <1>4, <1>5, <1>6, <1>7, <1>8, <1>9 DEF Next, SessionActs, CallActs
-----------------------------------------------------------------------------
\* The beginning.
LEMMA OrderInit ==
    ASSUME Init
    PROVE  Base /\ Running
<1>1. ASSUME NEW m, m = <<>>
      PROVE  IsItemMap(m) /\ DOMAIN m = {} /\ m \in Seq(Picked)
  BY <1>1 DEF IsItemMap
<1>2. /\ items = <<>> /\ disk = <<>> /\ issued = {} /\ wBatch = <<>> /\ wStep = "relay" /\ wCall = NoCall
      /\ members = GroupSize /\ submitted = 0 /\ session = [s \in Sessions |-> NewSession] /\ now = 0
  BY DEF Init, NewFileStore, WorkerInit
<1>3. /\ IsItemMap(items) /\ DOMAIN items = {} /\ IsItemMap(disk) /\ DOMAIN disk = {}
      /\ wBatch \in Seq(Picked) /\ DOMAIN wBatch = {}
  BY <1>1, <1>2
<1>4. StoreTyped
  BY <1>2, <1>3 DEF StoreTyped
<1>5. WorkerTyped
  BY <1>2, <1>3, NoCallType DEF WorkerTyped
<1>6. NewSession \in SessionType /\ NewSession.pc = "new" /\ NewSession.reply = "none"
  BY NoCallType DEF NewSession, SessionType
<1>7. /\ session \in [Sessions -> SessionType]
      /\ \A s \in Sessions : session[s].pc = "new" /\ session[s].reply = "none"
  BY <1>2, <1>6
<1>8. Typed
  BY <1>2, <1>4, <1>5, <1>7, FlowAssumption DEF Typed
<1>9. Calling /\ Held /\ Agree
  BY <1>2, <1>3, <1>7 DEF Calling, Held, Agree
<1>10. Running
  BY <1>7 DEF Running, RunningOf
<1> QED
  BY <1>8, <1>9, <1>10 DEF Base

\* The items of a map that are done were brought to all their chats.
DoneIn(m, brought) == \A id \in DOMAIN m : m[id].status = "done" => <<id, m[id].payload>> \in brought

\* Nothing is done that was not brought, and what was acknowledged is in the file.
Earned ==
    /\ wStep = "ok" => <<wBatch[1].id, items[wBatch[1].id].payload>> \in full
    /\ DoneIn(items, full) /\ DoneIn(disk, full)
    /\ acked \subseteq DOMAIN disk

\* A change of the memory reaches the file or does not.
LEMMA DoneOnDisk ==
    ASSUME Agree, Changed, full \subseteq full', DoneIn(disk, full), DoneIn(items', full')
    PROVE  DoneIn(disk', full') /\ DOMAIN disk \subseteq DOMAIN disk'
BY DEF Agree, Changed, DoneIn

\* Every step keeps it so.
LEMMA EarnedStep ==
    ASSUME Base, Running, Earned, [Next]_vars, full \subseteq full'
    PROVE  Earned'
<1>0. StoreTyped /\ WorkerTyped /\ Agree /\ Held /\ now \in Nat /\ DoneIn(items, full) /\ DoneIn(disk, full)
  BY DEF Base, Typed, Earned
<1>1. ASSUME UNCHANGED <<items, disk, acked, wBatch, wStep>>
      PROVE  Earned'
  <2>1. DoneIn(items', full') /\ DoneIn(disk', full')
    BY <1>0, <1>1 DEF DoneIn
  <2>2. wStep' = "ok" => <<wBatch'[1].id, items'[wBatch'[1].id].payload>> \in full'
    BY <1>1 DEF Earned
  <2> QED
    BY <1>1, <2>1, <2>2 DEF Earned, DoneIn
<1>2. ASSUME Changed, DoneIn(items', full'), wStep' # "ok", acked' = acked
      PROVE  Earned'
  BY <1>0, <1>2, DoneOnDisk DEF Earned, DoneIn
<1>3. CASE Submit \/ Timeout \/ Tick \/ UNCHANGED vars
  BY <1>1, <1>3 DEF Submit, Timeout, Tick, vars, storeVars, workerVars
<1>4. CASE \/ \E n \in 0 .. GroupSize : AliasChange(n)
           \/ \E s \in Sessions : SessionParse(s) \/ SessionAnswer(s)
  BY <1>1, <1>4 DEF AliasChange, SessionParse, SessionAnswer, storeVars, workerVars
<1>5. CASE \E s \in Sessions, outcome \in Outcomes, then \in Ends : SessionSend(s, outcome, then)
  BY <1>1, <1>5 DEF SessionSend, storeVars, workerVars
<1>6. ASSUME NEW s \in Sessions, NEW id, NEW saved, SessionQueue(s, id, saved)
      PROVE  Earned'
  <2> DEFINE p == session[s].rcpts[session[s].at]
  <2>0. session[s].pc = "queue" /\ UNCHANGED <<wBatch, wStep, wCall>>
    BY <1>6 DEF SessionQueue, workerVars
  <2>1. p \in Payloads
    BY <2>0, RunningAt, SessionFields DEF AtRecipient, Base, Typed
  <2>2. Enqueue(p, id, now, saved) /\ acked' = (IF saved THEN acked \union {id} ELSE acked)
    BY <1>6 DEF SessionQueue
  <2> HIDE DEF p
  <2>3. /\ Changed /\ \A k \in DOMAIN items : items'[k] = items[k]
        /\ id \in DOMAIN items' /\ (saved => disk' = items')
        /\ \A k \in DOMAIN items' : k \notin DOMAIN items => items'[k].status = "pending"
    <3>1. CASE EnqueueDuplicate(p, id, saved)
      BY <1>0, <3>1, DuplicateEffect
    <3>2. CASE EnqueueNew(p, id, now, saved)
      BY <1>0, <2>1, <3>2, NewEffect
    <3> QED
      BY <2>2, <3>1, <3>2 DEF Enqueue
  <2>4. DoneIn(items', full')
    BY <1>0, <2>3 DEF DoneIn
  <2>5. DoneIn(disk', full') /\ DOMAIN disk \subseteq DOMAIN disk'
    BY <1>0, <2>3, <2>4, DoneOnDisk
  <2>6. acked' \subseteq DOMAIN disk'
    BY <2>2, <2>3, <2>5 DEF Earned
  <2>7. wStep' = "ok" => <<wBatch'[1].id, items'[wBatch'[1].id].payload>> \in full'
    <3>1. ASSUME wStep = "ok"
          PROVE  /\ wBatch[1].id \in DOMAIN items
                 /\ <<wBatch[1].id, items[wBatch[1].id].payload>> \in full
      <4>1. wBatch # <<>> /\ wBatch \in Seq(Picked)
        BY <1>0, <3>1 DEF Held, WorkerTyped
      <4>2. 1 \in DOMAIN wBatch
        BY <4>1
      <4> QED
        BY <1>0, <3>1, <4>2 DEF Held, Earned
    <3> QED
      BY <2>0, <2>3, <3>1
  <2> QED
    BY <2>4, <2>5, <2>6, <2>7 DEF Earned, DoneIn
<1>7. ASSUME NEW batch, NEW saved, DoWorkerPick(batch, saved)
      PROVE  Earned'
  <2>1. wBatch = <<>> /\ PickDue(batch, BatchSize, now, saved) /\ wStep' = wStep /\ acked' = acked
    BY <1>7 DEF DoWorkerPick, WorkerPick
  <2>2. wStep' # "ok"
    BY <1>0, <2>1 DEF Held
  <2>3. /\ Changed /\ DOMAIN items' = DOMAIN items
        /\ \A id \in DOMAIN items : items'[id] = items[id]
                                    \/ (items[id].status = "pending" /\ items'[id].status = "processing")
    BY <1>0, <2>1, PickEffect
  <2>4. DoneIn(items', full')
    BY <1>0, <2>3 DEF DoneIn
  <2> QED
    BY <1>2, <2>1, <2>2, <2>3, <2>4
<1>8. CASE CallActs
  <2>1. CallKinds
    BY <1>8, CallEffect
  <2>2. acked' = acked /\ UNCHANGED <<items, disk, wBatch>>
    BY <1>8, <2>1 DEF CallActs, WorkerParse, WorkerSend, CallKinds, CallBegins, CallRepeats, CallContinues,
                      CallSucceeds, CallFails, storeVars, workerVars
  <2>3. DoneIn(items', full') /\ DoneIn(disk', full')
    BY <1>0, <2>2 DEF DoneIn
  <2>4. wStep' = "ok" => <<wBatch'[1].id, items'[wBatch'[1].id].payload>> \in full'
    BY <2>1, <2>2 DEF Earned, CallKinds, CallBegins, CallRepeats, CallContinues, CallSucceeds, CallFails, workerVars
  <2> QED
    BY <2>2, <2>3, <2>4 DEF Earned, DoneIn
<1>9. ASSUME NEW jitter \in 0 .. Jitter - 1, NEW saved, DoWorkerMark(jitter, saved)
      PROVE  Earned'
  <2>1. wBatch # <<>> /\ WorkerStore(now, jitter, saved) /\ wStep' = "relay" /\ acked' = acked
    BY <1>9 DEF DoWorkerMark, WorkerMark
  <2>2. /\ Changed /\ DOMAIN items' = DOMAIN items /\ wBatch[1].id \in DOMAIN items
        /\ \A id \in DOMAIN items : id # wBatch[1].id => items'[id] = items[id]
        /\ wStep # "ok" => items'[wBatch[1].id].status \in {"pending", "failed"}
    BY <1>0, <2>1, MarkEffect
  <2>3. DoneIn(items', full')
    <3>1. ASSUME NEW id \in DOMAIN items', items'[id].status = "done"
          PROVE  <<id, items'[id].payload>> \in full'
      <4>1. CASE id # wBatch[1].id
        BY <1>0, <2>2, <3>1, <4>1 DEF DoneIn
      <4>2. CASE id = wBatch[1].id
        <5>1. wStep = "ok"
          BY <2>2, <3>1, <4>2
        <5>2. <<id, items[id].payload>> \in full /\ items'[id].payload = items[id].payload
          BY <2>2, <4>2, <5>1 DEF Earned, Changed
        <5> QED
          BY <5>2
      <4> QED
        BY <4>1, <4>2
    <3> QED
      BY <3>1 DEF DoneIn
  <2> QED
    BY <1>2, <2>1, <2>2, <2>3
<1>10. CASE Restart
  <2>1. load /\ wStep' = "relay" /\ acked' = acked
    BY <1>10 DEF Restart
  <2>2. /\ disk' = disk /\ DOMAIN items' = DOMAIN disk
        /\ \A id \in DOMAIN disk :
              /\ items'[id].payload = disk[id].payload
              /\ items'[id] = disk[id] \/ (disk[id].status = "processing" /\ items'[id].status = "pending")
    BY <1>0, <2>1, LoadEffect DEF Agree
  <2>3. DoneIn(items', full') /\ DoneIn(disk', full')
    BY <1>0, <2>2 DEF DoneIn
  <2> QED
    BY <2>1, <2>2, <2>3 DEF Earned, DoneIn
<1> QED
  BY <1>3, <1>4, <1>5, <1>6, <1>7, <1>8, <1>9, <1>10 DEF Next, CallActs

\* The invariant: order, and nothing claimed that was not earned.
Honest == Base /\ Running /\ Earned

\* It holds at the beginning and after every step.
LEMMA HonestHolds == Spec => []Honest
<1>1. ASSUME Init
      PROVE  Honest
  <2>1. Base /\ Running
    BY <1>1, OrderInit
  <2>2. items = <<>> /\ disk = <<>> /\ acked = {} /\ wStep = "relay"
    BY <1>1 DEF Init, NewFileStore, WorkerInit
  <2>3. DOMAIN items = {} /\ DOMAIN disk = {}
    BY <2>2
  <2>4. Earned
    BY <2>2, <2>3 DEF Earned, DoneIn
  <2> QED
    BY <2>1, <2>4 DEF Honest
<1>2. ASSUME Honest, [Next]_vars
      PROVE  Honest'
  <2>1. Base /\ Running /\ Earned
    BY <1>2 DEF Honest
  <2>2. Base' /\ Running' /\ full \subseteq full'
    BY <1>2, <2>1, OrderStep
  <2>3. Earned'
    BY <1>2, <2>1, <2>2, EarnedStep
  <2> QED
    BY <2>2, <2>3 DEF Honest
<1> QED
  BY <1>1, <1>2, PTL DEF Spec

\* Nobody says the mail arrived when it has not: 250 stands for a relay of this very
\* session to every chat of every recipient, a done item for a relay of that item, and
\* what the queue has accepted survives every restart, for any number of submissions,
\* chats, immediate retries, changes of the alias, failed writes and crashes (handleConn,
\* Relay, sendWithRetry, Enqueue, runOnce and load together).
THEOREM MailResponsible == Spec => []Responsible
<1>1. ASSUME Honest
      PROVE  Responsible
  <2>1. Base /\ Running /\ Earned
    BY <1>1 DEF Honest
  <2>2. ASSUME NEW s \in Sessions, session[s].reply = "250"
        PROVE  \A r \in ToSet(session[s].rcpts) : <<s, r>> \in full
    <3>1. \A j \in DOMAIN session[s].rcpts : <<s, session[s].rcpts[j]>> \in full
      BY <2>1, <2>2 DEF Running, RunningOf
    <3> QED
      BY <3>1 DEF ToSet
  <2>3. \A m \in {items, disk} : \A id \in DOMAIN m : m[id].status = "done" => <<id, m[id].payload>> \in full
    BY <2>1 DEF Earned, DoneIn
  <2>4. acked \subseteq DOMAIN disk
    BY <2>1 DEF Earned
  <2> QED
    BY <2>2, <2>3, <2>4 DEF Responsible
<1> QED
  BY <1>1, HonestHolds, PTL
-----------------------------------------------------------------------------
(* Copies.  What a chat may still get is counted with what it has got: from the     *)
(* sessions that have not come to it yet, from the client when it is about to come  *)
(* back, and from the queue.                                                         *)

\* A session may still send to chat c of recipient r, or its client will come back when
\* it hears the answer.
OwesOf(this, r, c) ==
    \/ this.pc = "parse" /\ \E j \in DOMAIN this.rcpts : this.rcpts[j] = r /\ j >= this.at
    \/ this.pc = "send" /\ \E j \in DOMAIN this.rcpts :
          this.rcpts[j] = r /\ (j > this.at \/ (j = this.at /\ this.call.next <= c))
    \/ this.pc = "answer" /\ this.reply = "451"

Owing(r, c) == {s \in Sessions : OwesOf(session[s], r, c)}

\* The client is about to submit the mail.
Ready == waiting = 0 /\ ~content
Open == IF Ready THEN 1 ELSE 0

\* An item of the queue may still be sent to the chat before a relay of it fails.
ItemOwes(id, r, c) ==
    /\ items[id].payload = r /\ Active(items[id])
    /\ ~(wBatch # <<>> /\ wBatch[1].id = id /\ (wStep = "ok" \/ wCall.next > c))

Queued(r, c) == IF \E id \in DOMAIN items : ItemOwes(id, r, c) THEN 1 ELSE 0

Budget(r, c) == 1 + repeats[r][c] + 2 * sFailures + wFailures + timeouts + 2 * crashes

\* Each mail is in the queue once.
UniqueIn(m) == \A i, j \in DOMAIN m : m[i].payload = m[j].payload /\ Active(m[i]) /\ Active(m[j]) => i = j

Accounts ==
    /\ got \in [Payloads -> [1 .. GroupSize -> Nat]]
    /\ repeats \in [Payloads -> [1 .. GroupSize -> Nat]]
    /\ sFailures \in Nat /\ wFailures \in Nat /\ timeouts \in Nat /\ crashes \in Nat
    /\ UniqueIn(items) /\ UniqueIn(disk)

\* The copies a chat has got and may still get have all been paid for.
Paid(r, c) == got[r][c] + Cardinality(Owing(r, c)) + Open + Queued(r, c) <= Budget(r, c)

\* What is counted for a chat.
LEMMA Counts ==
    ASSUME Accounts, NEW r \in Payloads, NEW c \in 1 .. GroupSize
    PROVE  /\ got[r][c] \in Nat /\ repeats[r][c] \in Nat
           /\ sFailures \in Nat /\ wFailures \in Nat /\ timeouts \in Nat /\ crashes \in Nat
           /\ Budget(r, c) \in Nat
<1>1. got[r][c] \in Nat /\ repeats[r][c] \in Nat
  BY DEF Accounts
<1>2. sFailures \in Nat /\ wFailures \in Nat /\ timeouts \in Nat /\ crashes \in Nat
  BY DEF Accounts
<1>3. \A n, f, w, t, e \in Nat : 1 + n + 2 * f + w + t + 2 * e \in Nat
  OBVIOUS
<1>4. Budget(r, c) \in Nat
  BY <1>1, <1>2, <1>3, Zenon DEF Budget
<1> QED
  BY <1>1, <1>2, <1>4

\* The terms are numbers.
LEMMA Terms ==
    ASSUME NEW r, NEW c
    PROVE  /\ IsFiniteSet(Owing(r, c)) /\ Cardinality(Owing(r, c)) \in Nat
           /\ Open \in {0, 1} /\ Queued(r, c) \in {0, 1}
<1>1. IsFiniteSet(Sessions)
  BY FlowAssumption, FS_Interval DEF Sessions
<1>2. Owing(r, c) \subseteq Sessions
  BY DEF Owing
<1>3. IsFiniteSet(Owing(r, c))
  BY <1>1, <1>2, FS_Subset
<1>4. Cardinality(Owing(r, c)) \in Nat
  BY <1>3, FS_CardinalityType
<1> QED
  BY <1>3, <1>4 DEF Open, Queued

\* And they are after a step.
LEMMA TermsNext ==
    ASSUME NEW r, NEW c
    PROVE  /\ Cardinality(Owing(r, c)') \in Nat
           /\ Open' \in {0, 1} /\ Queued(r, c)' \in {0, 1}
<1>1. IsFiniteSet(Sessions)
  BY FlowAssumption, FS_Interval DEF Sessions
<1>2. Owing(r, c)' \subseteq Sessions
  BY DEF Owing
<1>3. IsFiniteSet(Owing(r, c)')
  BY <1>1, <1>2, FS_Subset
<1>4. Cardinality(Owing(r, c)') \in Nat
  BY <1>3, FS_CardinalityType
<1> QED
  BY <1>4 DEF Open, Queued

\* One more for one chat.
LEMMA Incremented ==
    ASSUME NEW f \in [Payloads -> [1 .. GroupSize -> Nat]], NEW p \in Payloads, NEW k \in 1 .. GroupSize,
           NEW h, h = [f EXCEPT ![p][k] = @ + 1]
    PROVE  /\ h \in [Payloads -> [1 .. GroupSize -> Nat]] /\ h[p][k] = f[p][k] + 1
           /\ \A r \in Payloads, c \in 1 .. GroupSize : r # p \/ c # k => h[r][c] = f[r][c]
<1>1. h = [f EXCEPT ![p] = [f[p] EXCEPT ![k] = f[p][k] + 1]]
  OBVIOUS
<1>2. PICK row : row = [f[p] EXCEPT ![k] = f[p][k] + 1]
  OBVIOUS
<1>3. /\ row \in [1 .. GroupSize -> Nat] /\ row[k] = f[p][k] + 1
      /\ \A c \in 1 .. GroupSize : c # k => row[c] = f[p][c]
  <2>1. PICK old : old = f[p]
    OBVIOUS
  <2>2. old \in [1 .. GroupSize -> Nat] /\ row = [old EXCEPT ![k] = old[k] + 1]
    BY <1>2, <2>1
  <2>3. old[k] + 1 \in Nat
    BY <2>2
  <2>4. row \in [1 .. GroupSize -> Nat]
    BY <2>2, <2>3
  <2> QED
    BY <2>1, <2>2, <2>4
<1>4. h = [f EXCEPT ![p] = row]
  BY <1>1, <1>2
<1>5. h \in [Payloads -> [1 .. GroupSize -> Nat]] /\ h[p] = row /\ \A r \in Payloads : r # p => h[r] = f[r]
  BY <1>3, <1>4
<1> QED
  BY <1>3, <1>5

\* A call of the sender brings one copy at most, to the chat it is for; only one that is
\* made again is counted as such, for that chat.
LEMMA OneCopy ==
    ASSUME Accounts, NEW p \in Payloads, NEW call \in Calls, NEW outcome, NEW then,
           SenderReturns(p, call, outcome, then)
    PROVE  /\ got' \in [Payloads -> [1 .. GroupSize -> Nat]]
           /\ repeats' \in [Payloads -> [1 .. GroupSize -> Nat]]
           /\ \A r \in Payloads, c \in 1 .. GroupSize :
                 /\ got'[r][c] = got[r][c] \/ (r = p /\ c = call.next /\ got'[r][c] = got[r][c] + 1)
                 /\ repeats'[r][c] = repeats[r][c]
                    \/ (then = "again" /\ r = p /\ c = call.next /\ repeats'[r][c] = repeats[r][c] + 1)
                 /\ then = "again" /\ r = p /\ c = call.next => repeats'[r][c] = repeats[r][c] + 1
<1>1. /\ got \in [Payloads -> [1 .. GroupSize -> Nat]] /\ repeats \in [Payloads -> [1 .. GroupSize -> Nat]]
      /\ call.next \in 1 .. GroupSize
  BY DEF Accounts, Calls
<1>2. got' = got \/ got' = [got EXCEPT ![p][call.next] = @ + 1]
  BY DEF SenderReturns
<1>3. \/ then # "again" /\ repeats' = repeats
      \/ then = "again" /\ repeats' = [repeats EXCEPT ![p][call.next] = @ + 1]
  BY DEF SenderReturns
<1>4. /\ got' \in [Payloads -> [1 .. GroupSize -> Nat]]
      /\ \A r \in Payloads, c \in 1 .. GroupSize :
            got'[r][c] = got[r][c] \/ (r = p /\ c = call.next /\ got'[r][c] = got[r][c] + 1)
  <2>1. CASE got' = got
    BY <1>1, <2>1
  <2>2. CASE got' = [got EXCEPT ![p][call.next] = @ + 1]
    <3>1. /\ got' \in [Payloads -> [1 .. GroupSize -> Nat]] /\ got'[p][call.next] = got[p][call.next] + 1
          /\ \A r \in Payloads, c \in 1 .. GroupSize : r # p \/ c # call.next => got'[r][c] = got[r][c]
      BY <1>1, <2>2, Incremented
    <3> QED
      BY <3>1
  <2> QED
    BY <1>2, <2>1, <2>2
<1>5. /\ repeats' \in [Payloads -> [1 .. GroupSize -> Nat]]
      /\ \A r \in Payloads, c \in 1 .. GroupSize :
            /\ repeats'[r][c] = repeats[r][c]
               \/ (then = "again" /\ r = p /\ c = call.next /\ repeats'[r][c] = repeats[r][c] + 1)
            /\ then = "again" /\ r = p /\ c = call.next => repeats'[r][c] = repeats[r][c] + 1
  <2>1. CASE then # "again" /\ repeats' = repeats
    BY <1>1, <2>1
  <2>2. CASE then = "again" /\ repeats' = [repeats EXCEPT ![p][call.next] = @ + 1]
    <3>1. /\ repeats' \in [Payloads -> [1 .. GroupSize -> Nat]]
          /\ repeats'[p][call.next] = repeats[p][call.next] + 1
          /\ \A r \in Payloads, c \in 1 .. GroupSize : r # p \/ c # call.next => repeats'[r][c] = repeats[r][c]
      BY <1>1, <2>2, Incremented
    <3> QED
      BY <2>2, <3>1
  <2> QED
    BY <1>3, <2>1, <2>2
<1> QED
  BY <1>4, <1>5

\* One session changes and owes no more than before.
LEMMA OwingLess ==
    ASSUME NEW s \in Sessions, NEW r, NEW c, \A q \in Sessions : q # s => session'[q] = session[q],
           OwesOf(session'[s], r, c) => OwesOf(session[s], r, c)
    PROVE  /\ Cardinality(Owing(r, c)') <= Cardinality(Owing(r, c))
           /\ OwesOf(session[s], r, c) /\ ~OwesOf(session'[s], r, c)
                 => Cardinality(Owing(r, c)') + 1 <= Cardinality(Owing(r, c))
<1> DEFINE O == Owing(r, c)
           N == Owing(r, c)'
<1>0. IsFiniteSet(O) /\ Cardinality(O) \in Nat
  BY Terms
<1>1. N \subseteq O
  BY DEF Owing, OwesOf
<1>2. ASSUME OwesOf(session[s], r, c), ~OwesOf(session'[s], r, c)
      PROVE  N \subseteq O \ {s} /\ s \in O
  <2>1. s \in O
    BY <1>2 DEF Owing
  <2>2. s \notin N
    BY <1>2 DEF Owing, OwesOf
  <2> QED
    BY <1>1, <2>1, <2>2
<1> HIDE DEF O, N
<1>3. IsFiniteSet(N) /\ Cardinality(N) <= Cardinality(O) /\ Cardinality(N) \in Nat
  BY <1>0, <1>1, FS_Subset, FS_CardinalityType
<1>4. ASSUME OwesOf(session[s], r, c), ~OwesOf(session'[s], r, c)
      PROVE  Cardinality(N) + 1 <= Cardinality(O)
  <2>1. IsFiniteSet(O \ {s}) /\ Cardinality(O \ {s}) = Cardinality(O) - 1
    BY <1>0, <1>2, <1>4, FS_RemoveElement
  <2>2. Cardinality(N) <= Cardinality(O \ {s})
    BY <1>2, <1>4, <2>1, FS_Subset
  <2> QED
    BY <1>0, <1>3, <2>1, <2>2
<1> QED
  BY <1>3, <1>4 DEF O, N

\* One session changes and owes one copy more at most.
LEMMA OwingMore ==
    ASSUME NEW s \in Sessions, NEW r, NEW c, \A q \in Sessions : q # s => session'[q] = session[q]
    PROVE  Cardinality(Owing(r, c)') <= Cardinality(Owing(r, c)) + 1
<1> DEFINE O == Owing(r, c)
           N == Owing(r, c)'
<1>1. N \subseteq O \union {s}
  BY DEF Owing, OwesOf
<1>2. IsFiniteSet(O) /\ Cardinality(O) \in Nat
  BY Terms
<1> HIDE DEF O, N
<1>3. IsFiniteSet(O \union {s}) /\ Cardinality(O \union {s}) <= Cardinality(O) + 1 /\ Cardinality(O \union {s}) \in Nat
  <2>1. IsFiniteSet(O \union {s}) /\ (Cardinality(O \union {s}) = Cardinality(O) \/ Cardinality(O \union {s}) = Cardinality(O) + 1)
    BY <1>2, FS_AddElement
  <2> QED
    BY <1>2, <2>1
<1>4. Cardinality(N) <= Cardinality(O \union {s}) /\ IsFiniteSet(N)
  BY <1>1, <1>3, FS_Subset
<1>5. Cardinality(N) \in Nat
  BY <1>4, FS_CardinalityType
<1>6. Cardinality(N) <= Cardinality(O) + 1
  BY <1>2, <1>3, <1>4, <1>5
<1> QED
  BY <1>6 DEF O, N

\* A session that is about to queue the mail, or that has an answer, sends no more.
LEMMA EndedOwes ==
    ASSUME NEW s, NEW r, NEW c, NEW p \in {"queue", "answer", "answered"}, NEW a, NEW k, NEW y,
           Becomes(s, p, a, k, y), p = "answer" => y # "451"
    PROVE  ~OwesOf(session'[s], r, c)
BY DEF Becomes, OwesOf

\* The relay for a recipient begins.
LEMMA BegunOwes ==
    ASSUME Base, Running, NEW s \in Sessions, NEW r, NEW c, NEW k \in Calls,
           session[s].pc = "parse", Becomes(s, "send", session[s].at, k, session[s].reply)
    PROVE  OwesOf(session'[s], r, c) => OwesOf(session[s], r, c)
<1>1. session[s].rcpts \in Seq(Payloads) /\ session[s].at \in Nat
  BY SessionFields DEF Base, Typed
<1>2. \A j \in DOMAIN session[s].rcpts : j \in Nat
  BY <1>1
<1> QED
  BY <1>1, <1>2 DEF Becomes, OwesOf

\* The chat a send is for.
LEMMA HitOwes ==
    ASSUME Running, NEW s \in Sessions, session[s].pc = "send", session[s].call.next \in Nat
    PROVE  OwesOf(session[s], session[s].rcpts[session[s].at], session[s].call.next)
<1>1. session[s].at \in DOMAIN session[s].rcpts
  BY DEF Running, RunningOf
<1> QED
  BY <1>1 DEF OwesOf

\* The same call again: the chat is owed as before.
LEMMA AgainOwes ==
    ASSUME NEW s \in Sessions, NEW r, NEW c, NEW k, session[s].pc = "send", k.next = session[s].call.next,
           Becomes(s, "send", session[s].at, k, session[s].reply)
    PROVE  OwesOf(session'[s], r, c) => OwesOf(session[s], r, c)
BY DEF Becomes, OwesOf

\* The relay goes on to the next chat: the last one is not owed any more.
LEMMA MoreOwes ==
    ASSUME Base, Running, NEW s \in Sessions, NEW r, NEW c \in Nat, NEW k \in Calls,
           session[s].pc = "send", k.next = session[s].call.next + 1,
           Becomes(s, "send", session[s].at, k, session[s].reply)
    PROVE  /\ OwesOf(session'[s], r, c) => OwesOf(session[s], r, c)
           /\ r = session[s].rcpts[session[s].at] /\ c = session[s].call.next => ~OwesOf(session'[s], r, c)
<1>1. /\ session[s].rcpts \in Seq(Payloads) /\ session[s].at \in Nat /\ session[s].call.next \in Nat
      /\ \A i, j \in DOMAIN session[s].rcpts : session[s].rcpts[i] = session[s].rcpts[j] => i = j
      /\ session[s].at \in DOMAIN session[s].rcpts
  BY SessionFields DEF Base, Typed, Running, RunningOf
<1>2. session'[s].pc = "send" /\ session'[s].at = session[s].at /\ session'[s].rcpts = session[s].rcpts
      /\ session'[s].call.next = session[s].call.next + 1
  BY DEF Becomes
<1> QED
  BY <1>1, <1>2 DEF OwesOf

\* The relay goes on to the next recipient.
LEMMA NextOwes ==
    ASSUME Base, Running, NEW s \in Sessions, NEW r, NEW c, NEW k,
           session[s].pc = "send", Becomes(s, "parse", session[s].at + 1, k, session[s].reply)
    PROVE  /\ OwesOf(session'[s], r, c) => OwesOf(session[s], r, c)
           /\ r = session[s].rcpts[session[s].at] => ~OwesOf(session'[s], r, c)
<1>1. /\ session[s].rcpts \in Seq(Payloads) /\ session[s].at \in Nat
      /\ \A i, j \in DOMAIN session[s].rcpts : session[s].rcpts[i] = session[s].rcpts[j] => i = j
      /\ session[s].at \in DOMAIN session[s].rcpts
  BY SessionFields DEF Base, Typed, Running, RunningOf
<1>2. session'[s].pc = "parse" /\ session'[s].at = session[s].at + 1 /\ session'[s].rcpts = session[s].rcpts
  BY DEF Becomes
<1>3. \A j \in DOMAIN session[s].rcpts : j \in Nat
  BY <1>1
<1> QED
  BY <1>1, <1>2, <1>3 DEF OwesOf

\* The client is there as before.
LEMMA OpenSame ==
    ASSUME UNCHANGED clientVars
    PROVE  Open' = Open
BY DEF clientVars, Open, Ready

\* With 250 it does not come back.
LEMMA OpenAnswered ==
    ASSUME NEW s \in Sessions, SessionAnswer(s), session[s].reply = "250"
    PROVE  Open' <= Open
<1>1. /\ waiting' = (IF waiting = s THEN 0 ELSE waiting)
      /\ content' = (content \/ (waiting = s /\ session[s].reply = "250"))
  BY Zenon DEF SessionAnswer
<1>2. s # 0
  BY FlowAssumption DEF Sessions
<1>3. CASE waiting = s
  <2>1. content' = TRUE
    BY <1>1, <1>3
  <2>2. ~Ready'
    BY <2>1 DEF Ready
  <2> QED
    BY <2>2 DEF Open
<1>4. CASE waiting # s
  <2>1. waiting' = waiting
    BY <1>1, <1>4
  <2>2. content => content'
    BY <1>1, <1>4
  <2>3. Ready' => Ready
    BY <2>1, <2>2 DEF Ready
  <2> QED
    BY <2>3 DEF Open
<1> QED
  BY <1>3, <1>4

\* Nothing of the queue changes.
LEMMA QueuedSame ==
    ASSUME NEW r, NEW c, UNCHANGED <<items, wBatch, wStep, wCall>>
    PROVE  Queued(r, c)' = Queued(r, c)
BY DEF Queued, ItemOwes, Active

\* The ledger after a step: what a chat has got and may still get has grown by no more
\* than the step has paid.
LEMMA Ledger ==
    ASSUME Accounts, Accounts', NEW r \in Payloads, NEW c \in 1 .. GroupSize, Paid(r, c), NEW g \in {0, 1}, NEW o \in Int,
           NEW a \in Int, NEW q \in Int,
           got'[r][c] = got[r][c] + g,
           Cardinality(Owing(r, c)') <= Cardinality(Owing(r, c)) + o,
           Open' <= Open + a, Queued(r, c)' <= Queued(r, c) + q,
           Budget(r, c) + g + o + a + q <= Budget(r, c)'
    PROVE  Paid(r, c)'
<1>1. Cardinality(Owing(r, c)) \in Nat /\ Open \in Nat /\ Queued(r, c) \in Nat
  BY Terms
<1>2. Cardinality(Owing(r, c)') \in Nat /\ Open' \in Nat /\ Queued(r, c)' \in Nat
  BY TermsNext
<1>3. Budget(r, c) \in Nat /\ got[r][c] \in Nat
  BY Counts
<1>4. Budget(r, c)' \in Nat
  <2>1. repeats'[r][c] \in Nat
    BY DEF Accounts
  <2>2. sFailures' \in Nat /\ wFailures' \in Nat /\ timeouts' \in Nat /\ crashes' \in Nat
    BY DEF Accounts
  <2>3. \A n, f, w, t, e \in Nat : 1 + n + 2 * f + w + t + 2 * e \in Nat
    OBVIOUS
  <2> QED
    BY <2>1, <2>2, <2>3, Zenon DEF Budget
<1> QED
  BY <1>1, <1>2, <1>3, <1>4 DEF Paid

\* A map whose items have not become active stays without duplicates.
LEMMA UniqueKeeps ==
    ASSUME NEW m, NEW n, UniqueIn(m), DOMAIN n \subseteq DOMAIN m,
           \A id \in DOMAIN n : n[id].payload = m[id].payload /\ (Active(n[id]) => Active(m[id]))
    PROVE  UniqueIn(n)
BY DEF UniqueIn

\* Enqueue adds no duplicate.
LEMMA UniqueEnqueue ==
    ASSUME StoreTyped, UniqueIn(items), NEW p \in Payloads, NEW id, NEW t \in Nat, NEW ok, Enqueue(p, id, t, ok)
    PROVE  Changed /\ UniqueIn(items')
<1>1. CASE EnqueueDuplicate(p, id, ok)
  BY <1>1, DuplicateEffect DEF UniqueIn
<1>2. CASE EnqueueNew(p, id, t, ok)
  <2>1. /\ Changed /\ id \notin DOMAIN items /\ DOMAIN items' = DOMAIN items \union {id}
        /\ items'[id].payload = p /\ Duplicates(p) = {}
        /\ \A k \in DOMAIN items : items'[k] = items[k]
    BY <1>2, NewEffect
  <2>2. \A k \in DOMAIN items : ~(items[k].payload = p /\ Active(items[k]))
    BY <2>1 DEF Duplicates
  <2>3. ASSUME NEW i \in DOMAIN items', NEW j \in DOMAIN items', i # j,
               items'[i].payload = items'[j].payload, Active(items'[i]), Active(items'[j])
        PROVE  FALSE
    <3>1. i \in DOMAIN items \/ i = id
      BY <2>1
    <3>2. j \in DOMAIN items \/ j = id
      BY <2>1
    <3>3. CASE i = id
      BY <2>1, <2>2, <2>3, <3>2, <3>3
    <3>4. CASE j = id
      BY <2>1, <2>2, <2>3, <3>1, <3>4
    <3>5. CASE i \in DOMAIN items /\ j \in DOMAIN items
      <4>1. items'[i] = items[i] /\ items'[j] = items[j]
        BY <2>1, <3>5
      <4> QED
        BY <2>3, <3>5, <4>1 DEF UniqueIn
    <3> QED
      BY <3>1, <3>2, <3>3, <3>4, <3>5
  <2> QED
    BY <2>1, <2>3 DEF UniqueIn
<1> QED
  BY <1>1, <1>2 DEF Enqueue

\* The accounts are kept by every step.
LEMMA AccountsStep ==
    ASSUME Base, Running, Accounts, [Next]_vars
    PROVE  Accounts'
<1> DEFINE Numbers == /\ got \in [Payloads -> [1 .. GroupSize -> Nat]]
                      /\ repeats \in [Payloads -> [1 .. GroupSize -> Nat]]
                      /\ sFailures \in Nat /\ wFailures \in Nat /\ timeouts \in Nat /\ crashes \in Nat
<1>0. /\ StoreTyped /\ WorkerTyped /\ Agree /\ Held /\ now \in Nat /\ GroupSize \in Nat
      /\ UniqueIn(items) /\ UniqueIn(disk) /\ Numbers
  BY FlowAssumption DEF Base, Typed, Accounts
<1>1. ASSUME Numbers', UNCHANGED <<items, disk>>
      PROVE  Accounts'
  BY <1>0, <1>1 DEF Accounts, UniqueIn
<1>2. ASSUME Numbers', Changed, UniqueIn(items')
      PROVE  Accounts'
  <2>1. UniqueIn(disk')
    BY <1>0, <1>2 DEF Changed
  <2> QED
    BY <1>2, <2>1 DEF Accounts, UniqueIn
<1>3. CASE Submit \/ Tick \/ UNCHANGED vars \/ \E n \in 0 .. GroupSize : AliasChange(n)
  BY <1>0, <1>1, <1>3 DEF Submit, Tick, AliasChange, vars, storeVars, clientVars
<1>4. CASE Timeout
  BY <1>0, <1>1, <1>4 DEF Timeout, storeVars
<1>5. ASSUME NEW s \in Sessions, SessionParse(s) \/ SessionAnswer(s)
      PROVE  Accounts'
  <2>1. sFailures' \in Nat /\ timeouts' = timeouts /\ UNCHANGED <<items, disk, wFailures, crashes, got, repeats>>
    BY <1>0, <1>5 DEF SessionParse, SessionAnswer, storeVars, clientVars
  <2> QED
    BY <1>0, <1>1, <2>1
<1>6. ASSUME NEW s \in Sessions, NEW outcome, NEW then, SessionSend(s, outcome, then)
      PROVE  Accounts'
  <2>0. /\ session[s].pc = "send"
        /\ SenderReturns(session[s].rcpts[session[s].at], session[s].call, outcome, then)
        /\ UNCHANGED <<items, disk, timeouts, sFailures, wFailures, crashes>>
    BY <1>6 DEF SessionSend, storeVars, clientVars
  <2>1. session[s].rcpts[session[s].at] \in Payloads /\ session[s].call \in Calls
    BY <2>0, SessionFields, RunningAt DEF AtRecipient, Base, Typed
  <2>2. got' \in [Payloads -> [1 .. GroupSize -> Nat]] /\ repeats' \in [Payloads -> [1 .. GroupSize -> Nat]]
    BY <2>0, <2>1, OneCopy
  <2> QED
    BY <1>0, <1>1, <2>0, <2>2
<1>7. ASSUME NEW s \in Sessions, NEW id, NEW saved, SessionQueue(s, id, saved)
      PROVE  Accounts'
  <2>1. /\ session[s].pc = "queue" /\ Enqueue(session[s].rcpts[session[s].at], id, now, saved)
        /\ sFailures' = sFailures + 1 /\ UNCHANGED <<timeouts, wFailures, crashes, got, repeats>>
    BY <1>7 DEF SessionQueue, clientVars
  <2>2. session[s].rcpts[session[s].at] \in Payloads
    BY <2>1, SessionFields, RunningAt DEF AtRecipient, Base, Typed
  <2>3. Changed /\ UniqueIn(items')
    BY <1>0, <2>1, <2>2, UniqueEnqueue
  <2>4. Numbers'
    BY <1>0, <2>1
  <2> QED
    BY <1>2, <2>3, <2>4
<1>8. ASSUME NEW batch, NEW saved, DoWorkerPick(batch, saved)
      PROVE  Accounts'
  <2>1. PickDue(batch, BatchSize, now, saved) /\ Numbers'
    BY <1>0, <1>8 DEF DoWorkerPick, WorkerPick, clientVars
  <2>2. /\ Changed /\ DOMAIN items' = DOMAIN items
        /\ \A id \in DOMAIN items : items'[id] = items[id]
                                    \/ (items[id].status = "pending" /\ items'[id].status = "processing")
    BY <1>0, <2>1, PickEffect
  <2>3. \A id \in DOMAIN items' : items'[id].payload = items[id].payload /\ (Active(items'[id]) => Active(items[id]))
    BY <2>2 DEF Changed, Active
  <2>4. UniqueIn(items')
    BY <1>0, <2>2, <2>3, UniqueKeeps
  <2> QED
    BY <1>2, <2>1, <2>2, <2>4
<1>9. CASE CallActs
  <2>1. CallKinds
    BY <1>9, CallEffect
  <2>2. UNCHANGED <<items, disk, sFailures, timeouts, crashes>>
    BY <1>9, <2>1 DEF CallActs, WorkerParse, WorkerSend, CallKinds, CallBegins, CallRepeats, CallContinues,
                      CallSucceeds, CallFails, storeVars, clientVars
  <2>3. wFailures' \in Nat
    BY <1>0, <2>1 DEF CallKinds, CallBegins, CallRepeats, CallContinues, CallSucceeds, CallFails
  <2>4. got' \in [Payloads -> [1 .. GroupSize -> Nat]] /\ repeats' \in [Payloads -> [1 .. GroupSize -> Nat]]
    <3>1. wBatch # <<>> /\ (UNCHANGED <<got, repeats>> \/ \E then : Returns(then))
      BY <2>1 DEF CallKinds, CallBegins, CallRepeats, CallContinues, CallSucceeds, CallFails
    <3>2. items[wBatch[1].id].payload \in Payloads /\ wCall \in Calls
      <4>1. 1 \in DOMAIN wBatch
        BY <1>0, <3>1, TailElements DEF WorkerTyped
      <4>2. items[wBatch[1].id] \in Item
        BY <1>0, <4>1 DEF Held, StoreTyped, IsItemMap
      <4> QED
        BY <1>0, <4>2 DEF Item, WorkerTyped
    <3>3. CASE UNCHANGED <<got, repeats>>
      BY <1>0, <3>3
    <3>4. ASSUME NEW then, Returns(then)
          PROVE  got' \in [Payloads -> [1 .. GroupSize -> Nat]] /\ repeats' \in [Payloads -> [1 .. GroupSize -> Nat]]
      BY <3>2, <3>4, OneCopy DEF Returns
    <3> QED
      BY <3>1, <3>3, <3>4
  <2> QED
    BY <1>0, <1>1, <2>2, <2>3, <2>4
<1>10. ASSUME NEW jitter \in 0 .. Jitter - 1, NEW saved, DoWorkerMark(jitter, saved)
      PROVE  Accounts'
  <2>1. wBatch # <<>> /\ WorkerStore(now, jitter, saved) /\ Numbers'
    BY <1>0, <1>10 DEF DoWorkerMark, WorkerMark, clientVars
  <2>2. /\ Changed /\ DOMAIN items' = DOMAIN items
        /\ \A id \in DOMAIN items : id # wBatch[1].id => items'[id] = items[id]
    BY <1>0, <2>1, MarkEffect
  <2>3. Active(items[wBatch[1].id])
    <3>1. 1 \in DOMAIN wBatch
      BY <1>0, <2>1, TailElements DEF WorkerTyped
    <3> QED
      BY <1>0, <3>1 DEF Held, Active
  <2>4. \A id \in DOMAIN items' : items'[id].payload = items[id].payload /\ (Active(items'[id]) => Active(items[id]))
    BY <2>2, <2>3 DEF Changed
  <2>5. UniqueIn(items')
    BY <1>0, <2>2, <2>4, UniqueKeeps
  <2> QED
    BY <1>2, <2>1, <2>2, <2>5
<1>11. CASE Restart
  <2>0. load /\ crashes' = crashes + 1 /\ UNCHANGED <<got, repeats, sFailures, wFailures, timeouts>>
    BY <1>11 DEF Restart
  <2>1. load /\ Numbers'
    BY <1>0, <2>0
  <2>2. /\ disk' = disk /\ DOMAIN items' = DOMAIN disk
        /\ \A id \in DOMAIN disk :
              /\ items'[id].payload = disk[id].payload
              /\ items'[id] = disk[id] \/ (disk[id].status = "processing" /\ items'[id].status = "pending")
    BY <1>0, <2>1, LoadEffect DEF Agree
  <2>3. \A id \in DOMAIN items' : items'[id].payload = disk[id].payload /\ (Active(items'[id]) => Active(disk[id]))
    BY <2>2 DEF Active
  <2>4. UniqueIn(items')
    BY <1>0, <2>2, <2>3, UniqueKeeps
  <2> QED
    BY <1>0, <2>1, <2>2, <2>4 DEF Accounts, UniqueIn
<1> QED
  BY <1>3, <1>4, <1>5, <1>6, <1>7, <1>8, <1>9, <1>10, <1>11 DEF Next, CallActs

\* A step of a session is paid for.
LEMMA SessionPaid ==
    ASSUME Base, Running, Accounts, Accounts', NEW s \in Sessions, SessionActs(s),
           NEW r \in Payloads, NEW c \in 1 .. GroupSize, Paid(r, c)
    PROVE  Paid(r, c)'
<1>0. /\ Typed /\ session \in [Sessions -> SessionType]
      /\ sFailures \in Nat /\ wFailures \in Nat /\ timeouts \in Nat /\ crashes \in Nat
      /\ got[r][c] \in Nat /\ repeats[r][c] \in Nat
  BY Counts DEF Base, Typed
<1>1. /\ Open \in {0, 1} /\ Queued(r, c) \in {0, 1} /\ Open' \in {0, 1} /\ Queued(r, c)' \in {0, 1}
      /\ Cardinality(Owing(r, c)) \in Nat /\ Cardinality(Owing(r, c)') \in Nat /\ c \in Nat
  BY Terms, TermsNext, FlowAssumption
<1>2. UNCHANGED <<wBatch, wStep, wCall, wFailures, crashes, timeouts>>
  BY DEF SessionActs, SessionParse, SessionSend, SessionQueue, SessionAnswer, workerVars, clientVars
<1>3. ASSUME NEW f \in {0, 1}, NEW n \in {0, 1}, sFailures' = sFailures + f, repeats'[r][c] = repeats[r][c] + n
      PROVE  Budget(r, c)' = Budget(r, c) + 2 * f + n /\ Budget(r, c) \in Nat
  BY <1>0, <1>2, <1>3 DEF Budget
<1>4. ASSUME UNCHANGED items
      PROVE  Queued(r, c)' <= Queued(r, c) + 0
  BY <1>1, <1>2, <1>4, QueuedSame
<1>5. ASSUME UNCHANGED clientVars
      PROVE  Open' <= Open + 0
  BY <1>1, <1>5, OpenSame
<1>6. CASE SessionParse(s)
  <2>1. session[s].pc = "parse" /\ UNCHANGED <<items, got, repeats, clientVars>>
    BY <1>6 DEF SessionParse, storeVars
  <2>2. Queued(r, c)' <= Queued(r, c) + 0 /\ Open' <= Open + 0
    BY <1>4, <1>5, <2>1
  <2>3. got'[r][c] = got[r][c] + 0 /\ repeats'[r][c] = repeats[r][c] + 0
    BY <1>0, <2>1
  <2>4. CASE Becomes(s, "answer", session[s].at, session[s].call, "451") /\ sFailures' = sFailures + 1
    <3>1. Cardinality(Owing(r, c)') <= Cardinality(Owing(r, c)) + 1
      BY <2>4, OwingMore DEF Becomes
    <3>2. Budget(r, c) + 0 + 1 + 0 + 0 <= Budget(r, c)'
      BY <1>3, <2>3, <2>4
    <3> QED
      BY <2>2, <2>3, <3>1, <3>2, Ledger
  <2>5. ASSUME NEW k \in Calls, Becomes(s, "send", session[s].at, k, session[s].reply), sFailures' = sFailures
        PROVE  Paid(r, c)'
    <3>1. Cardinality(Owing(r, c)') <= Cardinality(Owing(r, c))
      BY <2>1, <2>5, BegunOwes, OwingLess DEF Becomes
    <3>2. sFailures' = sFailures + 0 /\ Cardinality(Owing(r, c)') <= Cardinality(Owing(r, c)) + 0
      BY <1>0, <1>1, <2>5, <3>1
    <3>3. Budget(r, c) + 0 + 0 + 0 + 0 <= Budget(r, c)'
      BY <1>3, <2>3, <3>2
    <3> QED
      BY <2>2, <2>3, <3>2, <3>3, Ledger
  <2> QED
    BY <1>0, <1>6, <2>4, <2>5, ParseEffect
<1>7. ASSUME NEW outcome, NEW then, SessionSend(s, outcome, then)
      PROVE  Paid(r, c)'
  <2> DEFINE p == session[s].rcpts[session[s].at]
             k == session[s].call.next
  <2>0. /\ session[s].pc = "send" /\ SenderReturns(p, session[s].call, outcome, then)
        /\ UNCHANGED <<items, clientVars, sFailures>>
    BY <1>7 DEF SessionSend, storeVars
  <2>1. p \in Payloads /\ session[s].call \in Calls /\ k \in Nat
    <3>1. session[s].at \in DOMAIN session[s].rcpts
      BY <2>0, RunningAt DEF AtRecipient
    <3>2. session[s].rcpts \in Seq(Payloads) /\ k \in 1 .. GroupSize /\ session[s].call \in Calls
      BY <1>0, SessionFields
    <3> QED
      BY <3>1, <3>2, FlowAssumption
  <2>2. OwesOf(session[s], p, k)
    BY <2>0, <2>1, HitOwes
  <2> HIDE DEF p
  <2>3. /\ got'[r][c] = got[r][c] \/ (r = p /\ c = session[s].call.next /\ got'[r][c] = got[r][c] + 1)
        /\ repeats'[r][c] = repeats[r][c]
           \/ (then = "again" /\ r = p /\ c = session[s].call.next /\ repeats'[r][c] = repeats[r][c] + 1)
        /\ then = "again" /\ r = p /\ c = session[s].call.next => repeats'[r][c] = repeats[r][c] + 1
    BY <2>0, <2>1, OneCopy
  <2> HIDE DEF k
  <2>4. PICK g \in {0, 1} : got'[r][c] = got[r][c] + g /\ (g = 1 => r = p /\ c = k)
    <3>1. got[r][c] = got[r][c] + 0
      BY <1>0
    <3> QED
      BY <2>3, <3>1 DEF k
  <2>5. PICK n \in {0, 1} : /\ repeats'[r][c] = repeats[r][c] + n
                            /\ n = 1 => then = "again"
                            /\ then = "again" /\ r = p /\ c = k => n = 1
    <3>1. repeats[r][c] = repeats[r][c] + 0 /\ repeats[r][c] # repeats[r][c] + 1
      BY <1>0
    <3> QED
      BY <2>3, <3>1 DEF k
  <2>6. Queued(r, c)' <= Queued(r, c) + 0 /\ Open' <= Open + 0
    BY <1>4, <1>5, <2>0
  <2>7. Budget(r, c)' = Budget(r, c) + n /\ Budget(r, c) \in Nat
    <3>1. sFailures' = sFailures + 0
      BY <1>0, <2>0
    <3>2. Budget(r, c)' = Budget(r, c) + 2 * 0 + n /\ Budget(r, c) \in Nat
      BY <1>3, <2>5, <3>1
    <3> QED
      BY <3>2
  <2>8. ASSUME then # "again",
               \A q \in Sessions : q # s => session'[q] = session[q],
               OwesOf(session'[s], r, c) => OwesOf(session[s], r, c),
               r = p /\ c = k => ~OwesOf(session'[s], r, c)
        PROVE  Paid(r, c)'
    <3>1. /\ Cardinality(Owing(r, c)') <= Cardinality(Owing(r, c))
          /\ OwesOf(session[s], r, c) /\ ~OwesOf(session'[s], r, c)
                => Cardinality(Owing(r, c)') + 1 <= Cardinality(Owing(r, c))
      BY <2>8, OwingLess
    <3>2. g = 1 => OwesOf(session[s], r, c) /\ ~OwesOf(session'[s], r, c)
      BY <2>2, <2>4, <2>8
    <3>3. Cardinality(Owing(r, c)') <= Cardinality(Owing(r, c)) + (0 - g) /\ 0 - g \in Int
      BY <1>1, <3>1, <3>2
    <3>4. Budget(r, c) + g + (0 - g) + 0 + 0 <= Budget(r, c)'
      BY <2>5, <2>7, <2>8
    <3> QED
      BY <2>4, <2>6, <3>3, <3>4, Ledger
  <2>9. CASE then = "again" /\ SentAgain(s)
    <3>1. PICK call \in Calls : /\ call.next = session[s].call.next
                                /\ Becomes(s, "send", session[s].at, call, session[s].reply)
      BY <2>9 DEF SentAgain
    <3>2. /\ OwesOf(session'[s], r, c) => OwesOf(session[s], r, c)
          /\ \A q \in Sessions : q # s => session'[q] = session[q]
      BY <2>0, <3>1, AgainOwes DEF Becomes
    <3>3. Cardinality(Owing(r, c)') <= Cardinality(Owing(r, c))
      BY <3>2, OwingLess
    <3>4. Cardinality(Owing(r, c)') <= Cardinality(Owing(r, c)) + 0
      BY <1>1, <3>3
    <3>5. Budget(r, c) + g + 0 + 0 + 0 <= Budget(r, c)'
      BY <2>4, <2>5, <2>7, <2>9
    <3> QED
      BY <2>4, <2>6, <3>4, <3>5, Ledger
  <2>10. CASE then = "next" /\ SentMore(s)
    <3>1. PICK call \in Calls : /\ call.next = session[s].call.next + 1
                                /\ Becomes(s, "send", session[s].at, call, session[s].reply)
      BY <2>10 DEF SentMore
    <3>2. /\ OwesOf(session'[s], r, c) => OwesOf(session[s], r, c)
          /\ r = p /\ c = k => ~OwesOf(session'[s], r, c)
      BY <1>1, <2>0, <3>1, MoreOwes DEF p, k
    <3>3. \A q \in Sessions : q # s => session'[q] = session[q]
      BY <3>1 DEF Becomes
    <3> QED
      BY <2>8, <2>10, <3>2, <3>3
  <2>11. CASE then = "done" /\ SentAll(s)
    <3>1. CASE Becomes(s, "parse", session[s].at + 1, NoCall, session[s].reply)
      <4>1. /\ OwesOf(session'[s], r, c) => OwesOf(session[s], r, c)
            /\ r = p => ~OwesOf(session'[s], r, c)
        BY <2>0, <3>1, NextOwes DEF p
      <4>2. \A q \in Sessions : q # s => session'[q] = session[q]
        BY <3>1 DEF Becomes
      <4> QED
        BY <2>8, <2>11, <4>1, <4>2
    <3>2. CASE Becomes(s, "answer", session[s].at, NoCall, "250")
      <4>1. ~OwesOf(session'[s], r, c) /\ \A q \in Sessions : q # s => session'[q] = session[q]
        BY <3>2, EndedOwes DEF Becomes
      <4> QED
        BY <2>8, <2>11, <4>1
    <3> QED
      BY <2>11, <3>1, <3>2 DEF SentAll
  <2>12. CASE then = "failed" /\ SentNot(s)
    <3>1. ~OwesOf(session'[s], r, c) /\ \A q \in Sessions : q # s => session'[q] = session[q]
      BY <2>12, EndedOwes DEF Becomes, SentNot
    <3> QED
      BY <2>8, <2>12, <3>1
  <2> QED
    BY <1>0, <1>7, <2>9, <2>10, <2>11, <2>12, SendEffect DEF SentKinds
<1>8. ASSUME NEW id, NEW saved, SessionQueue(s, id, saved)
      PROVE  Paid(r, c)'
  <2>1. UNCHANGED <<got, repeats, clientVars>> /\ sFailures' = sFailures + 1
    BY <1>8 DEF SessionQueue
  <2>2. Becomes(s, "answer", session[s].at, session[s].call, "451")
    BY <1>0, <1>8, QueueEffect
  <2>3. Cardinality(Owing(r, c)') <= Cardinality(Owing(r, c)) + 1
    BY <2>2, OwingMore DEF Becomes
  <2>4. /\ got'[r][c] = got[r][c] + 0 /\ repeats'[r][c] = repeats[r][c] + 0
        /\ Queued(r, c)' <= Queued(r, c) + 1 /\ Open' <= Open + 0
    BY <1>0, <1>1, <1>5, <2>1
  <2>5. Budget(r, c) + 0 + 1 + 0 + 1 <= Budget(r, c)'
    BY <1>3, <2>1, <2>4
  <2> QED
    BY <2>3, <2>4, <2>5, Ledger
<1>9. CASE SessionAnswer(s)
  <2>1. session[s].pc = "answer" /\ UNCHANGED <<items, got, repeats, sFailures>>
    BY <1>9 DEF SessionAnswer, storeVars
  <2>2. Becomes(s, "answered", 1, session[s].call, session[s].reply)
    BY <1>0, <1>9, AnswerEffect
  <2>3. ~OwesOf(session'[s], r, c) /\ \A q \in Sessions : q # s => session'[q] = session[q]
    BY <2>2, EndedOwes DEF Becomes
  <2>4. /\ Cardinality(Owing(r, c)') <= Cardinality(Owing(r, c))
        /\ OwesOf(session[s], r, c) => Cardinality(Owing(r, c)') + 1 <= Cardinality(Owing(r, c))
    BY <2>3, OwingLess
  <2>5. got'[r][c] = got[r][c] + 0 /\ repeats'[r][c] = repeats[r][c] + 0 /\ sFailures' = sFailures + 0
    BY <1>0, <2>1
  <2>6. Budget(r, c)' = Budget(r, c) /\ Budget(r, c) \in Nat
    <3>1. Budget(r, c)' = Budget(r, c) + 2 * 0 + 0 /\ Budget(r, c) \in Nat
      BY <1>3, <2>5
    <3> QED
      BY <3>1
  <2>7. Queued(r, c)' <= Queued(r, c) + 0
    BY <1>4, <2>1
  <2>8. session[s].reply \in {"250", "451"}
    <3>1. session[s].reply # "none"
      BY <2>1 DEF Running, RunningOf
    <3> QED
      BY <1>0, <3>1, SessionFields
  <2>9. CASE session[s].reply = "451"
    <3>1. OwesOf(session[s], r, c)
      BY <2>1, <2>9 DEF OwesOf
    <3>2. /\ Cardinality(Owing(r, c)') <= Cardinality(Owing(r, c)) + (0 - 1) /\ 0 - 1 \in Int
          /\ Open' <= Open + 1 /\ Budget(r, c) + 0 + (0 - 1) + 1 + 0 <= Budget(r, c)'
      BY <1>1, <2>4, <2>6, <3>1
    <3> QED
      BY <2>5, <2>7, <3>2, Ledger
  <2>10. CASE session[s].reply = "250"
    <3>1. Open' <= Open
      BY <1>9, <2>10, OpenAnswered
    <3>2. /\ Cardinality(Owing(r, c)') <= Cardinality(Owing(r, c)) + 0
          /\ Open' <= Open + 0 /\ Budget(r, c) + 0 + 0 + 0 + 0 <= Budget(r, c)'
      BY <1>1, <2>4, <2>6, <3>1
    <3> QED
      BY <2>5, <2>7, <3>2, Ledger
  <2> QED
    BY <2>8, <2>9, <2>10
<1> QED
  BY <1>6, <1>7, <1>8, <1>9 DEF SessionActs

\* Nothing of the sessions changes.
LEMMA OwingSame ==
    ASSUME NEW r, NEW c, session' = session
    PROVE  Cardinality(Owing(r, c)') <= Cardinality(Owing(r, c)) + 0
<1>1. Owing(r, c)' = Owing(r, c)
  BY DEF Owing, OwesOf
<1> QED
  BY <1>1, Terms

\* The queue owes no more than before.
LEMMA QueuedLess ==
    ASSUME NEW r, NEW c, \A k \in DOMAIN items' : ItemOwes(k, r, c)' => k \in DOMAIN items /\ ItemOwes(k, r, c)
    PROVE  Queued(r, c)' <= Queued(r, c) + 0
<1>1. Queued(r, c) \in {0, 1} /\ Queued(r, c)' \in {0, 1}
  BY Terms, TermsNext
<1>2. CASE \E k \in DOMAIN items : ItemOwes(k, r, c)
  BY <1>1, <1>2 DEF Queued
<1>3. CASE ~\E k \in DOMAIN items : ItemOwes(k, r, c)
  <2>1. ~\E k \in DOMAIN items' : ItemOwes(k, r, c)'
    BY <1>3
  <2>2. Queued(r, c)' = 0
    BY <2>1 DEF Queued
  <2> QED
    BY <1>1, <2>2
<1> QED
  BY <1>2, <1>3

\* The steps of the worker's call are paid for: a copy comes from the item in hand,
\* which is owed again only when the relay fails, or from a call made again.
LEMMA CallPaid ==
    ASSUME Base, Accounts, Accounts', CallActs,
           NEW r \in Payloads, NEW c \in 1 .. GroupSize, Paid(r, c)
    PROVE  Paid(r, c)'
<1> DEFINE id == wBatch[1].id
           p == items[wBatch[1].id].payload
<1>1. CallKinds
  BY CallEffect
<1>2. /\ UNCHANGED <<session, items, wBatch, sFailures, crashes>> /\ UNCHANGED clientVars
      /\ wBatch # <<>> /\ wStep = "relay"
  BY <1>1 DEF CallActs, WorkerParse, WorkerSend, CallKinds, CallBegins, CallRepeats, CallContinues, CallSucceeds,
              CallFails, storeVars, workerVars
<1>3. /\ sFailures \in Nat /\ wFailures \in Nat /\ timeouts \in Nat /\ crashes \in Nat
      /\ UniqueIn(items) /\ got[r][c] \in Nat /\ repeats[r][c] \in Nat
  BY Counts DEF Accounts
<1>4. GroupSize \in Nat /\ c \in Nat /\ c >= 1
  BY FlowAssumption
<1>5. /\ id \in DOMAIN items /\ Active(items[id]) /\ p \in Payloads
      /\ wCall \in Calls /\ wCall.next \in 1 .. GroupSize
  <2>1. 1 \in DOMAIN wBatch
    BY <1>2, TailElements DEF Base, Typed, WorkerTyped
  <2>2. id \in DOMAIN items /\ items[id].status = "processing"
    BY <2>1 DEF Base, Held
  <2>3. items[id] \in Item
    BY <2>2 DEF Base, Typed, StoreTyped, IsItemMap
  <2> QED
    BY <2>2, <2>3 DEF Item, Active, Base, Typed, WorkerTyped, Calls
<1>6. Open' <= Open + 0
  BY <1>2, OpenSame, Terms
<1>7. Cardinality(Owing(r, c)') <= Cardinality(Owing(r, c)) + 0
  BY <1>2, OwingSame
<1>8. Queued(r, c) \in {0, 1} /\ Queued(r, c)' \in {0, 1}
  BY Terms, TermsNext
<1>9. ASSUME r = p, wCall.next <= c
      PROVE  Queued(r, c) = 1
  <2>1. ItemOwes(id, r, c)
    BY <1>2, <1>4, <1>5, <1>9 DEF ItemOwes
  <2> QED
    BY <1>5, <2>1 DEF Queued
<1>10. ASSUME NEW w \in {0, 1}, NEW n \in {0, 1}, wFailures' = wFailures + w, repeats'[r][c] = repeats[r][c] + n
       PROVE  Budget(r, c)' = Budget(r, c) + w + n /\ Budget(r, c) \in Nat
  <2>1. timeouts' = timeouts /\ sFailures' = sFailures /\ crashes' = crashes
    BY <1>2 DEF clientVars
  <2> QED
    BY <1>3, <1>10, <2>1 DEF Budget
<1>11. ASSUME wFailures' = wFailures
       PROVE  wFailures' = wFailures + 0
  BY <1>3, <1>11
<1> HIDE DEF id, p
<1>12. ASSUME NEW then, Returns(then)
       PROVE  /\ got'[r][c] = got[r][c] + 0 \/ (r = p /\ c = wCall.next /\ got'[r][c] = got[r][c] + 1)
              /\ then # "again" => repeats'[r][c] = repeats[r][c] + 0
              /\ repeats'[r][c] = repeats[r][c] + 0 \/ repeats'[r][c] = repeats[r][c] + 1
              /\ then = "again" /\ r = p /\ c = wCall.next => repeats'[r][c] = repeats[r][c] + 1
  <2>1. PICK outcome : SenderReturns(p, wCall, outcome, then)
    BY <1>12 DEF Returns, p
  <2>2. /\ got'[r][c] = got[r][c] \/ (r = p /\ c = wCall.next /\ got'[r][c] = got[r][c] + 1)
        /\ repeats'[r][c] = repeats[r][c]
           \/ (then = "again" /\ r = p /\ c = wCall.next /\ repeats'[r][c] = repeats[r][c] + 1)
        /\ then = "again" /\ r = p /\ c = wCall.next => repeats'[r][c] = repeats[r][c] + 1
    BY <1>5, <2>1, OneCopy
  <2>3. got[r][c] = got[r][c] + 0 /\ repeats[r][c] = repeats[r][c] + 0
    BY <1>3
  <2> QED
    BY <2>2, <2>3
<1>13. CASE CallBegins
  <2>1. wCall.next = 1 /\ wCall'.next = 1 /\ UNCHANGED <<wStep, wFailures, got, repeats>>
    BY <1>13, NoCallType DEF CallBegins, workerVars
  <2>2. Queued(r, c)' <= Queued(r, c) + 0
    <3>1. \A k \in DOMAIN items' : ItemOwes(k, r, c)' => k \in DOMAIN items /\ ItemOwes(k, r, c)
      BY <1>2, <2>1 DEF ItemOwes, Active
    <3> QED
      BY <3>1, QueuedLess
  <2>3. got'[r][c] = got[r][c] + 0 /\ repeats'[r][c] = repeats[r][c] + 0 /\ wFailures' = wFailures + 0
    BY <1>3, <2>1
  <2>4. Budget(r, c) + 0 + 0 + 0 + 0 <= Budget(r, c)'
    BY <1>10, <2>3
  <2> QED
    BY <1>6, <1>7, <2>2, <2>3, <2>4, Ledger
<1>14. CASE CallRepeats
  <2>1. Returns("again") /\ wCall'.next = wCall.next /\ UNCHANGED <<wStep, wFailures>>
    BY <1>14 DEF CallRepeats, workerVars
  <2>2. Queued(r, c)' <= Queued(r, c) + 0
    <3>1. \A k \in DOMAIN items' : ItemOwes(k, r, c)' => k \in DOMAIN items /\ ItemOwes(k, r, c)
      BY <1>2, <2>1 DEF ItemOwes, Active
    <3> QED
      BY <3>1, QueuedLess
  <2>3. wFailures' = wFailures + 0
    BY <1>11, <2>1
  <2>4. PICK n \in {0, 1} : /\ repeats'[r][c] = repeats[r][c] + n
                            /\ r = p /\ c = wCall.next => n = 1
    <3>1. repeats[r][c] + 0 # repeats[r][c] + 1
      BY <1>3
    <3> QED
      BY <1>12, <2>1, <3>1
  <2>5. PICK g \in {0, 1} : got'[r][c] = got[r][c] + g /\ (g = 1 => r = p /\ c = wCall.next)
    BY <1>12, <2>1
  <2>6. Budget(r, c) + g + 0 + 0 + 0 <= Budget(r, c)'
    <3>1. Budget(r, c)' = Budget(r, c) + 0 + n /\ Budget(r, c) \in Nat
      BY <1>10, <2>3, <2>4
    <3> QED
      BY <2>4, <2>5, <3>1
  <2> QED
    BY <1>6, <1>7, <2>2, <2>5, <2>6, Ledger
<1>15. CASE CallContinues \/ CallSucceeds
  <2>1. /\ \E then : then # "again" /\ Returns(then)
        /\ wFailures' = wFailures
        /\ wStep' = "ok" \/ (wStep' = wStep /\ wCall'.next = wCall.next + 1)
    <3>1. "next" # "again" /\ "done" # "again"
      OBVIOUS
    <3> QED
      BY <1>15, <3>1 DEF CallContinues, CallSucceeds, workerVars
  <2>2. \A k \in DOMAIN items' : ItemOwes(k, r, c)' =>
            k \in DOMAIN items /\ ItemOwes(k, r, c) /\ (c <= wCall.next => k # id)
    <3> TAKE k \in DOMAIN items'
    <3>1. ASSUME ItemOwes(k, r, c)'
          PROVE  k \in DOMAIN items /\ ItemOwes(k, r, c) /\ (c <= wCall.next => k # id)
      <4>1. k \in DOMAIN items /\ items[k].payload = r /\ Active(items[k])
        BY <1>2, <3>1 DEF ItemOwes, Active
      <4>2. k = id => wStep' # "ok" /\ ~(wCall'.next > c)
        BY <1>2, <3>1 DEF ItemOwes, id
      <4>3. CASE k # id
        BY <4>1, <4>3 DEF ItemOwes, id
      <4>4. CASE k = id
        <5>1. wCall'.next = wCall.next + 1 /\ ~(wCall'.next > c)
          BY <2>1, <4>2, <4>4
        <5>2. ~(wCall.next > c) /\ ~(c <= wCall.next)
          BY <1>4, <1>5, <5>1
        <5> QED
          BY <1>2, <4>1, <5>2 DEF ItemOwes
      <4> QED
        BY <4>3, <4>4
    <3> QED
      BY <3>1
  <2>3. /\ got'[r][c] = got[r][c] + 0 \/ (r = p /\ c = wCall.next /\ got'[r][c] = got[r][c] + 1)
        /\ repeats'[r][c] = repeats[r][c] + 0 /\ wFailures' = wFailures + 0
    BY <1>11, <1>12, <2>1
  <2>4. Budget(r, c)' = Budget(r, c) /\ Budget(r, c) \in Nat
    <3>1. Budget(r, c)' = Budget(r, c) + 0 + 0 /\ Budget(r, c) \in Nat
      BY <1>10, <2>3
    <3> QED
      BY <3>1
  <2>5. CASE got'[r][c] = got[r][c] + 0
    <3>1. Queued(r, c)' <= Queued(r, c) + 0
      BY <2>2, QueuedLess
    <3>2. Budget(r, c) + 0 + 0 + 0 + 0 <= Budget(r, c)'
      BY <2>4
    <3> QED
      BY <1>6, <1>7, <2>5, <3>1, <3>2, Ledger
  <2>6. CASE r = p /\ c = wCall.next /\ got'[r][c] = got[r][c] + 1
    <3>1. Queued(r, c) = 1
      BY <1>4, <1>9, <2>6
    <3>2. ASSUME NEW k \in DOMAIN items', ItemOwes(k, r, c)'
          PROVE  FALSE
      <4>1. k \in DOMAIN items /\ k # id /\ items[k].payload = r /\ Active(items[k])
        BY <1>4, <2>2, <2>6, <3>2 DEF ItemOwes
      <4>2. items[id].payload = r /\ Active(items[id]) /\ id \in DOMAIN items
        BY <1>5, <2>6 DEF p, id
      <4> QED
        BY <1>3, <4>1, <4>2 DEF UniqueIn
    <3>3. Queued(r, c)' = 0
      BY <3>2 DEF Queued
    <3>4. PICK q \in Int : q = 0 - 1
      OBVIOUS
    <3>5. Queued(r, c)' <= Queued(r, c) + q /\ Budget(r, c) + 1 + 0 + 0 + q <= Budget(r, c)'
      BY <2>4, <3>1, <3>3, <3>4
    <3> QED
      BY <1>6, <1>7, <2>6, <3>5, Ledger
  <2> QED
    BY <2>3, <2>5, <2>6
<1>16. CASE CallFails
  <2>1. /\ got'[r][c] = got[r][c] + 0 \/ (r = p /\ c = wCall.next /\ got'[r][c] = got[r][c] + 1)
        /\ repeats'[r][c] = repeats[r][c] + 0 /\ wFailures' = wFailures + 1
    <3>1. wFailures' = wFailures + 1 /\ (UNCHANGED <<got, repeats>> \/ Returns("failed"))
      BY <1>16 DEF CallFails
    <3>2. CASE UNCHANGED <<got, repeats>>
      BY <1>3, <3>1, <3>2
    <3>3. CASE Returns("failed")
      <4>1. "failed" # "again"
        OBVIOUS
      <4> QED
        BY <1>12, <3>1, <3>3, <4>1
    <3> QED
      BY <3>1, <3>2, <3>3
  <2>2. Budget(r, c)' = Budget(r, c) + 1 /\ Budget(r, c) \in Nat
    <3>1. Budget(r, c)' = Budget(r, c) + 1 + 0 /\ Budget(r, c) \in Nat
      BY <1>10, <2>1
    <3> QED
      BY <3>1
  <2>3. CASE got'[r][c] = got[r][c] + 0
    <3>1. Queued(r, c)' <= Queued(r, c) + 1 /\ Budget(r, c) + 0 + 0 + 0 + 1 <= Budget(r, c)'
      BY <1>8, <2>2
    <3> QED
      BY <1>6, <1>7, <2>3, <3>1, Ledger
  <2>4. CASE r = p /\ c = wCall.next /\ got'[r][c] = got[r][c] + 1
    <3>1. Queued(r, c) = 1
      BY <1>4, <1>9, <2>4
    <3>2. Queued(r, c)' <= Queued(r, c) + 0 /\ Budget(r, c) + 1 + 0 + 0 + 0 <= Budget(r, c)'
      BY <1>8, <2>2, <3>1
    <3> QED
      BY <1>6, <1>7, <2>4, <3>2, Ledger
  <2> QED
    BY <2>1, <2>3, <2>4
<1> QED
  BY <1>1, <1>13, <1>14, <1>15, <1>16 DEF CallKinds

\* The client submits the mail: what it was about to do is now a session's to do.
LEMMA SubmitPaid ==
    ASSUME Base, Accounts, Accounts', Submit, NEW r \in Payloads, NEW c \in 1 .. GroupSize, Paid(r, c)
    PROVE  Paid(r, c)'
<1>0. /\ sFailures \in Nat /\ wFailures \in Nat /\ timeouts \in Nat /\ crashes \in Nat
      /\ got[r][c] \in Nat /\ repeats[r][c] \in Nat
      /\ UNCHANGED <<items, wBatch, wStep, wCall, got, repeats, sFailures, wFailures, timeouts, crashes>>
  BY Counts DEF Submit, storeVars, workerVars
<1>1. PICK s : s = submitted'
  OBVIOUS
<1>2. s \in Sessions /\ waiting' = s /\ \A q \in Sessions : q # s => session'[q] = session[q]
  BY <1>1, SubmitEffect DEF Base
<1>3. Open = 1 /\ Open' = 0
  <2>1. Ready
    BY DEF Submit, Ready
  <2>2. waiting' # 0
    BY <1>2, FlowAssumption DEF Sessions
  <2>3. ~Ready'
    BY <2>2 DEF Ready
  <2> QED
    BY <2>1, <2>3 DEF Open
<1>4. Cardinality(Owing(r, c)') <= Cardinality(Owing(r, c)) + 1
  BY <1>2, OwingMore
<1>5. Open' <= Open + (0 - 1) /\ 0 - 1 \in Int /\ got'[r][c] = got[r][c] + 0
  BY <1>0, <1>3
<1>6. Queued(r, c)' <= Queued(r, c) + 0
  BY <1>0, QueuedSame, Terms
<1>7. Budget(r, c) + 0 + 1 + (0 - 1) + 0 <= Budget(r, c)'
  BY <1>0 DEF Budget
<1> QED
  BY <1>4, <1>5, <1>6, <1>7, Ledger

\* The worker picks or marks: it owes what it owed, or less.
LEMMA WorkerPaid ==
    ASSUME Base, Accounts, Accounts', NEW r \in Payloads, NEW c \in 1 .. GroupSize, Paid(r, c),
           \/ \E batch, saved : DoWorkerPick(batch, saved)
           \/ \E jitter \in 0 .. Jitter - 1 : \E saved : DoWorkerMark(jitter, saved)
    PROVE  Paid(r, c)'
<1>0. /\ sFailures \in Nat /\ wFailures \in Nat /\ timeouts \in Nat /\ crashes \in Nat
      /\ got[r][c] \in Nat /\ repeats[r][c] \in Nat
      /\ UNCHANGED <<session, got, repeats, sFailures, wFailures, crashes>> /\ UNCHANGED clientVars
  BY Counts DEF DoWorkerPick, DoWorkerMark
<1>1. StoreTyped /\ WorkerTyped /\ Held /\ now \in Nat
  BY DEF Base, Typed
<1>2. Cardinality(Owing(r, c)') <= Cardinality(Owing(r, c)) + 0
  BY <1>0, OwingSame
<1>3. Open' <= Open + 0
  BY <1>0, OpenSame, Terms
<1>4. got'[r][c] = got[r][c] + 0 /\ Budget(r, c) + 0 + 0 + 0 + 0 <= Budget(r, c)'
  BY <1>0 DEF Budget, clientVars
<1>5. ASSUME \A k \in DOMAIN items' : ItemOwes(k, r, c)' => k \in DOMAIN items /\ ItemOwes(k, r, c)
      PROVE  Paid(r, c)'
  BY <1>2, <1>3, <1>4, <1>5, QueuedLess, Ledger
<1>6. ASSUME NEW batch, NEW saved, DoWorkerPick(batch, saved)
      PROVE  Paid(r, c)'
  <2>1. wBatch = <<>> /\ PickDue(batch, BatchSize, now, saved)
    BY <1>6 DEF DoWorkerPick, WorkerPick
  <2>2. /\ Changed /\ DOMAIN items' = DOMAIN items
        /\ \A id \in DOMAIN items : items'[id] = items[id]
                                    \/ (items[id].status = "pending" /\ items'[id].status = "processing")
    BY <1>1, <2>1, PickEffect
  <2>3. ASSUME NEW k \in DOMAIN items', ItemOwes(k, r, c)'
        PROVE  k \in DOMAIN items /\ ItemOwes(k, r, c)
    <3>1. items'[k].payload = r /\ Active(items'[k])
      BY <2>3 DEF ItemOwes, Active
    <3>2. k \in DOMAIN items /\ items[k].payload = r /\ Active(items[k])
      BY <2>2, <3>1 DEF Changed, Active
    <3> QED
      BY <2>1, <3>2 DEF ItemOwes
  <2> QED
    BY <1>5, <2>3
<1>7. ASSUME NEW jitter \in 0 .. Jitter - 1, NEW saved, DoWorkerMark(jitter, saved)
      PROVE  Paid(r, c)'
  <2>1. wBatch # <<>> /\ wStep \in {"ok", "err"} /\ WorkerStore(now, jitter, saved)
    BY <1>7 DEF DoWorkerMark, WorkerMark
  <2>2. /\ Changed /\ DOMAIN items' = DOMAIN items
        /\ \A id \in DOMAIN items : id # wBatch[1].id => items'[id] = items[id]
        /\ wStep = "ok" => items'[wBatch[1].id].status = "done"
    BY <1>1, <2>1, MarkEffect
  <2>3. Active(items[wBatch[1].id])
    <3>1. 1 \in DOMAIN wBatch
      BY <1>1, <2>1, TailElements DEF WorkerTyped
    <3> QED
      BY <1>1, <3>1 DEF Held, Active
  <2>4. wCall.next = 1 /\ ~(wCall.next > c)
    <3>1. wCall = NoCall /\ c >= 1
      BY <1>1, <2>1 DEF Held
    <3> QED
      BY <3>1, NoCallType
  <2>5. ASSUME NEW k \in DOMAIN items', ItemOwes(k, r, c)'
        PROVE  k \in DOMAIN items /\ ItemOwes(k, r, c)
    <3>1. items'[k].payload = r /\ Active(items'[k])
      BY <2>5 DEF ItemOwes, Active
    <3>2. k \in DOMAIN items /\ items[k].payload = r
      BY <2>2, <3>1 DEF Changed
    <3>3. CASE k # wBatch[1].id
      BY <2>2, <3>1, <3>2, <3>3 DEF ItemOwes
    <3>4. CASE k = wBatch[1].id
      <4>1. wStep # "ok"
        BY <2>2, <3>1, <3>4 DEF Active
      <4> QED
        BY <2>3, <2>4, <3>2, <3>4, <4>1 DEF ItemOwes
    <3> QED
      BY <3>3, <3>4
  <2> QED
    BY <1>5, <2>5
<1> QED
  BY <1>6, <1>7

\* The other steps: only a timeout and the end of the process cost something.
LEMMA OutsidePaid ==
    ASSUME Base, Accounts, Accounts', NEW r \in Payloads, NEW c \in 1 .. GroupSize, Paid(r, c),
           \/ Timeout \/ Tick \/ UNCHANGED vars \/ Restart
           \/ \E n \in 0 .. GroupSize : AliasChange(n)
    PROVE  Paid(r, c)'
<1>0. /\ sFailures \in Nat /\ wFailures \in Nat /\ timeouts \in Nat /\ crashes \in Nat
      /\ got[r][c] \in Nat /\ repeats[r][c] \in Nat
      /\ UNCHANGED <<got, repeats, sFailures, wFailures>>
  BY Counts DEF Timeout, Tick, vars, Restart, AliasChange
<1>1. got'[r][c] = got[r][c] + 0
  BY <1>0
<1>2. Open' <= Open + 1 /\ Queued(r, c)' <= Queued(r, c) + 1
  BY Terms, TermsNext
<1>3. ASSUME UNCHANGED <<items, wBatch, wStep, wCall, session>>
      PROVE  Queued(r, c)' <= Queued(r, c) + 0 /\ Cardinality(Owing(r, c)') <= Cardinality(Owing(r, c)) + 0
  BY <1>3, QueuedSame, OwingSame, Terms
<1>4. CASE Timeout
  <2>1. UNCHANGED <<items, wBatch, wStep, wCall, session, crashes>> /\ timeouts' = timeouts + 1
    BY <1>4 DEF Timeout, storeVars, workerVars
  <2>2. Budget(r, c) + 0 + 0 + 1 + 0 <= Budget(r, c)'
    BY <1>0, <2>1 DEF Budget
  <2> QED
    BY <1>1, <1>2, <1>3, <2>1, <2>2, Ledger
<1>5. CASE Tick \/ UNCHANGED vars \/ \E n \in 0 .. GroupSize : AliasChange(n)
  <2>1. UNCHANGED <<items, wBatch, wStep, wCall, session, crashes>> /\ UNCHANGED clientVars
    BY <1>5 DEF Tick, vars, AliasChange, storeVars, workerVars
  <2>2. Budget(r, c) + 0 + 0 + 0 + 0 <= Budget(r, c)'
    BY <1>0, <2>1 DEF Budget, clientVars
  <2>3. Open' <= Open + 0
    BY <2>1, OpenSame, Terms
  <2> QED
    BY <1>1, <1>3, <2>1, <2>2, <2>3, Ledger
<1>6. CASE Restart
  <2>1. crashes' = crashes + 1 /\ timeouts' = timeouts
    BY <1>6 DEF Restart
  <2>2. \A s \in Sessions : session'[s].pc \notin {"parse", "send", "queue", "answer"}
    BY <1>6, RestartSessions DEF Base
  <2>3. Owing(r, c)' = {}
    BY <2>2 DEF Owing, OwesOf
  <2>4. Cardinality(Owing(r, c)') = 0
    BY <2>3, FS_EmptySet
  <2>5. Cardinality(Owing(r, c)') <= Cardinality(Owing(r, c)) + 0
    BY <2>4, Terms
  <2>6. Budget(r, c) + 0 + 0 + 1 + 1 <= Budget(r, c)'
    BY <1>0, <2>1 DEF Budget
  <2> QED
    BY <1>1, <1>2, <2>5, <2>6, Ledger
<1> QED
  BY <1>4, <1>5, <1>6

\* Every copy, had or still to come, is paid for.
AllPaid == \A r \in Payloads, c \in 1 .. GroupSize : Paid(r, c)

\* At the beginning the client may submit once.
LEMMA PaidInit ==
    ASSUME Init
    PROVE  Accounts /\ AllPaid
<1>1. /\ got = [r \in Payloads |-> [c \in 1 .. GroupSize |-> 0]] /\ repeats = got
      /\ sFailures = 0 /\ wFailures = 0 /\ timeouts = 0 /\ crashes = 0
      /\ session = [s \in Sessions |-> NewSession] /\ items = <<>> /\ disk = <<>>
  BY DEF Init, NewFileStore
<1>2. DOMAIN items = {} /\ DOMAIN disk = {}
  BY <1>1
<1>3. Accounts
  BY <1>1, <1>2 DEF Accounts, UniqueIn
<1>4. ASSUME NEW r \in Payloads, NEW c \in 1 .. GroupSize
      PROVE  Paid(r, c)
  <2>1. got[r][c] = 0 /\ Budget(r, c) = 1
    BY <1>1 DEF Budget
  <2>2. \A s \in Sessions : session[s].pc = "new"
    BY <1>1 DEF NewSession
  <2>3. Owing(r, c) = {}
    BY <2>2 DEF Owing, OwesOf
  <2>4. Cardinality(Owing(r, c)) = 0
    BY <2>3, FS_EmptySet
  <2>5. Queued(r, c) = 0
    BY <1>2 DEF Queued
  <2>6. Open \in {0, 1}
    BY Terms
  <2> QED
    BY <2>1, <2>4, <2>5, <2>6 DEF Paid
<1> QED
  BY <1>3, <1>4 DEF AllPaid

\* Every step keeps the ledger balanced.
LEMMA PaidStep ==
    ASSUME Base, Running, Accounts, AllPaid, [Next]_vars
    PROVE  Accounts' /\ AllPaid'
<1>1. Accounts'
  BY AccountsStep
<1>2. ASSUME NEW r \in Payloads, NEW c \in 1 .. GroupSize
      PROVE  Paid(r, c)'
  <2>0. Paid(r, c)
    BY DEF AllPaid
  <2>1. CASE Submit
    BY <1>1, <2>0, <2>1, SubmitPaid
  <2>2. CASE \/ Timeout \/ Tick \/ UNCHANGED vars \/ Restart
             \/ \E n \in 0 .. GroupSize : AliasChange(n)
    BY <1>1, <2>0, <2>2, OutsidePaid
  <2>3. ASSUME NEW s \in Sessions, SessionActs(s)
        PROVE  Paid(r, c)'
    BY <1>1, <2>0, <2>3, SessionPaid
  <2>4. CASE CallActs
    BY <1>1, <2>0, <2>4, CallPaid
  <2>5. CASE \/ \E batch, saved : DoWorkerPick(batch, saved)
             \/ \E jitter \in 0 .. Jitter - 1 : \E saved : DoWorkerMark(jitter, saved)
    BY <1>1, <2>0, <2>5, WorkerPaid
  <2> QED
    BY <2>1, <2>2, <2>3, <2>4, <2>5 DEF Next, SessionActs, CallActs
<1> QED
  BY <1>1, <1>2 DEF AllPaid

\* The invariant of the copies: the order of sessions and worker, and the ledger.
Balanced == Base /\ Running /\ Accounts /\ AllPaid

\* No chat gets a copy too many without a cause: beyond the first, one for each call of
\* the sender that sendWithRetry made again in that chat, two for each failed relay of a
\* session, one for each failed relay of the worker and for each answer the client did
\* not wait for, two for each end of the process, and none for a write of the queue that
\* failed, for any number of submissions, chats, immediate retries and changes of the
\* alias (handleConn, Relay, sendWithRetry, Enqueue's search for duplicates, runOnce and
\* load together).
THEOREM CopiesHaveACause == Spec => []CopiesAccounted
<1>1. Init => Balanced
  BY OrderInit, PaidInit DEF Balanced
<1>2. Balanced /\ [Next]_vars => Balanced'
  <2> SUFFICES ASSUME Balanced, [Next]_vars
               PROVE  Balanced'
    OBVIOUS
  <2>1. Base /\ Running /\ Accounts /\ AllPaid
    BY DEF Balanced
  <2>2. Base' /\ Running'
    BY <2>1, OrderStep
  <2>3. Accounts' /\ AllPaid'
    BY <2>1, PaidStep
  <2> QED
    BY <2>2, <2>3 DEF Balanced
<1>3. ASSUME Balanced
      PROVE  CopiesAccounted
  <2>1. ASSUME NEW r \in Payloads, NEW c \in 1 .. GroupSize
        PROVE  got[r][c] <= 1 + repeats[r][c] + 2 * sFailures + wFailures + timeouts + 2 * crashes
    <3>1. Paid(r, c) /\ Accounts
      BY <1>3 DEF Balanced, AllPaid
    <3>2. /\ sFailures \in Nat /\ wFailures \in Nat /\ timeouts \in Nat /\ crashes \in Nat
          /\ got[r][c] \in Nat /\ repeats[r][c] \in Nat
      BY <3>1, Counts
    <3>3. Cardinality(Owing(r, c)) \in Nat /\ Open \in {0, 1} /\ Queued(r, c) \in {0, 1}
      BY Terms
    <3> QED
      BY <3>1, <3>2, <3>3 DEF Paid, Budget
  <2> QED
    BY <2>1 DEF CopiesAccounted
<1> QED
  BY <1>1, <1>2, <1>3, PTL DEF Spec
=============================================================================
