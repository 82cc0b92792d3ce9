-------------------------------- MODULE Relay --------------------------------
(***************************************************************************)
(* relay.Service.Relay, internal/relay/service.go: one mail for one         *)
(* recipient address.  The address names one chat or a group of them; every *)
(* chat gets the text in chunks and then the attachments, each sent with    *)
(* immediate retries.  The first send that stays without success ends the   *)
(* call and, unless the call is itself a replay, puts the mail into the     *)
(* dead-letter queue.                                                       *)
(*                                                                          *)
(* The text chunks of a mail are its units 1 .. chunks, the attachments the *)
(* ones after them, up to units; what MAX takes are pairs of a chat's       *)
(* number and a unit.  Sending is BotSender, counting is Collector; logging *)
(* is left out.                                                             *)
(***************************************************************************)
EXTENDS BotSender, Collector, FiniteSets

CONSTANTS MaxCalls,         \* bound: calls
          MaxTargets,       \* bound: chats of an alias group
          MaxUnits,         \* bound: text chunks and attachments of a mail
          MaxSendRetries,   \* RELAY_MAX_RETRIES
          DLQEnabled        \* DLQ_ENABLED

ASSUME RelayAssumption ==
    /\ {MaxCalls, MaxTargets, MaxUnits} \subseteq Nat \ {0}
    /\ MaxSendRetries \in Nat
    /\ DLQEnabled \in BOOLEAN

VARIABLES pc,        \* where the call is
          bypass,    \* the context says the call is a replay
          targets,   \* chats the address stands for, read at the start of the call
          invalid,   \* the ones whose id is made of digits but is no int64
          chunks, units,           \* text chunks; chunks and attachments
          target, unit, attempt,   \* the three loops
          result,    \* what the call returned: none, ok, parse, send
          queued,    \* history: what Enqueue answered in this call
          returns,   \* history: how often a call returned each result
          brought    \* history: chats that got a whole mail by the calls before

mailVars == <<bypass, targets, invalid, chunks, units>>
vars == <<pc, mailVars, target, unit, attempt, result, queued, returns, brought,
          ctxDone, senderVars, collectorVars, now>>

Init ==
    /\ pc = "idle"
    /\ bypass = FALSE
    /\ targets = 1 /\ invalid = {} /\ chunks = 1 /\ units = 1
    /\ target = 1 /\ unit = 1 /\ attempt = 0
    /\ ctxDone = FALSE
    /\ result = "none"
    /\ queued = <<>>
    /\ returns = [r \in {"ok", "parse", "send"} |-> 0]
    /\ brought = 0
    /\ SenderInit
    /\ CollectorInit

\* The chats that have the whole mail, as MAX sees it.
Complete == {t \in 1 .. targets : \A u \in 1 .. units : \E i \in DOMAIN taken : taken[i] = <<t, u>>}

\* A call.  The mail always has a text; an alias stands for one chat or more.
Relay(replay, n, bad, c, m) ==
    /\ pc = "idle"
    /\ counters.received < MaxCalls
    /\ pc' = "parse"
    /\ bypass' = replay
    /\ targets' = n /\ invalid' = bad
    /\ chunks' = c /\ units' = m
    /\ target' = 1 /\ unit' = 1 /\ attempt' = 0
    /\ ctxDone' = FALSE
    /\ result' = "none"
    /\ queued' = <<>> /\ taken' = <<>>
    /\ brought' = brought + Cardinality(Complete)
    /\ Inc({"received"})
    /\ UNCHANGED <<returns, sending, tries, deliveryEvents, seen, now>>

Return(r) ==
    /\ pc' = "idle"
    /\ result' = r
    /\ returns' = [returns EXCEPT ![r] = @ + 1]

\* Neither an address nor a mail that cannot be parsed reaches the queue: the
\* alias may be gone since RCPT TO, or since the mail was queued.
ParseFails ==
    /\ pc = "parse"
    /\ Inc({"failed"})
    /\ ObserveDelivery(FALSE)
    /\ Return("parse")
    /\ UNCHANGED <<mailVars, brought, target, unit, attempt, queued, ctxDone, senderVars, now>>

Parse ==
    /\ pc = "parse"
    /\ pc' = "send"
    /\ UNCHANGED <<mailVars, brought, target, unit, attempt, result, queued, returns, ctxDone,
                   senderVars, collectorVars, now>>

\* The context ends while the call is running.
ContextDone ==
    /\ pc # "idle"
    /\ ~ctxDone
    /\ ctxDone' = TRUE
    /\ UNCHANGED <<pc, mailVars, brought, target, unit, attempt, result, queued, returns,
                   senderVars, collectorVars, now>>

\* The chat counts as relayed as soon as it has the text.
CountedAfterText ==
    \/ unit = chunks /\ Inc({"relayed"}) /\ ObserveDelivery(TRUE)
    \/ unit # chunks /\ UNCHANGED collectorVars

\* A chat counts as relayed when its last unit was sent.
Counted ==
    \/ unit = units /\ Inc({"relayed"}) /\ ObserveDelivery(TRUE)
    \/ unit < units /\ UNCHANGED collectorVars

\* A return after the first chat.
AdvanceFirstChatOnly ==
    /\ attempt' = 0
    /\ \/ unit < units /\ unit' = unit + 1 /\ pc' = "send" /\ UNCHANGED <<target, result, returns>>
       \/ unit = units /\ Return("ok") /\ UNCHANGED <<unit, target>>

\* The next unit of this chat, the next chat, or the end.
Advance ==
    /\ attempt' = 0
    /\ \/ unit < units /\ unit' = unit + 1 /\ pc' = "send" /\ UNCHANGED <<target, result, returns>>
       \/ /\ unit = units /\ target < targets
          /\ unit' = 1 /\ target' = target + 1
          /\ pc' = "send"
          /\ UNCHANGED <<result, returns>>
       \/ unit = units /\ target = targets /\ Return("ok") /\ UNCHANGED <<unit, target>>

\* What sendWithRetry does after a failed attempt.
AfterFailure == pc' = IF attempt = MaxSendRetries THEN "failed" ELSE "wait"

\* fn(), or a step of it when it is SendFile.
Send(outcome) ==
    /\ pc = "send"
    /\ \/ unit <= chunks /\ SendText(<<target, unit>>, target \notin invalid, outcome)
       \/ unit > chunks /\ SendFile(<<target, unit>>, target \notin invalid, outcome)
    /\ \/ outcome = "ok" /\ Counted /\ Advance
       \/ /\ outcome = "error" /\ AfterFailure
          /\ UNCHANGED <<target, unit, attempt, result, returns, collectorVars>>
       \/ /\ outcome = "running"
          /\ UNCHANGED <<pc, target, unit, attempt, result, returns, collectorVars>>
    /\ UNCHANGED <<mailVars, brought, queued, ctxDone, now>>

\* A pause that only the end of the context ends.
PauseOnContext ==
    /\ pc = "wait"
    /\ ctxDone /\ pc' = "failed"
    /\ UNCHANGED <<mailVars, brought, target, unit, attempt, result, queued, returns, ctxDone,
                   senderVars, collectorVars, now>>

\* The pause between two attempts; when the context is done as well, either.
Pause ==
    /\ pc = "wait"
    /\ \/ ctxDone /\ pc' = "failed" /\ UNCHANGED attempt
       \/ pc' = "send" /\ attempt' = attempt + 1
    /\ UNCHANGED <<mailVars, brought, target, unit, result, queued, returns, ctxDone,
                   senderVars, collectorVars, now>>

\* A failure that is queued whoever called.
QueueAlways(ok) == queued' = Append(queued, ok) /\ Inc({"failed"} \union (IF ok THEN {"dlqEnqueued"} ELSE {}))

\* A failure of a replay stays out of the queue: the item is already there.
Queue(ok) ==
    \/ /\ DLQEnabled /\ ~bypass
       /\ queued' = Append(queued, ok)
       /\ Inc({"failed"} \union (IF ok THEN {"dlqEnqueued"} ELSE {}))
    \/ (~DLQEnabled \/ bypass) /\ ok /\ Inc({"failed"}) /\ UNCHANGED queued

\* The error path of a send; a failed Enqueue only changes the error's text.
Fail(ok) ==
    /\ pc = "failed"
    /\ Queue(ok)
    /\ ObserveDelivery(FALSE)
    /\ Return("send")
    /\ UNCHANGED <<mailVars, brought, target, unit, attempt, ctxDone, senderVars, now>>

\* A day is long against a call: the clock stands still in one.
DayPasses ==
    /\ pc = "idle"
    /\ Tick
    /\ UNCHANGED <<pc, mailVars, brought, target, unit, attempt, result, queued, returns, ctxDone,
                   senderVars, collectorVars>>

Step ==
    \/ Parse
    \/ ParseFails
    \/ \E outcome \in {"ok", "error", "running"} : Send(outcome)
    \/ Pause
    \/ \E ok \in BOOLEAN : Fail(ok)

Next ==
    \/ \E replay \in BOOLEAN, n \in 1 .. MaxTargets, m \in 1 .. MaxUnits :
          \E bad \in SUBSET (1 .. n), c \in 1 .. m : Relay(replay, n, bad, c, m)
    \/ ContextDone
    \/ Step
    \/ DayPasses

Spec == Init /\ [][Next]_vars

\* Sends have a timeout and the pauses are timers, so a call in progress goes on.
FairSpec == Spec /\ WF_vars(Step)
-----------------------------------------------------------------------------
\* The place of a unit in the mail as a whole.
Place(pair) == (pair[1] - 1) * units + pair[2]

\* Whatever fails, times out, is not ready yet or is repeated, each chat sees the
\* units of the mail in order and without a gap, chat after chat; a repeat is only
\* ever of the unit before, at most once per immediate retry, however often an
\* attachment's message was posted in each.
InOrder ==
    /\ taken # <<>> => Place(taken[1]) = 1
    /\ \A i \in 1 .. Len(taken) - 1 : Place(taken[i + 1]) - Place(taken[i]) \in {0, 1}
    /\ \A i \in DOMAIN taken :
          Cardinality({j \in DOMAIN taken : taken[j] = taken[i]}) <= MaxSendRetries + 1

\* A call that reports success has brought every unit to every chat, and has
\* queued nothing.
SuccessComplete ==
    result = "ok" =>
        /\ {taken[i] : i \in DOMAIN taken} = (1 .. targets) \X (1 .. units)
        /\ queued = <<>>

\* A delivery that failed is handed to the dead-letter queue exactly once, and a
\* replay never: the queue does not feed itself.
HandedOver ==
    /\ bypass \/ ~DLQEnabled => queued = <<>>
    /\ Len(queued) = (IF result = "send" /\ DLQEnabled /\ ~bypass THEN 1 ELSE 0)

\* The counters tell the truth about the calls, those that failed half way through a
\* group included: every call is received once, every error is counted once, and of
\* a call no more chats are counted as relayed than have the whole mail.  What the
\* /stats commands add up are the same deliveries.
CountersTrue ==
    /\ counters.received = returns["ok"] + returns["parse"] + returns["send"] + (IF pc = "idle" THEN 0 ELSE 1)
    /\ counters.failed = returns["parse"] + returns["send"]
    /\ counters.failed = Count(seen, FALSE) /\ counters.relayed = Count(seen, TRUE)
    /\ counters.relayed <= brought + Cardinality(Complete)
    /\ counters.dlqEnqueued <= returns["send"]

\* Every call returns.
CallReturns == pc # "idle" ~> pc = "idle"
=============================================================================
