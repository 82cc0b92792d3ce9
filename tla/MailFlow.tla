------------------------------- MODULE MailFlow ------------------------------
(***************************************************************************)
(* One mail from end to end: the client that submits it, and submits it     *)
(* again when it is refused or not answered in time (internal/smtp/         *)
(* server.go), the relay to every chat of every recipient                   *)
(* (internal/relay/service.go), the alias table read by Parse               *)
(* (internal/recipient/parser.go), the dead-letter queue and its worker.    *)
(*                                                                          *)
(* The client submits the same bytes each time, so the fingerprint of an    *)
(* item in the queue is its recipient.  Each submission is a session of its *)
(* own: one that the client no longer waits for keeps relaying.             *)
(*                                                                          *)
(* A mail goes to a chat in units (the parts of its text, its files); got   *)
(* counts the copies of one of them, whichever it is.  A step of a relay is *)
(* one call of the sender inside sendWithRetry for this unit; "unknown" is  *)
(* an error although the chat has got it.  The other units show only in     *)
(* that a relay may fail at any attempt, as it also does when its context   *)
(* ends in a pause.  All the units are in Relay, a whole session is in      *)
(* SmtpServer.                                                              *)
(***************************************************************************)
EXTENDS DlqWorker

CONSTANTS Group, Direct,    \* its recipients: an alias, and an address with a chat id
          GroupSize,        \* chats the alias may stand for
          MaxSendRetries,   \* RELAY_MAX_RETRIES: calls of the sender after the first
          MaxSubmissions,   \* bound: submissions of the mail
          MaxEvents         \* bound: changes of the alias, ends of the process, answers the client
                            \* does not wait for and immediate retries, all together

ASSUME FlowAssumption ==
    /\ Payloads = {Group, Direct} /\ Group # Direct
    /\ {GroupSize, MaxSubmissions} \subseteq Nat \ {0}
    /\ {MaxSendRetries, MaxEvents} \subseteq Nat

VARIABLES members,    \* the alias stands for the chats 1 .. members; 0: it is not there
          submitted,  \* submissions so far; each is a session
          waiting,    \* the session whose answer the client waits for, or 0
          content,    \* the client has got 250
          session,    \* the sessions
          wCall,      \* the worker's relay: chats it is for, the one it is at, retries there
          now,
          events      \* what MaxEvents bounds, so far

\* History of the outside world; no action of the program reads it.
VARIABLES got,        \* copies a chat got of a unit of a recipient's mail
          repeats,    \* calls of the sender for it that sendWithRetry made again
          full,       \* relays that brought the mail to all their chats, by caller
          acked,      \* items whose Enqueue returned without an error
          sFailures,  \* relays of a session that returned an error
          wFailures,  \* relays of the worker that did
          timeouts,   \* answers the client did not wait for
          crashes     \* ends of the process

clientVars == <<submitted, waiting, content, timeouts>>
vars == <<storeVars, workerVars, members, events, clientVars, session, wCall, now, crashes,
          got, repeats, full, acked, sFailures, wFailures>>

Sessions == 1 .. MaxSubmissions

\* Parse with the aliases of the moment: the number of chats, 0 when it fails.
Parse(r) == IF r = Group THEN members ELSE 1

\* The recipients RCPT TO takes, in the client's order: the ones that parse.
Envelope == IF Parse(Group) > 0 THEN <<Group, Direct>> ELSE <<Direct>>

NewCall(chats) == [chats |-> chats, next |-> 1, attempt |-> 0]
NoCall == NewCall(0)
NewSession == [pc |-> "new", rcpts |-> <<>>, at |-> 1, call |-> NoCall, reply |-> "none"]

Init ==
    /\ NewFileStore
    /\ WorkerInit
    /\ members = GroupSize
    /\ submitted = 0 /\ waiting = 0 /\ content = FALSE /\ timeouts = 0
    /\ session = [s \in Sessions |-> NewSession]
    /\ wCall = NoCall
    /\ now = 0 /\ events = 0 /\ crashes = 0
    /\ got = [r \in Payloads |-> [c \in 1 .. GroupSize |-> 0]]
    /\ repeats = got
    /\ full = {} /\ acked = {}
    /\ sFailures = 0 /\ wFailures = 0

\* One more of the events that MaxEvents bounds.
Happens == events < MaxEvents /\ events' = events + 1

\* What a call of the sender may lead to: the next chat or the end of the relay, and
\* after an error the same call again or the failure of the relay.
Then(call, outcome) ==
    IF outcome = "ok" THEN {IF call.next < call.chats THEN "next" ELSE "done"}
    ELSE {"failed"} \union (IF call.attempt < MaxSendRetries THEN {"again"} ELSE {})

\* The sender returns; MAX has the unit unless the outcome is a plain error.
SenderReturns(r, call, outcome, then) ==
    /\ then \in Then(call, outcome)
    /\ got' = IF outcome = "err" THEN got ELSE [got EXCEPT ![r][call.next] = @ + 1]
    /\ \/ then = "again" /\ Happens /\ repeats' = [repeats EXCEPT ![r][call.next] = @ + 1]
       \/ then # "again" /\ UNCHANGED <<events, repeats>>

\* Where the relay is afterwards.
NextCall(call, then) ==
    CASE then = "again" -> [call EXCEPT !.attempt = @ + 1]
      [] then = "next"  -> [call EXCEPT !.next = @ + 1, !.attempt = 0]
      [] OTHER          -> NoCall
-----------------------------------------------------------------------------
\* The client submits the mail, again when it was refused, not answered in time or
\* cut off: RCPT TO for each recipient, which takes the ones that parse, and DATA.
Submit ==
    /\ waiting = 0 /\ ~content
    /\ submitted < MaxSubmissions
    /\ submitted' = submitted + 1
    /\ waiting' = submitted'
    /\ session' = [session EXCEPT ![submitted'] = [NewSession EXCEPT !.pc = "parse", !.rcpts = Envelope]]
    /\ UNCHANGED <<storeVars, workerVars, members, events, content, timeouts, wCall, now, crashes,
                   got, repeats, full, acked, sFailures, wFailures>>

\* The client gives up waiting.  The session does not notice: it only writes to the
\* connection at the end.
Timeout ==
    /\ waiting # 0 /\ Happens
    /\ waiting' = 0
    /\ timeouts' = timeouts + 1
    /\ UNCHANGED <<storeVars, workerVars, members, submitted, content, session, wCall, now,
                   crashes, got, repeats, full, acked, sFailures, wFailures>>

\* The operator changes, deletes or brings back the alias.
AliasChange(n) ==
    /\ Happens
    /\ n # members
    /\ members' = n
    /\ UNCHANGED <<storeVars, workerVars, clientVars, session, wCall, now, crashes,
                   got, repeats, full, acked, sFailures, wFailures>>
-----------------------------------------------------------------------------
\* Relay for the next recipient begins.  An address that no longer parses is an
\* error, and the mail does not get into the queue.
SessionParse(s) ==
    LET this == session[s]
        chats == Parse(this.rcpts[this.at])
    IN  /\ this.pc = "parse"
        /\ \/ /\ chats = 0
              /\ session' = [session EXCEPT ![s].pc = "answer", ![s].reply = "451"]
              /\ sFailures' = sFailures + 1
           \/ /\ chats > 0
              /\ session' = [session EXCEPT ![s].pc = "send", ![s].call = NewCall(chats)]
              /\ UNCHANGED sFailures
        /\ UNCHANGED <<storeVars, workerVars, members, events, clientVars, wCall, now, crashes,
                       got, repeats, full, acked, wFailures>>

\* A call of the sender by the session's relay came back.
SessionSend(s, outcome, then) ==
    LET this == session[s]
        r    == this.rcpts[this.at]
        on   == [this EXCEPT !.call = NextCall(this.call, then)]
    IN  /\ this.pc = "send"
        /\ SenderReturns(r, this.call, outcome, then)
        /\ session' = [session EXCEPT ![s] =
              CASE then \in {"again", "next"}                 -> on
                [] then = "failed"                            -> [on EXCEPT !.pc = "queue"]
                [] then = "done" /\ this.at < Len(this.rcpts) -> [on EXCEPT !.pc = "parse", !.at = @ + 1]
                [] OTHER                                      -> [on EXCEPT !.pc = "answer", !.reply = "250"]]
        /\ full' = IF then = "done" THEN full \union {<<s, r>>} ELSE full
        /\ UNCHANGED <<storeVars, workerVars, members, clientVars, wCall, now, crashes,
                       acked, sFailures, wFailures>>

\* The answer when a recipient has failed, forgotten.
AfterSuccessOnly == "250"

\* What the loop over rcpts answers after a failure.
AfterFailure == "451"

\* The failed relay leaves the mail in the queue, if that can be saved, and returns
\* its error, which ends the loop over rcpts.
SessionQueue(s, id, saved) ==
    LET this == session[s] IN
    /\ this.pc = "queue"
    /\ Enqueue(this.rcpts[this.at], id, now, saved)
    /\ acked' = IF saved THEN acked \union {id} ELSE acked
    /\ session' = [session EXCEPT ![s].pc = "answer", ![s].reply = AfterFailure]
    /\ sFailures' = sFailures + 1
    /\ UNCHANGED <<workerVars, members, events, clientVars, wCall, now, crashes,
                   got, repeats, full, wFailures>>

\* The session answers; the client hears it if it is still there.
SessionAnswer(s) ==
    /\ session[s].pc = "answer"
    /\ session' = [session EXCEPT ![s].pc = "answered", ![s].at = 1]
    /\ waiting' = IF waiting = s THEN 0 ELSE waiting
    /\ content' = (content \/ (waiting = s /\ session[s].reply = "250"))
    /\ UNCHANGED <<storeVars, workerVars, members, events, submitted, timeouts, wCall, now, crashes,
                   got, repeats, full, acked, sFailures, wFailures>>
-----------------------------------------------------------------------------
DoWorkerPick(batch, saved) ==
    /\ WorkerPick(batch, now, saved)
    /\ UNCHANGED <<members, events, clientVars, session, wCall, now, crashes, got, repeats, full, acked,
                   sFailures, wFailures>>

\* The worker's call of Relay ends.
WorkerReturns(outcome) ==
    /\ WorkerRelay(outcome)
    /\ wCall' = NoCall
    /\ wFailures' = IF outcome = "err" THEN wFailures + 1 ELSE wFailures

\* A retry reads the alias again: the mail goes to the chats of now.
WorkerParse ==
    LET chats == Parse(items[wBatch[1].id].payload) IN
    /\ wBatch # <<>> /\ wStep = "relay" /\ wCall = NoCall
    /\ \/ chats = 0 /\ WorkerReturns("err")
       \/ /\ chats > 0
          /\ wCall' = NewCall(chats)
          /\ UNCHANGED <<storeVars, workerVars, wFailures>>
    /\ UNCHANGED <<members, events, clientVars, session, now, crashes, got, repeats, full, acked, sFailures>>

\* A call of the sender by the worker's relay came back.  A retry of the item begins
\* with the first chat, also when only a later one had failed.
WorkerSend(outcome, then) ==
    LET id == wBatch[1].id
        r  == items[id].payload
    IN  /\ wBatch # <<>> /\ wStep = "relay" /\ wCall # NoCall
        /\ SenderReturns(r, wCall, outcome, then)
        /\ \/ /\ then \in {"again", "next"}
              /\ wCall' = NextCall(wCall, then)
              /\ UNCHANGED <<storeVars, workerVars, full, wFailures>>
           \/ /\ then = "done"
              /\ WorkerReturns("ok")
              /\ full' = full \union {<<id, r>>}
           \/ then = "failed" /\ WorkerReturns("err") /\ UNCHANGED full
        /\ UNCHANGED <<members, clientVars, session, now, crashes, acked, sFailures>>

DoWorkerMark(jitter, saved) ==
    /\ WorkerMark(now, jitter, saved)
    /\ UNCHANGED <<members, events, clientVars, session, wCall, now, crashes, got, repeats, full, acked,
                   sFailures, wFailures>>
-----------------------------------------------------------------------------
\* The process ends at any point, with its connections, and is started again.
Restart ==
    /\ Happens
    /\ crashes' = crashes + 1
    /\ load
    /\ wBatch' = <<>> /\ wStep' = "relay" /\ wCall' = NoCall
    /\ session' = [s \in Sessions |->
                     IF session[s].pc \in {"parse", "send", "queue", "answer"}
                     THEN [NewSession EXCEPT !.pc = "broken"] ELSE session[s]]
    /\ waiting' = 0
    /\ UNCHANGED <<members, submitted, content, timeouts, now, got, repeats, full, acked,
                   sFailures, wFailures>>

\* Time passes.  It matters only while some item waits for its retry time.
Tick ==
    /\ \E id \in DOMAIN items : items[id].status = "pending" /\ items[id].nextRetryAt > now
    /\ now' = now + 1
    /\ UNCHANGED <<storeVars, workerVars, members, events, clientVars, session, wCall, crashes,
                   got, repeats, full, acked, sFailures, wFailures>>

Outcomes == {"ok", "err", "unknown"}
Ends == {"again", "next", "done", "failed"}

Next ==
    \/ Submit
    \/ Timeout
    \/ \E n \in 0 .. GroupSize : AliasChange(n)
    \/ \E s \in Sessions : SessionParse(s)
    \/ \E s \in Sessions, outcome \in Outcomes, then \in Ends : SessionSend(s, outcome, then)
    \/ \E s \in Sessions, id \in Ids, saved \in BOOLEAN : SessionQueue(s, id, saved)
    \/ \E s \in Sessions : SessionAnswer(s)
    \/ \E batch \in DueBatches(BatchSize, now), saved \in BOOLEAN : DoWorkerPick(batch, saved)
    \/ WorkerParse
    \/ \E outcome \in Outcomes, then \in Ends : WorkerSend(outcome, then)
    \/ \E jitter \in 0 .. Jitter - 1, saved \in BOOLEAN : DoWorkerMark(jitter, saved)
    \/ Restart
    \/ Tick

Spec == Init /\ [][Next]_vars
-----------------------------------------------------------------------------
\* Nobody says the mail arrived when it has not.  250 means that this very session
\* brought it to every chat its recipients stood for, and an item is done only when
\* some relay of that item did so; what the queue has accepted is still there after
\* any restart.  The aliases may change and the client may come back at any point.
Responsible ==
    /\ \A s \in Sessions : session[s].reply = "250" => \A r \in ToSet(session[s].rcpts) : <<s, r>> \in full
    /\ \A m \in {items, disk} : \A id \in DOMAIN m :
          m[id].status = "done" => <<id, m[id].payload>> \in full
    /\ acked \subseteq DOMAIN disk

\* No chat gets a copy too many without a cause.  Each call of the sender that
\* sendWithRetry makes again in that chat costs one more at most.  A relay of a
\* session that fails costs two, since the client comes back and the queue retries as
\* well; a failed relay of the worker and an answer the client did not wait for cost
\* one, and the end of the process two.  A change that could not be saved costs
\* nothing by itself.
CopiesAccounted ==
    \A r \in Payloads, c \in 1 .. GroupSize :
        got[r][c] <= 1 + repeats[r][c] + 2 * sFailures + wFailures + timeouts + 2 * crashes
=============================================================================
