------------------------------- MODULE BotLoop -------------------------------
(***************************************************************************)
(* The bot: RunBotLoopWithUsername and the handling of one update           *)
(* (internal/max/bot_runtime.go) over the client's update poller            *)
(* (third_party/max-bot-api-client-go/api.go), which fetches pages of       *)
(* updates from MAX and hands them to the loop through a buffered channel.  *)
(*                                                                          *)
(* MAX keeps the updates of a chat in order; a request with a marker        *)
(* acknowledges what comes before it, and one without a marker gets what    *)
(* was not acknowledged yet.  The marker lives in the poller: a restart     *)
(* begins without one.  An answer may get lost after MAX saw the request.   *)
(* Assumed of MAX, since the poller takes the marker of any answer as it    *)
(* is: an answer with updates has a marker, that of its last update.        *)
(*                                                                          *)
(* Of the operator's commands the ones modelled here are those that need a  *)
(* confirmation; the alias commands are in AliasTable.  "plain" stands for  *)
(* a message without effect on the bot's state: of a bot, of a stranger, or *)
(* no command.  "other" is what the poller drops: an update of another      *)
(* type, or one that cannot be decoded.                                     *)
(***************************************************************************)
EXTENDS AdminConfirm, Sequences

CONSTANTS PageLimit,      \* updates per page (100)
          ChanCap,        \* buffer of the channel (100)
          MaxUpdates,     \* bound: messages people write
          MaxTime,        \* bound: the clock
          MaxFaults       \* bound: failed polls and ends of the process

ASSUME BotAssumption ==
    /\ PageLimit \in Nat \ {0}
    /\ ChanCap \in Nat \ {0}
    /\ {MaxUpdates, MaxTime, MaxFaults} \subseteq Nat

VARIABLES log,        \* MAX: every update, in order
          committed,  \* MAX: updates up to here are acknowledged
          poller,     \* polling, pushing a page, leaving (updatesCh is nil), or exited (channel closed)
          marker,     \* the poller's marker; NoMarker is nil
          page,       \* updates of the last page it has still to push
          channel,    \* updates pushed and not taken
          loop,       \* the loop: at its GetUpdates, in its select, or returned
          spare,      \* the poller a later GetUpdates started: none, started, or closed
          ctxDone,    \* the process was asked to stop
          faults,     \* failed polls and ends of the process so far
          start,      \* history: the position this process started from
          handled     \* history: positions of the updates this process handled

serverVars == <<log, committed>>
pollerVars == <<poller, marker, page>>
loopVars   == <<loop, spare>>
vars == <<confirmVars, now, serverVars, pollerVars, channel, loopVars, ctxDone,
          faults, start, handled>>

NoMarker == -1

Fresh ==
    /\ poller = "poll" /\ marker = NoMarker /\ page = <<>>
    /\ channel = <<>>
    /\ loop = "get" /\ spare = "none"

Init ==
    /\ ConfirmInit
    /\ log = <<>> /\ committed = 0
    /\ Fresh
    /\ ctxDone = FALSE
    /\ faults = 0
    /\ start = 0 /\ handled = <<>>
-----------------------------------------------------------------------------
\* Somebody writes a message.  The operator confirms tokens of the bot's replies,
\* late or more than once.
Post(update) ==
    /\ Len(log) < MaxUpdates
    /\ update.kind = "confirm" => update.token \in DOMAIN asked
    /\ log' = Append(log, update)
    /\ UNCHANGED <<confirmVars, now, committed, pollerVars, channel, loopVars, ctxDone,
                   faults, start, handled>>

\* Where MAX continues for the marker of the request.
From == IF marker = NoMarker THEN committed ELSE marker

\* The positions from + 1 .. to that decodeUpdate makes something of.
Decoded(from, to) == {i \in from + 1 .. to : log[i].kind # "other"}

\* s has the positions of a set, in their order.
Enumerates(s, positions) ==
    /\ {s[i] : i \in DOMAIN s} = positions
    /\ \A i, j \in DOMAIN s : i < j => s[i] < s[j]

\* getUpdatesPage returned a page, an empty one when the wait was over.  The marker
\* of the answer is taken as it is; MAX may leave it out when there was nothing.
Poll ==
    /\ poller = "poll" /\ ~ctxDone
    /\ LET to == IF From + PageLimit < Len(log) THEN From + PageLimit ELSE Len(log)
           new == Decoded(From, to)
       IN  /\ page' \in {s \in [1 .. Cardinality(new) -> new] : Enumerates(s, new)}
           /\ \/ marker' = to
              \/ to = From /\ marker' = NoMarker
    /\ committed' = From
    /\ poller' = IF page' = <<>> THEN "poll" ELSE "push"
    /\ UNCHANGED <<confirmVars, now, log, channel, loopVars, ctxDone,
                   faults, start, handled>>

\* A poller that ends with the first error.
PollFailsForGood ==
    /\ poller = "poll" /\ ~ctxDone
    /\ faults < MaxFaults
    /\ faults' = faults + 1
    /\ poller' = "leaving"
    /\ committed' \in {committed, From}
    /\ UNCHANGED <<confirmVars, now, log, marker, page, channel, loopVars, ctxDone,
                   start, handled>>

\* getUpdatesPage failed, before or after MAX saw the request; after a pause the
\* poller tries again with the marker it has.
PollFails ==
    /\ poller = "poll" /\ ~ctxDone
    /\ faults < MaxFaults
    /\ faults' = faults + 1
    /\ committed' \in {committed, From}
    /\ UNCHANGED <<confirmVars, now, log, pollerVars, channel, loopVars, ctxDone,
                   start, handled>>

\* An update that does not fit is dropped.
PushOrDrop ==
    /\ poller = "push"
    /\ channel' = IF Len(channel) < ChanCap THEN Append(channel, Head(page)) ELSE channel
    /\ page' = Tail(page)
    /\ poller' = IF page' = <<>> THEN "poll" ELSE "push"
    /\ UNCHANGED <<confirmVars, now, serverVars, marker, loopVars, ctxDone,
                   faults, start, handled>>

\* ch <- upd, which waits while the buffer is full.
Push ==
    /\ poller = "push"
    /\ Len(channel) < ChanCap
    /\ channel' = Append(channel, Head(page))
    /\ page' = Tail(page)
    /\ poller' = IF page' = <<>> THEN "poll" ELSE "push"
    /\ UNCHANGED <<confirmVars, now, serverVars, marker, loopVars, ctxDone,
                   faults, start, handled>>

\* A poller that looks for the end of the context only between its requests.
LeavesBetweenPolls ==
    /\ ctxDone /\ poller = "poll"
    /\ poller' = "leaving"
    /\ UNCHANGED <<confirmVars, now, serverVars, marker, page, channel, loopVars, ctxDone,
                   faults, start, handled>>

\* The poller sees the end of the context wherever it waits, and forgets its channel.
PollerLeaves ==
    /\ ctxDone /\ poller \in {"poll", "push"}
    /\ poller' = "leaving"
    /\ UNCHANGED <<confirmVars, now, serverVars, marker, page, channel, loopVars, ctxDone,
                   faults, start, handled>>

\* Then it closes the channel.
PollerExits ==
    /\ poller = "leaving"
    /\ poller' = "exited"
    /\ UNCHANGED <<confirmVars, now, serverVars, marker, page, channel, loopVars, ctxDone,
                   faults, start, handled>>

\* The poller that GetUpdates started too late: the context has ended, so it does
\* not poll, and closes its own channel, which nothing was sent to.
SpareExits ==
    /\ ctxDone /\ spare = "started"
    /\ spare' = "closed"
    /\ UNCHANGED <<confirmVars, now, serverVars, pollerVars, channel, loop, ctxDone,
                   faults, start, handled>>
-----------------------------------------------------------------------------
\* The loop asks for the channel before every select.  Once the poller has forgotten
\* its channel there is another one, with a poller of its own.
GetUpdates ==
    /\ loop = "get"
    /\ loop' = "select"
    /\ spare' = IF poller \in {"leaving", "exited"} THEN "started" ELSE spare
    /\ UNCHANGED <<confirmVars, now, serverVars, pollerVars, channel, ctxDone,
                   faults, start, handled>>

\* handleMessageCreatedUpdate.  A reply that cannot be sent is only logged: its token
\* is one that nobody confirms.
handleBotUpdate(i) ==
    \/ log[i].kind = "replay" /\ registerConfirm(i)
    \/ log[i].kind = "confirm" /\ consumeConfirm(log[i].token)
    \/ log[i].kind = "plain" /\ UNCHANGED confirmVars

\* The loop takes the next update and handles it to the end.  It may do so after
\* the end of the context, when both are ready.
Handle ==
    /\ loop = "select" /\ spare = "none"
    /\ channel # <<>>
    /\ channel' = Tail(channel)
    /\ handleBotUpdate(Head(channel))
    /\ handled' = Append(handled, Head(channel))
    /\ loop' = "get"
    /\ UNCHANGED <<now, serverVars, pollerVars, spare, ctxDone, faults, start>>

\* The channel the loop has got is closed and empty.
Closed == IF spare = "none" THEN poller = "exited" /\ channel = <<>> ELSE spare = "closed"

Return ==
    /\ loop = "select"
    /\ ctxDone \/ Closed
    /\ loop' = "returned"
    /\ UNCHANGED <<confirmVars, now, serverVars, pollerVars, channel, spare, ctxDone,
                   faults, start, handled>>

\* SIGINT or SIGTERM.
Shutdown ==
    /\ ~ctxDone
    /\ ctxDone' = TRUE
    /\ UNCHANGED <<confirmVars, now, serverVars, pollerVars, channel, loopVars,
                   faults, start, handled>>

\* The process ends, at any point, and another one starts.
Restart ==
    /\ faults < MaxFaults
    /\ faults' = faults + 1
    /\ ConfirmsForgotten
    /\ poller' = "poll" /\ marker' = NoMarker /\ page' = <<>> /\ channel' = <<>>
    /\ loop' = "get" /\ spare' = "none" /\ ctxDone' = FALSE
    /\ start' = committed /\ handled' = <<>>
    /\ UNCHANGED <<now, serverVars>>

Tick ==
    /\ now < MaxTime
    /\ now' = now + 1
    /\ UNCHANGED <<confirmVars, serverVars, pollerVars, channel, loopVars, ctxDone,
                   faults, start, handled>>

PollerStops == PollerLeaves \/ PollerExits
LoopStep == GetUpdates \/ Handle \/ Return

Next ==
    \/ \E kind \in {"replay", "plain", "other"} : Post([kind |-> kind, token |-> 0])
    \/ \E token \in DOMAIN asked : Post([kind |-> "confirm", token |-> token])
    \/ Poll
    \/ PollFails
    \/ Push
    \/ PollerStops
    \/ LoopStep
    \/ SpareExits
    \/ Shutdown
    \/ Restart
    \/ Tick

Spec == Init /\ [][Next]_vars

\* Poller and loop are goroutines that run; MAX answers a poll (failures are
\* bounded), and a handler ends, because its relays and its reply have timeouts.
FairSpec ==
    /\ Spec
    /\ WF_vars(Poll) /\ WF_vars(Push) /\ WF_vars(PollerStops) /\ WF_vars(SpareExits)
    /\ WF_vars(LoopStep)
-----------------------------------------------------------------------------
\* Nothing is lost, repeated or reordered on the way from MAX to the handler,
\* whatever polls fail and however full the channel is: what the loop handled, what
\* is in the channel and what the poller holds are together exactly the updates
\* from where this process started to where its next poll continues.
Pipeline == Enumerates(handled \o channel \o page, Decoded(start, From))

\* Every message is handled, whatever polls fail, unless the process is told to stop
\* or ends after MAX counted the message as received.
Handled == []<>(ctxDone \/ Enumerates(handled, Decoded(start, Len(log))))

\* Told to stop, the bot does: the loop returns, whatever it was at, and so does every
\* poller, the one with a page in its hands that nobody takes any more, and the one
\* that a call of GetUpdates started because the first was already leaving.
BotStops ==
    ctxDone ~> (~ctxDone \/ (loop = "returned" /\ poller = "exited" /\ spare # "started"))
=============================================================================
