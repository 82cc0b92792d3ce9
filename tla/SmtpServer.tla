----------------------------- MODULE SmtpServer ------------------------------
(***************************************************************************)
(* The SMTP server, internal/smtp/server.go: the accept loop with its limit *)
(* on concurrent sessions, the session's commands, and the shutdown, which  *)
(* closes the listener and waits for the sessions that are still running.   *)
(*                                                                          *)
(* A command line is one step; DATA goes on with one step per recipient,    *)
(* because Relay takes time and sessions interleave there.  HELO, EHLO,     *)
(* AUTH PLAIN, NOOP and unknown commands change nothing but the line count. *)
(* When a body is too large, readData stops in the middle of it and the     *)
(* rest of the body is read as command lines: any lines may follow a 552.   *)
(***************************************************************************)
EXTENDS Integers, Sequences, FiniteSets

CONSTANTS Conns,          \* connections clients make
          MaxSessions,    \* SMTP_MAX_CONCURRENT_SESSIONS
          Addrs,          \* recipient addresses clients name
          LocalAddrs,     \* those of the allowed domain
          MaxRcpts,       \* bound: recipients of a mail
          MaxLines        \* bound: command lines of a session

ASSUME SmtpAssumption ==
    /\ MaxSessions \in Nat \ {0}
    /\ LocalAddrs \subseteq Addrs
    /\ MaxRcpts \in Nat \ {0}
    /\ MaxLines \in Nat

VARIABLES loop,      \* the accept loop
          held,      \* the connection it accepted and has no slot for yet
          listening, \* the listener is open
          ctxDone,   \* the process was asked to stop
          slots,     \* slots of the concurrency channel taken
          session    \* one record per connection

vars == <<loop, held, listening, ctxDone, slots, session>>

Running == {c \in Conns : session[c].pc \in {"cmd", "relay"}}

\* rcpts is the variable of handleConn.  envelope and relayed are history: the
\* recipients of the last DATA and those the mail was relayed to.
NewSession == [pc |-> "new", rcpts |-> <<>>, lines |-> 0,
               envelope |-> <<>>, relayed |-> <<>>, reply |-> "none"]

\* What is left of a connection when handleConn has returned: its variables are gone.
ClosedSession == [NewSession EXCEPT !.pc = "closed"]

NewServer ==
    /\ loop = "accept"
    /\ held = {}
    /\ listening = TRUE
    /\ ctxDone = FALSE
    /\ slots = 0
    /\ session = [c \in Conns |-> NewSession]
-----------------------------------------------------------------------------
\* ListenAndServe

Accept(c) ==
    /\ loop = "accept"
    /\ listening
    /\ session[c].pc = "new" /\ c \notin held
    /\ held' = {c}
    /\ loop' = "acquire"
    /\ UNCHANGED <<listening, ctxDone, slots, session>>

\* s.concurrency <- struct{}{} blocks the loop until a slot is free, also while
\* the process is stopping.
Acquire ==
    /\ loop = "acquire"
    /\ slots < MaxSessions
    /\ slots' = slots + 1
    /\ session' = [c \in Conns |-> IF c \in held THEN [session[c] EXCEPT !.pc = "cmd"] ELSE session[c]]
    /\ held' = {}
    /\ loop' = "accept"
    /\ UNCHANGED <<listening, ctxDone>>

\* Accept returns an error for good: the listener is closed, or it broke.  A
\* temporary error only repeats the Accept.
AcceptFails ==
    /\ loop = "accept"
    /\ loop' = "drain"
    /\ UNCHANGED <<held, listening, ctxDone, slots, session>>

\* The deferred wg.Wait returned; the deferred ln.Close comes after it.
Drained ==
    /\ loop = "drain"
    /\ Running = {}
    /\ loop' = "stopped"
    /\ listening' = FALSE
    /\ UNCHANGED <<held, ctxDone, slots, session>>

\* SIGINT or SIGTERM.  Sessions are not told.
Shutdown ==
    /\ ~ctxDone
    /\ ctxDone' = TRUE
    /\ UNCHANGED <<loop, held, listening, slots, session>>

\* A shutdown that leaves the listener open.
KeepListening ==
    /\ ctxDone
    /\ listening
    /\ UNCHANGED vars

\* The goroutine that waits for the context.
CloseListener ==
    /\ ctxDone
    /\ listening
    /\ listening' = FALSE
    /\ UNCHANGED <<loop, held, ctxDone, slots, session>>
-----------------------------------------------------------------------------
\* handleConn: s is what the session looks like after the command.

Line(c, s) ==
    /\ session[c].pc = "cmd"
    /\ session[c].lines < MaxLines
    /\ session' = [session EXCEPT ![c] = [s EXCEPT !.lines = @ + 1]]
    /\ UNCHANGED <<loop, held, listening, ctxDone, slots>>

OtherCommand(c) == Line(c, session[c])

\* MAIL FROM and RSET.
Reset(c) == Line(c, [session[c] EXCEPT !.rcpts = <<>>])

\* A check of the domain that is left out.
AnyRecipient(addr) == TRUE

isAllowedRecipient(addr) == addr \in LocalAddrs

\* RCPT TO.  Whether the address parses depends on the aliases of the moment.
RcptTo(c, addr, parses) ==
    /\ Len(session[c].rcpts) < MaxRcpts
    /\ Line(c, IF isAllowedRecipient(addr) /\ parses
               THEN [session[c] EXCEPT !.rcpts = Append(@, addr)]
               ELSE session[c])

\* Whether readData came to the end of the body, or gave up before it: the body is
\* too large, or the connection broke.
readData == BOOLEAN

\* DATA.  The recipients stay for a further DATA.
Data(c, complete) ==
    \/ session[c].rcpts = <<>> /\ complete /\ Line(c, [session[c] EXCEPT !.reply = "503"])
    \/ session[c].rcpts # <<>> /\ ~complete /\ Line(c, [session[c] EXCEPT !.reply = "552"])
    \/ /\ session[c].rcpts # <<>> /\ complete
       /\ Line(c, [session[c] EXCEPT !.pc = "relay", !.reply = "none",
                                     !.envelope = session[c].rcpts, !.relayed = <<>>])

\* A loop that goes on after a failure and forgets it.
AfterRelayIgnoring(s, ok) ==
    LET done == IF ok THEN Append(s.relayed, s.envelope[Len(s.relayed) + 1]) ELSE s.relayed
    IN  [s EXCEPT !.relayed = done, !.pc = "cmd", !.reply = "250"]

\* The loop over rcpts ends at the first failure.
AfterRelay(s, ok) ==
    LET done == Append(s.relayed, s.envelope[Len(s.relayed) + 1])
    IN  IF ~ok THEN [s EXCEPT !.pc = "cmd", !.reply = "451"]
        ELSE IF done = s.envelope THEN [s EXCEPT !.relayed = done, !.pc = "cmd", !.reply = "250"]
        ELSE [s EXCEPT !.relayed = done]

\* relaySvc.Relay for the next recipient returned.
RelayOne(c, ok) ==
    /\ session[c].pc = "relay"
    /\ session' = [session EXCEPT ![c] = AfterRelay(session[c], ok)]
    /\ UNCHANGED <<loop, held, listening, ctxDone, slots>>

\* A session that gives its slot back twice.
CloseTwice(c) ==
    /\ session[c].pc = "cmd"
    /\ session' = [session EXCEPT ![c] = ClosedSession]
    /\ slots' = slots - 2
    /\ UNCHANGED <<loop, held, listening, ctxDone>>

\* A session that ends without giving its slot back.
CloseKeepingSlot(c) ==
    /\ session[c].pc = "cmd"
    /\ session' = [session EXCEPT ![c] = ClosedSession]
    /\ UNCHANGED <<loop, held, listening, ctxDone, slots>>

\* QUIT, end of input, read error or no line within five minutes; the deferred
\* calls close the connection and free the slot.
Close(c) ==
    /\ session[c].pc = "cmd"
    /\ session' = [session EXCEPT ![c] = ClosedSession]
    /\ slots' = slots - 1
    /\ UNCHANGED <<loop, held, listening, ctxDone>>

SessionStep(c) ==
    \/ OtherCommand(c)
    \/ Reset(c)
    \/ \E addr \in Addrs, parses \in BOOLEAN : RcptTo(c, addr, parses)
    \/ \E complete \in readData : Data(c, complete)
    \/ \E ok \in BOOLEAN : RelayOne(c, ok)
    \/ Close(c)

LoopStep == Acquire \/ AcceptFails \/ Drained

Next ==
    \/ \E c \in Conns : Accept(c) \/ SessionStep(c)
    \/ LoopStep
    \/ Shutdown
    \/ CloseListener
    \/ loop = "stopped" /\ UNCHANGED vars

Spec == NewServer /\ [][Next]_vars

\* The loop and the closing goroutine run; a session reads its next line, or its
\* deadline of five minutes passes; sends have a timeout.  Clients stop talking in
\* the end (MaxLines), which the server does not enforce.  Once the listener is
\* closed Accept fails; before that nothing makes it fail.
FairSpec ==
    /\ Spec
    /\ WF_vars(CloseListener)
    /\ WF_vars(Acquire) /\ WF_vars(Drained) /\ WF_vars(~listening /\ AcceptFails)
    /\ \A c \in Conns : WF_vars(SessionStep(c))
-----------------------------------------------------------------------------
\* Every variable has its type.
TypeOK ==
    /\ loop \in {"accept", "acquire", "drain", "stopped"}
    /\ held \subseteq Conns
    /\ listening \in BOOLEAN
    /\ ctxDone \in BOOLEAN
    /\ slots \in Nat
    /\ session \in [Conns ->
          [pc : {"new", "cmd", "relay", "closed"}, rcpts : Seq(Addrs), lines : Nat,
           envelope : Seq(Addrs), relayed : Seq(Addrs), reply : {"none", "250", "451", "503", "552"}]]

\* No more sessions run than configured, and a slot is taken exactly as long as a
\* session runs: none leaks, whatever way a session ends.
SlotsExact == slots = Cardinality(Running) /\ slots <= MaxSessions

\* The answer to DATA is true: 250 only when the mail was relayed to every
\* recipient accepted for it, 451 only when the relay to one of them failed, and
\* nobody gets it out of turn.
ReplyHonest ==
    \A c \in Conns :
        LET s == session[c]
        IN  /\ s.relayed = SubSeq(s.envelope, 1, Len(s.relayed))
            /\ s.reply = "250" => s.relayed = s.envelope /\ s.envelope # <<>>
            /\ s.reply = "451" => Len(s.relayed) < Len(s.envelope)

\* Mail is never relayed for an address outside the allowed domain, whatever
\* commands a session makes of the rest of a body.
LocalOnly == \A c \in Conns : \A i \in DOMAIN session[c].relayed : session[c].relayed[i] \in LocalAddrs

\* Once asked to stop, the server stops when its clients have ended their
\* sessions, also when the loop was waiting for a slot.
Stops == ctxDone ~> loop = "stopped"
=============================================================================
