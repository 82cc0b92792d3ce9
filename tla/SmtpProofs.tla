----------------------------- MODULE SmtpProofs ------------------------------
(***************************************************************************)
(* The SMTP server for any number of connections, any limit on concurrent   *)
(* sessions and any addresses: its slots, its answers and the recipients    *)
(* its mail goes to.                                                        *)
(***************************************************************************)
EXTENDS SmtpServer, FiniteSetTheorems, SequenceTheorems, TLAPS

\* What a session record is, as TypeOK has it.
Sessions ==
    [pc : {"new", "cmd", "relay", "closed"}, rcpts : Seq(Addrs), lines : Nat,
     envelope : Seq(Addrs), relayed : Seq(Addrs), reply : {"none", "250", "451", "503", "552"}]

\* p is the beginning of q, element by element.
Begins(p, q) == Len(p) <= Len(q) /\ \A i \in 1 .. Len(p) : p[i] = q[i]

\* All elements of a list of addresses are local.
AllLocal(q) == \A i \in 1 .. Len(q) : q[i] \in LocalAddrs

\* What handleConn keeps true of a session: every address it holds passed the check
\* of RCPT TO, the mail went to a beginning of the envelope, a relay in progress has
\* a recipient left, and the last reply fits how far it came.
GoodSession(s) ==
    /\ AllLocal(s.rcpts)
    /\ AllLocal(s.envelope)
    /\ Begins(s.relayed, s.envelope)
    /\ s.pc = "relay" => s.reply = "none" /\ Len(s.relayed) < Len(s.envelope)
    /\ s.reply = "250" => s.relayed = s.envelope /\ s.envelope # <<>>
    /\ s.reply = "451" => Len(s.relayed) < Len(s.envelope)

SessionsGood == \A c \in Conns : GoodSession(session[c])
-----------------------------------------------------------------------------
\* The steps of one session, on its record.

\* The empty list.
LEMMA EmptyList ==
    /\ <<>> \in Seq(Addrs)
    /\ AllLocal(<<>>)
    /\ \A q \in Seq(Addrs) : Begins(<<>>, q)
<1>1. <<>> \in Seq(Addrs) /\ Len(<<>>) = 0
  OBVIOUS
<1>2. \A q \in Seq(Addrs) : Len(q) >= 0
  OBVIOUS
<1> QED
  BY <1>1, <1>2 DEF AllLocal, Begins

\* A fresh session and a closed one are good.
LEMMA FreshGood ==
    /\ NewSession \in Sessions /\ GoodSession(NewSession)
    /\ ClosedSession \in Sessions /\ GoodSession(ClosedSession)
<1>1. PICK e : e = <<>> /\ e \in Seq(Addrs) /\ Len(e) = 0
  BY EmptySeq
<1>2. NewSession = [pc |-> "new", rcpts |-> e, lines |-> 0, envelope |-> e, relayed |-> e, reply |-> "none"]
  BY <1>1 DEF NewSession
<1>3. NewSession \in Sessions /\ GoodSession(NewSession)
  BY <1>1, <1>2 DEF Sessions, GoodSession, AllLocal, Begins
<1> QED
  BY <1>3 DEF ClosedSession, Sessions, GoodSession

\* Counting a line disturbs nothing else.
LEMMA CountedGood ==
    ASSUME NEW s \in Sessions, GoodSession(s)
    PROVE  [s EXCEPT !.lines = @ + 1] \in Sessions /\ GoodSession([s EXCEPT !.lines = @ + 1])
BY DEF Sessions, GoodSession, AllLocal, Begins

\* RSET and MAIL FROM forget the recipients, not what was relayed.
LEMMA ResetGood ==
    ASSUME NEW s \in Sessions, GoodSession(s)
    PROVE  /\ [s EXCEPT !.rcpts = <<>>] \in Sessions
           /\ GoodSession([s EXCEPT !.rcpts = <<>>])
<1>1. PICK e : e = <<>> /\ e \in Seq(Addrs) /\ Len(e) = 0
  BY EmptySeq
<1>2. [s EXCEPT !.rcpts = e] \in Sessions /\ GoodSession([s EXCEPT !.rcpts = e])
  <2>1. e \in Seq(Addrs) /\ AllLocal(e)
    BY <1>1, EmptyList
  <2> QED
    BY <2>1 DEF Sessions, GoodSession
<1> QED
  BY <1>1, <1>2

\* RCPT TO lets only a local address through.
LEMMA RcptGood ==
    ASSUME NEW s \in Sessions, GoodSession(s), NEW addr \in Addrs, isAllowedRecipient(addr)
    PROVE  /\ [s EXCEPT !.rcpts = Append(@, addr)] \in Sessions
           /\ GoodSession([s EXCEPT !.rcpts = Append(@, addr)])
<1> DEFINE q == Append(s.rcpts, addr)
<1>1. s.rcpts \in Seq(Addrs)
  BY DEF Sessions
<1>2. q \in Seq(Addrs) /\ Len(q) = Len(s.rcpts) + 1
  BY <1>1
<1>3. AllLocal(q)
  BY <1>1 DEF AllLocal, GoodSession, isAllowedRecipient
<1> HIDE DEF q
<1>4. [s EXCEPT !.rcpts = q] \in Sessions /\ GoodSession([s EXCEPT !.rcpts = q])
  BY <1>2, <1>3 DEF Sessions, GoodSession
<1> QED
  BY <1>4 DEF q

\* A DATA that is refused only changes the reply.
LEMMA RefusedGood ==
    ASSUME NEW s \in Sessions, GoodSession(s), s.pc = "cmd", NEW r \in {"503", "552"}
    PROVE  [s EXCEPT !.reply = r] \in Sessions /\ GoodSession([s EXCEPT !.reply = r])
BY DEF Sessions, GoodSession

\* A DATA that is taken starts a relay to recipients it has.
LEMMA DataGood ==
    ASSUME NEW s \in Sessions, GoodSession(s), s.rcpts # <<>>
    PROVE  LET t == [s EXCEPT !.pc = "relay", !.reply = "none",
                              !.envelope = s.rcpts, !.relayed = <<>>]
           IN  t \in Sessions /\ GoodSession(t)
<1>1. s.rcpts \in Seq(Addrs) /\ Len(s.rcpts) > 0
  BY EmptySeq DEF Sessions
<1>2. PICK e : e = <<>> /\ e \in Seq(Addrs) /\ Len(e) = 0
  BY EmptySeq
<1> DEFINE u == [s EXCEPT !.pc = "relay", !.reply = "none", !.envelope = s.rcpts, !.relayed = e]
<1>3. u \in Sessions /\ GoodSession(u)
  <2>1. e \in Seq(Addrs) /\ Begins(e, s.rcpts) /\ Len(e) < Len(s.rcpts)
    BY <1>1, <1>2, EmptyList
  <2> QED
    BY <1>1, <2>1 DEF Sessions, GoodSession
<1> QED
  BY <1>2, <1>3

\* A Relay that returned moves the session on to its next recipient, or ends it
\* with the reply that fits.
LEMMA RelayGood ==
    ASSUME NEW s \in Sessions, GoodSession(s), s.pc = "relay", NEW ok \in BOOLEAN
    PROVE  AfterRelay(s, ok) \in Sessions /\ GoodSession(AfterRelay(s, ok))
<1> DEFINE next == s.envelope[Len(s.relayed) + 1]
           done == Append(s.relayed, next)
<1>1. s.relayed \in Seq(Addrs) /\ s.envelope \in Seq(Addrs) /\ Len(s.relayed) < Len(s.envelope)
  BY DEF Sessions, GoodSession
<1>2. next \in Addrs
  BY <1>1
<1>3. done \in Seq(Addrs) /\ Len(done) = Len(s.relayed) + 1 /\ done # <<>>
  BY <1>1, <1>2
<1>4. Begins(done, s.envelope)
  <2>1. \A i \in 1 .. Len(s.relayed) : done[i] = s.relayed[i] /\ s.relayed[i] = s.envelope[i]
    BY <1>1, <1>2 DEF GoodSession, Begins
  <2>2. done[Len(s.relayed) + 1] = next
    BY <1>1, <1>2
  <2> QED
    BY <2>1, <2>2, <1>1, <1>3 DEF Begins
<1>5. done # s.envelope => Len(done) < Len(s.envelope)
  BY <1>1, <1>3, <1>4, SeqEqual DEF Begins
<1> HIDE DEF done, next
<1>6. CASE ~ok
  <2>1. AfterRelay(s, ok) = [s EXCEPT !.pc = "cmd", !.reply = "451"]
    BY <1>6 DEF AfterRelay
  <2> QED
    BY <2>1, <1>1 DEF Sessions, GoodSession
<1>7. CASE ok /\ done = s.envelope
  <2>1. AfterRelay(s, ok) = [s EXCEPT !.relayed = done, !.pc = "cmd", !.reply = "250"]
    BY <1>7 DEF AfterRelay, done, next
  <2> QED
    BY <2>1, <1>7, <1>3, <1>4 DEF Sessions, GoodSession
<1>8. CASE ok /\ done # s.envelope
  <2>1. AfterRelay(s, ok) = [s EXCEPT !.relayed = done]
    BY <1>8 DEF AfterRelay, done, next
  <2> QED
    BY <2>1, <1>8, <1>3, <1>4, <1>5 DEF Sessions, GoodSession
<1> QED
  BY <1>6, <1>7, <1>8
-----------------------------------------------------------------------------
\* Every step of a session replaces its record by a good one.  The session goes on
\* with its slot, or it ends and gives the slot back.
SessionMove(c, t) ==
    /\ t \in Sessions /\ GoodSession(t)
    /\ session' = [session EXCEPT ![c] = t]
    /\ session[c].pc \in {"cmd", "relay"}
    /\ UNCHANGED <<loop, held, listening, ctxDone>>
    /\ \/ t.pc \in {"cmd", "relay"} /\ UNCHANGED slots
       \/ t.pc = "closed" /\ slots' = slots - 1

\* A command line whose session is good before the line is counted is such a step.
LEMMA LineMoves ==
    ASSUME NEW c \in Conns, NEW s \in Sessions, GoodSession(s), s.pc \in {"cmd", "relay"}, Line(c, s)
    PROVE  \E t : SessionMove(c, t)
<1> DEFINE t == [s EXCEPT !.lines = @ + 1]
<1>1. t \in Sessions /\ GoodSession(t)
  BY CountedGood
<1>2. t.pc = s.pc
  BY DEF Sessions
<1>3. /\ session' = [session EXCEPT ![c] = t]
      /\ session[c].pc = "cmd"
      /\ UNCHANGED <<loop, held, listening, ctxDone, slots>>
  BY DEF Line
<1> HIDE DEF t
<1>4. SessionMove(c, t)
  BY <1>1, <1>2, <1>3 DEF SessionMove
<1> QED
  BY <1>4

\* Every command, every Relay that returns and every end of a session is one.
LEMMA SessionStepMoves ==
    ASSUME TypeOK, SessionsGood, NEW c \in Conns, SessionStep(c)
    PROVE  \E t : SessionMove(c, t)
<1> DEFINE s == session[c]
<1>0. s \in Sessions /\ GoodSession(s)
  BY DEF TypeOK, Sessions, SessionsGood
<1>1. CASE OtherCommand(c)
  BY <1>1, <1>0, LineMoves DEF OtherCommand, Line
<1>2. CASE Reset(c)
  <2>1. [s EXCEPT !.rcpts = <<>>].pc = s.pc
    BY <1>0 DEF Sessions
  <2>2. s.pc = "cmd" /\ Line(c, [s EXCEPT !.rcpts = <<>>])
    BY <1>2 DEF Reset, Line
  <2> QED
    BY <1>0, <2>1, <2>2, ResetGood, LineMoves
<1>3. ASSUME NEW addr \in Addrs, NEW parses \in BOOLEAN, RcptTo(c, addr, parses)
      PROVE  \E t : SessionMove(c, t)
  <2>1. s.pc = "cmd"
    BY <1>3 DEF RcptTo, Line
  <2>2. CASE isAllowedRecipient(addr) /\ parses
    <3> DEFINE u == [s EXCEPT !.rcpts = Append(@, addr)]
    <3>1. u \in Sessions /\ GoodSession(u)
      BY <1>0, <2>2, RcptGood
    <3>2. u.pc = "cmd"
      BY <1>0, <2>1 DEF Sessions
    <3>3. Line(c, u)
      BY <1>3, <2>2 DEF RcptTo
    <3> QED
      BY <3>1, <3>2, <3>3, LineMoves
  <2>3. CASE ~(isAllowedRecipient(addr) /\ parses)
    <3>1. Line(c, s)
      BY <1>3, <2>3 DEF RcptTo
    <3> QED
      BY <1>0, <2>1, <3>1, LineMoves
  <2> QED
    BY <2>2, <2>3
<1>4. ASSUME NEW complete \in readData, Data(c, complete)
      PROVE  \E t : SessionMove(c, t)
  <2>1. s.pc = "cmd"
    BY <1>4 DEF Data, Line
  <2>2. ASSUME NEW r \in {"503", "552"}, Line(c, [s EXCEPT !.reply = r])
        PROVE  \E t : SessionMove(c, t)
    <3> DEFINE u == [s EXCEPT !.reply = r]
    <3>1. u \in Sessions /\ GoodSession(u)
      BY <1>0, <2>1, RefusedGood
    <3>2. u.pc = "cmd"
      BY <1>0, <2>1 DEF Sessions
    <3> QED
      BY <3>1, <3>2, <2>2, LineMoves
  <2>3. ASSUME s.rcpts # <<>>,
               Line(c, [s EXCEPT !.pc = "relay", !.reply = "none",
                                 !.envelope = s.rcpts, !.relayed = <<>>])
        PROVE  \E t : SessionMove(c, t)
    <3> DEFINE u == [s EXCEPT !.pc = "relay", !.reply = "none",
                              !.envelope = s.rcpts, !.relayed = <<>>]
    <3>1. u \in Sessions /\ GoodSession(u)
      BY <1>0, <2>3, DataGood
    <3>2. u.pc = "relay"
      BY <1>0 DEF Sessions
    <3> QED
      BY <3>1, <3>2, <2>3, LineMoves
  <2> QED
    BY <1>4, <2>2, <2>3 DEF Data
<1>5. ASSUME NEW ok \in BOOLEAN, RelayOne(c, ok)
      PROVE  \E t : SessionMove(c, t)
  <2> DEFINE u == AfterRelay(s, ok)
  <2>1. s.pc = "relay" /\ session' = [session EXCEPT ![c] = u]
        /\ UNCHANGED <<loop, held, listening, ctxDone, slots>>
    BY <1>5 DEF RelayOne
  <2>2. u \in Sessions /\ GoodSession(u)
    BY <1>0, <2>1, RelayGood
  <2>3. u.pc \in {"cmd", "relay"}
    BY <1>0, <2>1 DEF AfterRelay, Sessions
  <2> HIDE DEF u
  <2>4. SessionMove(c, u)
    BY <2>1, <2>2, <2>3 DEF SessionMove
  <2> QED
    BY <2>4
<1>6. CASE Close(c)
  <2>1. ClosedSession.pc = "closed"
    BY DEF ClosedSession, NewSession
  <2>2. SessionMove(c, ClosedSession)
    BY <1>6, <2>1, FreshGood DEF SessionMove, Close
  <2> QED
    BY <2>2
<1> QED
  BY <1>1, <1>2, <1>3, <1>4, <1>5, <1>6 DEF SessionStep
-----------------------------------------------------------------------------
\* The connection the loop holds: one that has no session yet, while the loop waits
\* for a slot, and none otherwise.
HeldFresh ==
    /\ loop = "acquire" => \E c \in Conns : held = {c} /\ session[c].pc = "new"
    /\ loop # "acquire" => held = {}

\* The slots taken, counted.  The sessions that run are finitely many whatever the
\* connections are, because they come one by one.
SlotsCounted ==
    /\ IsFiniteSet(Running)
    /\ slots = Cardinality(Running)
    /\ slots <= MaxSessions

\* The inductive invariant of the server.
ServerInv == TypeOK /\ SessionsGood /\ HeldFresh /\ SlotsCounted

\* The server starts in it.
LEMMA ServerInit == NewServer => ServerInv
<1> SUFFICES ASSUME NewServer PROVE ServerInv
  OBVIOUS
<1>1. TypeOK
  BY FreshGood DEF NewServer, TypeOK, Sessions
<1>2. SessionsGood
  BY FreshGood DEF NewServer, SessionsGood
<1>3. HeldFresh
  BY DEF NewServer, HeldFresh
<1>4. Running = {}
  BY DEF NewServer, Running, NewSession
<1>5. SlotsCounted
  BY <1>4, FS_EmptySet, SmtpAssumption DEF SlotsCounted, NewServer
<1> QED
  BY <1>1, <1>2, <1>3, <1>5 DEF ServerInv

\* A step of a session keeps it.
LEMMA MoveKeeps ==
    ASSUME ServerInv, NEW c \in Conns, NEW t, SessionMove(c, t)
    PROVE  ServerInv'
<1>0. session \in [Conns -> Sessions]
  BY DEF ServerInv, TypeOK, Sessions
<1>1. session' \in [Conns -> Sessions] /\ session'[c] = t
      /\ \A d \in Conns \ {c} : session'[d] = session[d]
  BY <1>0 DEF SessionMove
<1>2. SessionsGood'
  BY <1>1 DEF ServerInv, SessionsGood, SessionMove
<1>3. HeldFresh'
  BY <1>1 DEF ServerInv, HeldFresh, SessionMove
<1>4. c \in Running /\ IsFiniteSet(Running) /\ slots = Cardinality(Running) /\ slots <= MaxSessions
  BY DEF SessionMove, Running, ServerInv, SlotsCounted
<1>5. SlotsCounted' /\ slots' \in Nat
  <2>1. CASE t.pc \in {"cmd", "relay"} /\ UNCHANGED slots
    <3>1. Running' = Running
      BY <1>1, <1>4, <2>1 DEF Running
    <3> QED
      BY <3>1, <2>1, <1>4 DEF SlotsCounted, ServerInv, TypeOK
  <2>2. CASE t.pc = "closed" /\ slots' = slots - 1
    <3>1. Running' = Running \ {c}
      BY <1>1, <2>2 DEF Running
    <3>2. IsFiniteSet(Running \ {c}) /\ Cardinality(Running \ {c}) = Cardinality(Running) - 1
      BY <1>4, FS_RemoveElement
    <3>3. Cardinality(Running \ {c}) \in Nat
      BY <3>2, FS_CardinalityType
    <3>4. slots \in Nat
      BY DEF ServerInv, TypeOK
    <3> QED
      BY <3>1, <3>2, <3>3, <3>4, <2>2, <1>4, SmtpAssumption DEF SlotsCounted
  <2> QED
    BY <2>1, <2>2 DEF SessionMove
<1>6. TypeOK'
  BY <1>1, <1>5 DEF ServerInv, TypeOK, SessionMove, Sessions
<1> QED
  BY <1>2, <1>3, <1>5, <1>6 DEF ServerInv

\* Acquire starts the session of the connection the loop holds.
LEMMA AcquireKeeps ==
    ASSUME ServerInv, Acquire
    PROVE  ServerInv'
<1>0. session \in [Conns -> Sessions] /\ slots \in Nat
  BY DEF ServerInv, TypeOK, Sessions
<1>1. PICK c \in Conns : held = {c} /\ session[c].pc = "new"
  BY DEF ServerInv, HeldFresh, Acquire
<1>2. session' = [session EXCEPT ![c].pc = "cmd"]
  BY <1>0, <1>1 DEF Acquire
<1>3. session' \in [Conns -> Sessions]
  BY <1>0, <1>2 DEF Sessions
<1>4. SessionsGood'
  BY <1>0, <1>1, <1>2 DEF ServerInv, SessionsGood, GoodSession, Sessions
<1>5. HeldFresh'
  BY DEF Acquire, HeldFresh
<1>6. Running' = Running \union {c} /\ c \notin Running
  BY <1>0, <1>1, <1>2 DEF Running, Sessions
<1>7. SlotsCounted'
  <2>1. IsFiniteSet(Running) /\ slots = Cardinality(Running)
    BY DEF ServerInv, SlotsCounted
  <2>2. IsFiniteSet(Running \union {c}) /\ Cardinality(Running \union {c}) = Cardinality(Running) + 1
    BY <2>1, <1>6, FS_AddElement
  <2> QED
    BY <2>1, <2>2, <1>0, <1>6, SmtpAssumption DEF SlotsCounted, Acquire
<1>8. TypeOK'
  BY <1>0, <1>3 DEF ServerInv, TypeOK, Acquire, Sessions
<1> QED
  BY <1>4, <1>5, <1>7, <1>8 DEF ServerInv

\* Every step of the server keeps its invariant.
LEMMA ServerStep == ServerInv /\ [Next]_vars => ServerInv'
<1> SUFFICES ASSUME ServerInv, [Next]_vars PROVE ServerInv'
  OBVIOUS
<1>1. ASSUME UNCHANGED <<slots, session>>, TypeOK', HeldFresh'
      PROVE  ServerInv'
  <2>1. Running' = Running
    BY <1>1 DEF Running
  <2>2. SessionsGood'
    BY <1>1 DEF ServerInv, SessionsGood
  <2> QED
    BY <1>1, <2>1, <2>2 DEF ServerInv, SlotsCounted
<1>2. ASSUME NEW c \in Conns, Accept(c)
      PROVE  ServerInv'
  <2>1. TypeOK' /\ HeldFresh'
    BY <1>2 DEF ServerInv, TypeOK, HeldFresh, Accept
  <2> QED
    BY <1>1, <1>2, <2>1 DEF Accept
<1>3. ASSUME NEW c \in Conns, SessionStep(c)
      PROVE  ServerInv'
  BY <1>3, SessionStepMoves, MoveKeeps DEF ServerInv
<1>4. CASE Acquire
  BY <1>4, AcquireKeeps
<1>5. CASE AcceptFails \/ Drained \/ Shutdown \/ CloseListener \/ UNCHANGED vars
  <2>1. UNCHANGED <<held, slots, session>>
    BY <1>5 DEF AcceptFails, Drained, Shutdown, CloseListener, vars
  <2>2. TypeOK'
    BY <1>5 DEF ServerInv, TypeOK, AcceptFails, Drained, Shutdown, CloseListener, vars
  <2>3. HeldFresh'
    BY <1>5 DEF ServerInv, HeldFresh, AcceptFails, Drained, Shutdown, CloseListener, vars
  <2> QED
    BY <1>1, <2>1, <2>2, <2>3
<1> QED
  BY <1>2, <1>3, <1>4, <1>5 DEF Next, LoopStep

\* A good session has a true reply and was relayed to local addresses only.
LEMMA GoodImplies ==
    ASSUME TypeOK, SessionsGood
    PROVE  ReplyHonest /\ LocalOnly
<1> SUFFICES ASSUME NEW c \in Conns
             PROVE  /\ session[c].relayed = SubSeq(session[c].envelope, 1, Len(session[c].relayed))
                    /\ session[c].reply = "250" =>
                          session[c].relayed = session[c].envelope /\ session[c].envelope # <<>>
                    /\ session[c].reply = "451" => Len(session[c].relayed) < Len(session[c].envelope)
                    /\ \A i \in DOMAIN session[c].relayed : session[c].relayed[i] \in LocalAddrs
  BY DEF ReplyHonest, LocalOnly
<1> DEFINE r == session[c].relayed
           e == session[c].envelope
<1>1. r \in Seq(Addrs) /\ e \in Seq(Addrs)
  BY DEF TypeOK
<1>2. Begins(r, e) /\ AllLocal(e)
  BY DEF SessionsGood, GoodSession
<1>3. r = SubSeq(e, 1, Len(r))
  <2>1. Len(r) \in Nat /\ Len(e) \in Nat
    BY <1>1
  <2>2. \A i \in 1 .. Len(r) : e[i] \in Addrs
    BY <1>1, <1>2 DEF Begins
  <2>3. /\ SubSeq(e, 1, Len(r)) \in Seq(Addrs)
        /\ Len(SubSeq(e, 1, Len(r))) = Len(r)
        /\ \A i \in 1 .. Len(r) : SubSeq(e, 1, Len(r))[i] = e[i]
    BY <2>1, <2>2, SubSeqProperties
  <2> QED
    BY <1>1, <1>2, <2>3, SeqEqual DEF Begins
<1>4. \A i \in DOMAIN r : r[i] \in LocalAddrs
  BY <1>1, <1>2 DEF Begins, AllLocal
<1> QED
  BY <1>3, <1>4 DEF SessionsGood, GoodSession

\* The invariant holds of the server, whatever clients send.
LEMMA ServerHolds == Spec => []ServerInv
BY ServerInit, ServerStep, PTL DEF Spec

\* Every variable of the server keeps its type.
THEOREM ServerTyped == Spec => []TypeOK
<1>1. ServerInv => TypeOK
  BY DEF ServerInv
<1> QED
  BY <1>1, ServerHolds, PTL

\* No slot of the concurrency channel leaks or is given back twice, and there are
\* never more sessions than configured, for any number of connections.
THEOREM SlotsNeverLeak == Spec => []SlotsExact
<1>1. ServerInv => SlotsExact
  BY DEF ServerInv, SlotsCounted, SlotsExact
<1> QED
  BY <1>1, ServerHolds, PTL

\* A client is told 250 only when its mail went to every recipient accepted for it,
\* and 451 only when it did not, for any list of recipients.
THEOREM RepliesTrue == Spec => []ReplyHonest
<1>1. ServerInv => ReplyHonest
  BY GoodImplies DEF ServerInv
<1> QED
  BY <1>1, ServerHolds, PTL

\* Mail leaves for addresses of the allowed domain only, whatever lines a session
\* takes for commands.
THEOREM RelaysLocally == Spec => []LocalOnly
<1>1. ServerInv => LocalOnly
  BY GoodImplies DEF ServerInv
<1> QED
  BY <1>1, ServerHolds, PTL
=============================================================================
