# smtp-to-max-relay: TLA+ models, checks and proofs

The relay accepts mail over SMTP and sends it to chats of the MAX messenger.
This directory models the parts of it that decide whether a mail arrives: the
sessions, the relay, the bot sender, the rate limiter, the dead-letter queue
(DLQ) with its worker and its operator commands, the alias table, the bot that
takes the operator's commands, and one mail's way through all of them. Paths
below are relative to `src/`.

## The system

| part | state it keeps | operations | talks to |
|---|---|---|---|
| SMTP server, `internal/smtp/server.go` | listener, semaphore of sessions, recipients of each session | accept, commands, DATA, shutdown | calls Relay once per recipient and waits |
| relay service, `internal/relay/service.go` | none between calls | Relay: parse, send units to every chat with immediate retries, queue on failure | sender, DLQ store, recipient parser |
| rate limiter, `internal/max/limited_sender.go` | token bucket, queue slots, depth counter | acquire, refill | called by all senders, from many goroutines |
| bot sender, `internal/max/bot_sender.go` | none between calls | SendText; SendFile: upload, then post until the file is processed | MAX over HTTP |
| DLQ store, `internal/dlq/store.go` | map of items, file | Enqueue, PickDue, MarkDone, MarkRetry, load | file system; shared by sessions, worker and operator |
| DLQ worker, `internal/dlq/worker.go` | a batch in hand | tick: pick, relay, mark | store, Relay with the bypass flag |
| DLQ admin, `internal/dlq/admin.go` | none | Replay, ReplayBatch; read-only commands | store, Relay with the bypass flag |
| alias table, `internal/recipient/*.go`, `internal/max/bot_runtime.go` | map of groups, file | set, add, remove, delete, save, load | read by RCPT TO and by Relay |
| confirmation tokens, `internal/max/admin_confirm.go` | map of tokens | register, consume, purge | bot loop |
| bot loop, `internal/max/bot_runtime.go` | none between updates | dispatch, one update at a time | update poller, alias table, DLQ admin, confirmation tokens |
| update poller, `third_party/max-bot-api-client-go/api.go` | marker, page in hand, channel of 100 updates | poll, push, exit; GetUpdates | MAX over HTTP, bot loop |
| metrics, `internal/metrics/collector.go` | counters, the newest 50000 deliveries | Inc..., ObserveDelivery, BuildLastDaysReport | called by all parts, read by /stats7d |
| configuration, `internal/config/config.go` | none after the start | Load | environment |
| email parser, help texts, tracing | none | | |

What is hard in it: sessions, worker and operator share one store and relay
without holding its lock; memory is changed before the file is written, and
the write can fail; the process can end between a delivery and its record; a
send that timed out may have arrived; client, worker and the sender's own loop
each repeat what failed, without knowing of each other; aliases change between
acceptance and delivery; counters and slots are updated in separate steps;
products and shifts can overflow. `PROJECT.json` lists these hazards
with their lines and the properties aimed at them.

## Modules

| module | models | checked with |
|---|---|---|
| `Backoff` | `nextDelay` on integers of `Width` bits | `MCBackoff`, through `RetryDelay` |
| `Config` (EXTENDS Backoff) | `Load`, as far as the delays of the queue go | `MCBackoff` |
| `RetryDelay` (EXTENDS Config) | the delays of a process, attempt after attempt | `MCBackoff` |
| `FileStore` | the store's methods, as actions on `items` and `disk` | through `Dlq`, `MailFlow` |
| `DlqWorker` (EXTENDS FileStore, Backoff) | `runOnce` as pick, relay, mark | through `Dlq`, `MailFlow` |
| `DlqAdmin` (EXTENDS FileStore, Backoff) | `Replay`, `ReplayBatch` as get, relay, mark | through `Dlq` |
| `Dlq` (EXTENDS DlqWorker, DlqAdmin) | all of them on one store, with restarts | `MCDlq` |
| `RetryLedger` | what the queue promises, abstractly | instantiated by `Dlq` |
| `RateLimiter` | `acquire`, `updateQueueDepth`, `refillLoop` | itself |
| `BotSender` | `SendText`, `SendFile`, `sendFileMessage` | through `Relay` |
| `Collector` | counters, `ObserveDelivery`, `BuildLastDaysReport` | through `Relay` |
| `Relay` (EXTENDS BotSender, Collector) | one call of `Service.Relay` after another | itself |
| `TextSplit` | `splitTextMessage`, `bestTextSplit` | itself |
| `SmtpServer` | `ListenAndServe`, `handleConn` | itself |
| `AliasTable` | the alias commands, `Parse`, `SaveAliases`, `LoadAliases` | itself |
| `AdminConfirm` | `registerConfirm`, `consumeConfirm` | through `BotLoop` |
| `BotLoop` (EXTENDS AdminConfirm) | the update poller and `RunBotLoopWithUsername` | itself |
| `MailFlow` (EXTENDS DlqWorker) | client, sessions, aliases, queue and worker together | `MCMailFlow` |
| `DlqProofs`, `RateLimiterProofs`, `SmtpProofs`, `AliasProofs`, `BotProofs`, `RelayProofs`, `MailFlowProofs` | theorems about the module of that name (`BotProofs`: `BotLoop` and `AdminConfirm`; `RelayProofs`: `Relay`, `BotSender`, `Collector`) | tlapm |
| `AlgorithmProofs` | theorems about `RetryDelay` and `TextSplit` | tlapm |

Definitions keep the names of the functions they translate. A definition placed
just before another and described as a fault ("a queue that lets everyone
wait") is a plausible bug of the definition that follows; no action uses it. It
exists to show that the property next to it in `PROJECT.json` would notice.

How state corresponds:

* `FileStore.items` is `FileStore.items` in Go; `disk` is what `load` would
  read. An item keeps payload, status, attempt and retry time. `LastError`,
  `CreatedAt` and `UpdatedAt` are left out, and with them the order of `List`:
  `ReplayBatch` may select in any order. The payload stands for the fingerprint
  (recipient and raw message); the hash is taken to be injective.
* Every store method runs under the mutex and is one step. `persistLocked(ok)`
  is the last conjunct of each; with `ok = FALSE` memory has changed and the
  file has not, as in the code. Temporary file and rename make a write all or
  nothing; there is no fsync, so a power failure that undoes a rename is not
  modelled.
* `wBatch`/`wStep` and `aQueue`/`aStep` are the local variables of `runOnce`
  and `ReplayBatch`. The attempt counts in them are copies and go stale.
* A relay inside `Dlq` is its outcome. A cancelled context (timeout of the
  attempt, shutdown) is the outcome `err`.
* In `Relay` a mail is `chunks` texts and then files, up to `units`; `target`,
  `unit`, `attempt` are the three loops of the code, `sending` and `tries` the
  place inside `SendFile`. `invalid` holds the chats whose id has digits only
  but is no int64: `Parse` takes them and `parseChatID` does not.
* In `MailFlow` a step of a relay is one call of the sender inside
  `sendWithRetry`; `unknown` is an error although the chat has got the unit, and
  after an error the call is made again, up to `MaxSendRetries` times, or the
  relay fails. A mail goes to a chat in several units; `got` counts the copies of
  one of them, whichever it is, and the others show only in that a relay may fail
  at any attempt (`Relay` has all of them). Parsing a recipient, each call of the
  sender, the hand-over to the queue and the answer are steps of their own, so
  that a restart can fall between any two of them. Each submission is a session of its own, and a session the client has left
  goes on relaying. The client submits the same bytes, so the recipient is the
  fingerprint. `full` and `got` are kept by the outside world.
* In `BotLoop` an update is its position in what MAX keeps; a page is the list,
  in order (`Enumerates`), of the positions whose updates decode (`Decoded`). MAX itself is taken
  to keep updates until a request acknowledges them with a later marker; that is
  how `GetUpdates` uses it, not something the repository can show. An answer with
  updates is taken to have a marker, one without may lack it: the poller takes
  the marker of any answer as it is (`api.go:172`), and a page without one would
  be fetched, and handled, again. A restart
  may lose updates that were acknowledged and not handled; `Handled` says so.
  Messages that change nothing (of strangers, of bots, no command, commands that
  only answer) are one kind, `plain`. Once asked to stop, a poller first forgets
  the channel the client keeps (`leaving`) and then closes it (`exited`); a
  `GetUpdates` after the former starts a second poller with a channel of its own
  (`spare`).
* In `AliasTable` the first file is absent, empty or any table, since
  `LoadAliases` does not look at its targets; `config/aliases.json` is one. A
  save that fails may have left the file empty, torn or complete.
* `ReportDays` in `Collector` is any integer; like `BuildLastDaysReport` the model
  takes seven days when it is not positive.
* `/replay` and `/replay_batch` wait for `/confirm`. `Dlq.Command` is the
  moment the confirmed command starts; `AdminConfirm` models the tokens.
* `deliveries`, `failures`, `replays`, `acked` in `Dlq`, `granted`, `ticks` in
  `RateLimiter`, `taken` in `BotSender`, `seen` in `Collector`, `queued`,
  `returns`, `brought` in `Relay`, `saved`, `inSync`, `unchecked` in
  `AliasTable`, `asked`, `ran` in `AdminConfirm`, `start`, `handled`
  in `BotLoop`, `got`, `repeats`, `full`, `acked` and the counters of failures,
  timeouts and crashes in `MailFlow` are history: no action of the program reads them.

## Runs

| run | bounds | shows |
|---|---|---|
| `backoff` | 10-bit integers, a millisecond of 4 units, 31 bases and 24 maxima around every overflow, 14 attempts | the delay is within bounds whatever overflows, and is `min(max, base * 2^(n-1))` of what was written when no overflow can land between them (true of the defaults) |
| `dlq` | 2 items, 2 payloads, 2 attempts, batch of 2, 1 failed write, 1 command, 1 restart | six invariants, `DurablySettled`, and the refinement of `RetryLedger` |
| `dlq_live` | 2 items, 1 payload, 3 attempts, no failed write, batch of 1 | `Settles`: an accepted item ends done or failed; waits follow an attempt count of the item |
| `dlq_stranded` (violation) | 1 item, 1 failed write | `Settles` fails after a failed write in `PickDue` |
| `rate_limiter` | 3 callers, burst 1, queue of 2, 2 ticks | rate, capacity, exact depth counter; every call returns |
| `relay` | 2 calls, up to 2 chats, 2 units, 1 immediate retry, 2 posts of a file, 2 kept deliveries, 3 days and a report of the last one | order, completeness, hand-over, true counters and reports, termination |
| `smtp_server` | 3 connections, 2 slots, 3 addresses (1 foreign), 2 recipients, 3 lines | slots, honest replies, local recipients only; shutdown ends |
| `alias_table` | any first file of 2 names and 2 targets (1 malformed), 2 restarts, 2 failed writes | no empty group; file and memory agree; which aliases parse |
| `alias_table_torn` (violation) | 2 names, 1 target, 1 restart | a crash in a later save loses saved aliases |
| `bot_loop` | 3 updates, pages of 2, a channel of 1, 3 instants, lifetime 1, 1 failed poll or restart | nothing lost, repeated or reordered between MAX and handler; commands at most once and in time; everything handled; told to stop, loop and pollers end |
| `mail_flow` | 2 items, a group of 2 chats and a direct chat, 2 submissions, 1 immediate retry per send, 2 attempts of the worker; together 2 of: changes of the alias, answers not waited for, restarts, immediate retries | no false 250 or done; every copy beyond the first has a cause |
| `text_split` | every text of at most 6 bytes, limits 0..4 | lossless, pieces fit, characters kept whole |

Why the bounds are enough for the questions asked: in `dlq` two items with
possibly equal payloads are what duplicates need, two attempts separate "retry"
from "give up", one command and one restart can be placed between any two steps
of the worker; more of them repeat the same races. In `rate_limiter` three
callers with one token and two slots fill the bucket and the queue, empty them,
and leave one caller refused while another has freed its slot and not counted
down. In `smtp_server` there is one connection more than slots, so that the loop
holds an accepted connection while it waits. In `relay` the second unit may be
a text or a file, so that a call ends at either; three deliveries of two calls
pass the limit of two kept ones. In `bot_loop` a page does not fit in the
channel, so the poller is blocked with its marker ahead. In `mail_flow` two
submissions with a timeout are two sessions at once, beside the worker; an alias
of two chats can fail at its second; any two of a change of the alias, a timeout,
a restart and an immediate retry can meet (`MaxEvents`), which leaves about 3.5
million states. Identifiers in `dlq` and `mail_flow` are
interchangeable and symmetry is used there, without liveness.

`backoff`, `text_split`, `relay`, `bot_loop` and `mail_flow` end by themselves
when their bounds are used up (no more attempts, bytes, calls, messages,
submissions) and switch the deadlock check off; everywhere else it is on. That
the first calls and loops do not get stuck is what `CallReturns`, `Handled` and
`BotStops` say. A stopped server and a process that refuses to start stutter
explicitly.

### Fairness

* `dlq_live`: the worker's timer ticks and its relays return (each attempt has
  a timeout), a started command goes on, time passes. Nothing obliges sessions,
  operators or crashes.
* `rate_limiter`: a caller inside `acquire` runs; the queue timer may fire.
  Refills are *not* assumed: calls return even when no token ever comes.
* `relay`: a call in progress goes on, since sends have a timeout and the pause
  is a timer.
* `bot_loop`: the poller and the loop run, and MAX answers a poll in the end
  (failures are bounded). A handler ends, because its relays and its reply have
  timeouts. A poller whose context has ended leaves: it looks at the context
  between requests, in the pause after an error and while the channel is full, and
  the request itself is made with that context. Nothing obliges people to write, or
  time to pass. `BotStops` asks for the end of the loop and of both pollers; that
  the first poller also looks at the context while its channel is full is what the
  mutant takes away.
* `smtp_server`: the loop, the closing goroutine and the sessions run, and
  `Accept` fails once the listener is closed. A session ends because the client
  stops talking (`MaxLines`) or five minutes pass without a line. The server
  does not tell its sessions to stop, so a client that keeps talking delays the
  shutdown for as long as it does; `Stops` says nothing about such clients.

## Findings

1. `dlq_stranded`. `PickDue` marks items as processing in memory and then
   writes the file. If the write fails it returns no items
   (`internal/dlq/store.go:139`), and the items stay in processing, where
   neither `PickDue` nor anything else but a restart (or an operator's
   `/replay <id>`) picks them up. The README promises background retries.
2. `alias_table_torn`. `SaveAliases` writes in place
   (`internal/recipient/alias.go:51`). A crash between truncation and write
   loses every alias, those confirmed as saved included, or leaves a file the
   next start refuses. The DLQ store uses a temporary file and a rename.

## The queue as a ledger

`RetryLedger` says what the queue promises without worker, clock, commands or
failing writes: entries that never leave it, relays of them, and a word on each
entry that changes only with cause. An entry is closed as done after a relay
that succeeded, as failed after `MaxRetries` that failed; once closed it is
neither relayed nor reopened unless the operator asked. `Dlq` instantiates it with the
file's word on each item (`LedgerWord`) and its history of relays. A step of the
queue that does not change the file is a stutter or a relay; a write may bring
several entries up to date at once, because an earlier write may have failed.
`ImplementsLedger` is checked by `dlq`. What it adds to the invariants is the
guard on relays: an item the file calls closed is not relayed by the worker,
also when memory and file differ.

## How many copies

`CopiesAccounted` bounds the copies of a unit of the mail that one chat may see.
Without faults it is one. A call of the sender that `sendWithRetry` makes again in
that chat costs one at most: the call before it may have failed after MAX took the
unit, and the relay may then succeed with nothing to show for it. With
`RELAY_MAX_RETRIES` at its default of 2 a single successful relay may thus leave
three. A session whose relay failed may cost two (the client submits again and the
queue retries as well), a failed relay of the worker one (the group is relayed from
its first chat), an answer that came too late one, a restart two (a session and the
worker may both be cut off after the send). A write of the queue that failed costs
nothing by itself. TLC finds every term to be needed: with any one of them smaller
the invariant is violated, within the bounds of `mail_flow` or, for the second copy
of a restart, with a third submission. That a relay fails is itself a cause: what
the bound leaves open is how often MAX fails, not how far failures multiply.

## Proofs

Every safety property the passing runs check is also a theorem, for every value of
the constants: any sets of identifiers, payloads, connections, callers, addresses
and targets, finite or not, any limits, sizes and delays, any number of faults,
commands and restarts. The theorems rest on the named assumptions of the modules
they extend and on nothing else. These say that numbers are natural numbers (positive
where `Load` or `make(chan)` needs it; settings of delays are any integers), that
`LocalAddrs` and `Malformed` are subsets of `Addrs` and `Targets`, that the group and
the direct chat of `MailFlow` are two different recipients, and that the worker and
the operator's commands have the same two delays (`WiringAssumption`,
`cmd/smtp-to-max-relay/main.go:111` and `:141`). TLC evaluates all of them in the
runs.

A proof has the same three parts everywhere: the first state satisfies an inductive
invariant, each action keeps it, and it implies the property. In the larger modules
a lemma first reduces every action to a *kind of step* that says only what it does to
the state the invariant looks at (`StepKinds` in `DlqProofs`, `RelayKinds`,
`CallKinds` in `MailFlowProofs`), and the invariants are then shown against the kinds.

### The queue: `DlqProofs`

| theorem | property | invariant it needs, and why |
|---|---|---|
| `TypeCorrect` | `TypeOK` | inductive itself. Retry times stay natural because `nextDelay` answers something between base and maximum whatever the shift gives (`DelayType`) |
| `IdleBetweenLoops` | (`Idle`) | with nothing in hand, worker and command are at their first step |
| `Durability` | `AckedDurable` | with `TypeOK` and `Idle`: no operation drops an item, and the file is left alone or becomes the memory |
| `Verdicts` | `VerdictsEarned` | `Receipts`: attempts plus the failures worker and operator have not recorded yet are covered by the failures that happened, on the file as well, since a restart brings its counts back |
| `SettledForGood` | `DurablySettled` | `Owned`: an item in the operator's hands was replayed; one in the worker's hands that never was is still in processing; what the file calls settled and nobody replayed is the same in memory |
| `Refinement` | `ImplementsLedger` | the same and `Receipts`; each kind of step is mapped to a step of `RetryLedger` or to a stutter |
| `NoDuplicates` | `UniqueActive` | `UniqueIn` for memory and file, and that what waits on the file waits in memory or was replayed (`Inherits`), as a restart makes the file the memory |
| `AttemptsBounded` | `RetryBudget` | `Budgeted`: the attempt an active item is still to have counts already, also for an item in the worker's hands that the operator has settled meanwhile |
| `DeliveriesBounded` | `DeliveryBound` | `Accounted`: a success that may yet come, by worker or operator, is paid for as one that came. A relay that failed may have reached chats too; those copies are counted in `MailFlow` |
| `WaitsFollow` | `WaitFollowsAttempts` | `Copies`: no copy of an attempt count is ahead of the map, and the worker's is behind only for an item that was replayed |

### The rate limiter, the server, the aliases, the bot

* `RateLimiterProofs`. `RateHolds` (`RateBound`): tokens enter one with each tick and
  leave one with each call (`BucketInv`). `SenderTyped` (`TypeOK`) and `DepthHolds`
  (`DepthExact`): the slots and the atomic counter are the cardinalities of the sets
  of callers at the steps in between (`CountsInv`). That these sets are finite is
  proved and not assumed: callers enter one by one.
* `SmtpProofs`. `ServerTyped`, `SlotsNeverLeak` (`SlotsExact`), `RepliesTrue`
  (`ReplyHonest`), `RelaysLocally` (`LocalOnly`) from `ServerInv`: a session's relayed
  recipients are the beginning of its envelope, envelope and list of recipients are
  local, the connection the loop holds has no session yet, and the slots are the
  number of running sessions.
* `AliasProofs`. `TableTyped` (`TypeOK`), `FileKeepsUp` (`FileCurrent`), `AliasesParse`
  (`Parses`) from `AliasInv`, which asks of the file what `Parses` asks of memory: a
  restart may make it the memory.
* `BotProofs`. `TokensRunOnce` (`RunsOnce`) and `TokensRunInTime` (`RunsInTime`) from
  `ConfirmInv`: tokens are numbered, a pending entry is the command and the deadline
  its token was issued with, and what ran is not pending. `UpdatesFlow` (`Pipeline`)
  from `FlowInv`: where marker, acknowledged position and start are, and that the
  poller polls only when its page is pushed.

### The relay: `RelayProofs`

* `FailuresHandedOver` (`HandedOver`), from `Queued`: nothing is queued before the
  call is over.
* `SuccessIsComplete` (`SuccessComplete`), from `Covered`: MAX has everything before
  the cursor of the two loops and nothing after it.
* `UnitsInOrder` (`InOrder`), from `Sequenced` and `Repeated`: the places follow each
  other up to the cursor, and the unit at the cursor was taken at most once per
  attempt.
* `CountersTellTruth` (`CountersTrue`), from `Tallied`: the chats counted as relayed
  are the ones before this one, and this one once the call has succeeded.
* `ReportsExact` (`ReportExact`), from `KeptTail`: what is kept is the end of what was
  seen, and that is ordered by the clock. The numbers agree because shifting by what
  was given up is a bijection between the kept recent deliveries and all recent ones.

### One mail through everything: `MailFlowProofs`

* `MailResponsible` (`Responsible`), from `Honest`: the types; that a session which
  relays is at one of its recipients and has brought the mail to the ones before
  (`Running`); that the worker's items are being processed, each once, and that the
  file knows no item memory does not know (`Base`); and that a success the worker has
  not recorded yet was one (`Earned`).
* `CopiesHaveACause` (`CopiesAccounted`), from `Balanced`. The invariant is a ledger
  kept for each chat (`Paid`): the copies it got, plus one for every session that may
  still send to it or is about to answer 451 (`Owing`), one if the client is about to
  submit (`Open`) and one if the queue holds the mail for it (`Queued`), are at most
  the budget of the faults so far, in which the immediate retries of that chat count
  as well. Each action moves an amount from one column to another or raises the
  budget. A send that is the last of its chat moves one from `Owing` to the copies,
  one that is made again is paid for by the retry; a failed relay of a session pays
  for the client who comes back when it hears 451 and for the item in the queue. That
  two sessions do not put the mail in the queue twice is `UniqueIn`.

### The two algorithms: `AlgorithmProofs`

* `DelaysBounded` (`DelayInBounds`) and `DelaysExact` (`DelayExact`), for every width of
  the integers and every setting. The first is about the base that `Load` arrived at,
  overflowed or not; the second about the one that was written, and needs that each power of two is
  twice the one before. The provers know nothing of `^`; the library does say that a set
  of n elements has 2^n subsets, and the fact follows from counting those of `1 .. n`.
  It also needs that what a shift
  leaves of an overflowed product is a multiple of the powers of two in it, so that it
  cannot land between base and maximum under the property's condition.
* `PiecesAlwaysFit` (`PiecesFit`) and `RunesAlwaysKept` (`RunesKept`) from `TextInv`:
  what is left is an end of the text (`IsEnd`), and begins with a character if the
  text is made of characters that fit (`BeginsRune`). `CutPlace` says where
  `bestTextSplit` cuts.
* `NothingIsLost` (`Lossless`). `FlattenSeq` is a recursive function: `JoinExists` and
  `JoinUnique` show that there is exactly one function with its equation, and
  `FlattenAppend` follows, that one piece more is appended.

### Only model-checked

* Liveness under fairness: `Settles`, `CallsReturn`, `CallReturns`, `Stops`, `Handled`,
  `BotStops`. The prover has no rules for fairness or `ENABLED`.
* The two findings, which are counterexamples.
* That the bounds of `CopiesAccounted` are tight.

## Not modelled

* HTTP and JSON of the vendored MAX client: a request is an answer, with "failed
  although it arrived" among them. Its error channel only feeds the log.
* The latency histogram, the counters of texts and files, the backlog gauges,
  the top lists of the report and the metrics endpoint: no other part reads them,
  and no document promises more of a gauge than the last value written.
* The email parser: MIME is decoded by a library outside the repository, and the
  rest is a filter without state; `Relay` chooses whether it succeeds and how
  many units there are. The syntax of addresses likewise, except for what
  distinguishes the commands that validate a target from those that do not.
* Settings other than the delays of the queue: each is parsed and compared with
  zero. The constants of the modules are assumed to be what `Load` lets through.
* The size of the queue: items that are done or failed stay in the map and in the
  file, which is written in full at every change. No limit is stated to check
  against. Likewise the depth gauge of the rate limiter, which two callers may
  publish in the other order; the counter behind it is exact (`DepthExact`).
* Help texts, tracing, version, read-only operator commands: no state.

## Plan

In this order:

1. Done: DLQ (store, worker, operator), backoff, rate limiter, relay, text
   splitting, SMTP server, alias table, confirmation tokens; proofs of type
   correctness, durability, verdicts and rate.
2. Done: the composition of client, sessions, aliases, queue and worker
   (`MailFlow`); the abstract queue and its refinement (`RetryLedger`); the bot
   sender under the retries of the relay, with the counters and the report
   (`BotSender`, `Collector`); the update poller and the bot loop (`BotLoop`);
   the delays from configuration to `nextDelay` (`Config`).
3. Done: a theorem for every safety property of the passing runs, the refinement of
   `RetryLedger` and the two action properties of the queue among them.
4. To come: the steps behind the liveness properties that are safety, as theorems
   (each turn of `splitTextMessage` shortens what is left; a step of a relay call
   raises its cursor or its attempt; a worker's batch only shrinks), so that what is
   left to TLC is the fairness alone; shorter proofs where two modules show the same
   fact about the store.
