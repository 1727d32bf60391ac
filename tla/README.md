# Quant Arena in TLA+

Quant Arena is a small stock exchange: clients post orders over HTTP to a **gateway**, which appends
them to a Redis stream (`qa.inbound`); a **matcher** process feeds that stream to a deterministic
**matching engine** and appends the engine's answers to a second stream (`qa.outbound`); the gateway's
own risk state, the **ledger**, the **fan-out** server, the **archiver** and, through the fan-out, the
**web client** and the **bots** all rebuild what they know from the outbound stream. Every process keeps
its state in memory, and restarts from a checkpoint plus the tail of a stream.

This directory holds TLA+ modules that model those parts, TLC configurations that check them on small
instances, and TLAPS proofs about them. Paths below are relative to the repository (`src/`).

## 1. The system

| component | state | operations | hard behaviour | what makes it correct | here |
|---|---|---|---|---|---|
| **contracts** (`contracts/v1`) | none | the records of both streams | one meaning for many readers | each record read alike | modelled |
| **engine** (`engine/cpp`, and `engine/naive_model.py` + `services/matcher/adapter.py`) | a book per symbol, live orders, client-id index, next id | `apply(record)`, `snapshot`, `restore` | bookkeeping kept in three structures; two implementations; restart from a partial snapshot | same answers from both, price-time priority, no crossed book, restored = uninterrupted, one anchor per record | modelled |
| **matcher** (`services/matcher`) | engine, two positions, checkpoint, halt flag | recover, step, checkpoint, trim | crash anywhere, lost reply of a transaction, worker death, trimmed streams, configuration change | every inbound record answered exactly once, in order, by the engine that never stopped | modelled |
| **checkpoint library** (`services/checkpoint.py`) | one hash per process, two streams | save, load, guard, trim | trimming races with readers, configurations change one process at a time | nothing is trimmed that a restart would need; a partial replay is refused | modelled |
| **gateway, orders** (`services/gateway/routes_orders.py`, `idempotency.py`, `streams.py`) | requests in flight, producer queue, idempotency keys | submit, cancel, flush | concurrent retries of one id, lost replies, group commit, key expiry, restart | one order per client id, one answer per client id | partly |
| **gateway, risk** (`services/gateway/risk.py`) | settled cash and inventory, commitments, pending and open orders | check, reserve, abandon, apply, dump, load | state read before an await and used after it; the stream overtakes the reply | commitments are exactly those of pending and open orders; nothing is promised twice | modelled |
| **gateway, accounts, sessions, limits** (`routes_auth.py`, `sessions.py`, `ratelimit.py`) | users in PostgreSQL, sessions in Redis, token buckets | register, log in and out, allow | a database row against a stream record; two calls for one name; a withdrawal after a lost reply | an account is announced once, and has its user; the limiter is exactly the limit | partly |
| **ledger** (`services/ledger`) | balances, positions, open orders, dirty sets; PostgreSQL | apply, flush, checkpoint, recover | failed flushes, restarts | cash plus fees is conserved; the database follows the stream | modelled |
| **fan-out** (`services/fanout`) | public book, bars, conflation buffers, subscriber queues, private numbering | apply, route, broadcast, subscribe, halt | slow subscribers, conflation, gaps | what is shown is true; a private message is never lost without a disconnection | partly |
| **web client** (`web/src/stream`) | sequence tracker, buffers, portfolio | message, reconnect, resync | a resync racing live messages | the portfolio is the ledger's | partly |
| **archiver** (`services/archiver`) | open units, files, bookmark | apply, seal, write, resume | crash between file and bookmark; late stamps | each trade archived once; files before the bookmark are whole | modelled |
| **bots** (`services/bots`) | the market maker's quotes and ids | quote, pull, place, clear | 503s, lost answers, requests that land late, restarts | what it believes it shows was accepted; what is in the book it knows of | partly |
| **backtest** (`services/backtest`) | none between runs | run | none: one sequential pass over files | arithmetic | no |
| **web screens**, **configuration**, **scripts and deployment** | none that another part relies on | | | | no |

The components interact only through the two streams, the Redis hashes `qa.checkpoint.*`, the
idempotency keys, sessions and halt key in Redis, PostgreSQL (written by the ledger and by registration,
read by the gateway) and HTTP/WebSocket.


## 2. Modules

| module | models | builds on |
|---|---|---|
| `Contracts` | the records of both streams (`contracts/v1/schema.toml`), and which of them are anchors | |
| `OrderFlow` | **abstract**: what the stream tells of open orders, record by record; the contract between the engine and the gateway | `Contracts` |
| `StreamEngine` | the deployed engine: `engine/cpp/order_book.cpp`, `stream_engine.cpp` | `OrderFlow` |
| `NaiveMatcher` | the reference engine: `engine/naive_model.py` behind `services/matcher/adapter.py`; its book is a set of orders | `OrderFlow` |
| `Engines` | the two engines and one restored from a snapshot, side by side | `StreamEngine`, `NaiveMatcher` |
| `Engines_proofs` | theorems about the deployed engine, about restoring it, that the reference engine agrees with it, and that it keeps the contract `OrderFlow` | `Engines`, `FoldFacts` |
| `AnswerLog` | **abstract**: what the matcher promises the other processes | `Contracts` |
| `Matcher` | the matcher process, its checkpoint and both streams (`services/matcher/cpp_runner.py`, `services/checkpoint.py`) | `AnswerLog` |
| `Matcher_proofs` | theorems about `Matcher` | `Matcher`, TLAPS |
| `Risk` | the gateway's risk state and every operation on it (`services/gateway/risk.py`) | `OrderFlow` |
| `Orders` | HTTP calls, idempotency, the producer, the outbound watcher, checkpoint, restart (`routes_orders.py`, `idempotency.py`, `streams.py`, `app.py`) | `Risk`, `AnswerLog` |
| `Orders_proofs` | theorems about `Orders`: idempotency, commitments, the checkpoint | `Orders`, `FoldFacts` |
| `Ledger` | what a record does to cash, positions, orders and fees, and the tables projected from it (`services/ledger/ledger.py`, `models.py`) | `Contracts` |
| `Outbound` | `qa.outbound` as its readers see it, their checkpoints, and trimming below them (`services/checkpoint.py`, `matcher/checkpointing.py`) | `Contracts` |
| `LedgerConsumer` | the ledger process (`services/ledger/consumer.py`) | `Outbound`, `Ledger` |
| `MarketData` | books, tape and bars folded from the stream, used by the fan-out and the archiver (`services/fanout/state.py`, `bars.py`) | `Contracts` |
| `Archiver` | the archiver (`services/archiver/state.py`, `runner.py`, `writer.py`) | `Outbound`, `MarketData` |
| `Consumers` | ledger and archiver beside the matcher, which appends and trims | `LedgerConsumer`, `Archiver` |
| `FoldFacts` | lemmas: induction over a finite set of values, folds over sequences, sums over finite sets | TLAPS |
| `Consumers_proofs` | theorems about `Consumers`, and about the ledger's operators: posting balances, flushing dirty rows projects | `Consumers`, `FoldFacts` |
| `FanOut` | the fan-out: recovery, routing, queues, the tick, halts (`services/fanout`) | `Outbound`, `MarketData` |
| `WebClient` | a browser: connection, sequence tracker, buffer, portfolio, resynchronisation (`web/src/stream`, `App.tsx`) | `FanOut`, `Ledger` |
| `LiveFeed` | the fan-out and its browsers, and their properties | `WebClient` |
| `LiveFeed_proofs` | theorems about `LiveFeed`: what a browser is told | `LiveFeed`, `FoldFacts` |
| `Accounts` | registration, the producer it appends through, the ledger's projection of it, sessions (`routes_auth.py`, `sessions.py`) | |
| `RateLimiter` | the token bucket (`ratelimit.py`) | |
| `Accounts_proofs` | theorems about the two | `Accounts`, `RateLimiter` |
| `Quoting` | the market maker's decision and its obligations, as operators (`bots/quoting.py`, `obligations.py`) | |
| `MarketMaker` | the market maker's process and the client it sends through (`bots/market_maker.py`, `client.py`) | `Quoting` |
| `MarketMaker_proofs` | theorems about the two | TLAPS |
| `Scripts` | histories of `qa.outbound`: what the C++ engine answers to a script | `StreamEngine` |
| `MCEngines`, `MCMatcher`, `MCOrders`, `MCConsumers`, `MCLiveFeed`, `MCAccounts`, `MCBots` | finite instances | |

The engine is a pure function of the records it was given, so it is a set of operators on a record, with
one operator for each member function (`AddOrder`, `Match`, `Submit`, `Cancel`, …). `Matcher` and `Orders`
take the engine as a parameter: `Matcher` is proved for every engine that answers each record with one
anchor, which is proved of the C++ engine in its turn (`Engines!OneAnchorFirst`, theorem `AnchorsComeFirst`). The readers of the
stream (`Consumers`, `LiveFeed`) are checked on histories this engine produces (`Scripts`).

A process is composed with the rest of the exchange through an abstract module. `Matcher` implements
`AnswerLog` (proved), and `Orders` uses `AnswerLog` in the matcher's place, so that its state holds two
streams instead of a second process. `AnswerLog` carries the whole outbound stream as it is going to be
(`ideal`), which the deterministic engine fixes once a record is on the inbound stream; the variable is
history and no process reads it.

`OrderFlow` is the other seam. The gateway never sees a book; it reserves what an order may cost and releases it
as records come by. That this ends well depends on what the engine writes: that an order is accepted once, under
an id no open order has, and as it was sent; that a fill names two open orders of opposite sides, takes no more
than either still has and no more than the buyer's price. `Answered` says so of one answer, of the orders that
rest before it and after it. `Orders` assumes it of the engine it is given (`EngineTellsOrders`),
`Engines_proofs` proves it of the deployed one (`EngineKeepsTheContract`), and TLC evaluates the assumption on
the engine's reachable states in the three runs of `Orders`.

Definitions commented `Fault:` are variations of the definition that follows them: what the code would do
with a guard dropped, a count off by one, a release forgotten. No specification uses them. Each property is
known to fail when one of them replaces its original (`mutants` in `PROJECT.json`).

### 2.1 Engines

| TLA+ | code |
|---|---|
| `levels`, `orders`, `arrivals` | `OrderBook`'s price levels (FIFO lists), its id map and arrival counter |
| `live`, `index`, `next` | `StreamEngine::live_`, `client_to_order_`, `next_order_id_` |
| `Match` | the loop of `OrderBook::match`; arrival decides which side is the maker |
| `Forget`, `ForgetIfFilled` | erasing a spent order, and the index entry *by its key*, whichever order it names |
| `Turn`, `Settle` | one turn of that loop; the loop over the fills that forgets what they spent |
| `Snapshot`, `Restore`, `Readd` | `snapshot()`, `restore()` and one order of its loop: arrival numbers are renewed, one index bit per order survives |
| `NaiveMatcher!BestOrder`, `Turn` | `best_bid_order`, `best_ask_order` read off the set by price and arrival; one turn of `match()` |
| `NaiveMatcher!ContractFill` | `_to_contract_fill`: the record of a fill, and the maker forgotten once nothing remains of it |
| `Engines!Feed` | one inbound record reaching all engines |
| `Engines!Restart` | a worker restored from what the running engine last gave |
| `Engines!view` | what a consumer knows that only reads the outbound stream |

### 2.2 Matcher

`pc` follows `main()` and `run()`: `down` → `counting` → `replaying` → `booted` → `starting` → `running` ⇄
`applying`, and `failed` when `run()` caught an exception. Each call that another party can see is a step:
`Resume` (load, guard, spawn, restore), `CountAnchors` (XRANGE), `ReplayOne`, `BootCheckpoint`, `StartLoop`,
`Read` (XREAD), `ApplyOne` (the worker's pipe), `AppendBatch` (MULTI/EXEC with its reply) or `AppendFails`
(either side of EXEC), `WriteCheckpoint`, `TrimInbound`, `TrimOutbound`. `Crash`, `Fails`, `Halt`,
`ClearHalt` and `Deploy` (a restart, perhaps with another `checkpoint_hash`) can occur between any two of
these. A stream is kept whole, with the number of records XTRIM removed beside it; `NextAfter` is what XREAD
does on a trimmed stream.

### 2.3 Risk and Orders

A call is a coroutine: `Lookup`, then `Decide` (everything from the reply of the lookup to the next await:
in-flight check, symbol, price band, affordability, reservation, queueing, which nothing can interrupt),
then `queued`, `resolved` and `Finish`; a refusal takes `RecordRejected` and possibly `Reread`. The
producer's `TakeBatch`, `ClaimAndAppend` (one Lua script, run by Redis) and `Flushed` are separate steps, so
that other connections interleave with a pipeline; `FlushBreaks` loses the reply after any part of it.
`Watch` is `watch_stream` applying one outbound record. `SaveCheckpoint` and `Restart` are `app.py`'s.

`Risk` keeps Reservation *objects*: `pending` and `open` refer to entries of `pool`, because the code's
`_abandon` and `apply` act on one shared object, and which of the two still refers to it is the point.
Cash and inventory share one function by resource, as `reject_reason_for` and `release` treat them alike.
`Rows` is what a checkpoint keeps of the open reservations: the table that `OrderFlow` follows.

### 2.4 Readers of the stream

`Outbound` owns what the readers share. `coming` are the batches the matcher will append, `stream` and
`floor` what it has appended and how much of it XTRIM removed, `marks` the checkpoint hashes. The trimmer's
loop over its readers is a step for each (`AskReader`), since they go on saving meanwhile.

`LedgerConsumer` follows `recover()` and `run()`: `down` → `replaying` → `rebuilding` → `booting` →
`polling` → `flushing` → `saving`. A flush is one transaction; when it fails, it may have been committed.
`take_dirty()` runs before it, so `FlushFails` empties `dirty` and sets `owed`.

`Archiver` is a fold (`Archive`, with `SampleUntil`, `EnsureUnit`, `CollectTrades`, `SealBefore`, one for each
method) and a process around it: `WriteFile` and `WriteBookmark` are steps of their own, so that a death falls
between any two files. `hurt` is a history variable: units whose write failed, which the code does not retry.

### 2.5 Fan-out and browser

One event loop, so an action of `FanOut` is what runs between two awaits. `ReadAndRoute` is `step()`, which
numbers and queues private messages; `Tick` is the conflator; `TakeBatch` is the writer of a connection, whose
socket takes `WireMax` frames before a send has to wait, which is what makes a connection `busy`. A browser is
a record whose fields are `client.ts`'s, `gaps.ts`'s, `buffer.ts`'s and `portfolio.ts`'s. A resynchronisation is
`Fetch` (the gateway reads tables that lag the stream) and `Dispatch`; live messages arrive between the two.
Three history variables mark where the code promises nothing: `unseen` (a frame skipped for a busy
connection), `aligned` (whether the last resync was undisturbed) and `upto`.

### 2.6 Accounts and the limiter

A registration is `Lookup`, `Insert`, `Enqueue`, then the producer's `Flush` and `Flushed`, or one of the ways
they fail: `FlushBreaks(n)` (the connection breaks after the first n commands), `ReplyLost`, `FlushRefused`,
and `Withdraw` where the handler caught `ExchangeHalted`. The ledger is reduced to what it does to `accounts`
and its foreign key. `lost` is history: ids on the stream whose caller was told otherwise.

The limiter counts tokens in ticks, so that a refill is exact; the code's floats refill by the same formula.

### 2.7 Market maker

A tick of the maker is `StartTick`, then for each side `Keep`, or `Pull` and `Placed` / `Refused` /
`PlaceHalted` / `PlaceBreaks`. A request is executed or not, and its answer comes, is a 503, or is lost; a
request whose caller has given up may still be executed (`LandLate`). `strays` is history: orders the maker may
have and does not know of.

## 3. What the runs check

| run | instance | what it shows |
|---|---|---|
| `engines_parity` | two users, two prices, two symbols, four order ids, cancels, a forwarded record and every refusal, for one field out of bounds and for two; restart at any time | both engines answer alike but for the reason that refuses a submission out of bounds twice, a restored engine answers as if never stopped, the book agrees with what the events tell and never stays crossed, price-time priority, one anchor per answer, an index entry always leads to its live order, and while no live client id is reused, every order can be cancelled |
| `matcher_recovery` | an engine of one price, four requests, three records, batches of two, two configurations, three faults | the outbound stream is what an engine that never stopped would have written; positions, engine and checkpoint agree; recovery never runs short or reads past a gap; `Matcher` implements `AnswerLog` |
| `matcher_liveness` | two requests, three records, one configuration, two faults | every record is answered once faults stop; the process is never refused; `Matcher` implements the fair `AnswerLog` |
| `orders` | three calls, seven orders, each key may expire once | one order per client id, true answers, commitments exact to the tick, nothing promised twice |
| `orders_faults` | three calls, two orders, one lost reply and one restart | the saved checkpoint is a replay; commitments are exact unless a reply was lost; every call is answered and no reservation stays pending |
| `orders_after_restart` | three calls, one restart | **violation**: a retail position goes below zero |
| `consumers` | seven orders and credits over five flush units, batches of five, trimming, one failed call or write or a clean stop, one death | cash is conserved in the process, its checkpoint and PostgreSQL; each is a replay of a prefix and none is ahead; files hold whole units; nothing is trimmed that is needed or not archived; both readers catch up |
| `archive_late_stamp` | a registration stamped before the trades it follows, one death | **violation**: the bookmark passes a trade no file has |
| `live_feed` | a browser of a user who rests, makes and takes; a socket of one frame, a private queue of three, one halt, crash, cut or failed request | every book, print and bar shown is true; no private message is lost without a disconnection; the portfolio is the ledger's; when nothing moves any more, what is shown is current |
| `accounts` | two calls for one name and a third, one cookie, two faults; and, beside it, every history of five orders of two users | what a call was told is what it left; every account has its user unless a reply was lost; a granted account reaches the read model; the limiter lets through exactly what its windows have room for |
| `accounts_orphan` | the same | **violation**: an account on the stream whose user is gone |
| `bots` | one symbol, four decisions, positions up to two units either way that move the quotes across each other and onto the floor, trades of one unit, 503s at will, one lost answer, failed read or kill | quotes shown were accepted; orders in the book are known, but for those given up on; the market wanted is uncrossed, no wider than the flat one, symmetric above the floor, and short it meets the obligations it meets flat |

### Bounds

- *Engines.* Four order ids give a book with two levels on a side or two orders on a level, a taker that
  crosses both, a partial fill of the last one and an order that rests behind it. Quantities 1 and 2 give
  exact, partial and multiple fills: offers are of two units, and a bid of one is at the price that crosses
  them. Immediate orders cross everything, since a limit that crosses less is already among the others. A
  malformed record has a side or tif that is none, a price or quantity of zero, or one of either. The
  engines pass every `Sequenced` kind through in one branch, so that one kind stands for the three.
- *Matcher.* Three records and batches of two give a full batch, a short one, and a checkpoint between
  them; three faults give a crash, a second crash during the recovery from it, and a lost reply, or a crash and
  a worker that has applied records lost as the loop starts again. Answers
  have one record or two or three, so that anchors and records are not counted alike. The theorems have no
  bound.
- *Orders.* Three calls are an original, its retry and an order that competes for the same cash; the retail
  user's cash misses the sum of its two buys by one tick of fees. A pipeline holds two items, so that one
  can be run and the other not. Expiry is bounded by one per key: a second gives nothing new, because the
  key is all that is remembered.
- *Consumers.* The script has two seconds of trades in one unit, an expired remainder, units without a record,
  a position opened and closed again, and a record that ends its unit; batches of five cut it inside a unit.
  One fault and one death, in either process, reach every pair of steps they can separate.
- *Live feed.* Two batches put a read before and after everything a browser does. The queue of three is filled
  by one read, so that an overflow happens; a socket of one frame makes a connection busy at once. Browsers
  share only the numbering of one user's messages, each of which goes to all of that user's, so one is enough.
  The first bar has a trade in each of two published batches and a third trade closes it, so that a checkpoint,
  a death or a reconnect can fall inside an open bar.
- *Accounts.* Two calls race for one name and two faults give a lost reply and a restart of the ledger on top
  of it. The limiter shares no variable with accounts: `MCNext` lets a behaviour be of one or of the other,
  which explores both state spaces and not their product. A bucket of two tokens of two ticks is emptied,
  partly refilled and overfilled within five orders and five ticks.
- *Bots.* Four decisions are two ticks that replace both sides, or more that replace one. The fair value of
  five ticks, with a skew of half of it per unit, gives positions of one and two units what takes many at the
  parameters of `config/quant_arena.toml`: a division that rounds, a spread that breaks the obligation, a bid
  through the floor and an ask down to it; and the skew alone moves the bid across the old ask. The theorems
  hold for all parameters.
- *Orders, liveness.* The evaluation of ENABLED makes the C++ engine costly there; the two sells of that
  run never trade, so `MCRest` gives the same answers (`RestIsTheEngine` compares them).
- Deadlock is not checked where the instance ends by itself: the calls are used up, the streams are full, a
  reader has nothing left to read.
- Users and calls are permuted (`SYMMETRY`) only in runs without temporal formulas over them.

### Fairness

`Matcher!FairSpec`: `run()` catches every exception and recovers (`cpp_runner.py:233-267`), the container is
restarted (`docker-compose.yml`, `restart: unless-stopped`), and `watch_health` pings for ever
(`streams.py:404-438`); so `Progress` and `ClearHalt` are weakly fair. Faults are finite by their bound and
nothing else is fair: not clients, checkpoints or trims. `Orders!FairSpec`: a coroutine that can run is run,
`_loop` and `watch_stream` survive their exceptions, and the matcher answers, which is what
`matcher_liveness` shows. Restarting the gateway is an action, not a duty.

`Consumers!FairSpec`: the matcher publishes, and the ledger and the archiver take a step as long as one is
enabled, a restart included (`docker-compose.yml`). It is weak fairness with the enabling conditions written
out, because TLC evaluates ENABLED of a fold slowly. `Accounts!Fairness`: the event loop runs every call and
the producer, and the ledger reads and flushes; calls that have not come, the watchdog, logins and faults are
not fair. `LiveFeed` states no liveness: a browser is not obliged to read. What a user would want of it, that
the screen becomes current, is the invariant `QuietIsCurrent`: wherever nothing is left to do, it is.

## 4. What is proved

`Matcher_proofs` holds for every engine with one leading anchor per answer (`EngineAnswers`), every batch
size, any number of configurations, faults and records, and has no other assumption. A worker lost as the loop
starts (section 5) is a step like any other: the properties say what holds after it, which is every count.

| theorem | states |
|---|---|
| `TypeCorrect` | `Spec => []TypeOK` |
| `Invariance` | `Spec => []IInv` |
| `AnsweredExactlyOnce` | `Spec => []ExactlyOnce` |
| `BatchesKeepStep` | `Spec => []InStep` |
| `CheckpointNeverAhead` | `Spec => []CheckpointIsConsistent` |
| `EnoughRecordsRetained` | `Spec => []RecoveryIsNotShort` |
| `NoGapIsRead` | `Spec => []NeverReadsPastAGap` |
| `MatcherIsAnswerLog` | `Spec => ImplementsAnswerLog`, the refinement |
| `OneConfigNeverRefuses` | with one configuration, `Spec => []NeverRefused` |

*The argument.* None of these is inductive: between two steps the engine is ahead of the stream, or the
stream ahead of the positions. `IInv` names the number *k* of answered records, which is the number of anchors on
the outbound stream, and says two things of it. `Counts` says, for each value of `pc`, how many records the
positions, the batch, the checkpoint and the retained streams stand for. It uses of the engine only that an answer
holds one anchor (`AnswerCountsOne`), so it holds of an emptied engine too, and with it everything recovery
relies on: what `CountAnchors` counts behind the checkpoint is what was answered since (`AnchorsBehind`), because
a batch adds as many anchors as it has records (`AnchorsConcat`). `Content` says that engine, checkpoint and stream
are those of one engine that never stopped, whose run the history variables are (`HistoryInv`); it holds until a
worker is lost as the loop starts. `OutputsAreNext` then shows that a batch is the next part of the ideal
stream, so that a lost EXEC answers all of it or nothing.

`Engines_proofs` holds for every set of users, symbols and records, every finite grid of prices
(`PricesAreAGrid`) and any number of restarts. Of the records it assumes what decoding one leaves
(`InputsAreRecords`): a kind the engine knows, and for a submission a user, a symbol, integers for price and
quantity, of any sign, and a price on the grid if it is positive. Side and tif are anything at all, as
`unpack()` leaves them; the two engines check them at different places (`Refusal`, in either module), and
`Refusals` shows where that tells: for the submissions that `BadTwice` names, and no others (section 5).

| theorem | states |
|---|---|
| `EngineInvariant` | `Spec => []EInv` |
| `BookStaysSound` | `Spec => []BookIsSound` |
| `ClientIndexStaysExact` | `Spec => []ClientIndexIsExact` |
| `AnchorsComeFirst` | `Spec => OneAnchorFirst` |
| `PriceThenTime` | `Spec => PriceTimePriority` |
| `RestoredStaysAlike` | `Spec => []RestoredAgrees` |
| `EnginesStayInStep` | `Spec => []EnginesAgree` |
| `EngineKeepsTheContract` | from an empty book on, an engine as `EInv` has it stays one and answers every order request as `OrderFlow!Answered` has it |
| `EventsTellTheBook` | the same of every step of `Spec` |

*The argument.* One record runs through loops in which none of the properties hold: the book is crossed while
`match()` works, the index names spent orders until the second loop forgets them. So there are two invariants.
`Sound` holds throughout: the orders and the queues of their levels name each other (`Book`), every live order
is the one in the book (`Owned`), an entry of the index leads to an order of its key (`Indexed`). `Engine` adds
what holds between two records: nothing is crossed. `match()` gets there because every turn empties an order,
so that after as many turns as the book had orders there is nothing left to cross (`FewerOrders`,
`CanMatchNeedsOrders`, `Matched`); and to be uncrossed is to have every bid below every ask (`ClearIsUncrossed`),
which a cancel or an expiry cannot undo. The invariants imply that the lookups of `stream_engine.cpp` that throw
when they miss never do: `snapshot()` finds each live order in its book, `cancel` the order the index names, and
`restore()` is given ascending ids below the next one.

`PriceTimePriority` compares a fill with every order that rested before the record and rests after it, and rests on
what `match()` keeps: fills take the first of the best level, a level is emptied before the next, and ids grow
(`BestFirst`, `PriorFill`).

A restored engine has other arrival numbers, so it never equals the one it replaces. What they have in common
is `Alike`: everything but the numbers. Two lemmas make this enough. Arrival numbers are only compared, of two
orders of one symbol, and there they are in the order of ids in both engines (`OlderIsSmaller`); hence every
operation takes engines that are alike to engines that are alike, with the same answer (`AlikeApplied`, one
lemma for each operation). And `Restore(Snapshot(e))` is alike to `e` (`RestoredIsAlike`): order by order it
rebuilds the index because an entry of the index names an order of its key (`ReadBackOneMore`), and the queues
need no record in the snapshot, since the queue of a level is the ascending list of the ids of its orders
(`LevelsAgree`, `ClimbsAreEqual`).

The reference engine has no queues and no second loop, and the relation that carries the proof is `Mirrors`: its
set holds an entry for every order of the deployed book, arrival number included, and beside it both engines
know the same orders under the same keys. In the set, the order that goes before all others on its side is the
one at the front of the best queue (`BestIs`, by `BestFirst`), so one turn of either `match()` makes the same
fill and leaves the same orders (`TurnMirrors`, `MatchMirrors`). What differs is when a spent order is forgotten.
The deployed engine looks at both orders of each fill; the reference engine looks at the maker alone, and at the
order that arrived when all is done. Every fill has the new order on one side and each time another order on the
other, for a fill empties one of the two (`Made`). So both end by forgetting exactly the orders that left the book
(`MirrorsMatched`), and since an index entry is erased by its key, whichever order it names, what is left of the
index depends on which orders were forgotten and not on when (`Lives`, `LivesAgree`). The maker that the adapter
looks up is always there (`ToldOneMore`), so `_to_contract_fill` never misses one.

The contract is proved along the turns of `match()`. A run of records leads from one table of rows to another
when each may follow where the one before it left the rows (`Passes`); the acceptance leads to the book with the
new order (`AcceptFollows`), every turn adds one fill (`FillFollows`, `TurnFollows`: the order that arrived is on
one side of it, because nothing else crossed, `TakerArrived`), and an expiry or a cancel takes one row out
(`CancelFollows`). That the second loop of `submit` forgets the spent orders only afterwards does not matter,
since the rows are those of the book (`SettledRows`).

`Orders_proofs` holds for every set of calls and orders, every holding, batch size and price band, and any
number of lost replies, restarts and expiries, unless a hypothesis says otherwise. It assumes of the requests
what the API's validation leaves (`AsksAreOrders`), that a reservation named by a call is not one named by an
order id (`CallsAreNoIds`), of the genesis that holdings and the price band are numbers and cash is not a symbol
(`HoldingsAreNat`, `BandIsNat`, `CashIsNoSymbol`), and of the engine the contract of the other two components:
one leading anchor for each record (`EngineAnswers`) and `EngineTellsOrders`. Both are proved of the deployed
engine. TLC evaluates every assumption in every run.

| theorem | states |
|---|---|
| `KeysAreTruthful` | `Spec => []IInv` |
| `SubmittedAtMostOnce` | `Spec => []AppendedOnce` |
| `OutcomesAreTrue` | `Spec => []AnswersAreTrue` |
| `CommitmentsAreKept` | `Spec => []CommitInv` |
| `WhatIsSetAsideIsCommitted` | `Spec => []CommitmentsExactUnlessLost` |
| `WhatIsSetAsideIsCommittedIfNoneIsLost` | with `MaxLost = 0`, `Spec => []CommitmentsExact` |
| `CheckpointsReplay` | `Spec => []CheckpointIsReplay` |
| `NothingIsPromisedTwice` | with `MaxLost = 0` and `MaxRestarts = 0`, `Spec => []NothingPromisedTwice` |

The hypotheses of the last are the disagreements 1 and 6 of section 5: after a restart (`orders_after_restart`
shows it) or after a lost reply the property is false of the code. What is left is every schedule of calls,
retries, expired keys, failing appends and late answers of a gateway that loses no reply and does not restart.

*The argument about keys.* `AppendedOnce` speaks of the stream and `AnswersAreTrue` of the calls; what joins them is
the key. `ClaimInv` counts: the records under a key are at most its expiries, plus one if the key now says
`accepted`, since the script appends and claims in one step and only when there was nothing to claim.
`TruthInv` says that until the key has expired, the value of a future or an answer is the value of the key.
It survives a change of the key because a key without an outcome is one nobody was told an outcome of. The
cases are few: a call that answers or moves (`CallMoves`), calls ended by the producer or by a restart
(`CallsEnd`), and the three steps that write a key. The risk state does not occur: both theorems hold
whatever the reservations are, and a market order keeps its key when it is priced (`PricedKeepsKey`).

*The argument about commitments.* That what is set aside is what the orders commit speaks of sums; it is not
inductive, because a release subtracts what the order *was* reserved at, which has to be what is still counted for
it. `WellKept` says it order by order: every entry of `pending` and `open` refers to a reservation of its own
(`Separate`, with `Shape`), and every resource's total is the sum of what they owe (`Exact`). A call that decides adds a
reservation (`Reserves`), an abandoned one takes its own away, a record of the stream moves, cuts or closes one
(the `Observe` lemmas, one for each kind of record). For these the stream has to make sense: a fill must take
from orders that are open, and no more than they have. This is where the engine comes in, with an idea: compare
the live risk state with `Told`, the risk state of a reader that has only ever read the stream. Told from the genesis on,
the stream keeps a table of open rows that is always the engine's (`Rows(Told(ideal, n)) = RestingIn(…)`, in
`LogInv`), so each record follows. The live state has the same open orders as the reader (`Alike`) and, beside them,
one pending reservation for each order sent or waiting that the stream has not answered (`AwaitedInv`,
`PendingInv`, `QueueInv`). The checkpoint is taken of the live state and is `Dump(Told(…))` all the same, since a
dump leaves out what is pending (`SavedInv`); that is `CheckpointsReplay`, and it is why a restart puts the
invariant back without the pending part. `Solvent`, that no total exceeds what is settled, holds
while nothing was forgotten: affordability is checked against every reservation, and a fill at no more than the
reserved price is covered with its fee (`OwedIsReserved`). `CommitInv` is the conjunction; a lost reply ends all
of it but `LogInv`, because the release that follows is the code's and wrong.

`Consumers_proofs` holds for every history, batch size, list of readers, and number of faults and deaths.

| theorem | states |
|---|---|
| `ConsumersInvariant` | `Spec => []Inv` |
| `BookmarkStands` | `Spec => []BookmarkIsAPosition` |
| `LedgerResumes` | `Spec => []LedgerCanAlwaysResume`: what is trimmed lies behind the ledger's checkpoint and behind where it reads, and it is never refused |
| `ReadModelFollows` | `Spec => []ReadModelIsReplay` |
| `CashIsConserved` | `Spec => []CashConserved` |

It assumes of the histories what the matcher and its callers guarantee. `AmountsAreIntegers` and
`StampsAreSeconds` are types; `WidthsAreSeconds` and `WidthsDivideUnit` are refused otherwise (`BarSet`,
`ArchiveState.__init__`). `HistoriesAreMatched` says that an order id names one order (the engine's counter),
and that the account of a user comes once, before anything else that moves its cash (its id is drawn from a
sequence, and `reject_reason_for` passes no order without cash). Without the first half a dirty row could keep
the columns of another order, since a conflict only updates what remains; without the second a deposit
would be counted on top of cash that `AccountCreated` overwrites. TLC evaluates all of them on every run.

*The argument* has four parts. `AskInv`: the trimmer asks its readers one after the other and uses the answers
later; once the ledger has been asked, the oldest mark seen is not after the ledger's present one, and this
survives the ledger's own saves because a mark never goes back (`MarkInv`). `ArchiveInv`: the bookmark comes
out of a fold over records, each of which keeps every open unit at a position of the stream, every bar and
print on a stamp (`ArchivePlaced`). `CopiesInv`: the process is the replay of what it has read, its checkpoint
of what it had read then, and the database is *between* two replays: it is the projection of the ledger at
some earlier record, and everything touched since is in the dirty set or a full flush is owed. This is what
makes a partial flush a projection again (`FlushDirtyProjects`) and what a flush that failed after
`take_dirty` breaks, but for `owed`. And `ReplaysAreSound`: a replay is balanced after every prefix, record by
record (`PostApplies`: a fill gives the seller what it takes of the buyer, fees to the house).

Sums and folds are proved about in `FoldFacts`. The library's induction schemes take an operator as a parameter,
which the provers cannot instantiate; the lemmas there are stated about *sets of values* instead (a set of
numbers that contains 0 and with *n* also *n* + 1), and about a constant operator `Op` that an INSTANCE
replaces by `Post`, `File` or addition.

`LiveFeed_proofs` holds for every history of the stream, any browsers and users, symbols, bar widths and batch
size, every size of the queue and the socket, and any number of cuts, overflows, deaths of the fan-out and
failed requests. It has no assumption but the types of those constants.

| theorem | states |
|---|---|
| `FeedStaysInOrder` | `Spec => []FeedIsInOrder` |
| `NothingIsDroppedSilently` | `Spec => []NothingDroppedSilently` |
| `TapesAreTrue` | `Spec => []TapeIsTrue` |

*The argument about private messages.* `NothingDroppedSilently` counts from the end: the last message on its way
has the user's newest number. That is not inductive, since a browser that has read everything must still know where
it is. `Run` says it of a list of frames: there is a count along it, which goes up by one at each private frame
and carries that frame's number, starts at the number the browser received last (anywhere, if it received none) and
ends at the newest. Routing appends one and draws one number (`RunAppend`, `RouteOk`), the writer moves frames
from the queue to the wire, whose market frames do not count (`RunMore`), and the browser takes the first (`RunTail`).
A full queue leaves `Run` behind, and `overflowed` is what is then known of the connection. A restart of the
fan-out starts the numbers again, and no connection outlives it (`FeedInv`).

*The argument about prints.* A print passes four places: the market's tape, the queue of a connection, the wire, the
browser's tape. `Chain` says of them, one symbol and one browser at a time, that they lie one behind the other in the
stream: there are positions *a* <= *b* <= *d* such that what is shown are fills up to *a*, on the wire up to *b*, in
the queue up to *d*, and in the market's tape behind *d*, each list ascending. Every step moves a part of it to the next
place or throws one away, and none can turn back. What makes this hold over restarts is what `Horizon` and `Pending`
say: a fan-out that is down or replaying has told nobody of more than the stream holds, what it reads back is
its own tape but is not going to be told, and when it serves, the first tick has thrown that away (`ServeKeeps`
fails without it, as the mutant `ServeBeforeTick` does). The tick sends all symbols' prints one after the
other, taken from a set in some order; of one symbol they are its tape (`TapeFramesAre`, by a fold over the symbols).

`Accounts_proofs` holds for every set of calls, names and cookies, and any number of faults. It has no
assumption.

| theorem | states |
|---|---|
| `AccountsInv` | `Spec => []IInv` |
| `AccountsKeepTheirUsers` | `Spec => []AccountsHaveTheirUsers` |
| `RegistrationsAreWhole` | `Spec => []RegistrationIsWhole` |

*The argument* is who may delete a row. An id is drawn once, and a call that has a row has one of its own
(`RowInv`); while a call is in the producer's hands it waits, and once its id is on the stream outside of them
the reply to it was lost (`SentInv`). So a withdrawal deletes a user whose account is not on the stream, or is
in `lost`. Without `SentInv` the invariant breaks at `Withdraw`. `RegistrationIsWhole` speaks of answers, and
needs `RegInv` besides: what an answer said is still so, because the stream names nobody twice and nobody
before its record was sent (`OnceInv`), and because no other call has the id (`OwnInv`).

The rate limiter has a state of its own, and the end of `Accounts_proofs` holds for every rate, refill interval,
set of users and history of it.

| theorem | states |
|---|---|
| `BucketsKeepTheWindows` | `LimiterSpec => []LimiterInv` |
| `LimitIsTheWindow` | `LimiterSpec => []LimiterIsExact` |

*The argument.* `LimiterIsExact` speaks of all windows of the past and a bucket keeps one number. `Level` ties
them: the number is the least of a full bucket and of the room left in each window that begins at an earlier
order of the user. Both directions are needed: *at most* for an order that passes, *attained* for one that is
refused.

`MarketMaker_proofs` holds for every fair value, inventory, size and spread
(`QuotingParameters`), and any number of decisions, trades, 503s, lost answers, late requests and restarts
(`MakerParameters`: fair values are naturals, and the mark for no quote is not a quote).

| theorem | states |
|---|---|
| `QuoteIsAMarket` | a bid of at least one tick below an ask |
| `ShortMirrorsLong` | being short moves the quotes as being long does, the other way, as long as neither reaches the price of one tick |
| `InventoryLowersTheQuote` | more inventory never raises a quote |
| `QuotesAndOrders` | `Spec => []IInv` |
| `ShownQuotesWereAccepted` | `Spec => []QuotesAreOrders` |
| `NoOrderIsForgotten` | `Spec => []OrdersAreQuotes` |
| `SpreadIsBounded` | no quote is wider than twice the half spread |
| `ShortMeetsObligations` | a market that meets the obligations at no inventory meets them at every short one |
| `QuotesStaySound` | `Spec => []QuotesAreSound` |

*The argument* is the client order id. `IdInv`: no id at or above the counter has reached the exchange, the id
being sent stands for one quote only, however often it is retried, and no late request carries it. `BookInv`
then accounts for every live order: the quote of its side, the one being sent, one still to be cleared, or a
stray. The quoting theorems rest on two facts about floor division, that it is monotone and, taken of a
magnitude, odd.

`QuotesStaySound` has no hypothesis: it is about every configuration and every inventory. What it claims of the
mirror image holds while the floor of one tick is out of reach, and what it claims of the obligations is about
flat and short makers: a short maker keeps what it keeps when flat (`ShortMeetsObligations`), a long one quotes
the same spread about a lower mid and in the end breaks the obligation (section 5).

*Only model-checked:* liveness (fairness and ENABLED are out of the prover's reach); of the archive, that files
hold whole units and that nothing is trimmed that it needs
(`ArchivedUnitsAreWhole`, `TrimmedIsKept`), the second of which is false of some histories with late stamps
(section 5); of the live feed, that books, bars and portfolios are true and that a quiet screen is current
(`BooksAndBarsAreTrue`, `PortfolioIsLedger`, `QuietIsCurrent`).

## 5. Disagreements found

Shown by a run:

1. After a restart, orders appended and not yet answered hold no commitment (`app.py:118`), so that a retail
   account can sell a unit twice (`orders_after_restart`).
2. A registration reads the clock long before it appends (`routes_auth.py:84-106`), so stamps on the stream
   go backwards. The archiver then re-opens an earlier unit with a later resume point
   (`archiver/state.py:210-227`), and a crash loses records that `archiver/state.py:42-43` promises are on
   disk (`archive_late_stamp`). The bookmark can also go back behind one already published, to which the
   matcher may have trimmed; the archiver is then refused at its next start. It can even go back to the very
   beginning: a restarted archiver counts from `0-0` again (`archiver/state.py:151`; `runner.py:90-94` restores
   only where it reads), so that the first unit it opens resumes after `0-0`, and if a late stamp opens an
   earlier unit after it, writing that one stores `0-0` as the bookmark.
3. A registration whose reply was lost withdraws its user although its account is on the stream; from then on
   every flush of the ledger violates a foreign key (`routes_auth.py:113`) (`accounts_orphan`).

Met while modelling, and excluded from the properties by a history variable, a condition or an assumption that
is named:

4. `forget_if_filled` erases the client index by key (`stream_engine.cpp:334`), while `snapshot.py:29-32`
   says the newer of two live orders with one client id remains cancellable. `ClientIndexIsExact` is about
   histories that do not reuse a live id.
5. `CppMatcher.start` can replace a worker that exited after recovery with an empty one
   (`cpp_runner.py:271`): `cpp_runner.py:202-204` says that nothing is matched on an empty engine. It is the
   second disjunct of `StartLoop`, and the variable `emptied` records it: from then on the answers are those of
   another engine, and a checkpoint keeps it; the properties of `Matcher` claim only the counts.
6. `submit_order` releases the reservation of an order whose reply was lost even if `OrderAccepted` has been
   applied (`routes_orders.py:294`, against the comment above it), hence `CommitmentsExactUnlessLost`. The same
   release happens when a retry's reservation was adopted by the original's `OrderAccepted`. For a sell the
   difference is saved in the checkpoint and read back, so it outlives a restart.
7. A crash of the gateway, or a Redis command error, between the commit of a user and the append leaves a
   user without an account and the name taken, which `routes_auth.py:114-118` sets out to prevent. A session
   can outlive a user that was withdrawn.
8. The ledger flushes only with a batch (`consumer.py:262`): after a failed flush PostgreSQL stays stale until
   something is traded (`owed`).
9. The archiver drains its units before it writes them, so a failed write loses a unit (`hurt`). A clean stop
   writes the first part of a unit and the restart replaces it with the rest. SIGTERM does not reach the
   `finally` that stops it cleanly.
10. A frame skipped for a busy connection is not repeated when the symbol goes quiet, though
    `subscribers.py:117-120` says the next snapshot repairs it; a busy newcomer loses its first snapshot; a
    halt is not repeated to the busy nor told to those who join during it (`unseen`). A connection is to be
    busy "until written" (`subscribers.py:75`), but a frame offered while a batch is being sent is taken for
    written with it. Two bars of one channel closed in one tick carry one number, and the browser drops the
    second as a duplicate (`conflation.py:200-207`, `gaps.ts:108`).
11. A resync that reads a database behind or ahead of the private messages loses or repeats them, and a
    reconnect during a resync starts none (`App.tsx:137`) (`aligned`).
12. The market maker forgets a quote whatever the cancel's answer was. The comment there says "A cancel that was
    refused means the order is already gone" (`market_maker.py:92-94`), but after 503, 429 or 401 it is live
    and holds cash until the next start. A placement given up after three 503s may be live, and a start-up read that fails
    reads as no orders (`strays`). Quotes that were filled still count as resting (`market_maker.py:58`). A
    tick that moves the bid over the stale ask trades with itself. A long position widens the spread against the
    mid: eight full quotes long, at a fair value of 4000 and the parameters of `config/quant_arena.toml`, it
    breaks the obligation of 50 basis points (`QuotesAreSound` claims the obligations of short positions only).
13. The C++ engine checks price, quantity, side and tif in this order (`stream_engine.cpp:339-350`), the reference
    engine side and tif first (`adapter.py:375-382`). A submission out of bounds in both ways is refused by both,
    for different reasons, so the event streams are not "byte-identical" (`README.md:115`). The generators of
    the tests draw no such record, and the gateway sends none (`Side` and `Tif` are types of its request,
    `routes_orders.py:56-57`); `EnginesAgree` allows these answers to differ in that reason and in nothing else
    (`BadTwice`).

## 6. Assumptions and what is not modelled

- Redis loses nothing it acknowledged (`appendfsync always`), and there is one matcher and one gateway.
- The Redis client sends a call once. Its default retry after a lost reply would repeat a transaction.
- A call that failed has taken effect by the time its caller goes on, or never will; a dead process's
  commands are not run after its successor started.
- Redis runs a script, an EXEC or an HSET in one step.
- Timestamps, sequence numbers and versions of records are dropped; a sequence number is a position.
- A `ConfigureReplay` record at gateway boot does not touch the risk state and is left out of `Orders`, and
  so are accounts being created: users and their holdings exist at the genesis of the streams (`Accounts`
  has registration).
- The rate limiter refuses before anything is read and leaves no trace, so `Orders` is without it. Cancelled
  requests, unkeyed appends and single commands of a pipeline that fail are left out.
- An idempotency key lives for an hour, an order in flight for seconds: a key expires only when its order was
  answered and no call for it is in flight.
- The halt flag is no variable of `Orders`: `claim_and_append` does not read it, and what a broken connection
  does to the calls of the batch, an answer that says halted, is part of `FlushBreaks` and `Finish`.
- The readers run under one configuration; `Matcher` has several. During a rolling change a process that
  replays from genesis under the new one can find records trimmed by a matcher under the old one.
- In `LiveFeed` the ledger is its projection at some earlier record (`ReadModelIsReplay` is what allows it), a
  browser has one connection and asks for all channels at once, and pages are not closed. Bars of one width
  are charted, and old prints and bars are not dropped (`TAPE_LIMIT`, `BAR_LIMIT`). The first tick of a fan-out runs before its server listens (`server.py:125-147`).
- In `Accounts` the producer carries registrations only, and a user name is free again once its user has been
  withdrawn. Passwords and the hashing of them are left out.
- In `MarketMaker` the exchange is what one maker can tell of it, and one unit is traded at a time.
- `MaxInbound`, `MaxFaults`, `MaxCrashes`, `MaxOrders`, `MaxTick`, `MaxLost`, `MaxRestarts`, `MaxExpiries`,
  `MaxDecisions`, `MaxInventory` and `WireMax` are bounds of the checker, not of the code.

Not modelled: the **backtest** (one sequential pass over files, with floating-point metrics, nothing
concurrent and nothing kept), the **web screens** (rendering; the resynchronisation wired in `App.tsx` is in
`WebClient`), the order ticket and the mock stream of the web client, the **noise traders** (random orders,
nothing remembered) and the sources of fair values, the routes of the gateway that only read, the
**configuration** (values; the models take those they need as constants), and the **scripts and deployment**.

## 7. What is left

- An abstract specification of idempotent submission that `Orders` implements, with the halt flag as a
  variable of the producer.
- Proofs of `TrimmedIsKept` for histories whose stamps do not go back, and of what the live feed says of books,
  bars and portfolios.
- Several connections of one browser, and unsubscribing, in `FanOut`; several configurations in `Outbound`.
