# A verification project for the ibkr_lt trading runtime

TLA+ models of what the runtime does with orders, positions and bars: the order
manager and the tasks of the engine that share it, the adapter between them and
TWS, the operator's approvals and the entry block, the start-up gate and what a
restart finds, the bars of a live run, the replay of a backtest and its split
among worker processes, and the monitor that watches from outside.  TLC checks small instances; TLAPS proves the central
invariants for every instance.  Paths are relative to `src/`.

## The system

| Part | State | Operations | Talks to |
|---|---|---|---|
| Engine (`core/engine/runner.py`) | phase, entry block, strategy entries, latest bars, the window an entry was last asked for | start-up, the bar loop (exits, then entries), health monitor, reconciliation loop, approvals | everything below, by calls and awaits in one asyncio loop; strategies run in a thread pool |
| Order manager (`core/orders/order_manager.py`) | owner, role and trade of each order id, pending closes, protective stops, the signal queue | `submit`, `submit_intent`, `submit_close`, `ensure_protective_stop`, `drain_orders`, `drain_fills`, `drain_order_updates`, `cancel_session_protective_stops` | portfolio, broker adapter, approval store, entry block |
| Portfolio (`core/portfolio/state.py`) | positions: broker-wide, per strategy, per lot | `apply_fill`, `adopt_*`, reads | written by the fills drain, read by the bar loop and the risk policy |
| IBKR adapter (`core/adapters/ibkr/`) | the next order id, one queue per kind of callback, the subscriptions | submit, modify, cancel, streams of fills, updates and bars, request/answer calls | the reader thread of the TWS client puts callbacks on the queues |
| Approval store (`core/orders/approvals.py`) | approvals by id | request, approve, reject, mark submitted | order manager, operator API |
| Start-up gate (`core/startup/controller.py`, `position_gate.py`) | status, one action field, the last submission, an event | match, wait, submit, refresh | broker, engine, operator API (threads) |
| Ownership ledger, strategy state (`core/startup/ownership.py`, `strategy_state.py`) | JSON files | load, record an adoption, apply a fill, save | engine, order manager |
| Paper broker (`core/adapters/paper/`) | pending orders, ready fills, the replayed bars | submit, modify, cancel, `on_bar`, `bars` | engine, order manager |
| Bar pipeline (`core/data/`) | the bar being built; per instrument a frame, pending rows, cached resamples | `on_bar`, merge, flush, trim, resample, fetch | data feed, features, scheduler, API |
| Features (`core/features/`) | a second copy of the bars with a version, caches by timeframe and by indicator | preload, `on_bar`, views cut to a clock | scheduler, strategies |
| Scheduler (`core/engine/scheduler.py`) | strategies by primary instrument | warm-up check, contexts | bar pipeline, features |
| Heartbeat monitor (`tools/heartbeat_monitor.py`) | failures in a row, last answer, active alerts | poll the health endpoint, keep the event stream | the control API, from a process of its own |
| Backtest (`backtest/`) | chunks of sessions, the candidates of their workers | load, split, run the workers, replay | engine, paper broker |

What makes each part correct:

* Order manager: every order at work is tracked, a fill finds its owner, a lot has
  at most one live close and a stop that covers it, a close is for no more than the
  lot, and its markers are released when orders end.
* Portfolio: every fill of an owned order is booked on the lot of its owner.
* IBKR adapter: an update reaches the drain once, a call's answer is about its own
  order or request and whole, a listing of open orders misses none, every call
  returns, a bar reaches the engine once.
* Approvals: no order without an approval, one per approval.
* Health and reconciliation: a lasting fault or difference blocks entries, calm
  opens them, and no part lifts the other's reason.
* Start-up gate: what the engine adopts is what the operator submitted for the
  positions last shown, and no more than the broker holds.
* Persistence: an unattended restart takes the lots as the fills left them, with
  one stop each.
* Paper broker: a close and a touched stop of one lot do not both fill, unless the
  stop was asked for after the close.
* Heartbeat monitor: an outage that lasts is told, and what is over is taken back.
* Bar pipeline and features: one row per minute, made of all the ticks that came,
  the same in both copies; views show nothing later than their clock.
* Backtest: skipping bars delays an entry by one bar at most, splitting sessions
  changes none.

The hard behaviour: four asyncio tasks edit the same dictionaries, and each
submission suspends its task for up to 1.5 s in the middle of an operation; fills
and status reports come on separate queues, in an order of their own; positions
are read before a strategy is awaited and used after it; an operator's requests
arrive from API threads while start-up or a submission is waiting; answers come
after their deadline and into the queue of the next request; the process may end
between a fill, the memory and the file; bars live in two copies with pending rows
and caches that any reader may flush or fill.

## The models

| Run | Module | Distinct states | Question |
|---|---|---|---|
| `om_live`, `om_adopted`, `om_inline` | `MCOrderManager` | 1.3, 0.3, 1.9 million | the order manager against live and simulated brokers |
| `adapter` | `MCAdapter` | 0.2 million | the readers of the IBKR client's queues |
| `su_restart` | `MCRestart` | 0.5 million | start-up gate, adoption and persistence over two processes |
| `engine` | `MCEngine` | 0.16 million | approvals, entry block, live bars, replay, split replay, heartbeat monitor |
| `om_pending_close`, `om_stale_exit`, `om_single_trade`, `om_single_double`, `su_orders`, `rp_leak` | | | six statements of docs and comments that the code does not keep |

`MCAdapter` and `MCEngine` each hold modules that share no state.  A behaviour of
all of them together is a behaviour of each, so one of them runs and the others
rest, in a state in which none of their fair steps can be taken, so that fairness
owes them nothing; nothing is lost by it, and each property is about the one that runs.

### `OrderManager`

The manager, the portfolio's quantities, the bar loop's evaluation of exits and
entries, and the broker as it shows through the adapter.

* The dictionaries are functions on order ids or lots; "no entry" is `NoLot`,
  `NoId`, 0 or the empty set.  A lot is the position key of the code without the
  instrument (there is one).  `owner` stands for `_order_owner` and
  `_order_trade_id` together, which are always written together.
* `bar`, `ent` and `fil` are the local variables of the bar loop, `drain_orders`
  and `drain_fills` across an await; `drain_order_updates` never awaits inside a
  report.  A submission is an action up to the await (`ExitClose`, `ExitNewStop`,
  `ExitModifyStop`, `ProcessSignal`, `EntryFill`) and actions that resume it
  (`...Accepted`, `...Refused`).  `placeOrder` is called before the first
  suspension, so the order is at the broker when the await begins.
* `BarDispatch` takes the snapshot of the positions; `on_exit` is awaited between
  it and the exits, so everything may happen in between.  What the strategy
  answers is any choice.
* The answer to a submission: "pending" is always possible, because the wait ends
  after 1.5 s or the update is taken by the drain first.  A refusal of a new order
  is possible only when the broker has ended it (`MayRefuse`).  This is an
  assumption on TWS: an error carrying the id of an order ends that order.  For a
  change of a stop there is no such assumption, since the error may be the late
  one of an earlier change.
* The broker fills an order in any parts, ends it at any time (a requested
  cancellation, a rejection or an expiry), and may fill an order while its
  cancellation is requested.  Fills keep their order; a report of an end overtakes
  fills or not.  `_initial_order_status` never answers "filled", so the branches
  for that answer are not reached with this adapter, and its `cancel_order` never
  raises.
* `Concurrent = FALSE` is the other mode of the code: with a broker that offers
  `ready_fills` the drains are called inline, one after another.
* History variables: `lost` (orders a fill of which found no owner) and `raised`
  (lots for a fill of which the stop's submission raised).

| Run | Question | Result |
|---|---|---|
| `om_live` | Do the indexes (`IndexesAgree`), the tracking of working orders (`WorkingOrdersTracked`), the owners of fills (`LostOnlyAfterEnd`) and a lot's stop cover (`ProtectedUnlessRevoked`) survive the interleavings?  One lot, three order ids, orders of 2 filled in parts. | holds |
| `om_adopted` | From an adopted lot with session-only stops: the inductive invariant of the proofs (`IInv`), one live close per lot (`OneLiveClose`), stops are only tightened (`StopNeverLoosens`, long lots), and under fairness every reported fill is booked (`FillsBooked`). | holds |
| `om_inline` | Inline drains, two lots: a pending close is released when it ends (`PendingCloseReleased`), a close is never for more than its lot (`CloseWithinLot`). | holds |
| `om_pending_close` | `PendingCloseReleased` with concurrent drains. | violated: a fill during the close's own submission leaves the marker set |
| `om_stale_exit` | `CloseWithinLot` with concurrent drains. | violated: the snapshot is stale |
| `om_single_trade` | Does a `single_position` close cancel the stop of a signal that named a trade? | violated: different keys |
| `om_single_double` | Does a `single_position` strategy hold one position? | violated: two signals before the first fill |

Bounds: `MaxOrders` = 3 order ids are enough for an entry, its stop and a close (or
a stop, its successor and a close of an adopted lot), which is where the properties
meet; with two lots the third id goes to the second lot's entry.  Quantity 2 gives
partial fills; two stop levels are enough for an update that tightens and one that
does not; one queued signal at a time still lets a signal wait while another is
sent.  `StopNeverLoosens` is about lots that keep their side, hence `EntrySides = {1}`.

Fairness (`om_adopted`): the asyncio loop runs a task whose await is over, the
awaits of the drains end after 1.5 s whatever the broker does, so each task's
steps are weakly fair.  The broker and the strategies owe nothing.

### `InitialStatus`, `UpdateStream`

`IBKRBroker._initial_order_status`: the callers of `submit_order` and
`modify_order` read the client's update and error queues, put back what is not
theirs, and return on an answer or at a deadline; `drain_order_updates` reads the
updates beside them.  A caller's two `get()` tasks end one at a time (`TakeUpdate`,
`TakeError`) until `asyncio.wait` returns, and `done` is a set: which of the two is
looked at first is a choice (`putBackFirst`).  The awaits on unbounded queues never
suspend, so a round's end is one action.  Updates and errors carry a number so that
each can be followed; what they say beside the order and the status is left out.
Two calls are never about one order at the same time, as in the bar loop.

`UpdateStream` is what the drain is promised: an update is taken at most once, in
no promised order, and is lost only beside a call's rejection, at most one each
time (there the code does drop the update of the same round, although its docstring
promises otherwise).  `KeepsPromise` says that `InitialStatus` implements it; what is
lost maps to `Stolen`, the updates that are nowhere.

The run `adapter` checks that promise; `EachUpdateOnce`; that a call that says
cancelled is right about its order (`CancelledIsTrue`); and that every call returns
(`CallsReturn`), although two callers can hand each other their items round and
round.  Two callers, two orders, a change, two updates and an error are enough for a
caller to hold the other's update, for both items of a round to come together, and
for an error to be late.  Fairness: time passes and the loop runs a task whose await
is over.

### `Answers`

The numbered requests: account summary, history, contract details, option chain and
quote share the loop "read an item, keep it if the number is mine, else put it
back".  `Reply` is the reader thread: the service sends the items of each answer in
order and may stop in the middle or send after the deadline, so a request meets the
late answers of those before it.  What it hands over with `call_soon_threadsafe`
gets to the queue when the loop runs that callback (`Deliver`).  `DropItem` is
`resolve_front_month_future`, which drops what is not its own.

Whether callbacks and timers run between two queued items depends on the Python,
which the repository does not name.  Up to 3.11 `wait_for` runs the `get` in a task of
its own and always suspends the caller; from 3.12 on it awaits the `get` directly, and
neither that, on a queue with items, nor `put`, on an unbounded one, suspends.
`yields` is the one or the other, chosen at the start; `suspended` says whether the
reading task waits, which `Deliver` and the deadline (`GiveUp`) need.

`WholeAnswers`: a request that returns before its deadline returns its own answer
and all of it, on either Python.  `AnsweredReturns`: a request the service answers in
full returns, however many late answers it puts back again and again.  That leaves one
case out, `Spins`: where `wait_for` does not suspend, a single late item that meets a
request whose own answer is not yet there goes round for ever; the loop runs nothing
else, so the answer stays outside and no deadline fires.  That is a hazard of
`get_all_accounts`, `IBKRDataProvider.fetch` and the option requests on Python 3.12 and
later, listed at `core/adapters/ibkr/broker.py:140`; up to 3.11 `Spins` is never
reached, as `suspended` is then true of every request under way.  Three requests and an
item with its end marker are enough for two answers to be late at once.  Fairness: the
loop runs its tasks (`Taking`), and its callbacks as long as no task holds it
(`Delivery` is disabled while one does).  The fairness of the other modules, by which
awaits end, has this as its limit too: the account request of a reconciliation is one
of these loops.

### `OpenOrders`

`get_all_open_orders`, whose queue has no numbers: a request reads what came up to
the first end marker, also the callbacks of orders placed meanwhile.  `Serve` lists
the working orders at one moment, in any order.  `OpenOrdersInStep`: a listing lags
behind its request by at most as many requests as have timed out; while none has, it
lists every order that worked when it was answered, and perhaps some that have
ended.  So after a time-out every later listing is one behind, which is what the
reconciliation and the start-up check live with.  Two orders, three requests.

### `BarStream`

Subscriptions of real-time bars.  After a reconnect the monitor subscribes again;
the service may have kept old subscriptions (`kept`) and sends each bar to all it
serves.  `BarsOnce`: the engine gets no bar twice or out of order, since only the
newest number is mapped.  Three bars, three subscriptions.

### `PositionGate`, `StartupGate`, `Restart`

`PositionGate` is the pure part of `position_gate.py`: which positions need an
owner, whether allocations fit (`Fits`, `Accepts`), and what status is shown
(`GateStatus`).  `StartupGate` is the controller: `run` is a coroutine with a `pc`
(build, wait, take the action, refresh, release), the operator's `submit_mappings`
and `request_refresh` come from API threads at any moment and share one action
field with it, and the wake-up (`event`) is posted to the loop, so it comes later.
`Restart` puts them into `Engine._run`: reading positions, the gate, adoption
(with records written one by one), the save, the check of open orders, the stops of
adopted lots; then a run in which orders fill, fills are booked and saved; and
crashes anywhere, stops that fill while nobody listens, requests that time out,
failed writes, a trade of the account's owner, the review of old orders in TWS.
Both stores are initial states: the strategy state (rewritten as a whole) and the
ownership ledger (record by record).

History variables: `truth` is who owns what by the fills of the engine's orders and
the operator's word; `memoryGap` and `fileGap` count the trades that memory and file
do not reflect (`Books` is what memory says of each lot, with an aggregate's part
beside the lots; a file leaves that part out, `Unsaved`, which counts as a trade it
missed); `seen` is `truth` and `fileGap` when the positions were read; `early` marks a submission during a refresh, `complete` a start
whose requests were answered in full, `stopTwice` a doubled stop.

`su_restart` checks, for two processes, two trades, one failed write and one foreign
trade (the smallest world in which a file is stale, a stop survives its process, and
memory, file and broker can all differ), with a multi-position and a single-position
strategy on one future and a second contract month of it:

* `ReleasedFits`: what the gate releases is valid for the positions it releases
  them for, however submissions and refreshes interleave.  A submission made while a
  refresh waits for the broker is the exception (`early`): it was validated against
  the positions shown before.
* `ReleasedStays`: no later request changes what was released.
* `MappedIsTransient`: an accepted submission is acted on; its wake-up is not lost.
  Fairness: the loop runs what is posted, requests are answered or time out.
* `RestartTrue`: a start that needed no operator restores the lots of every
  instrument that is held as they were, also if the file missed one trade, since then
  the quantities differ and the gate waits.  Two missed trades can make up for each
  other, hence `seen.gap <= 1`.
* `OneStopPerLot`, `SeededStopsCover`: with complete answers a stop left by an
  earlier process is not doubled, and when trading starts every adopted unit has
  one, unless it has filled or the operator named one lot twice.

`su_orders` finds the gap in the check of open orders: it looks at the instruments
with market data, and an execution instrument need not be one.

### `BarStore`, `BarSeries`, `LiveBars`

`BarStore` holds the bar pipeline's data operations as pure operators on records:
`Ingest` (pending rows, flush at a size, replacement, trim), `Merge`, `Flush`,
`Resample` and its cache by revision, and the feature registry's source with its
version and caches (`SourceBar`, `Preload`, `PreloadReplay`, `AsOf`).  Prices are the
set of ticks they are made of, which is all that says whether a bar is right.

`LiveBars` is a start in mid-session (file, the service's answer that may end early
or fail), ticks that the stream loses or not, the minute `BarBuilder` makes of them,
and readers between any two of these: strategies read timeframes, and the API's
data-quality call flushes.  Properties:

* `StoreImplements`: the store implements `BarSeries`, a series of one row per
  minute in which the last writer wins and only rows older than the lookback go;
  pending rows, flushes by readers and trims do not show.
* `MinuteWhole`: a closed minute has all the ticks that came and no backfilled row
  in its place.
* `CopiesAgree`: the registry's copy has the prices of the store's rows, and neither
  serves a stale resample.

### `Replay`

`Engine._run` over replayed bars in fast-event mode: a strategy decides on the bars
of one instrument and trades another; the feature source is preloaded with the whole
replay; `PaperBroker` fills orders on bars of the traded instrument; the queues are
drained inline.  Bars come by minute, within a minute in either order of the two.
What the strategy reads and decides is any choice: whom it closes, for which of the
other lots `on_protective_stop_update` asks for a stop, and whether it enters.
`ensure_protective_stop` (`Restops`) moves the stop a lot has and places one for a lot
that has none, without a look at a pending close; prices are not modelled, and which
stops a bar touches is free.

A strategy sees windows in two ways.  A feature view leaves a window out until the
clock is past it (`WindowsShown`).  `ctx.bars` is the store's own resample, which is
not cut to the clock and shows a window on its last minute (`BarsShown`).  The gate's
rule agrees with the first.

* `ViewsPure`: what a view shows at the clock is what the past alone would give,
  for minutes, windows and, once the day has a bar, sessions.
* `SkipSafe`: a skip of the fast-event gate costs an entry one bar at most.  Features
  show nothing new on the bar it skips; a window only `ctx.bars` shows ends on that very
  bar, and the gate passes on whatever bar comes next.
  So the entry is skipped on the bar that completes a window in `ctx.bars`, against the
  words of the docs (below).
* `LotsOpenOrFlat`: exits, touched stops and fills drained after the bar leave a lot
  open or flat.  The exception is a lot that was given a stop while its close was
  pending (`restopped`): where execution bars are missing, both come due on one bar
  and are resolved before either fill withdraws the other, and the lot is turned over,
  by its own size and no more.
* `rp_leak`: the registered feature `range_ratio` does depend on bars to come.

### `Chunks`

A parallel backtest: `SplitDates` and `Payload` (what each worker gets),
`ChunkBar` (a worker dispatches its bars and collects the entries of a strategy
that never holds a position), `Collect`, and `WholeBar`, the engine's replay of the
candidates, which also records what fast-event mode would have asked on the same
bars (`expected`).  `ChunksAsWhole` says the two agree, bar by bar and view by view,
where the lookback covers the warm-up.  The one exception the model found is kept in
the statement: for a window that starts inside a session, the first bar is asked in
fast-event mode (nothing is on record) and not in the chunk, which starts at midnight.

Bounds of the bar modules: sessions of four minutes (`DayLength`), windows of two,
a lookback of one session, flushes at two pending rows, two ticks a minute: every
boundary (window, session, flush, trim) is met several times within the horizon, and
`MCCorpora` and `MCHistories` take bars away within windows, at their edges, and for
whole sessions.

### `Approvals`

Explicit intents: `_process_intent`, the approval store, and the engine's approve
and reject calls.  An operator's request runs in the API server's thread, so storing
the decision (`Approve`) and scheduling the submission (`SubmitApproved`) are
separate, and a decision may come anywhere between the drain's check of the status
(`TakeIntent`) and its last write (`MarkSubmitted`).  Entry blocks, limits, prices,
validation, the dry-run mode and a submission that raises are the one choice
`DropIntent`.  How the order is registered is in `OrderManager`.  Bounds:
`MaxDecisions` requests and `MaxEmits` emissions, four each, let an intent be
approved, sent, approved again and emitted while it is at the broker.

An intent has at most as many orders as approvals (`OneOrderPerApproval`), is cleared
only while the operator's last word is approval (`LastWordCounts`), and under
fairness of the loop an approval reaches the drain (`ApprovalReachesDrain`).

The docs allow decisions on pending intents only, which would make it one order for each
intent, since nothing makes an intent pending again.  `_set_status` accepts any status,
so an operator may approve a submitted or rejected intent once more; such intents are in
`again`.  `OneOrderPerApproval` says both: one order at most for every intent that was
decided as the docs have it, and for the others one more for each further approval.

### `EntryGate`

The single reason for which entries are blocked.  `fault` is what a check of the
connections and the last bar would find at the moment; `recon` holds the local
variables of a snapshot across its awaits: the broker's positions and orders as they
were reported, possibly incomplete (a request that times out returns what has come),
compared later with the engine's own as they are then.  Bounds: `MaxTrades` own
fills, one foreign trade, one foreign order.

A fault or an unknown position that lasts ends with entries blocked
(`TroubleBlocks`), and calm ends with entries open (`CalmUnblocks`), unless the
monitor itself once raised (`health_monitor_error` is lifted by nothing).  The
premises say what the code needs: no own order or fill under way, since old snapshots
then differ from the engine's state, and complete answers.  No reconciliation lifts a
reason of the health monitor's (`ReconciliationLiftsOwn`), and a reason set by a
reconciliation gives way only to a fault (`BlockLostOnlyToHealth`).  That is as much
as the code gives: a fault's reason replaces it, and when the fault passes entries
are open until the next snapshot.  Fairness: sleeps and awaits end; errors owe nothing.

### `Heartbeat`

The monitor process: `HealthLoop` is `health_loop` (a request runs in a thread, so
`RequestReturns` and what the loop makes of it are separate), `StreamLoop` is
`websocket_loop` (connect, read and ping, fail, wait).  They share the alerts and the
stop event; nothing is awaited between a count and the alert it raises, so that is
one action.  The endpoint and the stream come and go at any moment.

`docs/guardrails.md:250` says it alerts when the API is unreachable, the engine is in
error or not running, or the WebSocket remains disconnected.  `OutageTold`: as long
as nobody stops the monitor, that holds of every outage that lasts, and when it is
over the alert goes.  `AlertsTold`: at every moment the alerts are those of the
failures counted and the last answer.  A stream that connects and drops again and
again is never told, because each connection starts the count anew (line 308); it
does not remain disconnected, so this keeps to the words.  Fairness: requests, pings
and sleeps all have time-outs.  A threshold of two failures tells one from many.

## What is proved

Every theorem holds for all values of the constants that the named assumptions
allow (`ConstantsAssumption`, `RestartConstants`, ... next to the constants); TLC
evaluates the assumptions in the runs.

| Module | Theorems | Argument |
|---|---|---|
| `OrderManagerProofs` | `Inductive`, `TypeCorrect`, `IndexesAlwaysAgree`, `WorkingOrdersAlwaysTracked`, `LostFillsOnlyAfterEnd`, `NeverTwoLiveCloses`; `InlineCloseWithinLot`, `InlinePendingCloseReleased`; `StopNeverLoosensOnItsSide` | `IInv`, see below; any strategies, lots, quantities, either mode. The two about the inline mode add what is known while its drains run one after another |
| `CoverProofs` | `ProtectedLotsCovered` | `CoverInv`: for every protected lot, its size, what its live stops have left and what fills on the queue will change add up, or one of the named exceptions holds |
| `Sums` | lemmas only | `MapThenSumSet` over a finite set: of one element more, of a change, of a queue longer or shorter by one, of a reindexed set; folds over an initial segment: they exist and unfold at the last index |
| `InitialStatusProofs` | `InitialStatusInductive`, `UpdatesStayUnique`, `DrainPromise`, `CancelledAlwaysTrue` | only reported updates are anywhere, an idle caller holds none; a caller's step only moves numbers between the queue and itself (`Moves`), so one lemma serves all of them; the refinement follows step by step |
| `ReaderProofs` | `AnswersInductive`, `FullAnswersAreWhole`; `OrdersInductive`, `ListingsInStep`; `StreamInductive`, `BarsAlwaysOnce` | `AnswerInv`: of the answer under way, what the loop has heard is read or queued, and its queued items keep their order although others rotate around them, so the marker comes last. `OrdersInv`: the markers queued are those after the last one read, in order; before the first time-out the orders of an answer precede its marker. `StreamInv`: bars of a number are queued in order, and those of the mapped number are later than all that were yielded |
| `RestartProofs` | `StartInvariant`, `ReleasedFitsAlways`, `ReleasedForGood`; `NeverASecondStop`, `NeverStartsBesideOpenOrders`; `RestartAlwaysTrue`, `SeededStopsAlwaysCover` | `StartInv`: while `run` waits, the positions it waits for are those shown, and a submission not yet taken fits them; every step of start-up, run and world keeps it, restarts included. `StopsInv`: once seeding has begun after complete answers, every stop at work is tracked. `BooksInv`, `ShownInv` and `SeedInv`: see below |
| `EngineProofs` | `ApprovalsInductive`, `AtMostOneOrderPerApproval`, `TheLastWordCounts`; `EntryGateInductive`, `BlocksLostOnlyToHealth`, `ReconciliationAlwaysLiftsOwn`; `AlertsAlwaysTold` | `ApprovalLeft`: an approved or cleared intent that is not being sent has an approval left; `OnceUndecided`: an undecided intent has none, so without the exception there is one in all; the entry block and the monitor by the kind of each step |
| `BarProofs` | `LiveInductive`, `ClosedMinutesWhole`, `CopiesAlwaysAgree`, `StoreIsASeries`; `ReplayInductive`, `SkippingIsSafe`, `ViewsAlwaysPure`, `LotsAlwaysOpenOrFlat`; `SplittingChangesNothing` | `LiveInv`: rows and pending rows are ascending, hold the ticks that came, and a cache carries the revision it was made at; the refinement of `BarSeries` follows. `ReplayInv`, `LotsInv` and `ChunksInv`: see below |

`IInv` of the order manager is the type invariant with `IndexesAgree`, `SentTracked`
(the owner and role of every order at work or filled are recorded: what a refusal and
an end clear are only orders the broker has ended), `FreshIds` (nothing is known of
ids not yet used), `RolesOwned`, `QueuesTrue` (reports on the queues are of orders
that ended or filled), `AwaitsTrue` (a task that waits does so for an order it sent,
and while the bar loop waits for a close no reverse entry exists for it),
`StopsOwned` (a tracked stop is tracked under its own lot) and `LiveClosePending` (a
live close is the one its lot is waiting for, the key to `OneLiveClose`).  Each part
has a lemma: the kinds of change that can disturb it first, then one step per task
matching the task's actions with those kinds.

`RestartAlwaysTrue` rests on a distance.  A book of lots is `Near` the truth by a gap:
with gap 0 it is the truth and explains the broker's positions; with gap 1 it is the
truth, or differs from it in one lot while the truth explains the positions; more
trades missed say nothing.  `BooksInv` has it of memory and of the file, each counted
with the fills that are on their way to it (`Follows`, with `Plus` and `Known`): a
trade that will be heard of keeps the distance, one that will not, a crash with fills
on the queue, a failed write and what a file cannot say (`Unsaved`) each add to it.
`ShownInv` carries the distance of the file over to the positions the gate reads, and
says that a gate that passes unasked shows the allocations stored.  `Restores` is the
heart of it: where those allocations fit and cover what is held, the sum over the lots
of an instrument is its position, a file one lot off would miss that sum, and lots on
one side are all on the side of their sum; so what is adopted is the truth.
`SeedInv` is what `SeededStopsAlwaysCover` adds: until a stop fills, the stops at work
are those seeded so far, each for the quantity saved of its lot, and allocations that
name each lot once leave nothing unsaved, so that the quantities saved add up to what
the strategy owns.

`ReplayInv` says what the source holds (the replay's bars), what p's store holds in its
frame and its pending rows (`Shaped`), and two things of the gate's last pass.  The
window on record is that of a minute already seen, and what features showed then is what
they show at that minute (`WindowOnRecord`).  What `ctx.bars` shows now and did not then
is not older than the window that follows the one on record (`ShownSince`), in which
every bar the gate skips lies.  `ArrivesInStore`, `ShownWhole` and `IngestShown` carry
this over a bar: only the bar of a window's last minute brings the window to show, and
any later bar is in another window (`NextWindow`).

`LotsInv` is about the orders of one lot among the pending ones (`InOrder`).  A lot has
one order, unless it is `restopped`: then it may have its close and its stop
(`OneEach`).  Each is one its lot may wait for (`Fits`): an entry of a lot that is flat,
a stop or a close of the size of one that is open.  So a bar fills one order of a lot,
and the stop an entry's fill places and the orders a close's fill withdraws leave that
so; or it fills both of a restopped lot.  Then the first leaves the lot flat and without
orders, the second, already resolved (`Stray`), turns it over once, and there is no
third.  `Only` and `Drained` are folds; what a fold keeps goes by induction over the
length of the sequence (`PrefixInduction`).

`ChunksInv` says of each worker and of the replay the same thing (`ReaderOK`): the
store knows every bar that was dispatched or preloaded but those out of the lookback of
a later one (`KnowsRecent`), and the gate has on record the window of the last bar.  So
each asks on the first bar of every window it comes to (`AsksFirst`), and is warm where
the lookback holds enough bars (`CoveredWarm`).  `ChunksWork` is about the split: the
shares of `_split_dates` are whole sessions, one chunk after the other, that leave out
no session (`SplitMakes`, again a fold), and a worker has all that was loaded of its
lookback.  A session starts a window, so the first bar of a window is the same one in
its chunk and in the whole (`FirstBoth`), and a view depends on the rows since the
chunk's lookback alone (`ViewSame`).

The assumptions beside those of the constants, each in the theorem that needs it:

* `~Concurrent` (`InlineCloseWithinLot`, `InlinePendingCloseReleased`): with
  concurrent drains the code does not keep them, as `om_stale_exit` and
  `om_pending_close` show.
* `[]SidesKept` (`StopNeverLoosensOnItsSide`): what the bar loop sees of a lot is on
  the side its stops protect; where a lot has turned over, "tighter" has no meaning.
  `om_adopted` runs the side on which lots keep theirs.
* `ExecutionWatched` (the three about stops at start-up): every protected strategy
  trades an instrument the check of open orders looks at; `su_orders` shows a start
  where it is not so.
* finitely many strategies, lots and trades, and submissions and configurations that
  are sequences of allocations.

Three properties say more exactly what holds since their proofs were tried.
`ProtectedUnlessRevoked` spoke of a lot on whichever side it is: but two stops of one
lot that both fill turn it over, and what it then holds on the other side has none.
`Standing` speaks of a lot whose orders are on their own sides and not withdrawn,
`FirstLevel` of a stop that was not tightened yet.  `RestartTrue` spoke of
all lots: but an operator may name one lot twice (memory then keeps less than was
said, `NamedTwice`), and of saved lots on both sides of one instrument the gate takes
those on the side of their sum and drops the others without a word (`OneSided`).
`ChunksAsWhole` took the bars of the lookback before a chunk for enough all through the
chunk: but a flush drops rows older than the lookback of the newest one, at another
moment in a worker's store than in the replay's.  `Covered` counts the bars of the
lookback before the minute itself.  In the bounds of the runs none of the three happened.

Only model-checked: everything temporal under fairness (`FillsBooked`, `CallsReturn`,
`AnsweredReturns`, `MappedIsTransient`, `ApprovalReachesDrain`, `TroubleBlocks`,
`CalmUnblocks`, `OutageTold`), since TLAPS does not reach it.  Every other property of
a passing run is the conclusion of a theorem.

## Where the code and its words differ

* `om_pending_close` (`core/orders/order_manager.py:236`): the marker of a pending
  close is set again after the await, also when its fill has been handled meanwhile.
  `docs/guardrails.md:126-127` says it is cleared with the fill.
* `om_stale_exit` (`order_manager.py:132`): side and quantity of a close come from
  the snapshot before `on_exit`; when the stop has filled since, the "close" opens
  a position on the other side.
* `om_single_trade` (`order_manager.py:141`): an accepted close of a
  `single_position` strategy does not find the stop of a signal that named a trade.
  `docs/guardrails.md:116-117` says it is cancelled.
* `om_single_double` (`core/risk/policy.py:51`): the flat check changes with the
  first fill only.  `docs/guardrails.md:53` says one open position.
* `su_orders` (`core/engine/runner.py:604`): the check of open orders does not look
  at execution instruments without market data, although its message speaks of all
  enabled instruments (`runner.py:1723-1724`).
* `rp_leak` (`core/features/registry.py:433`): `range_ratio` is computed over whole
  sessions of the preloaded replay.  `docs/guardrails.md:144-146` says that
  preloading must not leak.

Two more show in what a passing run has to leave room for:

* `OneOrderPerApproval` (`core/orders/approvals.py:70`): a decision is stored whatever
  the status was, so a submitted intent that is approved again is sent again.
  `docs/guardrails.md:216-218` limits decisions to "already-pending" approvals,
  `docs/project_rules.md:11` to "pending" intents.  Without the exception of `again`
  the property is violated.
* `SkipSafe` (`core/engine/runner.py:2575`): the gate's rule takes the window that ended
  before the bar's own minute, while `ctx.bars` shows a window on its last minute, on
  which the gate skips.  `docs/guardrails.md:133` says an entry is evaluated when the
  timeframe "has a new completed bar", the docstring of `_completed_timeframe_bar_start`
  that it "mirrors the engine resampler".  `strategies/stoch_3m_cross_long.py:81` reads
  `ctx.bars`: it is asked one bar later than in `event` mode.  `SkipSafe` says that
  it is one bar and no more.

## What is not modelled, and why

* Floating point: the arithmetic of indicators, average cost, equity, drawdown,
  notional limits, fill prices and slippage.  Where such a number decides something
  (a signal is dropped), the models take either outcome.
* Pure I/O and formatting: audit log, redaction, API routes, dashboard, reports,
  command line, file readers for csv and Polygon.  What a file may hold is an input
  of `LiveBars` and `Replay`.
* What a strategy decides is any choice.
* IBKR: the choice of the front-month contract by volume; `nextValidId` on a
  reconnect, which resets the next order id to the service's whatever was handed out;
  `get_all_positions` has the same loop and the same hazard as `OpenOrders`.
* Paper broker: idempotency keys, which it takes as order ids, are not told apart.
* Bars: a merge into a store that already has rows and `load_csv`, which no start
  calls; buckets anchored to UTC midnight while sessions are local days (sessions are
  aligned to windows in the models); the start of the session on a stale file
  (`core/data/feed.py:66`), where the days between file and session stay missing.
* Scheduler: several registered strategies, the session calendar.
* Start-up: the trade counter that starts at 1 in each run; contracts of one
  underlying that match by month rather than exactly or not.

`PROJECT.json` lists each part with its status, and under `hazards` what a test would
hardly reach, with the properties that cover it.

## What is left to do

1. Bars of several strategies in one scheduler, with adoption of two strategies
   executing one instrument while both warm up.
2. The merge of a backfill into a store that already has rows.
3. Order ids across a reconnect: `nextValidId` against submissions under way.
4. `PaperBroker` as an implementation of the broker `OrderManager` assumes.
