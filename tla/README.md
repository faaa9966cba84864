# A verification development for hft-service

hft-service is an event-driven trading platform: exchange klines come in over
websockets, travel through NATS JetStream to a database, a price table and the
strategies; strategies publish orders; a gateway executes them at an exchange
and records them; a worker keeps the records up to date; an api, a notification
service and a dashboard sit beside. This directory holds TLA+ modules of its
stateful parts, the TLC configurations that check them on small instances, and
TLAPS proofs for every value of the constants. Paths below are relative to the
repository.

## 1. The system

### Components, their state and their operations

| Component | State | Operations | Talks to |
|---|---|---|---|
| order engine gateway (`internal/service/orderengine/order_engine.service.go`, HTTP and gRPC handlers) | goroutines in `ProcessWithTimeout`; table `order_histories` | `handlePlaceOrderEvent`, `PlaceOrder`, `PlaceOrderAsync` | JetStream (consume `order_engine.place_order`; publish `notification_alert`, `strategy_control.position_closed`), exchange, database |
| message processing (`internal/util/event.go`) | one goroutine and one deadline per message | `ProcessWithTimeout`, `messageRetryDecision`, `PublishEvent` | used by every Go consumer |
| order history sync worker (`order_history_sync.service.go`) | the snapshot of a pass | `Run`, `SyncPendingOrderHistories` | database, exchange, JetStream |
| order trade projection (`migration/.../20260620100000_create_order_trades.sql`) | table `order_trades` | trigger `sync_order_trade`, `refresh_order_trade` | fired by every write of `order_histories`; read by reports, by closing and by disabling a strategy |
| exchange adapters (`internal/service/exchange`) | symbol mapping, precision cache, websocket and its subscriptions | `PlaceOrder`, `SyncOrderHistory`, `SubscribeKlineData`, `BackfillMarketKlines` | exchange REST and websocket |
| market data gateway / worker, price reference | none / `market_klines` / `price_references` | publish, insert, upsert `kline.data` | JetStream, database |
| strategy runtime (`strategy/core/framework.py`) | per pair: strategy state, entry, bounded queue, lock; Redis copy | process a candle, reconcile pairs, position closed, reset | JetStream, Redis, database |
| api: authentication (`auth.service.go`, `auth_cache.go`, the middleware and the user administration of `api.http.go`) | Redis sessions and user cache; tables `users`, `roles`, `permissions` | setup, login, refresh, logout, profile, guarded requests, administration | Redis, PostgreSQL |
| api: orders and strategy configs (`data.service.go`) | table `strategy_configs` | manual order, manual close; create, update, disable, delete a config | database, JetStream |
| api: backfill jobs (`backfill.service.go`) | jobs in memory | start, wait, get | gRPC to the market data gateway |
| notification service | none | post an alert | JetStream, Discord |
| web dashboard, migrations, bootstrap | - | - | - |

Three kinds of coupling matter: JetStream delivers at least once and redelivers
on its own clock; the tables `order_histories` and `order_trades` are written
by one process and decided upon by others; and a deadline ends the wait for a
call but not the call.

### What is hard, and what makes each component correct

* **Order engine gateway** - at-least-once delivery of something that must
  happen once. A callback that timed out goes on beside its retry; the duplicate
  check and the insert are separate calls; `request_id` is not unique; each
  publish after the insert can fail. Correct: one recorded order per request as
  long as its runs do not overlap, one paper fill always, no lost close, no
  second notification, no message unsettled for ever.
* **Sync worker** - a snapshot, three separate calls per row, whole-row writes.
  Correct: rows are states the order really had, a close is announced before its
  row leaves the pending set and only when the order is filled, every final
  state arrives.
* **Trade projection** - a function of `order_histories` maintained by
  increments in concurrent transactions. Correct: equal to that function when
  everything is committed.
* **Orders from the api** - a close is computed from a row that the exchange is
  still ahead of, several actors close the same entry, sides mean different
  things on different accounts, a config is read, merged and written in separate
  calls. Correct: a trade shown as closed has left no position; disabling a
  strategy closes what it was running; an update changes what was asked.
* **Strategy runtime** - publish, save, acknowledge in an order in which a crash,
  a cancellation, a reset or a manual close may strike anywhere. Correct: one
  position per pair, the remembered entry is the open one, no candle orders twice.
* **Kline websocket** - change detection by a marker read at another moment than
  the data, and a mapping shared by subscribers. Correct: a change the marker
  shows reaches the connection.
* **Kline ingest, prices, backfill** - duplicates and reordering meet an upsert;
  two writers of one candle; paging must end and skip nothing. Correct: the price
  is the newest one, a backfilled candle stays, a job ends and its client learns.
* **Authentication** - count-then-create, rotation under concurrency, and a
  profile that lives in three places (tables, cache, session). Correct: nobody is
  allowed what he was never granted, one session per login, a removed user stays
  out.

`PROJECT.json` lists the single hazards at the lines where they bite.

## 2. The modules

| Module | Models |
|---|---|
| `OrderEngine`, `MCOrderEngine` | the gateway, `ProcessWithTimeout`, the work queue, the direct callers |
| `OrderRequests` | what a request is promised: the abstract specification `OrderEngine` implements |
| `OrderEngineProofs` | theorems about `OrderEngine`, the refinement among them |
| `OrderSync`, `MCOrderSync` | the sync worker next to gateway and exchange, with both adapters' status mappings |
| `OrderRecord` | what `order_histories` promises: the abstract specification `OrderSync` implements |
| `OrderSyncProofs` | theorems about `OrderSync`, the refinement among them |
| `OrderTrades`, `MCOrderTrades` | the trigger and its table |
| `OrderTradesProofs` | theorems about `OrderTrades` |
| `StrategyRuntime`, `MCStrategyRuntime` | the strategy runtime, for one pair |
| `PositionOrders` | what the orders of a pair are: the abstract specification `StrategyRuntime` implements |
| `StrategyRuntimeProofs` | theorems about `StrategyRuntime`, the refinement among them |
| `KlineGateway`, `MCKlineGateway` | the kline websocket subscribers of Binance |
| `KlineGatewayProofs` | theorems about `KlineGateway` |
| `MarketData`, `MCMarketData` | the `kline.data` stream, its two consumers, backfill jobs |
| `MarketDataProofs` | theorems about `MarketData` |
| `AuthSessions`, `MCAuthSessions` | authentication and user administration |
| `AuthSessionsProofs` | theorems about `AuthSessions`, and about both components of the api together |
| `OrderDesk`, `MCOrderDesk` | manual orders, closes and strategy configs, down to the positions |
| `OrderDeskProofs` | theorems about `OrderDesk` |
| `MCApi` | `AuthSessions` and `OrderDesk` side by side, as one process has them |

How they fit: `OrderDesk` (and the strategies) put messages into the queue that
`OrderEngine` consumes; `OrderEngine` inserts the rows that `OrderSync` brings up
to date; both writes fire the trigger that `OrderTrades` models; `OrderDesk`
decides by the trades. A position closed from outside comes back to
`StrategyRuntime` through the event that `OrderEngine` and `OrderSync` publish.
`KlineGateway` keeps the connection from which `MarketData` gets its events.
Every module models its neighbours only as far as it needs them: `OrderDesk`, for
instance, takes the gateway's duplicate lookup and its order rules, and leaves
its goroutines to `OrderEngine`.

A definition named `Mut...` is the definition that follows it with a plausible
fault; it is used nowhere, and each property is known to fail when its fault is
put in.

### OrderEngine and OrderRequests

State: `st`, `reqOf`, `num`, `inbox` are the queue (what JetStream
believes of a message, which request it carries, `NumDelivered`, what a client
has buffered); `run[g]` is a goroutine (program counter
of `PlaceOrder`, its message and delivery, whether its context is alive, whether
`ProcessWithTimeout` still waits for it, the exchange order it holds); `orders`
counts the orders the exchange accepted per request; `rows` is the table
`order_histories`; `announced` and `notes` are the published events. The
ghosts `overlapped` and `unrecorded` name the two circumstances under which the
code promises less: two runs of one request at the same time, and an insert that
reported an error.

Actions, one per call the code makes to another process: `Begin` (a subscription
takes its next delivery, decodes and validates it) or `CallPlaceOrder` (HTTP and
gRPC), `Lookup` (`GetByRequestID`), `Submit` and `Reply` (`exchange.PlaceOrder`,
split where the exchange has the order and the gateway does not know), `Create`,
`PublishClose` and `PublishDuplicateClose`, `Notify`; every one has its error,
and its error after success where the answer can be lost. `Deadline`, `Finish`
and `GiveUp` are the context and the two cases of the `select`; `Publish`,
`Deliver`, `AckWaitExpires`, `AgeOut` are JetStream; `ExpireOrder` is the clock
passing `expired_at`; `Crash` is the process. A run that was given up goes on
unwatched, as the goroutine does.

Abstracted: an order's fields are reduced to the sets its request belongs to
(paper, manual close, notification, expiring, refused, exchange not registered)
and a filled flag; a row's `order_id` is the rank of the order among those
accepted for its request.

`OrderRequests` says what somebody who sends a request may rely on, and knows
neither messages nor goroutines nor processes: a request is placed and stored while
nothing of it is in the table, a close is announced and a row notified only when
they are there, once per row, and a message is acknowledged only when nothing of
this is left to do. `OrderEngine` maps to it by `told <- Told`, the requests with an
acknowledged message; `KeepsPromise` is the refinement.

### OrderSync and OrderRecord

State: `hist[o]`, the states the order went through at the exchange (its code
and filled quantity in lots); `rows`; per worker the loaded rows still to visit
(`snap`), the order in hand (`cur`) and `updatedHistory` (`new`); `announced`.
Actions: `Accept`, `Execute` (exchange), `Create` (the gateway stores the reply,
however old), `Load`, `Fetch`, `Publish`, `Update` (one call each), `Skip` (an
unregistered exchange, or a failed fetch), `EndPass`, `Crash`. Failed calls
leave the row for the next pass; a failed publish or update may have happened.
The pass visits its rows in any order, where the code sorts by `created_at`.
Two workers stand for a deployment in which an old process has not left yet.

Orders are Binance's or Tokocrypto's. The exchanges' states carry Binance's
names; each adapter maps them by its own table (`tokocryptoOrderStatusFromCode`
turns what it does not know into `UNKNOWN_n`, one value here), and each maps an
answer onto an old row in its own way.

`OrderRecord` says what a reader of the table may rely on and nothing of how it
comes about: things happen to an order until it is filled, a row says something
that was true, and a manual close found filled after its insert is announced
before its row says so. `OrderSync` maps to it by `past <- Past`, the rows that
the adapter would make of the states so far; `KeepsRecord` is the refinement.

### OrderTrades

State: the committed tables `hist` and `trades`; `tx[t]`, a session with its
uncommitted write, the pairs its trigger has still to refresh, what its SELECT
returned and the trades it has written. Each statement of the trigger is a
step: `Create`/`Update`/`Maintain` (the write, with the row's lock and the
cascade), `Select` (a READ COMMITTED snapshot of its own), `Upsert` (insert, on
conflict update, or delete; waits for another session's uncommitted trade),
`Commit`, `Rollback`. An id is the rank of `created_at`, so rows may be
inserted out of that order. `Maintain` stands for deletes and corrections of
`entry_order_id`, which the trigger provides for and no service makes; it runs
alone. Prices and quantities are represented by the row they come from and by
whether the filled or the ordered quantity is shown; a row without any price is
left out, because `PlaceOrder` always stores one.

### StrategyRuntime and PositionOrders

One pair of a strategy runner. State: `want` (its row in `strategy_configs`);
`msgs`, `consumer` (its durable kline consumer); `main`, `goal` (the main task
and the desired pairs it loaded); `active`, `ctx` (whether `active_pairs` holds
the pair, and the `pair_ctx`: target, strategy object `mem`, `stored_state`,
`strategy_state_bytes`), `queue`; `worker`, `closer`, `reset` (the three other
tasks, each with its program counter and locals); `redis`; `orders`; and the
events of entries `closed` from outside.

asyncio interleaves only at an `await`, so a step runs from one await to the
next: `Evaluate` takes the decision and gives an ENTRY its `entry_order_id`
before the publish; `StoreOrder` is JetStream storing it; `Published` continues
when the call returns, up to the next signal's publish or the save. `Proceed` is
this stretch of code. `Reconcile` to `Subscribe` follow `reconcile_pairs` await by
await; `TakeClose`, `ApplyClose`, `CloseSaved` are `handle_position_closed`;
`ResetDelete`, `ResetSwap`, `ResetPattern` are the reset, which takes no lock:
the worker then keeps the replaced `stored_state` object (`own`). `Fail` is an
exception in the worker, which ends the process by `fatal_error` (`Exit`) once
the main task gets there; every other failed call ends it at once and is a
`Crash`.

Abstracted: a strategy remembers whether it holds a position and its last closed
candle; its decisions are open (hold, exit, reverse, enter). `entry_price` goes
with `entry_order_id`. Writes to Redis take effect in the order they are issued.
A closed subscription has no candle in flight; `unsubscribe` does not fail.

`PositionOrders` has no tasks, candles or Redis: it is the sequence of a pair's
orders and who closed what from outside. An ENTRY carries an `entry_order_id` that
was never used, enters a candle once and only when nothing is open; an EXIT closes
what is open, and never an entry whose close was taken note of. The refinement
`KeepsPosition` maps `heard` to the closes that were handled and that the runtime
did not miss, and `excuses` to `torn`.

### KlineGateway

State: the tables `subs` (`kline_subscriptions`) and `names` (`symbol_mappings`),
each row represented by its `updated_at`; `mapping`, the symbol mapping that the
subscribers of an exchange share; per subscriber its place in the code (`pc`),
its connection and the streams in its URL (`conn`), `activeSubscriptions`
(`active`), what a resync has loaded (`got`) and `lastResyncState` (`seen`). The
subscribers run side by side and an operator edits the tables (`Edit`) at any
moment. `Boot` and `Start` are the start of the process, `Mark` the first look
at the change marker, `Tick` the resync ticker that finds it moved; `Refresh`,
`Load` and `State` are the three calls of a resync, in the code's order, with
the connection closed after the first; `Dial` connects with the streams that
subscriptions and mapping give by then; `Lose` is a connection the exchange
closes or whose pings go unanswered, `ReadError` the loop being left; `Fail` any
call that fails, `Crash` the process.

Two circumstances in which the code promises less are named by `blind`: a change
falls between the read of a table and the marker that is to vouch for it (`late`
until then), or it leaves the marker where it was, or puts it back there (a deleted
row, an edit of a legacy `.P` row whose column says spot), while the tables ask for
other streams than the connection, or the next one, has. A market type
without rows at the start (`pc = "never"`) is not subscribed until a restart, and
`Subscribed` does not speak of it. Left out: the queries of the marker are one
step; the klines themselves, which are `MarketData`'s; Tokocrypto, which sends
its subscriptions as messages.

### MarketData

One market and interval. `now` counts moments that are longer than a handler's
deadline; the price of the running candle is the moment at which it is asked
for, so that every event differs. State: `events` and, per durable consumer, what
JetStream knows of each (`msg`); `run[g]`, a callback of the market data workers
or of the order engines' price consumer; the rows `klines` and `price`; `job` (a
backfill job with the gateway's cursor, the fetched page and what is left of it)
and `told`, what the client last heard.

`PublishKline` is the gateway. `Deliver`, `AgeOut`, `Answer` and `Again` are the
consumers: new messages in order, retries whenever they come, `max_retries`
deliveries, then `Term`. `InsertKline` is `insertKlineEvent` (an event that is
older than a minute is acknowledged without a write, any other overwrites the
candle whatever its `event_time`), `UpsertPrice` the guarded upsert, `Deadline` a
callback that outlives its deadline and still writes. `StartJob`, `MarkRunning`,
`FetchKlineRows`, `CreateKline`, `MarkSucceeded`, `MarkFailed` follow the runner
and the paging loop of `kline_backfill.go` with its three ways to end; `Tell` is
the answer of the start and every later poll, `CrashApi` the end of the process
with the jobs it held.

Abstracted: OHLCV is one price; a page is at most `BatchLimit` rows; parsing and
building requests.

### AuthSessions

State: the tables `users` and `roles`; the Redis keys `cache` and `sessions`;
`bearer`, who holds an access token (they carry their own proof and outlive
everything else here); `req[r]`, a goroutine of the HTTP server with its place,
user, token and the profile it carries. A profile is its role names and its
permissions, read by two queries.

A step is one call: `Setup` counts and `CreateAdmin` inserts; `Login` and
`UpdateProfile` look at the row, `Forget` drops the cached user, whose error is
ignored; `Guarded` is `withAuth` with `withPermission`, which takes the cache or
goes through `LoadUser`, `ReadRoles`, `ReadPermissions`; `Refresh` reads the
session and does not look at the user again, `DeleteOld` drops it (its error is
ignored), `StoreSession` and `StoreUser` write the new session and put the
profile into the cache. `Logout` is one `DEL`, of the hash of the token as it was
sent. Behind `withPermission`, `CreateUser` to `DeletePermission` write the tables
in one transaction and leave Redis alone. Keys expire (`ExpireUser`,
`ExpireSession`); `FailRequest` is any call that fails.

Abstracted: passwords and signatures are right or wrong; e-mail addresses are
unique; two permissions stand for the seeded ones.

### OrderDesk

State: `configs` and the targets the strategies loaded of them (`active`); `worker[w]`, an
HTTP goroutine between the calls of one request; `queue`; `rows` (the api's view,
of which an order trade is a function) and `book` (what the exchange has, with the
position side it booked the order on); `closers`, who ordered a close of an entry.

`CreateManualOrder`; `CloseOrder` reads the entry and `PublishManualClose`
publishes the close under its fixed request id; `UpdateStrategyConfig` reads and
merges, `Update` writes every column, `CloseOpenTrades` lists the entries of a
strategy that was disabled, `PublishDisableClose` orders their closes one by one
under request ids with the time; `FailWorker` ends a request between any two
calls. Deleting a config closes nothing.

`Reconcile` loads the enabled configs, and `StrategyEnters` trades for the target a
pair was loaded with, on either side, real or on paper, whatever has become of the
row: a pair whose row is deleted, disabled or given to another strategy enters until
it is reconciled. `StrategyExits` is the strategy's own exit. It takes quantity,
position side and paper trading from what the config says by then and not from the
entry (`framework.py:814`), and a reconcile keeps the entry (its key names none of
the three): so a config that is changed while its entry runs has a real position
closed on paper, or by another quantity. What the configs may say, and the sides of
the signals, are given for each venue (`OrderConfigs`, `SignalSides`).

`PlaceOrder` is a delivery at the gateway: the duplicate lookup by request id, side and position
side as normalised there, a paper fill or Binance's answer with the second
attempt for an account in the other mode. `Match` fills an order on, `Sync` copies
it into the row.

`MCApi` composes `AuthSessions` and `OrderDesk`. The two share the process and no
state, so an interleaving shows nothing that one of them does not show alone, and
a behaviour of the run moves one of them (`part`). That nothing is lost by this is
itself proved: `ApiProcess` (in `AuthSessionsProofs`) lets both move at any time,
`ApiIsSafe` states the properties for it, and `ApiRuns` that the run's behaviours
are some of its behaviours.

## 3. The runs

| Run | Checks | Bounds |
|---|---|---|
| `order_gateway` | `TypeOK`, `OneOrderPerRequest`, `PaperFillsOnce`, `RecordedIsFinal`, `AckedIsRecorded`, `CloseAnnounced`, and the refinement `KeepsPromise` | 1 process, 2 goroutines, 1 message, one request of each kind, 1 direct call, 1 fault, `max_retries` 2: 1.4 million states |
| `order_settles` | `EventuallySettled` | 3 goroutines, so that a hanging callback never blocks the model |
| `order_stored` | expected violation of `SentIsStored` | as above |
| `sync_settles` | `TypeOK`, `DoneIsFinal`, `FilledIsAnnounced`, `RowWasTrue`, `EventuallySynced`, and the refinement `KeepsRecord` | 2 workers; a manual close at Tokocrypto and an order at Binance that nobody can fetch; 2 lots, 1 crash, the codes NEW, PARTIALLY_FILLED, FILLED, EXPIRED: 96 thousand states (the invariants and the refinement are proved for all codes) |
| `trades_exact` | `TypeOK`, `TradesExact`, `TradesReal` | 2 sessions, 3 rows, 2 pairs: 1.1 million states |
| `trades_closed` | expected violation of `ClosedTradeShown` | 2 sessions, 2 rows, 1 pair |
| `strategy_orders` | `TypeOK`, `OneEntryPerCandle`, `AckedIsSaved`, `Coherent`, `ResetAtRestClears`, and the refinement `KeepsPosition` | 2 candles and a queue of 1, with 2 edits of the row, 1 close and 1 failure; or a reset of a runtime that erases the state of removed pairs, with 1 edit or 1 failure: 3.2 million states |
| `strategy_settles` | `ConfigApplied`, `AllTaken` | 1 candle, 2 targets, 1 edit, 1 close, 1 failure: 68 thousand states |
| `strategy_cleared` | expected violation of `ResetClears` | 1 candle, 1 reset |
| `kline_subscribed` | `TypeOK`, `Subscribed` | 2 market types, a spot key and a legacy `.P` key, 2 edits, 1 fault: 650 thousand states |
| `market_data` | `MarketTypeOK`, `PriceIsNewest`, `BackfillStores`, `JobsAdvance`, `JobsEnd` | 6 moments (3 candles), 2 events, 1 inserter, 2 price callbacks, `max_retries` 2, 1 job, pages of 1 row, 1 fault: 273 thousand states |
| `api_requests` | `ApiTypeOK`; `AuthorityWasReal`, `OneSessionPerLogin`, `SetupOnce`, `RevokedStaysOut`; `ClosedIsFlat`, `DisableCloses`, `OnlyAskedChanges` | 2 goroutines. Authentication: 2 users, 2 refresh tokens, 2 roles, a fresh or an installed system, 1 administrative change or 1 ignored error. Orders: 6 venues, 3 request ids, 1 config, 2 updates at once or 1 update with 2 entries or the exchange's delays; the strategy's side, or both, and at 3 venues a second form of its config (paper, quantity 1, position side SHORT): 1.23 million states |

*Why the bounds are enough to be interesting.* In `order_gateway` one message
with two goroutines already gives an abandoned callback beside its retry, a
retry beside a direct call, an AckWait that runs out under a buffered or running
delivery, and a lost answer or a crash at every point; more messages only meet
in `order_id`, which is per request. In `sync_settles` two workers hold snapshots
of different age across two changes of the order. In `trades_exact` three rows
give a pair two entries or two exits, and a move between two pairs that both
have trades. In `strategy_orders` two candles with a redelivery give an entry, an
exit and a reversal; a worker is cancelled at each of its awaits, with a consumer
that is deleted or not, and the pair comes back. In `kline_subscribed` an edit
falls between any two reads of either subscriber, a resync fails at each of its
calls, and a second edit or the other subscriber's refresh meets what it left
behind. In `market_data` two events of one or of two candles meet a retry, a
callback that outlives its deadline and a page that was fetched before, between
or after them; pages of one row make every page full, so that the cursor is what
keeps the loop from fetching a candle twice, and an empty page is what ends it. In `api_requests` two goroutines
are a login beside an administrative change, two refreshes of one token, two
setups, two updates of one config, or a close beside a disable; a goroutine that
is done starts again.

`MCMarketData` restricts the states with a constraint to those in which one of
the two consumers, the jobs or a polling client is at work: they share no state,
except candles and jobs, which are together. `MCStrategyRuntime` and `MCOrderDesk`
choose initial states, so that a run spends its bounds on one scenario at a time;
the erasing runtime is constrained to have no close. `MCApi` rests one component
while the other moves.

Deadlock is checked except in `OrderEngine`, `StrategyRuntime`, `KlineGateway`,
`MarketData` and `MCApi`, where everything stops once the work is done and the
bounds are used up. Symmetry is used only for goroutines, sessions and pairs, and
in no run with a liveness property.

*Circumstances the properties name.* Where the code promises less, a ghost
variable says when, and the property excepts exactly that: `overlapped` and
`unrecorded` (`OrderEngine`), `Blind` (`OrderSync`), `overlapped` (`OrderTrades`:
two transactions on one pair), `torn` and `missed` (`StrategyRuntime`), `blind`
(`KlineGateway`), `early` (`MarketData`: a candle a backfill fetched while it
ran), `contested` (`AuthSessions`: two uses of one login's token at once, or an
ignored error), `raced` (a setup that counts, or a user created, between count and
insert of another setup), and in `OrderDesk` `contended` (an entry closed from two
sides, before its execution was known, or by a strategy whose config says another
quantity or paper trading by then), `Hedged` (on an account in hedge mode: a
strategy's exit, or any close through a gateway that is configured for one-way
mode), `overlapped` and `failed` (two updates of one config at once; an update
that stopped half way). Each of these is a real gap; the hazards in `PROJECT.json`
quote the lines.

*Fairness.* `order_settles` assumes that the server redelivers what is not
answered, that a subscription goes on taking deliveries, that timers fire and
that a `select` with a ready case proceeds: nothing of the handler, which may
hang in any call. `sync_settles` assumes that the ticker goes on and that a call
made again and again for one order succeeds in the end (strong fairness per
worker and order): the loop retries every pending row for ever and its calls
carry no other bound. Nothing is assumed of the exchange, the gateway or crashes.
`strategy_settles` assumes that the event loop runs every ready task, that
`asyncio.Lock` and `asyncio.Queue` serve their waiters in order (strong fairness
of `Acquire`, `ApplyClose` and `Handle`), that the server redelivers, and that an
unconfirmed ack that is repeated arrives in the end. `kline_subscribed` assumes
that the process is started, that a subscriber's loop goes on and that its
timers fire; nothing is assumed of the operator who edits the tables, and failed
calls are faults of which there are few. `market_data` assumes that the calls of a
job's runner come back and that the client goes on polling, and nothing of the
stream, of time or of the api's survival.

### What the expected violations show

* `order_stored`: README.md:125 says the gateway "Sends order and stores order
  history." `ErrCreateOrderHistoryFailed` is treated as done
  (`order_engine.service.go:130`): if the insert fails after the exchange
  accepted, the message is acknowledged, no row exists, and the worker, which
  polls rows, never learns of the order.
* `trades_closed`: docs/API_SERVICE.md:214 says paired orders "appear in trade
  history". Two overlapping transactions on one pair can leave its trade open,
  for instance when the worker updates the ENTRY while the gateway inserts the
  filled exit. `TradesExact` is the promise for pairs never worked on by two
  transactions at once, and holds. The stale trade is also what
  `ListOpenEntriesByStrategyConfig` and `CloseOrder` take for a running position.
* `strategy_cleared`: docs/API_SERVICE.md:334 says a monitor reset does "Clear
  runner strategy state". A worker that awaits `js.publish` while the state is
  replaced saves the old `entry_order_id` afterwards, when the reset has been
  answered. `ResetAtRestClears` is the same for a reset that finds an active pair
  and no task at work on it when it replaces the state, and holds. That the pair
  must be active is needed: a pair whose row is taken out between the reset's
  deletion of the keys and its swap is saved to Redis once more, and one whose row
  comes back before the reset's last deletion reads that copy.

In the strategy's properties `torn` = "lost" says that the process failed between
a publish and its save, or a close put the strategy back to a state older than a
published order, and the redelivered candle orders again under a fresh request
id; `torn` = "cancel", that a reconciliation cancelled the worker before an order
was out, and the state is saved as if it were; `missed`, that a close arrived
while the pair was not active and was acknowledged, so that the saved state keeps
the entry.

## 4. What is proved

Eight proof modules, one for each component that a run checks; every theorem holds
for all values of the constants that satisfy the named assumptions. The shape is
the same everywhere: an inductive invariant, checked with TLC first, is shown to
hold initially and to be kept by every step, one lemma per kind of step, and it
implies what the theorem states. Every invariant, action property and refinement of
the passing runs is a theorem; what is left to TLC is the six liveness properties and
the three expected violations.

Some safety properties are proved and not checked by a run of their own, because a
refinement that is checked says as much or more: `NotifiedOncePerRow` is part of
`KeepsPromise`, `AnnouncedIsFilled` of `KeepsRecord`, `OnePosition` and
`ClosedStaysClosed` of `KeepsPosition`.

### OrderEngineProofs

From `RetriesAssumption` (`MaxRetries` is a natural number) and `NoneAssumption`
(`None` names nothing else), for any number of processes, goroutines, messages,
requests, retries and faults:

| Theorem | States |
|---|---|
| `TypeCorrect` | `Spec => []TypeOK` |
| `OrdersOnce` | `Spec => []OneOrderPerRequest` |
| `PaperOnce` | `Spec => []PaperFillsOnce` |
| `NoReplay` | `Spec => []RecordedIsFinal` |
| `AcksBacked` | `Spec => []AckedIsRecorded` |
| `NotifiedOnce` | `Spec => []NotifiedOncePerRow` |
| `ClosesAnnounced` | `Spec => []CloseAnnounced` |
| `PromiseKept` | `Spec => KeepsPromise` |

`IInv` adds what the code relies on without saying it: a goroutine's request is
the one its message carries and a delivery was published (`WellFormed`); as long
as a request has not overlapped, one goroutine at most works on it
(`Sequential`), and a run that is still before the exchange, or holds an order,
faces an empty table (`FreshPlacing`, `OneRow`), because the duplicate lookup saw
none and nobody else could insert; a run that began late found a row, and rows
stay (`LateRecorded`); a paper run holds order 0 and paper rows carry it, so the
unique key separates them (`PaperOrd`, `PaperRows`, `UniqueIds`); and a result a
goroutine is about to report is backed by the table (`ResultBacked`), which is
what the acknowledgement then rests on.

The proof is laid out by what a step does to the goroutines rather than by
action: per-action lemmas show that every step either moves one goroutine within
its request (`Moves`), starts one (`Enters`), or only ends some (`Shrinks`), and
what it does to the table; `StepKinds` collects them; one lemma per conjunct of
`IInv` then deals with three kinds of step instead of twenty actions.

`NotesBacked` counts a request's notifications together with the runs that still
have theirs before them: each is backed by a row of its own, because only the run
that inserted a row gets there and a duplicate never does. `CloseInv` adds to
`IInv` who still owes the event of a filled manual close (`ClosesOwed`): as long as
it is not out, no message of the request is acknowledged and no run is about to
report success; a run that finds the row of an earlier one announces it again
before it does.

`PromiseKept` rests on these (`PromiseInv`) and on `WorkSound`, that what a
goroutine is about to do is owed: only a manual close with a filled row is before a
close event, and only a request that wants it before a notification. The exchange's
acceptance maps to `Place`, the insert to `Record` (or `Lose`), the publishes to
`Announce` and `Notify`, an acknowledgement to `Answer`, the beginning of a second
run to `Overlap`, and everything that moves a goroutine, a message or a process to a
stutter.

### OrderSyncProofs

From `QtyAssumption` (`Qty` is positive), `BoundAssumption` and
`CodesAssumption`, for any number of workers and of orders of either exchange, any
quantity and any subset of the exchanges' codes:

| Theorem | States |
|---|---|
| `SyncTypeCorrect` | `Spec => []TypeOK` |
| `RowsTrue` | `Spec => []RowWasTrue` |
| `AnnouncedFilled` | `Spec => []AnnouncedIsFilled` |
| `ClosesAnnounced` | `Spec => []FilledIsAnnounced` |
| `DoneFinal` | `Spec => []DoneIsFinal` |
| `RecordKept` | `Spec => KeepsRecord` |

Here `IInv` adds that an order only moves on from an open state and never loses
filled quantity (`Settled`), that every row in a worker's hands is a state the
order had, however old (`SnapshotReal`, `HandReal`), and that a filled close is
written only with its event stored (`PublishClosing`, `UpdateAnnounced`). The
step that is not evident is `SyncIsPlace`: mapping an answer onto an old row, of
which it keeps the average price when nothing is filled, is mapping the answer
alone, because an old row never has more filled than the answer. For `RecordKept`
the exchange's steps map to `Happen`, the gateway's insert and the worker's write
to `Record`, a publish to `Announce` (or a stutter when it was lost or repeated),
and everything else to a stutter; a write is allowed by the record because the
hand is real and announced, which is `IInv` again. `DoneFinal` is the safety half of
`EventuallySynced`: a row leaves the pending set only with the last state its order
has, because each adapter maps the exchange's open states to pending statuses
(`PENDING_CANCEL` excepted, which `Blind` names) and an order that has left them
does not change.

### OrderTradesProofs

From `IdsAssumption` (finitely many ids, positive numbers), `PairsAssumption` and
`RowsAssumption` (`None` is not a row), for any number of sessions, pairs and rows:

| Theorem | States |
|---|---|
| `TradesTypes` | `Spec => []TypeOK`; no write is ever refused for the projection's sake |
| `TradesFollow` | `Spec => []TradesExact` |
| `TradesHappened` | `Spec => []TradesReal` |

`IInv` says of every open session, next to the committed tables, that it is
`Sound`: its plan is the old pair and then the new one (`PlanOK`); a pair it works
on alone is still to refresh or has the exact trade of what the session sees
(`PairsOK`); what it has read and written shows only what happened (`ReadOK`,
`WroteOK`); and an ordinary write takes nothing away (`GrowsOK`). Two open
sessions write different rows and their common pairs are on record (`Apart`). The
step that needs thought is `UpsertTaken`, that the unique `entry_history_id` never
stands in the way: an ENTRY that moves between pairs leaves its old trade first,
because the trigger refreshes OLD before NEW. `CommitOther` carries a session over
another one's commit. That a finite set of ids has a latest one (`LatestIn`) rests
on the library's well-founded order of finite subsets.

### AuthSessionsProofs, and the api's process

From `RolesAssumption`, `UsersAssumption` (finitely many users), `RowsAssumption`,
`GivenAssumption` (what administrators give are roles and permissions) and
`AuthBoundsAssumption`:

| Theorem | States |
|---|---|
| `AuthTypes` | `AuthSpec => []AuthTypeOK` |
| `AuthorityIsReal` | `AuthSpec => []AuthorityWasReal` |
| `SetupIsOnce` | `AuthSpec => []SetupOnce` |
| `SessionIsOne` | `AuthSpec => []OneSessionPerLogin` |
| `OutStaysOut` | `AuthSpec => RevokedStaysOut` |
| `ApiIsSafe` | `ApiProcess` has all of these, and `OrderDesk`'s `ClosedIsFlat`, `DisableCloses`, `OnlyAskedChanges` |
| `ApiTypes` | `ApiSpec \/ ApiProcess => []ApiTypeOK` |

`AuthInv` says that every profile anywhere - in the cache, in a session, in a
request's hands - allows only what its user was granted at some time, role names
and permissions separately (`TablesOK`, `CacheOK`, `SessionsOK`, `RequestsOK`;
`RestOK` are types). Separately matters: the two are read by two queries, so a
profile need never have existed as a whole, and a role name alone decides when it
is `admin`. `SetupIsOnce` needs `CountHolds` beside it: while one setup is between
count and insert and nothing raced, there is no user.

For `SessionIsOne`, `LoginInv` replaces counting by `OneHolder`: a login that is not
contested is held by one session and carried by one request at most, both only
while the request is about to delete that very session, and by nothing once it was
logged out; a token that was never given is no login (`LoginsUsed`). `OutStaysOut`
is a property of a step: `Clear` says that what a step of one request leaves of a
user is nothing when there was nothing, and each kind of step is shown to be one
that passes the active check or leaves the user `Clear`.

The last two are about authentication and orders in one process, with the
assumptions of both. `ApiIsBoth` shows that a step of one component is a stutter of
the other, so that each half behaves as its own specification says; the theorems of
the halves then hold of the whole.

### MarketDataProofs

From `MarketBoundsAssumption` and `MarketNoneAssumption` (`None` is not a row), for
any number of moments, events, callbacks, jobs, retries and any page size:

| Theorem | States |
|---|---|
| `PriceStaysNewest` | `MarketSpec => []PriceIsNewest` |
| `MarketTypes` | `MarketSpec => []MarketTypeOK` |
| `BackfillIsStored` | `MarketSpec => []BackfillStores` |
| `LoopDescends` | `MarketSpec => []PagesHaveRows /\ JobsAdvance` |

`PriceInv` says what a callback holds is a published event (`RunsOK`) and that the
row is the newest written event (`Newest`); the guard of the upsert makes the order
of deliveries irrelevant. `MarketInv` is about messages (`StreamOK`: a taken message
has exactly one callback that can answer for it), tables (`TablesOK`) and jobs
(`JobsOK`). A job is described by its row alone (`JobOK`): everything it owes before
its cursor is stored; the page in its hands has one row for each candle from its
first to its last, and what is owed after it exists only when the page was full
(`PageOK`), which is what makes the three ways to end the loop right; its count is
the number of candles before the cursor. What is owed was complete and a minute old
when the job started, so that no event can be young enough to overwrite it
afterwards.

`LoopDescends` is why paging ends: every step of a job's runner leaves less of its
window to ask for, or brings it further in its loop, or leaves fewer rows of the page
(`Nearer`, a lexicographic order on numbers and finite pages, which has no infinite
descent). It needs `PagesHaveRows`, that a page a runner is storing still has a first
row, and that a page never reaches back before the cursor. That a job has its
steps is fairness, and `JobsEnd` stays with TLC.

### StrategyRuntimeProofs

From `BoundsAssumption` and `NoneAssumption` (`None` is not a stored state), for any
number of candles, targets, edits, closes and failures, any length of the queue,
and runtimes that keep or erase the state of removed pairs:

| Theorem | States |
|---|---|
| `RuntimeTypes` | `Spec => []TypeOK` |
| `ResetHolds` | `Spec => []ResetAtRestClears` |
| `RestIsCoherent` | `Spec => []Coherent` |
| `AckedStays` | `Spec => []AckedIsSaved` |
| `EntersOnce` | `Spec => []OneEntryPerCandle` |
| `OneAtATime` | `Spec => []OnePosition` |
| `ClosesStay` | `Spec => ClosedStaysClosed` |
| `PositionKept` | `Spec => KeepsPosition` |

`TypeInv` has the types, what each task holds at each of its awaits (`TaskOK`),
which tasks can be where at the same time (`Shape`: the lock is held by one, the
worker outlives its pair only until it is cancelled) and that every remembered
`entry_order_id` was generated (`KnownIds`). The `...Effect` lemmas say once what
each step between two awaits does to which variables; each theorem then has an
invariant of its own, under the circumstances its property names:

* `ClearInv`: nothing in memory is older than the reset, and Redis is only while
  the reset has its last deletion before it and the pair runs, which never reads
  it.
* `CohInv`: which of the strategy, the stored state and Redis agree depends on the
  worker's place (`Decision`): all three until it decides (`InStep`); Redis and the
  state from before while it publishes, with the strategy ahead (`Deciding`); all
  three again after the save.
* `AckInv`: Redis and the stored state have seen the same last candle, the strategy
  that one or a later (`Followed`), and the worker's own candle is in the strategy
  from its decision on and in Redis from the save on (`Seen`).
* `EntryInv`: a candle that entered is remembered by the strategy, and by Redis
  unless the save is still to come (`Remembered`, `Backed`), so that a redelivery
  is recognised as old.
* `PosInv`: the last order, as far as it was not closed from outside, is what Redis
  holds when nothing is unsaved, what the strategy holds when nothing is being
  published, and is half way between the two while the worker publishes
  (`Underway`).
* `ClosedInv`: an entry whose close was handled is in none of the three places
  (`Unclosed`), and Redis and the runtime never hold two different open entries
  (`SameEntry`).

`PositionKept` puts `EntryInv`, `PosInv` and `ClosedInv` to use at the one step that
matters, `StoreOrder`: with `FreshInv`, that the `entry_order_id` of an ENTRY that is
being published is no order's, they are the guards of `Enter` and `Exit`. A close
from outside maps to `CloseOutside`; what takes note of a close or loses memory maps
to `Note`; all other steps stutter.

### OrderDeskProofs

From `BodiesAssumption`, `DeskBoundsAssumption` and `DeskAssumption` (a venue's
market, mode and account are what the configuration allows), for any number of
strategies, configs, goroutines, request ids, updates and delays, any quantity, every
venue, and whatever the configs say and the strategies signal there:

| Theorem | States |
|---|---|
| `DeskTypes` | `DeskSpec => []DeskTypeOK` |
| `OnlyAskedIsChanged` | `DeskSpec => OnlyAskedChanges` |
| `DisablingCloses` | `DeskSpec => []DisableCloses` |
| `ClosedEntriesAreFlat` | `DeskSpec => []ClosedIsFlat` |

`DeskInv` adds to the types what a goroutine holds between its calls (`JobsOK`), that
what the exchange has is recorded (`Recorded`) and that an order on its way has a
side that `PlaceOrder` knows (`OrdersSided`). `TableInv` ties the places of an order
together: an entry has its own request id wherever it is, what a goroutine publishes
are closes with its reason (`Named`), and a row that is not simulated is the order
the exchange has, with the position side it took and, once filled, its fill
(`RowsBacked`). For `OnlyAskedIsChanged`, `UpdateInv` says that who has read
a config that nobody else changes still knows it (`ReadIsCurrent`). `DisablingCloses`
is about updates that disable a strategy, not about deletions, and
follows from `OwedIsClosed`: an entry that is owed a close is closed, has it ordered,
or is in the hands of the goroutine of that call.

`ClosedEntriesAreFlat` is the most involved: `FlatInv` says that every exit of an
uncontended entry, wherever it is, has the entry's filled quantity, the other side
and the position side the entry was booked on (`ExitsFit`; a strategy's exit has them
only where its config still says what the entry has, and `Hedged` excepts its side), and that all of them are
one request (`OneExit`), because the manual close has a fixed id and any second way
to close makes the entry contended. The position is a sum over the book, whose value
for a set of two is obtained from the equation of `MapThenSumSet`'s fold
(`SumIsSolution`, `SumOfTwo`). The proof showed a case that the runs' venues did not
have: on an account in hedge mode that is configured as one-way, the second attempt
takes the position side from the close's own side (`binance.exchange.go:563`,
`:1328`), which is the other position; `Hedged` names it and `MCOrderDesk` has the
venue.

### KlineGatewayProofs

From `TypesAssumption` and `BoundsAssumption`, for any number of market types and
keys, any columns, edits and faults:

| Theorem | States |
|---|---|
| `GatewayTypes` | `Spec => []TypeOK` |
| `SettledIsSubscribed` | `Spec => []Settled` |

`Settled` is the safety half of `Subscribed`: while the marker is the one remembered,
so that the ticker does nothing, an open connection carries what the tables ask for.
That a subscriber gets to such a state is liveness and stays with TLC. `GatewayInv`
says that what a resync has read is what the tables hold unless they changed behind
it (`Read`), that a connection is open only in the read loop and until a resync
closes it (`Opened`), and that a remembered marker that has not moved vouches for
the connection and for the next one (`Vouched`). A refresh by another subscriber
keeps this, because streams that are current tell their rows, and rows and table
make the same streams again (`Refreshed`). The proof showed that `blind` has to look
at the connection beside the mapping: when the marker moves and two deletions put it
back, a refresh by the other subscriber in between brings the mapping up to date
while this connection keeps a stale name.

### Model-checked only

Liveness (`EventuallySettled`, `EventuallySynced`, `ConfigApplied`, `AllTaken`,
`Subscribed`, `JobsEnd`), which needs fairness and ENABLED, is out of the prover's
reach and stays with TLC on the bounds above; so would what a recursive definition
computes for every input, and anything that rests on a RECURSIVE operator, of which
the modules have none. The three expected violations are TLC's as well.

## 5. What is not modelled, and the plan

Not modelled for good: trading rules and indicators (floating point, sequential,
tuned by configuration), the web dashboard, reports and CRUD that is a single
statement, connection handling, bootstrap, routing, message formatting. The
notification service keeps no state: it is `ProcessWithTimeout` around one call
to Discord, and repeats a post whose answer was late. External, and modelled only as the code relies on them: the NATS
server, PostgreSQL's isolation, Redis, the exchanges, Discord.

Not modelled yet:

* several pairs of a runner whose events cross, and the micro grid, which holds
  several entries at once: `on_external_close` and the remembered entry do too
  little for it, and `StrategyRuntime` gives a strategy one position;
* Tokocrypto's websocket, which sends its subscriptions as messages and
  reconnects by the same loop;
* quantisation and the precision cache of the adapters: decimal arithmetic on what
  the exchange says of a symbol, for which the integers of a model stand badly;
* the orderly shutdown of the gateway, which waits for its goroutines.

Two hazards have no property. `on_external_close` and the micro grid
(`framework.py:289`) wait for the first point above. A market type that has no rows
when the process starts is never subscribed (`binance.exchange.go:312`): the model
shows it (`pc = "never"`), and no text of the repository promises otherwise for
rows that come later.

What would come next, most important first:

1. The micro grid as a second decision rule of `StrategyRuntime`, with a list of
   entries, so that `OneEntryPerCandle` and `KeepsPosition` get their counterparts for
   several open entries; their proofs (`EntryInv`, `PosInv`, `ClosedInv`) are the
   pattern.
2. An abstract specification in the manner of `OrderRequests` for the sessions (a
   login is in or out), which `LoginInv` nearly is, with the refinement as a theorem.
3. Tokocrypto's websocket beside Binance's in `KlineGateway`, and `GatewayInv` for
   both.
