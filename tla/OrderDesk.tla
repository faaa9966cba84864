------------------------------ MODULE OrderDesk ------------------------------
(***************************************************************************)
(* What the api orders: manual entries and closes, and the closes of a     *)
(* strategy that is disabled, from DataService through the place_order     *)
(* queue and the gateway's order rules to the positions of one symbol.     *)
(* Strategies trade the symbol as well.                                    *)
(*                                                                         *)
(* Retries and crashes of the gateway are OrderEngine's, the transactions  *)
(* of the projection OrderTrades', the inside of a strategy                *)
(* StrategyRuntime's: here a delivery is one step and an order trade is    *)
(* what its rows define.                                                   *)
(***************************************************************************)
EXTENDS Integers, FiniteSets, FiniteSetsExt

CONSTANTS
  Strategies,  \* names of strategies
  Manual,      \* the strategy_id of manual entries
  Configs,     \* ids of strategy_configs; an id is given once
  InitialConfigs, \* tables strategy_configs the process may find when it starts
  Workers,     \* goroutines of the HTTP server
  MaxIds,      \* bound: request ids that are random or carry a time
  Quantity,    \* quantity of an entry
  Venues,      \* market type, BINANCE_FUTURES_POSITION_MODE, mode of the account
  Forms,       \* manual entries at each venue: side, position_side, is_paper_trading
  SignalSides, \* sides of a strategy's entries at each venue
  OrderConfigs, \* what a row may say of a strategy's orders at each venue:
               \* position_side, order_qty, is_paper_trading
  Bodies,      \* what updates of a config ask for, enabled and strategy
  Keep,        \* a field the request's body does not have
  NoRow,      \* no row
  MaxUpdates,  \* bound: calls that change a config
  MaxDelays    \* bound: lost acknowledgements, orders not filled at once

ASSUME BodiesAssumption ==
  Bodies \subseteq [enabled: BOOLEAN \cup {Keep}, strategy: Strategies \cup {Keep}]
ASSUME DeskBoundsAssumption ==
  MaxIds \in Nat /\ MaxUpdates \in Nat /\ MaxDelays \in Nat /\ Quantity \in Nat \ {0}

VARIABLES
  venue,      \* where the symbol is traded
  configs,    \* table strategy_configs: [enabled, strategy] or NoRow
  active,     \* the strategy of the target a pair runs with, by config, or NoRow
  worker,     \* what each goroutine is doing
  queue,      \* place_order messages
  rows,       \* table order_histories by request id
  book,       \* orders the exchange accepted, by request id
  taken,       \* request ids and config ids that were given
  closers,    \* ghost: the reasons of the closes ordered for each entry
  contended,  \* ghost: entries closed from two sides, or on what was not known
  owed,       \* ghost: what was running when a config was disabled, by config
  overlapped, \* ghost: configs two updates have worked on at the same time
  failed,     \* ghost: configs with an update that stopped half way
  updates, delays

deskVars == <<venue, configs, active, worker, queue, rows, book, taken, closers,
              contended, owed, overlapped, failed, updates, delays>>

-----------------------------------------------------------------------------
\* Orders

Ids == 1..MaxIds
\* A request id that is not random: "manual-close-" and the id of the entry.
ManualClose(i) == MaxIds + i
RequestIds == 1..(2 * MaxIds)

Sides == {"LONG", "SHORT", "BUY", "SELL"}
PositionSides == {"BOTH", "LONG", "SHORT"}
Reasons == {"manual_entry", "signal", "manual_close", "strategy_disabled"}
Statuses == {"NEW", "PARTIAL", "FILLED", "CANCELED"}

\* entry is the pair (entry_order_id), which the entry's own request id names.
Orders == [cond: {"ENTRY", "EXIT"}, entry: Ids, strategy: Strategies \cup {Manual},
           side: Sides, pos: PositionSides, qty: 1..Quantity, paper: BOOLEAN,
           reason: Reasons]
Fills == [filled: 0..Quantity, status: Statuses]

IdleWorker == [pc |-> "idle", cfg |-> NoRow, given |-> NoRow, was |-> FALSE,
               item |-> NoRow, todo |-> {}]
ConfigRows == [enabled: BOOLEAN, strategy: Strategies]

DeskTypeOK ==
  /\ venue \in Venues
  /\ configs \in [Configs -> {NoRow} \cup ConfigRows]
  /\ active \in [Configs -> {NoRow} \cup Strategies]
  /\ worker \in [Workers -> [pc: {"idle", "write", "list", "publish"},
                             cfg: Configs \cup {NoRow}, given: Bodies \cup {NoRow},
                             was: BOOLEAN, item: ConfigRows \cup {NoRow},
                             todo: SUBSET Orders]]
  /\ queue \subseteq [req: RequestIds, order: Orders]
  /\ rows \in [RequestIds -> {NoRow} \cup [order: Orders, fill: Fills]]
  /\ book \in [RequestIds -> {NoRow} \cup [order: Orders, fill: Fills, at: PositionSides]]
  /\ taken \subseteq Ids \cup Configs
  /\ closers \in [Ids -> SUBSET Reasons]
  /\ contended \subseteq Ids /\ owed \in [Configs -> SUBSET Ids]
  /\ overlapped \subseteq Configs /\ failed \subseteq Configs
  /\ updates \in 0..MaxUpdates /\ delays \in 0..MaxDelays

\* The positions of an account in ONE_WAY mode have no side; AUTO leaves it open.
ASSUME DeskAssumption ==
  /\ \A v \in Venues :
       /\ v.market \in {"spot", "futures"} /\ v.account \in {"ONE_WAY", "HEDGE"}
       /\ v.mode \in {"AUTO", "ONE_WAY", "HEDGE"}
       /\ \A form \in Forms[v] : form.pos \in PositionSides /\ form.paper \in BOOLEAN
       /\ SignalSides[v] \subseteq {"BUY", "SELL"}
       /\ OrderConfigs[v] \subseteq [pos: PositionSides, qty: 1..Quantity, paper: BOOLEAN]
  /\ InitialConfigs \subseteq [Configs -> {NoRow} \cup ConfigRows]
  /\ NoRow \notin Configs \cup ConfigRows \cup [order: Orders, fill: Fills]
                 \cup [order: Orders, fill: Fills, at: PositionSides]

\* load_strategy_targets_from_order_configs
Targets == [c \in Configs |-> IF configs[c] # NoRow /\ configs[c].enabled
                               THEN configs[c].strategy ELSE NoRow]

DeskInit ==
  /\ venue \in Venues
  /\ configs \in InitialConfigs /\ active = Targets
  /\ worker = [w \in Workers |-> IdleWorker]
  /\ queue = {} /\ rows = [r \in RequestIds |-> NoRow] /\ book = [r \in RequestIds |-> NoRow]
  /\ \E before \in SUBSET Ids : taken = before \cup {c \in Configs : configs[c] # NoRow}
  /\ closers = [i \in Ids |-> {}] /\ contended = {}
  /\ owed = [c \in Configs |-> {}] /\ overlapped = {} /\ failed = {}
  /\ updates \in 0..MaxUpdates /\ delays \in 0..MaxDelays

NewId == CHOOSE i \in Ids : i \notin taken
NewIds == Ids \ taken

-----------------------------------------------------------------------------
\* The rules of sides

NormalizeOrderSideByMarket(side) ==
  IF venue.market = "futures"
  THEN IF side \in {"BUY", "LONG"} THEN "LONG" ELSE "SHORT"
  ELSE IF side \in {"BUY", "SELL"} THEN side ELSE NoRow

\* What PlaceOrder makes of position_side.
PositionSide(side, pos) ==
  IF venue.market # "futures" THEN "BOTH"
  ELSE IF pos # "BOTH" THEN pos
  ELSE IF side = "SHORT" THEN "SHORT" ELSE "LONG"

CloseOrderSide(side) ==
  IF venue.market = "futures"
  THEN IF side \in {"LONG", "BUY"} THEN "SHORT" ELSE "LONG"
  ELSE IF side \in {"LONG", "BUY"} THEN "SELL" ELSE "BUY"

SideCode(side) == IF side \in {"LONG", "BUY"} THEN "BUY" ELSE "SELL"
\* After PlaceOrder position_side of a futures order is LONG or SHORT.
FuturesPositionSide(pos) == IF venue.mode = "ONE_WAY" THEN "BOTH" ELSE pos
AlternateFuturesPositionSide(pos, code) ==
  IF pos # "BOTH" THEN "BOTH" ELSE IF code = "SELL" THEN "SHORT" ELSE "LONG"

\* Binance answers -4061 when positionSide does not fit the account's mode.
Mismatch(pos) == (pos = "BOTH") # (venue.account = "ONE_WAY")
MutSubmitted(order) ==
  LET pos == FuturesPositionSide(order.pos) IN
  IF venue.market # "futures" THEN "BOTH"
  ELSE IF Mismatch(pos) THEN AlternateFuturesPositionSide(pos, SideCode(order.side))
  ELSE AlternateFuturesPositionSide("BOTH", SideCode(order.side))
\* The positionSide the exchange takes the order with, after one more try.
Submitted(order) ==
  LET pos == FuturesPositionSide(order.pos) IN
  IF venue.market # "futures" THEN "BOTH"
  ELSE IF Mismatch(pos) THEN AlternateFuturesPositionSide(pos, SideCode(order.side))
  ELSE pos

-----------------------------------------------------------------------------
\* order_histories with its trades

Entry(i) == rows[i] # NoRow /\ rows[i].order.cond = "ENTRY"
\* trade.exit_price IS NOT NULL; an entry that did not execute has no exit.
Closed(i) == \E r \in RequestIds : rows[r] # NoRow /\ rows[r].order.entry = i
                                 /\ rows[r].order.cond = "EXIT" /\ rows[r].fill.status = "FILLED"
Running(i) == Entry(i) /\ ~Closed(i)

\* FindByIDWithMetrics and ListOpenEntriesByStrategyConfig.
FindRunning(i) == {j \in {i} : Running(j)}
ListOpenEntries(strategy) == {i \in Ids : Running(i) /\ rows[i].order.strategy = strategy}

\* buildManualCloseOrder and buildDisableStrategyCloseOrder: the filled
\* quantity, or the ordered one as long as nothing is known to be filled.
CloseOrderOf(i, reason) ==
  LET e == rows[i].order IN
  [e EXCEPT !.cond = "EXIT", !.side = CloseOrderSide(e.side), !.reason = reason,
            !.qty = IF rows[i].fill.filled = 0 THEN e.qty ELSE rows[i].fill.filled]

\* Ghosts of a close: what is known of the entry is all there will be, a strategy's
\* exit is of just that, and no other close was ordered, except by the user again.
Known(i) == rows[i].order.paper \/
            (book[i].fill = rows[i].fill /\ book[i].fill.status \in {"FILLED", "CANCELED"}
             /\ book[i].fill.filled > 0)
Uncertain(ids) == {i \in ids : ~Known(i)}
Rivals(i, reason) == closers[i] # {} /\ ~(reason = "manual_close" /\ closers[i] = {reason})

\* Quantity and is_paper_trading of a strategy's exit, which its config gives, are
\* those of the entry.
AsConfigured(i, order) ==
  order.qty = rows[i].fill.filled /\ order.paper = rows[i].order.paper

Close(req, order) ==
  LET i == order.entry IN
  /\ queue' = queue \cup {[req |-> req, order |-> order]}
  /\ closers' = [closers EXCEPT ![i] = @ \cup {order.reason}]
  /\ contended' = contended \cup
       {j \in {i} : \/ Rivals(j, order.reason)
                    \/ order.reason = "signal" /\ ~(Known(j) /\ AsConfigured(j, order))}

-----------------------------------------------------------------------------
\* Orders of the user

exchangeVars == <<venue, rows, book, delays>>
configVars == <<configs, active, owed, overlapped, failed, updates>>

\* CreateManualOrder with buildManualEntryOrder; one that is not published is
\* as if the user had not asked.
CreateManualOrder(form) ==
  LET side == NormalizeOrderSideByMarket(form.side) IN
  /\ side # NoRow /\ NewIds # {}
  /\ taken' = taken \cup {NewId}
  /\ queue' = queue \cup {[req |-> NewId, order |->
       [cond |-> "ENTRY", entry |-> NewId, strategy |-> Manual, side |-> side,
        pos |-> form.pos, qty |-> Quantity, paper |-> form.paper, reason |-> "manual_entry"]]}
  /\ UNCHANGED <<exchangeVars, configVars, worker, closers, contended>>

\* CloseOrder reads the entry ...
CloseOrder(w, i) ==
  /\ worker[w].pc = "idle"
  /\ i \in FindRunning(i)
  /\ worker' = [worker EXCEPT ![w] = [IdleWorker EXCEPT !.pc = "publish",
                                        !.todo = {CloseOrderOf(i, "manual_close")}]]
  /\ contended' = contended \cup Uncertain({i})
  /\ UNCHANGED <<exchangeVars, configVars, queue, taken, closers>>

\* ... and publishes its close; for a paper order it has read a price first.
PublishManualClose(w) ==
  /\ worker[w].pc = "publish" /\ worker[w].cfg = NoRow
  /\ \E order \in worker[w].todo : Close(ManualClose(order.entry), order)
  /\ worker' = [worker EXCEPT ![w] = IdleWorker]
  /\ UNCHANGED <<exchangeVars, configVars, taken>>

-----------------------------------------------------------------------------
\* Strategy configs

Count == updates < MaxUpdates /\ updates' = updates + 1
deskRest == <<exchangeVars, active, queue, closers, contended>>

CreateStrategyConfig(c, strategy, enabled) ==
  /\ Count /\ c \notin taken
  /\ configs' = [configs EXCEPT ![c] = [enabled |-> enabled, strategy |-> strategy]]
  /\ taken' = taken \cup {c}
  /\ UNCHANGED <<deskRest, worker, owed, overlapped, failed>>

\* Its trades stay as they are.
DeleteStrategyConfig(c) ==
  /\ Count /\ configs[c] # NoRow
  /\ configs' = [configs EXCEPT ![c] = NoRow]
  /\ UNCHANGED <<deskRest, worker, taken, owed, overlapped, failed>>

\* A field the body does not have gets its default.
MutMapStrategyConfig(given, current) ==
  [enabled |-> IF given.enabled = Keep THEN TRUE ELSE given.enabled,
   strategy |-> IF given.strategy = Keep THEN current.strategy ELSE given.strategy]

MapStrategyConfig(given, current) ==
  [enabled |-> IF given.enabled = Keep THEN current.enabled ELSE given.enabled,
   strategy |-> IF given.strategy = Keep THEN current.strategy ELSE given.strategy]

\* current is the row that mapStrategyConfig has already changed.
MutWasEnabled(given, current) == MapStrategyConfig(given, current).enabled
WasEnabled(given, current) == current.enabled

\* UpdateStrategyConfig: FindByID and the merge ...
UpdateStrategyConfig(w, c, given) ==
  /\ Count /\ worker[w].pc = "idle" /\ configs[c] # NoRow
  /\ worker' = [worker EXCEPT ![w] =
       [pc |-> "write", cfg |-> c, given |-> given, was |-> WasEnabled(given, configs[c]),
        item |-> MapStrategyConfig(given, configs[c]), todo |-> {}]]
  /\ overlapped' = IF \E v \in Workers : worker[v].pc = "write" /\ worker[v].cfg = c
                   THEN overlapped \cup {c} ELSE overlapped
  /\ UNCHANGED <<deskRest, configs, taken, owed, failed>>

\* ... Update, which writes every column and does not tell whether there is
\* such a row ...
Update(w) ==
  LET c == worker[w].cfg
      item == worker[w].item
      disables == worker[w].was /\ ~item.enabled IN
  /\ worker[w].pc = "write"
  /\ configs' = IF configs[c] = NoRow THEN configs ELSE [configs EXCEPT ![c] = item]
  /\ worker' = [worker EXCEPT ![w] = IF disables THEN [@ EXCEPT !.pc = "list"] ELSE IdleWorker]
  /\ owed' = IF configs[c] = [item EXCEPT !.enabled = TRUE] /\ ~item.enabled
             THEN [owed EXCEPT ![c] = @ \cup ListOpenEntries(item.strategy)]
             ELSE owed
  /\ UNCHANGED <<deskRest, taken, overlapped, failed, updates>>

\* ... and, once the strategy is stored as disabled, the entries to close ...
CloseOpenTrades(w) ==
  LET open == ListOpenEntries(worker[w].item.strategy) IN
  /\ worker[w].pc = "list"
  /\ worker' = [worker EXCEPT ![w] =
       IF open = {} THEN IdleWorker
       ELSE [@ EXCEPT !.pc = "publish",
                      !.todo = {CloseOrderOf(i, "strategy_disabled") : i \in open}]]
  /\ contended' = contended \cup Uncertain(open)
  /\ UNCHANGED <<exchangeVars, configVars, queue, taken, closers>>

\* ... one publish after the other.
PublishDisableClose(w) ==
  /\ worker[w].pc = "publish" /\ worker[w].cfg # NoRow /\ NewIds # {}
  /\ \E order \in worker[w].todo :
       /\ Close(NewId, order)
       /\ worker' = [worker EXCEPT ![w] = IF worker[w].todo = {order} THEN IdleWorker
                                          ELSE [@ EXCEPT !.todo = worker[w].todo \ {order}]]
  /\ taken' = taken \cup {NewId}
  /\ UNCHANGED <<exchangeVars, configVars>>

\* A query or a publish fails, there is no price, or the process ends.
FailWorker(w) ==
  /\ worker[w].pc # "idle"
  /\ worker' = [worker EXCEPT ![w] = IdleWorker]
  /\ failed' = IF worker[w].cfg = NoRow THEN failed ELSE failed \cup {worker[w].cfg}
  /\ UNCHANGED <<deskRest, configs, taken, owed, overlapped, updates>>

-----------------------------------------------------------------------------
\* The strategies

\* reconcile_pairs
Reconcile ==
  /\ active' = Targets
  /\ UNCHANGED <<exchangeVars, worker, queue, taken, closers, contended, configs, owed,
                 overlapped, failed, updates>>

\* A signal, ordered as the row said when the pair was reconciled, which may be
\* changed or deleted by now.
StrategyEnters(c, side, target) ==
  /\ active[c] # NoRow /\ NewIds # {}
  /\ taken' = taken \cup {NewId}
  /\ queue' = queue \cup {[req |-> NewId, order |->
       [cond |-> "ENTRY", entry |-> NewId, strategy |-> active[c],
        side |-> NormalizeOrderSideByMarket(side), pos |-> target.pos, qty |-> target.qty,
        paper |-> target.paper, reason |-> "signal"]]}
  /\ UNCHANGED <<exchangeVars, configVars, worker, closers, contended>>

\* Its own exit, as the row says now: nothing ties it to what the entry was ordered
\* with, or to what was filled of it.
StrategyExits(i, target) ==
  /\ Running(i) /\ rows[i].order.strategy # Manual /\ NewIds # {}
  /\ taken' = taken \cup {NewId}
  /\ LET e == rows[i].order IN
     Close(NewId, [e EXCEPT !.cond = "EXIT", !.side = CloseOrderSide(e.side),
                            !.pos = target.pos, !.qty = target.qty, !.paper = target.paper,
                            !.reason = "signal"])
  /\ UNCHANGED <<exchangeVars, configVars, worker>>

-----------------------------------------------------------------------------
\* The gateway and the exchange

Opened(q) == {[filled |-> 0, status |-> "NEW"], [filled |-> q, status |-> "FILLED"]}
Later(fill, q) ==
  {f \in Fills : /\ f.filled >= fill.filled /\ f # fill
                 /\ \/ f.status = "PARTIAL" /\ f.filled \in 1..(q - 1)
                    \/ f.status = "FILLED" /\ f.filled = q
                    \/ f.status = "CANCELED" /\ f.filled < q}

\* The message is settled, or its acknowledgement was lost; n is what the
\* exchange delays.
Settle(m, n) == \E lost \in 0..1 : /\ queue' = IF lost = 0 THEN queue \ {m} ELSE queue
                                  /\ delays + n + lost <= MaxDelays /\ delays' = delays + n + lost

\* PlaceOrder normalises the order, drops one whose request_id has a row, fills
\* a paper order itself and hands any other to the exchange.
Normalize(order) ==
  LET side == NormalizeOrderSideByMarket(order.side) IN
  [order EXCEPT !.side = side, !.pos = PositionSide(side, order.pos)]

PlaceOrder(m) ==
  LET order == Normalize(m.order) IN
  /\ m \in queue
  /\ \/ /\ rows[m.req] # NoRow
        /\ Settle(m, 0)
        /\ UNCHANGED <<rows, book>>
     \/ /\ rows[m.req] = NoRow /\ order.paper
        /\ rows' = [rows EXCEPT ![m.req] =
             [order |-> order, fill |-> [filled |-> order.qty, status |-> "FILLED"]]]
        /\ Settle(m, 0)
        /\ UNCHANGED book
     \/ /\ rows[m.req] = NoRow /\ ~order.paper
        /\ \E f \in Opened(order.qty) :
             /\ book' = [book EXCEPT ![m.req] =
                  [order |-> order, fill |-> f, at |-> Submitted(order)]]
             /\ rows' = [rows EXCEPT ![m.req] =
                  [order |-> [order EXCEPT !.pos = Submitted(order)], fill |-> f]]
             /\ Settle(m, IF f.status = "FILLED" THEN 0 ELSE 1)
  /\ UNCHANGED <<venue, configVars, worker, taken, closers, contended>>

\* The exchange refuses the order until the message is given up.
Refuse(m) ==
  /\ m \in queue /\ rows[m.req] = NoRow /\ ~m.order.paper
  /\ queue' = queue \ {m}
  /\ UNCHANGED <<exchangeVars, configVars, worker, taken, closers, contended>>

Match(r) ==
  /\ book[r] # NoRow /\ book[r].fill.status \in {"NEW", "PARTIAL"}
  /\ \E f \in Later(book[r].fill, book[r].order.qty) :
       book' = [book EXCEPT ![r].fill = f]
  /\ UNCHANGED <<venue, rows, delays, configVars, worker, queue, taken, closers, contended>>

\* The worker stores what the exchange says of the order.
Sync(r) ==
  /\ book[r] # NoRow /\ rows[r].fill # book[r].fill
  /\ rows' = [rows EXCEPT ![r].fill = book[r].fill]
  /\ UNCHANGED <<venue, book, delays, configVars, worker, queue, taken, closers, contended>>

-----------------------------------------------------------------------------
OrderHandlers ==
  \/ \E form \in Forms[venue] : CreateManualOrder(form)
  \/ \E w \in Workers, i \in Ids : CloseOrder(w, i)
ConfigHandlers ==
  \/ \E c \in Configs, s \in Strategies, e \in BOOLEAN : CreateStrategyConfig(c, s, e)
  \/ \E c \in Configs : DeleteStrategyConfig(c)
  \/ \E w \in Workers, c \in Configs, given \in Bodies : UpdateStrategyConfig(w, c, given)
Work(w) == Update(w) \/ CloseOpenTrades(w) \/ PublishDisableClose(w)
           \/ PublishManualClose(w) \/ FailWorker(w)
Trade == \/ Reconcile
         \/ \E c \in Configs, side \in SignalSides[venue], target \in OrderConfigs[venue] :
              StrategyEnters(c, side, target)
         \/ \E i \in Ids, target \in OrderConfigs[venue] : StrategyExits(i, target)
Gateway == \E m \in queue : PlaceOrder(m) \/ Refuse(m)
Exchange == \E r \in RequestIds : Match(r) \/ Sync(r)

DeskNext == \/ OrderHandlers \/ ConfigHandlers \/ (\E w \in Workers : Work(w))
            \/ Trade \/ Gateway \/ Exchange

DeskSpec == DeskInit /\ [][DeskNext]_deskVars

-----------------------------------------------------------------------------
\* Properties

\* The position of an entry with its closes, on one of the account's sides.
Signed(r) == IF SideCode(book[r].order.side) = "BUY" THEN book[r].fill.filled
             ELSE -book[r].fill.filled
PositionOf(i, s) ==
  MapThenSumSet(Signed, {r \in RequestIds : book[r] # NoRow /\ book[r].order.entry = i
                                          /\ book[r].at = s})

Flat(i) == \A s \in PositionSides : PositionOf(i, s) = 0
\* Where its config says BOTH, PlaceOrder takes the position side of a strategy's exit
\* from the exit's own side: on an account in hedge mode that is the other position.
\* So does the second attempt with any close, where the configured mode is ONE_WAY.
Hedged(i) == /\ venue.market = "futures" /\ venue.account = "HEDGE"
             /\ venue.mode = "ONE_WAY" \/ "signal" \in closers[i]

\* An entry whose trade is shown as closed has left no position behind on either
\* side, however often its close was asked for, delivered or matched in parts -
\* unless it was closed from two sides, before its own execution was known or by a
\* strategy whose config says another quantity or paper trading by now, or in hedge
\* mode by a strategy or by a gateway that is configured for one-way mode.
ClosedIsFlat ==
  \A i \in Ids \ contended : Entry(i) /\ Closed(i) => Flat(i) \/ Hedged(i)

\* A field of a config changes only to what a request asked for, unless two
\* updates of the config worked at the same time.
Asked(c, f) == \E w \in Workers : /\ worker[w].pc = "write" /\ worker'[w].pc # "write"
                                  /\ worker[w].cfg = c /\ worker[w].given[f] # Keep
OnlyAskedChanges ==
  [][\A c \in Configs \ overlapped : configs[c] # NoRow /\ configs'[c] # NoRow =>
       \A f \in {"enabled", "strategy"} : configs'[c][f] # configs[c][f] => Asked(c, f)]_deskVars

\* What was running when the strategy was disabled is closed, or its close has
\* been ordered, as soon as the call is over - unless the call failed, another
\* one worked on the config, or the same call gave it to another strategy.
Disabling(c) == \E w \in Workers : worker[w].cfg = c /\ worker[w].pc \in {"list", "publish"}
DisableCloses ==
  \A c \in Configs \ (failed \cup overlapped) :
    ~Disabling(c) => \A i \in owed[c] : Closed(i) \/ "strategy_disabled" \in closers[i]
=============================================================================
