----------------------------- MODULE OrderSync -----------------------------
(***************************************************************************)
(* The order-engine-worker: the polling loop that brings pending rows of   *)
(* order_histories up to the exchange's execution state, next to the       *)
(* gateway that inserts the rows and the exchange that executes the orders *)
(* meanwhile.  Two workers stand for a deployment that starts a new        *)
(* process before the old one has left: nothing in the code excludes it.   *)
(*                                                                         *)
(* A pass loads the pending rows once and works on that snapshot; fetching *)
(* an order, publishing its close and writing its row are separate calls,  *)
(* and the write is a write of the whole row, found by its id alone.       *)
(***************************************************************************)
EXTENDS Naturals, Sequences, FiniteSets

CONSTANTS
  Workers,      \* processes running the loop
  Orders,       \* live orders the exchange accepts
  ManualClose,  \* orders with order_reason "manual_close"
  Unrouted,     \* orders whose exchange this worker has not registered
  Tokocrypto,   \* orders of Tokocrypto; the others are Binance's
  Qty,          \* ordered quantity, in lots
  Codes,        \* the status codes the exchanges use
  NoRow,
  MaxCrashes    \* bound: worker crashes

ASSUME QtyAssumption == Qty \in Nat \ {0}
ASSUME BoundAssumption == MaxCrashes \in Nat

VARIABLES
  hist,       \* the states each order went through at the exchange
  rows,       \* order_histories, by order; NoRow before the insert
  snap,       \* per worker: the loaded rows the pass has still to visit
  pc,         \* per worker
  cur, new,   \* per worker: the order in hand and its updatedHistory
  announced,  \* orders with a strategy_control.position_closed event
  crashes

vars == <<hist, rows, snap, pc, cur, new, announced, crashes>>
workerVars == <<snap, pc, cur, new>>

-----------------------------------------------------------------------------
\* The exchange

\* Binance's names of the states.  Tokocrypto's adapter knows the numbers of five
\* of them.
AllCodes == {"NEW", "PARTIALLY_FILLED", "PENDING_CANCEL", "FILLED", "CANCELED",
             "EXPIRED", "REJECTED", "EXPIRED_IN_MATCH"}
ASSUME CodesAssumption == Codes \subseteq AllCodes

Open == {"NEW", "PARTIALLY_FILLED", "PENDING_CANCEL"}
ExStates == [code : AllCodes, filled : 0 .. Qty]

Consistent(s) ==
  /\ s.code \in Codes
  /\ s.code = "NEW" => s.filled = 0
  /\ s.code = "REJECTED" => s.filled = 0
  /\ s.code = "PARTIALLY_FILLED" => s.filled \in 1 .. Qty - 1
  /\ s.code = "FILLED" <=> s.filled = Qty

\* What the exchange may do next with an open order.
Follows(s, t) ==
  /\ s.code \in Open
  /\ Consistent(t)
  /\ t # s
  /\ t.filled >= s.filled
  /\ s.code = "PENDING_CANCEL" => t.code \notin {"NEW", "PARTIALLY_FILLED"}
  /\ t.code # "REJECTED"

Accepted(o) == hist[o] # <<>>
Ex(o) == hist[o][Len(hist[o])]

-----------------------------------------------------------------------------
\* (A definition named Mut... is the one after it with a plausible fault: each
\* property below rules one of them out.)

MutBinanceStatus(code) ==
  IF code \in {"CANCELED", "EXPIRED", "PENDING_CANCEL"} THEN "CANCELED" ELSE code

\* What binanceOrderStatusFromCode does not know it passes on,
binanceOrderStatusFromCode(code) ==
  CASE code = "PARTIALLY_FILLED" -> "PARTIAL"
    [] code \in {"CANCELED", "EXPIRED", "PENDING_CANCEL"} -> "CANCELED"
    [] OTHER -> code

\* and tokocryptoOrderStatusFromCode turns into UNKNOWN_n.
tokocryptoOrderStatusFromCode(code) ==
  CASE code = "PARTIALLY_FILLED" -> "PARTIAL"
    [] code \in {"NEW", "FILLED", "CANCELED", "REJECTED"} -> code
    [] OTHER -> "UNKNOWN"

MutPendingStatuses == {"NEW"}
pendingOrderHistoryStatuses == {"NEW", "PARTIAL"}

\* A row: status, filled_quantity, and the quantity avg_fill_price averages
\* over (0: still null).
Rows == [status : {"NEW", "PARTIAL", "FILLED", "CANCELED", "REJECTED", "EXPIRED_IN_MATCH",
                   "UNKNOWN"},
         filled : 0 .. Qty, avg : 0 .. Qty]

\* mapPlaceOrderResponseToOrderHistory of the two adapters.  The average is what
\* Binance says of the quote quantity, and what Tokocrypto says at once.
binancePlaced(s) ==
  [status |-> binanceOrderStatusFromCode(s.code), filled |-> s.filled, avg |-> s.filled]
tokocryptoPlaced(s) ==
  [status |-> tokocryptoOrderStatusFromCode(s.code), filled |-> s.filled, avg |-> s.filled]

\* mapOrderHistorySyncResponse: the average is taken only when something is
\* filled, and otherwise keeps the value it has.
Averaged(row, s) == IF s.filled > 0 THEN s.filled ELSE row.avg
binanceSynced(row, s) ==
  [binancePlaced(s) EXCEPT !.avg = Averaged(row, s)]
tokocryptoSynced(row, s) ==
  [tokocryptoPlaced(s) EXCEPT !.avg = Averaged(row, s)]

\* What PlaceOrder and SyncOrderHistory make of an answer.
PlaceOrder(o, s) == IF o \in Tokocrypto THEN tokocryptoPlaced(s) ELSE binancePlaced(s)
MutSyncOrderHistory(o, row, s) ==
  [row EXCEPT !.status = PlaceOrder(o, s).status, !.avg = Averaged(row, s)]
SyncOrderHistory(o, row, s) ==
  IF o \in Tokocrypto THEN tokocryptoSynced(row, s) ELSE binanceSynced(row, s)

MutClosing(o, row) == row.filled > 0 /\ o \in ManualClose
Closing(o, row) == row.status = "FILLED" /\ o \in ManualClose

Stored == {o \in Orders : rows[o] # NoRow}

TypeOK ==
  /\ hist \in [Orders -> Seq(ExStates)]
  /\ rows \in [Orders -> Rows \cup {NoRow}]
  /\ snap \in [Workers -> [Orders -> Rows \cup {NoRow}]]
  /\ pc \in [Workers -> {"idle", "pass", "publish", "update"}]
  /\ cur \in [Workers -> Orders \cup {NoRow}]
  /\ new \in [Workers -> Rows \cup {NoRow}]
  /\ announced \subseteq Orders
  /\ crashes \in 0 .. MaxCrashes

Init ==
  /\ hist = [o \in Orders |-> <<>>]
  /\ rows = [o \in Orders |-> NoRow]
  /\ snap = [w \in Workers |-> [o \in Orders |-> NoRow]]
  /\ pc = [w \in Workers |-> "idle"]
  /\ cur = [w \in Workers |-> NoRow]
  /\ new = [w \in Workers |-> NoRow]
  /\ announced = {}
  /\ crashes = 0

-----------------------------------------------------------------------------
\* The exchange and the gateway

\* An order is accepted: the reply to the gateway shows this state.
Accept(o) ==
  /\ ~Accepted(o)
  /\ \E s \in ExStates :
       Consistent(s) /\ s.code # "PENDING_CANCEL" /\ hist' = [hist EXCEPT ![o] = <<s>>]
  /\ UNCHANGED <<rows, workerVars, announced, crashes>>

Execute(o) ==
  /\ Accepted(o)
  /\ \E s \in ExStates : Follows(Ex(o), s) /\ hist' = [hist EXCEPT ![o] = Append(@, s)]
  /\ UNCHANGED <<rows, workerVars, announced, crashes>>

\* PlaceOrder stores the reply, however much the order has changed since.
Create(o) ==
  /\ Accepted(o)
  /\ rows[o] = NoRow
  /\ rows' = [rows EXCEPT ![o] = PlaceOrder(o, hist[o][1])]
  /\ UNCHANGED <<hist, workerVars, announced, crashes>>

-----------------------------------------------------------------------------
\* SyncPendingOrderHistories

\* GetByStatus.  A query that fails leaves the worker idle until the next tick.
Load(w) ==
  /\ pc[w] = "idle"
  /\ snap' = [snap EXCEPT ![w] = [o \in Orders |->
                IF o \in Stored /\ rows[o].status \in pendingOrderHistoryStatuses
                THEN rows[o] ELSE NoRow]]
  /\ pc' = [pc EXCEPT ![w] = "pass"]
  /\ UNCHANGED <<hist, rows, cur, new, announced, crashes>>

\* The loop is left at the end of the snapshot.
EndPass(w) ==
  /\ pc[w] = "pass"
  /\ \A o \in Orders : snap[w][o] = NoRow
  /\ pc' = [pc EXCEPT ![w] = "idle"]
  /\ UNCHANGED <<hist, rows, snap, cur, new, announced, crashes>>

\* Done with a row, for better or worse: the loop continues with the others.
Continue(w, o) ==
  /\ snap' = [snap EXCEPT ![w][o] = NoRow]
  /\ pc' = [pc EXCEPT ![w] = "pass"]
  /\ cur' = [cur EXCEPT ![w] = NoRow]
  /\ new' = [new EXCEPT ![w] = NoRow]

\* An unregistered exchange, or SyncOrderHistory returned an error.
Skip(w, o) ==
  /\ pc[w] = "pass"
  /\ snap[w][o] # NoRow
  /\ Continue(w, o)
  /\ UNCHANGED <<hist, rows, announced, crashes>>

\* SyncOrderHistory: the exchange answers with the order's state, which is
\* mapped onto the loaded row.  publishManualPositionClosed then returns at
\* once unless the order is a filled manual close.
Fetch(w, o) ==
  LET row == SyncOrderHistory(o, snap[w][o], Ex(o))
  IN  /\ pc[w] = "pass"
      /\ snap[w][o] # NoRow
      /\ o \notin Unrouted
      /\ cur' = [cur EXCEPT ![w] = o]
      /\ new' = [new EXCEPT ![w] = row]
      /\ pc' = [pc EXCEPT ![w] = IF Closing(o, row) THEN "publish" ELSE "update"]
      /\ UNCHANGED <<hist, rows, snap, announced, crashes>>

MutPublish(w) ==
  /\ pc[w] = "publish"
  /\ announced' = announced \cup {cur[w]} \/ UNCHANGED announced
  /\ pc' = [pc EXCEPT ![w] = "update"]
  /\ UNCHANGED <<hist, rows, snap, cur, new, crashes>>

\* The event is stored and the row may follow; or an error is reported, and
\* the row is left for the next pass.
Publish(w) ==
  /\ pc[w] = "publish"
  /\ \/ /\ announced' = announced \cup {cur[w]}
        /\ pc' = [pc EXCEPT ![w] = "update"]
        /\ UNCHANGED <<snap, cur, new>>
     \/ /\ announced' = announced \cup {cur[w]} \/ UNCHANGED announced
        /\ Continue(w, cur[w])
  /\ UNCHANGED <<hist, rows, crashes>>

\* orderHistoryRepo.Update: the whole row by id, or an error, with the row
\* written or not.
Update(w) ==
  /\ pc[w] = "update"
  /\ rows' = [rows EXCEPT ![cur[w]] = new[w]] \/ UNCHANGED rows
  /\ Continue(w, cur[w])
  /\ UNCHANGED <<hist, announced, crashes>>

\* The process dies, or ctx ends it between two calls.
Crash(w) ==
  /\ crashes < MaxCrashes
  /\ crashes' = crashes + 1
  /\ snap' = [snap EXCEPT ![w] = [o \in Orders |-> NoRow]]
  /\ pc' = [pc EXCEPT ![w] = "idle"]
  /\ cur' = [cur EXCEPT ![w] = NoRow]
  /\ new' = [new EXCEPT ![w] = NoRow]
  /\ UNCHANGED <<hist, rows, announced>>

-----------------------------------------------------------------------------
Gateway(o) == Accept(o) \/ Execute(o) \/ Create(o)

Worker(w) ==
  \/ Load(w) \/ EndPass(w) \/ Publish(w) \/ Update(w) \/ Crash(w)
  \/ \E o \in Orders : Skip(w, o) \/ Fetch(w, o)

Next == (\E o \in Orders : Gateway(o)) \/ (\E w \in Workers : Worker(w))

Spec == Init /\ [][Next]_vars

\* The ticker keeps a worker going, its calls return, and a call that is made
\* again and again for an order succeeds in the end.  Nothing is assumed of the
\* exchange's progress, of the gateway, or of crashes.
Fairness ==
  \A w \in Workers :
    /\ WF_vars(Load(w)) /\ WF_vars(EndPass(w))
    /\ \A o \in Unrouted : WF_vars(Skip(w, o))
    /\ \A o \in Orders \ Unrouted :
         /\ SF_vars(Fetch(w, o))
         /\ SF_vars(Publish(w) /\ cur[w] = o /\ pc'[w] = "update")
         /\ SF_vars(Update(w) /\ cur[w] = o /\ rows'[o] = new[w])

FairSpec == Spec /\ Fairness

-----------------------------------------------------------------------------
\* Properties

\* A position is announced as closed only when the exchange filled the order:
\* neither a partial fill nor a mixed-up row announces it.
AnnouncedIsFilled == \A o \in announced : Accepted(o) /\ Ex(o).code = "FILLED"

\* A manual close the worker recorded as FILLED, which no pass loads again, has
\* been announced, over every failed publish and update: the announcement
\* precedes the write that removes the row from the pending ones.  (The close
\* of an order the gateway itself stored as FILLED is the gateway's to publish.)
FilledIsAnnounced ==
  \A o \in Stored : Closing(o, rows[o]) /\ hist[o][1].code # "FILLED" => o \in announced

\* A row shows one state the order really had: status, quantity and average
\* price never mix two answers of the exchange, whatever the workers' snapshots.
RowWasTrue ==
  \A o \in Stored : \E i \in DOMAIN hist[o] : rows[o] = PlaceOrder(o, hist[o][i])

\* The workers and the gateway together implement OrderRecord: every row they
\* write was true of its order, and every manual close that is found filled later
\* is announced before its row leaves the pending ones.
Past == [o \in Orders |-> {PlaceOrder(o, hist[o][i]) : i \in DOMAIN hist[o]}]
Ledger == INSTANCE OrderRecord WITH past <- Past
KeepsRecord == Ledger!RecordSpec

\* The one open state that is stored as a final one.
Blind(o) == \E i \in DOMAIN hist[o] : hist[o][i].code = "PENDING_CANCEL"

UpToDate(o) == rows[o] = PlaceOrder(o, Ex(o))

\* A row that no pass loads again is final: it shows the state its order has at the
\* exchange and keeps.  A stale write may bring back an older answer, and then the
\* row is pending again.
DoneIsFinal ==
  \A o \in Stored : rows[o].status \notin pendingOrderHistoryStatuses /\ ~Blind(o) =>
    UpToDate(o) /\ Ex(o).code \notin Open

\* A stored order that is final at the exchange ends with the row that says so,
\* for good: a stale write of another worker, a failed call, a crash or another
\* order that keeps failing only delays it.
EventuallySynced ==
  \A o \in Orders \ Unrouted :
    <>[](o \in Stored /\ Ex(o).code \notin Open /\ ~Blind(o) => UpToDate(o))
=============================================================================
