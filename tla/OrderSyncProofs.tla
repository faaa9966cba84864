-------------------------- MODULE OrderSyncProofs --------------------------
(***************************************************************************)
(* Theorems about OrderSync, for every set of workers and orders, every    *)
(* quantity, every subset of the exchange's codes, and any number of       *)
(* crashes.                                                                *)
(***************************************************************************)
EXTENDS OrderSync, TLAPS

\* A row that shows one of the states the order was in.
Real(o, row) == \E i \in DOMAIN hist[o] : row = PlaceOrder(o, hist[o][i])

\* An order that left the open states stays where it is, and its filled
\* quantity never shrinks: whatever row is real, the exchange's state is ahead.
Settled ==
  \A o \in Orders : \A i \in DOMAIN hist[o] :
    /\ hist[o][i].filled <= Ex(o).filled
    /\ hist[o][i].code \notin Open => i = Len(hist[o])

\* Every row a pass holds is a real one of its order.
SnapshotReal == \A w \in Workers, o \in Orders : snap[w][o] # NoRow => Real(o, snap[w][o])
HandReal ==
  \A w \in Workers : pc[w] \in {"publish", "update"} => cur[w] \in Orders /\ Real(cur[w], new[w])

\* A worker publishes for a filled close, and writes it only when announced.
PublishClosing == \A w \in Workers : pc[w] = "publish" => Closing(cur[w], new[w])
UpdateAnnounced ==
  \A w \in Workers : pc[w] = "update" /\ Closing(cur[w], new[w]) => cur[w] \in announced

IInv ==
  /\ TypeOK /\ Settled /\ RowWasTrue /\ SnapshotReal /\ HandReal
  /\ PublishClosing /\ UpdateAnnounced /\ AnnouncedIsFilled /\ FilledIsAnnounced

-----------------------------------------------------------------------------
\* The mappings

\* Both adapters yield statuses a row may have.
LEMMA StatusType ==
  ASSUME NEW code \in AllCodes
  PROVE  {binanceOrderStatusFromCode(code), tokocryptoOrderStatusFromCode(code)} \subseteq
           {"NEW", "PARTIAL", "FILLED", "CANCELED", "REJECTED", "EXPIRED_IN_MATCH", "UNKNOWN"}
  BY DEF binanceOrderStatusFromCode, tokocryptoOrderStatusFromCode, AllCodes

\* Only the code FILLED is stored as FILLED.
LEMMA StatusFilled ==
  ASSUME NEW code \in AllCodes,
         "FILLED" \in {binanceOrderStatusFromCode(code), tokocryptoOrderStatusFromCode(code)}
  PROVE  code = "FILLED"
  BY DEF binanceOrderStatusFromCode, tokocryptoOrderStatusFromCode, AllCodes

\* mapPlaceOrderResponseToOrderHistory yields a row with what was filled.
LEMMA PlaceType ==
  ASSUME NEW o, NEW s \in ExStates
  PROVE  PlaceOrder(o, s) \in Rows /\ PlaceOrder(o, s).avg = s.filled
<1>1. /\ s.filled \in 0 .. Qty
      /\ binanceOrderStatusFromCode(s.code) \in {"NEW", "PARTIAL", "FILLED", "CANCELED",
           "REJECTED", "EXPIRED_IN_MATCH", "UNKNOWN"}
      /\ tokocryptoOrderStatusFromCode(s.code) \in {"NEW", "PARTIAL", "FILLED", "CANCELED",
           "REJECTED", "EXPIRED_IN_MATCH", "UNKNOWN"}
  BY StatusType DEF ExStates
<1>2. CASE o \in Tokocrypto
  BY <1>1, <1>2 DEF PlaceOrder, tokocryptoPlaced, Rows
<1>3. CASE o \notin Tokocrypto
  BY <1>1, <1>3 DEF PlaceOrder, binancePlaced, Rows
<1>4. QED
  BY <1>2, <1>3

\* A row of an answer says FILLED only when the answer does.
LEMMA PlaceFilled ==
  ASSUME NEW o, NEW s \in ExStates, PlaceOrder(o, s).status = "FILLED"
  PROVE  s.code = "FILLED"
<1>1. s.code \in AllCodes
  BY DEF ExStates
<1>2. CASE o \in Tokocrypto
  BY <1>1, <1>2, StatusFilled DEF PlaceOrder, tokocryptoPlaced
<1>3. CASE o \notin Tokocrypto
  BY <1>1, <1>3, StatusFilled DEF PlaceOrder, binancePlaced
<1>4. QED
  BY <1>2, <1>3

\* Mapping an answer onto a row that shows an earlier state with no more filled
\* than the answer is mapping the answer alone: the kept average is no leftover.
LEMMA SyncIsPlace ==
  ASSUME NEW o, NEW s \in ExStates, NEW t \in ExStates, t.filled <= s.filled
  PROVE  SyncOrderHistory(o, PlaceOrder(o, t), s) = PlaceOrder(o, s)
<1> DEFINE row == PlaceOrder(o, t)
<1>1. s.filled \in Nat /\ t.filled \in Nat /\ row.avg = t.filled
  BY QtyAssumption, PlaceType DEF ExStates
<1> HIDE DEF row
<1>2. Averaged(row, s) = s.filled
  BY <1>1 DEF Averaged
<1>3. SyncOrderHistory(o, row, s) = PlaceOrder(o, s)
  BY <1>2 DEF SyncOrderHistory, PlaceOrder, binanceSynced, tokocryptoSynced,
              binancePlaced, tokocryptoPlaced
<1>4. QED
  BY <1>3 DEF row

-----------------------------------------------------------------------------
\* Facts of one state

\* What a real row says: its order was accepted.
LEMMA RealRow ==
  ASSUME TypeOK, NEW o \in Orders, NEW row, Real(o, row)
  PROVE  row \in Rows /\ hist[o] \in Seq(ExStates) /\ hist[o] # <<>> /\ Ex(o) \in ExStates
<1>1. PICK i \in DOMAIN hist[o] : row = PlaceOrder(o, hist[o][i])
  BY DEF Real
<1>2. hist[o] \in Seq(ExStates)
  BY DEF TypeOK
<1>3. hist[o][i] \in ExStates /\ hist[o] # <<>>
  BY <1>1, <1>2
<1>4. Ex(o) \in ExStates
  BY <1>2, <1>3 DEF Ex
<1>5. row \in Rows
  BY <1>1, <1>3, PlaceType
<1>6. QED
  BY <1>2, <1>3, <1>4, <1>5

\* A real row that says FILLED is the state its order is in, for good.
LEMMA FilledRow ==
  ASSUME TypeOK, Settled, NEW o \in Orders, NEW row, Real(o, row), row.status = "FILLED"
  PROVE  Ex(o).code = "FILLED"
<1>1. PICK i \in DOMAIN hist[o] : row = PlaceOrder(o, hist[o][i])
  BY DEF Real
<1>2. hist[o][i] \in ExStates
  BY <1>1 DEF TypeOK
<1>3. hist[o][i].code = "FILLED"
  BY <1>1, <1>2, PlaceFilled
<1>4. i = Len(hist[o])
  BY <1>1, <1>3 DEF Settled, Open
<1>5. QED
  BY <1>3, <1>4 DEF Ex

\* The row a fetch makes of a snapshot row is the exchange's answer.
LEMMA FetchRow ==
  ASSUME TypeOK, Settled, NEW o \in Orders, NEW row, Real(o, row)
  PROVE  SyncOrderHistory(o, row, Ex(o)) = PlaceOrder(o, Ex(o))
<1>1. PICK i \in DOMAIN hist[o] : row = PlaceOrder(o, hist[o][i])
  BY DEF Real
<1>2. hist[o][i] \in ExStates
  BY <1>1 DEF TypeOK
<1>3. Ex(o) \in ExStates
  BY RealRow
<1>4. hist[o][i].filled <= Ex(o).filled
  BY <1>1 DEF Settled
<1>5. QED
  BY <1>1, <1>2, <1>3, <1>4, SyncIsPlace

\* The exchange's answer is a real row.
LEMMA ExReal ==
  ASSUME TypeOK, NEW o \in Orders, hist[o] # <<>>
  PROVE  Real(o, PlaceOrder(o, Ex(o)))
<1>1. hist[o] \in Seq(ExStates)
  BY DEF TypeOK
<1>2. Len(hist[o]) \in DOMAIN hist[o]
  BY <1>1
<1>3. QED
  BY <1>2 DEF Real, Ex

-----------------------------------------------------------------------------
\* Facts of one step

\* No step rewrites what the exchange has been through.
Grows ==
  \A o \in Orders : \A i \in DOMAIN hist[o] :
    i \in DOMAIN hist'[o] /\ hist'[o][i] = hist[o][i]

\* A real row stays real.
LEMMA StaysReal ==
  ASSUME Grows, NEW o \in Orders, NEW row, Real(o, row)
  PROVE  Real(o, row)'
  BY DEF Grows, Real

\* Accepting an order begins its history.
LEMMA AcceptGrows ==
  ASSUME TypeOK, NEW o \in Orders, Accept(o)
  PROVE  Grows
<1>1. hist[o] = <<>>
  BY DEF Accept, Accepted
<1>2. \A p \in Orders : p # o => hist'[p] = hist[p]
  BY DEF Accept, TypeOK
<1>3. DOMAIN hist[o] = {}
  BY <1>1
<1>4. QED
  BY <1>2, <1>3 DEF Grows

\* What Execute does to the order it is about, and to no other.
LEMMA ExecuteStep ==
  ASSUME TypeOK, NEW o \in Orders, Execute(o)
  PROVE  \E s \in ExStates :
           /\ Follows(Ex(o), s)
           /\ hist' = [hist EXCEPT ![o] = Append(hist[o], s)]
           /\ hist[o] \in Seq(ExStates) /\ hist[o] # <<>>
           /\ \A p \in Orders : p # o => hist'[p] = hist[p]
           /\ hist'[o] = Append(hist[o], s)
           /\ Ex(o)' = s
<1>1. PICK s \in ExStates : Follows(Ex(o), s) /\ hist' = [hist EXCEPT ![o] = Append(hist[o], s)]
  BY DEF Execute
<1>2. hist[o] \in Seq(ExStates) /\ hist[o] # <<>>
  BY DEF Execute, Accepted, TypeOK
<1>3. hist'[o] = Append(hist[o], s) /\ \A p \in Orders : p # o => hist'[p] = hist[p]
  BY <1>1 DEF TypeOK
<1>4. Ex(o)' = s
  BY <1>2, <1>3 DEF Ex
<1>5. QED
  BY <1>1, <1>2, <1>3, <1>4

\* Executing an order only appends to its history.
LEMMA ExecuteGrows ==
  ASSUME TypeOK, NEW o \in Orders, Execute(o)
  PROVE  Grows
<1>1. PICK s \in ExStates :
        /\ hist[o] \in Seq(ExStates)
        /\ \A p \in Orders : p # o => hist'[p] = hist[p]
        /\ hist'[o] = Append(hist[o], s)
  BY ExecuteStep
<1>2. \A i \in DOMAIN hist[o] : i \in DOMAIN hist'[o] /\ hist'[o][i] = hist[o][i]
  BY <1>1
<1>3. QED
  BY <1>1, <1>2 DEF Grows

-----------------------------------------------------------------------------
\* The invariant

\* The initial states satisfy the invariant.
LEMMA InitIInv == Init => IInv
<1> SUFFICES ASSUME Init
             PROVE  IInv
  OBVIOUS
<1>1. Stored = {} /\ announced = {}
  BY DEF Init, Stored
<1>2. TypeOK
  BY BoundAssumption DEF Init, TypeOK
<1>3. Settled
  BY DEF Init, Settled
<1>4. SnapshotReal /\ HandReal /\ PublishClosing /\ UpdateAnnounced
  BY DEF Init, SnapshotReal, HandReal, PublishClosing, UpdateAnnounced
<1>5. RowWasTrue /\ AnnouncedIsFilled /\ FilledIsAnnounced
  BY <1>1 DEF RowWasTrue, AnnouncedIsFilled, FilledIsAnnounced
<1>6. QED
  BY <1>2, <1>3, <1>4, <1>5 DEF IInv

\* A row that is stored is real.
LEMMA StoredReal ==
  ASSUME RowWasTrue, NEW o \in Orders, rows[o] # NoRow
  PROVE  Real(o, rows[o])
  BY DEF RowWasTrue, Stored, Real

\* What the workers and the rows know stays true when only hist grows.
LEMMA GrowKeeps ==
  ASSUME IInv, Grows, UNCHANGED <<rows, workerVars, announced, crashes>>
  PROVE  SnapshotReal' /\ HandReal' /\ RowWasTrue' /\ PublishClosing' /\ UpdateAnnounced'
<1> USE DEF workerVars
<1>1. SnapshotReal'
  BY StaysReal DEF IInv, SnapshotReal
<1>2. HandReal'
  BY StaysReal DEF IInv, HandReal
<1>3. RowWasTrue'
  BY DEF IInv, RowWasTrue, Stored, Grows
<1>4. PublishClosing' /\ UpdateAnnounced'
  BY DEF IInv, PublishClosing, UpdateAnnounced, Closing
<1>5. QED
  BY <1>1, <1>2, <1>3, <1>4

\* Accept: a new order has no row, no event and no worker.
LEMMA AcceptKeeps ==
  ASSUME IInv, NEW o \in Orders, Accept(o)
  PROVE  IInv'
<1>1. PICK s \in ExStates : hist' = [hist EXCEPT ![o] = <<s>>]
  BY DEF Accept
<1>2. UNCHANGED <<rows, workerVars, announced, crashes>>
  BY DEF Accept
<1>3. Grows
  BY AcceptGrows DEF IInv
<1>4. hist'[o] = <<s>> /\ \A p \in Orders : p # o => hist'[p] = hist[p]
  BY <1>1 DEF IInv, TypeOK
<1>5. TypeOK'
  BY <1>1, <1>2 DEF IInv, TypeOK, workerVars
<1>6. Settled'
  <2> SUFFICES ASSUME NEW p \in Orders, NEW i \in DOMAIN hist'[p]
               PROVE  /\ hist'[p][i].filled <= Ex(p)'.filled
                      /\ hist'[p][i].code \notin Open => i = Len(hist'[p])
    BY DEF Settled
  <2>1. CASE p = o
    <3>1. i = 1 /\ Len(hist'[o]) = 1 /\ Ex(p)' = s /\ hist'[p][i] = s
      BY <1>4, <2>1 DEF Ex
    <3>2. s.filled \in Nat
      BY QtyAssumption DEF ExStates
    <3>3. QED
      BY <2>1, <3>1, <3>2
  <2>2. CASE p # o
    <3>1. hist'[p] = hist[p]
      BY <1>4, <2>2
    <3>2. Ex(p)' = Ex(p)
      BY <3>1 DEF Ex
    <3>3. QED
      BY <3>1, <3>2 DEF IInv, Settled
  <2>3. QED
    BY <2>1, <2>2
<1>7. AnnouncedIsFilled'
  <2>1. \A p \in announced : p # o
    BY DEF IInv, AnnouncedIsFilled, Accept
  <2>2. QED
    BY <1>2, <1>4, <2>1 DEF IInv, TypeOK, AnnouncedIsFilled, Accepted, Ex
<1>8. FilledIsAnnounced'
  <2>1. \A p \in Stored : p # o
    BY DEF IInv, RowWasTrue, Accept, Accepted
  <2>2. Stored' = Stored /\ rows' = rows /\ announced' = announced
    BY <1>2 DEF Stored
  <2>3. QED
    BY <1>4, <2>1, <2>2 DEF IInv, FilledIsAnnounced, Closing, Stored
<1>9. QED
  BY <1>2, <1>3, <1>5, <1>6, <1>7, <1>8, GrowKeeps DEF IInv

\* Execute: an order moves on only from an open state, so what is announced or
\* settled is not disturbed.
LEMMA ExecuteKeeps ==
  ASSUME IInv, NEW o \in Orders, Execute(o)
  PROVE  IInv'
<1>1. PICK s \in ExStates :
        /\ Follows(Ex(o), s)
        /\ hist' = [hist EXCEPT ![o] = Append(hist[o], s)]
        /\ hist[o] \in Seq(ExStates) /\ hist[o] # <<>>
        /\ \A p \in Orders : p # o => hist'[p] = hist[p]
        /\ hist'[o] = Append(hist[o], s)
        /\ Ex(o)' = s
  BY ExecuteStep DEF IInv
<1>2. UNCHANGED <<rows, workerVars, announced, crashes>>
  BY DEF Execute
<1>3. Grows
  BY ExecuteGrows DEF IInv
<1>4. \A p \in Orders : p # o => hist'[p] = hist[p] /\ Ex(p)' = Ex(p)
  BY <1>1 DEF Ex
<1>5. TypeOK'
  <2>1. hist' \in [Orders -> Seq(ExStates)]
    BY <1>1 DEF IInv, TypeOK
  <2>2. QED
    BY <1>2, <2>1 DEF IInv, TypeOK, workerVars
<1>6. Settled'
  <2> SUFFICES ASSUME NEW p \in Orders, NEW i \in DOMAIN hist'[p]
               PROVE  /\ hist'[p][i].filled <= Ex(p)'.filled
                      /\ hist'[p][i].code \notin Open => i = Len(hist'[p])
    BY DEF Settled
  <2>1. CASE p = o /\ i \in DOMAIN hist[o]
    <3>1. hist'[p][i] = hist[o][i] /\ hist[o][i] \in ExStates /\ Ex(o) \in ExStates
      BY <1>1, <2>1 DEF Ex
    <3>2. hist[o][i].filled <= Ex(o).filled /\ Ex(o).filled <= s.filled
      BY <1>1, <2>1 DEF IInv, Settled, Follows
    <3>3. hist[o][i].filled \in Nat /\ Ex(o).filled \in Nat /\ s.filled \in Nat
      BY <3>1, QtyAssumption DEF ExStates
    <3>4. hist[o][i].code \in Open
      BY <1>1, <2>1 DEF IInv, Settled, Follows, Ex
    <3>5. QED
      BY <1>1, <2>1, <3>1, <3>2, <3>3, <3>4
  <2>2. CASE p = o /\ i \notin DOMAIN hist[o]
    <3>1. i = Len(hist[o]) + 1 /\ hist'[p][i] = s /\ Len(hist'[p]) = Len(hist[o]) + 1
      BY <1>1, <2>2
    <3>2. s.filled \in Nat
      BY QtyAssumption DEF ExStates
    <3>3. QED
      BY <1>1, <2>2, <3>1, <3>2
  <2>3. CASE p # o
    BY <1>4, <2>3 DEF IInv, Settled
  <2>4. QED
    BY <2>1, <2>2, <2>3
<1>7. AnnouncedIsFilled'
  <2>1. \A p \in announced : p \in Orders /\ p # o
    BY <1>1 DEF IInv, TypeOK, AnnouncedIsFilled, Follows, Open
  <2>2. QED
    BY <1>2, <1>4, <2>1 DEF IInv, AnnouncedIsFilled, Accepted
<1>8. FilledIsAnnounced'
  <2>1. Stored' = Stored /\ rows' = rows /\ announced' = announced
    BY <1>2 DEF Stored
  <2>2. \A p \in Stored : hist'[p][1] = hist[p][1]
    <3>1. \A p \in Stored : p \in Orders /\ hist[p] # <<>> /\ hist[p] \in Seq(ExStates)
      BY DEF IInv, TypeOK, RowWasTrue, Stored
    <3>2. QED
      BY <1>3, <3>1 DEF Grows
  <2>3. QED
    BY <2>1, <2>2 DEF IInv, FilledIsAnnounced, Closing
<1>9. QED
  BY <1>2, <1>3, <1>5, <1>6, <1>7, <1>8, GrowKeeps DEF IInv

\* With the exchange at rest, the rows being what they were, the parts of IInv
\* that speak of the exchange and the rows alone stay.
LEMMA RestKeeps ==
  ASSUME IInv, UNCHANGED hist
  PROVE  /\ Grows /\ Settled'
         /\ UNCHANGED rows => RowWasTrue'
         /\ UNCHANGED announced => AnnouncedIsFilled'
         /\ (UNCHANGED rows /\ announced \subseteq announced') => FilledIsAnnounced'
<1>1. Grows
  BY DEF Grows
<1>2. Settled'
  BY DEF IInv, Settled, Ex
<1>3. UNCHANGED rows => RowWasTrue'
  BY DEF IInv, RowWasTrue, Stored
<1>4. UNCHANGED announced => AnnouncedIsFilled'
  BY DEF IInv, AnnouncedIsFilled, Accepted, Ex
<1>5. (UNCHANGED rows /\ announced \subseteq announced') => FilledIsAnnounced'
  BY DEF IInv, FilledIsAnnounced, Closing, Stored
<1>6. QED
  BY <1>1, <1>2, <1>3, <1>4, <1>5

\* Create: the row is the first state of the order.
LEMMA CreateKeeps ==
  ASSUME IInv, NEW o \in Orders, Create(o)
  PROVE  IInv'
<1>1. hist' = hist /\ announced' = announced /\ UNCHANGED workerVars
  BY DEF Create
<1>2. /\ hist[o] \in Seq(ExStates) /\ hist[o] # <<>>
      /\ rows'[o] = PlaceOrder(o, hist[o][1])
      /\ \A p \in Orders : p # o => rows'[p] = rows[p]
  BY DEF Create, Accepted, IInv, TypeOK
<1>3. 1 \in DOMAIN hist[o] /\ hist[o][1] \in ExStates
  BY <1>2
<1>4. Grows /\ Settled' /\ AnnouncedIsFilled'
  BY <1>1, RestKeeps
<1>5. TypeOK'
  <2>1. PlaceOrder(o, hist[o][1]) \in Rows
    BY <1>3, PlaceType
  <2>2. rows' \in [Orders -> Rows \cup {NoRow}]
    BY <2>1 DEF Create, IInv, TypeOK
  <2>3. QED
    BY <2>2 DEF Create, workerVars, IInv, TypeOK
<1>6. RowWasTrue'
  BY <1>1, <1>2, <1>3 DEF IInv, RowWasTrue, Stored
<1>7. SnapshotReal' /\ HandReal'
  BY <1>1, <1>4, StaysReal DEF IInv, SnapshotReal, HandReal, workerVars
<1>8. PublishClosing' /\ UpdateAnnounced'
  BY <1>1 DEF IInv, PublishClosing, UpdateAnnounced, Closing, workerVars
<1>9. FilledIsAnnounced'
  <2> SUFFICES ASSUME NEW p \in Orders, p \in Stored',
                      Closing(p, rows'[p]), hist[p][1].code # "FILLED"
               PROVE  p \in announced
    BY <1>1 DEF FilledIsAnnounced, Closing, Stored
  <2>1. CASE p = o
    <3>1. PlaceOrder(o, hist[o][1]).status = "FILLED"
      BY <1>2, <2>1 DEF Closing
    <3>2. QED
      BY <1>3, <2>1, <3>1, PlaceFilled
  <2>2. CASE p # o
    BY <1>2, <2>2 DEF IInv, FilledIsAnnounced, Closing, Stored
  <2>3. QED
    BY <2>1, <2>2
<1>10. QED
  BY <1>4, <1>5, <1>6, <1>7, <1>8, <1>9 DEF IInv

\* Load: a snapshot is a copy of real rows.
LEMMA LoadKeeps ==
  ASSUME IInv, NEW w \in Workers, Load(w)
  PROVE  IInv'
<1>1. UNCHANGED <<hist, rows, cur, new, announced, crashes>>
  BY DEF Load
<1>2. /\ snap'[w] = [o \in Orders |->
             IF o \in Stored /\ rows[o].status \in pendingOrderHistoryStatuses
             THEN rows[o] ELSE NoRow]
      /\ \A v \in Workers : v # w => snap'[v] = snap[v] /\ pc'[v] = pc[v]
      /\ pc'[w] = "pass"
  BY DEF Load, IInv, TypeOK
<1>3. Grows /\ Settled' /\ RowWasTrue' /\ AnnouncedIsFilled' /\ FilledIsAnnounced'
  BY <1>1, RestKeeps
<1>4. TypeOK'
  <2>1. [o \in Orders |->
             IF o \in Stored /\ rows[o].status \in pendingOrderHistoryStatuses
             THEN rows[o] ELSE NoRow] \in [Orders -> Rows \cup {NoRow}]
    BY DEF IInv, TypeOK
  <2>2. snap' \in [Workers -> [Orders -> Rows \cup {NoRow}]]
    BY <2>1 DEF Load, IInv, TypeOK
  <2>3. QED
    BY <1>1, <2>2 DEF Load, IInv, TypeOK
<1>5. SnapshotReal'
  <2> SUFFICES ASSUME NEW v \in Workers, NEW o \in Orders,
                      NEW row, row = snap'[v][o], row # NoRow
               PROVE  Real(o, row)'
    BY DEF SnapshotReal
  <2>1. Real(o, row)
    BY <1>2, StoredReal DEF IInv, SnapshotReal
  <2>2. QED
    BY <1>3, <2>1, StaysReal
<1>6. HandReal'
  BY <1>1, <1>2, <1>3, StaysReal DEF IInv, HandReal
<1>7. PublishClosing' /\ UpdateAnnounced'
  BY <1>1, <1>2 DEF IInv, PublishClosing, UpdateAnnounced, Closing
<1>8. QED
  BY <1>3, <1>4, <1>5, <1>6, <1>7 DEF IInv

WorkerType ==
  /\ snap \in [Workers -> [Orders -> Rows \cup {NoRow}]]
  /\ pc \in [Workers -> {"idle", "pass", "publish", "update"}]
  /\ cur \in [Workers -> Orders \cup {NoRow}]
  /\ new \in [Workers -> Rows \cup {NoRow}]

HandsOff ==
  /\ WorkerType /\ SnapshotReal /\ HandReal /\ PublishClosing /\ UpdateAnnounced

\* A worker that is done with a row, for better or worse, holds nothing of it.
LEMMA ContinueKeeps ==
  ASSUME IInv, NEW w \in Workers, NEW o \in Orders, Continue(w, o),
         UNCHANGED hist, announced \subseteq announced'
  PROVE  HandsOff'
<1>1. /\ snap'[w] = [snap[w] EXCEPT ![o] = NoRow]
      /\ pc'[w] = "pass"
      /\ \A v \in Workers : v # w => /\ snap'[v] = snap[v] /\ pc'[v] = pc[v]
                                     /\ cur'[v] = cur[v] /\ new'[v] = new[v]
  BY DEF Continue, IInv, TypeOK
<1>2. Grows
  BY DEF Grows
<1>3. WorkerType'
  BY DEF Continue, IInv, TypeOK, WorkerType
<1>4. SnapshotReal'
  <2> SUFFICES ASSUME NEW v \in Workers, NEW p \in Orders,
                      NEW row, row = snap'[v][p], row # NoRow
               PROVE  Real(p, row)'
    BY DEF SnapshotReal
  <2>1. snap'[v][p] = snap[v][p]
    BY <1>1 DEF IInv, TypeOK
  <2>2. QED
    BY <1>2, <2>1, StaysReal DEF IInv, SnapshotReal
<1>5. HandReal'
  <2> SUFFICES ASSUME NEW v \in Workers, pc'[v] \in {"publish", "update"}
               PROVE  cur'[v] \in Orders /\ Real(cur[v], new[v])'
    BY DEF HandReal
  <2>1. v # w /\ pc'[v] = pc[v] /\ cur'[v] = cur[v] /\ new'[v] = new[v]
    BY <1>1
  <2>2. cur[v] \in Orders /\ Real(cur[v], new[v])
    BY <2>1 DEF IInv, HandReal
  <2>3. QED
    BY <2>1, <2>2 DEF Real
<1>6. PublishClosing' /\ UpdateAnnounced'
  BY <1>1 DEF IInv, PublishClosing, UpdateAnnounced, Closing
<1>7. QED
  BY <1>3, <1>4, <1>5, <1>6 DEF HandsOff

\* Skip: the row is left for the next pass.
LEMMA SkipKeeps ==
  ASSUME IInv, NEW w \in Workers, NEW o \in Orders, Skip(w, o)
  PROVE  IInv'
<1>1. Continue(w, o) /\ UNCHANGED <<hist, rows, announced, crashes>>
  BY DEF Skip
<1>2. HandsOff'
  BY <1>1, ContinueKeeps
<1>3. Settled' /\ RowWasTrue' /\ AnnouncedIsFilled' /\ FilledIsAnnounced'
  BY <1>1, RestKeeps
<1>4. TypeOK'
  BY <1>1, <1>2 DEF HandsOff, WorkerType, IInv, TypeOK
<1>5. QED
  BY <1>2, <1>3, <1>4 DEF IInv, HandsOff

\* EndPass: the worker holds nothing.
LEMMA EndPassKeeps ==
  ASSUME IInv, NEW w \in Workers, EndPass(w)
  PROVE  IInv'
<1>1. UNCHANGED <<hist, rows, snap, cur, new, announced, crashes>>
  BY DEF EndPass
<1>2. pc'[w] = "idle" /\ \A v \in Workers : v # w => pc'[v] = pc[v]
  BY DEF EndPass, IInv, TypeOK
<1>3. Settled' /\ RowWasTrue' /\ AnnouncedIsFilled' /\ FilledIsAnnounced'
  BY <1>1, RestKeeps
<1>4. TypeOK'
  BY DEF EndPass, IInv, TypeOK
<1>5. SnapshotReal' /\ HandReal'
  BY <1>1, <1>2 DEF IInv, SnapshotReal, HandReal, Real
<1>6. PublishClosing' /\ UpdateAnnounced'
  BY <1>1, <1>2 DEF IInv, PublishClosing, UpdateAnnounced, Closing
<1>7. QED
  BY <1>3, <1>4, <1>5, <1>6 DEF IInv

\* Crash: what the worker held is gone, and the rows are as they were.
LEMMA CrashKeeps ==
  ASSUME IInv, NEW w \in Workers, Crash(w)
  PROVE  IInv'
<1>1. UNCHANGED <<hist, rows, announced>>
  BY DEF Crash
<1>2. /\ pc'[w] = "idle" /\ snap'[w] = [o \in Orders |-> NoRow]
      /\ \A v \in Workers : v # w => /\ snap'[v] = snap[v] /\ pc'[v] = pc[v]
                                     /\ cur'[v] = cur[v] /\ new'[v] = new[v]
  BY DEF Crash, IInv, TypeOK
<1>3. Settled' /\ RowWasTrue' /\ AnnouncedIsFilled' /\ FilledIsAnnounced'
  BY <1>1, RestKeeps
<1>4. TypeOK'
  <2>1. crashes' \in 0 .. MaxCrashes
    BY BoundAssumption DEF Crash, IInv, TypeOK
  <2>2. [o \in Orders |-> NoRow] \in [Orders -> Rows \cup {NoRow}]
    OBVIOUS
  <2>3. WorkerType'
    BY <2>2 DEF Crash, IInv, TypeOK, WorkerType
  <2>4. QED
    BY <1>1, <2>1, <2>3 DEF IInv, TypeOK, WorkerType
<1>5. SnapshotReal'
  BY <1>1, <1>2 DEF IInv, SnapshotReal, Real
<1>6. HandReal'
  BY <1>1, <1>2 DEF IInv, HandReal, Real
<1>7. PublishClosing' /\ UpdateAnnounced'
  BY <1>1, <1>2 DEF IInv, PublishClosing, UpdateAnnounced, Closing
<1>8. QED
  BY <1>3, <1>4, <1>5, <1>6, <1>7 DEF IInv

\* Fetch: the row in hand is the answer, and a filled close goes to Publish.
LEMMA FetchKeeps ==
  ASSUME IInv, NEW w \in Workers, NEW o \in Orders, Fetch(w, o)
  PROVE  IInv'
<1> DEFINE row == PlaceOrder(o, Ex(o))
<1>1. UNCHANGED <<hist, rows, snap, announced, crashes>>
  BY DEF Fetch
<1>2. Real(o, snap[w][o]) /\ hist[o] # <<>>
  BY RealRow DEF Fetch, IInv, SnapshotReal
<1>3. SyncOrderHistory(o, snap[w][o], Ex(o)) = row
  BY <1>2, FetchRow DEF IInv
<1>4. Real(o, row) /\ row \in Rows
  BY <1>2, ExReal, RealRow DEF IInv
<1> HIDE DEF row
<1>5. /\ cur' = [cur EXCEPT ![w] = o]
      /\ new' = [new EXCEPT ![w] = row]
      /\ pc' = [pc EXCEPT ![w] = IF Closing(o, row) THEN "publish" ELSE "update"]
  BY <1>3 DEF Fetch
<1>6. /\ cur'[w] = o /\ new'[w] = row
      /\ pc'[w] = IF Closing(o, row) THEN "publish" ELSE "update"
      /\ \A v \in Workers : v # w =>
           pc'[v] = pc[v] /\ cur'[v] = cur[v] /\ new'[v] = new[v]
  BY <1>5 DEF IInv, TypeOK
<1>7. Settled' /\ RowWasTrue' /\ AnnouncedIsFilled' /\ FilledIsAnnounced'
  BY <1>1, RestKeeps
<1>8. TypeOK'
  BY <1>1, <1>4, <1>5 DEF IInv, TypeOK
<1>9. SnapshotReal'
  BY <1>1 DEF IInv, SnapshotReal, Real
<1>10. HandReal'
  <2> SUFFICES ASSUME NEW v \in Workers, pc'[v] \in {"publish", "update"}
               PROVE  cur'[v] \in Orders /\ Real(cur[v], new[v])'
    BY DEF HandReal
  <2>1. CASE v = w
    BY <1>1, <1>4, <1>6, <2>1 DEF Real
  <2>2. CASE v # w
    BY <1>1, <1>6, <2>2 DEF IInv, HandReal, Real
  <2>3. QED
    BY <2>1, <2>2
<1>11. PublishClosing' /\ UpdateAnnounced'
  BY <1>1, <1>6 DEF IInv, PublishClosing, UpdateAnnounced, Closing
<1>12. QED
  BY <1>7, <1>8, <1>9, <1>10, <1>11 DEF IInv

\* Publish: what is announced is a filled order.
LEMMA PublishKeeps ==
  ASSUME IInv, NEW w \in Workers, Publish(w)
  PROVE  IInv'
<1>1. UNCHANGED <<hist, rows, crashes>> /\ announced \subseteq announced'
  BY DEF Publish
<1>2. /\ cur[w] \in Orders /\ Real(cur[w], new[w]) /\ new[w].status = "FILLED"
      /\ announced' \subseteq announced \cup {cur[w]}
  BY DEF Publish, IInv, HandReal, PublishClosing, Closing
<1>3. Settled' /\ RowWasTrue' /\ FilledIsAnnounced'
  BY <1>1, RestKeeps
<1>4. AnnouncedIsFilled'
  <2>1. Ex(cur[w]).code = "FILLED" /\ hist[cur[w]] # <<>>
    BY <1>2, FilledRow, RealRow DEF IInv
  <2>2. QED
    BY <1>1, <1>2, <2>1 DEF IInv, AnnouncedIsFilled, Accepted, Ex
<1>5. HandsOff'
  <2>1. CASE Continue(w, cur[w])
    BY <1>1, <1>2, <2>1, ContinueKeeps
  <2>2. CASE /\ announced' = announced \cup {cur[w]}
             /\ pc' = [pc EXCEPT ![w] = "update"]
             /\ UNCHANGED <<snap, cur, new>>
    <3>1. pc'[w] = "update" /\ \A v \in Workers : v # w => pc'[v] = pc[v]
      BY <2>2 DEF IInv, TypeOK
    <3>2. WorkerType'
      BY <2>2 DEF IInv, TypeOK, WorkerType
    <3>3. SnapshotReal'
      BY <1>1, <2>2 DEF IInv, SnapshotReal, Real
    <3>4. HandReal'
      BY <1>1, <1>2, <2>2, <3>1 DEF IInv, HandReal, Real
    <3>5. PublishClosing' /\ UpdateAnnounced'
      BY <2>2, <3>1 DEF IInv, PublishClosing, UpdateAnnounced, Closing
    <3>6. QED
      BY <3>2, <3>3, <3>4, <3>5 DEF HandsOff
  <2>3. QED
    BY <2>1, <2>2 DEF Publish
<1>6. TypeOK'
  BY <1>1, <1>2, <1>5 DEF HandsOff, WorkerType, IInv, TypeOK
<1>7. QED
  BY <1>3, <1>4, <1>5, <1>6 DEF IInv, HandsOff

\* Update: a real row replaces another, and a filled close is announced by now.
LEMMA UpdateKeeps ==
  ASSUME IInv, NEW w \in Workers, Update(w)
  PROVE  IInv'
<1>1. UNCHANGED <<hist, announced, crashes>> /\ Continue(w, cur[w])
  BY DEF Update
<1>2. cur[w] \in Orders /\ Real(cur[w], new[w])
  BY DEF Update, IInv, HandReal
<1>3. Settled' /\ AnnouncedIsFilled'
  BY <1>1, RestKeeps
<1>4. HandsOff'
  BY <1>1, <1>2, ContinueKeeps
<1>5. CASE UNCHANGED rows
  <2>1. RowWasTrue' /\ FilledIsAnnounced'
    BY <1>1, <1>5, RestKeeps
  <2>2. TypeOK'
    BY <1>1, <1>4, <1>5 DEF HandsOff, WorkerType, IInv, TypeOK
  <2>3. QED
    BY <1>3, <1>4, <2>1, <2>2 DEF IInv, HandsOff
<1>6. CASE rows' = [rows EXCEPT ![cur[w]] = new[w]]
  <2>1. /\ rows'[cur[w]] = new[w]
        /\ \A p \in Orders : p # cur[w] => rows'[p] = rows[p]
    BY <1>2, <1>6 DEF IInv, TypeOK
  <2>2. rows' \in [Orders -> Rows \cup {NoRow}]
    BY <1>6 DEF IInv, TypeOK
  <2>3. TypeOK'
    BY <1>1, <1>4, <2>2 DEF HandsOff, WorkerType, IInv, TypeOK
  <2>4. RowWasTrue'
    BY <1>1, <1>2, <2>1 DEF IInv, RowWasTrue, Stored, Real
  <2>5. Closing(cur[w], new[w]) => cur[w] \in announced
    BY DEF Update, IInv, UpdateAnnounced
  <2>6. FilledIsAnnounced'
    <3> SUFFICES ASSUME NEW p \in Orders, p \in Stored',
                        Closing(p, rows'[p]), hist[p][1].code # "FILLED"
                 PROVE  p \in announced
      BY <1>1 DEF FilledIsAnnounced, Closing, Stored
    <3>1. CASE p = cur[w]
      BY <2>1, <2>5, <3>1
    <3>2. CASE p # cur[w]
      BY <2>1, <3>2 DEF IInv, FilledIsAnnounced, Closing, Stored
    <3>3. QED
      BY <3>1, <3>2
  <2>7. QED
    BY <1>3, <1>4, <2>3, <2>4, <2>6 DEF IInv, HandsOff
<1>7. QED
  BY <1>5, <1>6 DEF Update

\* Every step keeps the invariant.
LEMMA StepIInv == IInv /\ [Next]_vars => IInv'
<1> SUFFICES ASSUME IInv, [Next]_vars
             PROVE  IInv'
  OBVIOUS
<1>1. CASE UNCHANGED vars
  <2>1. UNCHANGED <<hist, rows, snap, pc, cur, new, announced, crashes>>
    BY <1>1 DEF vars, workerVars
  <2>2. Settled' /\ RowWasTrue' /\ AnnouncedIsFilled' /\ FilledIsAnnounced'
    BY <2>1, RestKeeps
  <2>3. TypeOK'
    BY <2>1 DEF IInv, TypeOK
  <2>4. SnapshotReal' /\ HandReal'
    BY <2>1 DEF IInv, SnapshotReal, HandReal, Real
  <2>5. PublishClosing' /\ UpdateAnnounced'
    BY <2>1 DEF IInv, PublishClosing, UpdateAnnounced, Closing
  <2>6. QED
    BY <2>2, <2>3, <2>4, <2>5 DEF IInv
<1>2. ASSUME NEW o \in Orders, Gateway(o)
      PROVE  IInv'
  BY <1>2, AcceptKeeps, ExecuteKeeps, CreateKeeps DEF Gateway
<1>3. ASSUME NEW w \in Workers, Worker(w)
      PROVE  IInv'
  BY <1>3, LoadKeeps, EndPassKeeps, PublishKeeps, UpdateKeeps, CrashKeeps,
     SkipKeeps, FetchKeeps DEF Worker
<1>4. QED
  BY <1>1, <1>2, <1>3 DEF Next

\* The invariant holds in every reachable state.
THEOREM Invariant == Spec => []IInv
<1>1. QED
  BY InitIInv, StepIInv, PTL DEF Spec

-----------------------------------------------------------------------------
\* The state keeps its types through every pass, failed call and crash.
THEOREM SyncTypeCorrect == Spec => []TypeOK
<1>1. IInv => TypeOK
  BY DEF IInv
<1>2. QED
  BY <1>1, Invariant, PTL

\* Only a state that is still open is stored as a pending one, PENDING_CANCEL apart.
LEMMA OpenPending ==
  ASSUME NEW o, NEW s \in ExStates, s.code \in Open, s.code # "PENDING_CANCEL"
  PROVE  PlaceOrder(o, s).status \in pendingOrderHistoryStatuses
<1>1. s.code \in {"NEW", "PARTIALLY_FILLED"}
  BY DEF Open
<1>2. /\ binanceOrderStatusFromCode(s.code) \in {"NEW", "PARTIAL"}
      /\ tokocryptoOrderStatusFromCode(s.code) \in {"NEW", "PARTIAL"}
  BY <1>1 DEF binanceOrderStatusFromCode, tokocryptoOrderStatusFromCode
<1>3. QED
  BY <1>2 DEF PlaceOrder, binancePlaced, tokocryptoPlaced, pendingOrderHistoryStatuses

LEMMA DoneInv == IInv => DoneIsFinal
<1> SUFFICES ASSUME IInv, NEW o \in Stored,
                    rows[o].status \notin pendingOrderHistoryStatuses, ~Blind(o)
             PROVE  UpToDate(o) /\ Ex(o).code \notin Open
  BY DEF DoneIsFinal
<1>1. o \in Orders /\ hist[o] \in Seq(ExStates)
  BY DEF Stored, IInv, TypeOK
<1>2. PICK i \in DOMAIN hist[o] : rows[o] = PlaceOrder(o, hist[o][i])
  BY DEF IInv, RowWasTrue
<1>3. hist[o][i] \in ExStates /\ hist[o][i].code # "PENDING_CANCEL"
  BY <1>1, <1>2 DEF Blind
<1>4. hist[o][i].code \notin Open
  BY <1>2, <1>3, OpenPending
<1>5. Ex(o) = hist[o][i]
  BY <1>1, <1>2, <1>4 DEF IInv, Settled, Ex
<1>6. QED
  BY <1>2, <1>4, <1>5 DEF UpToDate

\* A row the order-engine-worker no longer loads (GetByStatus with the pending
\* statuses) shows its order's final state, however its workers' snapshots, failed
\* calls and crashes interleave: what is not up to date is polled again.
THEOREM DoneFinal == Spec => []DoneIsFinal
<1>1. QED
  BY Invariant, DoneInv, PTL

\* A row shows one state the order really had, with any number of workers that
\* write back what they loaded: Update never mixes two answers.
THEOREM RowsTrue == Spec => []RowWasTrue
<1>1. IInv => RowWasTrue
  BY DEF IInv
<1>2. QED
  BY <1>1, Invariant, PTL

\* publishManualPositionClosed announces only orders the exchange filled.
THEOREM AnnouncedFilled == Spec => []AnnouncedIsFilled
<1>1. IInv => AnnouncedIsFilled
  BY DEF IInv
<1>2. QED
  BY <1>1, Invariant, PTL

\* Update removes a filled manual close from the pending rows only after its
\* close was announced, whatever failed, crashed or was repeated before.
THEOREM ClosesAnnounced == Spec => []FilledIsAnnounced
<1>1. IInv => FilledIsAnnounced
  BY DEF IInv
<1>2. QED
  BY <1>1, Invariant, PTL

-----------------------------------------------------------------------------
\* The refinement of OrderRecord

\* What was true of an order is what its real rows say.
LEMMA PastReal ==
  ASSUME NEW o \in Orders, NEW row
  PROVE  row \in Past[o] <=> Real(o, row)
  BY DEF Past, Real

\* A state more of one order is a row more of its past.
LEMMA PastGrows ==
  ASSUME NEW o \in Orders, NEW s,
         Past'[o] = Past[o] \cup {PlaceOrder(o, s)},
         \A p \in Orders : p # o => Past'[p] = Past[p]
  PROVE  Past' = [Past EXCEPT ![o] = Past[o] \cup {PlaceOrder(o, s)}]
<1>1. Past = [p \in Orders |-> Past[p]] /\ Past' = [p \in Orders |-> Past'[p]]
  BY DEF Past
<1> HIDE DEF Past
<1>2. QED
  BY <1>1

\* An order that is accepted has its first row to show.
LEMMA AcceptHappens ==
  ASSUME IInv, NEW o \in Orders, Accept(o)
  PROVE  Ledger!Happen(o)
<1>1. PICK s \in ExStates : hist' = [hist EXCEPT ![o] = <<s>>]
  BY DEF Accept
<1>2. hist[o] = <<>> /\ hist'[o] = <<s>> /\ \A p \in Orders : p # o => hist'[p] = hist[p]
  BY <1>1 DEF Accept, Accepted, IInv, TypeOK
<1>3. Past[o] = {} /\ Past'[o] = {PlaceOrder(o, s)}
  BY <1>2 DEF Past
<1>4. \A p \in Orders : p # o => Past'[p] = Past[p]
  BY <1>2 DEF Past
<1>5. Past' = [Past EXCEPT ![o] = Past[o] \cup {PlaceOrder(o, s)}]
  BY <1>3, <1>4, PastGrows
<1>6. PlaceOrder(o, s) \in Rows
  BY PlaceType
<1>7. UNCHANGED <<rows, announced>>
  BY DEF Accept
<1>8. QED
  BY <1>3, <1>5, <1>6, <1>7 DEF Ledger!Happen

\* An order moves on only from an open state, which no filled row precedes.
LEMMA ExecuteHappens ==
  ASSUME IInv, NEW o \in Orders, Execute(o)
  PROVE  Ledger!Happen(o)
<1>1. PICK s \in ExStates :
        /\ Follows(Ex(o), s)
        /\ hist[o] \in Seq(ExStates)
        /\ \A p \in Orders : p # o => hist'[p] = hist[p]
        /\ hist'[o] = Append(hist[o], s)
  BY ExecuteStep DEF IInv
<1>2. Past'[o] = Past[o] \cup {PlaceOrder(o, s)}
  <2>1. DOMAIN hist'[o] = DOMAIN hist[o] \cup {Len(hist[o]) + 1}
    BY <1>1
  <2>2. /\ \A i \in DOMAIN hist[o] : hist'[o][i] = hist[o][i]
        /\ hist'[o][Len(hist[o]) + 1] = s
    BY <1>1
  <2>3. QED
    BY <2>1, <2>2 DEF Past
<1>3. \A p \in Orders : p # o => Past'[p] = Past[p]
  BY <1>1 DEF Past
<1>4. Past' = [Past EXCEPT ![o] = Past[o] \cup {PlaceOrder(o, s)}]
  BY <1>2, <1>3, PastGrows
<1>5. \A row \in Past[o] : row.status # "FILLED"
  <2>1. Ex(o).code # "FILLED"
    BY <1>1 DEF Follows, Open
  <2>2. QED
    BY <2>1, PastReal, FilledRow DEF IInv
<1>6. PlaceOrder(o, s) \in Rows /\ UNCHANGED <<rows, announced>>
  BY PlaceType DEF Execute
<1>7. QED
  BY <1>4, <1>5, <1>6 DEF Ledger!Happen, Ledger!Filled

\* The gateway's insert records a row of the order that has none yet.
LEMMA CreateRecords ==
  ASSUME IInv, NEW o \in Orders, Create(o)
  PROVE  Ledger!Record(o)
<1>1. hist[o] \in Seq(ExStates) /\ hist[o] # <<>>
  BY DEF Create, Accepted, IInv, TypeOK
<1>2. PlaceOrder(o, hist[o][1]) \in Past[o]
  BY <1>1 DEF Past
<1>3. UNCHANGED <<Past, announced>>
  BY DEF Create, Past
<1>4. QED
  BY <1>2, <1>3 DEF Create, Ledger!Record

\* A publish, failed or not, announces a filled order or nothing.
LEMMA PublishAnnounces ==
  ASSUME IInv, NEW w \in Workers, Publish(w)
  PROVE  (Ledger!Announce(cur[w]) /\ cur[w] \in Orders) \/ UNCHANGED <<Past, rows, announced>>
<1>1. UNCHANGED <<hist, rows>>
  BY DEF Publish
<1>2. UNCHANGED Past
  BY <1>1 DEF Past
<1>3. /\ cur[w] \in Orders /\ Real(cur[w], new[w])
      /\ new[w].status = "FILLED" /\ cur[w] \in ManualClose
  BY DEF Publish, IInv, HandReal, PublishClosing, Closing
<1>4. new[w] \in Past[cur[w]]
  BY <1>3, PastReal
<1>5. CASE announced' = announced \cup {cur[w]}
  BY <1>1, <1>2, <1>3, <1>4, <1>5 DEF Ledger!Announce, Ledger!Filled
<1>6. CASE UNCHANGED announced
  BY <1>1, <1>2, <1>6
<1>7. QED
  BY <1>5, <1>6 DEF Publish

\* A write of the row in hand records a row that was true, announced if need be.
LEMMA UpdateRecords ==
  ASSUME IInv, NEW w \in Workers, Update(w)
  PROVE  (Ledger!Record(cur[w]) /\ cur[w] \in Orders) \/ UNCHANGED <<Past, rows, announced>>
<1>1. UNCHANGED <<hist, announced>>
  BY DEF Update
<1>2. UNCHANGED Past
  BY <1>1 DEF Past
<1>3. cur[w] \in Orders /\ new[w] \in Past[cur[w]]
  BY PastReal DEF Update, IInv, HandReal
<1>4. new[w].status = "FILLED" /\ cur[w] \in ManualClose => cur[w] \in announced
  BY DEF Update, IInv, UpdateAnnounced, Closing
<1>5. CASE rows' = [rows EXCEPT ![cur[w]] = new[w]]
  BY <1>1, <1>2, <1>3, <1>4, <1>5 DEF Ledger!Record, Ledger!Filled
<1>6. CASE UNCHANGED rows
  BY <1>1, <1>2, <1>6
<1>7. QED
  BY <1>5, <1>6 DEF Update

\* Every other step of a worker changes nothing the record speaks of.
LEMMA WorkerRests ==
  ASSUME NEW w \in Workers, Worker(w), ~Publish(w), ~Update(w)
  PROVE  UNCHANGED <<Past, rows, announced>>
<1>1. UNCHANGED <<hist, rows, announced>>
  BY DEF Worker, Load, EndPass, Crash, Skip, Fetch
<1>2. QED
  BY <1>1 DEF Past

\* Every step is one of the record, or a stutter.
LEMMA StepRecords == IInv /\ [Next]_vars => [Ledger!RecordNext]_Ledger!recordVars
<1> SUFFICES ASSUME IInv, [Next]_vars
             PROVE  Ledger!RecordNext \/ UNCHANGED <<Past, rows, announced>>
  BY DEF Ledger!recordVars
<1>1. CASE UNCHANGED vars
  BY <1>1 DEF vars, Past
<1>2. ASSUME NEW o \in Orders, Gateway(o)
      PROVE  Ledger!RecordNext
  BY <1>2, AcceptHappens, ExecuteHappens, CreateRecords DEF Gateway, Ledger!RecordNext
<1>3. ASSUME NEW w \in Workers, Worker(w)
      PROVE  Ledger!RecordNext \/ UNCHANGED <<Past, rows, announced>>
  <2>1. CASE Publish(w)
    BY <2>1, PublishAnnounces DEF Ledger!RecordNext
  <2>2. CASE Update(w)
    BY <2>2, UpdateRecords DEF Ledger!RecordNext
  <2>3. QED
    BY <1>3, <2>1, <2>2, WorkerRests
<1>4. QED
  BY <1>1, <1>2, <1>3 DEF Next

\* The polling workers and the gateway's inserts implement the record of
\* order_histories: every row they write was true of its order, and Update writes
\* a filled manual close over a stored row only after its announcement.
THEOREM RecordKept == Spec => KeepsRecord
<1>1. Init => Ledger!RecordInit
  BY DEF Init, Past, Ledger!RecordInit
<1>2. QED
  BY <1>1, InitIInv, StepIInv, StepRecords, PTL DEF Spec, KeepsRecord, Ledger!RecordSpec
=============================================================================
