-------------------------- MODULE OrderDeskProofs --------------------------
(***************************************************************************)
(* Theorems about OrderDesk, for every number of strategies, configs,      *)
(* goroutines, request ids, updates and delays, at every venue.            *)
(***************************************************************************)
EXTENDS OrderDesk, TLAPS

ConfigsOrNone == [Configs -> {NoRow} \cup ConfigRows]
Rows  == [order: Orders, fill: Fills]
Books == [order: Orders, fill: Fills, at: PositionSides]
Jobs  == [pc: {"idle", "write", "list", "publish"}, cfg: Configs \cup {NoRow},
          given: Bodies \cup {NoRow}, was: BOOLEAN, item: ConfigRows \cup {NoRow},
          todo: SUBSET Orders]
Messages == [req: RequestIds, order: Orders]

\* What a goroutine holds between the calls of a request.
JobsOK ==
  \A w \in Workers :
    /\ worker[w].pc = "write" => /\ worker[w].cfg \in Configs /\ worker[w].given \in Bodies
                                 /\ worker[w].item \in ConfigRows
    /\ worker[w].pc = "list" => worker[w].cfg \in Configs /\ worker[w].item \in ConfigRows

\* What the exchange has is recorded.
Recorded == \A r \in RequestIds : book[r] # NoRow => rows[r] # NoRow

\* An order on its way is one that PlaceOrder knows the side of.
Sided(side) == NormalizeOrderSideByMarket(side) \in Sides
OrdersSided ==
  /\ \A m \in queue : Sided(m.order.side)
  /\ \A w \in Workers : \A o \in worker[w].todo : Sided(o.side)

DeskInv == DeskTypeOK /\ JobsOK /\ Recorded /\ OrdersSided

-----------------------------------------------------------------------------
\* The actions, one by one.

LEMMA DeskForms ==
  ASSUME [DeskNext]_deskVars
  PROVE  \/ \E form \in Forms[venue] : CreateManualOrder(form)
         \/ \E w \in Workers, i \in Ids : CloseOrder(w, i)
         \/ \E c \in Configs, s \in Strategies, e \in BOOLEAN : CreateStrategyConfig(c, s, e)
         \/ \E c \in Configs : DeleteStrategyConfig(c)
         \/ \E w \in Workers, c \in Configs, given \in Bodies : UpdateStrategyConfig(w, c, given)
         \/ \E w \in Workers : Update(w)
         \/ \E w \in Workers : CloseOpenTrades(w)
         \/ \E w \in Workers : PublishDisableClose(w)
         \/ \E w \in Workers : PublishManualClose(w)
         \/ \E w \in Workers : FailWorker(w)
         \/ Reconcile
         \/ \E c \in Configs, side \in SignalSides[venue], target \in OrderConfigs[venue] :
              StrategyEnters(c, side, target)
         \/ \E i \in Ids, target \in OrderConfigs[venue] : StrategyExits(i, target)
         \/ \E m \in queue : PlaceOrder(m)
         \/ \E m \in queue : Refuse(m)
         \/ \E r \in RequestIds : Match(r)
         \/ \E r \in RequestIds : Sync(r)
         \/ UNCHANGED deskVars
  BY DEF DeskNext, OrderHandlers, ConfigHandlers, Work, Trade, Gateway, Exchange

-----------------------------------------------------------------------------
\* Orders

LEMMA IdFacts ==
  /\ Ids \subseteq RequestIds /\ Ids \subseteq Nat
  /\ \A i \in Ids : ManualClose(i) \in RequestIds /\ ManualClose(i) \notin Ids
  /\ \A i, j \in Ids : ManualClose(i) = ManualClose(j) => i = j
  /\ NewIds # {} => NewId \in Ids /\ NewId \notin taken
<1>1. MaxIds \in Nat
  BY DeskBoundsAssumption
<1>2. /\ Ids \subseteq RequestIds /\ Ids \subseteq Nat
      /\ \A i \in Ids : ManualClose(i) \in RequestIds /\ ManualClose(i) \notin Ids
      /\ \A i, j \in Ids : ManualClose(i) = ManualClose(j) => i = j
  BY <1>1 DEF Ids, RequestIds, ManualClose
<1>3. NewIds # {} => NewId \in Ids /\ NewId \notin taken
  BY DEF NewIds, NewId
<1>4. QED
  BY <1>2, <1>3

LEMMA NoRowFacts ==
  /\ NoRow \notin Configs /\ NoRow \notin ConfigRows /\ NoRow \notin Rows /\ NoRow \notin Books
  BY DeskAssumption DEF Rows, Books

LEMMA SideFacts ==
  /\ \A side : NormalizeOrderSideByMarket(side) # NoRow => NormalizeOrderSideByMarket(side) \in Sides
  /\ \A side \in {"BUY", "SELL"} : NormalizeOrderSideByMarket(side) \in Sides
  /\ \A side : CloseOrderSide(side) \in Sides
  /\ \A side, pos : pos \in PositionSides => PositionSide(side, pos) \in PositionSides
  /\ Sided("BUY") /\ Sided("SELL") /\ \A side : Sided(CloseOrderSide(side))
  /\ \A side : Sided(side) => /\ Sided(NormalizeOrderSideByMarket(side))
                              /\ NormalizeOrderSideByMarket(NormalizeOrderSideByMarket(side))
                                   = NormalizeOrderSideByMarket(side)
  BY DEF NormalizeOrderSideByMarket, CloseOrderSide, PositionSide, Sides, PositionSides, Sided

\* A close of an entry, field by field.
CloseForm(e, side, reason, q) ==
  [e EXCEPT !.cond = "EXIT", !.side = side, !.reason = reason, !.qty = q]

LEMMA CloseFields ==
  \A e \in Orders, q \in 1..Quantity, reason \in Reasons, side \in Sides :
    LET o == CloseForm(e, side, reason, q) IN
    /\ o \in Orders /\ o.cond = "EXIT" /\ o.entry = e.entry /\ o.side = side /\ o.pos = e.pos
    /\ o.qty = q /\ o.paper = e.paper /\ o.reason = reason
<1> TAKE e \in Orders, q \in 1..Quantity, reason \in Reasons, side \in Sides
<1>1. \A o : o = [e EXCEPT !.cond = "EXIT", !.side = side, !.reason = reason, !.qty = q] =>
        /\ o \in Orders /\ o.cond = "EXIT" /\ o.entry = e.entry /\ o.side = side /\ o.pos = e.pos
        /\ o.qty = q /\ o.paper = e.paper /\ o.reason = reason
  BY DEF Orders
<1>2. QED
  BY <1>1 DEF CloseForm

\* The exit of a strategy, field by field.
SignalForm(e, side, pos, q, paper) ==
  [e EXCEPT !.cond = "EXIT", !.side = side, !.pos = pos, !.qty = q, !.paper = paper,
            !.reason = "signal"]
OrderRows == [pos: PositionSides, qty: 1..Quantity, paper: BOOLEAN]

LEMMA ExitFields ==
  \A e \in Orders, side \in Sides, pos \in PositionSides, q \in 1..Quantity, paper \in BOOLEAN :
    LET o == SignalForm(e, side, pos, q, paper) IN
    /\ o \in Orders /\ o.cond = "EXIT" /\ o.entry = e.entry /\ o.side = side
    /\ o.pos = pos /\ o.qty = q /\ o.paper = paper /\ o.reason = "signal"
<1> TAKE e \in Orders, side \in Sides, pos \in PositionSides, q \in 1..Quantity, paper \in BOOLEAN
<1>1. \A o : o = [e EXCEPT !.cond = "EXIT", !.side = side, !.pos = pos, !.qty = q,
                          !.paper = paper, !.reason = "signal"] =>
        /\ o \in Orders /\ o.cond = "EXIT" /\ o.entry = e.entry /\ o.side = side
        /\ o.pos = pos /\ o.qty = q /\ o.paper = paper /\ o.reason = "signal"
  BY DEF Orders, Reasons
<1>2. QED
  BY <1>1 DEF SignalForm

\* What the assumptions say of a venue's strategies.
LEMMA TargetFacts ==
  ASSUME DeskTypeOK
  PROVE  OrderConfigs[venue] \subseteq OrderRows /\ SignalSides[venue] \subseteq {"BUY", "SELL"}
<1>1. venue \in Venues
  BY DEF DeskTypeOK
<1>2. QED
  BY <1>1, DeskAssumption DEF OrderRows

LEMMA CloseOrderFacts ==
  ASSUME NEW i \in RequestIds, rows[i] \in Rows, NEW reason \in Reasons
  PROVE  \A o : o = CloseOrderOf(i, reason) =>
           /\ o \in Orders /\ o.cond = "EXIT" /\ o.entry = rows[i].order.entry
           /\ o.side = CloseOrderSide(rows[i].order.side)
           /\ o.pos = rows[i].order.pos /\ o.paper = rows[i].order.paper /\ o.reason = reason
           /\ rows[i].fill.filled # 0 => o.qty = rows[i].fill.filled
<1> DEFINE e == rows[i].order
           q == IF rows[i].fill.filled = 0 THEN e.qty ELSE rows[i].fill.filled
<1>1. e \in Orders /\ rows[i].fill \in Fills
  BY DEF Rows
<1>2. e.qty \in 1..Quantity /\ rows[i].fill.filled \in 0..Quantity
  BY <1>1 DEF Orders, Fills
<1>3. q \in 1..Quantity /\ (rows[i].fill.filled # 0 => q = rows[i].fill.filled)
  BY <1>2, DeskBoundsAssumption
<1>4. CloseOrderSide(e.side) \in Sides
  BY SideFacts
<1>5. CloseOrderOf(i, reason)
        = CloseForm(e, CloseOrderSide(e.side), reason, q)
  BY DEF CloseOrderOf, CloseForm
<1> HIDE DEF e, q
<1>6. LET o == CloseForm(e, CloseOrderSide(e.side), reason, q) IN
      /\ o \in Orders /\ o.cond = "EXIT" /\ o.entry = e.entry /\ o.side = CloseOrderSide(e.side)
      /\ o.pos = e.pos /\ o.qty = q /\ o.paper = e.paper /\ o.reason = reason
  BY <1>1, <1>3, <1>4, CloseFields
<1>7. QED
  BY <1>3, <1>5, <1>6 DEF e

\* The order as PlaceOrder makes it, whose pos the exchange may give.
LEMMA NormalizeFacts ==
  ASSUME NEW o \in Orders
  PROVE  LET n == [o EXCEPT !.side = NormalizeOrderSideByMarket(o.side),
                            !.pos = PositionSide(NormalizeOrderSideByMarket(o.side), o.pos)] IN
         /\ Normalize(o) = n
         /\ n.cond = o.cond /\ n.entry = o.entry /\ n.strategy = o.strategy /\ n.qty = o.qty
         /\ n.paper = o.paper /\ n.reason = o.reason
         /\ n.side = NormalizeOrderSideByMarket(o.side)
         /\ n.pos = PositionSide(NormalizeOrderSideByMarket(o.side), o.pos)
         /\ Sided(o.side) => n \in Orders
  BY SideFacts DEF Normalize, Orders, Sided

LEMMA NormalFields ==
  ASSUME NEW o \in Orders
  PROVE  /\ Normalize(o).cond = o.cond /\ Normalize(o).entry = o.entry
         /\ Normalize(o).qty = o.qty /\ Normalize(o).paper = o.paper
         /\ Normalize(o).side = NormalizeOrderSideByMarket(o.side)
         /\ Normalize(o).pos = PositionSide(Normalize(o).side, o.pos)
         /\ Sided(o.side) => Normalize(o) \in Orders
<1> DEFINE n == Normalize(o)
           side == NormalizeOrderSideByMarket(o.side)
           pos == PositionSide(side, o.pos)
<1>1. /\ n.cond = o.cond /\ n.entry = o.entry /\ n.qty = o.qty /\ n.paper = o.paper
      /\ n.side = side /\ n.pos = pos /\ (Sided(o.side) => n \in Orders)
  BY NormalizeFacts
<1>2. n.pos = PositionSide(n.side, o.pos)
  BY <1>1
<1>3. QED
  BY <1>1, <1>2

-----------------------------------------------------------------------------
\* Types

LEMMA TargetsTyped ==
  ASSUME configs \in [Configs -> {NoRow} \cup ConfigRows]
  PROVE  Targets \in [Configs -> {NoRow} \cup Strategies]
  BY DEF Targets, ConfigRows

LEMMA DeskInvInit ==
  ASSUME DeskInit
  PROVE  DeskInv
<1>1. configs \in ConfigsOrNone
  BY DeskAssumption DEF DeskInit, ConfigsOrNone
<1>2. active \in [Configs -> {NoRow} \cup Strategies] /\ taken \subseteq Ids \cup Configs
  BY <1>1, TargetsTyped DEF DeskInit, ConfigsOrNone
<1>3. worker \in [Workers -> Jobs] /\ JobsOK /\ OrdersSided
  <2>1. IdleWorker \in Jobs /\ IdleWorker.pc = "idle" /\ IdleWorker.todo = {}
    BY DEF IdleWorker, Jobs
  <2>2. \A w \in Workers : worker[w] = IdleWorker
    BY DEF DeskInit
  <2>3. QED
    BY <2>1, <2>2 DEF DeskInit, JobsOK, OrdersSided
<1>4. QED
  BY <1>1, <1>2, <1>3, DeskBoundsAssumption
     DEF DeskInit, DeskInv, DeskTypeOK, Recorded, ConfigsOrNone, Jobs

\* What a request to enter does: a new id, and an entry with it in the queue.
EntryOrder(o, id) ==
  /\ o \in Orders /\ o.cond = "ENTRY" /\ o.entry = id /\ o.reason # "strategy_disabled"
  /\ NormalizeOrderSideByMarket(o.side) = o.side /\ Sided(o.side)
Enters ==
  \E o \in Orders :
    /\ NewId \in Ids /\ NewId \notin taken /\ EntryOrder(o, NewId)
    /\ taken' = taken \cup {NewId}
    /\ queue' = queue \cup {[req |-> NewId, order |-> o]}
    /\ UNCHANGED <<exchangeVars, configVars, worker, closers, contended>>

LEMMA ManualEnters ==
  ASSUME DeskInv, NEW form \in Forms[venue], CreateManualOrder(form)
  PROVE  Enters
<1> DEFINE side == NormalizeOrderSideByMarket(form.side)
           o == [cond |-> "ENTRY", entry |-> NewId, strategy |-> Manual, side |-> side,
                 pos |-> form.pos, qty |-> Quantity, paper |-> form.paper,
                 reason |-> "manual_entry"]
<1>1. NewId \in Ids /\ NewId \notin taken
  BY IdFacts DEF CreateManualOrder
<1>2. side \in Sides /\ NormalizeOrderSideByMarket(side) = side
  BY SideFacts DEF CreateManualOrder, Sided
<1>3. venue \in Venues
  BY DEF DeskInv, DeskTypeOK
<1>4. form.pos \in PositionSides /\ form.paper \in BOOLEAN
  BY <1>3, DeskAssumption
<1>5. EntryOrder(o, NewId)
  BY <1>1, <1>2, <1>4, DeskBoundsAssumption DEF Orders, Reasons, EntryOrder, Sided
<1>6. taken' = taken \cup {NewId} /\ queue' = queue \cup {[req |-> NewId, order |-> o]}
      /\ UNCHANGED <<exchangeVars, configVars, worker, closers, contended>>
  BY DEF CreateManualOrder
<1> HIDE DEF o
<1>7. QED
  BY <1>1, <1>5, <1>6 DEF Enters, EntryOrder

LEMMA StrategyEntersIs ==
  ASSUME DeskInv, NEW c \in Configs, NEW signal \in SignalSides[venue],
         NEW target \in OrderConfigs[venue], StrategyEnters(c, signal, target)
  PROVE  Enters
<1> DEFINE side == NormalizeOrderSideByMarket(signal)
           o == [cond |-> "ENTRY", entry |-> NewId, strategy |-> active[c],
                 side |-> side, pos |-> target.pos, qty |-> target.qty, paper |-> target.paper,
                 reason |-> "signal"]
<1>1. NewId \in Ids /\ NewId \notin taken
  BY IdFacts DEF StrategyEnters
<1>2. side \in Sides /\ NormalizeOrderSideByMarket(side) = side
  BY SideFacts, TargetFacts DEF Sided, DeskInv
<1>3. active[c] \in Strategies /\ target \in OrderRows
  BY TargetFacts DEF DeskInv, DeskTypeOK, StrategyEnters
<1>4. EntryOrder(o, NewId)
  BY <1>1, <1>2, <1>3 DEF Orders, Reasons, OrderRows, EntryOrder, Sided
<1>5. taken' = taken \cup {NewId} /\ queue' = queue \cup {[req |-> NewId, order |-> o]}
      /\ UNCHANGED <<exchangeVars, configVars, worker, closers, contended>>
  BY DEF StrategyEnters
<1> HIDE DEF o
<1>6. QED
  BY <1>1, <1>4, <1>5 DEF Enters, EntryOrder

LEMMA EntersTypes ==
  ASSUME DeskInv, Enters
  PROVE  DeskInv'
<1>1. PICK o \in Orders :
         /\ NewId \in Ids /\ NewId \notin taken /\ EntryOrder(o, NewId)
         /\ taken' = taken \cup {NewId}
         /\ queue' = queue \cup {[req |-> NewId, order |-> o]}
         /\ UNCHANGED <<exchangeVars, configVars, worker, closers, contended>>
  BY DEF Enters
<1>2. queue' \subseteq Messages /\ taken' \subseteq Ids \cup Configs
  BY <1>1, IdFacts DEF DeskInv, DeskTypeOK, Messages
<1>3. \A m \in queue' : Sided(m.order.side)
  BY <1>1 DEF DeskInv, OrdersSided, EntryOrder
<1>4. \A side : Sided(side)' <=> Sided(side)
  BY <1>1 DEF Sided, NormalizeOrderSideByMarket, exchangeVars
<1>5. OrdersSided'
  BY <1>1, <1>3, <1>4 DEF DeskInv, OrdersSided
<1>6. DeskTypeOK'
  BY <1>1, <1>2 DEF DeskInv, DeskTypeOK, Messages, exchangeVars, configVars
<1>7. JobsOK' /\ Recorded'
  BY <1>1 DEF DeskInv, JobsOK, Recorded, exchangeVars
<1>8. QED
  BY <1>5, <1>6, <1>7 DEF DeskInv

\* What ordering a close changes.
LEMMA CloseTypes ==
  ASSUME DeskInv, NEW req \in RequestIds, NEW o \in Orders, Sided(o.side), Close(req, o)
  PROVE  /\ queue' \subseteq Messages /\ closers' \in [Ids -> SUBSET Reasons]
         /\ contended' \subseteq Ids
         /\ \A m \in queue' : Sided(m.order.side)
<1>1. o.entry \in Ids /\ o.reason \in Reasons
  BY DEF Orders
<1>2. queue' = queue \cup {[req |-> req, order |-> o]}
  BY DEF Close
<1>3. queue' \subseteq Messages /\ \A m \in queue' : Sided(m.order.side)
  BY <1>2 DEF DeskInv, DeskTypeOK, Messages, OrdersSided
<1>4. closers' = [closers EXCEPT ![o.entry] = @ \cup {o.reason}]
  BY DEF Close
<1>5. closers' \in [Ids -> SUBSET Reasons]
  BY <1>1, <1>4 DEF DeskInv, DeskTypeOK
<1>6. contended' \subseteq contended \cup {o.entry}
  BY DEF Close
<1>7. QED
  BY <1>1, <1>3, <1>5, <1>6 DEF DeskInv, DeskTypeOK

\* An entry that runs is recorded, and so is what its close is made of.
LEMMA RunningFacts ==
  ASSUME DeskInv, NEW i \in Ids, Running(i)
  PROVE  i \in RequestIds /\ rows[i] \in Rows /\ rows[i].order.cond = "ENTRY"
  BY IdFacts DEF Running, Entry, DeskInv, DeskTypeOK, Rows

LEMMA OrdersSidedKept ==
  ASSUME DeskInv, venue' = venue, queue' = queue, worker' = worker
  PROVE  OrdersSided'
  BY DEF DeskInv, OrdersSided, Sided, NormalizeOrderSideByMarket

LEMMA CloseOrderTypes ==
  ASSUME DeskInv, NEW w \in Workers, NEW i \in Ids, CloseOrder(w, i)
  PROVE  DeskInv'
<1> DEFINE o == CloseOrderOf(i, "manual_close")
           job == [IdleWorker EXCEPT !.pc = "publish", !.todo = {o}]
<1>1. Running(i)
  BY DEF CloseOrder, FindRunning
<1>2. o \in Orders /\ Sided(o.side)
  BY <1>1, RunningFacts, CloseOrderFacts, SideFacts DEF Reasons
<1>3. worker' = [worker EXCEPT ![w] = job]
  BY DEF CloseOrder
<1> HIDE DEF o
<1>4. job \in Jobs /\ job.pc = "publish" /\ job.todo = {o}
  BY <1>2 DEF Jobs, IdleWorker
<1> HIDE DEF job
<1>5. worker' \in [Workers -> Jobs] /\ JobsOK'
  BY <1>3, <1>4 DEF DeskInv, DeskTypeOK, JobsOK, Jobs
<1>6. UNCHANGED <<exchangeVars, configVars, queue, taken, closers>>
      /\ contended' = contended \cup Uncertain({i})
  BY DEF CloseOrder
<1>7. OrdersSided'
  BY <1>2, <1>3, <1>4, <1>6
     DEF DeskInv, DeskTypeOK, OrdersSided, Sided, NormalizeOrderSideByMarket, exchangeVars
<1>8. DeskTypeOK'
  BY <1>5, <1>6 DEF DeskInv, DeskTypeOK, Jobs, Uncertain, exchangeVars, configVars
<1>9. Recorded'
  BY <1>6 DEF DeskInv, Recorded, exchangeVars
<1>10. QED
  BY <1>5, <1>7, <1>8, <1>9 DEF DeskInv

LEMMA PublishManualTypes ==
  ASSUME DeskInv, NEW w \in Workers, PublishManualClose(w)
  PROVE  DeskInv'
<1>1. PICK o \in worker[w].todo : Close(ManualClose(o.entry), o)
  BY DEF PublishManualClose
<1>2. o \in Orders /\ Sided(o.side) /\ o.entry \in Ids
  BY DEF DeskInv, DeskTypeOK, OrdersSided, Orders
<1>3. ManualClose(o.entry) \in RequestIds
  BY <1>2, IdFacts
<1>4. /\ queue' \subseteq Messages /\ closers' \in [Ids -> SUBSET Reasons]
      /\ contended' \subseteq Ids /\ \A m \in queue' : Sided(m.order.side)
  BY <1>1, <1>2, <1>3, CloseTypes
<1>5. /\ worker' = [worker EXCEPT ![w] = IdleWorker]
      /\ UNCHANGED <<exchangeVars, configVars, taken>>
  BY DEF PublishManualClose
<1>6. IdleWorker \in Jobs /\ IdleWorker.pc = "idle" /\ IdleWorker.todo = {}
  BY DEF IdleWorker, Jobs
<1>7. worker' \in [Workers -> Jobs] /\ JobsOK'
  BY <1>5, <1>6 DEF DeskInv, DeskTypeOK, JobsOK, Jobs
<1>8. OrdersSided'
  BY <1>4, <1>5, <1>6
     DEF DeskInv, DeskTypeOK, OrdersSided, Sided, NormalizeOrderSideByMarket, exchangeVars
<1>9. DeskTypeOK'
  BY <1>4, <1>5, <1>7 DEF DeskInv, DeskTypeOK, Jobs, Messages, exchangeVars, configVars
<1>10. Recorded'
  BY <1>5 DEF DeskInv, Recorded, exchangeVars
<1>11. QED
  BY <1>7, <1>8, <1>9, <1>10 DEF DeskInv

LEMMA PublishDisableTypes ==
  ASSUME DeskInv, NEW w \in Workers, PublishDisableClose(w)
  PROVE  DeskInv'
<1>1. PICK o \in worker[w].todo :
         /\ Close(NewId, o)
         /\ worker' = [worker EXCEPT ![w] = IF worker[w].todo = {o} THEN IdleWorker
                                            ELSE [@ EXCEPT !.todo = worker[w].todo \ {o}]]
  BY DEF PublishDisableClose
<1>2. o \in Orders /\ Sided(o.side)
  BY DEF DeskInv, DeskTypeOK, OrdersSided
<1>3. NewId \in Ids /\ NewId \in RequestIds
  BY IdFacts DEF PublishDisableClose
<1>4. /\ queue' \subseteq Messages /\ closers' \in [Ids -> SUBSET Reasons]
      /\ contended' \subseteq Ids /\ \A m \in queue' : Sided(m.order.side)
  BY <1>1, <1>2, <1>3, CloseTypes
<1>5. worker[w].pc = "publish" /\ taken' = taken \cup {NewId}
      /\ UNCHANGED <<exchangeVars, configVars>>
  BY DEF PublishDisableClose
<1>6. IdleWorker \in Jobs /\ IdleWorker.pc = "idle" /\ IdleWorker.todo = {}
  BY DEF IdleWorker, Jobs
<1>7. worker \in [Workers -> Jobs]
  BY DEF DeskInv, DeskTypeOK, Jobs
<1>8. /\ worker'[w] \in Jobs /\ worker'[w].pc \in {"idle", "publish"}
      /\ worker'[w].todo \subseteq worker[w].todo
      /\ \A v \in Workers \ {w} : worker'[v] = worker[v]
      /\ worker' \in [Workers -> Jobs]
  <2> DEFINE job == IF worker[w].todo = {o} THEN IdleWorker
                    ELSE [worker[w] EXCEPT !.todo = worker[w].todo \ {o}]
  <2>1. worker' = [worker EXCEPT ![w] = job]
    BY <1>1, Zenon
  <2>2. [worker[w] EXCEPT !.todo = worker[w].todo \ {o}] \in Jobs
    BY <1>7 DEF Jobs
  <2>3. /\ [worker[w] EXCEPT !.todo = worker[w].todo \ {o}].pc = worker[w].pc
        /\ [worker[w] EXCEPT !.todo = worker[w].todo \ {o}].todo = worker[w].todo \ {o}
    BY <1>7 DEF Jobs
  <2>4. job \in Jobs /\ job.pc \in {"idle", "publish"} /\ job.todo \subseteq worker[w].todo
    BY <1>5, <1>6, <2>2, <2>3
  <2> HIDE DEF job
  <2>5. QED
    BY <1>7, <2>1, <2>4
<1>9. JobsOK'
  BY <1>8 DEF DeskInv, JobsOK
<1>10. OrdersSided'
  <2>1. \A v \in Workers : worker'[v].todo \subseteq worker[v].todo
    BY <1>8
  <2>2. QED
    BY <1>4, <1>5, <2>1 DEF DeskInv, OrdersSided, Sided, NormalizeOrderSideByMarket, exchangeVars
<1>11. DeskTypeOK'
  BY <1>3, <1>4, <1>5, <1>8 DEF DeskInv, DeskTypeOK, Jobs, Messages, exchangeVars, configVars
<1>12. Recorded'
  BY <1>5 DEF DeskInv, Recorded, exchangeVars
<1>13. QED
  BY <1>9, <1>10, <1>11, <1>12 DEF DeskInv

\* The calls that change the table of configs.
LEMMA ConfigTypes ==
  ASSUME DeskInv,
         \/ \E c \in Configs, s \in Strategies, e \in BOOLEAN : CreateStrategyConfig(c, s, e)
         \/ \E c \in Configs : DeleteStrategyConfig(c)
  PROVE  DeskInv'
<1>1. /\ UNCHANGED <<deskRest, worker, owed, overlapped, failed>> /\ Count
      /\ configs' \in ConfigsOrNone /\ taken' \subseteq Ids \cup Configs
  BY DEF CreateStrategyConfig, DeleteStrategyConfig, DeskInv, DeskTypeOK, ConfigsOrNone,
         ConfigRows
<1>2. updates' \in 0..MaxUpdates
  BY <1>1, DeskBoundsAssumption DEF Count, DeskInv, DeskTypeOK
<1>3. OrdersSided'
  BY <1>1, OrdersSidedKept DEF deskRest, exchangeVars
<1>4. DeskTypeOK'
  BY <1>1, <1>2 DEF DeskInv, DeskTypeOK, deskRest, exchangeVars, ConfigsOrNone
<1>5. JobsOK' /\ Recorded'
  BY <1>1 DEF DeskInv, JobsOK, Recorded, deskRest, exchangeVars
<1>6. QED
  BY <1>3, <1>4, <1>5 DEF DeskInv

LEMMA MapTypes ==
  ASSUME NEW given \in Bodies, NEW row \in ConfigRows
  PROVE  MapStrategyConfig(given, row) \in ConfigRows /\ WasEnabled(given, row) \in BOOLEAN
<1>1. given \in [enabled: BOOLEAN \cup {Keep}, strategy: Strategies \cup {Keep}]
  BY BodiesAssumption
<1>2. QED
  BY <1>1 DEF MapStrategyConfig, WasEnabled, ConfigRows

LEMMA UpdateConfigTypes ==
  ASSUME DeskInv, NEW w \in Workers, NEW c \in Configs, NEW given \in Bodies,
         UpdateStrategyConfig(w, c, given)
  PROVE  DeskInv'
<1> DEFINE job == [pc |-> "write", cfg |-> c, given |-> given,
                   was |-> WasEnabled(given, configs[c]),
                   item |-> MapStrategyConfig(given, configs[c]), todo |-> {}]
<1>1. configs[c] \in ConfigRows
  BY DEF UpdateStrategyConfig, DeskInv, DeskTypeOK
<1>2. job \in Jobs /\ job.pc = "write" /\ job.todo = {} /\ job.cfg = c /\ job.given = given
      /\ job.item \in ConfigRows
  BY <1>1, MapTypes DEF Jobs
<1>3. worker' = [worker EXCEPT ![w] = job]
  BY DEF UpdateStrategyConfig
<1> HIDE DEF job
<1>4. worker' \in [Workers -> Jobs] /\ JobsOK'
  BY <1>2, <1>3 DEF DeskInv, DeskTypeOK, JobsOK, Jobs
<1>5. /\ UNCHANGED <<deskRest, configs, taken, owed, failed>> /\ Count
      /\ overlapped' \subseteq Configs
  BY DEF UpdateStrategyConfig, DeskInv, DeskTypeOK
<1>6. updates' \in 0..MaxUpdates
  BY <1>5, DeskBoundsAssumption DEF Count, DeskInv, DeskTypeOK
<1>7. OrdersSided'
  BY <1>2, <1>3, <1>5
     DEF DeskInv, DeskTypeOK, OrdersSided, Sided, NormalizeOrderSideByMarket, deskRest, exchangeVars
<1>8. DeskTypeOK'
  BY <1>4, <1>5, <1>6 DEF DeskInv, DeskTypeOK, Jobs, deskRest, exchangeVars
<1>9. Recorded'
  BY <1>5 DEF DeskInv, Recorded, deskRest, exchangeVars
<1>10. QED
  BY <1>4, <1>7, <1>8, <1>9 DEF DeskInv

\* A goroutine that goes on to its next call, or is through.
LEMMA UpdateTypes ==
  ASSUME DeskInv, NEW w \in Workers, Update(w)
  PROVE  DeskInv'
<1> DEFINE c == worker[w].cfg
           item == worker[w].item
           job == IF worker[w].was /\ ~item.enabled THEN [worker[w] EXCEPT !.pc = "list"]
                  ELSE IdleWorker
<1>1. c \in Configs /\ item \in ConfigRows /\ worker \in [Workers -> Jobs]
      /\ worker[w].pc = "write"
  BY DEF Update, DeskInv, JobsOK, DeskTypeOK, Jobs
<1>2. IdleWorker \in Jobs /\ IdleWorker.pc = "idle" /\ IdleWorker.todo = {}
  BY DEF IdleWorker, Jobs
<1>3. LET j == [worker[w] EXCEPT !.pc = "list"] IN
      j \in Jobs /\ j.pc = "list" /\ j.cfg = c /\ j.item = item /\ j.todo = worker[w].todo
  BY <1>1 DEF Jobs
<1>4. /\ job \in Jobs /\ job.pc # "write" /\ job.todo \subseteq worker[w].todo
      /\ job.pc = "list" => job.cfg \in Configs /\ job.item \in ConfigRows
  BY <1>1, <1>2, <1>3
<1>5. worker' = [worker EXCEPT ![w] = job]
  BY DEF Update
<1>6. /\ configs' = IF configs[c] = NoRow THEN configs ELSE [configs EXCEPT ![c] = item]
      /\ UNCHANGED <<deskRest, taken, overlapped, failed, updates>>
      /\ owed' = owed \/ owed' = [owed EXCEPT ![c] = @ \cup ListOpenEntries(item.strategy)]
  BY DEF Update
<1> HIDE DEF job, c, item
<1>7. worker' \in [Workers -> Jobs] /\ JobsOK'
  BY <1>1, <1>4, <1>5 DEF DeskInv, JobsOK
<1>8. configs' \in ConfigsOrNone
  BY <1>1, <1>6 DEF DeskInv, DeskTypeOK, ConfigsOrNone
<1>9. owed' \in [Configs -> SUBSET Ids]
  BY <1>1, <1>6 DEF DeskInv, DeskTypeOK, ListOpenEntries
<1>10. OrdersSided'
  <2>1. \A v \in Workers : worker'[v].todo \subseteq worker[v].todo
    BY <1>1, <1>4, <1>5
  <2>2. QED
    BY <1>6, <2>1
       DEF DeskInv, OrdersSided, Sided, NormalizeOrderSideByMarket, deskRest, exchangeVars
<1>11. DeskTypeOK'
  BY <1>6, <1>7, <1>8, <1>9 DEF DeskInv, DeskTypeOK, Jobs, ConfigsOrNone, deskRest, exchangeVars
<1>12. Recorded'
  BY <1>6 DEF DeskInv, Recorded, deskRest, exchangeVars
<1>13. QED
  BY <1>7, <1>10, <1>11, <1>12 DEF DeskInv

LEMMA CloseOpenTypes ==
  ASSUME DeskInv, NEW w \in Workers, CloseOpenTrades(w)
  PROVE  DeskInv'
<1> DEFINE open == ListOpenEntries(worker[w].item.strategy)
           orders == {CloseOrderOf(i, "strategy_disabled") : i \in open}
           job == IF open = {} THEN IdleWorker
                  ELSE [worker[w] EXCEPT !.pc = "publish", !.todo = orders]
<1>1. \A i \in open : i \in Ids /\ Running(i)
  BY DEF ListOpenEntries
<1>2. \A o \in orders : o \in Orders /\ Sided(o.side)
  BY <1>1, RunningFacts, CloseOrderFacts, SideFacts DEF Reasons
<1>3. worker' = [worker EXCEPT ![w] = job]
  BY DEF CloseOpenTrades
<1>4. /\ UNCHANGED <<exchangeVars, configVars, queue, taken, closers>>
      /\ contended' = contended \cup Uncertain(open)
  BY DEF CloseOpenTrades
<1> HIDE DEF open, orders
<1>5. worker \in [Workers -> Jobs]
  BY DEF DeskInv, DeskTypeOK, Jobs
<1>6. LET j == [worker[w] EXCEPT !.pc = "publish", !.todo = orders] IN
      j \in Jobs /\ j.pc = "publish" /\ j.todo = orders
  BY <1>2, <1>5 DEF Jobs
<1>7. IdleWorker \in Jobs /\ IdleWorker.pc = "idle" /\ IdleWorker.todo = {}
  BY DEF IdleWorker, Jobs
<1>8. job \in Jobs /\ job.pc \notin {"write", "list"} /\ job.todo \subseteq orders
  BY <1>6, <1>7
<1> HIDE DEF job
<1>9. worker' \in [Workers -> Jobs] /\ JobsOK'
  BY <1>3, <1>5, <1>8 DEF DeskInv, JobsOK
<1>10. OrdersSided'
  <2>1. \A v \in Workers : worker'[v].todo \subseteq worker[v].todo \cup orders
    BY <1>3, <1>5, <1>8
  <2>2. QED
    BY <1>2, <1>4, <2>1 DEF DeskInv, OrdersSided, Sided, NormalizeOrderSideByMarket, exchangeVars
<1>11. Uncertain(open) \subseteq Ids
  BY <1>1 DEF Uncertain
<1>12. DeskTypeOK'
  BY <1>4, <1>9, <1>11 DEF DeskInv, DeskTypeOK, Jobs, exchangeVars, configVars
<1>13. Recorded'
  BY <1>4 DEF DeskInv, Recorded, exchangeVars
<1>14. QED
  BY <1>9, <1>10, <1>12, <1>13 DEF DeskInv

LEMMA FailTypes ==
  ASSUME DeskInv, NEW w \in Workers, FailWorker(w)
  PROVE  DeskInv'
<1>1. /\ worker' = [worker EXCEPT ![w] = IdleWorker]
      /\ failed' = IF worker[w].cfg = NoRow THEN failed ELSE failed \cup {worker[w].cfg}
      /\ UNCHANGED <<deskRest, configs, taken, owed, overlapped, updates>>
  BY DEF FailWorker
<1>2. IdleWorker \in Jobs /\ IdleWorker.pc = "idle" /\ IdleWorker.todo = {}
  BY DEF IdleWorker, Jobs
<1>3. worker' \in [Workers -> Jobs] /\ JobsOK'
  BY <1>1, <1>2 DEF DeskInv, DeskTypeOK, JobsOK, Jobs
<1>4. failed' \subseteq Configs
  BY <1>1 DEF DeskInv, DeskTypeOK
<1>5. OrdersSided'
  BY <1>1, <1>2
     DEF DeskInv, DeskTypeOK, OrdersSided, Sided, NormalizeOrderSideByMarket, deskRest, exchangeVars
<1>6. DeskTypeOK'
  BY <1>1, <1>3, <1>4 DEF DeskInv, DeskTypeOK, Jobs, deskRest, exchangeVars
<1>7. Recorded'
  BY <1>1 DEF DeskInv, Recorded, deskRest, exchangeVars
<1>8. QED
  BY <1>3, <1>5, <1>6, <1>7 DEF DeskInv

LEMMA StrategyExitTypes ==
  ASSUME DeskInv, NEW i \in Ids, NEW target \in OrderConfigs[venue], StrategyExits(i, target)
  PROVE  DeskInv'
<1> DEFINE e == rows[i].order
           o == [e EXCEPT !.cond = "EXIT", !.side = CloseOrderSide(e.side),
                          !.pos = target.pos, !.qty = target.qty, !.paper = target.paper,
                          !.reason = "signal"]
<1>1. Running(i) /\ NewIds # {}
  BY DEF StrategyExits
<1>2. e \in Orders
  BY <1>1, RunningFacts DEF Rows
<1>3. o \in Orders /\ Sided(o.side)
  <2>1. CloseOrderSide(e.side) \in Sides /\ Sided(CloseOrderSide(e.side))
    BY SideFacts
  <2>2. o = SignalForm(e, CloseOrderSide(e.side), target.pos, target.qty, target.paper)
    BY DEF SignalForm
  <2>3. target.pos \in PositionSides /\ target.qty \in 1..Quantity /\ target.paper \in BOOLEAN
    BY TargetFacts DEF DeskInv, OrderRows
  <2> HIDE DEF e, o
  <2>4. QED
    BY <1>2, <2>1, <2>2, <2>3, ExitFields
<1>4. NewId \in Ids /\ NewId \in RequestIds
  BY <1>1, IdFacts
<1>5. Close(NewId, o) /\ taken' = taken \cup {NewId} /\ UNCHANGED <<exchangeVars, configVars, worker>>
  BY DEF StrategyExits
<1> HIDE DEF o
<1>6. /\ queue' \subseteq Messages /\ closers' \in [Ids -> SUBSET Reasons]
      /\ contended' \subseteq Ids /\ \A m \in queue' : Sided(m.order.side)
  BY <1>3, <1>4, <1>5, CloseTypes
<1>7. OrdersSided'
  BY <1>5, <1>6 DEF DeskInv, OrdersSided, Sided, NormalizeOrderSideByMarket, exchangeVars
<1>8. DeskTypeOK'
  BY <1>4, <1>5, <1>6 DEF DeskInv, DeskTypeOK, Messages, exchangeVars, configVars
<1>9. JobsOK' /\ Recorded'
  BY <1>5 DEF DeskInv, JobsOK, Recorded, exchangeVars
<1>10. QED
  BY <1>7, <1>8, <1>9 DEF DeskInv

-----------------------------------------------------------------------------
\* The gateway and the exchange

LEMMA SubmittedType ==
  ASSUME NEW o \in Orders
  PROVE  Submitted(o) \in PositionSides
<1>1. o.pos \in PositionSides
  BY DEF Orders
<1>2. QED
  BY <1>1 DEF Submitted, FuturesPositionSide, AlternateFuturesPositionSide, PositionSides

\* The order as the row has it, with the position side the exchange took.
LEMMA PlacedFields ==
  ASSUME NEW o \in Orders, NEW at \in PositionSides
  PROVE  LET p == [o EXCEPT !.pos = at] IN
         /\ p \in Orders /\ p.cond = o.cond /\ p.entry = o.entry /\ p.strategy = o.strategy
         /\ p.side = o.side /\ p.pos = at /\ p.qty = o.qty /\ p.paper = o.paper
         /\ p.reason = o.reason
  BY DEF Orders

LEMMA FillFacts ==
  \A q \in 1..Quantity :
    /\ Opened(q) \subseteq Fills
    /\ \A f \in Opened(q) : f.status = "FILLED" => f.filled = q
    /\ [filled |-> q, status |-> "FILLED"] \in Fills
  BY DeskBoundsAssumption DEF Opened, Fills, Statuses

LEMMA SettleTypes ==
  ASSUME DeskInv, NEW m, NEW n \in Nat, Settle(m, n)
  PROVE  queue' \subseteq queue /\ queue \ {m} \subseteq queue' /\ delays' \in 0..MaxDelays
<1>1. PICK lost \in 0..1 : /\ queue' = IF lost = 0 THEN queue \ {m} ELSE queue
                           /\ delays + n + lost <= MaxDelays /\ delays' = delays + n + lost
  BY DEF Settle
<1>2. delays \in Nat
  BY DeskBoundsAssumption DEF DeskInv, DeskTypeOK
<1>3. QED
  BY <1>1, <1>2, DeskBoundsAssumption

\* The three outcomes of a delivery.
Duplicate(m) == rows[m.req] # NoRow /\ UNCHANGED <<rows, book>>
Simulated(m, o) ==
  /\ rows[m.req] = NoRow /\ o.paper /\ UNCHANGED book
  /\ rows' = [rows EXCEPT ![m.req] =
                [order |-> o, fill |-> [filled |-> o.qty, status |-> "FILLED"]]]
Accepted(m, o, f) ==
  /\ rows[m.req] = NoRow /\ ~o.paper
  /\ book' = [book EXCEPT ![m.req] = [order |-> o, fill |-> f, at |-> Submitted(o)]]
  /\ rows' = [rows EXCEPT ![m.req] = [order |-> [o EXCEPT !.pos = Submitted(o)], fill |-> f]]

LEMMA Deliveries ==
  ASSUME DeskInv, NEW m \in queue, PlaceOrder(m)
  PROVE  /\ m.req \in RequestIds /\ m.order \in Orders /\ Sided(m.order.side)
         /\ Normalize(m.order) \in Orders
         /\ queue' \subseteq queue /\ queue \ {m} \subseteq queue' /\ delays' \in 0..MaxDelays
         /\ UNCHANGED <<venue, configVars, worker, taken, closers, contended>>
         /\ \/ Duplicate(m)
            \/ Simulated(m, Normalize(m.order))
            \/ \E f \in Opened(Normalize(m.order).qty) : Accepted(m, Normalize(m.order), f)
<1>1. m.req \in RequestIds /\ m.order \in Orders /\ Sided(m.order.side)
  BY DEF DeskInv, DeskTypeOK, OrdersSided
<1>2. Normalize(m.order) \in Orders
  BY <1>1, NormalizeFacts
<1>3. UNCHANGED <<venue, configVars, worker, taken, closers, contended>>
  BY DEF PlaceOrder
<1>4. /\ \E n \in {0, 1} : Settle(m, n)
      /\ \/ Duplicate(m)
         \/ Simulated(m, Normalize(m.order))
         \/ \E f \in Opened(Normalize(m.order).qty) : Accepted(m, Normalize(m.order), f)
  BY DEF PlaceOrder, Duplicate, Simulated, Accepted
<1>5. queue' \subseteq queue /\ queue \ {m} \subseteq queue' /\ delays' \in 0..MaxDelays
  BY <1>4, SettleTypes
<1>6. QED
  BY <1>1, <1>2, <1>3, <1>4, <1>5

LEMMA PlaceTypes ==
  ASSUME DeskInv, NEW m \in queue, PlaceOrder(m)
  PROVE  DeskInv'
<1> DEFINE o == Normalize(m.order)
           r == m.req
<1>1. r \in RequestIds /\ o \in Orders /\ o.qty \in 1..Quantity
  BY Deliveries DEF Orders
<1>2. /\ queue' \subseteq queue /\ delays' \in 0..MaxDelays
      /\ UNCHANGED <<venue, configVars, worker, taken, closers, contended>>
  BY Deliveries
<1>3. /\ rows \in [RequestIds -> {NoRow} \cup Rows] /\ book \in [RequestIds -> {NoRow} \cup Books]
      /\ Recorded
  BY DEF DeskInv, DeskTypeOK, Rows, Books
<1>4. /\ rows' \in [RequestIds -> {NoRow} \cup Rows] /\ book' \in [RequestIds -> {NoRow} \cup Books]
      /\ Recorded'
  <2>1. CASE Duplicate(m)
    BY <1>3, <2>1 DEF Duplicate, Recorded
  <2>2. CASE Simulated(m, o)
    <3>1. [order |-> o, fill |-> [filled |-> o.qty, status |-> "FILLED"]] \in Rows
      BY <1>1, FillFacts DEF Rows
    <3>2. rows' = [rows EXCEPT ![r] =
                     [order |-> o, fill |-> [filled |-> o.qty, status |-> "FILLED"]]]
          /\ book' = book
      BY <2>2 DEF Simulated
    <3>3. QED
      BY <1>1, <1>3, <3>1, <3>2, NoRowFacts DEF Recorded
  <2>3. CASE \E f \in Opened(o.qty) : Accepted(m, o, f)
    <3>1. PICK f \in Opened(o.qty) : Accepted(m, o, f)
      BY <2>3
    <3>2. f \in Fills /\ Submitted(o) \in PositionSides
      BY <1>1, FillFacts, SubmittedType
    <3> DEFINE row == [order |-> [o EXCEPT !.pos = Submitted(o)], fill |-> f]
               entry == [order |-> o, fill |-> f, at |-> Submitted(o)]
    <3>3. row \in Rows /\ entry \in Books
      BY <1>1, <3>2, PlacedFields DEF Rows, Books
    <3>4. rows' = [rows EXCEPT ![r] = row] /\ book' = [book EXCEPT ![r] = entry]
      BY <3>1 DEF Accepted
    <3> HIDE DEF row, entry
    <3>5. QED
      BY <1>1, <1>3, <3>3, <3>4, NoRowFacts DEF Recorded
  <2>4. QED
    BY <2>1, <2>2, <2>3, Deliveries
<1>5. OrdersSided'
  BY <1>2 DEF DeskInv, OrdersSided, Sided, NormalizeOrderSideByMarket
<1>6. DeskTypeOK'
  BY <1>2, <1>4 DEF DeskInv, DeskTypeOK, Rows, Books, configVars
<1>7. JobsOK'
  BY <1>2 DEF DeskInv, JobsOK
<1>8. QED
  BY <1>4, <1>5, <1>6, <1>7 DEF DeskInv

\* An order that goes on matching, or whose state the worker stores.
LEMMA MatchForm ==
  ASSUME DeskInv, NEW r \in RequestIds, Match(r)
  PROVE  /\ book[r] \in Books /\ book[r].fill.status \in {"NEW", "PARTIAL"}
         /\ UNCHANGED <<venue, rows, delays, configVars, worker, queue, taken, closers, contended>>
         /\ \E f \in Later(book[r].fill, book[r].order.qty) :
              /\ f \in Fills /\ book' = [book EXCEPT ![r].fill = f]
              /\ book'[r] \in Books /\ book'[r].order = book[r].order
              /\ book'[r].at = book[r].at /\ book'[r].fill = f
<1>1. /\ book[r] \in Books /\ book[r].fill.status \in {"NEW", "PARTIAL"}
      /\ UNCHANGED <<venue, rows, delays, configVars, worker, queue, taken, closers, contended>>
  BY DEF Match, DeskInv, DeskTypeOK, Books
<1>2. PICK f \in Later(book[r].fill, book[r].order.qty) : book' = [book EXCEPT ![r].fill = f]
  BY DEF Match
<1>3. f \in Fills
  BY DEF Later
<1>4. book'[r] = [book[r] EXCEPT !.fill = f]
  BY <1>2 DEF DeskInv, DeskTypeOK
<1>5. book'[r] \in Books /\ book'[r].order = book[r].order /\ book'[r].at = book[r].at
      /\ book'[r].fill = f
  BY <1>1, <1>3, <1>4 DEF Books
<1>6. QED
  BY <1>1, <1>2, <1>3, <1>5

LEMMA SyncForm ==
  ASSUME DeskInv, NEW r \in RequestIds, Sync(r)
  PROVE  /\ book[r] \in Books /\ rows[r] \in Rows
         /\ UNCHANGED <<venue, book, delays, configVars, worker, queue, taken, closers, contended>>
         /\ rows' = [rows EXCEPT ![r].fill = book[r].fill]
         /\ rows'[r] \in Rows /\ rows'[r].order = rows[r].order /\ rows'[r].fill = book[r].fill
<1>1. /\ book[r] \in Books /\ rows[r] \in Rows
      /\ UNCHANGED <<venue, book, delays, configVars, worker, queue, taken, closers, contended>>
      /\ rows' = [rows EXCEPT ![r].fill = book[r].fill]
  BY DEF Sync, DeskInv, DeskTypeOK, Recorded, Rows, Books
<1>2. rows'[r] = [rows[r] EXCEPT !.fill = book[r].fill]
  BY <1>1 DEF DeskInv, DeskTypeOK
<1>3. rows'[r] \in Rows /\ rows'[r].order = rows[r].order /\ rows'[r].fill = book[r].fill
  BY <1>1, <1>2 DEF Books, Rows
<1>4. QED
  BY <1>1, <1>3

LEMMA ExchangeTypes ==
  ASSUME DeskInv, NEW r \in RequestIds, Match(r) \/ Sync(r)
  PROVE  DeskInv'
<1>1. UNCHANGED <<venue, delays, configVars, worker, queue, taken, closers, contended>>
  BY DEF Match, Sync
<1>2. /\ rows \in [RequestIds -> {NoRow} \cup Rows] /\ book \in [RequestIds -> {NoRow} \cup Books]
      /\ Recorded
  BY DEF DeskInv, DeskTypeOK, Rows, Books
<1>3. /\ rows' \in [RequestIds -> {NoRow} \cup Rows] /\ book' \in [RequestIds -> {NoRow} \cup Books]
      /\ Recorded'
  <2>1. CASE Match(r)
    BY <1>2, <2>1, MatchForm, NoRowFacts DEF Recorded
  <2>2. CASE Sync(r)
    BY <1>2, <2>2, SyncForm, NoRowFacts DEF Recorded
  <2>3. QED
    BY <2>1, <2>2
<1>4. OrdersSided'
  BY <1>1, OrdersSidedKept
<1>5. DeskTypeOK'
  BY <1>1, <1>3 DEF DeskInv, DeskTypeOK, Rows, Books, configVars
<1>6. JobsOK'
  BY <1>1 DEF DeskInv, JobsOK
<1>7. QED
  BY <1>3, <1>4, <1>5, <1>6 DEF DeskInv

LEMMA RestTypes ==
  ASSUME DeskInv, Reconcile \/ (\E m \in queue : Refuse(m)) \/ UNCHANGED deskVars
  PROVE  DeskInv'
<1>1. /\ active' \in [Configs -> {NoRow} \cup Strategies] /\ queue' \subseteq queue
      /\ UNCHANGED <<exchangeVars, configs, owed, overlapped, failed, updates, worker, taken,
                     closers, contended>>
  BY TargetsTyped DEF Reconcile, Refuse, deskVars, exchangeVars, configVars, DeskInv, DeskTypeOK
<1>2. OrdersSided'
  BY <1>1 DEF DeskInv, OrdersSided, Sided, NormalizeOrderSideByMarket, exchangeVars
<1>3. DeskTypeOK'
  BY <1>1 DEF DeskInv, DeskTypeOK, exchangeVars
<1>4. JobsOK' /\ Recorded'
  BY <1>1 DEF DeskInv, JobsOK, Recorded, exchangeVars
<1>5. QED
  BY <1>2, <1>3, <1>4 DEF DeskInv

LEMMA DeskInvStep ==
  ASSUME DeskInv, [DeskNext]_deskVars
  PROVE  DeskInv'
  BY DeskForms, ManualEnters, StrategyEntersIs, EntersTypes, CloseOrderTypes, PublishManualTypes,
     PublishDisableTypes, ConfigTypes, UpdateConfigTypes, UpdateTypes, CloseOpenTypes, FailTypes,
     StrategyExitTypes, PlaceTypes, ExchangeTypes, RestTypes

LEMMA DeskInvAlways == DeskSpec => []DeskInv
<1>1. DeskInv /\ [DeskNext]_deskVars => DeskInv'
  BY DeskInvStep
<1>2. QED
  BY <1>1, DeskInvInit, PTL DEF DeskSpec

\* Every table, message and list of orders to publish keeps its type: no side the
\* gateway does not know gets into the queue (normalizeOrderSideByMarket), no row
\* or order of the exchange is without the fields a close is made of.
THEOREM DeskTypes == DeskSpec => []DeskTypeOK
<1>1. DeskInv => DeskTypeOK
  BY DEF DeskInv
<1>2. QED
  BY <1>1, DeskInvAlways, PTL

-----------------------------------------------------------------------------
\* What an order in the tables is: who named it, what the row and the exchange
\* have of it.

Exit(o, i) == o.cond = "EXIT" /\ o.entry = i
Why(w) == IF worker[w].cfg = NoRow THEN "manual_close" ELSE "strategy_disabled"

\* An entry has its own request id; what a goroutine publishes are closes.
EntriesNamed ==
  /\ \A m \in queue : m.order.cond = "ENTRY" => m.req = m.order.entry
  /\ \A r \in RequestIds :
       rows[r] # NoRow /\ rows[r].order.cond = "ENTRY" => rows[r].order.entry = r
  /\ \A w \in Workers : \A o \in worker[w].todo : o.cond = "EXIT" /\ o.reason = Why(w)

\* A row of an order that is not simulated is the exchange's order, with the
\* position side it took; once it is shown as filled that is final.
Normal(o) == NormalizeOrderSideByMarket(o.side) = o.side /\ PositionSide(o.side, o.pos) = o.pos
Backed(r) ==
  IF rows[r].order.paper THEN book[r] = NoRow
  ELSE /\ book[r] # NoRow
       /\ rows[r].order = [book[r].order EXCEPT !.pos = book[r].at]
       /\ book[r].at = Submitted(book[r].order) /\ Normal(book[r].order)
       /\ rows[r].fill.status = "FILLED" => rows[r].fill = book[r].fill
       /\ book[r].fill.status = "FILLED" => book[r].fill.filled = book[r].order.qty
RowsBacked == \A r \in RequestIds : rows[r] # NoRow => Backed(r)

TableInv == DeskInv /\ EntriesNamed /\ RowsBacked

-----------------------------------------------------------------------------
\* Updates of a config

Writing(w, c) == worker[w].pc = "write" /\ worker[w].cfg = c

\* Who has read a config that nobody else is changing knows it.
ConfigsTaken ==
  \A c \in Configs : configs[c] # NoRow \/ (\E w \in Workers : Writing(w, c)) => c \in taken
Overlaps ==
  \A v, w \in Workers : \A c \in Configs : Writing(v, c) /\ Writing(w, c) => v = w \/ c \in overlapped
ReadIsCurrent ==
  \A w \in Workers : \A c \in Configs \ overlapped : Writing(w, c) /\ configs[c] # NoRow =>
    /\ worker[w].item = MapStrategyConfig(worker[w].given, configs[c])
    /\ worker[w].was = configs[c].enabled

UpdateInv == DeskInv /\ ConfigsTaken /\ Overlaps /\ ReadIsCurrent

-----------------------------------------------------------------------------
\* What a disabled strategy owes

\* Its close is in the hands of the goroutine that serves the call.
InHand(i, w) ==
  \/ worker[w].pc = "list" /\ i \in ListOpenEntries(worker[w].item.strategy)
  \/ worker[w].pc = "publish" /\ \E o \in worker[w].todo : o.entry = i
OwedIsClosed ==
  \A c \in Configs \ (failed \cup overlapped) : \A i \in owed[c] :
    \/ Closed(i) \/ "strategy_disabled" \in closers[i]
    \/ \E w \in Workers : worker[w].cfg = c /\ InHand(i, w)

DisableInv == TableInv /\ UpdateInv /\ OwedIsClosed

-----------------------------------------------------------------------------
\* The close of an entry

\* An order n, as PlaceOrder makes it, that closes what the exchange has of i.
Fits(n, i) ==
  /\ n.qty = book[i].fill.filled
  /\ SideCode(n.side) # SideCode(book[i].order.side)
  /\ Hedged(i) \/ Submitted(n) = book[i].at
Closes(n, i) ==
  /\ Entry(i)
  /\ i \notin contended => /\ Known(i) /\ n.paper = rows[i].order.paper
                           /\ n.paper \/ Fits(n, i)
ExitsFit ==
  /\ \A m \in queue : \A i \in Ids : Exit(m.order, i) => Closes(Normalize(m.order), i)
  /\ \A w \in Workers : \A o \in worker[w].todo : \A i \in Ids :
       Exit(o, i) => Closes(Normalize(o), i)
  /\ \A r \in RequestIds : \A i \in Ids :
       rows[r] # NoRow /\ Exit(rows[r].order, i) =>
         Closes(IF rows[r].order.paper THEN rows[r].order ELSE book[r].order, i)

\* The close that was ordered, under its request id.
ExitOf(r, i) ==
  \/ \E m \in queue : m.req = r /\ Exit(m.order, i)
  \/ rows[r] # NoRow /\ Exit(rows[r].order, i)
OneExit ==
  \A i \in Ids \ contended : \A r \in RequestIds : ExitOf(r, i) =>
    /\ closers[i] # {} /\ (closers[i] = {"manual_close"} => r = ManualClose(i))
    /\ \A q \in RequestIds : ExitOf(q, i) => q = r

FlatInv == TableInv /\ ExitsFit /\ OneExit

-----------------------------------------------------------------------------
\* Only what was asked for changes in a config.

LEMMA UpdateInvInit ==
  ASSUME DeskInit
  PROVE  UpdateInv
<1>1. \A w \in Workers : \A c \in Configs : ~Writing(w, c)
  BY DEF DeskInit, IdleWorker, Writing
<1>2. \A c \in Configs : configs[c] # NoRow => c \in taken
  BY DEF DeskInit
<1>3. QED
  BY <1>1, <1>2, DeskInvInit DEF UpdateInv, ConfigsTaken, Overlaps, ReadIsCurrent

\* A step that leaves the table, and whoever is about to write it, alone.
WritersRest ==
  /\ configs' = configs /\ overlapped' = overlapped /\ taken \subseteq taken'
  /\ \A w \in Workers : worker'[w].pc = "write" => worker'[w] = worker[w]

LEMMA WritersKept ==
  ASSUME UpdateInv, WritersRest
  PROVE  (ConfigsTaken /\ Overlaps /\ ReadIsCurrent)'
<1>1. \A w \in Workers : \A c \in Configs :
        Writing(w, c)' => Writing(w, c) /\ worker'[w] = worker[w]
  BY DEF WritersRest, Writing
<1>2. ConfigsTaken' /\ Overlaps'
  BY <1>1 DEF UpdateInv, WritersRest, ConfigsTaken, Overlaps
<1>3. ASSUME NEW w \in Workers, NEW c \in Configs \ overlapped', Writing(w, c)', configs'[c] # NoRow
      PROVE  /\ worker'[w].item = MapStrategyConfig(worker'[w].given, configs'[c])
             /\ worker'[w].was = configs'[c].enabled
  <2>1. Writing(w, c) /\ worker'[w] = worker[w] /\ configs' = configs /\ c \notin overlapped
    BY <1>1, <1>3 DEF WritersRest
  <2>2. /\ worker[w].item = MapStrategyConfig(worker[w].given, configs[c])
        /\ worker[w].was = configs[c].enabled
    BY <1>3, <2>1 DEF UpdateInv, ReadIsCurrent
  <2>3. QED
    BY <2>1, <2>2
<1>4. ReadIsCurrent'
  BY <1>3 DEF ReadIsCurrent, MapStrategyConfig
<1>5. QED
  BY <1>2, <1>4

\* Every step but the four that work on a config is of that kind.
LEMMA OthersRest ==
  ASSUME \/ Enters \/ Reconcile
         \/ \E i \in Ids, target \in OrderConfigs[venue] : StrategyExits(i, target)
         \/ \E m \in queue : PlaceOrder(m)
         \/ \E m \in queue : Refuse(m)
         \/ \E r \in RequestIds : Match(r)
         \/ \E r \in RequestIds : Sync(r)
         \/ UNCHANGED deskVars
  PROVE  WritersRest
  BY DEF Enters, Reconcile, StrategyExits, PlaceOrder, Refuse, Match, Sync, deskVars,
         exchangeVars, configVars, WritersRest

LEMMA WorkRests ==
  ASSUME DeskInv, NEW w \in Workers,
         \/ \E i \in Ids : CloseOrder(w, i)
         \/ CloseOpenTrades(w) \/ PublishDisableClose(w) \/ PublishManualClose(w) \/ FailWorker(w)
  PROVE  WritersRest
<1>0. worker \in [Workers -> Jobs]
  BY DEF DeskInv, DeskTypeOK, Jobs
<1>1. configs' = configs /\ overlapped' = overlapped /\ taken \subseteq taken'
  BY DEF CloseOrder, CloseOpenTrades, PublishDisableClose, PublishManualClose, FailWorker,
              exchangeVars, configVars, deskRest
<1>2. IdleWorker.pc = "idle"
  BY DEF IdleWorker
<1>3. CASE \E i \in Ids : CloseOrder(w, i)
  <2>1. PICK i \in Ids : CloseOrder(w, i)
    BY <1>3
  <2> DEFINE job == [IdleWorker EXCEPT !.pc = "publish",
                                       !.todo = {CloseOrderOf(i, "manual_close")}]
  <2>2. worker' = [worker EXCEPT ![w] = job]
    BY <2>1 DEF CloseOrder
  <2>3. job.pc = "publish"
    BY DEF IdleWorker
  <2> HIDE DEF job
  <2>4. QED
    BY <1>0, <1>1, <2>2, <2>3 DEF WritersRest
<1>4. CASE CloseOpenTrades(w)
  <2> DEFINE todo == {CloseOrderOf(i, "strategy_disabled") :
                        i \in ListOpenEntries(worker[w].item.strategy)}
             job == IF ListOpenEntries(worker[w].item.strategy) = {} THEN IdleWorker
                    ELSE [worker[w] EXCEPT !.pc = "publish", !.todo = todo]
  <2>1. worker' = [worker EXCEPT ![w] = job]
    BY <1>4 DEF CloseOpenTrades
  <2> HIDE DEF todo
  <2>2. [worker[w] EXCEPT !.pc = "publish", !.todo = todo].pc = "publish"
    BY <1>0 DEF Jobs
  <2>3. job.pc # "write"
    BY <1>2, <2>2
  <2> HIDE DEF job
  <2>4. QED
    BY <1>0, <1>1, <2>1, <2>3 DEF WritersRest
<1>5. CASE PublishDisableClose(w)
  <2>1. PICK o \in worker[w].todo :
          worker' = [worker EXCEPT ![w] = IF worker[w].todo = {o} THEN IdleWorker
                                          ELSE [@ EXCEPT !.todo = worker[w].todo \ {o}]]
    BY <1>5 DEF PublishDisableClose
  <2> DEFINE job == IF worker[w].todo = {o} THEN IdleWorker
                    ELSE [worker[w] EXCEPT !.todo = worker[w].todo \ {o}]
  <2>2. worker' = [worker EXCEPT ![w] = job]
    BY <2>1, Zenon
  <2>3. [worker[w] EXCEPT !.todo = worker[w].todo \ {o}].pc = worker[w].pc
    BY <1>0 DEF Jobs
  <2>4. job.pc # "write"
    BY <1>2, <1>5, <2>3 DEF PublishDisableClose
  <2> HIDE DEF job
  <2>5. QED
    BY <1>0, <1>1, <2>2, <2>4 DEF WritersRest
<1>6. CASE PublishManualClose(w) \/ FailWorker(w)
  <2>1. worker' = [worker EXCEPT ![w] = IdleWorker]
    BY <1>6 DEF PublishManualClose, FailWorker
  <2>2. QED
    BY <1>0, <1>1, <1>2, <2>1 DEF WritersRest
<1>7. QED
  BY <1>3, <1>4, <1>5, <1>6

\* The row that is written, and what is left of the others.
LEMMA UpdateEffect ==
  ASSUME DeskInv, NEW w \in Workers, Update(w)
  PROVE  /\ worker[w].pc = "write" /\ worker[w].cfg \in Configs /\ worker[w].item \in ConfigRows
         /\ worker' \in [Workers -> Jobs]
         /\ worker'[w] = IF worker[w].was /\ ~worker[w].item.enabled
                         THEN [worker[w] EXCEPT !.pc = "list"] ELSE IdleWorker
         /\ worker'[w].pc \in {"list", "idle"}
         /\ \A v \in Workers \ {w} : worker'[v] = worker[v]
         /\ configs[worker[w].cfg] # NoRow => configs'[worker[w].cfg] = worker[w].item
         /\ configs[worker[w].cfg] = NoRow => configs'[worker[w].cfg] = NoRow
         /\ \A c \in Configs \ {worker[w].cfg} : configs'[c] = configs[c]
         /\ taken' = taken /\ overlapped' = overlapped /\ failed' = failed
         /\ UNCHANGED deskRest
<1>1. worker[w].pc = "write" /\ worker[w].cfg \in Configs /\ worker[w].item \in ConfigRows
      /\ worker \in [Workers -> Jobs] /\ configs \in ConfigsOrNone
  BY DEF Update, DeskInv, JobsOK, DeskTypeOK, Jobs, ConfigsOrNone
<1> DEFINE c == worker[w].cfg
           job == IF worker[w].was /\ ~worker[w].item.enabled
                  THEN [worker[w] EXCEPT !.pc = "list"] ELSE IdleWorker
<1>2. /\ worker' = [worker EXCEPT ![w] = job]
      /\ configs' = IF configs[c] = NoRow THEN configs ELSE [configs EXCEPT ![c] = worker[w].item]
      /\ taken' = taken /\ overlapped' = overlapped /\ failed' = failed /\ UNCHANGED deskRest
  BY DEF Update
<1>3. [worker[w] EXCEPT !.pc = "list"].pc = "list" /\ IdleWorker.pc = "idle"
      /\ [worker[w] EXCEPT !.pc = "list"] \in Jobs /\ IdleWorker \in Jobs
  BY <1>1 DEF Jobs, IdleWorker
<1>4. job.pc \in {"list", "idle"} /\ job \in Jobs
  BY <1>3
<1>5. worker' \in [Workers -> Jobs] /\ worker'[w] = job
      /\ \A v \in Workers \ {w} : worker'[v] = worker[v]
  <2> HIDE DEF job
  <2>1. QED
    BY <1>1, <1>2, <1>4
<1>6. QED
  BY <1>1, <1>2, <1>4, <1>5 DEF ConfigsOrNone

LEMMA UpdateInvByUpdate ==
  ASSUME UpdateInv, NEW w \in Workers, Update(w)
  PROVE  (ConfigsTaken /\ Overlaps /\ ReadIsCurrent)'
<1>1. DeskInv
  BY DEF UpdateInv
<1>2. \A v \in Workers : \A c \in Configs :
        Writing(v, c)' => v # w /\ Writing(v, c) /\ worker'[v] = worker[v]
  BY <1>1, UpdateEffect DEF Writing
<1>3. \A c \in Configs : configs'[c] # NoRow => configs[c] # NoRow
  BY <1>1, UpdateEffect
<1>4. ConfigsTaken' /\ Overlaps'
  BY <1>1, <1>2, <1>3, UpdateEffect DEF UpdateInv, ConfigsTaken, Overlaps
<1>5. ASSUME NEW v \in Workers, NEW c \in Configs \ overlapped', Writing(v, c)', configs'[c] # NoRow
      PROVE  /\ worker'[v].item = MapStrategyConfig(worker'[v].given, configs'[c])
             /\ worker'[v].was = configs'[c].enabled
  <2>1. c \notin overlapped /\ v # w /\ Writing(v, c) /\ worker'[v] = worker[v]
    BY <1>1, <1>2, <1>5, UpdateEffect
  <2>2. c # worker[w].cfg
    BY <1>1, <2>1, UpdateEffect DEF UpdateInv, Overlaps, Writing
  <2>3. configs'[c] = configs[c]
    BY <1>1, <2>2, UpdateEffect
  <2>4. QED
    BY <1>5, <2>1, <2>3 DEF UpdateInv, ReadIsCurrent
<1>6. ReadIsCurrent'
  BY <1>5 DEF ReadIsCurrent, MapStrategyConfig
<1>7. QED
  BY <1>4, <1>6

LEMMA UpdateInvByConfigs ==
  ASSUME UpdateInv,
         \/ \E c \in Configs, s \in Strategies, e \in BOOLEAN : CreateStrategyConfig(c, s, e)
         \/ \E c \in Configs : DeleteStrategyConfig(c)
  PROVE  (ConfigsTaken /\ Overlaps /\ ReadIsCurrent)'
<1>1. PICK c \in Configs :
        /\ \/ c \notin taken /\ taken' = taken \cup {c}
           \/ taken' = taken /\ configs'[c] = NoRow
        /\ \A d \in Configs \ {c} : configs'[d] = configs[d]
        /\ worker' = worker /\ overlapped' = overlapped
  BY DEF CreateStrategyConfig, DeleteStrategyConfig, UpdateInv, DeskInv, DeskTypeOK
<1>2. \A w \in Workers : \A d \in Configs :
        (Writing(w, d)' <=> Writing(w, d)) /\ worker'[w] = worker[w]
  BY <1>1 DEF Writing
<1>3. ConfigsTaken' /\ Overlaps'
  BY <1>1, <1>2 DEF UpdateInv, ConfigsTaken, Overlaps
<1>4. ASSUME NEW w \in Workers, NEW d \in Configs \ overlapped', Writing(w, d)', configs'[d] # NoRow
      PROVE  /\ worker'[w].item = MapStrategyConfig(worker'[w].given, configs'[d])
             /\ worker'[w].was = configs'[d].enabled
  <2>1. Writing(w, d) /\ d \in taken
    BY <1>2, <1>4 DEF UpdateInv, ConfigsTaken
  <2>2. d # c
    BY <1>1, <1>4, <2>1
  <2>3. QED
    BY <1>1, <1>2, <1>4, <2>1, <2>2 DEF UpdateInv, ReadIsCurrent
<1>5. ReadIsCurrent'
  BY <1>4 DEF ReadIsCurrent, MapStrategyConfig
<1>6. QED
  BY <1>3, <1>5

LEMMA UpdateInvByRead ==
  ASSUME UpdateInv, NEW w \in Workers, NEW c \in Configs, NEW given \in Bodies,
         UpdateStrategyConfig(w, c, given)
  PROVE  (ConfigsTaken /\ Overlaps /\ ReadIsCurrent)'
<1> DEFINE job == [pc |-> "write", cfg |-> c, given |-> given,
                   was |-> WasEnabled(given, configs[c]),
                   item |-> MapStrategyConfig(given, configs[c]), todo |-> {}]
<1>1. worker' = [worker EXCEPT ![w] = job]
  BY DEF UpdateStrategyConfig
<1>2. worker[w].pc = "idle" /\ configs[c] # NoRow /\ configs' = configs /\ taken' = taken
      /\ overlapped' = IF \E v \in Workers : Writing(v, c) THEN overlapped \cup {c} ELSE overlapped
  BY DEF UpdateStrategyConfig, Writing
<1>3. /\ job.pc = "write" /\ job.cfg = c /\ job.given = given /\ job.was = configs[c].enabled
      /\ job.item = MapStrategyConfig(given, configs[c])
  BY DEF WasEnabled
<1> HIDE DEF job
<1>4. worker'[w] = job /\ \A v \in Workers \ {w} : worker'[v] = worker[v]
  BY <1>1 DEF UpdateInv, DeskInv, DeskTypeOK
<1>5. \A v \in Workers : \A d \in Configs : Writing(v, d)' <=> Writing(v, d) \/ (v = w /\ d = c)
  BY <1>2, <1>3, <1>4 DEF Writing
<1>6. ConfigsTaken' /\ Overlaps'
  BY <1>2, <1>5 DEF UpdateInv, ConfigsTaken, Overlaps
<1>7. ASSUME NEW v \in Workers, NEW d \in Configs \ overlapped', Writing(v, d)', configs'[d] # NoRow
      PROVE  /\ worker'[v].item = MapStrategyConfig(worker'[v].given, configs'[d])
             /\ worker'[v].was = configs'[d].enabled
  <2>1. CASE v = w
    <3>1. d = c
      BY <1>3, <1>4, <1>7, <2>1 DEF Writing
    <3>2. QED
      BY <1>2, <1>3, <1>4, <2>1, <3>1
  <2>2. CASE v # w
    BY <1>2, <1>4, <1>5, <1>7, <2>2 DEF UpdateInv, ReadIsCurrent
  <2>3. QED
    BY <2>1, <2>2
<1>8. ReadIsCurrent'
  BY <1>7 DEF ReadIsCurrent, MapStrategyConfig
<1>9. QED
  BY <1>6, <1>8

LEMMA UpdateInvStep ==
  ASSUME UpdateInv, [DeskNext]_deskVars
  PROVE  UpdateInv'
<1>1. DeskInv /\ DeskInv'
  BY DeskInvStep DEF UpdateInv
<1>2. (ConfigsTaken /\ Overlaps /\ ReadIsCurrent)'
  <2>1. CASE \/ \E c \in Configs, s \in Strategies, e \in BOOLEAN : CreateStrategyConfig(c, s, e)
             \/ \E c \in Configs : DeleteStrategyConfig(c)
    BY <2>1, UpdateInvByConfigs
  <2>2. CASE \/ \E w \in Workers, c \in Configs, given \in Bodies : UpdateStrategyConfig(w, c, given)
             \/ \E w \in Workers : Update(w)
    BY <2>2, UpdateInvByRead, UpdateInvByUpdate
  <2>3. CASE WritersRest
    BY <2>3, WritersKept
  <2>4. QED
    BY <1>1, <2>1, <2>2, <2>3, DeskForms, OthersRest, WorkRests, ManualEnters, StrategyEntersIs
<1>3. QED
  BY <1>1, <1>2 DEF UpdateInv

LEMMA UpdateInvAlways == DeskSpec => []UpdateInv
<1>1. UpdateInv /\ [DeskNext]_deskVars => UpdateInv'
  BY UpdateInvStep
<1>2. QED
  BY <1>1, UpdateInvInit, PTL DEF DeskSpec

\* A field that differs after the write is one that the body gave.
LEMMA MapAsked ==
  ASSUME NEW given \in Bodies, NEW row \in ConfigRows, NEW f \in {"enabled", "strategy"},
         MapStrategyConfig(given, row)[f] # row[f]
  PROVE  given[f] # Keep
  BY DEF MapStrategyConfig, ConfigRows

\* An update of a config that no other update works on at the same time changes
\* nothing that its body does not name (UpdateStrategyConfig and mapStrategyConfig
\* of data.service.go read the row, merge the body into it and save every column).
THEOREM OnlyAskedIsChanged == DeskSpec => OnlyAskedChanges
<1> DEFINE A == \A c \in Configs \ overlapped : configs[c] # NoRow /\ configs'[c] # NoRow =>
                  \A f \in {"enabled", "strategy"} : configs'[c][f] # configs[c][f] => Asked(c, f)
<1>1. UpdateInv /\ [DeskNext]_deskVars => A
  <2> SUFFICES ASSUME UpdateInv, [DeskNext]_deskVars,
                      NEW c \in Configs \ overlapped, configs[c] # NoRow, configs'[c] # NoRow,
                      NEW f \in {"enabled", "strategy"}, configs'[c][f] # configs[c][f]
               PROVE  Asked(c, f)
    OBVIOUS
  <2>1. DeskInv /\ configs'[c] # configs[c]
    BY DEF UpdateInv
  <2>2. PICK w \in Workers : Update(w)
    <3>1. ASSUME NEW d \in Configs, NEW s \in Strategies, NEW e \in BOOLEAN, CreateStrategyConfig(d, s, e)
          PROVE  configs'[c] = configs[c]
      BY <3>1 DEF CreateStrategyConfig, UpdateInv, ConfigsTaken, DeskInv, DeskTypeOK
    <3>2. ASSUME NEW d \in Configs, DeleteStrategyConfig(d)
          PROVE  configs'[c] = configs[c] \/ configs'[c] = NoRow
      BY <3>2 DEF DeleteStrategyConfig, DeskInv, DeskTypeOK
    <3>3. ~WritersRest
      BY <2>1 DEF WritersRest
    <3>4. ASSUME NEW w \in Workers, NEW d \in Configs, NEW given \in Bodies,
                 UpdateStrategyConfig(w, d, given)
          PROVE  FALSE
      BY <2>1, <3>4 DEF UpdateStrategyConfig
    <3>5. QED
      BY <2>1, <3>1, <3>2, <3>3, <3>4, DeskForms, OthersRest, WorkRests, ManualEnters, StrategyEntersIs
  <2>3. c = worker[w].cfg /\ configs'[c] = worker[w].item /\ worker[w].pc = "write"
        /\ worker'[w].pc # "write"
    BY <2>1, <2>2, UpdateEffect
  <2>4. worker[w].given \in Bodies /\ configs[c] \in ConfigRows
    BY <2>1, <2>3 DEF DeskInv, JobsOK, DeskTypeOK
  <2>5. worker[w].item = MapStrategyConfig(worker[w].given, configs[c])
    BY <2>3 DEF UpdateInv, ReadIsCurrent, Writing
  <2>6. worker[w].given[f] # Keep
    BY <2>3, <2>4, <2>5, MapAsked
  <2>7. QED
    BY <2>3, <2>6 DEF Asked
<1>2. QED
  BY <1>1, UpdateInvAlways, PTL DEF OnlyAskedChanges, DeskSpec

-----------------------------------------------------------------------------
\* What a step may do to the goroutines' lists, to the queue and to the tables.

TodoRests ==
  \A v \in Workers : /\ worker'[v].todo \subseteq worker[v].todo
                     /\ worker'[v].todo # {} => worker'[v].cfg = worker[v].cfg
Signalled(o) ==
  /\ o.reason = "signal" /\ Running(o.entry)
  /\ \E target \in OrderRows :
       o = SignalForm(rows[o.entry].order, CloseOrderSide(rows[o.entry].order.side),
                      target.pos, target.qty, target.paper)
\* A close that is ordered, and where it comes from.
Ordered(req, o) ==
  /\ Close(req, o) /\ req \in RequestIds /\ o \in Orders /\ o.cond = "EXIT"
  /\ o.reason = "manual_close" => req = ManualClose(o.entry)
  /\ Signalled(o) \/ \E w \in Workers : o \in worker[w].todo /\ o.reason = Why(w)
  /\ UNCHANGED exchangeVars
QueueRests == queue' \subseteq queue /\ UNCHANGED <<closers, contended>>
TablesRest == UNCHANGED <<rows, book>>

LEMMA TodoSteps ==
  ASSUME DeskInv, [DeskNext]_deskVars
  PROVE  \/ \E w \in Workers, i \in Ids : CloseOrder(w, i)
         \/ \E w \in Workers : CloseOpenTrades(w)
         \/ TodoRests
<1>1. worker \in [Workers -> Jobs]
  BY DEF DeskInv, DeskTypeOK, Jobs
<1>2. IdleWorker.todo = {}
  BY DEF IdleWorker
<1>3. ASSUME NEW w \in Workers, NEW c \in Configs, NEW given \in Bodies,
             UpdateStrategyConfig(w, c, given)
      PROVE  TodoRests
  <2> DEFINE job == [pc |-> "write", cfg |-> c, given |-> given,
                     was |-> WasEnabled(given, configs[c]),
                     item |-> MapStrategyConfig(given, configs[c]), todo |-> {}]
  <2>1. worker' = [worker EXCEPT ![w] = job] /\ job.todo = {}
    BY <1>3 DEF UpdateStrategyConfig
  <2> HIDE DEF job
  <2>2. QED
    BY <1>1, <2>1 DEF TodoRests
<1>4. ASSUME NEW w \in Workers, Update(w)
      PROVE  TodoRests
  <2>1. [worker[w] EXCEPT !.pc = "list"].todo = worker[w].todo
        /\ [worker[w] EXCEPT !.pc = "list"].cfg = worker[w].cfg
    BY <1>1 DEF Jobs
  <2>2. /\ worker'[w] = IF worker[w].was /\ ~worker[w].item.enabled
                        THEN [worker[w] EXCEPT !.pc = "list"] ELSE IdleWorker
        /\ \A v \in Workers \ {w} : worker'[v] = worker[v]
    BY <1>4, UpdateEffect
  <2>3. worker'[w].todo \subseteq worker[w].todo
        /\ (worker'[w].todo # {} => worker'[w].cfg = worker[w].cfg)
    BY <1>2, <2>1, <2>2
  <2>4. QED
    BY <2>2, <2>3 DEF TodoRests
<1>5. ASSUME NEW w \in Workers, PublishDisableClose(w)
      PROVE  TodoRests
  <2>1. PICK o \in worker[w].todo :
          worker' = [worker EXCEPT ![w] = IF worker[w].todo = {o} THEN IdleWorker
                                          ELSE [@ EXCEPT !.todo = worker[w].todo \ {o}]]
    BY <1>5 DEF PublishDisableClose
  <2> DEFINE job == IF worker[w].todo = {o} THEN IdleWorker
                    ELSE [worker[w] EXCEPT !.todo = worker[w].todo \ {o}]
  <2>2. worker' = [worker EXCEPT ![w] = job]
    BY <2>1, Zenon
  <2>3. [worker[w] EXCEPT !.todo = worker[w].todo \ {o}].todo = worker[w].todo \ {o}
        /\ [worker[w] EXCEPT !.todo = worker[w].todo \ {o}].cfg = worker[w].cfg
    BY <1>1 DEF Jobs
  <2>4. job.todo \subseteq worker[w].todo /\ (job.todo # {} => job.cfg = worker[w].cfg)
    BY <1>2, <2>3
  <2> HIDE DEF job
  <2>5. QED
    BY <1>1, <2>2, <2>4 DEF TodoRests
<1>6. ASSUME NEW w \in Workers, PublishManualClose(w) \/ FailWorker(w)
      PROVE  TodoRests
  <2>1. worker' = [worker EXCEPT ![w] = IdleWorker]
    BY <1>6 DEF PublishManualClose, FailWorker
  <2>2. QED
    BY <1>1, <1>2, <2>1 DEF TodoRests
<1>7. CASE worker' = worker
  BY <1>7 DEF TodoRests
<1>8. QED
  BY <1>3, <1>4, <1>5, <1>6, <1>7, DeskForms, ManualEnters, StrategyEntersIs
     DEF Enters, CreateStrategyConfig, DeleteStrategyConfig, Reconcile, StrategyExits, PlaceOrder,
         Refuse, Match, Sync, deskVars

LEMMA ClosesOrdered ==
  ASSUME DeskInv, EntriesNamed,
         \/ \E w \in Workers : PublishManualClose(w) \/ PublishDisableClose(w)
         \/ \E i \in Ids, target \in OrderConfigs[venue] : StrategyExits(i, target)
  PROVE  \E req, o : Ordered(req, o)
<1>1. ASSUME NEW w \in Workers, PublishManualClose(w)
      PROVE  \E req, o : Ordered(req, o)
  <2>1. PICK o \in worker[w].todo : Close(ManualClose(o.entry), o)
    BY <1>1 DEF PublishManualClose
  <2>2. o \in Orders /\ o.entry \in Ids /\ o.cond = "EXIT" /\ o.reason = Why(w)
    BY DEF DeskInv, DeskTypeOK, Orders, EntriesNamed
  <2>3. ManualClose(o.entry) \in RequestIds /\ UNCHANGED exchangeVars
    BY <1>1, <2>2, IdFacts DEF PublishManualClose
  <2>4. Ordered(ManualClose(o.entry), o)
    BY <2>1, <2>2, <2>3 DEF Ordered
  <2>5. QED
    BY <2>4
<1>2. ASSUME NEW w \in Workers, PublishDisableClose(w)
      PROVE  \E req, o : Ordered(req, o)
  <2>1. PICK o \in worker[w].todo : Close(NewId, o)
    BY <1>2 DEF PublishDisableClose
  <2>2. o \in Orders /\ o.cond = "EXIT" /\ o.reason = Why(w) /\ o.reason # "manual_close"
    BY <1>2 DEF DeskInv, DeskTypeOK, EntriesNamed, Why, PublishDisableClose
  <2>3. NewId \in RequestIds /\ UNCHANGED exchangeVars
    BY <1>2, IdFacts DEF PublishDisableClose
  <2>4. Ordered(NewId, o)
    BY <2>1, <2>2, <2>3 DEF Ordered
  <2>5. QED
    BY <2>4
<1>3. ASSUME NEW i \in Ids, NEW target \in OrderConfigs[venue], StrategyExits(i, target)
      PROVE  \E req, o : Ordered(req, o)
  <2> DEFINE e == rows[i].order
             o == SignalForm(e, CloseOrderSide(e.side), target.pos, target.qty, target.paper)
  <2>1. Running(i) /\ NewId \in RequestIds /\ UNCHANGED exchangeVars /\ target \in OrderRows
    BY <1>3, IdFacts, TargetFacts DEF StrategyExits, DeskInv
  <2>2. e \in Orders /\ e.entry = i
    BY <2>1, RunningFacts DEF Rows, EntriesNamed, Running, Entry
  <2>3. CloseOrderSide(e.side) \in Sides
    BY SideFacts
  <2>4. o \in Orders /\ o.cond = "EXIT" /\ o.entry = i /\ o.reason = "signal"
    <3> HIDE DEF e
    <3>1. target.pos \in PositionSides /\ target.qty \in 1..Quantity /\ target.paper \in BOOLEAN
      BY <2>1 DEF OrderRows
    <3>2. QED
      BY <2>2, <2>3, <3>1, ExitFields
  <2>5. Close(NewId, o)
    BY <1>3 DEF StrategyExits, SignalForm
  <2> HIDE DEF o
  <2>6. Signalled(o)
    BY <2>1, <2>4 DEF Signalled, o
  <2>7. Ordered(NewId, o)
    BY <2>1, <2>4, <2>5, <2>6 DEF Ordered
  <2>8. QED
    BY <2>7
<1>4. QED
  BY <1>1, <1>2, <1>3

LEMMA QueueSteps ==
  ASSUME DeskInv, EntriesNamed, [DeskNext]_deskVars
  PROVE  Enters \/ (\E req, o : Ordered(req, o)) \/ QueueRests
         \/ (\E w \in Workers, i \in Ids : CloseOrder(w, i))
         \/ (\E w \in Workers : CloseOpenTrades(w))
<1>1. ASSUME \/ \E c \in Configs, s \in Strategies, e \in BOOLEAN : CreateStrategyConfig(c, s, e)
             \/ \E c \in Configs : DeleteStrategyConfig(c)
             \/ \E w \in Workers, c \in Configs, given \in Bodies : UpdateStrategyConfig(w, c, given)
             \/ \E w \in Workers : Update(w)
             \/ \E w \in Workers : FailWorker(w)
             \/ Reconcile
             \/ \E m \in queue : PlaceOrder(m)
             \/ \E m \in queue : Refuse(m)
             \/ \E r \in RequestIds : Match(r)
             \/ \E r \in RequestIds : Sync(r)
             \/ UNCHANGED deskVars
      PROVE  QueueRests
  <2>1. ASSUME NEW m \in queue, PlaceOrder(m)
        PROVE  QueueRests
    BY <2>1, Deliveries DEF QueueRests
  <2>2. QED
    BY <1>1, <2>1
       DEF CreateStrategyConfig, DeleteStrategyConfig, UpdateStrategyConfig, Update, FailWorker,
           Reconcile, Refuse, Match, Sync, deskVars, deskRest, QueueRests
<1>2. QED
  BY <1>1, DeskForms, ManualEnters, StrategyEntersIs, ClosesOrdered

LEMMA TableSteps ==
  ASSUME DeskInv, [DeskNext]_deskVars
  PROVE  /\ venue' = venue
         /\ \/ \E m \in queue : PlaceOrder(m)
            \/ \E r \in RequestIds : Match(r)
            \/ \E r \in RequestIds : Sync(r)
            \/ TablesRest
<1>1. CASE Enters
  BY <1>1 DEF Enters, exchangeVars, TablesRest
<1>2. QED
  BY <1>1, DeskForms, ManualEnters, StrategyEntersIs
     DEF CloseOrder, CreateStrategyConfig, DeleteStrategyConfig, UpdateStrategyConfig, Update,
         CloseOpenTrades, PublishDisableClose, PublishManualClose, FailWorker, Reconcile, StrategyExits,
         PlaceOrder, Refuse, Match, Sync, deskVars, deskRest, exchangeVars, TablesRest

\* What a step may do to a row and to the order behind it.
RowSame(r) == rows'[r] = rows[r] /\ book'[r] = book[r]
RowSimulated(r) ==
  \E m \in queue :
    LET n == Normalize(m.order) IN
    /\ m.req = r /\ rows[r] = NoRow /\ n.paper /\ book'[r] = book[r]
    /\ rows'[r] = [order |-> n, fill |-> [filled |-> n.qty, status |-> "FILLED"]]
RowAccepted(r) ==
  \E m \in queue :
    LET n == Normalize(m.order) IN
    /\ m.req = r /\ rows[r] = NoRow /\ ~n.paper
    /\ \E f \in Opened(n.qty) :
         /\ book'[r] = [order |-> n, fill |-> f, at |-> Submitted(n)]
         /\ rows'[r] = [order |-> [n EXCEPT !.pos = Submitted(n)], fill |-> f]
RowMatched(r) ==
  /\ rows'[r] = rows[r] /\ book[r] \in Books /\ book'[r] \in Books
  /\ book[r].fill.status \in {"NEW", "PARTIAL"}
  /\ book'[r].order = book[r].order /\ book'[r].at = book[r].at
  /\ book'[r].fill \in Later(book[r].fill, book[r].order.qty)
RowSynced(r) ==
  /\ book'[r] = book[r] /\ book[r] \in Books /\ rows[r] \in Rows /\ rows'[r] \in Rows
  /\ rows[r].fill # book[r].fill
  /\ rows'[r].order = rows[r].order /\ rows'[r].fill = book[r].fill

LEMMA RowSteps ==
  ASSUME DeskInv, [DeskNext]_deskVars
  PROVE  \A r \in RequestIds :
           RowSame(r) \/ RowSimulated(r) \/ RowAccepted(r) \/ RowMatched(r) \/ RowSynced(r)
<1>1. /\ rows \in [RequestIds -> {NoRow} \cup Rows]
      /\ book \in [RequestIds -> {NoRow} \cup Books]
  BY DEF DeskInv, DeskTypeOK, Rows, Books
<1>2. ASSUME NEW m \in queue, PlaceOrder(m), NEW r \in RequestIds
      PROVE  RowSame(r) \/ RowSimulated(r) \/ RowAccepted(r)
  <2>1. CASE Duplicate(m)
    BY <2>1 DEF Duplicate, RowSame
  <2>2. CASE Simulated(m, Normalize(m.order))
    BY <1>1, <2>2 DEF Simulated, RowSame, RowSimulated
  <2>3. ASSUME NEW f \in Opened(Normalize(m.order).qty), Accepted(m, Normalize(m.order), f)
        PROVE  RowSame(r) \/ RowAccepted(r)
    BY <1>1, <2>3 DEF Accepted, RowSame, RowAccepted
  <2>4. QED
    BY <1>2, <2>1, <2>2, <2>3, Deliveries
<1>3. ASSUME NEW q \in RequestIds, Match(q), NEW r \in RequestIds
      PROVE  RowSame(r) \/ RowMatched(r)
  BY <1>1, <1>3, MatchForm DEF RowSame, RowMatched
<1>4. ASSUME NEW q \in RequestIds, Sync(q), NEW r \in RequestIds
      PROVE  RowSame(r) \/ RowSynced(r)
  <2>1. rows[q].fill # book[q].fill
    BY <1>4 DEF Sync
  <2>2. QED
    BY <1>1, <1>4, <2>1, SyncForm DEF RowSame, RowSynced
<1>5. CASE TablesRest
  BY <1>5 DEF TablesRest, RowSame
<1>6. QED
  BY <1>2, <1>3, <1>4, <1>5, TableSteps

\* A row keeps its order.
LEMMA OrdersStay ==
  ASSUME DeskInv, [DeskNext]_deskVars
  PROVE  \A r \in RequestIds : rows[r] # NoRow =>
           rows'[r] # NoRow /\ rows'[r].order = rows[r].order
  BY RowSteps, NoRowFacts DEF RowSame, RowSimulated, RowAccepted, RowMatched, RowSynced

\* A new row has the order of a message.
LEMMA NewRows ==
  ASSUME DeskInv, [DeskNext]_deskVars, NEW r \in RequestIds, rows[r] = NoRow, rows'[r] # NoRow
  PROVE  \E m \in queue :
           LET n == Normalize(m.order) IN
           /\ m.req = r /\ n \in Orders /\ m.order \in Orders
           /\ rows'[r].order.cond = m.order.cond /\ rows'[r].order.entry = m.order.entry
           /\ rows'[r].order.paper = m.order.paper
           /\ IF m.order.paper THEN rows'[r].order = n /\ book'[r] = book[r]
              ELSE book'[r] # NoRow /\ book'[r].order = n
<1>1. RowSimulated(r) \/ RowAccepted(r)
  <2>1. ~RowSame(r) /\ ~RowMatched(r)
    BY DEF RowSame, RowMatched
  <2>2. ~RowSynced(r)
    BY NoRowFacts DEF RowSynced
  <2>3. QED
    BY <2>1, <2>2, RowSteps
<1>2. \A m \in queue : m.order \in Orders /\ Sided(m.order.side)
  BY DEF DeskInv, DeskTypeOK, OrdersSided
<1>3. CASE RowSimulated(r)
  <2>1. PICK m \in queue :
          LET n == Normalize(m.order) IN
          /\ m.req = r /\ n.paper /\ book'[r] = book[r]
          /\ rows'[r] = [order |-> n, fill |-> [filled |-> n.qty, status |-> "FILLED"]]
    BY <1>3 DEF RowSimulated
  <2> DEFINE n == Normalize(m.order)
  <2>2. n \in Orders /\ n.cond = m.order.cond /\ n.entry = m.order.entry /\ n.paper = m.order.paper
    BY <1>2, NormalizeFacts
  <2>3. rows'[r].order = n /\ book'[r] = book[r] /\ m.req = r /\ n.paper
    BY <2>1
  <2> HIDE DEF n
  <2>4. QED
    BY <1>2, <2>2, <2>3 DEF n
<1>4. CASE RowAccepted(r)
  <2>0. PICK m \in queue :
          LET n == Normalize(m.order) IN
          /\ m.req = r /\ ~n.paper
          /\ \E f \in Opened(n.qty) :
               /\ book'[r] = [order |-> n, fill |-> f, at |-> Submitted(n)]
               /\ rows'[r] = [order |-> [n EXCEPT !.pos = Submitted(n)], fill |-> f]
    BY <1>4 DEF RowAccepted
  <2> DEFINE n == Normalize(m.order)
  <2>1. PICK f \in Opened(n.qty) :
          /\ book'[r] = [order |-> n, fill |-> f, at |-> Submitted(n)]
          /\ rows'[r] = [order |-> [n EXCEPT !.pos = Submitted(n)], fill |-> f]
    BY <2>0
  <2>2. n \in Orders /\ n.cond = m.order.cond /\ n.entry = m.order.entry /\ n.paper = m.order.paper
    BY <1>2, NormalizeFacts
  <2>3. book'[r] \in Books
    <3>1. n.qty \in 1..Quantity
      BY <2>2 DEF Orders
    <3>2. f \in Fills /\ Submitted(n) \in PositionSides
      BY <2>2, <3>1, FillFacts, SubmittedType
    <3>3. QED
      BY <2>1, <2>2, <3>2 DEF Books
  <2> HIDE DEF n
  <2>4. LET p == [n EXCEPT !.pos = Submitted(n)] IN
        p.cond = n.cond /\ p.entry = n.entry /\ p.paper = n.paper
    BY <2>2, SubmittedType, PlacedFields
  <2>5. book'[r] # NoRow
    BY <2>3, NoRowFacts
  <2>6. rows'[r].order = [n EXCEPT !.pos = Submitted(n)] /\ book'[r].order = n /\ m.req = r /\ ~n.paper
    BY <2>0, <2>1 DEF n
  <2>7. /\ rows'[r].order.cond = m.order.cond /\ rows'[r].order.entry = m.order.entry
        /\ rows'[r].order.paper = m.order.paper
    BY <2>2, <2>4, <2>6
  <2>8. QED
    BY <1>2, <2>2, <2>5, <2>6, <2>7 DEF n
<1>5. QED
  BY <1>1, <1>3, <1>4

LEMMA NamedInit ==
  ASSUME DeskInit
  PROVE  EntriesNamed /\ RowsBacked
<1>1. \A w \in Workers : worker[w].todo = {}
  BY DEF DeskInit, IdleWorker
<1>2. queue = {} /\ \A r \in RequestIds : rows[r] = NoRow
  BY DEF DeskInit
<1>3. QED
  BY <1>1, <1>2 DEF EntriesNamed, RowsBacked

\* What a goroutine takes up to publish.
LEMMA TodoTaken ==
  ASSUME DeskInv, EntriesNamed, [DeskNext]_deskVars, NEW w \in Workers, NEW o \in worker'[w].todo
  PROVE  \/ o \in worker[w].todo /\ worker'[w].cfg = worker[w].cfg
         \/ \E i \in Ids : /\ Running(i) /\ o = CloseOrderOf(i, Why(w)')
                           /\ i \in contended' \/ Known(i)
                           /\ o.cond = "EXIT" /\ o.entry = i /\ o.reason = Why(w)'
<1>1. worker \in [Workers -> Jobs]
  BY DEF DeskInv, DeskTypeOK, Jobs
<1>2. \A i \in Ids : Running(i) => /\ i \in RequestIds /\ rows[i] \in Rows
                                   /\ rows[i].order.entry = i
  BY RunningFacts DEF EntriesNamed, Running, Entry
<1>3. ASSUME NEW v \in Workers, NEW i \in Ids, CloseOrder(v, i), w = v
      PROVE  /\ Running(i) /\ o = CloseOrderOf(i, Why(w)')
             /\ i \in contended' \/ Known(i)
             /\ o.cond = "EXIT" /\ o.entry = i /\ o.reason = Why(w)'
  <2> DEFINE c == CloseOrderOf(i, "manual_close")
             job == [IdleWorker EXCEPT !.pc = "publish", !.todo = {c}]
  <2>1. worker' = [worker EXCEPT ![v] = job] /\ Running(i) /\ contended' = contended \cup Uncertain({i})
    BY <1>3 DEF CloseOrder, FindRunning
  <2> HIDE DEF c
  <2>2. job.todo = {c} /\ job.cfg = NoRow
    BY DEF IdleWorker
  <2> HIDE DEF job
  <2>3. o = c /\ Why(w)' = "manual_close"
    BY <1>1, <1>3, <2>1, <2>2 DEF Why
  <2>4. o = CloseOrderOf(i, "manual_close")
    BY <2>3 DEF c
  <2>5. o.cond = "EXIT" /\ o.entry = i /\ o.reason = "manual_close"
    BY <1>2, <2>1, <2>4, CloseOrderFacts DEF Reasons
  <2>6. i \in contended' \/ Known(i)
    BY <2>1 DEF Uncertain
  <2>7. QED
    BY <2>1, <2>3, <2>4, <2>5, <2>6
<1>4. ASSUME NEW v \in Workers, CloseOpenTrades(v), w = v
      PROVE  \E i \in Ids : /\ Running(i) /\ o = CloseOrderOf(i, Why(w)')
                            /\ i \in contended' \/ Known(i)
                            /\ o.cond = "EXIT" /\ o.entry = i /\ o.reason = Why(w)'
  <2> DEFINE open == ListOpenEntries(worker[v].item.strategy)
             todo == {CloseOrderOf(i, "strategy_disabled") : i \in open}
             busy == [worker[v] EXCEPT !.pc = "publish", !.todo = todo]
             job == IF open = {} THEN IdleWorker ELSE busy
  <2>1. worker' = [worker EXCEPT ![v] = job] /\ contended' = contended \cup Uncertain(open)
        /\ worker[v].pc = "list"
    BY <1>4 DEF CloseOpenTrades
  <2> HIDE DEF open
  <2>2. /\ \E i \in open : o = CloseOrderOf(i, "strategy_disabled")
        /\ worker'[w].cfg = worker[v].cfg
    <3> HIDE DEF todo
    <3>1. busy.todo = todo /\ busy.cfg = worker[v].cfg
      BY <1>1 DEF Jobs
    <3>2. IdleWorker.todo = {}
      BY DEF IdleWorker
    <3> HIDE DEF busy
    <3>3. job.todo \subseteq todo /\ (job.todo # {} => job.cfg = worker[v].cfg)
      BY <3>1, <3>2
    <3> HIDE DEF job
    <3>4. o \in todo /\ worker'[w].cfg = worker[v].cfg
      BY <1>1, <1>4, <2>1, <3>3
    <3>5. QED
      BY <3>4 DEF todo
  <2>3. worker[v].cfg \in Configs
    BY <2>1 DEF DeskInv, JobsOK
  <2>4. Why(w)' = "strategy_disabled"
    BY <2>2, <2>3, NoRowFacts DEF Why
  <2>5. PICK i \in open : o = CloseOrderOf(i, "strategy_disabled")
    BY <2>2
  <2>6. i \in Ids /\ Running(i)
    BY DEF open, ListOpenEntries
  <2>7. o.cond = "EXIT" /\ o.entry = i /\ o.reason = "strategy_disabled"
    BY <1>2, <2>5, <2>6, CloseOrderFacts DEF Reasons
  <2>8. i \in contended' \/ Known(i)
    BY <2>1 DEF Uncertain
  <2>9. QED
    BY <2>4, <2>5, <2>6, <2>7, <2>8
<1>5. CASE TodoRests
  BY <1>5 DEF TodoRests
<1>6. ASSUME NEW v \in Workers, (\E i \in Ids : CloseOrder(v, i)) \/ CloseOpenTrades(v), w # v
      PROVE  worker'[w] = worker[w]
  <2>1. PICK job : worker' = [worker EXCEPT ![v] = job]
    BY <1>6 DEF CloseOrder, CloseOpenTrades
  <2>2. QED
    BY <1>1, <1>6, <2>1
<1>7. QED
  BY <1>3, <1>4, <1>5, <1>6, TodoSteps

\* The venue stays, and so do its rules.
LEMMA VenueRules ==
  ASSUME venue' = venue
  PROVE  /\ \A o : Submitted(o)' = Submitted(o) /\ Normalize(o)' = Normalize(o)
         /\ \A o : Normal(o)' <=> Normal(o)
  BY DEF Submitted, FuturesPositionSide, AlternateFuturesPositionSide, Mismatch, Normalize,
         NormalizeOrderSideByMarket, PositionSide, Normal

LEMMA NormalizedIsNormal ==
  ASSUME NEW o \in Orders, Sided(o.side)
  PROVE  Normal(Normalize(o))
<1> DEFINE side == NormalizeOrderSideByMarket(o.side)
           pos == PositionSide(side, o.pos)
<1>1. Normalize(o).side = side /\ Normalize(o).pos = pos
  BY NormalizeFacts
<1>2. NormalizeOrderSideByMarket(side) = side
  BY SideFacts
<1>3. PositionSide(side, pos) = pos
  BY DEF PositionSide
<1>4. QED
  BY <1>1, <1>2, <1>3 DEF Normal

LEMMA RowsBackedStep ==
  ASSUME DeskInv, RowsBacked, [DeskNext]_deskVars
  PROVE  RowsBacked'
<1> SUFFICES ASSUME NEW r \in RequestIds, rows'[r] # NoRow
             PROVE  Backed(r)'
  BY DEF RowsBacked
<1>1. venue' = venue
  BY TableSteps
<1>2. \A o : Submitted(o)' = Submitted(o) /\ (Normal(o)' <=> Normal(o))
  BY <1>1, VenueRules
<1>3. rows[r] # NoRow => Backed(r)
  BY DEF RowsBacked
<1>4. \A m \in queue : m.order \in Orders /\ Sided(m.order.side)
  BY DEF DeskInv, DeskTypeOK, OrdersSided
<1>5. CASE RowSame(r)
  BY <1>2, <1>3, <1>5 DEF RowSame, Backed
<1>6. CASE RowSimulated(r)
  BY <1>6 DEF RowSimulated, Backed, DeskInv, Recorded
<1>7. CASE RowAccepted(r)
  <2>0. PICK m \in queue :
          LET n == Normalize(m.order) IN
          /\ m.req = r /\ ~n.paper
          /\ \E f \in Opened(n.qty) :
               /\ book'[r] = [order |-> n, fill |-> f, at |-> Submitted(n)]
               /\ rows'[r] = [order |-> [n EXCEPT !.pos = Submitted(n)], fill |-> f]
    BY <1>7 DEF RowAccepted
  <2> DEFINE n == Normalize(m.order)
  <2>1. PICK f \in Opened(n.qty) :
          /\ book'[r] = [order |-> n, fill |-> f, at |-> Submitted(n)]
          /\ rows'[r] = [order |-> [n EXCEPT !.pos = Submitted(n)], fill |-> f]
    BY <2>0
  <2>2. n \in Orders /\ Normal(n) /\ ~n.paper
    BY <1>4, <2>0, NormalizeFacts, NormalizedIsNormal
  <2>3. n.qty \in 1..Quantity
    BY <2>2 DEF Orders
  <2>4. /\ f \in Fills /\ Submitted(n) \in PositionSides
        /\ f.status = "FILLED" => f.filled = n.qty
    BY <2>2, <2>3, FillFacts, SubmittedType
  <2> HIDE DEF n
  <2>5. [order |-> n, fill |-> f, at |-> Submitted(n)] # NoRow
    BY <2>2, <2>4, NoRowFacts DEF Books
  <2>6. [n EXCEPT !.pos = Submitted(n)].paper = n.paper
    BY <2>2, <2>4, PlacedFields
  <2>7. /\ book'[r] # NoRow /\ book'[r].order = n /\ book'[r].fill = f /\ book'[r].at = Submitted(n)
        /\ rows'[r].order = [n EXCEPT !.pos = Submitted(n)] /\ rows'[r].fill = f
        /\ ~rows'[r].order.paper
    <3>1. book'[r] # NoRow /\ book'[r].order = n /\ book'[r].fill = f /\ book'[r].at = Submitted(n)
      BY <2>1, <2>5
    <3>2. rows'[r].order = [n EXCEPT !.pos = Submitted(n)] /\ rows'[r].fill = f
      BY <2>1
    <3>3. QED
      BY <2>2, <2>6, <3>1, <3>2
  <2>8. rows'[r].order = [book'[r].order EXCEPT !.pos = book'[r].at]
    BY <2>7
  <2>9. book'[r].at = Submitted(book[r].order)' /\ Normal(book[r].order)'
    BY <1>2, <2>2, <2>7
  <2>10. QED
    BY <2>4, <2>7, <2>8, <2>9 DEF Backed
<1>8. CASE RowMatched(r)
  <2>1. book[r] # NoRow /\ rows[r] # NoRow /\ book'[r] # NoRow
    BY <1>8, NoRowFacts DEF RowMatched, DeskInv, Recorded
  <2>2. Backed(r) /\ ~rows[r].order.paper
    BY <1>3, <2>1 DEF Backed
  <2>3. rows[r].fill.status # "FILLED"
    BY <1>8, <2>2 DEF Backed, RowMatched
  <2>4. book'[r].fill.status = "FILLED" => book'[r].fill.filled = book'[r].order.qty
    BY <1>8 DEF RowMatched, Later
  <2>5. rows'[r] = rows[r] /\ book'[r].order = book[r].order /\ book'[r].at = book[r].at
    BY <1>8 DEF RowMatched
  <2>6. QED
    BY <1>2, <2>1, <2>2, <2>3, <2>4, <2>5 DEF Backed
<1>9. CASE RowSynced(r)
  <2>1. rows[r] # NoRow
    BY <1>9, NoRowFacts DEF RowSynced
  <2>2. QED
    BY <1>2, <1>3, <1>9, <2>1 DEF Backed, RowSynced
<1>10. QED
  BY <1>5, <1>6, <1>7, <1>8, <1>9, RowSteps

LEMMA NamedStep ==
  ASSUME DeskInv, EntriesNamed, [DeskNext]_deskVars
  PROVE  EntriesNamed'
<1>1. ASSUME NEW m \in queue', m.order.cond = "ENTRY"
      PROVE  m.req = m.order.entry
  <2>1. CASE m \in queue
    BY <1>1, <2>1 DEF EntriesNamed
  <2>2. CASE Enters
    BY <1>1, <2>1, <2>2 DEF Enters, EntryOrder
  <2>3. CASE \E req, o : Ordered(req, o)
    BY <1>1, <2>1, <2>3 DEF Ordered, Close
  <2>4. CASE QueueRests
    BY <1>1, <2>1, <2>4 DEF QueueRests
  <2>5. CASE (\E w \in Workers, i \in Ids : CloseOrder(w, i)) \/ (\E w \in Workers : CloseOpenTrades(w))
    BY <1>1, <2>1, <2>5 DEF CloseOrder, CloseOpenTrades
  <2>6. QED
    BY <2>2, <2>3, <2>4, <2>5, QueueSteps
<1>2. ASSUME NEW r \in RequestIds, rows'[r] # NoRow, rows'[r].order.cond = "ENTRY"
      PROVE  rows'[r].order.entry = r
  <2>1. CASE rows[r] # NoRow
    BY <1>2, <2>1, OrdersStay DEF EntriesNamed
  <2>2. CASE rows[r] = NoRow
    BY <1>2, <2>2, NewRows DEF EntriesNamed
  <2>3. QED
    BY <2>1, <2>2
<1>3. ASSUME NEW w \in Workers, NEW o \in worker'[w].todo
      PROVE  o.cond = "EXIT" /\ o.reason = Why(w)'
  <2>1. CASE o \in worker[w].todo /\ worker'[w].cfg = worker[w].cfg
    BY <2>1 DEF EntriesNamed, Why
  <2>2. QED
    BY <2>1, TodoTaken
<1>4. QED
  BY <1>1, <1>2, <1>3 DEF EntriesNamed

LEMMA TableInvInit ==
  ASSUME DeskInit
  PROVE  TableInv
  BY DeskInvInit, NamedInit DEF TableInv

LEMMA TableInvStep ==
  ASSUME TableInv, [DeskNext]_deskVars
  PROVE  TableInv'
  BY DeskInvStep, NamedStep, RowsBackedStep DEF TableInv

LEMMA TableInvAlways == DeskSpec => []TableInv
<1>1. TableInv /\ [DeskNext]_deskVars => TableInv'
  BY TableInvStep
<1>2. QED
  BY <1>1, TableInvInit, PTL DEF DeskSpec

-----------------------------------------------------------------------------
\* What was running when its strategy was disabled is closed.

LEMMA FilledStays ==
  ASSUME TableInv, [DeskNext]_deskVars, NEW r \in RequestIds, rows[r] # NoRow,
         rows[r].fill.status = "FILLED"
  PROVE  rows'[r] = rows[r]
<1>1. Backed(r) /\ (RowSame(r) \/ RowMatched(r) \/ RowSynced(r))
  BY RowSteps DEF TableInv, RowsBacked, RowSimulated, RowAccepted
<1>2. ~RowSynced(r)
  BY <1>1, NoRowFacts DEF RowSynced, Backed
<1>3. QED
  BY <1>1, <1>2 DEF RowSame, RowMatched

LEMMA ClosedStays ==
  ASSUME TableInv, [DeskNext]_deskVars, NEW i \in Ids, Closed(i)
  PROVE  Closed(i)'
<1>1. PICK r \in RequestIds : rows[r] # NoRow /\ rows[r].order.entry = i
                              /\ rows[r].order.cond = "EXIT" /\ rows[r].fill.status = "FILLED"
  BY DEF Closed
<1>2. rows'[r] = rows[r]
  BY <1>1, FilledStays
<1>3. QED
  BY <1>1, <1>2 DEF Closed

LEMMA OpenStays ==
  ASSUME TableInv, [DeskNext]_deskVars, NEW s, NEW i \in ListOpenEntries(s)
  PROVE  i \in Ids /\ (Closed(i)' \/ i \in ListOpenEntries(s)')
<1>1. i \in Ids /\ Running(i) /\ rows[i].order.strategy = s
  BY DEF ListOpenEntries
<1>2. i \in RequestIds /\ Entry(i)
  BY <1>1, IdFacts DEF Running
<1>3. rows'[i] # NoRow /\ rows'[i].order = rows[i].order
  BY <1>2, OrdersStay DEF TableInv, Entry
<1>4. Entry(i)'
  BY <1>2, <1>3 DEF Entry
<1>5. QED
  BY <1>1, <1>3, <1>4 DEF ListOpenEntries, Running

LEMMA GhostsGrow ==
  ASSUME DeskInv, EntriesNamed, [DeskNext]_deskVars
  PROVE  /\ failed \subseteq failed' /\ overlapped \subseteq overlapped'
         /\ contended \subseteq contended'
         /\ \A i \in Ids : closers[i] \subseteq closers'[i]
<1>1. failed \subseteq failed' /\ overlapped \subseteq overlapped'
  <2>1. CASE Enters
    BY <2>1 DEF Enters, configVars
  <2>2. QED
    BY <2>1, DeskForms, ManualEnters, StrategyEntersIs
       DEF CloseOrder, CreateStrategyConfig, DeleteStrategyConfig, UpdateStrategyConfig, Update,
           CloseOpenTrades, PublishDisableClose, PublishManualClose, FailWorker, Reconcile,
           StrategyExits, PlaceOrder, Refuse, Match, Sync, deskVars, configVars
<1>2. contended \subseteq contended' /\ \A i \in Ids : closers[i] \subseteq closers'[i]
  <2>1. ASSUME NEW req, NEW o, Ordered(req, o)
        PROVE  contended \subseteq contended' /\ \A i \in Ids : closers[i] \subseteq closers'[i]
    <3>1. closers' = [closers EXCEPT ![o.entry] = @ \cup {o.reason}] /\ contended \subseteq contended'
      BY <2>1 DEF Ordered, Close
    <3>2. closers \in [Ids -> SUBSET Reasons] /\ o.entry \in Ids
      BY <2>1 DEF DeskInv, DeskTypeOK, Ordered, Orders
    <3>3. QED
      BY <3>1, <3>2
  <2>2. CASE Enters \/ QueueRests \/ (\E w \in Workers, i \in Ids : CloseOrder(w, i))
             \/ (\E w \in Workers : CloseOpenTrades(w))
    BY <2>2 DEF Enters, QueueRests, CloseOrder, CloseOpenTrades
  <2>3. QED
    BY <2>1, <2>2, QueueSteps
<1>3. QED
  BY <1>1, <1>2

\* Who has closes in hand goes on with them, or fails.
LEMMA InHandSteps ==
  ASSUME DeskInv, [DeskNext]_deskVars, NEW w \in Workers,
         worker[w].pc \in {"list", "publish"}, worker[w].cfg \in Configs
  PROVE  worker'[w] = worker[w] \/ CloseOpenTrades(w) \/ PublishDisableClose(w) \/ FailWorker(w)
<1>1. ASSUME NEW v \in Workers, v # w,
             \/ \E i \in Ids : CloseOrder(v, i)
             \/ \E c \in Configs, given \in Bodies : UpdateStrategyConfig(v, c, given)
             \/ Update(v) \/ CloseOpenTrades(v) \/ PublishDisableClose(v)
             \/ PublishManualClose(v) \/ FailWorker(v)
      PROVE  worker'[w] = worker[w]
  <2>1. \E job : worker' = [worker EXCEPT ![v] = job]
    <3>1. ASSUME PublishDisableClose(v)
          PROVE  \E job : worker' = [worker EXCEPT ![v] = job]
      <4>1. PICK o : worker' = [worker EXCEPT ![v] = IF worker[v].todo = {o} THEN IdleWorker
                                          ELSE [@ EXCEPT !.todo = worker[v].todo \ {o}]]
        BY <3>1 DEF PublishDisableClose
      <4>2. worker' = [worker EXCEPT ![v] = IF worker[v].todo = {o} THEN IdleWorker
                                     ELSE [worker[v] EXCEPT !.todo = worker[v].todo \ {o}]]
        BY <4>1, Zenon
      <4>3. QED
        BY <4>2
    <3>2. ASSUME Update(v)
          PROVE  \E job : worker' = [worker EXCEPT ![v] = job]
      BY <3>2 DEF Update
    <3>3. QED
      BY <1>1, <3>1, <3>2
         DEF CloseOrder, UpdateStrategyConfig, CloseOpenTrades, PublishManualClose, FailWorker
  <2>2. QED
    BY <1>1, <2>1 DEF DeskInv, DeskTypeOK
<1>2. \A i \in Ids : ~CloseOrder(w, i)
  BY DEF CloseOrder
<1>3. \A c \in Configs, given \in Bodies : ~UpdateStrategyConfig(w, c, given)
  BY DEF UpdateStrategyConfig
<1>4. ~Update(w) /\ ~PublishManualClose(w)
  BY NoRowFacts DEF Update, PublishManualClose
<1>5. CASE worker' = worker
  BY <1>5
<1>6. QED
  BY <1>1, <1>2, <1>3, <1>4, <1>5, DeskForms, ManualEnters, StrategyEntersIs
     DEF Enters, CreateStrategyConfig, DeleteStrategyConfig, Reconcile, StrategyExits, PlaceOrder,
         Refuse, Match, Sync, deskVars

LEMMA InHandStays ==
  ASSUME TableInv, [DeskNext]_deskVars, NEW w \in Workers, NEW c \in Configs \ failed',
         worker[w].cfg = c, NEW i \in Ids, InHand(i, w)
  PROVE  Closed(i)' \/ "strategy_disabled" \in closers'[i] \/ (worker'[w].cfg = c /\ InHand(i, w)')
<1>1. DeskInv /\ EntriesNamed /\ worker \in [Workers -> Jobs]
  BY DEF TableInv, DeskInv, DeskTypeOK, Jobs
<1>2. worker[w].pc \in {"list", "publish"}
  BY DEF InHand
<1>3. CASE worker'[w] = worker[w]
  <2>1. CASE worker[w].pc = "list" /\ i \in ListOpenEntries(worker[w].item.strategy)
    <3>1. PICK s : s = worker[w].item.strategy
      OBVIOUS
    <3>2. Closed(i)' \/ i \in ListOpenEntries(s)'
      BY <2>1, <3>1, OpenStays
    <3>3. s = worker'[w].item.strategy
      BY <1>3, <3>1
    <3>4. i \in ListOpenEntries(s)' => i \in ListOpenEntries(worker[w].item.strategy)'
      BY <3>3 DEF ListOpenEntries
    <3>5. QED
      BY <1>3, <2>1, <3>2, <3>4 DEF InHand
  <2>2. CASE worker[w].pc = "publish" /\ \E o \in worker[w].todo : o.entry = i
    BY <1>3, <2>2 DEF InHand
  <2>3. QED
    BY <2>1, <2>2 DEF InHand
<1>4. CASE CloseOpenTrades(w)
  <2> DEFINE open == ListOpenEntries(worker[w].item.strategy)
             todo == {CloseOrderOf(j, "strategy_disabled") : j \in open}
             busy == [worker[w] EXCEPT !.pc = "publish", !.todo = todo]
  <2>1. i \in open /\ Running(i)
    BY <1>4 DEF InHand, CloseOpenTrades, ListOpenEntries
  <2>2. worker' = [worker EXCEPT ![w] = busy]
    BY <1>4, <2>1 DEF CloseOpenTrades
  <2>3. CloseOrderOf(i, "strategy_disabled").entry = i
    BY <1>1, <2>1, RunningFacts, CloseOrderFacts DEF EntriesNamed, Running, Entry, Reasons
  <2>4. CloseOrderOf(i, "strategy_disabled") \in todo
    BY <2>1
  <2> HIDE DEF open, todo
  <2>5. busy.pc = "publish" /\ busy.todo = todo /\ busy.cfg = worker[w].cfg
    BY <1>1 DEF Jobs
  <2> HIDE DEF busy
  <2>6. worker'[w] = busy
    BY <1>1, <2>2
  <2>7. QED
    BY <2>3, <2>4, <2>5, <2>6 DEF InHand
<1>5. CASE PublishDisableClose(w)
  <2>1. worker[w].pc = "publish"
    BY <1>5 DEF PublishDisableClose
  <2>2. PICK o \in worker[w].todo : o.entry = i
    BY <2>1 DEF InHand
  <2>3. PICK p \in worker[w].todo :
          /\ Close(NewId, p)
          /\ worker' = [worker EXCEPT ![w] = IF worker[w].todo = {p} THEN IdleWorker
                                             ELSE [@ EXCEPT !.todo = worker[w].todo \ {p}]]
    BY <1>5 DEF PublishDisableClose
  <2>4. CASE p = o
    <3>1. closers' = [closers EXCEPT ![i] = @ \cup {o.reason}]
      BY <2>2, <2>3, <2>4 DEF Close
    <3>2. o.reason = "strategy_disabled"
      BY <1>1, <2>2, NoRowFacts DEF EntriesNamed, Why
    <3>3. QED
      BY <1>1, <3>1, <3>2 DEF DeskInv, DeskTypeOK
  <2>5. CASE p # o
    <3> DEFINE job == [worker[w] EXCEPT !.todo = worker[w].todo \ {p}]
    <3>1. worker[w].todo # {p}
      BY <2>2, <2>5
    <3>2. worker' = [worker EXCEPT ![w] = job]
      BY <2>3, <3>1, Zenon
    <3>3. job.pc = "publish" /\ job.cfg = c /\ job.todo = worker[w].todo \ {p}
      BY <1>1, <2>1 DEF Jobs
    <3> HIDE DEF job
    <3>4. worker'[w] = job
      BY <1>1, <3>2
    <3>5. QED
      BY <2>2, <2>5, <3>3, <3>4 DEF InHand
  <2>6. QED
    BY <2>4, <2>5
<1>6. CASE FailWorker(w)
  BY <1>6, NoRowFacts DEF FailWorker
<1>7. QED
  BY <1>1, <1>2, <1>3, <1>4, <1>5, <1>6, InHandSteps

\* An update that finds the strategy enabled and stores it disabled has its open
\* entries in hand.
LEMMA NewlyOwed ==
  ASSUME UpdateInv, [DeskNext]_deskVars, NEW c \in Configs \ overlapped,
         NEW i \in owed'[c], i \notin owed[c]
  PROVE  \E w \in Workers : worker'[w].cfg = c /\ InHand(i, w)'
<1>1. DeskInv /\ worker \in [Workers -> Jobs] /\ owed \in [Configs -> SUBSET Ids]
  BY DEF UpdateInv, DeskInv, DeskTypeOK, Jobs
<1>2. owed' # owed
  OBVIOUS
<1>3. PICK w \in Workers : Update(w)
  <2>1. ~Enters
    BY <1>2 DEF Enters, configVars
  <2>2. QED
    BY <1>1, <1>2, <2>1, DeskForms, ManualEnters, StrategyEntersIs
       DEF CloseOrder, CreateStrategyConfig, DeleteStrategyConfig, UpdateStrategyConfig,
           CloseOpenTrades, PublishDisableClose, PublishManualClose, FailWorker, Reconcile,
           StrategyExits, PlaceOrder, Refuse, Match, Sync, deskVars, configVars
<1>4. worker[w].pc = "write" /\ worker[w].cfg \in Configs /\ worker[w].item \in ConfigRows
  BY <1>1, <1>3, UpdateEffect
<1> DEFINE item == worker[w].item
<1>5. /\ owed' = [owed EXCEPT ![worker[w].cfg] = @ \cup ListOpenEntries(item.strategy)]
      /\ configs[worker[w].cfg] = [item EXCEPT !.enabled = TRUE] /\ ~item.enabled
  BY <1>2, <1>3 DEF Update
<1>6. worker[w].cfg = c /\ i \in ListOpenEntries(item.strategy)
  BY <1>1, <1>4, <1>5
<1>7. worker[w].was
  <2>1. [item EXCEPT !.enabled = TRUE] \in ConfigRows /\ [item EXCEPT !.enabled = TRUE].enabled = TRUE
    BY <1>4 DEF ConfigRows
  <2>2. configs[c] # NoRow /\ configs[c].enabled = TRUE
    BY <1>5, <1>6, <2>1, NoRowFacts
  <2>3. worker[w].was = configs[c].enabled
    BY <1>4, <1>6, <2>2 DEF UpdateInv, ReadIsCurrent, Writing
  <2>4. QED
    BY <2>2, <2>3
<1>8. worker'[w] = [worker[w] EXCEPT !.pc = "list"]
  BY <1>1, <1>3, <1>5, <1>7, UpdateEffect
<1>9. worker'[w].pc = "list" /\ worker'[w].cfg = c /\ worker'[w].item = item
  BY <1>1, <1>4, <1>6, <1>8 DEF Jobs
<1>10. rows' = rows
  BY <1>1, <1>3, UpdateEffect DEF deskRest, exchangeVars
<1>11. i \in ListOpenEntries(worker[w].item.strategy)'
  BY <1>6, <1>9, <1>10 DEF ListOpenEntries, Running, Entry, Closed
<1>12. QED
  BY <1>9, <1>11 DEF InHand

LEMMA DisableInvStep ==
  ASSUME DisableInv, [DeskNext]_deskVars
  PROVE  DisableInv'
<1>1. TableInv' /\ UpdateInv'
  BY TableInvStep, UpdateInvStep DEF DisableInv
<1>2. ASSUME NEW c \in Configs \ (failed' \cup overlapped'), NEW i \in owed'[c]
      PROVE  \/ Closed(i)' \/ "strategy_disabled" \in closers'[i]
             \/ \E w \in Workers : worker'[w].cfg = c /\ InHand(i, w)'
  <2>1. c \in Configs \ (failed \cup overlapped)
    BY <1>2, GhostsGrow DEF DisableInv, TableInv
  <2>2. i \in Ids
    BY <1>1 DEF TableInv, DeskInv, DeskTypeOK
  <2>3. CASE i \notin owed[c]
    BY <2>1, <2>3, NewlyOwed DEF DisableInv
  <2>4. CASE i \in owed[c] /\ Closed(i)
    BY <2>2, <2>4, ClosedStays DEF DisableInv
  <2>5. CASE i \in owed[c] /\ "strategy_disabled" \in closers[i]
    BY <2>2, <2>5, GhostsGrow DEF DisableInv, TableInv
  <2>6. CASE \E w \in Workers : worker[w].cfg = c /\ InHand(i, w)
    BY <1>2, <2>2, <2>6, InHandStays DEF DisableInv
  <2>7. QED
    BY <2>1, <2>3, <2>4, <2>5, <2>6 DEF DisableInv, OwedIsClosed
<1>3. OwedIsClosed'
  BY <1>2 DEF OwedIsClosed
<1>4. QED
  BY <1>1, <1>3 DEF DisableInv

\* What was running when UpdateStrategyConfig disabled a strategy is closed or has
\* its close ordered once the call is over: closeOpenTradesForDisabledStrategy
\* leaves no entry out that was open when the row was written (data.service.go).
THEOREM DisablingCloses == DeskSpec => []DisableCloses
<1>1. DeskInit => DisableInv
  <2>1. DeskInit => OwedIsClosed
    BY DEF DeskInit, OwedIsClosed
  <2>2. QED
    BY <2>1, TableInvInit, UpdateInvInit DEF DisableInv
<1>2. DisableInv /\ [DeskNext]_deskVars => DisableInv'
  BY DisableInvStep
<1>3. DisableInv => DisableCloses
  BY DEF DisableInv, OwedIsClosed, DisableCloses, Disabling, InHand
<1>4. QED
  BY <1>1, <1>2, <1>3, PTL DEF DeskSpec

-----------------------------------------------------------------------------
\* The close of an entry fits it.

LEMMA OtherSide ==
  ASSUME NEW side, NormalizeOrderSideByMarket(side) = side, Sided(side)
  PROVE  SideCode(NormalizeOrderSideByMarket(CloseOrderSide(side))) # SideCode(side)
  BY DEF NormalizeOrderSideByMarket, CloseOrderSide, SideCode, Sided, Sides

\* The positionSide of a close, whose message says any: that of the entry's row, none,
\* or what a config says.
LEMMA SamePosition ==
  ASSUME venue \in Venues, NEW e \in Orders, Normal(e), Sided(e.side), NEW n \in Orders,
         n.side = NormalizeOrderSideByMarket(CloseOrderSide(e.side)),
         NEW pos \in PositionSides, n.pos = PositionSide(n.side, pos)
  PROVE  \/ Submitted(n) = Submitted(e)
         \/ /\ venue.market = "futures" /\ venue.account = "HEDGE"
            /\ venue.mode = "ONE_WAY" \/ pos # Submitted(e)
<1>1. /\ venue.market \in {"spot", "futures"} /\ venue.account \in {"ONE_WAY", "HEDGE"}
      /\ e.pos \in PositionSides /\ n.pos \in PositionSides
  BY DeskAssumption DEF Orders
<1>2. CASE venue.market # "futures"
  BY <1>2 DEF Submitted
<1>3. CASE venue.market = "futures"
  <2>1. e.pos \in {"LONG", "SHORT"} /\ n.pos \in {"LONG", "SHORT"}
    BY <1>1, <1>3 DEF Normal, PositionSide, PositionSides
  <2>2. CASE venue.account = "ONE_WAY"
    BY <1>3, <2>1, <2>2 DEF Submitted, FuturesPositionSide, AlternateFuturesPositionSide, Mismatch
  <2>3. CASE venue.account = "HEDGE" /\ venue.mode # "ONE_WAY"
    <3>1. Submitted(e) = e.pos /\ Submitted(n) = n.pos
      BY <1>3, <2>1, <2>3 DEF Submitted, FuturesPositionSide, Mismatch
    <3>2. CASE pos = Submitted(e)
      BY <1>3, <2>1, <3>1, <3>2 DEF PositionSide
    <3>3. QED
      BY <1>3, <2>3, <3>2
  <2>4. QED
    BY <1>1, <1>3, <2>2, <2>3
<1>4. QED
  BY <1>2, <1>3

\* The entry behind a close of it.
LEMMA EntryBook ==
  ASSUME TableInv, NEW i \in Ids, Entry(i), ~rows[i].order.paper
  PROVE  /\ i \in RequestIds /\ rows[i] \in Rows /\ book[i] \in Books /\ Normal(book[i].order)
         /\ Sided(book[i].order.side) /\ rows[i].order.side = book[i].order.side
         /\ rows[i].order.pos = book[i].at /\ book[i].at = Submitted(book[i].order)
         /\ rows[i].order.qty = book[i].order.qty
<1>1. i \in RequestIds /\ rows[i] \in Rows /\ Backed(i)
  BY IdFacts, NoRowFacts DEF TableInv, RowsBacked, DeskInv, DeskTypeOK, Entry, Rows
<1>2. book[i] \in Books
  BY <1>1 DEF Backed, TableInv, DeskInv, DeskTypeOK, Books
<1>3. /\ rows[i].order = [book[i].order EXCEPT !.pos = book[i].at]
      /\ book[i].at = Submitted(book[i].order) /\ Normal(book[i].order)
  BY <1>1 DEF Backed
<1>4. book[i].order \in Orders /\ book[i].at \in PositionSides
  BY <1>2 DEF Books
<1>5. /\ rows[i].order.side = book[i].order.side /\ rows[i].order.pos = book[i].at
      /\ rows[i].order.qty = book[i].order.qty
  BY <1>3, <1>4, PlacedFields
<1>6. Sided(book[i].order.side)
  BY <1>3, <1>4 DEF Normal, Sided, Orders
<1>7. QED
  BY <1>1, <1>2, <1>3, <1>5, <1>6

\* A close on what is known of its entry, whatever position side it says.
LEMMA CloseFits ==
  ASSUME TableInv, NEW i \in Ids, Entry(i), NEW o \in Orders, o.paper = rows[i].order.paper,
         o.side = CloseOrderSide(rows[i].order.side), Known(i), o.qty = rows[i].fill.filled \/ o.paper
  PROVE  LET n == Normalize(o) IN
         /\ n.paper = rows[i].order.paper
         /\ \/ n.paper
            \/ /\ n.qty = book[i].fill.filled
               /\ SideCode(n.side) # SideCode(book[i].order.side)
               /\ \/ Submitted(n) = book[i].at
                  \/ /\ venue.market = "futures" /\ venue.account = "HEDGE"
                     /\ venue.mode = "ONE_WAY" \/ o.pos # rows[i].order.pos
<1> DEFINE n == Normalize(o)
           e == book[i].order
<1>1. /\ n.paper = o.paper /\ n.qty = o.qty /\ n.side = NormalizeOrderSideByMarket(o.side)
      /\ n.pos = PositionSide(n.side, o.pos) /\ (Sided(o.side) => n \in Orders)
  BY NormalFields
<1>2. Sided(o.side)
  BY SideFacts
<1> HIDE DEF n
<1>3. CASE o.paper
  BY <1>1, <1>3 DEF n
<1>4. CASE ~o.paper
  <2>1. /\ book[i] \in Books /\ Normal(e) /\ Sided(e.side) /\ rows[i].order.side = e.side
        /\ rows[i].order.pos = Submitted(e) /\ book[i].at = Submitted(e)
    BY <1>4, EntryBook
  <2>2. e \in Orders
    BY <2>1 DEF Books
  <2> HIDE DEF e
  <2>3. n.qty = book[i].fill.filled
    BY <1>1, <1>4 DEF Known
  <2>4. SideCode(n.side) # SideCode(e.side)
    BY <1>1, <2>1, OtherSide DEF Normal
  <2>5. venue \in Venues
    BY DEF TableInv, DeskInv, DeskTypeOK
  <2>6. \/ Submitted(n) = Submitted(e)
        \/ /\ venue.market = "futures" /\ venue.account = "HEDGE"
           /\ venue.mode = "ONE_WAY" \/ o.pos # Submitted(e)
    BY <1>1, <1>2, <2>1, <2>2, <2>5, SamePosition DEF Orders
  <2>7. QED
    BY <1>1, <2>1, <2>3, <2>4, <2>6 DEF n, e
<1>5. QED
  BY <1>3, <1>4

\* What is known of an entry is all there will be.
LEMMA KnownStays ==
  ASSUME TableInv, [DeskNext]_deskVars, NEW i \in Ids, Entry(i), Known(i)
  PROVE  RowSame(i)
<1>1. i \in RequestIds /\ rows[i] # NoRow /\ Backed(i)
  BY IdFacts DEF Entry, TableInv, RowsBacked
<1>2. RowSame(i) \/ RowMatched(i) \/ RowSynced(i)
  BY <1>1, RowSteps DEF TableInv, RowSimulated, RowAccepted
<1>3. CASE rows[i].order.paper
  BY <1>1, <1>2, <1>3, NoRowFacts DEF Backed, RowMatched, RowSynced
<1>4. CASE ~rows[i].order.paper
  BY <1>2, <1>4 DEF Known, RowMatched, RowSynced
<1>5. QED
  BY <1>3, <1>4

\* A close that fits goes on fitting.
LEMMA ClosesStay ==
  ASSUME TableInv, [DeskNext]_deskVars, NEW i \in Ids, NEW n, Entry(i),
         i \notin contended' => /\ Known(i) /\ n.paper = rows[i].order.paper
                                /\ n.paper \/ Fits(n, i)
  PROVE  Closes(n, i)'
<1>1. i \in RequestIds /\ rows[i] # NoRow
  BY IdFacts DEF Entry
<1>2. rows'[i] # NoRow /\ rows'[i].order = rows[i].order
  BY <1>1, OrdersStay DEF TableInv
<1>3. Entry(i)'
  BY <1>2 DEF Entry
<1>4. ASSUME i \notin contended'
      PROVE  Known(i)' /\ (n.paper \/ Fits(n, i)')
  <2>1. rows'[i] = rows[i] /\ book'[i] = book[i]
    BY <1>4, KnownStays DEF RowSame
  <2>2. Known(i)'
    BY <1>4, <2>1 DEF Known
  <2>3. venue' = venue /\ closers[i] \subseteq closers'[i]
    BY TableSteps, GhostsGrow DEF TableInv
  <2>4. Hedged(i) => Hedged(i)'
    BY <2>3 DEF Hedged
  <2>5. Submitted(n)' = Submitted(n)
    BY <2>3, VenueRules
  <2>6. Fits(n, i) => Fits(n, i)'
    BY <2>1, <2>4, <2>5 DEF Fits, SideCode
  <2>7. QED
    BY <1>4, <2>2, <2>6
<1>5. QED
  BY <1>2, <1>3, <1>4 DEF Closes

\* A close that a goroutine takes up to publish fits.
LEMMA TakenFits ==
  ASSUME TableInv, [DeskNext]_deskVars, NEW i \in Ids, Running(i), NEW reason \in Reasons,
         i \in contended' \/ Known(i), NEW n, n = Normalize(CloseOrderOf(i, reason))
  PROVE  Closes(n, i)'
<1>1. Entry(i) /\ i \in RequestIds /\ rows[i] \in Rows
  BY RunningFacts DEF TableInv, Running
<1>2. PICK o : o = CloseOrderOf(i, reason)
  OBVIOUS
<1>3. /\ o \in Orders /\ o.side = CloseOrderSide(rows[i].order.side) /\ o.pos = rows[i].order.pos
      /\ o.paper = rows[i].order.paper
      /\ rows[i].fill.filled # 0 => o.qty = rows[i].fill.filled
  BY <1>1, <1>2, CloseOrderFacts
<1>4. n = Normalize(o) /\ n.paper = rows[i].order.paper
  BY <1>2, <1>3, NormalFields
<1>5. ASSUME Known(i)
      PROVE  n.paper \/ Fits(n, i)
  <2>1. o.qty = rows[i].fill.filled \/ o.paper
    <3>1. CASE ~o.paper
      <4>1. book[i].fill = rows[i].fill /\ book[i].fill.filled > 0
        BY <1>3, <1>5, <3>1 DEF Known
      <4>2. rows[i].fill.filled # 0
        BY <1>1, <4>1 DEF Rows, Fills
      <4>3. QED
        BY <1>3, <4>2
    <3>2. QED
      BY <3>1
  <2>2. \/ n.paper
        \/ /\ n.qty = book[i].fill.filled
           /\ SideCode(n.side) # SideCode(book[i].order.side)
           /\ \/ Submitted(n) = book[i].at
              \/ /\ venue.market = "futures" /\ venue.account = "HEDGE"
                 /\ venue.mode = "ONE_WAY"
    BY <1>1, <1>3, <1>4, <1>5, <2>1, CloseFits
  <2>3. QED
    BY <2>2 DEF Fits, Hedged
<1>6. QED
  BY <1>1, <1>4, <1>5, ClosesStay

\* And so does the exit of a strategy, on what it knows.
LEMMA SignalFits ==
  ASSUME TableInv, [DeskNext]_deskVars, NEW req, NEW o, Ordered(req, o), Signalled(o),
         NEW n, n = Normalize(o)
  PROVE  Closes(n, o.entry)'
<1>1. PICK i \in Ids : i = o.entry
  BY DEF Ordered, Orders
<1>2. Entry(i) /\ i \in RequestIds /\ rows[i] \in Rows /\ Running(i)
  BY <1>1, RunningFacts DEF TableInv, Running, Signalled
<1>3. UNCHANGED <<venue, rows, book>>
  BY DEF Ordered, exchangeVars
<1>4. o \in Orders /\ o.reason = "signal" /\ closers \in [Ids -> SUBSET Reasons]
  BY DEF Ordered, Signalled, TableInv, DeskInv, DeskTypeOK
<1>5. /\ closers' = [closers EXCEPT ![i] = @ \cup {"signal"}]
      /\ i \notin contended' => /\ Known(i) /\ rows[i].fill.filled = o.qty
                                /\ o.paper = rows[i].order.paper
  BY <1>1, <1>4 DEF Ordered, Close, AsConfigured
<1>6. "signal" \in closers'[i]
  BY <1>4, <1>5
<1>7. o.side = CloseOrderSide(rows[i].order.side) /\ o.pos \in PositionSides
  <2>1. rows[i].order \in Orders /\ CloseOrderSide(rows[i].order.side) \in Sides
    BY <1>2, SideFacts DEF Rows
  <2>2. PICK target \in OrderRows :
          o = SignalForm(rows[i].order, CloseOrderSide(rows[i].order.side),
                         target.pos, target.qty, target.paper)
    BY <1>1 DEF Signalled
  <2>3. target.pos \in PositionSides /\ target.qty \in 1..Quantity /\ target.paper \in BOOLEAN
    BY <2>2 DEF OrderRows
  <2>4. QED
    BY <2>1, <2>2, <2>3, ExitFields
<1>8. n.paper = o.paper
  BY <1>4, NormalFields
<1>9. ASSUME i \notin contended'
      PROVE  Known(i)' /\ (n.paper \/ Fits(n, i)')
  <2>1. \/ n.paper
        \/ /\ n.qty = book[i].fill.filled
           /\ SideCode(n.side) # SideCode(book[i].order.side)
           /\ \/ Submitted(n) = book[i].at
              \/ venue.market = "futures" /\ venue.account = "HEDGE"
    BY <1>2, <1>4, <1>5, <1>7, <1>9, CloseFits
  <2>2. Submitted(n)' = Submitted(n)
    BY <1>3, VenueRules
  <2>3. Known(i)'
    BY <1>3, <1>5, <1>9 DEF Known
  <2>4. n.paper \/ Fits(n, i)'
    BY <1>3, <1>6, <2>1, <2>2 DEF Fits, Hedged, SideCode
  <2>5. QED
    BY <2>3, <2>4
<1>10. Closes(n, i)'
  BY <1>2, <1>3, <1>5, <1>8, <1>9 DEF Closes, Entry
<1>11. QED
  BY <1>1, <1>10

LEMMA FittingStays ==
  ASSUME TableInv, [DeskNext]_deskVars, NEW i \in Ids, NEW n, Closes(n, i)
  PROVE  Closes(n, i)'
<1>1. contended \subseteq contended'
  BY GhostsGrow DEF TableInv
<1>2. QED
  BY <1>1, ClosesStay DEF Closes

\* What is in the queue after a step.
LEMMA QueueTaken ==
  ASSUME DeskInv, EntriesNamed, [DeskNext]_deskVars, NEW m \in queue', m.order.cond = "EXIT"
  PROVE  m \in queue \/ Ordered(m.req, m.order)
<1>1. CASE Enters
  BY <1>1 DEF Enters, EntryOrder
<1>2. CASE \E req, o : Ordered(req, o)
  <2>1. PICK req, o : Ordered(req, o)
    BY <1>2
  <2>2. queue' = queue \cup {[req |-> req, order |-> o]}
    BY <2>1 DEF Ordered, Close
  <2>3. m \in queue \/ (m.req = req /\ m.order = o)
    BY <2>2
  <2>4. QED
    BY <2>1, <2>3
<1>3. CASE QueueRests
  BY <1>3 DEF QueueRests
<1>4. CASE (\E w \in Workers, i \in Ids : CloseOrder(w, i)) \/ (\E w \in Workers : CloseOpenTrades(w))
  BY <1>4 DEF CloseOrder, CloseOpenTrades
<1>5. QED
  BY <1>1, <1>2, <1>3, <1>4, QueueSteps

LEMMA ExitsFitStep ==
  ASSUME TableInv, ExitsFit, [DeskNext]_deskVars
  PROVE  ExitsFit'
<1>1. DeskInv /\ EntriesNamed /\ venue' = venue
  BY TableSteps DEF TableInv
<1>2. \A o : Normalize(o)' = Normalize(o)
  BY <1>1, VenueRules
<1>3. ASSUME NEW m \in queue', NEW i \in Ids, Exit(m.order, i)
      PROVE  Closes(Normalize(m.order), i)'
  <2>1. PICK n : n = Normalize(m.order)
    OBVIOUS
  <2>2. Closes(n, i)'
    <3>1. CASE m \in queue
      BY <1>3, <2>1, <3>1, FittingStays DEF ExitsFit
    <3>2. CASE Ordered(m.req, m.order)
      <4>1. m.order.entry = i
        BY <1>3 DEF Exit
      <4>2. CASE Signalled(m.order)
        BY <2>1, <3>2, <4>1, <4>2, SignalFits
      <4>3. CASE \E w \in Workers : m.order \in worker[w].todo
        BY <1>3, <2>1, <4>3, FittingStays DEF ExitsFit
      <4>4. QED
        BY <3>2, <4>2, <4>3 DEF Ordered
    <3>3. QED
      BY <1>1, <1>3, <3>1, <3>2, QueueTaken DEF Exit
  <2>3. Normalize(m.order)' = n
    BY <1>2, <2>1
  <2>4. QED
    BY <2>2, <2>3
<1>4. ASSUME NEW w \in Workers, NEW o \in worker'[w].todo, NEW i \in Ids, Exit(o, i)
      PROVE  Closes(Normalize(o), i)'
  <2>1. PICK n : n = Normalize(o)
    OBVIOUS
  <2>2. Closes(n, i)'
    <3>1. CASE o \in worker[w].todo
      BY <1>4, <2>1, <3>1, FittingStays DEF ExitsFit
    <3>2. CASE o \notin worker[w].todo
      <4>1. PICK j \in Ids : /\ Running(j) /\ o = CloseOrderOf(j, Why(w)')
                             /\ j \in contended' \/ Known(j)
                             /\ o.cond = "EXIT" /\ o.entry = j /\ o.reason = Why(w)'
        BY <1>1, <3>2, TodoTaken
      <4>2. i = j /\ o.reason \in Reasons /\ o = CloseOrderOf(j, o.reason)
        BY <1>4, <4>1 DEF Exit, Why, Reasons
      <4>3. QED
        BY <2>1, <4>1, <4>2, TakenFits
    <3>3. QED
      BY <3>1, <3>2
  <2>3. Normalize(o)' = n
    BY <1>2, <2>1
  <2>4. QED
    BY <2>2, <2>3
<1>5. ASSUME NEW r \in RequestIds, NEW i \in Ids, rows'[r] # NoRow, Exit(rows'[r].order, i)
      PROVE  Closes(IF rows[r].order.paper THEN rows[r].order ELSE book[r].order, i)'
  <2> DEFINE now == IF rows'[r].order.paper THEN rows'[r].order ELSE book'[r].order
  <2>1. PICK n : n = now
    OBVIOUS
  <2>2. Closes(n, i)'
    <3>1. CASE rows[r] # NoRow
      <4>1. rows'[r].order = rows[r].order
        BY <1>1, <3>1, OrdersStay
      <4>2. ~rows[r].order.paper => book'[r].order = book[r].order
        BY <1>1, <3>1, RowSteps DEF RowSame, RowSimulated, RowAccepted, RowMatched, RowSynced
      <4>3. n = IF rows[r].order.paper THEN rows[r].order ELSE book[r].order
        BY <2>1, <4>1, <4>2
      <4>4. Closes(n, i)
        BY <1>5, <3>1, <4>1, <4>3 DEF ExitsFit
      <4>5. QED
        BY <4>4, FittingStays
    <3>2. CASE rows[r] = NoRow
      <4>1. PICK m \in queue :
              LET p == Normalize(m.order) IN
              /\ m.req = r /\ p \in Orders /\ m.order \in Orders
              /\ rows'[r].order.cond = m.order.cond /\ rows'[r].order.entry = m.order.entry
              /\ rows'[r].order.paper = m.order.paper
              /\ IF m.order.paper THEN rows'[r].order = p /\ book'[r] = book[r]
                 ELSE book'[r] # NoRow /\ book'[r].order = p
        BY <1>1, <1>5, <3>2, NewRows
      <4>2. Exit(m.order, i) /\ n = Normalize(m.order)
        BY <1>5, <2>1, <4>1 DEF Exit
      <4>3. QED
        BY <4>2, FittingStays DEF ExitsFit
    <3>3. QED
      BY <3>1, <3>2
  <2>3. QED
    BY <2>1, <2>2
<1>6. QED
  BY <1>3, <1>4, <1>5 DEF ExitsFit, Exit

-----------------------------------------------------------------------------
\* There is one close.

\* A delivery makes no close of what was none.
LEMMA ExitsDelivered ==
  ASSUME TableInv, [DeskNext]_deskVars, NEW r \in RequestIds, NEW i \in Ids,
         rows'[r] # NoRow, Exit(rows'[r].order, i)
  PROVE  ExitOf(r, i)
<1>1. DeskInv
  BY DEF TableInv
<1>2. CASE rows[r] # NoRow
  BY <1>1, <1>2, OrdersStay DEF ExitOf
<1>3. CASE rows[r] = NoRow
  <2>1. \E m \in queue : m.req = r /\ rows'[r].order.cond = m.order.cond
                                  /\ rows'[r].order.entry = m.order.entry
    BY <1>1, <1>3, NewRows
  <2>2. QED
    BY <2>1 DEF ExitOf, Exit
<1>4. QED
  BY <1>2, <1>3

LEMMA OneExitByOrder ==
  ASSUME TableInv, OneExit, [DeskNext]_deskVars, NEW req, NEW o, Ordered(req, o)
  PROVE  OneExit'
<1>1. /\ queue' = queue \cup {[req |-> req, order |-> o]}
      /\ closers' = [closers EXCEPT ![o.entry] = @ \cup {o.reason}]
      /\ contended \subseteq contended'
      /\ Rivals(o.entry, o.reason) => o.entry \in contended'
  BY DEF Ordered, Close
<1>2. /\ req \in RequestIds /\ o.entry \in Ids /\ closers \in [Ids -> SUBSET Reasons]
      /\ o.reason = "manual_close" => req = ManualClose(o.entry)
  BY DEF Ordered, Orders, TableInv, DeskInv, DeskTypeOK
<1>3. \A r \in RequestIds, i \in Ids : ExitOf(r, i)' => ExitOf(r, i) \/ (r = req /\ i = o.entry)
  <2>1. ASSUME NEW r \in RequestIds, NEW i \in Ids, NEW m \in queue', m.req = r, Exit(m.order, i)
        PROVE  ExitOf(r, i) \/ (r = req /\ i = o.entry)
    <3>1. m \in queue \/ (m.req = req /\ m.order = o)
      BY <1>1
    <3>2. QED
      BY <2>1, <3>1 DEF ExitOf, Exit
  <2>2. QED
    BY <2>1, ExitsDelivered DEF ExitOf, Exit
<1>4. ASSUME NEW i \in Ids \ contended', NEW r \in RequestIds, ExitOf(r, i)'
      PROVE  /\ closers'[i] # {} /\ (closers'[i] = {"manual_close"} => r = ManualClose(i))
             /\ \A q \in RequestIds : ExitOf(q, i)' => q = r
  <2>1. CASE i # o.entry
    <3>1. closers'[i] = closers[i] /\ \A q \in RequestIds : ExitOf(q, i)' => ExitOf(q, i)
      BY <1>1, <1>2, <1>3, <2>1
    <3>2. QED
      BY <1>1, <1>4, <3>1 DEF OneExit
  <2>2. CASE i = o.entry
    <3>1. i \notin contended /\ closers'[i] = closers[i] \cup {o.reason} /\ ~Rivals(i, o.reason)
      BY <1>1, <1>2, <1>4, <2>2
    <3>2. CASE closers[i] = {}
      <4>1. \A q \in RequestIds : ~ExitOf(q, i)
        BY <1>4, <3>1, <3>2 DEF OneExit
      <4>2. \A q \in RequestIds : ExitOf(q, i)' => q = req
        BY <1>3, <4>1
      <4>3. closers'[i] = {o.reason}
        BY <3>1, <3>2
      <4>4. QED
        BY <1>2, <1>4, <2>2, <4>2, <4>3
    <3>3. CASE o.reason = "manual_close" /\ closers[i] = {"manual_close"}
      <4>1. \A q \in RequestIds : ExitOf(q, i) => q = ManualClose(i)
        BY <1>4, <3>1, <3>3 DEF OneExit
      <4>2. req = ManualClose(i)
        BY <1>2, <2>2, <3>3
      <4>3. \A q \in RequestIds : ExitOf(q, i)' => q = ManualClose(i)
        BY <1>3, <4>1, <4>2
      <4>4. QED
        BY <1>4, <3>1, <4>3
    <3>4. QED
      BY <3>1, <3>2, <3>3 DEF Rivals
  <2>3. QED
    BY <2>1, <2>2
<1>5. QED
  BY <1>4 DEF OneExit

LEMMA OneExitStep ==
  ASSUME TableInv, OneExit, [DeskNext]_deskVars
  PROVE  OneExit'
<1>1. DeskInv /\ EntriesNamed /\ contended \subseteq contended'
  BY GhostsGrow DEF TableInv
<1>2. CASE Enters \/ QueueRests \/ (\E w \in Workers, i \in Ids : CloseOrder(w, i))
           \/ (\E w \in Workers : CloseOpenTrades(w))
  <2>1. closers' = closers
    BY <1>2 DEF Enters, QueueRests, CloseOrder, CloseOpenTrades
  <2>2. \A m \in queue' : m.order.cond = "EXIT" => m \in queue
    <3>1. CASE Enters
      BY <3>1 DEF Enters, EntryOrder
    <3>2. QED
      BY <1>2, <3>1 DEF QueueRests, CloseOrder, CloseOpenTrades
  <2>3. \A r \in RequestIds, i \in Ids : ExitOf(r, i)' => ExitOf(r, i)
    BY <2>2, ExitsDelivered DEF ExitOf, Exit
  <2>4. ASSUME NEW i \in Ids \ contended', NEW r \in RequestIds, ExitOf(r, i)'
        PROVE  /\ closers'[i] # {} /\ (closers'[i] = {"manual_close"} => r = ManualClose(i))
               /\ \A q \in RequestIds : ExitOf(q, i)' => q = r
    BY <1>1, <2>1, <2>3, <2>4 DEF OneExit
  <2>5. QED
    BY <2>4 DEF OneExit
<1>3. QED
  BY <1>1, <1>2, OneExitByOrder, QueueSteps

LEMMA FlatInvStep ==
  ASSUME FlatInv, [DeskNext]_deskVars
  PROVE  FlatInv'
  BY TableInvStep, ExitsFitStep, OneExitStep DEF FlatInv

LEMMA FlatInvInit ==
  ASSUME DeskInit
  PROVE  FlatInv
<1>1. queue = {} /\ (\A w \in Workers : worker[w].todo = {}) /\ \A r \in RequestIds : rows[r] = NoRow
  BY DEF DeskInit, IdleWorker
<1>2. QED
  BY <1>1, TableInvInit DEF FlatInv, ExitsFit, OneExit, ExitOf

-----------------------------------------------------------------------------
\* The position of an entry and its close is the sum of two fills.

\* The equation that MapThenSumSet takes a solution of.
SumsUp(it, S) ==
  it = [s \in SUBSET S |-> IF s = {} THEN 0
          ELSE LET x == CHOOSE x \in s : TRUE IN Signed(x) + it[s \ {x}]]

LEMMA SumIsSolution ==
  ASSUME NEW S, NEW h, SumsUp(h, S)
  PROVE  \E it : SumsUp(it, S) /\ MapThenSumSet(Signed, S) = it[S]
<1> DEFINE iter == CHOOSE it : SumsUp(it, S)
<1>1. MapThenSumSet(Signed, S) = iter[S]
  BY DEF MapThenSumSet, MapThenFoldSet, SumsUp
<1>2. SumsUp(iter, S)
  OBVIOUS
<1>3. QED
  BY <1>1, <1>2

LEMMA SumOfNone == MapThenSumSet(Signed, {}) = 0
<1> DEFINE h == [s \in SUBSET {} |-> 0]
<1>1. SumsUp(h, {})
  BY DEF SumsUp
<1>2. PICK it : SumsUp(it, {}) /\ MapThenSumSet(Signed, {}) = it[{}]
  BY <1>1, SumIsSolution
<1>3. it[{}] = 0
  BY <1>2 DEF SumsUp
<1>4. QED
  BY <1>2, <1>3

\* One unfolding of the equation.
LEMMA SumUnfolds ==
  ASSUME NEW S, NEW it, SumsUp(it, S)
  PROVE  /\ it[{}] = 0
         /\ \A s \in SUBSET S : s # {} => \E x \in s : it[s] = Signed(x) + it[s \ {x}]
<1>1. it[{}] = 0
  BY DEF SumsUp
<1>2. ASSUME NEW s \in SUBSET S, s # {}
      PROVE  \E x \in s : it[s] = Signed(x) + it[s \ {x}]
  <2> DEFINE x == CHOOSE x \in s : TRUE
  <2>1. x \in s
    BY <1>2
  <2>2. it[s] = Signed(x) + it[s \ {x}]
    BY <1>2 DEF SumsUp
  <2> HIDE DEF x
  <2>3. QED
    BY <2>1, <2>2
<1>3. QED
  BY <1>1, <1>2

LEMMA SumOfTwo ==
  ASSUME NEW a, NEW b, a # b, Signed(a) \in Int, Signed(b) \in Int
  PROVE  MapThenSumSet(Signed, {a, b}) = Signed(a) + Signed(b)
<1>0. PICK g \in Int, k \in Int : Signed(a) = g /\ Signed(b) = k
  OBVIOUS
<1> DEFINE S == {a, b}
           h == [s \in SUBSET S |-> IF s = {} THEN 0 ELSE IF s = {a} THEN g
                                    ELSE IF s = {b} THEN k ELSE g + k]
           step(it, s) == IF s = {} THEN 0
                          ELSE LET x == CHOOSE x \in s : TRUE IN Signed(x) + it[s \ {x}]
<1>1. h[{}] = 0 /\ h[{a}] = g /\ h[{b}] = k /\ h[S] = g + k
  <2>1. {} \in SUBSET S /\ {a} \in SUBSET S /\ {b} \in SUBSET S /\ S \in SUBSET S
        /\ S # {a} /\ S # {b} /\ {b} # {a} /\ S # {}
    OBVIOUS
  <2>2. QED
    BY <2>1
<1>2. h = [s \in SUBSET S |-> h[s]]
  OBVIOUS
<1> HIDE DEF h
<1>3. ASSUME NEW s \in SUBSET S
      PROVE  h[s] = step(h, s)
  <2>1. s = {} \/ s = {a} \/ s = {b} \/ s = S
    OBVIOUS
  <2>2. CASE s = {}
    BY <1>1, <2>2
  <2>3. ASSUME s # {}
        PROVE  h[s] = step(h, s)
    <3> DEFINE x == CHOOSE x \in s : TRUE
    <3>1. x \in s
      BY <2>3
    <3>2. step(h, s) = Signed(x) + h[s \ {x}]
      BY <2>3
    <3> HIDE DEF x, step
    <3>3. x = a \/ x = b
      BY <3>1
    <3>4. CASE s = {a}
      <4>1. x = a /\ s \ {x} = {}
        BY <3>1, <3>4
      <4>2. QED
        BY <1>0, <1>1, <3>2, <3>4, <4>1
    <3>5. CASE s = {b}
      <4>1. x = b /\ s \ {x} = {}
        BY <3>1, <3>5
      <4>2. QED
        BY <1>0, <1>1, <3>2, <3>5, <4>1
    <3>6. CASE s = S /\ x = a
      <4>1. s \ {x} = {b}
        BY <3>6
      <4>2. QED
        BY <1>0, <1>1, <3>2, <3>6, <4>1
    <3>7. CASE s = S /\ x = b
      <4>1. s \ {x} = {a}
        BY <3>7
      <4>2. QED
        BY <1>0, <1>1, <3>2, <3>7, <4>1
    <3>8. QED
      BY <2>1, <2>3, <3>3, <3>4, <3>5, <3>6, <3>7
  <2>4. QED
    BY <2>2, <2>3
<1>4. SumsUp(h, S)
  <2>1. h = [s \in SUBSET S |-> step(h, s)]
    <3> HIDE DEF step
    <3>1. QED
      BY <1>2, <1>3
  <2>2. QED
    BY <2>1 DEF SumsUp
<1>5. PICK it : SumsUp(it, S) /\ MapThenSumSet(Signed, S) = it[S]
  BY <1>4, SumIsSolution
<1>6. /\ it[{}] = 0
      /\ \A s \in SUBSET S : s # {} => \E x \in s : it[s] = Signed(x) + it[s \ {x}]
  BY <1>5, SumUnfolds
<1>7. it[{a}] = g
  <2>1. \E x \in {a} : it[{a}] = Signed(x) + it[{a} \ {x}]
    BY <1>6
  <2>2. {a} \ {a} = {}
    OBVIOUS
  <2>3. QED
    BY <1>0, <1>6, <2>1, <2>2
<1>8. it[{b}] = k
  <2>1. PICK x \in {b} : it[{b}] = Signed(x) + it[{b} \ {x}]
    BY <1>6
  <2>2. x = b /\ {b} \ {x} = {}
    OBVIOUS
  <2>3. it[{b}] = k + 0
    BY <1>0, <1>6, <2>1, <2>2
  <2>4. QED
    BY <1>0, <2>3
<1>9. it[S] = g + k
  <2>1. \E x \in S : it[S] = Signed(x) + it[S \ {x}]
    BY <1>6
  <2>2. S \ {a} = {b} /\ S \ {b} = {a}
    OBVIOUS
  <2>3. it[S] = Signed(a) + it[{b}] \/ it[S] = Signed(b) + it[{a}]
    BY <2>1, <2>2
  <2>4. QED
    BY <1>0, <1>7, <1>8, <2>3
<1>10. QED
  BY <1>0, <1>5, <1>9

\* A closed entry leaves nothing behind.
LEMMA FlatInvFlat ==
  ASSUME FlatInv
  PROVE  ClosedIsFlat
<1> SUFFICES ASSUME NEW i \in Ids \ contended, Entry(i), Closed(i), ~Hedged(i),
                    NEW s \in PositionSides
             PROVE  PositionOf(i, s) = 0
  BY DEF ClosedIsFlat, Flat
<1> DEFINE mine == {r \in RequestIds : book[r] # NoRow /\ book[r].order.entry = i
                                                      /\ book[r].at = s}
<1>1. TableInv /\ DeskInv /\ EntriesNamed /\ i \in RequestIds
  BY IdFacts DEF FlatInv, TableInv
<1>2. PositionOf(i, s) = MapThenSumSet(Signed, mine)
  BY DEF PositionOf
<1>3. \A r \in RequestIds : book[r] # NoRow =>
        /\ book[r] \in Books /\ rows[r] # NoRow /\ Backed(r) /\ ~rows[r].order.paper
        /\ rows[r].order.cond = book[r].order.cond /\ rows[r].order.entry = book[r].order.entry
        /\ rows[r].order.side = book[r].order.side /\ ~book[r].order.paper
  <2> TAKE r \in RequestIds
  <2>1. HAVE book[r] # NoRow
  <2>2. book[r] \in Books /\ rows[r] # NoRow /\ Backed(r)
    BY <1>1, <2>1 DEF TableInv, RowsBacked, DeskInv, DeskTypeOK, Recorded, Books
  <2>3. ~rows[r].order.paper /\ rows[r].order = [book[r].order EXCEPT !.pos = book[r].at]
    BY <2>1, <2>2 DEF Backed
  <2>4. book[r].order \in Orders /\ book[r].at \in PositionSides
    BY <2>2 DEF Books
  <2>5. QED
    BY <2>2, <2>3, <2>4, PlacedFields
<1>4. \A r \in RequestIds : book[r] # NoRow /\ book[r].order.entry = i =>
        r = i \/ Exit(rows[r].order, i)
  BY <1>1, <1>3 DEF EntriesNamed, Exit, Books, Orders
<1>5. PICK x \in RequestIds : /\ rows[x] # NoRow /\ Exit(rows[x].order, i)
                              /\ rows[x].fill.status = "FILLED"
  BY DEF Closed, Exit
<1>6. \A r \in RequestIds : rows[r] # NoRow /\ Exit(rows[r].order, i) => r = x
  BY <1>5 DEF FlatInv, OneExit, ExitOf
<1>7. Closes(IF rows[x].order.paper THEN rows[x].order ELSE book[x].order, i)
  BY <1>5 DEF FlatInv, ExitsFit
<1>8. CASE rows[i].order.paper
  <2>1. rows[x].order.paper
    <3>1. CASE ~rows[x].order.paper
      <4>1. book[x] # NoRow
        BY <1>1, <1>5, <3>1 DEF TableInv, RowsBacked, Backed
      <4>2. ~book[x].order.paper
        BY <1>3, <4>1
      <4>3. book[x].order.paper = rows[i].order.paper
        BY <1>7, <3>1 DEF Closes
      <4>4. QED
        BY <1>8, <4>2, <4>3
    <3>2. QED
      BY <3>1
  <2>2. book[x] = NoRow /\ book[i] = NoRow
    BY <1>1, <1>5, <1>8, <2>1 DEF TableInv, RowsBacked, Backed, Entry
  <2>3. mine = {}
    BY <1>3, <1>4, <1>6, <2>2
  <2>4. QED
    BY <1>2, <2>3, SumOfNone
<1>9. CASE ~rows[i].order.paper
  <2>1. book[i] \in Books
    BY <1>1, <1>9, EntryBook
  <2>2. ~rows[x].order.paper
    BY <1>7, <1>9 DEF Closes
  <2>3. /\ book[x] # NoRow /\ book[x].fill = rows[x].fill
        /\ book[x].at = Submitted(book[x].order)
        /\ book[x].fill.filled = book[x].order.qty
    BY <1>1, <1>5, <2>2 DEF TableInv, RowsBacked, Backed
  <2>4. book[x] \in Books /\ book[x].order.entry = i
    BY <1>3, <1>5, <2>3 DEF Exit
  <2>5. /\ book[x].order.qty = book[i].fill.filled /\ book[x].at = book[i].at
        /\ SideCode(book[x].order.side) # SideCode(book[i].order.side)
    <3>1. Fits(book[x].order, i)
      <4>1. Closes(book[x].order, i) /\ ~book[x].order.paper
        BY <1>3, <1>7, <2>2, <2>3
      <4>2. QED
        BY <4>1 DEF Closes
    <3>2. QED
      BY <2>3, <3>1 DEF Fits
  <2>6. x # i
    BY <1>5 DEF Exit, Entry
  <2>7. book[i].order.entry = i /\ book[i] # NoRow
    BY <1>1, <1>3, <2>1, NoRowFacts DEF EntriesNamed, Entry
  <2>8. mine = IF book[i].at = s THEN {i, x} ELSE {}
    BY <1>1, <1>4, <1>6, <1>3, <2>3, <2>4, <2>5, <2>7
  <2>9. Signed(i) \in Int /\ Signed(x) \in Int /\ Signed(i) + Signed(x) = 0
    <3>1. book[i].fill.filled \in Int /\ book[x].fill.filled = book[i].fill.filled
      BY <2>1, <2>3, <2>5, DeskBoundsAssumption DEF Books, Fills
    <3>2. SideCode(book[x].order.side) \in {"BUY", "SELL"}
          /\ SideCode(book[i].order.side) \in {"BUY", "SELL"}
      BY DEF SideCode
    <3>3. QED
      BY <2>5, <3>1, <3>2 DEF Signed
  <2>10. CASE book[i].at = s
    BY <1>2, <2>6, <2>8, <2>9, <2>10, SumOfTwo
  <2>11. CASE book[i].at # s
    BY <1>2, <2>8, <2>11, SumOfNone
  <2>12. QED
    BY <2>10, <2>11
<1>10. QED
  BY <1>8, <1>9

\* An entry that the app shows as closed has no position left on either side,
\* whatever was redelivered, matched in parts or asked for twice: a close is for
\* what the exchange filled (buildManualCloseOrder, buildDisableStrategyCloseOrder),
\* on the other side, at the position side the gateway and the exchange settle on,
\* and placed once - outside the cases ClosedIsFlat names.
THEOREM ClosedEntriesAreFlat == DeskSpec => []ClosedIsFlat
<1>1. FlatInv /\ [DeskNext]_deskVars => FlatInv'
  BY FlatInvStep
<1>2. QED
  BY <1>1, FlatInvInit, FlatInvFlat, PTL DEF DeskSpec
=============================================================================
