---------------------------- MODULE OrderTrades ----------------------------
(***************************************************************************)
(* The projection order_trades and the trigger that maintains it from      *)
(* order_histories: for each entry_order_id the latest ENTRY row with the  *)
(* latest FILLED row that is not an ENTRY.  A write of order_histories is  *)
(* a transaction at READ COMMITTED: the trigger reads in a snapshot of its *)
(* own (what is committed by then, and its transaction's own write), the   *)
(* upsert waits for the transaction that holds the trade's row and then    *)
(* stores what was read before the wait.                                   *)
(***************************************************************************)
EXTENDS Naturals, Sequences, FiniteSets

CONSTANTS
  Txns,    \* database sessions
  Ids,     \* order_histories.id; a number, the rank of its created_at
  Pairs,   \* values of entry_order_id
  NoPair,  \* entry_order_id ''
  None

ASSUME IdsAssumption == Ids \subseteq Nat \ {0} /\ IsFiniteSet(Ids)
ASSUME PairsAssumption == NoPair \notin Pairs /\ None \notin Pairs

VARIABLES
  hist,       \* order_histories as committed: a row or None for each id
  trades,     \* order_trades as committed: a trade or None for each pair
  tx,         \* what each session is doing
  overlapped  \* ghost: pairs two open transactions have worked on together

vars == <<hist, trades, tx, overlapped>>

-----------------------------------------------------------------------------
Rows == [pair : Pairs \cup {NoPair}, cond : {"ENTRY", "EXIT"}, filled : BOOLEAN]

ASSUME RowsAssumption == None \notin Rows

\* A trade: entry_history_id with whether its filled or its ordered quantity is
\* shown, and the row exit_price and exit_time come from (None: still open).
Trades == [entry : Ids, filled : BOOLEAN, exit : Ids \cup {None}]

Latest(ids) == CHOOSE i \in ids : \A j \in ids : j <= i

\* (A definition named Mut... is the one after it with a plausible fault: each
\* property below rules one of them out.)

EntriesOf(h, p) == {i \in Ids : h[i] # None /\ h[i].pair = p /\ h[i].cond = "ENTRY"}
MutExitsOf(h, p) == {i \in Ids : h[i] # None /\ h[i].pair = p /\ h[i].cond # "ENTRY"}
ExitsOf(h, p) ==
  {i \in Ids : h[i] # None /\ h[i].pair = p /\ h[i].cond # "ENTRY" /\ h[i].filled}

\* The SELECT of refresh_order_trade: no row without an ENTRY.
TradeOf(h, p) ==
  IF EntriesOf(h, p) = {} THEN None
  ELSE LET e == Latest(EntriesOf(h, p)) IN
       [entry |-> e, filled |-> h[e].filled,
        exit |-> IF ExitsOf(h, p) = {} THEN None ELSE Latest(ExitsOf(h, p))]

\* A session: the row it writes (new = None: DELETE), the pairs the trigger has
\* still to refresh, what the SELECT for the first of them returned, the
\* trades it has written and not yet committed, and whether it is maintenance.
Idle == [at |-> "idle", repair |-> FALSE, id |-> None, new |-> None, todo |-> <<>>,
         read |-> None, wrote |-> [p \in {} |-> None]]

Open(t) == tx[t].at # "idle"

\* What the statements of t see of the two tables.
Hist(t) == IF Open(t) THEN [hist EXCEPT ![tx[t].id] = tx[t].new] ELSE hist
TradesSeen(t) == [p \in Pairs |-> IF p \in DOMAIN tx[t].wrote THEN tx[t].wrote[p] ELSE trades[p]]
Locked(t, p) == \E u \in Txns \ {t} : p \in DOMAIN tx[u].wrote

\* The pairs sync_order_trade refreshes, OLD before NEW; refresh_order_trade
\* returns at once for ''.
Real(p) == IF p = NoPair THEN <<>> ELSE <<p>>
MutRefreshes(old, new) ==
  IF old = None THEN Real(new.pair)
  ELSE IF new = None THEN Real(old.pair)
  ELSE IF old.pair # new.pair THEN Real(new.pair) \o Real(old.pair) ELSE Real(new.pair)
Refreshes(old, new) ==
  IF old = None THEN Real(new.pair)
  ELSE IF new = None THEN Real(old.pair)
  ELSE IF old.pair # new.pair THEN Real(old.pair) \o Real(new.pair) ELSE Real(new.pair)

\* ("refused" is not among a session's places: no write of order_histories is
\* refused for the projection's sake.  An ENTRY that moves to another pair has
\* left its old trade by then.)
TypeOK ==
  /\ hist \in [Ids -> Rows \cup {None}]
  /\ trades \in [Pairs -> Trades \cup {None}]
  /\ \A t \in Txns :
       /\ tx[t].at \in {"idle", "select", "upsert", "commit"}
       /\ tx[t].repair \in BOOLEAN
       /\ tx[t].id \in Ids \cup {None}
       /\ tx[t].new \in Rows \cup {None}
       /\ tx[t].todo \in Seq(Pairs)
       /\ tx[t].read \in Trades \cup {None}
       /\ DOMAIN tx[t].wrote \subseteq Pairs
       /\ \A p \in DOMAIN tx[t].wrote : tx[t].wrote[p] \in Trades \cup {None}
  /\ overlapped \subseteq Pairs

Init ==
  /\ hist = [i \in Ids |-> None]
  /\ trades = [p \in Pairs |-> None]
  /\ tx = [t \in Txns |-> Idle]
  /\ overlapped = {}

-----------------------------------------------------------------------------
\* Writes of order_histories, each with the trigger as one transaction

Touches(id, new) ==
  {p \in Pairs : (hist[id] # None /\ hist[id].pair = p) \/ (new # None /\ new.pair = p)}

\* The statement holds the row's lock from here to the end of its transaction.
\* A DELETE cascades to the trade that references the row.
Write(t, id, new, repair) ==
  /\ ~Open(t)
  /\ \A u \in Txns : Open(u) => tx[u].id # id /\ ~tx[u].repair
  /\ LET todo == Refreshes(hist[id], new)
         gone == {p \in Pairs : new = None /\ trades[p] # None /\ trades[p].entry = id}
     IN  tx' = [tx EXCEPT ![t] =
                  [at |-> IF todo = <<>> THEN "commit" ELSE "select", repair |-> repair,
                   id |-> id, new |-> new, todo |-> todo, read |-> None,
                   wrote |-> [p \in gone |-> None]]]
  /\ overlapped' = overlapped \cup
       (Touches(id, new) \cap
          UNION {Touches(tx[u].id, tx[u].new) : u \in {v \in Txns : Open(v)}})
  /\ UNCHANGED <<hist, trades>>

\* OrderHistoryRepository.Create (PlaceOrder)
Create(t) ==
  \E id \in Ids, new \in Rows : hist[id] = None /\ Write(t, id, new, FALSE)

\* OrderHistoryRepository.Update: the worker rewrites a pending row, with the
\* pair and the condition it has read from it.
Update(t) ==
  \E id \in Ids, f \in BOOLEAN :
    /\ hist[id] # None
    /\ ~hist[id].filled
    /\ Write(t, id, [hist[id] EXCEPT !.filled = f], FALSE)

\* OrderHistoryRepository.Delete and corrections of entry_order_id, which the
\* trigger provides for and no service makes: maintenance, done while nothing
\* else writes.
Maintain(t) ==
  /\ \A u \in Txns : ~Open(u)
  /\ \E id \in Ids : /\ hist[id] # None
                     /\ \E new \in Rows \cup {None} : Write(t, id, new, TRUE)

\* refresh_order_trade's SELECT
Select(t) ==
  /\ tx[t].at = "select"
  /\ tx' = [tx EXCEPT ![t].at = "upsert", ![t].read = TradeOf(Hist(t), Head(tx[t].todo))]
  /\ UNCHANGED <<hist, trades, overlapped>>

MutNotFound(t, p) == FALSE
\* IF NOT FOUND: the SELECT gave no trade and there is one to delete.
NotFound(t, p) == tx[t].read = None /\ TradesSeen(t)[p] # None

\* INSERT ... ON CONFLICT (entry_order_id) DO UPDATE, or the DELETE; both wait
\* for a session that has written the trade.  entry_history_id is unique.
Upsert(t) ==
  LET p == Head(tx[t].todo)
      rest == Tail(tx[t].todo)
      taken == tx[t].read # None /\ \E q \in Pairs \ {p} :
                 TradesSeen(t)[q] # None /\ TradesSeen(t)[q].entry = tx[t].read.entry
      wrote == IF tx[t].read # None \/ NotFound(t, p)
               THEN [q \in DOMAIN tx[t].wrote \cup {p} |->
                       IF q = p THEN tx[t].read ELSE tx[t].wrote[q]]
               ELSE tx[t].wrote
  IN  /\ tx[t].at = "upsert"
      /\ tx[t].read # None \/ trades[p] # None => ~Locked(t, p)
      /\ tx' = [tx EXCEPT ![t] =
           IF taken THEN [@ EXCEPT !.at = "refused"]
           ELSE [@ EXCEPT !.at = IF rest = <<>> THEN "commit" ELSE "select",
                          !.todo = rest, !.read = None, !.wrote = wrote]]
      /\ UNCHANGED <<hist, trades, overlapped>>

Commit(t) ==
  /\ tx[t].at = "commit"
  /\ hist' = Hist(t)
  /\ trades' = TradesSeen(t)
  /\ tx' = [tx EXCEPT ![t] = Idle]
  /\ UNCHANGED overlapped

\* The statement fails, or its session is lost before the commit.
Rollback(t) ==
  /\ Open(t)
  /\ tx' = [tx EXCEPT ![t] = Idle]
  /\ UNCHANGED <<hist, trades, overlapped>>

-----------------------------------------------------------------------------
Session(t) ==
  \/ Create(t) \/ Update(t) \/ Maintain(t)
  \/ Select(t) \/ Upsert(t) \/ Commit(t) \/ Rollback(t)

Next == \E t \in Txns : Session(t)

Spec == Init /\ [][Next]_vars

-----------------------------------------------------------------------------
\* Properties

\* As long as no two transactions worked on a pair at the same time, its trade
\* is the one its rows define, whatever was inserted, updated, deleted or moved
\* to another pair, and in whatever order of created_at.
TradesExact == \A p \in Pairs \ overlapped : trades[p] = TradeOf(hist, p)

\* A trade never shows what did not happen, overlapping transactions included:
\* its entry is an ENTRY of the pair, and its exit a FILLED order of the pair.
TradesReal ==
  \A p \in Pairs : trades[p] # None =>
    /\ trades[p].entry \in EntriesOf(hist, p)
    /\ LET e == trades[p].exit IN e # None =>
         hist[e] # None /\ hist[e].pair = p /\ hist[e].cond # "ENTRY" /\ hist[e].filled

\* "... use the standard ENTRY/EXIT pairing and therefore appear in trade
\* history": once everything is committed, a pair with an ENTRY and a FILLED
\* exit is a closed trade.
ClosedTradeShown ==
  (\A t \in Txns : ~Open(t)) =>
    \A p \in Pairs : EntriesOf(hist, p) # {} /\ ExitsOf(hist, p) # {} =>
      trades[p] # None /\ trades[p].exit # None
=============================================================================
