-------------------------- MODULE OrderTradesProofs --------------------------
(***************************************************************************)
(* Theorems about OrderTrades, for any number of sessions, pairs and rows: *)
(* the projection is exact where sessions have not overlapped and never    *)
(* shows what did not happen.  Sessions are handled as values: Sound says  *)
(* of one, next to the committed tables, what it must be, and the lemmas   *)
(* about single steps speak of values only.                                *)
(***************************************************************************)
EXTENDS OrderTrades, FiniteSetTheorems, SequenceTheorems, WellFoundedInduction, TLAPS

-----------------------------------------------------------------------------
\* The latest row

\* A finite set of ids has a latest one: the one with the fewest above it.
LEMMA LatestIn ==
  ASSUME NEW S \in SUBSET Ids, S # {}
  PROVE  Latest(S) \in S
<1> DEFINE Above(x) == {y \in S : y > x}
           T == {Above(x) : x \in S}
<1>1. S \subseteq Nat /\ IsFiniteSet(S)
  BY IdsAssumption, FS_Subset
<1>2. T \subseteq FiniteSubsetsOf(S) /\ T # {}
  <2>1. \A x \in S : Above(x) \subseteq S
    OBVIOUS
  <2>2. \A x \in S : Above(x) \in FiniteSubsetsOf(S)
    BY <1>1, <2>1, FS_Subset DEF FiniteSubsetsOf
  <2>3. QED
    BY <2>2
<1>3. PICK m \in T : \A n \in T : ~ (<<n, m>> \in StrictSubsetOrdering(S))
  <2>1. IsWellFoundedOn(StrictSubsetOrdering(S), FiniteSubsetsOf(S))
    BY FS_StrictSubsetOrderingWellFounded
  <2> HIDE DEF T
  <2>2. QED
    BY <1>2, <2>1, WFMin
<1>4. PICK x \in S : m = Above(x)
  BY <1>3
<1>5. ASSUME NEW y \in S, ~(y <= x)
      PROVE  FALSE
  <2>1. y \in Above(x) /\ y \notin Above(y) /\ \A z \in S : z > y => z > x
    BY <1>1, <1>5
  <2>2. Above(y) \subseteq Above(x) /\ Above(y) # Above(x)
    BY <2>1
  <2>3. <<Above(y), Above(x)>> \in StrictSubsetOrdering(S)
    BY <2>2 DEF StrictSubsetOrdering
  <2>4. QED
    BY <1>3, <1>4, <2>3
<1>6. \E i \in S : \A j \in S : j <= i
  BY <1>5
<1>7. QED
  BY <1>6 DEF Latest

-----------------------------------------------------------------------------
\* Trades and the rows they are made of

Histories == [Ids -> Rows \cup {None}]

\* A trade shows nothing that did not happen in h.
RealTrade(h, p, trade) ==
  trade # None => /\ trade.entry \in EntriesOf(h, p)
                  /\ trade.exit # None => trade.exit \in ExitsOf(h, p)

\* h and g have the same rows of the pair p.
SamePair(h, g, p) ==
  \A i \in Ids : (h[i] # None /\ h[i].pair = p) \/ (g[i] # None /\ g[i].pair = p) => h[i] = g[i]

\* g has what h has, with more of it filled.
Grows(h, g) ==
  \A i \in Ids : h[i] # None => /\ g[i] # None /\ g[i].pair = h[i].pair /\ g[i].cond = h[i].cond
                                /\ h[i].filled => g[i].filled

LEMMA TradeOfReal ==
  ASSUME NEW h \in Histories, NEW p
  PROVE  TradeOf(h, p) \in Trades \cup {None} /\ RealTrade(h, p, TradeOf(h, p))
<1>1. EntriesOf(h, p) \in SUBSET Ids /\ ExitsOf(h, p) \in SUBSET Ids
  BY DEF EntriesOf, ExitsOf
<1>2. CASE EntriesOf(h, p) = {}
  BY <1>2 DEF TradeOf, RealTrade
<1>3. CASE EntriesOf(h, p) # {}
  <2> DEFINE e == Latest(EntriesOf(h, p))
             x == IF ExitsOf(h, p) = {} THEN None ELSE Latest(ExitsOf(h, p))
  <2>1. e \in EntriesOf(h, p) /\ (x # None => x \in ExitsOf(h, p))
    BY <1>1, <1>3, LatestIn
  <2>2. h[e].filled \in BOOLEAN
    BY <2>1 DEF EntriesOf, Histories, Rows
  <2>3. TradeOf(h, p) = [entry |-> e, filled |-> h[e].filled, exit |-> x]
    BY <1>3 DEF TradeOf
  <2>4. e \in Ids /\ x \in Ids \cup {None}
    BY <1>1, <2>1
  <2> HIDE DEF e, x
  <2>5. QED
    BY <2>1, <2>2, <2>3, <2>4 DEF RealTrade, Trades
<1>4. QED
  BY <1>2, <1>3

LEMMA SameTrade ==
  ASSUME NEW h, NEW g, NEW p, SamePair(h, g, p)
  PROVE  /\ EntriesOf(h, p) = EntriesOf(g, p) /\ ExitsOf(h, p) = ExitsOf(g, p)
         /\ TradeOf(h, p) = TradeOf(g, p)
<1>1. EntriesOf(h, p) = EntriesOf(g, p) /\ ExitsOf(h, p) = ExitsOf(g, p)
  BY DEF EntriesOf, ExitsOf, SamePair
<1>2. EntriesOf(h, p) # {} => h[Latest(EntriesOf(h, p))] = g[Latest(EntriesOf(h, p))]
  <2>1. EntriesOf(h, p) \in SUBSET Ids
    BY DEF EntriesOf
  <2>2. EntriesOf(h, p) # {} => Latest(EntriesOf(h, p)) \in EntriesOf(h, p)
    BY <2>1, LatestIn
  <2>3. QED
    BY <2>2 DEF EntriesOf, SamePair
<1>3. QED
  BY <1>1, <1>2 DEF TradeOf

LEMMA SameReal ==
  ASSUME NEW h, NEW g, NEW p, SamePair(h, g, p), NEW trade, RealTrade(h, p, trade)
  PROVE  RealTrade(g, p, trade)
  BY SameTrade DEF RealTrade

LEMMA RealGrows ==
  ASSUME NEW h, NEW g, Grows(h, g), NEW p, NEW trade, RealTrade(h, p, trade)
  PROVE  RealTrade(g, p, trade)
  BY DEF RealTrade, Grows, EntriesOf, ExitsOf

-----------------------------------------------------------------------------
\* The pairs a trigger has still to refresh

Pending(todo) == {todo[i] : i \in DOMAIN todo}

LEMMA Joined ==
  ASSUME NEW a \in Pairs, NEW b \in Pairs
  PROVE  <<a>> \o <<b>> = <<a, b>> /\ <<a>> \o <<>> = <<a>> /\ <<>> \o <<b>> = <<b>>
<1>1. <<a>> \in Seq(Pairs) /\ <<b>> \in Seq(Pairs) /\ <<a, b>> \in Seq(Pairs)
  OBVIOUS
<1>2. Len(<<a>>) = 1 /\ Len(<<b>>) = 1 /\ Len(<<a, b>>) = 2
  OBVIOUS
<1>3. /\ Len(<<a>> \o <<b>>) = 2 /\ (<<a>> \o <<b>>)[1] = a /\ (<<a>> \o <<b>>)[2] = b
      /\ <<a>> \o <<b>> \in Seq(Pairs)
  BY <1>1, <1>2
<1>4. \A i \in 1..2 : (<<a>> \o <<b>>)[i] = <<a, b>>[i]
  <2>1. \A i \in 1..2 : i = 1 \/ i = 2
    OBVIOUS
  <2>2. QED
    BY <1>3, <2>1
<1>5. <<a>> \o <<b>> = <<a, b>>
  BY <1>1, <1>2, <1>3, <1>4, SeqEqual
<1>6. QED
  BY <1>1, <1>5, ConcatEmptySeq

LEMMA Heads ==
  ASSUME NEW a, NEW b
  PROVE  /\ Pending(<<>>) = {} /\ Pending(<<a>>) = {a} /\ Pending(<<a, b>>) = {a, b}
         /\ Head(<<a>>) = a /\ Tail(<<a>>) = <<>> /\ Head(<<a, b>>) = a /\ Tail(<<a, b>>) = <<b>>
         /\ <<a>> # <<>> /\ <<a, b>> # <<>>
  BY DEF Pending

\* The pairs a statement that makes the row old into new works on.
Own(old, new) ==
  {p \in Pairs : (old # None /\ old.pair = p) \/ (new # None /\ new.pair = p)}

\* What is left of a plan: nothing, one pair, or the old pair and then the new.
Plan(old, new, todo) ==
  \/ todo = <<>>
  \/ \E p \in Own(old, new) : todo = <<p>>
  \/ \E p, q \in Own(old, new) : p # q /\ todo = <<p, q>> /\ old # None /\ old.pair = p

LEMMA Refreshed ==
  ASSUME NEW old \in Rows \cup {None}, NEW new \in Rows \cup {None}, old # None \/ new # None
  PROVE  /\ Plan(old, new, Refreshes(old, new))
         /\ Pending(Refreshes(old, new)) = Own(old, new)
         /\ Refreshes(old, new) \in Seq(Pairs)
<1>1. /\ old # None => old.pair \in Pairs \cup {NoPair}
      /\ new # None => new.pair \in Pairs \cup {NoPair}
  BY DEF Rows
<1> DEFINE r == Refreshes(old, new)
           o == Own(old, new)
<1> SUFFICES (\/ r = <<>> /\ o = {}
              \/ \E p \in Pairs : r = <<p>> /\ o = {p}
              \/ \E p, q \in Pairs : p # q /\ r = <<p, q>> /\ o = {p, q} /\ old # None /\ old.pair = p)
  <2>1. ASSUME r = <<>>, o = {}
        PROVE  Plan(old, new, r) /\ Pending(r) = o /\ r \in Seq(Pairs)
    <3>1. Plan(old, new, r)
      BY <2>1 DEF Plan
    <3>2. Pending(r) = o
      BY <2>1 DEF Pending
    <3>3. r \in Seq(Pairs)
      BY <2>1
    <3>4. QED
      BY <3>1, <3>2, <3>3
  <2>2. ASSUME NEW p \in Pairs, r = <<p>>, o = {p}
        PROVE  Plan(old, new, r) /\ Pending(r) = o /\ r \in Seq(Pairs)
    <3>1. Pending(<<p>>) = {p}
      BY Heads
    <3>2. <<p>> \in Seq(Pairs)
      OBVIOUS
    <3>3. Plan(old, new, r)
      BY <2>2 DEF Plan
    <3>4. QED
      BY <2>2, <3>1, <3>2, <3>3
  <2>3. ASSUME NEW p \in Pairs, NEW q \in Pairs, p # q, r = <<p, q>>, o = {p, q},
               old # None, old.pair = p
        PROVE  Plan(old, new, r) /\ Pending(r) = o /\ r \in Seq(Pairs)
    <3>1. Pending(<<p, q>>) = {p, q}
      BY Heads
    <3>2. <<p, q>> \in Seq(Pairs)
      OBVIOUS
    <3>3. Plan(old, new, r)
      BY <2>3 DEF Plan
    <3>4. QED
      BY <2>3, <3>1, <3>2, <3>3
  <2>4. QED
    BY <2>1, <2>2, <2>3
<1>2. \A p \in Pairs : Real(p) = <<p>>
  BY PairsAssumption DEF Real
<1>3. Real(NoPair) = <<>>
  BY DEF Real
<1>4. ASSUME old = None \/ new = None \/ old.pair = new.pair
      PROVE  (r = <<>> /\ o = {}) \/ \E p \in Pairs : r = <<p>> /\ o = {p}
  <2> DEFINE p == IF old = None THEN new.pair ELSE old.pair
  <2>1. r = Real(p) /\ p \in Pairs \cup {NoPair} /\ o = {p} \cap Pairs
    BY <1>1, <1>4 DEF Refreshes, Own
  <2> HIDE DEF p, r, o
  <2>2. CASE p = NoPair
    BY <1>3, <2>1, <2>2, PairsAssumption
  <2>3. CASE p # NoPair
    BY <1>2, <2>1, <2>3
  <2>4. QED
    BY <2>2, <2>3
<1>5. ASSUME old # None, new # None, old.pair # new.pair
      PROVE  \/ \E p \in Pairs : r = <<p>> /\ o = {p}
             \/ \E p, q \in Pairs : p # q /\ r = <<p, q>> /\ o = {p, q} /\ old # None /\ old.pair = p
  <2>1. r = Real(old.pair) \o Real(new.pair) /\ o = {old.pair, new.pair} \cap Pairs
    BY <1>1, <1>5 DEF Refreshes, Own
  <2> HIDE DEF r, o
  <2>2. CASE old.pair \in Pairs /\ new.pair \in Pairs
    <3>1. r = <<old.pair, new.pair>> /\ o = {old.pair, new.pair}
      BY <1>2, <2>1, <2>2, Joined
    <3>2. QED
      BY <1>5, <2>2, <3>1
  <2>3. CASE old.pair \in Pairs /\ new.pair = NoPair
    <3>1. r = <<old.pair>> /\ o = {old.pair}
      BY <1>2, <1>3, <2>1, <2>3, Joined, PairsAssumption
    <3>2. QED
      BY <2>3, <3>1
  <2>4. CASE old.pair = NoPair /\ new.pair \in Pairs
    <3>1. r = <<new.pair>> /\ o = {new.pair}
      BY <1>2, <1>3, <2>1, <2>4, Joined, PairsAssumption
    <3>2. QED
      BY <2>4, <3>1
  <2>5. QED
    BY <1>1, <1>5, <2>2, <2>3, <2>4
<1>6. QED
  BY <1>4, <1>5

-----------------------------------------------------------------------------
\* A session, as a value: what it will leave behind and what it sees

Sessions ==
  [at : {"idle", "select", "upsert", "commit"}, repair : BOOLEAN, id : Ids \cup {None},
   new : Rows \cup {None}, todo : Seq(Pairs), read : Trades \cup {None},
   wrote : UNION {[S -> Trades \cup {None}] : S \in SUBSET Pairs}]

After(h, s) == [h EXCEPT ![s.id] = s.new]
Seen(tr, s) == [p \in Pairs |-> IF p \in DOMAIN s.wrote THEN s.wrote[p] ELSE tr[p]]
Alone(ov, s, p) == p \notin ov \/ s.repair

\* An open session s, when h and tr are committed: its plan is in order; a pair
\* no other session worked on is still to refresh or has its exact trade; what it
\* has read or written never shows what did not happen; and only maintenance
\* takes anything away from the history.
PlanOK(h, s) ==
  s.id \in Ids /\ Plan(h[s.id], s.new, s.todo) /\ s.at # "idle" /\ (s.at = "commit" <=> s.todo = <<>>)
PairsOK(h, tr, ov, s) ==
  \A p \in Own(h[s.id], s.new) :
    Alone(ov, s, p) => p \in Pending(s.todo) \/ Seen(tr, s)[p] = TradeOf(After(h, s), p)
ReadOK(h, ov, s) ==
  s.at = "upsert" =>
    /\ RealTrade(After(h, s), Head(s.todo), s.read)
    /\ Alone(ov, s, Head(s.todo)) => s.read = TradeOf(After(h, s), Head(s.todo))
WroteOK(h, s) ==
  \A p \in DOMAIN s.wrote : p \in Own(h[s.id], s.new) /\ RealTrade(After(h, s), p, s.wrote[p])
GrowsOK(h, s) == ~s.repair => Grows(h, After(h, s))

Sound(h, tr, ov, s) ==
  PlanOK(h, s) /\ PairsOK(h, tr, ov, s) /\ ReadOK(h, ov, s) /\ WroteOK(h, s) /\ GrowsOK(h, s)

AllReal(h, tr) == \A p \in Pairs : RealTrade(h, p, tr[p])
Exact(h, tr, ov) == \A p \in Pairs \ ov : tr[p] = TradeOf(h, p)

\* Two sessions write two rows, maintenance is alone, and the pairs both work on
\* are on record.
Apart(h, ov, s, z) ==
  s.id # z.id /\ ~s.repair /\ ~z.repair /\ Own(h[s.id], s.new) \cap Own(h[z.id], z.new) \subseteq ov

TablesOK ==
  /\ hist \in Histories /\ trades \in [Pairs -> Trades \cup {None}]
  /\ tx \in [Txns -> Sessions] /\ overlapped \subseteq Pairs
SessionsOK == \A t \in Txns : Open(t) => Sound(hist, trades, overlapped, tx[t])
SessionsApart ==
  \A t, u \in Txns : t # u /\ Open(t) /\ Open(u) => Apart(hist, overlapped, tx[t], tx[u])

IInv ==
  /\ TablesOK /\ AllReal(hist, trades) /\ Exact(hist, trades, overlapped)
  /\ SessionsOK /\ SessionsApart

-----------------------------------------------------------------------------
\* What a session does to itself

\* A pair a session does not work on has the same rows before and after it.
LEMMA Outside ==
  ASSUME NEW h \in Histories, NEW s \in Sessions, s.id \in Ids, NEW p \in Pairs,
         p \notin Own(h[s.id], s.new)
  PROVE  SamePair(h, After(h, s), p)
  BY DEF SamePair, After, Own, Histories

LEMMA AfterType ==
  ASSUME NEW h \in Histories, NEW s \in Sessions, s.id \in Ids
  PROVE  After(h, s) \in Histories
  BY DEF After, Histories, Sessions

\* The head of a plan is a pair of the session, and the rest is still a plan.
LEMMA NextOfPlan ==
  ASSUME NEW old, NEW new, NEW todo, Plan(old, new, todo), todo # <<>>
  PROVE  /\ Head(todo) \in Own(old, new) /\ Plan(old, new, Tail(todo))
         /\ Pending(Tail(todo)) = Pending(todo) \ {Head(todo)}
         /\ Pending(todo) # {Head(todo)} => old # None /\ old.pair = Head(todo)
<1>1. ASSUME NEW p \in Own(old, new), todo = <<p>>
      PROVE  /\ Head(todo) = p /\ Tail(todo) = <<>>
             /\ Pending(todo) = {p} /\ Pending(Tail(todo)) = {}
  BY <1>1, Heads
<1>2. ASSUME NEW p \in Own(old, new), NEW q \in Own(old, new), p # q, todo = <<p, q>>
      PROVE  /\ Head(todo) = p /\ Tail(todo) = <<q>>
             /\ Pending(todo) = {p, q} /\ Pending(Tail(todo)) = {q}
  <2>1. Head(todo) = p /\ Tail(todo) = <<q>>
    BY <1>2
  <2>2. Pending(<<p, q>>) = {p, q} /\ Pending(<<q>>) = {q}
    BY Heads
  <2>3. QED
    BY <1>2, <2>1, <2>2
<1>3. CASE \E p \in Own(old, new) : todo = <<p>>
  <2>1. PICK p \in Own(old, new) : todo = <<p>>
    BY <1>3
  <2>2. /\ Head(todo) = p /\ Tail(todo) = <<>>
        /\ Pending(todo) = {p} /\ Pending(Tail(todo)) = {}
    BY <1>1, <2>1
  <2>3. Plan(old, new, Tail(todo))
    BY <2>2 DEF Plan
  <2>4. QED
    BY <2>2, <2>3
<1>4. CASE \E p, q \in Own(old, new) : p # q /\ todo = <<p, q>> /\ old # None /\ old.pair = p
  <2>1. PICK p \in Own(old, new), q \in Own(old, new) :
             p # q /\ todo = <<p, q>> /\ old # None /\ old.pair = p
    BY <1>4
  <2>2. /\ Head(todo) = p /\ Tail(todo) = <<q>>
        /\ Pending(todo) = {p, q} /\ Pending(Tail(todo)) = {q}
    BY <1>2, <2>1
  <2>3. Plan(old, new, Tail(todo))
    BY <2>2 DEF Plan
  <2>4. QED
    BY <2>1, <2>2, <2>3
<1>5. QED
  BY <1>3, <1>4 DEF Plan

\* z is s further on in its own transaction.
SameWrite(s, z) == z.id = s.id /\ z.new = s.new /\ z.repair = s.repair

\* refresh_order_trade's SELECT reads the exact trade of what the session sees.
LEMMA SelectSound ==
  ASSUME NEW h \in Histories, NEW tr, NEW ov, NEW s \in Sessions, NEW z \in Sessions,
         s.at = "select", Sound(h, tr, ov, s), SameWrite(s, z), z.at = "upsert",
         z.todo = s.todo, z.wrote = s.wrote, z.read = TradeOf(After(h, s), Head(s.todo))
  PROVE  Sound(h, tr, ov, z)
<1>1. After(h, z) = After(h, s) /\ Seen(tr, z) = Seen(tr, s) /\ s.id \in Ids
  BY DEF After, Seen, SameWrite, Sound, PlanOK
<1>2. PlanOK(h, z) /\ PairsOK(h, tr, ov, z) /\ WroteOK(h, z) /\ GrowsOK(h, z)
  BY <1>1 DEF Sound, PlanOK, PairsOK, WroteOK, GrowsOK, SameWrite, Alone
<1>3. ReadOK(h, ov, z)
  BY <1>1, AfterType, TradeOfReal DEF ReadOK
<1>4. QED
  BY <1>2, <1>3 DEF Sound

\* The upsert is never refused: no other trade shows the ENTRY that was read.  An
\* ENTRY that moved to this pair has left its old trade, because the old pair is
\* refreshed before the new one.
LEMMA UpsertTaken ==
  ASSUME NEW h \in Histories, NEW tr, NEW ov, NEW s \in Sessions, s.at = "upsert",
         Sound(h, tr, ov, s), AllReal(h, tr), s.read # None,
         NEW q \in Pairs \ {Head(s.todo)}, Seen(tr, s)[q] # None
  PROVE  Seen(tr, s)[q].entry # s.read.entry
<1> DEFINE g == After(h, s)
           p == Head(s.todo)
           trade == Seen(tr, s)[q]
<1>1. s.id \in Ids /\ s.todo # <<>> /\ Plan(h[s.id], s.new, s.todo)
  BY DEF Sound, PlanOK
<1>2. s.read.entry \in EntriesOf(g, p)
  BY DEF Sound, ReadOK, RealTrade
<1>3. SUFFICES ASSUME trade.entry = s.read.entry
               PROVE  FALSE
  OBVIOUS
<1>4. ~ RealTrade(g, q, trade)
  BY <1>2, <1>3 DEF RealTrade, EntriesOf
<1>5. q \notin DOMAIN s.wrote /\ trade = tr[q]
  BY <1>4 DEF Sound, WroteOK, Seen
<1>6. RealTrade(h, q, trade)
  BY <1>5 DEF AllReal
<1>7. s.repair
  BY <1>4, <1>6, RealGrows DEF Sound, GrowsOK
<1>8. trade.entry \in EntriesOf(h, q) /\ trade.entry \in Ids
  BY <1>6 DEF RealTrade, EntriesOf
<1>9. trade.entry = s.id
  BY <1>1, <1>2, <1>3, <1>8 DEF After, EntriesOf, Histories
<1>10. h[s.id] # None /\ h[s.id].pair = q /\ q \in Own(h[s.id], s.new)
  BY <1>8, <1>9 DEF EntriesOf, Own
<1>11. q \notin Pending(s.todo)
  <2>1. Pending(s.todo) = {p}
    BY <1>1, <1>10, NextOfPlan
  <2>2. QED
    BY <2>1
<1>12. trade = TradeOf(g, q)
  BY <1>7, <1>10, <1>11 DEF Sound, PairsOK, Alone
<1>13. QED
  BY <1>1, <1>4, <1>12, AfterType, TradeOfReal

LEMMA UpsertSound ==
  ASSUME NEW h \in Histories, NEW tr, NEW ov, NEW s \in Sessions, NEW z \in Sessions,
         s.at = "upsert", Sound(h, tr, ov, s), SameWrite(s, z),
         z.todo = Tail(s.todo), z.at = IF z.todo = <<>> THEN "commit" ELSE "select",
         DOMAIN z.wrote \subseteq DOMAIN s.wrote \cup {Head(s.todo)},
         \A q \in DOMAIN z.wrote : z.wrote[q] = IF q = Head(s.todo) THEN s.read ELSE s.wrote[q],
         \A q \in Pairs : Seen(tr, z)[q] = IF q = Head(s.todo) THEN s.read ELSE Seen(tr, s)[q]
  PROVE  Sound(h, tr, ov, z)
<1>1. After(h, z) = After(h, s)
  BY DEF After, SameWrite
<1>2. s.id \in Ids /\ s.todo # <<>> /\ Plan(h[s.id], s.new, s.todo)
  BY DEF Sound, PlanOK
<1>3. /\ Head(s.todo) \in Own(h[s.id], s.new) /\ Plan(h[s.id], s.new, z.todo)
      /\ Pending(z.todo) = Pending(s.todo) \ {Head(s.todo)}
  <2>1. /\ Head(s.todo) \in Own(h[s.id], s.new) /\ Plan(h[s.id], s.new, Tail(s.todo))
        /\ Pending(Tail(s.todo)) = Pending(s.todo) \ {Head(s.todo)}
    BY <1>2, NextOfPlan
  <2>2. QED
    BY <2>1
<1>4. PlanOK(h, z) /\ ReadOK(h, ov, z)
  BY <1>2, <1>3 DEF PlanOK, ReadOK, SameWrite
<1>5. PairsOK(h, tr, ov, z)
  <2> SUFFICES ASSUME NEW p \in Own(h[s.id], s.new), Alone(ov, s, p), p \notin Pending(z.todo)
               PROVE  Seen(tr, z)[p] = TradeOf(After(h, s), p)
    BY <1>1 DEF PairsOK, SameWrite, Alone
  <2>1. p \in Pairs
    BY DEF Own
  <2>2. CASE p = Head(s.todo)
    BY <2>1, <2>2 DEF Sound, ReadOK
  <2>3. CASE p # Head(s.todo)
    BY <1>3, <2>1, <2>3 DEF Sound, PairsOK
  <2>4. QED
    BY <2>2, <2>3
<1>6. WroteOK(h, z)
  <2> SUFFICES ASSUME NEW p \in DOMAIN z.wrote
               PROVE  p \in Own(h[s.id], s.new) /\ RealTrade(After(h, s), p, z.wrote[p])
    BY <1>1 DEF WroteOK, SameWrite
  <2>1. CASE p = Head(s.todo)
    BY <1>3, <2>1 DEF Sound, ReadOK
  <2>2. CASE p # Head(s.todo)
    BY <2>2 DEF Sound, WroteOK
  <2>3. QED
    BY <2>1, <2>2
<1>7. GrowsOK(h, z)
  BY <1>1 DEF Sound, GrowsOK, SameWrite
<1>8. QED
  BY <1>4, <1>5, <1>6, <1>7 DEF Sound

-----------------------------------------------------------------------------
\* What a commit does

\* The tables a finished session leaves are as exact and as real as it found them.
LEMMA CommitTables ==
  ASSUME NEW h \in Histories, NEW tr \in [Pairs -> Trades \cup {None}], NEW ov,
         NEW s \in Sessions, s.at = "commit", Sound(h, tr, ov, s), AllReal(h, tr), Exact(h, tr, ov)
  PROVE  AllReal(After(h, s), Seen(tr, s)) /\ Exact(After(h, s), Seen(tr, s), ov)
<1> DEFINE g == After(h, s)
<1>1. s.id \in Ids /\ Pending(s.todo) = {}
  BY Heads DEF Sound, PlanOK
<1>2. ASSUME NEW p \in Pairs, p \in Own(h[s.id], s.new), Alone(ov, s, p)
      PROVE  Seen(tr, s)[p] = TradeOf(g, p)
  BY <1>1, <1>2 DEF Sound, PairsOK
<1>3. ASSUME NEW p \in Pairs, p \notin Own(h[s.id], s.new)
      PROVE  Seen(tr, s)[p] = tr[p] /\ SamePair(h, g, p)
  BY <1>1, <1>3, Outside DEF Sound, WroteOK, Seen
<1>4. ASSUME NEW p \in Pairs
      PROVE  RealTrade(g, p, Seen(tr, s)[p])
  <2>1. CASE p \in DOMAIN s.wrote
    BY <2>1 DEF Sound, WroteOK, Seen
  <2>2. CASE p \notin DOMAIN s.wrote /\ ~s.repair
    <3>1. Seen(tr, s)[p] = tr[p] /\ RealTrade(h, p, tr[p])
      BY <2>2 DEF Seen, AllReal
    <3>2. QED
      BY <2>2, <3>1, RealGrows DEF Sound, GrowsOK
  <2>3. CASE s.repair /\ p \in Own(h[s.id], s.new)
    BY <1>1, <1>2, <2>3, AfterType, TradeOfReal DEF Alone
  <2>4. CASE p \notin Own(h[s.id], s.new)
    BY <1>3, <2>4, SameReal DEF AllReal
  <2>5. QED
    BY <2>1, <2>2, <2>3, <2>4
<1>5. ASSUME NEW p \in Pairs \ ov
      PROVE  Seen(tr, s)[p] = TradeOf(g, p)
  <2>1. CASE p \in Own(h[s.id], s.new)
    BY <1>2, <2>1 DEF Alone
  <2>2. CASE p \notin Own(h[s.id], s.new)
    BY <1>3, <2>2, SameTrade DEF Exact
  <2>3. QED
    BY <2>1, <2>2
<1>6. QED
  BY <1>4, <1>5 DEF AllReal, Exact

\* Another session's commit leaves a session as sound as it was.
LEMMA CommitOther ==
  ASSUME NEW h \in Histories, NEW tr \in [Pairs -> Trades \cup {None}], NEW ov,
         NEW s \in Sessions, NEW u \in Sessions,
         Sound(h, tr, ov, s), Sound(h, tr, ov, u), Apart(h, ov, s, u)
  PROVE  Sound(After(h, u), Seen(tr, u), ov, s)
<1> DEFINE g == After(h, u)
<1>1. s.id \in Ids /\ u.id \in Ids /\ s.id # u.id /\ ~s.repair /\ ~u.repair
  BY DEF Sound, PlanOK, Apart
<1>2. g \in Histories /\ g[s.id] = h[s.id] /\ After(h, s) \in Histories /\ After(g, s) \in Histories
  BY <1>1, AfterType DEF After, Histories
<1>3. Grows(After(h, s), After(g, s)) /\ Grows(g, After(g, s))
  BY <1>1 DEF Sound, GrowsOK, Grows, After, Histories
<1>4. ASSUME NEW p \in Own(h[s.id], s.new), p \notin ov
      PROVE  Seen(Seen(tr, u), s)[p] = Seen(tr, s)[p] /\ TradeOf(After(g, s), p) = TradeOf(After(h, s), p)
  <2>1. p \in Pairs /\ p \notin Own(h[u.id], u.new)
    BY <1>4 DEF Apart, Own
  <2>2. p \notin DOMAIN u.wrote
    BY <2>1 DEF Sound, WroteOK
  <2>3. SamePair(h, g, p)
    BY <1>1, <2>1, Outside
  <2>4. SamePair(After(h, s), After(g, s), p)
    BY <1>1, <2>3 DEF SamePair, After, Histories
  <2>5. QED
    BY <2>1, <2>2, <2>4, SameTrade DEF Seen
<1>5. PlanOK(g, s) /\ GrowsOK(g, s)
  BY <1>2, <1>3 DEF Sound, PlanOK, GrowsOK
<1>6. PairsOK(g, Seen(tr, u), ov, s)
  BY <1>1, <1>2, <1>4 DEF Sound, PairsOK, Alone
<1>7. ReadOK(g, ov, s)
  <2> SUFFICES ASSUME s.at = "upsert"
               PROVE  /\ RealTrade(After(g, s), Head(s.todo), s.read)
                      /\ Alone(ov, s, Head(s.todo)) => s.read = TradeOf(After(g, s), Head(s.todo))
    BY DEF ReadOK
  <2>1. Head(s.todo) \in Own(h[s.id], s.new)
    BY NextOfPlan DEF Sound, PlanOK
  <2>2. RealTrade(After(g, s), Head(s.todo), s.read)
    BY <1>3, RealGrows DEF Sound, ReadOK
  <2>3. QED
    BY <1>1, <1>4, <2>1, <2>2 DEF Sound, ReadOK, Alone
<1>8. WroteOK(g, s)
  BY <1>2, <1>3, RealGrows DEF Sound, WroteOK
<1>9. QED
  BY <1>5, <1>6, <1>7, <1>8 DEF Sound

-----------------------------------------------------------------------------
\* The steps

LEMMA Views ==
  ASSUME NEW t \in Txns, Open(t)
  PROVE  Hist(t) = After(hist, tx[t]) /\ TradesSeen(t) = Seen(trades, tx[t])
  BY DEF Hist, After, TradesSeen, Seen

LEMMA IdleType == Idle \in Sessions /\ Idle.at = "idle"
<1>1. [p \in {} |-> None] \in [{} -> Trades \cup {None}]
  OBVIOUS
<1>2. <<>> \in Seq(Pairs)
  OBVIOUS
<1>3. Idle \in Sessions
  BY <1>1, <1>2 DEF Idle, Sessions
<1>4. QED
  BY <1>3 DEF Idle

LEMMA InitKeeps == Init => IInv
<1> SUFFICES ASSUME Init PROVE IInv
  OBVIOUS
<1>1. Idle \in Sessions
  BY IdleType
<1>2. TablesOK /\ \A t \in Txns : ~Open(t)
  <2>1. \A t \in Txns : tx[t] = Idle
    BY DEF Init
  <2>2. QED
    BY <1>1, <2>1 DEF Init, TablesOK, Histories, Open, Idle
<1>3. AllReal(hist, trades) /\ Exact(hist, trades, overlapped)
  BY DEF Init, AllReal, Exact, RealTrade, TradeOf, EntriesOf
<1>4. QED
  BY <1>2, <1>3 DEF IInv, SessionsOK, SessionsApart

\* A session moves on within its transaction, or ends without a trace.
LEMMA OwnStep ==
  ASSUME IInv, NEW t \in Txns, tx' \in [Txns -> Sessions],
         \A u \in Txns \ {t} : tx'[u] = tx[u],
         UNCHANGED <<hist, trades, overlapped>>,
         NEW z, z = tx'[t],
         \/ z.at = "idle"
         \/ Open(t) /\ SameWrite(tx[t], z) /\ Sound(hist, trades, overlapped, z)
  PROVE  IInv'
<1>1. TablesOK' /\ AllReal(hist, trades)' /\ Exact(hist, trades, overlapped)'
  BY DEF IInv, TablesOK, AllReal, Exact
<1>2. SessionsOK'
  <2> SUFFICES ASSUME NEW u \in Txns, Open(u)'
               PROVE  Sound(hist, trades, overlapped, tx'[u])
    BY DEF SessionsOK
  <2>1. CASE u = t
    BY <2>1 DEF Open
  <2>2. CASE u # t
    BY <2>2 DEF IInv, SessionsOK, Open
  <2>3. QED
    BY <2>1, <2>2
<1>3. \A u \in Txns : Open(u)' => /\ Open(u) /\ SameWrite(tx[u], tx'[u])
  BY DEF Open, SameWrite
<1>4. SessionsApart'
  <2> SUFFICES ASSUME NEW u \in Txns, NEW v \in Txns, u # v, Open(u)', Open(v)'
               PROVE  Apart(hist, overlapped, tx'[u], tx'[v])
    BY DEF SessionsApart
  <2>1. Apart(hist, overlapped, tx[u], tx[v])
    BY <1>3 DEF IInv, SessionsApart
  <2>2. QED
    BY <1>3, <2>1 DEF Apart, SameWrite
<1>5. QED
  BY <1>1, <1>2, <1>4 DEF IInv

LEMMA SelectKeeps ==
  ASSUME IInv, NEW t \in Txns, Select(t)
  PROVE  IInv'
<1> DEFINE s == tx[t]
           z == tx'[t]
           q == TradeOf(After(hist, s), Head(s.todo))
<1>1. /\ s \in Sessions /\ tx \in [Txns -> Sessions] /\ hist \in Histories
      /\ s.at = "select" /\ Open(t) /\ Sound(hist, trades, overlapped, s)
  BY DEF IInv, TablesOK, SessionsOK, Select, Open
<1>2. tx' = [tx EXCEPT ![t].at = "upsert", ![t].read = q]
  BY <1>1, Views DEF Select
<1>3. q \in Trades \cup {None}
  BY <1>1, AfterType, TradeOfReal DEF Sound, PlanOK
<1> HIDE DEF q
<1>4. z = [s EXCEPT !.at = "upsert", !.read = q]
  BY <1>1, <1>2
<1>5. /\ z \in Sessions /\ SameWrite(s, z) /\ z.at = "upsert" /\ z.todo = s.todo
      /\ z.wrote = s.wrote /\ z.read = q
  BY <1>1, <1>3, <1>4 DEF Sessions, SameWrite
<1>6. Sound(hist, trades, overlapped, z)
  BY <1>1, <1>5, SelectSound DEF q
<1>7. tx' \in [Txns -> Sessions] /\ \A u \in Txns \ {t} : tx'[u] = tx[u]
  BY <1>1, <1>2, <1>4, <1>5
<1> HIDE DEF z
<1>8. UNCHANGED <<hist, trades, overlapped>> /\ z = tx'[t]
  BY DEF Select, z
<1>9. QED
  BY <1>1, <1>5, <1>6, <1>7, <1>8, OwnStep

LEMMA UpsertKeeps ==
  ASSUME IInv, NEW t \in Txns, Upsert(t)
  PROVE  IInv'
<1> DEFINE s == tx[t]
           z == tx'[t]
           p == Head(s.todo)
           rest == Tail(s.todo)
           w == IF s.read # None \/ NotFound(t, p)
                THEN [q \in DOMAIN s.wrote \cup {p} |-> IF q = p THEN s.read ELSE s.wrote[q]]
                ELSE s.wrote
           a == IF rest = <<>> THEN "commit" ELSE "select"
<1>1. /\ s \in Sessions /\ tx \in [Txns -> Sessions] /\ hist \in Histories
      /\ s.at = "upsert" /\ Open(t) /\ Sound(hist, trades, overlapped, s)
      /\ AllReal(hist, trades) /\ TradesSeen(t) = Seen(trades, s)
  BY Views DEF IInv, TablesOK, SessionsOK, Upsert, Open
<1>2. ~ (s.read # None /\ \E q \in Pairs \ {p} :
           TradesSeen(t)[q] # None /\ TradesSeen(t)[q].entry = s.read.entry)
  BY <1>1, UpsertTaken
<1>3. tx' = [tx EXCEPT ![t] = [s EXCEPT !.at = a, !.todo = rest, !.read = None, !.wrote = w]]
  BY <1>1, <1>2 DEF Upsert
<1>4. p \in Pairs /\ rest \in Seq(Pairs)
  <2>1. p \in Own(hist[s.id], s.new) /\ s.todo # <<>>
    BY <1>1, NextOfPlan DEF Sound, PlanOK
  <2>2. QED
    BY <1>1, <2>1 DEF Own, Sessions
<1>5. PICK S \in SUBSET Pairs : s.wrote \in [S -> Trades \cup {None}]
  BY <1>1 DEF Sessions
<1>6. w \in UNION {[T -> Trades \cup {None}] : T \in SUBSET Pairs}
  <2>1. s.read \in Trades \cup {None}
    BY <1>1 DEF Sessions
  <2>2. w \in [S \cup {p} -> Trades \cup {None}] \/ w \in [S -> Trades \cup {None}]
    BY <1>5, <2>1
  <2>3. S \cup {p} \in SUBSET Pairs
    BY <1>4
  <2>4. QED
    BY <2>2, <2>3
<1>7. /\ DOMAIN w \subseteq DOMAIN s.wrote \cup {p}
      /\ \A q \in DOMAIN w : w[q] = IF q = p THEN s.read ELSE s.wrote[q]
      /\ \A q \in Pairs : (IF q \in DOMAIN w THEN w[q] ELSE trades[q])
                            = IF q = p THEN s.read ELSE Seen(trades, s)[q]
  BY <1>1, <1>4 DEF NotFound, Seen
<1> HIDE DEF w, a, rest, p
<1>8. z = [s EXCEPT !.at = a, !.todo = rest, !.read = None, !.wrote = w]
  BY <1>1, <1>3
<1>9. a \in {"commit", "select"}
  BY DEF a
<1>10. /\ z \in Sessions /\ SameWrite(s, z) /\ z.at = a /\ z.todo = rest /\ z.wrote = w
  BY <1>1, <1>4, <1>6, <1>8, <1>9 DEF Sessions, SameWrite
<1> HIDE DEF z
<1>11. Sound(hist, trades, overlapped, z)
  <2>1. \A q \in Pairs : Seen(trades, z)[q] = IF q = p THEN s.read ELSE Seen(trades, s)[q]
    BY <1>7, <1>10 DEF Seen
  <2>2. z.at = IF z.todo = <<>> THEN "commit" ELSE "select"
    BY <1>10 DEF a
  <2>3. z.todo = Tail(s.todo)
    BY <1>10 DEF rest
  <2>4. /\ DOMAIN z.wrote \subseteq DOMAIN s.wrote \cup {Head(s.todo)}
        /\ \A q \in DOMAIN z.wrote : z.wrote[q] = IF q = Head(s.todo) THEN s.read ELSE s.wrote[q]
        /\ \A q \in Pairs : Seen(trades, z)[q] = IF q = Head(s.todo) THEN s.read ELSE Seen(trades, s)[q]
    BY <1>7, <1>10, <2>1 DEF p
  <2> HIDE DEF s
  <2>5. QED
    BY <1>1, <1>10, <2>2, <2>3, <2>4, UpsertSound
<1>12. tx' \in [Txns -> Sessions] /\ \A u \in Txns \ {t} : tx'[u] = tx[u]
  BY <1>1, <1>3, <1>8, <1>10 DEF z
<1>13. UNCHANGED <<hist, trades, overlapped>> /\ z = tx'[t]
  BY DEF Upsert, z
<1>14. QED
  BY <1>1, <1>10, <1>11, <1>12, <1>13, OwnStep

LEMMA RollbackKeeps ==
  ASSUME IInv, NEW t \in Txns, Rollback(t)
  PROVE  IInv'
<1>1. Idle \in Sessions /\ Idle.at = "idle"
  BY IdleType
<1>2. tx' \in [Txns -> Sessions] /\ tx'[t] = Idle /\ \A u \in Txns \ {t} : tx'[u] = tx[u]
  BY <1>1 DEF Rollback, IInv, TablesOK
<1>3. UNCHANGED <<hist, trades, overlapped>>
  BY DEF Rollback
<1>4. QED
  BY <1>1, <1>2, <1>3, OwnStep

LEMMA CommitKeeps ==
  ASSUME IInv, NEW t \in Txns, Commit(t)
  PROVE  IInv'
<1> DEFINE s == tx[t]
           h == After(hist, s)
           tr == Seen(trades, s)
<1>1. /\ s \in Sessions /\ tx \in [Txns -> Sessions] /\ hist \in Histories
      /\ trades \in [Pairs -> Trades \cup {None}] /\ s.id \in Ids
      /\ s.at = "commit" /\ Open(t) /\ Sound(hist, trades, overlapped, s)
      /\ AllReal(hist, trades) /\ Exact(hist, trades, overlapped)
  BY DEF IInv, TablesOK, SessionsOK, Commit, Open, Sound, PlanOK
<1>2. hist' = h /\ trades' = tr /\ overlapped' = overlapped /\ tx' = [tx EXCEPT ![t] = Idle]
  BY <1>1, Views DEF Commit
<1>3. \A u \in Txns : Open(u)' => u # t /\ Open(u) /\ tx'[u] = tx[u]
  BY <1>1, <1>2, IdleType DEF Open
<1>4. TablesOK'
  <2>1. h \in Histories
    BY <1>1, AfterType
  <2>2. tr \in [Pairs -> Trades \cup {None}]
    <3>1. PICK S \in SUBSET Pairs : s.wrote \in [S -> Trades \cup {None}]
      BY <1>1 DEF Sessions
    <3>2. QED
      BY <1>1, <3>1 DEF Seen
  <2>3. tx' \in [Txns -> Sessions]
    BY <1>1, <1>2, IdleType
  <2>4. QED
    BY <1>2, <2>1, <2>2, <2>3 DEF IInv, TablesOK
<1>5. AllReal(h, tr) /\ Exact(h, tr, overlapped)
  BY <1>1, CommitTables
<1>6. SessionsOK'
  <2> SUFFICES ASSUME NEW u \in Txns, Open(u)'
               PROVE  Sound(h, tr, overlapped, tx[u])
    BY <1>2, <1>3 DEF SessionsOK
  <2>1. /\ Sound(hist, trades, overlapped, tx[u]) /\ Apart(hist, overlapped, tx[u], s)
        /\ tx[u] \in Sessions
    BY <1>1, <1>3 DEF IInv, SessionsOK, SessionsApart
  <2>2. QED
    BY <1>1, <2>1, CommitOther
<1>7. SessionsApart'
  <2> SUFFICES ASSUME NEW u \in Txns, NEW v \in Txns, u # v, Open(u)', Open(v)'
               PROVE  Apart(h, overlapped, tx[u], tx[v])
    BY <1>2, <1>3 DEF SessionsApart
  <2>1. /\ Apart(hist, overlapped, tx[u], tx[v])
        /\ Apart(hist, overlapped, tx[u], s) /\ Apart(hist, overlapped, tx[v], s)
    BY <1>1, <1>3 DEF IInv, SessionsApart
  <2>2. tx[u].id \in Ids /\ tx[v].id \in Ids
    BY <1>3 DEF IInv, SessionsOK, Sound, PlanOK
  <2>3. h[tx[u].id] = hist[tx[u].id] /\ h[tx[v].id] = hist[tx[v].id]
    BY <1>1, <2>1, <2>2 DEF Apart, After, Histories
  <2>4. QED
    BY <2>1, <2>3 DEF Apart
<1>8. QED
  BY <1>2, <1>4, <1>5, <1>6, <1>7 DEF IInv

\* The statements that start a session write a row that exists before or after,
\* and only maintenance takes anything away.
LEMMA Starts ==
  ASSUME IInv, NEW t \in Txns, Create(t) \/ Update(t) \/ Maintain(t)
  PROVE  \E id \in Ids, new \in Rows \cup {None}, repair \in BOOLEAN :
           /\ Write(t, id, new, repair)
           /\ hist[id] # None \/ new # None
           /\ repair => \A u \in Txns : ~Open(u)
           /\ ~repair => Grows(hist, [hist EXCEPT ![id] = new])
<1>1. hist \in Histories
  BY DEF IInv, TablesOK
<1>2. CASE Create(t)
  <2>1. PICK id \in Ids, new \in Rows : hist[id] = None /\ Write(t, id, new, FALSE)
    BY <1>2 DEF Create
  <2>2. Grows(hist, [hist EXCEPT ![id] = new])
    BY <1>1, <2>1 DEF Grows, Histories
  <2>3. new # None
    BY RowsAssumption
  <2>4. QED
    BY <2>1, <2>2, <2>3
<1>3. CASE Update(t)
  <2>1. PICK id \in Ids, f \in BOOLEAN :
             /\ hist[id] # None /\ ~hist[id].filled
             /\ Write(t, id, [hist[id] EXCEPT !.filled = f], FALSE)
    BY <1>3 DEF Update
  <2> DEFINE new == [hist[id] EXCEPT !.filled = f]
  <2>2. new \in Rows /\ new.pair = hist[id].pair /\ new.cond = hist[id].cond
    BY <1>1, <2>1 DEF Histories, Rows
  <2>3. Write(t, id, new, FALSE)
    BY <2>1
  <2> HIDE DEF new
  <2>4. new # None
    BY <2>2, RowsAssumption
  <2> DEFINE g == [hist EXCEPT ![id] = new]
  <2>5. g[id] = new /\ \A i \in Ids : i # id => g[i] = hist[i]
    BY <1>1 DEF Histories
  <2> HIDE DEF g
  <2>6. Grows(hist, g)
    <3> SUFFICES ASSUME NEW i \in Ids, hist[i] # None
                 PROVE  /\ g[i] # None /\ g[i].pair = hist[i].pair /\ g[i].cond = hist[i].cond
                        /\ hist[i].filled => g[i].filled
      BY DEF Grows
    <3>1. CASE i = id
      BY <2>1, <2>2, <2>4, <2>5, <3>1
    <3>2. CASE i # id
      BY <2>5, <3>2
    <3>3. QED
      BY <3>1, <3>2
  <2>7. QED
    BY <2>1, <2>2, <2>3, <2>6 DEF g
<1>4. CASE Maintain(t)
  <2>1. PICK id \in Ids, new \in Rows \cup {None} : hist[id] # None /\ Write(t, id, new, TRUE)
    BY <1>4 DEF Maintain
  <2>2. \A u \in Txns : ~Open(u)
    BY <1>4 DEF Maintain
  <2>3. QED
    BY <2>1, <2>2
<1>5. QED
  BY <1>2, <1>3, <1>4

LEMMA WriteKeeps ==
  ASSUME IInv, NEW t \in Txns, NEW id \in Ids, NEW new \in Rows \cup {None},
         NEW repair \in BOOLEAN, Write(t, id, new, repair), hist[id] # None \/ new # None,
         repair => \A u \in Txns : ~Open(u),
         ~repair => Grows(hist, [hist EXCEPT ![id] = new])
  PROVE  IInv'
<1> DEFINE old == hist[id]
           todo == Refreshes(old, new)
           gone == {p \in Pairs : new = None /\ trades[p] # None /\ trades[p].entry = id}
           at == IF todo = <<>> THEN "commit" ELSE "select"
           z == [at |-> at, repair |-> repair, id |-> id, new |-> new, todo |-> todo,
                 read |-> None, wrote |-> [p \in gone |-> None]]
<1>1. /\ hist \in Histories /\ trades \in [Pairs -> Trades \cup {None}]
      /\ tx \in [Txns -> Sessions] /\ overlapped \subseteq Pairs /\ old \in Rows \cup {None}
      /\ AllReal(hist, trades) /\ Exact(hist, trades, overlapped)
  BY DEF IInv, TablesOK, Histories
<1>2. /\ tx' = [tx EXCEPT ![t] = z] /\ hist' = hist /\ trades' = trades
      /\ \A u \in Txns : Open(u) => tx[u].id # id /\ ~tx[u].repair
  BY DEF Write
<1>3. /\ overlapped \subseteq overlapped' /\ overlapped' \subseteq Pairs
      /\ \A u \in Txns : Open(u) =>
           Own(old, new) \cap Own(hist[tx[u].id], tx[u].new) \subseteq overlapped'
  BY <1>1 DEF Write, Touches, Own
<1>4. Plan(old, new, todo) /\ Pending(todo) = Own(old, new) /\ todo \in Seq(Pairs)
  BY <1>1, Refreshed
<1>5. \A p \in gone : p \in Own(old, new)
  BY <1>1 DEF AllReal, RealTrade, EntriesOf, Own
<1>6. [p \in gone |-> None] \in UNION {[S -> Trades \cup {None}] : S \in SUBSET Pairs}
  <2>1. gone \in SUBSET Pairs /\ [p \in gone |-> None] \in [gone -> Trades \cup {None}]
    OBVIOUS
  <2>2. QED
    BY <2>1
<1>7. at \in {"select", "commit"} /\ (at = "commit" <=> todo = <<>>)
  OBVIOUS
<1> DEFINE w == [p \in gone |-> None]
<1>8. DOMAIN w = gone /\ \A p \in gone : w[p] = None
  OBVIOUS
<1>9. z = [at |-> at, repair |-> repair, id |-> id, new |-> new, todo |-> todo,
           read |-> None, wrote |-> w]
  OBVIOUS
<1> HIDE DEF todo, gone, at, w, z
<1>10. /\ z.at = at /\ z.repair = repair /\ z.id = id /\ z.new = new /\ z.todo = todo
       /\ z.wrote = w
  BY <1>9
<1>11. z \in Sessions
  BY <1>4, <1>6, <1>7, <1>9 DEF Sessions, w
<1>12. Sound(hist, trades, overlapped', z)
  <2>1. PlanOK(hist, z)
    BY <1>4, <1>7, <1>10 DEF PlanOK
  <2>2. PairsOK(hist, trades, overlapped', z)
    BY <1>4, <1>10 DEF PairsOK
  <2>3. ReadOK(hist, overlapped', z)
    BY <1>7, <1>10 DEF ReadOK
  <2>4. WroteOK(hist, z)
    BY <1>5, <1>8, <1>10 DEF WroteOK, RealTrade
  <2>5. GrowsOK(hist, z)
    BY <1>10 DEF GrowsOK, After
  <2>6. QED
    BY <2>1, <2>2, <2>3, <2>4, <2>5 DEF Sound
<1>13. \A u \in Txns : tx'[u] = IF u = t THEN z ELSE tx[u]
  BY <1>1, <1>2
<1>14. TablesOK'
  BY <1>1, <1>2, <1>3, <1>11 DEF TablesOK
<1>15. AllReal(hist, trades)' /\ Exact(hist, trades, overlapped)'
  BY <1>1, <1>2, <1>3 DEF AllReal, Exact
<1>16. SessionsOK'
  <2> SUFFICES ASSUME NEW u \in Txns, Open(u)'
               PROVE  Sound(hist, trades, overlapped', tx'[u])
    BY <1>2 DEF SessionsOK
  <2>1. CASE u = t
    BY <1>12, <1>13, <2>1
  <2>2. CASE u # t
    <3>1. tx'[u] = tx[u] /\ Sound(hist, trades, overlapped, tx[u])
      BY <1>13, <2>2 DEF IInv, SessionsOK, Open
    <3>2. QED
      BY <1>3, <3>1 DEF Sound, PairsOK, ReadOK, Alone
  <2>3. QED
    BY <2>1, <2>2
<1>17. SessionsApart'
  <2> SUFFICES ASSUME NEW u \in Txns, NEW v \in Txns, u # v, Open(u)', Open(v)'
               PROVE  Apart(hist, overlapped', tx'[u], tx'[v])
    BY <1>2 DEF SessionsApart
  <2>1. ASSUME NEW y \in Txns, y # t, Open(y)'
        PROVE  Open(y) /\ tx'[y] = tx[y] /\ Apart(hist, overlapped', z, tx[y])
    <3>1. Open(y) /\ tx'[y] = tx[y]
      BY <1>13, <2>1 DEF Open
    <3>2. ~repair /\ tx[y].id # id /\ ~tx[y].repair
      BY <1>2, <3>1
    <3>3. QED
      BY <1>3, <1>10, <3>1, <3>2 DEF Apart
  <2>2. CASE u = t
    BY <1>13, <2>1, <2>2
  <2>3. CASE v = t
    BY <1>13, <2>1, <2>3 DEF Apart
  <2>4. CASE u # t /\ v # t
    <3>1. Apart(hist, overlapped, tx[u], tx[v]) /\ tx'[u] = tx[u] /\ tx'[v] = tx[v]
      BY <2>1, <2>4 DEF IInv, SessionsApart
    <3>2. QED
      BY <1>3, <3>1 DEF Apart
  <2>5. QED
    BY <2>2, <2>3, <2>4
<1>18. QED
  BY <1>14, <1>15, <1>16, <1>17 DEF IInv

LEMMA NextKeeps == IInv /\ [Next]_vars => IInv'
<1> SUFFICES ASSUME IInv, [Next]_vars PROVE IInv'
  OBVIOUS
<1>1. ASSUME NEW t \in Txns, Create(t) \/ Update(t) \/ Maintain(t) PROVE IInv'
  BY <1>1, Starts, WriteKeeps
<1>2. ASSUME NEW t \in Txns, Select(t) PROVE IInv'
  BY <1>2, SelectKeeps
<1>3. ASSUME NEW t \in Txns, Upsert(t) PROVE IInv'
  BY <1>3, UpsertKeeps
<1>4. ASSUME NEW t \in Txns, Commit(t) PROVE IInv'
  BY <1>4, CommitKeeps
<1>5. ASSUME NEW t \in Txns, Rollback(t) PROVE IInv'
  BY <1>5, RollbackKeeps
<1>6. CASE UNCHANGED vars
  BY <1>6 DEF vars, IInv, TablesOK, AllReal, Exact, SessionsOK, SessionsApart, Open
<1>7. QED
  BY <1>1, <1>2, <1>3, <1>4, <1>5, <1>6 DEF Next, Session

-----------------------------------------------------------------------------
\* Theorems

\* The tables and the sessions keep their types; in particular no write of
\* order_histories is ever refused for the projection's sake, because the upsert
\* of refresh_order_trade never meets its ENTRY in another trade.
THEOREM TradesTypes == Spec => []TypeOK
<1>1. IInv => TypeOK
  <2> SUFFICES ASSUME IInv PROVE TypeOK
    OBVIOUS
  <2>1. ASSUME NEW t \in Txns
        PROVE  /\ tx[t] \in Sessions /\ DOMAIN tx[t].wrote \subseteq Pairs
               /\ \A p \in DOMAIN tx[t].wrote : tx[t].wrote[p] \in Trades \cup {None}
    BY DEF IInv, TablesOK, Sessions
  <2>2. QED
    BY <2>1 DEF IInv, TablesOK, TypeOK, Sessions, Histories
<1>2. QED
  BY <1>1, InitKeeps, NextKeeps, PTL DEF Spec

\* The trigger's increments compute the whole function: the trade of a pair on
\* which no two transactions ever overlapped is the one its rows define, with
\* inserts out of order, corrections and deletes included.
THEOREM TradesFollow == Spec => []TradesExact
<1>1. IInv => TradesExact
  BY DEF IInv, Exact, TradesExact
<1>2. QED
  BY <1>1, InitKeeps, NextKeeps, PTL DEF Spec

\* However transactions overlap, the projection never invents an entry or an exit.
THEOREM TradesHappened == Spec => []TradesReal
<1>1. IInv => TradesReal
  BY DEF IInv, AllReal, RealTrade, ExitsOf, TradesReal
<1>2. QED
  BY <1>1, InitKeeps, NextKeeps, PTL DEF Spec
=============================================================================
