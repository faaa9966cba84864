--------------------------- MODULE MarketDataProofs ---------------------------
(***************************************************************************)
(* Theorems about MarketData, for every number of moments, callbacks,      *)
(* deliveries, jobs and windows, and every length of a candle and a page.  *)
(***************************************************************************)
EXTENDS MarketData, FiniteSetTheorems, WellFoundedInduction, TLAPS

\* Callbacks work on events of the stream.
RunsOK ==
  /\ now \in Moments /\ events \subseteq Moments
  /\ run \in [Goroutines -> [event: Moments \cup {None}, current: BOOLEAN]]

\* The row is from an event that was written and none is newer; there is no row
\* before one was.
Newest ==
  /\ priced \subseteq Moments \ {None}
  /\ priced = {} => price = None
  /\ priced # {} => price \in priced /\ \A t \in priced : t <= price

PriceInv == RunsOK /\ Newest

\* Max picks the member nothing exceeds.
LEMMA MaxIs ==
  ASSUME NEW S \in SUBSET Moments, NEW m \in S, \A t \in S : t <= m
  PROVE  m = Max(S)
<1>1. Moments \subseteq Nat
  BY MarketBoundsAssumption DEF Moments
<1>2. \A x \in S : (\A y \in S : x >= y) => x = m
  BY <1>1
<1>3. \A y \in S : m >= y
  BY <1>1
<1>4. QED
  BY <1>2, <1>3 DEF Max

LEMMA NewestIsMax == Newest => PriceIsNewest
  BY MaxIs DEF Newest, PriceIsNewest

LEMMA PriceInit == MarketInit => PriceInv
  BY DEF MarketInit, PriceInv, RunsOK, Newest, IdleRun

\* Answering for a delivery takes the callback back to rest.
LEMMA AnswersRest ==
  ASSUME RunsOK, NEW g \in Goroutines, NEW state, Answer(g, state), UNCHANGED <<now, events>>
  PROVE  RunsOK'
  BY DEF RunsOK, Answer, IdleRun

\* The one action that writes the price.
LEMMA UpsertKeeps ==
  ASSUME PriceInv, NEW g \in Goroutines, UpsertPrice(g)
  PROVE  PriceInv'
<1> DEFINE t == run[g].event
<1> USE DEF PriceInv
<1>1. t \in Moments \ {None} /\ Moments \subseteq Nat
  BY MarketBoundsAssumption DEF UpsertPrice, RunsOK, Moments
<1>2. priced' = priced \cup {t} /\ price' = IF KeepsPrice(t) THEN price ELSE t
  BY DEF UpsertPrice
<1>3. RunsOK'
  BY AnswersRest DEF UpsertPrice, Done
<1> HIDE DEF t
<1>4. Newest'
  <2>1. CASE priced = {}
    <3>1. price' = t
      BY <1>2, <2>1 DEF Newest, KeepsPrice
    <3>2. QED
      BY <1>1, <1>2, <2>1, <3>1 DEF Newest
  <2>2. CASE priced # {}
    <3>1. price \in Moments \ {None} /\ price \in priced /\ \A u \in priced : u <= price
      BY <2>2 DEF Newest
    <3>2. priced \subseteq Nat
      BY <1>1 DEF Newest
    <3>3. CASE price > t
      BY <1>1, <1>2, <3>1, <3>2, <3>3 DEF Newest, KeepsPrice
    <3>4. CASE ~(price > t)
      <4>1. price' = t
        BY <1>2, <3>4 DEF KeepsPrice
      <4>2. \A u \in priced : u <= t
        BY <1>1, <3>1, <3>2, <3>4
      <4>3. QED
        BY <1>1, <1>2, <4>1, <4>2 DEF Newest
    <3>5. QED
      BY <3>3, <3>4
  <2>3. QED
    BY <2>1, <2>2
<1>5. QED
  BY <1>3, <1>4

\* Everything else leaves the price, and the callbacks with events of the stream.
LEMMA OthersRest ==
  ASSUME PriceInv, MarketNext, UNCHANGED <<price, priced>>
  PROVE  PriceInv'
<1> USE DEF PriceInv
<1>1. ASSUME Tick
      PROVE  RunsOK'
  BY <1>1, MarketBoundsAssumption DEF Tick, RunsOK, Moments, streamVars
<1>2. ASSUME PublishKline
      PROVE  RunsOK'
  BY <1>2 DEF PublishKline, RunsOK
<1>3. ASSUME NEW g \in Goroutines, NEW t \in events, Deliver(g, t)
      PROVE  RunsOK'
  BY <1>3 DEF Deliver, RunsOK
<1>4. ASSUME NEW c \in Consumers, NEW t \in events, AgeOut(c, t)
      PROVE  RunsOK'
  BY <1>4 DEF AgeOut, RunsOK
<1>5. ASSUME NEW g \in Goroutines, InsertKline(g) \/ UpsertPrice(g) \/ FailCallback(g)
      PROVE  RunsOK'
  BY <1>5, AnswersRest DEF InsertKline, UpsertPrice, FailCallback, Done
<1>6. ASSUME NEW g \in Goroutines, Deadline(g)
      PROVE  RunsOK'
  BY <1>6 DEF Deadline, RunsOK
<1>7. ASSUME Backfill
      PROVE  RunsOK'
  <2>1. UNCHANGED backfillRest
    BY <1>7 DEF Backfill, Runner, StartJob, Tell, MarkRunning, FetchKlineRows, CreateKline,
                RefuseJob, MarkSucceeded, MarkFailed, CrashApi
  <2>2. QED
    BY <2>1 DEF backfillRest, streamVars, RunsOK
<1>8. Newest'
  BY DEF Newest
<1>9. RunsOK'
  BY <1>1, <1>2, <1>3, <1>4, <1>5, <1>6, <1>7 DEF MarketNext, Callbacks, Goroutines
<1>10. QED
  BY <1>8, <1>9

LEMMA PriceStep == PriceInv /\ [MarketNext]_marketVars => PriceInv'
<1>1. ASSUME MarketNext
      PROVE  (\E g \in Goroutines : UpsertPrice(g)) \/ UNCHANGED <<price, priced>>
  BY <1>1 DEF MarketNext, Callbacks, Backfill, Runner, Goroutines, Tick, PublishKline, Deliver,
              AgeOut, InsertKline, FailCallback, Deadline, StartJob, Tell, MarkRunning,
              FetchKlineRows, CreateKline, RefuseJob, MarkSucceeded, MarkFailed, CrashApi,
              backfillRest
<1>2. ASSUME PriceInv, UNCHANGED marketVars
      PROVE  PriceInv'
  BY <1>2 DEF marketVars, streamVars, PriceInv, RunsOK, Newest
<1>3. QED
  BY <1>1, <1>2, UpsertKeeps, OthersRest

\* price_references never goes back to an older event, in whichever order any
\* number of consumers write, retry and repeat events.
THEOREM PriceStaysNewest == MarketSpec => []PriceIsNewest
<1>1. PriceInv => PriceIsNewest
  BY NewestIsMax DEF PriceInv
<1>2. QED
  BY <1>1, PriceInit, PriceStep, PTL DEF MarketSpec

-----------------------------------------------------------------------------
\* Sets of numbers

\* A finite set of numbers has a least member: the one with the fewest below it.
LEMMA LeastIn ==
  ASSUME NEW S \in SUBSET Nat, IsFiniteSet(S), S # {}
  PROVE  \E i \in S : \A j \in S : i <= j
<1> DEFINE Below(x) == {y \in S : y < x}
           T == {Below(x) : x \in S}
<1>1. T \subseteq FiniteSubsetsOf(S) /\ T # {}
  <2>1. \A x \in S : Below(x) \subseteq S
    OBVIOUS
  <2>2. \A x \in S : Below(x) \in FiniteSubsetsOf(S)
    BY <2>1, FS_Subset DEF FiniteSubsetsOf
  <2>3. QED
    BY <2>2
<1>2. PICK m \in T : \A n \in T : ~ (<<n, m>> \in StrictSubsetOrdering(S))
  <2>1. IsWellFoundedOn(StrictSubsetOrdering(S), FiniteSubsetsOf(S))
    BY FS_StrictSubsetOrderingWellFounded
  <2> HIDE DEF T
  <2>2. QED
    BY <1>1, <2>1, WFMin
<1>3. PICK x \in S : m = Below(x)
  BY <1>2
<1>4. ASSUME NEW y \in S, ~(x <= y)
      PROVE  FALSE
  <2>1. y \in Below(x) /\ y \notin Below(y) /\ \A z \in S : z < y => z < x
    BY <1>4
  <2>2. Below(y) \subseteq Below(x) /\ Below(y) # Below(x)
    BY <2>1
  <2>3. <<Below(y), Below(x)>> \in StrictSubsetOrdering(S)
    BY <2>2 DEF StrictSubsetOrdering
  <2>4. QED
    BY <1>2, <1>3, <2>3
<1>5. QED
  BY <1>4

\* A set of numbers up to n has a greatest one.
LEMMA GreatestIn ==
  ASSUME NEW n \in Nat, NEW S \in SUBSET (0..n), S # {}
  PROVE  \E i \in S : \A j \in S : j <= i
<1> DEFINE T == {n - x : x \in S}
<1>1. T \in SUBSET Nat /\ T # {} /\ \A y \in T : y <= n
  <2>1. \A x \in S : n - x \in Nat /\ n - x <= n
    OBVIOUS
  <2>2. QED
    BY <2>1
<1>2. IsFiniteSet(T)
  <2> HIDE DEF T
  <2>1. QED
    BY <1>1, FS_BoundedSetOfNaturals
<1>3. PICK i \in T : \A j \in T : i <= j
  <2> HIDE DEF T
  <2>1. QED
    BY <1>1, <1>2, LeastIn
<1>4. PICK x \in S : i = n - x
  BY <1>3
<1>5. \A y \in S : n - x <= n - y
  BY <1>3, <1>4
<1>6. QED
  BY <1>4, <1>5

\* The first B of the numbers in O.
Rank(O, k) == Cardinality({i \in O : i < k})
First(O, B) == {k \in O : Rank(O, k) < B}

\* They are closed downwards, and B of them unless they are all.
LEMMA FirstOnes ==
  ASSUME NEW n \in Nat, NEW O, \A i \in O : i \in Nat /\ i <= n, NEW B \in Nat \ {0}
  PROVE  /\ O # {} => First(O, B) # {}
         /\ \A k \in O, p \in First(O, B) : k <= p => k \in First(O, B)
         /\ First(O, B) # O => Cardinality(First(O, B)) = B
<1> DEFINE F == First(O, B)
           Under(k) == {i \in O : i < k}
<1>1. IsFiniteSet(O)
  <2>1. O \in SUBSET Nat
    OBVIOUS
  <2>2. QED
    BY <2>1, FS_BoundedSetOfNaturals
<1>2. \A k \in O : IsFiniteSet(Under(k)) /\ Rank(O, k) \in Nat
  BY <1>1, FS_Subset, FS_CardinalityType DEF Rank
<1>3. ASSUME NEW k \in O, NEW p \in O, k <= p
      PROVE  Rank(O, k) <= Rank(O, p)
  <2>1. Under(k) \subseteq Under(p)
    BY <1>1, <1>3
  <2>2. QED
    BY <1>2, <2>1, FS_Subset DEF Rank
<1>4. ASSUME NEW k \in O, NEW p \in F, k <= p
      PROVE  k \in F
  <2>1. p \in O /\ Rank(O, p) < B
    BY DEF First
  <2>2. Rank(O, k) <= Rank(O, p) /\ Rank(O, k) \in Nat /\ Rank(O, p) \in Nat
    BY <1>2, <1>3, <1>4, <2>1
  <2>3. Rank(O, k) < B
    BY <2>1, <2>2
  <2>4. QED
    BY <2>3 DEF First
<1>5. ASSUME O # {}
      PROVE  F # {}
  <2>1. PICK i \in O : \A j \in O : i <= j
    <3>1. O \in SUBSET Nat
      OBVIOUS
    <3>2. QED
      BY <1>1, <1>5, <3>1, LeastIn
  <2>2. Under(i) = {}
    BY <1>1, <2>1
  <2>3. Rank(O, i) = 0
    BY <2>2, FS_EmptySet DEF Rank
  <2>4. QED
    BY <2>3 DEF First
<1>6. ASSUME F # O
      PROVE  Cardinality(F) = B
  <2>1. F \subseteq O /\ O \ F # {} /\ F # {}
    BY <1>5, <1>6 DEF First
  <2>2. IsFiniteSet(O \ F) /\ O \ F \in SUBSET Nat
    <3>1. O \ F \in SUBSET O
      OBVIOUS
    <3>2. QED
      BY <1>1, <3>1, FS_Subset
  <2>3. PICK k \in O \ F : \A j \in O \ F : k <= j
    BY <2>1, <2>2, LeastIn
  <2>4. F = Under(k)
    <3>1. \A i \in F : i < k
      BY <1>1, <1>4, <2>1, <2>3
    <3>2. \A i \in O : i < k => i \in F
      BY <1>1, <2>3
    <3>3. QED
      BY <2>1, <3>1, <3>2
  <2>5. Cardinality(F) = Rank(O, k) /\ ~(Rank(O, k) < B)
    BY <2>3, <2>4 DEF Rank, First
  <2>6. PICK m \in F : \A j \in F : j <= m
    <3>1. F \in SUBSET (0..n)
      BY <2>1
    <3>2. QED
      BY <2>1, <3>1, GreatestIn
  <2>7. F = Under(m) \cup {m} /\ m \notin Under(m)
    <3>1. \A i \in F : i = m \/ i < m
      BY <1>1, <2>1, <2>6
    <3>2. ASSUME NEW i \in O, i < m
          PROVE  i \in F
      BY <1>4, <2>1, <2>6, <3>2
    <3>3. QED
      BY <1>1, <2>1, <2>6, <3>1, <3>2
  <2>8. Cardinality(F) = Rank(O, m) + 1
    BY <1>2, <2>1, <2>7, FS_AddElement DEF Rank
  <2>9. Rank(O, m) < B /\ Rank(O, m) \in Nat /\ Rank(O, k) \in Nat
    BY <1>2, <2>1 DEF First
  <2>10. QED
    BY <2>5, <2>8, <2>9
<1>7. QED
  BY <1>4, <1>5, <1>6

\* A moment lies in the candle that opens at OpenOf.
LEMMA Division ==
  ASSUME NEW t \in Nat
  PROVE  OpenOf(t) \in Nat /\ OpenOf(t) <= t /\ t <= CloseOf(OpenOf(t))
<1>1. Length \in Nat \ {0}
  BY MarketBoundsAssumption
<1>2. t \div Length \in Nat
  BY <1>1
<1>3. t = Length * (t \div Length) + (t % Length) /\ t % Length \in 0..(Length - 1)
  BY <1>1
<1>4. Length * (t \div Length) \in Nat
  BY <1>1, <1>2
<1>5. QED
  BY <1>1, <1>2, <1>3, <1>4 DEF OpenOf, CloseOf

LEMMA Candles ==
  /\ Moments \subseteq Nat /\ Last \in Nat
  /\ Opens \subseteq 0..Last /\ IsFiniteSet(Opens)
  /\ \A k \in Opens : CloseOf(k) \in Nat /\ k <= CloseOf(k)
<1>1. Moments \subseteq Nat /\ Last \in Nat /\ Length \in Nat \ {0}
  BY MarketBoundsAssumption DEF Moments
<1>2. Opens \subseteq 0..Last
  BY <1>1, Division DEF Opens, Moments
<1>3. Opens \in SUBSET Nat /\ \A k \in Opens : k <= Last
  BY <1>1, <1>2
<1>4. IsFiniteSet(Opens)
  BY <1>1, <1>3, FS_BoundedSetOfNaturals
<1>5. QED
  BY <1>1, <1>2, <1>4 DEF CloseOf

-----------------------------------------------------------------------------
\* The stream

MsgRows == [state: {"none", "ready", "taken", "settled"}, tries: 0..MaxRetries]
Runs == [event: Moments \cup {None}, current: BOOLEAN]

\* g can still answer for the event t of its consumer.
Takes(g, c, t) == ConsumerOf(g) = c /\ run[g].event = t /\ run[g].current

\* A message is taken when one callback can answer for it, and no two ever can.
StreamOK ==
  /\ now \in Moments /\ events \subseteq Moments /\ faults \in 0..MaxFaults
  /\ msg \in [Consumers -> [Moments -> MsgRows]]
  /\ run \in [Goroutines -> Runs]
  /\ \A g \in Goroutines : run[g].event \in events \cup {None}
  /\ \A g \in Goroutines : run[g].current =>
       run[g].event \in events /\ msg[ConsumerOf(g)][run[g].event].state = "taken"
  /\ \A g, h \in Goroutines, c \in Consumers, t \in Moments :
       Takes(g, c, t) /\ Takes(h, c, t) => g = h
  /\ \A c \in Consumers, t \in Moments :
       msg[c][t].state = "taken" => \E g \in Goroutines : Takes(g, c, t)

TablesOK ==
  /\ klines \in [Opens -> Rows \cup {None}]
  /\ price \in Moments \cup {None} /\ priced \subseteq events
  /\ told \in [Jobs -> Statuses \cup {None, "missing"}] /\ early \subseteq Opens

-----------------------------------------------------------------------------
\* A job, by its row

\* The candle k is stored with its last word.
Good(k) == klines[k] # None /\ klines[k].is_closed /\ klines[k].price = CloseOf(k)
Owed(row) == {k \in Opens : /\ row.window.from <= k /\ k < row.window.to
                            /\ CloseOf(k) + MinuteAge < row.begun}
PageOpens(row) == {p.open : p \in row.page}
\* The candles of the window before m.
Before(row, m) == {k \in Opens : row.window.from <= k /\ k < m}

\* What is fetched is what the exchange said last, or the candle was running.
PageTrue(row) == \A p \in row.page : p.open \notin early => p.price = CloseOf(p.open)

\* The page that is being stored: one row for each candle, no candle left out
\* between two of them; all before it are counted; what is owed after it comes
\* only when the page was full.
PageOK(row) ==
  /\ row.page # {}
  /\ \A p \in row.page : row.next <= p.open
  /\ \A p, q \in row.page : p.open = q.open => p = q
  /\ \A p, q \in row.page, k \in Opens : p.open <= k /\ k <= q.open => k \in PageOpens(row)
  /\ \A p \in row.page : (\A q \in row.page : p.open <= q.open) =>
       row.count = Cardinality(Before(row, p.open))
  /\ \A k \in Owed(row) \ early :
       Good(k) \/ k \in PageOpens(row) \/ (row.full /\ \A p \in row.page : p.open < k)

JobOK(row) ==
  /\ row \in JobRows
  /\ row.begun <= now /\ row.window.from <= row.next
  /\ row.status = "succeeded" => row.pc = "end"
  /\ PageTrue(row)
  /\ \A k \in Owed(row) \ early : k < row.next => Good(k)
  /\ row.pc = "store" => PageOK(row)
  /\ row.pc \in {"new", "fetch", "return"} \/ row.status = "succeeded" =>
       row.count = Cardinality(Before(row, row.next))
  /\ row.pc = "return" \/ row.status = "succeeded" => \A k \in Owed(row) \ early : Good(k)

JobsOK ==
  /\ job \in [Jobs -> JobRows \cup {None}]
  /\ \A j \in Jobs : job[j] # None => JobOK(job[j])

MarketInv == StreamOK /\ TablesOK /\ JobsOK

-----------------------------------------------------------------------------
\* Steps of the stream

LEMMA Kinds ==
  /\ \A g \in Goroutines : ConsumerOf(g) \in Consumers
  /\ MsgRows = [state: {"none", "ready", "taken", "settled"}, tries: 0..MaxRetries]
  /\ MaxRetries \in Nat /\ MaxFaults \in Nat
  /\ IdleRun \in Runs /\ ~IdleRun.current /\ IdleRun.event = None
  BY MarketBoundsAssumption DEF ConsumerOf, Consumers, MsgRows, IdleRun, Runs

\* One message changes.
Puts(c, t, row) == msg' = [msg EXCEPT ![c] = [msg[c] EXCEPT ![t] = row]]

LEMMA MessagePut ==
  ASSUME StreamOK, NEW c \in Consumers, NEW t \in Moments, NEW row \in MsgRows, Puts(c, t, row)
  PROVE  /\ msg' \in [Consumers -> [Moments -> MsgRows]]
         /\ \A d \in Consumers, u \in Moments :
              msg'[d][u].state = IF d = c /\ u = t THEN row.state ELSE msg[d][u].state
  BY DEF StreamOK, Puts

\* ... its state.
LEMMA StateWritten ==
  ASSUME StreamOK, NEW c \in Consumers, NEW t \in Moments,
         NEW state \in {"none", "ready", "taken", "settled"}
  PROVE  [msg[c][t] EXCEPT !.state = state] \in MsgRows
         /\ [msg[c][t] EXCEPT !.state = state].state = state
<1>1. msg[c][t] \in MsgRows
  BY DEF StreamOK
<1>2. QED
  BY <1>1 DEF MsgRows

\* Neither callbacks nor messages change.
LEMMA StreamRests ==
  ASSUME StreamOK, UNCHANGED <<run, msg>>, now' \in Moments, events' = events,
         faults' \in 0..MaxFaults
  PROVE  StreamOK'
  BY DEF StreamOK, Takes

\* The callback g is done with its message, or goes on without it.
Frees(g, state, left) ==
  /\ run' = [run EXCEPT ![g] = left]
  /\ msg' = IF run[g].current
            THEN [msg EXCEPT ![ConsumerOf(g)][run[g].event].state = state] ELSE msg

LEMMA StreamFreed ==
  ASSUME StreamOK, NEW g \in Goroutines, run[g].event \in events, UNCHANGED <<now, events>>,
         NEW state \in {"ready", "settled"}, faults' \in 0..MaxFaults,
         NEW left \in Runs, ~left.current, left.event \in {None, run[g].event},
         Frees(g, state, left)
  PROVE  StreamOK'
<1> SUFFICES ASSUME NEW c, NEW t, c = ConsumerOf(g), t = run[g].event
             PROVE  StreamOK'
  OBVIOUS
<1>1. c \in Consumers /\ t \in Moments /\ t \in events
  BY Kinds DEF StreamOK
<1>2. /\ run' \in [Goroutines -> Runs] /\ ~run'[g].current
      /\ \A h \in Goroutines \ {g} : run'[h] = run[h]
      /\ run'[g].event \in events \cup {None}
  BY <1>1 DEF StreamOK, Frees
<1>3. /\ msg' \in [Consumers -> [Moments -> MsgRows]]
      /\ \A d \in Consumers, u \in Moments :
           msg'[d][u].state = IF run[g].current /\ d = c /\ u = t THEN state ELSE msg[d][u].state
  <2>1. CASE run[g].current
    <3> DEFINE row == [msg[c][t] EXCEPT !.state = state]
    <3>1. msg' = [msg EXCEPT ![c] = [msg[c] EXCEPT ![t] = row]]
      BY <2>1 DEF Frees
    <3>2. row \in MsgRows /\ row.state = state
      <4>1. msg[c][t] \in MsgRows
        BY <1>1 DEF StreamOK
      <4>2. QED
        BY <4>1 DEF MsgRows
    <3>3. Puts(c, t, row)
      BY <3>1 DEF Puts
    <3> HIDE DEF row
    <3>4. /\ msg' \in [Consumers -> [Moments -> MsgRows]]
          /\ \A d \in Consumers, u \in Moments :
               msg'[d][u].state = IF d = c /\ u = t THEN row.state ELSE msg[d][u].state
      BY <1>1, <3>2, <3>3, MessagePut
    <3>5. QED
      BY <2>1, <3>2, <3>4
  <2>2. CASE ~run[g].current
    BY <2>2 DEF StreamOK, Frees
  <2>3. QED
    BY <2>1, <2>2
<1>4. ASSUME NEW h \in Goroutines, run'[h].current
      PROVE  /\ h # g /\ run[h].current /\ run'[h] = run[h] /\ run[h].event \in events
             /\ msg'[ConsumerOf(h)][run[h].event].state = "taken"
  <2>1. h # g /\ run[h].current /\ run'[h] = run[h]
    BY <1>2, <1>4
  <2>2. /\ ConsumerOf(h) \in Consumers /\ run[h].event \in Moments /\ run[h].event \in events
        /\ msg[ConsumerOf(h)][run[h].event].state = "taken"
    BY <2>1, Kinds DEF StreamOK
  <2>3. ~(run[g].current /\ ConsumerOf(h) = c /\ run[h].event = t)
    BY <1>1, <2>1 DEF StreamOK, Takes
  <2>4. QED
    BY <1>3, <2>1, <2>2, <2>3
<1>5. \A h \in Goroutines, d \in Consumers, u \in Moments :
        Takes(h, d, u)' <=> Takes(h, d, u) /\ h # g
  BY <1>2 DEF Takes
<1>6. ASSUME NEW d \in Consumers, NEW u \in Moments, msg'[d][u].state = "taken"
      PROVE  \E h \in Goroutines : Takes(h, d, u)'
  <2>1. msg[d][u].state = "taken" /\ ~(run[g].current /\ d = c /\ u = t)
    BY <1>3, <1>6
  <2>2. PICK h \in Goroutines : Takes(h, d, u)
    BY <2>1 DEF StreamOK
  <2>3. h # g
    BY <2>1, <2>2 DEF Takes
  <2>4. QED
    BY <1>5, <2>2, <2>3
<1>7. QED
  BY <1>2, <1>3, <1>4, <1>5, <1>6 DEF StreamOK

LEMMA AnswerFrees ==
  ASSUME StreamOK, NEW g \in Goroutines, run[g].event # None, NEW state \in {"ready", "settled"},
         Answer(g, state), UNCHANGED <<now, events>>, faults' \in 0..MaxFaults
  PROVE  StreamOK'
<1>1. run[g].event \in events
  BY DEF StreamOK
<1>2. QED
  BY <1>1, Kinds, StreamFreed DEF Answer, Frees

LEMMA FaultsCounted ==
  ASSUME StreamOK, Fault \/ UNCHANGED faults
  PROVE  faults' \in 0..MaxFaults
  BY Kinds DEF StreamOK, Fault

LEMMA AgainIs == \A g : Again(g) \in {"ready", "settled"}
  BY DEF Again

LEMMA CallbackEnds ==
  ASSUME StreamOK, NEW g \in Goroutines,
         InsertKline(g) \/ UpsertPrice(g) \/ FailCallback(g) \/ Deadline(g)
  PROVE  StreamOK' /\ run[g].event \in events
<1>1. run[g].event # None /\ run[g].event \in events /\ UNCHANGED <<now, events>>
  BY DEF StreamOK, InsertKline, UpsertPrice, FailCallback, Deadline
<1>2. faults' \in 0..MaxFaults
  BY FaultsCounted DEF InsertKline, UpsertPrice, FailCallback, Deadline, Done
<1>3. CASE InsertKline(g) \/ UpsertPrice(g) \/ FailCallback(g)
  <2>1. PICK state \in {"ready", "settled"} : Answer(g, state)
    BY <1>3, AgainIs DEF InsertKline, UpsertPrice, FailCallback, Done
  <2>2. QED
    BY <1>1, <1>2, <2>1, AnswerFrees
<1>4. CASE Deadline(g)
  <2> DEFINE left == [run[g] EXCEPT !.current = FALSE]
  <2>1. run[g].current /\ run' = [run EXCEPT ![g] = left]
    BY <1>4 DEF Deadline, StreamOK
  <2>2. left \in Runs /\ ~left.current /\ left.event = run[g].event
    <3>1. run[g] \in Runs
      BY DEF StreamOK
    <3>2. QED
      BY <3>1 DEF Runs
  <2>3. msg' = [msg EXCEPT ![ConsumerOf(g)][run[g].event].state = Again(g)]
    BY <1>4 DEF Deadline
  <2> HIDE DEF left
  <2>4. QED
    BY <1>1, <1>2, <2>1, <2>2, <2>3, AgainIs, StreamFreed DEF Frees
<1>5. QED
  BY <1>1, <1>3, <1>4

LEMMA DeliverKeeps ==
  ASSUME StreamOK, NEW g \in Goroutines, NEW t \in events, Deliver(g, t)
  PROVE  StreamOK'
<1> DEFINE c == ConsumerOf(g)
           taken == [state |-> "taken", tries |-> msg[c][t].tries + 1]
           begun == [event |-> t, current |-> TRUE]
<1>1. c \in Consumers /\ t \in Moments /\ UNCHANGED <<now, events, faults>>
      /\ msg[c][t].state = "ready" /\ run[g] = IdleRun
  BY Kinds DEF StreamOK, Deliver
<1>2. taken \in MsgRows
  <2>1. msg[c][t] \in MsgRows
    BY <1>1 DEF StreamOK
  <2>2. msg[c][t].tries < MaxRetries
    BY DEF Deliver
  <2>3. QED
    BY <2>1, <2>2, Kinds DEF MsgRows
<1>3. begun \in Runs
  BY <1>1 DEF Runs
<1>4. /\ msg' \in [Consumers -> [Moments -> MsgRows]]
      /\ \A d \in Consumers, u \in Moments :
           msg'[d][u].state = IF d = c /\ u = t THEN "taken" ELSE msg[d][u].state
  <2>1. msg' = [msg EXCEPT ![c] = [msg[c] EXCEPT ![t] = taken]]
    BY DEF Deliver
  <2>2. taken.state = "taken"
    OBVIOUS
  <2> HIDE DEF taken, c
  <2>3. QED
    BY <1>1, <1>2, <2>1, <2>2 DEF StreamOK
<1>5. /\ run' \in [Goroutines -> Runs]
      /\ run'[g].event = t /\ run'[g].current
      /\ \A h \in Goroutines \ {g} : run'[h] = run[h]
  BY <1>1, <1>3 DEF Deliver, StreamOK
<1>6. \A h \in Goroutines : ~Takes(h, c, t)
  BY <1>1 DEF StreamOK, Takes
<1>7. \A h \in Goroutines, d \in Consumers, u \in Moments :
        Takes(h, d, u)' <=> (h # g /\ Takes(h, d, u)) \/ (h = g /\ d = c /\ u = t)
  BY <1>5 DEF Takes
<1>8. ASSUME NEW h \in Goroutines, run'[h].current
      PROVE  run'[h].event \in events /\ msg'[ConsumerOf(h)][run'[h].event].state = "taken"
  <2>1. CASE h = g
    BY <1>1, <1>4, <1>5, <2>1
  <2>2. CASE h # g
    <3>1. /\ run[h].current /\ run'[h] = run[h] /\ run[h].event \in events
          /\ ConsumerOf(h) \in Consumers /\ run[h].event \in Moments
          /\ msg[ConsumerOf(h)][run[h].event].state = "taken"
      BY <1>5, <1>8, <2>2, Kinds DEF StreamOK
    <3>2. QED
      BY <1>4, <3>1
  <2>3. QED
    BY <2>1, <2>2
<1>9. ASSUME NEW d \in Consumers, NEW u \in Moments, msg'[d][u].state = "taken"
      PROVE  \E h \in Goroutines : Takes(h, d, u)'
  <2>1. CASE d = c /\ u = t
    BY <1>7, <2>1
  <2>2. CASE ~(d = c /\ u = t)
    <3>1. msg[d][u].state = "taken"
      BY <1>4, <1>9, <2>2
    <3>2. PICK h \in Goroutines : Takes(h, d, u)
      BY <3>1 DEF StreamOK
    <3>3. h # g
      BY <1>1, <3>2, Kinds DEF Takes
    <3>4. QED
      BY <1>7, <3>2, <3>3
  <2>3. QED
    BY <2>1, <2>2
<1>10. \A h \in Goroutines : run'[h].event \in events \cup {None}
  BY <1>1, <1>5 DEF StreamOK
<1> HIDE DEF c, taken, begun
<1>11. \A h, i \in Goroutines, d \in Consumers, u \in Moments :
         Takes(h, d, u)' /\ Takes(i, d, u)' => h = i
  BY <1>6, <1>7 DEF StreamOK
<1>12. QED
  BY <1>1, <1>4, <1>5, <1>8, <1>9, <1>10, <1>11 DEF StreamOK

LEMMA PublishKeeps ==
  ASSUME StreamOK, PublishKline
  PROVE  StreamOK'
<1>1. /\ now \in Moments /\ now \notin events /\ events' = events \cup {now}
      /\ UNCHANGED <<run, now, faults>>
  BY DEF PublishKline, StreamOK
<1>2. \A c \in Consumers : msg'[c] = [msg[c] EXCEPT ![now].state = "ready"]
  BY DEF PublishKline
<1>3. \A c \in Consumers : [msg[c][now] EXCEPT !.state = "ready"] \in MsgRows
        /\ [msg[c][now] EXCEPT !.state = "ready"].state = "ready"
  BY <1>1 DEF StreamOK, MsgRows
<1>4. /\ msg' \in [Consumers -> [Moments -> MsgRows]]
      /\ \A c \in Consumers, u \in Moments :
           msg'[c][u].state = IF u = now THEN "ready" ELSE msg[c][u].state
  <2>1. \A c \in Consumers : msg[c] \in [Moments -> MsgRows]
    BY DEF StreamOK
  <2>2. msg' = [c \in Consumers |-> [msg[c] EXCEPT ![now] = [msg[c][now] EXCEPT !.state = "ready"]]]
    BY DEF PublishKline
  <2>3. QED
    BY <1>1, <1>3, <2>1, <2>2
<1>5. \A g \in Goroutines, c \in Consumers, t \in Moments : Takes(g, c, t)' <=> Takes(g, c, t)
  BY <1>1 DEF Takes
<1>6. ASSUME NEW g \in Goroutines, run'[g].current
      PROVE  run[g].event \in events /\ msg'[ConsumerOf(g)][run[g].event].state = "taken"
  BY <1>1, <1>4, <1>6, Kinds DEF StreamOK
<1>7. QED
  BY <1>1, <1>4, <1>5, <1>6 DEF StreamOK

LEMMA AgeKeeps ==
  ASSUME StreamOK, NEW c \in Consumers, NEW t \in events, AgeOut(c, t)
  PROVE  StreamOK'
<1>1. t \in Moments /\ msg[c][t].state = "ready" /\ UNCHANGED <<now, events, run, faults>>
  BY DEF StreamOK, AgeOut
<1>2. /\ msg' \in [Consumers -> [Moments -> MsgRows]]
      /\ \A d \in Consumers, u \in Moments :
           msg'[d][u].state = IF d = c /\ u = t THEN "settled" ELSE msg[d][u].state
  <2> DEFINE row == [msg[c][t] EXCEPT !.state = "settled"]
  <2>1. msg' = [msg EXCEPT ![c] = [msg[c] EXCEPT ![t] = row]]
    BY DEF AgeOut
  <2>2. row \in MsgRows /\ row.state = "settled"
    BY <1>1, StateWritten
  <2>3. Puts(c, t, row)
    BY <2>1 DEF Puts
  <2> HIDE DEF row
  <2>4. QED
    BY <1>1, <2>2, <2>3, MessagePut
<1>3. ASSUME NEW g \in Goroutines, run'[g].current
      PROVE  run[g].event \in events /\ msg'[ConsumerOf(g)][run[g].event].state = "taken"
  <2>1. /\ run[g].event \in events /\ run[g].event \in Moments /\ ConsumerOf(g) \in Consumers
        /\ msg[ConsumerOf(g)][run[g].event].state = "taken"
    BY <1>1, <1>3, Kinds DEF StreamOK
  <2>2. QED
    BY <1>1, <1>2, <2>1
<1>4. \A g \in Goroutines, d \in Consumers, u \in Moments : Takes(g, d, u)' <=> Takes(g, d, u)
  BY <1>1 DEF Takes
<1>5. QED
  BY <1>1, <1>2, <1>3, <1>4 DEF StreamOK

-----------------------------------------------------------------------------
\* What a job's row says, of any row

\* Another row of the same job owes the same.
LEMMA SameOwed ==
  ASSUME NEW old, NEW new, new.window = old.window, new.begun = old.begun
  PROVE  Owed(new) = Owed(old) /\ \A m : Before(new, m) = Before(old, m)
  BY DEF Owed, Before

LEMMA JobFields ==
  ASSUME NEW row \in JobRows
  PROVE  /\ row.window.from \in Nat /\ row.window.to \in Nat
         /\ row.next \in Nat /\ row.count \in Nat /\ row.begun \in Moments
         /\ \A p \in row.page : p.open \in Opens /\ p.price \in Moments
         /\ row.pc \in {"new", "fetch", "store", "return", "end"}
<1>1. row.window \in [from: Nat, to: Nat, configured: BOOLEAN]
  BY MarketBoundsAssumption DEF JobRows
<1>2. row.page \subseteq [open: Opens, price: Moments]
  BY DEF JobRows
<1>3. QED
  BY <1>1, <1>2 DEF JobRows

\* A candle that is owed had ended, more than a minute ago, when the job began.
LEMMA OwedIsOver ==
  ASSUME StreamOK, NEW row, JobOK(row), NEW k \in Owed(row)
  PROVE  /\ k \in Opens /\ k \in Nat /\ k <= now /\ CloseOf(k) \in Nat /\ CloseOf(k) <= now
         /\ CloseOf(k) + MinuteAge < now
         /\ row.window.from <= k /\ k <= row.window.to - 1 /\ k < row.window.to
<1>1. /\ row \in JobRows /\ row.begun <= now
      /\ k \in Opens /\ row.window.from <= k /\ k < row.window.to
      /\ CloseOf(k) + MinuteAge < row.begun
  BY DEF JobOK, Owed
<1>2. row.begun \in Nat /\ now \in Nat /\ MinuteAge \in Nat /\ CloseOf(k) \in Nat
      /\ k \in Nat /\ k <= CloseOf(k) /\ row.window.to \in Nat
  BY <1>1, Candles, JobFields, MarketBoundsAssumption DEF StreamOK
<1>3. CloseOf(k) + MinuteAge < now /\ k <= now /\ CloseOf(k) <= now
  BY <1>1, <1>2
<1>4. k <= row.window.to - 1
  BY <1>1, <1>2
<1>5. QED
  BY <1>1, <1>2, <1>3, <1>4

\* Time passes, candles are found running, and nothing good is taken back.
LEMMA JobStays ==
  ASSUME NEW row, JobOK(row), now \in Nat, now' \in Nat, now <= now', early \subseteq early',
         \A k \in Owed(row) \ early' : Good(k) => Good(k)'
  PROVE  JobOK(row)'
<1>1. row.begun <= now'
  <2>1. row.begun \in Nat /\ row.begun <= now
    BY JobFields, Candles DEF JobOK
  <2>2. QED
    BY <2>1
<1>2. PageTrue(row)'
  BY DEF JobOK, PageTrue
<1>3. row.pc = "store" => PageOK(row)'
  BY DEF JobOK, PageOK, Owed, PageOpens, Before
<1>4. QED
  BY <1>1, <1>2, <1>3 DEF JobOK, Owed, Before

\* The last word of a candle is a row.
LEMMA RowIsKline ==
  ASSUME NEW p, p.open \in Opens, p.price \in Moments
  PROVE  /\ RowKline(p) \in Rows /\ RowKline(p) # None
         /\ RowKline(p).is_closed /\ RowKline(p).price = p.price
<1>1. RowKline(p) \in Rows
  BY DEF RowKline, Rows
<1>2. QED
  BY <1>1, MarketNoneAssumption DEF RowKline

\* An event of a candle comes at its close at the latest.
LEMMA EventKline ==
  ASSUME NEW t \in Moments
  PROVE  KlineOf(t) \in Rows /\ OpenOf(t) \in Opens /\ t \in Nat /\ t <= CloseOf(OpenOf(t))
  BY Candles, Division DEF KlineOf, Rows, Opens

-----------------------------------------------------------------------------
\* Good candles stay good

\* The worker drops what is older than a minute: an event of an owed candle.
LEMMA InsertSpares ==
  ASSUME MarketInv, NEW g \in Goroutines, InsertKline(g), NEW row, JobOK(row),
         NEW k \in Owed(row)
  PROVE  klines'[k] = klines[k]
<1> DEFINE t == run[g].event
<1>1. t \in Moments /\ k \in Opens
  BY CallbackEnds, OwedIsOver DEF MarketInv, StreamOK
<1>2. CASE TooOld(t)
  BY <1>2 DEF InsertKline
<1>3. CASE ~TooOld(t)
  <2>1. ~(t + MinuteAge < now)
    BY <1>3 DEF TooOld
  <2>2. t \in Nat /\ t <= CloseOf(OpenOf(t)) /\ OpenOf(t) \in Opens
    BY <1>1, EventKline
  <2>3. now \in Nat /\ MinuteAge \in Nat /\ CloseOf(k) + MinuteAge < now /\ CloseOf(k) \in Nat
    BY OwedIsOver, Candles, MarketBoundsAssumption DEF MarketInv, StreamOK
  <2>4. OpenOf(t) # k
    <3> SUFFICES ASSUME OpenOf(t) = k
                 PROVE  FALSE
      OBVIOUS
    <3>1. t <= CloseOf(k)
      BY <2>2
    <3> HIDE DEF t
    <3>2. QED
      BY <2>1, <2>2, <2>3, <3>1
  <2>5. klines' = [klines EXCEPT ![OpenOf(t)] = KlineOf(t)]
    BY <1>3 DEF InsertKline
  <2> HIDE DEF t
  <2>6. QED
    BY <1>1, <2>2, <2>4, <2>5 DEF MarketInv, TablesOK
<1>4. QED
  BY <1>2, <1>3

\* A row that a job stores is the candle's last word, or the candle ran when it
\* was fetched.
LEMMA StoredIsGood ==
  ASSUME MarketInv, NEW j \in Jobs, job[j] # None, CreateKline(j),
         NEW p \in job[j].page, klines' = [klines EXCEPT ![p.open] = RowKline(p)]
  PROVE  /\ p.open \in Opens
         /\ p.open \notin early => Good(p.open)'
         /\ \A k \in Opens \ early : Good(k) => Good(k)'
         /\ klines' \in [Opens -> Rows \cup {None}]
<1>1. JobOK(job[j]) /\ job[j] \in JobRows
  BY DEF MarketInv, JobsOK, JobOK
<1>2. p.open \in Opens /\ p.price \in Moments
  BY <1>1, JobFields
<1>3. p.open \notin early => p.price = CloseOf(p.open)
  BY <1>1 DEF JobOK, PageTrue
<1>4. /\ klines' \in [Opens -> Rows \cup {None}]
      /\ klines'[p.open] = RowKline(p)
      /\ \A k \in Opens \ {p.open} : klines'[k] = klines[k]
  BY <1>2, RowIsKline DEF MarketInv, TablesOK
<1>5. p.open \notin early => Good(p.open)'
  <2>1. ASSUME NEW k, k = p.open, k \notin early
        PROVE  Good(k)'
    BY <1>2, <1>3, <1>4, <2>1, RowIsKline DEF Good
  <2>2. QED
    BY <2>1 DEF Good
<1>6. ASSUME NEW k \in Opens \ early, Good(k)
      PROVE  Good(k)'
  <2>1. CASE k = p.open
    BY <1>5, <1>6, <2>1 DEF Good
  <2>2. CASE k # p.open
    BY <1>4, <1>6, <2>2 DEF Good
  <2>3. QED
    BY <2>1, <2>2
<1>7. QED
  BY <1>2, <1>4, <1>5, <1>6

LEMMA GoodStays ==
  ASSUME MarketInv, [MarketNext]_marketVars, NEW row, JobOK(row), NEW k \in Owed(row) \ early',
         early \subseteq early', Good(k)
  PROVE  Good(k)'
<1>1. k \in Opens
  BY DEF Owed
<1>2. ASSUME NEW g \in Goroutines, InsertKline(g)
      PROVE  Good(k)'
  <2>1. klines'[k] = klines[k]
    BY <1>2, InsertSpares
  <2>2. QED
    BY <2>1 DEF Good
<1>3. ASSUME NEW j \in Jobs, job[j] # None, CreateKline(j)
      PROVE  Good(k)'
  <2>1. PICK p \in job[j].page : klines' = [klines EXCEPT ![p.open] = RowKline(p)]
    BY <1>3 DEF CreateKline
  <2>2. QED
    BY <1>1, <1>3, <2>1, StoredIsGood
<1>4. CASE klines' = klines
  BY <1>4 DEF Good
<1>5. \/ \E g \in Goroutines : InsertKline(g)
      \/ \E j \in Jobs : job[j] # None /\ CreateKline(j)
      \/ klines' = klines
  BY DEF MarketNext, Callbacks, Backfill, Runner, Goroutines, Tick, PublishKline, Deliver,
         AgeOut, UpsertPrice, FailCallback, Deadline, StartJob, Tell, MarkRunning,
         FetchKlineRows, RefuseJob, MarkSucceeded, MarkFailed, CrashApi, marketVars
<1>6. QED
  BY <1>2, <1>3, <1>4, <1>5

-----------------------------------------------------------------------------
\* Steps of a job, from one row to the next

\* A page was fetched.
Fetched(old, new, open) ==
  /\ open = First({k \in Opens : old.next <= k /\ k <= old.window.to - 1 /\ k <= now}, BatchLimit)
  /\ old.pc = "fetch" /\ new.pc = IF open = {} THEN "return" ELSE "store"
  /\ new.page = {[open |-> k, price |-> PriceOf(k)] : k \in open}
  /\ new.full = (Cardinality(open) = BatchLimit)
  /\ new.window = old.window /\ new.begun = old.begun /\ new.next = old.next
  /\ new.count = old.count /\ new.status = old.status
  /\ early' = early \cup {k \in open : now < CloseOf(k)}
  /\ now' = now /\ klines' = klines

LEMMA FetchedPage ==
  ASSUME StreamOK, NEW old, NEW new, NEW open, JobOK(old), Fetched(old, new, open)
  PROVE  /\ open \subseteq Opens
         /\ \A p \in new.page : p.open \in open /\ p.price = PriceOf(p.open)
         /\ PageOpens(new) = open
         /\ \A p, q \in new.page : p.open = q.open => p = q
         /\ new.page \subseteq [open: Opens, price: Moments]
<1>1. open \subseteq Opens
  BY DEF Fetched, First
<1>2. ASSUME NEW p \in new.page
      PROVE  p = [open |-> p.open, price |-> PriceOf(p.open)] /\ p.open \in open
  <2>1. PICK k \in open : p = [open |-> k, price |-> PriceOf(k)]
    BY DEF Fetched
  <2>2. p.open = k
    BY <2>1
  <2>3. QED
    BY <2>1, <2>2
<1>3. PageOpens(new) = open
  <2>1. \A p \in new.page : p.open \in open
    BY <1>2
  <2>2. ASSUME NEW k \in open
        PROVE  \E p \in new.page : p.open = k
    <3>1. [open |-> k, price |-> PriceOf(k)] \in new.page
      BY DEF Fetched
    <3>2. [open |-> k, price |-> PriceOf(k)].open = k
      OBVIOUS
    <3>3. QED
      BY <3>1, <3>2
  <2>3. QED
    BY <2>1, <2>2 DEF PageOpens
<1>4. \A k \in open : PriceOf(k) \in Moments
  BY <1>1, Candles DEF PriceOf, StreamOK, Moments
<1>5. QED
  BY <1>1, <1>2, <1>3, <1>4

LEMMA FetchKeeps ==
  ASSUME StreamOK, NEW old, NEW new \in JobRows, NEW open, JobOK(old), Fetched(old, new, open)
  PROVE  JobOK(new)'
<1> DEFINE O == {k \in Opens : old.next <= k /\ k <= old.window.to - 1 /\ k <= now}
<1>1. old \in JobRows /\ old.begun <= now /\ old.window.from <= old.next
      /\ now' = now /\ klines' = klines /\ early \subseteq early' /\ now \in Nat
      /\ new.next = old.next /\ new.count = old.count /\ new.status = old.status
      /\ old.status # "succeeded"
  BY Candles DEF JobOK, Fetched, StreamOK
<1>2. old.window.from \in Nat /\ old.window.to \in Nat /\ old.next \in Nat
  BY <1>1, JobFields
<1>3. Owed(new) = Owed(old) /\ \A m : Before(new, m) = Before(old, m)
  BY SameOwed DEF Fetched
<1>4. /\ O # {} => open # {}
      /\ \A k \in O, p \in open : k <= p => k \in open
      /\ open # O => Cardinality(open) = BatchLimit
      /\ open \subseteq O
  <2>1. open = First(O, BatchLimit) /\ BatchLimit \in Nat \ {0} /\ Last \in Nat
    BY MarketBoundsAssumption DEF Fetched
  <2>2. \A k \in O : k \in Nat /\ k <= Last
    BY Candles
  <2> HIDE DEF O
  <2>3. QED
    BY <2>1, <2>2, FirstOnes DEF First
<1>5. \A k \in Owed(old) : k \in O \/ k < old.next
  BY <1>2, OwedIsOver
<1>6. \A k \in Opens : k \in Nat
  BY Candles
<1>7. PageTrue(new)'
  <2>1. ASSUME NEW p \in new.page, p.open \notin early'
        PROVE  p.price = CloseOf(p.open)
    <3>1. p.open \in open /\ p.open \in Opens /\ p.price = PriceOf(p.open)
      BY FetchedPage
    <3>2. ~(now < CloseOf(p.open))
      BY <2>1, <3>1 DEF Fetched
    <3>3. QED
      BY <3>1, <3>2 DEF PriceOf
  <2>2. QED
    BY <2>1 DEF PageTrue, CloseOf
<1>8. \A k \in Owed(new) \ early' : k < old.next => Good(k)'
  <2>1. \A k \in Owed(old) \ early : k < old.next => Good(k)
    BY DEF JobOK
  <2>2. \A k : Good(k)' <=> Good(k)
    BY <1>1 DEF Good
  <2>3. QED
    BY <1>1, <1>3, <2>1, <2>2
<1>9. old.count = Cardinality(Before(old, old.next))
  BY DEF JobOK, Fetched
<1>10. CASE open = {}
  <2>1. new.pc = "return"
    BY <1>10 DEF Fetched
  <2>2. \A k \in Owed(new) \ early' : Good(k)'
    BY <1>3, <1>4, <1>5, <1>8, <1>10
  <2>3. QED
    BY <1>1, <1>3, <1>7, <1>8, <1>9, <2>1, <2>2, SameOwed DEF JobOK, Fetched, Owed, Before
<1>11. CASE open # {}
  <2>1. new.pc = "store"
    BY <1>11 DEF Fetched
  <2>2. PageOpens(new) = open /\ \A p \in new.page : p.open \in open /\ p.open \in O
        /\ p.open \in Opens
    BY <1>4, FetchedPage
  <2>3. new.page # {} /\ \A p \in new.page : new.next <= p.open
    BY <1>1, <1>11, <2>2 DEF PageOpens
  <2>4. \A p, q \in new.page : p.open = q.open => p = q
    BY FetchedPage
  <2>5. ASSUME NEW p \in new.page, NEW q \in new.page, NEW k \in Opens,
               p.open <= k, k <= q.open
        PROVE  k \in PageOpens(new)
    <3>1. p.open \in O /\ q.open \in O /\ q.open \in open
      BY <2>2
    <3>2. k \in O
      BY <1>1, <1>2, <1>6, <2>5, <3>1
    <3>3. QED
      BY <1>4, <2>2, <2>5, <3>1, <3>2
  <2>6. ASSUME NEW p \in new.page, \A q \in new.page : p.open <= q.open
        PROVE  new.count = Cardinality(Before(new, p.open))
    <3>1. p.open \in O /\ p.open \in open
      BY <2>2
    <3>2. \A k \in open : p.open <= k
      BY <2>2, <2>6 DEF PageOpens
    <3>3. \A k \in Opens : k < p.open => k < old.next
      <4> SUFFICES ASSUME NEW k \in Opens, k < p.open, ~(k < old.next)
                   PROVE  FALSE
        OBVIOUS
      <4>1. k \in O
        BY <1>1, <1>2, <1>6, <3>1
      <4>2. k \in open
        BY <1>4, <1>6, <3>1, <4>1
      <4>3. QED
        BY <1>6, <3>1, <3>2, <4>2
    <3>4. \A k \in Opens : k < old.next => k < p.open
      BY <1>2, <1>6, <3>1
    <3>5. Before(old, p.open) = Before(old, old.next)
      BY <3>3, <3>4 DEF Before
    <3>6. QED
      BY <1>1, <1>3, <1>9, <3>5
  <2>7. ASSUME NEW k \in Owed(new) \ early'
        PROVE  \/ Good(k)' \/ k \in PageOpens(new)
               \/ new.full /\ \A p \in new.page : p.open < k
    <3>1. CASE k < old.next
      BY <1>8, <2>7, <3>1
    <3>2. CASE k \in open
      BY <2>2, <3>2
    <3>3. CASE ~(k < old.next) /\ k \notin open
      <4>1. k \in O
        BY <1>3, <1>5, <2>7, <3>3
      <4>2. Cardinality(open) = BatchLimit
        BY <1>4, <3>3, <4>1
      <4>3. new.full
        BY <4>2 DEF Fetched
      <4>4. \A p \in new.page : p.open < k
        BY <1>4, <1>6, <2>2, <3>3, <4>1
      <4>5. QED
        BY <4>3, <4>4
    <3>4. QED
      BY <3>1, <3>2, <3>3
  <2>8. PageOK(new)'
    BY <2>3, <2>4, <2>5, <2>6, <2>7 DEF PageOK, PageOpens, Owed, Before, CloseOf
  <2>9. QED
    BY <1>1, <1>3, <1>7, <1>8, <2>1, <2>8, SameOwed DEF JobOK, Fetched, Owed
<1>12. QED
  BY <1>10, <1>11

\* The least row p of the page was stored.
Stored(old, new, p) ==
  /\ p \in old.page /\ \A q \in old.page : p.open <= q.open
  /\ old.pc = "store"
  /\ new.page = old.page \ {p} /\ new.count = old.count + 1
  /\ IF old.page # {p}
     THEN new.pc = "store" /\ new.next = old.next
     ELSE /\ new.next = p.open + 1
          /\ new.pc = IF ~old.full \/ p.open + 1 >= old.window.to THEN "return" ELSE "fetch"
  /\ new.window = old.window /\ new.begun = old.begun /\ new.full = old.full
  /\ new.status = old.status
  /\ early' = early /\ now' = now
  /\ p.open \notin early => Good(p.open)'
  /\ \A k \in Opens \ early : Good(k) => Good(k)'

\* One candle more is before m, when it is the next one.
LEMMA OneMore ==
  ASSUME NEW row, NEW k \in Opens, row.window.from <= k, NEW m,
         \A i \in Opens : row.window.from <= i => (i < m <=> i < k \/ i = k), ~(k < k)
  PROVE  Cardinality(Before(row, m)) = Cardinality(Before(row, k)) + 1
<1>1. Before(row, m) = Before(row, k) \cup {k} /\ k \notin Before(row, k)
  BY DEF Before
<1>2. Before(row, k) \in SUBSET Opens
  BY DEF Before
<1>3. IsFiniteSet(Before(row, k))
  BY <1>2, Candles, FS_Subset
<1>4. QED
  BY <1>1, <1>3, FS_AddElement

LEMMA StoreKeeps ==
  ASSUME StreamOK, NEW old, NEW new \in JobRows, NEW p, JobOK(old), Stored(old, new, p)
  PROVE  JobOK(new)'
<1>1. /\ old \in JobRows /\ old.begun <= now /\ old.window.from <= old.next
      /\ old.status # "succeeded" /\ PageOK(old) /\ PageTrue(old)
      /\ p \in old.page /\ old.next <= p.open
  BY DEF JobOK, Stored, PageOK
<1>2. /\ old.window.from \in Nat /\ old.window.to \in Nat /\ old.next \in Nat
      /\ old.count \in Nat /\ p.open \in Opens
      /\ \A q \in old.page : q.open \in Opens
  BY <1>1, JobFields
<1>3. \A k \in Opens : k \in Nat
  BY Candles
<1>4. Owed(new) = Owed(old) /\ \A m : Before(new, m) = Before(old, m)
  BY SameOwed DEF Stored
<1>5. \A k \in Owed(old) \ early : k < old.next => Good(k)'
  BY DEF JobOK, Stored, Owed
<1>6. \A k \in Owed(old) \ early :
        Good(k)' \/ k \in PageOpens(new) \/ (old.full /\ \A q \in old.page : q.open < k)
  <2> SUFFICES ASSUME NEW k \in Owed(old) \ early, k \in PageOpens(old), ~Good(k)'
               PROVE  k \in PageOpens(new)
    BY <1>1 DEF PageOK, Stored, Owed
  <2>1. PICK q \in old.page : k = q.open
    BY DEF PageOpens
  <2>2. q # p
    BY <2>1 DEF Stored
  <2>3. QED
    BY <2>1, <2>2 DEF PageOpens, Stored
<1>7. old.count = Cardinality(Before(old, p.open))
  BY <1>1 DEF PageOK, Stored
<1>8. old.window.from <= p.open
  BY <1>1, <1>2, <1>3
<1>9. PageTrue(new)'
  BY <1>1 DEF PageTrue, Stored, CloseOf
<1>10. CASE old.page = {p}
  <2>1. /\ new.next = p.open + 1 /\ new.page = {}
        /\ new.pc = IF ~old.full \/ p.open + 1 >= old.window.to THEN "return" ELSE "fetch"
    BY <1>10 DEF Stored
  <2>2. \A k \in Owed(old) \ early : Good(k)' \/ (old.full /\ p.open < k)
    BY <1>1, <1>6, <2>1 DEF PageOpens
  <2>3. \A k \in Owed(old) \ early : k < new.next => Good(k)'
    <3>1. \A k \in Owed(old) : k \in Nat
      BY <1>3 DEF Owed
    <3>2. QED
      BY <1>2, <1>3, <2>1, <2>2, <3>1
  <2>4. new.count = Cardinality(Before(old, new.next))
    <3>1. \A i \in Opens : i < p.open + 1 <=> i < p.open \/ i = p.open
      BY <1>2, <1>3
    <3>2. ~(p.open < p.open)
      BY <1>2, <1>3
    <3>3. Cardinality(Before(old, p.open + 1)) = Cardinality(Before(old, p.open)) + 1
      BY <1>2, <1>8, <3>1, <3>2, OneMore
    <3>4. QED
      BY <1>7, <2>1, <3>3 DEF Stored
  <2>5. new.pc = "return" => \A k \in Owed(old) \ early : Good(k)'
    <3>1. CASE ~old.full
      BY <2>2, <3>1
    <3>2. CASE p.open + 1 >= old.window.to
      <4>1. \A k \in Owed(old) : k \in Nat /\ k < old.window.to
        BY <1>3 DEF Owed
      <4>2. QED
        BY <1>2, <1>3, <2>1, <2>3, <3>2, <4>1
    <3>3. QED
      BY <2>1, <3>1, <3>2
  <2>6. new.window.from <= new.next /\ new.begun <= now' /\ early' = early
        /\ new.status # "succeeded" /\ new.pc \in {"return", "fetch"}
    BY <1>1, <1>2, <1>3, <1>8, <2>1 DEF Stored
  <2>7. QED
    BY <1>4, <1>9, <2>3, <2>4, <2>5, <2>6 DEF JobOK, Owed, Before, CloseOf
<1>11. CASE old.page # {p}
  <2>1. new.pc = "store" /\ new.next = old.next /\ new.page = old.page \ {p} /\ new.page # {}
    BY <1>1, <1>11 DEF Stored
  <2>2. /\ \A q \in new.page : q \in old.page /\ q # p /\ q.open \in Opens /\ new.next <= q.open
        /\ \A q, r \in new.page : q.open = r.open => q = r
        /\ \A q \in new.page : p.open < q.open
    <3>1. \A q \in old.page : p.open <= q.open /\ (q.open = p.open => q = p)
      BY <1>1 DEF PageOK, Stored
    <3>2. QED
      BY <1>1, <1>2, <1>3, <2>1, <3>1 DEF PageOK
  <2>3. ASSUME NEW k \in Opens, NEW q \in new.page, p.open < k, k <= q.open
        PROVE  k \in PageOpens(new)
    <3>1. p.open <= k
      BY <1>2, <1>3, <2>3
    <3>2. k \in PageOpens(old)
      BY <1>1, <2>2, <2>3, <3>1 DEF PageOK
    <3>3. PICK r \in old.page : k = r.open
      BY <3>2 DEF PageOpens
    <3>4. r # p
      BY <1>2, <1>3, <2>3, <3>3
    <3>5. QED
      BY <2>1, <3>3, <3>4 DEF PageOpens
  <2>4. \A q, r \in new.page, k \in Opens : q.open <= k /\ k <= r.open => k \in PageOpens(new)
    BY <1>2, <1>3, <2>2, <2>3
  <2>5. ASSUME NEW q \in new.page, \A r \in new.page : q.open <= r.open
        PROVE  new.count = Cardinality(Before(new, q.open))
    <3>1. p.open < q.open /\ q.open \in Opens
      BY <2>2
    <3>2. ASSUME NEW i \in Opens, i < q.open
          PROVE  i < p.open \/ i = p.open
      <4> SUFFICES ASSUME p.open < i
                   PROVE  FALSE
        BY <1>2, <1>3
      <4>1. i <= q.open
        BY <1>3, <3>1, <3>2
      <4>2. PICK r \in new.page : i = r.open
        BY <2>3, <4>1 DEF PageOpens
      <4>3. QED
        BY <1>3, <2>5, <3>1, <3>2, <4>2
    <3>3. \A i \in Opens : i < p.open \/ i = p.open => i < q.open
      BY <1>2, <1>3, <3>1
    <3>4. ~(p.open < p.open)
      BY <1>2, <1>3
    <3>5. \A i \in Opens : old.window.from <= i => (i < q.open <=> i < p.open \/ i = p.open)
      BY <3>2, <3>3
    <3>6. Cardinality(Before(old, q.open)) = Cardinality(Before(old, p.open)) + 1
      BY <1>2, <1>8, <3>4, <3>5, OneMore
    <3>7. QED
      BY <1>4, <1>7, <3>6 DEF Stored
  <2>6. \A k \in Owed(new) \ early :
          Good(k)' \/ k \in PageOpens(new) \/ (new.full /\ \A q \in new.page : q.open < k)
    BY <1>4, <1>6, <2>2 DEF Stored
  <2>7. PageOK(new)'
    <3>1. early' = early
      BY DEF Stored
    <3>2. QED
      BY <2>1, <2>2, <2>4, <2>5, <2>6, <3>1 DEF PageOK, PageOpens, Owed, Before, CloseOf
  <2>8. new.window.from <= new.next /\ new.begun <= now' /\ early' = early
        /\ new.status # "succeeded"
    BY <1>1, <2>1 DEF Stored
  <2>9. QED
    BY <1>4, <1>5, <1>9, <2>1, <2>7, <2>8 DEF JobOK, Owed, CloseOf
<1>12. QED
  BY <1>10, <1>11

-----------------------------------------------------------------------------
\* The steps, one by one

\* What the step of a job leaves to the others.
LEMMA OtherJobs ==
  ASSUME MarketInv, [MarketNext]_marketVars, now' \in Nat, now <= now', early \subseteq early',
         NEW row, JobOK(row)
  PROVE  JobOK(row)'
  BY JobStays, GoodStays, Candles DEF MarketInv, StreamOK

\* A step that leaves every job alone.
LEMMA JobsRest ==
  ASSUME MarketInv, [MarketNext]_marketVars, now' \in Nat, now <= now', early' = early, job' = job
  PROVE  JobsOK'
<1>1. ASSUME NEW j \in Jobs, NEW row, row = job'[j], row # None
      PROVE  JobOK(row)'
  <2>1. JobOK(row)
    BY <1>1 DEF MarketInv, JobsOK
  <2>2. QED
    BY <2>1, OtherJobs
<1>2. QED
  BY <1>1 DEF MarketInv, JobsOK, JobOK, PageTrue, PageOK, Good, Owed, PageOpens, Before, CloseOf

\* The job j goes from one row to another.
LEMMA JobMoves ==
  ASSUME MarketInv, [MarketNext]_marketVars, now' = now, early \subseteq early',
         NEW j \in Jobs, NEW new \in JobRows, Step(j, new), JobOK(new)'
  PROVE  JobsOK'
<1>1. /\ job' \in [Jobs -> JobRows \cup {None}]
      /\ job'[j] = new /\ \A i \in Jobs \ {j} : job'[i] = job[i]
  BY DEF MarketInv, JobsOK, Step
<1>2. ASSUME NEW i \in Jobs, NEW row, row = job'[i], row # None
      PROVE  JobOK(row)'
  <2>1. CASE i = j
    BY <1>1, <1>2, <2>1
  <2>2. CASE i # j
    <3>1. JobOK(row)
      BY <1>1, <1>2, <2>2 DEF MarketInv, JobsOK
    <3>2. now' \in Nat /\ now <= now'
      BY Candles DEF MarketInv, StreamOK
    <3>3. QED
      BY <3>1, <3>2, OtherJobs
  <2>3. QED
    BY <2>1, <2>2
<1>3. QED
  BY <1>1, <1>2 DEF JobsOK, JobOK, PageTrue, PageOK, Good, Owed, PageOpens, Before, CloseOf

\* A row of a job whose step changes nothing around it.
LEMMA QuietMove ==
  ASSUME MarketInv, [MarketNext]_marketVars, UNCHANGED <<now, klines, early>>,
         NEW j \in Jobs, NEW new \in JobRows, Step(j, new), JobOK(new)
  PROVE  JobsOK'
<1>1. JobOK(new)'
  BY DEF JobOK, PageTrue, PageOK, Good, Owed, PageOpens, Before, CloseOf
<1>2. QED
  BY <1>1, JobMoves

LEMMA StartKeeps ==
  ASSUME MarketInv, [MarketNext]_marketVars, NEW j \in Jobs, NEW w \in Windows, StartJob(j, w)
  PROVE  JobsOK'
<1> DEFINE new == [status |-> "pending", window |-> w, pc |-> "new", next |-> w.from, page |-> {},
                   full |-> FALSE, count |-> 0, begun |-> now]
<1>1. w.from \in Nat /\ now \in Moments /\ now \in Nat
  BY MarketBoundsAssumption, Candles DEF MarketInv, StreamOK
<1>2. new \in JobRows
  BY <1>1 DEF JobRows, Statuses
<1>3. /\ new.status = "pending" /\ new.pc = "new" /\ new.next = w.from /\ new.page = {}
      /\ new.count = 0 /\ new.begun = now /\ new.window = w
  OBVIOUS
<1>4. Step(j, new) /\ UNCHANGED <<now, klines, early>>
  BY DEF StartJob, backfillRest
<1> HIDE DEF new
<1>5. \A k \in Opens : k \in Nat
  BY Candles
<1>6. Before(new, new.next) = {}
  BY <1>1, <1>3, <1>5 DEF Before
<1>7. \A k \in Owed(new) \ early : ~(k < new.next)
  BY <1>1, <1>3, <1>5 DEF Owed
<1>8. JobOK(new)
  BY <1>1, <1>2, <1>3, <1>6, <1>7, FS_EmptySet DEF JobOK, PageTrue
<1>9. QED
  BY <1>2, <1>4, <1>8, QuietMove

\* MarkRunning, MarkSucceeded, RefuseJob and MarkFailed write the state of the job
\* and nothing it has stored.
LEMMA MarkKeeps ==
  ASSUME MarketInv, [MarketNext]_marketVars, NEW j \in Jobs,
         MarkRunning(j) \/ MarkSucceeded(j) \/ RefuseJob(j) \/ MarkFailed(j)
  PROVE  JobsOK'
<1> SUFFICES ASSUME NEW old, old = job[j]
             PROVE  JobsOK'
  OBVIOUS
<1>1. old \in JobRows /\ JobOK(old) /\ UNCHANGED <<now, klines, early>>
  BY DEF MarkRunning, MarkSucceeded, RefuseJob, MarkFailed, MarketInv, JobsOK, JobOK, backfillRest
<1>2. CASE MarkRunning(j)
  <2> DEFINE new == [old EXCEPT !.status = "running", !.pc = "fetch"]
  <2>1. Step(j, new) /\ old.pc = "new"
    BY <1>2 DEF MarkRunning
  <2>2. new \in JobRows
    BY <1>1 DEF JobRows, Statuses
  <2>3. /\ new.status = "running" /\ new.pc = "fetch" /\ new.next = old.next
        /\ new.page = old.page /\ new.count = old.count /\ new.begun = old.begun
        /\ new.window = old.window
    BY <1>1 DEF JobRows
  <2> HIDE DEF new
  <2>4. JobOK(new)
    BY <1>1, <2>1, <2>2, <2>3, SameOwed DEF JobOK, PageTrue
  <2>5. QED
    BY <1>1, <2>1, <2>2, <2>4, QuietMove
<1>3. CASE MarkSucceeded(j)
  <2> DEFINE new == [old EXCEPT !.status = "succeeded", !.pc = "end"]
  <2>1. Step(j, new) /\ old.pc = "return"
    BY <1>3 DEF MarkSucceeded
  <2>2. new \in JobRows
    BY <1>1 DEF JobRows, Statuses
  <2>3. /\ new.status = "succeeded" /\ new.pc = "end" /\ new.next = old.next
        /\ new.page = old.page /\ new.count = old.count /\ new.begun = old.begun
        /\ new.window = old.window
    BY <1>1 DEF JobRows
  <2> HIDE DEF new
  <2>4. JobOK(new)
    BY <1>1, <2>1, <2>2, <2>3, SameOwed DEF JobOK, PageTrue
  <2>5. QED
    BY <1>1, <2>1, <2>2, <2>4, QuietMove
<1>4. CASE RefuseJob(j)
  <2> DEFINE new == [old EXCEPT !.status = "failed", !.pc = "end"]
  <2>1. Step(j, new) /\ old.pc = "fetch"
    BY <1>4 DEF RefuseJob
  <2>2. new \in JobRows
    BY <1>1 DEF JobRows, Statuses
  <2>3. /\ new.status = "failed" /\ new.pc = "end" /\ new.next = old.next
        /\ new.page = old.page /\ new.count = old.count /\ new.begun = old.begun
        /\ new.window = old.window
    BY <1>1 DEF JobRows
  <2> HIDE DEF new
  <2>4. JobOK(new)
    BY <1>1, <2>1, <2>2, <2>3, SameOwed DEF JobOK, PageTrue
  <2>5. QED
    BY <1>1, <2>1, <2>2, <2>4, QuietMove
<1>5. CASE MarkFailed(j)
  <2> DEFINE new == [old EXCEPT !.status = "failed", !.pc = "end", !.page = {}]
  <2>1. Step(j, new)
    BY <1>5 DEF MarkFailed
  <2>2. new \in JobRows
    BY <1>1 DEF JobRows, Statuses
  <2>3. /\ new.status = "failed" /\ new.pc = "end" /\ new.next = old.next
        /\ new.page = {} /\ new.count = old.count /\ new.begun = old.begun
        /\ new.window = old.window
    BY <1>1 DEF JobRows
  <2> HIDE DEF new
  <2>4. JobOK(new)
    BY <1>1, <2>2, <2>3, SameOwed DEF JobOK, PageTrue
  <2>5. QED
    BY <1>1, <2>1, <2>2, <2>4, QuietMove
<1>6. QED
  BY <1>2, <1>3, <1>4, <1>5

FetchedRow(old, open) ==
  [old EXCEPT !.pc = IF open = {} THEN "return" ELSE "store",
              !.page = {[open |-> k, price |-> PriceOf(k)] : k \in open},
              !.full = Cardinality(open) = BatchLimit]

LEMMA FetchStep ==
  ASSUME MarketInv, [MarketNext]_marketVars, NEW j \in Jobs, FetchKlineRows(j)
  PROVE  JobsOK'
<1> SUFFICES ASSUME NEW old, old = job[j], NEW open, open = FetchedOpens(j), NEW new,
                    new = FetchedRow(old, open)
             PROVE  JobsOK'
  OBVIOUS
<1>1. old \in JobRows /\ JobOK(old) /\ old.pc = "fetch" /\ UNCHANGED <<now, klines>>
      /\ Step(j, new) /\ early' = early \cup {k \in open : now < CloseOf(k)}
  BY DEF FetchKlineRows, FetchedRow, MarketInv, JobsOK, JobOK, backfillRest
<1>2. open = First({k \in Opens : old.next <= k /\ k <= old.window.to - 1 /\ k <= now}, BatchLimit)
  BY DEF FetchedOpens, First, Rank
<1>3. /\ new.pc = (IF open = {} THEN "return" ELSE "store")
      /\ new.page = {[open |-> k, price |-> PriceOf(k)] : k \in open}
      /\ new.full = (Cardinality(open) = BatchLimit)
      /\ new.window = old.window /\ new.begun = old.begun /\ new.next = old.next
      /\ new.count = old.count /\ new.status = old.status
  BY <1>1 DEF FetchedRow, JobRows
<1>4. Fetched(old, new, open)
  BY <1>1, <1>2, <1>3 DEF Fetched
<1>5. new.page \subseteq [open: Opens, price: Moments]
  <2>1. StreamOK
    BY DEF MarketInv
  <2>2. JobOK(old) /\ Fetched(old, new, open)
    BY <1>1, <1>4
  <2>3. QED
    BY <2>1, <2>2, FetchedPage
<1>6. new \in JobRows
  <2>1. \A page \in SUBSET [open: Opens, price: Moments], full \in BOOLEAN,
           pc \in {"return", "store"} :
          [old EXCEPT !.pc = pc, !.page = page, !.full = full] \in JobRows
    BY <1>1 DEF JobRows
  <2>2. {[open |-> k, price |-> PriceOf(k)] : k \in open} \in SUBSET [open: Opens, price: Moments]
    BY <1>3, <1>5
  <2>3. QED
    BY <2>1, <2>2 DEF FetchedRow
<1>7. JobOK(new)'
  <2>1. StreamOK
    BY DEF MarketInv
  <2>2. QED
    BY <1>1, <1>4, <1>6, <2>1, FetchKeeps
<1>8. now' = now /\ early \subseteq early'
  BY <1>1
<1>9. QED
  BY <1>1, <1>6, <1>7, <1>8, JobMoves

LEMMA StoreStep ==
  ASSUME MarketInv, [MarketNext]_marketVars, NEW j \in Jobs, job[j] # None, CreateKline(j)
  PROVE  JobsOK' /\ klines' \in [Opens -> Rows \cup {None}]
<1> SUFFICES ASSUME NEW old, old = job[j]
             PROVE  JobsOK' /\ klines' \in [Opens -> Rows \cup {None}]
  OBVIOUS
<1>1. PICK p \in old.page :
        /\ \A other \in old.page : p.open <= other.open
        /\ old.pc = "store"
        /\ klines' = [klines EXCEPT ![p.open] = RowKline(p)]
        /\ Step(j, [old EXCEPT
             !.page = @ \ {p}, !.count = @ + 1,
             !.pc = IF old.page # {p} THEN "store"
                    ELSE IF BatchEnds(j, p.open) THEN "return" ELSE "fetch",
             !.next = IF old.page = {p} THEN NextStart(p.open) ELSE @])
        /\ UNCHANGED <<now, early>>
  BY DEF CreateKline, backfillRest
<1>2. old \in JobRows /\ JobOK(old)
  BY DEF MarketInv, JobsOK, JobOK
<1>3. /\ p.open \in Opens
      /\ p.open \notin early => Good(p.open)'
      /\ \A k \in Opens \ early : Good(k) => Good(k)'
      /\ klines' \in [Opens -> Rows \cup {None}]
  BY <1>1, StoredIsGood
<1> SUFFICES ASSUME NEW pc, pc = IF old.page # {p} THEN "store"
                               ELSE IF BatchEnds(j, p.open) THEN "return" ELSE "fetch",
                    NEW next, next = IF old.page = {p} THEN p.open + 1 ELSE old.next,
                    NEW new, new = [old EXCEPT !.page = old.page \ {p}, !.count = old.count + 1,
                                               !.pc = pc, !.next = next]
             PROVE  JobsOK'
  BY <1>3
<1>4. Step(j, new)
  BY <1>1, <1>2 DEF NextStart, JobRows
<1>5. pc \in {"store", "return", "fetch"}
  OBVIOUS
<1>6. next \in Nat /\ old.count + 1 \in Nat
  <2>1. old.next \in Nat /\ old.count \in Nat /\ p.open \in Nat
    BY <1>2, <1>3, JobFields, Candles
  <2>2. QED
    BY <2>1
<1>7. old.page \ {p} \in SUBSET [open: Opens, price: Moments]
  BY <1>2 DEF JobRows
<1>8. pc = IF old.page # {p} THEN "store"
           ELSE IF ~old.full \/ p.open + 1 >= old.window.to THEN "return" ELSE "fetch"
  BY DEF BatchEnds, NextStart
<1>9. /\ new \in JobRows
      /\ new.page = old.page \ {p} /\ new.count = old.count + 1 /\ new.pc = pc /\ new.next = next
      /\ new.window = old.window /\ new.begun = old.begun /\ new.full = old.full
      /\ new.status = old.status
  <2>1. \A page \in SUBSET [open: Opens, price: Moments], x \in Nat, y \in Nat,
           q \in {"store", "return", "fetch"} :
          [old EXCEPT !.page = page, !.count = x, !.pc = q, !.next = y] \in JobRows
    BY <1>2 DEF JobRows
  <2>2. new \in JobRows
    BY <1>5, <1>6, <1>7, <2>1
  <2>3. \A page, x, q, y :
          LET row == [old EXCEPT !.page = page, !.count = x, !.pc = q, !.next = y] IN
          /\ row.page = page /\ row.count = x /\ row.pc = q /\ row.next = y
          /\ row.window = old.window /\ row.begun = old.begun /\ row.full = old.full
          /\ row.status = old.status
    BY <1>2 DEF JobRows
  <2>4. QED
    BY <2>2, <2>3
<1>10. Stored(old, new, p)
  BY <1>1, <1>3, <1>8, <1>9 DEF Stored
<1>11. JobOK(new)'
  <2>1. StreamOK
    BY DEF MarketInv
  <2>2. QED
    BY <1>2, <1>9, <1>10, <2>1, StoreKeeps
<1>12. now' = now /\ early \subseteq early'
  BY <1>1
<1>13. QED
  BY <1>4, <1>9, <1>11, <1>12, JobMoves

\* The callbacks, the stream and the clock leave the jobs alone.
LEMMA StreamSteps ==
  ASSUME MarketInv, [MarketNext]_marketVars, Tick \/ PublishKline \/ Callbacks
  PROVE  MarketInv'
<1>1. StreamOK /\ TablesOK /\ now \in Moments /\ now \in Nat
  BY Candles DEF MarketInv, StreamOK
<1>2. ASSUME now' \in Nat, now <= now', early' = early, job' = job, StreamOK', TablesOK'
      PROVE  MarketInv'
  BY <1>2, JobsRest DEF MarketInv
<1>3. CASE Tick
  <2>1. now' = now + 1 /\ now' \in Moments /\ UNCHANGED <<events, run, msg, faults>>
    BY <1>1, <1>3, Candles DEF Tick, streamVars, Moments
  <2>2. now' \in Nat /\ now <= now'
    BY <1>1, <2>1
  <2>3. StreamOK'
    <3>1. faults' \in 0..MaxFaults
      BY <1>1, <2>1 DEF StreamOK
    <3>2. QED
      BY <1>1, <2>1, <3>1, StreamRests
  <2>4. TablesOK' /\ early' = early /\ job' = job
    BY <1>1, <1>3 DEF Tick, streamVars, jobVars, TablesOK
  <2>5. QED
    BY <1>2, <2>2, <2>3, <2>4
<1>4. CASE PublishKline
  <2>1. TablesOK' /\ early' = early /\ job' = job /\ now' = now
    BY <1>1, <1>4 DEF PublishKline, jobVars, TablesOK
  <2>2. StreamOK'
    BY <1>1, <1>4, PublishKeeps
  <2>3. QED
    BY <1>1, <1>2, <2>1, <2>2
<1>5. ASSUME NEW g \in Goroutines, NEW t \in events, Deliver(g, t)
      PROVE  MarketInv'
  <2>1. TablesOK' /\ early' = early /\ job' = job /\ now' = now
    BY <1>1, <1>5 DEF Deliver, jobVars, TablesOK
  <2>2. StreamOK'
    BY <1>1, <1>5, DeliverKeeps
  <2>3. QED
    BY <1>1, <1>2, <2>1, <2>2
<1>6. ASSUME NEW c \in Consumers, NEW t \in events, AgeOut(c, t)
      PROVE  MarketInv'
  <2>1. TablesOK' /\ early' = early /\ job' = job /\ now' = now
    BY <1>1, <1>6 DEF AgeOut, jobVars, TablesOK
  <2>2. StreamOK'
    BY <1>1, <1>6, AgeKeeps
  <2>3. QED
    BY <1>1, <1>2, <2>1, <2>2
<1>7. ASSUME NEW g \in Goroutines,
             InsertKline(g) \/ UpsertPrice(g) \/ FailCallback(g) \/ Deadline(g)
      PROVE  MarketInv'
  <2>1. StreamOK' /\ run[g].event \in events /\ run[g].event \in Moments
    BY <1>1, <1>7, CallbackEnds DEF StreamOK
  <2>2. /\ early' = early /\ job' = job /\ now' = now /\ told' = told /\ events' = events
    BY <1>7 DEF InsertKline, UpsertPrice, FailCallback, Deadline, jobVars
  <2>3. klines' \in [Opens -> Rows \cup {None}]
    <3>1. KlineOf(run[g].event) \in Rows /\ OpenOf(run[g].event) \in Opens
      BY <2>1, EventKline
    <3>2. \/ klines' = klines
          \/ klines' = [klines EXCEPT ![OpenOf(run[g].event)] = KlineOf(run[g].event)]
      BY <1>7 DEF InsertKline, UpsertPrice, FailCallback, Deadline
    <3>3. klines \in [Opens -> Rows \cup {None}]
      BY <1>1 DEF TablesOK
    <3>4. QED
      BY <3>1, <3>2, <3>3
  <2>4. price' \in Moments \cup {None} /\ priced' \subseteq events
    <3>1. /\ price' = price \/ price' = run[g].event
          /\ priced' = priced \/ priced' = priced \cup {run[g].event}
      BY <1>7 DEF InsertKline, UpsertPrice, FailCallback, Deadline
    <3>2. QED
      BY <1>1, <2>1, <3>1 DEF TablesOK
  <2>5. TablesOK'
    BY <1>1, <2>2, <2>3, <2>4 DEF TablesOK
  <2>6. QED
    BY <1>1, <1>2, <2>1, <2>2, <2>5
<1>8. Inserters \subseteq Goroutines /\ Pricers \subseteq Goroutines
  BY DEF Goroutines
<1>9. QED
  BY <1>3, <1>4, <1>5, <1>6, <1>7, <1>8 DEF Callbacks

\* The api's steps leave the stream and the price alone.
LEMMA BackfillSteps ==
  ASSUME MarketInv, [MarketNext]_marketVars, Backfill
  PROVE  MarketInv'
<1>1. StreamOK /\ TablesOK /\ now \in Moments /\ now \in Nat
  BY Candles DEF MarketInv, StreamOK
<1>2. UNCHANGED backfillRest /\ (Fault \/ UNCHANGED faults)
  BY DEF Backfill, Runner, StartJob, Tell, MarkRunning, FetchKlineRows, CreateKline, RefuseJob,
         MarkSucceeded, MarkFailed, CrashApi
<1>3. UNCHANGED <<now, events, msg, run, price, priced>>
  BY <1>2 DEF backfillRest, streamVars
<1>4. StreamOK'
  <2>1. faults' \in 0..MaxFaults
    BY <1>1, <1>2, FaultsCounted
  <2>2. QED
    BY <1>1, <1>3, <2>1, StreamRests
<1>5. ASSUME NEW j \in Jobs, FetchKlineRows(j)
      PROVE  MarketInv'
  <2>1. early' \subseteq Opens
    BY <1>1, <1>5 DEF FetchKlineRows, FetchedOpens, TablesOK
  <2>2. TablesOK'
    BY <1>1, <1>3, <1>5, <2>1 DEF FetchKlineRows, TablesOK
  <2>3. QED
    BY <1>4, <1>5, <2>2, FetchStep DEF MarketInv
<1>6. ASSUME NEW j \in Jobs, job[j] # None, CreateKline(j)
      PROVE  MarketInv'
  <2>1. JobsOK' /\ klines' \in [Opens -> Rows \cup {None}]
    BY <1>6, StoreStep
  <2>2. UNCHANGED <<told, early>>
    BY <1>6 DEF CreateKline
  <2>3. TablesOK'
    BY <1>1, <1>3, <2>1, <2>2 DEF TablesOK
  <2>4. QED
    BY <1>4, <2>1, <2>3 DEF MarketInv
<1>7. ASSUME NEW j \in Jobs, Tell(j)
      PROVE  MarketInv'
  <2>1. UNCHANGED <<klines, job, early>>
    BY <1>7 DEF Tell
  <2>2. told' \in [Jobs -> Statuses \cup {None, "missing"}]
    <3>1. job[j] # None => job[j].status \in Statuses
      BY DEF MarketInv, JobsOK, JobRows
    <3>2. QED
      BY <1>1, <1>7, <3>1 DEF Tell, TablesOK
  <2>3. TablesOK'
    BY <1>1, <1>3, <2>1, <2>2 DEF TablesOK
  <2>4. QED
    BY <1>1, <1>3, <1>4, <2>1, <2>3, JobsRest DEF MarketInv
<1>8. ASSUME NEW j \in Jobs, NEW w \in Windows, StartJob(j, w)
      PROVE  MarketInv'
  <2>1. TablesOK'
    BY <1>1, <1>3, <1>8 DEF StartJob, TablesOK
  <2>2. QED
    BY <1>4, <1>8, <2>1, StartKeeps DEF MarketInv
<1>9. ASSUME NEW j \in Jobs,
             MarkRunning(j) \/ MarkSucceeded(j) \/ RefuseJob(j) \/ MarkFailed(j)
      PROVE  MarketInv'
  <2>1. UNCHANGED <<klines, told, early>>
    BY <1>9 DEF MarkRunning, MarkSucceeded, RefuseJob, MarkFailed
  <2>2. TablesOK'
    BY <1>1, <1>3, <2>1 DEF TablesOK
  <2>3. QED
    BY <1>4, <1>9, <2>2, MarkKeeps DEF MarketInv
<1>10. CASE CrashApi
  <2>1. UNCHANGED <<klines, told, early>> /\ job' = [j \in Jobs |-> None]
    BY <1>10 DEF CrashApi
  <2>2. TablesOK' /\ JobsOK'
    BY <1>1, <1>3, <2>1 DEF TablesOK, JobsOK
  <2>3. QED
    BY <1>4, <2>2 DEF MarketInv
<1>11. QED
  BY <1>5, <1>6, <1>7, <1>8, <1>9, <1>10 DEF Backfill, Runner

LEMMA MarketRests ==
  ASSUME MarketInv, UNCHANGED marketVars
  PROVE  MarketInv'
<1>1. UNCHANGED <<now, events, msg, run, klines, price, job, told, early, priced, faults>>
  BY DEF marketVars, streamVars, jobVars
<1>2. StreamOK'
  BY <1>1 DEF MarketInv, StreamOK, Takes
<1>3. TablesOK'
  BY <1>1 DEF MarketInv, TablesOK
<1>4. JobsOK'
  <2>1. now' \in Nat /\ now <= now'
    BY <1>1, Candles DEF MarketInv, StreamOK
  <2>2. [MarketNext]_marketVars
    OBVIOUS
  <2>3. QED
    BY <1>1, <2>1, <2>2, JobsRest
<1>5. QED
  BY <1>2, <1>3, <1>4 DEF MarketInv

LEMMA MarketBegins == MarketInit => MarketInv
<1> SUFFICES ASSUME MarketInit
             PROVE  MarketInv
  OBVIOUS
<1>1. StreamOK
  <2>1. \A g \in Goroutines : run[g] = IdleRun /\ run[g].event = None /\ ~run[g].current
    BY Kinds DEF MarketInit
  <2>2. \A c \in Consumers, t \in Moments : msg[c][t].state = "none"
    BY DEF MarketInit
  <2>3. msg \in [Consumers -> [Moments -> MsgRows]] /\ run \in [Goroutines -> Runs]
    BY Kinds DEF MarketInit
  <2>4. QED
    BY <2>1, <2>2, <2>3 DEF MarketInit, StreamOK, Takes
<1>2. TablesOK
  BY DEF MarketInit, TablesOK
<1>3. JobsOK
  BY DEF MarketInit, JobsOK
<1>4. QED
  BY <1>1, <1>2, <1>3 DEF MarketInv

LEMMA MarketStep == MarketInv /\ [MarketNext]_marketVars => MarketInv'
<1> SUFFICES ASSUME MarketInv, [MarketNext]_marketVars
             PROVE  MarketInv'
  OBVIOUS
<1>1. CASE MarketNext
  BY <1>1, StreamSteps, BackfillSteps DEF MarketNext
<1>2. CASE UNCHANGED marketVars
  BY <1>2, MarketRests
<1>3. QED
  BY <1>1, <1>2

LEMMA MarketInvariance == MarketSpec => []MarketInv
<1>1. QED
  BY MarketBegins, MarketStep, PTL DEF MarketSpec

-----------------------------------------------------------------------------
\* What the invariant says of the two properties

\* One callback at most answers for a message, and one does when it is taken.
LEMMA OneTaker ==
  ASSUME StreamOK, NEW c \in Consumers, NEW t \in Moments
  PROVE  Cardinality({g \in Goroutines : ConsumerOf(g) = c /\ run[g].event = t /\ run[g].current})
           = (IF msg[c][t].state = "taken" THEN 1 ELSE 0)
<1> DEFINE T == {g \in Goroutines : ConsumerOf(g) = c /\ run[g].event = t /\ run[g].current}
<1>1. CASE msg[c][t].state = "taken"
  <2>1. PICK g \in Goroutines : Takes(g, c, t)
    BY <1>1 DEF StreamOK
  <2>2. \A h \in Goroutines : Takes(h, c, t) => h = g
    BY <2>1 DEF StreamOK
  <2>3. T = {g}
    BY <2>1, <2>2 DEF Takes
  <2>4. QED
    BY <1>1, <2>3, FS_Singleton
<1>2. CASE msg[c][t].state # "taken"
  <2>1. T = {}
    BY <1>2 DEF StreamOK
  <2>2. QED
    BY <1>2, <2>1, FS_EmptySet
<1>3. QED
  BY <1>1, <1>2

LEMMA TypesFollow == MarketInv => MarketTypeOK
<1> SUFFICES ASSUME MarketInv
             PROVE  MarketTypeOK
  OBVIOUS
<1>1. StreamOK /\ TablesOK /\ JobsOK
  BY DEF MarketInv
<1>2. \A c \in Consumers, t \in Moments :
        Cardinality({g \in Goroutines : ConsumerOf(g) = c /\ run[g].event = t /\ run[g].current})
          = (IF msg[c][t].state = "taken" THEN 1 ELSE 0)
  BY <1>1, OneTaker
<1>3. /\ now \in Moments /\ events \subseteq Moments /\ faults \in 0..MaxFaults
      /\ msg \in [Consumers -> [Moments -> [state: {"none", "ready", "taken", "settled"},
                                            tries: 0..MaxRetries]]]
      /\ run \in [Goroutines -> [event: Moments \cup {None}, current: BOOLEAN]]
  BY <1>1 DEF StreamOK, MsgRows, Runs
<1>4. QED
  BY <1>1, <1>2, <1>3 DEF TablesOK, JobsOK, MarketTypeOK

LEMMA StoredFollows == MarketInv => BackfillStores
<1> SUFFICES ASSUME MarketInv, NEW j \in Jobs, job[j] # None, job[j].status = "succeeded",
                    NEW row, row = job[j]
             PROVE  /\ \A k \in Complete(j) \ early : klines[k] # None /\ klines[k].is_closed
                                                       /\ klines[k].price = CloseOf(k)
                    /\ row.count = Cardinality({k \in Opens : /\ row.window.from <= k
                                                              /\ k < row.next})
  BY DEF BackfillStores
<1>1. JobOK(row) /\ row.status = "succeeded"
  BY DEF MarketInv, JobsOK
<1>2. (\A k \in Owed(row) \ early : Good(k)) /\ row.count = Cardinality(Before(row, row.next))
  BY <1>1 DEF JobOK
<1>3. Complete(j) = Owed(row)
  BY DEF Complete, Owed
<1>4. QED
  BY <1>2, <1>3 DEF Good, Before

-----------------------------------------------------------------------------
\* The tables, the jobs and the callbacks keep their types, and a message is
\* with one callback that can still answer for it exactly when it is taken:
\* deliveries, answers, deadlines and lost acknowledgements never leave it with
\* two of them, or with none.
THEOREM MarketTypes == MarketSpec => []MarketTypeOK
<1>1. QED
  BY MarketInvariance, TypesFollow, PTL

\* A job of the BackfillService that succeeded has stored what was complete in
\* its window when it began, with its last price, page by page, each candle
\* once; late and repeated events of the websocket do not take it back.
THEOREM BackfillIsStored == MarketSpec => []BackfillStores
<1>1. QED
  BY MarketInvariance, StoredFollows, PTL

-----------------------------------------------------------------------------
\* A job comes nearer to its end

\* A page that is being stored has a first row to store.
FirstRow(row) == \E p \in row.page : \A q \in row.page : p.open <= q.open
PagesHaveRows == \A j \in Jobs : job[j] # None /\ job[j].pc = "store" => FirstRow(job[j])

LEMMA PhaseIs == /\ Phase("new") = 4 /\ Phase("fetch") = 3 /\ Phase("store") = 2
                 /\ Phase("return") = 1 /\ Phase("end") = 0
  BY DEF Phase

LEMMA LeftFalls ==
  ASSUME NEW old \in JobRows, NEW new, new.window = old.window, new.next \in Nat,
         old.next <= new.next
  PROVE  /\ Left(new) < Left(old) \/ Left(new) = Left(old)
         /\ old.next < new.next /\ new.next < new.window.to => Left(new) < Left(old)
<1>1. old.next \in Nat /\ new.window.to \in Nat /\ old.window.to = new.window.to
  BY JobFields
<1>2. QED
  BY <1>1 DEF Left

\* The steps that move the runner on in its loop.
LEMMA MovesOn ==
  ASSUME NEW old \in JobRows, NEW new, new.window = old.window, new.next = old.next,
         Phase(new.pc) < Phase(old.pc)
  PROVE  Nearer(new, old)
  BY DEF Nearer, Left

\* The row of j after a step that writes it.
LEMMA StepRow ==
  ASSUME MarketInv, NEW j \in Jobs, NEW row, Step(j, row)
  PROVE  job'[j] = row /\ \A i \in Jobs \ {j} : job'[i] = job[i]
  BY DEF MarketInv, JobsOK, Step

LEMMA JobRow ==
  ASSUME MarketInv, NEW j \in Jobs, job[j] # None
  PROVE  job[j] \in JobRows /\ JobOK(job[j])
  BY DEF MarketInv, JobsOK, JobOK

LEMMA MarkAdvances ==
  ASSUME MarketInv, NEW j \in Jobs, job[j] # None,
         MarkRunning(j) \/ MarkSucceeded(j) \/ RefuseJob(j) \/ MarkFailed(j)
  PROVE  \A i \in Jobs : JobAdvances(i)
<1>1. PICK row : /\ Step(j, row) /\ row.window = job[j].window /\ row.next = job[j].next
                 /\ Phase(row.pc) < Phase(job[j].pc)
  <2>1. CASE MarkRunning(j)
    <3>1. WITNESS [job[j] EXCEPT !.status = "running", !.pc = "fetch"]
    <3>2. QED
      BY <2>1, JobRow, PhaseIs DEF MarkRunning, JobRows
  <2>2. CASE MarkSucceeded(j)
    <3>1. WITNESS [job[j] EXCEPT !.status = "succeeded", !.pc = "end"]
    <3>2. QED
      BY <2>2, JobRow, PhaseIs DEF MarkSucceeded, JobRows
  <2>3. CASE RefuseJob(j)
    <3>1. WITNESS [job[j] EXCEPT !.status = "failed", !.pc = "end"]
    <3>2. QED
      BY <2>3, JobRow, PhaseIs DEF RefuseJob, JobRows
  <2>4. CASE MarkFailed(j)
    <3>1. WITNESS [job[j] EXCEPT !.status = "failed", !.pc = "end", !.page = {}]
    <3>2. QED
      BY <2>4, JobRow, PhaseIs DEF MarkFailed, JobRows
  <2>5. QED
    BY <2>1, <2>2, <2>3, <2>4
<1>2. Nearer(row, job[j])
  BY <1>1, JobRow, MovesOn
<1>3. QED
  BY <1>1, <1>2, StepRow DEF JobAdvances

LEMMA FetchAdvances ==
  ASSUME MarketInv, NEW j \in Jobs, FetchKlineRows(j)
  PROVE  \A i \in Jobs : JobAdvances(i)
<1> DEFINE row == FetchedRow(job[j], FetchedOpens(j))
<1>1. Step(j, row) /\ job[j] \in JobRows /\ job[j].pc = "fetch"
  BY JobRow DEF FetchKlineRows, FetchedRow
<1>2. /\ row.window = job[j].window /\ row.next = job[j].next
      /\ row.pc \in {"return", "store"}
  BY <1>1 DEF FetchedRow, JobRows
<1> HIDE DEF row
<1>3. Phase(row.pc) < Phase(job[j].pc)
  BY <1>1, <1>2, PhaseIs
<1>4. Nearer(row, job[j])
  BY <1>1, <1>2, <1>3, MovesOn
<1>5. QED
  BY <1>1, <1>4, StepRow DEF JobAdvances

\* A stored row leaves its page; behind the last one the loop goes on from the next
\* candle, or ends.
LEMMA StoreAdvances ==
  ASSUME MarketInv, NEW j \in Jobs, job[j] # None, CreateKline(j)
  PROVE  \A i \in Jobs : JobAdvances(i)
<1> SUFFICES ASSUME NEW old, old = job[j]
             PROVE  \A i \in Jobs : JobAdvances(i)
  OBVIOUS
<1>1. PICK p \in old.page :
        /\ old.pc = "store"
        /\ Step(j, [old EXCEPT
             !.page = @ \ {p}, !.count = @ + 1,
             !.pc = IF old.page # {p} THEN "store"
                    ELSE IF BatchEnds(j, p.open) THEN "return" ELSE "fetch",
             !.next = IF old.page = {p} THEN NextStart(p.open) ELSE @])
  BY DEF CreateKline
<1>2. old \in JobRows /\ JobOK(old)
  BY JobRow
<1>3. old.next \in Nat /\ p.open \in Nat /\ old.next <= p.open
  BY <1>1, <1>2, JobFields, Candles DEF JobOK, PageOK
<1> SUFFICES ASSUME NEW pc, pc = IF old.page # {p} THEN "store"
                               ELSE IF BatchEnds(j, p.open) THEN "return" ELSE "fetch",
                    NEW next, next = IF old.page = {p} THEN p.open + 1 ELSE old.next,
                    NEW row, row = [old EXCEPT !.page = old.page \ {p}, !.count = old.count + 1,
                                               !.pc = pc, !.next = next]
             PROVE  \A i \in Jobs : JobAdvances(i)
  OBVIOUS
<1>4. Step(j, row)
  BY <1>1, <1>2 DEF NextStart, JobRows
<1>5. row.page = old.page \ {p} /\ row.pc = pc /\ row.next = next /\ row.window = old.window
  BY <1>2 DEF JobRows
<1>6. next \in Nat /\ old.next <= next
  BY <1>3
<1>7. Left(row) < Left(old) \/ Left(row) = Left(old)
  BY <1>2, <1>5, <1>6, LeftFalls
<1>8. Nearer(row, old)
  <2>1. CASE old.page # {p}
    BY <1>1, <1>5, <1>7, <2>1 DEF Nearer
  <2>2. CASE old.page = {p} /\ BatchEnds(j, p.open)
    <3>1. pc = "return"
      BY <2>2
    <3>2. Phase(row.pc) < Phase(old.pc)
      BY <1>1, <1>5, <3>1, PhaseIs
    <3>3. QED
      BY <1>7, <3>2 DEF Nearer
  <2>3. CASE old.page = {p} /\ ~BatchEnds(j, p.open)
    <3>1. next = p.open + 1 /\ old.next < next
      BY <1>3, <2>3
    <3>2. next < old.window.to
      <4>1. old.window.to \in Nat /\ ~(p.open + 1 >= old.window.to)
        BY <1>2, <2>3, JobFields DEF BatchEnds, NextStart
      <4>2. QED
        BY <1>3, <3>1, <4>1
    <3>3. Left(row) < Left(old)
      BY <1>2, <1>5, <1>6, <3>1, <3>2, LeftFalls
    <3>4. QED
      BY <3>3 DEF Nearer
  <2>4. QED
    BY <2>1, <2>2, <2>3
<1>9. QED
  BY <1>4, <1>8, StepRow DEF JobAdvances

LEMMA AdvanceStep == MarketInv /\ [MarketNext]_marketVars =>
                       [\A j \in Jobs : JobAdvances(j)]_marketVars
<1> SUFFICES ASSUME MarketInv, MarketNext
             PROVE  \A j \in Jobs : JobAdvances(j)
  BY DEF marketVars
<1>1. CASE Tick \/ PublishKline \/ Callbacks
  <2>1. job' = job
    BY <1>1 DEF Tick, PublishKline, Callbacks, Deliver, AgeOut, InsertKline, UpsertPrice,
                FailCallback, Deadline, jobVars
  <2>2. QED
    BY <2>1 DEF JobAdvances
<1>2. ASSUME NEW j \in Jobs, NEW w \in Windows, StartJob(j, w)
      PROVE  \A i \in Jobs : JobAdvances(i)
  BY <1>2, StepRow DEF StartJob, JobAdvances
<1>3. ASSUME NEW j \in Jobs, Tell(j)
      PROVE  \A i \in Jobs : JobAdvances(i)
  BY <1>3 DEF Tell, JobAdvances
<1>4. ASSUME NEW j \in Jobs, Runner(j) \/ MarkFailed(j)
      PROVE  \A i \in Jobs : JobAdvances(i)
  BY <1>4, MarkAdvances, FetchAdvances, StoreAdvances
     DEF Runner, MarkRunning, MarkSucceeded, RefuseJob, MarkFailed
<1>5. CASE CrashApi
  BY <1>5 DEF CrashApi, JobAdvances
<1>6. QED
  BY <1>1, <1>2, <1>3, <1>4, <1>5 DEF MarketNext, Backfill

LEMMA RowsFollow == MarketInv => PagesHaveRows
<1> SUFFICES ASSUME MarketInv, NEW j \in Jobs, job[j] # None, job[j].pc = "store"
             PROVE  FirstRow(job[j])
  BY DEF PagesHaveRows
<1>1. job[j] \in JobRows /\ PageOK(job[j])
  BY JobRow DEF JobOK
<1>2. PageOpens(job[j]) \in SUBSET Opens /\ PageOpens(job[j]) # {}
  BY <1>1, JobFields DEF PageOpens, PageOK
<1>3. PageOpens(job[j]) \in SUBSET Nat /\ IsFiniteSet(PageOpens(job[j]))
  <2>1. Opens \in SUBSET Nat /\ IsFiniteSet(Opens)
    BY Candles
  <2>2. IsFiniteSet(PageOpens(job[j]))
    BY <1>2, <2>1, FS_Subset
  <2>3. QED
    BY <1>2, <2>1, <2>2
<1>4. PICK i \in PageOpens(job[j]) : \A k \in PageOpens(job[j]) : i <= k
  BY <1>2, <1>3, LeastIn
<1>5. QED
  BY <1>4 DEF PageOpens, FirstRow

\* The half of JobsEnd that no fairness is needed for: BackfillMarketKlines never
\* asks for a candle again and never stores a row twice, so its loop cannot go on
\* for ever, and it never waits in its inner loop with nothing to store.  A runner
\* whose calls come back therefore ends.
THEOREM LoopDescends == MarketSpec => []PagesHaveRows /\ JobsAdvance
<1>1. MarketInv /\ [MarketNext]_marketVars => [\A j \in Jobs : JobAdvances(j)]_marketVars
  BY AdvanceStep
<1>2. QED
  BY <1>1, MarketInvariance, RowsFollow, PTL DEF MarketSpec, JobsAdvance
=============================================================================
