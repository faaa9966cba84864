------------------------------ MODULE MarketData ------------------------------
(***************************************************************************)
(* The klines of one market and interval, from the exchange to the tables: *)
(* the gateway publishes what the websocket brings, the market data worker *)
(* stores it in market_klines, the order engine keeps the last price, and  *)
(* backfill jobs of the api fetch candles again over REST.                 *)
(*                                                                         *)
(* Time runs in moments, longer than a handler's deadline.  The exchange   *)
(* says something of the running candle at every moment; its price then is *)
(* the moment.                                                             *)
(***************************************************************************)
EXTENDS Integers, FiniteSets, FiniteSetsExt

CONSTANTS
  Last,        \* bound: last moment
  Length,      \* moments of a candle
  MinuteAge,   \* moments an event may be old when it is inserted
  StreamAge,   \* MaxAge of the KLINE stream
  Inserters,   \* callbacks of the market data workers, over all processes
  Pricers,     \* callbacks of the order engines' price reference consumer
  MaxRetries,  \* nats_jetstream.max_retries
  BatchLimit,  \* marketKlineBackfillBatchLimit
  Jobs,        \* backfill jobs
  Windows,     \* start_time and end_time they are asked for, and whether the
               \* gateway has the exchange configured
  None,
  MaxEvents, MaxFaults   \* bounds

ASSUME MarketBoundsAssumption ==
  /\ {Last, MinuteAge, StreamAge, MaxEvents, MaxFaults} \subseteq Nat
  /\ {Length, MaxRetries, BatchLimit} \subseteq Nat \ {0}
  /\ Windows \subseteq [from: Nat, to: Nat, configured: BOOLEAN]

VARIABLES
  now,
  events,     \* moments whose event was published
  msg,        \* what each durable consumer knows of each event
  run,        \* what each callback is doing
  klines,     \* table market_klines by open_time
  price,      \* the market's row of price_references: the event it is from
  job,        \* BackfillService.jobs, and the gateway's part of each
  told,       \* what the client was last told of a job
  priced,     \* ghost: events whose price was written
  early,      \* ghost: candles a backfill has fetched while they ran
  faults

streamVars == <<events, msg>>
jobVars == <<job, told, early>>
marketVars == <<now, streamVars, run, klines, price, jobVars, priced, faults>>

-----------------------------------------------------------------------------
\* Candles

Moments == 0..Last
OpenOf(t) == Length * (t \div Length)
Opens == {OpenOf(t) : t \in Moments}
CloseOf(k) == k + Length - 1
\* What the exchange knows of the candle k: its price so far.
PriceOf(k) == IF now < CloseOf(k) THEN now ELSE CloseOf(k)

Consumers == {"insert", "price"}
Goroutines == Inserters \cup Pricers
ConsumerOf(g) == IF g \in Inserters THEN "insert" ELSE "price"

Statuses == {"pending", "running", "succeeded", "failed"}
Rows == [event_time: Moments \cup {CloseOf(k) : k \in Opens}, is_closed: BOOLEAN,
         price: Moments]
ASSUME MarketNoneAssumption == None \notin Rows
IdleRun == [event |-> None, current |-> FALSE]
\* page are the fetched rows that are not stored yet, next is nextStartMs, full
\* says that the page had BatchLimit rows, begun is the moment of the start.
JobRows == [status: Statuses, window: Windows, pc: {"new", "fetch", "store", "return", "end"},
            next: Nat, page: SUBSET [open: Opens, price: Moments], full: BOOLEAN,
            count: Nat, begun: Moments]

MarketTypeOK ==
  /\ now \in Moments /\ events \subseteq Moments
  /\ msg \in [Consumers -> [Moments -> [state: {"none", "ready", "taken", "settled"},
                                        tries: 0..MaxRetries]]]
  /\ run \in [Goroutines -> [event: Moments \cup {None}, current: BOOLEAN]]
  /\ klines \in [Opens -> Rows \cup {None}]
  /\ price \in Moments \cup {None}
  /\ job \in [Jobs -> JobRows \cup {None}]
  /\ told \in [Jobs -> Statuses \cup {None, "missing"}]
  /\ priced \subseteq events /\ early \subseteq Opens /\ faults \in 0..MaxFaults
  \* A message is with at most one callback that can still answer for it.
  /\ \A c \in Consumers, t \in Moments :
       Cardinality({g \in Goroutines : ConsumerOf(g) = c /\ run[g].event = t /\ run[g].current})
         = (IF msg[c][t].state = "taken" THEN 1 ELSE 0)

MarketInit ==
  /\ now \in Moments /\ events = {}
  /\ msg = [c \in Consumers |-> [t \in Moments |-> [state |-> "none", tries |-> 0]]]
  /\ run = [g \in Goroutines |-> IdleRun]
  /\ klines = [k \in Opens |-> None] /\ price = None
  /\ job = [j \in Jobs |-> None] /\ told = [j \in Jobs |-> None]
  /\ priced = {} /\ early = {} /\ faults \in 0..MaxFaults

Fault == faults < MaxFaults /\ faults' = faults + 1

-----------------------------------------------------------------------------
\* The stream

Tick ==
  /\ now < Last /\ now' = now + 1
  /\ UNCHANGED <<streamVars, run, klines, price, jobVars, priced, faults>>

\* handleKlineDataByMarketType; an event that is not published is lost.
PublishKline ==
  /\ now \notin events /\ Cardinality(events) < MaxEvents
  /\ events' = events \cup {now}
  /\ msg' = [c \in Consumers |-> [msg[c] EXCEPT ![now].state = "ready"]]
  /\ UNCHANGED <<now, run, klines, price, jobVars, priced, faults>>

\* New events are delivered in their order, others once their delay is over.
Deliver(g, t) ==
  LET c == ConsumerOf(g) IN
  /\ run[g] = IdleRun /\ msg[c][t].state = "ready" /\ msg[c][t].tries < MaxRetries
  /\ msg[c][t].tries = 0 =>
       \A u \in events : msg[c][u].state = "ready" /\ msg[c][u].tries = 0 => t <= u
  /\ msg' = [msg EXCEPT ![c][t] = [state |-> "taken", tries |-> @.tries + 1]]
  /\ run' = [run EXCEPT ![g] = [event |-> t, current |-> TRUE]]
  /\ UNCHANGED <<now, events, klines, price, jobVars, priced, faults>>

\* The stream drops a message that nobody has taken.
AgeOut(c, t) ==
  /\ msg[c][t].state = "ready" /\ t + StreamAge < now
  /\ msg' = [msg EXCEPT ![c][t].state = "settled"]
  /\ UNCHANGED <<now, events, run, klines, price, jobVars, priced, faults>>

MutAnswer(g, state) ==
  /\ run' = [run EXCEPT ![g] = IdleRun]
  /\ msg' = [msg EXCEPT ![ConsumerOf(g)][run[g].event].state = state]
\* ProcessWithTimeout answers for the delivery, unless its deadline had passed.
Answer(g, state) ==
  /\ run' = [run EXCEPT ![g] = IdleRun]
  /\ msg' = IF run[g].current
            THEN [msg EXCEPT ![ConsumerOf(g)][run[g].event].state = state] ELSE msg

\* After MaxRetries deliveries a message is terminated.
Again(g) == IF msg[ConsumerOf(g)][run[g].event].tries >= MaxRetries THEN "settled" ELSE "ready"

\* The acknowledgement may be lost: the message comes again.
Done(g) == \/ Answer(g, "settled") /\ UNCHANGED faults
           \/ run[g].current /\ Fault /\ Answer(g, Again(g))

\* insertKlineEvent: an event that is too old is acknowledged without a write.
MutTooOld(t) == FALSE
TooOld(t) == t + MinuteAge < now
KlineOf(t) == [event_time |-> t, is_closed |-> t = CloseOf(OpenOf(t)), price |-> t]

InsertKline(g) ==
  LET t == run[g].event IN
  /\ t # None
  /\ klines' = IF TooOld(t) THEN klines ELSE [klines EXCEPT ![OpenOf(t)] = KlineOf(t)]
  /\ Done(g)
  /\ UNCHANGED <<now, events, price, jobVars, priced>>

\* UpsertKline leaves a row alone that is from a newer event.
MutKeepsPrice(t) == FALSE
KeepsPrice(t) == price # None /\ price > t

UpsertPrice(g) ==
  LET t == run[g].event IN
  /\ t # None
  /\ price' = IF KeepsPrice(t) THEN price ELSE t
  /\ priced' = priced \cup {t}
  /\ Done(g)
  /\ UNCHANGED <<now, events, klines, jobVars>>

\* The database call fails, or the process ends.
FailCallback(g) ==
  /\ run[g].event # None /\ run[g].current /\ Fault
  /\ Answer(g, Again(g))
  /\ UNCHANGED <<now, events, klines, price, jobVars, priced>>

\* The deadline passes: the message is answered for, the callback goes on.
Deadline(g) ==
  /\ run[g].event # None /\ run[g].current /\ Fault
  /\ msg' = [msg EXCEPT ![ConsumerOf(g)][run[g].event].state = Again(g)]
  /\ run' = [run EXCEPT ![g].current = FALSE]
  /\ UNCHANGED <<now, events, klines, price, jobVars, priced>>

-----------------------------------------------------------------------------
\* Backfill jobs

backfillRest == <<now, streamVars, run, price, priced>>
Step(j, row) == job' = [job EXCEPT ![j] = row]

Validate(w) == w.from < w.to

\* Start stores the job and starts its runner ...
StartJob(j, w) ==
  /\ told[j] = None /\ job[j] = None /\ Validate(w)
  /\ Step(j, [status |-> "pending", window |-> w, pc |-> "new", next |-> w.from, page |-> {},
              full |-> FALSE, count |-> 0, begun |-> now])
  /\ UNCHANGED <<backfillRest, klines, told, early, faults>>

\* ... and answers with a copy of what the job is by then; later answers are
\* those of Get and Wait.
Tell(j) ==
  /\ told[j] \in {None, "pending", "running"} /\ (told[j] = None => job[j] # None)
  /\ told' = [told EXCEPT ![j] = IF job[j] = None THEN "missing" ELSE job[j].status]
  /\ UNCHANGED <<backfillRest, klines, job, early, faults>>

MarkRunning(j) ==
  /\ job[j] # None /\ job[j].pc = "new"
  /\ Step(j, [job[j] EXCEPT !.status = "running", !.pc = "fetch"])
  /\ UNCHANGED <<backfillRest, klines, told, early, faults>>

\* fetchKlineRows: the first rows from nextStartMs to end_time - 1; a candle that
\* runs is among them.
FetchedOpens(j) ==
  LET open == {k \in Opens : job[j].next <= k /\ k <= job[j].window.to - 1 /\ k <= now} IN
  {k \in open : Cardinality({i \in open : i < k}) < BatchLimit}

MutFetchKlineRows(j) ==
  LET open == FetchedOpens(j) IN
  /\ job[j] # None /\ job[j].pc = "fetch" /\ job[j].window.configured
  /\ early' = early \cup {k \in open : now < CloseOf(k)}
  /\ Step(j, [job[j] EXCEPT !.pc = IF open = {} THEN "fetch" ELSE "store",
                            !.page = {[open |-> k, price |-> PriceOf(k)] : k \in open},
                            !.full = Cardinality(open) = BatchLimit])
  /\ UNCHANGED <<backfillRest, klines, told, faults>>
FetchKlineRows(j) ==
  LET open == FetchedOpens(j) IN
  /\ job[j] # None /\ job[j].pc = "fetch" /\ job[j].window.configured
  /\ early' = early \cup {k \in open : now < CloseOf(k)}
  /\ Step(j, [job[j] EXCEPT !.pc = IF open = {} THEN "return" ELSE "store",
                            !.page = {[open |-> k, price |-> PriceOf(k)] : k \in open},
                            !.full = Cardinality(open) = BatchLimit])
  /\ UNCHANGED <<backfillRest, klines, told, faults>>

MutNextStart(last) == last
NextStart(last) == last + 1
\* The loop ends with a page that is not full, or that reaches the end.
BatchEnds(j, last) == ~job[j].full \/ NextStart(last) >= job[j].window.to

\* buildMarketKlineFromRow: the candle's last word, at its close time.
RowKline(row) == [event_time |-> CloseOf(row.open), is_closed |-> TRUE, price |-> row.price]

CreateKline(j) ==
  \E row \in job[j].page :
    /\ \A other \in job[j].page : row.open <= other.open
    /\ job[j].pc = "store"
    /\ klines' = [klines EXCEPT ![row.open] = RowKline(row)]
    /\ Step(j, [job[j] EXCEPT
         !.page = @ \ {row}, !.count = @ + 1,
         !.pc = IF job[j].page # {row} THEN "store"
                ELSE IF BatchEnds(j, row.open) THEN "return" ELSE "fetch",
         !.next = IF job[j].page = {row} THEN NextStart(row.open) ELSE @])
    /\ UNCHANGED <<backfillRest, told, early, faults>>

MarkSucceeded(j) ==
  /\ job[j] # None /\ job[j].pc = "return"
  /\ Step(j, [job[j] EXCEPT !.status = "succeeded", !.pc = "end"])
  /\ UNCHANGED <<backfillRest, klines, told, early, faults>>

\* The gateway's BackfillMarketKlines refuses an exchange it does not know.
RefuseJob(j) ==
  /\ job[j] # None /\ job[j].pc = "fetch" /\ ~job[j].window.configured
  /\ Step(j, [job[j] EXCEPT !.status = "failed", !.pc = "end"])
  /\ UNCHANGED <<backfillRest, klines, told, early, faults>>

\* A request, an insert or the call itself fails.
MarkFailed(j) ==
  /\ job[j] # None /\ job[j].pc \in {"fetch", "store", "return"} /\ Fault
  /\ Step(j, [job[j] EXCEPT !.status = "failed", !.pc = "end", !.page = {}])
  /\ UNCHANGED <<backfillRest, klines, told, early>>

\* The api ends: its jobs are gone, and their calls are cancelled.
CrashApi ==
  /\ \E j \in Jobs : job[j] # None
  /\ Fault
  /\ job' = [j \in Jobs |-> None]
  /\ UNCHANGED <<backfillRest, klines, told, early>>

-----------------------------------------------------------------------------
Callbacks ==
  \/ \E g \in Goroutines, t \in events : Deliver(g, t)
  \/ \E c \in Consumers, t \in events : AgeOut(c, t)
  \/ \E g \in Inserters : InsertKline(g)
  \/ \E g \in Pricers : UpsertPrice(g)
  \/ \E g \in Goroutines : FailCallback(g) \/ Deadline(g)
Runner(j) == MarkRunning(j) \/ FetchKlineRows(j) \/ (job[j] # None /\ CreateKline(j))
             \/ RefuseJob(j) \/ MarkSucceeded(j)
Backfill == \/ \E j \in Jobs, w \in Windows : StartJob(j, w)
            \/ \E j \in Jobs : Tell(j) \/ Runner(j) \/ MarkFailed(j)
            \/ CrashApi

MarketNext == Tick \/ PublishKline \/ Callbacks \/ Backfill

MarketSpec == MarketInit /\ [][MarketNext]_marketVars

\* The calls of a runner and of the client come back.
MarketFairness == \A j \in Jobs : WF_marketVars(Runner(j)) /\ WF_marketVars(Tell(j))
MarketFairSpec == MarketSpec /\ MarketFairness

-----------------------------------------------------------------------------
\* Properties

\* price_references holds the newest of all events whose price was written,
\* however often and in whichever order they were delivered and retried, by any
\* number of processes.
PriceIsNewest == priced # {} => price = Max(priced)

\* A job that succeeded has stored every candle of its window that was complete
\* and older than a minute when it was started, page by page, each once, and no
\* event that comes late or again takes one of them back - unless another
\* backfill had fetched the candle while it ran.
Complete(j) == {k \in Opens : /\ job[j].window.from <= k /\ k < job[j].window.to
                              /\ CloseOf(k) + MinuteAge < job[j].begun}
BackfillStores ==
  \A j \in Jobs : job[j] # None /\ job[j].status = "succeeded" =>
    /\ \A k \in Complete(j) \ early : klines[k] # None /\ klines[k].is_closed
                                      /\ klines[k].price = CloseOf(k)
    /\ job[j].count = Cardinality({k \in Opens : /\ job[j].window.from <= k
                                                 /\ k < job[j].next})

Phase(pc) == CASE pc = "new" -> 4 [] pc = "fetch" -> 3 [] pc = "store" -> 2
               [] pc = "return" -> 1 [] OTHER -> 0

\* What of the window the runner has not asked for.
Left(row) == IF row.next < row.window.to THEN row.window.to - row.next ELSE 0

\* Less of the window is left, or as much and the runner is further on in its loop,
\* or in the same place with fewer rows to store: what a job goes down by ends, for
\* Left and Phase are numbers and a page is finite.
Nearer(new, old) ==
  \/ Left(new) < Left(old)
  \/ /\ Left(new) = Left(old)
     /\ \/ Phase(new.pc) < Phase(old.pc)
        \/ new.pc = old.pc /\ new.page \subseteq old.page /\ new.page # old.page

JobAdvances(j) == job[j] # None /\ job'[j] \notin {None, job[j]} => Nearer(job'[j], job[j])

\* A runner never asks for a candle again, stores a row of a page twice or goes back in
\* its loop, whatever the pages hold: paging ends.
JobsAdvance == [][\A j \in Jobs : JobAdvances(j)]_marketVars

\* A job comes to its end, whatever the pages hold, unless the api ends first; and
\* a client that was answered with a job is told that end, or that the job is
\* gone: it does not wait for a job nobody works on.
JobsEnd ==
  \A j \in Jobs : job[j] # None ~>
    /\ job[j] = None \/ job[j].status \in {"succeeded", "failed"}
    /\ told[j] \notin {"pending", "running"}
=============================================================================
