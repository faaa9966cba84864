-------------------------- MODULE StrategyRuntime --------------------------
(***************************************************************************)
(* StrategyRunner.run for one pair of a strategy: an asyncio process with  *)
(* a main task that reconciles the pair with strategy_configs, a callback  *)
(* that queues its candles, a worker that evaluates them and publishes     *)
(* orders, a callback for position_closed events, and a monitor that       *)
(* resets the state.  Redis keeps the pair's state over restarts; the      *)
(* kline consumer is durable.                                              *)
(*                                                                         *)
(* Tasks interleave only where they await, so a step runs from one await   *)
(* to the next.  A write to Redis takes effect when it is issued: the      *)
(* awaits that follow only wait for the reply.  A failed call ends the     *)
(* process, and the supervisor starts it again.                            *)
(***************************************************************************)
EXTENDS Naturals, Sequences, FiniteSets

CONSTANTS
  MaxCandles,     \* bound: klines published for the pair, numbered by close time
  TickSets,       \* sets of those that may be still open (is_closed FALSE)
  QueueSize,      \* message_queue_size
  Targets,        \* versions of the pair's row in strategy_configs
  Off,            \* no enabled row
  DeleteRemoved,  \* values of redis_delete_removed_state
  None,
  MaxEdits, MaxCloses, MaxResets, MaxFaults   \* bounds

ASSUME BoundsAssumption ==
  /\ {MaxCandles, MaxEdits, MaxCloses, MaxResets, MaxFaults} \subseteq Nat
  /\ TickSets \subseteq SUBSET (1 .. MaxCandles)
  /\ QueueSize \in Nat \ {0}
  /\ DeleteRemoved \subseteq BOOLEAN
  /\ Off \notin Targets

VARIABLES
  want, edits,      \* strategy_configs, and how often it was edited
  ticks, removes,   \* candles still open when delivered; redis_delete_removed_state
  now, msgs,        \* candles published; the durable consumer's view of each
  consumer,         \* the durable consumer exists
  main, goal,       \* the main task; desired_pairs of the reconciliation
  active, ctx,      \* whether active_pairs holds the pair; its pair_ctx
  queue,            \* ctx["message_queue"]
  worker,           \* the pair's worker task
  closer,           \* handle_position_closed
  reset, resets,    \* reset_runtime_state
  redis,
  orders, ids,      \* published orders; entry_order_ids generated
  closed, events,   \* entries closed from outside; events not acknowledged yet
  fatal, faults,    \* fatal_error is set; failures so far
  unsaved, missed, torn, cleared, raced   \* ghosts, see the properties

configVars == <<want, edits, ticks, removes>>
klineVars  == <<now, msgs, consumer>>
pairVars   == <<active, ctx, queue>>
mainVars   == <<main, goal>>
closeVars  == <<closed, events>>
faultVars  == <<fatal, faults>>
resetVars  == <<reset, resets>>
orderVars  == <<orders, ids>>
ghosts     == <<unsaved, missed, torn, cleared, raced>>
quiet      == <<configVars, resetVars, closeVars, faultVars>>
vars == <<configVars, klineVars, mainVars, pairVars, worker, closer, resetVars, redis,
          orderVars, closeVars, faultVars, ghosts>>

Candles == 1 .. MaxCandles
Ids     == 0 .. ids      \* 0: the empty entry_order_id

-----------------------------------------------------------------------------
\* What a strategy remembers: whether it holds a position, and the last closed
\* candle it took.  What it decides is left open.
States  == [pos : BOOLEAN, last : 0 .. MaxCandles]
Initial == [pos |-> FALSE, last |-> 0]

\* StoredPairState: the strategy's state and the remembered entry.
Stored  == [state : States, entry : Nat]

ASSUME NoneAssumption == None \notin Stored

Outcome(m, sigs) == [mem |-> m, sigs |-> sigs]
\* (A definition named Mut... is one that follows with a plausible fault: each
\* property below rules one of them out.)
MutAllowNewCandle(m, c) == c >= m.last
allow_new_candle(m, c) == c > m.last

\* on_closed_candle, of the strategies that hold one position at a time.
on_closed_candle(m, c) ==
  LET seen == [m EXCEPT !.last = c]
  IN  IF ~allow_new_candle(m, c) THEN {Outcome(m, <<>>)}
      ELSE {Outcome(seen, <<>>)} \cup
           IF m.pos THEN {Outcome([seen EXCEPT !.pos = FALSE], <<"EXIT">>),
                          Outcome(seen, <<"EXIT", "ENTRY">>)}
                    ELSE {Outcome([seen EXCEPT !.pos = TRUE], <<"ENTRY">>)}

\* on_price_update: an exit, if anything.
on_price_update(m) ==
  {Outcome(m, <<>>)} \cup
  IF m.pos THEN {Outcome([m EXCEPT !.pos = FALSE], <<"EXIT">>)} ELSE {}

on_external_close(m) == [m EXCEPT !.pos = FALSE]

Decide(m, c) == IF c \in ticks THEN on_price_update(m) ELSE on_closed_candle(m, c)

-----------------------------------------------------------------------------
NoWorker == [pc |-> "none", candle |-> 0, prev |-> None, own |-> FALSE, st |-> None,
             todo |-> <<>>]
NoCloser == [pc |-> "idle", entry |-> 0, st |-> None]
NoCtx    == [target |-> Off, mem |-> Initial, stored |-> [state |-> Initial, entry |-> 0],
             bytes |-> Initial]

Locked == \/ worker.pc \in {"evaluate", "publish", "published", "saved"}
          \/ closer.pc = "saved"
Subscribed == (active /\ main # "subscribe") \/ main = "unsubscribe"

TypeOK ==
  /\ want \in Targets \cup {Off} /\ goal \in Targets \cup {Off}
  /\ ticks \in TickSets /\ removes \in DeleteRemoved
  /\ edits \in 0 .. MaxEdits /\ now \in 0 .. MaxCandles
  /\ msgs \in [Candles -> {"none", "new", "sent", "again", "acked", "dropped"}]
  /\ {consumer, active, fatal, unsaved, raced} \subseteq BOOLEAN
  /\ main \in {"wait", "unsubscribe", "delete", "cancel", "save", "load", "subscribe"}
  /\ ctx \in [target : Targets \cup {Off}, mem : States, stored : Stored, bytes : States]
  /\ queue \in Seq(Candles) /\ Len(queue) <= QueueSize
  /\ worker \in [pc : {"none", "idle", "lock", "evaluate", "publish", "published", "saved", "ack"},
                 candle : Candles \cup {0}, prev : Stored \cup {None}, own : BOOLEAN,
                 st : Stored \cup {None}, todo : Seq({"ENTRY", "EXIT"})]
  /\ closer \in [pc : {"idle", "lock", "saved", "orphan"}, entry : Ids, st : Stored \cup {None}]
  /\ reset \in {"idle", "swap", "orphan", "pattern"}
  /\ resets \in 0 .. MaxResets /\ faults \in 0 .. MaxFaults
  /\ redis \in Stored \cup {None}
  /\ orders \in Seq([cond : {"ENTRY", "EXIT"}, entry : Ids, candle : Candles])
  /\ ids \in Nat /\ cleared \in Ids
  /\ closed \subseteq Ids /\ events \subseteq closed /\ missed \subseteq closed
  /\ torn \subseteq {"lost", "cancel", "reset"}

\* The counters start with what is not to be used of their bounds.
Init ==
  /\ want \in Targets \cup {Off} /\ edits \in 0 .. MaxEdits
  /\ ticks \in TickSets /\ removes \in DeleteRemoved
  /\ now = 0 /\ msgs = [c \in Candles |-> "none"] /\ consumer = FALSE
  /\ main = "wait" /\ goal = Off
  /\ active = FALSE /\ ctx = NoCtx /\ queue = <<>>
  /\ worker = NoWorker /\ closer = NoCloser
  /\ reset = "idle" /\ resets \in 0 .. MaxResets
  /\ redis = None
  /\ orders = <<>> /\ ids = 0 /\ closed = {} /\ events = {}
  /\ fatal = FALSE /\ faults \in 0 .. MaxFaults
  /\ unsaved = FALSE /\ missed = {} /\ torn = {} /\ cleared = 0 /\ raced = FALSE

-----------------------------------------------------------------------------
\* The environment: an operator edits the row, the market moves, an entry is
\* closed from outside (or its EXIT and a manual close cross).

EditConfig ==
  /\ edits < MaxEdits
  /\ edits' = edits + 1
  /\ want' \in (Targets \cup {Off}) \ {want}
  /\ UNCHANGED <<ticks, removes, klineVars, mainVars, pairVars, worker, closer, resetVars,
                 redis, orderVars, closeVars, faultVars, ghosts>>

PublishKline ==
  /\ now < MaxCandles
  /\ now' = now + 1
  /\ msgs' = [msgs EXCEPT ![now + 1] = IF consumer THEN "new" ELSE @]
  /\ UNCHANGED <<quiet, consumer, mainVars, pairVars, worker, closer, redis, orderVars, ghosts>>

ClosePosition(e) ==
  /\ Cardinality(closed) < MaxCloses
  /\ e \notin closed
  /\ \E i \in DOMAIN orders : orders[i].cond = "ENTRY" /\ orders[i].entry = e
  /\ closed' = closed \cup {e}
  /\ events' = events \cup {e}
  /\ UNCHANGED <<configVars, klineVars, mainVars, pairVars, worker, closer, resetVars, redis,
                 orderVars, faultVars, ghosts>>

AckWaitExpires(c) ==
  /\ msgs[c] = "sent"
  /\ msgs' = [msgs EXCEPT ![c] = "again"]
  /\ UNCHANGED <<quiet, now, consumer, mainVars, pairVars, worker, closer, redis, orderVars,
                 ghosts>>

-----------------------------------------------------------------------------
MutHasRoom == Len(queue) <= QueueSize
HasRoom == Len(queue) < QueueSize

\* build_handler: a full queue blocks the callback; without a pair_ctx the
\* candle is acknowledged unseen.
Handle(c) ==
  /\ Subscribed
  /\ \/ msgs[c] = "new" /\ \A d \in Candles : msgs[d] = "new" => c <= d
     \/ msgs[c] = "again"
  /\ \/ /\ active
        /\ HasRoom
        /\ queue' = Append(queue, c)
        /\ msgs' = [msgs EXCEPT ![c] = "sent"]
     \/ /\ ~active
        /\ msgs' = [msgs EXCEPT ![c] = "dropped"]
        /\ UNCHANGED queue
  /\ UNCHANGED <<quiet, now, consumer, mainVars, active, ctx, worker, closer, redis, orderVars,
                 ghosts>>

-----------------------------------------------------------------------------
\* pair_worker and process_message

\* queue.get, and the look into active_pairs.
Get ==
  /\ worker.pc = "idle"
  /\ queue # <<>>
  /\ queue' = Tail(queue)
  /\ \/ /\ active
        /\ worker' = [worker EXCEPT !.pc = "lock", !.candle = Head(queue)]
        /\ UNCHANGED msgs
     \/ /\ ~active
        /\ worker' = NoWorker
        /\ msgs' = [msgs EXCEPT ![Head(queue)] = IF @ = "none" THEN @ ELSE "dropped"]
  /\ UNCHANGED <<quiet, now, consumer, mainVars, active, ctx, closer, redis, orderVars, ghosts>>

Acquire ==
  /\ worker.pc = "lock"
  /\ ~Locked
  /\ worker' = [worker EXCEPT !.pc = "evaluate", !.prev = ctx.stored, !.st = ctx.stored,
                              !.own = TRUE]
  /\ UNCHANGED <<quiet, klineVars, mainVars, pairVars, closer, redis, orderVars, ghosts>>

\* stored_state is the pair_ctx's own object unless a reset has replaced it.
MutKeep(c, st, own) == c
Keep(c, st, own) == IF own THEN [c EXCEPT !.stored = st] ELSE c

MutSaves(m, c, st, prev) == st.entry # prev.entry
Saves(m, c, st, prev) == m # c.bytes \/ st.entry # prev.entry

\* Up to the next await: the publish of the next signal, whose ENTRY is given
\* its id before; or, with none left, the save of a changed state.
Proceed(m, st, sigs) ==
  LET c == [ctx EXCEPT !.mem = m]
      armed == [st EXCEPT !.entry = ids + 1]
      saved == [st EXCEPT !.state = m]
  IN  \/ /\ sigs # <<>> /\ Head(sigs) = "ENTRY"
         /\ ids' = ids + 1
         /\ ctx' = Keep(c, armed, worker.own)
         /\ worker' = [worker EXCEPT !.pc = "publish", !.st = armed, !.todo = sigs]
         /\ UNCHANGED <<redis, unsaved>>
      \/ /\ sigs # <<>> /\ Head(sigs) = "EXIT"
         /\ ctx' = Keep(c, st, worker.own)
         /\ worker' = [worker EXCEPT !.pc = "publish", !.st = st, !.todo = sigs]
         /\ UNCHANGED <<ids, redis, unsaved>>
      \/ /\ sigs = <<>> /\ Saves(m, ctx, st, worker.prev)
         /\ ctx' = Keep(c, saved, worker.own)
         /\ redis' = saved /\ unsaved' = FALSE
         /\ worker' = [worker EXCEPT !.pc = "saved", !.st = saved, !.todo = sigs]
         /\ UNCHANGED ids
      \/ /\ sigs = <<>> /\ ~Saves(m, ctx, st, worker.prev)
         /\ ctx' = Keep(c, st, worker.own)
         /\ worker' = [worker EXCEPT !.pc = "ack", !.st = st, !.todo = sigs]
         /\ UNCHANGED <<ids, redis, unsaved>>

Evaluate ==
  /\ worker.pc = "evaluate"
  /\ \E d \in Decide(ctx.mem, worker.candle) : Proceed(d.mem, worker.st, d.sigs)
  /\ UNCHANGED <<quiet, klineVars, mainVars, active, queue, closer, orders, missed, torn,
                 cleared, raced>>

\* JetStream stores the order.
StoreOrder ==
  /\ worker.pc = "publish"
  /\ orders' = Append(orders, [cond |-> Head(worker.todo), entry |-> worker.st.entry,
                               candle |-> worker.candle])
  /\ worker' = [worker EXCEPT !.pc = "published"]
  /\ unsaved' = TRUE
  /\ UNCHANGED <<quiet, klineVars, mainVars, pairVars, closer, redis, ids, missed, torn,
                 cleared, raced>>

\* js.publish returned.
AfterPublish(st, cond) == IF cond = "EXIT" THEN [st EXCEPT !.entry = 0] ELSE st
Published ==
  /\ worker.pc = "published"
  /\ Proceed(ctx.mem, AfterPublish(worker.st, Head(worker.todo)), Tail(worker.todo))
  /\ UNCHANGED <<quiet, klineVars, mainVars, active, queue, closer, orders, missed, torn,
                 cleared, raced>>

Saved ==
  /\ worker.pc = "saved"
  /\ ctx' = [ctx EXCEPT !.bytes = worker.st.state]
  /\ worker' = [worker EXCEPT !.pc = "ack"]
  /\ UNCHANGED <<quiet, klineVars, mainVars, active, queue, closer, redis, orderVars, ghosts>>

\* The lock is released.  An ack is not confirmed and may be lost.
Ack ==
  /\ worker.pc = "ack"
  /\ msgs' \in {msgs, [msgs EXCEPT ![worker.candle] = IF @ = "none" THEN @ ELSE "acked"]}
  /\ worker' = IF active THEN [NoWorker EXCEPT !.pc = "idle"] ELSE NoWorker
  /\ UNCHANGED <<quiet, now, consumer, mainVars, pairVars, closer, redis, orderVars, ghosts>>

MutFailRuntime == UNCHANGED fatal
FailRuntime == fatal' = TRUE

\* An exception: of the publish (then the strategy is put back), or of the
\* save (one that was not written shows like the former).  The candle is nak'ed,
\* the worker ends and fails the runtime.
Fail ==
  /\ faults < MaxFaults
  /\ worker.pc \in {"publish", "published", "saved"}
  /\ ctx' = IF worker.pc = "saved" THEN ctx ELSE [ctx EXCEPT !.mem = worker.prev.state]
  /\ torn' = IF unsaved THEN torn \cup {"lost"} ELSE torn
  /\ msgs' = [msgs EXCEPT ![worker.candle] = IF @ = "sent" THEN "again" ELSE @]
  /\ worker' = NoWorker
  /\ FailRuntime
  /\ faults' = faults + 1
  /\ UNCHANGED <<configVars, now, consumer, mainVars, active, queue, closer, resetVars, redis,
                 orderVars, closeVars, unsaved, missed, cleared, raced>>

-----------------------------------------------------------------------------
\* reconcile_pairs

MutChanged == active /\ want = Off
Changed == active /\ ctx.target # want

\* The desired pairs are loaded; a pair that changed or went is taken out.
Reconcile ==
  /\ main = "wait"
  /\ ~fatal
  /\ goal' = want
  /\ \/ /\ Changed
        /\ active' = FALSE
        /\ main' = "unsubscribe"
     \/ /\ ~active /\ want # Off
        /\ main' = "load"
        /\ UNCHANGED active
  /\ UNCHANGED <<quiet, klineVars, ctx, queue, worker, closer, redis, orderVars, ghosts>>

Unsubscribe ==
  /\ main = "unsubscribe"
  /\ main' = "delete"
  /\ UNCHANGED <<quiet, klineVars, goal, pairVars, worker, closer, redis, orderVars, ghosts>>

\* js.delete_consumer, whose failure is suppressed.
DeleteConsumer ==
  /\ main = "delete"
  /\ \/ consumer' = FALSE /\ msgs' = [c \in Candles |-> "none"]
     \/ UNCHANGED <<consumer, msgs>>
  /\ main' = "cancel"
  /\ UNCHANGED <<quiet, now, goal, pairVars, worker, closer, redis, orderVars, ghosts>>

\* worker.cancel, wherever it awaits, and the queue is drained with naks.
CancelWorker ==
  /\ main = "cancel"
  /\ main' = "save"
  /\ worker' = NoWorker
  /\ torn' = IF worker.pc = "publish" \/ (worker.pc = "published" /\ Len(worker.todo) > 1)
             THEN torn \cup {"cancel"} ELSE torn
  /\ msgs' = [c \in Candles |-> IF msgs[c] = "sent" /\ (\E i \in DOMAIN queue : queue[i] = c)
                                THEN "again" ELSE msgs[c]]
  /\ queue' = <<>>
  /\ UNCHANGED <<quiet, now, consumer, goal, active, ctx, closer, redis, orderVars, unsaved,
                 missed, cleared, raced>>

\* The strategy's state is saved, whatever the worker was doing, and erased
\* again if so configured.  (A closer that waited for the lock runs first: the
\* worker's end woke it.)
SaveRemoved ==
  LET kept == [ctx.stored EXCEPT !.state = ctx.mem]
  IN  /\ main = "save"
      /\ closer.pc # "lock"
      /\ ctx' = [ctx EXCEPT !.stored = kept]
      /\ redis' = IF removes THEN None ELSE kept
      /\ unsaved' = FALSE
      /\ main' = IF goal = Off THEN "wait" ELSE "load"
      /\ UNCHANGED <<quiet, klineVars, goal, active, queue, worker, closer, orderVars, missed,
                     torn, cleared, raced>>

\* The state is restored from Redis, or warmed up from market_klines (which
\* may lag) and saved; the pair_ctx is built.
Load ==
  \E st \in IF redis # None THEN {redis}
            ELSE {[state |-> [Initial EXCEPT !.last = l], entry |-> 0] : l \in 0 .. now} :
    /\ main = "load"
    /\ redis' = st
    /\ active' = TRUE
    /\ ctx' = [target |-> goal, mem |-> st.state, stored |-> st, bytes |-> st.state]
    /\ queue' = <<>>
    /\ main' = "subscribe"
    /\ reset' = IF reset = "swap" THEN "orphan" ELSE reset
    /\ closer' = IF closer.pc = "saved" THEN [closer EXCEPT !.pc = "orphan"] ELSE closer
    /\ UNCHANGED <<configVars, klineVars, goal, worker, resets, orderVars, closeVars, faultVars,
                   ghosts>>

\* js.subscribe: the durable consumer is created for new candles, or bound to;
\* an error deletes it first.
Subscribe ==
  /\ main = "subscribe"
  /\ main' = "wait"
  /\ consumer' = TRUE
  /\ msgs' \in {[c \in Candles |-> "none"]} \cup (IF consumer THEN {msgs} ELSE {})
  /\ worker' = [NoWorker EXCEPT !.pc = "idle"]
  /\ UNCHANGED <<quiet, now, goal, pairVars, closer, redis, orderVars, ghosts>>

-----------------------------------------------------------------------------
\* handle_position_closed

\* The events of other positions, and all events while the pair is not active,
\* are acknowledged and forgotten.
TakeClose(e) ==
  /\ closer.pc = "idle"
  /\ e \in events
  /\ \/ /\ active
        /\ closer' = [closer EXCEPT !.pc = "lock", !.entry = e]
        /\ UNCHANGED <<events, missed>>
     \/ /\ ~active
        /\ events' = events \ {e}
        /\ missed' = missed \cup {e}
        /\ UNCHANGED closer
  /\ UNCHANGED <<configVars, klineVars, mainVars, pairVars, worker, resetVars, redis, orderVars,
                 closed, faultVars, unsaved, torn, cleared, raced>>

MutSkipsBusy(e) == ctx.stored.entry # e \/ worker.pc # "idle"
SkipsClose(e) == ctx.stored.entry # e

\* With the lock: the strategy is put back to the saved state, told, and saved.
ApplyClose ==
  LET flat == [state |-> on_external_close(ctx.stored.state), entry |-> 0]
  IN  /\ closer.pc = "lock"
      /\ ~Locked
      /\ \/ /\ SkipsClose(closer.entry)
            /\ events' = events \ {closer.entry}
            /\ closer' = NoCloser
            /\ UNCHANGED <<ctx, redis, torn>>
         \/ /\ ~SkipsClose(closer.entry)
            /\ ctx' = [ctx EXCEPT !.mem = flat.state, !.stored = flat]
            /\ redis' = flat
            /\ closer' = [closer EXCEPT !.pc = "saved", !.st = flat]
            /\ torn' = IF unsaved THEN torn \cup {"lost"} ELSE torn
            /\ UNCHANGED events
      /\ UNCHANGED <<configVars, klineVars, mainVars, active, queue, worker, resetVars,
                     orderVars, closed, faultVars, unsaved, missed, cleared, raced>>

\* The reply to the save, and the ack, which may be lost.
CloseSaved ==
  /\ closer.pc \in {"saved", "orphan"}
  /\ ctx' = IF closer.pc = "saved" THEN [ctx EXCEPT !.bytes = closer.st.state] ELSE ctx
  /\ events' \in {events, events \ {closer.entry}}
  /\ closer' = NoCloser
  /\ UNCHANGED <<configVars, klineVars, mainVars, active, queue, worker, resetVars, redis,
                 orderVars, closed, faultVars, ghosts>>

-----------------------------------------------------------------------------
\* reset_runtime_state, which takes no lock

ResetDelete ==
  /\ reset = "idle"
  /\ resets < MaxResets
  /\ resets' = resets + 1
  /\ torn' = torn \cup {"reset"}
  /\ IF active THEN reset' = "swap" /\ redis' = None ELSE reset' = "pattern" /\ UNCHANGED redis
  /\ UNCHANGED <<configVars, klineVars, mainVars, pairVars, worker, closer, orderVars,
                 closeVars, faultVars, unsaved, missed, cleared, raced>>

MutResetCtx(c) == [c EXCEPT !.mem = Initial, !.bytes = Initial]
ResetCtx(c) ==
  [c EXCEPT !.mem = Initial, !.stored = [state |-> Initial, entry |-> 0], !.bytes = Initial]

\* The pair_ctx gets a new stored_state.  If the pairs changed meanwhile, the
\* loop over them raises and the rest is not done.
ResetSwap ==
  /\ reset \in {"swap", "orphan"}
  /\ reset' \in {"pattern", "idle"}
  /\ \/ /\ reset = "swap"
        /\ ctx' = ResetCtx(ctx)
        /\ worker' = [worker EXCEPT !.own = FALSE]
     \/ reset = "orphan" /\ UNCHANGED <<ctx, worker>>
  /\ reset' = "idle" => ~active \/ reset = "orphan"
  /\ raced' = (raced \/ Locked \/ ~active \/ main # "wait")
  /\ cleared' = IF reset = "swap" /\ reset' = "pattern" THEN ids ELSE cleared
  /\ UNCHANGED <<configVars, klineVars, mainVars, active, queue, closer, resets, redis,
                 orderVars, closeVars, faultVars, unsaved, missed, torn>>

\* delete_pattern, and the request is answered.
ResetPattern ==
  /\ reset = "pattern"
  /\ reset' = "idle"
  /\ redis' = None
  /\ UNCHANGED <<configVars, klineVars, mainVars, pairVars, worker, closer, resets, orderVars,
                 closeVars, faultVars, ghosts>>

-----------------------------------------------------------------------------
\* The process ends and is started again: killed at any time, or by the main
\* task once fatal_error is set.
Stop ==
  /\ main' = "wait" /\ goal' = Off
  /\ active' = FALSE /\ ctx' = NoCtx /\ queue' = <<>>
  /\ worker' = NoWorker /\ closer' = NoCloser /\ reset' = "idle"
  /\ torn' = IF unsaved THEN torn \cup {"lost"} ELSE torn
  /\ unsaved' = FALSE
  /\ fatal' = FALSE
  /\ cleared' = IF reset = "pattern" THEN 0 ELSE cleared
  /\ UNCHANGED <<configVars, klineVars, resets, redis, orderVars, closeVars, missed, raced>>

Crash == faults < MaxFaults /\ faults' = faults + 1 /\ Stop
Exit  == fatal /\ main = "wait" /\ Stop /\ UNCHANGED faults

Worker == Get \/ Acquire \/ Evaluate \/ StoreOrder \/ Published \/ Saved \/ Ack \/ Fail
Main   == Reconcile \/ Unsubscribe \/ DeleteConsumer \/ CancelWorker \/ SaveRemoved \/ Load \/ Subscribe
Closer == (\E e \in events : TakeClose(e)) \/ ApplyClose \/ CloseSaved
Monitor == ResetDelete \/ ResetSwap \/ ResetPattern
Environment ==
  \/ EditConfig \/ PublishKline \/ (\E e \in 1 .. ids : ClosePosition(e))
  \/ \E c \in Candles : AckWaitExpires(c) \/ Handle(c)

Next == Worker \/ Main \/ Closer \/ Monitor \/ Environment \/ Crash \/ Exit

Spec == Init /\ [][Next]_vars

\* The event loop runs what is ready, its locks and queues are served in order,
\* the server redelivers, and an ack that is sent again and again arrives.
\* Nothing is assumed of the market, the operator or failures.
Fairness ==
  /\ WF_vars(Main) /\ WF_vars(Exit)
  /\ WF_vars(Get) /\ SF_vars(Acquire) /\ WF_vars(Evaluate) /\ WF_vars(StoreOrder)
  /\ WF_vars(Published) /\ WF_vars(Saved) /\ WF_vars(Ack)
  /\ \A c \in Candles :
       /\ WF_vars(AckWaitExpires(c)) /\ SF_vars(Handle(c))
       /\ SF_vars(Ack /\ worker.candle = c /\ msgs'[c] \in {"acked", "none"})
  /\ SF_vars(\E e \in events : TakeClose(e)) /\ SF_vars(ApplyClose)
  /\ WF_vars(CloseSaved) /\ SF_vars(CloseSaved /\ events' # events)

FairSpec == Spec /\ Fairness

-----------------------------------------------------------------------------
\* Properties.  unsaved says that an order is published and the state behind it
\* is not in Redis yet, and torn what became of such a state: a failure, or a
\* close that put the strategy back, undid it ("lost"), or a worker was cancelled
\* with a signal's order not out, and the state saved as if it were ("cancel"),
\* or the user asked to forget it ("reset").  missed are
\* the closes that came while the pair was not active; cleared is the last
\* entry_order_id that existed when a reset replaced the pair's state, and raced
\* says that one did so while a task worked on the pair or after it was taken out.

Entries(c) == {i \in DOMAIN orders : orders[i].cond = "ENTRY" /\ orders[i].candle = c}

\* A candle opens one position at most, over redeliveries, reconciliations with
\* a cancelled worker, closes from outside and failures, as long as no failure
\* falls between a publish and its save.
OneEntryPerCandle ==
  torn \subseteq {"cancel"} /\ ~removes => \A c \in Candles : Cardinality(Entries(c)) <= 1

\* One position at a time: an EXIT names the entry of the last ENTRY and follows
\* it directly, and an ENTRY follows an EXIT or an entry closed from outside.
OnePosition ==
  torn = {} /\ ~removes =>
    \A i \in DOMAIN orders :
      IF orders[i].cond = "EXIT"
      THEN i > 1 /\ orders[i - 1].cond = "ENTRY" /\ orders[i - 1].entry = orders[i].entry
      ELSE i > 1 => orders[i - 1].cond = "EXIT" \/ orders[i - 1].entry \in closed

\* A candle the strategy took is acknowledged only when the state that has seen
\* it is in Redis: no failure makes the strategy forget an acknowledged candle.
AckedIsSaved ==
  "reset" \notin torn /\ ~removes =>
    \A c \in Candles \ ticks : msgs[c] = "acked" => redis # None /\ redis.state.last >= c

\* At rest the strategy, its stored state and Redis agree.
Resting == active /\ ~Locked /\ ~fatal /\ reset = "idle"
Coherent ==
  Resting /\ "reset" \notin torn =>
    /\ redis = ctx.stored
    /\ ctx.stored.state = ctx.mem
    /\ ctx.bytes = ctx.mem

\* An EXIT is never published for an entry whose close was taken note of while
\* the pair was active, whatever the runtime goes through afterwards.
ClosedStaysClosed ==
  [][\A e \in (closed \ events) \ missed :
       torn \subseteq {"cancel"} =>
         ~(Len(orders') > Len(orders) /\ orders'[Len(orders')].cond = "EXIT"
                                      /\ orders'[Len(orders')].entry = e)]_vars

\* "Clear runner strategy state": nothing that is older than a completed reset
\* is remembered afterwards, in Redis or in the pair_ctx.
Forgotten(st) == st.entry = 0 \/ st.entry > cleared
ResetClears ==
  reset = "idle" => (redis # None => Forgotten(redis)) /\ Forgotten(ctx.stored)

\* The same of a reset that found the pair at rest when it swapped the state.
ResetAtRestClears == ~raced => ResetClears

\* The runtime implements PositionOrders: whatever its tasks do between two awaits,
\* each order it publishes is one that PositionOrders allows after those before.
Heard == (closed \ events) \ missed
Positions == INSTANCE PositionOrders WITH heard <- Heard, excuses <- torn, forgets <- removes
KeepsPosition == Positions!PositionSpec

\* The pair that runs is in the end the pair that is configured, through
\* failed and repeated reconciliations.
ConfigApplied == <>[](IF want = Off THEN ~active ELSE active /\ ctx.target = want)

\* Every candle delivered to an active pair is dealt with, with a queue that
\* fills up, and so is every close from outside: the lock, a busy worker, a lost
\* ack or a restart only delay them.
Pending(c) == msgs[c] \in {"new", "sent", "again"}
AllTaken ==
  /\ \A c \in Candles : Pending(c) ~> ~Pending(c) \/ ~active
  /\ []<>(events = {})
=============================================================================
