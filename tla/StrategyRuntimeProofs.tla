----------------------- MODULE StrategyRuntimeProofs -----------------------
(***************************************************************************)
(* Theorems about StrategyRuntime, for every number of candles, edits,     *)
(* closes, resets and failures, every queue size and every set of targets. *)
(***************************************************************************)
EXTENDS StrategyRuntime, SequenceTheorems, FiniteSetTheorems, TLAPS

\* The worker holds the pair's lock; it is between the decision and its save.
Holding    == {"evaluate", "publish", "published", "saved"}
Publishing == {"publish", "published"}
\* The pair has a pair_ctx, even if it is being taken out.
Live == active \/ main \in {"unsubscribe", "delete", "cancel", "save"}
\* The signals of a decision: all, or those left.
Done    == <<>>
Enter   == <<"ENTRY">>
Leave   == <<"EXIT">>
Turn    == <<"EXIT", "ENTRY">>
Signals == {Enter, Leave, Turn}

\* What the tasks hold while they work.
TaskOK ==
  /\ worker.pc \notin {"none", "idle"} => worker.candle \in Candles
  /\ worker.pc \in Holding => worker.prev \in Stored /\ worker.st \in Stored
  /\ worker.pc \in Publishing => worker.todo \in Signals
  /\ closer.pc = "saved" => closer.st \in Stored
  /\ closer.pc # "idle" => closer.entry \in closed

\* The worker lives while the pair does, or until it is cancelled; an active
\* pair without one has failed; the lock is held by one task.
Shape ==
  /\ worker.pc # "none" => \/ active /\ main = "wait"
                           \/ ~active /\ main \in {"unsubscribe", "delete", "cancel"}
  /\ active => main \in {"wait", "subscribe"}
  /\ main = "subscribe" => active
  /\ worker.pc \in Holding => closer.pc # "saved"
  /\ closer.pc = "lock" => Live
  /\ active /\ main = "wait" /\ worker.pc = "none" => fatal

\* An entry_order_id that is remembered was generated.
KnownIds ==
  /\ ctx.stored.entry <= ids
  /\ worker.pc \in Holding => worker.st.entry <= ids
  /\ redis # None => redis.entry <= ids

TypeInv == TypeOK /\ TaskOK /\ Shape /\ KnownIds

-----------------------------------------------------------------------------
\* The actions, one by one.

LEMMA StepForms ==
  ASSUME [Next]_vars
  PROVE  \/ Get \/ Acquire \/ Evaluate \/ StoreOrder \/ Published \/ Saved \/ Ack \/ Fail
         \/ Reconcile \/ Unsubscribe \/ DeleteConsumer \/ CancelWorker \/ SaveRemoved
         \/ Load \/ Subscribe
         \/ (\E e \in events : TakeClose(e)) \/ ApplyClose \/ CloseSaved
         \/ ResetDelete \/ ResetSwap \/ ResetPattern
         \/ EditConfig \/ PublishKline \/ (\E e \in 1 .. ids : ClosePosition(e))
         \/ (\E c \in Candles : AckWaitExpires(c)) \/ (\E c \in Candles : Handle(c))
         \/ Crash \/ Exit
         \/ UNCHANGED vars
  BY DEF Next, Worker, Main, Closer, Monitor, Environment

\* What a step changes of the pair's strategy and its tasks.
frame == <<removes, ticks, active, main, ctx, worker, closer, reset, redis, orders, ids, closed,
           events, fatal, unsaved, missed, torn, cleared, raced>>

LEMMA Frames ==
  ASSUME \/ EditConfig \/ PublishKline \/ (\E c \in Candles : AckWaitExpires(c))
         \/ (\E c \in Candles : Handle(c)) \/ UNCHANGED vars
  PROVE  UNCHANGED frame
  BY DEF EditConfig, PublishKline, AckWaitExpires, Handle, quiet, vars, frame, configVars,
         klineVars, pairVars, mainVars, closeVars, faultVars, resetVars, orderVars, ghosts

-----------------------------------------------------------------------------
\* Signals and decisions.

LEMMA SignalFacts ==
  /\ Signals \cup {Done} \subseteq Seq({"ENTRY", "EXIT"})
  /\ Done = <<>> /\ Enter # Done /\ Leave # Done /\ Turn # Done
  /\ Enter # Leave /\ Enter # Turn /\ Leave # Turn
  /\ Head(Enter) = "ENTRY" /\ Tail(Enter) = Done
  /\ Head(Leave) = "EXIT" /\ Tail(Leave) = Done
  /\ Head(Turn) = "EXIT" /\ Tail(Turn) = Enter
  /\ Len(Enter) = 1 /\ Len(Leave) = 1 /\ Len(Turn) = 2
<1>1. /\ Done \in Seq({"ENTRY", "EXIT"}) /\ Enter \in Seq({"ENTRY", "EXIT"})
      /\ Leave \in Seq({"ENTRY", "EXIT"}) /\ Turn \in Seq({"ENTRY", "EXIT"})
  BY DEF Done, Enter, Leave, Turn
<1>2. Signals \cup {Done} \subseteq Seq({"ENTRY", "EXIT"})
  BY <1>1 DEF Signals
<1>3. /\ Head(Enter) = "ENTRY" /\ Tail(Enter) = Done
      /\ Head(Leave) = "EXIT" /\ Tail(Leave) = Done
  BY DEF Done, Enter, Leave
<1>4. Head(Turn) = "EXIT" /\ Tail(Turn) = Enter
  BY DEF Enter, Turn
<1>5. Enter # Leave /\ Enter # Turn /\ Leave # Turn
  BY DEF Enter, Leave, Turn
<1>6. Done = <<>> /\ Enter # Done /\ Leave # Done /\ Turn # Done
  BY DEF Done, Enter, Leave, Turn
<1>7. Len(Enter) = 1 /\ Len(Leave) = 1 /\ Len(Turn) = 2
  BY DEF Enter, Leave, Turn
<1>8. QED
  BY <1>2, <1>3, <1>4, <1>5, <1>6, <1>7

\* What a strategy decides, from what it remembers.
Decided(m, c, new, sigs) ==
  /\ new \in States /\ sigs \in Signals \cup {Done}
  /\ new.last = m.last \/ (new.last = c /\ c > m.last)
  /\ c \notin ticks => new.last >= c
  /\ sigs \in {Enter, Turn} => c > m.last /\ new.last = c /\ new.pos
  /\ sigs = Done => new.pos = m.pos
  /\ sigs = Enter => ~m.pos
  /\ sigs = Leave => m.pos /\ ~new.pos
  /\ sigs = Turn => m.pos

LEMMA Decisions ==
  ASSUME NEW m \in States, NEW c \in Candles, NEW d \in Decide(m, c)
  PROVE  Decided(m, c, d.mem, d.sigs)
<1> SUFFICES ASSUME NEW new, NEW sigs, new = d.mem, sigs = d.sigs
             PROVE  Decided(m, c, new, sigs)
  OBVIOUS
<1>1. MaxCandles \in Nat
  BY BoundsAssumption
<1>2. /\ m.last \in 0 .. MaxCandles /\ m.pos \in BOOLEAN
      /\ c \in 0 .. MaxCandles /\ c \in Int /\ m.last \in Int
  BY <1>1 DEF States, Candles
<1>3. \A x, y : d = Outcome(x, y) => new = x /\ sigs = y
  BY DEF Outcome
<1> DEFINE put(last, pos) == new \in States /\ new.last = last /\ new.pos = pos
<1>4. CASE c \in ticks
  <2>1. d \in {Outcome(m, Done)} \cup
              IF m.pos THEN {Outcome([m EXCEPT !.pos = FALSE], Leave)} ELSE {}
    BY <1>4 DEF Decide, on_price_update, Done, Leave
  <2>2. \/ new = m /\ sigs = Done
        \/ m.pos /\ new = [m EXCEPT !.pos = FALSE] /\ sigs = Leave
    BY Zenon, <2>1, <1>3
  <2>3. new = [m EXCEPT !.pos = FALSE] => put(m.last, FALSE)
    BY <1>2 DEF States
  <2>4. new = m => put(m.last, m.pos)
    OBVIOUS
  <2> HIDE DEF put
  <2>5. \/ put(m.last, m.pos) /\ sigs = Done
        \/ m.pos /\ put(m.last, FALSE) /\ sigs = Leave
    BY Zenon, <2>2, <2>3, <2>4
  <2>6. QED
    BY <1>2, <1>4, <2>5, SignalFacts DEF Decided, Signals, put
<1>5. CASE c \notin ticks /\ ~(c > m.last)
  <2>1. d = Outcome(m, Done)
    BY <1>5 DEF Decide, on_closed_candle, allow_new_candle, Done
  <2>2. new = m /\ sigs = Done
    BY Zenon, <1>3, <2>1
  <2>3. QED
    BY <1>2, <1>5, <2>2, SignalFacts DEF Decided, Signals
<1>6. CASE c \notin ticks /\ c > m.last
  <2> DEFINE seen == [m EXCEPT !.last = c]
  <2>1. \/ d = Outcome(seen, Done)
        \/ m.pos /\ d = Outcome([seen EXCEPT !.pos = FALSE], Leave)
        \/ m.pos /\ d = Outcome(seen, Turn)
        \/ ~m.pos /\ d = Outcome([seen EXCEPT !.pos = TRUE], Enter)
    BY <1>6 DEF Decide, on_closed_candle, allow_new_candle, Done, Enter, Leave, Turn
  <2>2. \/ new = seen /\ sigs = Done
        \/ m.pos /\ new = [seen EXCEPT !.pos = FALSE] /\ sigs = Leave
        \/ m.pos /\ new = seen /\ sigs = Turn
        \/ ~m.pos /\ new = [seen EXCEPT !.pos = TRUE] /\ sigs = Enter
    <3> HIDE DEF seen
    <3>1. QED  BY Zenon, <1>3, <2>1
  <2>3. new = [seen EXCEPT !.pos = FALSE] => put(c, FALSE)
    BY <1>2 DEF States
  <2>4. new = [seen EXCEPT !.pos = TRUE] => put(c, TRUE)
    BY <1>2 DEF States
  <2>5. new = seen => put(c, m.pos)
    BY <1>2 DEF States
  <2> HIDE DEF seen, put
  <2>6. \/ put(c, m.pos) /\ sigs = Done
        \/ m.pos /\ put(c, FALSE) /\ sigs = Leave
        \/ m.pos /\ put(c, m.pos) /\ sigs = Turn
        \/ ~m.pos /\ put(c, TRUE) /\ sigs = Enter
    BY Zenon, <2>2, <2>3, <2>4, <2>5
  <2>7. c >= m.last /\ c >= c
    BY <1>2, <1>6
  <2>8. QED
    BY <1>6, <2>6, <2>7, SignalFacts DEF Decided, Signals, put
<1>7. QED
  BY <1>4, <1>5, <1>6

-----------------------------------------------------------------------------
\* Proceed, field by field.

Ctxs == [target : Targets \cup {Off}, mem : States, stored : Stored, bytes : States]
Workers ==
  [pc : {"none", "idle", "lock", "evaluate", "publish", "published", "saved", "ack"},
   candle : Candles \cup {0}, prev : Stored \cup {None}, own : BOOLEAN,
   st : Stored \cup {None}, todo : Seq({"ENTRY", "EXIT"})]

\* The worker goes on with the same candle.
WorkerAt(pc, st, todo) ==
  /\ worker' \in Workers
  /\ worker'.pc = pc /\ worker'.st = st /\ worker'.todo = todo
  /\ worker'.prev = worker.prev /\ worker'.candle = worker.candle /\ worker'.own = worker.own

\* The strategy remembers m; its stored state is st, unless that was replaced.
CtxAt(m, st) ==
  /\ ctx' \in Ctxs
  /\ ctx'.mem = m /\ ctx'.bytes = ctx.bytes
  /\ worker.own => ctx'.stored = st
  /\ ~worker.own => ctx'.stored = ctx.stored

Arms(st, sigs, new) ==
  /\ sigs = Enter
  /\ new.state = st.state /\ new.entry = ids + 1 /\ ids' = ids + 1
  /\ worker'.pc = "publish"
  /\ redis' = redis /\ unsaved' = unsaved
Leaves(st, sigs, new) ==
  /\ sigs \in {Leave, Turn}
  /\ new = st /\ ids' = ids
  /\ worker'.pc = "publish"
  /\ redis' = redis /\ unsaved' = unsaved
Keeps(m, st, sigs, new) ==
  /\ sigs = Done
  /\ m # ctx.bytes \/ st.entry # worker.prev.entry
  /\ new.state = m /\ new.entry = st.entry /\ ids' = ids
  /\ worker'.pc = "saved"
  /\ redis' = new /\ unsaved' = FALSE
Skips(m, st, sigs, new) ==
  /\ sigs = Done
  /\ m = ctx.bytes /\ st.entry = worker.prev.entry
  /\ new = st /\ ids' = ids
  /\ worker'.pc = "ack"
  /\ redis' = redis /\ unsaved' = unsaved

Proceeds(m, st, sigs, new) ==
  /\ new \in Stored
  /\ CtxAt(m, new)
  /\ WorkerAt(worker'.pc, new, sigs)
  /\ Arms(st, sigs, new) \/ Leaves(st, sigs, new) \/ Keeps(m, st, sigs, new) \/ Skips(m, st, sigs, new)

LEMMA WorkerPut ==
  ASSUME worker \in Workers, NEW new \in Stored, NEW sigs \in Seq({"ENTRY", "EXIT"}),
         NEW pc \in {"publish", "saved", "ack"},
         worker' = [worker EXCEPT !.pc = pc, !.st = new, !.todo = sigs]
  PROVE  WorkerAt(pc, new, sigs) /\ worker'.pc = pc
  BY DEF Workers, WorkerAt

LEMMA CtxPut ==
  ASSUME ctx \in Ctxs, NEW m \in States, NEW new \in Stored,
         ctx' = Keep([ctx EXCEPT !.mem = m], new, worker.own)
  PROVE  CtxAt(m, new)
  BY DEF Ctxs, CtxAt, Keep

LEMMA StoredFields ==
  ASSUME NEW st \in Stored
  PROVE  /\ st.state \in States /\ st.entry \in Nat
         /\ \A e \in Nat : /\ [st EXCEPT !.entry = e] \in Stored
                           /\ [st EXCEPT !.entry = e].state = st.state
                           /\ [st EXCEPT !.entry = e].entry = e
         /\ \A m \in States : /\ [st EXCEPT !.state = m] \in Stored
                              /\ [st EXCEPT !.state = m].state = m
                              /\ [st EXCEPT !.state = m].entry = st.entry
  BY DEF Stored

LEMMA ProceedFacts ==
  ASSUME worker \in Workers, ctx \in Ctxs, ids \in Nat,
         NEW m \in States, NEW st \in Stored, NEW sigs \in Signals \cup {Done},
         Proceed(m, st, sigs)
  PROVE  \E new \in Stored : Proceeds(m, st, sigs, new)
<1> DEFINE goes(pc, new) ==
      /\ ctx' = Keep([ctx EXCEPT !.mem = m], new, worker.own)
      /\ worker' = [worker EXCEPT !.pc = pc, !.st = new, !.todo = sigs]
<1>1. ASSUME NEW new \in Stored, NEW pc \in {"publish", "saved", "ack"}, goes(pc, new)
      PROVE  CtxAt(m, new) /\ WorkerAt(worker'.pc, new, sigs) /\ worker'.pc = pc
  BY <1>1, WorkerPut, CtxPut, SignalFacts
<1>2. /\ sigs = Enter \/ sigs \in {Leave, Turn} \/ sigs = Done
      /\ sigs # <<>> /\ Head(sigs) = "ENTRY" => sigs = Enter
      /\ sigs # <<>> /\ Head(sigs) = "EXIT" => sigs \in {Leave, Turn}
      /\ sigs = <<>> => sigs = Done
  BY SignalFacts DEF Signals
<1>3. CASE sigs # <<>> /\ Head(sigs) = "ENTRY" /\ ids' = ids + 1 /\ UNCHANGED <<redis, unsaved>>
           /\ goes("publish", [st EXCEPT !.entry = ids + 1])
  <2>1. /\ [st EXCEPT !.entry = ids + 1] \in Stored
        /\ [st EXCEPT !.entry = ids + 1].state = st.state
        /\ [st EXCEPT !.entry = ids + 1].entry = ids + 1
    BY StoredFields
  <2> DEFINE new == [st EXCEPT !.entry = ids + 1]
  <2> HIDE DEF new
  <2>2. Proceeds(m, st, sigs, new)
    BY <1>1, <1>2, <1>3, <2>1 DEF Proceeds, Arms, new
  <2>3. QED
    BY <2>1, <2>2 DEF new
<1>4. CASE sigs # <<>> /\ Head(sigs) = "EXIT" /\ UNCHANGED <<ids, redis, unsaved>>
           /\ goes("publish", st)
  BY <1>1, <1>2, <1>4 DEF Proceeds, Leaves
<1>5. CASE sigs = <<>> /\ Saves(m, ctx, st, worker.prev) /\ ids' = ids /\ unsaved' = FALSE
           /\ redis' = [st EXCEPT !.state = m]
           /\ goes("saved", [st EXCEPT !.state = m])
  <2>1. /\ [st EXCEPT !.state = m] \in Stored
        /\ [st EXCEPT !.state = m].state = m
        /\ [st EXCEPT !.state = m].entry = st.entry
    BY StoredFields
  <2> DEFINE new == [st EXCEPT !.state = m]
  <2> HIDE DEF new
  <2>2. Proceeds(m, st, sigs, new)
    BY <1>1, <1>2, <1>5, <2>1 DEF Proceeds, Keeps, Saves, new
  <2>3. QED
    BY <2>1, <2>2 DEF new
<1>6. CASE sigs = <<>> /\ ~Saves(m, ctx, st, worker.prev) /\ UNCHANGED <<ids, redis, unsaved>>
           /\ goes("ack", st)
  BY <1>1, <1>2, <1>6 DEF Proceeds, Skips, Saves
<1>7. QED
  BY <1>3, <1>4, <1>5, <1>6 DEF Proceed

\* The step of an evaluation.
LEMMA EvaluateFacts ==
  ASSUME TypeInv, Evaluate
  PROVE  \E m \in States, sigs \in Signals \cup {Done}, new \in Stored :
           /\ Decided(ctx.mem, worker.candle, m, sigs)
           /\ Proceeds(m, worker.st, sigs, new)
<1>1. /\ worker \in Workers /\ ctx \in Ctxs /\ ids \in Nat
      /\ worker.candle \in Candles /\ worker.st \in Stored /\ ctx.mem \in States
  BY DEF TypeInv, TypeOK, TaskOK, Workers, Ctxs, Evaluate, Holding
<1>2. PICK d \in Decide(ctx.mem, worker.candle) : Proceed(d.mem, worker.st, d.sigs)
  BY DEF Evaluate
<1>3. Decided(ctx.mem, worker.candle, d.mem, d.sigs)
  BY <1>1, Decisions
<1>4. d.mem \in States /\ d.sigs \in Signals \cup {Done}
  BY <1>3 DEF Decided
<1>5. \E new \in Stored : Proceeds(d.mem, worker.st, d.sigs, new)
  BY <1>1, <1>2, <1>4, ProceedFacts
<1>6. QED
  BY <1>3, <1>4, <1>5

\* The step after a publish; st is the stored state then, and sigs what is left.
LEMMA PublishedFacts ==
  ASSUME TypeInv, Published
  PROVE  \E st \in Stored, sigs \in {Enter, Done}, new \in Stored :
           /\ Proceeds(ctx.mem, st, sigs, new)
           /\ st.state = worker.st.state
           /\ \/ worker.todo = Enter /\ st = worker.st /\ sigs = Done
              \/ worker.todo = Leave /\ st.entry = 0 /\ sigs = Done
              \/ worker.todo = Turn /\ st.entry = 0 /\ sigs = Enter
<1>1. /\ worker \in Workers /\ ctx \in Ctxs /\ ids \in Nat
      /\ worker.st \in Stored /\ ctx.mem \in States /\ worker.todo \in Signals
  BY DEF TypeInv, TypeOK, TaskOK, Workers, Ctxs, Published, Holding, Publishing
<1> DEFINE st == AfterPublish(worker.st, Head(worker.todo))
           sigs == Tail(worker.todo)
<1>2. Proceed(ctx.mem, st, sigs)
  BY DEF Published
<1>3. /\ [worker.st EXCEPT !.entry = 0] \in Stored
      /\ [worker.st EXCEPT !.entry = 0].state = worker.st.state
      /\ [worker.st EXCEPT !.entry = 0].entry = 0
  BY <1>1, StoredFields
<1>4. /\ st \in Stored /\ st.state = worker.st.state
      /\ \/ worker.todo = Enter /\ st = worker.st /\ sigs = Done
         \/ worker.todo = Leave /\ st.entry = 0 /\ sigs = Done
         \/ worker.todo = Turn /\ st.entry = 0 /\ sigs = Enter
  BY <1>1, <1>3, SignalFacts DEF AfterPublish, Signals
<1> HIDE DEF st, sigs
<1>5. \E new \in Stored : Proceeds(ctx.mem, st, sigs, new)
  BY <1>1, <1>2, <1>4, ProceedFacts DEF Signals
<1>6. QED
  BY <1>4, <1>5

-----------------------------------------------------------------------------
\* Types, one part of the state after the other.

LEMMA Bounds ==
  /\ MaxCandles \in Nat /\ MaxEdits \in Nat /\ MaxResets \in Nat /\ MaxFaults \in Nat
  /\ QueueSize \in Nat /\ QueueSize > 0
  BY BoundsAssumption

ControlOK ==
  /\ want \in Targets \cup {Off} /\ goal \in Targets \cup {Off}
  /\ ticks \in TickSets /\ removes \in DeleteRemoved
  /\ edits \in 0 .. MaxEdits /\ now \in 0 .. MaxCandles
  /\ main \in {"wait", "unsubscribe", "delete", "cancel", "save", "load", "subscribe"}
  /\ reset \in {"idle", "swap", "orphan", "pattern"}
  /\ resets \in 0 .. MaxResets /\ faults \in 0 .. MaxFaults

LEMMA ControlType == ControlOK /\ [Next]_vars => ControlOK'
<1> SUFFICES ASSUME ControlOK, [Next]_vars  PROVE ControlOK'
  OBVIOUS
<1> USE DEF ControlOK, quiet, configVars, klineVars, pairVars, mainVars, closeVars, faultVars,
            resetVars, orderVars, ghosts
<1>1. CASE Get \/ Acquire \/ Evaluate \/ StoreOrder \/ Published \/ Saved \/ Ack
  BY <1>1 DEF Get, Acquire, Evaluate, StoreOrder, Published, Saved, Ack
<1>2. CASE Fail
  BY <1>2, Bounds DEF Fail
<1>3. CASE Reconcile \/ Unsubscribe \/ DeleteConsumer \/ CancelWorker \/ SaveRemoved \/ Load
           \/ Subscribe
  BY <1>3 DEF Reconcile, Unsubscribe, DeleteConsumer, CancelWorker, SaveRemoved, Load, Subscribe
<1>4. CASE (\E e \in events : TakeClose(e)) \/ ApplyClose \/ CloseSaved \/ ResetSwap \/ ResetPattern
  BY <1>4 DEF TakeClose, ApplyClose, CloseSaved, ResetSwap, ResetPattern
<1>5. CASE ResetDelete
  BY <1>5, Bounds DEF ResetDelete
<1>6. CASE EditConfig
  BY <1>6, Bounds DEF EditConfig
<1>7. CASE PublishKline
  BY <1>7, Bounds DEF PublishKline
<1>8. CASE \/ (\E e \in 1 .. ids : ClosePosition(e))
           \/ (\E c \in Candles : AckWaitExpires(c)) \/ (\E c \in Candles : Handle(c))
           \/ UNCHANGED vars
  BY <1>8 DEF ClosePosition, AckWaitExpires, Handle, vars
<1>9. CASE Crash
  BY <1>9, Bounds DEF Crash, Stop
<1>10. CASE Exit
  BY <1>10 DEF Exit, Stop
<1>11. QED
  BY <1>1, <1>2, <1>3, <1>4, <1>5, <1>6, <1>7, <1>8, <1>9, <1>10, StepForms

FlagsOK == {consumer, active, fatal, unsaved, raced} \subseteq BOOLEAN

LEMMA FlagsType == FlagsOK /\ [Next]_vars => FlagsOK'
<1> SUFFICES ASSUME FlagsOK, [Next]_vars  PROVE FlagsOK'
  OBVIOUS
<1> USE DEF FlagsOK, quiet, configVars, klineVars, pairVars, mainVars, closeVars, faultVars,
            resetVars, orderVars, ghosts
<1>1. CASE Get \/ Acquire \/ StoreOrder \/ Saved \/ Ack \/ Fail
  BY <1>1 DEF Get, Acquire, StoreOrder, Saved, Ack, Fail, FailRuntime
<1>2. CASE Evaluate \/ Published
  BY <1>2 DEF Evaluate, Published, Proceed
<1>3. CASE Reconcile \/ Unsubscribe \/ DeleteConsumer \/ CancelWorker \/ SaveRemoved \/ Load
           \/ Subscribe
  BY <1>3 DEF Reconcile, Unsubscribe, DeleteConsumer, CancelWorker, SaveRemoved, Load, Subscribe
<1>4. CASE \/ (\E e \in events : TakeClose(e)) \/ ApplyClose \/ CloseSaved
           \/ ResetDelete \/ ResetPattern
  BY <1>4 DEF TakeClose, ApplyClose, CloseSaved, ResetDelete, ResetPattern
<1>5. CASE ResetSwap
  BY <1>5 DEF ResetSwap
<1>6. CASE \/ EditConfig \/ PublishKline \/ (\E e \in 1 .. ids : ClosePosition(e))
           \/ (\E c \in Candles : AckWaitExpires(c)) \/ (\E c \in Candles : Handle(c))
           \/ UNCHANGED vars
  BY <1>6 DEF EditConfig, PublishKline, ClosePosition, AckWaitExpires, Handle, vars
<1>7. CASE Crash \/ Exit
  BY <1>7 DEF Crash, Exit, Stop
<1>8. QED
  BY <1>1, <1>2, <1>3, <1>4, <1>5, <1>6, <1>7, StepForms

MsgsOK == msgs \in [Candles -> {"none", "new", "sent", "again", "acked", "dropped"}]

LEMMA MsgsType == MsgsOK /\ [Next]_vars => MsgsOK'
<1> SUFFICES ASSUME MsgsOK, [Next]_vars  PROVE MsgsOK'
  OBVIOUS
<1> USE DEF MsgsOK, quiet, configVars, klineVars, pairVars, mainVars, closeVars, faultVars,
            resetVars, orderVars, ghosts
<1>1. CASE Get
  BY <1>1 DEF Get
<1>2. CASE Ack
  BY <1>2 DEF Ack
<1>3. CASE Fail
  BY <1>3 DEF Fail
<1>4. CASE DeleteConsumer \/ Subscribe
  BY <1>4 DEF DeleteConsumer, Subscribe
<1>5. CASE CancelWorker
  <2>1. \A c \in Candles : msgs'[c] \in {"again", msgs[c]}
    BY <1>5 DEF CancelWorker
  <2>2. msgs' = [c \in Candles |-> msgs'[c]]
    BY <1>5 DEF CancelWorker
  <2>3. QED
    BY <2>1, <2>2
<1>6. CASE PublishKline
  BY <1>6 DEF PublishKline
<1>7. CASE (\E c \in Candles : AckWaitExpires(c)) \/ (\E c \in Candles : Handle(c))
  BY <1>7 DEF AckWaitExpires, Handle
<1>8. CASE \/ Acquire \/ Evaluate \/ StoreOrder \/ Published \/ Saved
           \/ Reconcile \/ Unsubscribe \/ SaveRemoved \/ Load
           \/ (\E e \in events : TakeClose(e)) \/ ApplyClose \/ CloseSaved
           \/ ResetDelete \/ ResetSwap \/ ResetPattern
           \/ EditConfig \/ (\E e \in 1 .. ids : ClosePosition(e))
           \/ Crash \/ Exit \/ UNCHANGED vars
  BY <1>8 DEF Acquire, Evaluate, StoreOrder, Published, Saved, Reconcile, Unsubscribe,
     SaveRemoved, Load, TakeClose, ApplyClose, CloseSaved, ResetDelete, ResetSwap,
     ResetPattern, EditConfig, ClosePosition, Crash, Exit, Stop, vars
<1>9. QED
  BY <1>1, <1>2, <1>3, <1>4, <1>5, <1>6, <1>7, <1>8, StepForms

QueueOK == queue \in Seq(Candles) /\ Len(queue) <= QueueSize

LEMMA QueueType == QueueOK /\ [Next]_vars => QueueOK'
<1> SUFFICES ASSUME QueueOK, [Next]_vars  PROVE QueueOK'
  OBVIOUS
<1> USE DEF QueueOK, quiet, configVars, klineVars, pairVars, mainVars, closeVars, faultVars,
            resetVars, orderVars, ghosts
<1>1. CASE Get
  BY <1>1, Bounds DEF Get
<1>2. ASSUME NEW c \in Candles, Handle(c)  PROVE QueueOK'
  BY <1>2, Bounds DEF Handle, HasRoom
<1>3. CASE CancelWorker \/ Load \/ Crash \/ Exit
  <2>1. queue' = <<>>
    BY <1>3 DEF CancelWorker, Load, Crash, Exit, Stop
  <2>2. QED
    BY <2>1, Bounds
<1>4. CASE \/ Acquire \/ Evaluate \/ StoreOrder \/ Published \/ Saved \/ Ack \/ Fail
           \/ Reconcile \/ Unsubscribe \/ DeleteConsumer \/ SaveRemoved \/ Subscribe
           \/ (\E e \in events : TakeClose(e)) \/ ApplyClose \/ CloseSaved
           \/ ResetDelete \/ ResetSwap \/ ResetPattern
           \/ EditConfig \/ PublishKline \/ (\E e \in 1 .. ids : ClosePosition(e))
           \/ (\E c \in Candles : AckWaitExpires(c)) \/ UNCHANGED vars
  BY <1>4 DEF Acquire, Evaluate, StoreOrder, Published, Saved, Ack, Fail, Reconcile,
     Unsubscribe, DeleteConsumer, SaveRemoved, Subscribe, TakeClose, ApplyClose, CloseSaved,
     ResetDelete, ResetSwap, ResetPattern, EditConfig, PublishKline, ClosePosition,
     AckWaitExpires, vars
<1>5. QED
  BY <1>1, <1>2, <1>3, <1>4, StepForms

\* What a step may do to the ids generated, the closes and the ghosts.
HistoryOK ==
  /\ ids \in Nat /\ cleared \in Ids
  /\ closed \subseteq Ids /\ events \subseteq closed /\ missed \subseteq closed
  /\ torn \subseteq {"lost", "cancel", "reset"}

LEMMA IdsGrow ==
  ASSUME TypeInv, [Next]_vars
  PROVE  ids' \in Nat /\ ids' >= ids
<1> USE DEF quiet, configVars, klineVars, pairVars, mainVars, closeVars, faultVars,
            resetVars, orderVars, ghosts
<1>1. ids \in Nat
  BY DEF TypeInv, TypeOK
<1>2. CASE Evaluate \/ Published
  <2>1. \E m, st, sigs, new : Proceeds(m, st, sigs, new)
    BY <1>2, EvaluateFacts, PublishedFacts
  <2>2. ids' \in {ids, ids + 1}
    BY <2>1 DEF Proceeds, Arms, Leaves, Keeps, Skips
  <2>3. QED
    BY <1>1, <2>2
<1>3. CASE \/ Get \/ Acquire \/ StoreOrder \/ Saved \/ Ack \/ Fail
           \/ Reconcile \/ Unsubscribe \/ DeleteConsumer \/ CancelWorker \/ SaveRemoved
           \/ Load \/ Subscribe
           \/ (\E e \in events : TakeClose(e)) \/ ApplyClose \/ CloseSaved
           \/ ResetDelete \/ ResetSwap \/ ResetPattern
           \/ EditConfig \/ PublishKline \/ (\E e \in 1 .. ids : ClosePosition(e))
           \/ (\E c \in Candles : AckWaitExpires(c)) \/ (\E c \in Candles : Handle(c))
           \/ Crash \/ Exit \/ UNCHANGED vars
  <2>1. ids' = ids
    BY <1>3 DEF Get, Acquire, StoreOrder, Saved, Ack, Fail, Reconcile, Unsubscribe,
       DeleteConsumer, CancelWorker, SaveRemoved, Load, Subscribe, TakeClose, ApplyClose,
       CloseSaved, ResetDelete, ResetSwap, ResetPattern, EditConfig, PublishKline,
       ClosePosition, AckWaitExpires, Handle, Crash, Exit, Stop, vars
  <2>2. QED
    BY <1>1, <2>1
<1>4. QED
  BY <1>2, <1>3, StepForms

LEMMA HistoryType == TypeInv /\ [Next]_vars => HistoryOK'
<1> SUFFICES ASSUME TypeInv, [Next]_vars  PROVE HistoryOK'
  OBVIOUS
<1> USE DEF HistoryOK, quiet, configVars, klineVars, pairVars, mainVars, closeVars, faultVars,
            resetVars, orderVars, ghosts
<1>1. ids' \in Nat /\ Ids \subseteq Ids' /\ ids \in Ids' /\ 0 \in Ids'
  BY IdsGrow DEF TypeInv, TypeOK, Ids
<1>2. HistoryOK
  BY DEF TypeInv, TypeOK
<1>3. CASE \/ Get \/ Acquire \/ Evaluate \/ StoreOrder \/ Published \/ Saved \/ Ack
           \/ Reconcile \/ Unsubscribe \/ DeleteConsumer \/ SaveRemoved \/ Load \/ Subscribe
           \/ CloseSaved \/ ResetPattern \/ EditConfig \/ PublishKline
           \/ (\E c \in Candles : AckWaitExpires(c)) \/ (\E c \in Candles : Handle(c))
           \/ UNCHANGED vars
  <2>1. cleared' = cleared /\ closed' = closed /\ events' \subseteq events /\ missed' = missed
        /\ torn' = torn
    BY <1>3 DEF Get, Acquire, Evaluate, StoreOrder, Published, Saved, Ack, Reconcile,
       Unsubscribe, DeleteConsumer, SaveRemoved, Load, Subscribe, CloseSaved, ResetPattern,
       EditConfig, PublishKline, AckWaitExpires, Handle, vars
  <2>2. QED
    BY <1>1, <1>2, <2>1
<1>4. CASE (\E e \in events : TakeClose(e)) \/ ApplyClose
  <2>1. cleared' = cleared /\ closed' = closed /\ events' \subseteq events
        /\ missed' \subseteq missed \cup events /\ torn' \subseteq torn \cup {"lost"}
    BY <1>4 DEF TakeClose, ApplyClose
  <2>2. QED
    BY <1>1, <1>2, <2>1
<1>5. CASE Fail \/ CancelWorker \/ ResetDelete \/ ResetSwap \/ Crash \/ Exit
  <2>1. cleared' \in {cleared, ids, 0} /\ closed' = closed /\ events' = events /\ missed' = missed
        /\ torn' \subseteq torn \cup {"lost", "cancel", "reset"}
    BY <1>5 DEF Fail, CancelWorker, ResetDelete, ResetSwap, Crash, Exit, Stop
  <2>2. QED
    BY <1>1, <1>2, <2>1
<1>6. ASSUME NEW e \in 1 .. ids, ClosePosition(e)  PROVE HistoryOK'
  <2>1. e \in Ids
    BY <1>2 DEF Ids
  <2>2. cleared' = cleared /\ closed' = closed \cup {e} /\ events' = events \cup {e}
        /\ missed' = missed /\ torn' = torn
    BY <1>6 DEF ClosePosition
  <2>3. QED
    BY <1>1, <1>2, <2>1, <2>2
<1>7. QED
  BY <1>3, <1>4, <1>5, <1>6, StepForms

LEMMA SeqWider ==
  ASSUME NEW A, NEW B, A \subseteq B, NEW s \in Seq(A)
  PROVE  s \in Seq(B)
<1>1. \A i \in 1 .. Len(s) : s[i] \in B
  OBVIOUS
<1>2. QED
  BY <1>1, SeqDef

Order == [cond : {"ENTRY", "EXIT"}, entry : Ids, candle : Candles]
OrdersOK == orders \in Seq(Order)

LEMMA OrdersType == TypeInv /\ [Next]_vars => OrdersOK'
<1> SUFFICES ASSUME TypeInv, [Next]_vars  PROVE OrdersOK'
  OBVIOUS
<1> USE DEF quiet, configVars, klineVars, pairVars, mainVars, closeVars, faultVars,
            resetVars, orderVars, ghosts
<1>1. Ids \subseteq Ids'
  BY IdsGrow DEF TypeInv, TypeOK, Ids
<1>2. OrdersOK
  BY DEF TypeInv, TypeOK, OrdersOK, Order
<1>3. Order \subseteq Order'
  BY <1>1 DEF Order
<1>4. CASE StoreOrder
  <2>1. ids' = ids /\ Order' = Order
    BY <1>4 DEF StoreOrder, Order, Ids
  <2>2. /\ worker.candle \in Candles /\ worker.todo \in Signals
        /\ worker.st \in Stored /\ worker.st.entry <= ids /\ ids \in Nat
    BY <1>4 DEF StoreOrder, TypeInv, TypeOK, TaskOK, KnownIds, Holding, Publishing
  <2>5. Head(worker.todo) \in {"ENTRY", "EXIT"}
    BY <2>2, SignalFacts DEF Signals
  <2>6. worker.st.entry \in Ids
    BY <2>2 DEF Stored, Ids
  <2>3. [cond |-> Head(worker.todo), entry |-> worker.st.entry, candle |-> worker.candle] \in Order
    BY <2>2, <2>5, <2>6 DEF Order
  <2>4. QED
    BY <1>2, <1>4, <2>1, <2>3 DEF StoreOrder, OrdersOK
<1>5. CASE \/ Get \/ Acquire \/ Evaluate \/ Published \/ Saved \/ Ack \/ Fail
           \/ Reconcile \/ Unsubscribe \/ DeleteConsumer \/ CancelWorker \/ SaveRemoved
           \/ Load \/ Subscribe
           \/ (\E e \in events : TakeClose(e)) \/ ApplyClose \/ CloseSaved
           \/ ResetDelete \/ ResetSwap \/ ResetPattern
           \/ EditConfig \/ PublishKline \/ (\E e \in 1 .. ids : ClosePosition(e))
           \/ (\E c \in Candles : AckWaitExpires(c)) \/ (\E c \in Candles : Handle(c))
           \/ Crash \/ Exit \/ UNCHANGED vars
  <2>1. orders' = orders
    BY <1>5 DEF Get, Acquire, Evaluate, Published, Saved, Ack, Fail, Reconcile, Unsubscribe,
       DeleteConsumer, CancelWorker, SaveRemoved, Load, Subscribe, TakeClose, ApplyClose,
       CloseSaved, ResetDelete, ResetSwap, ResetPattern, EditConfig, PublishKline,
       ClosePosition, AckWaitExpires, Handle, Crash, Exit, Stop, vars
  <2>2. QED
    BY <1>2, <1>3, <2>1, SeqWider DEF OrdersOK
<1>6. QED
  BY <1>4, <1>5, StepForms

\* The strategy, its stored state and Redis, and what the tasks hold.
StateOK ==
  /\ ctx \in Ctxs /\ redis \in Stored \cup {None}
  /\ worker \in Workers
  /\ worker.pc \notin {"none", "idle"} => worker.candle \in Candles
  /\ worker.pc \in Holding => worker.prev \in Stored /\ worker.st \in Stored
  /\ worker.pc \in Publishing => worker.todo \in Signals
  /\ KnownIds

LEMMA StateFacts == TypeInv => StateOK /\ ids \in Nat
  BY DEF TypeInv, TypeOK, TaskOK, StateOK, Ctxs, Workers

LEMMA InitialFacts ==
  /\ Initial \in States /\ [state |-> Initial, entry |-> 0] \in Stored
  /\ [state |-> Initial, entry |-> 0].state = Initial
  /\ [state |-> Initial, entry |-> 0].entry = 0
  /\ ~Initial.pos /\ Initial.last = 0
  BY Bounds DEF Initial, States, Stored

LEMMA NoWorkerFacts ==
  /\ NoWorker \in Workers /\ [NoWorker EXCEPT !.pc = "idle"] \in Workers
  /\ NoWorker.pc = "none" /\ [NoWorker EXCEPT !.pc = "idle"].pc = "idle"
<1>1. <<>> \in Seq({"ENTRY", "EXIT"})
  OBVIOUS
<1>2. QED
  BY <1>1 DEF NoWorker, Workers

\* The worker lets go of the pair.
Rests == worker' \in {NoWorker, [NoWorker EXCEPT !.pc = "idle"]}

LEMMA NoCtxFacts == NoCtx \in Ctxs /\ NoCtx.stored.entry = 0
  BY InitialFacts DEF NoCtx, Ctxs

LEMMA StateProceeds ==
  ASSUME TypeInv, Evaluate \/ Published
  PROVE  StateOK'
<1>1. StateOK /\ ids \in Nat /\ worker.pc \in Holding
  BY StateFacts DEF Evaluate, Published, Holding
<1>2. PICK m \in States, st \in Stored, sigs \in Signals \cup {Done}, new \in Stored :
         Proceeds(m, st, sigs, new) /\ st.entry <= ids
  <2>1. CASE Evaluate
    BY <1>1, <2>1, EvaluateFacts DEF StateOK, KnownIds
  <2>2. CASE Published
    <3>1. PICK st \in Stored, sigs \in {Enter, Done}, new \in Stored :
            /\ Proceeds(ctx.mem, st, sigs, new)
            /\ st = worker.st \/ st.entry = 0
      BY <2>2, PublishedFacts
    <3>2. st.entry <= ids /\ ctx.mem \in States
      BY <1>1, <3>1 DEF StateOK, KnownIds, Ctxs
    <3>3. QED
      BY <3>1, <3>2 DEF Signals
  <2>3. QED
    BY <2>1, <2>2
<1>3. /\ ctx' \in Ctxs /\ worker' \in Workers /\ worker'.st = new /\ worker'.todo = sigs
      /\ worker'.prev = worker.prev /\ worker'.candle = worker.candle
      /\ ctx'.stored \in {new, ctx.stored}
      /\ redis' \in {redis, new}
      /\ worker'.pc \in {"publish", "saved", "ack"}
      /\ worker'.pc = "publish" => sigs \in Signals
  BY <1>2 DEF Proceeds, CtxAt, WorkerAt, Arms, Leaves, Keeps, Skips, Signals, Enter
<1>4. new.entry <= ids' /\ ids <= ids'
  BY <1>1, <1>2 DEF Proceeds, Arms, Leaves, Keeps, Skips
<1>5. ids' \in Nat /\ new.entry \in Nat /\ ctx.stored.entry \in Nat
      /\ (redis # None => redis.entry \in Nat)
  <2>1. ids' \in Nat
    BY <1>1, <1>2 DEF Proceeds, Arms, Leaves, Keeps, Skips
  <2>2. QED
    BY <1>1, <2>1 DEF StateOK, Ctxs, Stored
<1>6. KnownIds'
  <2>1. ctx'.stored.entry <= ids'
    BY <1>1, <1>3, <1>4, <1>5 DEF StateOK, KnownIds
  <2>2. redis' # None => redis'.entry <= ids'
    BY <1>1, <1>3, <1>4, <1>5 DEF StateOK, KnownIds
  <2>3. QED
    BY <1>3, <1>4, <2>1, <2>2 DEF KnownIds
<1>7. QED
  BY <1>1, <1>3, <1>6 DEF StateOK, Holding, Publishing

LEMMA CtxSet ==
  ASSUME NEW c \in Ctxs
  PROVE  /\ \A st \in Stored : /\ [c EXCEPT !.stored = st] \in Ctxs
                              /\ [c EXCEPT !.stored = st].stored = st
                              /\ [c EXCEPT !.stored = st].mem = c.mem
                              /\ [c EXCEPT !.stored = st].bytes = c.bytes
         /\ \A m \in States : /\ [c EXCEPT !.mem = m] \in Ctxs
                             /\ [c EXCEPT !.mem = m].mem = m
                             /\ [c EXCEPT !.mem = m].stored = c.stored
                             /\ [c EXCEPT !.mem = m].bytes = c.bytes
         /\ \A m \in States : /\ [c EXCEPT !.bytes = m] \in Ctxs
                             /\ [c EXCEPT !.bytes = m].bytes = m
                             /\ [c EXCEPT !.bytes = m].stored = c.stored
                             /\ [c EXCEPT !.bytes = m].mem = c.mem
         /\ c.stored \in Stored /\ c.mem \in States /\ c.bytes \in States
  BY DEF Ctxs

LEMMA StateType == TypeInv /\ [Next]_vars => StateOK'
<1> SUFFICES ASSUME TypeInv, [Next]_vars  PROVE StateOK'
  OBVIOUS
<1> USE DEF quiet, configVars, klineVars, pairVars, mainVars, closeVars, faultVars,
            resetVars, orderVars, ghosts
<1>1. StateOK /\ ids \in Nat
  BY StateFacts
<1>2. ctx \in Ctxs /\ worker \in Workers /\ ctx.stored \in Stored /\ ctx.mem \in States
  BY <1>1, CtxSet DEF StateOK
<1>3. CASE Evaluate \/ Published
  BY <1>3, StateProceeds
<1>4. CASE UNCHANGED <<ctx, worker, redis, ids>>
  BY <1>1, <1>4 DEF StateOK, KnownIds
<1>5. CASE UNCHANGED <<ctx, redis, ids>> /\ Rests
  BY <1>1, <1>5, NoWorkerFacts DEF StateOK, KnownIds, Rests, Holding, Publishing
<1>6. CASE Get
  <2>1. CASE active
    <3>1. Head(queue) \in Candles
      BY <1>6 DEF Get, TypeInv, TypeOK
    <3>2. worker' = [worker EXCEPT !.pc = "lock", !.candle = Head(queue)]
      BY <1>6, <2>1 DEF Get
    <3>3. worker' \in Workers /\ worker'.pc = "lock" /\ worker'.candle \in Candles
      BY <1>2, <3>1, <3>2 DEF Workers
    <3>4. UNCHANGED <<ctx, redis, ids>>
      BY <1>6 DEF Get
    <3>5. QED
      BY <1>1, <3>3, <3>4 DEF StateOK, KnownIds, Holding, Publishing
  <2>2. CASE ~active
    BY <1>5, <1>6, <2>2 DEF Get, Rests
  <2>3. QED
    BY <2>1, <2>2
<1>7. CASE Acquire
  <2>1. /\ worker' = [worker EXCEPT !.pc = "evaluate", !.prev = ctx.stored, !.st = ctx.stored,
                                   !.own = TRUE]
        /\ UNCHANGED <<ctx, redis, ids>> /\ worker.pc = "lock"
    BY <1>7 DEF Acquire
  <2>2. /\ worker' \in Workers /\ worker'.pc = "evaluate" /\ worker'.candle = worker.candle
        /\ worker'.prev = ctx.stored /\ worker'.st = ctx.stored
    BY <1>2, <2>1 DEF Workers
  <2>3. QED
    BY <1>1, <1>2, <2>1, <2>2 DEF StateOK, KnownIds, Holding, Publishing
<1>8. CASE StoreOrder
  <2>1. /\ worker' = [worker EXCEPT !.pc = "published"]
        /\ UNCHANGED <<ctx, redis, ids>> /\ worker.pc = "publish"
    BY <1>8 DEF StoreOrder
  <2>2. /\ worker' \in Workers /\ worker'.pc = "published" /\ worker'.candle = worker.candle
        /\ worker'.prev = worker.prev /\ worker'.st = worker.st /\ worker'.todo = worker.todo
    BY <1>2, <2>1 DEF Workers
  <2>3. QED
    BY <1>1, <2>1, <2>2 DEF StateOK, KnownIds, Holding, Publishing
<1>9. CASE Saved
  <2>1. /\ worker' = [worker EXCEPT !.pc = "ack"] /\ worker.pc = "saved"
        /\ UNCHANGED <<redis, ids>> /\ ctx' = [ctx EXCEPT !.bytes = worker.st.state]
    BY <1>9 DEF Saved
  <2>2. /\ worker' \in Workers /\ worker'.pc = "ack" /\ worker'.candle = worker.candle
    BY <1>2, <2>1 DEF Workers
  <2>3. worker.st.state \in States
    BY <1>1, <2>1, StoredFields DEF StateOK, Holding
  <2>4. ctx' \in Ctxs /\ ctx'.stored = ctx.stored
    BY <1>2, <2>1, <2>3, CtxSet
  <2>5. QED
    BY <1>1, <2>1, <2>2, <2>4 DEF StateOK, KnownIds, Holding, Publishing
<1>10. CASE Fail
  <2>1. /\ worker' = NoWorker /\ UNCHANGED <<redis, ids>>
        /\ worker.pc \in Holding
        /\ ctx' = ctx \/ ctx' = [ctx EXCEPT !.mem = worker.prev.state]
    BY <1>10 DEF Fail, Holding
  <2>2. worker.prev.state \in States
    BY <1>1, <2>1, StoredFields DEF StateOK
  <2>3. ctx' \in Ctxs /\ ctx'.stored = ctx.stored
    <3>1. /\ [ctx EXCEPT !.mem = worker.prev.state] \in Ctxs
          /\ [ctx EXCEPT !.mem = worker.prev.state].stored = ctx.stored
      BY <1>2, <2>2, CtxSet
    <3>2. QED
      BY <1>2, <2>1, <3>1
  <2>4. QED
    BY <1>1, <2>1, <2>3, NoWorkerFacts DEF StateOK, KnownIds, Holding, Publishing
<1>11. CASE SaveRemoved
  <2> DEFINE kept == [ctx.stored EXCEPT !.state = ctx.mem]
  <2>1. /\ ctx' = [ctx EXCEPT !.stored = kept] /\ UNCHANGED <<worker, ids>>
        /\ redis' \in {kept, None}
    BY <1>11 DEF SaveRemoved
  <2>2. kept \in Stored /\ kept.entry = ctx.stored.entry
    BY <1>2, StoredFields
  <2> HIDE DEF kept
  <2>3. ctx' \in Ctxs /\ ctx'.stored = kept
    BY <1>2, <2>1, <2>2, CtxSet
  <2>4. QED
    BY <1>1, <2>1, <2>2, <2>3 DEF StateOK, KnownIds
<1>12. CASE Load
  <2>1. PICK st : /\ redis' = st /\ UNCHANGED <<worker, ids>>
                  /\ ctx' = [target |-> goal, mem |-> st.state, stored |-> st, bytes |-> st.state]
                  /\ \/ redis # None /\ st = redis
                     \/ \E l \in 0 .. now : st = [state |-> [Initial EXCEPT !.last = l], entry |-> 0]
    BY <1>12 DEF Load
  <2>2. st \in Stored /\ st.entry <= ids
    <3>1. CASE redis # None /\ st = redis
      BY <1>1, <3>1 DEF StateOK, KnownIds
    <3>2. ASSUME NEW l \in 0 .. now, st = [state |-> [Initial EXCEPT !.last = l], entry |-> 0]
          PROVE  st \in Stored /\ st.entry <= ids
      <4>1. l \in 0 .. MaxCandles
        BY Bounds DEF TypeInv, TypeOK
      <4>2. [Initial EXCEPT !.last = l] \in States
        BY <4>1, InitialFacts DEF States
      <4>3. QED
        BY <1>1, <3>2, <4>2 DEF Stored
    <3>3. QED
      BY <2>1, <3>1, <3>2
  <2>3. ctx' \in Ctxs /\ ctx'.stored = st
    <3>1. goal \in Targets \cup {Off}
      BY DEF TypeInv, TypeOK
    <3>2. QED
      BY <2>1, <2>2, <3>1, StoredFields DEF Ctxs
  <2>4. QED
    BY <1>1, <2>1, <2>2, <2>3 DEF StateOK, KnownIds
<1>13. CASE ApplyClose
  <2> DEFINE flat == [state |-> on_external_close(ctx.stored.state), entry |-> 0]
  <2>1. \/ UNCHANGED <<ctx, worker, redis, ids>>
        \/ /\ ctx' = [ctx EXCEPT !.mem = flat.state, !.stored = flat]
           /\ redis' = flat /\ UNCHANGED <<worker, ids>>
    BY <1>13 DEF ApplyClose
  <2>2. flat \in Stored /\ flat.entry = 0
    BY <1>2, StoredFields DEF Stored, States, on_external_close
  <2> HIDE DEF flat
  <2>3. ctx' = [ctx EXCEPT !.mem = flat.state, !.stored = flat] => ctx' \in Ctxs /\ ctx'.stored = flat
    BY <1>2, <2>2, StoredFields DEF Ctxs
  <2>4. QED
    BY <1>1, <1>4, <2>1, <2>2, <2>3 DEF StateOK, KnownIds
<1>14. CASE CloseSaved
  <2>1. /\ \/ ctx' = ctx
           \/ closer.pc = "saved" /\ ctx' = [ctx EXCEPT !.bytes = closer.st.state]
        /\ UNCHANGED <<worker, redis, ids>>
    BY <1>14 DEF CloseSaved
  <2>2. closer.pc = "saved" => closer.st.state \in States
    BY StoredFields DEF TypeInv, TaskOK
  <2>3. ctx' \in Ctxs /\ ctx'.stored = ctx.stored
    <3>1. closer.pc = "saved" => /\ [ctx EXCEPT !.bytes = closer.st.state] \in Ctxs
                                 /\ [ctx EXCEPT !.bytes = closer.st.state].stored = ctx.stored
      BY <1>2, <2>2, CtxSet
    <3>2. QED
      BY <1>2, <2>1, <3>1
  <2>4. QED
    BY <1>1, <2>1, <2>3 DEF StateOK, KnownIds
<1>15. CASE ResetDelete \/ ResetPattern
  <2>1. redis' \in {redis, None} /\ UNCHANGED <<ctx, worker, ids>>
    BY <1>15 DEF ResetDelete, ResetPattern
  <2>2. QED
    BY <1>1, <2>1 DEF StateOK, KnownIds
<1>16. CASE ResetSwap
  <2>1. /\ UNCHANGED <<redis, ids>>
        /\ \/ UNCHANGED <<ctx, worker>>
           \/ ctx' = ResetCtx(ctx) /\ worker' = [worker EXCEPT !.own = FALSE]
    BY <1>16 DEF ResetSwap
  <2>2. /\ [worker EXCEPT !.own = FALSE] \in Workers
        /\ [worker EXCEPT !.own = FALSE].pc = worker.pc
        /\ [worker EXCEPT !.own = FALSE].candle = worker.candle
        /\ [worker EXCEPT !.own = FALSE].prev = worker.prev
        /\ [worker EXCEPT !.own = FALSE].st = worker.st
        /\ [worker EXCEPT !.own = FALSE].todo = worker.todo
    BY <1>2 DEF Workers
  <2>3. ResetCtx(ctx) \in Ctxs /\ ResetCtx(ctx).stored.entry = 0
    BY <1>2, InitialFacts DEF Ctxs, ResetCtx
  <2>4. CASE ctx' = ResetCtx(ctx) /\ worker' = [worker EXCEPT !.own = FALSE]
    <3>1. /\ worker' \in Workers /\ worker'.pc = worker.pc /\ worker'.candle = worker.candle
          /\ worker'.prev = worker.prev /\ worker'.st = worker.st /\ worker'.todo = worker.todo
          /\ ctx' \in Ctxs /\ ctx'.stored.entry = 0
      BY <2>2, <2>3, <2>4
    <3>2. QED
      BY <1>1, <2>1, <3>1 DEF StateOK, KnownIds
  <2>5. QED
    BY <1>4, <2>1, <2>4
<1>17. CASE Crash \/ Exit
  <2>1. ctx' = NoCtx /\ worker' = NoWorker /\ UNCHANGED <<redis, ids>>
    BY <1>17 DEF Crash, Exit, Stop
  <2>2. QED
    BY <1>1, <2>1, NoCtxFacts, NoWorkerFacts DEF StateOK, KnownIds, Holding, Publishing
<1>18. CASE Ack \/ CancelWorker \/ Subscribe
  <2>1. UNCHANGED <<ctx, redis, ids>> /\ Rests
    BY <1>18 DEF Ack, CancelWorker, Subscribe, Rests
  <2>2. QED
    BY <1>5, <2>1
<1>19. CASE \/ Reconcile \/ Unsubscribe \/ DeleteConsumer \/ (\E e \in events : TakeClose(e))
            \/ EditConfig \/ PublishKline \/ (\E e \in 1 .. ids : ClosePosition(e))
            \/ (\E c \in Candles : AckWaitExpires(c)) \/ (\E c \in Candles : Handle(c))
            \/ UNCHANGED vars
  <2>1. UNCHANGED <<ctx, worker, redis, ids>>
    BY <1>19 DEF Reconcile, Unsubscribe, DeleteConsumer, TakeClose, EditConfig, PublishKline,
       ClosePosition, AckWaitExpires, Handle, vars
  <2>2. QED
    BY <1>4, <2>1
<1>20. QED
  BY <1>3, <1>6, <1>7, <1>8, <1>9, <1>10, <1>11, <1>12, <1>13, <1>14, <1>15, <1>16, <1>17,
     <1>18, <1>19, StepForms

\* The task that handles position_closed events.
Closers == [pc : {"idle", "lock", "saved", "orphan"}, entry : Ids, st : Stored \cup {None}]
CloserOK ==
  /\ closer \in Closers
  /\ closer.pc = "saved" => closer.st \in Stored
  /\ closer.pc # "idle" => closer.entry \in closed

LEMMA CloserType == TypeInv /\ [Next]_vars => CloserOK'
<1> SUFFICES ASSUME TypeInv, [Next]_vars  PROVE CloserOK'
  OBVIOUS
<1> USE DEF quiet, configVars, klineVars, pairVars, mainVars, closeVars, faultVars,
            resetVars, orderVars, ghosts
<1>1. Ids \subseteq Ids' /\ 0 \in Ids
  BY IdsGrow DEF TypeInv, TypeOK, Ids
<1>2. CloserOK /\ closed \subseteq Ids /\ events \subseteq closed
  BY DEF TypeInv, TypeOK, TaskOK, CloserOK, Closers
<1>3. /\ NoCloser.pc = "idle" /\ NoCloser \in Closers'
  BY <1>1 DEF NoCloser, Closers
<1>4. CASE closer' = closer /\ closed \subseteq closed'
  BY <1>1, <1>2, <1>4 DEF CloserOK, Closers
<1>5. CASE closer' = NoCloser
  BY <1>3, <1>5 DEF CloserOK
<1>6. ASSUME NEW e \in events, TakeClose(e)  PROVE CloserOK'
  <2>1. CASE active
    <3>1. closer' = [closer EXCEPT !.pc = "lock", !.entry = e] /\ closed' = closed /\ e \in Ids'
      BY <1>1, <1>2, <1>6, <2>1 DEF TakeClose
    <3>2. QED
      BY <1>1, <1>2, <3>1 DEF CloserOK, Closers
  <2>2. CASE ~active
    BY <1>4, <1>6, <2>2 DEF TakeClose
  <2>3. QED
    BY <2>1, <2>2
<1>7. CASE ApplyClose
  <2> DEFINE flat == [state |-> on_external_close(ctx.stored.state), entry |-> 0]
  <2>1. flat \in Stored
    <3>1. ctx.stored.state \in States
      BY StateFacts, CtxSet, StoredFields DEF StateOK
    <3>2. QED
      BY <3>1 DEF Stored, States, on_external_close
  <2> HIDE DEF flat
  <2>2. \/ closer' = NoCloser
        \/ closer' = [closer EXCEPT !.pc = "saved", !.st = flat] /\ closed' = closed /\ closer.pc = "lock"
    BY <1>7 DEF ApplyClose, flat
  <2>3. QED
    BY <1>1, <1>2, <1>5, <2>1, <2>2 DEF CloserOK, Closers
<1>8. CASE Load
  <2>1. /\ closed' = closed
        /\ closer' = IF closer.pc = "saved" THEN [closer EXCEPT !.pc = "orphan"] ELSE closer
    BY Zenon, <1>8 DEF Load
  <2>2. CASE closer.pc = "saved"
    BY <1>1, <1>2, <2>1, <2>2 DEF CloserOK, Closers
  <2>3. QED
    BY <1>4, <2>1, <2>2
<1>9. CASE CloseSaved \/ Crash \/ Exit
  BY <1>5, <1>9 DEF CloseSaved, Crash, Exit, Stop
<1>10. CASE \/ Get \/ Acquire \/ Evaluate \/ StoreOrder \/ Published \/ Saved \/ Ack \/ Fail
            \/ Reconcile \/ Unsubscribe \/ DeleteConsumer \/ CancelWorker \/ SaveRemoved \/ Subscribe
            \/ ResetDelete \/ ResetSwap \/ ResetPattern
            \/ EditConfig \/ PublishKline \/ (\E e \in 1 .. ids : ClosePosition(e))
            \/ (\E c \in Candles : AckWaitExpires(c)) \/ (\E c \in Candles : Handle(c))
            \/ UNCHANGED vars
  <2>1. closer' = closer /\ closed \subseteq closed'
    BY <1>10 DEF Get, Acquire, Evaluate, StoreOrder, Published, Saved, Ack, Fail, Reconcile,
       Unsubscribe, DeleteConsumer, CancelWorker, SaveRemoved, Subscribe, ResetDelete, ResetSwap,
       ResetPattern, EditConfig, PublishKline, ClosePosition, AckWaitExpires, Handle, vars
  <2>2. QED
    BY <1>4, <2>1
<1>11. QED
  BY <1>6, <1>7, <1>8, <1>9, <1>10, StepForms

LEMMA ShapeStep == TypeInv /\ [Next]_vars => Shape'
<1> SUFFICES ASSUME TypeInv, [Next]_vars  PROVE Shape'
  OBVIOUS
<1> USE DEF quiet, configVars, klineVars, pairVars, mainVars, closeVars, faultVars,
            resetVars, orderVars, ghosts
<1>1. Shape /\ worker \in Workers /\ closer \in Closers
  BY StateFacts DEF TypeInv, TypeOK, StateOK, Closers
<1>2. CASE UNCHANGED <<active, main, worker, closer, fatal>>
  BY <1>1, <1>2 DEF Shape, Live
<1>3. CASE Get
  BY <1>1, <1>3, NoWorkerFacts DEF Get, Shape, Live, Holding, Workers
<1>4. CASE Acquire
  BY <1>1, <1>4 DEF Acquire, Shape, Live, Holding, Workers, Locked
<1>5. CASE Evaluate \/ Published
  <2>1. worker'.pc \in {"publish", "saved", "ack"} /\ worker.pc \in {"evaluate", "published"}
    <3>1. \E m, st, sigs, new : Proceeds(m, st, sigs, new)
      BY <1>5, EvaluateFacts, PublishedFacts
    <3>2. QED
      BY <1>5, <3>1 DEF Proceeds, Arms, Leaves, Keeps, Skips, Evaluate, Published
  <2>2. UNCHANGED <<active, main, closer, fatal>>
    BY <1>5 DEF Evaluate, Published
  <2>3. QED
    BY <1>1, <2>1, <2>2 DEF Shape, Live, Holding
<1>6. CASE StoreOrder \/ Saved
  BY <1>1, <1>6 DEF StoreOrder, Saved, Shape, Live, Holding, Workers
<1>7. CASE Ack
  BY <1>1, <1>7, NoWorkerFacts DEF Ack, Shape, Live, Holding
<1>8. CASE Fail
  BY <1>1, <1>8, NoWorkerFacts DEF Fail, FailRuntime, Shape, Live, Holding
<1>9. CASE Reconcile
  BY <1>1, <1>9 DEF Reconcile, Shape, Live, Holding, Changed
<1>10. CASE Unsubscribe \/ DeleteConsumer
  BY <1>1, <1>10 DEF Unsubscribe, DeleteConsumer, Shape, Live, Holding
<1>11. CASE CancelWorker
  BY <1>1, <1>11, NoWorkerFacts DEF CancelWorker, Shape, Live, Holding
<1>12. CASE SaveRemoved
  BY <1>1, <1>12 DEF SaveRemoved, Shape, Live, Holding
<1>13. CASE Load
  BY <1>1, <1>13 DEF Load, Shape, Live, Holding, Closers
<1>14. CASE Subscribe
  BY <1>1, <1>14, NoWorkerFacts DEF Subscribe, Shape, Live, Holding
<1>15. ASSUME NEW e \in events, TakeClose(e)  PROVE Shape'
  BY <1>1, <1>15 DEF TakeClose, Shape, Live, Holding, Closers
<1>16. CASE ApplyClose
  BY <1>1, <1>16 DEF ApplyClose, Shape, Live, Holding, Closers, NoCloser, Locked
<1>17. CASE CloseSaved
  BY <1>1, <1>17 DEF CloseSaved, Shape, Live, Holding, NoCloser
<1>18. CASE ResetSwap
  BY <1>1, <1>18 DEF ResetSwap, Shape, Live, Holding, Workers
<1>19. CASE Crash \/ Exit
  BY <1>19, NoWorkerFacts DEF Crash, Exit, Stop, Shape, Live, Holding, NoCloser
<1>20. CASE \/ ResetDelete \/ ResetPattern \/ EditConfig \/ PublishKline
            \/ (\E e \in 1 .. ids : ClosePosition(e))
            \/ (\E c \in Candles : AckWaitExpires(c)) \/ (\E c \in Candles : Handle(c))
            \/ UNCHANGED vars
  <2>1. UNCHANGED <<active, main, worker, closer, fatal>>
    BY <1>20 DEF ResetDelete, ResetPattern, EditConfig, PublishKline, ClosePosition,
       AckWaitExpires, Handle, vars
  <2>2. QED
    BY <1>2, <2>1
<1>21. QED
  BY <1>3, <1>4, <1>5, <1>6, <1>7, <1>8, <1>9, <1>10, <1>11, <1>12, <1>13, <1>14, <1>15, <1>16,
     <1>17, <1>18, <1>19, <1>20, StepForms

LEMMA TypeInit == Init => TypeInv
<1> SUFFICES ASSUME Init  PROVE TypeInv
  OBVIOUS
<1> USE DEF Init
<1>1. TypeOK
  <2>1. ids \in Nat /\ cleared \in Ids
    BY DEF Ids
  <2>2. ctx \in [target : Targets \cup {Off}, mem : States, stored : Stored, bytes : States]
    BY NoCtxFacts DEF Ctxs
  <2>3. worker \in [pc : {"none", "idle", "lock", "evaluate", "publish", "published", "saved", "ack"},
                 candle : Candles \cup {0}, prev : Stored \cup {None}, own : BOOLEAN,
                 st : Stored \cup {None}, todo : Seq({"ENTRY", "EXIT"})]
    BY NoWorkerFacts DEF Workers
  <2>4. closer \in [pc : {"idle", "lock", "saved", "orphan"}, entry : Ids, st : Stored \cup {None}]
    BY DEF NoCloser, Ids
  <2>5. queue \in Seq(Candles) /\ Len(queue) <= QueueSize
    BY Bounds
  <2>6. orders \in Seq([cond : {"ENTRY", "EXIT"}, entry : Ids, candle : Candles])
    OBVIOUS
  <2>7. MsgsOK /\ FlagsOK
    BY DEF MsgsOK, FlagsOK
  <2>8. 0 \in 0 .. MaxCandles
    BY Bounds
  <2>9. QED
    BY <2>1, <2>2, <2>3, <2>4, <2>5, <2>6, <2>7, <2>8 DEF TypeOK, MsgsOK, FlagsOK
<1>2. QED
  BY <1>1, NoCtxFacts, NoWorkerFacts
     DEF TypeInv, TaskOK, Shape, KnownIds, Holding, Publishing, NoCloser

LEMMA TypeStep == TypeInv /\ [Next]_vars => TypeInv'
<1> SUFFICES ASSUME TypeInv, [Next]_vars  PROVE TypeInv'
  OBVIOUS
<1>1. ControlOK /\ FlagsOK /\ MsgsOK /\ QueueOK
  BY DEF TypeInv, TypeOK, ControlOK, FlagsOK, MsgsOK, QueueOK
<1>2. ControlOK' /\ FlagsOK' /\ MsgsOK' /\ QueueOK'
  BY <1>1, ControlType, FlagsType, MsgsType, QueueType
<1>3. HistoryOK' /\ OrdersOK' /\ StateOK' /\ CloserOK' /\ Shape'
  BY HistoryType, OrdersType, StateType, CloserType, ShapeStep
<1>4. TypeOK'
  BY <1>2, <1>3 DEF TypeOK, ControlOK, FlagsOK, MsgsOK, QueueOK, HistoryOK, OrdersOK, Order,
     StateOK, CloserOK, Ctxs, Workers, Closers
<1>5. QED
  BY <1>3, <1>4 DEF TypeInv, TaskOK, StateOK, CloserOK

LEMMA TypeAlways == Spec => []TypeInv
  BY TypeInit, TypeStep, PTL DEF Spec

\* The runtime's variables keep their types: the queue stays within
\* message_queue_size, every order has an entry_order_id that was generated,
\* and a worker that works has a candle and a state to fall back on.
THEOREM RuntimeTypes == Spec => []TypeOK
<1>1. TypeInv => TypeOK
  BY DEF TypeInv
<1>2. QED
  BY <1>1, TypeAlways, PTL

-----------------------------------------------------------------------------
\* Effects of the actions on the pair, field by field.

LEMMA AcquireEffect ==
  ASSUME TypeInv, Acquire
  PROVE  /\ worker.pc = "lock" /\ closer.pc # "saved"
         /\ worker'.pc = "evaluate" /\ worker'.candle = worker.candle
         /\ worker'.prev = ctx.stored /\ worker'.st = ctx.stored /\ worker'.own
         /\ UNCHANGED <<removes, ticks, active, main, ctx, closer, reset, redis, orders, ids, closed,
                        events, fatal, unsaved, missed, torn, cleared, raced, msgs>>
<1>1. worker \in Workers
  BY StateFacts DEF StateOK
<1>2. QED
  BY <1>1 DEF Acquire, Locked, Workers, quiet, configVars, klineVars, pairVars, mainVars,
     closeVars, faultVars, resetVars, orderVars, ghosts

LEMMA ProceedEffect ==
  ASSUME Evaluate \/ Published
  PROVE  UNCHANGED <<removes, ticks, active, main, closer, reset, orders, closed, events, fatal,
                     missed, torn, cleared, raced, msgs>>
  BY DEF Evaluate, Published, quiet, configVars, klineVars, mainVars, closeVars, faultVars,
     resetVars

LEMMA StoreEffect ==
  ASSUME TypeInv, StoreOrder
  PROVE  /\ worker.pc = "publish" /\ worker'.pc = "published" /\ worker'.candle = worker.candle
         /\ worker'.prev = worker.prev /\ worker'.st = worker.st /\ worker'.own = worker.own
         /\ worker'.todo = worker.todo
         /\ orders' = Append(orders, [cond |-> Head(worker.todo), entry |-> worker.st.entry,
                                     candle |-> worker.candle])
         /\ unsaved' = TRUE
         /\ UNCHANGED <<removes, ticks, active, main, ctx, closer, reset, redis, ids, closed,
                        events, fatal, missed, torn, cleared, raced, msgs>>
<1>1. worker \in Workers
  BY StateFacts DEF StateOK
<1>2. QED
  BY <1>1 DEF StoreOrder, Workers, quiet, configVars, klineVars, pairVars, mainVars,
     closeVars, faultVars, resetVars, orderVars, ghosts

LEMMA SavedEffect ==
  ASSUME TypeInv, Saved
  PROVE  /\ worker.pc = "saved" /\ worker'.pc = "ack" /\ worker'.candle = worker.candle
         /\ ctx'.mem = ctx.mem /\ ctx'.stored = ctx.stored /\ ctx'.bytes = worker.st.state
         /\ UNCHANGED <<removes, ticks, active, main, closer, reset, redis, orders, ids, closed,
                        events, fatal, unsaved, missed, torn, cleared, raced, msgs>>
<1>1. worker \in Workers /\ ctx \in Ctxs
  BY StateFacts DEF StateOK
<1>2. QED
  BY <1>1 DEF Saved, Workers, Ctxs, quiet, configVars, klineVars, pairVars, mainVars,
     closeVars, faultVars, resetVars, orderVars, ghosts

\* A worker ends or waits for the next candle.
LEMMA RestEffect ==
  ASSUME TypeInv, Get \/ Ack
  PROVE  /\ worker'.pc \in {"none", "idle", "lock"} /\ worker.pc \in {"idle", "ack"}
         /\ worker'.pc # "none" => active
         /\ worker'.pc = "none" => ~active
         /\ UNCHANGED <<removes, ticks, active, main, ctx, closer, reset, redis, orders, ids, closed,
                        events, fatal, unsaved, missed, torn, cleared, raced>>
<1>1. worker \in Workers
  BY StateFacts DEF StateOK
<1>2. QED
  BY <1>1, NoWorkerFacts DEF Get, Ack, Workers, quiet, configVars, klineVars, pairVars, mainVars,
     closeVars, faultVars, resetVars, orderVars, ghosts

LEMMA FailEffect ==
  ASSUME TypeInv, Fail
  PROVE  /\ worker.pc \in {"publish", "published", "saved"} /\ worker'.pc = "none"
         /\ fatal'
         /\ ctx'.stored = ctx.stored /\ ctx'.bytes = ctx.bytes
         /\ worker.pc = "saved" => ctx'.mem = ctx.mem
         /\ worker.pc # "saved" => ctx'.mem = worker.prev.state
         /\ torn' = IF unsaved THEN torn \cup {"lost"} ELSE torn
         /\ \A c \in Candles : msgs'[c] = "acked" => msgs[c] = "acked"
         /\ UNCHANGED <<removes, ticks, active, main, closer, reset, redis, orders, ids, closed,
                        events, unsaved, missed, cleared, raced>>
<1>1. ctx \in Ctxs /\ msgs \in [Candles -> {"none", "new", "sent", "again", "acked", "dropped"}]
  BY StateFacts DEF StateOK, TypeInv, TypeOK
<1>2. \A c \in Candles : msgs'[c] = "acked" => msgs[c] = "acked"
  BY <1>1 DEF Fail
<1>3. /\ worker.pc = "saved" => ctx' = ctx
      /\ worker.pc # "saved" => ctx' = [ctx EXCEPT !.mem = worker.prev.state]
  BY DEF Fail
<1>4. /\ worker.pc = "saved" => ctx'.mem = ctx.mem
      /\ worker.pc # "saved" => ctx'.mem = worker.prev.state
      /\ ctx'.stored = ctx.stored /\ ctx'.bytes = ctx.bytes
  BY <1>1, <1>3 DEF Ctxs
<1>5. QED
  BY <1>2, <1>4, NoWorkerFacts DEF Fail, FailRuntime, configVars, mainVars, closeVars,
     resetVars, orderVars

\* The main task's steps that leave the pair_ctx alone.
LEMMA MainEffect ==
  ASSUME TypeInv, Reconcile \/ Unsubscribe \/ DeleteConsumer
  PROVE  /\ \/ active /\ ~active' /\ main = "wait" /\ main' = "unsubscribe" /\ ~fatal
            \/ ~active /\ ~active' /\ main = "wait" /\ main' = "load"
            \/ active' = active /\ main = "unsubscribe" /\ main' = "delete"
            \/ active' = active /\ main = "delete" /\ main' = "cancel"
         /\ \A c \in Candles : msgs'[c] = "acked" => msgs[c] = "acked"
         /\ UNCHANGED <<removes, ticks, ctx, worker, closer, reset, redis, orders, ids, closed,
                        events, fatal, unsaved, missed, torn, cleared, raced>>
  BY DEF Reconcile, Unsubscribe, DeleteConsumer, Changed, quiet, configVars, klineVars, pairVars,
     closeVars, faultVars, resetVars, orderVars, ghosts

LEMMA CancelEffect ==
  ASSUME TypeInv, CancelWorker
  PROVE  /\ main = "cancel" /\ main' = "save" /\ worker'.pc = "none" /\ ~active
         /\ torn' = IF worker.pc = "publish" \/ (worker.pc = "published" /\ Len(worker.todo) > 1)
                    THEN torn \cup {"cancel"} ELSE torn
         /\ \A c \in Candles : msgs'[c] = "acked" => msgs[c] = "acked"
         /\ UNCHANGED <<removes, ticks, active, ctx, closer, reset, redis, orders, ids, closed,
                        events, fatal, unsaved, missed, cleared, raced>>
<1>1. \A c \in Candles : msgs'[c] = "acked" => msgs[c] = "acked"
  BY DEF CancelWorker
<1>2. QED
  BY <1>1, NoWorkerFacts DEF CancelWorker, TypeInv, Shape, quiet, configVars,
     closeVars, faultVars, resetVars, orderVars

LEMMA SaveEffect ==
  ASSUME TypeInv, SaveRemoved
  PROVE  \E kept \in Stored :
           /\ kept.state = ctx.mem /\ kept.entry = ctx.stored.entry
           /\ ctx'.stored = kept /\ ctx'.mem = ctx.mem
           /\ removes => redis' = None
           /\ ~removes => redis' = kept
           /\ ~active /\ main = "save" /\ main' \in {"wait", "load"} /\ worker.pc = "none"
           /\ closer.pc # "lock" /\ unsaved' = FALSE
           /\ UNCHANGED <<removes, ticks, active, worker, closer, reset, orders, ids, closed,
                          events, fatal, missed, torn, cleared, raced, msgs>>
<1> DEFINE kept == [ctx.stored EXCEPT !.state = ctx.mem]
<1>1. ctx \in Ctxs /\ ctx.stored \in Stored /\ ctx.mem \in States
  BY StateFacts, CtxSet DEF StateOK
<1>2. kept \in Stored /\ kept.state = ctx.mem /\ kept.entry = ctx.stored.entry
  BY <1>1, StoredFields
<1>3. /\ ctx' = [ctx EXCEPT !.stored = kept] /\ redis' = IF removes THEN None ELSE kept
      /\ main = "save" /\ main' \in {"wait", "load"}
      /\ closer.pc # "lock" /\ unsaved' = FALSE
      /\ UNCHANGED <<removes, ticks, active, worker, closer, reset, orders, ids, closed,
                     events, fatal, missed, torn, cleared, raced, msgs>>
  BY DEF SaveRemoved, quiet, configVars, klineVars, closeVars, faultVars, resetVars, orderVars
<1> HIDE DEF kept
<1>4. ctx'.stored = kept /\ ctx'.mem = ctx.mem
  BY <1>1, <1>2, <1>3, CtxSet
<1>5. ~active /\ worker.pc = "none"
  BY <1>3 DEF TypeInv, Shape
<1>6. QED
  BY <1>2, <1>3, <1>4, <1>5

LEMMA LoadEffect ==
  ASSUME TypeInv, Load
  PROVE  \E st \in Stored :
           /\ redis # None => st = redis
           /\ redis = None => st.entry = 0 /\ ~st.state.pos
           /\ redis' = st /\ ctx'.stored = st /\ ctx'.mem = st.state /\ ctx'.bytes = st.state
           /\ ~active /\ active' /\ main = "load" /\ main' = "subscribe" /\ worker.pc = "none"
           /\ reset' = IF reset = "swap" THEN "orphan" ELSE reset
           /\ closer.pc # "lock" /\ closer'.entry = closer.entry
           /\ closer'.pc = IF closer.pc = "saved" THEN "orphan" ELSE closer.pc
           /\ UNCHANGED <<removes, ticks, worker, orders, ids, closed,
                          events, fatal, unsaved, missed, torn, cleared, raced, msgs>>
<1>1. PICK st : /\ redis' = st
                /\ ctx' = [target |-> goal, mem |-> st.state, stored |-> st, bytes |-> st.state]
                /\ \/ redis # None /\ st = redis
                   \/ redis = None /\ \E l \in 0 .. now : st = [state |-> [Initial EXCEPT !.last = l], entry |-> 0]
  BY DEF Load
<1>2. /\ st \in Stored
      /\ redis # None => st = redis
      /\ redis = None => st.entry = 0 /\ ~st.state.pos
  <2>1. CASE redis # None
    BY <1>1, <2>1, StateFacts DEF StateOK
  <2>2. ASSUME redis = None, NEW l \in 0 .. now, st = [state |-> [Initial EXCEPT !.last = l], entry |-> 0]
        PROVE  st \in Stored /\ st.entry = 0 /\ ~st.state.pos
    <3>1. l \in 0 .. MaxCandles
      BY Bounds DEF TypeInv, TypeOK
    <3>2. [Initial EXCEPT !.last = l] \in States /\ ~[Initial EXCEPT !.last = l].pos
      BY <3>1, InitialFacts DEF States
    <3>3. QED
      BY <2>2, <3>2 DEF Stored
  <2>3. QED
    BY <1>1, <2>1, <2>2
<1>3. ctx'.stored = st /\ ctx'.mem = st.state /\ ctx'.bytes = st.state
  BY <1>1
<1>4. /\ active' /\ main = "load" /\ main' = "subscribe"
      /\ reset' = IF reset = "swap" THEN "orphan" ELSE reset
      /\ closer' = IF closer.pc = "saved" THEN [closer EXCEPT !.pc = "orphan"] ELSE closer
      /\ UNCHANGED <<removes, ticks, worker, orders, ids, closed,
                     events, fatal, unsaved, missed, torn, cleared, raced, msgs>>
  BY DEF Load, configVars, klineVars, closeVars, faultVars, orderVars, ghosts
<1>5. closer \in Closers
  BY DEF TypeInv, TypeOK, Closers
<1>6. /\ closer'.pc = IF closer.pc = "saved" THEN "orphan" ELSE closer.pc
      /\ closer'.entry = closer.entry
  BY <1>4, <1>5 DEF Closers
<1>7. ~active /\ worker.pc = "none" /\ closer.pc # "lock"
  BY <1>4 DEF TypeInv, Shape, Live
<1>8. QED
  BY <1>1, <1>2, <1>3, <1>4, <1>6, <1>7

LEMMA SubscribeEffect ==
  ASSUME TypeInv, Subscribe
  PROVE  /\ active /\ main = "subscribe" /\ main' = "wait"
         /\ worker.pc = "none" /\ worker'.pc = "idle"
         /\ \A c \in Candles : msgs'[c] = "acked" => msgs[c] = "acked"
         /\ UNCHANGED <<removes, ticks, active, ctx, closer, reset, redis, orders, ids, closed,
                        events, fatal, unsaved, missed, torn, cleared, raced>>
<1>1. \A c \in Candles : msgs'[c] = "acked" => msgs[c] = "acked"
  BY DEF Subscribe
<1>2. QED
  BY <1>1, NoWorkerFacts DEF Subscribe, TypeInv, Shape, quiet, configVars, pairVars,
     closeVars, faultVars, resetVars, orderVars, ghosts

LEMMA TakeEffect ==
  ASSUME TypeInv, NEW e \in events, TakeClose(e)
  PROVE  /\ closer.pc = "idle"
         /\ \/ active /\ closer'.pc = "lock" /\ closer'.entry = e /\ UNCHANGED <<events, missed>>
            \/ ~active /\ closer' = closer /\ events' = events \ {e} /\ missed' = missed \cup {e}
         /\ UNCHANGED <<removes, ticks, active, main, ctx, worker, reset, redis, orders, ids, closed,
                        fatal, unsaved, torn, cleared, raced, msgs>>
<1>1. closer \in Closers
  BY DEF TypeInv, TypeOK, Closers
<1>2. QED
  BY <1>1 DEF TakeClose, Closers, configVars, klineVars, mainVars, pairVars, resetVars,
     orderVars, faultVars

\* The close is another position's, or puts the strategy back without one.
LEMMA ApplyEffect ==
  ASSUME TypeInv, ApplyClose
  PROVE  /\ closer.pc = "lock" /\ worker.pc \notin Holding /\ Live
         /\ UNCHANGED <<removes, ticks, active, main, worker, reset, orders, ids, closed,
                        fatal, unsaved, missed, cleared, raced, msgs>>
         /\ \/ /\ ctx.stored.entry # closer.entry
               /\ events' = events \ {closer.entry} /\ closer'.pc = "idle"
               /\ UNCHANGED <<ctx, redis, torn>>
            \/ \E flat \in Stored :
                 /\ ctx.stored.entry = closer.entry
                 /\ flat.entry = 0 /\ ~flat.state.pos /\ flat.state.last = ctx.stored.state.last
                 /\ ctx'.mem = flat.state /\ ctx'.stored = flat /\ ctx'.bytes = ctx.bytes
                 /\ redis' = flat
                 /\ closer'.pc = "saved" /\ closer'.entry = closer.entry /\ closer'.st = flat
                 /\ torn' = IF unsaved THEN torn \cup {"lost"} ELSE torn
                 /\ events' = events
<1> DEFINE flat == [state |-> on_external_close(ctx.stored.state), entry |-> 0]
<1>1. closer \in Closers /\ ctx \in Ctxs /\ ctx.stored.state \in States
  BY StateFacts, CtxSet, StoredFields DEF StateOK, TypeInv, TypeOK, Closers
<1>2. /\ flat \in Stored /\ flat.entry = 0 /\ ~flat.state.pos
      /\ flat.state.last = ctx.stored.state.last
  BY <1>1 DEF Stored, States, on_external_close
<1>3. /\ closer.pc = "lock" /\ worker.pc \notin Holding
      /\ UNCHANGED <<removes, ticks, active, main, worker, reset, orders, ids, closed,
                     fatal, unsaved, missed, cleared, raced, msgs>>
  BY DEF ApplyClose, Locked, Holding, configVars, klineVars, mainVars, resetVars, orderVars,
     faultVars
<1>4. Live
  BY <1>3 DEF TypeInv, Shape
<1>5. \/ /\ ctx.stored.entry # closer.entry
         /\ events' = events \ {closer.entry} /\ closer' = NoCloser
         /\ UNCHANGED <<ctx, redis, torn>>
      \/ /\ ctx.stored.entry = closer.entry
         /\ ctx' = [ctx EXCEPT !.mem = flat.state, !.stored = flat]
         /\ redis' = flat
         /\ closer' = [closer EXCEPT !.pc = "saved", !.st = flat]
         /\ torn' = IF unsaved THEN torn \cup {"lost"} ELSE torn
         /\ UNCHANGED events
  BY DEF ApplyClose, SkipsClose
<1>6. NoCloser.pc = "idle"
  BY DEF NoCloser
<1> HIDE DEF flat
<1>7. CASE /\ ctx' = [ctx EXCEPT !.mem = flat.state, !.stored = flat]
           /\ closer' = [closer EXCEPT !.pc = "saved", !.st = flat]
  <2>1. /\ ctx'.mem = flat.state /\ ctx'.stored = flat /\ ctx'.bytes = ctx.bytes
        /\ closer'.pc = "saved" /\ closer'.entry = closer.entry /\ closer'.st = flat
    BY <1>1, <1>7 DEF Ctxs, Closers
  <2>2. QED
    BY <1>2, <1>3, <1>4, <1>5, <1>6, <2>1
<1>8. QED
  BY <1>3, <1>4, <1>5, <1>6, <1>7

LEMMA CloseSavedEffect ==
  ASSUME TypeInv, CloseSaved
  PROVE  /\ closer.pc \in {"saved", "orphan"} /\ closer'.pc = "idle"
         /\ ctx'.mem = ctx.mem /\ ctx'.stored = ctx.stored
         /\ closer.pc = "saved" => ctx'.bytes = closer.st.state
         /\ closer.pc # "saved" => ctx'.bytes = ctx.bytes
         /\ events' \in {events, events \ {closer.entry}}
         /\ UNCHANGED <<removes, ticks, active, main, worker, reset, redis, orders, ids, closed,
                        fatal, unsaved, missed, torn, cleared, raced, msgs>>
<1>1. ctx \in Ctxs
  BY StateFacts DEF StateOK
<1>2. QED
  BY <1>1 DEF CloseSaved, NoCloser, Ctxs, configVars, klineVars, mainVars, resetVars, orderVars,
     faultVars, ghosts

LEMMA SwapEffect ==
  ASSUME TypeInv, ResetSwap
  PROVE  /\ reset # "idle" /\ reset' \in {"pattern", "idle"}
         /\ UNCHANGED <<removes, ticks, active, main, closer, redis, orders, ids, closed,
                        events, fatal, unsaved, missed, torn, msgs>>
         /\ worker'.pc = worker.pc /\ worker'.st = worker.st
         /\ raced' = (raced \/ Locked \/ ~active \/ main # "wait")
         /\ \/ ctx' = ctx /\ cleared' = cleared
            \/ ctx'.stored.entry = 0 /\ cleared' = cleared /\ reset' = "idle" /\ ~active
            \/ ctx'.stored.entry = 0 /\ cleared' = ids /\ reset' = "pattern"
<1>1. ctx \in Ctxs /\ worker \in Workers
  BY StateFacts DEF StateOK
<1>2. /\ reset # "idle" /\ reset' \in {"pattern", "idle"}
      /\ UNCHANGED <<removes, ticks, active, main, closer, redis, orders, ids, closed,
                     events, fatal, unsaved, missed, torn, msgs>>
      /\ raced' = (raced \/ Locked \/ ~active \/ main # "wait")
      /\ \/ ctx' = ctx /\ worker' = worker /\ cleared' = cleared
         \/ /\ ctx' = ResetCtx(ctx) /\ worker' = [worker EXCEPT !.own = FALSE]
            /\ \/ reset' = "idle" /\ cleared' = cleared /\ ~active
               \/ reset' = "pattern" /\ cleared' = ids
  BY DEF ResetSwap, configVars, klineVars, mainVars, orderVars, closeVars, faultVars
<1>3. ctx' = ResetCtx(ctx) => ctx'.stored.entry = 0
  BY <1>1, InitialFacts DEF Ctxs, ResetCtx
<1>4. worker'.pc = worker.pc /\ worker'.st = worker.st
  BY <1>1, <1>2 DEF Workers
<1>5. QED
  BY <1>2, <1>3, <1>4

LEMMA ResetEffect ==
  ASSUME ResetDelete \/ ResetPattern
  PROVE  /\ UNCHANGED <<removes, ticks, active, main, ctx, worker, closer, orders, ids, closed,
                        events, fatal, unsaved, missed, cleared, raced, msgs>>
         /\ \/ reset = "idle" /\ reset' = "swap" /\ redis' = None /\ torn' = torn \cup {"reset"}
            \/ reset = "idle" /\ reset' = "pattern" /\ redis' = redis /\ torn' = torn \cup {"reset"}
            \/ reset = "pattern" /\ reset' = "idle" /\ redis' = None /\ torn' = torn
  BY DEF ResetDelete, ResetPattern, configVars, klineVars, mainVars, pairVars, orderVars,
     closeVars, faultVars, ghosts

LEMMA StopEffect ==
  ASSUME Crash \/ Exit
  PROVE  /\ main' = "wait" /\ ~active' /\ ctx' = NoCtx /\ worker' = NoWorker
         /\ closer' = NoCloser /\ reset' = "idle"
         /\ torn' = IF unsaved THEN torn \cup {"lost"} ELSE torn
         /\ ~unsaved' /\ ~fatal'
         /\ cleared' = IF reset = "pattern" THEN 0 ELSE cleared
         /\ UNCHANGED <<removes, ticks, redis, orders, ids, closed, events, missed, raced, msgs>>
  BY DEF Crash, Exit, Stop, configVars, klineVars, orderVars, closeVars

LEMMA ExternalEffect ==
  ASSUME NEW e \in 1 .. ids, ClosePosition(e)
  PROVE  /\ e \notin closed /\ closed' = closed \cup {e} /\ events' = events \cup {e}
         /\ \E i \in DOMAIN orders : orders[i].cond = "ENTRY" /\ orders[i].entry = e
         /\ UNCHANGED <<removes, ticks, active, main, ctx, worker, closer, reset, redis, orders, ids,
                        fatal, unsaved, missed, torn, cleared, raced, msgs>>
  BY DEF ClosePosition, configVars, klineVars, mainVars, pairVars, resetVars, orderVars,
     faultVars, ghosts

-----------------------------------------------------------------------------
\* A reset of a pair at rest clears it.

\* While the server's keys of the strategy are still to be deleted, Redis may
\* hold what was there before, but a pair that runs or is taken out does not
\* read it: it is written anew first.
ClearInv ==
  ~raced =>
    /\ Forgotten(ctx.stored)
    /\ worker.pc \in Holding => Forgotten(worker.st)
    /\ \/ redis = None
       \/ Forgotten(redis)
       \/ reset = "pattern" /\ Live

LEMMA ClearProceeds ==
  ASSUME TypeInv, ClearInv, ~raced, Evaluate \/ Published
  PROVE  ClearInv'
<1>1. /\ UNCHANGED <<cleared, reset, active, main>>
      /\ Forgotten(ctx.stored) /\ Forgotten(worker.st) /\ worker.pc \in Holding
      /\ cleared \in Nat /\ cleared <= ids /\ ids \in Nat
  BY ProceedEffect DEF ClearInv, Evaluate, Published, Holding, TypeInv, TypeOK, Ids
<1>2. PICK m, st, sigs, new : Proceeds(m, st, sigs, new) /\ Forgotten(st)
  <2>1. CASE Evaluate
    BY <1>1, <2>1, EvaluateFacts
  <2>2. CASE Published
    BY <1>1, <2>2, PublishedFacts DEF Forgotten
  <2>3. QED
    BY <2>1, <2>2
<1>3. Forgotten(new)
  BY <1>1, <1>2 DEF Proceeds, Arms, Leaves, Keeps, Skips, Forgotten
<1>4. /\ ctx'.stored \in {ctx.stored, new} /\ worker'.st = new /\ redis' \in {redis, new}
  BY <1>2 DEF Proceeds, CtxAt, WorkerAt, Arms, Leaves, Keeps, Skips
<1>5. QED
  BY <1>1, <1>3, <1>4 DEF ClearInv, Forgotten, Live

LEMMA ClearStep == TypeInv /\ ClearInv /\ [Next]_vars => ClearInv'
<1> SUFFICES ASSUME TypeInv, ClearInv, [Next]_vars, ~raced'  PROVE ClearInv'
  BY DEF ClearInv
<1>1. CASE UNCHANGED <<active, main, ctx, worker, reset, redis, cleared, raced>>
  BY <1>1 DEF ClearInv, Forgotten, Live
<1>2. CASE Get \/ Ack
  BY <1>2, RestEffect DEF ClearInv, Forgotten, Live, Holding
<1>3. CASE Acquire
  BY <1>3, AcquireEffect DEF ClearInv, Forgotten, Live, Holding
<1>4. CASE Evaluate \/ Published
  BY <1>4, ProceedEffect, ClearProceeds DEF ClearInv
<1>5. CASE StoreOrder
  BY <1>5, StoreEffect DEF ClearInv, Forgotten, Live, Holding
<1>6. CASE Saved
  BY <1>6, SavedEffect DEF ClearInv, Forgotten, Live, Holding
<1>7. CASE Fail
  BY <1>7, FailEffect DEF ClearInv, Forgotten, Live, Holding
<1>8. CASE Reconcile \/ Unsubscribe \/ DeleteConsumer
  BY <1>8, MainEffect DEF ClearInv, Forgotten, Live
<1>9. CASE CancelWorker
  BY <1>9, CancelEffect DEF ClearInv, Forgotten, Live, Holding
<1>10. CASE SaveRemoved
  BY <1>10, SaveEffect DEF ClearInv, Forgotten, Live, Holding
<1>11. CASE Load
  <2>1. PICK st \in Stored :
          /\ redis # None => st = redis
          /\ redis = None => st.entry = 0
          /\ redis' = st /\ ctx'.stored = st
          /\ ~active /\ main = "load" /\ worker.pc = "none" /\ worker' = worker
          /\ cleared' = cleared /\ raced' = raced
    BY <1>11, LoadEffect
  <2>2. Forgotten(st)
    BY <2>1 DEF ClearInv, Forgotten, Live
  <2>3. QED
    BY <2>1, <2>2 DEF ClearInv, Forgotten, Holding
<1>12. CASE Subscribe
  BY <1>12, SubscribeEffect DEF ClearInv, Forgotten, Live, Holding
<1>13. ASSUME NEW e \in events, TakeClose(e)  PROVE ClearInv'
  BY <1>1, <1>13, TakeEffect
<1>14. CASE ApplyClose
  <2>1. CASE UNCHANGED <<ctx, redis>>
    BY <1>1, <1>14, <2>1, ApplyEffect
  <2>2. CASE ctx'.stored.entry = 0 /\ redis'.entry = 0
    BY <1>14, <2>2, ApplyEffect DEF ClearInv, Forgotten, Holding
  <2>3. QED
    BY <1>14, <2>1, <2>2, ApplyEffect
<1>15. CASE CloseSaved
  BY <1>15, CloseSavedEffect DEF ClearInv, Forgotten, Live
<1>16. CASE ResetDelete \/ ResetPattern
  BY <1>16, ResetEffect DEF ClearInv, Forgotten, Live
<1>17. CASE ResetSwap
  <2>1. /\ ~raced /\ worker.pc \notin Holding /\ active /\ main = "wait"
        /\ worker'.pc = worker.pc /\ redis' = redis /\ active' = active /\ reset # "idle"
    BY <1>17, SwapEffect DEF Locked, Holding
  <2>2. CASE ctx'.stored.entry = 0 /\ reset' = "pattern"
    BY <2>1, <2>2 DEF ClearInv, Forgotten, Live
  <2>3. CASE ctx' = ctx /\ cleared' = cleared
    <3>1. CASE reset = "pattern"
      BY <1>17, <3>1 DEF ResetSwap
    <3>2. CASE reset # "pattern"
      BY <2>1, <2>3, <3>2 DEF ClearInv, Forgotten
    <3>3. QED
      BY <3>1, <3>2
  <2>4. QED
    BY <1>17, <2>1, <2>2, <2>3, SwapEffect
<1>18. CASE Crash \/ Exit
  <2>1. /\ worker'.pc = "none" /\ ctx'.stored.entry = 0 /\ redis' = redis /\ raced' = raced
        /\ cleared' = IF reset = "pattern" THEN 0 ELSE cleared
    BY <1>18, StopEffect, NoWorkerFacts, NoCtxFacts
  <2>2. redis # None => redis.entry \in Nat
    BY StateFacts, StoredFields DEF StateOK
  <2>3. redis = None \/ Forgotten(redis)'
    BY <2>1, <2>2 DEF ClearInv, Forgotten
  <2>4. QED
    BY <2>1, <2>3 DEF ClearInv, Forgotten, Holding
<1>19. ASSUME NEW e \in 1 .. ids, ClosePosition(e)  PROVE ClearInv'
  BY <1>1, <1>19, ExternalEffect
<1>20. CASE \/ EditConfig \/ PublishKline \/ (\E c \in Candles : AckWaitExpires(c))
            \/ (\E c \in Candles : Handle(c)) \/ UNCHANGED vars
  BY <1>1, <1>20, Frames DEF frame
<1>21. QED
  BY <1>2, <1>3, <1>4, <1>5, <1>6, <1>7, <1>8, <1>9, <1>10, <1>11, <1>12, <1>13, <1>14, <1>15,
     <1>16, <1>17, <1>18, <1>19, <1>20, StepForms

\* "Clear runner strategy state": after a reset that found the pair at rest,
\* neither Redis nor the pair_ctx remembers an entry older than it, over failures,
\* reconciliations and closes that follow.
THEOREM ResetHolds == Spec => []ResetAtRestClears
<1>1. Init => ClearInv
  BY NoCtxFacts, NoWorkerFacts DEF Init, ClearInv, Forgotten, Holding
<1>2. ClearInv => ResetAtRestClears
  BY DEF ClearInv, ResetAtRestClears, ResetClears
<1>3. QED
  BY <1>1, <1>2, ClearStep, TypeAlways, PTL DEF Spec

-----------------------------------------------------------------------------
\* What the pair_ctx and Redis have to do with each other.

\* A pair whose worker has not failed: it runs, or is just set up.
Settled == worker.pc # "none" \/ main = "subscribe"

\* Nobody holds the lock, or only the closer does.
InStep ==
  /\ redis = ctx.stored
  /\ ctx.stored.state = ctx.mem
  /\ closer.pc # "saved" => ctx.bytes = ctx.mem
  /\ closer.pc = "saved" => closer.st = ctx.stored
\* The worker has decided, and nothing of it is saved.
Deciding ==
  /\ redis = worker.prev
  /\ ctx.bytes = worker.prev.state
  /\ worker.st.state = worker.prev.state
  /\ ctx.stored = worker.st
Decision ==
  /\ worker.pc \notin Holding => InStep
  /\ worker.pc = "evaluate" => InStep /\ worker.prev = ctx.stored /\ worker.st = ctx.stored
  /\ worker.pc \in Publishing => Deciding
  /\ worker.pc = "saved" => /\ redis = worker.st /\ ctx.stored = worker.st
                           /\ ctx.mem = worker.st.state

CohInv ==
  "reset" \notin torn =>
    /\ reset = "idle"
    /\ worker.pc \in Holding => worker.own
    /\ Settled => Decision

LEMMA RecordEqual ==
  ASSUME NEW s \in Stored, NEW t \in Stored, s.state = t.state, s.entry = t.entry
  PROVE  s = t
  BY DEF Stored

LEMMA CohProceeds ==
  ASSUME TypeInv, CohInv, "reset" \notin torn, Evaluate \/ Published
  PROVE  CohInv'
<1>1. /\ UNCHANGED <<torn, reset, active, main, closer>> /\ worker.pc \in {"evaluate", "published"}
  BY ProceedEffect DEF Evaluate, Published
<1>2. /\ worker.own /\ reset = "idle" /\ closer.pc # "saved"
      /\ redis = worker.prev /\ ctx.bytes = worker.prev.state
      /\ worker.st.state = worker.prev.state
      /\ worker.prev \in Stored
  BY <1>1 DEF CohInv, Settled, Decision, InStep, Deciding, Holding, Publishing, TypeInv, Shape,
     TaskOK
<1>3. PICK m \in States, st \in Stored, sigs \in Signals \cup {Done}, new \in Stored :
        Proceeds(m, st, sigs, new) /\ st.state = worker.st.state
  <2>1. CASE Evaluate
    <3>1. worker.st \in Stored
      BY <2>1, StateFacts DEF StateOK, Evaluate, Holding
    <3>2. QED
      BY <2>1, <3>1, EvaluateFacts
  <2>2. CASE Published
    <3>1. ctx.mem \in States
      BY StateFacts, CtxSet DEF StateOK
    <3>2. QED
      BY <2>2, <3>1, PublishedFacts DEF Signals
  <2>3. QED
    BY <2>1, <2>2
<1>4. /\ worker'.own /\ worker'.st = new /\ worker'.prev = worker.prev
      /\ ctx'.mem = m /\ ctx'.bytes = ctx.bytes /\ ctx'.stored = new
  BY <1>2, <1>3 DEF Proceeds, CtxAt, WorkerAt
<1>5. CASE worker'.pc = "publish" /\ new.state = st.state /\ redis' = redis
  BY <1>1, <1>2, <1>3, <1>4, <1>5 DEF CohInv, Decision, Deciding, Holding, Publishing
<1>6. CASE worker'.pc = "saved" /\ new.state = m /\ redis' = new
  BY <1>1, <1>2, <1>3, <1>4, <1>6 DEF CohInv, Decision, Holding, Publishing
<1>7. CASE /\ worker'.pc = "ack" /\ m = ctx.bytes /\ st.entry = worker.prev.entry /\ new = st
           /\ redis' = redis
  <2>1. st = worker.prev
    BY <1>2, <1>3, <1>7, RecordEqual
  <2>2. QED
    BY <1>1, <1>2, <1>3, <1>4, <1>7, <2>1 DEF CohInv, Decision, InStep, Holding, Publishing
<1>8. QED
  BY <1>3, <1>5, <1>6, <1>7 DEF Proceeds, Arms, Leaves, Keeps, Skips

LEMMA CohStep == TypeInv /\ CohInv /\ [Next]_vars => CohInv'
<1> SUFFICES ASSUME TypeInv, CohInv, [Next]_vars, "reset" \notin torn'  PROVE CohInv'
  BY DEF CohInv
<1>0. Shape
  BY DEF TypeInv
<1>1. CASE UNCHANGED <<main, ctx, worker, reset, redis, torn, closer>>
  BY <1>1 DEF CohInv, Settled, Decision, InStep, Deciding
<1>2. CASE Get \/ Ack
  BY <1>0, <1>2, RestEffect DEF CohInv, Settled, Decision, InStep, Holding, Publishing, Shape
<1>3. CASE Acquire
  BY <1>3, AcquireEffect DEF CohInv, Settled, Decision, InStep, Holding, Publishing
<1>4. CASE Evaluate \/ Published
  BY <1>4, ProceedEffect, CohProceeds
<1>5. CASE StoreOrder
  BY <1>5, StoreEffect DEF CohInv, Settled, Decision, Deciding, Holding, Publishing
<1>6. CASE Saved
  BY <1>0, <1>6, SavedEffect DEF CohInv, Settled, Decision, InStep, Holding, Publishing, Shape
<1>7. CASE Fail
  BY <1>0, <1>7, FailEffect DEF CohInv, Settled, Decision, Holding, Shape
<1>8. CASE Reconcile \/ Unsubscribe \/ DeleteConsumer
  BY <1>0, <1>8, MainEffect DEF CohInv, Settled, Decision, InStep, Deciding
<1>9. CASE CancelWorker
  BY <1>9, CancelEffect DEF CohInv, Settled, Holding
<1>10. CASE SaveRemoved
  BY <1>10, SaveEffect DEF CohInv, Settled, Holding
<1>11. CASE Load
  BY <1>11, LoadEffect DEF CohInv, Settled, Decision, InStep, Holding, Publishing
<1>12. CASE Subscribe
  BY <1>12, SubscribeEffect DEF CohInv, Settled, Decision, InStep, Holding, Publishing
<1>13. ASSUME NEW e \in events, TakeClose(e)  PROVE CohInv'
  BY <1>0, <1>13, TakeEffect DEF CohInv, Settled, Decision, InStep, Deciding
<1>14. CASE ApplyClose
  <2>1. CASE UNCHANGED <<ctx, redis, torn>> /\ closer'.pc = "idle"
    BY <1>14, <2>1, ApplyEffect DEF CohInv, Settled, Decision, InStep, Deciding, Holding, Publishing
  <2>2. ASSUME NEW flat \in Stored,
               ctx'.mem = flat.state, ctx'.stored = flat, redis' = flat,
               closer'.pc = "saved", closer'.st = flat
        PROVE  CohInv'
    BY <1>14, <2>2, ApplyEffect DEF CohInv, Settled, Decision, InStep, Holding, Publishing
  <2>3. QED
    BY <1>14, <2>1, <2>2, ApplyEffect
<1>15. CASE CloseSaved
  BY <1>0, <1>15, CloseSavedEffect
     DEF CohInv, Settled, Decision, InStep, Deciding, Holding, Publishing, Shape
<1>16. CASE ResetDelete \/ ResetPattern
  BY <1>16, ResetEffect DEF CohInv
<1>17. CASE ResetSwap
  BY <1>17, SwapEffect DEF CohInv
<1>18. CASE Crash \/ Exit
  BY <1>18, StopEffect, NoWorkerFacts DEF CohInv, Settled, Holding
<1>19. ASSUME NEW e \in 1 .. ids, ClosePosition(e)  PROVE CohInv'
  BY <1>1, <1>19, ExternalEffect
<1>20. CASE \/ EditConfig \/ PublishKline \/ (\E c \in Candles : AckWaitExpires(c))
            \/ (\E c \in Candles : Handle(c)) \/ UNCHANGED vars
  BY <1>1, <1>20, Frames DEF frame
<1>21. QED
  BY <1>2, <1>3, <1>4, <1>5, <1>6, <1>7, <1>8, <1>9, <1>10, <1>11, <1>12, <1>13, <1>14, <1>15,
     <1>16, <1>17, <1>18, <1>19, <1>20, StepForms

LEMMA CohInit == Init => CohInv
  BY NoWorkerFacts DEF Init, CohInv, Settled, Holding

LEMMA CohAlways == Spec => []CohInv
  BY CohInit, CohStep, TypeAlways, PTL DEF Spec

\* At rest - an active pair, its lock free and nothing failed - the strategy, its
\* stored state, the bytes it was last saved as and Redis agree, after whatever
\* candles, closes, cancelled workers and restarts came before.
THEOREM RestIsCoherent == Spec => []Coherent
<1>1. TypeInv /\ CohInv => Coherent
  BY DEF TypeInv, Shape, CohInv, Settled, Decision, InStep, Coherent, Resting, Locked, Holding
<1>2. QED
  BY <1>1, TypeAlways, CohAlways, PTL

-----------------------------------------------------------------------------
\* An acknowledged candle is in Redis.

\* What Redis has seen, the stored state has seen, and the strategy at least.
Followed ==
  /\ redis # None
  /\ redis.state.last = ctx.stored.state.last
  /\ ctx.stored.state.last <= ctx.mem.last
\* What the worker has seen of its candle.
Seen ==
  worker.candle \notin ticks =>
    /\ worker.pc \in Publishing => ctx.mem.last >= worker.candle
    /\ worker.pc \in {"saved", "ack"} => redis.state.last >= worker.candle

AckInv ==
  "reset" \notin torn /\ ~removes =>
    /\ \A c \in Candles \ ticks : msgs[c] = "acked" => redis # None /\ redis.state.last >= c
    /\ Live => Followed
    /\ Seen

LEMMA Lasts ==
  ASSUME TypeInv
  PROVE  /\ ctx.mem.last \in Nat /\ ctx.stored.state.last \in Nat
         /\ redis # None => redis.state.last \in Nat
         /\ worker.candle \in Nat
         /\ \A c \in Candles : c \in Nat
         /\ \A m \in States : m.last \in Nat
         /\ \A st \in Stored : st # None /\ st.state.last \in Nat
<1>1. \A m \in States : m.last \in Nat
  BY Bounds DEF States
<1>2. \A st \in Stored : st # None /\ st.state.last \in Nat
  BY <1>1, StoredFields, NoneAssumption
<1>3. \A c \in Candles : c \in Nat
  BY Bounds DEF Candles
<1>4. StateOK
  BY StateFacts
<1>5. worker.candle \in Nat
  BY <1>3, <1>4 DEF StateOK, Workers
<1>6. ctx.mem \in States /\ ctx.stored \in Stored /\ (redis # None => redis \in Stored)
  BY <1>4, CtxSet DEF StateOK
<1>7. QED
  BY <1>1, <1>2, <1>3, <1>5, <1>6

\* Redis never sees less than before.
LEMMA AckKept ==
  ASSUME TypeInv, AckInv, "reset" \notin torn, ~removes,
         \A c \in Candles : msgs'[c] = "acked" => msgs[c] = "acked",
         redis # None => redis' # None /\ redis'.state.last \in Nat
                                      /\ redis'.state.last >= redis.state.last
  PROVE  \A c \in Candles \ ticks : msgs'[c] = "acked" => redis' # None /\ redis'.state.last >= c
<1> SUFFICES ASSUME NEW c \in Candles \ ticks, msgs'[c] = "acked"
             PROVE  redis' # None /\ redis'.state.last >= c
  OBVIOUS
<1>1. redis # None /\ redis.state.last >= c
  BY DEF AckInv
<1>2. redis.state.last \in Nat /\ c \in Nat
  BY <1>1, Lasts
<1>3. QED
  BY <1>1, <1>2

LEMMA AckProceeds ==
  ASSUME TypeInv, CohInv, AckInv, "reset" \notin torn, ~removes, Evaluate \/ Published
  PROVE  AckInv'
<1>1. /\ UNCHANGED <<torn, removes, ticks, active, main, closer, msgs>>
      /\ worker.pc \in {"evaluate", "published"}
      /\ worker.pc = "published" => Published
      /\ worker.pc = "evaluate" => Evaluate
  BY ProceedEffect DEF Evaluate, Published
<1>2. /\ worker.own /\ redis = worker.prev /\ ctx.bytes = worker.prev.state
      /\ worker.st.state = ctx.stored.state
      /\ Live /\ Followed
      /\ worker.candle \notin ticks /\ worker.pc = "published" => ctx.mem.last >= worker.candle
  BY <1>1 DEF CohInv, Settled, Decision, InStep, Deciding, Holding, Publishing, TypeInv, Shape,
     AckInv, Live, Seen
<1>3. PICK m \in States, st \in Stored, sigs \in Signals \cup {Done}, new \in Stored :
        /\ Proceeds(m, st, sigs, new) /\ st.state = worker.st.state
        /\ ctx.mem.last <= m.last
        /\ worker.candle \notin ticks => m.last >= worker.candle
  <2>1. CASE Evaluate
    <3>1. worker.st \in Stored
      BY <2>1, StateFacts DEF StateOK, Evaluate, Holding
    <3>2. PICK m \in States, sigs \in Signals \cup {Done}, new \in Stored :
            /\ Decided(ctx.mem, worker.candle, m, sigs) /\ Proceeds(m, worker.st, sigs, new)
      BY <2>1, EvaluateFacts
    <3>3. ctx.mem.last <= m.last /\ (worker.candle \notin ticks => m.last >= worker.candle)
      BY <3>2, Lasts DEF Decided
    <3>4. QED
      BY <3>1, <3>2, <3>3
  <2>2. CASE Published
    <3>1. ctx.mem \in States /\ ctx.mem.last <= ctx.mem.last /\ worker.pc = "published"
      BY <2>2, Lasts, StateFacts, CtxSet DEF StateOK, Published
    <3>2. QED
      BY <1>2, <2>2, <3>1, PublishedFacts DEF Signals
  <2>3. QED
    BY <2>1, <2>2
<1>4. /\ worker'.candle = worker.candle /\ ctx'.mem = m /\ ctx'.stored = new
  BY <1>2, <1>3 DEF Proceeds, CtxAt, WorkerAt
<1>5. Live' /\ new # None
  BY <1>1, <1>2, Lasts DEF Live
<1>6. /\ m.last \in Nat /\ ctx.mem.last \in Nat /\ ctx.stored.state.last \in Nat
      /\ redis.state.last \in Nat /\ worker.candle \in Nat
  BY <1>2, Lasts DEF Followed
<1>7. CASE worker'.pc = "publish" /\ new.state = st.state /\ redis' = redis
  <2>1. Followed' /\ Seen'
    BY <1>1, <1>2, <1>3, <1>4, <1>6, <1>7 DEF Followed, Seen, Publishing
  <2>2. QED
    BY <1>1, <1>6, <1>7, <2>1 DEF AckInv
<1>8. CASE worker'.pc = "saved" /\ new.state = m /\ redis' = new
  <2>1. Followed' /\ Seen'
    BY <1>1, <1>2, <1>3, <1>4, <1>5, <1>6, <1>8 DEF Followed, Seen, Publishing
  <2>2. redis'.state.last \in Nat /\ redis'.state.last >= redis.state.last
    BY <1>2, <1>3, <1>6, <1>8 DEF Followed
  <2>3. \A c \in Candles \ ticks : msgs'[c] = "acked" => redis' # None /\ redis'.state.last >= c
    BY <1>1, <1>5, <1>8, <2>2, AckKept
  <2>4. QED
    BY <1>1, <2>1, <2>3 DEF AckInv
<1>9. CASE worker'.pc = "ack" /\ m = ctx.bytes /\ new = st /\ redis' = redis
  <2>1. Followed' /\ Seen'
    BY <1>1, <1>2, <1>3, <1>4, <1>6, <1>9 DEF Followed, Seen, Publishing
  <2>2. QED
    BY <1>1, <1>6, <1>9, <2>1 DEF AckInv
<1>10. QED
  BY <1>3, <1>7, <1>8, <1>9 DEF Proceeds, Arms, Leaves, Keeps, Skips

LEMMA AckStep == TypeInv /\ CohInv /\ AckInv /\ [Next]_vars => AckInv'
<1> SUFFICES ASSUME TypeInv, CohInv, AckInv, [Next]_vars, "reset" \notin torn', ~removes'
             PROVE AckInv'
  BY DEF AckInv
<1>0. Shape
  BY DEF TypeInv
<1> DEFINE Only == \A c \in Candles : msgs'[c] = "acked" => msgs[c] = "acked"
<1> HIDE DEF Only
<1>1. CASE UNCHANGED <<active, main, ctx, worker, redis, torn, removes, ticks>> /\ Only
  BY <1>1 DEF AckInv, Live, Followed, Seen, Only
<1>2. CASE Get
  <2>1. Only
    <3>1. Head(queue) \in Candles /\ msgs \in [Candles -> {"none", "new", "sent", "again", "acked", "dropped"}]
      BY <1>2 DEF Get, TypeInv, TypeOK
    <3>2. QED
      BY <1>2, <3>1 DEF Get, Only
  <2>2. QED
    BY <1>2, <2>1, RestEffect DEF AckInv, Live, Followed, Seen, Publishing, Only
<1>3. CASE Ack
  <2>1. /\ worker.pc = "ack" /\ "reset" \notin torn /\ ~removes
        /\ redis' = redis /\ ticks' = ticks
    BY <1>3, RestEffect DEF Ack
  <2>2. Followed /\ Seen
    BY <1>0, <2>1 DEF AckInv, Shape, Live
  <2>3. \A c \in Candles \ ticks : msgs'[c] = "acked" => redis # None /\ redis.state.last >= c
    <3>1. SUFFICES ASSUME NEW c \in Candles \ ticks, msgs'[c] = "acked"
                   PROVE  redis # None /\ redis.state.last >= c
      OBVIOUS
    <3>2. msgs \in [Candles -> {"none", "new", "sent", "again", "acked", "dropped"}]
      BY DEF TypeInv, TypeOK
    <3>3. msgs[c] = "acked" \/ c = worker.candle
      BY <1>3, <3>1, <3>2 DEF Ack
    <3>4. QED
      BY <2>1, <2>2, <3>3 DEF AckInv, Followed, Seen
  <2>4. QED
    BY <1>3, <2>1, <2>3, RestEffect DEF AckInv, Live, Followed, Seen, Publishing
<1>4. CASE Acquire
  BY <1>4, AcquireEffect DEF AckInv, Live, Followed, Seen, Publishing
<1>5. CASE Evaluate \/ Published
  BY <1>5, ProceedEffect, AckProceeds
<1>6. CASE StoreOrder
  BY <1>6, StoreEffect DEF AckInv, Live, Followed, Seen, Publishing
<1>7. CASE Saved
  BY <1>7, SavedEffect DEF AckInv, Live, Followed, Seen, Publishing
<1>8. CASE Fail
  <2>1. /\ "reset" \notin torn /\ ~removes /\ UNCHANGED <<redis, active, main, removes, ticks>>
        /\ ctx'.stored = ctx.stored /\ worker'.pc = "none" /\ Only
        /\ worker.pc \in {"publish", "published", "saved"}
        /\ worker.pc = "saved" => ctx'.mem = ctx.mem
        /\ worker.pc # "saved" => ctx'.mem = worker.prev.state
    BY <1>8, FailEffect DEF Only
  <2>2. worker.pc # "saved" => worker.prev = redis
    BY <2>1 DEF CohInv, Settled, Decision, Deciding, Publishing
  <2>3. Live /\ Followed
    BY <1>0, <2>1 DEF AckInv, Shape, Live
  <2>4. Followed'
    BY <2>1, <2>2, <2>3, Lasts DEF Followed
  <2>5. QED
    BY <2>1, <2>4 DEF AckInv, Seen, Publishing, Only
<1>9. CASE Reconcile \/ Unsubscribe \/ DeleteConsumer
  BY <1>9, MainEffect DEF AckInv, Live, Followed, Seen
<1>10. CASE CancelWorker
  BY <1>10, CancelEffect DEF AckInv, Live, Followed, Seen, Publishing
<1>11. CASE SaveRemoved
  <2>6. UNCHANGED <<removes, torn, ticks, msgs>>
    BY <1>11, SaveEffect
  <2>7. "reset" \notin torn /\ ~removes
    BY <2>6
  <2>1. PICK kept \in Stored :
          /\ kept.state = ctx.mem /\ redis' = kept
          /\ ~active' /\ main = "save" /\ main' \in {"wait", "load"} /\ worker'.pc = "none"
    <3>1. PICK kept \in Stored :
            /\ kept.state = ctx.mem
            /\ ~removes => redis' = kept
            /\ ~active /\ main = "save" /\ main' \in {"wait", "load"} /\ worker.pc = "none"
            /\ UNCHANGED <<active, worker>>
      BY <1>11, SaveEffect
    <3>2. QED
      BY <2>7, <3>1
  <2>2. Followed
    BY <2>1, <2>7 DEF AckInv, Live
  <2>3. redis' # None /\ redis'.state.last \in Nat /\ redis'.state.last >= redis.state.last
    BY <2>1, <2>2, Lasts DEF Followed
  <2>4. \A c \in Candles \ ticks : msgs'[c] = "acked" => redis' # None /\ redis'.state.last >= c
    BY <2>3, <2>6, <2>7, AckKept
  <2>5. QED
    BY <2>1, <2>4, <2>6 DEF AckInv, Live, Seen, Publishing
<1>12. CASE Load
  <2>1. PICK st \in Stored :
          /\ redis # None => st = redis
          /\ redis' = st /\ ctx'.stored = st /\ ctx'.mem = st.state
          /\ worker'.pc = "none" /\ "reset" \notin torn /\ ~removes
          /\ UNCHANGED <<removes, ticks, msgs>>
    BY <1>12, LoadEffect
  <2>2. redis' # None /\ st.state.last \in Nat
    BY <2>1, Lasts
  <2>3. Followed'
    BY <2>1, <2>2 DEF Followed
  <2>4. QED
    BY <2>1, <2>2, <2>3 DEF AckInv, Seen, Publishing
<1>13. CASE Subscribe
  BY <1>13, SubscribeEffect DEF AckInv, Live, Followed, Seen, Publishing
<1>14. ASSUME NEW e \in events, TakeClose(e)  PROVE AckInv'
  BY <1>1, <1>14, TakeEffect DEF Only
<1>15. CASE ApplyClose
  <2>1. CASE UNCHANGED <<ctx, redis, torn>>
    BY <1>1, <1>15, <2>1, ApplyEffect DEF Only
  <2>2. ASSUME NEW flat \in Stored, flat.state.last = ctx.stored.state.last,
               ctx'.mem = flat.state, ctx'.stored = flat, redis' = flat, torn \subseteq torn'
        PROVE  AckInv'
    <3>1. /\ "reset" \notin torn /\ ~removes /\ worker.pc \notin Holding /\ Live
          /\ UNCHANGED <<removes, ticks, msgs, worker, active, main>>
      BY <1>15, <2>2, ApplyEffect
    <3>2. Followed /\ Seen
      BY <3>1 DEF AckInv
    <3>3. redis' # None /\ redis'.state.last = redis.state.last /\ redis'.state.last \in Nat
      BY <2>2, <3>2, Lasts DEF Followed
    <3>4. Followed' /\ Seen'
      BY <2>2, <3>1, <3>2, <3>3 DEF Followed, Seen, Holding, Publishing
    <3>5. \A c \in Candles \ ticks : msgs'[c] = "acked" => redis' # None /\ redis'.state.last >= c
      BY <3>1, <3>3, AckKept
    <3>6. QED
      BY <3>1, <3>4, <3>5 DEF AckInv
  <2>3. QED
    BY <1>15, <2>1, <2>2, ApplyEffect
<1>16. CASE CloseSaved
  BY <1>16, CloseSavedEffect DEF AckInv, Live, Followed, Seen
<1>17. CASE ResetDelete \/ ResetPattern
  BY <1>17, ResetEffect DEF AckInv, CohInv
<1>18. CASE ResetSwap
  BY <1>18, SwapEffect DEF CohInv
<1>19. CASE Crash \/ Exit
  BY <1>19, StopEffect, NoWorkerFacts DEF AckInv, Live, Seen, Publishing
<1>20. ASSUME NEW e \in 1 .. ids, ClosePosition(e)  PROVE AckInv'
  BY <1>1, <1>20, ExternalEffect DEF Only
<1>21. CASE \/ EditConfig \/ PublishKline \/ (\E c \in Candles : AckWaitExpires(c))
            \/ (\E c \in Candles : Handle(c)) \/ UNCHANGED vars
  <2>1. msgs \in [Candles -> {"none", "new", "sent", "again", "acked", "dropped"}]
    BY DEF TypeInv, TypeOK
  <2>2. Only
    BY <1>21, <2>1 DEF EditConfig, PublishKline, AckWaitExpires, Handle, vars, klineVars, Only
  <2>3. QED
    BY <1>1, <1>21, <2>2, Frames DEF frame
<1>22. QED
  BY <1>2, <1>3, <1>4, <1>5, <1>6, <1>7, <1>8, <1>9, <1>10, <1>11, <1>12, <1>13, <1>14, <1>15,
     <1>16, <1>17, <1>18, <1>19, <1>20, <1>21, StepForms

LEMMA AckInit == Init => AckInv
  BY NoWorkerFacts DEF Init, AckInv, Live, Seen, Publishing

LEMMA AckAlways == Spec => []AckInv
  BY AckInit, AckStep, TypeAlways, CohAlways, PTL DEF Spec

\* process_message acknowledges a candle after the save: what a strategy took and
\* acknowledged it does not forget, whatever fails or restarts.
THEOREM AckedStays == Spec => []AckedIsSaved
<1>1. AckInv => AckedIsSaved
  BY DEF AckInv, AckedIsSaved
<1>2. QED
  BY <1>1, AckAlways, PTL

-----------------------------------------------------------------------------
\* A candle opens one position.

IsEntry(i) == orders[i].cond = "ENTRY"

\* An ENTRY for the worker's candle is still to be published.
Coming == \/ worker.pc = "publish" /\ worker.todo \in {Enter, Turn}
          \/ worker.pc = "published" /\ worker.todo = Turn

\* The strategy has seen the candles it entered at; Redis too, once the state
\* behind the orders is saved.
Distinct ==
  \A i, j \in DOMAIN orders :
    IsEntry(i) /\ IsEntry(j) /\ orders[i].candle = orders[j].candle => i = j
Remembered == \A i \in DOMAIN orders : IsEntry(i) => orders[i].candle <= ctx.mem.last
Backed == \A i \in DOMAIN orders : IsEntry(i) => redis # None /\ orders[i].candle <= redis.state.last
Ahead ==
  /\ worker.candle <= ctx.mem.last
  /\ \A i \in DOMAIN orders : IsEntry(i) => orders[i].candle # worker.candle

EntryInv ==
  torn \subseteq {"cancel"} /\ ~removes =>
    /\ Distinct
    /\ unsaved => Live
    /\ Live => Remembered
    /\ ~unsaved => Backed
    /\ Coming => Ahead

LEMMA OrderFacts ==
  ASSUME TypeInv
  PROVE  /\ orders \in Seq(Order) /\ Len(orders) \in Nat /\ DOMAIN orders = 1 .. Len(orders)
         /\ \A i \in DOMAIN orders : /\ orders[i].cond \in {"ENTRY", "EXIT"}
                                    /\ orders[i].candle \in Nat /\ orders[i].entry \in Nat
                                    /\ orders[i].entry <= ids
<1>1. orders \in Seq(Order) /\ ids \in Nat
  BY DEF TypeInv, TypeOK, Order
<1>2. \A i \in DOMAIN orders : orders[i] \in Order
  BY <1>1
<1>3. \A o \in Order : /\ o.cond \in {"ENTRY", "EXIT"}
                      /\ o.candle \in Nat /\ o.entry \in Nat /\ o.entry <= ids
  BY <1>1, Bounds DEF Order, Ids, Candles
<1>4. Len(orders) \in Nat /\ DOMAIN orders = 1 .. Len(orders)
  BY <1>1
<1>5. QED
  BY <1>1, <1>2, <1>3, <1>4

\* The order that is stored is the last one.
LEMMA StoredOrder ==
  ASSUME TypeInv, StoreOrder
  PROVE  /\ Len(orders') = Len(orders) + 1 /\ Len(orders') \in DOMAIN orders'
         /\ \A i : i \in DOMAIN orders' <=> i \in DOMAIN orders \/ i = Len(orders')
         /\ \A i \in DOMAIN orders : i < Len(orders') /\ orders'[i] = orders[i]
         /\ orders'[Len(orders')].cond = Head(worker.todo)
         /\ orders'[Len(orders')].entry = worker.st.entry
         /\ orders'[Len(orders')].candle = worker.candle
         /\ worker.todo \in Signals
<1> DEFINE o == [cond |-> Head(worker.todo), entry |-> worker.st.entry, candle |-> worker.candle]
<1>1. orders \in Seq(Order) /\ Len(orders) \in Nat /\ DOMAIN orders = 1 .. Len(orders)
  BY OrderFacts
<1>2. worker.pc = "publish" /\ orders' = Append(orders, o)
  BY StoreEffect
<1>3. o.cond = Head(worker.todo) /\ o.entry = worker.st.entry /\ o.candle = worker.candle
  OBVIOUS
<1> HIDE DEF o
<1>4. /\ Len(orders') = Len(orders) + 1 /\ DOMAIN orders' = 1 .. Len(orders')
      /\ \A i \in 1 .. Len(orders) : orders'[i] = orders[i]
      /\ orders'[Len(orders')] = o
  BY <1>1, <1>2
<1>5. worker.todo \in Signals
  BY <1>2, StateFacts DEF StateOK, Publishing
<1>6. QED
  BY <1>1, <1>3, <1>4, <1>5

\* Later candles are remembered as well.
LEMMA RememberedLater ==
  ASSUME TypeInv, Remembered, ctx'.mem.last \in Nat, ctx'.mem.last >= ctx.mem.last, orders' = orders
  PROVE  Remembered'
  BY OrderFacts, Lasts DEF Remembered, IsEntry

LEMMA EntryProceeds ==
  ASSUME TypeInv, CohInv, AckInv, EntryInv, torn \subseteq {"cancel"}, ~removes,
         Evaluate \/ Published
  PROVE  EntryInv'
<1>1. /\ UNCHANGED <<torn, removes, active, main, orders>> /\ worker.pc \in {"evaluate", "published"}
  BY ProceedEffect DEF Evaluate, Published
<1>2. Live /\ Live'
  BY <1>1 DEF TypeInv, Shape, Live
<1>3. PICK m \in States, st \in Stored, sigs \in Signals \cup {Done}, new \in Stored :
        /\ Proceeds(m, st, sigs, new) /\ ctx.mem.last <= m.last
        /\ sigs \in {Enter, Turn} => /\ worker.candle <= m.last
                                    /\ \A i \in DOMAIN orders : IsEntry(i) => orders[i].candle # worker.candle
  <2>1. CASE Evaluate
    <3>2. PICK m \in States, sigs \in Signals \cup {Done}, new \in Stored :
            /\ Decided(ctx.mem, worker.candle, m, sigs) /\ Proceeds(m, worker.st, sigs, new)
      BY <2>1, EvaluateFacts
    <3>3. ctx.mem.last <= m.last
      BY <3>2, Lasts DEF Decided
    <3>4. ASSUME sigs \in {Enter, Turn}
          PROVE  /\ worker.candle <= m.last
                 /\ \A i \in DOMAIN orders : IsEntry(i) => orders[i].candle # worker.candle
      <4>1. worker.candle > ctx.mem.last /\ m.last = worker.candle
        BY <3>2, <3>4 DEF Decided
      <4>2. Remembered
        BY <1>2 DEF EntryInv
      <4>3. QED
        BY <4>1, <4>2, Lasts, OrderFacts DEF Remembered
    <3>5. worker.st \in Stored
      BY <2>1, StateFacts DEF StateOK, Evaluate, Holding
    <3>6. QED
      BY <3>2, <3>3, <3>4, <3>5
  <2>2. CASE Published
    <3>1. ctx.mem \in States /\ ctx.mem.last <= ctx.mem.last /\ worker.pc = "published"
      BY <2>2, Lasts, StateFacts, CtxSet DEF StateOK, Published
    <3>2. worker.todo = Turn => Ahead
      BY <3>1 DEF EntryInv, Coming
    <3>3. PICK st \in Stored, sigs \in {Enter, Done}, new \in Stored :
            /\ Proceeds(ctx.mem, st, sigs, new)
            /\ sigs = Enter => worker.todo = Turn
      BY <2>2, PublishedFacts, SignalFacts
    <3>4. sigs \in {Enter, Turn} => Ahead
      BY <3>2, <3>3, SignalFacts
    <3>5. QED
      BY <3>1, <3>3, <3>4 DEF Ahead, Signals
  <2>3. QED
    BY <2>1, <2>2
<1>4. /\ worker'.candle = worker.candle /\ worker'.todo = sigs /\ ctx'.mem = m
      /\ worker'.pc \in {"publish", "saved", "ack"}
      /\ worker'.pc = "saved" => redis' = new /\ new.state = m /\ ~unsaved'
      /\ worker'.pc # "saved" => redis' = redis /\ unsaved' = unsaved
  BY <1>3 DEF Proceeds, CtxAt, WorkerAt, Arms, Leaves, Keeps, Skips
<1>5. Distinct' /\ (~unsaved => Backed) /\ Remembered
  BY <1>1, <1>2 DEF EntryInv, Distinct, IsEntry
<1>6. Remembered'
  BY <1>1, <1>3, <1>4, <1>5, Lasts, RememberedLater
<1>7. ~unsaved' => Backed'
  <2>1. CASE worker'.pc = "saved"
    <3>1. redis' # None /\ redis'.state.last = ctx'.mem.last
      BY <1>4, <2>1, Lasts
    <3>2. QED
      BY <1>6, <3>1 DEF Remembered, Backed
  <2>2. CASE worker'.pc # "saved"
    BY <1>1, <1>4, <1>5, <2>2 DEF Backed, IsEntry
  <2>3. QED
    BY <2>1, <2>2
<1>8. Coming' => Ahead'
  BY <1>1, <1>3, <1>4 DEF Coming, Ahead, IsEntry
<1>9. QED
  BY <1>2, <1>5, <1>6, <1>7, <1>8 DEF EntryInv

LEMMA EntryStep == TypeInv /\ CohInv /\ AckInv /\ EntryInv /\ [Next]_vars => EntryInv'
<1> SUFFICES ASSUME TypeInv, CohInv, AckInv, EntryInv, [Next]_vars,
                    torn' \subseteq {"cancel"}, ~removes'
             PROVE EntryInv'
  BY DEF EntryInv
<1>0. Shape
  BY DEF TypeInv
<1>1. CASE UNCHANGED <<active, main, ctx, worker, redis, torn, removes, unsaved, orders>>
  BY <1>1 DEF EntryInv, Live, Distinct, Remembered, Backed, Coming, Ahead, IsEntry
<1>2. CASE Get \/ Ack
  BY <1>2, RestEffect DEF EntryInv, Live, Distinct, Remembered, Backed, Coming, IsEntry
<1>3. CASE Acquire
  BY <1>3, AcquireEffect DEF EntryInv, Live, Distinct, Remembered, Backed, Coming, IsEntry
<1>4. CASE Evaluate \/ Published
  <2>1. torn' = torn /\ removes' = removes
    BY <1>4, ProceedEffect
  <2>2. torn \subseteq {"cancel"} /\ ~removes
    BY <2>1
  <2>3. QED
    BY <1>4, <2>2, EntryProceeds
<1>5. CASE StoreOrder
  <2>0. /\ worker.pc = "publish" /\ worker'.pc = "published" /\ worker'.candle = worker.candle
        /\ worker'.todo = worker.todo /\ unsaved' = TRUE
        /\ UNCHANGED <<torn, removes, ctx, active, main>>
    BY <1>5, StoreEffect
  <2>1. torn \subseteq {"cancel"} /\ ~removes /\ Live /\ Live'
    BY <1>0, <2>0 DEF Shape, Live
  <2>2. Distinct /\ Remembered /\ (Coming => Ahead)
    BY <2>1 DEF EntryInv
  <2>3. /\ orders'[Len(orders')].cond = "ENTRY" => Coming
        /\ orders'[Len(orders')].cond = "ENTRY" => worker.todo = Enter
    BY <1>5, <2>0, StoredOrder, SignalFacts DEF Coming, Signals
  <2>4. Distinct'
    BY <1>5, <2>2, <2>3, StoredOrder DEF Distinct, Ahead, IsEntry
  <2>5. Remembered'
    BY <1>5, <2>0, <2>2, <2>3, StoredOrder DEF Remembered, Ahead, IsEntry
  <2>6. Coming' => Ahead'
    BY <1>5, <2>0, <2>2, <2>3, StoredOrder, SignalFacts DEF Coming, Ahead, IsEntry
  <2>7. QED
    BY <2>0, <2>1, <2>4, <2>5, <2>6 DEF EntryInv
<1>6. CASE Saved
  BY <1>6, SavedEffect DEF EntryInv, Live, Distinct, Remembered, Backed, Coming, IsEntry
<1>7. CASE Fail
  <2>1. /\ torn \subseteq {"cancel"} /\ ~removes /\ ~unsaved
        /\ UNCHANGED <<redis, active, main, unsaved, orders>>
        /\ worker'.pc = "none"
        /\ worker.pc \in {"publish", "published", "saved"}
        /\ worker.pc = "saved" => ctx'.mem = ctx.mem
        /\ worker.pc # "saved" => ctx'.mem = worker.prev.state
    BY <1>7, FailEffect
  <2>2. worker.pc # "saved" => worker.prev = redis
    BY <2>1 DEF CohInv, Settled, Decision, Deciding, Publishing
  <2>3. Live /\ Remembered /\ Backed /\ Distinct
    BY <1>0, <2>1 DEF EntryInv, Shape, Live
  <2>4. Remembered'
    BY <2>1, <2>2, <2>3 DEF Remembered, Backed, IsEntry
  <2>5. QED
    BY <2>1, <2>3, <2>4 DEF EntryInv, Distinct, Backed, Coming, IsEntry
<1>8. CASE Reconcile \/ Unsubscribe \/ DeleteConsumer
  BY <1>8, MainEffect DEF EntryInv, Live, Distinct, Remembered, Backed, Coming, Ahead, IsEntry
<1>9. CASE CancelWorker
  <2>1. torn \subseteq torn'
    BY <1>9, CancelEffect
  <2>2. QED
    BY <1>9, <2>1, CancelEffect DEF EntryInv, Live, Distinct, Remembered, Backed, Coming, IsEntry
<1>10. CASE SaveRemoved
  <2>1. UNCHANGED <<torn, removes, orders>>
    BY <1>10, SaveEffect
  <2>2. torn \subseteq {"cancel"} /\ ~removes
    BY <2>1
  <2>3. PICK kept \in Stored :
          /\ kept.state = ctx.mem
          /\ redis' = kept
          /\ ~active' /\ main = "save" /\ main' \in {"wait", "load"} /\ worker'.pc = "none"
          /\ ~unsaved'
    <3>1. PICK kept \in Stored :
            /\ kept.state = ctx.mem
            /\ ~removes => redis' = kept
            /\ ~active /\ main = "save" /\ main' \in {"wait", "load"} /\ worker.pc = "none"
            /\ unsaved' = FALSE
            /\ UNCHANGED <<active, worker>>
      BY <1>10, SaveEffect
    <3>2. QED
      BY <2>2, <3>1
  <2>4. Remembered /\ Distinct
    BY <2>2, <2>3 DEF EntryInv, Live
  <2>5. Backed'
    BY <2>1, <2>3, <2>4, Lasts DEF Remembered, Backed, IsEntry
  <2>6. QED
    BY <2>1, <2>3, <2>4, <2>5 DEF EntryInv, Live, Distinct, Coming, IsEntry
<1>11. CASE Load
  <2>1. PICK st \in Stored :
          /\ redis # None => st = redis
          /\ redis' = st /\ ctx'.mem = st.state
          /\ worker'.pc = "none" /\ ~Live /\ Live'
          /\ UNCHANGED <<torn, removes, orders, unsaved>>
    BY <1>11, LoadEffect DEF Live
  <2>2. Backed /\ Distinct /\ ~unsaved
    BY <2>1 DEF EntryInv
  <2>3. Backed' /\ Remembered'
    BY <2>1, <2>2, Lasts DEF Backed, Remembered, IsEntry
  <2>4. QED
    BY <2>1, <2>2, <2>3 DEF EntryInv, Distinct, Coming, IsEntry
<1>12. CASE Subscribe
  BY <1>12, SubscribeEffect DEF EntryInv, Live, Distinct, Remembered, Backed, Coming, IsEntry
<1>13. ASSUME NEW e \in events, TakeClose(e)  PROVE EntryInv'
  BY <1>1, <1>13, TakeEffect
<1>14. CASE ApplyClose
  <2>1. CASE UNCHANGED <<ctx, redis, torn>>
    BY <1>1, <1>14, <2>1, ApplyEffect
  <2>2. ASSUME NEW flat \in Stored, flat.state.last = ctx.stored.state.last,
               ctx'.mem = flat.state, redis' = flat,
               torn' = IF unsaved THEN torn \cup {"lost"} ELSE torn
        PROVE  EntryInv'
    <3>1. /\ torn \subseteq {"cancel"} /\ ~removes /\ ~unsaved /\ worker.pc \notin Holding /\ Live
          /\ UNCHANGED <<worker, active, main, unsaved, orders>>
      BY <1>14, <2>2, ApplyEffect
    <3>2. Followed /\ Backed /\ Distinct
      BY <3>1 DEF AckInv, EntryInv
    <3>3. redis' # None /\ redis'.state.last = redis.state.last /\ ctx'.mem.last = redis.state.last
      BY <2>2, <3>2, Lasts DEF Followed
    <3>4. Backed' /\ Remembered'
      BY <3>1, <3>2, <3>3 DEF Backed, Remembered, IsEntry
    <3>5. QED
      BY <3>1, <3>2, <3>4 DEF EntryInv, Distinct, Coming, Holding, IsEntry, Live
  <2>3. QED
    BY <1>14, <2>1, <2>2, ApplyEffect
<1>15. CASE CloseSaved
  BY <1>15, CloseSavedEffect
     DEF EntryInv, Live, Distinct, Remembered, Backed, Coming, Ahead, IsEntry
<1>16. CASE ResetDelete \/ ResetPattern
  BY <1>16, ResetEffect DEF CohInv
<1>17. CASE ResetSwap
  BY <1>17, SwapEffect DEF CohInv
<1>18. CASE Crash \/ Exit
  BY <1>18, StopEffect, NoWorkerFacts DEF EntryInv, Live, Distinct, Backed, Coming, IsEntry
<1>19. ASSUME NEW e \in 1 .. ids, ClosePosition(e)  PROVE EntryInv'
  BY <1>1, <1>19, ExternalEffect
<1>20. CASE \/ EditConfig \/ PublishKline \/ (\E c \in Candles : AckWaitExpires(c))
            \/ (\E c \in Candles : Handle(c)) \/ UNCHANGED vars
  BY <1>1, <1>20, Frames DEF frame
<1>21. QED
  BY <1>2, <1>3, <1>4, <1>5, <1>6, <1>7, <1>8, <1>9, <1>10, <1>11, <1>12, <1>13, <1>14, <1>15,
     <1>16, <1>17, <1>18, <1>19, <1>20, StepForms

LEMMA EntryInit == Init => EntryInv
  BY NoWorkerFacts DEF Init, EntryInv, Live, Distinct, Backed, Coming

LEMMA EntryAlways == Spec => []EntryInv
  BY EntryInit, EntryStep, TypeAlways, CohAlways, AckAlways, PTL DEF Spec

LEMMA AtMostOne ==
  ASSUME NEW S, \A i, j \in S : i = j
  PROVE  Cardinality(S) <= 1
<1>1. CASE S = {}
  BY <1>1, FS_EmptySet
<1>2. CASE S # {}
  <2>1. PICK i : i \in S
    BY <1>2
  <2>2. S = {i}
    BY <2>1
  <2>3. QED
    BY FS_Singleton, <2>2
<1>3. QED
  BY <1>1, <1>2

\* allow_new_candle: however often a candle is delivered, and whatever is
\* reconciled, closed from outside or started again, it opens one position.
THEOREM EntersOnce == Spec => []OneEntryPerCandle
<1>1. EntryInv => OneEntryPerCandle
  <2>1. SUFFICES ASSUME EntryInv, torn \subseteq {"cancel"}, ~removes, NEW c \in Candles
                 PROVE  Cardinality(Entries(c)) <= 1
    BY DEF OneEntryPerCandle
  <2>2. \A i, j \in Entries(c) : i = j
    BY <2>1 DEF EntryInv, Distinct, IsEntry, Entries
  <2>3. QED
    BY <2>2, AtMostOne
<1>2. QED
  BY <1>1, EntryAlways, PTL

-----------------------------------------------------------------------------
\* One position at a time.

Last == orders[Len(orders)]

\* The last order opened the position of entry e; no position is open.
Opened(e) == orders # <<>> /\ Last.cond = "ENTRY" /\ Last.entry = e
Flat == orders = <<>> \/ Last.cond = "EXIT" \/ Last.entry \in closed
Fresh(e) == \A i \in DOMAIN orders : orders[i].entry < e

\* What is remembered fits the orders: an entry that is remembered is the last
\* one's, or was never published.
Position(pos, e) ==
  /\ e = 0 \/ Fresh(e) \/ (orders # <<>> /\ Last.entry = e)
  /\ pos => Opened(e)
  /\ ~pos => Flat

Alternates ==
  \A i \in DOMAIN orders :
    /\ orders[i].cond = "EXIT" =>
         i > 1 /\ orders[i - 1].cond = "ENTRY" /\ orders[i - 1].entry = orders[i].entry
    /\ orders[i].cond = "ENTRY" /\ i > 1 =>
         orders[i - 1].cond = "EXIT" \/ orders[i - 1].entry \in closed

\* A decision on its way out.
Underway ==
  /\ ctx.mem.pos = (worker.todo # Leave)
  /\ worker.todo = Enter => worker.prev.entry < worker.st.entry
  /\ worker.todo # Enter => worker.prev.state.pos
  /\ worker.pc = "publish" =>
       /\ worker.todo # Enter => Opened(worker.st.entry) /\ ~unsaved
       /\ worker.todo = Enter => Flat /\ Fresh(worker.st.entry)
       /\ worker.todo = Enter /\ ~unsaved => ~worker.prev.state.pos
  /\ worker.pc = "published" =>
       /\ unsaved /\ orders # <<>>
       /\ Last.entry = worker.st.entry /\ Last.cond = Head(worker.todo)

PosInv ==
  torn = {} /\ ~removes =>
    /\ Alternates
    /\ unsaved => worker.pc \in Publishing \/ main = "save"
    /\ ~unsaved => /\ redis = None => orders = <<>>
                   /\ redis # None => Position(redis.state.pos, redis.entry)
    /\ Live /\ worker.pc \notin Publishing => Position(ctx.mem.pos, ctx.stored.entry)
    /\ worker.pc \in Publishing => Underway

\* What was closed from outside was published.
ClosesKnown == \A e \in closed : e > 0 /\ \E i \in DOMAIN orders : orders[i].entry = e

LEMMA OrdersKept ==
  ASSUME TypeInv, [Next]_vars
  PROVE  \/ orders' = orders
         \/ StoreOrder /\ closed' = closed
<1>1. CASE \/ Get \/ Ack
  BY <1>1, RestEffect
<1>2. CASE Acquire \/ Evaluate \/ Published \/ StoreOrder \/ Saved \/ Fail
  BY <1>2, AcquireEffect, ProceedEffect, StoreEffect, SavedEffect, FailEffect
<1>3. CASE \/ Reconcile \/ Unsubscribe \/ DeleteConsumer \/ CancelWorker \/ SaveRemoved \/ Load
           \/ Subscribe
  BY <1>3, MainEffect, CancelEffect, SaveEffect, LoadEffect, SubscribeEffect
<1>4. CASE \/ (\E e \in events : TakeClose(e)) \/ ApplyClose \/ CloseSaved
           \/ ResetDelete \/ ResetSwap \/ ResetPattern \/ Crash \/ Exit
           \/ (\E e \in 1 .. ids : ClosePosition(e))
  BY <1>4, TakeEffect, ApplyEffect, CloseSavedEffect, ResetEffect, SwapEffect, StopEffect,
     ExternalEffect
<1>5. CASE \/ EditConfig \/ PublishKline \/ (\E c \in Candles : AckWaitExpires(c))
           \/ (\E c \in Candles : Handle(c)) \/ UNCHANGED vars
  BY <1>5, Frames DEF frame
<1>6. QED
  BY <1>1, <1>2, <1>3, <1>4, <1>5, StepForms

LEMMA ClosedMoves ==
  ASSUME TypeInv, [Next]_vars
  PROVE  closed' = closed \/ \E e \in 1 .. ids : ClosePosition(e)
<1>1. CASE \/ Get \/ Ack \/ Acquire \/ Evaluate \/ Published \/ StoreOrder \/ Saved \/ Fail
  BY <1>1, RestEffect, AcquireEffect, ProceedEffect, StoreEffect, SavedEffect, FailEffect
<1>2. CASE \/ Reconcile \/ Unsubscribe \/ DeleteConsumer \/ CancelWorker \/ SaveRemoved \/ Load
           \/ Subscribe
  BY <1>2, MainEffect, CancelEffect, SaveEffect, LoadEffect, SubscribeEffect
<1>3. CASE \/ (\E e \in events : TakeClose(e)) \/ ApplyClose \/ CloseSaved
           \/ ResetDelete \/ ResetSwap \/ ResetPattern \/ Crash \/ Exit
  BY <1>3, TakeEffect, ApplyEffect, CloseSavedEffect, ResetEffect, SwapEffect, StopEffect
<1>4. CASE \/ EditConfig \/ PublishKline \/ (\E c \in Candles : AckWaitExpires(c))
           \/ (\E c \in Candles : Handle(c)) \/ UNCHANGED vars
  BY <1>4, Frames DEF frame
<1>5. QED
  BY <1>1, <1>2, <1>3, <1>4, StepForms

LEMMA ClosesStep == TypeInv /\ ClosesKnown /\ [Next]_vars => ClosesKnown'
<1> SUFFICES ASSUME TypeInv, ClosesKnown, [Next]_vars, NEW e \in closed'
             PROVE  e > 0 /\ \E i \in DOMAIN orders' : orders'[i].entry = e
  BY DEF ClosesKnown
<1>1. e > 0 /\ \E i \in DOMAIN orders : orders[i].entry = e
  <2>1. CASE closed' = closed
    BY <2>1 DEF ClosesKnown
  <2>2. ASSUME NEW x \in 1 .. ids, ClosePosition(x)
        PROVE  e > 0 /\ \E i \in DOMAIN orders : orders[i].entry = e
    BY <2>2, ExternalEffect DEF ClosesKnown
  <2>3. QED
    BY <2>1, <2>2, ClosedMoves
<1>2. CASE orders' = orders
  BY <1>1, <1>2
<1>3. CASE StoreOrder
  BY <1>1, <1>3, StoredOrder
<1>4. QED
  BY <1>2, <1>3, OrdersKept

LEMMA ClosesInit == Init => ClosesKnown
  BY DEF Init, ClosesKnown

LEMMA ClosesAlways == Spec => []ClosesKnown
  BY ClosesInit, ClosesStep, TypeAlways, PTL DEF Spec

\* A step that stores no order leaves positions what they are.
LEMMA PositionsKept ==
  ASSUME orders' = orders, closed \subseteq closed'
  PROVE  /\ \A e : Opened(e)' = Opened(e) /\ Fresh(e)' = Fresh(e)
         /\ Flat => Flat'
         /\ \A pos, e : Position(pos, e) => Position(pos, e)'
         /\ Alternates => Alternates'
         /\ Last' = Last
<1>1. /\ \A e : Opened(e)' = Opened(e) /\ Fresh(e)' = Fresh(e)
      /\ Last' = Last
  BY DEF Opened, Fresh, Last
<1>2. Flat => Flat'
  BY <1>1 DEF Flat
<1>3. \A pos, e : Position(pos, e) => Position(pos, e)'
  BY <1>1, <1>2 DEF Position
<1>4. Alternates => Alternates'
  BY DEF Alternates
<1>5. QED
  BY <1>1, <1>2, <1>3, <1>4

LEMMA UnderwayKept ==
  ASSUME Underway, ctx'.mem = ctx.mem, UNCHANGED <<worker, unsaved, orders>>,
         closed \subseteq closed'
  PROVE  Underway'
<1>1. /\ Opened(worker.st.entry) => Opened(worker.st.entry)'
      /\ Fresh(worker.st.entry) => Fresh(worker.st.entry)'
      /\ Flat => Flat'
      /\ Last' = Last
  BY PositionsKept
<1>2. (ctx.mem.pos = (worker.todo # Leave))'
  BY DEF Underway
<1>3. /\ (worker.todo = Enter => worker.prev.entry < worker.st.entry)'
      /\ (worker.todo # Enter => worker.prev.state.pos)'
  BY DEF Underway
<1>4. worker.pc = "publish" =>
        /\ worker.todo # Enter => Opened(worker.st.entry) /\ ~unsaved
        /\ worker.todo = Enter => Flat /\ Fresh(worker.st.entry)
        /\ worker.todo = Enter /\ ~unsaved => ~worker.prev.state.pos
  BY DEF Underway
<1>5. (worker.pc = "publish" =>
         /\ worker.todo # Enter => Opened(worker.st.entry) /\ ~unsaved
         /\ worker.todo = Enter => Flat /\ Fresh(worker.st.entry)
         /\ worker.todo = Enter /\ ~unsaved => ~worker.prev.state.pos)'
  BY <1>1, <1>4
<1>6. (worker.pc = "published" =>
         /\ unsaved /\ orders # <<>>
         /\ Last.entry = worker.st.entry /\ Last.cond = Head(worker.todo))'
  BY <1>1 DEF Underway
<1>7. QED
  BY <1>2, <1>3, <1>5, <1>6 DEF Underway

LEMMA PosEvaluate ==
  ASSUME TypeInv, CohInv, PosInv, torn = {}, ~removes, Evaluate
  PROVE  PosInv'
<1>1. /\ UNCHANGED <<torn, removes, active, main, orders, closed>> /\ worker.pc = "evaluate"
  BY ProceedEffect DEF Evaluate
<1>2. /\ Live /\ Live' /\ main # "save" /\ worker.own
      /\ redis = worker.prev /\ ctx.mem = worker.prev.state /\ worker.st = ctx.stored
      /\ ctx.stored = worker.prev
      /\ redis \in Stored /\ redis # None
  BY <1>1, NoneAssumption
     DEF TypeInv, Shape, TaskOK, Live, CohInv, Settled, Decision, InStep, Holding
<1>3. PICK m \in States, sigs \in Signals \cup {Done}, new \in Stored :
        Decided(ctx.mem, worker.candle, m, sigs) /\ Proceeds(m, worker.st, sigs, new)
  BY EvaluateFacts
<1>4. /\ Alternates /\ ~unsaved
      /\ Position(ctx.mem.pos, ctx.stored.entry)
  BY <1>1, <1>2 DEF PosInv, Publishing
<1>5. /\ worker'.todo = sigs /\ worker'.prev = worker.prev /\ worker'.st = new
      /\ ctx'.mem = m /\ ctx'.stored = new
  BY <1>2, <1>3 DEF Proceeds, CtxAt, WorkerAt
<1>6. Alternates'
  BY <1>1, <1>4, PositionsKept
<1>12. Position(redis.state.pos, redis.entry)
  <2>1. redis.state.pos = ctx.mem.pos /\ redis.entry = ctx.stored.entry
    BY <1>2
  <2>2. QED
    BY <1>4, <2>1
<1>13. redis' = redis => Position(redis.state.pos, redis.entry)'
  <2>1. ASSUME redis' = redis
        PROVE  Position(redis.state.pos, redis.entry)' = Position(redis.state.pos, redis.entry)'
    OBVIOUS
  <2>2. \A pos, e : Position(pos, e) => Position(pos, e)'
    BY <1>1, PositionsKept
  <2>3. QED
    BY <1>12, <2>2
<1>7. CASE Arms(worker.st, sigs, new)
  <2>1. /\ sigs = Enter /\ ~ctx.mem.pos /\ m.pos
        /\ worker'.pc = "publish" /\ ~unsaved' /\ redis' = redis /\ new.entry = ids + 1
    BY <1>3, <1>4, <1>7 DEF Arms, Decided
  <2>2. Fresh(new.entry) /\ worker.prev.entry < new.entry
    BY <1>2, <2>1, OrderFacts, StateFacts, StoredFields DEF Fresh, StateOK, KnownIds
  <2>3. Flat
    BY <1>4, <2>1 DEF Position
  <2>4. Underway'
    BY <1>1, <1>2, <1>5, <2>1, <2>2, <2>3, SignalFacts, PositionsKept DEF Underway
  <2>5. Position(redis.state.pos, redis.entry)'
    BY <1>1, <1>2, <1>4, <2>1, PositionsKept
  <2>6. QED
    BY <1>2, <1>6, <2>1, <2>4, <2>5 DEF PosInv, Publishing
<1>8. CASE Leaves(worker.st, sigs, new)
  <2>1. /\ sigs \in {Leave, Turn} /\ ctx.mem.pos /\ m.pos = (sigs # Leave)
        /\ worker'.pc = "publish" /\ ~unsaved' /\ redis' = redis /\ new = worker.st
    <3>1. /\ sigs \in {Leave, Turn}
          /\ worker'.pc = "publish" /\ ~unsaved' /\ redis' = redis /\ new = worker.st
      BY <1>4, <1>8 DEF Leaves
    <3>2. m.pos \in BOOLEAN
      BY DEF States
    <3>3. CASE sigs = Leave
      <4>1. ctx.mem.pos /\ ~m.pos
        BY <1>3, <3>3 DEF Decided
      <4>2. QED
        BY <3>1, <3>2, <3>3, <4>1
    <3>4. CASE sigs = Turn /\ sigs # Leave
      <4>1. ctx.mem.pos /\ m.pos
        BY <1>3, <3>4 DEF Decided
      <4>2. QED
        BY <3>1, <3>2, <3>4, <4>1
    <3>5. QED
      BY <3>1, <3>3, <3>4, SignalFacts
  <2>2. Opened(new.entry)
    BY <1>2, <1>4, <2>1 DEF Position
  <2>3. Underway'
    BY <1>1, <1>2, <1>5, <2>1, <2>2, SignalFacts, PositionsKept DEF Underway
  <2>4. Position(redis.state.pos, redis.entry)'
    BY <1>1, <1>2, <1>4, <2>1, PositionsKept
  <2>5. QED
    BY <1>2, <1>6, <2>1, <2>3, <2>4 DEF PosInv, Publishing
<1>9. CASE Keeps(m, worker.st, sigs, new)
  <2>1. /\ m.pos = ctx.mem.pos /\ new.entry = ctx.stored.entry /\ new.state = m
        /\ worker'.pc = "saved" /\ ~unsaved' /\ redis' = new
    BY <1>2, <1>3, <1>9 DEF Keeps, Decided
  <2>2. Position(m.pos, new.entry)'
    BY <1>1, <1>4, <2>1, PositionsKept
  <2>3. QED
    BY <1>2, <1>5, <1>6, <2>1, <2>2, NoneAssumption DEF PosInv, Publishing
<1>10. CASE Skips(m, worker.st, sigs, new)
  <2>1. /\ m.pos = ctx.mem.pos /\ new = ctx.stored
        /\ worker'.pc = "ack" /\ ~unsaved' /\ redis' = redis
    BY <1>2, <1>3, <1>4, <1>10 DEF Skips, Decided
  <2>2. Position(m.pos, new.entry)' /\ Position(redis.state.pos, redis.entry)'
    BY <1>1, <1>2, <1>4, <2>1, PositionsKept
  <2>3. QED
    BY <1>2, <1>5, <1>6, <2>1, <2>2 DEF PosInv, Publishing
<1>11. QED
  BY <1>3, <1>7, <1>8, <1>9, <1>10 DEF Proceeds

LEMMA PosPublished ==
  ASSUME TypeInv, CohInv, PosInv, torn = {}, ~removes, Published
  PROVE  PosInv'
<1>1. /\ UNCHANGED <<torn, removes, active, main, orders, closed>> /\ worker.pc = "published"
  BY ProceedEffect DEF Published
<1>2. /\ Live /\ Live' /\ main # "save" /\ worker.own
      /\ redis = worker.prev /\ ctx.bytes = worker.prev.state
      /\ redis \in Stored /\ redis # None
  BY <1>1, NoneAssumption
     DEF TypeInv, Shape, TaskOK, Live, CohInv, Settled, Decision, Deciding, Holding, Publishing
<1>3. PICK st \in Stored, sigs \in {Enter, Done}, new \in Stored :
        /\ Proceeds(ctx.mem, st, sigs, new)
        /\ \/ worker.todo = Enter /\ st = worker.st /\ sigs = Done
           \/ worker.todo = Leave /\ st.entry = 0 /\ sigs = Done
           \/ worker.todo = Turn /\ st.entry = 0 /\ sigs = Enter
  BY PublishedFacts
<1>4. /\ Alternates /\ Underway
  BY <1>1 DEF PosInv, Publishing
<1>5. /\ worker'.todo = sigs /\ worker'.prev = worker.prev /\ worker'.st = new
      /\ ctx'.mem = ctx.mem /\ ctx'.stored = new
  BY <1>2, <1>3 DEF Proceeds, CtxAt, WorkerAt
<1>6. Alternates'
  BY <1>1, <1>4, PositionsKept
<1>7. CASE Arms(st, sigs, new)
  <2>1. /\ sigs = Enter /\ worker.todo = Turn /\ ctx.mem.pos /\ unsaved
        /\ worker'.pc = "publish" /\ unsaved' = unsaved /\ new.entry = ids + 1
    BY <1>1, <1>3, <1>4, <1>7, SignalFacts DEF Arms, Underway
  <2>2. Fresh(new.entry) /\ worker.prev.entry < new.entry
    BY <1>2, <2>1, OrderFacts, StateFacts, StoredFields DEF Fresh, StateOK, KnownIds
  <2>3. Flat
    BY <1>1, <1>4, <2>1, SignalFacts DEF Underway, Flat
  <2>4. Underway'
    BY <1>1, <1>2, <1>5, <2>1, <2>2, <2>3, SignalFacts, PositionsKept DEF Underway
  <2>5. QED
    BY <1>2, <1>6, <2>1, <2>4 DEF PosInv, Publishing
<1>8. CASE Leaves(st, sigs, new)
  BY <1>3, <1>8, SignalFacts DEF Leaves
<1>9. CASE Keeps(ctx.mem, st, sigs, new)
  <2>1. /\ new.entry = st.entry /\ new.state = ctx.mem
        /\ worker'.pc = "saved" /\ ~unsaved' /\ redis' = new
        /\ worker.todo \in {Enter, Leave}
    BY <1>3, <1>9, SignalFacts DEF Keeps
  <2>2. Position(ctx.mem.pos, new.entry)
    <3>1. CASE worker.todo = Enter
      BY <1>1, <1>3, <1>4, <2>1, <3>1, SignalFacts DEF Underway, Position, Opened
    <3>2. CASE worker.todo = Leave
      BY <1>1, <1>3, <1>4, <2>1, <3>2, SignalFacts DEF Underway, Position, Flat
    <3>3. QED
      BY <2>1, <3>1, <3>2
  <2>3. Position(ctx.mem.pos, new.entry)'
    BY <1>1, <1>5, <2>2, PositionsKept
  <2>4. QED
    BY <1>2, <1>5, <1>6, <2>1, <2>3, NoneAssumption DEF PosInv, Publishing
<1>10. CASE Skips(ctx.mem, st, sigs, new)
  <2>1. /\ ctx.mem = worker.prev.state /\ st.entry = worker.prev.entry /\ sigs = Done
    BY <1>2, <1>10 DEF Skips
  <2>2. CASE worker.todo = Enter
    <3>1. worker.prev.entry < worker.prev.entry /\ worker.prev.entry \in Nat
      BY <1>2, <1>3, <1>4, <2>1, <2>2, SignalFacts, StoredFields DEF Underway
    <3>2. QED
      BY <3>1
  <2>3. CASE worker.todo = Leave
    BY <1>4, <2>1, <2>3, SignalFacts DEF Underway
  <2>4. QED
    BY <1>3, <2>1, <2>2, <2>3, SignalFacts
<1>11. QED
  BY <1>3, <1>7, <1>8, <1>9, <1>10 DEF Proceeds

LEMMA PosStore ==
  ASSUME TypeInv, CohInv, PosInv, torn = {}, ~removes, StoreOrder
  PROVE  PosInv'
<1>1. /\ worker.pc = "publish" /\ worker'.pc = "published" /\ worker'.prev = worker.prev
      /\ worker'.st = worker.st /\ worker'.todo = worker.todo /\ unsaved'
      /\ UNCHANGED <<ctx, closed, torn, removes>>
  BY StoreEffect
<1>2. Alternates /\ Underway
  BY <1>1 DEF PosInv, Publishing
<1> DEFINE n == Len(orders')
<1>3. /\ n = Len(orders) + 1 /\ n \in DOMAIN orders' /\ Len(orders) \in Nat
      /\ \A i : i \in DOMAIN orders' <=> i \in DOMAIN orders \/ i = n
      /\ \A i \in DOMAIN orders : i < n /\ orders'[i] = orders[i]
      /\ orders'[n].cond = Head(worker.todo) /\ orders'[n].entry = worker.st.entry
      /\ DOMAIN orders = 1 .. Len(orders) /\ orders # <<>> => Len(orders) \in DOMAIN orders
      /\ orders = <<>> => Len(orders) = 0
      /\ orders # <<>> => Len(orders) > 0
  BY StoredOrder, OrderFacts
<1>4. /\ Last' = orders'[n]
      /\ orders # <<>> => n > 1 /\ orders'[n - 1] = Last
      /\ orders' # <<>>
  <2>1. Last' = orders'[n]
    BY DEF Last
  <2>2. orders # <<>> => n - 1 = Len(orders)
    BY <1>3
  <2>3. orders # <<>> => n > 1 /\ orders'[n - 1] = Last
    <3> HIDE DEF n
    <3>1. QED
      BY <1>3, <2>2 DEF Last
  <2>4. orders' # <<>>
    BY <1>3
  <2>5. QED
    BY <2>1, <2>3, <2>4
<1>5. Underway'
  BY <1>1, <1>2, <1>3, <1>4 DEF Underway
<1>6. worker.todo \in {Leave, Turn} \/ worker.todo = Enter
  BY StoredOrder DEF Signals
<1>7. Alternates'
  <2> SUFFICES ASSUME NEW i \in DOMAIN orders'
               PROVE  /\ orders'[i].cond = "EXIT" =>
                           i > 1 /\ orders'[i - 1].cond = "ENTRY" /\ orders'[i - 1].entry = orders'[i].entry
                      /\ orders'[i].cond = "ENTRY" /\ i > 1 =>
                           orders'[i - 1].cond = "EXIT" \/ orders'[i - 1].entry \in closed
    BY <1>1 DEF Alternates
  <2>1. CASE i \in DOMAIN orders
    <3>1. orders'[i] = orders[i] /\ i \in Nat
      BY <1>3, <2>1
    <3>2. i > 1 => i - 1 \in DOMAIN orders /\ orders'[i - 1] = orders[i - 1]
      BY <1>3, <2>1
    <3>3. QED
      BY <1>2, <2>1, <3>1, <3>2 DEF Alternates
  <2>2. CASE i = n /\ worker.todo \in {Leave, Turn}
    <3>1. orders'[i].cond = "EXIT" /\ orders'[i].entry = worker.st.entry
      BY <1>3, <2>2, SignalFacts
    <3>2. Opened(worker.st.entry)
      BY <1>1, <1>2, <2>2, SignalFacts DEF Underway
    <3>3. QED
      BY <1>4, <2>2, <3>1, <3>2 DEF Opened
  <2>3. CASE i = n /\ worker.todo = Enter
    <3>1. orders'[i].cond = "ENTRY"
      BY <1>3, <2>3, SignalFacts
    <3>2. Flat
      BY <1>1, <1>2, <2>3 DEF Underway
    <3>3. orders = <<>> => ~(n > 1)
      BY <1>3
    <3>4. QED
      BY <1>4, <2>3, <3>1, <3>2, <3>3 DEF Flat
  <2>4. QED
    BY <1>3, <1>6, <2>1, <2>2, <2>3
<1>8. QED
  BY <1>1, <1>5, <1>7 DEF PosInv, Publishing

\* The strategy is put back and the decision with it, or the worker is cancelled
\* when the last order is out.
LEMMA PosEnds ==
  ASSUME TypeInv, CohInv, PosInv, torn' = {}, ~removes, Fail \/ CancelWorker
  PROVE  PosInv'
<1>1. /\ torn = {} /\ UNCHANGED <<removes, redis, orders, closed, unsaved, active>>
      /\ worker'.pc = "none" /\ ctx'.stored = ctx.stored
  BY FailEffect, CancelEffect
<1>2. /\ Alternates
      /\ ~unsaved => /\ redis = None => orders = <<>>
                     /\ redis # None => Position(redis.state.pos, redis.entry)
      /\ Live /\ worker.pc \notin Publishing => Position(ctx.mem.pos, ctx.stored.entry)
      /\ worker.pc \in Publishing => Underway
      /\ unsaved => worker.pc \in Publishing \/ main = "save"
  BY <1>1 DEF PosInv
<1>3. worker.pc \in Publishing => redis = worker.prev /\ ctx.stored = worker.st /\ redis # None
  BY <1>1, NoneAssumption
     DEF CohInv, Settled, Decision, Deciding, Publishing, TypeInv, TaskOK, Holding
<1>4. /\ Alternates' /\ redis' = redis
      /\ ~unsaved' => /\ redis' = None => orders' = <<>>
                      /\ redis' # None => Position(redis.state.pos, redis.entry)'
  <2>1. /\ \A pos, e : Position(pos, e) => Position(pos, e)'
        /\ Alternates => Alternates'
    BY <1>1, PositionsKept
  <2>2. Position(redis.state.pos, redis.entry) => Position(redis.state.pos, redis.entry)'
    BY <1>1, <2>1
  <2>3. QED
    BY <1>1, <1>2, <2>1, <2>2
<1>5. /\ unsaved => main' = "save"
      /\ Live' => Position(ctx'.mem.pos, ctx'.stored.entry)
  <2>1. CASE Fail
    <3>1. ~unsaved
      BY <2>1, FailEffect
    <3>2. CASE worker.pc = "saved"
      BY <1>1, <1>2, <2>1, <3>1, <3>2, FailEffect DEF Live, Publishing
    <3>3. CASE worker.pc = "publish"
      <4>1. /\ Position(worker.prev.state.pos, worker.prev.entry)
            /\ ctx'.mem = worker.prev.state /\ ctx'.stored.entry = worker.st.entry
        BY <1>1, <1>2, <1>3, <2>1, <3>1, <3>3, FailEffect DEF Publishing
      <4>2. CASE worker.todo = Enter
        BY <1>2, <3>1, <3>3, <4>1, <4>2 DEF Underway, Position, Publishing
      <4>3. CASE worker.todo # Enter
        BY <1>2, <3>1, <3>3, <4>1, <4>3 DEF Underway, Position, Publishing, Opened
      <4>4. QED
        BY <3>1, <4>2, <4>3
    <3>4. worker.pc # "published"
      BY <1>2, <3>1 DEF Underway, Publishing
    <3>5. QED
      BY <2>1, <3>2, <3>3, <3>4, FailEffect
  <2>2. CASE CancelWorker
    <3>1. /\ main = "cancel" /\ main' = "save" /\ ctx' = ctx /\ Live
          /\ worker.pc # "publish" /\ (worker.pc = "published" => ~(Len(worker.todo) > 1))
      BY <2>2, CancelEffect DEF Live
    <3>2. CASE worker.pc \notin Publishing
      BY <1>2, <3>1, <3>2
    <3>3. CASE worker.pc = "published"
      <4>1. worker.todo \in {Enter, Leave}
        BY <3>1, <3>3, SignalFacts DEF TypeInv, TaskOK, Publishing, Signals
      <4>2. ctx.stored.entry = worker.st.entry /\ Underway
        BY <1>2, <1>3, <3>3 DEF Publishing
      <4>3. CASE worker.todo = Enter
        BY <3>1, <3>3, <4>2, <4>3, SignalFacts DEF Underway, Position, Opened
      <4>4. CASE worker.todo = Leave
        BY <3>1, <3>3, <4>2, <4>4, SignalFacts DEF Underway, Position, Flat
      <4>5. QED
        BY <3>1, <4>1, <4>3, <4>4
    <3>4. QED
      BY <3>1, <3>2, <3>3 DEF Publishing
  <2>3. QED
    BY <2>1, <2>2
<1>6. Live' => Position(ctx.mem.pos, ctx.stored.entry)'
  BY <1>1, <1>5, PositionsKept
<1>7. QED
  BY <1>1, <1>4, <1>5, <1>6 DEF PosInv, Publishing

LEMMA PosStep == TypeInv /\ CohInv /\ ClosesKnown /\ PosInv /\ [Next]_vars => PosInv'
<1> SUFFICES ASSUME TypeInv, CohInv, ClosesKnown, PosInv, [Next]_vars, torn' = {}, ~removes'
             PROVE  PosInv'
  BY DEF PosInv
<1>0. Shape
  BY DEF TypeInv
<1>1. CASE UNCHANGED <<active, main, ctx, worker, redis, torn, removes, unsaved, orders>>
           /\ closed \subseteq closed'
  <2>1. /\ \A e : Opened(e)' = Opened(e) /\ Fresh(e)' = Fresh(e)
        /\ Flat => Flat'
        /\ \A pos, e : Position(pos, e) => Position(pos, e)'
        /\ Alternates => Alternates' /\ Last' = Last
    BY <1>1, PositionsKept
  <2>2. Underway => Underway'
    BY <1>1, UnderwayKept
  <2>3. /\ Position(redis.state.pos, redis.entry) => Position(redis.state.pos, redis.entry)'
        /\ Position(ctx.mem.pos, ctx.stored.entry) => Position(ctx.mem.pos, ctx.stored.entry)'
    BY <1>1, <2>1
  <2>4. Live' = Live
    BY <1>1 DEF Live
  <2>5. QED
    BY <1>1, <2>1, <2>2, <2>3, <2>4 DEF PosInv, Publishing
<1>2. ASSUME UNCHANGED <<redis, torn, removes, unsaved, orders, closed>>,
             ctx'.mem = ctx.mem, ctx'.stored = ctx.stored,
             worker.pc \notin Publishing, worker'.pc \notin Publishing,
             unsaved => main' = "save", Live' => Live
      PROVE  PosInv'
  <2>1. /\ \A pos, e : Position(pos, e) => Position(pos, e)'
        /\ Alternates => Alternates'
    BY <1>2, PositionsKept
  <2>2. /\ Position(redis.state.pos, redis.entry) => Position(redis.state.pos, redis.entry)'
        /\ Position(ctx.mem.pos, ctx.stored.entry) => Position(ctx.mem.pos, ctx.stored.entry)'
    BY <1>2, <2>1
  <2>3. QED
    BY <1>2, <2>1, <2>2 DEF PosInv
<1>3. CASE Get \/ Ack
  <2>1. ~unsaved
    BY <1>0, <1>3, RestEffect DEF PosInv, Publishing, Shape
  <2>2. QED
    BY <1>2, <1>3, <2>1, RestEffect DEF Publishing, Live
<1>4. CASE Acquire
  <2>1. ~unsaved
    BY <1>0, <1>4, AcquireEffect DEF PosInv, Publishing, Shape
  <2>2. QED
    BY <1>2, <1>4, <2>1, AcquireEffect DEF Publishing, Live
<1>5. CASE Evaluate
  BY <1>5, ProceedEffect, PosEvaluate
<1>6. CASE Published
  BY <1>6, ProceedEffect, PosPublished
<1>7. CASE StoreOrder
  BY <1>7, StoreEffect, PosStore
<1>8. CASE Saved
  <2>1. ~unsaved
    BY <1>0, <1>8, SavedEffect DEF PosInv, Publishing, Shape
  <2>2. QED
    BY <1>2, <1>8, <2>1, SavedEffect DEF Publishing, Live
<1>9. CASE Fail \/ CancelWorker
  BY <1>9, FailEffect, CancelEffect, PosEnds
<1>10. CASE Reconcile \/ Unsubscribe \/ DeleteConsumer
  <2>1. UNCHANGED <<torn, removes, unsaved, redis, orders, closed, ctx, worker>>
    BY <1>10, MainEffect
  <2>2. (Live' => Live) /\ main # "save"
    BY <1>10, MainEffect DEF Live
  <2>3. /\ \A e : Opened(e)' = Opened(e) /\ Fresh(e)' = Fresh(e)
        /\ Flat => Flat'
        /\ \A pos, e : Position(pos, e) => Position(pos, e)'
        /\ Alternates => Alternates' /\ Last' = Last
    BY <2>1, PositionsKept
  <2>4. Underway => Underway'
    BY <2>1, UnderwayKept
  <2>5. /\ Position(redis.state.pos, redis.entry) => Position(redis.state.pos, redis.entry)'
        /\ Position(ctx.mem.pos, ctx.stored.entry) => Position(ctx.mem.pos, ctx.stored.entry)'
    BY <2>1, <2>3
  <2>6. QED
    BY <2>1, <2>2, <2>3, <2>4, <2>5 DEF PosInv, Publishing
<1>11. CASE SaveRemoved
  <2>1. PICK kept \in Stored :
           /\ kept.state = ctx.mem /\ kept.entry = ctx.stored.entry
           /\ ~removes => redis' = kept
           /\ ~active /\ main = "save" /\ main' \in {"wait", "load"} /\ worker.pc = "none"
           /\ ~unsaved' /\ UNCHANGED <<removes, active, worker, orders, closed, torn>>
    BY <1>11, SaveEffect
  <2>2. Alternates /\ Position(kept.state.pos, kept.entry)
    BY <2>1 DEF PosInv, Publishing, Live
  <2>3. Alternates' /\ Position(kept.state.pos, kept.entry)'
    BY <2>1, <2>2, PositionsKept
  <2>4. redis' = kept /\ redis' # None /\ ~Live'
    BY <2>1, NoneAssumption DEF Live
  <2>5. QED
    BY <2>1, <2>3, <2>4 DEF PosInv, Publishing
<1>12. CASE Load
  <2>1. PICK st \in Stored :
           /\ redis # None => st = redis
           /\ redis = None => st.entry = 0 /\ ~st.state.pos
           /\ redis' = st /\ ctx'.stored = st /\ ctx'.mem = st.state
           /\ main = "load" /\ worker.pc = "none"
           /\ UNCHANGED <<removes, worker, orders, closed, torn, unsaved>>
    BY <1>12, LoadEffect
  <2>2. Alternates /\ ~unsaved
    BY <2>1 DEF PosInv, Publishing
  <2>3. Position(st.state.pos, st.entry)
    <3>1. CASE redis = None
      BY <2>1, <2>2, <3>1 DEF PosInv, Position, Flat
    <3>2. CASE redis # None
      BY <2>1, <2>2, <3>2 DEF PosInv
    <3>3. QED
      BY <3>1, <3>2
  <2>4. Alternates' /\ Position(st.state.pos, st.entry)'
    BY <2>1, <2>2, <2>3, PositionsKept
  <2>5. redis' # None
    BY <2>1, NoneAssumption
  <2>6. QED
    BY <2>1, <2>2, <2>4, <2>5 DEF PosInv, Publishing
<1>13. CASE Subscribe
  <2>1. ~unsaved
    BY <1>13, SubscribeEffect DEF PosInv, Publishing
  <2>2. QED
    BY <1>2, <1>13, <2>1, SubscribeEffect DEF Publishing, Live
<1>14. ASSUME NEW e \in events, TakeClose(e)  PROVE PosInv'
  BY <1>1, <1>14, TakeEffect
<1>15. CASE ApplyClose
  <2>1. CASE UNCHANGED <<ctx, redis, torn>>
    BY <1>1, <1>15, <2>1, ApplyEffect
  <2>2. ASSUME NEW flat \in Stored,
               ctx.stored.entry = closer.entry, flat.entry = 0, ~flat.state.pos,
               ctx'.mem = flat.state, ctx'.stored = flat, redis' = flat,
               torn' = IF unsaved THEN torn \cup {"lost"} ELSE torn
        PROVE  PosInv'
    <3>1. /\ closer.pc = "lock" /\ worker.pc \notin Publishing /\ Live
          /\ UNCHANGED <<removes, active, main, worker, orders, closed, unsaved>>
      BY <1>15, ApplyEffect DEF Holding, Publishing
    <3>2. torn = {} /\ ~unsaved
      BY <2>2
    <3>3. Alternates /\ Position(ctx.mem.pos, ctx.stored.entry)
      BY <3>1, <3>2 DEF PosInv
    <3>4. closer.entry \in closed
      BY <3>1 DEF TypeInv, TaskOK
    <3>5. closer.entry > 0 /\ \E i \in DOMAIN orders : orders[i].entry = closer.entry
      BY <3>4 DEF ClosesKnown
    <3>6. ~Fresh(closer.entry)
      BY <3>5, OrderFacts DEF Fresh
    <3>7. orders # <<>> /\ Last.entry = closer.entry
      BY <2>2, <3>3, <3>5, <3>6 DEF Position
    <3>8. Position(flat.state.pos, flat.entry)
      BY <2>2, <3>4, <3>7 DEF Position, Flat
    <3>9. Alternates' /\ Position(flat.state.pos, flat.entry)'
      BY <3>1, <3>3, <3>8, PositionsKept
    <3>10. redis' # None
      BY <2>2, NoneAssumption
    <3>11. QED
      BY <2>2, <3>1, <3>2, <3>9, <3>10 DEF PosInv
  <2>3. QED
    BY <1>15, <2>1, <2>2, ApplyEffect
<1>16. CASE CloseSaved
  <2>1. UNCHANGED <<redis, torn, removes, unsaved, orders, closed, active, main, worker>>
        /\ ctx'.mem = ctx.mem /\ ctx'.stored = ctx.stored
    BY <1>16, CloseSavedEffect
  <2>2. /\ \A e : Opened(e)' = Opened(e) /\ Fresh(e)' = Fresh(e)
        /\ Flat => Flat'
        /\ \A pos, e : Position(pos, e) => Position(pos, e)'
        /\ Alternates => Alternates' /\ Last' = Last
    BY <2>1, PositionsKept
  <2>3. Underway => Underway'
    BY <2>1, UnderwayKept
  <2>4. /\ Position(redis.state.pos, redis.entry) => Position(redis.state.pos, redis.entry)'
        /\ Position(ctx.mem.pos, ctx.stored.entry) => Position(ctx.mem.pos, ctx.stored.entry)'
    BY <2>1, <2>2
  <2>5. Live' = Live
    BY <2>1 DEF Live
  <2>6. QED
    BY <2>1, <2>2, <2>3, <2>4, <2>5 DEF PosInv, Publishing
<1>17. CASE ResetDelete \/ ResetPattern \/ ResetSwap
  <2>1. torn = {}
    BY <1>17, ResetEffect, SwapEffect
  <2>2. reset = "idle"
    BY <2>1 DEF CohInv
  <2>3. QED
    BY <1>17, <2>1, <2>2, ResetEffect, SwapEffect
<1>18. CASE Crash \/ Exit
  <2>1. /\ torn = {} /\ ~unsaved /\ ~unsaved' /\ ~Live' /\ worker'.pc = "none"
        /\ UNCHANGED <<removes, redis, orders, closed>>
    BY <1>18, StopEffect, NoWorkerFacts DEF Live
  <2>2. Alternates /\ (redis = None => orders = <<>>)
        /\ (redis # None => Position(redis.state.pos, redis.entry))
    BY <2>1 DEF PosInv
  <2>3. Alternates' /\ (redis # None => Position(redis.state.pos, redis.entry)')
    BY <2>1, <2>2, PositionsKept
  <2>4. QED
    BY <2>1, <2>2, <2>3 DEF PosInv, Publishing
<1>19. ASSUME NEW e \in 1 .. ids, ClosePosition(e)  PROVE PosInv'
  BY <1>1, <1>19, ExternalEffect
<1>20. CASE \/ EditConfig \/ PublishKline \/ (\E c \in Candles : AckWaitExpires(c))
            \/ (\E c \in Candles : Handle(c)) \/ UNCHANGED vars
  BY <1>1, <1>20, Frames DEF frame
<1>21. QED
  BY <1>3, <1>4, <1>5, <1>6, <1>7, <1>8, <1>9, <1>10, <1>11, <1>12, <1>13, <1>14, <1>15,
     <1>16, <1>17, <1>18, <1>19, <1>20, StepForms

LEMMA PosInit == Init => PosInv
  BY NoWorkerFacts DEF Init, PosInv, Alternates, Live, Publishing

LEMMA PosAlways == Spec => []PosInv
  BY PosInit, PosStep, TypeAlways, CohAlways, ClosesAlways, PTL DEF Spec

\* One position at a time: an EXIT follows the ENTRY it names and an ENTRY an EXIT
\* or a close from outside, over any number of candles, restarts, reconciliations
\* and closes, as long as no failure tore a decision from its save.
THEOREM OneAtATime == Spec => []OnePosition
<1>1. TypeInv /\ PosInv => OnePosition
  <2> SUFFICES ASSUME TypeInv, PosInv, torn = {}, ~removes, NEW i \in DOMAIN orders
               PROVE  IF orders[i].cond = "EXIT"
                      THEN i > 1 /\ orders[i - 1].cond = "ENTRY" /\ orders[i - 1].entry = orders[i].entry
                      ELSE i > 1 => orders[i - 1].cond = "EXIT" \/ orders[i - 1].entry \in closed
    BY DEF OnePosition
  <2>1. Alternates
    BY DEF PosInv
  <2>2. orders[i].cond = "EXIT" \/ orders[i].cond = "ENTRY"
    BY OrderFacts
  <2>3. QED
    BY <2>1, <2>2 DEF Alternates
<1>2. QED
  BY <1>1, TypeAlways, PosAlways, PTL

-----------------------------------------------------------------------------
\* A close that was taken note of is never undone.

\* The strategy was told of the close, or is being told.
Handled(e) ==
  \/ e \in (closed \ events) \ missed
  \/ closer.pc \in {"saved", "orphan"} /\ e = closer.entry

\* Nothing remembers the position as open, or is about to close it.
Unclosed(e) ==
  /\ Live => ~(ctx.mem.pos /\ ctx.stored.entry = e)
  /\ ~unsaved => redis = None \/ ~(redis.state.pos /\ redis.entry = e)
  /\ worker.pc \in Publishing => worker.st.entry # e

\* A decision on its way out, whose candle may have been delivered before.
Sending ==
  /\ ctx.mem.pos = (worker.todo # Leave)
  /\ worker.todo = Enter => worker.prev.entry < worker.st.entry
  /\ worker.todo # Enter => worker.prev.state.pos
  /\ worker.pc = "publish" =>
       /\ worker.todo # Enter => ~unsaved /\ worker.st.entry = worker.prev.entry
       /\ worker.todo = Enter /\ ~unsaved => ~worker.prev.state.pos
  /\ worker.pc = "published" => unsaved

\* The entry Redis holds open is the pair_ctx's.
SameEntry ==
  Live /\ ~unsaved /\ redis # None /\ redis.state.pos => redis.entry = ctx.stored.entry

ClosedInv ==
  torn \subseteq {"cancel"} =>
    /\ unsaved => worker.pc \in Publishing \/ main = "save"
    /\ worker.pc \in Publishing => Sending
    /\ worker.pc \notin Holding => SameEntry
    /\ \A e \in closed : Handled(e) => Unclosed(e)

\* Only an event the closer deals with becomes handled.
LEMMA HandledKept ==
  ASSUME TypeInv,
         \/ Get \/ Acquire \/ Evaluate \/ StoreOrder \/ Published \/ Saved \/ Ack \/ Fail
         \/ Reconcile \/ Unsubscribe \/ DeleteConsumer \/ CancelWorker \/ SaveRemoved
         \/ Load \/ Subscribe
         \/ (\E x \in events : TakeClose(x)) \/ CloseSaved
         \/ ResetDelete \/ ResetSwap \/ ResetPattern
         \/ EditConfig \/ PublishKline \/ (\E x \in 1 .. ids : ClosePosition(x))
         \/ (\E c \in Candles : AckWaitExpires(c)) \/ (\E c \in Candles : Handle(c))
         \/ Crash \/ Exit
         \/ UNCHANGED vars
  PROVE  \A e \in closed' : Handled(e)' => e \in closed /\ Handled(e)
<1> SUFFICES ASSUME NEW e \in closed', Handled(e)'  PROVE e \in closed /\ Handled(e)
  OBVIOUS
<1>1. CASE UNCHANGED <<closed, events, missed, closer>>
  BY <1>1 DEF Handled
<1>2. CASE \/ Get \/ Ack \/ Acquire \/ Evaluate \/ Published \/ StoreOrder \/ Saved \/ Fail
  BY <1>1, <1>2, RestEffect, AcquireEffect, ProceedEffect, StoreEffect, SavedEffect, FailEffect
<1>3. CASE Reconcile \/ Unsubscribe \/ DeleteConsumer \/ CancelWorker \/ SaveRemoved \/ Subscribe
  BY <1>1, <1>3, MainEffect, CancelEffect, SaveEffect, SubscribeEffect
<1>4. CASE Load
  BY <1>4, LoadEffect DEF Handled
<1>5. ASSUME NEW x \in events, TakeClose(x)  PROVE e \in closed /\ Handled(e)
  BY <1>5, TakeEffect DEF Handled
<1>6. CASE CloseSaved
  BY <1>6, CloseSavedEffect DEF Handled
<1>7. CASE ResetDelete \/ ResetSwap \/ ResetPattern
  BY <1>1, <1>7, ResetEffect, SwapEffect
<1>8. CASE Crash \/ Exit
  BY <1>8, StopEffect DEF Handled, NoCloser
<1>9. ASSUME NEW x \in 1 .. ids, ClosePosition(x)  PROVE e \in closed /\ Handled(e)
  BY <1>9, ExternalEffect DEF Handled, TypeInv, TypeOK, TaskOK
<1>10. CASE \/ EditConfig \/ PublishKline \/ (\E c \in Candles : AckWaitExpires(c))
            \/ (\E c \in Candles : Handle(c)) \/ UNCHANGED vars
  BY <1>1, <1>10, Frames DEF frame
<1>11. QED
  BY <1>2, <1>3, <1>4, <1>5, <1>6, <1>7, <1>8, <1>9, <1>10

\* A step that handles no close, of what is handled already.
LEMMA ClosedProceeds ==
  ASSUME TypeInv, CohInv, ClosedInv, torn \subseteq {"cancel"}, Evaluate \/ Published
  PROVE  ClosedInv'
<1>1. UNCHANGED <<torn, active, main>> /\ worker.pc \in {"evaluate", "published"}
  BY ProceedEffect DEF Evaluate, Published
<1>2. /\ Live /\ Live' /\ main # "save" /\ worker.own
      /\ redis = worker.prev /\ ctx.bytes = worker.prev.state /\ ctx.stored = worker.st
      /\ redis \in Stored /\ redis # None /\ worker.st \in Stored
  BY <1>1, NoneAssumption
     DEF TypeInv, Shape, TaskOK, Live, CohInv, Settled, Decision, Deciding, InStep, Holding,
         Publishing
<1>3. ASSUME NEW e \in closed', Handled(e)'
      PROVE  /\ e \in Nat /\ e <= ids
             /\ ~(ctx.mem.pos /\ ctx.stored.entry = e)
             /\ ~unsaved => ~(redis.state.pos /\ redis.entry = e)
             /\ worker.pc \in Publishing => worker.st.entry # e
  <2>3. e \in closed /\ Handled(e)
    BY <1>3, HandledKept
  <2>4. e \in Nat /\ e <= ids
    BY <2>3 DEF TypeInv, TypeOK, Ids
  <2>5. QED
    BY <1>2, <2>3, <2>4 DEF ClosedInv, Unclosed
<1>4. CASE Evaluate
  <2>1. worker.pc = "evaluate" /\ ~unsaved /\ ctx.mem = worker.prev.state /\ worker.st = worker.prev
    BY <1>1, <1>2, <1>4 DEF Evaluate, CohInv, Settled, Decision, InStep, ClosedInv, Publishing
  <2>2. PICK m \in States, sigs \in Signals \cup {Done}, new \in Stored :
          Decided(ctx.mem, worker.candle, m, sigs) /\ Proceeds(m, worker.st, sigs, new)
    BY <1>4, EvaluateFacts
  <2>3. /\ worker'.todo = sigs /\ worker'.prev = worker.prev /\ worker'.st = new
        /\ ctx'.mem = m /\ ctx'.stored = new
    BY <1>2, <2>2 DEF Proceeds, CtxAt, WorkerAt
  <2>4. CASE Arms(worker.st, sigs, new)
    <3>1. /\ sigs = Enter /\ ~ctx.mem.pos /\ m.pos = TRUE
          /\ worker'.pc = "publish" /\ ~unsaved' /\ redis' = redis /\ new.entry = ids + 1
      BY <2>1, <2>2, <2>4 DEF Arms, Decided, States
    <3>2. worker.prev.entry < new.entry
      BY <1>2, <3>1, StateFacts, StoredFields DEF TypeInv, KnownIds
    <3>3. Sending'
      BY <2>1, <2>3, <3>1, <3>2, SignalFacts DEF Sending
    <3>4. ASSUME NEW e \in closed', Handled(e)'  PROVE Unclosed(e)'
      BY <1>3, <2>1, <2>3, <3>1, <3>4, StateFacts DEF Unclosed
    <3>5. QED
      BY <3>1, <3>3, <3>4 DEF ClosedInv, Publishing, Holding
  <2>5. CASE Leaves(worker.st, sigs, new)
    <3>1. /\ sigs \in {Leave, Turn} /\ new = worker.st
          /\ worker'.pc = "publish" /\ ~unsaved' /\ redis' = redis
      BY <2>1, <2>5 DEF Leaves
    <3>2. ctx.mem.pos /\ (sigs = Leave => ~m.pos) /\ (sigs = Turn => m.pos) /\ m.pos \in BOOLEAN
      BY <2>2, <3>1 DEF Decided, States
    <3>3. Sending'
      <4>1. CASE sigs = Leave
        BY <2>1, <2>3, <3>1, <3>2, <4>1, SignalFacts DEF Sending
      <4>2. CASE sigs = Turn
        BY <2>1, <2>3, <3>1, <3>2, <4>2, SignalFacts DEF Sending
      <4>3. QED
        BY <3>1, <4>1, <4>2
    <3>4. ASSUME NEW e \in closed', Handled(e)'  PROVE Unclosed(e)'
      BY <1>2, <1>3, <2>1, <2>3, <3>1, <3>2, <3>4 DEF Unclosed
    <3>5. QED
      BY <3>1, <3>3, <3>4 DEF ClosedInv, Publishing, Holding
  <2>6. CASE Keeps(m, worker.st, sigs, new)
    <3>1. /\ m.pos = ctx.mem.pos /\ new.entry = ctx.stored.entry /\ new.state = m
          /\ worker'.pc = "saved" /\ ~unsaved' /\ redis' = new
      BY <1>2, <2>2, <2>6 DEF Keeps, Decided
    <3>2. ASSUME NEW e \in closed', Handled(e)'  PROVE Unclosed(e)'
      BY <1>3, <2>3, <3>1, <3>2 DEF Unclosed, Publishing
    <3>3. QED
      BY <3>1, <3>2 DEF ClosedInv, Publishing, Holding
  <2>7. CASE Skips(m, worker.st, sigs, new)
    <3>1. /\ m.pos = ctx.mem.pos /\ new = ctx.stored
          /\ worker'.pc = "ack" /\ ~unsaved' /\ redis' = redis
      BY <1>2, <2>1, <2>2, <2>7 DEF Skips, Decided
    <3>2. ASSUME NEW e \in closed', Handled(e)'  PROVE Unclosed(e)'
      BY <1>3, <2>1, <2>3, <3>1, <3>2 DEF Unclosed, Publishing
    <3>3. SameEntry'
      BY <1>2, <2>1, <2>3, <3>1 DEF SameEntry
    <3>4. QED
      BY <3>1, <3>2, <3>3 DEF ClosedInv, Publishing, Holding
  <2>8. QED
    BY <2>2, <2>4, <2>5, <2>6, <2>7 DEF Proceeds
<1>5. CASE Published
  <2>1. worker.pc = "published" /\ unsaved /\ Sending
    BY <1>5 DEF Published, ClosedInv, Publishing, Sending
  <2>2. PICK st \in Stored, sigs \in {Enter, Done}, new \in Stored :
          /\ Proceeds(ctx.mem, st, sigs, new)
          /\ \/ worker.todo = Enter /\ st = worker.st /\ sigs = Done
             \/ worker.todo = Leave /\ st.entry = 0 /\ sigs = Done
             \/ worker.todo = Turn /\ st.entry = 0 /\ sigs = Enter
    BY <1>5, PublishedFacts
  <2>3. /\ worker'.todo = sigs /\ worker'.prev = worker.prev /\ worker'.st = new
        /\ ctx'.mem = ctx.mem /\ ctx'.stored = new
    BY <1>2, <2>2 DEF Proceeds, CtxAt, WorkerAt
  <2>4. CASE Arms(st, sigs, new)
    <3>1. /\ sigs = Enter /\ worker.todo = Turn
          /\ worker'.pc = "publish" /\ unsaved' = unsaved /\ new.entry = ids + 1
      BY <2>2, <2>4, SignalFacts DEF Arms
    <3>2. worker.prev.entry < new.entry
      BY <1>2, <3>1, StateFacts, StoredFields DEF TypeInv, KnownIds
    <3>3. ctx.mem.pos = TRUE
      BY <2>1, <3>1, SignalFacts DEF Sending
    <3>4. Sending'
      BY <2>1, <2>3, <3>1, <3>2, <3>3, SignalFacts DEF Sending
    <3>5. ASSUME NEW e \in closed', Handled(e)'  PROVE Unclosed(e)'
      BY <1>3, <2>1, <2>3, <3>1, <3>5, StateFacts DEF Unclosed
    <3>6. QED
      BY <3>1, <3>4, <3>5 DEF ClosedInv, Publishing, Holding
  <2>5. CASE Leaves(st, sigs, new)
    BY <2>2, <2>5, SignalFacts DEF Leaves
  <2>6. CASE Keeps(ctx.mem, st, sigs, new)
    <3>1. /\ new.entry = st.entry /\ new.state = ctx.mem
          /\ worker'.pc = "saved" /\ ~unsaved' /\ redis' = new
          /\ worker.todo = Leave \/ (worker.todo = Enter /\ st = worker.st)
      BY <2>2, <2>6, SignalFacts DEF Keeps
    <3>2. worker.todo = Leave => ~ctx.mem.pos
      BY <2>1 DEF Sending
    <3>3. ASSUME NEW e \in closed', Handled(e)'  PROVE Unclosed(e)'
      <4>1. ~(ctx.mem.pos /\ new.entry = e)
        BY <1>3, <2>1, <3>1, <3>2, <3>3 DEF Publishing
      <4>2. QED
        BY <2>3, <3>1, <4>1 DEF Unclosed, Publishing
    <3>4. QED
      BY <3>1, <3>3 DEF ClosedInv, Publishing, Holding
  <2>7. CASE Skips(ctx.mem, st, sigs, new)
    <3>1. ctx.mem = worker.prev.state /\ st.entry = worker.prev.entry /\ sigs = Done
      BY <1>2, <2>7 DEF Skips
    <3>2. CASE worker.todo = Enter
      <4>1. worker.prev.entry < worker.prev.entry /\ worker.prev.entry \in Nat
        BY <1>2, <2>1, <2>2, <3>1, <3>2, SignalFacts, StoredFields DEF Sending
      <4>2. QED
        BY <4>1
    <3>3. CASE worker.todo = Leave
      BY <2>1, <3>1, <3>3, SignalFacts DEF Sending
    <3>4. QED
      BY <2>2, <3>1, <3>2, <3>3, SignalFacts
  <2>8. QED
    BY <2>2, <2>4, <2>5, <2>6, <2>7 DEF Proceeds
<1>6. QED
  BY <1>4, <1>5

\* What is remembered does not change, or only the worker that remembered it ends.
LEMMA ClosedKept ==
  ASSUME TypeInv, ClosedInv, torn \subseteq {"cancel"},
         UNCHANGED <<redis, unsaved>>, ctx'.mem = ctx.mem, ctx'.stored = ctx.stored,
         Live' => Live, unsaved => main' = "save",
         worker'.pc \notin Publishing,
         worker'.pc \notin Holding =>
           worker.pc \notin Holding \/ (redis # None /\ redis.state.pos /\ ~unsaved
                                          => redis.entry = ctx.stored.entry),
         \A e \in closed' : Handled(e)' => e \in closed /\ Handled(e)
  PROVE  ClosedInv'
<1>1. \A e \in closed' : Handled(e)' => Unclosed(e)'
  BY DEF ClosedInv, Unclosed
<1>2. worker'.pc \notin Holding => SameEntry'
  BY DEF ClosedInv, SameEntry
<1>3. QED
  BY <1>1, <1>2 DEF ClosedInv

LEMMA ClosedStep == TypeInv /\ CohInv /\ ClosedInv /\ [Next]_vars => ClosedInv'
<1> SUFFICES ASSUME TypeInv, CohInv, ClosedInv, [Next]_vars, torn' \subseteq {"cancel"}
             PROVE  ClosedInv'
  BY DEF ClosedInv
<1>0. Shape
  BY DEF TypeInv
<1>1. ASSUME torn' = torn
      PROVE  torn \subseteq {"cancel"}
  BY <1>1
<1>2. ASSUME UNCHANGED <<main, worker, redis, torn, unsaved>>,
             Live' => Live, ctx'.mem = ctx.mem, ctx'.stored = ctx.stored,
             \A e \in closed' : Handled(e)' => e \in closed /\ Handled(e)
      PROVE  ClosedInv'
  <2>1. torn \subseteq {"cancel"}
    BY <1>1, <1>2
  <2>2. \A e \in closed' : Handled(e)' => Unclosed(e)'
    BY <1>2, <2>1 DEF ClosedInv, Unclosed
  <2>3. SameEntry => SameEntry'
    BY <1>2 DEF SameEntry
  <2>4. (ctx.mem.pos = (worker.todo # Leave))' = (ctx.mem.pos = (worker.todo # Leave))
    BY <1>2
  <2>5. Sending => Sending'
    BY <1>2, <2>4 DEF Sending
  <2>6. QED
    BY <1>2, <2>1, <2>2, <2>3, <2>5 DEF ClosedInv
<1>3. CASE Get \/ Ack
  <2>1. /\ UNCHANGED <<torn, unsaved, redis, ctx, active, main>>
        /\ worker.pc \in {"idle", "ack"} /\ worker'.pc \in {"none", "idle", "lock"}
    BY <1>3, RestEffect
  <2>2. torn \subseteq {"cancel"} /\ \A e \in closed' : Handled(e)' => e \in closed /\ Handled(e)
    BY <1>1, <1>3, <2>1, HandledKept
  <2>3. ~unsaved /\ worker.pc \notin Holding /\ worker'.pc \notin Publishing
    BY <1>0, <2>1, <2>2 DEF ClosedInv, Publishing, Holding, Shape
  <2>4. QED
    BY <2>1, <2>2, <2>3, ClosedKept DEF Live
<1>4. CASE Acquire
  <2>1. /\ UNCHANGED <<torn, unsaved, redis, ctx, active, main>>
        /\ worker.pc = "lock" /\ worker'.pc = "evaluate"
    BY <1>4, AcquireEffect
  <2>2. torn \subseteq {"cancel"} /\ \A e \in closed' : Handled(e)' => e \in closed /\ Handled(e)
    BY <1>1, <1>4, <2>1, HandledKept
  <2>3. ~unsaved /\ worker.pc \notin Holding /\ worker'.pc \notin Publishing
    BY <1>0, <2>1, <2>2 DEF ClosedInv, Publishing, Holding, Shape
  <2>4. QED
    BY <2>1, <2>2, <2>3, ClosedKept DEF Live
<1>5. CASE Evaluate \/ Published
  BY <1>1, <1>5, ProceedEffect, ClosedProceeds
<1>6. CASE StoreOrder
  <2>1. /\ worker.pc = "publish" /\ worker'.pc = "published" /\ worker'.prev = worker.prev
        /\ worker'.st = worker.st /\ worker'.todo = worker.todo /\ unsaved'
        /\ UNCHANGED <<torn, active, main, ctx, redis>>
    BY <1>6, StoreEffect
  <2>2. torn \subseteq {"cancel"} /\ \A e \in closed' : Handled(e)' => e \in closed /\ Handled(e)
    BY <1>1, <1>6, <2>1, HandledKept
  <2>3. Sending
    BY <2>1, <2>2 DEF ClosedInv, Publishing
  <2>4. Sending'
    BY <2>1, <2>3 DEF Sending
  <2>5. \A e \in closed' : Handled(e)' => Unclosed(e)'
    BY <2>1, <2>2 DEF ClosedInv, Unclosed, Live, Publishing
  <2>6. QED
    BY <2>1, <2>4, <2>5 DEF ClosedInv, Publishing, Holding
<1>7. CASE Saved
  <2>1. /\ UNCHANGED <<torn, unsaved, redis, active, main>>
        /\ ctx'.mem = ctx.mem /\ ctx'.stored = ctx.stored
        /\ worker.pc = "saved" /\ worker'.pc = "ack"
    BY <1>7, SavedEffect
  <2>2. torn \subseteq {"cancel"} /\ \A e \in closed' : Handled(e)' => e \in closed /\ Handled(e)
    BY <1>1, <1>7, <2>1, HandledKept
  <2>3. ~unsaved /\ worker'.pc \notin Publishing
    BY <1>0, <2>1, <2>2 DEF ClosedInv, Publishing, Shape
  <2>4. redis = ctx.stored
    BY <2>1, <2>2 DEF CohInv, Settled, Decision
  <2>5. QED
    BY <2>1, <2>2, <2>3, <2>4, ClosedKept DEF Live
<1>8. CASE Fail
  <2>1. /\ UNCHANGED <<unsaved, redis, active, main>>
        /\ ctx'.stored = ctx.stored
        /\ worker.pc = "saved" => ctx'.mem = ctx.mem
        /\ worker.pc # "saved" => ctx'.mem = worker.prev.state
        /\ worker.pc \in {"publish", "published", "saved"} /\ worker'.pc = "none"
        /\ torn \subseteq {"cancel"} /\ ~unsaved
    <3>1. torn' = IF unsaved THEN torn \cup {"lost"} ELSE torn
      BY <1>8, FailEffect
    <3>2. ~unsaved
      BY <3>1
    <3>3. torn \subseteq {"cancel"}
      BY <1>1, <3>1, <3>2
    <3>4. QED
      BY <1>8, <3>2, <3>3, FailEffect
  <2>2. \A e \in closed' : Handled(e)' => e \in closed /\ Handled(e)
    BY <1>8, HandledKept
  <2>3. CASE worker.pc = "saved"
    <3>1. redis = ctx.stored
      BY <2>1, <2>3 DEF CohInv, Settled, Decision
    <3>2. QED
      BY <2>1, <2>2, <2>3, <3>1, ClosedKept DEF Live, Publishing
  <2>4. CASE worker.pc # "saved"
    <3>1. Sending /\ worker.pc = "publish" /\ worker.pc \in Publishing
      BY <2>1, <2>4 DEF ClosedInv, Sending, Publishing
    <3>2. redis = worker.prev /\ ctx.stored = worker.st
      BY <2>1, <3>1 DEF CohInv, Settled, Decision, Deciding
    <3>3. worker.prev.state.pos => worker.st.entry = worker.prev.entry
      BY <2>1, <3>1 DEF Sending
    <3>4. ctx'.mem = worker.prev.state
      BY <2>1, <2>4
    <3>5. \A e \in closed' : Handled(e)' => Unclosed(e)'
      BY <2>1, <2>2, <3>1, <3>2, <3>4 DEF ClosedInv, Unclosed, Publishing
    <3>6. SameEntry'
      BY <2>1, <3>2, <3>3 DEF SameEntry
    <3>7. QED
      BY <2>1, <3>5, <3>6 DEF ClosedInv, Publishing
  <2>5. QED
    BY <2>3, <2>4
<1>9. CASE Reconcile \/ Unsubscribe \/ DeleteConsumer
  <2>1. /\ UNCHANGED <<torn, unsaved, redis, ctx, worker>> /\ main # "save"
        /\ Live' => Live
    BY <1>9, MainEffect DEF Live
  <2>2. torn \subseteq {"cancel"} /\ \A e \in closed' : Handled(e)' => e \in closed /\ Handled(e)
    BY <1>1, <1>9, <2>1, HandledKept
  <2>3. \A e \in closed' : Handled(e)' => Unclosed(e)'
    BY <2>1, <2>2 DEF ClosedInv, Unclosed
  <2>4. SameEntry => SameEntry'
    BY <2>1 DEF SameEntry
  <2>5. (ctx.mem.pos = (worker.todo # Leave))' = (ctx.mem.pos = (worker.todo # Leave))
    BY <2>1
  <2>6. Sending => Sending'
    BY <2>1, <2>5 DEF Sending
  <2>7. QED
    BY <2>1, <2>2, <2>3, <2>4, <2>6 DEF ClosedInv
<1>10. CASE CancelWorker
  <2>1. /\ UNCHANGED <<unsaved, redis, ctx, active>> /\ main = "cancel" /\ main' = "save"
        /\ worker'.pc = "none" /\ Live
    BY <1>10, CancelEffect DEF Live
  <2>2. torn \subseteq torn'
    BY <1>10, CancelEffect
  <2>3. torn \subseteq {"cancel"} /\ \A e \in closed' : Handled(e)' => e \in closed /\ Handled(e)
    BY <1>10, <2>2, HandledKept
  <2>4. \/ worker.pc \notin Holding
        \/ redis # None /\ redis.state.pos /\ ~unsaved => redis.entry = ctx.stored.entry
    <3>1. CASE worker.pc \in Publishing
      <4>1. Sending
        BY <2>3, <3>1 DEF ClosedInv
      <4>2. redis = worker.prev /\ ctx.stored = worker.st
        BY <2>3, <3>1 DEF CohInv, Settled, Decision, Deciding, Publishing
      <4>3. QED
        BY <3>1, <4>1, <4>2 DEF Sending, Publishing
    <3>2. CASE worker.pc \in {"evaluate", "saved"}
      BY <2>3, <3>2 DEF CohInv, Settled, Decision, InStep
    <3>3. QED
      BY <3>1, <3>2 DEF Holding, Publishing
  <2>5. QED
    BY <2>1, <2>3, <2>4, ClosedKept DEF Publishing
<1>11. CASE SaveRemoved
  <2>1. PICK kept \in Stored :
           /\ kept.state = ctx.mem /\ kept.entry = ctx.stored.entry
           /\ removes => redis' = None
           /\ ~removes => redis' = kept
           /\ ~active /\ main = "save" /\ main' \in {"wait", "load"} /\ worker.pc = "none"
           /\ ~unsaved' /\ UNCHANGED <<active, worker, torn>>
    BY <1>11, SaveEffect
  <2>2. torn \subseteq {"cancel"} /\ \A e \in closed' : Handled(e)' => e \in closed /\ Handled(e)
    BY <1>1, <1>11, <2>1, HandledKept
  <2>3. Live /\ ~Live'
    BY <2>1 DEF Live
  <2>4. redis' = None \/ redis' = kept
    BY <2>1
  <2>5. \A e \in closed' : Handled(e)' => Unclosed(e)'
    BY <2>1, <2>2, <2>3, <2>4 DEF ClosedInv, Unclosed, Publishing
  <2>6. QED
    BY <2>1, <2>3, <2>5 DEF ClosedInv, SameEntry, Publishing
<1>12. CASE Load
  <2>1. PICK st \in Stored :
           /\ redis # None => st = redis
           /\ redis = None => st.entry = 0 /\ ~st.state.pos
           /\ redis' = st /\ ctx'.stored = st /\ ctx'.mem = st.state
           /\ main = "load" /\ worker.pc = "none"
           /\ UNCHANGED <<worker, torn, unsaved>>
    BY <1>12, LoadEffect
  <2>2. torn \subseteq {"cancel"} /\ \A e \in closed' : Handled(e)' => e \in closed /\ Handled(e)
    BY <1>1, <1>12, <2>1, HandledKept
  <2>3. ~unsaved
    BY <2>1, <2>2 DEF ClosedInv, Publishing
  <2>4. ASSUME NEW e \in closed', Handled(e)'  PROVE ~(st.state.pos /\ st.entry = e)
    BY <2>1, <2>2, <2>3, <2>4 DEF ClosedInv, Unclosed
  <2>5. \A e \in closed' : Handled(e)' => Unclosed(e)'
    BY <2>1, <2>4 DEF Unclosed, Publishing
  <2>6. QED
    BY <2>1, <2>3, <2>5 DEF ClosedInv, SameEntry, Publishing
<1>13. CASE Subscribe
  <2>1. /\ UNCHANGED <<torn, unsaved, redis, ctx, active>> /\ Live
        /\ main = "subscribe" /\ worker.pc = "none" /\ worker'.pc = "idle"
    BY <1>13, SubscribeEffect DEF Live
  <2>2. torn \subseteq {"cancel"} /\ \A e \in closed' : Handled(e)' => e \in closed /\ Handled(e)
    BY <1>1, <1>13, <2>1, HandledKept
  <2>3. ~unsaved
    BY <2>1, <2>2 DEF ClosedInv, Publishing
  <2>4. QED
    BY <2>1, <2>2, <2>3, ClosedKept DEF Publishing, Holding
<1>14. ASSUME NEW e \in events, TakeClose(e)  PROVE ClosedInv'
  BY <1>2, <1>14, TakeEffect, HandledKept DEF Live
<1>15. CASE ApplyClose
  <2>1. /\ closer.pc = "lock" /\ worker.pc \notin Holding /\ worker.pc \notin Publishing /\ Live
        /\ UNCHANGED <<active, main, worker, unsaved, closed, missed>>
    BY <1>15, ApplyEffect DEF Holding, Publishing
  <2>2. CASE ctx.stored.entry # closer.entry /\ events' = events \ {closer.entry}
             /\ closer'.pc = "idle" /\ UNCHANGED <<ctx, redis, torn>>
    <3>1. torn \subseteq {"cancel"} /\ Live' = Live
      BY <1>1, <2>1, <2>2 DEF Live
    <3>2. ASSUME NEW e \in closed', Handled(e)'  PROVE Unclosed(e)'
      <4>1. CASE e = closer.entry
        BY <2>1, <2>2, <3>1, <4>1 DEF ClosedInv, SameEntry, Unclosed
      <4>2. CASE e # closer.entry
        BY <2>1, <2>2, <3>1, <3>2, <4>2 DEF ClosedInv, Unclosed, Handled
      <4>3. QED
        BY <4>1, <4>2
    <3>3. SameEntry => SameEntry'
      BY <2>1, <2>2, <3>1 DEF SameEntry
    <3>4. QED
      BY <2>1, <2>2, <3>1, <3>2, <3>3 DEF ClosedInv
  <2>3. ASSUME NEW flat \in Stored,
               ctx.stored.entry = closer.entry, ~flat.state.pos,
               ctx'.mem = flat.state, ctx'.stored = flat, redis' = flat,
               closer'.pc = "saved", closer'.entry = closer.entry, events' = events,
               torn' = IF unsaved THEN torn \cup {"lost"} ELSE torn
        PROVE  ClosedInv'
    <3>1. ~unsaved' /\ worker'.pc \notin Publishing
      BY <2>1, <2>3
    <3>2. \A e \in closed' : Handled(e)' => Unclosed(e)'
      BY <2>3, <3>1 DEF Unclosed
    <3>3. SameEntry'
      BY <2>3 DEF SameEntry
    <3>4. QED
      BY <3>1, <3>2, <3>3 DEF ClosedInv
  <2>4. QED
    BY <1>15, <2>2, <2>3, ApplyEffect
<1>16. CASE CloseSaved
  <2>1. UNCHANGED <<torn, unsaved, redis, active, main, worker>>
        /\ ctx'.mem = ctx.mem /\ ctx'.stored = ctx.stored
    BY <1>16, CloseSavedEffect
  <2>2. \A e \in closed' : Handled(e)' => e \in closed /\ Handled(e)
    BY <1>16, HandledKept
  <2>3. QED
    BY <1>2, <2>1, <2>2 DEF Live
<1>17. CASE ResetDelete \/ ResetPattern \/ ResetSwap
  <2>1. torn \subseteq torn'
    BY <1>17, ResetEffect, SwapEffect
  <2>2. reset = "idle"
    BY <2>1 DEF CohInv
  <2>3. QED
    BY <1>17, <2>2, ResetEffect, SwapEffect
<1>18. CASE Crash \/ Exit
  <2>1. /\ torn \subseteq {"cancel"} /\ ~unsaved /\ ~unsaved' /\ ~Live' /\ worker'.pc = "none"
        /\ redis' = redis
    BY <1>18, StopEffect, NoWorkerFacts DEF Live
  <2>2. \A e \in closed' : Handled(e)' => e \in closed /\ Handled(e)
    BY <1>18, HandledKept
  <2>3. \A e \in closed' : Handled(e)' => Unclosed(e)'
    BY <2>1, <2>2 DEF ClosedInv, Unclosed, Publishing
  <2>4. QED
    BY <2>1, <2>3 DEF ClosedInv, SameEntry, Publishing
<1>19. ASSUME NEW e \in 1 .. ids, ClosePosition(e)  PROVE ClosedInv'
  BY <1>2, <1>19, ExternalEffect, HandledKept DEF Live
<1>20. CASE \/ EditConfig \/ PublishKline \/ (\E c \in Candles : AckWaitExpires(c))
            \/ (\E c \in Candles : Handle(c)) \/ UNCHANGED vars
  <2>1. \A e \in closed' : Handled(e)' => e \in closed /\ Handled(e)
    BY <1>20, HandledKept
  <2>2. QED
    BY <1>2, <1>20, <2>1, Frames DEF frame, Live
<1>21. QED
  BY <1>3, <1>4, <1>5, <1>6, <1>7, <1>8, <1>9, <1>10, <1>11, <1>12, <1>13, <1>14, <1>15,
     <1>16, <1>17, <1>18, <1>19, <1>20, StepForms

LEMMA ClosedInit == Init => ClosedInv
  BY NoWorkerFacts DEF Init, ClosedInv, SameEntry, Live, Publishing

LEMMA ClosedAlways == Spec => []ClosedInv
  BY ClosedInit, ClosedStep, TypeAlways, CohAlways, PTL DEF Spec

\* on_position_closed: once the close of an entry was taken note of while the pair
\* was active, no EXIT of it is published, whatever the queue, redeliveries, a
\* cancelled worker, a lost ack or a restart bring afterwards.
THEOREM ClosesStay == Spec => ClosedStaysClosed
<1> DEFINE step == \A e \in (closed \ events) \ missed :
       torn \subseteq {"cancel"} =>
         ~(Len(orders') > Len(orders) /\ orders'[Len(orders')].cond = "EXIT"
                                      /\ orders'[Len(orders')].entry = e)
<1>1. TypeInv /\ ClosedInv /\ [Next]_vars => [step]_vars
  <2> SUFFICES ASSUME TypeInv, ClosedInv, [Next]_vars,
                      NEW e \in (closed \ events) \ missed, torn \subseteq {"cancel"},
                      Len(orders') > Len(orders), orders'[Len(orders')].entry = e
               PROVE  FALSE
    OBVIOUS
  <2>1. StoreOrder
    BY OrdersKept, OrderFacts
  <2>2. worker.pc = "publish" /\ worker.st.entry = e
    BY <2>1, StoreEffect, StoredOrder
  <2>3. Handled(e) /\ e \in closed
    BY DEF Handled
  <2>4. QED
    BY <2>2, <2>3 DEF ClosedInv, Unclosed, Publishing
<1>2. QED
  BY <1>1, TypeAlways, ClosedAlways, PTL DEF Spec, ClosedStaysClosed

-----------------------------------------------------------------------------
\* The runtime implements PositionOrders.

\* An ENTRY goes out with an entry_order_id no order has.
FreshInv == worker.pc = "publish" /\ worker.todo = Enter => Fresh(worker.st.entry)

LEMMA FreshProceeds ==
  ASSUME TypeInv, Evaluate \/ Published
  PROVE  FreshInv'
<1>1. PICK m \in States, st \in Stored, sigs \in Signals \cup {Done}, new \in Stored :
        Proceeds(m, st, sigs, new)
  <2>1. CASE Evaluate
    <3>1. worker.st \in Stored
      BY <2>1 DEF Evaluate, TypeInv, TaskOK, Holding
    <3>2. QED
      BY <2>1, <3>1, EvaluateFacts
  <2>2. CASE Published
    <3>1. ctx.mem \in States
      BY StateFacts, CtxSet DEF StateOK
    <3>2. QED
      BY <2>2, <3>1, PublishedFacts DEF Signals
  <2>3. QED
    BY <2>1, <2>2
<1>2. worker'.todo = sigs /\ worker'.st = new /\ orders' = orders
  BY <1>1, ProceedEffect DEF Proceeds, WorkerAt
<1>3. worker'.pc = "publish" /\ worker'.todo = Enter => new.entry = ids + 1
  BY <1>1, <1>2, SignalFacts DEF Proceeds, Arms, Leaves, Keeps, Skips
<1>4. \A i \in DOMAIN orders : orders[i].entry < ids + 1
  BY OrderFacts DEF TypeInv, TypeOK
<1>5. QED
  BY <1>2, <1>3, <1>4 DEF FreshInv, Fresh

LEMMA FreshStep == TypeInv /\ FreshInv /\ [Next]_vars => FreshInv'
<1> SUFFICES ASSUME TypeInv, FreshInv, [Next]_vars
             PROVE  FreshInv'
  OBVIOUS
<1> DEFINE same == worker'.pc = worker.pc /\ worker'.st = worker.st /\ worker'.todo = worker.todo
<1>1. CASE worker'.pc # "publish" \/ (orders' = orders /\ same)
  BY <1>1 DEF FreshInv, Fresh
<1>2. CASE Evaluate \/ Published
  BY <1>2, FreshProceeds
<1>3. CASE Get \/ Ack \/ Acquire \/ StoreOrder \/ Saved \/ Fail
  <2>1. worker'.pc # "publish"
    BY <1>3, RestEffect, AcquireEffect, StoreEffect, SavedEffect, FailEffect
  <2>2. QED
    BY <1>1, <2>1
<1>4. CASE \/ Reconcile \/ Unsubscribe \/ DeleteConsumer \/ CancelWorker \/ SaveRemoved
           \/ Load \/ Subscribe \/ Crash \/ Exit
  BY <1>1, <1>4, MainEffect, CancelEffect, SaveEffect, LoadEffect, SubscribeEffect, StopEffect,
     NoWorkerFacts
<1>5. CASE \/ (\E e \in events : TakeClose(e)) \/ ApplyClose \/ CloseSaved
           \/ ResetDelete \/ ResetPattern \/ (\E e \in 1 .. ids : ClosePosition(e))
  BY <1>1, <1>5, TakeEffect, ApplyEffect, CloseSavedEffect, ResetEffect, ExternalEffect
<1>6. CASE ResetSwap
  <2>1. worker \in Workers
    BY StateFacts DEF StateOK
  <2>2. same /\ orders' = orders
    BY <1>6, <2>1, SwapEffect DEF ResetSwap, Workers
  <2>3. QED
    BY <1>1, <2>2
<1>7. CASE \/ EditConfig \/ PublishKline \/ (\E c \in Candles : AckWaitExpires(c))
           \/ (\E c \in Candles : Handle(c)) \/ UNCHANGED vars
  BY <1>1, <1>7, Frames DEF frame
<1>8. QED
  BY <1>2, <1>3, <1>4, <1>5, <1>6, <1>7, StepForms

LEMMA FreshAlways == Spec => []FreshInv
<1>1. Init => FreshInv
  BY NoWorkerFacts DEF Init, FreshInv
<1>2. QED
  BY <1>1, FreshStep, TypeAlways, PTL DEF Spec

\* The order a worker publishes is one that PositionOrders allows.
LEMMA StoreMaps ==
  ASSUME TypeInv, EntryInv, PosInv, ClosedInv, FreshInv, StoreOrder
  PROVE  Positions!PositionNext
<1> DEFINE n == Len(orders')
<1> SUFFICES ASSUME NEW o, o = orders'[n]
             PROVE  Positions!Enter(o) \/ Positions!Exit(o)
  BY StoredOrder DEF Positions!PositionNext
<1>1. /\ worker.pc = "publish" /\ worker.todo \in Signals
      /\ o.cond = Head(worker.todo) /\ o.entry = worker.st.entry /\ o.candle = worker.candle
  BY StoreEffect, StoredOrder
<1>2. Positions!Publish(o)
  <2>1. orders' = Append(orders, o) /\ UNCHANGED <<closed, events, missed, torn, removes>>
    <3>1. orders \in Seq(Order)
      BY OrderFacts
    <3>2. QED
      BY <3>1, StoreEffect
  <2>2. QED
    BY <2>1 DEF Positions!Publish, Heard
<1>3. CASE worker.todo = Enter
  <2>1. Positions!Entry(o)
    BY <1>1, <1>3, SignalFacts DEF Positions!Entry
  <2>2. \A i \in DOMAIN orders : orders[i].entry # o.entry
    <3>1. Fresh(o.entry)
      BY <1>1, <1>3 DEF FreshInv
    <3>2. QED
      BY <3>1, OrderFacts DEF Fresh
  <2>3. torn \subseteq {"cancel"} /\ ~removes =>
          \A i \in DOMAIN orders : Positions!Entry(orders[i]) => orders[i].candle # o.candle
    BY <1>1, <1>3 DEF EntryInv, Coming, Ahead, IsEntry, Positions!Entry
  <2>4. torn = {} /\ ~removes => Positions!Flat
    <3>1. torn = {} /\ ~removes => Flat
      BY <1>1, <1>3 DEF PosInv, Underway, Publishing
    <3>2. Flat => Positions!Flat
      BY DEF Flat, Last, Positions!Flat, Positions!Last, Positions!Entry
    <3>3. QED
      BY <3>1, <3>2
  <2>5. QED
    BY <1>2, <2>1, <2>2, <2>3, <2>4
       DEF Positions!Enter, Positions!Remembers, Positions!Exact
<1>4. CASE worker.todo \in {Leave, Turn}
  <2>1. ~Positions!Entry(o)
    BY <1>1, <1>4, SignalFacts DEF Positions!Entry
  <2>2. torn \subseteq {"cancel"} => o.entry \notin Heard
    BY <1>1 DEF ClosedInv, Handled, Unclosed, Publishing, Heard
  <2>3. torn = {} /\ ~removes => Positions!Holds(o.entry)
    <3>1. torn = {} /\ ~removes => Opened(o.entry)
      BY <1>1, <1>4, SignalFacts DEF PosInv, Underway, Publishing
    <3>2. QED
      BY <3>1 DEF Opened, Last, Positions!Holds, Positions!Last, Positions!Entry
  <2>4. QED
    BY <1>2, <2>1, <2>2, <2>3 DEF Positions!Exit, Positions!Remembers, Positions!Exact
<1>5. QED
  BY <1>1, <1>3, <1>4 DEF Signals

\* Any other step takes note of closes or loses memory, or leaves all of it alone.
LEMMA NoteMaps ==
  ASSUME TypeInv, [Next]_vars, orders' = orders, closed' = closed
  PROVE  Positions!Note
<1>1. /\ removes' = removes /\ torn \subseteq torn'
      /\ events' \subseteq events /\ missed \subseteq missed' /\ missed' \subseteq missed \cup events
      /\ \A e \in missed' : e \in missed \/ e \notin events'
  <2>1. CASE Get \/ Ack \/ Acquire \/ Evaluate \/ Published \/ StoreOrder \/ Saved \/ Fail
    BY <2>1, RestEffect, AcquireEffect, ProceedEffect, StoreEffect, SavedEffect, FailEffect
  <2>2. CASE \/ Reconcile \/ Unsubscribe \/ DeleteConsumer \/ CancelWorker \/ SaveRemoved
             \/ Load \/ Subscribe
    BY <2>2, MainEffect, CancelEffect, SaveEffect, LoadEffect, SubscribeEffect
  <2>3. CASE \/ (\E e \in events : TakeClose(e)) \/ ApplyClose \/ CloseSaved
             \/ ResetDelete \/ ResetSwap \/ ResetPattern \/ Crash \/ Exit
    BY <2>3, TakeEffect, ApplyEffect, CloseSavedEffect, ResetEffect, SwapEffect, StopEffect
  <2>4. ASSUME NEW e \in 1 .. ids, ClosePosition(e)
        PROVE  FALSE
    BY <2>4, ExternalEffect
  <2>5. CASE \/ EditConfig \/ PublishKline \/ (\E c \in Candles : AckWaitExpires(c))
             \/ (\E c \in Candles : Handle(c)) \/ UNCHANGED vars
    BY <2>5, Frames DEF frame
  <2>6. QED
    BY <2>1, <2>2, <2>3, <2>4, <2>5, StepForms
<1>2. Heard \subseteq Heard' /\ Heard' \subseteq closed
  BY <1>1 DEF Heard
<1>3. QED
  BY <1>1, <1>2 DEF Positions!Note

LEMMA PositionInits == Init => Positions!PositionInit
  BY BoundsAssumption DEF Init, Heard, Positions!PositionInit

LEMMA PositionSteps ==
  TypeInv /\ EntryInv /\ PosInv /\ ClosedInv /\ FreshInv /\ [Next]_vars
    => [Positions!PositionNext]_Positions!positionVars
<1> SUFFICES ASSUME TypeInv, EntryInv, PosInv, ClosedInv, FreshInv, [Next]_vars
             PROVE  Positions!PositionNext
  OBVIOUS
<1>1. CASE StoreOrder
  BY <1>1, StoreMaps
<1>2. ASSUME NEW e \in 1 .. ids, ClosePosition(e)
      PROVE  Positions!PositionNext
  <2>1. /\ e \notin closed /\ closed' = closed \cup {e} /\ events' = events \cup {e}
        /\ \E i \in DOMAIN orders : orders[i].cond = "ENTRY" /\ orders[i].entry = e
        /\ UNCHANGED <<orders, missed, torn, removes>>
    BY <1>2, ExternalEffect
  <2>2. Heard' = Heard
    BY <2>1 DEF Heard
  <2>3. Positions!CloseOutside(e) /\ e \in closed'
    BY <2>1, <2>2 DEF Positions!CloseOutside, Positions!Entry
  <2>4. QED
    BY <2>3 DEF Positions!PositionNext
<1>3. CASE orders' = orders /\ closed' = closed
  BY <1>3, NoteMaps DEF Positions!PositionNext
<1>4. QED
  BY <1>1, <1>2, <1>3, OrdersKept, ClosedMoves

\* process_message, reconcile_pairs, handle_position_closed and reset_runtime_state,
\* in any order of their awaits, with every redelivery, cancelled worker, restart and
\* failure: the orders of a pair are those of PositionOrders.  Its promises are
\* conditions of the step that publishes, so none is mended by what comes later.
THEOREM PositionKept == Spec => KeepsPosition
<1>1. QED
  BY PositionInits, PositionSteps, TypeAlways, EntryAlways, PosAlways, ClosedAlways, FreshAlways,
     PTL DEF Spec, KeepsPosition, Positions!PositionSpec
=============================================================================
