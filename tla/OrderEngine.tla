---------------------------- MODULE OrderEngine ----------------------------
(***************************************************************************)
(* The order-engine-gateway: the consumer of order_engine.place_order with *)
(* its retry loop (util.ProcessWithTimeout), the handler PlaceOrder and    *)
(* the HTTP/gRPC callers that run the same handler, against one exchange,  *)
(* the table order_histories and the JetStream work queue.                 *)
(*                                                                         *)
(* Each call the handler makes to another process (database, exchange,     *)
(* NATS) is a step of its own; what it computes between two calls belongs  *)
(* to the step before.  A run whose deadline passed goes on in its         *)
(* goroutine after the consumer gave it up, as it does in the code.        *)
(***************************************************************************)
EXTENDS Naturals, Sequences, FiniteSets

CONSTANTS
  Gateways,     \* processes that share the queue group
  Goroutines,   \* slots for callback and request goroutines
  Msgs,         \* place_order messages: positions in the stream
  Requests,     \* values of request_id
  Paper,        \* requests with is_paper_trading
  ManualClose,  \* requests with order_reason "manual_close"
  Notified,     \* requests with need_notification
  Expiring,     \* requests with expired_at
  Invalid,      \* requests PlaceOrder refuses (side, entry_order_id)
  Unrouted,     \* requests for an exchange that is not registered
  MaxRetries,   \* nats_jetstream.max_retries
  None,
  InboxCap,     \* bound: deliveries a client buffers
  MaxCalls,     \* bound: HTTP/gRPC calls of PlaceOrder
  MaxFaults     \* bound: crashes, lost acknowledgements, early AckWait expiries

ASSUME RetriesAssumption == MaxRetries \in Nat
ASSUME NoneAssumption == None \notin Gateways \cup Msgs \cup Requests

VARIABLES
  st,          \* JetStream's view of each message
  reqOf,       \* the request a published message carries
  num,         \* NumDelivered of each message
  inbox,       \* deliveries a gateway's subscription has buffered
  run,         \* what each goroutine is doing
  orders,      \* number of orders the exchange accepted for each request
  rows,        \* table order_histories, in the order of insertion
  announced,   \* requests with a strategy_control.position_closed event
  notes,       \* notification_alert events published for each request
  expired,     \* requests whose expired_at has passed
  overlapped,  \* ghost: requests two runs have worked on at the same time
  unrecorded,  \* ghost: requests for which Create returned an error
  calls, faults

vars == <<st, reqOf, num, inbox, run, orders, rows, announced, notes,
          expired, overlapped, unrecorded, calls, faults>>
queueVars  == <<st, reqOf, num, inbox, faults>>
effectVars == <<orders, rows, announced, notes, unrecorded>>

-----------------------------------------------------------------------------
Results == {"none", "ok", "dropped", "duplicate", "error"}
PCs == {"idle", "lookup", "submit", "await", "create", "close", "notify",
        "dupclose", "done"}

\* A goroutine: the message and delivery it works on (None, 0 for a direct
\* call), whether its context is alive and whether ProcessWithTimeout still
\* waits for it, the exchange order in its hands, and (ghost) whether the
\* request was already in order_histories when it began.
Runs == [pc : PCs, gw : Gateways \cup {None}, msg : Msgs \cup {None}, num : Nat,
         req : Requests \cup {None}, ctx : BOOLEAN, watched : BOOLEAN,
         ord : Nat, filled : BOOLEAN, res : Results, late : BOOLEAN]

IdleRun == [pc |-> "idle", gw |-> None, msg |-> None, num |-> 0, req |-> None,
            ctx |-> FALSE, watched |-> FALSE, ord |-> 0, filled |-> FALSE,
            res |-> "none", late |-> FALSE]

\* A row: order_id is the ord-th order the exchange accepted for the request,
\* and ord = 0 stands for "paper-<request_id>".  order_id is unique, request_id
\* is only indexed.
Rows == [req : Requests, ord : Nat, filled : BOOLEAN]
RowsOf(r) == {i \in DOMAIN rows : rows[i].req = r}
MutKeyTaken(r, k) == FALSE
KeyTaken(r, k) == \E i \in RowsOf(r) : rows[i].ord = k

Put(g, new) == run' = [run EXCEPT ![g] = new]

Active(g) == run[g].pc \notin {"idle", "done"}
MutBusy(p) == \E g \in Goroutines : run[g].gw = p /\ run[g].pc # "idle"
Busy(p) == \E g \in Goroutines : run[g].gw = p /\ run[g].watched
Buffered(m) == \E p \in Gateways : \E i \in DOMAIN inbox[p] : inbox[p][i].msg = m
Outstanding(m) == Buffered(m) \/ \E g \in Goroutines : run[g].watched /\ run[g].msg = m
Settled(m) == st[m] \in {"acked", "termed", "aged"}

TypeOK ==
  /\ st \in [Msgs -> {"unpublished", "ready", "pending", "acked", "termed", "aged"}]
  /\ reqOf \in [Msgs -> Requests \cup {None}]
  /\ num \in [Msgs -> Nat]
  /\ inbox \in [Gateways -> Seq([msg : Msgs, num : Nat])]
  /\ run \in [Goroutines -> Runs]
  /\ orders \in [Requests -> Nat]
  /\ rows \in Seq(Rows)
  /\ announced \subseteq Requests
  /\ notes \in [Requests -> Nat]
  /\ expired \subseteq Expiring
  /\ overlapped \subseteq Requests
  /\ unrecorded \subseteq Requests
  /\ calls \in Nat
  /\ faults \in Nat

Init ==
  /\ st = [m \in Msgs |-> "unpublished"]
  /\ reqOf = [m \in Msgs |-> None]
  /\ num = [m \in Msgs |-> 0]
  /\ inbox = [p \in Gateways |-> <<>>]
  /\ run = [g \in Goroutines |-> IdleRun]
  /\ orders = [r \in Requests |-> 0]
  /\ rows = <<>>
  /\ announced = {}
  /\ notes = [r \in Requests |-> 0]
  /\ expired = {}
  /\ overlapped = {}
  /\ unrecorded = {}
  /\ calls = 0
  /\ faults = 0

-----------------------------------------------------------------------------
\* JetStream: the work-queue stream and its durable consumer (AckExplicit,
\* default AckWait).

\* PlaceOrderAsync, or the strategy runtime, stores the message.
Publish(m, r) ==
  /\ st[m] = "unpublished"
  /\ st' = [st EXCEPT ![m] = "ready"]
  /\ reqOf' = [reqOf EXCEPT ![m] = r]
  /\ UNCHANGED <<num, inbox, run, orders, rows, announced, notes,
                 expired, overlapped, unrecorded, calls, faults>>

Deliver(m, p) ==
  /\ st[m] = "ready"
  /\ Len(inbox[p]) < InboxCap
  /\ st' = [st EXCEPT ![m] = "pending"]
  /\ num' = [num EXCEPT ![m] = @ + 1]
  /\ inbox' = [inbox EXCEPT ![p] = Append(@, [msg |-> m, num |-> num[m] + 1])]
  /\ UNCHANGED <<reqOf, run, orders, rows, announced, notes,
                 expired, overlapped, unrecorded, calls, faults>>

\* No acknowledgement within AckWait.  The copy delivered before may still be
\* in a buffer or in a handler: that case counts as a fault.
AckWaitExpires(m) ==
  /\ st[m] = "pending"
  /\ IF Outstanding(m) THEN faults < MaxFaults /\ faults' = faults + 1
                       ELSE UNCHANGED faults
  /\ st' = [st EXCEPT ![m] = "ready"]
  /\ UNCHANGED <<reqOf, num, inbox, run, orders, rows, announced, notes,
                 expired, overlapped, unrecorded, calls>>

\* The stream's MaxAge removes a message nobody settled in 24 hours.
AgeOut(m) ==
  /\ st[m] \in {"ready", "pending"}
  /\ st' = [st EXCEPT ![m] = "aged"]
  /\ UNCHANGED <<reqOf, num, inbox, run, orders, rows, announced, notes,
                 expired, overlapped, unrecorded, calls, faults>>

\* (A definition named Mut... is the one after it with a plausible fault: each
\* property below rules one of them out.)

\* The outcome of msg.Ack, msg.Term and msg.NakWithDelay.  An acknowledgement
\* counts whichever delivery it answers; one for a settled message is ignored.
Settle(m, how) == st' = [st EXCEPT ![m] = IF Settled(m) THEN @ ELSE how]
Nak(m) == st' = [st EXCEPT ![m] = IF @ = "pending" THEN "ready" ELSE @]
AnswerLost == faults < MaxFaults /\ faults' = faults + 1 /\ UNCHANGED st

-----------------------------------------------------------------------------
\* util.ProcessWithTimeout

Terminate(attempt) == MaxRetries = 0 \/ attempt >= MaxRetries

Retry(m, attempt) ==
  IF Terminate(attempt) THEN Settle(m, "termed") ELSE Nak(m)

\* The step that hands a request to PlaceOrder: expiry and normalisation have
\* decided between an immediate return and the duplicate lookup.
Entered(p, m, n, r) ==
  LET new == [IdleRun EXCEPT !.pc = "lookup", !.gw = p, !.msg = m, !.num = n,
                             !.req = r, !.ctx = TRUE, !.watched = (m # None),
                             !.late = RowsOf(r) # {}]
      ended(res) == IF m = None THEN IdleRun
                    ELSE [new EXCEPT !.pc = "done", !.res = res]
  IN  IF m # None /\ r \in expired THEN ended("error")
      ELSE IF r \in Invalid THEN ended("error")
      ELSE IF r \in Unrouted THEN ended("dropped")
      ELSE new

Enter(g, p, m, n, r) ==
  /\ run[g].pc = "idle"
  /\ Put(g, Entered(p, m, n, r))
  /\ overlapped' = IF \E h \in Goroutines : Active(h) /\ run[h].req = r
                   THEN overlapped \cup {r} ELSE overlapped

\* The subscription's goroutine takes the next delivery once the one before
\* has been answered, and runs handlePlaceOrderEvent under the timeout.
Begin(g, p) ==
  /\ inbox[p] # <<>>
  /\ ~Busy(p)
  /\ LET d == Head(inbox[p]) IN Enter(g, p, d.msg, d.num, reqOf[d.msg])
  /\ inbox' = [inbox EXCEPT ![p] = Tail(@)]
  /\ UNCHANGED <<st, reqOf, num, orders, rows, announced, notes, expired,
                 unrecorded, calls, faults>>

\* The HTTP and gRPC servers run the same handler in the caller's goroutine;
\* they do not look at expired_at.
CallPlaceOrder(g, p, r) ==
  /\ calls < MaxCalls
  /\ calls' = calls + 1
  /\ Enter(g, p, None, 0, r)
  /\ UNCHANGED <<queueVars, effectVars, expired>>

\* The context ends: the timeout, or a caller that went away.
Deadline(g) ==
  /\ run[g].pc # "idle"
  /\ run[g].ctx
  /\ Put(g, [run[g] EXCEPT !.ctx = FALSE])
  /\ UNCHANGED <<queueVars, effectVars, expired, overlapped, calls>>

\* select: the callback's result arrived.
Finish(g) ==
  /\ run[g].pc = "done"
  /\ run[g].watched
  /\ \/ /\ IF run[g].res = "error" THEN Retry(run[g].msg, run[g].num)
                                   ELSE Settle(run[g].msg, "acked")
        /\ UNCHANGED faults
     \/ AnswerLost
  /\ Put(g, IdleRun)
  /\ UNCHANGED <<reqOf, num, inbox, effectVars, expired, overlapped, calls>>

\* select: ctx.Done won.  The callback goes on unwatched.
GiveUp(g) ==
  /\ run[g].watched
  /\ ~run[g].ctx
  /\ \/ Retry(run[g].msg, run[g].num) /\ UNCHANGED faults
     \/ AnswerLost
  /\ Put(g, IF run[g].pc = "done" THEN IdleRun ELSE [run[g] EXCEPT !.watched = FALSE])
  /\ UNCHANGED <<reqOf, num, inbox, effectVars, expired, overlapped, calls>>

-----------------------------------------------------------------------------
\* OrderEngineService.PlaceOrder, from the duplicate lookup on

\* A run returns: a watched one leaves its result for the select, any other
\* goroutine is gone.
Ended(g, res) == IF run[g].watched THEN [run[g] EXCEPT !.pc = "done", !.res = res]
                                   ELSE IdleRun
End(g, res) == Put(g, Ended(g, res))
Goto(g, pc) == Put(g, [run[g] EXCEPT !.pc = pc])

\* publishManualPositionClosed and publishOrderNotificationEvent return at
\* once when there is nothing to publish.
Closing(r, filled) == filled /\ r \in ManualClose
AfterClose(g) == IF run[g].req \in Notified THEN Goto(g, "notify") ELSE End(g, "ok")
AfterCreate(g, filled) ==
  IF Closing(run[g].req, filled) THEN Goto(g, "close") ELSE AfterClose(g)

\* GetByRequestID returns any one of the rows it selects.
MutFilledRows(r) == {i \in RowsOf(r) : rows[i].filled}
MutNoRow(r) == {}
GetByRequestID(r) == RowsOf(r)

Lookup(g) ==
  LET r == run[g].req
  IN  /\ run[g].pc = "lookup"
      /\ \/ End(g, "error")
         \/ /\ run[g].ctx
            /\ GetByRequestID(r) = {}
            /\ Goto(g, IF r \in Paper THEN "create" ELSE "submit")
         \/ /\ run[g].ctx
            /\ \E i \in GetByRequestID(r) :
                 IF Closing(r, rows[i].filled) THEN Goto(g, "dupclose")
                                               ELSE End(g, "duplicate")
      /\ UNCHANGED <<queueVars, effectVars, expired, overlapped, calls>>

MutSubmit(g) ==
  /\ run[g].pc = "submit"
  /\ \/ End(g, "dropped") /\ UNCHANGED orders
     \/ /\ run[g].ctx
        /\ orders' = [orders EXCEPT ![run[g].req] = @ + 1]
        /\ Put(g, [run[g] EXCEPT !.pc = "await", !.ord = orders[run[g].req] + 1])
  /\ UNCHANGED <<queueVars, rows, announced, notes, unrecorded, expired,
                 overlapped, calls>>

\* exchange.PlaceOrder: refused before or by the exchange, or accepted by it.
Submit(g) ==
  /\ run[g].pc = "submit"
  /\ \/ End(g, "error") /\ UNCHANGED orders
     \/ /\ run[g].ctx
        /\ orders' = [orders EXCEPT ![run[g].req] = @ + 1]
        /\ Put(g, [run[g] EXCEPT !.pc = "await", !.ord = orders[run[g].req] + 1])
  /\ UNCHANGED <<queueVars, rows, announced, notes, unrecorded, expired,
                 overlapped, calls>>

\* The exchange's reply arrives with the order's status, or is lost.
Reply(g) ==
  /\ run[g].pc = "await"
  /\ \/ End(g, "error")
     \/ /\ run[g].ctx
        /\ \E f \in BOOLEAN : Put(g, [run[g] EXCEPT !.pc = "create", !.filled = f])
  /\ UNCHANGED <<queueVars, effectVars, expired, overlapped, calls>>

\* orderHistoryRepo.Create: the row is stored, refused by the unique order_id
\* or by a failing database, or stored with its answer lost.  A paper order
\* is FILLED when it is built.
Create(g) ==
  LET r == run[g].req
      f == run[g].filled \/ r \in Paper
      insert == /\ run[g].ctx
                /\ ~KeyTaken(r, run[g].ord)
                /\ rows' = Append(rows, [req |-> r, ord |-> run[g].ord, filled |-> f])
  IN  /\ run[g].pc = "create"
      /\ \/ insert /\ AfterCreate(g, f) /\ UNCHANGED unrecorded
         \/ /\ insert \/ UNCHANGED rows
            /\ End(g, "dropped")
            /\ unrecorded' = unrecorded \cup {r}
      /\ UNCHANGED <<queueVars, orders, announced, notes, expired, overlapped, calls>>

\* A publish stores the event or not; an error may be reported either way.
PublishClose(g) ==
  /\ run[g].pc = "close"
  /\ \/ announced' = announced \cup {run[g].req} /\ (AfterClose(g) \/ End(g, "error"))
     \/ End(g, "error") /\ UNCHANGED announced
  /\ UNCHANGED <<queueVars, orders, rows, notes, unrecorded, expired, overlapped, calls>>

MutPublishDuplicateClose(g) ==
  /\ run[g].pc = "dupclose"
  /\ announced' = announced \cup {run[g].req} \/ UNCHANGED announced
  /\ End(g, "duplicate")
  /\ UNCHANGED <<queueVars, orders, rows, notes, unrecorded, expired, overlapped, calls>>

PublishDuplicateClose(g) ==
  /\ run[g].pc = "dupclose"
  /\ \/ /\ announced' = announced \cup {run[g].req}
        /\ End(g, "duplicate") \/ End(g, "error")
     \/ End(g, "error") /\ UNCHANGED announced
  /\ UNCHANGED <<queueVars, orders, rows, notes, unrecorded, expired, overlapped, calls>>

MutNotify(g) ==
  /\ run[g].pc = "notify"
  /\ notes' = [notes EXCEPT ![run[g].req] = @ + 1]
  /\ End(g, "ok") \/ UNCHANGED run
  /\ UNCHANGED <<queueVars, orders, rows, announced, unrecorded, expired, overlapped, calls>>

Notify(g) ==
  /\ run[g].pc = "notify"
  /\ \/ /\ notes' = [notes EXCEPT ![run[g].req] = @ + 1]
        /\ End(g, "ok") \/ End(g, "error")
     \/ End(g, "error") /\ UNCHANGED notes
  /\ UNCHANGED <<queueVars, orders, rows, announced, unrecorded, expired, overlapped, calls>>

-----------------------------------------------------------------------------
\* The environment

MutExpireOrder(r) ==
  /\ r \notin expired
  /\ expired' = expired \cup {r}
  /\ UNCHANGED <<queueVars, run, effectVars, overlapped, calls>>

ExpireOrder(r) ==
  /\ r \in Expiring \ expired
  /\ expired' = expired \cup {r}
  /\ UNCHANGED <<queueVars, run, effectVars, overlapped, calls>>

\* A gateway dies and restarts: its buffers and goroutines are gone.
Crash(p) ==
  /\ faults < MaxFaults
  /\ faults' = faults + 1
  /\ inbox' = [inbox EXCEPT ![p] = <<>>]
  /\ run' = [g \in Goroutines |-> IF run[g].gw = p THEN IdleRun ELSE run[g]]
  /\ UNCHANGED <<st, reqOf, num, effectVars, expired, overlapped, calls>>

-----------------------------------------------------------------------------
HandlerStep(g) ==
  \/ Lookup(g) \/ Submit(g) \/ Reply(g) \/ Create(g)
  \/ PublishClose(g) \/ PublishDuplicateClose(g) \/ Notify(g)

Queue(m) ==
  \/ AckWaitExpires(m) \/ AgeOut(m)
  \/ \E r \in Requests : Publish(m, r)
  \/ \E p \in Gateways : Deliver(m, p)

Goroutine(g) ==
  \/ HandlerStep(g) \/ Deadline(g) \/ Finish(g) \/ GiveUp(g)
  \/ \E p \in Gateways : Begin(g, p) \/ \E r \in Requests : CallPlaceOrder(g, p, r)

Next ==
  \/ \E m \in Msgs : Queue(m)
  \/ \E g \in Goroutines : Goroutine(g)
  \/ \E r \in Requests : ExpireOrder(r)
  \/ \E p \in Gateways : Crash(p)

Spec == Init /\ [][Next]_vars

\* The server redelivers what nobody answered, a subscription keeps taking its
\* deliveries, timers fire and a select that has a case ready proceeds.  Nothing
\* is assumed of the handler: a callback may hang in any of its calls.
Fairness ==
  /\ \A m \in Msgs : WF_vars(AckWaitExpires(m)) /\ WF_vars(\E p \in Gateways : Deliver(m, p))
  /\ \A p \in Gateways : WF_vars(\E g \in Goroutines : Begin(g, p))
  /\ \A g \in Goroutines : WF_vars(Deadline(g)) /\ WF_vars(Finish(g) \/ GiveUp(g))

FairSpec == Spec /\ Fairness

-----------------------------------------------------------------------------
\* Properties

\* The orders of a request in the hands of a run that may still record them:
\* accepted by the exchange, or (0) a paper order about to be inserted.
Held(r) == {k \in 0 .. orders[r] : \E g \in Goroutines :
              run[g].req = r /\ run[g].ord = k /\ run[g].pc \in {"await", "create"}}

\* How the parts of the state belong together: what a buffered delivery or a
\* goroutine works on was published, and a goroutine at work knows its request.
WellFormed ==
  /\ \A m \in Msgs : st[m] # "unpublished" => reqOf[m] \in Requests
  /\ \A p \in Gateways : \A i \in DOMAIN inbox[p] : st[inbox[p][i].msg] # "unpublished"
  /\ \A g \in Goroutines :
       /\ run[g].pc # "idle" => run[g].req \in Requests
       /\ run[g].watched => run[g].msg \in Msgs
       /\ run[g].msg \in Msgs => /\ st[run[g].msg] # "unpublished"
                                 /\ run[g].req = reqOf[run[g].msg]

\* Runs for a request that never overlapped leave at most one order that is
\* recorded or about to be, however often the message is redelivered, retried
\* or called again: a second submission can only follow an order the gateway
\* lost.  (PlaceOrder's duplicate check is a query of its own and request_id is
\* not unique, so only overlap can defeat it.)
OneOrderPerRequest ==
  \A r \in Requests \ overlapped :
    /\ \A i, j \in RowsOf(r) : i = j
    /\ \A j, k \in Held(r) : j = k
    /\ RowsOf(r) # {} => Held(r) = {}

\* A paper request fills at most once, overlapping runs included: the unique
\* order_id "paper-<request_id>" decides between runs that all saw no row.
PaperFillsOnce == \A r \in Paper : \A i, j \in RowsOf(r) : i = j

\* A run that begins when the request is already recorded never gets as far
\* as the exchange or a second row.
RecordedIsFinal ==
  \A g \in Goroutines : run[g].late => run[g].pc \notin {"submit", "await", "create"}

\* A message is acknowledged only with its order recorded, unless the handler
\* deliberately drops it: unknown exchange, or Create returned an error.
AckedIsRecorded ==
  \A m \in Msgs : st[m] = "acked" =>
    reqOf[m] \in Unrouted \cup unrecorded \/ RowsOf(reqOf[m]) # {}

\* When the message of a manual close is acknowledged, a filled order has been
\* announced to the strategies, over all failures of the publish and retries.
CloseAnnounced ==
  \A m \in Msgs : LET r == reqOf[m] IN
    st[m] = "acked" /\ r \in ManualClose \ (overlapped \cup unrecorded) =>
      \A i \in RowsOf(r) : rows[i].filled => r \in announced

\* Retries never notify twice: a request has at most one notification for each
\* of its rows.
NotifiedOncePerRow == \A r \in Requests : notes[r] <= Cardinality(RowsOf(r))

\* The gateway implements OrderRequests: whatever its messages, goroutines, deadlines
\* and crashes do, every order, row, event and acknowledgement is one that OrderRequests
\* allows in the state it happens in.
Told == {reqOf[m] : m \in {n \in Msgs : st[n] = "acked"}}
Promise == INSTANCE OrderRequests WITH told <- Told
KeepsPromise == Promise!RequestsSpec

\* Every published message is acknowledged, terminated or aged out.
EventuallySettled == \A m \in Msgs : (st[m] # "unpublished") ~> Settled(m)

\* "Sends order and stores order history": an order the exchange accepted for
\* an acknowledged message is in order_histories.
SentIsStored ==
  \A m \in Msgs : st[m] = "acked" =>
    \A k \in 1 .. orders[reqOf[m]] : KeyTaken(reqOf[m], k)
=============================================================================
