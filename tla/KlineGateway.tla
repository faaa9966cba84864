---------------------------- MODULE KlineGateway ----------------------------
(***************************************************************************)
(* The kline websockets of one exchange in the market-data-gateway: one    *)
(* subscriber per market type, which share the symbol mapping in memory,   *)
(* next to the tables kline_subscriptions and symbol_mappings that an      *)
(* operator edits.                                                         *)
(*                                                                         *)
(* A subscriber looks at the tables' change marker, the greatest           *)
(* updated_at, on every tick, and when it moved, reads the mapping, the    *)
(* subscriptions and the marker again, in this order and in calls of their *)
(* own, after closing the connection; the new list is in the URL of the    *)
(* next connection.  A row is represented by its updated_at, 0: no row.    *)
(***************************************************************************)
EXTENDS Naturals, FiniteSets, FiniteSetsExt

CONSTANTS
  Types,       \* market types, each with a subscriber
  Keys,        \* a symbol and interval each
  TypeOf,      \* the market type a key's symbol is of
  Column,      \* the market type in its row (a legacy .P row says spot)
  MaxEdits, MaxFaults  \* bounds: edits of the tables; failed calls, losses, crashes

ASSUME TypesAssumption == TypeOf \in [Keys -> Types] /\ Column \in [Keys -> Types]
ASSUME BoundsAssumption == MaxEdits \in Nat /\ MaxFaults \in Nat

VARIABLES
  subs, names,  \* kline_subscriptions and symbol_mappings, by key
  clock,        \* time of the last edit; 1: when the tables were seeded
  mapping,      \* the symbol mapping in memory
  pc, conn,     \* per subscriber; and its connection
  active,       \* activeSubscriptions
  got,          \* the subscriptions a resync has loaded
  seen,         \* lastResyncState
  late, blind,  \* ghosts, see the properties
  faults

tables == <<subs, names, clock>>
held   == <<active, got, seen>>
ghosts == <<late, blind>>
vars   == <<tables, mapping, pc, conn, held, ghosts, faults>>

Times == 0 .. MaxEdits + 1
NoStream == [sub |-> 0, name |-> 0]
Streams == [sub : Times, name : Times]
Off == [m \in Types |-> "off"]

TypeOK ==
  /\ {subs, names, mapping} \subseteq [Keys -> Times]
  /\ clock \in 1 .. MaxEdits + 1 /\ faults \in 0 .. MaxFaults
  /\ \/ pc = Off \/ pc = [m \in Types |-> "boot"]
     \/ pc \in [Types -> {"never", "mark", "refresh", "load", "state", "dial", "read"}]
  /\ conn \in [Types -> [st : {"none", "up", "closed"}, streams : [Keys -> Streams]]]
  /\ {active, got} \subseteq [Types -> [Keys -> Times]]
  /\ seen \in [Types -> Times \X Times]
  /\ {late, blind} \subseteq [Types -> BOOLEAN]

-----------------------------------------------------------------------------
Newest(table, keys) == Max({table[k] : k \in keys} \cup {0})

\* loadExchangeResyncState: MAX(updated_at) of the rows that say this type.  (The
\* two queries are one step: an edit in between is found on the next tick.)
Marker(m) ==
  <<Newest(names, {k \in Keys : TypeOf[k] = m}), Newest(subs, {k \in Keys : Column[k] = m})>>

\* normalizeExchangeSubscriptions keeps the rows whose symbol is of this type.
Rows(m) == [k \in Keys |-> IF TypeOf[k] = m THEN subs[k] ELSE 0]

\* resolveBinanceKlineWSURL
StreamsOf(rows, map) ==
  [k \in Keys |-> IF rows[k] = 0 THEN NoStream ELSE [sub |-> rows[k], name |-> map[k]]]

Wanted(m)  == StreamsOf(Rows(m), names)
Current(m) == StreamsOf(active[m], mapping) = Wanted(m)
Served(m)  == Current(m) /\ (conn[m].st = "up" => conn[m].streams = Wanted(m))
NoConn(st) == [st |-> st, streams |-> [k \in Keys |-> NoStream]]
Init ==
  /\ clock = 1
  /\ subs \in [Keys -> {0, 1}] /\ names \in [Keys -> {0, 1}]
  /\ mapping = [k \in Keys |-> 0]
  /\ pc = Off /\ conn = [m \in Types |-> NoConn("none")]
  /\ active = [m \in Types |-> [k \in Keys |-> 0]] /\ got = active
  /\ seen = [m \in Types |-> <<0, 0>>]
  /\ late = [m \in Types |-> FALSE] /\ blind = [m \in Types |-> FALSE]
  /\ faults = 0

-----------------------------------------------------------------------------
\* An operator creates, updates or deletes a row.
Edit(k) ==
  /\ clock <= MaxEdits
  /\ clock' = clock + 1
  /\ \/ /\ \E t \in {0, clock + 1} : t # subs[k] /\ subs' = [subs EXCEPT ![k] = t]
        /\ late' = [m \in Types |-> late[m] \/ pc[m] \in {"mark", "state"}]
        /\ UNCHANGED names
     \/ /\ \E t \in {0, clock + 1} : t # names[k] /\ names' = [names EXCEPT ![k] = t]
        /\ late' = [m \in Types |-> late[m] \/ pc[m] \in {"boot", "mark", "load", "state"}]
        /\ UNCHANGED subs
  /\ UNCHANGED <<mapping, pc, conn, held, faults>>
  /\ blind' = [m \in Types |-> blind[m] \/ (Marker(m)' = seen[m] /\ ~Served(m)')]

-----------------------------------------------------------------------------
\* The process starts

\* InitBinanceExchange
Boot ==
  /\ pc = Off
  /\ mapping' = names
  /\ pc' = [m \in Types |-> "boot"]
  /\ late' = [m \in Types |-> FALSE]
  /\ UNCHANGED <<tables, conn, held, blind, faults>>

\* GetByExchange, once for all types, and SubscribeKlineData: a type without a
\* row gets no subscriber; a failed query leaves the exchange without any.
Start ==
  /\ \A m \in Types : pc[m] = "boot"
  /\ UNCHANGED <<tables, mapping, conn, got, seen, late>>
  /\ \/ /\ active' = [m \in Types |-> Rows(m)]
        /\ pc' = [m \in Types |-> IF \E k \in Keys : Rows(m)[k] # 0 THEN "mark" ELSE "never"]
        /\ blind' = [m \in Types |-> Marker(m) = seen[m] /\ ~Current(m)']
        /\ UNCHANGED faults
     \/ /\ faults < MaxFaults /\ faults' = faults + 1
        /\ pc' = [m \in Types |-> "never"]
        /\ UNCHANGED <<active, blind>>

-----------------------------------------------------------------------------
\* A subscriber

\* (A definition named Mut... is the one after it with a plausible fault: each
\* property below rules one of them out.)
MutFails(m) ==
  /\ faults < MaxFaults /\ faults' = faults + 1
  /\ pc' = [pc EXCEPT ![m] = IF @ = "mark" THEN "refresh" ELSE
                             IF @ = "dial" THEN "off" ELSE
                             IF conn[m].st = "none" THEN "dial" ELSE "read"]
  /\ UNCHANGED <<tables, mapping, conn, held, ghosts>>

\* A call fails.  A failed resync leaves everything but the connection as it
\* was: the first goes on with the rows it has, a later one returns to readLoop.
Fails(m) ==
  /\ faults < MaxFaults /\ faults' = faults + 1
  /\ pc' = [pc EXCEPT ![m] = IF @ = "mark" THEN "refresh" ELSE
                             IF conn[m].st = "none" \/ @ = "dial" THEN "dial" ELSE "read"]
  /\ UNCHANGED <<tables, mapping, conn, held, ghosts>>

Fail(m) == pc[m] \in {"mark", "refresh", "load", "state", "dial"} /\ Fails(m)

\* The initial LoadCurrentResyncState.
Mark(m) ==
  /\ pc[m] = "mark"
  /\ seen' = [seen EXCEPT ![m] = Marker(m)]
  /\ blind' = [blind EXCEPT ![m] = late[m]]
  /\ pc' = [pc EXCEPT ![m] = "refresh"]
  /\ UNCHANGED <<tables, mapping, conn, active, got, late, faults>>

\* refreshExchangeSymbolMapping, after which the connection is closed.
Refresh(m) ==
  /\ pc[m] = "refresh"
  /\ mapping' = names
  /\ conn' = [conn EXCEPT ![m] = IF @.st = "none" THEN @ ELSE NoConn("closed")]
  /\ late' = [late EXCEPT ![m] = FALSE]
  /\ pc' = [pc EXCEPT ![m] = "load"]
  /\ UNCHANGED <<tables, held, blind, faults>>

\* loadExchangeLatestSubscriptions
Load(m) ==
  /\ pc[m] = "load"
  /\ got' = [got EXCEPT ![m] = Rows(m)]
  /\ pc' = [pc EXCEPT ![m] = "state"]
  /\ UNCHANGED <<tables, mapping, conn, active, seen, ghosts, faults>>

\* loadExchangeResyncState: only now the resync counts.
State(m) ==
  /\ pc[m] = "state"
  /\ active' = [active EXCEPT ![m] = got[m]]
  /\ seen' = [seen EXCEPT ![m] = Marker(m)]
  /\ blind' = [blind EXCEPT ![m] = late[m]]
  /\ pc' = [pc EXCEPT ![m] = IF conn[m].st = "none" THEN "dial" ELSE "read"]
  /\ UNCHANGED <<tables, mapping, conn, got, late, faults>>

\* The URL carries the streams, under the names the mapping has by now.
Dial(m) ==
  /\ pc[m] = "dial"
  /\ conn' = [conn EXCEPT ![m] = [st |-> "up", streams |-> StreamsOf(active[m], mapping)]]
  /\ pc' = [pc EXCEPT ![m] = "read"]
  /\ UNCHANGED <<tables, mapping, held, ghosts, faults>>

MutTick(m) ==
  /\ pc[m] = "read"
  /\ Marker(m) # seen[m]
  /\ seen' = [seen EXCEPT ![m] = Marker(m)]
  /\ pc' = [pc EXCEPT ![m] = "refresh"]
  /\ UNCHANGED <<tables, mapping, conn, active, got, ghosts, faults>>

\* The resync ticker: nothing happens unless the marker has moved.
Tick(m) ==
  /\ pc[m] = "read"
  /\ Marker(m) # seen[m]
  /\ pc' = [pc EXCEPT ![m] = "refresh"]
  /\ UNCHANGED <<tables, mapping, conn, held, ghosts, faults>>

\* The exchange closes the connection, or pings and pongs are not answered.
Lose(m) ==
  /\ conn[m].st = "up"
  /\ faults < MaxFaults /\ faults' = faults + 1
  /\ conn' = [conn EXCEPT ![m] = NoConn("closed")]
  /\ UNCHANGED <<tables, mapping, pc, held, ghosts>>

\* The reader finds the connection closed, whoever closed it: the loop is left.
ReadError(m) ==
  /\ pc[m] = "read"
  /\ conn[m].st = "closed"
  /\ pc' = [pc EXCEPT ![m] = "dial"]
  /\ UNCHANGED <<tables, mapping, conn, held, ghosts, faults>>

\* The process dies (of two goroutines that write to a connection at once, too:
\* the resync's close and a ping) and is started again.
Crash ==
  /\ faults < MaxFaults /\ faults' = faults + 1
  /\ pc # Off
  /\ pc' = Off /\ conn' = [m \in Types |-> NoConn("none")]
  /\ active' = [m \in Types |-> [k \in Keys |-> 0]] /\ got' = active'
  /\ seen' = [m \in Types |-> <<0, 0>>]
  /\ late' = [m \in Types |-> FALSE] /\ blind' = [m \in Types |-> FALSE]
  /\ mapping' = [k \in Keys |-> 0]
  /\ UNCHANGED tables

Step(m) == Mark(m) \/ Refresh(m) \/ Load(m) \/ State(m) \/ Dial(m) \/ Tick(m) \/ ReadError(m)

Next ==
  \/ \E k \in Keys : Edit(k)
  \/ Boot \/ Start \/ Crash
  \/ \E m \in Types : Step(m) \/ Fail(m) \/ Lose(m)

Spec == Init /\ [][Next]_vars

\* The process is started, its loops go on and its timers fire; nothing is
\* assumed of the operator, and a failure is a fault of which there are few.
Fairness == WF_vars(Boot) /\ WF_vars(Start) /\ \A m \in Types : WF_vars(Step(m))

FairSpec == Spec /\ Fairness

-----------------------------------------------------------------------------
\* Properties.  late says that the tables changed after a read of theirs and
\* before the marker that is to vouch for it; blind, that such a marker is the
\* one remembered, or that an edit (a delete, or a row whose column names
\* another type) leaves the marker where it was, or puts it back there, while
\* the tables ask for other streams than the connection or the next one has.

Running(m) == pc[m] \notin {"off", "boot", "never"}

\* In the end a subscriber is connected, whatever closed the connection when, and
\* its connection carries the streams the tables ask for, under the names they
\* give, over resyncs that fail halfway, lost connections, and another subscriber
\* that refreshes the mapping: no edit it can see is lost.
Subscribed ==
  \A m \in Types :
    <>[](Running(m) => conn[m].st = "up" /\ (~blind[m] => conn[m].streams = Wanted(m)))
=============================================================================
