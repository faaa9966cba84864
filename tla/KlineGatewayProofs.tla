-------------------------- MODULE KlineGatewayProofs --------------------------
(***************************************************************************)
(* Proofs about KlineGateway, for every set of market types and keys, every *)
(* assignment of keys to types and columns, and every bound: the types, and *)
(* the safety core of Subscribed, which is that a connection whose marker is *)
(* the one remembered carries what the tables ask for.                       *)
(***************************************************************************)
EXTENDS KlineGateway, FiniteSetTheorems, TLAPS

-----------------------------------------------------------------------------
(* The inductive invariant. *)

\* While a subscriber reads the tables, what it has read is what they hold,
\* unless they changed behind it (late): the mapping from its refresh on, the
\* rows from their query on.  A refresh of the other subscriber changes nothing.
Read(m) ==
  ~late[m] =>
    /\ pc[m] \in {"boot", "mark", "load", "state"} => mapping = names
    /\ pc[m] = "mark" => active[m] = Rows(m)
    /\ pc[m] = "state" => got[m] = Rows(m)

\* A connection is open only in the read loop and until a resync closes it.
Opened(m) == conn[m].st = "up" => pc[m] \in {"read", "refresh"}

\* A subscriber that remembers the marker the tables have serves what they ask
\* for, unless the marker could not tell (blind).
Vouched(m) == Running(m) /\ Marker(m) = seen[m] /\ ~blind[m] => Served(m)

GatewayInv == TypeOK /\ \A m \in Types : Read(m) /\ Opened(m) /\ Vouched(m)

\* A connection that is up carries the streams the tables ask for, under the
\* names they give, whenever the marker has not moved since it was remembered.
Settled ==
  \A m \in Types :
    conn[m].st = "up" /\ Marker(m) = seen[m] /\ ~blind[m] => conn[m].streams = Wanted(m)
-----------------------------------------------------------------------------
(* The operators. *)

\* A set of naturals with a bound has a greatest member: the intervals from its
\* members to the bound are finite, and a smallest of them begins at it.
LEMMA Greatest ==
  ASSUME NEW N \in Nat, NEW B \in SUBSET (0 .. N), B # {}
  PROVE  Max(B) \in B
<1> DEFINE T == {x .. N : x \in B}
<1>1. IsWellFoundedOn(StrictSubsetOrdering(0 .. N), FiniteSubsetsOf(0 .. N))
  BY FS_StrictSubsetOrderingWellFounded
<1>2. IsFiniteSet(0 .. N)
  BY FS_Interval
<1>3. \A x \in B : x .. N \in SUBSET (0 .. N)
  OBVIOUS
<1>4. FiniteSubsetsOf(0 .. N) = SUBSET (0 .. N)
  BY <1>2, FS_FiniteSubsetsOfFinite
<1>5. T \subseteq FiniteSubsetsOf(0 .. N) /\ T # {}
  <2>1. PICK b \in B : TRUE
    OBVIOUS
  <2>2. b .. N \in T
    OBVIOUS
  <2>3. QED
    BY <1>3, <1>4, <2>2
<1>6. PICK I \in T : \A J \in T : <<J, I>> \notin StrictSubsetOrdering(0 .. N)
  <2> HIDE DEF T
  <2> QED
    BY <1>1, <1>5, WFMin
<1>7. PICK x \in B : I = x .. N
  OBVIOUS
<1>8. ASSUME NEW y \in B, ~(x >= y)
      PROVE  FALSE
  <2>1. x \in Nat /\ y \in Nat /\ x < y /\ x <= N /\ y <= N
    BY <1>8
  <2>2. y .. N \subseteq x .. N /\ x \in x .. N /\ x \notin y .. N
    BY <2>1
  <2>3. <<y .. N, I>> \in StrictSubsetOrdering(0 .. N)
    BY <1>3, <1>7, <2>2 DEF StrictSubsetOrdering
  <2>4. y .. N \in T
    OBVIOUS
  <2>5. QED
    BY <1>6, <2>3, <2>4
<1>9. QED
  BY <1>8 DEF Max

LEMMA NewestTyped ==
  ASSUME NEW table \in [Keys -> Times], NEW keys \in SUBSET Keys
  PROVE  Newest(table, keys) \in Times
<1>1. {table[k] : k \in keys} \cup {0} \in SUBSET (0 .. MaxEdits + 1)
  BY BoundsAssumption DEF Times
<1>2. MaxEdits + 1 \in Nat
  BY BoundsAssumption
<1>3. Newest(table, keys) \in {table[k] : k \in keys} \cup {0}
  BY <1>1, <1>2, Greatest DEF Newest
<1>4. QED
  BY <1>1, <1>3 DEF Times

LEMMA StreamsTyped ==
  ASSUME NEW rows \in [Keys -> Times], NEW map \in [Keys -> Times]
  PROVE  StreamsOf(rows, map) \in [Keys -> Streams]
<1>1. 0 \in Times
  BY BoundsAssumption DEF Times
<1>2. \A k \in Keys : rows[k] \in Times /\ map[k] \in Times
  OBVIOUS
<1>3. QED
  BY <1>1, <1>2 DEF StreamsOf, Streams, NoStream

LEMMA MarkerTyped ==
  ASSUME TypeOK, NEW m \in Types
  PROVE  Marker(m) \in Times \X Times
<1>1. names \in [Keys -> Times] /\ subs \in [Keys -> Times]
  BY DEF TypeOK
<1>2. QED
  BY <1>1, NewestTyped DEF Marker

LEMMA RowsTyped ==
  ASSUME TypeOK, NEW m \in Types
  PROVE  Rows(m) \in [Keys -> Times]
<1>1. 0 \in Times /\ subs \in [Keys -> Times]
  BY BoundsAssumption DEF Times, TypeOK
<1>2. QED
  BY <1>1 DEF Rows

LEMMA NoConnTyped ==
  ASSUME NEW st \in {"none", "up", "closed"}
  PROVE  /\ NoConn(st) \in [st : {"none", "up", "closed"}, streams : [Keys -> Streams]]
         /\ NoConn(st).st = st
<1>1. 0 \in Times
  BY BoundsAssumption DEF Times
<1>2. NoStream \in Streams
  BY <1>1 DEF NoStream, Streams
<1>3. QED
  BY <1>2 DEF NoConn

\* The streams tell which rows they were made of.
LEMMA RowsOfStreams ==
  ASSUME NEW rows \in [Keys -> Times], NEW other \in [Keys -> Times], NEW map, NEW map2,
         StreamsOf(rows, map) = StreamsOf(other, map2)
  PROVE  rows = other
<1>1. \A k \in Keys : StreamsOf(rows, map)[k].sub = rows[k]
  BY DEF StreamsOf, NoStream
<1>2. \A k \in Keys : StreamsOf(other, map2)[k].sub = other[k]
  BY DEF StreamsOf, NoStream
<1>3. \A k \in Keys : rows[k] = other[k]
  BY <1>1, <1>2
<1>4. QED
  BY <1>3

\* A mapping that is read again does not take from a subscriber what it had.
LEMMA Refreshed ==
  ASSUME TypeOK, NEW m \in Types, Current(m)
  PROVE  active[m] = Rows(m) /\ StreamsOf(active[m], names) = Wanted(m)
<1>1. active[m] \in [Keys -> Times]
  BY DEF TypeOK
<1>2. active[m] = Rows(m)
  BY <1>1, RowsTyped, RowsOfStreams DEF Current, Wanted
<1>3. QED
  BY <1>2 DEF Wanted

LEMMA TablesKept ==
  ASSUME UNCHANGED tables, NEW m
  PROVE  Marker(m)' = Marker(m) /\ Rows(m)' = Rows(m) /\ Wanted(m)' = Wanted(m)
  BY DEF tables, Marker, Newest, Rows, Wanted, StreamsOf
-----------------------------------------------------------------------------
(* The types. *)

Stages == {"never", "mark", "refresh", "load", "state", "dial", "read"}
Conns  == [st : {"none", "up", "closed"}, streams : [Keys -> Streams]]

LEMMA GatewayInit == Init => GatewayInv
<1> SUFFICES ASSUME Init
             PROVE  GatewayInv
  OBVIOUS
<1>1. 0 \in Times /\ 1 \in Times /\ 1 \in 1 .. MaxEdits + 1 /\ 0 \in 0 .. MaxFaults
  BY BoundsAssumption DEF Times
<1>2. conn \in [Types -> Conns]
  BY NoConnTyped DEF Init, Conns
<1>3. /\ subs \in [Keys -> Times] /\ names \in [Keys -> Times] /\ mapping \in [Keys -> Times]
      /\ active \in [Types -> [Keys -> Times]] /\ got \in [Types -> [Keys -> Times]]
      /\ seen \in [Types -> Times \X Times]
      /\ late \in [Types -> BOOLEAN] /\ blind \in [Types -> BOOLEAN]
  BY <1>1 DEF Init
<1>4. TypeOK
  BY <1>1, <1>2, <1>3 DEF Init, TypeOK, Conns
<1>5. ASSUME NEW m \in Types
      PROVE  Read(m) /\ Opened(m) /\ Vouched(m)
  <2>1. pc[m] = "off" /\ conn[m].st = "none"
    BY NoConnTyped DEF Init, Off
  <2>2. QED
    BY <2>1 DEF Read, Opened, Vouched, Running
<1>6. QED
  BY <1>4, <1>5 DEF GatewayInv

\* A subscriber that runs has a stage, and so have the others.
LEMMA RunningStages ==
  ASSUME TypeOK, NEW m \in Types, pc[m] \notin {"off", "boot"}
  PROVE  pc \in [Types -> Stages]
<1>1. pc # Off /\ pc # [n \in Types |-> "boot"]
  BY DEF Off
<1>2. QED
  BY <1>1 DEF TypeOK, Stages

\* The variables of the types, one by one.
LEMMA Typed ==
  /\ TypeOK =>
       /\ subs \in [Keys -> Times] /\ names \in [Keys -> Times] /\ mapping \in [Keys -> Times]
       /\ clock \in 1 .. MaxEdits + 1 /\ faults \in 0 .. MaxFaults
       /\ conn \in [Types -> Conns]
       /\ active \in [Types -> [Keys -> Times]] /\ got \in [Types -> [Keys -> Times]]
       /\ seen \in [Types -> Times \X Times]
       /\ late \in [Types -> BOOLEAN] /\ blind \in [Types -> BOOLEAN]
  /\ TypeOK' <=>
       /\ (subs' \in [Keys -> Times] /\ names' \in [Keys -> Times]) /\ mapping' \in [Keys -> Times]
       /\ clock' \in 1 .. MaxEdits + 1 /\ faults' \in 0 .. MaxFaults
       /\ pc' = Off \/ pc' = [m \in Types |-> "boot"] \/ pc' \in [Types -> Stages]
       /\ conn' \in [Types -> Conns]
       /\ active' \in [Types -> [Keys -> Times]] /\ got' \in [Types -> [Keys -> Times]]
       /\ seen' \in [Types -> Times \X Times]
       /\ late' \in [Types -> BOOLEAN] /\ blind' \in [Types -> BOOLEAN]
  BY DEF TypeOK, Conns, Stages, Off

LEMMA EditTyped ==
  ASSUME TypeOK, NEW k \in Keys, Edit(k)
  PROVE  TypeOK'
<1> USE BoundsAssumption
<1>1. clock \in 1 .. MaxEdits + 1
  BY Typed
<1>2. 0 \in Times /\ clock + 1 \in Times /\ clock' \in 1 .. MaxEdits + 1
  <2>1. clock <= MaxEdits /\ clock' = clock + 1
    BY DEF Edit
  <2>2. QED
    BY <1>1, <2>1 DEF Times
<1>3. subs' \in [Keys -> Times] /\ names' \in [Keys -> Times]
  <2>1. subs \in [Keys -> Times] /\ names \in [Keys -> Times]
    BY Typed
  <2>2. \/ UNCHANGED names /\ \E t \in {0, clock + 1} : subs' = [subs EXCEPT ![k] = t]
        \/ UNCHANGED subs /\ \E t \in {0, clock + 1} : names' = [names EXCEPT ![k] = t]
    BY DEF Edit
  <2>3. PICK t \in Times : \/ UNCHANGED names /\ subs' = [subs EXCEPT ![k] = t]
                           \/ UNCHANGED subs /\ names' = [names EXCEPT ![k] = t]
    BY <1>2, <2>2
  <2>4. QED
    BY <2>1, <2>3
<1>4. late' \in [Types -> BOOLEAN] /\ blind' \in [Types -> BOOLEAN]
  BY DEF Edit
<1>5. UNCHANGED <<mapping, pc, conn, active, got, seen, faults>>
  BY DEF Edit, held
<1>6. QED
  BY <1>2, <1>3, <1>4, <1>5, Typed DEF TypeOK, Stages

LEMMA BootTyped ==
  ASSUME TypeOK, Boot
  PROVE  TypeOK'
<1>1. UNCHANGED <<subs, names, clock, conn, active, got, seen, blind, faults>>
  BY DEF Boot, tables, held
<1>2. /\ mapping' \in [Keys -> Times] /\ late' \in [Types -> BOOLEAN]
      /\ pc' = [m \in Types |-> "boot"]
  BY Typed DEF Boot
<1>3. QED
  BY <1>1, <1>2, Typed

LEMMA CountsFault ==
  ASSUME TypeOK, faults < MaxFaults, faults' = faults + 1
  PROVE  faults' \in 0 .. MaxFaults
<1>1. faults \in 0 .. MaxFaults
  BY Typed
<1>2. QED
  BY <1>1, BoundsAssumption

LEMMA StartTyped ==
  ASSUME TypeOK, Start
  PROVE  TypeOK'
<1>1. UNCHANGED <<subs, names, clock, mapping, conn, got, seen, late>>
  BY DEF Start, tables
<1>2. CASE faults' = faults + 1 /\ faults < MaxFaults /\ pc' = [m \in Types |-> "never"]
           /\ UNCHANGED <<active, blind>>
  <2>1. pc' \in [Types -> Stages]
    BY <1>2 DEF Stages
  <2>2. QED
    BY <1>1, <1>2, <2>1, Typed, CountsFault
<1>3. CASE /\ active' = [m \in Types |-> Rows(m)]
           /\ pc' = [m \in Types |-> IF \E k \in Keys : Rows(m)[k] # 0 THEN "mark" ELSE "never"]
           /\ blind' = [m \in Types |-> Marker(m) = seen[m] /\ ~Current(m)']
           /\ UNCHANGED faults
  <2>1. active' \in [Types -> [Keys -> Times]]
    BY <1>3, RowsTyped
  <2>2. pc' \in [Types -> Stages] /\ blind' \in [Types -> BOOLEAN]
    BY <1>3 DEF Stages
  <2>3. QED
    BY <1>1, <1>3, <2>1, <2>2, Typed
<1>4. QED
  BY <1>2, <1>3 DEF Start

LEMMA CrashTyped ==
  ASSUME TypeOK, Crash
  PROVE  TypeOK'
<1>1. UNCHANGED <<subs, names, clock>> /\ pc' = Off
  BY DEF Crash, tables
<1>2. 0 \in Times
  BY BoundsAssumption DEF Times
<1>3. /\ mapping' \in [Keys -> Times]
      /\ active' \in [Types -> [Keys -> Times]] /\ got' \in [Types -> [Keys -> Times]]
      /\ seen' \in [Types -> Times \X Times]
      /\ late' \in [Types -> BOOLEAN] /\ blind' \in [Types -> BOOLEAN]
  BY <1>2 DEF Crash
<1>4. conn' \in [Types -> Conns]
  BY NoConnTyped DEF Crash, Conns
<1>5. faults' \in 0 .. MaxFaults
  BY CountsFault DEF Crash
<1>6. QED
  BY <1>1, <1>3, <1>4, <1>5, Typed

LEMMA SubscriberTyped ==
  ASSUME TypeOK, NEW m \in Types, Step(m) \/ Fail(m) \/ Lose(m)
  PROVE  TypeOK'
<1> USE DEF tables, held, ghosts
<1>1. CASE Mark(m)
  <2>1. pc \in [Types -> Stages]
    BY <1>1, RunningStages DEF Mark
  <2>2. pc' \in [Types -> Stages]
    BY <1>1, <2>1 DEF Mark, Stages
  <2>3. seen' \in [Types -> Times \X Times] /\ blind' \in [Types -> BOOLEAN]
    BY <1>1, MarkerTyped, Typed DEF Mark
  <2>4. QED
    BY <1>1, <2>2, <2>3, Typed DEF Mark
<1>2. CASE Refresh(m)
  <2>1. pc \in [Types -> Stages]
    BY <1>2, RunningStages DEF Refresh
  <2>2. pc' \in [Types -> Stages]
    BY <1>2, <2>1 DEF Refresh, Stages
  <2>3. NoConn("closed") \in Conns
    BY NoConnTyped DEF Conns
  <2>4. /\ mapping' \in [Keys -> Times] /\ late' \in [Types -> BOOLEAN]
        /\ conn' \in [Types -> Conns]
    BY <1>2, <2>3, Typed DEF Refresh
  <2>5. QED
    BY <1>2, <2>2, <2>4, Typed DEF Refresh
<1>3. CASE Load(m)
  <2>1. pc \in [Types -> Stages]
    BY <1>3, RunningStages DEF Load
  <2>2. pc' \in [Types -> Stages]
    BY <1>3, <2>1 DEF Load, Stages
  <2>3. got' \in [Types -> [Keys -> Times]]
    BY <1>3, RowsTyped, Typed DEF Load
  <2>4. QED
    BY <1>3, <2>2, <2>3, Typed DEF Load
<1>4. CASE State(m)
  <2>1. pc \in [Types -> Stages]
    BY <1>4, RunningStages DEF State
  <2>2. pc' \in [Types -> Stages]
    BY <1>4, <2>1 DEF State, Stages
  <2>3. /\ active' \in [Types -> [Keys -> Times]]
        /\ seen' \in [Types -> Times \X Times] /\ blind' \in [Types -> BOOLEAN]
    BY <1>4, MarkerTyped, Typed DEF State
  <2>4. QED
    BY <1>4, <2>2, <2>3, Typed DEF State
<1>5. CASE Dial(m)
  <2>1. pc \in [Types -> Stages]
    BY <1>5, RunningStages DEF Dial
  <2>2. pc' \in [Types -> Stages]
    BY <1>5, <2>1 DEF Dial, Stages
  <2>3. StreamsOf(active[m], mapping) \in [Keys -> Streams]
    BY StreamsTyped, Typed
  <2>4. conn' \in [Types -> Conns]
    BY <1>5, <2>3, Typed DEF Dial, Conns
  <2>5. QED
    BY <1>5, <2>2, <2>4, Typed DEF Dial
<1>6. CASE Tick(m)
  <2>1. pc \in [Types -> Stages]
    BY <1>6, RunningStages DEF Tick
  <2>2. pc' \in [Types -> Stages]
    BY <1>6, <2>1 DEF Tick, Stages
  <2>3. QED
    BY <1>6, <2>2, Typed DEF Tick
<1>7. CASE ReadError(m)
  <2>1. pc \in [Types -> Stages]
    BY <1>7, RunningStages DEF ReadError
  <2>2. pc' \in [Types -> Stages]
    BY <1>7, <2>1 DEF ReadError, Stages
  <2>3. QED
    BY <1>7, <2>2, Typed DEF ReadError
<1>8. CASE Fail(m)
  <2>1. pc \in [Types -> Stages]
    BY <1>8, RunningStages DEF Fail
  <2>2. pc' \in [Types -> Stages]
    BY <1>8, <2>1 DEF Fail, Fails, Stages
  <2>3. faults' \in 0 .. MaxFaults
    BY <1>8, CountsFault DEF Fail, Fails
  <2>4. QED
    BY <1>8, <2>2, <2>3, Typed DEF Fail, Fails
<1>9. CASE Lose(m)
  <2>1. NoConn("closed") \in Conns
    BY NoConnTyped DEF Conns
  <2>2. conn' \in [Types -> Conns]
    BY <1>9, <2>1, Typed DEF Lose
  <2>3. faults' \in 0 .. MaxFaults
    BY <1>9, CountsFault DEF Lose
  <2>4. pc = Off \/ pc = [n \in Types |-> "boot"] \/ pc \in [Types -> Stages]
    BY DEF TypeOK, Stages
  <2>5. QED
    BY <1>9, <2>2, <2>3, <2>4, Typed DEF Lose
<1>10. QED
  BY <1>1, <1>2, <1>3, <1>4, <1>5, <1>6, <1>7, <1>8, <1>9 DEF Step
-----------------------------------------------------------------------------
(* The invariant. *)

\* A subscriber of whom a step changes nothing stays as it was.
LEMMA Untouched ==
  ASSUME NEW n \in Types, Read(n), Opened(n), Vouched(n),
         UNCHANGED <<tables, mapping>>,
         pc'[n] = pc[n], conn'[n] = conn[n], active'[n] = active[n], got'[n] = got[n],
         seen'[n] = seen[n], late'[n] = late[n], blind'[n] = blind[n]
  PROVE  Read(n)' /\ Opened(n)' /\ Vouched(n)'
<1>1. Marker(n)' = Marker(n) /\ Rows(n)' = Rows(n) /\ Wanted(n)' = Wanted(n)
  BY TablesKept
<1>2. Running(n)' = Running(n)
  BY DEF Running
<1>3. Current(n)' = Current(n)
  BY <1>1 DEF Current, StreamsOf
<1>4. Served(n)' = Served(n)
  BY <1>1, <1>3 DEF Served
<1>5. Vouched(n)'
  BY <1>1, <1>2, <1>4 DEF Vouched
<1>6. Read(n)' /\ Opened(n)'
  BY <1>1 DEF Read, Opened, tables
<1>7. QED
  BY <1>5, <1>6

\* Only the tables' rows, the mapping and what a subscriber holds decide what it
\* serves: a connection that is not open asks for nothing more.
LEMMA ClosedServes ==
  ASSUME NEW n \in Types, conn[n].st # "up", Current(n)
  PROVE  Served(n)
  BY DEF Served

\* What a subscriber has read is what it serves from then on.
LEMMA ReadIsCurrent ==
  ASSUME NEW n \in Types, active[n] = Rows(n), mapping = names
  PROVE  Current(n)
  BY DEF Current, Wanted

LEMMA EditKeeps ==
  ASSUME GatewayInv, NEW k \in Keys, Edit(k), NEW n \in Types
  PROVE  Read(n)' /\ Opened(n)' /\ Vouched(n)'
<1>1. Read(n) /\ Opened(n) /\ late \in [Types -> BOOLEAN] /\ blind \in [Types -> BOOLEAN]
  BY Typed DEF GatewayInv
<1>2. UNCHANGED <<mapping, pc, conn, active, got, seen>>
  BY DEF Edit, held
<1>3. Read(n)'
  <2>1. CASE UNCHANGED names /\ late' = [m \in Types |-> late[m] \/ pc[m] \in {"mark", "state"}]
    BY <1>1, <1>2, <2>1 DEF Read
  <2>2. CASE late' = [m \in Types |-> late[m] \/ pc[m] \in {"boot", "mark", "load", "state"}]
    BY <1>1, <1>2, <2>2 DEF Read
  <2>3. QED
    BY <2>1, <2>2 DEF Edit
<1>4. Opened(n)'
  BY <1>1, <1>2 DEF Opened
<1>5. Vouched(n)'
  <2>1. blind'[n] = (blind[n] \/ (Marker(n)' = seen[n] /\ ~Served(n)'))
    BY DEF Edit
  <2>2. QED
    BY <1>2, <2>1 DEF Vouched
<1>6. QED
  BY <1>3, <1>4, <1>5

LEMMA BootKeeps ==
  ASSUME GatewayInv, Boot, NEW n \in Types
  PROVE  Read(n)' /\ Opened(n)' /\ Vouched(n)'
<1>1. Opened(n) /\ pc[n] = "off"
  BY DEF GatewayInv, Boot, Off
<1>2. conn[n].st # "up"
  BY <1>1 DEF Opened
<1>3. pc'[n] = "boot" /\ UNCHANGED conn /\ mapping' = names'
  BY DEF Boot, tables
<1>4. QED
  BY <1>2, <1>3 DEF Read, Opened, Vouched, Running

LEMMA StartKeeps ==
  ASSUME GatewayInv, Start, NEW n \in Types
  PROVE  Read(n)' /\ Opened(n)' /\ Vouched(n)'
<1>1. Read(n) /\ Opened(n) /\ pc[n] = "boot" /\ UNCHANGED <<tables, mapping, conn, got, seen, late>>
  BY DEF GatewayInv, Start
<1>2. conn[n].st # "up"
  BY <1>1 DEF Opened
<1>3. Marker(n)' = Marker(n) /\ Rows(n)' = Rows(n)
  BY <1>1, TablesKept
<1>4. UNCHANGED names
  BY <1>1 DEF tables
<1>5. CASE pc' = [m \in Types |-> "never"]
  BY <1>1, <1>2, <1>5 DEF Read, Opened, Vouched, Running
<1>6. CASE /\ active' = [m \in Types |-> Rows(m)]
           /\ pc' = [m \in Types |-> IF \E k \in Keys : Rows(m)[k] # 0 THEN "mark" ELSE "never"]
           /\ blind' = [m \in Types |-> Marker(m) = seen[m] /\ ~Current(m)']
  <2>1. active'[n] = Rows(n)' /\ pc'[n] \in {"mark", "never"}
    BY <1>3, <1>6
  <2>2. Read(n)' /\ Opened(n)'
    BY <1>1, <1>2, <1>4, <2>1 DEF Read, Opened
  <2>3. blind'[n] = (Marker(n) = seen[n] /\ ~Current(n)')
    BY <1>6
  <2>4. Current(n)' => Served(n)'
    BY <1>1, <1>2 DEF Served
  <2>5. Vouched(n)'
    BY <1>1, <1>3, <2>3, <2>4 DEF Vouched
  <2>6. QED
    BY <2>2, <2>5
<1>7. QED
  BY <1>5, <1>6 DEF Start

LEMMA CrashKeeps ==
  ASSUME GatewayInv, Crash, NEW n \in Types
  PROVE  Read(n)' /\ Opened(n)' /\ Vouched(n)'
<1>1. pc'[n] = "off" /\ conn'[n] = NoConn("none")
  BY DEF Crash, Off
<1>2. conn'[n].st = "none"
  BY <1>1, NoConnTyped
<1>3. QED
  BY <1>1, <1>2 DEF Read, Opened, Vouched, Running
\* A step of one subscriber changes nothing for another but the mapping, which a
\* refresh makes what the table says.
LEMMA OthersKeep ==
  ASSUME GatewayInv, NEW m \in Types, NEW n \in Types \ {m}, Step(m) \/ Fail(m) \/ Lose(m)
  PROVE  Read(n)' /\ Opened(n)' /\ Vouched(n)'
<1>1. Read(n) /\ Opened(n) /\ Vouched(n) /\ TypeOK
  BY DEF GatewayInv
<1>2. /\ UNCHANGED tables
      /\ pc'[n] = pc[n] /\ conn'[n] = conn[n] /\ active'[n] = active[n] /\ got'[n] = got[n]
      /\ seen'[n] = seen[n] /\ late'[n] = late[n] /\ blind'[n] = blind[n]
  <2>1. pc \in [Types -> Stages] \/ (\E v \in {"off", "boot"} : pc = [t \in Types |-> v])
    BY <1>1 DEF TypeOK, Stages, Off
  <2>2. DOMAIN pc = Types
    BY <2>1
  <2>3. QED
    BY <1>1, <2>2, Typed
       DEF Step, Mark, Refresh, Load, State, Dial, Tick, ReadError, Fail, Fails, Lose, held, ghosts
<1>3. CASE UNCHANGED mapping
  BY <1>1, <1>2, <1>3, Untouched
<1>4. CASE mapping' = names
  <2>1. UNCHANGED names
    BY <1>2 DEF tables
  <2>2. Marker(n)' = Marker(n) /\ Rows(n)' = Rows(n) /\ Wanted(n)' = Wanted(n)
    BY <1>2, TablesKept
  <2>3. Read(n)' /\ Opened(n)'
    BY <1>1, <1>2, <1>4, <2>1, <2>2 DEF Read, Opened
  <2>4. Current(n) => Current(n)'
    <3> SUFFICES ASSUME Current(n)
                 PROVE  Current(n)'
      OBVIOUS
    <3>1. StreamsOf(active[n], names) = Wanted(n)
      BY <1>1, Refreshed
    <3>2. StreamsOf(active[n], mapping)' = StreamsOf(active[n], names)
      BY <1>2, <1>4 DEF StreamsOf
    <3>3. QED
      BY <2>2, <3>1, <3>2 DEF Current
  <2>5. Served(n) => Served(n)'
    BY <1>2, <2>2, <2>4 DEF Served
  <2>6. Vouched(n)'
    BY <1>1, <1>2, <2>2, <2>5 DEF Vouched, Running
  <2>7. QED
    BY <2>3, <2>6
<1>5. QED
  BY <1>3, <1>4 DEF Step, Mark, Refresh, Load, State, Dial, Tick, ReadError, Fail, Fails, Lose

\* A marker that is remembered vouches for what was read before it.
LEMMA MarkKeeps ==
  ASSUME GatewayInv, NEW m \in Types, Mark(m)
  PROVE  Read(m)' /\ Opened(m)' /\ Vouched(m)'
<1> USE DEF tables
<1>1. Read(m) /\ Opened(m) /\ TypeOK
  BY DEF GatewayInv
<1>2. /\ pc[m] = "mark" /\ pc'[m] = "refresh" /\ blind'[m] = late[m]
      /\ UNCHANGED <<tables, mapping, conn, active>>
  <2>1. pc \in [Types -> Stages]
    BY <1>1, RunningStages DEF Mark
  <2>2. QED
    BY <1>1, <2>1, Typed DEF Mark
<1>3. conn[m].st # "up"
  BY <1>1, <1>2 DEF Opened
<1>4. ~late[m] => Current(m)
  BY <1>1, <1>2, ReadIsCurrent DEF Read
<1>5. Current(m)' = Current(m) /\ conn'[m].st # "up"
  BY <1>2, <1>3, TablesKept DEF Current, StreamsOf
<1>6. Current(m)' => Served(m)'
  BY <1>5 DEF Served
<1>7. QED
  BY <1>2, <1>4, <1>5, <1>6 DEF Read, Opened, Vouched

LEMMA RefreshKeeps ==
  ASSUME GatewayInv, NEW m \in Types, Refresh(m)
  PROVE  Read(m)' /\ Opened(m)' /\ Vouched(m)'
<1>1. Vouched(m) /\ TypeOK
  BY DEF GatewayInv
<1>2. /\ pc[m] = "refresh" /\ pc'[m] = "load" /\ mapping' = names
      /\ UNCHANGED <<tables, active, seen, blind>>
  <2>1. pc \in [Types -> Stages]
    BY <1>1, RunningStages DEF Refresh
  <2>2. QED
    BY <2>1 DEF Refresh, held
<1>3. conn'[m].st # "up"
  <2>1. conn \in [Types -> Conns]
    BY <1>1, Typed
  <2>2. conn'[m] = IF conn[m].st = "none" THEN conn[m] ELSE NoConn("closed")
    BY <2>1 DEF Refresh
  <2>3. QED
    BY <2>2, NoConnTyped
<1>4. UNCHANGED names /\ Marker(m)' = Marker(m) /\ Wanted(m)' = Wanted(m)
  BY <1>2, TablesKept DEF tables
<1>5. Read(m)' /\ Opened(m)'
  BY <1>2, <1>3, <1>4 DEF Read, Opened
<1>6. Current(m) => Current(m)'
  <2> SUFFICES ASSUME Current(m)
               PROVE  Current(m)'
    OBVIOUS
  <2>1. StreamsOf(active[m], names) = Wanted(m)
    BY <1>1, Refreshed
  <2>2. StreamsOf(active[m], mapping)' = StreamsOf(active[m], names)
    BY <1>2 DEF StreamsOf
  <2>3. QED
    BY <1>4, <2>1, <2>2 DEF Current
<1>7. Served(m) => Served(m)'
  BY <1>3, <1>6 DEF Served
<1>8. Vouched(m)'
  BY <1>1, <1>2, <1>4, <1>7 DEF Vouched, Running
<1>9. QED
  BY <1>5, <1>8

LEMMA LoadKeeps ==
  ASSUME GatewayInv, NEW m \in Types, Load(m)
  PROVE  Read(m)' /\ Opened(m)' /\ Vouched(m)'
<1>1. Read(m) /\ Opened(m) /\ Vouched(m) /\ TypeOK
  BY DEF GatewayInv
<1>2. /\ pc[m] = "load" /\ pc'[m] = "state" /\ got'[m] = Rows(m)
      /\ UNCHANGED <<tables, mapping, conn, active, seen, late, blind>>
  <2>1. pc \in [Types -> Stages]
    BY <1>1, RunningStages DEF Load
  <2>2. QED
    BY <1>1, <2>1, Typed DEF Load, ghosts
<1>3. Marker(m)' = Marker(m) /\ Rows(m)' = Rows(m) /\ Wanted(m)' = Wanted(m)
  BY <1>2, TablesKept
<1>4. Read(m)' /\ Opened(m)'
  BY <1>1, <1>2, <1>3 DEF Read, Opened, tables
<1>5. Served(m)' = Served(m)
  BY <1>2, <1>3 DEF Served, Current, StreamsOf
<1>6. Vouched(m)'
  BY <1>1, <1>2, <1>3, <1>5 DEF Vouched, Running
<1>7. QED
  BY <1>4, <1>6

LEMMA StateKeeps ==
  ASSUME GatewayInv, NEW m \in Types, State(m)
  PROVE  Read(m)' /\ Opened(m)' /\ Vouched(m)'
<1>1. Read(m) /\ Opened(m) /\ TypeOK
  BY DEF GatewayInv
<1>2. /\ pc[m] = "state" /\ pc'[m] \in {"dial", "read"} /\ active'[m] = got[m]
      /\ blind'[m] = late[m] /\ UNCHANGED <<tables, mapping, conn>>
  <2>1. pc \in [Types -> Stages]
    BY <1>1, RunningStages DEF State
  <2>2. QED
    BY <1>1, <2>1, Typed DEF State
<1>3. conn'[m].st # "up"
  BY <1>1, <1>2 DEF Opened
<1>4. Rows(m)' = Rows(m) /\ UNCHANGED names
  BY <1>2, TablesKept DEF tables
<1>5. ~late[m] => Current(m)'
  <2> SUFFICES ASSUME ~late[m]
               PROVE  Current(m)'
    OBVIOUS
  <2>1. got[m] = Rows(m) /\ mapping = names
    BY <1>1, <1>2 DEF Read
  <2>2. (active[m])' = Rows(m)' /\ mapping' = names'
    BY <1>2, <1>4, <2>1
  <2>3. QED
    BY <2>2 DEF Current, Wanted
<1>6. Current(m)' => Served(m)'
  BY <1>3 DEF Served
<1>7. QED
  BY <1>2, <1>3, <1>5, <1>6 DEF Read, Opened, Vouched

\* A connection is opened with what the subscriber serves.
LEMMA DialKeeps ==
  ASSUME GatewayInv, NEW m \in Types, Dial(m)
  PROVE  Read(m)' /\ Opened(m)' /\ Vouched(m)'
<1>1. Vouched(m) /\ TypeOK
  BY DEF GatewayInv
<1>2. /\ pc[m] = "dial" /\ pc'[m] = "read"
      /\ conn'[m] = [st |-> "up", streams |-> StreamsOf(active[m], mapping)]
      /\ UNCHANGED <<tables, mapping, active, seen, blind>>
  <2>1. pc \in [Types -> Stages]
    BY <1>1, RunningStages DEF Dial
  <2>2. QED
    BY <1>1, <2>1, Typed DEF Dial, held, ghosts
<1>3. Marker(m)' = Marker(m) /\ Wanted(m)' = Wanted(m)
  BY <1>2, TablesKept
<1>4. Read(m)' /\ Opened(m)'
  BY <1>2 DEF Read, Opened
<1>5. Current(m)' = Current(m)
  BY <1>2, <1>3 DEF Current, StreamsOf
<1>6. Current(m) => Served(m)'
  BY <1>2, <1>3, <1>5 DEF Served, Current
<1>7. Served(m) => Current(m)
  BY DEF Served
<1>8. Vouched(m)'
  BY <1>1, <1>2, <1>3, <1>6, <1>7 DEF Vouched, Running
<1>9. QED
  BY <1>4, <1>8

\* The steps that only move a subscriber, or close its connection.
LEMMA MovesKeep ==
  ASSUME GatewayInv, NEW m \in Types, Tick(m) \/ ReadError(m) \/ Fail(m) \/ Lose(m)
  PROVE  Read(m)' /\ Opened(m)' /\ Vouched(m)'
<1>1. Read(m) /\ Opened(m) /\ Vouched(m) /\ TypeOK
  BY DEF GatewayInv
<1>2. UNCHANGED <<tables, mapping, active, got, seen, late, blind>>
  BY DEF Tick, ReadError, Fail, Fails, Lose, held, ghosts
<1>3. Marker(m)' = Marker(m) /\ Rows(m)' = Rows(m) /\ Wanted(m)' = Wanted(m)
  BY <1>2, TablesKept
<1>4. Current(m)' = Current(m)
  BY <1>2, <1>3 DEF Current, StreamsOf
<1>5. CASE Tick(m) \/ ReadError(m) \/ Fail(m)
  <2>1. pc \in [Types -> Stages]
    BY <1>1, <1>5, RunningStages DEF Tick, ReadError, Fail
  <2>2. /\ UNCHANGED conn /\ Running(m) /\ pc'[m] \in {"refresh", "dial", "read"}
        /\ pc'[m] = "dial" => conn[m].st # "up"
    BY <1>1, <1>5, <2>1 DEF Tick, ReadError, Fail, Fails, Opened, Running
  <2>3. Read(m)' /\ Opened(m)'
    BY <2>2 DEF Read, Opened
  <2>4. Served(m)' = Served(m)
    BY <1>3, <1>4, <2>2 DEF Served
  <2>5. QED
    BY <1>1, <1>2, <1>3, <2>2, <2>3, <2>4 DEF Vouched
<1>6. CASE Lose(m)
  <2>1. UNCHANGED pc /\ conn'[m].st # "up"
    BY <1>1, <1>6, NoConnTyped, Typed DEF Lose
  <2>2. Read(m)' /\ Opened(m)'
    BY <1>1, <1>2, <1>3, <2>1 DEF Read, Opened, tables
  <2>3. Served(m) => Served(m)'
    BY <1>4, <2>1 DEF Served
  <2>4. Vouched(m)'
    BY <1>1, <1>2, <1>3, <2>1, <2>3 DEF Vouched, Running
  <2>5. QED
    BY <2>2, <2>4
<1>7. QED
  BY <1>5, <1>6

-----------------------------------------------------------------------------
(* The theorems. *)

LEMMA GatewayNext == GatewayInv /\ [Next]_vars => GatewayInv'
<1> SUFFICES ASSUME GatewayInv, [Next]_vars
             PROVE  GatewayInv'
  OBVIOUS
<1>1. TypeOK
  BY DEF GatewayInv
<1>2. TypeOK'
  <2>1. CASE UNCHANGED vars
    BY <1>1, <2>1 DEF TypeOK, vars, tables, held, ghosts, Times, Streams, Off
  <2>2. CASE Next
    BY <1>1, <2>2, EditTyped, BootTyped, StartTyped, CrashTyped, SubscriberTyped DEF Next
  <2>3. QED
    BY <2>1, <2>2
<1>3. ASSUME NEW n \in Types
      PROVE  Read(n)' /\ Opened(n)' /\ Vouched(n)'
  <2>1. CASE UNCHANGED vars
    <3>1. Read(n) /\ Opened(n) /\ Vouched(n)
      BY DEF GatewayInv
    <3>2. QED
      BY <2>1, <3>1, Untouched DEF vars, tables, held, ghosts
  <2>2. CASE \E k \in Keys : Edit(k)
    BY <2>2, EditKeeps
  <2>3. CASE Boot \/ Start \/ Crash
    BY <2>3, BootKeeps, StartKeeps, CrashKeeps
  <2>4. ASSUME NEW m \in Types, Step(m) \/ Fail(m) \/ Lose(m)
        PROVE  Read(n)' /\ Opened(n)' /\ Vouched(n)'
    <3>1. CASE n # m
      BY <2>4, <3>1, OthersKeep
    <3>2. CASE n = m
      BY <2>4, <3>2, MarkKeeps, RefreshKeeps, LoadKeeps, StateKeeps, DialKeeps, MovesKeep DEF Step
    <3>3. QED
      BY <3>1, <3>2
  <2>5. QED
    BY <2>1, <2>2, <2>3, <2>4 DEF Next
<1>4. QED
  BY <1>2, <1>3 DEF GatewayInv

\* What a resync has read, what a connection carries and what a remembered marker
\* vouches for agree with the tables, in the order of the resync's calls.
THEOREM GatewayInvariant == Spec => []GatewayInv
<1>1. QED
  BY GatewayInit, GatewayNext, PTL DEF Spec

\* Tables, mapping, connections and what the subscribers hold keep their types,
\* and the subscribers of a process are off, starting or running together.
THEOREM GatewayTypes == Spec => []TypeOK
<1>1. GatewayInv => TypeOK
  BY DEF GatewayInv
<1>2. QED
  BY <1>1, GatewayInvariant, PTL

\* Whenever the ticker finds the marker it remembers, an open connection carries
\* the streams the tables ask for, under the names they give, whichever reads,
\* edits, failed resyncs, lost connections and refreshes of the other subscribers
\* came before: the resync need not do anything then (Subscribed has the rest,
\* that every subscriber gets there).
THEOREM SettledIsSubscribed == Spec => []Settled
<1>1. GatewayInv => Settled
  BY DEF GatewayInv, Opened, Vouched, Served, Running, Settled
<1>2. QED
  BY <1>1, GatewayInvariant, PTL

=============================================================================
