------------------------- MODULE OrderEngineProofs -------------------------
(***************************************************************************)
(* Theorems about OrderEngine, for every set of gateways, goroutines,      *)
(* messages and requests and every value of max_retries.                   *)
(***************************************************************************)
EXTENDS OrderEngine, SequenceTheorems, FiniteSetTheorems, TLAPS

\* What identifies a run: a handler step changes none of it unless the run ends.
SameWork(old, new) ==
  /\ new.gw = old.gw /\ new.msg = old.msg /\ new.num = old.num
  /\ new.req = old.req /\ new.watched = old.watched /\ new.late = old.late

\* A run returns: what it did is over, or waits for the select with its result.
Returned(old, new, results) ==
  \/ new = IdleRun
  \/ new.pc = "done" /\ SameWork(old, new) /\ new.ord = old.ord /\ new.res \in results

\* A run goes on with the same order in its hands.
Resumed(old, new, pcs) == SameWork(old, new) /\ new.ord = old.ord /\ new.pc \in pcs

LEMMA IdleType == IdleRun \in Runs
  BY DEF IdleRun, Runs, PCs, Results

LEMMA PutRun ==
  ASSUME TypeOK, NEW g \in Goroutines, NEW new \in Runs, Put(g, new)
  PROVE  /\ run' \in [Goroutines -> Runs]
         /\ run'[g] = new
         /\ \A h \in Goroutines : h # g => run'[h] = run[h]
  BY DEF TypeOK, Put

LEMMA EndRun ==
  ASSUME TypeOK, NEW g \in Goroutines, NEW res \in Results, End(g, res)
  PROVE  \E new \in Runs : Put(g, new) /\ Returned(run[g], new, {res})
<1>1. run[g] \in Runs
  BY DEF TypeOK
<1>2. [run[g] EXCEPT !.pc = "done", !.res = res] \in Runs
  BY <1>1 DEF Runs, PCs
<1>3. Returned(run[g], [run[g] EXCEPT !.pc = "done", !.res = res], {res})
  BY <1>1 DEF Returned, SameWork, Runs
<1>4. QED
  BY <1>2, <1>3, IdleType DEF End, Ended, Returned

LEMMA GotoRun ==
  ASSUME TypeOK, NEW g \in Goroutines, NEW pc \in PCs, Goto(g, pc)
  PROVE  \E new \in Runs : Put(g, new) /\ Resumed(run[g], new, {pc})
<1>1. run[g] \in Runs
  BY DEF TypeOK
<1>2. [run[g] EXCEPT !.pc = pc] \in Runs
  BY <1>1 DEF Runs
<1>3. Resumed(run[g], [run[g] EXCEPT !.pc = pc], {pc})
  BY <1>1 DEF Resumed, SameWork, Runs
<1>4. QED
  BY <1>2, <1>3 DEF Goto

LEMMA AfterCloseRun ==
  ASSUME TypeOK, NEW g \in Goroutines, AfterClose(g)
  PROVE  \E new \in Runs : /\ Put(g, new)
                           /\ \/ Returned(run[g], new, {"ok"})
                              \/ Resumed(run[g], new, {"notify"})
<1>1. "ok" \in Results /\ "notify" \in PCs
  BY DEF Results, PCs
<1>2. CASE Goto(g, "notify")
  BY <1>1, <1>2, GotoRun
<1>3. CASE End(g, "ok")
  BY <1>1, <1>3, EndRun
<1>4. QED
  BY <1>2, <1>3 DEF AfterClose

LEMMA AfterCreateRun ==
  ASSUME TypeOK, NEW g \in Goroutines, NEW f \in BOOLEAN, AfterCreate(g, f)
  PROVE  \E new \in Runs : /\ Put(g, new)
                           /\ \/ Returned(run[g], new, {"ok"})
                              \/ Resumed(run[g], new, {"close", "notify"})
<1>1. "close" \in PCs
  BY DEF PCs
<1>2. CASE Goto(g, "close")
  BY <1>1, <1>2, GotoRun DEF Resumed
<1>3. CASE AfterClose(g)
  BY <1>3, AfterCloseRun DEF Resumed
<1>4. QED
  BY <1>2, <1>3 DEF AfterCreate

LEMMA EnteredRun ==
  ASSUME NEW p \in Gateways, NEW m \in Msgs \cup {None}, NEW n \in Nat,
         NEW r \in Requests
  PROVE  LET new == Entered(p, m, n, r) IN
         /\ new \in Runs
         /\ \/ new = IdleRun
            \/ /\ new.pc \in {"lookup", "done"} /\ new.req = r /\ new.msg = m
               /\ new.ord = 0 /\ new.watched = (m # None)
               /\ new.late = (RowsOf(r) # {})
               /\ new.pc = "done" => new.res = "error" \/ (new.res = "dropped" /\ r \in Unrouted)
               /\ new.pc = "lookup" => r \notin Unrouted
<1> DEFINE start == [IdleRun EXCEPT !.pc = "lookup", !.gw = p, !.msg = m, !.num = n,
                       !.req = r, !.ctx = TRUE, !.watched = (m # None),
                       !.late = RowsOf(r) # {}]
           over(res) == [start EXCEPT !.pc = "done", !.res = res]
<1>1. /\ start \in Runs
      /\ start.pc = "lookup" /\ start.req = r /\ start.msg = m /\ start.ord = 0
      /\ start.watched = (m # None) /\ start.late = (RowsOf(r) # {})
  BY IdleType DEF IdleRun, Runs, PCs
<1>2. ASSUME NEW res \in Results
      PROVE  /\ over(res) \in Runs
             /\ over(res).pc = "done" /\ over(res).req = r /\ over(res).msg = m
             /\ over(res).ord = 0 /\ over(res).watched = (m # None)
             /\ over(res).late = (RowsOf(r) # {}) /\ over(res).res = res
  <2> HIDE DEF start
  <2> QED
    BY <1>1 DEF Runs, PCs
<1>3. "error" \in Results /\ "dropped" \in Results
  BY DEF Results
<1>4. \/ Entered(p, m, n, r) = IdleRun
      \/ Entered(p, m, n, r) = over("error")
      \/ Entered(p, m, n, r) = over("dropped") /\ r \in Unrouted
      \/ Entered(p, m, n, r) = start /\ r \notin Unrouted
  BY DEF Entered
<1> HIDE DEF start, over
<1>5. QED
  BY <1>1, <1>2, <1>3, <1>4, IdleType

-----------------------------------------------------------------------------
\* Every step is of one of three kinds, as far as the runs, the table and the
\* ghosts go: a handler step moves one run; one run enters the handler; or
\* runs are only given up, lose their context, or vanish.
Recorded(r) == RowsOf(r) # {}

Inserts(g) ==
  /\ run[g].pc = "create"
  /\ ~KeyTaken(run[g].req, run[g].ord)
  /\ \E f \in BOOLEAN :
       rows' = Append(rows, [req |-> run[g].req, ord |-> run[g].ord, filled |-> f])

Advance(g, new) ==
  LET r == run[g].req IN
  \/ Returned(run[g], new, {"error"}) /\ rows' = rows
  \/ Returned(run[g], new, {"ok"}) /\ run[g].pc \in {"close", "notify"} /\ rows' = rows
  \/ Returned(run[g], new, {"duplicate"}) /\ run[g].pc = "dupclose" /\ rows' = rows
  \/ Returned(run[g], new, {"duplicate"}) /\ Recorded(r) /\ rows' = rows
  \/ Returned(run[g], new, {"dropped"}) /\ r \in unrecorded' /\ (Inserts(g) \/ rows' = rows)
  \/ Returned(run[g], new, {"ok"}) /\ Inserts(g)
  \/ Resumed(run[g], new, {"close", "notify"}) /\ Inserts(g)
  \/ Resumed(run[g], new, {"notify"}) /\ run[g].pc = "close" /\ rows' = rows
  \/ Resumed(run[g], new, {"dupclose"}) /\ Recorded(r) /\ rows' = rows
  \/ /\ Resumed(run[g], new, {"submit", "create"})
     /\ run[g].pc = "lookup" /\ ~Recorded(r) /\ rows' = rows
     /\ new.pc = "create" <=> r \in Paper
  \/ SameWork(run[g], new) /\ new.pc = "await" /\ run[g].pc = "submit" /\ rows' = rows
  \/ Resumed(run[g], new, {"create"}) /\ run[g].pc = "await" /\ rows' = rows

Moves(g) ==
  /\ run[g].pc \notin {"idle", "done"}
  /\ \E new \in Runs : Put(g, new) /\ Advance(g, new)
  /\ unrecorded \subseteq unrecorded'
  /\ UNCHANGED <<queueVars, overlapped, expired, calls>>

Enters(g) ==
  \E p \in Gateways, m \in Msgs \cup {None}, n \in Nat, r \in Requests :
    /\ Enter(g, p, m, n, r)
    /\ m # None => st[m] # "unpublished" /\ reqOf[m] = r
    /\ UNCHANGED <<st, reqOf, num, effectVars, expired>>

\* A run stays, without its context or its watcher, or is over.
Kept(old, new) ==
  /\ new.pc = old.pc /\ new.msg = old.msg /\ new.req = old.req /\ new.ord = old.ord
  /\ new.res = old.res /\ new.late = old.late
  /\ new.watched => old.watched

Shrinks ==
  /\ run' \in [Goroutines -> Runs]
  /\ \A g \in Goroutines : run'[g] = IdleRun \/ Kept(run[g], run'[g])
  /\ UNCHANGED <<effectVars, overlapped>>

LEMMA LookupMoves ==
  ASSUME TypeOK, NEW g \in Goroutines, Lookup(g)
  PROVE  Moves(g)
<1> DEFINE r == run[g].req
           next == IF r \in Paper THEN "create" ELSE "submit"
<1>1. /\ "error" \in Results /\ "duplicate" \in Results
      /\ next \in PCs /\ "dupclose" \in PCs
  BY DEF Results, PCs
<1>2. \E new \in Runs : Put(g, new) /\ Advance(g, new)
  <2>1. rows' = rows /\ run[g].pc = "lookup"
    BY DEF Lookup, effectVars
  <2>2. CASE End(g, "error")
    BY <1>1, <2>1, <2>2, EndRun DEF Advance
  <2>3. CASE ~Recorded(r) /\ Goto(g, next)
    <3>1. PICK new \in Runs : Put(g, new) /\ Resumed(run[g], new, {next})
      BY <1>1, <2>3, GotoRun
    <3>2. new.pc = "create" <=> r \in Paper
      BY <3>1 DEF Resumed
    <3>3. Resumed(run[g], new, {"submit", "create"})
      BY <3>1 DEF Resumed
    <3>4. Advance(g, new)
      BY <2>1, <2>3, <3>2, <3>3 DEF Advance
    <3>5. QED
      BY <3>1, <3>4
  <2>4. CASE Recorded(r) /\ Goto(g, "dupclose")
    BY <1>1, <2>1, <2>4, GotoRun DEF Advance
  <2>5. CASE Recorded(r) /\ End(g, "duplicate")
    BY <1>1, <2>1, <2>5, EndRun DEF Advance
  <2>6. QED
    BY <2>2, <2>3, <2>4, <2>5 DEF Lookup, GetByRequestID, Recorded
<1>3. QED
  BY <1>2 DEF Moves, Lookup, effectVars

LEMMA SubmitMoves ==
  ASSUME TypeOK, NEW g \in Goroutines, Submit(g), run[g].req \in Requests
  PROVE  Moves(g)
<1> DEFINE sent == [run[g] EXCEPT !.pc = "await", !.ord = orders[run[g].req] + 1]
<1>1. "error" \in Results
  BY DEF Results
<1>2. rows' = rows /\ run[g].pc = "submit"
  BY DEF Submit
<1>3. CASE End(g, "error")
  <2>1. \E new \in Runs : Put(g, new) /\ Advance(g, new)
    BY <1>1, <1>2, <1>3, EndRun DEF Advance
  <2>2. QED
    BY <1>2, <2>1 DEF Moves, Submit
<1>4. CASE Put(g, sent)
  <2>1. run[g] \in Runs /\ orders[run[g].req] + 1 \in Nat
    BY DEF TypeOK
  <2>2. sent \in Runs /\ SameWork(run[g], sent) /\ sent.pc = "await"
    BY <2>1 DEF Runs, PCs, SameWork
  <2>3. Advance(g, sent)
    BY <1>2, <2>2 DEF Advance
  <2> HIDE DEF sent
  <2>4. QED
    BY <1>2, <1>4, <2>2, <2>3 DEF Moves, Submit
<1>5. QED
  BY <1>3, <1>4 DEF Submit

LEMMA ReplyMoves ==
  ASSUME TypeOK, NEW g \in Goroutines, Reply(g)
  PROVE  Moves(g)
<1> DEFINE placed(f) == [run[g] EXCEPT !.pc = "create", !.filled = f]
<1>1. "error" \in Results
  BY DEF Results
<1>2. rows' = rows /\ run[g].pc = "await"
  BY DEF Reply, effectVars
<1>3. CASE End(g, "error")
  <2>1. \E new \in Runs : Put(g, new) /\ Advance(g, new)
    BY <1>1, <1>2, <1>3, EndRun DEF Advance
  <2>2. QED
    BY <1>2, <2>1 DEF Moves, Reply, effectVars
<1>4. ASSUME NEW f \in BOOLEAN, Put(g, placed(f))
      PROVE  Moves(g)
  <2>1. run[g] \in Runs
    BY DEF TypeOK
  <2>2. placed(f) \in Runs /\ Resumed(run[g], placed(f), {"create"})
    BY <2>1 DEF Runs, PCs, SameWork, Resumed
  <2>3. Advance(g, placed(f))
    BY <1>2, <2>2 DEF Advance
  <2> HIDE DEF placed
  <2>4. QED
    BY <1>2, <1>4, <2>2, <2>3 DEF Moves, Reply, effectVars
<1>5. QED
  BY <1>3, <1>4 DEF Reply

LEMMA CreateMoves ==
  ASSUME TypeOK, NEW g \in Goroutines, Create(g)
  PROVE  Moves(g)
<1> DEFINE f == run[g].filled \/ run[g].req \in Paper
<1>1. run[g].pc = "create" /\ f \in BOOLEAN /\ "dropped" \in Results
  BY DEF Create, Results
<1>2. \E new \in Runs : Put(g, new) /\ Advance(g, new)
  <2>1. CASE Inserts(g) /\ AfterCreate(g, f)
    BY <1>1, <2>1, AfterCreateRun DEF Advance
  <2>2. CASE /\ End(g, "dropped") /\ run[g].req \in unrecorded'
             /\ Inserts(g) \/ rows' = rows
    BY <1>1, <2>2, EndRun DEF Advance
  <2>3. QED
    BY <2>1, <2>2 DEF Create, Inserts
<1>3. QED
  BY <1>1, <1>2 DEF Moves, Create

LEMMA PublishMoves ==
  ASSUME TypeOK, NEW g \in Goroutines,
         PublishClose(g) \/ PublishDuplicateClose(g) \/ Notify(g)
  PROVE  Moves(g)
<1>1. "error" \in Results /\ "duplicate" \in Results /\ "ok" \in Results
  BY DEF Results
<1>2. CASE PublishClose(g)
  <2>1. run[g].pc = "close" /\ rows' = rows
    BY <1>2 DEF PublishClose
  <2>2. \E new \in Runs : Put(g, new) /\ Advance(g, new)
    <3>1. CASE End(g, "error")
      BY <1>1, <2>1, <3>1, EndRun DEF Advance
    <3>2. CASE AfterClose(g)
      BY <2>1, <3>2, AfterCloseRun DEF Advance
    <3>3. QED
      BY <1>2, <3>1, <3>2 DEF PublishClose
  <2>3. QED
    BY <1>2, <2>1, <2>2 DEF Moves, PublishClose
<1>3. CASE PublishDuplicateClose(g)
  <2>1. run[g].pc = "dupclose" /\ rows' = rows
    BY <1>3 DEF PublishDuplicateClose
  <2>2. \E new \in Runs : Put(g, new) /\ Advance(g, new)
    BY <1>1, <1>3, <2>1, EndRun DEF Advance, PublishDuplicateClose
  <2>3. QED
    BY <1>3, <2>1, <2>2 DEF Moves, PublishDuplicateClose
<1>4. CASE Notify(g)
  <2>1. run[g].pc = "notify" /\ rows' = rows
    BY <1>4 DEF Notify
  <2>2. \E new \in Runs : Put(g, new) /\ Advance(g, new)
    BY <1>1, <1>4, <2>1, EndRun DEF Advance, Notify
  <2>3. QED
    BY <1>4, <2>1, <2>2 DEF Moves, Notify
<1>5. QED
  BY <1>2, <1>3, <1>4

LEMMA HandlerMoves ==
  ASSUME TypeOK, WellFormed, NEW g \in Goroutines, HandlerStep(g)
  PROVE  Moves(g)
<1>1. CASE Submit(g)
  <2>1. run[g].req \in Requests
    BY <1>1 DEF WellFormed, Submit
  <2>2. QED
    BY <1>1, <2>1, SubmitMoves
<1>2. QED
  BY <1>1, LookupMoves, ReplyMoves, CreateMoves, PublishMoves DEF HandlerStep

LEMMA HeadIsFirst ==
  ASSUME NEW S, NEW s \in Seq(S), s # <<>>
  PROVE  Head(s) \in S /\ Head(s) = s[1] /\ 1 \in DOMAIN s
<1>1. Len(s) \in Nat \ {0}
  BY EmptySeq
<1>2. 1 \in 1 .. Len(s) /\ 1 \in DOMAIN s
  BY <1>1, LenProperties
<1>3. Head(s) = s[1]
  OBVIOUS
<1>4. s[1] \in S
  BY <1>2, ElementOfSeq
<1>5. QED
  BY <1>2, <1>3, <1>4

LEMMA BeginEnters ==
  ASSUME TypeOK, WellFormed, NEW g \in Goroutines, NEW p \in Gateways, Begin(g, p)
  PROVE  Enters(g)
<1> DEFINE d == Head(inbox[p])
<1>1. inbox[p] \in Seq([msg : Msgs, num : Nat]) /\ inbox[p] # <<>>
  BY DEF TypeOK, Begin
<1>2. d \in [msg : Msgs, num : Nat] /\ d = inbox[p][1] /\ 1 \in DOMAIN inbox[p]
  BY <1>1, HeadIsFirst
<1>3. d.msg \in Msgs /\ d.num \in Nat /\ st[d.msg] # "unpublished"
  BY <1>2 DEF WellFormed
<1>4. reqOf[d.msg] \in Requests
  BY <1>3 DEF WellFormed
<1>5. Enter(g, p, d.msg, d.num, reqOf[d.msg])
  BY DEF Begin
<1>6. UNCHANGED <<st, reqOf, num, effectVars, expired>>
  BY DEF Begin, effectVars
<1> HIDE DEF d
<1>7. QED
  BY <1>3, <1>4, <1>5, <1>6 DEF Enters

LEMMA CallEnters ==
  ASSUME NEW g \in Goroutines, NEW p \in Gateways, NEW r \in Requests,
         CallPlaceOrder(g, p, r)
  PROVE  Enters(g)
<1>1. Enter(g, p, None, 0, r)
  BY DEF CallPlaceOrder
<1>2. UNCHANGED <<st, reqOf, num, effectVars, expired>>
  BY DEF CallPlaceOrder, queueVars
<1>3. QED
  BY <1>1, <1>2 DEF Enters

LEMMA GoroutineShrinks ==
  ASSUME TypeOK, NEW g \in Goroutines, Deadline(g) \/ Finish(g) \/ GiveUp(g)
  PROVE  Shrinks
<1>1. UNCHANGED <<effectVars, overlapped>>
  BY DEF Deadline, Finish, GiveUp
<1>2. run[g] \in Runs
  BY DEF TypeOK
<1>3. /\ [run[g] EXCEPT !.ctx = FALSE] \in Runs
      /\ Kept(run[g], [run[g] EXCEPT !.ctx = FALSE])
  BY <1>2 DEF Runs, Kept
<1>4. /\ [run[g] EXCEPT !.watched = FALSE] \in Runs
      /\ Kept(run[g], [run[g] EXCEPT !.watched = FALSE])
  BY <1>2 DEF Runs, Kept
<1>5. \E new \in Runs : Put(g, new) /\ (new = IdleRun \/ Kept(run[g], new))
  BY <1>3, <1>4, IdleType DEF Deadline, Finish, GiveUp
<1>6. \A h \in Goroutines : Kept(run[h], run[h])
  BY DEF Kept
<1>7. QED
  BY <1>1, <1>5, <1>6, PutRun DEF Shrinks

LEMMA CrashShrinks ==
  ASSUME TypeOK, NEW p \in Gateways, Crash(p)
  PROVE  Shrinks
<1>1. UNCHANGED <<effectVars, overlapped>>
  BY DEF Crash
<1>2. \A h \in Goroutines : run[h] \in Runs /\ run'[h] \in {IdleRun, run[h]}
  BY DEF Crash, TypeOK
<1>3. run' \in [Goroutines -> Runs]
  BY <1>2, IdleType DEF Crash, TypeOK
<1>4. QED
  BY <1>1, <1>2, <1>3 DEF Shrinks, Kept

LEMMA StillShrinks ==
  ASSUME TypeOK, UNCHANGED <<run, effectVars, overlapped>>
  PROVE  Shrinks
  BY DEF Shrinks, Kept, TypeOK

LEMMA StepForms ==
  ASSUME TypeOK, WellFormed, [Next]_vars
  PROVE  Shrinks \/ \E g \in Goroutines : HandlerStep(g) \/ Enters(g)
<1>1. CASE UNCHANGED vars
  BY <1>1, StillShrinks DEF vars, effectVars
<1>2. ASSUME NEW m \in Msgs, Queue(m)
      PROVE  Shrinks
  <2>1. UNCHANGED <<run, effectVars, overlapped>>
    BY <1>2 DEF Queue, Publish, Deliver, AckWaitExpires, AgeOut, effectVars
  <2>2. QED
    BY <2>1, StillShrinks
<1>3. ASSUME NEW g \in Goroutines, Goroutine(g)
      PROVE  Shrinks \/ HandlerStep(g) \/ Enters(g)
  BY <1>3, BeginEnters, CallEnters, GoroutineShrinks DEF Goroutine
<1>4. ASSUME NEW r \in Requests, ExpireOrder(r)
      PROVE  Shrinks
  BY <1>4, StillShrinks DEF ExpireOrder
<1>5. QED
  BY <1>1, <1>2, <1>3, <1>4, CrashShrinks DEF Next

LEMMA StepKinds ==
  ASSUME TypeOK, WellFormed, [Next]_vars
  PROVE  Shrinks \/ \E g \in Goroutines : Moves(g) \/ Enters(g)
  BY StepForms, HandlerMoves

-----------------------------------------------------------------------------
\* Types

LEMMA EntersRun ==
  ASSUME TypeOK, WellFormed, NEW g \in Goroutines, Enters(g)
  PROVE  \E new \in Runs, m \in Msgs \cup {None}, r \in Requests :
           /\ Put(g, new)
           /\ m # None => st[m] # "unpublished" /\ reqOf[m] = r
           /\ \/ new = IdleRun
              \/ /\ new.pc \in {"lookup", "done"} /\ new.req = r /\ new.msg = m
                 /\ new.ord = 0 /\ new.watched = (m # None)
                 /\ new.late = (RowsOf(r) # {})
                 /\ new.pc = "done" => new.res = "error" \/ (new.res = "dropped" /\ r \in Unrouted)
                 /\ new.pc = "lookup" => r \notin Unrouted
           /\ overlapped' = IF \E h \in Goroutines : Active(h) /\ run[h].req = r
                            THEN overlapped \cup {r} ELSE overlapped
           /\ UNCHANGED <<st, reqOf, num, effectVars, expired>>
<1>1. PICK p \in Gateways, m \in Msgs \cup {None}, n \in Nat, r \in Requests :
        /\ Enter(g, p, m, n, r)
        /\ m # None => st[m] # "unpublished" /\ reqOf[m] = r
        /\ UNCHANGED <<st, reqOf, num, effectVars, expired>>
  BY DEF Enters
<1> DEFINE new == Entered(p, m, n, r)
<1>2. /\ Put(g, new)
      /\ overlapped' = IF \E h \in Goroutines : Active(h) /\ run[h].req = r
                       THEN overlapped \cup {r} ELSE overlapped
  BY <1>1 DEF Enter
<1>3. /\ new \in Runs
      /\ \/ new = IdleRun
         \/ /\ new.pc \in {"lookup", "done"} /\ new.req = r /\ new.msg = m
            /\ new.ord = 0 /\ new.watched = (m # None)
            /\ new.late = (RowsOf(r) # {})
            /\ new.pc = "done" => new.res = "error" \/ (new.res = "dropped" /\ r \in Unrouted)
            /\ new.pc = "lookup" => r \notin Unrouted
  BY EnteredRun
<1> HIDE DEF new
<1>4. QED
  BY <1>1, <1>2, <1>3

LEMMA RunType ==
  ASSUME TypeOK, WellFormed, [Next]_vars
  PROVE  run' \in [Goroutines -> Runs]
<1>1. ASSUME NEW g \in Goroutines, Moves(g)
      PROVE  run' \in [Goroutines -> Runs]
  BY <1>1, PutRun DEF Moves
<1>2. ASSUME NEW g \in Goroutines, Enters(g)
      PROVE  run' \in [Goroutines -> Runs]
  BY <1>2, EntersRun, PutRun
<1>3. QED
  BY <1>1, <1>2, StepKinds DEF Shrinks

LEMMA AppendIsSeq ==
  ASSUME NEW S, NEW s \in Seq(S), NEW e \in S
  PROVE  /\ Append(s, e) \in Seq(S)
         /\ DOMAIN Append(s, e) = DOMAIN s \cup {Len(s) + 1}
         /\ Append(s, e)[Len(s) + 1] = e
         /\ \A i \in DOMAIN s : Append(s, e)[i] = s[i]
         /\ Len(s) + 1 \notin DOMAIN s
  BY AppendProperties, LenProperties

LEMMA InsertedRow ==
  ASSUME TypeOK, WellFormed, NEW g \in Goroutines, Inserts(g)
  PROVE  \E e \in Rows : /\ e.req = run[g].req /\ e.ord = run[g].ord
                         /\ rows' = Append(rows, e)
<1>1. run[g].req \in Requests /\ run[g].ord \in Nat
  BY DEF Inserts, WellFormed, TypeOK, Runs
<1>2. QED
  BY <1>1 DEF Inserts, Rows

LEMMA RowsType ==
  ASSUME TypeOK, WellFormed, [Next]_vars
  PROVE  rows' \in Seq(Rows)
<1>1. rows \in Seq(Rows)
  BY DEF TypeOK
<1>2. ASSUME NEW g \in Goroutines, Moves(g)
      PROVE  rows' \in Seq(Rows)
  <2>1. rows' = rows \/ Inserts(g)
    BY <1>2 DEF Moves, Advance
  <2>2. QED
    BY <1>1, <2>1, InsertedRow, AppendIsSeq
<1>3. ASSUME NEW g \in Goroutines, Enters(g)
      PROVE  rows' = rows
  BY <1>3 DEF Enters, effectVars
<1>4. QED
  BY <1>1, <1>2, <1>3, StepKinds DEF Shrinks, effectVars

QueueTypeOK ==
  /\ st \in [Msgs -> {"unpublished", "ready", "pending", "acked", "termed", "aged"}]
  /\ reqOf \in [Msgs -> Requests \cup {None}]
  /\ num \in [Msgs -> Nat]
  /\ inbox \in [Gateways -> Seq([msg : Msgs, num : Nat])]
  /\ faults \in Nat

EffectTypeOK ==
  /\ orders \in [Requests -> Nat]
  /\ announced \subseteq Requests
  /\ notes \in [Requests -> Nat]
  /\ expired \subseteq Expiring
  /\ overlapped \subseteq Requests
  /\ unrecorded \subseteq Requests
  /\ calls \in Nat

LEMMA QueueType ==
  ASSUME TypeOK, [Next]_vars
  PROVE  QueueTypeOK'
<1> USE DEF QueueTypeOK
<1>0. QueueTypeOK
  BY DEF TypeOK
<1>1. CASE UNCHANGED vars
  BY <1>0, <1>1 DEF vars
<1>2. ASSUME NEW m \in Msgs, Queue(m)
      PROVE  QueueTypeOK'
  <2>1. ASSUME NEW r \in Requests, Publish(m, r)
        PROVE  QueueTypeOK'
    BY <1>0, <2>1 DEF Publish
  <2>2. ASSUME NEW p \in Gateways, Deliver(m, p)
        PROVE  QueueTypeOK'
    <3>1. num[m] + 1 \in Nat
      BY <1>0
    <3>2. [msg |-> m, num |-> num[m] + 1] \in [msg : Msgs, num : Nat]
      BY <3>1
    <3>3. Append(inbox[p], [msg |-> m, num |-> num[m] + 1]) \in Seq([msg : Msgs, num : Nat])
      BY <1>0, <3>2, AppendIsSeq
    <3>4. inbox' \in [Gateways -> Seq([msg : Msgs, num : Nat])]
      BY <1>0, <2>2, <3>3 DEF Deliver
    <3>5. QED
      BY <1>0, <2>2, <3>1, <3>4 DEF Deliver
  <2>3. CASE AckWaitExpires(m)
    BY <1>0, <2>3 DEF AckWaitExpires
  <2>4. CASE AgeOut(m)
    BY <1>0, <2>4 DEF AgeOut
  <2>5. QED
    BY <1>2, <2>1, <2>2, <2>3, <2>4 DEF Queue
<1>3. ASSUME NEW g \in Goroutines, Goroutine(g)
      PROVE  QueueTypeOK'
  <2>1. CASE HandlerStep(g)
    BY <1>0, <2>1 DEF HandlerStep, Lookup, Submit, Reply, Create, PublishClose,
                      PublishDuplicateClose, Notify, queueVars
  <2>2. CASE Deadline(g)
    BY <1>0, <2>2 DEF Deadline, queueVars
  <2>3. CASE Finish(g) \/ GiveUp(g)
    <3>1. UNCHANGED <<reqOf, num, inbox>>
      BY <2>3 DEF Finish, GiveUp
    <3>2. faults' \in Nat
      BY <1>0, <2>3 DEF Finish, GiveUp, AnswerLost
    <3>3. st' \in [Msgs -> {"unpublished", "ready", "pending", "acked", "termed", "aged"}]
      BY <1>0, <2>3 DEF Finish, GiveUp, AnswerLost, Retry, Settle, Nak
    <3>4. QED
      BY <1>0, <3>1, <3>2, <3>3
  <2>4. ASSUME NEW p \in Gateways, Begin(g, p)
        PROVE  QueueTypeOK'
    <3>1. Tail(inbox[p]) \in Seq([msg : Msgs, num : Nat])
      BY <1>0, <2>4, HeadTailProperties DEF Begin
    <3>2. inbox' \in [Gateways -> Seq([msg : Msgs, num : Nat])]
      BY <1>0, <2>4, <3>1 DEF Begin
    <3>3. UNCHANGED <<st, reqOf, num, faults>>
      BY <2>4 DEF Begin
    <3>4. QED
      BY <1>0, <3>2, <3>3
  <2>5. ASSUME NEW p \in Gateways, NEW r \in Requests, CallPlaceOrder(g, p, r)
        PROVE  QueueTypeOK'
    BY <1>0, <2>5 DEF CallPlaceOrder, queueVars
  <2>6. QED
    BY <1>3, <2>1, <2>2, <2>3, <2>4, <2>5 DEF Goroutine
<1>4. ASSUME NEW r \in Requests, ExpireOrder(r)
      PROVE  QueueTypeOK'
  BY <1>0, <1>4 DEF ExpireOrder, queueVars
<1>5. ASSUME NEW p \in Gateways, Crash(p)
      PROVE  QueueTypeOK'
  <2>1. inbox' \in [Gateways -> Seq([msg : Msgs, num : Nat])]
    BY <1>0, <1>5, EmptySeq DEF Crash
  <2>2. UNCHANGED <<st, reqOf, num>>
    BY <1>5 DEF Crash
  <2>3. faults' \in Nat
    BY <1>0, <1>5 DEF Crash
  <2>4. QED
    BY <1>0, <2>1, <2>2, <2>3
<1>6. QED
  BY <1>1, <1>2, <1>3, <1>4, <1>5 DEF Next

LEMMA EffectType ==
  ASSUME TypeOK, WellFormed, [Next]_vars
  PROVE  EffectTypeOK'
<1> USE DEF EffectTypeOK
<1>0. EffectTypeOK
  BY DEF TypeOK
<1>1. CASE UNCHANGED vars
  BY <1>0, <1>1 DEF vars
<1>2. ASSUME NEW m \in Msgs, Queue(m)
      PROVE  EffectTypeOK'
  BY <1>0, <1>2 DEF Queue, Publish, Deliver, AckWaitExpires, AgeOut
<1>3. ASSUME NEW g \in Goroutines, Goroutine(g)
      PROVE  EffectTypeOK'
  <2>1. CASE HandlerStep(g)
    <3>1. run[g].req \in Requests \/ Lookup(g) \/ Reply(g)
      BY <2>1 DEF HandlerStep, WellFormed, Submit, Create, PublishClose,
                  PublishDuplicateClose, Notify
    <3>2. UNCHANGED <<expired, overlapped, calls>>
      BY <2>1 DEF HandlerStep, Lookup, Submit, Reply, Create, PublishClose,
                  PublishDuplicateClose, Notify
    <3>3. orders' \in [Requests -> Nat]
      <4>1. CASE UNCHANGED orders
        BY <1>0, <4>1
      <4>2. CASE Submit(g)
        BY <1>0, <3>1, <4>2 DEF Submit
      <4>3. QED
        BY <2>1, <4>1, <4>2 DEF HandlerStep, Lookup, Reply, Create, PublishClose,
                                PublishDuplicateClose, Notify, effectVars
    <3>4. announced' \subseteq Requests
      BY <1>0, <2>1, <3>1 DEF HandlerStep, Lookup, Submit, Reply, Create, PublishClose,
                        PublishDuplicateClose, Notify, effectVars
    <3>5. notes' \in [Requests -> Nat]
      <4>1. CASE UNCHANGED notes
        BY <1>0, <4>1
      <4>2. CASE Notify(g)
        BY <1>0, <3>1, <4>2 DEF Notify
      <4>3. QED
        BY <2>1, <4>1, <4>2 DEF HandlerStep, Lookup, Submit, Reply, Create, PublishClose,
                                PublishDuplicateClose, effectVars
    <3>6. unrecorded' \subseteq Requests
      BY <1>0, <2>1, <3>1 DEF HandlerStep, Lookup, Submit, Reply, Create, PublishClose,
                        PublishDuplicateClose, Notify, effectVars
    <3>7. QED
      BY <1>0, <3>2, <3>3, <3>4, <3>5, <3>6
  <2>2. CASE Deadline(g) \/ Finish(g) \/ GiveUp(g)
    BY <1>0, <2>2 DEF Deadline, Finish, GiveUp, effectVars
  <2>3. ASSUME NEW p \in Gateways, Begin(g, p)
        PROVE  EffectTypeOK'
    <3>1. Enters(g) /\ calls' = calls
      BY <2>3, BeginEnters DEF Begin
    <3>2. QED
      BY <1>0, <3>1, EntersRun DEF effectVars
  <2>4. ASSUME NEW p \in Gateways, NEW r \in Requests, CallPlaceOrder(g, p, r)
        PROVE  EffectTypeOK'
    <3>1. Enters(g) /\ calls' = calls + 1
      BY <2>4, CallEnters DEF CallPlaceOrder
    <3>2. QED
      BY <1>0, <3>1, EntersRun DEF effectVars
  <2>5. QED
    BY <1>3, <2>1, <2>2, <2>3, <2>4 DEF Goroutine
<1>4. ASSUME NEW r \in Requests, ExpireOrder(r)
      PROVE  EffectTypeOK'
  BY <1>0, <1>4 DEF ExpireOrder, effectVars
<1>5. ASSUME NEW p \in Gateways, Crash(p)
      PROVE  EffectTypeOK'
  BY <1>0, <1>5 DEF Crash, effectVars
<1>6. QED
  BY <1>1, <1>2, <1>3, <1>4, <1>5 DEF Next

LEMMA TypeStep ==
  ASSUME TypeOK, WellFormed, [Next]_vars
  PROVE  TypeOK'
BY RunType, RowsType, QueueType, EffectType DEF TypeOK, QueueTypeOK, EffectTypeOK

-----------------------------------------------------------------------------
\* What was published stays published, with its request.

LEMMA Answers ==
  ASSUME TypeOK, WellFormed, NEW g \in Goroutines, Finish(g) \/ GiveUp(g)
  PROVE  \E s \in {"ready", "pending", "acked", "termed", "aged"} :
           LET m == run[g].msg IN
           /\ m \in Msgs /\ st[m] # "unpublished" /\ reqOf[m] = run[g].req
           /\ st' = [st EXCEPT ![m] = s] /\ reqOf' = reqOf
           /\ s = "acked" => st[m] = "acked" \/ (run[g].pc = "done" /\ run[g].res # "error")
<1> DEFINE m == run[g].msg
           States == {"ready", "pending", "acked", "termed", "aged"}
<1>1. /\ m \in Msgs /\ st[m] # "unpublished" /\ reqOf[m] = run[g].req
      /\ reqOf' = reqOf
  BY DEF Finish, GiveUp, WellFormed
<1>2. st[m] \in States
  BY <1>1 DEF TypeOK
<1>3. st = [st EXCEPT ![m] = st[m]]
  BY <1>1 DEF TypeOK
<1> HIDE DEF m
<1>4. \/ st' = [st EXCEPT ![m] = st[m]]
      \/ st' = [st EXCEPT ![m] = "ready"]
      \/ st' = [st EXCEPT ![m] = "termed"]
      \/ st' = [st EXCEPT ![m] = "acked"] /\ run[g].pc = "done" /\ run[g].res # "error"
  BY <1>3 DEF Finish, GiveUp, AnswerLost, Retry, Settle, Nak, m
<1>5. QED
  BY <1>1, <1>2, <1>4 DEF m

LEMMA Published ==
  ASSUME TypeOK, WellFormed, [Next]_vars
  PROVE  \A m \in Msgs :
           /\ st[m] # "unpublished" => st'[m] # "unpublished" /\ reqOf'[m] = reqOf[m]
           /\ st'[m] # "unpublished" => reqOf'[m] \in Requests
<1> DEFINE Goal == \A m \in Msgs :
                     /\ st[m] # "unpublished" => st'[m] # "unpublished" /\ reqOf'[m] = reqOf[m]
                     /\ st'[m] # "unpublished" => reqOf'[m] \in Requests
<1>0. /\ st \in [Msgs -> {"unpublished", "ready", "pending", "acked", "termed", "aged"}]
      /\ reqOf \in [Msgs -> Requests \cup {None}]
      /\ \A m \in Msgs : st[m] # "unpublished" => reqOf[m] \in Requests
  BY DEF TypeOK, WellFormed
<1>1. CASE UNCHANGED <<st, reqOf>>
  BY <1>0, <1>1
<1>2. ASSUME NEW m \in Msgs, Queue(m)
      PROVE  Goal
  <2>1. ASSUME NEW r \in Requests, Publish(m, r)
        PROVE  Goal
    BY <1>0, <2>1 DEF Publish
  <2>2. ASSUME reqOf' = reqOf, st[m] # "unpublished",
               NEW s \in {"ready", "pending", "aged"}, st' = [st EXCEPT ![m] = s]
        PROVE  Goal
    BY <1>0, <2>2
  <2>3. QED
    BY <1>2, <2>1, <2>2 DEF Queue, Deliver, AckWaitExpires, AgeOut
<1>3. ASSUME NEW g \in Goroutines, Finish(g) \/ GiveUp(g)
      PROVE  Goal
  BY <1>0, <1>3, Answers
<1>4. ASSUME NEW g \in Goroutines, Goroutine(g)
      PROVE  UNCHANGED <<st, reqOf>> \/ Finish(g) \/ GiveUp(g)
  <2>1. CASE HandlerStep(g)
    BY <2>1, HandlerMoves DEF Moves, queueVars
  <2>2. CASE Deadline(g)
    BY <2>2 DEF Deadline, queueVars
  <2>3. QED
    BY <1>4, <2>1, <2>2 DEF Goroutine, Begin, CallPlaceOrder, queueVars
<1>5. QED
  BY <1>1, <1>2, <1>3, <1>4 DEF Next, vars, ExpireOrder, Crash, queueVars

LEMMA InboxStep ==
  ASSUME TypeOK, WellFormed, [Next]_vars
  PROVE  \A p \in Gateways : \A i \in DOMAIN inbox'[p] : st'[inbox'[p][i].msg] # "unpublished"
<1> DEFINE Deliveries == [msg : Msgs, num : Nat]
           Goal == \A p \in Gateways : \A i \in DOMAIN inbox'[p] :
                     st'[inbox'[p][i].msg] # "unpublished"
<1>1. \A p \in Gateways : \A i \in DOMAIN inbox[p] :
        inbox[p][i].msg \in Msgs /\ st'[inbox[p][i].msg] # "unpublished"
  <2>1. ASSUME NEW p \in Gateways, NEW i \in DOMAIN inbox[p]
        PROVE  inbox[p][i].msg \in Msgs /\ st[inbox[p][i].msg] # "unpublished"
    <3>1. inbox[p] \in Seq(Deliveries)
      BY DEF TypeOK
    <3>2. inbox[p][i] \in Deliveries
      BY <3>1, LenProperties, ElementOfSeq
    <3>3. QED
      BY <3>2 DEF WellFormed
  <2>2. QED
    BY <2>1, Published
<1>2. ASSUME UNCHANGED inbox
      PROVE  Goal
  BY <1>1, <1>2
<1>3. ASSUME NEW m \in Msgs, NEW q \in Gateways, Deliver(m, q)
      PROVE  Goal
  <2> DEFINE d == [msg |-> m, num |-> num[m] + 1]
  <2>1. inbox[q] \in Seq(Deliveries) /\ d \in Deliveries
    <3>1. num[m] + 1 \in Nat
      BY DEF TypeOK
    <3>2. inbox[q] \in Seq(Deliveries)
      BY DEF TypeOK
    <3>3. QED
      BY <3>1, <3>2
  <2>2. inbox' = [inbox EXCEPT ![q] = Append(inbox[q], d)] /\ st'[m] # "unpublished"
    BY <1>3 DEF Deliver, TypeOK
  <2>3. d.msg = m
    OBVIOUS
  <2> HIDE DEF d
  <2>4. \A i \in DOMAIN Append(inbox[q], d) :
          st'[Append(inbox[q], d)[i].msg] # "unpublished"
    BY <1>1, <2>1, <2>2, <2>3, AppendIsSeq
  <2>5. QED
    BY <1>1, <2>2, <2>4 DEF TypeOK
<1>4. ASSUME NEW g \in Goroutines, NEW q \in Gateways, Begin(g, q)
      PROVE  Goal
  <2>1. inbox[q] \in Seq(Deliveries) /\ inbox[q] # <<>>
    BY <1>4 DEF Begin, TypeOK
  <2>2. \A i \in DOMAIN Tail(inbox[q]) :
          i + 1 \in DOMAIN inbox[q] /\ Tail(inbox[q])[i] = inbox[q][i + 1]
    BY <2>1, HeadTailProperties, LenProperties
  <2>3. inbox' = [inbox EXCEPT ![q] = Tail(inbox[q])]
    BY <1>4 DEF Begin
  <2>4. QED
    BY <1>1, <2>2, <2>3 DEF TypeOK
<1>5. ASSUME NEW q \in Gateways, Crash(q)
      PROVE  Goal
  <2>1. inbox' = [inbox EXCEPT ![q] = <<>>]
    BY <1>5 DEF Crash
  <2>2. QED
    BY <1>1, <2>1 DEF TypeOK
<1>6. \/ UNCHANGED inbox
      \/ \E m \in Msgs, q \in Gateways : Deliver(m, q)
      \/ \E g \in Goroutines, q \in Gateways : Begin(g, q)
      \/ \E q \in Gateways : Crash(q)
  <2>1. ASSUME NEW m \in Msgs, Queue(m)
        PROVE  UNCHANGED inbox \/ \E q \in Gateways : Deliver(m, q)
    BY <2>1 DEF Queue, Publish, AckWaitExpires, AgeOut
  <2>2. ASSUME NEW g \in Goroutines, Goroutine(g)
        PROVE  UNCHANGED inbox \/ \E q \in Gateways : Begin(g, q)
    <3>1. CASE HandlerStep(g)
      BY <3>1, HandlerMoves DEF Moves, queueVars
    <3>2. QED
      BY <2>2, <3>1 DEF Goroutine, Deadline, Finish, GiveUp, CallPlaceOrder, queueVars
  <2>3. QED
    BY <2>1, <2>2 DEF Next, vars, ExpireOrder, queueVars
<1>7. QED
  BY <1>2, <1>3, <1>4, <1>5, <1>6

\* What WellFormed says of one run.
Formed(new, state, owner) ==
  /\ new.pc # "idle" => new.req \in Requests
  /\ new.watched => new.msg \in Msgs
  /\ new.msg \in Msgs => state[new.msg] # "unpublished" /\ new.req = owner[new.msg]

LEMMA WellFormedStep ==
  ASSUME TypeOK, WellFormed, [Next]_vars
  PROVE  WellFormed'
<1>1. \A m \in Msgs : st'[m] # "unpublished" => reqOf'[m] \in Requests
  BY Published
<1>2. \A g \in Goroutines : Formed(run[g], st', reqOf')
  BY Published DEF WellFormed, Formed
<1>3. Formed(IdleRun, st', reqOf')
  BY NoneAssumption DEF Formed, IdleRun
<1>4. \A g \in Goroutines : Formed(run'[g], st', reqOf')
  <2>1. ASSUME NEW g \in Goroutines, Moves(g)
        PROVE  \A h \in Goroutines : Formed(run'[h], st', reqOf')
    <3>1. PICK new \in Runs : Put(g, new) /\ Advance(g, new)
      BY <2>1 DEF Moves
    <3>2. new = IdleRun \/ SameWork(run[g], new)
      BY <3>1 DEF Advance, Returned, Resumed
    <3>3. Formed(new, st', reqOf')
      BY <1>2, <1>3, <2>1, <3>2 DEF SameWork, Formed, Moves
    <3>4. QED
      BY <1>2, <3>1, <3>3, PutRun
  <2>2. ASSUME NEW g \in Goroutines, Enters(g)
        PROVE  \A h \in Goroutines : Formed(run'[h], st', reqOf')
    <3>1. PICK new \in Runs, m \in Msgs \cup {None}, r \in Requests :
            /\ Put(g, new)
            /\ m # None => st[m] # "unpublished" /\ reqOf[m] = r
            /\ new = IdleRun \/ (new.req = r /\ new.msg = m /\ new.watched = (m # None))
            /\ UNCHANGED <<st, reqOf>>
      BY <2>2, EntersRun
    <3>2. Formed(new, st', reqOf')
      BY <1>3, <3>1, NoneAssumption DEF Formed
    <3>3. QED
      BY <1>2, <3>1, <3>2, PutRun
  <2>3. CASE Shrinks
    <3>1. ASSUME NEW g \in Goroutines
          PROVE  Formed(run'[g], st', reqOf')
      BY <1>2, <1>3, <2>3 DEF Shrinks, Kept, Formed
    <3>2. QED
      BY <3>1
  <2>4. QED
    BY <2>1, <2>2, <2>3, StepKinds
<1>5. QED
  BY <1>1, <1>4, InboxStep DEF WellFormed, Formed

LEMMA InitTypes == Init => TypeOK /\ WellFormed
<1> SUFFICES ASSUME Init
             PROVE  TypeOK /\ WellFormed
  OBVIOUS
<1>1. TypeOK
  BY IdleType, EmptySeq DEF Init, TypeOK
<1>2. WellFormed
  BY NoneAssumption DEF Init, WellFormed, IdleRun
<1>3. QED
  BY <1>1, <1>2

\* Every variable keeps its type, whatever the goroutines, the queue and the
\* exchange do: what the consumer hands to PlaceOrder is always the request of
\* a published message or of a call, and order_histories holds rows of requests.
THEOREM TypeCorrect == Spec => []TypeOK
<1>1. Init => TypeOK /\ WellFormed
  BY InitTypes
<1>2. TypeOK /\ WellFormed /\ [Next]_vars => (TypeOK /\ WellFormed)'
  BY TypeStep, WellFormedStep
<1>3. QED
  BY <1>1, <1>2, PTL DEF Spec

-----------------------------------------------------------------------------
\* The inductive invariant.  Two runs for one request overlap, or at most one of
\* them is between its start and its end; a run on its way to a new row still
\* finds none; and a result other than an error is backed by a row.

Sequential ==
  \A g, h \in Goroutines :
    Active(g) /\ Active(h) /\ run[g].req = run[h].req /\ run[g].req \notin overlapped
      => g = h

FreshPlacing ==
  \A g \in Goroutines :
    run[g].pc \in {"submit", "await", "create"} /\ run[g].req \notin overlapped
      => ~Recorded(run[g].req)

OneRow == \A r \in Requests \ overlapped : \A i, j \in RowsOf(r) : i = j

\* A run that began late works on a recorded request.
LateRecorded == \A g \in Goroutines : run[g].late => Recorded(run[g].req)

\* Paper runs carry order_id 0 and never reach the exchange.
PaperOrd ==
  \A g \in Goroutines :
    /\ run[g].pc = "lookup" => run[g].ord = 0
    /\ run[g].req \in Paper => run[g].pc \notin {"submit", "await"}
    /\ run[g].req \in Paper /\ run[g].pc = "create" => run[g].ord = 0

PaperRows == \A i \in DOMAIN rows : rows[i].req \in Paper => rows[i].ord = 0

UniqueIds ==
  \A i, j \in DOMAIN rows :
    rows[i].req = rows[j].req /\ rows[i].ord = rows[j].ord => i = j

ResultBacked ==
  \A g \in Goroutines :
    /\ run[g].pc \in {"close", "dupclose", "notify"} => Recorded(run[g].req)
    /\ run[g].pc = "done" =>
         \/ run[g].res = "error"
         \/ run[g].res = "dropped" /\ run[g].req \in Unrouted \cup unrecorded
         \/ Recorded(run[g].req)

IInv ==
  /\ TypeOK
  /\ WellFormed
  /\ Sequential
  /\ FreshPlacing
  /\ OneRow
  /\ LateRecorded
  /\ RecordedIsFinal
  /\ PaperOrd
  /\ PaperRows
  /\ UniqueIds
  /\ ResultBacked
  /\ AckedIsRecorded

LEMMA RowsGrow ==
  ASSUME TypeOK, WellFormed, NEW g \in Goroutines, Inserts(g)
  PROVE  LET n == Len(rows) + 1 IN
         /\ n \notin DOMAIN rows
         /\ DOMAIN rows' = DOMAIN rows \cup {n}
         /\ rows'[n].req = run[g].req /\ rows'[n].ord = run[g].ord
         /\ \A i \in DOMAIN rows : rows'[i] = rows[i]
         /\ \A r : RowsOf(r)' = IF r = run[g].req THEN RowsOf(r) \cup {n} ELSE RowsOf(r)
<1> DEFINE n == Len(rows) + 1
<1>1. PICK e \in Rows : /\ e.req = run[g].req /\ e.ord = run[g].ord
                        /\ rows' = Append(rows, e)
  BY InsertedRow
<1>2. rows \in Seq(Rows)
  BY DEF TypeOK
<1>3. /\ n \notin DOMAIN rows
      /\ DOMAIN rows' = DOMAIN rows \cup {n}
      /\ rows'[n] = e
      /\ \A i \in DOMAIN rows : rows'[i] = rows[i]
  BY <1>1, <1>2, AppendIsSeq
<1> HIDE DEF n
<1>4. \A r : RowsOf(r)' = IF r = run[g].req THEN RowsOf(r) \cup {n} ELSE RowsOf(r)
  BY <1>1, <1>3 DEF RowsOf
<1>5. QED
  BY <1>1, <1>3, <1>4 DEF n

\* Recorded requests stay recorded.
LEMMA RecordedStays ==
  ASSUME TypeOK, WellFormed, [Next]_vars, NEW r, Recorded(r)
  PROVE  Recorded(r)'
<1>1. ASSUME rows' = rows
      PROVE  Recorded(r)'
  BY <1>1 DEF Recorded, RowsOf
<1>2. ASSUME NEW g \in Goroutines, Inserts(g)
      PROVE  Recorded(r)'
  <2>1. RowsOf(r) \subseteq RowsOf(r)'
    BY <1>2, RowsGrow
  <2>2. QED
    BY <2>1 DEF Recorded
<1>3. ASSUME NEW g \in Goroutines, Moves(g)
      PROVE  rows' = rows \/ Inserts(g)
  BY <1>3 DEF Moves, Advance
<1>4. QED
  BY <1>1, <1>2, <1>3, StepKinds DEF Shrinks, Enters, effectVars

\* What the three kinds of step do to one run.
Started(new, r) ==
  /\ new.pc \in {"lookup", "done"} /\ new.req = r /\ new.ord = 0
  /\ new.late = Recorded(r)
  /\ new.pc = "done" => new.res = "error" \/ (new.res = "dropped" /\ r \in Unrouted)
  /\ new.pc = "lookup" => r \notin Unrouted

LEMMA MovedRuns ==
  ASSUME TypeOK, WellFormed, NEW g \in Goroutines, Moves(g)
  PROVE  /\ Advance(g, run'[g])
         /\ \A h \in Goroutines : h # g => run'[h] = run[h]
         /\ Active(g)
         /\ overlapped' = overlapped
         /\ rows' = rows \/ Inserts(g)
<1>1. PICK new \in Runs : Put(g, new) /\ Advance(g, new)
  BY DEF Moves
<1>2. run'[g] = new /\ \A h \in Goroutines : h # g => run'[h] = run[h]
  BY <1>1, PutRun
<1>3. Active(g) /\ overlapped' = overlapped
  BY DEF Moves, Active
<1>4. rows' = rows \/ Inserts(g)
  BY <1>1 DEF Advance
<1>5. QED
  BY <1>1, <1>2, <1>3, <1>4

LEMMA EnteredRuns ==
  ASSUME TypeOK, WellFormed, NEW g \in Goroutines, Enters(g)
  PROVE  /\ \/ run'[g] = IdleRun
            \/ \E r \in Requests :
                 /\ Started(run'[g], r)
                 /\ (\E h \in Goroutines : Active(h) /\ run[h].req = r) => r \in overlapped'
         /\ \A h \in Goroutines : h # g => run'[h] = run[h]
         /\ overlapped \subseteq overlapped'
         /\ rows' = rows /\ unrecorded' = unrecorded
<1>1. PICK new \in Runs, m \in Msgs \cup {None}, r \in Requests :
        /\ Put(g, new)
        /\ \/ new = IdleRun
           \/ /\ new.pc \in {"lookup", "done"} /\ new.req = r /\ new.ord = 0
              /\ new.late = (RowsOf(r) # {})
              /\ new.pc = "done" => new.res = "error" \/ (new.res = "dropped" /\ r \in Unrouted)
              /\ new.pc = "lookup" => r \notin Unrouted
        /\ overlapped' = IF \E h \in Goroutines : Active(h) /\ run[h].req = r
                         THEN overlapped \cup {r} ELSE overlapped
        /\ UNCHANGED effectVars
  BY EntersRun
<1>2. run'[g] = new /\ \A h \in Goroutines : h # g => run'[h] = run[h]
  BY <1>1, PutRun
<1>3. new = IdleRun \/ Started(new, r)
  BY <1>1 DEF Started, Recorded
<1>4. QED
  BY <1>1, <1>2, <1>3 DEF effectVars

LEMMA IdleFacts ==
  IdleRun.pc = "idle" /\ IdleRun.late = FALSE /\ IdleRun.watched = FALSE /\ IdleRun.req = None
  BY DEF IdleRun

\* What stays true of a run when it moves.
LEMMA AdvanceFacts ==
  ASSUME NEW g \in Goroutines, NEW new, Advance(g, new)
  PROVE  \/ new = IdleRun
         \/ /\ new.req = run[g].req /\ new.late = run[g].late /\ new.pc # "lookup"
            /\ new.pc \in {"submit", "await", "create"} =>
                 /\ run[g].pc \in {"lookup", "submit", "await"} /\ rows' = rows
                 /\ run[g].pc = "lookup" => ~Recorded(run[g].req)
  BY IdleFacts DEF Advance, Returned, Resumed, SameWork

LEMMA SequentialStep ==
  ASSUME TypeOK, WellFormed, Sequential, [Next]_vars
  PROVE  Sequential'
<1> SUFFICES ASSUME NEW h \in Goroutines, NEW k \in Goroutines,
                    Active(h)', Active(k)', run'[h].req = run'[k].req,
                    run'[h].req \notin overlapped', h # k
             PROVE  FALSE
  BY DEF Sequential
<1>1. ASSUME NEW g \in Goroutines, Moves(g)
      PROVE  FALSE
  <2>1. \A x \in Goroutines : Active(x)' => Active(x) /\ run'[x].req = run[x].req
    BY <1>1, MovedRuns, AdvanceFacts, IdleFacts DEF Active
  <2>2. QED
    BY <1>1, <2>1, MovedRuns DEF Sequential
<1>2. ASSUME NEW g \in Goroutines, Enters(g)
      PROVE  FALSE
  <2>1. \A x \in Goroutines : x # g => (Active(x)' <=> Active(x)) /\ run'[x] = run[x]
    BY <1>2, EnteredRuns DEF Active
  <2>2. \A x \in Goroutines : Active(g)' /\ Active(x) /\ run[x].req = run'[g].req
                                => run'[g].req \in overlapped'
    BY <1>2, EnteredRuns, IdleFacts DEF Active, Started
  <2>3. h # g /\ k # g
    BY <2>1, <2>2
  <2>4. QED
    BY <1>2, <2>1, <2>3, EnteredRuns DEF Sequential
<1>3. ASSUME Shrinks
      PROVE  FALSE
  <2>1. \A x \in Goroutines : Active(x)' => Active(x) /\ run'[x].req = run[x].req
    BY <1>3, IdleFacts DEF Shrinks, Kept, Active
  <2>2. QED
    BY <1>3, <2>1 DEF Sequential, Shrinks
<1>4. QED
  BY <1>1, <1>2, <1>3, StepKinds

LEMMA SameRows ==
  ASSUME rows' = rows
  PROVE  \A r : RowsOf(r)' = RowsOf(r) /\ (Recorded(r)' <=> Recorded(r))
  BY DEF RowsOf, Recorded

LEMMA FreshPlacingStep ==
  ASSUME TypeOK, WellFormed, Sequential, FreshPlacing, [Next]_vars
  PROVE  FreshPlacing'
<1> DEFINE Placing(x) == x.pc \in {"submit", "await", "create"}
<1> SUFFICES ASSUME NEW h \in Goroutines, NEW r, r = run'[h].req,
                    Placing(run'[h]), r \notin overlapped'
             PROVE  ~Recorded(r)'
  BY DEF FreshPlacing, Recorded, RowsOf
<1>1. ASSUME NEW g \in Goroutines, Moves(g), h = g
      PROVE  ~Recorded(r)'
  <2>1. /\ rows' = rows /\ r = run[g].req /\ r \notin overlapped
        /\ run[g].pc \in {"lookup", "submit", "await"}
        /\ run[g].pc = "lookup" => ~Recorded(r)
    BY <1>1, MovedRuns, AdvanceFacts, IdleFacts
  <2>2. ~Recorded(r)
    BY <2>1 DEF FreshPlacing
  <2>3. QED
    BY <2>1, <2>2, SameRows
<1>2. ASSUME NEW g \in Goroutines, Moves(g), h # g
      PROVE  ~Recorded(r)'
  <2>1. run'[h] = run[h] /\ ~Recorded(r) /\ r \notin overlapped
    BY <1>2, MovedRuns DEF FreshPlacing
  <2>2. CASE rows' = rows
    BY <2>1, <2>2, SameRows
  <2>3. CASE Inserts(g)
    <3>1. Active(h) /\ Active(g)
      BY <1>2, <2>1, MovedRuns DEF Active
    <3>2. r # run[g].req
      BY <1>2, <2>1, <3>1 DEF Sequential
    <3>3. RowsOf(r)' = RowsOf(r)
      BY <2>3, <3>2, RowsGrow
    <3>4. QED
      BY <2>1, <3>3 DEF Recorded
  <2>4. QED
    BY <1>2, <2>2, <2>3, MovedRuns
<1>3. ASSUME NEW g \in Goroutines, Enters(g)
      PROVE  ~Recorded(r)'
  <2>1. run'[h] = run[h] /\ rows' = rows /\ r \notin overlapped
    BY <1>3, EnteredRuns, IdleFacts DEF Started
  <2>2. ~Recorded(r)
    BY <2>1 DEF FreshPlacing
  <2>3. QED
    BY <2>1, <2>2, SameRows
<1>4. CASE Shrinks
  <2>1. /\ r = run[h].req /\ rows' = rows
        /\ r \notin overlapped /\ run[h].pc = run'[h].pc
    BY <1>4, IdleFacts DEF Shrinks, Kept, effectVars
  <2>2. ~Recorded(r)
    BY <2>1 DEF FreshPlacing
  <2>3. QED
    BY <2>1, <2>2, SameRows
<1>5. QED
  BY <1>1, <1>2, <1>3, <1>4, StepKinds

LEMMA OneRowStep ==
  ASSUME TypeOK, WellFormed, FreshPlacing, OneRow, [Next]_vars
  PROVE  OneRow'
<1> SUFFICES ASSUME NEW r \in Requests, r \notin overlapped',
                    NEW i \in RowsOf(r)', NEW j \in RowsOf(r)'
             PROVE  i = j
  BY DEF OneRow
<1>1. overlapped \subseteq overlapped'
  BY StepKinds, MovedRuns, EnteredRuns DEF Shrinks
<1>2. CASE rows' = rows
  BY <1>1, <1>2, SameRows DEF OneRow
<1>3. ASSUME NEW g \in Goroutines, Inserts(g)
      PROVE  i = j
  <2>1. CASE r = run[g].req
    <3>1. RowsOf(r) = {}
      BY <1>1, <1>3, <2>1 DEF Inserts, FreshPlacing, Recorded
    <3>2. PICK n : RowsOf(r)' = RowsOf(r) \cup {n}
      BY <1>3, <2>1, RowsGrow
    <3>3. QED
      BY <3>1, <3>2
  <2>2. CASE r # run[g].req
    <3>1. RowsOf(r)' = RowsOf(r)
      BY <1>3, <2>2, RowsGrow
    <3>2. QED
      BY <1>1, <3>1 DEF OneRow
  <2>3. QED
    BY <2>1, <2>2
<1>4. rows' = rows \/ \E g \in Goroutines : Inserts(g)
  BY StepKinds, MovedRuns, EnteredRuns DEF Shrinks, effectVars
<1>5. QED
  BY <1>2, <1>3, <1>4

LEMMA LateStep ==
  ASSUME TypeOK, WellFormed, LateRecorded, RecordedIsFinal, [Next]_vars
  PROVE  LateRecorded' /\ RecordedIsFinal'
<1> DEFINE Placing(x) == x.pc \in {"submit", "await", "create"}
<1> SUFFICES ASSUME NEW h \in Goroutines, NEW r, r = run'[h].req, run'[h].late
             PROVE  Recorded(r)' /\ ~Placing(run'[h])
  BY DEF LateRecorded, RecordedIsFinal, Recorded, RowsOf
<1>1. SUFFICES Recorded(r) /\ ~Placing(run'[h])
  BY RecordedStays
<1>2. CASE run'[h] = run[h]
  BY <1>2 DEF LateRecorded, RecordedIsFinal
<1>3. ASSUME NEW g \in Goroutines, Moves(g), h = g
      PROVE  Recorded(r) /\ ~Placing(run'[h])
  <2>1. /\ r = run[h].req /\ run[h].late
        /\ Placing(run'[h]) => Placing(run[h]) \/ ~Recorded(r)
    BY <1>3, MovedRuns, AdvanceFacts, IdleFacts
  <2>2. QED
    BY <2>1 DEF LateRecorded, RecordedIsFinal
<1>4. ASSUME NEW g \in Goroutines, Enters(g), h = g
      PROVE  Recorded(r) /\ ~Placing(run'[h])
  BY <1>4, EnteredRuns, IdleFacts DEF Started
<1>5. CASE Shrinks
  <2>1. Kept(run[h], run'[h])
    BY <1>5, IdleFacts DEF Shrinks
  <2>2. QED
    BY <2>1 DEF Kept, LateRecorded, RecordedIsFinal
<1>6. QED
  BY <1>2, <1>3, <1>4, <1>5, StepKinds, MovedRuns, EnteredRuns

LEMMA PaperOrdStep ==
  ASSUME TypeOK, WellFormed, PaperOrd, [Next]_vars
  PROVE  PaperOrd'
<1> DEFINE Good(x) == /\ x.pc = "lookup" => x.ord = 0
                      /\ x.req \in Paper => x.pc \notin {"submit", "await"}
                      /\ x.req \in Paper /\ x.pc = "create" => x.ord = 0
<1> SUFFICES ASSUME NEW h \in Goroutines
             PROVE  Good(run'[h])
  BY DEF PaperOrd
<1>1. Good(run[h])
  BY DEF PaperOrd
<1>2. CASE run'[h] = run[h]
  BY <1>1, <1>2
<1>3. ASSUME NEW g \in Goroutines, Moves(g), h = g
      PROVE  Good(run'[h])
  <2>1. Advance(h, run'[h])
    BY <1>3, MovedRuns
  <2>2. QED
    BY <1>1, <2>1, IdleFacts DEF Advance, Returned, Resumed, SameWork
<1>4. ASSUME NEW g \in Goroutines, Enters(g), h = g
      PROVE  Good(run'[h])
  BY <1>4, EnteredRuns, IdleFacts DEF Started
<1>5. CASE Shrinks
  BY <1>1, <1>5, IdleFacts DEF Shrinks, Kept
<1>6. QED
  BY <1>2, <1>3, <1>4, <1>5, StepKinds, MovedRuns, EnteredRuns

LEMMA RowsStep ==
  ASSUME TypeOK, WellFormed, PaperOrd, PaperRows, UniqueIds, [Next]_vars
  PROVE  PaperRows' /\ UniqueIds'
<1>1. CASE rows' = rows
  BY <1>1 DEF PaperRows, UniqueIds
<1>2. ASSUME NEW g \in Goroutines, Inserts(g)
      PROVE  PaperRows' /\ UniqueIds'
  <2>1. PICK n : /\ n \notin DOMAIN rows
                 /\ DOMAIN rows' = DOMAIN rows \cup {n}
                 /\ rows'[n].req = run[g].req /\ rows'[n].ord = run[g].ord
                 /\ \A i \in DOMAIN rows : rows'[i] = rows[i]
    BY <1>2, RowsGrow
  <2>2. run[g].req \in Paper => run[g].ord = 0
    BY <1>2 DEF Inserts, PaperOrd
  <2>3. \A i \in DOMAIN rows : rows[i].req = run[g].req => rows[i].ord # run[g].ord
    BY <1>2 DEF Inserts, KeyTaken, RowsOf
  <2>4. PaperRows'
    BY <2>1, <2>2 DEF PaperRows
  <2>5. UniqueIds'
    BY <2>1, <2>3 DEF UniqueIds
  <2>6. QED
    BY <2>4, <2>5
<1>3. rows' = rows \/ \E g \in Goroutines : Inserts(g)
  BY StepKinds, MovedRuns, EnteredRuns DEF Shrinks, effectVars
<1>4. QED
  BY <1>1, <1>2, <1>3

LEMMA UnrecordedStays ==
  ASSUME TypeOK, WellFormed, [Next]_vars
  PROVE  unrecorded \subseteq unrecorded'
  BY StepKinds, EnteredRuns DEF Moves, Shrinks, effectVars

LEMMA ResultBackedStep ==
  ASSUME TypeOK, WellFormed, ResultBacked, [Next]_vars
  PROVE  ResultBacked'
<1> SUFFICES ASSUME NEW h \in Goroutines, NEW r, r = run'[h].req
             PROVE  /\ run'[h].pc \in {"close", "dupclose", "notify"} => Recorded(r)'
                    /\ run'[h].pc = "done" =>
                         \/ run'[h].res = "error"
                         \/ run'[h].res = "dropped" /\ r \in Unrouted \cup unrecorded'
                         \/ Recorded(r)'
  BY DEF ResultBacked, Recorded, RowsOf
<1>1. Recorded(r) => Recorded(r)'
  BY RecordedStays
<1>2. unrecorded \subseteq unrecorded'
  BY UnrecordedStays
<1>3. CASE run'[h] = run[h]
  BY <1>1, <1>2, <1>3 DEF ResultBacked
<1>4. ASSUME NEW g \in Goroutines, Moves(g), h = g,
             run'[h].pc \in {"close", "dupclose", "notify", "done"}
      PROVE  \/ Recorded(r)'
             \/ run'[h].pc = "done" /\ run'[h].res = "error"
             \/ run'[h].pc = "done" /\ run'[h].res = "dropped" /\ r \in unrecorded'
  <2>1. Advance(g, run'[g]) /\ Active(g) /\ r = run[g].req
    BY <1>4, MovedRuns, AdvanceFacts, IdleFacts
  <2>2. CASE Inserts(g)
    <3>1. PICK n : RowsOf(r)' = RowsOf(r) \cup {n}
      BY <2>1, <2>2, RowsGrow
    <3>2. QED
      BY <3>1 DEF Recorded
  <2>3. CASE ~Inserts(g)
    <3>1. \/ run[g].pc \in {"close", "dupclose", "notify"} \/ Recorded(r)
          \/ run'[g].pc = "done" /\ run'[g].res = "error"
          \/ run'[g].pc = "done" /\ run'[g].res = "dropped" /\ r \in unrecorded'
      BY <1>4, <2>1, <2>3, IdleFacts DEF Advance, Returned, Resumed, SameWork, Active
    <3>2. QED
      BY <1>1, <1>4, <2>1, <3>1 DEF ResultBacked
  <2>4. QED
    BY <2>2, <2>3
<1>5. ASSUME NEW g \in Goroutines, Enters(g), h = g,
             run'[h].pc \in {"close", "dupclose", "notify", "done"}
      PROVE  /\ run'[h].pc = "done"
             /\ run'[h].res = "error" \/ (run'[h].res = "dropped" /\ r \in Unrouted)
  BY <1>5, EnteredRuns, IdleFacts DEF Started
<1>6. CASE Shrinks
  <2>1. run'[h] = IdleRun \/ Kept(run[h], run'[h])
    BY <1>6 DEF Shrinks
  <2>2. QED
    BY <1>1, <1>2, <2>1, IdleFacts DEF Kept, ResultBacked
<1>7. QED
  BY <1>3, <1>4, <1>5, <1>6, StepKinds, MovedRuns, EnteredRuns

\* Only an answer to a finished run acknowledges a message.
LEMMA NewAck ==
  ASSUME TypeOK, WellFormed, [Next]_vars,
         NEW m \in Msgs, st'[m] = "acked", st[m] # "acked"
  PROVE  \E g \in Goroutines :
           /\ run[g].pc = "done" /\ run[g].res # "error" /\ run[g].req = reqOf[m]
           /\ UNCHANGED <<reqOf, rows, unrecorded>>
<1>1. st \in [Msgs -> {"unpublished", "ready", "pending", "acked", "termed", "aged"}]
  BY DEF TypeOK
<1>2. ASSUME NEW k \in Msgs, Queue(k)
      PROVE  FALSE
  <2>1. \E s \in {"ready", "pending", "aged"} : st' = [st EXCEPT ![k] = s]
    BY <1>2 DEF Queue, Publish, Deliver, AckWaitExpires, AgeOut
  <2>2. QED
    BY <1>1, <2>1
<1>3. ASSUME NEW g \in Goroutines, Goroutine(g)
      PROVE  Finish(g) \/ GiveUp(g)
  <2>1. CASE HandlerStep(g)
    BY <2>1, HandlerMoves DEF Moves, queueVars
  <2>2. QED
    BY <1>3, <2>1 DEF Goroutine, Deadline, Begin, CallPlaceOrder, queueVars
<1>4. PICK g \in Goroutines : Finish(g) \/ GiveUp(g)
  BY <1>2, <1>3 DEF Next, vars, ExpireOrder, Crash, queueVars
<1>5. UNCHANGED <<reqOf, rows, unrecorded>>
  BY <1>4 DEF Finish, GiveUp, effectVars
<1>6. m = run[g].msg /\ run[g].req = reqOf[m] /\ run[g].pc = "done" /\ run[g].res # "error"
  BY <1>1, <1>4, Answers
<1>7. QED
  BY <1>5, <1>6

LEMMA AckedStep ==
  ASSUME TypeOK, WellFormed, ResultBacked, AckedIsRecorded, [Next]_vars
  PROVE  AckedIsRecorded'
<1> SUFFICES ASSUME NEW m \in Msgs, NEW r, r = reqOf'[m], st'[m] = "acked"
             PROVE  r \in Unrouted \cup unrecorded' \/ Recorded(r)'
  BY DEF AckedIsRecorded, Recorded, RowsOf
<1>1. CASE st[m] = "acked"
  <2>1. r = reqOf[m]
    BY <1>1, Published
  <2>2. r \in Unrouted \cup unrecorded \/ Recorded(r)
    BY <1>1, <2>1 DEF AckedIsRecorded, Recorded
  <2>3. QED
    BY <2>2, RecordedStays, UnrecordedStays
<1>2. CASE st[m] # "acked"
  <2>1. PICK g \in Goroutines : /\ run[g].pc = "done" /\ run[g].res # "error"
                                /\ run[g].req = reqOf[m]
                                /\ UNCHANGED <<reqOf, rows, unrecorded>>
    BY <1>2, NewAck
  <2>2. run[g].req \in Unrouted \cup unrecorded \/ Recorded(run[g].req)
    BY <2>1 DEF ResultBacked
  <2>3. r = run[g].req
    BY <2>1
  <2>4. QED
    BY <2>1, <2>2, <2>3, RecordedStays
<1>3. QED
  BY <1>1, <1>2

LEMMA InitIInv == Init => IInv
<1> SUFFICES ASSUME Init
             PROVE  IInv
  OBVIOUS
<1>1. /\ \A g \in Goroutines : run[g] = IdleRun
      /\ \A r : RowsOf(r) = {}
      /\ DOMAIN rows = {}
      /\ \A m \in Msgs : st[m] = "unpublished"
  BY DEF Init, RowsOf
<1>2. Sequential /\ FreshPlacing /\ LateRecorded /\ RecordedIsFinal /\ PaperOrd /\ ResultBacked
  BY <1>1, IdleFacts DEF Sequential, Active, FreshPlacing, LateRecorded, RecordedIsFinal,
                         PaperOrd, ResultBacked
<1>3. OneRow /\ PaperRows /\ UniqueIds /\ AckedIsRecorded
  BY <1>1 DEF OneRow, PaperRows, UniqueIds, AckedIsRecorded
<1>4. QED
  BY <1>2, <1>3, InitTypes DEF IInv

LEMMA IInvStep == IInv /\ [Next]_vars => IInv'
BY TypeStep, WellFormedStep, SequentialStep, FreshPlacingStep, OneRowStep, LateStep,
   PaperOrdStep, RowsStep, ResultBackedStep, AckedStep DEF IInv

LEMMA Invariance == Spec => []IInv
  BY InitIInv, IInvStep, PTL DEF Spec

LEMMA OneOrderInv == IInv => OneOrderPerRequest
<1> SUFFICES ASSUME IInv, NEW r \in Requests, r \notin overlapped
             PROVE  /\ \A i, j \in RowsOf(r) : i = j
                    /\ \A j, k \in Held(r) : j = k
                    /\ RowsOf(r) # {} => Held(r) = {}
  BY DEF OneOrderPerRequest
<1>1. \A k \in Held(r) : \E g \in Goroutines :
        run[g].req = r /\ run[g].ord = k /\ run[g].pc \in {"await", "create"}
  BY DEF Held
<1>2. \A j, k \in Held(r) : j = k
  BY <1>1 DEF IInv, Sequential, Active
<1>3. RowsOf(r) # {} => Held(r) = {}
  BY <1>1 DEF IInv, FreshPlacing, Recorded
<1>4. \A i, j \in RowsOf(r) : i = j
  BY DEF IInv, OneRow
<1>5. QED
  BY <1>2, <1>3, <1>4

LEMMA PaperInv == IInv => PaperFillsOnce
  BY DEF IInv, PaperRows, UniqueIds, PaperFillsOnce, RowsOf

\* However often a place_order message is redelivered, retried or repeated by a
\* direct call, the runs for a request that never overlapped leave at most one
\* order that PlaceOrder recorded or is about to record.
THEOREM OrdersOnce == Spec => []OneOrderPerRequest
  BY Invariance, OneOrderInv, PTL

\* PlaceOrder fills a paper request at most once even when its runs overlap: the
\* unique order_id "paper-<request_id>" refuses the second row.
THEOREM PaperOnce == Spec => []PaperFillsOnce
  BY Invariance, PaperInv, PTL

\* A run that starts after the request was stored never reaches the exchange or
\* Create, whatever else runs beside it: PlaceOrder's duplicate lookup finds the
\* row, because rows are never removed.
THEOREM NoReplay == Spec => []RecordedIsFinal
<1>1. IInv => RecordedIsFinal
  BY DEF IInv
<1>2. QED
  BY <1>1, Invariance, PTL

\* An acknowledged place_order message has a row in order_histories, unless
\* handlePlaceOrderEvent dropped it on purpose: an exchange that is not
\* registered, or an order history that could not be created.
THEOREM AcksBacked == Spec => []AckedIsRecorded
<1>1. IInv => AckedIsRecorded
  BY DEF IInv
<1>2. QED
  BY <1>1, Invariance, PTL

-----------------------------------------------------------------------------
\* Notifications.  A run that is between the row it inserted and its notification
\* holds that row's notification: the ones sent and the ones held are never more
\* than the rows.

Telling(new) == new.pc \in {"close", "notify"}
Pending(r) == {g \in Goroutines : Telling(run[g]) /\ run[g].req = r}
NotesOf(r) == IsFiniteSet(Pending(r)) /\ notes[r] + Cardinality(Pending(r)) <= Cardinality(RowsOf(r))
NotesBacked == \A r \in Requests : NotesOf(r)

LEMMA FiniteRows ==
  ASSUME TypeOK, NEW r
  PROVE  IsFiniteSet(RowsOf(r)) /\ Cardinality(RowsOf(r)) \in Nat
<1>1. rows \in Seq(Rows)
  BY DEF TypeOK
<1>2. Len(rows) \in Nat /\ DOMAIN rows = 1..Len(rows)
  BY <1>1, LenProperties
<1>3. IsFiniteSet(DOMAIN rows)
  BY <1>2, FS_Interval
<1>4. RowsOf(r) \in SUBSET DOMAIN rows
  BY DEF RowsOf
<1>5. QED
  BY <1>3, <1>4, FS_Subset, FS_CardinalityType

\* Fewer runs hold a notification, or as many.
LEMMA FewerPending ==
  ASSUME TypeOK, NEW r \in Requests, NotesOf(r), notes'[r] = notes[r],
         Pending(r)' \subseteq Pending(r), RowsOf(r)' = RowsOf(r)
  PROVE  NotesOf(r)'
<1>1. IsFiniteSet(Pending(r)')
      /\ Cardinality(Pending(r)') <= Cardinality(Pending(r))
  BY FS_Subset DEF NotesOf
<1>2. Cardinality(Pending(r)') \in Nat /\ Cardinality(Pending(r)) \in Nat
      /\ Cardinality(RowsOf(r)) \in Nat /\ notes[r] \in Nat
  BY <1>1, FS_CardinalityType, FiniteRows DEF TypeOK, NotesOf
<1>3. notes'[r] + Cardinality(Pending(r)') <= Cardinality(RowsOf(r)')
  BY <1>1, <1>2 DEF NotesOf
<1>4. QED
  BY <1>1, <1>3 DEF NotesOf

\* What a step of the handler does to the notes.
LEMMA NotesMove ==
  ASSUME TypeOK, WellFormed, NEW g \in Goroutines, HandlerStep(g)
  PROVE  \/ notes' = notes
         \/ /\ notes' = [notes EXCEPT ![run[g].req] = @ + 1] /\ rows' = rows
            /\ run[g].pc = "notify" /\ ~Telling(run'[g])
<1>1. CASE Notify(g) /\ notes' # notes
  <2>1. /\ notes' = [notes EXCEPT ![run[g].req] = @ + 1] /\ rows' = rows
        /\ run[g].pc = "notify" /\ (End(g, "ok") \/ End(g, "error"))
    BY <1>1 DEF Notify
  <2>2. "ok" \in Results /\ "error" \in Results
    BY DEF Results
  <2>3. \E new \in Runs : Put(g, new) /\ Returned(run[g], new, {"ok", "error"})
    BY <2>1, <2>2, EndRun DEF Returned
  <2>4. run'[g].pc \in {"idle", "done"}
    BY <2>3, PutRun, IdleFacts DEF Returned
  <2>5. QED
    BY <2>1, <2>4 DEF Telling
<1>2. CASE ~Notify(g)
  BY <1>2 DEF HandlerStep, Lookup, Submit, Reply, Create, PublishClose, PublishDuplicateClose,
              effectVars
<1>3. QED
  BY <1>1, <1>2

LEMMA NotesStep ==
  ASSUME TypeOK, WellFormed, NotesBacked, [Next]_vars
  PROVE  NotesBacked'
<1>1. SUFFICES ASSUME NEW r \in Requests
               PROVE  NotesOf(r)'
  BY DEF NotesBacked, NotesOf, Pending, RowsOf, Telling
<1>2. NotesOf(r)
  BY DEF NotesBacked
<1>3. ASSUME NEW g \in Goroutines, HandlerStep(g)
      PROVE  NotesOf(r)'
  <2>1. Moves(g)
    BY <1>3, HandlerMoves
  <2>2. /\ Advance(g, run'[g]) /\ Active(g)
        /\ \A h \in Goroutines : h # g => run'[h] = run[h]
        /\ rows' = rows \/ Inserts(g)
    BY <2>1, MovedRuns
  <2>3. Telling(run'[g]) => /\ run'[g].req = run[g].req
                            /\ Telling(run[g]) \/ Inserts(g)
    BY <2>2, IdleFacts DEF Advance, Returned, Resumed, SameWork, Telling
  <2>4. run[g].req \in Requests
    BY <2>2 DEF Active, WellFormed
  <2>5. \A h \in Pending(r)' : h \in Pending(r) \/ (h = g /\ run[g].req = r)
    BY <2>2, <2>3 DEF Pending
  <2>6. CASE Inserts(g) /\ run[g].req = r
    <3>1. notes' = notes
      <4>1. run[g].pc # "notify"
        BY <2>6 DEF Inserts
      <4>2. QED
        BY <1>3, <4>1, NotesMove
    <3>2. PICK n : n \notin DOMAIN rows /\ RowsOf(r)' = RowsOf(r) \cup {n}
      BY <2>6, RowsGrow
    <3>3. n \notin RowsOf(r)
      BY <3>2 DEF RowsOf
    <3>4. Cardinality(RowsOf(r)') = Cardinality(RowsOf(r)) + 1
      BY <3>2, <3>3, FiniteRows, FS_AddElement
    <3>5. Pending(r)' \in SUBSET (Pending(r) \cup {g})
      BY <2>5
    <3>6. IsFiniteSet(Pending(r) \cup {g})
          /\ Cardinality(Pending(r) \cup {g}) <= Cardinality(Pending(r)) + 1
      <4>1. IsFiniteSet(Pending(r)) /\ Cardinality(Pending(r)) \in Nat
        BY <1>2, FS_CardinalityType DEF NotesOf
      <4>2. QED
        BY <4>1, FS_AddElement
    <3>7. IsFiniteSet(Pending(r)')
          /\ Cardinality(Pending(r)') <= Cardinality(Pending(r) \cup {g})
      BY <3>5, <3>6, FS_Subset
    <3>8. /\ Cardinality(Pending(r)') \in Nat /\ Cardinality(Pending(r) \cup {g}) \in Nat
          /\ Cardinality(Pending(r)) \in Nat /\ Cardinality(RowsOf(r)) \in Nat
          /\ notes[r] \in Nat /\ notes[r] + Cardinality(Pending(r)) <= Cardinality(RowsOf(r))
      BY <1>2, <3>6, <3>7, FS_CardinalityType, FiniteRows DEF TypeOK, NotesOf
    <3>9. notes'[r] + Cardinality(Pending(r)') <= Cardinality(RowsOf(r)')
      BY <3>1, <3>4, <3>6, <3>7, <3>8
    <3>10. QED
      BY <3>7, <3>9 DEF NotesOf
  <2>7. CASE rows' = rows /\ notes' # notes /\ run[g].req = r
    <3>1. /\ notes' = [notes EXCEPT ![r] = @ + 1] /\ run[g].pc = "notify" /\ ~Telling(run'[g])
      BY <1>3, <2>7, NotesMove
    <3>2. g \in Pending(r)
      BY <2>7, <3>1 DEF Pending, Telling
    <3>3. Pending(r)' \in SUBSET (Pending(r) \ {g})
      BY <2>5, <3>1 DEF Pending
    <3>4. IsFiniteSet(Pending(r) \ {g})
          /\ Cardinality(Pending(r) \ {g}) = Cardinality(Pending(r)) - 1
      BY <1>2, <3>2, FS_RemoveElement DEF NotesOf
    <3>5. IsFiniteSet(Pending(r)')
          /\ Cardinality(Pending(r)') <= Cardinality(Pending(r) \ {g})
      BY <3>3, <3>4, FS_Subset
    <3>6. /\ Cardinality(Pending(r)') \in Nat
          /\ Cardinality(Pending(r)) \in Nat /\ Cardinality(RowsOf(r)) \in Nat
          /\ notes[r] \in Nat /\ notes[r] + Cardinality(Pending(r)) <= Cardinality(RowsOf(r))
      BY <1>2, <3>5, FS_CardinalityType, FiniteRows DEF TypeOK, NotesOf
    <3>7. notes'[r] = notes[r] + 1 /\ RowsOf(r)' = RowsOf(r)
      BY <2>7, <3>1, SameRows DEF TypeOK
    <3>8. notes'[r] + Cardinality(Pending(r)') <= Cardinality(RowsOf(r)')
      BY <3>4, <3>5, <3>6, <3>7
    <3>9. QED
      BY <3>5, <3>8 DEF NotesOf
  <2>8. CASE run[g].req # r \/ (rows' = rows /\ notes' = notes)
    <3>1. notes'[r] = notes[r]
      BY <1>3, <2>8, NotesMove DEF TypeOK
    <3>2. RowsOf(r)' = RowsOf(r)
      <4>1. CASE rows' = rows
        BY <4>1, SameRows
      <4>2. CASE Inserts(g) /\ run[g].req # r
        BY <4>2, RowsGrow
      <4>3. QED
        BY <2>2, <2>8, <4>1, <4>2
    <3>3. Pending(r)' \subseteq Pending(r)
      <4>1. CASE run[g].req # r
        BY <2>5, <4>1
      <4>2. CASE rows' = rows
        <5>1. Inserts(g) => FALSE
          BY <2>6, <4>2, RowsGrow
        <5>2. QED
          BY <2>2, <2>3, <5>1 DEF Pending
      <4>3. QED
        BY <2>8, <4>1, <4>2
    <3>4. QED
      BY <1>2, <3>1, <3>2, <3>3, FewerPending
  <2>9. QED
    BY <1>3, <2>2, <2>6, <2>7, <2>8, NotesMove
<1>4. ASSUME NEW g \in Goroutines, Enters(g)
      PROVE  NotesOf(r)'
  <2>1. notes' = notes /\ rows' = rows
    BY <1>4 DEF Enters, effectVars
  <2>2. /\ ~Telling(run'[g])
        /\ \A h \in Goroutines : h # g => run'[h] = run[h]
    BY <1>4, EnteredRuns, IdleFacts DEF Started, Telling
  <2>3. Pending(r)' \subseteq Pending(r)
    BY <2>2 DEF Pending
  <2>4. QED
    BY <1>2, <2>1, <2>3, SameRows, FewerPending
<1>5. CASE Shrinks
  <2>1. notes' = notes /\ rows' = rows
    BY <1>5 DEF Shrinks, effectVars
  <2>2. Pending(r)' \subseteq Pending(r)
    BY <1>5, IdleFacts DEF Shrinks, Kept, Pending, Telling
  <2>3. QED
    BY <1>2, <2>1, <2>2, SameRows, FewerPending
<1>6. QED
  BY <1>3, <1>4, <1>5, StepForms

LEMMA NotesBegin == Init => NotesBacked
<1> SUFFICES ASSUME Init, NEW r \in Requests
             PROVE  NotesOf(r)
  BY DEF NotesBacked
<1>1. Pending(r) = {} /\ RowsOf(r) = {} /\ notes[r] = 0
  BY IdleFacts DEF Init, Pending, Telling, RowsOf
<1>2. QED
  BY <1>1, FS_EmptySet DEF NotesOf

LEMMA NotesFollow == TypeOK /\ NotesBacked => NotifiedOncePerRow
<1> SUFFICES ASSUME TypeOK, NotesBacked, NEW r \in Requests
             PROVE  notes[r] <= Cardinality(RowsOf(r))
  BY DEF NotifiedOncePerRow
<1>1. Cardinality(Pending(r)) \in Nat /\ Cardinality(RowsOf(r)) \in Nat /\ notes[r] \in Nat
  BY FS_CardinalityType, FiniteRows DEF NotesBacked, NotesOf, TypeOK
<1>2. QED
  BY <1>1 DEF NotesBacked, NotesOf

\* However a place_order message is redelivered, retried or called again, and
\* however its runs overlap, a request never has more notification_alert events
\* than rows: the duplicate lookup and the publish's failures send none twice.
THEOREM NotifiedOnce == Spec => []NotifiedOncePerRow
<1>1. Init => TypeOK /\ WellFormed /\ NotesBacked
  BY InitTypes, NotesBegin
<1>2. TypeOK /\ WellFormed /\ NotesBacked /\ [Next]_vars => (TypeOK /\ WellFormed /\ NotesBacked)'
  BY TypeStep, WellFormedStep, NotesStep
<1>3. QED
  BY <1>1, <1>2, NotesFollow, PTL DEF Spec

-----------------------------------------------------------------------------
\* Closes.  An order that was filled to close a position by hand and is not announced
\* yet is owed: nobody may have been told that its request is done.

\* Requests for an exchange that is not registered do not reach the table.
Routed ==
  /\ \A g \in Goroutines : Active(g) => run[g].req \notin Unrouted
  /\ \A i \in DOMAIN rows : rows[i].req \notin Unrouted

Filled(r) == \E i \in RowsOf(r) : rows[i].filled
Unannounced(r) == r \in ManualClose \ (overlapped \cup unrecorded \cup announced) /\ Filled(r)

\* The run has no answer to give but an error.
Quiet(new) == new.pc # "notify" /\ (new.pc = "done" => new.res = "error")
Unacked(r) == \A m \in Msgs : st[m] = "acked" => reqOf[m] # r
QuietRuns(r) == \A g \in Goroutines : run[g].req = r => Quiet(run[g])
ClosesOwed == \A r \in Requests : Unannounced(r) => Unacked(r) /\ QuietRuns(r)

LEMMA RoutedStep ==
  ASSUME TypeOK, WellFormed, Routed, [Next]_vars
  PROVE  Routed'
<1>1. ASSUME NEW g \in Goroutines, Moves(g)
      PROVE  Routed'
  <2>1. \A h \in Goroutines : Active(h)' => Active(h) /\ run'[h].req = run[h].req
    BY <1>1, MovedRuns, AdvanceFacts, IdleFacts DEF Active
  <2>2. run[g].req \notin Unrouted
    BY <1>1, MovedRuns DEF Routed
  <2>3. \A i \in DOMAIN rows' : rows'[i].req \notin Unrouted
    BY <1>1, <2>2, MovedRuns, RowsGrow DEF Routed
  <2>4. QED
    BY <2>1, <2>3 DEF Routed
<1>2. ASSUME NEW g \in Goroutines, Enters(g)
      PROVE  Routed'
  <2>1. \A h \in Goroutines : h # g => run'[h] = run[h]
    BY <1>2, EnteredRuns
  <2>2. Active(g)' => run'[g].req \notin Unrouted
    BY <1>2, EnteredRuns, IdleFacts DEF Started, Active
  <2>3. QED
    BY <1>2, <2>1, <2>2, EnteredRuns DEF Routed, Active
<1>3. CASE Shrinks
  <2>1. \A h \in Goroutines : Active(h)' => Active(h) /\ run'[h].req = run[h].req
    BY <1>3, IdleFacts DEF Shrinks, Kept, Active
  <2>2. QED
    BY <1>3, <2>1 DEF Routed, Shrinks, effectVars
<1>4. QED
  BY <1>1, <1>2, <1>3, StepKinds

\* What a step of the handler makes of an owed close of its request: it announces
\* it, or gives up recording it, or goes on without an answer; the row it answers
\* for closes nothing; or the row is new, and the announcement comes next.
Owing(g, new) ==
  LET r == run[g].req IN
  \/ r \in announced' \cup unrecorded'
  \/ rows' = rows /\ Quiet(new)
  \/ rows' = rows /\ run[g].pc = "notify"
  \/ rows' = rows /\ \E i \in RowsOf(r) : ~Closing(r, rows[i].filled)
  \/ \E f \in BOOLEAN : /\ rows' = Append(rows, [req |-> r, ord |-> run[g].ord, filled |-> f])
                        /\ Closing(r, f) => Quiet(new)

LEMMA ErrorIsQuiet ==
  ASSUME TypeOK, NEW g \in Goroutines, End(g, "error")
  PROVE  Quiet(run'[g])
<1>1. "error" \in Results
  BY DEF Results
<1>2. \E new \in Runs : Put(g, new) /\ Returned(run[g], new, {"error"})
  BY <1>1, EndRun
<1>3. QED
  BY <1>2, PutRun, IdleFacts DEF Returned, Quiet

LEMMA GoingIsQuiet ==
  ASSUME TypeOK, NEW g \in Goroutines, NEW pc \in PCs \ {"notify", "done"}, Goto(g, pc)
  PROVE  Quiet(run'[g])
<1>1. \E new \in Runs : Put(g, new) /\ Resumed(run[g], new, {pc})
  BY GotoRun
<1>2. QED
  BY <1>1, PutRun DEF Resumed, Quiet

LEMMA LookupOwes ==
  ASSUME TypeOK, NEW g \in Goroutines, Lookup(g)
  PROVE  Owing(g, run'[g])
<1> DEFINE r == run[g].req
<1>1. rows' = rows
  BY DEF Lookup, effectVars
<1>2. {"create", "submit", "dupclose"} \subseteq PCs \ {"notify", "done"}
  BY DEF PCs
<1>3. CASE End(g, "error") \/ Goto(g, "create") \/ Goto(g, "submit") \/ Goto(g, "dupclose")
  BY <1>1, <1>2, <1>3, ErrorIsQuiet, GoingIsQuiet DEF Owing
<1>4. CASE \E i \in RowsOf(r) : ~Closing(r, rows[i].filled)
  BY <1>1, <1>4 DEF Owing
<1>5. QED
  BY <1>3, <1>4 DEF Lookup, GetByRequestID

LEMMA CreateOwes ==
  ASSUME TypeOK, NEW g \in Goroutines, Create(g)
  PROVE  Owing(g, run'[g])
<1> DEFINE r == run[g].req
           f == run[g].filled \/ r \in Paper
<1>1. CASE r \in unrecorded'
  BY <1>1 DEF Owing
<1>2. CASE /\ rows' = Append(rows, [req |-> r, ord |-> run[g].ord, filled |-> f])
           /\ AfterCreate(g, f)
  <2>1. f \in BOOLEAN /\ "close" \in PCs \ {"notify", "done"}
    BY DEF PCs
  <2>2. Closing(r, f) => Quiet(run'[g])
    BY <1>2, <2>1, GoingIsQuiet DEF AfterCreate
  <2> HIDE DEF f
  <2>3. QED
    BY <1>2, <2>1, <2>2 DEF Owing
<1>3. QED
  BY <1>1, <1>2 DEF Create

LEMMA HandlerOwes ==
  ASSUME TypeOK, WellFormed, NEW g \in Goroutines, HandlerStep(g)
  PROVE  Owing(g, run'[g]) /\ announced \subseteq announced'
<1>1. announced \subseteq announced'
  BY DEF HandlerStep, Lookup, Submit, Reply, Create, PublishClose, PublishDuplicateClose, Notify,
         effectVars
<1> SUFFICES Owing(g, run'[g])
  BY <1>1
<1>2. CASE Lookup(g)
  BY <1>2, LookupOwes
<1>3. CASE Create(g)
  BY <1>3, CreateOwes
<1>4. CASE Submit(g)
  <2>1. CASE End(g, "error")
    BY <1>4, <2>1, ErrorIsQuiet DEF Submit, Owing
  <2>2. CASE Put(g, [run[g] EXCEPT !.pc = "await", !.ord = orders[run[g].req] + 1])
    <3>1. run'[g].pc = "await"
      BY <2>2 DEF Put, TypeOK, Runs
    <3>2. QED
      BY <1>4, <3>1 DEF Submit, Owing, Quiet
  <2>3. QED
    BY <1>4, <2>1, <2>2 DEF Submit
<1>5. CASE Reply(g)
  <2>1. rows' = rows
    BY <1>5 DEF Reply, effectVars
  <2>2. CASE End(g, "error")
    BY <2>1, <2>2, ErrorIsQuiet DEF Owing
  <2>3. ASSUME NEW f \in BOOLEAN, Put(g, [run[g] EXCEPT !.pc = "create", !.filled = f])
        PROVE  Owing(g, run'[g])
    <3>1. run'[g].pc = "create"
      BY <2>3 DEF Put, TypeOK, Runs
    <3>2. QED
      BY <2>1, <3>1 DEF Owing, Quiet
  <2>4. QED
    BY <1>5, <2>2, <2>3 DEF Reply
<1>6. CASE PublishClose(g) \/ PublishDuplicateClose(g)
  <2>1. rows' = rows /\ (run[g].req \in announced' \/ End(g, "error"))
    BY <1>6 DEF PublishClose, PublishDuplicateClose
  <2>2. QED
    BY <2>1, ErrorIsQuiet DEF Owing
<1>7. CASE Notify(g)
  BY <1>7 DEF Notify, Owing
<1>8. QED
  BY <1>1, <1>2, <1>3, <1>4, <1>5, <1>6, <1>7 DEF HandlerStep

\* What a step leaves to the requests: an owed close was owed before, by the same
\* row, or its row is new and the request had none.
LEMMA Owed ==
  ASSUME IInv, [Next]_vars, NEW r \in Requests, Unannounced(r)'
  PROVE  /\ r \in ManualClose \ (overlapped \cup unrecorded \cup announced)
         /\ \/ Unannounced(r) /\ \A g \in Goroutines : Inserts(g) => run[g].req # r
            \/ \E g \in Goroutines : Inserts(g) /\ run[g].req = r /\ ~Recorded(r)
<1>1. TypeOK /\ WellFormed /\ FreshPlacing
  BY DEF IInv
<1>2. announced \subseteq announced' /\ overlapped \subseteq overlapped'
      /\ unrecorded \subseteq unrecorded'
  <2>1. announced \subseteq announced'
    BY <1>1, StepForms, HandlerOwes DEF Shrinks, Enters, effectVars
  <2>2. overlapped \subseteq overlapped'
    BY <1>1, StepKinds, MovedRuns, EnteredRuns DEF Shrinks
  <2>3. QED
    BY <1>1, <2>1, <2>2, UnrecordedStays
<1>3. r \in ManualClose \ (overlapped \cup unrecorded \cup announced)
  BY <1>2 DEF Unannounced
<1>4. ASSUME NEW g \in Goroutines, Inserts(g), run[g].req = r
      PROVE  ~Recorded(r)
  BY <1>1, <1>3, <1>4 DEF FreshPlacing, Inserts
<1>5. CASE \A g \in Goroutines : Inserts(g) => run[g].req # r
  <2>1. rows' = rows \/ \E g \in Goroutines : Inserts(g)
    BY <1>1, StepKinds, MovedRuns, EnteredRuns DEF Shrinks, effectVars
  <2>2. RowsOf(r)' = RowsOf(r) /\ \A i \in RowsOf(r) : rows'[i] = rows[i]
    BY <1>1, <1>5, <2>1, RowsGrow, SameRows DEF RowsOf
  <2>3. Filled(r)
    BY <2>2 DEF Unannounced, Filled
  <2>4. QED
    BY <1>3, <1>5, <2>3 DEF Unannounced
<1>6. QED
  BY <1>3, <1>4, <1>5

\* The runs say nothing of an owed close.
LEMMA QuietStep ==
  ASSUME IInv, Routed, ClosesOwed, [Next]_vars, NEW r \in Requests, Unannounced(r)'
  PROVE  QuietRuns(r)'
<1>1. TypeOK /\ WellFormed /\ OneRow /\ ResultBacked
  BY DEF IInv
<1>2. r \notin overlapped /\ r \notin unrecorded' /\ r \notin announced'
  BY Owed DEF Unannounced
<1>3. SUFFICES ASSUME NEW h \in Goroutines, run'[h].req = r
               PROVE  Quiet(run'[h])
  BY DEF QuietRuns, Quiet
<1>4. CASE Unannounced(r) /\ \A g \in Goroutines : Inserts(g) => run[g].req # r
  <2>1. \A g \in Goroutines : run[g].req = r => Quiet(run[g])
    BY <1>4 DEF ClosesOwed, QuietRuns
  <2>2. \A i \in RowsOf(r) : Closing(r, rows[i].filled)
    BY <1>1, <1>2, <1>4 DEF OneRow, Unannounced, Filled, Closing
  <2>3. ASSUME NEW g \in Goroutines, HandlerStep(g)
        PROVE  Quiet(run'[h])
    <3>1. Moves(g)
      BY <1>1, <2>3, HandlerMoves
    <3>2. CASE h # g
      BY <1>1, <1>3, <2>1, <3>1, <3>2, MovedRuns
    <3>3. CASE h = g
      <4>1. run[g].req = r
        <5>1. run'[g] # IdleRun
          <6>1. r # None
            BY NoneAssumption
          <6>2. QED
            BY <1>3, <3>3, <6>1, IdleFacts
        <5>2. QED
          BY <1>1, <1>3, <3>1, <3>3, <5>1, MovedRuns, AdvanceFacts
      <4>2. Owing(g, run'[g]) /\ run[g].pc # "notify" /\ ~Inserts(g)
        BY <1>1, <1>4, <2>1, <2>3, <4>1, HandlerOwes DEF Quiet
      <4>3. rows' # rows => Inserts(g)
        BY <1>1, <3>1, MovedRuns
      <4>4. \A f \in BOOLEAN : rows' = Append(rows, [req |-> r, ord |-> run[g].ord, filled |-> f])
                                 => rows' # rows
        <5>1. rows \in Seq(Rows) /\ Len(rows) \in Nat
          BY <1>1, LenProperties DEF TypeOK
        <5>2. \A e : Len(Append(rows, e)) = Len(rows) + 1
          BY <5>1
        <5>3. QED
          BY <5>1, <5>2
      <4>5. QED
        BY <1>2, <2>2, <3>3, <4>1, <4>2, <4>3, <4>4 DEF Owing
    <3>4. QED
      BY <3>2, <3>3
  <2>4. ASSUME NEW g \in Goroutines, Enters(g)
        PROVE  Quiet(run'[h])
    <3>1. r \notin Unrouted
      BY <1>4 DEF Routed, Unannounced, Filled, RowsOf
    <3>2. CASE h = g
      BY <1>1, <1>3, <2>4, <3>1, <3>2, EnteredRuns, IdleFacts DEF Started, Quiet
    <3>3. CASE h # g
      BY <1>1, <1>3, <2>1, <2>4, <3>3, EnteredRuns
    <3>4. QED
      BY <3>2, <3>3
  <2>5. CASE Shrinks
    <3>1. run'[h] = IdleRun \/ Kept(run[h], run'[h])
      BY <2>5 DEF Shrinks
    <3>2. QED
      BY <1>3, <2>1, <3>1, IdleFacts DEF Kept, Quiet
  <2>6. QED
    BY <1>1, <2>3, <2>4, <2>5, StepForms
<1>5. ASSUME NEW g \in Goroutines, Inserts(g), run[g].req = r, ~Recorded(r)
      PROVE  Quiet(run'[h])
  <2>1. r \notin Unrouted /\ r \notin unrecorded
    BY <1>5, Owed DEF Routed, Active, Inserts
  <2>2. \A k \in Goroutines : run[k].req = r => Quiet(run[k])
    BY <1>1, <1>5, <2>1 DEF ResultBacked, Quiet
  <2>3. ASSUME NEW k \in Goroutines, HandlerStep(k)
        PROVE  Quiet(run'[h])
    <3>1. Moves(k)
      BY <1>1, <2>3, HandlerMoves
    <3>2. CASE h # k
      BY <1>1, <1>3, <2>2, <3>1, <3>2, MovedRuns
    <3>3. CASE h = k
      <4>1. run[k].req = r
        <5>1. run'[k] # IdleRun
          <6>1. r # None
            BY NoneAssumption
          <6>2. QED
            BY <1>3, <3>3, <6>1, IdleFacts
        <5>2. QED
          BY <1>1, <1>3, <3>1, <3>3, <5>1, MovedRuns, AdvanceFacts
      <4>2. Owing(k, run'[k]) /\ run[k].pc # "notify" /\ RowsOf(r) = {}
        BY <1>1, <1>5, <2>2, <2>3, <4>1, HandlerOwes DEF Quiet, Recorded
      <4>3. ASSUME NEW f \in BOOLEAN, Closing(r, f) => Quiet(run'[k]),
                   rows' = Append(rows, [req |-> r, ord |-> run[k].ord, filled |-> f])
            PROVE  Quiet(run'[k])
        <5>1. rows \in Seq(Rows)
          BY <1>1 DEF TypeOK
        <5>2. PICK i \in RowsOf(r)' : rows'[i].filled
          BY DEF Unannounced, Filled
        <5>3. [req |-> r, ord |-> run[k].ord, filled |-> f] \in Rows
          BY <1>1, <4>1 DEF TypeOK, Runs, Rows
        <5>4. rows'[i] = [req |-> r, ord |-> run[k].ord, filled |-> f]
          <6>1. /\ DOMAIN rows' = DOMAIN rows \cup {Len(rows) + 1}
                /\ rows'[Len(rows) + 1] = [req |-> r, ord |-> run[k].ord, filled |-> f]
                /\ \A x \in DOMAIN rows : rows'[x] = rows[x]
            BY <4>3, <5>1, <5>3, AppendIsSeq
          <6>2. i \in DOMAIN rows' /\ rows'[i].req = r
            BY <5>2 DEF RowsOf
          <6>3. i \notin DOMAIN rows
            BY <4>2, <6>1, <6>2 DEF RowsOf
          <6>4. QED
            BY <6>1, <6>2, <6>3
        <5>5. Closing(r, f)
          BY <5>2, <5>4, Owed DEF Closing
        <5>6. QED
          BY <4>3, <5>5
      <4>4. QED
        BY <1>2, <3>3, <4>1, <4>2, <4>3 DEF Owing
    <3>4. QED
      BY <3>2, <3>3
  <2>4. ASSUME rows' = rows
        PROVE  FALSE
    BY <1>1, <1>5, <2>4, RowsGrow
  <2>5. QED
    BY <1>1, <2>3, <2>4, StepForms, EnteredRuns DEF Shrinks, effectVars
<1>6. QED
  BY <1>4, <1>5, Owed

\* Nor does the message.
LEMMA UnackedStep ==
  ASSUME IInv, Routed, ClosesOwed, [Next]_vars, NEW r \in Requests, Unannounced(r)'
  PROVE  Unacked(r)'
<1>1. TypeOK /\ WellFormed /\ ResultBacked /\ AckedIsRecorded
  BY DEF IInv
<1>2. SUFFICES ASSUME NEW m \in Msgs, st'[m] = "acked", reqOf'[m] = r
               PROVE  FALSE
  BY DEF Unacked
<1>3. CASE Unannounced(r)
  <2>1. CASE st[m] = "acked"
    BY <1>1, <1>2, <1>3, <2>1, Published DEF ClosesOwed, Unacked
  <2>2. CASE st[m] # "acked"
    <3>1. PICK g \in Goroutines : /\ run[g].pc = "done" /\ run[g].res # "error"
                                  /\ run[g].req = reqOf[m] /\ reqOf' = reqOf
      BY <1>1, <1>2, <2>2, NewAck
    <3>2. QED
      BY <1>2, <1>3, <3>1 DEF ClosesOwed, QuietRuns, Quiet
  <2>3. QED
    BY <2>1, <2>2
<1>4. ASSUME NEW g \in Goroutines, Inserts(g), run[g].req = r, ~Recorded(r)
      PROVE  FALSE
  <2>1. r \notin Unrouted /\ r \notin unrecorded
    BY <1>4, Owed DEF Routed, Active, Inserts
  <2>2. st[m] # "acked"
    <3>1. st[m] = "acked" => reqOf[m] = r
      BY <1>1, <1>2, Published
    <3>2. QED
      BY <1>1, <1>4, <2>1, <3>1 DEF AckedIsRecorded, Recorded
  <2>3. rows' = rows
    BY <1>1, <1>2, <2>2, NewAck
  <2>4. QED
    BY <1>1, <1>4, <2>3, RowsGrow
<1>5. QED
  BY <1>3, <1>4, Owed

CloseInv == IInv /\ Routed /\ ClosesOwed

LEMMA CloseInit == Init => CloseInv
<1> SUFFICES ASSUME Init
             PROVE  CloseInv
  OBVIOUS
<1>1. /\ \A g \in Goroutines : run[g].pc = "idle"
      /\ DOMAIN rows = {} /\ \A r : RowsOf(r) = {}
  BY IdleFacts DEF Init, RowsOf
<1>2. Routed /\ ClosesOwed
  BY <1>1 DEF Routed, Active, ClosesOwed, Unannounced, Filled
<1>3. QED
  BY <1>2, InitIInv DEF CloseInv

LEMMA CloseStep == CloseInv /\ [Next]_vars => CloseInv'
<1> SUFFICES ASSUME CloseInv, [Next]_vars
             PROVE  CloseInv'
  OBVIOUS
<1>1. IInv' /\ Routed'
  BY IInvStep, RoutedStep DEF CloseInv, IInv
<1>2. ASSUME NEW r \in Requests, Unannounced(r)'
      PROVE  Unacked(r)' /\ QuietRuns(r)'
  BY <1>2, QuietStep, UnackedStep DEF CloseInv
<1>3. ClosesOwed'
  BY <1>2 DEF ClosesOwed
<1>4. QED
  BY <1>1, <1>3 DEF CloseInv

LEMMA CloseFollows == CloseInv => CloseAnnounced
  BY DEF CloseInv, IInv, ClosesOwed, Unannounced, Filled, Unacked, CloseAnnounced, WellFormed

\* When the message of a manual close is acknowledged, PlaceOrder has announced the
\* filled order to the strategies, over all lost and repeated answers: as long as
\* the announcement failed, every run for the request ended in an error.
THEOREM ClosesAnnounced == Spec => []CloseAnnounced
<1>1. QED
  BY CloseInit, CloseStep, CloseFollows, PTL DEF Spec

-----------------------------------------------------------------------------
\* The refinement of OrderRequests.  What a run has in its hands: an order the
\* exchange accepted, a filled row of a manual close to announce, or a notification
\* somebody asked for.
Sound(new, placed, filled) ==
  /\ new.pc \in {"await", "create"} /\ new.req \notin Paper => new.ord \in 1 .. placed[new.req]
  /\ new.pc \in {"close", "dupclose"} => new.req \in ManualClose \cap filled
  /\ new.pc = "notify" => new.req \in Notified

FilledRequests == {r \in Requests : Filled(r)}
WorkSound == \A g \in Goroutines : Sound(run[g], orders, FilledRequests)

PromiseInv == CloseInv /\ NotesBacked /\ WorkSound

LEMMA EndedRun ==
  ASSUME TypeOK, NEW g \in Goroutines, NEW res \in Results, End(g, res)
  PROVE  run'[g].pc \in {"idle", "done"}
  BY EndRun, PutRun, IdleFacts DEF Returned

LEMMA GoneRun ==
  ASSUME TypeOK, NEW g \in Goroutines, NEW pc \in PCs, Goto(g, pc)
  PROVE  run'[g].pc = pc /\ run'[g].req = run[g].req /\ run'[g].ord = run[g].ord
  BY GotoRun, PutRun DEF Resumed, SameWork

\* What was accepted or filled stays so.
LEMMA EffectsGrow ==
  ASSUME TypeOK, WellFormed, [Next]_vars
  PROVE  /\ FilledRequests \subseteq FilledRequests'
         /\ \A r \in Requests : orders[r] \in Nat /\ orders'[r] \in Nat /\ orders'[r] >= orders[r]
<1>1. ASSUME NEW g \in Goroutines, Inserts(g)
      PROVE  FilledRequests \subseteq FilledRequests'
  <2>1. ASSUME NEW r \in Requests, NEW i \in RowsOf(r), rows[i].filled
        PROVE  i \in RowsOf(r)' /\ rows'[i].filled
    BY <1>1, <2>1, RowsGrow DEF RowsOf
  <2>2. QED
    BY <2>1 DEF FilledRequests, Filled
<1>2. ASSUME rows' = rows
      PROVE  FilledRequests \subseteq FilledRequests'
  BY <1>2 DEF FilledRequests, Filled, RowsOf
<1>3. FilledRequests \subseteq FilledRequests'
  BY <1>1, <1>2, StepForms, HandlerMoves, MovedRuns DEF Shrinks, Enters, effectVars
<1>4. ASSUME NEW g \in Goroutines, HandlerStep(g)
      PROVE  orders' = orders \/ orders' = [orders EXCEPT ![run[g].req] = @ + 1]
  BY <1>4 DEF HandlerStep, Lookup, Submit, Reply, Create, PublishClose, PublishDuplicateClose,
              Notify, effectVars
<1>5. orders' = orders \/ \E r : orders' = [orders EXCEPT ![r] = @ + 1]
  BY <1>4, StepForms DEF Shrinks, Enters, effectVars
<1>6. \A r \in Requests : orders[r] \in Nat /\ orders'[r] \in Nat /\ orders'[r] >= orders[r]
  BY <1>5 DEF TypeOK
<1>7. QED
  BY <1>3, <1>6

\* A filled row that is inserted is one.
LEMMA InsertFills ==
  ASSUME TypeOK, WellFormed, NEW g \in Goroutines, Inserts(g),
         rows' = Append(rows, [req |-> run[g].req, ord |-> run[g].ord, filled |-> TRUE])
  PROVE  run[g].req \in FilledRequests'
<1>1. rows \in Seq(Rows) /\ run[g].req \in Requests /\ run[g].ord \in Nat
  BY DEF TypeOK, WellFormed, Inserts, Runs
<1>2. [req |-> run[g].req, ord |-> run[g].ord, filled |-> TRUE] \in Rows
  BY <1>1 DEF Rows
<1>3. \E i \in DOMAIN rows' : rows'[i] = [req |-> run[g].req, ord |-> run[g].ord, filled |-> TRUE]
  BY <1>1, <1>2, AppendIsSeq
<1>4. QED
  BY <1>1, <1>3 DEF FilledRequests, Filled, RowsOf

LEMMA HandlerSound ==
  ASSUME IInv, WorkSound, [Next]_vars, NEW g \in Goroutines, HandlerStep(g)
  PROVE  Sound(run'[g], orders', FilledRequests')
<1> DEFINE r == run[g].req
<1>1. /\ TypeOK /\ WellFormed /\ r \in Requests /\ run[g] \in Runs
      /\ Sound(run[g], orders, FilledRequests)
      /\ FilledRequests \subseteq FilledRequests'
      /\ orders[r] \in Nat /\ orders'[r] \in Nat /\ orders'[r] >= orders[r]
  <2>1. TypeOK /\ WellFormed /\ r \in Requests
    BY HandlerMoves DEF IInv, Moves, WellFormed
  <2>2. QED
    BY <2>1, EffectsGrow DEF WorkSound, TypeOK
<1>2. /\ "error" \in Results /\ "ok" \in Results /\ "duplicate" \in Results /\ "dropped" \in Results
      /\ {"create", "submit", "dupclose", "close", "notify"} \subseteq PCs
  BY DEF Results, PCs
<1>3. ASSUME run'[g].pc \in {"idle", "done", "submit"}
      PROVE  Sound(run'[g], orders', FilledRequests')
  BY <1>3 DEF Sound
<1>4. ASSUME NEW res \in Results, End(g, res)
      PROVE  Sound(run'[g], orders', FilledRequests')
  BY <1>1, <1>3, <1>4, EndedRun
<1>5. ASSUME AfterClose(g)
      PROVE  Sound(run'[g], orders', FilledRequests')
  <2>1. CASE r \in Notified /\ Goto(g, "notify")
    BY <1>1, <1>2, <2>1, GoneRun DEF Sound
  <2>2. QED
    BY <1>2, <1>4, <1>5, <2>1 DEF AfterClose
<1>6. CASE Lookup(g)
  <2>1. CASE Goto(g, IF r \in Paper THEN "create" ELSE "submit")
    <3>1. (IF r \in Paper THEN "create" ELSE "submit") \in PCs
      BY <1>2
    <3>2. QED
      BY <1>1, <2>1, <3>1, GoneRun DEF Sound
  <2>2. ASSUME NEW i \in RowsOf(r), Closing(r, rows[i].filled), Goto(g, "dupclose")
        PROVE  Sound(run'[g], orders', FilledRequests')
    <3>1. r \in ManualClose \cap FilledRequests
      BY <1>1, <2>2 DEF Closing, FilledRequests, Filled
    <3>2. QED
      BY <1>1, <1>2, <2>2, <3>1, GoneRun DEF Sound
  <2>3. QED
    BY <1>2, <1>4, <1>6, <2>1, <2>2 DEF Lookup, GetByRequestID
<1>7. CASE Submit(g)
  <2>1. CASE End(g, "error")
    BY <1>2, <1>4, <2>1
  <2>2. CASE /\ orders' = [orders EXCEPT ![r] = @ + 1]
             /\ Put(g, [run[g] EXCEPT !.pc = "await", !.ord = orders[r] + 1])
    <3>1. /\ run'[g].pc = "await" /\ run'[g].req = r /\ run'[g].ord = orders[r] + 1
      BY <1>1, <2>2 DEF Put, TypeOK, Runs
    <3>2. orders'[r] = orders[r] + 1
      BY <1>1, <2>2 DEF TypeOK
    <3>3. QED
      BY <1>1, <3>1, <3>2 DEF Sound
  <2>3. QED
    BY <1>7, <2>1, <2>2 DEF Submit
<1>8. CASE Reply(g)
  <2>1. CASE End(g, "error")
    BY <1>2, <1>4, <2>1
  <2>2. ASSUME NEW f \in BOOLEAN, Put(g, [run[g] EXCEPT !.pc = "create", !.filled = f]),
               run[g].pc = "await"
        PROVE  Sound(run'[g], orders', FilledRequests')
    <3>1. run'[g].pc = "create" /\ run'[g].req = r /\ run'[g].ord = run[g].ord
      BY <1>1, <2>2 DEF Put, TypeOK, Runs
    <3>2. r \notin Paper => run[g].ord \in 1 .. orders[r]
      BY <1>1, <2>2 DEF Sound
    <3>3. QED
      BY <1>1, <3>1, <3>2 DEF Sound
  <2>3. QED
    BY <1>8, <2>1, <2>2 DEF Reply
<1>9. CASE Create(g)
  <2> DEFINE f == run[g].filled \/ r \in Paper
  <2>1. CASE End(g, "dropped")
    BY <1>2, <1>4, <2>1
  <2>2. CASE /\ Inserts(g) /\ AfterCreate(g, f)
             /\ rows' = Append(rows, [req |-> r, ord |-> run[g].ord, filled |-> f])
    <3>1. CASE Closing(r, f) /\ Goto(g, "close")
      <4>1. f = TRUE /\ r \in ManualClose
        BY <1>1, <3>1 DEF Closing, Runs
      <4>2. r \in FilledRequests'
        BY <1>1, <2>2, <4>1, InsertFills
      <4>3. QED
        BY <1>1, <1>2, <3>1, <4>1, <4>2, GoneRun DEF Sound
    <3>2. QED
      BY <1>5, <2>2, <3>1 DEF AfterCreate
  <2>3. f \in BOOLEAN
    BY <1>1 DEF Runs
  <2>4. QED
    BY <1>9, <2>1, <2>2, <2>3 DEF Create, Inserts
<1>10. CASE PublishClose(g) \/ PublishDuplicateClose(g) \/ Notify(g)
  BY <1>2, <1>4, <1>5, <1>10 DEF PublishClose, PublishDuplicateClose, Notify
<1>11. QED
  BY <1>6, <1>7, <1>8, <1>9, <1>10 DEF HandlerStep

LEMMA WorkSoundStep ==
  ASSUME IInv, WorkSound, [Next]_vars
  PROVE  WorkSound'
<1>1. TypeOK /\ WellFormed
  BY DEF IInv
<1>2. SUFFICES ASSUME NEW g \in Goroutines
               PROVE  Sound(run'[g], orders', FilledRequests')
  BY DEF WorkSound
<1>3. ASSUME run'[g].pc \in {"idle", "lookup", "done"}
      PROVE  Sound(run'[g], orders', FilledRequests')
  BY <1>3 DEF Sound
<1>4. ASSUME run'[g].pc = run[g].pc, run'[g].req = run[g].req, run'[g].ord = run[g].ord
      PROVE  Sound(run'[g], orders', FilledRequests')
  <2>1. CASE run[g].pc = "idle"
    BY <1>3, <1>4, <2>1
  <2>2. CASE run[g].req \in Requests
    <3>1. /\ Sound(run[g], orders, FilledRequests)
          /\ FilledRequests \subseteq FilledRequests'
          /\ orders[run[g].req] \in Nat /\ orders'[run[g].req] \in Nat
          /\ orders'[run[g].req] >= orders[run[g].req]
      BY <1>1, <2>2, EffectsGrow DEF WorkSound
    <3>2. run[g].ord \in Nat
      BY <1>1 DEF TypeOK, Runs
    <3>3. QED
      BY <1>4, <3>1, <3>2 DEF Sound
  <2>3. QED
    BY <1>1, <2>1, <2>2 DEF WellFormed
<1>5. CASE Shrinks
  BY <1>3, <1>4, <1>5, IdleFacts DEF Shrinks, Kept
<1>6. ASSUME NEW h \in Goroutines, Enters(h)
      PROVE  Sound(run'[g], orders', FilledRequests')
  BY <1>1, <1>3, <1>4, <1>6, EnteredRuns, IdleFacts DEF Started
<1>7. ASSUME NEW h \in Goroutines, HandlerStep(h)
      PROVE  Sound(run'[g], orders', FilledRequests')
  <2>1. CASE g = h
    BY <1>7, <2>1, HandlerSound
  <2>2. CASE g # h
    BY <1>1, <1>4, <1>7, <2>2, HandlerMoves, MovedRuns
  <2>3. QED
    BY <2>1, <2>2
<1>8. QED
  BY <1>1, <1>5, <1>6, <1>7, StepForms

LEMMA PromiseStep == PromiseInv /\ [Next]_vars => PromiseInv'
<1> SUFFICES ASSUME PromiseInv, [Next]_vars
             PROVE  PromiseInv'
  OBVIOUS
<1>1. CloseInv' /\ WorkSound'
  BY CloseStep, WorkSoundStep DEF PromiseInv, CloseInv
<1>2. NotesBacked'
  BY NotesStep DEF PromiseInv, CloseInv, IInv
<1>3. QED
  BY <1>1, <1>2 DEF PromiseInv

LEMMA PromiseInit == Init => PromiseInv
<1> SUFFICES ASSUME Init
             PROVE  PromiseInv
  OBVIOUS
<1>1. WorkSound
  BY IdleFacts DEF Init, WorkSound, Sound
<1>2. QED
  BY <1>1, CloseInit, NotesBegin DEF PromiseInv

-----------------------------------------------------------------------------
\* Every step is one of the promise's, or a stutter.

LEMMA SameTable == \A r : Promise!RowsOf(r) = RowsOf(r)
  BY DEF Promise!RowsOf, RowsOf

LEMMA ToldRests ==
  ASSUME UNCHANGED <<st, reqOf>>
  PROVE  UNCHANGED Told
  BY DEF Told

\* A message that is settled otherwise tells nobody that the request is done.
LEMMA ToldKeeps ==
  ASSUME NEW m \in Msgs, NEW s, NEW S, st \in [Msgs -> S], st' = [st EXCEPT ![m] = s],
         \A n \in Msgs : n # m => reqOf'[n] = reqOf[n],
         s = "acked" <=> st[m] = "acked", st[m] = "acked" => reqOf'[m] = reqOf[m]
  PROVE  UNCHANGED Told
<1>1. \A n \in Msgs : /\ st'[n] = "acked" <=> st[n] = "acked"
                      /\ st[n] = "acked" => reqOf'[n] = reqOf[n]
  OBVIOUS
<1>2. QED
  BY <1>1 DEF Told

LEMMA QueueTellsNobody ==
  ASSUME TypeOK, NEW m \in Msgs, Queue(m)
  PROVE  UNCHANGED Told
<1> DEFINE States == {"unpublished", "ready", "pending", "acked", "termed", "aged"}
<1>1. st \in [Msgs -> States]
  BY DEF TypeOK
<1>2. ASSUME NEW r, Publish(m, r)
      PROVE  UNCHANGED Told
  <2>1. /\ st' = [st EXCEPT ![m] = "ready"] /\ st[m] = "unpublished"
        /\ \A n \in Msgs : n # m => reqOf'[n] = reqOf[n]
    BY <1>2 DEF Publish, TypeOK
  <2>2. QED
    BY <1>1, <2>1, ToldKeeps
<1>3. ASSUME reqOf' = reqOf, st[m] # "acked",
             NEW s \in {"ready", "pending", "aged"}, st' = [st EXCEPT ![m] = s]
      PROVE  UNCHANGED Told
  BY <1>1, <1>3, ToldKeeps
<1>4. QED
  BY <1>2, <1>3 DEF Queue, Deliver, AckWaitExpires, AgeOut

\* The select answers its message: as done, or in a way that tells nobody.
LEMMA SelectAnswers ==
  ASSUME TypeOK, WellFormed, NEW g \in Goroutines, Finish(g) \/ GiveUp(g)
  PROVE  \/ UNCHANGED Told
         \/ \E m \in Msgs : /\ st'[m] = "acked" /\ reqOf' = reqOf
                            /\ Told' = Told \cup {reqOf[m]}
<1> DEFINE m == run[g].msg
<1>1. PICK s \in {"ready", "pending", "acked", "termed", "aged"} :
        m \in Msgs /\ st' = [st EXCEPT ![m] = s] /\ reqOf' = reqOf
  BY Answers
<1>2. st \in [Msgs -> {"unpublished", "ready", "pending", "acked", "termed", "aged"}]
  BY DEF TypeOK
<1>3. st[m] = "acked" => s = "acked"
  <2>1. ASSUME st[m] = "acked"
        PROVE  st'[m] = "acked"
    <3>1. \/ st' = st
          \/ st' = [st EXCEPT ![m] = IF Settled(m) THEN @ ELSE "acked"]
          \/ st' = [st EXCEPT ![m] = IF Settled(m) THEN @ ELSE "termed"]
          \/ st' = [st EXCEPT ![m] = IF @ = "pending" THEN "ready" ELSE @]
      BY DEF Finish, GiveUp, Retry, Settle, Nak, AnswerLost
    <3>2. QED
      BY <1>1, <1>2, <2>1, <3>1 DEF Settled
  <2>2. QED
    BY <1>1, <1>2, <2>1
<1> HIDE DEF m
<1>4. CASE s = "acked"
  <2>1. \A n \in Msgs : st'[n] = "acked" <=> st[n] = "acked" \/ n = m
    BY <1>1, <1>2, <1>4
  <2>2. Told' = Told \cup {reqOf[m]}
    BY <1>1, <2>1 DEF Told
  <2>3. QED
    BY <1>1, <2>1, <2>2
<1>5. CASE s # "acked"
  BY <1>1, <1>2, <1>3, <1>5, ToldKeeps
<1>6. QED
  BY <1>4, <1>5

\* The message that is answered as done has a request with nothing left to do.
LEMMA FinishAnswers ==
  ASSUME PromiseInv, [Next]_vars, NEW g \in Goroutines, Finish(g) \/ GiveUp(g)
  PROVE  \/ UNCHANGED Promise!requestVars
         \/ \E r \in Requests : Promise!Answer(r)
<1>1. UNCHANGED <<effectVars, overlapped>>
  BY DEF Finish, GiveUp
<1>2. CASE UNCHANGED Told
  BY <1>1, <1>2 DEF effectVars, Promise!requestVars
<1>3. ASSUME NEW m \in Msgs, st'[m] = "acked", reqOf' = reqOf, Told' = Told \cup {reqOf[m]}
      PROVE  \E r \in Requests : Promise!Answer(r)
  <2>1. CloseInv'
    BY CloseStep DEF PromiseInv
  <2>2. AckedIsRecorded' /\ WellFormed' /\ CloseAnnounced'
    <3>1. CloseInv => CloseAnnounced
      BY CloseFollows
    <3>2. CloseInv' => CloseAnnounced'
      BY CloseFollows, PTL
    <3>3. QED
      BY <2>1, <3>2 DEF CloseInv, IInv
  <2> DEFINE r == reqOf[m]
  <2>3. r \in Requests
    BY <1>3, <2>2 DEF WellFormed
  <2>4. r \in Unrouted \cup unrecorded \/ RowsOf(r) # {}
    BY <1>1, <1>3, <2>2 DEF AckedIsRecorded, RowsOf, effectVars
  <2>5. r \in ManualClose \ (overlapped \cup unrecorded) =>
          \A i \in RowsOf(r) : rows[i].filled => r \in announced
    BY <1>1, <1>3, <2>2 DEF CloseAnnounced, RowsOf, effectVars
  <2> HIDE DEF r
  <2>6. Promise!Answer(r)
    BY <1>1, <1>3, <2>4, <2>5, SameTable DEF r, Promise!Answer, Promise!Fillings, effectVars
  <2>7. QED
    BY <2>3, <2>6
<1>4. TypeOK /\ WellFormed
  BY DEF PromiseInv, CloseInv, IInv
<1>5. QED
  BY <1>2, <1>3, <1>4, SelectAnswers

\* What a handler step finds: its request is known and for an exchange that is
\* registered, and a run on its way to a row is alone or finds none.
LEMMA HandlerFinds ==
  ASSUME PromiseInv, NEW g \in Goroutines, HandlerStep(g)
  PROVE  /\ TypeOK /\ WellFormed
         /\ run[g] \in Runs
         /\ run[g].req \in Requests \ Unrouted
         /\ Sound(run[g], orders, FilledRequests)
         /\ run[g].pc \in {"submit", "create"} => Promise!First(run[g].req)
         /\ UNCHANGED <<Told, overlapped>>
<1>1. TypeOK /\ WellFormed /\ IInv /\ Routed
  BY DEF PromiseInv, CloseInv, IInv
<1>2. Moves(g)
  BY <1>1, HandlerMoves
<1>3. run[g].req \in Requests \ Unrouted
  BY <1>1, <1>2 DEF Moves, WellFormed, Routed, Active
<1>4. run[g].pc \in {"submit", "create"} => Promise!First(run[g].req)
  BY <1>1, SameTable DEF IInv, FreshPlacing, Recorded, Promise!First
<1>5. UNCHANGED <<Told, overlapped>>
  BY <1>2, ToldRests DEF Moves, queueVars
<1>6. QED
  BY <1>1, <1>3, <1>4, <1>5 DEF PromiseInv, WorkSound, TypeOK

\* An order is submitted that nothing in the table speaks of.
LEMMA SubmitPlaces ==
  ASSUME PromiseInv, NEW g \in Goroutines, Submit(g)
  PROVE  Promise!Place(run[g].req) \/ UNCHANGED Promise!requestVars
<1>1. HandlerStep(g) /\ run[g].pc = "submit"
  BY DEF HandlerStep, Submit
<1>2. /\ run[g].req \in Requests \ Unrouted /\ Promise!First(run[g].req)
      /\ UNCHANGED <<Told, overlapped>>
  BY <1>1, HandlerFinds
<1>3. run[g].req \notin Paper
  BY <1>1 DEF PromiseInv, CloseInv, IInv, PaperOrd
<1>4. /\ UNCHANGED <<rows, announced, notes, unrecorded>>
      /\ orders' = orders \/ orders' = [orders EXCEPT ![run[g].req] = @ + 1]
  BY DEF Submit
<1>5. QED
  BY <1>2, <1>3, <1>4 DEF Promise!Place, Promise!requestVars

\* The order in hand is stored, or is not.
LEMMA CreateKeeps ==
  ASSUME PromiseInv, NEW g \in Goroutines, Create(g)
  PROVE  Promise!Record(run[g].req) \/ Promise!Lose(run[g].req)
<1> DEFINE r == run[g].req
           k == run[g].ord
           f == run[g].filled \/ r \in Paper
<1>1. HandlerStep(g) /\ run[g].pc = "create"
  BY DEF HandlerStep, Create
<1>2. /\ r \in Requests \ Unrouted /\ Promise!First(r)
      /\ UNCHANGED <<Told, overlapped>>
      /\ Sound(run[g], orders, FilledRequests) /\ run[g] \in Runs /\ orders[r] \in Nat
  BY <1>1, HandlerFinds DEF TypeOK
<1>3. r \in Paper => k = 0
  BY <1>1 DEF PromiseInv, CloseInv, IInv, PaperOrd
<1>4. k \in 0 .. orders[r] /\ (k = 0 <=> r \in Paper)
  BY <1>1, <1>2, <1>3 DEF Sound
<1>5. f \in BOOLEAN /\ (r \in Paper => f)
  BY <1>2 DEF Runs
<1>6. UNCHANGED <<orders, announced, notes>>
  BY DEF Create
<1>7. CASE /\ ~KeyTaken(r, k)
           /\ rows' = Append(rows, [req |-> r, ord |-> k, filled |-> f])
           /\ unrecorded' = unrecorded \/ unrecorded' = unrecorded \cup {r}
  <2>1. \A i \in Promise!RowsOf(r) : rows[i].ord # k
    BY <1>7, SameTable DEF KeyTaken
  <2>2. PICK b \in BOOLEAN : b = f
    BY <1>5
  <2>3. /\ r \in Paper => b
        /\ rows' = Append(rows, [req |-> r, ord |-> k, filled |-> b])
    BY <1>5, <1>7, <2>2
  <2>4. \E n \in 0 .. orders[r], filled \in BOOLEAN :
          /\ n = 0 <=> r \in Paper
          /\ r \in Paper => filled
          /\ \A i \in Promise!RowsOf(r) : rows[i].ord # n
          /\ rows' = Append(rows, [req |-> r, ord |-> n, filled |-> filled])
    <3> k \in 0 .. orders[r] /\ b \in BOOLEAN
      BY <1>4, <2>2
    <3> HIDE DEF r, k
    <3> WITNESS k \in 0 .. orders[r], b \in BOOLEAN
    <3>1. QED
      BY <1>4, <2>1, <2>3
  <2>5. QED
    BY <1>2, <1>6, <1>7, <2>4 DEF Promise!Record
<1>8. CASE UNCHANGED rows /\ unrecorded' = unrecorded \cup {r}
  BY <1>2, <1>6, <1>8 DEF Promise!Lose
<1>9. QED
  BY <1>7, <1>8 DEF Create

\* What is announced is filled in the table.
LEMMA ClosesAnnounce ==
  ASSUME PromiseInv, NEW g \in Goroutines, PublishClose(g) \/ PublishDuplicateClose(g)
  PROVE  Promise!Announce(run[g].req) \/ UNCHANGED Promise!requestVars
<1>1. HandlerStep(g) /\ run[g].pc \in {"close", "dupclose"}
  BY DEF HandlerStep, PublishClose, PublishDuplicateClose
<1>2. UNCHANGED <<Told, overlapped>> /\ run[g].req \in ManualClose \cap FilledRequests
  BY <1>1, HandlerFinds DEF Sound
<1>3. Promise!Fillings(run[g].req) # {}
  BY <1>2, SameTable DEF FilledRequests, Filled, Promise!Fillings
<1>4. /\ UNCHANGED <<orders, rows, notes, unrecorded>>
      /\ announced' = announced \/ announced' = announced \cup {run[g].req}
  BY DEF PublishClose, PublishDuplicateClose
<1>5. QED
  BY <1>2, <1>3, <1>4 DEF Promise!Announce, Promise!requestVars

\* A notification follows a row that had none.
LEMMA NotifyNotifies ==
  ASSUME PromiseInv, NEW g \in Goroutines, Notify(g)
  PROVE  Promise!Notify(run[g].req) \/ UNCHANGED Promise!requestVars
<1> DEFINE r == run[g].req
<1>1. HandlerStep(g) /\ run[g].pc = "notify"
  BY DEF HandlerStep, Notify
<1>2. UNCHANGED <<Told, overlapped>> /\ r \in Requests /\ r \in Notified /\ TypeOK
  BY <1>1, HandlerFinds DEF Sound
<1>3. notes[r] < Cardinality(RowsOf(r))
  <2>1. NotesOf(r) /\ g \in Pending(r)
    BY <1>1, <1>2 DEF PromiseInv, NotesBacked, Pending, Telling
  <2>2. Cardinality(Pending(r)) \in Nat /\ Cardinality(Pending(r)) # 0
    BY <2>1, FS_CardinalityType, FS_EmptySet DEF NotesOf
  <2>3. Cardinality(RowsOf(r)) \in Nat /\ notes[r] \in Nat
    BY <1>2, FiniteRows DEF TypeOK
  <2>4. QED
    BY <2>1, <2>2, <2>3 DEF NotesOf
<1>4. /\ UNCHANGED <<orders, rows, announced, unrecorded>>
      /\ notes' = notes \/ notes' = [notes EXCEPT ![r] = @ + 1]
  BY DEF Notify
<1>5. notes[r] < Promise!Cardinality(Promise!RowsOf(r))
  <2>1. \A S : Promise!Cardinality(S) = Cardinality(S)
    BY DEF Promise!Cardinality, Cardinality
  <2>2. QED
    BY <1>3, <2>1, SameTable
<1>6. CASE notes' = notes
  BY <1>2, <1>4, <1>6 DEF Promise!requestVars
<1>7. CASE notes' = [notes EXCEPT ![r] = @ + 1]
  BY <1>2, <1>4, <1>5, <1>7 DEF Promise!Notify
<1>8. QED
  BY <1>4, <1>6, <1>7

\* Nothing else a run does shows.
LEMMA HandlerRests ==
  ASSUME PromiseInv, NEW g \in Goroutines, Lookup(g) \/ Reply(g)
  PROVE  UNCHANGED Promise!requestVars
<1>1. HandlerStep(g)
  BY DEF HandlerStep
<1>2. UNCHANGED effectVars
  BY DEF Lookup, Reply
<1>3. QED
  BY <1>1, <1>2, HandlerFinds DEF effectVars, Promise!requestVars

LEMMA EnterOverlaps ==
  ASSUME TypeOK, WellFormed, NEW g \in Goroutines, Enters(g)
  PROVE  UNCHANGED Promise!requestVars \/ \E r \in Requests : Promise!Overlap(r)
<1>1. /\ UNCHANGED <<st, reqOf, effectVars>>
      /\ \E r \in Requests : overlapped' = overlapped \/ overlapped' = overlapped \cup {r}
  BY EntersRun
<1>2. QED
  BY <1>1, ToldRests DEF effectVars, Promise!Overlap, Promise!requestVars

LEMMA StepPromises == PromiseInv /\ [Next]_vars => [Promise!RequestsNext]_Promise!requestVars
<1> DEFINE Goal == Promise!RequestsNext \/ UNCHANGED Promise!requestVars
<1> SUFFICES ASSUME PromiseInv, [Next]_vars
             PROVE  Goal
  OBVIOUS
<1>1. TypeOK /\ WellFormed
  BY DEF PromiseInv, CloseInv, IInv
<1>2. ASSUME UNCHANGED <<st, reqOf, effectVars, overlapped>>
      PROVE  Goal
  BY <1>2, ToldRests DEF effectVars, Promise!requestVars
<1>3. ASSUME NEW m \in Msgs, Queue(m)
      PROVE  Goal
  <2>1. UNCHANGED <<effectVars, overlapped>>
    BY <1>3 DEF Queue, Publish, Deliver, AckWaitExpires, AgeOut, effectVars
  <2>2. QED
    BY <1>1, <1>3, <2>1, QueueTellsNobody DEF effectVars, Promise!requestVars
<1>4. ASSUME NEW g \in Goroutines, Goroutine(g)
      PROVE  Goal
  <2>1. CASE HandlerStep(g)
    <3>1. run[g].req \in Requests \ Unrouted
      BY <2>1, HandlerFinds
    <3>2. \/ Promise!Work(run[g].req)
          \/ UNCHANGED Promise!requestVars
      BY <2>1, SubmitPlaces, CreateKeeps, ClosesAnnounce, NotifyNotifies, HandlerRests
         DEF HandlerStep, Promise!Work
    <3>3. QED
      BY <3>1, <3>2 DEF Promise!RequestsNext
  <2>2. CASE Finish(g) \/ GiveUp(g)
    BY <2>2, FinishAnswers DEF Promise!RequestsNext
  <2>3. ASSUME NEW p \in Gateways, Begin(g, p) \/ \E r \in Requests : CallPlaceOrder(g, p, r)
        PROVE  Goal
    BY <1>1, <2>3, BeginEnters, CallEnters, EnterOverlaps DEF Promise!RequestsNext
  <2>4. CASE Deadline(g)
    BY <1>2, <2>4 DEF Deadline, queueVars
  <2>5. QED
    BY <1>4, <2>1, <2>2, <2>3, <2>4 DEF Goroutine
<1>5. QED
  BY <1>2, <1>3, <1>4 DEF Next, vars, effectVars, ExpireOrder, Crash, queueVars

\* The gateway keeps the promise of OrderRequests: whatever redeliveries, retries,
\* direct calls, deadlines and crashes make of PlaceOrder and ProcessWithTimeout,
\* every order, row, close, notification and acknowledgement is one the promise
\* allows in the state it happens in, and rows are only ever added.
THEOREM PromiseKept == Spec => KeepsPromise
<1>1. Init => Promise!RequestsInit
  BY DEF Init, Promise!RequestsInit, Told
<1>2. QED
  BY <1>1, PromiseInit, PromiseStep, StepPromises, PTL
     DEF Spec, KeepsPromise, Promise!RequestsSpec
=============================================================================
