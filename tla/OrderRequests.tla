--------------------------- MODULE OrderRequests ---------------------------
(***************************************************************************)
(* What the gateway promises of each request, however often its message is *)
(* delivered, retried or called again, whichever process works on it and   *)
(* wherever that process stops: at most one order of a request is stored,  *)
(* a close is announced and a row notified once they are in the table, and *)
(* a message is acknowledged when nothing of this is left to do.           *)
(*                                                                         *)
(* A request is excused where two runs worked on it at the same time, and  *)
(* where order_histories refused a row.                                    *)
(***************************************************************************)
EXTENDS Naturals, Sequences, FiniteSets

CONSTANTS Requests, Paper, ManualClose, Notified, Unrouted

VARIABLES
  orders,     \* number of orders the exchange accepted for each request
  rows,       \* table order_histories
  announced,  \* requests announced as a closed position
  notes,      \* number of notifications for each request
  told,       \* requests with an acknowledged message
  overlapped, \* requests two runs worked on at the same time
  unrecorded  \* requests with a row that was refused

requestVars == <<orders, rows, announced, notes, told, overlapped, unrecorded>>

RowsOf(r) == {i \in DOMAIN rows : rows[i].req = r}
Fillings(r) == {i \in RowsOf(r) : rows[i].filled}

RequestsInit ==
  /\ orders = [r \in Requests |-> 0]
  /\ rows = <<>>
  /\ announced = {}
  /\ notes = [r \in Requests |-> 0]
  /\ told = {}
  /\ overlapped = {}
  /\ unrecorded = {}

\* Nothing of the request is in the table yet.
First(r) == RowsOf(r) = {} \/ r \in overlapped

Place(r) ==
  /\ r \notin Paper
  /\ First(r)
  /\ orders' = [orders EXCEPT ![r] = @ + 1]
  /\ UNCHANGED <<rows, announced, notes, told, overlapped, unrecorded>>

\* Order k of the request, or its paper order, is stored; an error may be
\* reported all the same.
Record(r) ==
  /\ First(r)
  /\ \E k \in 0 .. orders[r], filled \in BOOLEAN :
       /\ k = 0 <=> r \in Paper
       /\ r \in Paper => filled
       /\ \A i \in RowsOf(r) : rows[i].ord # k
       /\ rows' = Append(rows, [req |-> r, ord |-> k, filled |-> filled])
  /\ unrecorded' = unrecorded \/ unrecorded' = unrecorded \cup {r}
  /\ UNCHANGED <<orders, announced, notes, told, overlapped>>

Lose(r) ==
  /\ unrecorded' = unrecorded \cup {r}
  /\ UNCHANGED <<orders, rows, announced, notes, told, overlapped>>

Announce(r) ==
  /\ r \in ManualClose
  /\ Fillings(r) # {}
  /\ announced' = announced \cup {r}
  /\ UNCHANGED <<orders, rows, notes, told, overlapped, unrecorded>>

Notify(r) ==
  /\ r \in Notified
  /\ notes[r] < Cardinality(RowsOf(r))
  /\ notes' = [notes EXCEPT ![r] = @ + 1]
  /\ UNCHANGED <<orders, rows, announced, told, overlapped, unrecorded>>

\* Acknowledged for good: there is nothing to place, or what was placed is stored
\* and a filled close announced.
Answer(r) ==
  /\ \/ r \in Unrouted \cup unrecorded
     \/ /\ RowsOf(r) # {}
        /\ r \in ManualClose /\ Fillings(r) # {} => r \in announced \cup overlapped
  /\ told' = told \cup {r}
  /\ UNCHANGED <<orders, rows, announced, notes, overlapped, unrecorded>>

Overlap(r) ==
  /\ overlapped' = overlapped \cup {r}
  /\ UNCHANGED <<orders, rows, announced, notes, told, unrecorded>>

\* A request for an exchange that is not registered is answered and no more.
Work(r) == Place(r) \/ Record(r) \/ Lose(r) \/ Announce(r) \/ Notify(r)
RequestsNext ==
  \/ \E r \in Requests \ Unrouted : Work(r)
  \/ \E r \in Requests : Answer(r) \/ Overlap(r)

RequestsSpec == RequestsInit /\ [][RequestsNext]_requestVars
=============================================================================
