---------------------------- MODULE OrderRecord ----------------------------
(***************************************************************************)
(* What order_histories promises of live orders, whoever writes it and how *)
(* often: a row says what was true of its order at some time, and a manual *)
(* close that is found filled after its insert is announced before its row *)
(* says so.                                                                *)
(***************************************************************************)
CONSTANTS
  Orders, ManualClose,
  Rows,        \* records with a status
  NoRow

VARIABLES
  past,        \* per order: the rows that were true of it so far
  rows,        \* per order: the stored row
  announced    \* orders that were announced as closed

recordVars == <<past, rows, announced>>

Filled(row) == row.status = "FILLED"

RecordInit ==
  /\ past = [o \in Orders |-> {}]
  /\ rows = [o \in Orders |-> NoRow]
  /\ announced = {}

\* Something happens to the order, unless it is filled.
Happen(o) ==
  /\ UNCHANGED <<rows, announced>>
  /\ \A row \in past[o] : ~Filled(row)
  /\ \E row \in Rows : past' = [past EXCEPT ![o] = @ \cup {row}]

Announce(o) ==
  /\ o \in ManualClose
  /\ \E row \in past[o] : Filled(row)
  /\ announced' = announced \cup {o}
  /\ UNCHANGED <<past, rows>>

\* The row is inserted, or written again.
Record(o) ==
  /\ \E row \in past[o] :
       /\ rows' = [rows EXCEPT ![o] = row]
       /\ Filled(row) /\ o \in ManualClose => rows[o] = NoRow \/ o \in announced
  /\ UNCHANGED <<past, announced>>

RecordNext == \E o \in Orders : Happen(o) \/ Announce(o) \/ Record(o)

RecordSpec == RecordInit /\ [][RecordNext]_recordVars
=============================================================================
