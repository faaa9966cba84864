--------------------------- MODULE PositionOrders ---------------------------
(***************************************************************************)
(* What the runtime promises of the orders of one pair, whatever its tasks,*)
(* its candles, its restarts and those who close a position from outside   *)
(* do: an ENTRY opens a position of its own, once for a candle and when no *)
(* other is open, and an EXIT closes the one that is open.                 *)
(*                                                                         *)
(* What a failure, a cancelled worker or the user took from the runtime's  *)
(* memory excuses it from the promises that rest on it.                    *)
(***************************************************************************)
EXTENDS Sequences, Naturals

VARIABLES
  orders,   \* the orders that are published
  closed,   \* entries closed from outside
  heard,    \* those whose close the runtime took note of
  excuses,  \* what was lost of its memory: "lost", "cancel", "reset"
  forgets   \* the memory of a removed pair is erased

positionVars == <<orders, closed, heard, excuses, forgets>>

Entry(o) == o.cond = "ENTRY"
Last == orders[Len(orders)]
Flat == orders = <<>> \/ ~Entry(Last) \/ Last.entry \in closed
Holds(e) == orders # <<>> /\ Entry(Last) /\ Last.entry = e

\* Nothing is lost but, if at all, an order a cancelled worker had to publish.
Remembers == excuses \subseteq {"cancel"}
Exact == excuses = {} /\ ~forgets

PositionInit ==
  /\ orders = <<>>
  /\ closed = {}
  /\ heard = {}
  /\ excuses = {}
  /\ forgets \in BOOLEAN

Publish(o) ==
  /\ orders' = Append(orders, o)
  /\ UNCHANGED <<closed, heard, excuses, forgets>>

\* An entry_order_id is never used again.
Enter(o) ==
  /\ Entry(o)
  /\ \A i \in DOMAIN orders : orders[i].entry # o.entry
  /\ Remembers /\ ~forgets =>
       \A i \in DOMAIN orders : Entry(orders[i]) => orders[i].candle # o.candle
  /\ Exact => Flat
  /\ Publish(o)

Exit(o) ==
  /\ ~Entry(o)
  /\ Remembers => o.entry \notin heard
  /\ Exact => Holds(o.entry)
  /\ Publish(o)

CloseOutside(e) ==
  /\ e \notin closed
  /\ \E i \in DOMAIN orders : Entry(orders[i]) /\ orders[i].entry = e
  /\ closed' = closed \cup {e}
  /\ UNCHANGED <<orders, heard, excuses, forgets>>

\* A close is taken note of, or memory is lost.
Note ==
  /\ heard \subseteq heard' /\ heard' \subseteq closed
  /\ excuses \subseteq excuses'
  /\ UNCHANGED <<orders, closed, forgets>>

PositionNext ==
  \/ Note
  \/ \E e \in closed' : CloseOutside(e)
  \/ \E i \in DOMAIN orders' : Enter(orders'[i]) \/ Exit(orders'[i])

PositionSpec == PositionInit /\ [][PositionNext]_positionVars
=============================================================================
