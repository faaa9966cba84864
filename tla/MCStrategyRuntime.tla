------------------------- MODULE MCStrategyRuntime -------------------------
(***************************************************************************)
(* Instances of StrategyRuntime for TLC.                                   *)
(***************************************************************************)
EXTENDS StrategyRuntime

MCTicks == {{}, {MaxCandles}}

\* Either no reset, and a runtime that keeps the state of removed pairs; or one
\* that erases it, with a reset, a tick, an edit or a fault, and no close.
MCInit ==
  /\ Init
  /\ IF removes
     THEN /\ ticks # {} /\ resets = 0
          /\ MaxEdits - edits + MaxFaults - faults = 1
     ELSE ticks = {} /\ resets = MaxResets /\ edits = 0 /\ faults = 0
NoClose == removes => closed = {}
MCSpec == MCInit /\ [][Next]_vars
=============================================================================
