--------------------------- MODULE MCKlineGateway ---------------------------
(***************************************************************************)
(* Instances of KlineGateway for TLC: s is a key of a spot symbol, p one   *)
(* of a futures symbol (SYMBOL.P) whose old row still says spot.           *)
(***************************************************************************)
EXTENDS KlineGateway

MCTypeOf == [k \in Keys |-> IF k = "s" THEN "spot" ELSE "futures"]
MCColumn == [k \in Keys |-> "spot"]
=============================================================================
