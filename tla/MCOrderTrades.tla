--------------------------- MODULE MCOrderTrades ---------------------------
(***************************************************************************)
(* Instances of OrderTrades for TLC.  Sessions and pairs are               *)
(* interchangeable; ids are not, they are the order of created_at.         *)
(***************************************************************************)
EXTENDS OrderTrades, TLC

Sym == Permutations(Txns) \cup Permutations(Pairs)
=============================================================================
