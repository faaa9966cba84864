--------------------------- MODULE MCOrderEngine ---------------------------
(***************************************************************************)
(* Instances of OrderEngine for TLC.  The requests are one of each kind:   *)
(* a live order, a paper order that can expire (both manual closes with a  *)
(* notification), one PlaceOrder refuses, and one for an exchange that is  *)
(* not registered.                                                         *)
(***************************************************************************)
EXTENDS OrderEngine, TLC

CONSTANTS live, paper, invalid, unrouted

Sym == Permutations(Goroutines)
=============================================================================
