---------------------------- MODULE MCOrderSync ----------------------------
(***************************************************************************)
(* Instances of OrderSync for TLC: a manual close, and an order whose      *)
(* exchange the worker does not know.                                      *)
(***************************************************************************)
EXTENDS OrderSync

CONSTANTS closing, stuck
=============================================================================
