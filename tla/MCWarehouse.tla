---------------------------- MODULE MCWarehouse ----------------------------
(* Warehouse on small instances.                                           *)
EXTENDS Warehouse, TLC

MCSymmetry == Permutations(Trades)
=============================================================================
