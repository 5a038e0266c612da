---------------------------- MODULE MCConsumption ----------------------------
(***************************************************************************)
(* Small instances of Consumption for TLC.                                 *)
(***************************************************************************)
EXTENDS Consumption, TLC

Partitions == Permutations(Partition)
=============================================================================
