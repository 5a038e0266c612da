--------------------------- MODULE MCEquipmentCache ---------------------------
(***************************************************************************)
(* A small instance of EquipmentCache for TLC.                             *)
(***************************************************************************)
EXTENDS EquipmentCache, TLC
=============================================================================
