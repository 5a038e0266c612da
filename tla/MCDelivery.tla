----------------------------- MODULE MCDelivery -----------------------------
(***************************************************************************)
(* Small instances of Delivery for TLC.                                    *)
(***************************************************************************)
EXTENDS DeliveryRefinement, SqliteQueue

OneDevice == {1}
TwoDevices == {1, 2}

(* The queue that the worker's tests run on stands in for the one that is   *)
(* deployed: on every table that is reached the statements agree.           *)
SqliteStandsIn == Agrees(queue)
=============================================================================
