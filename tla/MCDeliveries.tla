---------------------------- MODULE MCDeliveries ----------------------------
(***************************************************************************)
(* Small instances of Deliveries for TLC.                                  *)
(***************************************************************************)
EXTENDS Deliveries
=============================================================================
