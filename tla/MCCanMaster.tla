----------------------------- MODULE MCCanMaster -----------------------------
(***************************************************************************)
(* The bus master with two client slots, a receive FIFO of two objects, so   *)
(* that a frame may wait behind another, and one transmit object, which is   *)
(* full after one command.                                                   *)
(***************************************************************************)
EXTENDS CanMaster
=============================================================================
