-------------------------- MODULE MCButtonChannel --------------------------
(***************************************************************************)
(* ButtonChannel is finite as it is.                                       *)
(***************************************************************************)
EXTENDS ButtonChannel
=============================================================================
