-------------------------- MODULE MCSwitchChannel --------------------------
(***************************************************************************)
(* SwitchChannel with words of two bits, small enough for TLC to run every *)
(* delay to its end and to try every write at every moment of it.          *)
(***************************************************************************)
EXTENDS SwitchChannel
=============================================================================
