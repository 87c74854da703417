---------------------------- MODULE MCWebSensor ----------------------------
(***************************************************************************)
(* A small instance of WebSensor for TLC.                                  *)
(***************************************************************************)
EXTENDS WebSensor
=============================================================================
