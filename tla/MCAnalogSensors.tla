-------------------------- MODULE MCAnalogSensors --------------------------
(***************************************************************************)
(* AnalogSensors with the four channels of the board.                      *)
(***************************************************************************)
EXTENDS AnalogSensors
=============================================================================
