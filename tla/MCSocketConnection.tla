------------------------- MODULE MCSocketConnection -------------------------
(***************************************************************************)
(* Small instances of SocketConnection for TLC.                            *)
(***************************************************************************)
EXTENDS SocketConnection
=============================================================================
