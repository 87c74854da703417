---------------------------- MODULE MCNodeConfig ----------------------------
(***************************************************************************)
(* NodeConfig with two channels and a label of one byte: enough for the    *)
(* data of the second channel to move when the first one's function        *)
(* changes.                                                                *)
(***************************************************************************)
EXTENDS NodeConfig
=============================================================================
