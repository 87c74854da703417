----------------------------- MODULE MCNodeLoop -----------------------------
(***************************************************************************)
(* NodeLoop with two channels and short counts: every counter runs to its  *)
(* end, and the FIFO has the controller's three places.                    *)
(***************************************************************************)
EXTENDS NodeLoop
=============================================================================
