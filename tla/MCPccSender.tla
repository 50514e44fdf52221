----------------------------- MODULE MCPccSender -----------------------------
(***************************************************************************)
(* PccSender for TLC: a rate is named by the window, in segments, that     *)
(* UpdatePacingRate derives from it.                                       *)
(***************************************************************************)
EXTENDS PccSender

MCWindow == [r \in Rates |-> r]

=============================================================================
