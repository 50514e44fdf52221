------------------------------ MODULE MCPccFlow ------------------------------
(***************************************************************************)
(* PccFlow for TLC: the agent halves the rate, keeps it, or doubles it.    *)
(***************************************************************************)
EXTENDS PccFlow

\* The window of a rate, in segments.
MCWindow == [r \in Rates |-> IF r = 4 THEN 3 ELSE r]

\* In twentieths.
MCActions == {-20, 0, 20}

=============================================================================
