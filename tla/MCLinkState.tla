----------------------------- MODULE MCLinkState -----------------------------
(* LinkState for TLC: the constants are those of FourNodeGraphs. *)
EXTENDS LinkState, FourNodeGraphs

==============================================================================
