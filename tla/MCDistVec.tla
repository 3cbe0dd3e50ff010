------------------------------ MODULE MCDistVec ------------------------------
(* DistVec for TLC: the constants are those of FourNodeGraphs. *)
EXTENDS DistVec, FourNodeGraphs

==============================================================================
