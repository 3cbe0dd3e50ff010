------------------------------ MODULE RouteTable ------------------------------
(***************************************************************************)
(* What construct_fte(src) promises, whichever algorithm computes it: one  *)
(* table, with an entry for every node that can be reached and for no      *)
(* other, each with the cost of a shortest route and the first hop of one. *)
(***************************************************************************)
EXTENDS Graph

CONSTANT Vertices      \* the nodes of the graph

VARIABLES
  adj_list, src,
  result          \* the table returned; empty until then

vars == <<adj_list, src, result>>

Init ==
  /\ IsGraph(adj_list, Vertices)
  /\ src \in Vertices
  /\ result = <<>>

Deliver ==
  /\ result = <<>>
  /\ result' # <<>>
  /\ IsRouteTable(adj_list, src, result')
  /\ UNCHANGED <<adj_list, src>>

Spec == Init /\ [][Deliver]_vars

==============================================================================
