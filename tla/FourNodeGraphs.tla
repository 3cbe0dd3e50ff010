---------------------------- MODULE FourNodeGraphs ----------------------------
(* All graphs of four nodes whose links are absent or cost 1 or 2: routes of up *)
(* to three links, ties, detours cheaper than a direct link, and nodes that are *)
(* cut off.                                                                     *)
EXTENDS Naturals

FourNodes == 1 .. 4
NodePairs == {<<1, 2>>, <<1, 3>>, <<1, 4>>, <<2, 3>>, <<2, 4>>, <<3, 4>>}

\* The graph of a choice of link costs, 0 standing for no link.
GraphOf(cost) ==
  LET Cost(u, v) == IF <<u, v>> \in NodePairs THEN cost[<<u, v>>]
                    ELSE IF <<v, u>> \in NodePairs THEN cost[<<v, u>>] ELSE 0
  IN  [u \in FourNodes |->
         [v \in {x \in FourNodes : Cost(u, x) > 0} |-> Cost(u, v)]]

SmallGraphs == {GraphOf(cost) : cost \in [NodePairs -> 0 .. 2]}

==============================================================================
