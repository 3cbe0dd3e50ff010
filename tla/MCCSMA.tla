-------------------------------- MODULE MCCSMA --------------------------------
(* Instances of CSMA for TLC: few nodes and slots, and backoff vectors that    *)
(* grow, shrink, hold a zero, or have one element.                             *)
EXTENDS CSMA

FewNodes == 0 .. 3
AllSizes == 0 .. 3
BackoffVectors == {<<1>>, <<3>>, <<1, 2>>, <<2, 4>>, <<4, 3>>, <<2, 3, 5>>,
                   <<0, 2>>, <<2, 0>>}
Durations == {0, 1, 14}

==============================================================================
