----------------------------- MODULE MCForwarding -----------------------------
(* A square with a tail, where shortest routes tie, a line, and the empty file; *)
(* changes that shorten, break and restore links, add a node, or break one that *)
(* is not there, a blank line and one of one number; messages between all kinds *)
(* of nodes.                                                                    *)
EXTENDS Forwarding

FiveIds == 1 .. 5

Square == <<<<1, 2, 1>>, <<2, 3, 1>>, <<3, 4, 1>>, <<4, 1, 1>>>>
LineOfThree == <<<<1, 2, 2>>, <<2, 3, 3>>>>
SomeTopologies == {Square, LineOfThree, Square \o <<<<2, 4, 3>>>>, <<>>}

ChangeLines == {<<1, 3, 1>>, <<2, 3, -999>>, <<1, 4, -999>>, <<2, 3, 1>>,
                <<3, 5, 2>>, <<1, 2, 4>>}
SecondLines == {<<2, 3, 1>>, <<1, 2, 4>>, <<1, 4, -999>>, <<1>>, <<>>}
SomeChanges ==
  {<<>>} \cup {<<a>> : a \in ChangeLines}
    \cup {<<a, b>> : a \in ChangeLines, b \in SecondLines}
    \cup {<< <<1, 3, 1>>, <<2, 3, -999>>, <<1>> >>}

\* Lines with a text behind the numbers, one without a blank, and those on which the
\* program ends: a blank line, and a destination that is missing or no number.
Text == <<>>
Msg(s, d) == << <<s>>, <<d>>, Text >>
SomeMessages == {<<>>, <<Msg(1, 3), Msg(4, 2)>>, <<Msg(3, 1), Msg(2, 2)>>,
                 <<Msg(5, 1)>>, <<Msg(1, 5), Msg(5, 5)>>,
                 <<Msg(1, 2), << <<3>> >>>>,
                 <<Msg(1, 3), <<Text>>>>, << << <<2>>, Text >> >>}

==============================================================================
