---------------------------- MODULE MCCSMAProgram ----------------------------
(* Input files: the five lines in every order, with a count of backoffs that   *)
(* is right or wrong and a backoff of 0; and all files of at most three lines, *)
(* among them lines that are blank, have no number, a negative one or another  *)
(* letter.                                                                     *)
EXTENDS CSMAProgram

LineOf(letter, numbers) == [c |-> letter, toks |-> numbers]

FullFiles ==
  {[k \in 1 .. 5 |-> f[order[k]]] :
     order \in Permutations(1 .. 5),
     f \in {<<LineOf("N", <<2>>), LineOf("L", <<2>>), LineOf("T", <<5>>), m, r>> :
              m \in {LineOf("M", <<1>>), LineOf("M", <<2>>)},
              r \in {LineOf("R", <<2>>), LineOf("R", <<1, 2>>), LineOf("R", <<3, 0>>)}}}

SomeLines ==
  {LineOf("", <<>>), LineOf("N", <<2>>), LineOf("L", <<1>>), LineOf("L", <<-1>>),
   LineOf("M", <<1>>), LineOf("M", <<2>>), LineOf("R", <<3>>), LineOf("R", <<1, 0>>),
   LineOf("R", <<>>), LineOf("T", <<0>>), LineOf("T", <<3>>), LineOf("#", <<1>>)}

InputFiles == FullFiles \cup UNION {[1 .. n -> SomeLines] : n \in 0 .. 3}

SomeGarbage == {-1, 2}

==============================================================================
