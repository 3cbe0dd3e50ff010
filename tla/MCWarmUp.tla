------------------------------- MODULE MCWarmUp -------------------------------
(* Instances of WarmUp for TLC: no file, an empty one, one with a NUL, one that *)
(* recv() can return whole with its length, and one that it cannot.             *)
EXTENDS WarmUp

AnyPieces == STRING
Digits(n) == ToString(n)

TwoClients == {"one", "two"}
SomeFiles == {NoFile, <<>>, <<"a", NUL, "b">>, <<"a">>, <<"a", "b">>}

==============================================================================
