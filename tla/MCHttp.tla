------------------------------- MODULE MCHttp -------------------------------
(* Instances of HttpSessions for TLC. *)
EXTENDS HttpSessions

\* Clients with names for what they ask for: a file of two lines, one of them with
\* a NUL, and no file at all.  Where the path of the first may be cut there is
\* another file.  Each may also be given an argument that does not lead to the
\* server: no URL, and a path with a colon.
TwoClients == {"reader", "lost"}
SomeArguments ==
  [reader |-> {<<"http://", "localhost", ":", "80", "/a", "b">>,
               <<"localhost", "/a", "b">>},
   lost |-> {<<"https://", "localhost">>,
             <<"http://", "localhost", "/c", ":", "80">>}]
TwoSchemes == {"http://", "https://"}
Directories == {"/a", "/c"}
TwoFiles ==
  [p \in {<<"/a", "b">>, <<"/a">>} |->
     IF p = <<"/a">> THEN << <<"x">> >>
     ELSE << <<"l1", "l2">>, <<"l3", NUL, "l4">> >>]

\* A header of three pieces, and of two for the replies without a body: up to two
\* pieces of the file may be lost, and one behind them written.
ShortStatusLine ==
  [status \in {"200", "400", "404"} |-> IF status = "200" THEN <<status>> ELSE <<>>]
ShortHeaderEnd == <<"\r", "\n">>
ShortRest == <<Blank>>

=============================================================================
