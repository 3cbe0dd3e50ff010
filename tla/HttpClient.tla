------------------------------ MODULE HttpClient ------------------------------
(***************************************************************************)
(* http_client (mp1/src/http_client.c): it takes its argument apart, sends *)
(* one request, looks for the end of the header in what it receives and    *)
(* writes the rest to the file "output".  Every client runs in a directory *)
(* of its own.                                                             *)
(***************************************************************************)
EXTENDS HttpServer

CONSTANTS
  Arguments,    \* the arguments each client may be given, sequences of pieces
  Schemes,      \* the pieces "http://" and "https://"
  Slashed,      \* the pieces that begin with a '/'
  ServerHost,   \* the host and the port of http_server
  ServerPort,
  RestOfRequest \* what the client sends behind the path: a blank, the version, ...

\* The arguments have no blanks and no query (a '?' ends the path as well), and no
\* host begins with a '/'.
ASSUME ArgumentsAssumption ==
  /\ \A c \in Clients : Arguments[c] \subseteq Seq(STRING \ {Blank}) \ {<<>>}
  /\ ServerHost \notin Slashed
  /\ RestOfRequest \in Seq(STRING) /\ RestOfRequest # <<>> /\ RestOfRequest[1] = Blank

VARIABLES
  argument, \* argv[1]
  cpc,      \* "connect", "send", "header" and "body": the loops, "done", "failed"
  buf,      \* buf as the loop over the header leaves it, up to totalBytes
  output    \* what was written to the file

clientVars == <<argument, cpc, buf, output>>

ClientInit ==
  /\ argument \in [Clients -> UNION {Arguments[c] : c \in Clients}]
  /\ \A c \in Clients : argument[c] \in Arguments[c]
  /\ cpc = [c \in Clients |-> "connect"]
  /\ buf = [c \in Clients |-> <<>>]
  /\ output = [c \in Clients |-> <<>>]

------------------------------------------------------------------------------
\* parse_hostname().

\* strcspn(): how many pieces of the text precede the first one of a set.
Strcspn(text, set) ==
  LET first == SelectInSeq(text, LAMBDA t : t \in set)
  IN  IF first = 0 THEN Len(text) ELSE first - 1
From(text, n) == SubSeq(text, n + 1, Len(text))

IsUrl(arg) == Head(arg) \in Schemes

\* The colon is looked for in all that follows the scheme, the path included.
ToColon(arg) == Strcspn(Tail(arg), {":"})
HasPort(arg) == ToColon(arg) # Len(Tail(arg))

ToPath(arg) ==
  IF HasPort(arg) THEN ToColon(arg) + Strcspn(From(Tail(arg), ToColon(arg)), Slashed)
  ELSE Strcspn(Tail(arg), Slashed)

Hostname(arg) ==
  SubSeq(Tail(arg), 1, IF HasPort(arg) THEN ToColon(arg) ELSE ToPath(arg))
Port(arg) ==
  IF HasPort(arg) THEN SubSeq(Tail(arg), ToColon(arg) + 2, ToPath(arg)) ELSE <<"80">>
Path(arg) == From(Tail(arg), ToPath(arg))

------------------------------------------------------------------------------
Goes(c, from, to) == cpc[c] = from /\ cpc' = [cpc EXCEPT ![c] = to]
Fputs(c, s) == output' = [output EXCEPT ![c] = @ \o CString(s)]

NamesServer(arg) ==
  IsUrl(arg) /\ Hostname(arg) = <<ServerHost>> /\ Port(arg) = <<ServerPort>>

Connect(c) ==
  /\ Goes(c, "connect", "send")
  /\ NamesServer(argument[c]) /\ Listening
  /\ Handshake(c)
  /\ UNCHANGED <<argument, buf, output>>

\* The argument is no URL, the look-up fails, or nobody listens there.  The byte
\* behind a port is read uninitialised: with another character than the NUL after
\* it, the port is none, or another one.
ConnectFails(c) ==
  /\ Goes(c, "connect", "failed")
  /\ \/ ~NamesServer(argument[c])
     \/ HasPort(argument[c])
     \/ ~Listening
  /\ UNCHANGED <<streams, argument, buf, output>>

Request(c) == Method \o Path(argument[c]) \o RestOfRequest

\* One send(), whose result is not looked at; then fopen() of the output.
SendRequest(c) ==
  /\ Goes(c, "send", "header")
  /\ ClientSends(c, Request(c))
  /\ UNCHANGED <<argument, buf, output>>

\* recv() stores data behind the totalBytes received so far, but the NUL goes to
\* buf[numbytes]: after the first time, in front of as many bytes as were received
\* before.
Stored(b, data) ==
  LET all == b \o data
  IN  [i \in 1 .. Len(all) |-> IF i = Len(data) + 1 THEN NUL ELSE all[i]]

\* strstr(): where the end of the header begins in a text.
HeaderEndsAt(text) == {i \in 1 .. Len(text) : IsPrefix(HeaderEnd, From(text, i - 1))}
HasHeader(b) == HeaderEndsAt(CString(b)) # {}

\* Mutant of BodyStart: the bytes of the header's end are not skipped.
BodyStartEarly(b) == From(CString(b), Min(HeaderEndsAt(CString(b))) - 1)

\* What follows the first end of the header.
BodyStart(b) ==
  From(CString(b), Min(HeaderEndsAt(CString(b))) - 1 + Len(HeaderEnd))

ReceiveHeader(c) ==
  /\ cpc[c] = "header"
  /\ \E data \in FirstPart(toClient[c], Len(toClient[c])) :
       LET b == Stored(buf[c], data) IN
       /\ ClientTakes(c, data)
       /\ buf' = [buf EXCEPT ![c] = b]
       /\ UNCHANGED argument
       /\ IF HasHeader(b)
          THEN Goes(c, "header", "body") /\ Fputs(c, BodyStart(b))
          ELSE UNCHANGED <<cpc, output>>

\* recv() returns 0 or -1 before the header's end: the loop over the body still
\* runs, so that a reset is only noticed when it strikes there.
HeaderEnds(c) ==
  /\ Goes(c, "header", "body")
  /\ ClientTakesEnd(c) \/ ClientTakesReset(c)
  /\ UNCHANGED <<argument, buf, output>>

ReceiveBody(c) ==
  /\ cpc[c] = "body"
  /\ \E data \in FirstPart(toClient[c], Len(toClient[c])) :
       ClientTakes(c, data) /\ Fputs(c, data)
  /\ UNCHANGED <<argument, cpc, buf>>

\* fclose() or exit(1), which both write the file out.
BodyEnds(c) ==
  /\ \/ Goes(c, "body", "done") /\ ClientTakesEnd(c)
     \/ Goes(c, "body", "failed") /\ ClientTakesReset(c)
  /\ UNCHANGED <<argument, buf, output>>

Client(c) ==
  \/ Connect(c) \/ ConnectFails(c) \/ SendRequest(c) \/ ReceiveHeader(c)
  \/ HeaderEnds(c) \/ ReceiveBody(c) \/ BodyEnds(c)

==============================================================================
