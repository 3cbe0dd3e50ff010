------------------------------ MODULE TcpStreams ------------------------------
(***************************************************************************)
(* The TCP connections between the clients and the server of mp0 and of    *)
(* mp1, as the kernel provides them: two streams per connection, the queue *)
(* of listen(), and the descriptors that keep a connection open.  Each     *)
(* client makes one connection, named by the client.                       *)
(*                                                                         *)
(* A stream keeps the order of what is sent and not its borders: a receive *)
(* takes any part from its front.  What is sent is a sequence of tokens,   *)
(* the pieces a receive may cut the text into.                             *)
(***************************************************************************)
EXTENDS Naturals, SequencesExt

CONSTANTS
  Clients,   \* the clients, and their connections
  BACKLOG    \* how many connections may wait for accept()

\* A client is none of the server's processes, which hold connections by name.
ASSUME ClientsAssumption == {"listener", "parent"} \cap Clients = {}

VARIABLES
  backlog,    \* the connections that wait for accept(), first come first
  holders,    \* for each connection, who has the server's end of it open
  toServer,   \* for each connection, what the server has not read yet
  toClient,   \* for each connection, what the client has not received yet
  reset       \* connections whose client has a reset to be told of

streams == <<backlog, holders, toServer, toClient, reset>>

StreamsInit ==
  /\ backlog = <<>>
  /\ holders = [c \in Clients |-> {}]
  /\ toServer = [c \in Clients |-> <<>>]
  /\ toClient = [c \in Clients |-> <<>>]
  /\ reset = {}

NUL == "NUL"

\* What precedes the first t in a text, or all of it.
Before(s, t) ==
  LET end == SelectInSeq(s, LAMBDA x : x = t)
  IN  IF end = 0 THEN s ELSE SubSeq(s, 1, end - 1)

\* A C string ends at its first NUL.
CString(s) == Before(s, NUL)

\* What a receive of at most n tokens may take from the front of a stream.
FirstPart(s, n) == {SubSeq(s, 1, k) : k \in {j \in 1 .. Len(s) : j <= n}}
Without(s, part) == SubSeq(s, Len(part) + 1, Len(s))

\* No process has the server's end of the connection c any more.
ServerClosed(c) == holders[c] = {}

\* The handshake ends once the connection is in the queue of the listener.
Handshake(c) ==
  /\ Len(backlog) < BACKLOG
  /\ backlog' = Append(backlog, c)
  /\ holders' = [holders EXCEPT ![c] = {"listener"}]
  /\ UNCHANGED <<toServer, toClient, reset>>

\* Data for an end that nobody holds is answered with a reset.
ClientSends(c, data) ==
  /\ IF ServerClosed(c)
     THEN reset' = reset \cup {c} /\ UNCHANGED toServer
     ELSE toServer' = [toServer EXCEPT ![c] = @ \o data] /\ UNCHANGED reset
  /\ UNCHANGED <<backlog, holders, toClient>>

ClientTakes(c, data) ==
  /\ data \in FirstPart(toClient[c], Len(toClient[c]))
  /\ toClient' = [toClient EXCEPT ![c] = Without(@, data)]
  /\ UNCHANGED <<backlog, holders, toServer, reset>>

\* recv() returns -1 for a reset, once, after what was received before it.
ClientTakesReset(c) ==
  /\ toClient[c] = <<>>
  /\ c \in reset
  /\ reset' = reset \ {c}
  /\ UNCHANGED <<backlog, holders, toServer, toClient>>

\* recv() returns 0 once the server's end is closed and all data was taken.  A reset
\* for data left unread replaces the end; one for data sent later comes behind it.
ClientTakesEnd(c) ==
  /\ toClient[c] = <<>>
  /\ c \in reset => toServer[c] = <<>>
  /\ ServerClosed(c)
  /\ UNCHANGED streams

\* What was not delivered before a reset is lost with it.
LoseUnread(c) ==
  /\ c \in reset
  /\ toClient[c] # <<>>
  /\ toClient' = [toClient EXCEPT ![c] = <<>>]
  /\ UNCHANGED <<backlog, holders, toServer, reset>>

ServerTakes(c, n, data) ==
  /\ data \in FirstPart(toServer[c], n)
  /\ toServer' = [toServer EXCEPT ![c] = Without(@, data)]

ServerWrites(c, data) == toClient' = [toClient EXCEPT ![c] = @ \o data]

\* The process p closes its descriptors of the connections cs.  With the last
\* descriptor the connection ends: by a reset when the server left data unread.
Close(p, cs) ==
  /\ holders' = [c \in Clients |-> IF c \in cs THEN holders[c] \ {p}
                                               ELSE holders[c]]
  /\ reset' = reset \cup {c \in cs : holders[c] = {p} /\ toServer[c] # <<>>}
  /\ UNCHANGED <<backlog, toServer, toClient>>

==============================================================================
