----------------------------- MODULE HttpSessions -----------------------------
(***************************************************************************)
(* http_client and http_server together (mp1/src): clients that ask one    *)
(* server for files at the same time, over streams that are received in    *)
(* pieces and may be reset.                                                *)
(***************************************************************************)
EXTENDS HttpClient

vars == <<streams, serverVars, clientVars>>

Init == StreamsInit /\ ServerInit /\ ClientInit

Next ==
  \/ Server /\ UNCHANGED clientVars
  \/ \E c \in Clients : Client(c) /\ UNCHANGED serverVars
  \/ \E c \in Clients : LoseUnread(c) /\ UNCHANGED <<serverVars, clientVars>>

Spec == Init /\ [][Next]_vars

\* Every process that can run does, and what is sent arrives or is reset.  A
\* client may keep its connection without ever sending the request.
Fairness ==
  /\ WF_vars(Parent /\ UNCHANGED <<url, line, clientVars>>)
  /\ WF_vars(Handler /\ UNCHANGED <<url, line, clientVars>>)
  /\ \A c \in Clients :
       /\ WF_vars(Child(c) /\ UNCHANGED clientVars)
       /\ WF_vars(Client(c) /\ cpc[c] # "send" /\ UNCHANGED serverVars)

FairSpec == Spec /\ Fairness

------------------------------------------------------------------------------
\* Every variable keeps its type, and no connection is held open by a process that
\* has no business with it.
TypeOK ==
  /\ ParentTypeOK
  /\ child \in [Clients -> ChildStates]
  /\ line \in [Clients -> Nat]
  /\ cpc \in [Clients -> {"connect", "send", "header", "body", "done", "failed"}]

------------------------------------------------------------------------------
\* Safety.

\* What the child found for the request, as fgets() and strlen() see it.
Found(c) == PathOf(url[c]) \in DOMAIN Files
Text(c) ==
  IF Found(c)
  THEN FlattenSeq([i \in DOMAIN Files[PathOf(url[c])] |->
                     CString(Files[PathOf(url[c])][i])])
  ELSE <<>>

\* What the user means by the argument: all that follows the host.
Meant(c) == From(Tail(argument[c]), Strcspn(Tail(argument[c]), Slashed))

\* However the streams are cut, a client's output is the beginning of one file, from
\* which at most one stretch is missing, shorter than the header (what the NUL in
\* front of it hid), and never has a part of the header; the file is the one asked
\* for, or one whose path begins the path asked for (when the request was cut).
OutputInOrder ==
  \A c \in Clients :
    output[c] # <<>> =>
      /\ IsPrefix(PathOf(url[c]), Meant(c))
      /\ \E n \in DOMAIN Text(c) : \E size \in 0 .. Len(Reply("200")) - 1 :
           \E gap \in 1 .. n - size + 1 :
             output[c] = SubSeq(Text(c), 1, gap - 1) \o SubSeq(Text(c), gap + size, n)

\* When the child read the whole request and the header came in one piece, the
\* client's output has everything the child found in the end, under the path of
\* the argument: no write is lost by the close(), the abort in free() or the
\* children of other connections.
OutputComplete ==
  \A c \in Clients :
    /\ cpc[c] \in {"done", "failed"}
    /\ url[c] # <<>> /\ toServer[c] = <<>>
    /\ ~Contains(buf[c], NUL)
    => /\ cpc[c] = "done"
       /\ PathOf(url[c]) = Meant(c)
       /\ output[c] = Text(c)

------------------------------------------------------------------------------
\* Liveness.

\* A client that has sent its request comes to its end, whatever the other
\* clients do or leave undone.
ClientsServed ==
  \A c \in Clients : cpc[c] = "header" ~> cpc[c] \in {"done", "failed"}

==============================================================================
