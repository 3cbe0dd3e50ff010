---------------------------- MODULE Servers_proofs ----------------------------
(***************************************************************************)
(* Proofs about the servers and clients of mp1 (HttpSessions) and of mp0   *)
(* (WarmUp), for any clients, arguments, files, length of the listener's   *)
(* queue and size of recv(): who holds the connections, that no child that *)
(* ended is forgotten by the SIGCHLD handler, and that what a client writes*)
(* is what the server's child found, in its order, but for one stretch that*)
(* the handling of the header (mp1) or a NUL (mp0) costs.                  *)
(***************************************************************************)
EXTENDS HttpSessions, WarmUp, SequenceTheorems, NaturalLemmas

------------------------------------------------------------------------------
\* The steps of the parent, of its handler and of a child that ends, which both
\* servers take, and those of the streams.

LEMMA InitParentTypes ==
  ASSUME StreamsInit, ParentInit
  PROVE  ParentTypeOK /\ ZombiesSignalled
<1>1. /\ backlog \in Seq(Clients)
      /\ holders = [c \in Clients |-> {}]
      /\ reset \subseteq Clients
  BY DEF StreamsInit
<1>2. ppc = "start" /\ newFd \in Clients /\ sigchld = FALSE /\ handling = FALSE
  BY DEF ParentInit
<1>3. ZombiesSignalled
  BY DEF ParentInit, ZombiesSignalled
<1> QED BY <1>1, <1>2, <1>3 DEF ParentTypeOK

\* Closing only takes holders away.
LEMMA CloseKeepsTypes ==
  ASSUME NEW p, NEW cs \in SUBSET Clients, Close(p, cs),
         ParentTypeOK
  PROVE  /\ holders' \in [Clients -> SUBSET ({"listener", "parent"} \cup Clients)]
         /\ \A c \in Clients : holders'[c] \subseteq holders[c]
         /\ reset' \subseteq Clients
         /\ backlog' = backlog
BY DEF Close, ParentTypeOK

\* The parent takes a connection only in accept(), where it holds no other, and
\* gives a child only the one it accepted last.
LEMMA ParentKeepsTypes ==
  ASSUME ParentTypeOK, Parent
  PROVE  ParentTypeOK'
<1> USE DEF ParentTypeOK
<1>0. CASE Listen
  BY <1>0 DEF Listen, streams
<1>1. CASE Accept
  <2>1. Head(backlog) \in Clients /\ Tail(backlog) \in Seq(Clients)
    BY <1>1 DEF Accept
  <2>2. \A c \in Clients : "parent" \notin holders[c]
    BY <1>1 DEF Accept
  <2> QED BY <1>1, <2>1, <2>2 DEF Accept
<1>2. CASE Fork
  <2>1. \A c \in Clients : "parent" \in holders[c] => c = newFd
    OBVIOUS
  <2>3. \A c \in Clients : holders'[c] =
          IF "parent" \in holders[c] THEN holders[c] \cup {newFd} ELSE holders[c]
    BY <1>2 DEF Fork
  <2>4. holders' \in [Clients -> SUBSET ({"listener", "parent"} \cup Clients)]
    BY <1>2 DEF Fork
  <2>5. ASSUME NEW c \in Clients
        PROVE  /\ holders'[c] \subseteq {"listener", "parent", c}
               /\ "parent" \in holders'[c] => c = newFd
    <3>1. holders[c] \subseteq {"listener", "parent", c}
      OBVIOUS
    <3>2. CASE "parent" \in holders[c]
      <4>1. c = newFd
        BY <2>1, <3>2
      <4>2. holders'[c] = holders[c] \cup {c}
        BY <2>3, <3>2, <4>1
      <4> QED BY <3>1, <4>1, <4>2
    <3>3. CASE "parent" \notin holders[c]
      BY <2>3, <3>1, <3>3
    <3> QED BY <3>2, <3>3
  <2> QED BY <1>2, <2>4, <2>5 DEF Fork
<1>3. CASE ForkFails
  BY <1>3 DEF ForkFails, streams
<1>4. CASE CloseNewFd
  <2>1. Close("parent", {newFd}) /\ newFd \in Clients
    BY <1>4 DEF CloseNewFd, ClosedByParent
  <2>2. \A c \in Clients : "parent" \notin holders'[c]
    BY <1>4, <2>1 DEF Close
  <2>3. /\ holders' \in [Clients -> SUBSET ({"listener", "parent"} \cup Clients)]
        /\ \A c \in Clients : holders'[c] \subseteq holders[c]
        /\ reset' \subseteq Clients
        /\ backlog' = backlog
    BY <2>1, CloseKeepsTypes
  <2> QED BY <1>4, <2>2, <2>3 DEF CloseNewFd
<1> QED BY <1>0, <1>1, <1>2, <1>3, <1>4 DEF Parent

LEMMA HandlerKeepsTypes ==
  ASSUME ParentTypeOK, Handler
  PROVE  ParentTypeOK'
BY DEF ParentTypeOK, Handler, HandlerStarts, HandlerReturns, Reap, streams

LEMMA ExitKeepsTypes ==
  ASSUME ParentTypeOK, NEW c \in Clients, Exit(c)
  PROVE  ParentTypeOK'
<1>1. Close(c, Clients)
  BY DEF Exit
<1> QED BY <1>1, CloseKeepsTypes DEF Exit, ParentTypeOK

LEMMA HandshakeKeepsTypes ==
  ASSUME ParentTypeOK, NEW c \in Clients, Handshake(c), UNCHANGED parentVars
  PROVE  ParentTypeOK'
<1>1. backlog' \in Seq(Clients)
  BY DEF Handshake, ParentTypeOK
<1>2. holders' = [holders EXCEPT ![c] = {"listener"}]
  BY DEF Handshake
<1> QED BY <1>1, <1>2 DEF Handshake, ParentTypeOK, parentVars

\* A step of a client or of a child that only receives or sends.
LEMMA TrafficKeepsTypes ==
  ASSUME ParentTypeOK,
         UNCHANGED <<backlog, holders, ppc, newFd, sigchld, handling>>,
         reset' \subseteq Clients
  PROVE  ParentTypeOK'
BY DEF ParentTypeOK

------------------------------------------------------------------------------
\* Neither the parent nor the handler loses the signal of a child that ended.
LEMMA ParentKeepsSignals ==
  ASSUME ZombiesSignalled, Parent \/ Handler,
         \E S : child \in [Clients -> S]
  PROVE  ZombiesSignalled'
<1> USE DEF ZombiesSignalled
<1>1. CASE Listen \/ Accept \/ ForkFails \/ CloseNewFd
  BY <1>1 DEF Listen, Accept, ForkFails, CloseNewFd
<1>2. CASE Fork
  BY <1>2 DEF Fork
<1>3. CASE HandlerStarts
  BY <1>3 DEF HandlerStarts
<1>4. CASE HandlerReturns
  BY <1>4 DEF HandlerReturns, NoneLeft
<1>5. CASE \E c \in Clients : Reap(c)
  BY <1>5 DEF Reap
<1> QED BY <1>1, <1>2, <1>3, <1>4, <1>5 DEF Parent, Handler

LEMMA ExitSignals ==
  ASSUME NEW c \in Clients, Exit(c)
  PROVE  ZombiesSignalled'
BY DEF Exit, ZombiesSignalled

\* A child that goes on does not end.
LEMMA OthersKeepSignals ==
  ASSUME ZombiesSignalled, UNCHANGED <<sigchld, handling>>,
         NEW c, NEW to, to # "zombie",
         child' = child \/ child' = [child EXCEPT ![c] = to],
         \E S : child \in [Clients -> S]
  PROVE  ZombiesSignalled'
BY DEF ZombiesSignalled

------------------------------------------------------------------------------
\* Each connection is in one place.
LEMMA InitOnePlace ==
  ASSUME StreamsInit, ParentInit
  PROVE  OnePlace
BY DEF StreamsInit, ParentInit, OnePlace, Waiting, Working

LEMMA ParentKeepsPlace ==
  ASSUME ParentTypeOK, OnePlace, Parent, \E S : child \in [Clients -> S]
  PROVE  OnePlace'
<1>1. CASE Listen \/ ForkFails
  BY <1>1 DEF Listen, ForkFails, OnePlace, Waiting, Working, streams
<1>2. CASE Accept
  <2> DEFINE d == Head(backlog)
  <2>1. /\ backlog \in Seq(Clients) /\ backlog # <<>>
        /\ newFd' = d /\ d \in Clients /\ d = backlog[1]
        /\ backlog' = Tail(backlog)
        /\ holders' = [holders EXCEPT ![d] = {"parent"}]
        /\ UNCHANGED child
    BY <1>2 DEF Accept, ParentTypeOK
  <2>2. /\ Len(Tail(backlog)) = Len(backlog) - 1
        /\ \A i \in DOMAIN Tail(backlog) : i + 1 \in DOMAIN backlog /\ Tail(backlog)[i] = backlog[i + 1]
    BY <2>1
  <2>3. \A i, j \in DOMAIN backlog' : i # j => backlog'[i] # backlog'[j]
    BY <2>1, <2>2 DEF OnePlace
  <2>4. ASSUME NEW c \in Clients PROVE Waiting(c)' => Waiting(c) /\ c # d
    BY <2>1, <2>2 DEF OnePlace, Waiting
  <2>5. Waiting(d)
    BY <2>1 DEF Waiting
  <2>6. holders[d] = {"listener"} /\ child[d] = "none"
    BY <2>1, <2>5 DEF OnePlace
  <2>7. holders'[d] = {"parent"} /\ \A c \in Clients \ {d} : holders'[c] = holders[c]
    BY <2>1 DEF ParentTypeOK
  <2>8. ASSUME NEW c \in Clients
        PROVE  /\ Waiting(c)' => holders'[c] = {"listener"}
               /\ "listener" \in holders'[c] => child'[c] = "none"
               /\ Working(c)' => c \in holders'[c]
    BY <2>1, <2>4, <2>6, <2>7 DEF OnePlace, Working
  <2> QED BY <2>1, <2>3, <2>6, <2>7, <2>8 DEF OnePlace
<1>3. CASE Fork
  <2>1. /\ holders[newFd] = {"parent"} /\ newFd \in Clients
        /\ child' = [child EXCEPT ![newFd] = "born"]
        /\ ppc' = "close" /\ UNCHANGED <<backlog, newFd>>
    BY <1>3 DEF Fork, OnePlace, ParentTypeOK
  <2>2. /\ holders'[newFd] = {"parent", newFd}
        /\ \A c \in Clients \ {newFd} : holders'[c] = holders[c]
    BY <1>3, <2>1 DEF Fork, ParentTypeOK
  <2>3. /\ child'[newFd] = "born"
        /\ \A c \in Clients \ {newFd} : child'[c] = child[c]
    BY <2>1
  <2>4. "listener" \notin holders'[newFd] /\ ~Waiting(newFd)
    BY <2>1, <2>2, ClientsAssumption DEF OnePlace
  <2>5. ASSUME NEW c \in Clients
        PROVE  /\ Waiting(c)' => holders'[c] = {"listener"}
               /\ "listener" \in holders'[c] => child'[c] = "none"
               /\ Working(c)' => c \in holders'[c]
    <3>1. Waiting(c)' <=> Waiting(c)
      BY <2>1 DEF Waiting
    <3>2. CASE c = newFd
      BY <2>2, <2>4, <3>1, <3>2
    <3>3. CASE c # newFd
      BY <2>2, <2>3, <3>1, <3>3 DEF OnePlace, Working
    <3> QED BY <3>2, <3>3
  <2> QED BY <2>1, <2>5 DEF OnePlace
<1>4. CASE CloseNewFd
  <2>1. /\ \A c \in Clients : holders'[c] = holders[c] \/ holders'[c] = holders[c] \ {"parent"}
        /\ ppc' = "accept" /\ UNCHANGED <<backlog, child>>
    BY <1>4 DEF CloseNewFd, Close, ClosedByParent, ParentTypeOK
  <2>2. ASSUME NEW c \in Clients
        PROVE  /\ Waiting(c)' => holders'[c] = {"listener"}
               /\ "listener" \in holders'[c] => child'[c] = "none"
               /\ Working(c)' => c \in holders'[c]
    BY <2>1, ClientsAssumption DEF OnePlace, Waiting, Working
  <2> QED BY <2>1, <2>2 DEF OnePlace
<1> QED BY <1>1, <1>2, <1>3, <1>4 DEF Parent

LEMMA HandlerKeepsPlace ==
  ASSUME OnePlace, Handler, \E S : child \in [Clients -> S]
  PROVE  OnePlace'
<1>1. CASE HandlerStarts \/ HandlerReturns
  BY <1>1 DEF HandlerStarts, HandlerReturns, OnePlace, Waiting, Working, streams
<1>2. CASE \E c \in Clients : Reap(c)
  BY <1>2 DEF Reap, OnePlace, Waiting, Working, streams
<1> QED BY <1>1, <1>2 DEF Handler

LEMMA ExitKeepsPlace ==
  ASSUME ParentTypeOK, OnePlace, NEW c \in Clients, Working(c), Exit(c),
         \E S : child \in [Clients -> S]
  PROVE  OnePlace'
<1>1. /\ \A d \in Clients : holders'[d] = holders[d] \ {c}
      /\ child' = [child EXCEPT ![c] = "zombie"]
      /\ UNCHANGED <<backlog, ppc, newFd>>
  BY DEF Exit, Close, ParentTypeOK
<1>2. /\ child'[c] = "zombie" /\ c \in holders[c]
      /\ \A d \in Clients \ {c} : child'[d] = child[d]
  BY <1>1 DEF OnePlace
<1>3. ppc' = "fork" => holders'[newFd'] = {"parent"} /\ child'[newFd'] = "none"
  BY <1>1, <1>2, ClientsAssumption DEF OnePlace, ParentTypeOK
<1>4. ASSUME NEW d \in Clients
      PROVE  /\ Waiting(d)' => holders'[d] = {"listener"}
             /\ "listener" \in holders'[d] => child'[d] = "none"
             /\ Working(d)' => d \in holders'[d]
  <2>1. Waiting(d)' <=> Waiting(d)
    BY <1>1 DEF Waiting
  <2>2. CASE d = c
    BY <1>1, <1>2, <2>1, <2>2, ClientsAssumption DEF OnePlace, Working
  <2>3. CASE d # c
    BY <1>1, <1>2, <2>1, <2>3, ClientsAssumption DEF OnePlace, Working
  <2> QED BY <2>2, <2>3
<1> QED BY <1>1, <1>3, <1>4 DEF OnePlace

\* A client connects that is not known yet.
LEMMA HandshakeKeepsPlace ==
  ASSUME ParentTypeOK, OnePlace, NEW c \in Clients, Handshake(c),
         UNCHANGED parentVars, holders[c] = {}, child[c] = "none"
  PROVE  OnePlace'
<1>1. /\ backlog \in Seq(Clients) /\ backlog' = Append(backlog, c)
      /\ holders' = [holders EXCEPT ![c] = {"listener"}]
      /\ UNCHANGED <<ppc, newFd, child>>
  BY DEF Handshake, ParentTypeOK, parentVars
<1>2. ~Waiting(c)
  BY DEF OnePlace
<1>3. /\ Len(backlog') = Len(backlog) + 1 /\ backlog'[Len(backlog')] = c
      /\ \A i \in DOMAIN backlog : backlog'[i] = backlog[i]
      /\ \A i \in DOMAIN backlog' : i \in DOMAIN backlog \/ i = Len(backlog')
  BY <1>1
<1>4. \A i, j \in DOMAIN backlog' : i # j => backlog'[i] # backlog'[j]
  BY <1>2, <1>3 DEF OnePlace, Waiting
<1>5. \A d \in Clients : Waiting(d)' => d = c \/ Waiting(d)
  BY <1>3 DEF Waiting
<1>6. /\ holders'[c] = {"listener"}
      /\ \A d \in Clients \ {c} : holders'[d] = holders[d]
  BY <1>1 DEF ParentTypeOK
<1>7. ASSUME NEW d \in Clients
      PROVE  /\ Waiting(d)' => holders'[d] = {"listener"}
             /\ "listener" \in holders'[d] => child'[d] = "none"
             /\ Working(d)' => d \in holders'[d]
  BY <1>1, <1>5, <1>6 DEF OnePlace, Working
<1>8. ppc' = "fork" => holders'[newFd'] = {"parent"} /\ child'[newFd'] = "none"
  BY <1>1, <1>6 DEF OnePlace, ParentTypeOK
<1> QED BY <1>4, <1>7, <1>8 DEF OnePlace

\* A child goes on, or nothing moves but data.
LEMMA TrafficKeepsPlace ==
  ASSUME OnePlace, UNCHANGED <<backlog, holders, ppc, newFd>>,
         NEW c \in Clients, NEW to,
         child' = child \/ (child' = [child EXCEPT ![c] = to] /\ Working(c)),
         \E S : child \in [Clients -> S]
  PROVE  OnePlace'
<1>1. CASE child' = child
  BY <1>1 DEF OnePlace, Waiting, Working
<1>2. CASE child' = [child EXCEPT ![c] = to] /\ Working(c)
  BY <1>2 DEF OnePlace, Waiting, Working
<1> QED BY <1>1, <1>2

------------------------------------------------------------------------------
\* http_server and http_client.

LEMMA InitTypeOK == Init => TypeOK /\ ZombiesSignalled
<1> SUFFICES ASSUME Init PROVE TypeOK /\ ZombiesSignalled
  OBVIOUS
<1>1. ParentTypeOK /\ ZombiesSignalled
  BY InitParentTypes DEF Init, ServerInit
<1>2. child \in [Clients -> ChildStates] /\ line \in [Clients -> Nat]
  BY DEF Init, ServerInit, ParentInit, ChildStates
<1>3. cpc \in [Clients -> {"connect", "send", "header", "body", "done", "failed"}]
  BY DEF Init, ClientInit
<1> QED BY <1>1, <1>2, <1>3 DEF TypeOK

LEMMA ServerTypeOK ==
  ASSUME TypeOK, Server, UNCHANGED clientVars
  PROVE  TypeOK'
<1> USE DEF TypeOK, clientVars, ChildStates
<1>1. CASE Parent /\ UNCHANGED <<url, line>>
  <2>1. child' \in [Clients -> ChildStates]
    BY <1>1 DEF Parent, Listen, Accept, Fork, ForkFails, CloseNewFd
  <2> QED BY <1>1, <2>1, ParentKeepsTypes
<1>2. CASE Handler /\ UNCHANGED <<url, line>>
  <2>1. child' \in [Clients -> ChildStates]
    BY <1>2 DEF Handler, HandlerStarts, HandlerReturns, Reap
  <2> QED BY <1>2, <2>1, HandlerKeepsTypes
<1>3. ASSUME NEW c \in Clients, Child(c) PROVE TypeOK'
  <2>1. CASE ReadMethod(c) \/ ReadUrl(c) \/ WriteLine(c)
    <3>1. /\ child' \in [Clients -> ChildStates]
          /\ line' \in [Clients -> Nat]
          /\ UNCHANGED <<backlog, holders, reset, ppc, newFd, sigchld, handling>>
      <4>1. CASE ReadMethod(c)
        BY <2>1, <4>1 DEF ReadMethod, ChildStep
      <4>2. CASE ReadUrl(c)
        BY <2>1, <4>2 DEF ReadUrl, ChildStep
      <4>3. CASE WriteLine(c)
        BY <2>1, <4>3 DEF WriteLine
      <4> QED BY <2>1, <4>1, <4>2, <4>3
    <3>2. reset' \subseteq Clients
      BY <3>1 DEF ParentTypeOK
    <3> QED BY <3>1, <3>2, TrafficKeepsTypes
  <2>2. CASE End(c)
    <3>1. Exit(c) /\ UNCHANGED line
      BY <2>2 DEF End
    <3>2. child' \in [Clients -> ChildStates]
      BY <3>1 DEF Exit
    <3> QED BY <3>1, <3>2, ExitKeepsTypes
  <2> QED BY <1>3, <2>1, <2>2 DEF Child
<1> QED BY <1>1, <1>2, <1>3 DEF Server

LEMMA ClientTypeOK ==
  ASSUME TypeOK, NEW c \in Clients, Client(c), UNCHANGED serverVars
  PROVE  TypeOK'
<1>1. /\ UNCHANGED <<child, line, ppc, newFd, sigchld, handling>>
      /\ cpc' \in [Clients -> {"connect", "send", "header", "body", "done", "failed"}]
  BY DEF TypeOK, serverVars, parentVars, Client, Goes, Connect, ConnectFails,
         SendRequest, ReceiveHeader, HeaderEnds, ReceiveBody, BodyEnds
<1>2. ParentTypeOK'
  <2>1. CASE Connect(c)
    BY <2>1, HandshakeKeepsTypes DEF Connect, TypeOK, serverVars
  <2>2. CASE ~Connect(c)
    <3>1. UNCHANGED <<backlog, holders>> /\ reset' \subseteq Clients
      BY <2>2 DEF TypeOK, ParentTypeOK, Client, ConnectFails, SendRequest,
                  ClientSends, ReceiveHeader, ClientTakes, HeaderEnds, ReceiveBody,
                  BodyEnds, ClientTakesEnd, ClientTakesReset, streams
    <3> QED BY <1>1, <3>1, TrafficKeepsTypes DEF TypeOK
  <2> QED BY <2>1, <2>2
<1> QED BY <1>1, <1>2 DEF TypeOK

LEMMA NextTypeOK == TypeOK /\ [Next]_vars => TypeOK'
<1> SUFFICES ASSUME TypeOK, [Next]_vars PROVE TypeOK'
  OBVIOUS
<1>1. CASE Server /\ UNCHANGED clientVars
  BY <1>1, ServerTypeOK
<1>2. CASE \E c \in Clients : Client(c) /\ UNCHANGED serverVars
  BY <1>2, ClientTypeOK
<1>3. CASE \/ \E c \in Clients : LoseUnread(c) /\ UNCHANGED <<serverVars, clientVars>>
           \/ UNCHANGED vars
  <2>1. /\ UNCHANGED <<backlog, holders, reset, child, line, cpc>>
        /\ UNCHANGED <<ppc, newFd, sigchld, handling>>
    BY <1>3 DEF LoseUnread, vars, streams, serverVars, parentVars, clientVars
  <2>2. ParentTypeOK'
    BY <2>1, TrafficKeepsTypes DEF TypeOK, ParentTypeOK
  <2> QED BY <2>1, <2>2 DEF TypeOK
<1> QED BY <1>1, <1>2, <1>3 DEF Next

\* Every variable keeps its type; the server's end of a connection is held by
\* the queue of the listener, by the parent from accept() to its close(), and by
\* its own child: no process keeps the connection of another client open.
THEOREM TypeCorrect == Spec => []TypeOK
BY InitTypeOK, NextTypeOK, PTL DEF Spec

------------------------------------------------------------------------------

\* Only a child that ends becomes a zombie, and its end raises SIGCHLD; the
\* handler returns when there is none.
LEMMA NextZombiesSignalled ==
  ASSUME TypeOK, ZombiesSignalled, [Next]_vars
  PROVE  ZombiesSignalled'
<1>0. \E S : child \in [Clients -> S]
  BY DEF TypeOK
<1>1. CASE Parent \/ Handler
  BY <1>0, <1>1, ParentKeepsSignals
<1>2. ASSUME NEW c \in Clients, Child(c) PROVE ZombiesSignalled'
  <2>1. CASE End(c)
    BY <2>1, ExitSignals DEF End
  <2>2. CASE ReadMethod(c)
    BY <1>0, <2>2, OthersKeepSignals DEF ReadMethod, ChildStep
  <2>3. CASE ReadUrl(c)
    BY <1>0, <2>3, OthersKeepSignals DEF ReadUrl, ChildStep
  <2>4. CASE WriteLine(c)
    BY <2>4 DEF WriteLine, ZombiesSignalled
  <2> QED BY <1>2, <2>1, <2>2, <2>3, <2>4 DEF Child
<1>3. CASE \/ \E c \in Clients : Client(c) /\ UNCHANGED serverVars
           \/ \E c \in Clients : LoseUnread(c) /\ UNCHANGED <<serverVars, clientVars>>
           \/ UNCHANGED vars
  BY <1>3 DEF ZombiesSignalled, serverVars, parentVars, vars
<1> QED BY <1>1, <1>2, <1>3 DEF Next, Server

\* In every reachable state, however many children end at once, the handler runs
\* or is going to while a child is left to be reaped.
THEOREM NoChildForgotten == Spec => []ZombiesSignalled
<1>1. TypeOK /\ ZombiesSignalled /\ [Next]_vars => ZombiesSignalled'
  BY NextZombiesSignalled
<1> QED BY <1>1, InitTypeOK, TypeCorrect, PTL DEF Spec

------------------------------------------------------------------------------
\* A client that has not connected is unknown to the server, which is why it can
\* enter the queue without a second connection of the same name.
Unknown(c) == cpc[c] = "connect" => holders[c] = {} /\ child[c] = "none"

PlaceInv == TypeOK /\ OnePlace /\ \A c \in Clients : Unknown(c)

LEMMA InitPlaceInv == Init => PlaceInv
<1> SUFFICES ASSUME Init PROVE PlaceInv
  OBVIOUS
<1>1. TypeOK /\ OnePlace
  BY InitTypeOK, InitOnePlace DEF Init, ServerInit
<1>2. \A c \in Clients : Unknown(c)
  BY DEF Init, StreamsInit, ServerInit, ParentInit, Unknown
<1> QED BY <1>1, <1>2 DEF PlaceInv

LEMMA ServerPlaceInv ==
  ASSUME PlaceInv, Server, UNCHANGED clientVars
  PROVE  OnePlace' /\ \A c \in Clients : Unknown(c)'
<1>0. /\ TypeOK /\ ParentTypeOK /\ OnePlace /\ \A c \in Clients : Unknown(c)
      /\ \E S : child \in [Clients -> S]
      /\ UNCHANGED cpc
  BY DEF PlaceInv, TypeOK, clientVars
<1>1. CASE Parent
  <2>1. OnePlace'
    BY <1>0, <1>1, ParentKeepsPlace
  <2>2. ASSUME NEW c \in Clients, holders[c] = {}, child[c] = "none"
        PROVE  holders'[c] = {} /\ child'[c] = "none"
    <3>1. CASE Listen \/ ForkFails
      BY <2>2, <3>1 DEF Listen, ForkFails, streams
    <3>2. CASE Accept
      <4>1. /\ holders' = [holders EXCEPT ![Head(backlog)] = {"parent"}] /\ UNCHANGED child
            /\ backlog \in Seq(Clients) /\ backlog # <<>> /\ Head(backlog) = backlog[1]
        BY <1>0, <3>2 DEF Accept, ParentTypeOK
      <4>2. Waiting(Head(backlog)) /\ Head(backlog) \in Clients
        BY <4>1 DEF Waiting
      <4>3. Head(backlog) # c
        BY <1>0, <2>2, <4>2 DEF OnePlace
      <4> QED BY <1>0, <2>2, <4>1, <4>3 DEF ParentTypeOK
    <3>3. CASE Fork
      BY <1>0, <2>2, <3>3 DEF Fork, OnePlace, ParentTypeOK
    <3>4. CASE CloseNewFd
      BY <2>2, <3>4 DEF CloseNewFd, Close
    <3> QED BY <1>1, <3>1, <3>2, <3>3, <3>4 DEF Parent
  <2>3. ASSUME NEW c \in Clients PROVE Unknown(c)'
    BY <1>0, <2>2 DEF Unknown
  <2> QED BY <2>1, <2>3
<1>2. CASE Handler
  <2>1. OnePlace'
    BY <1>0, <1>2, HandlerKeepsPlace
  <2>2. ASSUME NEW c \in Clients PROVE Unknown(c)'
    BY <1>0, <1>2 DEF Unknown, Handler, HandlerStarts, HandlerReturns, Reap, streams
  <2> QED BY <2>1, <2>2
<1>3. ASSUME NEW c \in Clients, Child(c)
      PROVE  OnePlace' /\ \A d \in Clients : Unknown(d)'
  <2>1. CASE End(c)
    <3>1. Exit(c) /\ Working(c)
      BY <2>1 DEF End, Answered, Working
    <3>2. OnePlace'
      BY <1>0, <3>1, ExitKeepsPlace
    <3>3. ASSUME NEW d \in Clients PROVE Unknown(d)'
      BY <1>0, <3>1 DEF Unknown, Exit, Close, Working
    <3> QED BY <3>2, <3>3
  <2>2. CASE ~End(c)
    <3>1. /\ UNCHANGED <<backlog, holders, ppc, newFd>>
          /\ Working(c)
          /\ child' = child \/ \E to : child' = [child EXCEPT ![c] = to]
      BY <1>3, <2>2 DEF Child, ReadMethod, ReadUrl, WriteLine, ChildStep, Working
    <3>2. OnePlace'
      BY <1>0, <3>1, TrafficKeepsPlace
    <3>3. ASSUME NEW d \in Clients PROVE Unknown(d)'
      BY <1>0, <3>1 DEF Unknown, Working
    <3> QED BY <3>2, <3>3
  <2> QED BY <2>1, <2>2
<1> QED BY <1>1, <1>2, <1>3 DEF Server

LEMMA ClientPlaceInv ==
  ASSUME PlaceInv, NEW c \in Clients, Client(c), UNCHANGED serverVars
  PROVE  OnePlace' /\ \A d \in Clients : Unknown(d)'
<1>0. /\ TypeOK /\ ParentTypeOK /\ OnePlace /\ \A d \in Clients : Unknown(d)
      /\ \E S : child \in [Clients -> S]
      /\ UNCHANGED <<ppc, newFd, child, sigchld, handling>>
  BY DEF PlaceInv, TypeOK, serverVars, parentVars
<1>1. CASE Connect(c)
  <2>1. /\ cpc[c] = "connect" /\ cpc' = [cpc EXCEPT ![c] = "send"] /\ Handshake(c)
        /\ holders' = [holders EXCEPT ![c] = {"listener"}]
    BY <1>1 DEF Connect, Goes, Handshake
  <2>2. OnePlace'
    BY <1>0, <2>1, HandshakeKeepsPlace DEF Unknown, parentVars
  <2>3. ASSUME NEW d \in Clients PROVE Unknown(d)'
    BY <1>0, <2>1 DEF Unknown, TypeOK, ParentTypeOK
  <2> QED BY <2>2, <2>3
<1>2. CASE ~Connect(c)
  <2>1. UNCHANGED <<backlog, holders>>
    BY <1>2 DEF Client, ConnectFails, SendRequest, ClientSends, ReceiveHeader,
                ClientTakes, HeaderEnds, ReceiveBody, BodyEnds, ClientTakesEnd,
                ClientTakesReset, streams
  <2>2. \A d \in Clients : cpc'[d] = "connect" => cpc[d] = "connect"
    BY <1>0, <1>2 DEF TypeOK, Client, Goes, ConnectFails, SendRequest, ReceiveHeader,
                      HeaderEnds, ReceiveBody, BodyEnds
  <2>3. OnePlace'
    BY <1>0, <2>1, TrafficKeepsPlace
  <2> QED BY <1>0, <2>1, <2>2, <2>3 DEF Unknown
<1> QED BY <1>1, <1>2

LEMMA NextPlaceInv == PlaceInv /\ [Next]_vars => PlaceInv'
<1> SUFFICES ASSUME PlaceInv, [Next]_vars PROVE PlaceInv'
  OBVIOUS
<1>1. TypeOK'
  BY NextTypeOK DEF PlaceInv
<1>2. CASE Server /\ UNCHANGED clientVars
  BY <1>1, <1>2, ServerPlaceInv DEF PlaceInv
<1>3. CASE \E c \in Clients : Client(c) /\ UNCHANGED serverVars
  BY <1>1, <1>3, ClientPlaceInv DEF PlaceInv
<1>4. CASE \/ \E c \in Clients : LoseUnread(c) /\ UNCHANGED <<serverVars, clientVars>>
           \/ UNCHANGED vars
  <2>1. UNCHANGED <<backlog, holders, ppc, newFd, child, cpc>>
    BY <1>4 DEF LoseUnread, vars, streams, serverVars, parentVars, clientVars
  <2> QED BY <1>1, <2>1 DEF PlaceInv, OnePlace, Waiting, Working, Unknown
<1> QED BY <1>2, <1>3, <1>4 DEF Next

LEMMA PlaceInvariance == Spec => []PlaceInv
<1> QED BY InitPlaceInv, NextPlaceInv, PTL DEF Spec

\* Each connection is queued once and forked for once, and a child that works has
\* its connection open, whatever the other clients and children do.
THEOREM ConnectionsHaveOnePlace == Spec => []OnePlace
<1>1. PlaceInv => OnePlace
  BY DEF PlaceInv
<1> QED BY <1>1, PlaceInvariance, PTL

------------------------------------------------------------------------------
\* Beginnings and ends of sequences.

\* What follows a sequence of four.
LEMMA Behind ==
  ASSUME NEW S, NEW h \in Seq(S), NEW t \in Seq(S), Len(h) = 4
  PROVE  /\ h \o t \in Seq(S)
         /\ Len(h \o t) = Len(t) + 4
         /\ \A k \in 1 .. 4 : (h \o t)[k] = h[k]
         /\ \A k \in 1 .. Len(t) : (h \o t)[k + 4] = t[k]
<1> DEFINE c == h \o t
<1>1. /\ c \in Seq(S)
      /\ Len(c) = Len(h) + Len(t)
      /\ \A i \in 1 .. Len(h) + Len(t) : c[i] = IF i <= Len(h) THEN h[i] ELSE t[i - Len(h)]
  BY ConcatProperties
<1> HIDE DEF c
<1>2. Len(t) \in Nat
  OBVIOUS
<1>3. ASSUME NEW k \in 1 .. 4 PROVE c[k] = h[k]
  BY <1>1, <1>2
<1>4. ASSUME NEW k \in 1 .. Len(t) PROVE c[k + 4] = t[k]
  <2>1. k + 4 \in 1 .. 4 + Len(t) /\ ~(k + 4 <= 4) /\ (k + 4) - 4 = k
    BY <1>2
  <2> QED BY <1>1, <2>1
<1> QED BY <1>1, <1>2, <1>3, <1>4 DEF c

\* What is left behind the first k.
LEMMA RestOf ==
  ASSUME NEW S, NEW s \in Seq(S), NEW k \in 1 .. Len(s)
  PROVE  /\ SubSeq(s, k + 1, Len(s)) \in Seq(S)
         /\ SubSeq(s, k + 1, Len(s)) = <<>> => k = Len(s)
<1> DEFINE rest == SubSeq(s, k + 1, Len(s))
<1>1. rest \in Seq(S) /\ Len(rest) = IF k + 1 <= Len(s) THEN Len(s) - k ELSE 0
  OBVIOUS
<1> HIDE DEF rest
<1>2. rest = <<>> => Len(rest) = 0
  OBVIOUS
<1>3. Len(s) \in Nat
  OBVIOUS
<1> QED BY <1>1, <1>2, <1>3 DEF rest

\* Where the first t of a text is, if there is one.
FirstAt(s, t) ==
  LET places == {i \in 1 .. Len(s) : s[i] = t}
  IN  IF places # {} THEN Min(places) ELSE 0

LEMMA FirstIs ==
  ASSUME NEW S, NEW s \in Seq(S), NEW t, NEW k, k = FirstAt(s, t)
  PROVE  \/ k = 0 /\ \A i \in 1 .. Len(s) : s[i] # t
         \/ k \in 1 .. Len(s) /\ s[k] = t /\ \A i \in 1 .. k - 1 : s[i] # t
<1> DEFINE I == {i \in 1 .. Len(s) : s[i] = t}
<1>1. k = IF I # {} THEN Min(I) ELSE 0
  BY DEF FirstAt
<1>2. I \in SUBSET Nat /\ \A i \in 1 .. Len(s) : i \in I <=> s[i] = t
  OBVIOUS
<1>3. I \subseteq 1 .. Len(s) /\ \A i \in I : s[i] = t
  OBVIOUS
<1> HIDE DEF I
<1>4. I # {} => k \in I /\ \A i \in I : k <= i
  <2>1. I # {} => Min(I) \in I /\ \A i \in I : Min(I) <= i
    BY <1>2, MinIsLeast
  <2>2. I # {} => k = Min(I)
    BY <1>1
  <2> QED BY <2>1, <2>2
<1>5. CASE I = {}
  BY <1>1, <1>2, <1>5
<1>6. CASE I # {}
  <2>1. k \in 1 .. Len(s) /\ s[k] = t
    BY <1>3, <1>4, <1>6
  <2>2. ASSUME NEW i \in 1 .. k - 1 PROVE s[i] # t
    <3>1. i \in 1 .. Len(s) /\ ~(k <= i)
      BY <2>1
    <3> QED BY <1>2, <1>4, <1>6, <3>1
  <2> QED BY <2>1, <2>2
<1> QED BY <1>5, <1>6

\* What precedes the first t has none, and ends before one or with the text.
LEMMA BeforeFacts ==
  ASSUME NEW S, NEW s \in Seq(S), NEW t
  PROVE  /\ Before(s, t) \in Seq(S) /\ Len(Before(s, t)) <= Len(s)
         /\ \A i \in 1 .. Len(Before(s, t)) : Before(s, t)[i] = s[i] /\ s[i] # t
         /\ Len(Before(s, t)) < Len(s) => s[Len(Before(s, t)) + 1] = t
         /\ Len(Before(s, t)) = Len(s) => Before(s, t) = s
<1> DEFINE k == FirstAt(s, t)
<1>1. \/ k = 0 /\ \A i \in 1 .. Len(s) : s[i] # t
      \/ k \in 1 .. Len(s) /\ s[k] = t /\ \A i \in 1 .. k - 1 : s[i] # t
  BY FirstIs
<1>2. Before(s, t) = IF k = 0 THEN s ELSE SubSeq(s, 1, k - 1)
  BY DEF Before, FirstAt, SelectInSeq
<1> HIDE DEF k
<1>3. Len(s) \in Nat
  OBVIOUS
<1>4. CASE k = 0
  BY <1>1, <1>2, <1>3, <1>4
<1>5. CASE k # 0
  <2> DEFINE b == SubSeq(s, 1, k - 1)
  <2>1. k \in 1 .. Len(s)
    BY <1>1, <1>5
  <2>2. b \in Seq(S) /\ Len(b) = k - 1 /\ \A i \in 1 .. k - 1 : b[i] = s[i]
    BY <2>1
  <2> HIDE DEF b
  <2>3. Before(s, t) = b
    BY <1>2, <1>5 DEF b
  <2> QED BY <1>1, <1>3, <1>5, <2>1, <2>2, <2>3
<1> QED BY <1>4, <1>5

------------------------------------------------------------------------------
\* The texts that http_server sends and http_client takes apart.

\* Lines one after the other: line k goes behind those before it.
AreLines(f, lines) ==
  /\ f[0] = <<>>
  /\ \A k \in 1 .. Len(lines) : f[k] = f[k - 1] \o lines[k]

LEMMA LinesAreJoined ==
  ASSUME NEW S, NEW lines \in Seq(Seq(S))
  PROVE  \E f \in [0 .. Len(lines) -> Seq(S)] :
           AreLines(f, lines) /\ FlattenSeq(lines) = f[Len(lines)]
<1> DEFINE n == Len(lines)
           G == [k \in 1 .. n |-> [x \in Seq(S) |-> x \o lines[k]]]
           empty == <<>>
           Joined(x, k) == x \o lines[k]
<1>1. n \in Nat /\ \A k \in 1 .. n : lines[k] \in Seq(S)
  OBVIOUS
<1>2. empty \in Seq(S) /\ \A k \in 1 .. n : Joined(empty, k) = lines[k]
  BY <1>1, ConcatEmptySeq
<1> HIDE DEF n, empty
<1>3. /\ G \in [1 .. n -> [Seq(S) -> Seq(S)]]
      /\ \A k \in 1 .. n : \A x \in Seq(S) : G[k][x] = Joined(x, k)
  BY <1>1
<1> HIDE DEF Joined, G
<1>4. PICK f \in [0 .. n -> Seq(S)] : IsRecursion(f, n, empty, G)
  BY <1>1, <1>2, <1>3, RecursionExists
<1>5. \A k \in 0 .. n : f[k] = IF k = 0 THEN empty ELSE G[k][f[k - 1]]
  BY <1>4 DEF IsRecursion
<1>6. f[0] = empty
  BY <1>1, <1>5
<1>7. ASSUME NEW k \in 1 .. n PROVE f[k] = Joined(f[k - 1], k)
  <2>1. k \in 0 .. n /\ k # 0 /\ k - 1 \in 0 .. n
    BY <1>1
  <2>2. f[k - 1] \in Seq(S)
    BY <1>4, <2>1
  <2>3. f[k] = G[k][f[k - 1]]
    BY <1>5, <2>1
  <2> QED BY <1>3, <2>2, <2>3
<1>8. AreLines(f, lines)
  BY <1>6, <1>7 DEF AreLines, n, empty, Joined
<1>9. CASE n = 0
  <2>1. lines = <<>>
    BY <1>1, <1>9 DEF n
  <2>2. FlattenSeq(lines) = lines
    BY <1>9 DEF FlattenSeq, n
  <2> QED BY <1>4, <1>6, <1>8, <1>9, <2>1, <2>2 DEF n, empty
<1>10. CASE n # 0
  <2> DEFINE IsFlat(g) ==
               g = [i \in 1 .. n |-> IF i = 1 THEN lines[i] ELSE Joined(g[i - 1], i)]
             flat == [i \in 1 .. n |-> f[i]]
             g == CHOOSE h : IsFlat(h)
  <2>1. IsFlat(flat)
    <3>1. ASSUME NEW i \in 1 .. n
          PROVE  f[i] = IF i = 1 THEN lines[i] ELSE Joined(flat[i - 1], i)
      <4>1. CASE i = 1
        <5>1. f[i] = Joined(empty, i)
          BY <1>6, <1>7, <4>1
        <5> QED BY <1>2, <4>1, <5>1
      <4>2. CASE i # 1
        <5>1. i - 1 \in 1 .. n
          BY <1>1, <4>2
        <5> QED BY <1>7, <4>2, <5>1
      <4> QED BY <4>1, <4>2
    <3>2. flat = [i \in 1 .. n |-> IF i = 1 THEN lines[i] ELSE Joined(flat[i - 1], i)]
      BY <3>1
    <3> QED BY <3>2
  <2>2. FlattenSeq(lines) = g[n]
    BY <1>10 DEF FlattenSeq, n, Joined
  <2>3. IsFlat(g)
    <3> HIDE DEF IsFlat, flat
    <3> QED BY <2>1
  <2> HIDE DEF g, flat
  <2>4. \A i \in 1 .. n : g[i] = IF i = 1 THEN lines[i] ELSE Joined(g[i - 1], i)
    BY <2>3
  <2> DEFINE P == {k \in Nat : k + 1 <= n => g[k + 1] = f[k + 1]}
  <2>5. 0 \in P
    <3>1. 1 \in 1 .. n
      BY <1>1, <1>10
    <3>2. g[1] = lines[1]
      BY <2>4, <3>1
    <3>3. f[1] = Joined(f[1 - 1], 1)
      BY <1>7, <3>1
    <3>4. f[1] = lines[1]
      BY <1>2, <1>6, <3>1, <3>3
    <3> QED BY <3>2, <3>4
  <2>6. ASSUME NEW k \in Nat, k \in P PROVE k + 1 \in P
    <3> SUFFICES ASSUME (k + 1) + 1 <= n PROVE g[(k + 1) + 1] = f[(k + 1) + 1]
      OBVIOUS
    <3>1. /\ (k + 1) + 1 \in 1 .. n /\ (k + 1) + 1 # 1 /\ ((k + 1) + 1) - 1 = k + 1
          /\ g[k + 1] = f[k + 1]
      BY <1>1, <2>6
    <3> QED BY <1>7, <2>4, <3>1
  <2>7. n - 1 \in P
    <3> HIDE DEF P
    <3>1. Nat \subseteq P
      BY <2>5, <2>6, NatInd
    <3> QED BY <1>1, <1>10, <3>1
  <2>8. g[n] = f[n]
    BY <1>1, <1>10, <2>7
  <2> QED BY <1>4, <1>8, <2>2, <2>8 DEF n
<1> QED BY <1>9, <1>10

\* The first lines make the beginning of the text of all.
Begins(s, t) == Len(s) <= Len(t) /\ \A i \in 1 .. Len(s) : s[i] = t[i]

LEMMA LinesOfFirst ==
  ASSUME NEW S, NEW lines \in Seq(Seq(S)), NEW f \in [0 .. Len(lines) -> Seq(S)],
         AreLines(f, lines), NEW k \in 0 .. Len(lines)
  PROVE  FlattenSeq(SubSeq(lines, 1, k)) = f[k]
<1> DEFINE n == Len(lines)
           first == SubSeq(lines, 1, k)
           Joined(x, j) == x \o lines[j]
<1>1. n \in Nat /\ k \in Nat /\ k <= n
  OBVIOUS
<1>2. first \in Seq(Seq(S)) /\ Len(first) = k /\ \A j \in 1 .. k : first[j] = lines[j]
  BY <1>1
<1>3. \A j \in 1 .. n : f[j] = Joined(f[j - 1], j)
  BY DEF AreLines
<1> HIDE DEF first, n
<1>4. PICK g \in [0 .. k -> Seq(S)] : AreLines(g, first) /\ FlattenSeq(first) = g[k]
  BY <1>2, LinesAreJoined
<1>5. ASSUME NEW j \in 1 .. k PROVE g[j] = Joined(g[j - 1], j)
  <2>1. g[j] = g[j - 1] \o first[j]
    BY <1>2, <1>4 DEF AreLines
  <2> QED BY <1>2, <2>1
<1>6. f[0] = <<>> /\ g[0] = <<>>
  BY <1>4 DEF AreLines
<1> HIDE DEF Joined
<1> DEFINE P == {j \in Nat : j <= k => g[j] = f[j]}
<1>7. 0 \in P
  BY <1>6
<1>8. ASSUME NEW j \in Nat, j \in P PROVE j + 1 \in P
  <2> SUFFICES ASSUME j + 1 <= k PROVE g[j + 1] = f[j + 1]
    OBVIOUS
  <2>1. j + 1 \in 1 .. k /\ j + 1 \in 1 .. n /\ (j + 1) - 1 = j /\ g[j] = f[j]
    BY <1>1, <1>8
  <2> QED BY <1>3, <1>5, <2>1
<1>9. g[k] = f[k]
  <2> HIDE DEF P
  <2>1. Nat \subseteq P
    BY <1>7, <1>8, NatInd
  <2>2. k \in P
    BY <1>1, <2>1
  <2> QED BY <2>2 DEF P
<1> QED BY <1>4, <1>9 DEF first

LEMMA JoinedBegins ==
  ASSUME NEW S, NEW s \in Seq(S), NEW t \in Seq(S)
  PROVE  /\ s \o t \in Seq(S) /\ Len(s \o t) = Len(s) + Len(t)
         /\ Begins(s, s \o t)
         /\ \A i \in 1 .. Len(t) : (s \o t)[Len(s) + i] = t[i]
<1> DEFINE c == s \o t
           m == Len(s)
           n == Len(t)
<1>1. m \in Nat /\ n \in Nat
  OBVIOUS
<1>2. c \in Seq(S) /\ Len(c) = m + n /\ \A i \in 1 .. m + n : c[i] = IF i <= m THEN s[i] ELSE t[i - m]
  BY ConcatProperties
<1> HIDE DEF c, m, n
<1>3. ASSUME NEW i \in 1 .. m PROVE c[i] = s[i]
  BY <1>1, <1>2
<1>4. ASSUME NEW i \in 1 .. n PROVE c[m + i] = t[i]
  <2>1. m + i \in 1 .. m + n /\ ~(m + i <= m) /\ (m + i) - m = i
    BY <1>1
  <2> QED BY <1>2, <2>1
<1> QED BY <1>1, <1>2, <1>3, <1>4 DEF Begins, c, m, n

\* The text of the first k lines, and that of all.
IsSoFar(lines, k, s, text) ==
  /\ Begins(s, text)
  /\ k = 0 => s = <<>>
  /\ k = Len(lines) => s = text
  /\ k < Len(lines) => FlattenSeq(SubSeq(lines, 1, k + 1)) = s \o lines[k + 1]

LEMMA TextSoFar ==
  ASSUME NEW S, NEW lines \in Seq(Seq(S)), NEW k \in 0 .. Len(lines),
         NEW text, text = FlattenSeq(lines), NEW s, s = FlattenSeq(SubSeq(lines, 1, k))
  PROVE  s \in Seq(S) /\ text \in Seq(S) /\ IsSoFar(lines, k, s, text)
<1> DEFINE n == Len(lines)
<1>1. n \in Nat /\ k \in Nat /\ k <= n /\ \A j \in 1 .. n : lines[j] \in Seq(S)
  OBVIOUS
<1>2. PICK f \in [0 .. n -> Seq(S)] : AreLines(f, lines) /\ text = f[n]
  BY LinesAreJoined
<1>3. \A j \in 0 .. n : FlattenSeq(SubSeq(lines, 1, j)) = f[j]
  BY <1>2, LinesOfFirst
<1>4. s = f[k] /\ k \in 0 .. n /\ n \in 0 .. n
  BY <1>1, <1>3
<1> DEFINE Ext(x, j) == x \o lines[j]
<1>5. \A j \in 1 .. n : f[j] = Ext(f[j - 1], j)
  BY <1>2 DEF AreLines
<1>6. \A x \in Seq(S) : \A j \in 1 .. n : Begins(x, Ext(x, j))
  BY <1>1, JoinedBegins
<1>7. k < n => FlattenSeq(SubSeq(lines, 1, k + 1)) = Ext(s, k + 1)
  <2> SUFFICES ASSUME k < n PROVE FlattenSeq(SubSeq(lines, 1, k + 1)) = Ext(s, k + 1)
    OBVIOUS
  <2>1. k + 1 \in 0 .. n /\ k + 1 \in 1 .. n /\ (k + 1) - 1 = k
    BY <1>1
  <2> HIDE DEF Ext
  <2>2. FlattenSeq(SubSeq(lines, 1, k + 1)) = f[k + 1]
    BY <1>3, <2>1
  <2> QED BY <1>4, <1>5, <2>1, <2>2
<1> HIDE DEF Ext, n
<1> DEFINE P == {j \in Nat : k + j <= n => Begins(f[k], f[k + j])}
<1>8. 0 \in P
  <2>1. k + 0 = k
    BY <1>1
  <2>2. Len(f[k]) \in Nat
    BY <1>4
  <2> QED BY <2>1, <2>2 DEF Begins
<1>9. ASSUME NEW j \in Nat, j \in P PROVE j + 1 \in P
  <2> SUFFICES ASSUME k + (j + 1) <= n PROVE Begins(f[k], f[k + (j + 1)])
    OBVIOUS
  <2>1. /\ k + (j + 1) \in 1 .. n /\ (k + (j + 1)) - 1 = k + j /\ k + j \in 0 .. n
        /\ Begins(f[k], f[k + j])
    BY <1>1, <1>9
  <2> DEFINE a == f[k]
             b == f[k + j]
             c == f[k + (j + 1)]
  <2>2. Begins(a, b) /\ Begins(b, c) /\ a \in Seq(S) /\ b \in Seq(S) /\ c \in Seq(S)
    <3>1. c = Ext(b, k + (j + 1)) /\ b \in Seq(S)
      BY <1>5, <2>1
    <3>2. Begins(b, c)
      BY <1>6, <2>1, <3>1
    <3>3. c \in Seq(S)
      BY <2>1
    <3> QED BY <1>4, <2>1, <3>1, <3>2, <3>3
  <2> HIDE DEF a, b, c
  <2>3. Begins(a, c)
    <3>1. Len(a) \in Nat /\ Len(b) \in Nat /\ Len(c) \in Nat
      BY <2>2
    <3> QED BY <2>2, <3>1 DEF Begins
  <2> QED BY <2>3 DEF a, c
<1>10. Begins(s, text)
  <2>1. n - k \in Nat /\ k + (n - k) = n
    BY <1>1
  <2> HIDE DEF P
  <2>2. Nat \subseteq P
    BY <1>8, <1>9, NatInd
  <2>3. n - k \in P
    BY <2>1, <2>2
  <2> QED BY <1>2, <1>4, <2>1, <2>3 DEF P
<1>11. k = 0 => s = <<>>
  BY <1>2, <1>4 DEF AreLines
<1> QED BY <1>2, <1>4, <1>7, <1>10, <1>11 DEF Ext, n, IsSoFar

\* The pieces of a reply: none is a NUL.
Clean == STRING \ {NUL}

\* A text that begins with a header of h pieces.
IsHeaded(s, h) ==
  /\ h \in Nat /\ h >= Len(HeaderEnd) /\ h <= Len(s)
  /\ \A i \in 1 .. h - Len(HeaderEnd) : s[i] # HeaderEnd[1]
  /\ \A i \in 1 .. Len(HeaderEnd) : s[h - Len(HeaderEnd) + i] = HeaderEnd[i]

\* A reply is nothing yet, or a header and a text.
IsReply(s) == s \in Seq(Clean) /\ (s = <<>> \/ \E h \in Nat : IsHeaded(s, h))

\* Of n pieces taken from a reply with a header of h, b has no whole header: they are
\* less, or a NUL stands in it.
IsHidden(b, s, n, h) ==
  \/ n < h /\ Len(b) = n /\ \A i \in 1 .. n : b[i] = s[i]
  \/ \E z \in Nat :
       /\ z >= 1 /\ z <= h /\ z <= Len(b) /\ b[z] = NUL
       /\ \A i \in 1 .. z - 1 : b[i] = s[i]

\* Of the n pieces taken from a reply s, the loop over the header has found no end
\* of it in b.
NoHeader(b, s, n) ==
  \/ n = 0 /\ b = <<>>
  \/ n >= 1 /\ \E h \in Nat : IsHeaded(s, h) /\ IsHidden(b, s, n, h)

\* The output has what was taken behind the header, except for the w pieces from gap
\* on, which the NUL hid: fewer than the header has.
IsShown(out, s, n, h, gap, w) ==
  /\ h <= n /\ w < h /\ gap >= h + 1 /\ gap + w <= n + 1
  /\ Len(out) = (n - h) - w
  /\ \A i \in 1 .. Len(out) : out[i] = IF i + h < gap THEN s[i + h] ELSE s[(i + h) + w]

Shows(b, out, s, n) ==
  \E h \in Nat : \E gap \in Nat : \E w \in Nat :
    IsHeaded(s, h) /\ IsShown(out, s, n, h, gap, w) /\ (w = 0 <=> ~Contains(b, NUL))

LEMMA ClearText ==
  ASSUME NEW s \in Seq(Clean)
  PROVE  CString(s) = s
<1> DEFINE n == Len(Before(s, NUL))
<1>1. /\ Before(s, NUL) \in Seq(Clean) /\ n <= Len(s)
      /\ n < Len(s) => s[n + 1] = NUL
      /\ n = Len(s) => Before(s, NUL) = s
  BY BeforeFacts
<1>2. n \in Nat /\ Len(s) \in Nat
  BY <1>1
<1> HIDE DEF n
<1>3. n < Len(s) => s[n + 1] \in Clean
  BY <1>2
<1> QED BY <1>1, <1>2, <1>3 DEF Clean, CString

\* A text up to its first NUL, at j.
LEMMA CutText ==
  ASSUME NEW s \in Seq(Clean \cup {NUL}), NEW j \in 1 .. Len(s), s[j] = NUL,
         \A i \in 1 .. j - 1 : s[i] # NUL
  PROVE  /\ CString(s) \in Seq(Clean) /\ Len(CString(s)) = j - 1
         /\ \A i \in 1 .. j - 1 : CString(s)[i] = s[i]
<1> DEFINE b == Before(s, NUL)
           n == Len(b)
<1>1. /\ b \in Seq(Clean \cup {NUL}) /\ n <= Len(s)
      /\ \A i \in 1 .. n : b[i] = s[i] /\ s[i] # NUL
      /\ n < Len(s) => s[n + 1] = NUL
  BY BeforeFacts
<1>2. n \in Nat /\ Len(s) \in Nat /\ Len(b) = n
  BY <1>1
<1> HIDE DEF n, b
<1>3. n = j - 1
  <2>1. ~(n >= j)
    BY <1>1, <1>2
  <2>2. ~(n < j - 1)
    <3> SUFFICES ASSUME n < j - 1 PROVE FALSE
      OBVIOUS
    <3>1. n + 1 \in 1 .. j - 1 /\ n < Len(s)
      BY <1>2
    <3> QED BY <1>1, <3>1
  <2> QED BY <1>2, <2>1, <2>2
<1>4. b \in Seq(Clean)
  <2>1. \A i \in 1 .. n : b[i] \in Clean
    BY <1>1, <1>2
  <2> QED BY <1>1, <1>2, <2>1
<1> QED BY <1>1, <1>2, <1>3, <1>4 DEF CString, b

LEMMA TailIs ==
  ASSUME NEW S, NEW s \in Seq(S), NEW n \in 0 .. Len(s)
  PROVE  /\ From(s, n) \in Seq(S) /\ Len(From(s, n)) = Len(s) - n
         /\ \A i \in 1 .. Len(s) - n : From(s, n)[i] = s[n + i]
<1> DEFINE t == SubSeq(s, n + 1, Len(s))
<1>1. Len(s) \in Nat /\ n \in Nat
  OBVIOUS
<1>2. t \in Seq(S) /\ Len(t) = Len(s) - n
  BY <1>1
<1>3. \A i \in 1 .. Len(s) - n : t[i] = s[n + i]
  BY <1>1
<1> QED BY <1>2, <1>3 DEF From

\* The end of the header is no text of its own, and has no NUL.
LEMMA HeaderEndIs == HeaderEnd \in Seq(Clean) /\ Len(HeaderEnd) \in Nat /\ Len(HeaderEnd) >= 1
<1> DEFINE e == HeaderEnd
<1>1. e \in Seq(Clean) /\ e # <<>>
  BY HeaderAssumption DEF Clean
<1> HIDE DEF e
<1>2. Len(e) \in Nat /\ Len(e) >= 1
  BY <1>1
<1> QED BY <1>1, <1>2 DEF e

\* Where the end of the header stands in a text.
LEMMA EndFound ==
  ASSUME NEW c \in Seq(Clean), NEW i \in 1 .. Len(c)
  PROVE  i \in HeaderEndsAt(c) <=>
           /\ (i - 1) + Len(HeaderEnd) <= Len(c)
           /\ \A j \in 1 .. Len(HeaderEnd) : c[(i - 1) + j] = HeaderEnd[j]
<1> DEFINE end == HeaderEnd
           e == Len(end)
           n == Len(c)
           k == i - 1
           rest == From(c, k)
           first == SubSeq(rest, 1, e)
           C == Clean
<1>1. end \in Seq(C) /\ e \in Nat /\ e >= 1 /\ n \in Nat /\ c \in Seq(C)
  BY HeaderEndIs
<1>2. k \in 0 .. Len(c) /\ k \in 0 .. n
  OBVIOUS
<1>3. i \in HeaderEndsAt(c) <=> e <= Len(rest) /\ SubSeq(end, 1, e) = first
  BY DEF HeaderEndsAt, IsPrefix
<1> HIDE DEF k
<1>4. rest \in Seq(C) /\ Len(rest) = n - k /\ \A j \in 1 .. n - k : rest[j] = c[k + j]
  BY <1>2, TailIs
<1>5. SubSeq(end, 1, e) = end
  <2> HIDE DEF end, C
  <2> QED BY <1>1
<1> HIDE DEF rest, C, n
<1>6. e <= Len(rest) => /\ first \in Seq(C) /\ Len(first) = e
                        /\ \A j \in 1 .. e : first[j] = rest[j]
  <2> HIDE DEF end
  <2> QED BY <1>1, <1>4
<1> HIDE DEF end, first
<1>7. ASSUME e <= Len(rest)
      PROVE  end = first <=> \A j \in 1 .. e : c[k + j] = end[j]
  <2>1. \A j \in 1 .. e : j \in 1 .. n - k
    BY <1>1, <1>2, <1>4, <1>7
  <2>2. \A j \in 1 .. e : first[j] = c[k + j]
    BY <1>4, <1>6, <1>7, <2>1
  <2>3. end = first <=> \A j \in 1 .. e : end[j] = first[j]
    BY <1>1, <1>6, <1>7
  <2> QED BY <2>2, <2>3
<1>8. e <= Len(rest) <=> k + e <= n
  BY <1>1, <1>2, <1>4
<1> QED BY <1>3, <1>5, <1>7, <1>8 DEF end, k, n

\* What has been taken of a reply has the end of its header once that was taken, and
\* at its own place first.
LEMMA HeaderSeen ==
  ASSUME NEW s \in Seq(Clean), NEW h, IsHeaded(s, h),
         NEW c \in Seq(Clean), Len(c) <= Len(s), \A i \in 1 .. Len(c) : c[i] = s[i],
         NEW I, I = HeaderEndsAt(c)
  PROVE  IF h <= Len(c) THEN I # {} /\ Min(I) - 1 + Len(HeaderEnd) = h ELSE I = {}
<1> DEFINE e == Len(HeaderEnd)
           m == Len(c)
<1>1. e \in Nat /\ e >= 1 /\ m \in Nat /\ Len(s) \in Nat
  BY HeaderEndIs
<1>2. /\ h \in Nat /\ h >= e /\ h <= Len(s)
      /\ \A i \in 1 .. h - e : s[i] # HeaderEnd[1]
      /\ \A i \in 1 .. e : s[(h - e) + i] = HeaderEnd[i]
  BY DEF IsHeaded
<1>3. \A i \in 1 .. m : i \in I <=> /\ (i - 1) + e <= m
                                    /\ \A j \in 1 .. e : c[(i - 1) + j] = HeaderEnd[j]
  BY EndFound
<1>4. I \subseteq 1 .. m /\ I \in SUBSET Nat
  <2>1. I \subseteq 1 .. m
    BY DEF HeaderEndsAt
  <2> QED BY <1>1, <2>1
<1> HIDE DEF e, m
<1>5. ASSUME NEW i \in I PROVE i >= (h - e) + 1 /\ (i - 1) + e <= m
  <2>1. /\ i \in 1 .. m /\ (i - 1) + e <= m
        /\ \A j \in 1 .. e : c[(i - 1) + j] = HeaderEnd[j]
    BY <1>3, <1>4
  <2>2. 1 \in 1 .. e /\ (i - 1) + 1 = i
    BY <1>1, <2>1
  <2>3. s[i] = HeaderEnd[1]
    BY <2>1, <2>2 DEF m
  <2>4. ~(i \in 1 .. h - e)
    BY <1>2, <2>3
  <2> QED BY <1>1, <1>2, <2>1, <2>4
<1>6. CASE h <= m
  <2> DEFINE k == (h - e) + 1
  <2>1. k \in 1 .. m /\ k - 1 = h - e /\ (k - 1) + e = h
    BY <1>1, <1>2, <1>6
  <2>2. ASSUME NEW j \in 1 .. e PROVE c[(k - 1) + j] = HeaderEnd[j]
    <3>1. (h - e) + j \in 1 .. m
      BY <1>1, <1>2, <1>6
    <3> QED BY <1>2, <2>1, <3>1 DEF m
  <2> HIDE DEF k
  <2>3. k \in I
    BY <1>3, <1>6, <2>1, <2>2
  <2>4. Min(I) \in I /\ \A i \in I : Min(I) <= i
    BY <1>4, <2>3, MinIsLeast
  <2> DEFINE f == Min(I)
  <2>5. f \in Nat /\ f <= k /\ f >= (h - e) + 1
    BY <1>4, <1>5, <2>3, <2>4
  <2> HIDE DEF f
  <2>6. f - 1 + e = h
    BY <1>1, <1>2, <2>1, <2>5
  <2> QED BY <1>6, <2>3, <2>6 DEF f, e, m
<1>7. CASE ~(h <= m)
  <2>1. I = {}
    <3> SUFFICES ASSUME NEW i \in I PROVE FALSE
      OBVIOUS
    <3>1. i \in Nat
      BY <1>4
    <3> QED BY <1>1, <1>2, <1>5, <1>7, <3>1
  <2> QED BY <1>7, <2>1 DEF m
<1> QED BY <1>6, <1>7

\* What the client makes of a buffer whose text c is what was taken of a reply.
LEMMA BodyIs ==
  ASSUME NEW s \in Seq(Clean), NEW h, IsHeaded(s, h), NEW b,
         NEW c \in Seq(Clean), c = CString(b), NEW m \in Nat, Len(c) = m, m <= Len(s),
         \A i \in 1 .. m : c[i] = s[i]
  PROVE  /\ HasHeader(b) <=> h <= m
         /\ h <= m => /\ CString(BodyStart(b)) \in Seq(Clean)
                      /\ Len(CString(BodyStart(b))) = m - h
                      /\ \A i \in 1 .. m - h : CString(BodyStart(b))[i] = s[h + i]
<1> DEFINE I == HeaderEndsAt(c)
           C == Clean
<1>1. HasHeader(b) <=> I # {}
  BY DEF HasHeader
<1>2. BodyStart(b) = From(c, Min(I) - 1 + Len(HeaderEnd))
  BY DEF BodyStart
<1> HIDE DEF I
<1>3. IF h <= m THEN I # {} /\ Min(I) - 1 + Len(HeaderEnd) = h ELSE I = {}
  BY HeaderSeen DEF I
<1>4. h \in Nat
  BY DEF IsHeaded
<1>5. ASSUME h <= m
      PROVE  /\ CString(BodyStart(b)) \in Seq(C) /\ Len(CString(BodyStart(b))) = m - h
             /\ \A i \in 1 .. m - h : CString(BodyStart(b))[i] = s[h + i]
  <2> DEFINE body == From(c, h)
  <2>1. h \in 0 .. Len(c)
    BY <1>4, <1>5
  <2>2. /\ body \in Seq(C) /\ Len(body) = m - h
        /\ \A i \in 1 .. m - h : body[i] = c[h + i]
    BY <2>1, TailIs
  <2>3. BodyStart(b) = body
    BY <1>2, <1>3, <1>5
  <2> HIDE DEF body
  <2>4. CString(body) = body
    BY <2>2, ClearText
  <2>5. ASSUME NEW i \in 1 .. m - h PROVE body[i] = s[h + i]
    <3>1. h + i \in 1 .. m
      BY <1>4
    <3> QED BY <2>2, <3>1
  <2> QED BY <2>2, <2>3, <2>4, <2>5
<1> QED BY <1>1, <1>3, <1>5 DEF C

\* What is true of b, when it holds what the loop over the header has made of the
\* first n pieces of s.
HeaderTaken(b, s, n) ==
  IF HasHeader(b)
  THEN CString(BodyStart(b)) \in Seq(Clean) /\ Shows(b, CString(BodyStart(b)), s, n)
  ELSE NoHeader(b, s, n)

\* All in one piece: no NUL is put on what was received.
LEMMA HeaderWhole ==
  ASSUME NEW s \in Seq(Clean), NEW h, IsHeaded(s, h), NEW m \in Nat, m >= 1, m <= Len(s),
         NEW b \in Seq(Clean \cup {NUL}), Len(b) = m, \A i \in 1 .. m : b[i] = s[i]
  PROVE  HeaderTaken(b, s, m)
<1>1. Len(s) \in Nat /\ h \in Nat /\ h >= 1
  BY HeaderEndIs DEF IsHeaded
<1>2. \A i \in 1 .. m : b[i] \in Clean /\ b[i] # NUL
  <2>1. \A i \in 1 .. m : s[i] \in Clean
    BY <1>1
  <2> QED BY <2>1 DEF Clean
<1>3. b \in Seq(Clean)
  BY <1>2
<1>4. b = CString(b)
  BY <1>3, ClearText
<1>5. ~Contains(b, NUL)
  BY <1>2 DEF Contains
<1> DEFINE body == CString(BodyStart(b))
<1>6. /\ HasHeader(b) <=> h <= m
      /\ h <= m => body \in Seq(Clean) /\ Len(body) = m - h
                   /\ \A i \in 1 .. m - h : body[i] = s[h + i]
  BY <1>3, <1>4, BodyIs
<1> HIDE DEF body
<1>7. CASE h <= m
  <2> DEFINE gap == m + 1
             w == 0
  <2>1. gap \in Nat /\ w \in Nat /\ (w = 0 <=> ~Contains(b, NUL))
    BY <1>5
  <2>2. IsShown(body, s, m, h, gap, w)
    <3>1. ASSUME NEW i \in 1 .. m - h PROVE i + h < gap /\ body[i] = s[i + h]
      <4>1. i + h = h + i /\ i + h < gap
        BY <1>1, <1>7
      <4> QED BY <1>6, <1>7, <4>1
    <3>2. h <= m /\ w < h /\ gap >= h + 1 /\ gap + w <= m + 1 /\ (m - h) - w = m - h
      BY <1>1, <1>7
    <3> HIDE DEF gap, w
    <3> QED BY <1>6, <1>7, <3>1, <3>2 DEF IsShown
  <2> HIDE DEF gap, w
  <2>3. Shows(b, body, s, m)
    BY <1>1, <2>1, <2>2 DEF Shows
  <2> QED BY <1>6, <1>7, <2>3 DEF HeaderTaken, body
<1>8. CASE ~(h <= m)
  <2>1. IsHidden(b, s, m, h)
    BY <1>1, <1>8 DEF IsHidden
  <2>2. NoHeader(b, s, m)
    BY <1>1, <2>1 DEF NoHeader
  <2> QED BY <1>6, <1>8, <2>2 DEF HeaderTaken
<1> QED BY <1>7, <1>8

\* A NUL was put into the header: its end is not found any more.
LEMMA HeaderHidden ==
  ASSUME NEW s \in Seq(Clean), NEW h, IsHeaded(s, h), NEW n \in Nat, n >= 1,
         NEW b \in Seq(Clean \cup {NUL}), NEW z \in Nat, z >= 1, z <= h, z <= Len(b),
         b[z] = NUL, \A i \in 1 .. z - 1 : b[i] = s[i]
  PROVE  HeaderTaken(b, s, n)
<1> DEFINE c == CString(b)
           m == z - 1
<1>1. /\ Len(s) \in Nat /\ h \in Nat /\ h <= Len(s) /\ Len(b) \in Nat
      /\ z \in 1 .. Len(b) /\ m \in Nat /\ m <= Len(s) /\ ~(h <= m)
  BY DEF IsHeaded
<1>2. \A i \in 1 .. m : b[i] # NUL
  <2>1. \A i \in 1 .. m : s[i] \in Clean
    BY <1>1
  <2> QED BY <2>1 DEF Clean
<1>3. c \in Seq(Clean) /\ Len(c) = m /\ \A i \in 1 .. m : c[i] = b[i]
  BY <1>1, <1>2, CutText
<1>4. \A i \in 1 .. m : c[i] = s[i]
  BY <1>3
<1>5. c = CString(b)
  OBVIOUS
<1> HIDE DEF c, m
<1>6. ~HasHeader(b)
  BY <1>1, <1>3, <1>4, <1>5, BodyIs
<1>7. NoHeader(b, s, n)
  <2>1. IsHidden(b, s, n, h)
    BY DEF IsHidden
  <2> QED BY <1>1, <2>1 DEF NoHeader
<1> QED BY <1>6, <1>7 DEF HeaderTaken

\* A part of the header came first, l pieces: the NUL hides as many of those that
\* followed.
LEMMA HeaderInTwo ==
  ASSUME NEW s \in Seq(Clean), NEW h, IsHeaded(s, h),
         NEW l \in Nat, l >= 1, l < h, NEW m \in Nat, m >= 1, l + m <= Len(s),
         NEW b \in Seq(Clean \cup {NUL}), Len(b) = l + m, \A i \in 1 .. m : b[i] = s[i],
         b[m + 1] = NUL
  PROVE  HeaderTaken(b, s, l + m)
<1>1. /\ Len(s) \in Nat /\ h \in Nat /\ m <= Len(s)
      /\ m + 1 \in 1 .. Len(b) /\ (m + 1) - 1 = m /\ l + m \in Nat /\ l + m >= 1
  BY DEF IsHeaded
<1>2. \A i \in 1 .. m : b[i] # NUL
  <2>1. \A i \in 1 .. m : s[i] \in Clean
    BY <1>1
  <2> QED BY <2>1 DEF Clean
<1> DEFINE c == CString(b)
           body == CString(BodyStart(b))
<1>3. c \in Seq(Clean) /\ Len(c) = m /\ \A i \in 1 .. m : c[i] = s[i]
  <2>1. c \in Seq(Clean) /\ Len(c) = m /\ \A i \in 1 .. m : c[i] = b[i]
    BY <1>1, <1>2, CutText
  <2> QED BY <2>1
<1>4. Contains(b, NUL)
  BY <1>1 DEF Contains
<1>5. /\ HasHeader(b) <=> h <= m
      /\ h <= m => body \in Seq(Clean) /\ Len(body) = m - h
                   /\ \A i \in 1 .. m - h : body[i] = s[h + i]
  <2>1. c = CString(b)
    OBVIOUS
  <2>2. c \in Seq(Clean) /\ Len(c) = m /\ \A i \in 1 .. m : c[i] = s[i]
    BY <1>3
  <2> HIDE DEF c, body
  <2>3. IsHeaded(s, h) /\ m \in Nat /\ m <= Len(s)
    BY <1>1
  <2> QED BY <2>1, <2>2, <2>3, BodyIs DEF body
<1> HIDE DEF c, body
<1>6. CASE h <= m
  <2> DEFINE gap == m + 1
             n == l + m
  <2>1. gap \in Nat /\ (l = 0 <=> ~Contains(b, NUL))
    BY <1>4
  <2>2. IsShown(body, s, n, h, gap, l)
    <3>1. ASSUME NEW i \in 1 .. m - h PROVE i + h < gap /\ body[i] = s[i + h]
      <4>1. i + h = h + i /\ i + h < gap
        BY <1>1, <1>6
      <4> QED BY <1>5, <1>6, <4>1
    <3>2. h <= n /\ l < h /\ gap >= h + 1 /\ gap + l <= n + 1 /\ (n - h) - l = m - h
      BY <1>1, <1>6
    <3> HIDE DEF gap, n
    <3> QED BY <1>5, <1>6, <3>1, <3>2 DEF IsShown
  <2> HIDE DEF gap, n
  <2>3. Shows(b, body, s, n)
    BY <1>1, <2>1, <2>2 DEF Shows
  <2> QED BY <1>5, <1>6, <2>3 DEF HeaderTaken, body, n
<1>7. CASE ~(h <= m)
  <2> DEFINE z == m + 1
  <2>1. z \in Nat /\ z >= 1 /\ z <= h /\ z <= Len(b) /\ b[z] = NUL /\ z - 1 = m
    BY <1>1, <1>7
  <2> HIDE DEF z
  <2> QED BY <1>1, <2>1, HeaderHidden
<1> QED BY <1>6, <1>7

\* The l pieces that were there, m more behind them, and the NUL.
IsStored(r, b, data, l, m) ==
  /\ r \in Seq(Clean \cup {NUL}) /\ Len(r) = l + m
  /\ \A i \in 1 .. l + m :
       r[i] = IF i = m + 1 THEN NUL ELSE IF i <= l THEN b[i] ELSE data[i - l]

LEMMA StoredIs ==
  ASSUME NEW b \in Seq(Clean \cup {NUL}), NEW data \in Seq(Clean \cup {NUL}),
         NEW r, r = Stored(b, data), NEW l, l = Len(b), NEW m, m = Len(data)
  PROVE  IsStored(r, b, data, l, m)
<1> DEFINE S == Clean \cup {NUL}
           all == b \o data
<1> HIDE DEF S
<1>0. b \in Seq(S) /\ data \in Seq(S) /\ NUL \in S
  BY DEF S
<1>1. l \in Nat /\ m \in Nat
  OBVIOUS
<1>2. /\ all \in Seq(S) /\ Len(all) = l + m
      /\ \A i \in 1 .. l + m : all[i] = IF i <= l THEN b[i] ELSE data[i - l]
  BY <1>0, ConcatProperties
<1>3. r = [i \in 1 .. l + m |-> IF i = m + 1 THEN NUL ELSE all[i]]
  BY <1>2 DEF Stored
<1> HIDE DEF all
<1>4. r \in [1 .. l + m -> S]
  BY <1>0, <1>1, <1>2, <1>3
<1>5. r \in Seq(S) /\ Len(r) = l + m
  BY <1>1, <1>4
<1> QED BY <1>2, <1>3, <1>5 DEF S, IsStored

\* The loop over the header takes some pieces more.
LEMMA HeaderReceived ==
  ASSUME NEW s, IsReply(s), NEW n \in Nat, NEW b \in Seq(Clean \cup {NUL}), NoHeader(b, s, n),
         NEW data \in Seq(Clean), NEW m, m = Len(data), m >= 1, n + m <= Len(s),
         \A i \in 1 .. m : data[i] = s[n + i],
         NEW r, r = Stored(b, data)
  PROVE  r \in Seq(Clean \cup {NUL}) /\ HeaderTaken(r, s, n + m)
<1> DEFINE l == Len(b)
<1>1. m \in Nat /\ l \in Nat /\ s \in Seq(Clean) /\ Len(s) \in Nat
  BY DEF IsReply
<1>2. /\ r \in Seq(Clean \cup {NUL}) /\ Len(r) = l + m
      /\ \A i \in 1 .. l + m :
           r[i] = IF i = m + 1 THEN NUL ELSE IF i <= l THEN b[i] ELSE data[i - l]
  <2>1. data \in Seq(Clean \cup {NUL})
    OBVIOUS
  <2>2. b \in Seq(Clean \cup {NUL}) /\ l = Len(b)
    OBVIOUS
  <2> HIDE DEF l
  <2>3. IsStored(r, b, data, l, m)
    BY <2>1, <2>2, StoredIs
  <2> QED BY <2>3 DEF IsStored
<1>3. CASE n = 0 /\ b = <<>>
  <2>1. l = 0 /\ n + m = m /\ l + m = m
    BY <1>1, <1>3
  <2> HIDE DEF l
  <2>2. \A i \in 1 .. m : r[i] = s[i]
    BY <1>1, <1>2, <1>3, <2>1
  <2>3. s # <<>>
    BY <1>1, <2>1
  <2>4. PICK h \in Nat : IsHeaded(s, h)
    BY <2>3 DEF IsReply
  <2>5. Len(r) = m /\ m <= Len(s)
    BY <1>1, <1>2, <2>1
  <2>6. HeaderTaken(r, s, m)
    BY <1>1, <1>2, <2>2, <2>4, <2>5, HeaderWhole
  <2> QED BY <1>2, <2>1, <2>6
<1>4. ASSUME NEW h \in Nat, IsHeaded(s, h), n >= 1, n < h, l = n, \A i \in 1 .. n : b[i] = s[i]
      PROVE  HeaderTaken(r, s, n + m)
  <2>1. Len(r) = n + m
    BY <1>2, <1>4
  <2>2. ASSUME NEW i \in 1 .. m PROVE r[i] = s[i]
    <3> HIDE DEF l
    <3>1. i \in 1 .. l + m /\ i # m + 1
      BY <1>1, <1>4
    <3>2. r[i] = IF i <= l THEN b[i] ELSE data[i - l]
      BY <1>2, <3>1
    <3>3. CASE i <= n
      <4>1. i \in 1 .. n
        BY <3>3
      <4> QED BY <1>4, <3>2, <3>3, <4>1
    <3>4. CASE ~(i <= n)
      <4>1. i - n \in 1 .. m /\ n + (i - n) = i
        BY <1>1, <1>4, <3>4
      <4>2. data[i - n] = s[n + (i - n)]
        BY <4>1
      <4> QED BY <1>4, <3>2, <3>4, <4>1, <4>2
    <3> QED BY <3>3, <3>4
  <2>3. r[m + 1] = NUL
    <3> HIDE DEF l
    <3>1. m + 1 \in 1 .. l + m
      BY <1>1, <1>4
    <3> QED BY <1>2, <3>1
  <2> QED BY <1>1, <1>2, <1>4, <2>1, <2>2, <2>3, HeaderInTwo
<1>5. ASSUME NEW h \in Nat, IsHeaded(s, h), n >= 1,
             NEW z \in Nat, z >= 1, z <= h, z <= l, b[z] = NUL, \A i \in 1 .. z - 1 : b[i] = s[i]
      PROVE  HeaderTaken(r, s, n + m)
  <2> HIDE DEF l
  <2> DEFINE y == IF m + 1 < z THEN m + 1 ELSE z
  <2>1. y \in Nat /\ y >= 1 /\ y <= h /\ y <= l /\ y <= z /\ y <= m + 1 /\ (y = m + 1 \/ y = z)
    BY <1>1, <1>5
  <2> HIDE DEF y
  <2>2. y \in 1 .. l + m /\ y <= Len(r) /\ n + m \in Nat /\ n + m >= 1
    BY <1>1, <1>2, <1>5, <2>1
  <2>3. r[y] = NUL
    BY <1>2, <1>5, <2>1, <2>2
  <2>4. ASSUME NEW i \in 1 .. y - 1 PROVE r[i] = s[i]
    <3>1. i \in 1 .. l + m /\ i # m + 1 /\ i <= l /\ i \in 1 .. z - 1
      BY <1>1, <2>1
    <3> QED BY <1>2, <1>5, <3>1
  <2> QED BY <1>1, <1>2, <1>5, <2>1, <2>2, <2>3, <2>4, HeaderHidden
<1>6. CASE n >= 1 /\ \E h \in Nat : IsHeaded(s, h) /\ IsHidden(b, s, n, h)
  <2>1. PICK h \in Nat : IsHeaded(s, h) /\ IsHidden(b, s, n, h)
    BY <1>6
  <2>2. CASE n < h /\ Len(b) = n /\ \A i \in 1 .. n : b[i] = s[i]
    BY <1>2, <1>4, <1>6, <2>1, <2>2
  <2>3. CASE \E z \in Nat : /\ z >= 1 /\ z <= h /\ z <= Len(b) /\ b[z] = NUL
                            /\ \A i \in 1 .. z - 1 : b[i] = s[i]
    BY <1>2, <1>5, <1>6, <2>1, <2>3
  <2>4. HeaderTaken(r, s, n + m)
    BY <2>1, <2>2, <2>3 DEF IsHidden
  <2> QED BY <1>2, <2>4
<1> QED BY <1>3, <1>6 DEF NoHeader

------------------------------------------------------------------------------
\* The request of http_client.

LEMMA StrcspnIs ==
  ASSUME NEW S, NEW text \in Seq(S), NEW set, NEW k, k = Strcspn(text, set)
  PROVE  /\ k \in 0 .. Len(text)
         /\ \A i \in 1 .. k : text[i] \notin set
         /\ k < Len(text) => text[k + 1] \in set
<1> DEFINE I == {i \in 1 .. Len(text) : text[i] \in set}
           first == IF I # {} THEN Min(I) ELSE 0
<1>1. k = IF first = 0 THEN Len(text) ELSE first - 1
  BY DEF Strcspn, SelectInSeq
<1>2. /\ I \in SUBSET Nat /\ I \subseteq 1 .. Len(text) /\ \A i \in I : text[i] \in set
      /\ \A i \in 1 .. Len(text) : i \in I <=> text[i] \in set
  OBVIOUS
<1>3. Len(text) \in Nat
  OBVIOUS
<1> HIDE DEF I
<1>4. CASE I = {}
  BY <1>1, <1>2, <1>3, <1>4
<1>5. CASE I # {}
  <2>1. first \in I /\ \A i \in I : first <= i
    BY <1>2, <1>5, MinIsLeast
  <2> HIDE DEF first
  <2>2. first \in 1 .. Len(text) /\ text[first] \in set
    BY <1>2, <2>1
  <2>3. k = first - 1
    BY <1>1, <2>2
  <2>4. ASSUME NEW i \in 1 .. k PROVE text[i] \notin set
    <3>1. i \in 1 .. Len(text) /\ ~(first <= i)
      BY <1>3, <2>2, <2>3
    <3> QED BY <1>2, <2>1, <3>1
  <2> QED BY <1>3, <2>2, <2>3, <2>4
<1> QED BY <1>4, <1>5

\* A host that is no path: the path begins where it would without the host.
LEMMA StrcspnBehindOne ==
  ASSUME NEW S, NEW text \in Seq(S), NEW set, Len(text) >= 1, text[1] \notin set
  PROVE  Strcspn(text, set) = 1 + Strcspn(From(text, 1), set)
<1> DEFINE rest == From(text, 1)
           j == Strcspn(text, set)
           k == Strcspn(rest, set)
           n == Len(text)
<1>0. n \in Nat /\ n >= 1 /\ 1 \in 0 .. Len(text)
  OBVIOUS
<1>1. rest \in Seq(S) /\ Len(rest) = n - 1 /\ \A i \in 1 .. n - 1 : rest[i] = text[1 + i]
  BY <1>0, TailIs
<1>2. /\ j \in 0 .. n /\ \A i \in 1 .. j : text[i] \notin set
      /\ j < n => text[j + 1] \in set
  BY StrcspnIs
<1> HIDE DEF rest
<1>3. /\ k \in 0 .. n - 1 /\ \A i \in 1 .. k : rest[i] \notin set
      /\ k < n - 1 => rest[k + 1] \in set
  BY <1>1, StrcspnIs
<1> HIDE DEF j, k, n
<1>4. ~(j < 1 + k)
  <2> SUFFICES ASSUME j < 1 + k PROVE FALSE
    OBVIOUS
  <2>1. j < n /\ text[j + 1] \in set
    BY <1>0, <1>2, <1>3
  <2>2. CASE j = 0
    BY <2>1, <2>2
  <2>3. CASE j # 0
    <3>1. j \in 1 .. k /\ j \in 1 .. n - 1 /\ 1 + j = j + 1
      BY <1>0, <1>2, <1>3, <2>3
    <3>2. rest[j] = text[1 + j]
      BY <1>1, <3>1
    <3> QED BY <1>3, <2>1, <3>1, <3>2
  <2> QED BY <2>2, <2>3
<1>5. ~(1 + k < j)
  <2> SUFFICES ASSUME 1 + k < j PROVE FALSE
    OBVIOUS
  <2>1. k + 1 \in 1 .. n - 1 /\ k < n - 1 /\ 1 + (k + 1) \in 1 .. j
    BY <1>0, <1>2, <1>3
  <2>2. rest[k + 1] = text[1 + (k + 1)]
    BY <1>1, <2>1
  <2> QED BY <1>2, <1>3, <2>1, <2>2
<1>6. j = 1 + k
  BY <1>0, <1>2, <1>3, <1>4, <1>5
<1> QED BY <1>6 DEF j, k, rest

\* A host and a port are followed by the same path, with or without the colon.
LEMMA PathIsMeant ==
  ASSUME NEW S, NEW arg \in Seq(S), arg # <<>>
  PROVE  /\ Path(arg) \in Seq(S)
         /\ \A i \in 1 .. Len(Path(arg)) : \E j \in 1 .. Len(arg) : Path(arg)[i] = arg[j]
         /\ NamesServer(arg) => Path(arg) = From(Tail(arg), Strcspn(Tail(arg), Slashed))
<1> DEFINE t == Tail(arg)
           n == Len(t)
           colon == ToColon(arg)
           to == ToPath(arg)
           rest == From(t, colon)
<1>1. t \in Seq(S) /\ Len(arg) \in Nat /\ n = Len(arg) - 1 /\ \A i \in 1 .. n : t[i] = arg[i + 1]
  BY HeadTailProperties
<1>2. n \in Nat
  BY <1>1
<1>3. Path(arg) = From(t, to)
  BY DEF Path
<1>4. colon = Strcspn(t, {":"})
  BY DEF ToColon
<1>5. to = IF HasPort(arg) THEN colon + Strcspn(rest, Slashed) ELSE Strcspn(t, Slashed)
  BY DEF ToPath
<1>6. NamesServer(arg) => SubSeq(t, 1, IF HasPort(arg) THEN colon ELSE to) = <<ServerHost>>
  BY DEF NamesServer, Hostname
<1> HIDE DEF t, colon, to
<1>7. colon \in 0 .. n
  BY <1>1, <1>4, StrcspnIs
<1>8. rest \in Seq(S) /\ Len(rest) = n - colon
  BY <1>1, <1>7, TailIs
<1>9. to \in 0 .. n
  <2>1. Strcspn(rest, Slashed) \in 0 .. n - colon
    <3> HIDE DEF rest
    <3> QED BY <1>8, StrcspnIs
  <2>2. Strcspn(t, Slashed) \in 0 .. n
    BY <1>1, StrcspnIs
  <2> QED BY <1>2, <1>5, <1>7, <2>1, <2>2
<1>10. /\ From(t, to) \in Seq(S) /\ Len(From(t, to)) = n - to
       /\ \A i \in 1 .. n - to : From(t, to)[i] = t[to + i]
  BY <1>1, <1>9, TailIs
<1>11. ASSUME NEW i \in 1 .. Len(Path(arg)) PROVE \E j \in 1 .. Len(arg) : Path(arg)[i] = arg[j]
  <2>1. i \in 1 .. n - to /\ to + i \in 1 .. n /\ (to + i) + 1 \in 1 .. Len(arg)
    BY <1>1, <1>2, <1>3, <1>9, <1>10
  <2>2. Path(arg)[i] = arg[(to + i) + 1]
    BY <1>1, <1>3, <1>10, <2>1
  <2> QED BY <2>1, <2>2
<1>12. ASSUME NamesServer(arg) PROVE to = Strcspn(t, Slashed)
  <2>1. CASE HasPort(arg)
    <3> DEFINE host == SubSeq(t, 1, colon)
    <3>1. host = <<ServerHost>>
      BY <1>6, <1>12, <2>1
    <3>2. Len(host) = colon /\ \A i \in 1 .. colon : host[i] = t[i]
      BY <1>1, <1>7
    <3> HIDE DEF host
    <3>3. colon = 1 /\ t[1] = ServerHost
      BY <3>1, <3>2
    <3>4. Len(t) >= 1 /\ t[1] \notin Slashed
      <4>1. ServerHost \notin Slashed
        BY ArgumentsAssumption
      <4> QED BY <1>2, <1>7, <3>3, <4>1
    <3>5. Strcspn(t, Slashed) = 1 + Strcspn(From(t, 1), Slashed)
      BY <1>1, <3>4, StrcspnBehindOne
    <3>6. rest = From(t, 1)
      BY <3>3
    <3> HIDE DEF rest
    <3>7. to = 1 + Strcspn(rest, Slashed)
      BY <1>5, <2>1, <3>3
    <3> QED BY <3>5, <3>6, <3>7
  <2>2. CASE ~HasPort(arg)
    BY <1>5, <2>2
  <2> QED BY <2>1, <2>2
<1> QED BY <1>3, <1>10, <1>11, <1>12 DEF t

\* The pieces of a request, and what is left of it behind the method.
Asked == STRING \cup {"GET", Blank}
Rest(arg) == Path(arg) \o RestOfRequest

LEMMA PathFacts ==
  ASSUME NEW c \in Clients, argument[c] \in Arguments[c]
  PROVE  /\ Path(argument[c]) \in Seq(Asked)
         /\ \A i \in 1 .. Len(Path(argument[c])) : Path(argument[c])[i] # Blank
         /\ NamesServer(argument[c]) => Path(argument[c]) = Meant(c)
<1> DEFINE arg == argument[c]
           path == Path(arg)
           T == STRING \ {Blank}
           A == Asked
<1>1. arg \in Seq(T) /\ arg # <<>>
  BY ArgumentsAssumption
<1>2. T \subseteq A /\ Blank \notin T
  BY DEF Asked
<1>3. NamesServer(arg) => path = Meant(c)
  <2>1. NamesServer(arg) => path = From(Tail(arg), Strcspn(Tail(arg), Slashed))
    <3> HIDE DEF arg, T
    <3> QED BY <1>1, PathIsMeant
  <2> QED BY <2>1 DEF Meant
<1> HIDE DEF arg, T, A
<1>4. path \in Seq(T)
  BY <1>1, PathIsMeant
<1> HIDE DEF path
<1>5. path \in Seq(A) /\ \A i \in 1 .. Len(path) : path[i] # Blank
  BY <1>2, <1>4
<1> QED BY <1>3, <1>5 DEF path, arg, A

\* c has the pieces of s and then those of t.
IsJoined(c, s, t) ==
  /\ Len(c) = Len(s) + Len(t) /\ Begins(s, c)
  /\ \A i \in 1 .. Len(t) : c[Len(s) + i] = t[i]

LEMMA JoinedIs ==
  ASSUME NEW S, NEW s \in Seq(S), NEW t \in Seq(S), NEW c, c = s \o t
  PROVE  c \in Seq(S) /\ IsJoined(c, s, t)
BY JoinedBegins DEF IsJoined

LEMMA BehindMethod ==
  ASSUME NEW S, NEW h \in Seq(S), NEW s \in Seq(S), NEW t \in Seq(S),
         NEW r, r = s \o t, NEW w, w = (h \o s) \o t
  PROVE  w \in Seq(S) /\ IsJoined(w, h, r)
<1>1. w = h \o r
  BY ConcatAssociative
<1>2. r \in Seq(S)
  BY ConcatProperties
<1> QED BY <1>1, <1>2, JoinedIs

LEMMA RestOfRequestIs ==
  RestOfRequest \in Seq(Asked) /\ Len(RestOfRequest) \in Nat /\ Len(RestOfRequest) >= 1
<1> DEFINE more == RestOfRequest
           T == STRING
           A == Asked
<1>1. more \in Seq(T) /\ more # <<>> /\ T \subseteq A
  BY ArgumentsAssumption DEF Asked
<1> HIDE DEF more, T, A
<1>2. more \in Seq(A) /\ Len(more) \in Nat /\ Len(more) >= 1
  BY <1>1
<1> QED BY <1>2 DEF more, A

\* A path of n pieces, and a blank behind it.
AsksFor(rest, path, n) ==
  /\ n \in Nat /\ n + 1 <= Len(rest) /\ rest[n + 1] = Blank
  /\ \A i \in 1 .. n : rest[i] = path[i]

LEMMA WithBlank ==
  ASSUME NEW path \in Seq(Asked), NEW n, n = Len(path),
         NEW rest, rest = path \o RestOfRequest
  PROVE  rest \in Seq(Asked) /\ AsksFor(rest, path, n)
<1> DEFINE A == Asked
           more == RestOfRequest
           r == Len(more)
<1>1. more \in Seq(A) /\ r \in Nat /\ r >= 1
  BY RestOfRequestIs
<1>2. more[1] = Blank
  BY ArgumentsAssumption
<1>3. rest \in Seq(A) /\ IsJoined(rest, path, more)
  BY <1>1, JoinedIs
<1> HIDE DEF A, more, r
<1>4. /\ Len(rest) = n + r /\ \A i \in 1 .. n : path[i] = rest[i]
      /\ \A i \in 1 .. r : rest[n + i] = more[i]
  BY <1>3 DEF IsJoined, Begins, r
<1>5. n \in Nat
  OBVIOUS
<1>6. 1 \in 1 .. r
  BY <1>1
<1>7. AsksFor(rest, path, n)
  BY <1>1, <1>2, <1>4, <1>5, <1>6 DEF AsksFor, more
<1> QED BY <1>3, <1>7 DEF A

\* A whole request, and what is left of it behind the method.
IsRequest(whole, rest) ==
  /\ Len(whole) = 2 + Len(rest) /\ whole[1] = "GET" /\ whole[2] = Blank
  /\ \A i \in 1 .. Len(rest) : whole[2 + i] = rest[i]

LEMMA WithMethod ==
  ASSUME NEW path \in Seq(Asked), NEW rest, rest = path \o RestOfRequest,
         NEW whole, whole = (Method \o path) \o RestOfRequest
  PROVE  whole \in Seq(Asked) /\ IsRequest(whole, rest)
<1> DEFINE A == Asked
           more == RestOfRequest
<1>1. /\ Method \in Seq(A) /\ Len(Method) = 2 /\ Method[1] = "GET" /\ Method[2] = Blank
      /\ more \in Seq(A)
  BY RestOfRequestIs DEF Asked, Method
<1>2. whole = (Method \o path) \o more /\ rest = path \o more /\ path \in Seq(A)
  OBVIOUS
<1> HIDE DEF A, more
<1>3. whole \in Seq(A) /\ IsJoined(whole, Method, rest)
  BY <1>1, <1>2, BehindMethod
<1>4. /\ Len(whole) = Len(Method) + Len(rest) /\ Begins(Method, whole)
      /\ \A i \in 1 .. Len(rest) : whole[Len(Method) + i] = rest[i]
  BY <1>3 DEF IsJoined
<1>5. whole[1] = "GET" /\ whole[2] = Blank
  BY <1>1, <1>4 DEF Begins
<1> QED BY <1>1, <1>3, <1>4, <1>5 DEF A, IsRequest

------------------------------------------------------------------------------
\* What a child of http_server has sent.
Finds(u) == PathOf(u) \in DOMAIN Files
Lines(u) == [i \in DOMAIN Files[PathOf(u)] |-> CString(Files[PathOf(u)][i])]

\* Nothing, the reply to another method or to a path that leads to no file, or the
\* first k lines of the file.
SentBy(ch, u, k) ==
  IF ch \in {"none", "born", "url"} THEN <<>>
  ELSE IF u = <<>> THEN Reply("400")
  ELSE IF ~Finds(u) THEN Reply("404")
  ELSE Reply("200") \o FlattenSeq(SubSeq(Lines(u), 1, k))

LEMMA ReplyIs ==
  ASSUME NEW status \in {"200", "400", "404"}
  PROVE  /\ Reply(status) \in Seq(Clean) /\ Len(Reply(status)) \in Nat
         /\ IsHeaded(Reply(status), Len(Reply(status)))
<1> DEFINE first == StatusLine[status]
           end == HeaderEnd
           r == Reply(status)
           e == Len(end)
           l == Len(first)
           C == Clean
           T == STRING \ {NUL, end[1]}
<1>1. end \in Seq(C) /\ e \in Nat /\ e >= 1
  BY HeaderEndIs
<1>2. first \in Seq(T) /\ T \subseteq C /\ end[1] \notin T
  BY HeaderAssumption DEF Clean
<1>3. r = first \o end
  BY DEF Reply
<1> HIDE DEF first, end, r, C, T
<1>4. first \in Seq(C) /\ l \in Nat /\ \A i \in 1 .. l : first[i] # end[1]
  BY <1>2
<1>5. r \in Seq(C) /\ IsJoined(r, first, end)
  BY <1>1, <1>3, <1>4, JoinedIs
<1> DEFINE h == Len(r)
<1>6. /\ h = l + e /\ \A i \in 1 .. l : r[i] = first[i]
      /\ \A i \in 1 .. e : r[l + i] = end[i]
  BY <1>5 DEF IsJoined, Begins
<1> HIDE DEF e, l, h
<1>7. h \in Nat /\ h >= e /\ h - e = l
  BY <1>1, <1>4, <1>6
<1>8. IsHeaded(r, h)
  <2>1. h <= Len(r)
    BY <1>7 DEF h
  <2>2. \A i \in 1 .. h - e : r[i] # end[1]
    BY <1>4, <1>6, <1>7
  <2>3. \A i \in 1 .. e : r[h - e + i] = end[i]
    BY <1>6, <1>7
  <2> QED BY <1>7, <2>1, <2>2, <2>3 DEF IsHeaded, e, end
<1> QED BY <1>5, <1>7, <1>8 DEF r, h, C

\* A text has one header only.
LEMMA HeadedOnce ==
  ASSUME NEW s, NEW g, IsHeaded(s, g), NEW h, IsHeaded(s, h)
  PROVE  g = h
<1>1. Len(HeaderEnd) \in Nat /\ Len(HeaderEnd) >= 1
  BY HeaderEndIs
<1>2. ASSUME NEW x, NEW y, IsHeaded(s, x), IsHeaded(s, y) PROVE ~(x < y)
  <2> DEFINE e == Len(HeaderEnd)
             k == x - e + 1
  <2>1. /\ x \in Nat /\ y \in Nat /\ x >= e /\ e \in Nat /\ e >= 1
        /\ s[x - e + 1] = HeaderEnd[1]
        /\ \A i \in 1 .. y - e : s[i] # HeaderEnd[1]
    BY <1>1, <1>2 DEF IsHeaded
  <2> HIDE DEF e
  <2>2. x < y => k \in 1 .. y - e
    BY <2>1
  <2>3. s[k] = HeaderEnd[1]
    BY <2>1
  <2> HIDE DEF k
  <2> QED BY <2>1, <2>2, <2>3
<1>3. g \in Nat /\ h \in Nat /\ ~(g < h) /\ ~(h < g)
  BY <1>2 DEF IsHeaded
<1> QED BY <1>3

\* The header of what begins a longer text is the header of that.
LEMMA HeaderStays ==
  ASSUME NEW s, NEW h, IsHeaded(s, h), NEW more, Begins(s, more),
         Len(s) \in Nat, Len(more) \in Nat
  PROVE  IsHeaded(more, h)
<1> DEFINE e == Len(HeaderEnd)
<1>1. e \in Nat
  BY HeaderEndIs
<1>2. /\ h \in Nat /\ h >= e /\ h <= Len(s) /\ Len(s) <= Len(more)
      /\ \A i \in 1 .. Len(s) : s[i] = more[i]
      /\ \A i \in 1 .. h - e : s[i] # HeaderEnd[1]
      /\ \A i \in 1 .. e : s[h - e + i] = HeaderEnd[i]
  BY DEF IsHeaded, Begins
<1> HIDE DEF e
<1>3. ASSUME NEW i \in 1 .. h - e PROVE more[i] # HeaderEnd[1]
  <2>1. i \in 1 .. Len(s)
    BY <1>1, <1>2
  <2> QED BY <1>2, <2>1
<1>4. ASSUME NEW i \in 1 .. e PROVE more[h - e + i] = HeaderEnd[i]
  <2>1. h - e + i \in 1 .. Len(s)
    BY <1>1, <1>2
  <2> QED BY <1>2, <2>1
<1>5. h <= Len(more)
  BY <1>2
<1> QED BY <1>2, <1>3, <1>4, <1>5 DEF IsHeaded, e

LEMMA LinesAre ==
  ASSUME NEW u, Finds(u)
  PROVE  /\ Lines(u) \in Seq(Seq(Clean)) /\ Len(Lines(u)) = Len(Files[PathOf(u)])
         /\ Len(Lines(u)) \in Nat
         /\ \A i \in 1 .. Len(Lines(u)) :
              Lines(u)[i] \in Seq(Clean) /\ Lines(u)[i] = CString(Files[PathOf(u)][i])
<1> DEFINE given == Files[PathOf(u)]
           n == Len(given)
<1>1. given \in Seq(Seq(STRING))
  BY FilesAssumption DEF Finds
<1>2. Lines(u) = [i \in DOMAIN given |-> CString(given[i])]
  BY DEF Lines
<1> HIDE DEF given
<1>3. n \in Nat /\ DOMAIN given = 1 .. n
  BY <1>1
<1>4. ASSUME NEW i \in 1 .. n PROVE CString(given[i]) \in Seq(Clean)
  <2> DEFINE t == CString(given[i])
  <2>1. given[i] \in Seq(STRING)
    BY <1>1, <1>3
  <2>2. t \in Seq(STRING) /\ \A j \in 1 .. Len(t) : t[j] # NUL
    <3> DEFINE l == given[i]
    <3>1. l \in Seq(STRING) /\ t = Before(l, NUL)
      BY <2>1 DEF CString
    <3> HIDE DEF l
    <3>2. /\ Before(l, NUL) \in Seq(STRING)
          /\ \A j \in 1 .. Len(Before(l, NUL)) : Before(l, NUL)[j] = l[j] /\ l[j] # NUL
      BY <3>1, BeforeFacts
    <3> HIDE DEF t
    <3>3. \A j \in 1 .. Len(t) : t[j] = l[j] /\ l[j] # NUL
      BY <3>1, <3>2
    <3> QED BY <3>1, <3>2, <3>3
  <2> HIDE DEF t
  <2>3. \A j \in 1 .. Len(t) : t[j] \in STRING /\ t[j] # NUL
    BY <2>2
  <2>4. \A j \in 1 .. Len(t) : t[j] \in Clean
    BY <2>3 DEF Clean
  <2>5. t \in Seq(Clean)
    <3> DEFINE C == Clean
    <3> HIDE DEF C
    <3>1. \A j \in 1 .. Len(t) : t[j] \in C
      BY <2>4 DEF C
    <3>2. t \in Seq(C)
      BY <2>2, <3>1
    <3> QED BY <3>2 DEF C
  <2> QED BY <2>5 DEF t
<1> DEFINE lines == Lines(u)
           C == Clean
<1>5. lines = [i \in 1 .. n |-> CString(given[i])] /\ \A i \in 1 .. n : CString(given[i]) \in Seq(C)
  BY <1>2, <1>3, <1>4
<1> HIDE DEF lines, C, n
<1>6. lines \in Seq(Seq(C)) /\ Len(lines) = n /\ \A i \in 1 .. n : lines[i] = CString(given[i])
  BY <1>3, <1>5
<1> QED BY <1>3, <1>5, <1>6 DEF lines, C, given, n

\* A header of h pieces, and the beginning of the text of a file.
IsOfFile(s, h, text) ==
  /\ s \in Seq(Clean) /\ IsHeaded(s, h) /\ text \in Seq(Clean)
  /\ Len(s) <= Len(text) + h /\ \A i \in 1 .. Len(s) - h : s[h + i] = text[i]

LEMMA LinesSent ==
  ASSUME NEW u, u # <<>>, Finds(u), NEW k \in 0 .. Len(Lines(u)),
         NEW ch, ch \notin {"none", "born", "url"}, NEW s, s = SentBy(ch, u, k),
         NEW text, text = FlattenSeq(Lines(u)), NEW h, h = Len(Reply("200"))
  PROVE  /\ IsOfFile(s, h, text)
         /\ k = 0 => s = Reply("200")
         /\ k = Len(Lines(u)) => Len(s) = Len(text) + h
<1> DEFINE lines == Lines(u)
           n == Len(lines)
           C == Clean
           r == Reply("200")
           t == FlattenSeq(SubSeq(lines, 1, k))
<1>1. lines \in Seq(Seq(C)) /\ n \in Nat /\ \A i \in 1 .. n : lines[i] \in Seq(C)
  BY LinesAre
<1>2. r \in Seq(C) /\ Len(r) = h /\ h \in Nat /\ IsHeaded(r, h)
  BY ReplyIs
<1>3. s = r \o t
  BY DEF SentBy
<1>5. /\ t \in Seq(C) /\ text \in Seq(C) /\ Begins(t, text)
      /\ k = 0 => t = <<>>
      /\ k = n => t = text
  <2>1. text = FlattenSeq(lines) /\ k \in 0 .. Len(lines) /\ t = FlattenSeq(SubSeq(lines, 1, k))
    OBVIOUS
  <2> HIDE DEF lines, C, r, t
  <2>2. t \in Seq(C) /\ text \in Seq(C) /\ IsSoFar(lines, k, t, text)
    BY <1>1, <2>1, TextSoFar
  <2> QED BY <2>2 DEF IsSoFar
<1> HIDE DEF lines, r, t, C
<1>6. s \in Seq(C) /\ IsJoined(s, r, t)
  BY <1>2, <1>3, <1>5, JoinedIs
<1>7. /\ Len(s) = h + Len(t) /\ Begins(r, s)
      /\ \A i \in 1 .. Len(t) : s[h + i] = t[i]
  BY <1>2, <1>6 DEF IsJoined
<1>8. Len(t) \in Nat /\ Len(t) <= Len(text) /\ \A i \in 1 .. Len(t) : t[i] = text[i]
  BY <1>5 DEF Begins
<1>9. IsHeaded(s, h)
  <2>1. Len(r) \in Nat /\ Len(s) \in Nat
    BY <1>2, <1>7, <1>8
  <2> QED BY <1>2, <1>7, <2>1, HeaderStays
<1>10. Len(s) - h = Len(t) /\ Len(s) <= Len(text) + h
  <2>1. Len(text) \in Nat
    BY <1>5
  <2> QED BY <1>2, <1>7, <1>8, <2>1
<1>11. \A i \in 1 .. Len(s) - h : s[h + i] = text[i]
  BY <1>7, <1>8, <1>10
<1>12. k = 0 => s = r
  <2> SUFFICES ASSUME k = 0 PROVE s = r
    OBVIOUS
  <2>1. s = r \o <<>>
    BY <1>3, <1>5
  <2> QED BY <1>2, <2>1, ConcatEmptySeq
<1>13. k = n => Len(s) = Len(text) + h
  <2>1. Len(text) \in Nat
    BY <1>5
  <2> QED BY <1>2, <1>5, <1>7, <2>1
<1>14. IsOfFile(s, h, text)
  BY <1>5, <1>6, <1>9, <1>10, <1>11 DEF IsOfFile, C
<1> QED BY <1>12, <1>13, <1>14 DEF lines, r

\* The next line goes behind those sent.
LEMMA NextLineSent ==
  ASSUME NEW u, u # <<>>, Finds(u), NEW k \in 0 .. Len(Lines(u)), k < Len(Lines(u)),
         NEW ch, ch \notin {"none", "born", "url"}
  PROVE  SentBy(ch, u, k + 1) = SentBy(ch, u, k) \o Lines(u)[k + 1]
<1> DEFINE lines == Lines(u)
           n == Len(lines)
           C == Clean
           h == Reply("200")
           text == FlattenSeq(lines)
           t == FlattenSeq(SubSeq(lines, 1, k))
           next == FlattenSeq(SubSeq(lines, 1, k + 1))
           l == lines[k + 1]
<1>1. SentBy(ch, u, k) = h \o t /\ SentBy(ch, u, k + 1) = h \o next
  BY DEF SentBy
<1>2. lines \in Seq(Seq(C)) /\ n \in Nat /\ \A i \in 1 .. n : lines[i] \in Seq(C)
  BY LinesAre
<1>3. h \in Seq(C)
  BY ReplyIs
<1>4. t \in Seq(C) /\ next = t \o l
  <2>1. text = FlattenSeq(lines) /\ k \in 0 .. Len(lines) /\ t = FlattenSeq(SubSeq(lines, 1, k))
    OBVIOUS
  <2> HIDE DEF lines, C, h, t, text
  <2>2. t \in Seq(C) /\ IsSoFar(lines, k, t, text)
    BY <1>2, <2>1, TextSoFar
  <2> QED BY <2>2 DEF IsSoFar, lines
<1>5. l \in Seq(C)
  BY <1>2
<1> HIDE DEF C, h, t, next, l
<1>6. (h \o t) \o l = h \o (t \o l)
  BY <1>3, <1>4, <1>5, ConcatAssociative
<1> QED BY <1>1, <1>4, <1>6 DEF l, lines

LEMMA SentFacts ==
  ASSUME NEW u, NEW k, u # <<>> /\ Finds(u) => k \in 0 .. Len(Lines(u)), NEW ch
  PROVE  IsReply(SentBy(ch, u, k))
<1>1. CASE ch \in {"none", "born", "url"}
  <2>1. <<>> \in Seq(Clean)
    OBVIOUS
  <2> QED BY <1>1, <2>1 DEF SentBy, IsReply
<1>2. \A status \in {"200", "400", "404"} : IsReply(Reply(status))
  BY ReplyIs DEF IsReply
<1>3. CASE ch \notin {"none", "born", "url"} /\ u = <<>>
  BY <1>2, <1>3 DEF SentBy
<1>4. CASE ch \notin {"none", "born", "url"} /\ u # <<>> /\ ~Finds(u)
  BY <1>2, <1>4 DEF SentBy
<1>5. CASE ch \notin {"none", "born", "url"} /\ u # <<>> /\ Finds(u)
  <2> DEFINE s == SentBy(ch, u, k)
             h == Len(Reply("200"))
             text == FlattenSeq(Lines(u))
  <2>1. k \in 0 .. Len(Lines(u)) /\ s = SentBy(ch, u, k) /\ text = FlattenSeq(Lines(u))
        /\ h = Len(Reply("200")) /\ h \in Nat
    BY <1>5, ReplyIs
  <2> HIDE DEF s, h, text
  <2>2. s \in Seq(Clean) /\ IsHeaded(s, h)
    BY <1>5, <2>1, LinesSent DEF IsOfFile
  <2>3. IsReply(s)
    BY <2>1, <2>2 DEF IsReply
  <2> QED BY <2>3 DEF s
<1> QED BY <1>1, <1>3, <1>4, <1>5

------------------------------------------------------------------------------
\* What http_client makes of what the child has sent.

\* A reset comes where the server left data unread, or had no room for a child.
Lost(h, ts, ch) == h = {} /\ (ts # <<>> \/ ch = "none")

BehindHeader == {"body", "done", "failed"}

\* All of s but the first n pieces.
OnTheWay(tc, s, n) == Len(tc) = Len(s) - n /\ \A i \in 1 .. Len(tc) : tc[i] = s[n + i]

\* The client has taken n pieces of the text s that was sent, and what it has not
\* taken is on the way or was lost.  Until it has found the end of the header it has
\* written nothing.
Takes(tc, h, ts, ch, cp, b, out, s, n) ==
  /\ OnTheWay(tc, s, n) \/ (tc = <<>> /\ Lost(h, ts, ch))
  /\ cp \in {"connect", "send"} => n = 0
  /\ \/ /\ NoHeader(b, s, n) /\ out = <<>>
        /\ cp \in BehindHeader => tc = <<>> /\ h = {}
     \/ cp \in BehindHeader /\ Shows(b, out, s, n)

Receives(tc, h, ts, ch, cp, b, out, s) ==
  \E n \in 0 .. Len(s) : Takes(tc, h, ts, ch, cp, b, out, s, n)

\* More is sent.
LEMMA ShowsOfMore ==
  ASSUME NEW s \in Seq(Clean), NEW more \in Seq(Clean), Begins(s, more), NEW b,
         NEW out \in Seq(Clean), NEW n \in 0 .. Len(s)
  PROVE  /\ NoHeader(b, s, n) => NoHeader(b, more, n)
         /\ Shows(b, out, s, n) => Shows(b, out, more, n)
<1>1. Len(s) \in Nat /\ Len(more) \in Nat /\ \A i \in 1 .. Len(s) : s[i] = more[i]
  BY DEF Begins
<1>2. ASSUME NEW h \in Nat, IsHeaded(s, h) PROVE IsHeaded(more, h)
  BY <1>1, <1>2, HeaderStays
<1>3. ASSUME NEW h \in Nat, IsHeaded(s, h), IsHidden(b, s, n, h) PROVE IsHidden(b, more, n, h)
  <2>1. h <= Len(s)
    BY <1>3 DEF IsHeaded
  <2>2. CASE n < h /\ Len(b) = n /\ \A i \in 1 .. n : b[i] = s[i]
    <3>1. \A i \in 1 .. n : b[i] = more[i]
      BY <1>1, <2>2
    <3> QED BY <2>2, <3>1 DEF IsHidden
  <2>3. CASE \E z \in Nat : /\ z >= 1 /\ z <= h /\ z <= Len(b) /\ b[z] = NUL
                            /\ \A i \in 1 .. z - 1 : b[i] = s[i]
    <3>1. PICK z \in Nat : /\ z >= 1 /\ z <= h /\ z <= Len(b) /\ b[z] = NUL
                           /\ \A i \in 1 .. z - 1 : b[i] = s[i]
      BY <2>3
    <3>2. \A i \in 1 .. z - 1 : b[i] = more[i]
      BY <1>1, <2>1, <3>1
    <3> QED BY <3>1, <3>2 DEF IsHidden
  <2> QED BY <1>3, <2>2, <2>3 DEF IsHidden
<1>4. NoHeader(b, s, n) => NoHeader(b, more, n)
  BY <1>2, <1>3 DEF NoHeader
<1>5. ASSUME NEW h \in Nat, NEW gap \in Nat, NEW w \in Nat, IsShown(out, s, n, h, gap, w)
      PROVE  IsShown(out, more, n, h, gap, w)
  <2>1. /\ h <= n /\ w < h /\ gap >= h + 1 /\ gap + w <= n + 1
        /\ Len(out) = (n - h) - w
        /\ \A i \in 1 .. Len(out) :
             out[i] = IF i + h < gap THEN s[i + h] ELSE s[(i + h) + w]
    BY <1>5 DEF IsShown
  <2>2. ASSUME NEW i \in 1 .. Len(out)
        PROVE  out[i] = IF i + h < gap THEN more[i + h] ELSE more[(i + h) + w]
    <3>1. i + h \in 1 .. Len(s) /\ (i + h) + w \in 1 .. Len(s)
      BY <1>1, <2>1
    <3>2. s[i + h] = more[i + h] /\ s[(i + h) + w] = more[(i + h) + w]
      BY <1>1, <3>1
    <3> QED BY <2>1, <3>2
  <2> QED BY <2>1, <2>2 DEF IsShown
<1>6. Shows(b, out, s, n) => Shows(b, out, more, n)
  BY <1>2, <1>5 DEF Shows
<1> QED BY <1>4, <1>6

LEMMA MoreIsSent ==
  ASSUME NEW s \in Seq(Clean), NEW tc \in Seq(Clean), NEW x \in Seq(Clean), NEW out \in Seq(Clean),
         NEW h, h # {}, NEW ts, NEW ch, NEW cp, NEW b, Receives(tc, h, ts, ch, cp, b, out, s),
         NEW ts2, NEW ch2
  PROVE  Receives(tc \o x, h, ts2, ch2, cp, b, out, s \o x)
<1> DEFINE s2 == s \o x
           tc2 == tc \o x
<1>1. PICK n \in 0 .. Len(s) : Takes(tc, h, ts, ch, cp, b, out, s, n)
  BY DEF Receives
<1>2. s2 \in Seq(Clean) /\ IsJoined(s2, s, x)
  BY JoinedIs
<1>3. tc2 \in Seq(Clean) /\ IsJoined(tc2, tc, x)
  BY JoinedIs
<1> HIDE DEF s2, tc2
<1>4. OnTheWay(tc, s, n)
  BY <1>1 DEF Takes, Lost
<1>5. Begins(s, s2)
  BY <1>2 DEF IsJoined
<1>6. n \in 0 .. Len(s2)
  <2>1. Len(s) \in Nat /\ Len(s2) \in Nat /\ Len(s) <= Len(s2)
    BY <1>2, <1>5 DEF Begins
  <2> QED BY <2>1
<1>7. OnTheWay(tc2, s2, n)
  <2>1. /\ Len(s) \in Nat /\ Len(tc) \in Nat /\ Len(x) \in Nat /\ n \in Nat
        /\ Len(s2) = Len(s) + Len(x) /\ Len(tc2) = Len(tc) + Len(x) /\ Len(tc) = Len(s) - n
    BY <1>2, <1>3, <1>4 DEF IsJoined, OnTheWay
  <2>2. ASSUME NEW i \in 1 .. Len(tc2) PROVE tc2[i] = s2[n + i]
    <3>1. CASE i <= Len(tc)
      <4>1. i \in 1 .. Len(tc) /\ n + i \in 1 .. Len(s)
        BY <2>1, <3>1
      <4>2. tc[i] = tc2[i]
        BY <1>3, <4>1 DEF IsJoined, Begins
      <4>3. s[n + i] = s2[n + i]
        BY <1>5, <4>1 DEF Begins
      <4>4. tc[i] = s[n + i]
        BY <1>4, <4>1 DEF OnTheWay
      <4> QED BY <4>2, <4>3, <4>4
    <3>2. CASE ~(i <= Len(tc))
      <4> DEFINE j == i - Len(tc)
      <4>1. j \in 1 .. Len(x) /\ Len(tc) + j = i /\ Len(s) + j = n + i
        BY <2>1, <3>2
      <4> HIDE DEF j
      <4>2. tc2[Len(tc) + j] = x[j]
        BY <1>3, <4>1 DEF IsJoined
      <4>3. s2[Len(s) + j] = x[j]
        BY <1>2, <4>1 DEF IsJoined
      <4> QED BY <4>1, <4>2, <4>3
    <3> QED BY <3>1, <3>2
  <2>3. Len(tc2) = Len(s2) - n
    BY <2>1
  <2> QED BY <2>2, <2>3 DEF OnTheWay
<1>8. /\ NoHeader(b, s, n) => NoHeader(b, s2, n)
      /\ Shows(b, out, s, n) => Shows(b, out, s2, n)
  BY <1>2, <1>5, ShowsOfMore
<1>9. Takes(tc2, h, ts2, ch2, cp, b, out, s2, n)
  <2>1. cp \in {"connect", "send"} => n = 0
    BY <1>1 DEF Takes
  <2>2. \/ NoHeader(b, s, n) /\ out = <<>> /\ cp \notin BehindHeader
        \/ cp \in BehindHeader /\ Shows(b, out, s, n)
    BY <1>1 DEF Takes
  <2> QED BY <1>7, <1>8, <2>1, <2>2 DEF Takes
<1> QED BY <1>6, <1>9 DEF Receives, s2, tc2

\* The loop over the body writes some pieces more.
LEMMA BodyReceived ==
  ASSUME NEW s \in Seq(Clean), NEW n \in 0 .. Len(s), NEW b, NEW out \in Seq(Clean),
         Shows(b, out, s, n),
         NEW data \in Seq(Clean), NEW m, m = Len(data), n + m <= Len(s),
         \A i \in 1 .. m : data[i] = s[n + i],
         NEW out2, out2 = out \o CString(data)
  PROVE  out2 \in Seq(Clean) /\ Shows(b, out2, s, n + m)
<1>1. CString(data) = data
  BY ClearText
<1>2. out2 = out \o data
  BY <1>1
<1>3. out2 \in Seq(Clean) /\ IsJoined(out2, out, data)
  BY <1>2, JoinedIs
<1>4. PICK h \in Nat : \E gap \in Nat : \E w \in Nat :
        IsHeaded(s, h) /\ IsShown(out, s, n, h, gap, w) /\ (w = 0 <=> ~Contains(b, NUL))
  BY DEF Shows
<1>5. PICK gap \in Nat : \E w \in Nat :
        IsHeaded(s, h) /\ IsShown(out, s, n, h, gap, w) /\ (w = 0 <=> ~Contains(b, NUL))
  BY <1>4
<1>6. PICK w \in Nat :
        IsHeaded(s, h) /\ IsShown(out, s, n, h, gap, w) /\ (w = 0 <=> ~Contains(b, NUL))
  BY <1>5
<1> DEFINE l == Len(out)
<1>7. l \in Nat /\ m \in Nat /\ n \in Nat
  OBVIOUS
<1>8. /\ h <= n /\ w < h /\ gap >= h + 1 /\ gap + w <= n + 1 /\ l = (n - h) - w
      /\ \A i \in 1 .. l : out[i] = IF i + h < gap THEN s[i + h] ELSE s[(i + h) + w]
  BY <1>6 DEF IsShown
<1>9. /\ Len(out2) = l + m
      /\ \A i \in 1 .. l : out[i] = out2[i]
      /\ \A i \in 1 .. m : out2[l + i] = data[i]
  BY <1>3 DEF IsJoined, Begins
<1> HIDE DEF l
<1>10. ASSUME NEW i \in 1 .. l + m
       PROVE  out2[i] = IF i + h < gap THEN s[i + h] ELSE s[(i + h) + w]
  <2>1. CASE i <= l
    <3>1. i \in 1 .. l
      BY <1>7, <2>1
    <3> QED BY <1>8, <1>9, <3>1
  <2>2. CASE ~(i <= l)
    <3> DEFINE j == i - l
    <3>1. j \in 1 .. m /\ l + j = i
      BY <1>7, <2>2
    <3>2. n + j = (i + h) + w /\ ~(i + h < gap)
      BY <1>7, <1>8, <2>2
    <3> HIDE DEF j
    <3>3. out2[i] = s[n + j]
      BY <1>9, <3>1
    <3> QED BY <3>2, <3>3
  <2> QED BY <2>1, <2>2
<1>11. IsShown(out2, s, n + m, h, gap, w)
  <2>1. h <= n + m /\ gap + w <= (n + m) + 1 /\ l + m = ((n + m) - h) - w
    BY <1>7, <1>8
  <2> QED BY <1>8, <1>9, <1>10, <2>1 DEF IsShown
<1> QED BY <1>3, <1>6, <1>11 DEF Shows

------------------------------------------------------------------------------
\* The order of what the client writes: the invariant.

\* The child reads the request from its beginning, and is at the line it has sent.
ChildAt(arg, cp, ch, ts, u, k) ==
  /\ cp = "send" => NamesServer(arg)
  /\ ts # <<>> \/ ch \notin {"none", "born"} =>
       cp \notin {"connect", "send"} /\ NamesServer(arg)
  /\ ch \in {"none", "born"} => ts = <<>> \/ ts = (Method \o Path(arg)) \o RestOfRequest
  /\ ch \in {"none", "born", "url"} => u = <<>> /\ k = 0
  /\ ch = "url" => ts = Rest(arg)
  /\ u # <<>> => Begins(u, Rest(arg)) /\ Len(u) + Len(ts) = Len(Rest(arg))
  /\ ch = "file" => u # <<>> /\ Finds(u)
  /\ ch = "answered" => u = <<>> \/ ~Finds(u)
  /\ u # <<>> /\ Finds(u) => k \in 0 .. Len(Lines(u))
  /\ ch \in {"zombie", "reaped"} /\ u # <<>> /\ Finds(u) => k = Len(Lines(u))

ChildHeld(c) ==
  /\ argument[c] \in Arguments[c]
  /\ ChildAt(argument[c], cpc[c], child[c], toServer[c], url[c], line[c])

ClientHeld(c) ==
  /\ c \in reset => cpc[c] # "connect" /\ Lost(holders[c], toServer[c], child[c])
  /\ cpc[c] \in {"done", "failed"} => toClient[c] = <<>> /\ holders[c] = {}
  /\ cpc[c] = "failed" => Lost(holders[c], toServer[c], child[c])
  /\ Receives(toClient[c], holders[c], toServer[c], child[c], cpc[c], buf[c], output[c],
              SentBy(child[c], url[c], line[c]))

SessionTypes ==
  /\ toServer \in [Clients -> Seq(Asked)]
  /\ url \in [Clients -> Seq(Asked)]
  /\ toClient \in [Clients -> Seq(Clean)]
  /\ output \in [Clients -> Seq(Clean)]
  /\ buf \in [Clients -> Seq(Clean \cup {NUL})]

SessionHeld(c) == ChildHeld(c) /\ ClientHeld(c)

SessionInv == PlaceInv /\ SessionTypes /\ \A c \in Clients : SessionHeld(c)

\* The first j of a text, p, and the rest of it.
IsCut(t, j, p, rest) ==
  /\ Len(p) = j /\ \A i \in 1 .. j : p[i] = t[i]
  /\ Len(rest) = Len(t) - j /\ \A i \in 1 .. Len(t) - j : rest[i] = t[j + i]

LEMMA FirstPartIs ==
  ASSUME NEW S, NEW t \in Seq(S), NEW n, NEW p \in FirstPart(t, n)
  PROVE  /\ p \in Seq(S) /\ Without(t, p) \in Seq(S)
         /\ \E j \in 1 .. Len(t) : j <= n /\ IsCut(t, j, p, Without(t, p))
<1>1. PICK j \in 1 .. Len(t) : j <= n /\ p = SubSeq(t, 1, j)
  BY DEF FirstPart
<1>2. p \in Seq(S) /\ Len(p) = j /\ \A i \in 1 .. j : p[i] = t[i]
  BY <1>1
<1>3. Without(t, p) = From(t, j)
  BY <1>2 DEF Without, From
<1>4. j \in 0 .. Len(t)
  OBVIOUS
<1>5. /\ From(t, j) \in Seq(S) /\ Len(From(t, j)) = Len(t) - j
      /\ \A i \in 1 .. Len(t) - j : From(t, j)[i] = t[j + i]
  BY <1>4, TailIs
<1>6. IsCut(t, j, p, Without(t, p))
  BY <1>2, <1>3, <1>5 DEF IsCut
<1> QED BY <1>1, <1>2, <1>3, <1>5, <1>6

LEMMA InitSession == Init => SessionInv
<1> SUFFICES ASSUME Init PROVE SessionInv
  OBVIOUS
<1>1. PlaceInv
  BY InitPlaceInv
<1>2. /\ toServer = [c \in Clients |-> <<>>] /\ toClient = [c \in Clients |-> <<>>]
      /\ reset = {} /\ holders = [c \in Clients |-> {}]
      /\ url = [c \in Clients |-> <<>>] /\ line = [c \in Clients |-> 0]
      /\ child = [c \in Clients |-> "none"]
      /\ cpc = [c \in Clients |-> "connect"]
      /\ buf = [c \in Clients |-> <<>>] /\ output = [c \in Clients |-> <<>>]
      /\ \A c \in Clients : argument[c] \in Arguments[c]
  BY DEF Init, StreamsInit, ServerInit, ParentInit, ClientInit
<1>3. SessionTypes
  <2>1. <<>> \in Seq(Asked) /\ <<>> \in Seq(Clean) /\ <<>> \in Seq(Clean \cup {NUL})
    OBVIOUS
  <2> QED BY <1>2, <2>1 DEF SessionTypes
<1>4. ASSUME NEW c \in Clients PROVE SessionHeld(c)
  <2>1. /\ toServer[c] = <<>> /\ toClient[c] = <<>> /\ c \notin reset /\ holders[c] = {}
        /\ url[c] = <<>> /\ line[c] = 0 /\ child[c] = "none" /\ cpc[c] = "connect"
        /\ buf[c] = <<>> /\ output[c] = <<>> /\ argument[c] \in Arguments[c]
    BY <1>2
  <2>2. ChildHeld(c)
    BY <2>1 DEF ChildHeld, ChildAt
  <2>3. SentBy(child[c], url[c], line[c]) = <<>>
    BY <2>1 DEF SentBy
  <2>4. Takes(<<>>, {}, <<>>, "none", "connect", <<>>, <<>>, <<>>, 0)
    BY DEF Takes, OnTheWay, NoHeader, BehindHeader
  <2>5. 0 \in 0 .. Len(<<>>)
    OBVIOUS
  <2>6. Receives(<<>>, {}, <<>>, "none", "connect", <<>>, <<>>, <<>>)
    BY <2>4, <2>5 DEF Receives
  <2> QED BY <2>1, <2>2, <2>3, <2>6 DEF SessionHeld, ClientHeld
<1> QED BY <1>1, <1>3, <1>4 DEF SessionInv

\* Another process moves, and closes the connection at most.
LEMMA ClientSame ==
  ASSUME NEW c, ClientHeld(c), ChildHeld(c),
         toClient'[c] = toClient[c], cpc'[c] = cpc[c], buf'[c] = buf[c], output'[c] = output[c],
         SentBy(child'[c], url'[c], line'[c]) = SentBy(child[c], url[c], line[c]),
         Lost(holders[c], toServer[c], child[c]) => Lost(holders'[c], toServer'[c], child'[c]),
         holders[c] = {} => holders'[c] = {},
         c \in reset' => \/ c \in reset
                         \/ cpc[c] # "connect" /\ Lost(holders'[c], toServer'[c], child'[c])
  PROVE  ClientHeld(c)'
<1> DEFINE s == SentBy(child[c], url[c], line[c])
<1>1. PICK n \in 0 .. Len(s) :
        Takes(toClient[c], holders[c], toServer[c], child[c], cpc[c], buf[c], output[c], s, n)
  BY DEF ClientHeld, Receives
<1>2. Takes(toClient[c], holders'[c], toServer'[c], child'[c], cpc[c], buf[c], output[c], s, n)
  <2> HIDE DEF s
  <2> QED BY <1>1 DEF Takes
<1>3. Receives(toClient[c], holders'[c], toServer'[c], child'[c], cpc[c], buf[c], output[c], s)
  <2> HIDE DEF s
  <2> QED BY <1>2 DEF Receives
<1>4. Receives(toClient'[c], holders'[c], toServer'[c], child'[c], cpc'[c], buf'[c], output'[c],
               SentBy(child'[c], url'[c], line'[c]))
  BY <1>3
<1> QED BY <1>4 DEF ClientHeld

LEMMA SessionSame ==
  ASSUME NEW c, SessionHeld(c),
         UNCHANGED <<toServer[c], toClient[c], cpc[c], buf[c], output[c], argument[c], url[c], line[c]>>,
         child'[c] = child[c], holders[c] = {} => holders'[c] = {},
         c \in reset' => \/ c \in reset
                         \/ cpc[c] # "connect" /\ Lost(holders'[c], toServer'[c], child'[c])
  PROVE  SessionHeld(c)'
<1>1. Lost(holders[c], toServer[c], child[c]) => Lost(holders'[c], toServer'[c], child'[c])
  BY DEF Lost
<1>2. ClientHeld(c)'
  BY <1>1, ClientSame DEF SessionHeld
<1>3. ChildHeld(c)'
  BY DEF SessionHeld, ChildHeld
<1> QED BY <1>2, <1>3 DEF SessionHeld

\* The parent, its handler and the end of a child change no text.
LEMMA TextsStay ==
  ASSUME SessionTypes, UNCHANGED <<toServer, url, toClient, output, buf>>
  PROVE  SessionTypes'
BY DEF SessionTypes

LEMMA ClosingIs ==
  ASSUME TypeOK, OnePlace, NEW p, NEW cs \in SUBSET Clients, Close(p, cs), NEW c \in Clients, Unknown(c)
  PROVE  /\ holders[c] = {} => holders'[c] = {}
         /\ UNCHANGED <<toServer, toClient>>
         /\ c \in reset' => \/ c \in reset
                            \/ cpc[c] # "connect" /\ holders'[c] = {} /\ toServer[c] # <<>>
<1>1. /\ holders'[c] = IF c \in cs THEN holders[c] \ {p} ELSE holders[c]
      /\ reset' = reset \cup {d \in cs : holders[d] = {p} /\ toServer[d] # <<>>}
      /\ UNCHANGED <<toServer, toClient>>
  BY DEF Close
<1>2. holders[c] # {} => cpc[c] # "connect"
  BY DEF Unknown
<1> QED BY <1>1, <1>2

LEMMA ParentSession ==
  ASSUME SessionInv, Parent, UNCHANGED <<url, line, clientVars>>, NEW d \in Clients
  PROVE  SessionHeld(d)'
<1>0. /\ TypeOK /\ ParentTypeOK /\ OnePlace /\ Unknown(d) /\ SessionHeld(d)
      /\ child \in [Clients -> ChildStates]
      /\ UNCHANGED <<cpc, buf, output, argument, url, line>>
  BY DEF SessionInv, PlaceInv, TypeOK, clientVars
<1>1. CASE Listen \/ ForkFails
  BY <1>0, <1>1, SessionSame DEF Listen, ForkFails, streams
<1>2. CASE Accept
  <2>1. /\ backlog \in Seq(Clients) /\ backlog # <<>> /\ Head(backlog) = backlog[1]
        /\ holders' = [holders EXCEPT ![Head(backlog)] = {"parent"}]
        /\ UNCHANGED <<toServer, toClient, reset, child>>
    BY <1>0, <1>2 DEF Accept, ParentTypeOK
  <2>2. Waiting(Head(backlog)) /\ Head(backlog) \in Clients
    BY <2>1 DEF Waiting
  <2>3. holders[Head(backlog)] = {"listener"}
    BY <1>0, <2>2 DEF OnePlace
  <2>4. holders[d] = {} => holders'[d] = {}
    BY <1>0, <2>1, <2>3 DEF ParentTypeOK
  <2> QED BY <1>0, <2>1, <2>4, SessionSame
<1>3. CASE Fork
  <2>1. /\ newFd \in Clients /\ holders[newFd] = {"parent"} /\ child[newFd] = "none"
        /\ child' = [child EXCEPT ![newFd] = "born"]
        /\ holders'[d] = IF "parent" \in holders[d] THEN holders[d] \cup {newFd} ELSE holders[d]
        /\ UNCHANGED <<toServer, toClient, reset>>
    BY <1>0, <1>3 DEF Fork, OnePlace, ParentTypeOK
  <2>2. holders[d] = {} => holders'[d] = {}
    BY <2>1
  <2>3. CASE d # newFd
    <3>1. child'[d] = child[d]
      BY <1>0, <2>1, <2>3
    <3> QED BY <1>0, <2>1, <2>2, <3>1, SessionSame
  <2>4. CASE d = newFd
    <3>1. child[d] = "none" /\ child'[d] = "born" /\ holders[d] # {}
      BY <1>0, <2>1, <2>4
    <3>2. SentBy(child'[d], url'[d], line'[d]) = SentBy(child[d], url[d], line[d])
      BY <3>1 DEF SentBy
    <3>3. Lost(holders[d], toServer[d], child[d]) => Lost(holders'[d], toServer'[d], child'[d])
      BY <3>1 DEF Lost
    <3>4. ClientHeld(d)'
      BY <1>0, <2>1, <2>2, <3>2, <3>3, ClientSame DEF SessionHeld
    <3>5. ChildHeld(d)'
      BY <1>0, <2>1, <3>1 DEF SessionHeld, ChildHeld, ChildAt
    <3> QED BY <3>4, <3>5 DEF SessionHeld
  <2> QED BY <2>3, <2>4
<1>4. CASE CloseNewFd
  <2>1. Close("parent", {newFd}) /\ {newFd} \in SUBSET Clients /\ UNCHANGED child
    BY <1>0, <1>4 DEF CloseNewFd, ClosedByParent, ParentTypeOK
  <2>2. /\ holders[d] = {} => holders'[d] = {}
        /\ UNCHANGED <<toServer, toClient>>
        /\ d \in reset' => \/ d \in reset
                           \/ cpc[d] # "connect" /\ holders'[d] = {} /\ toServer[d] # <<>>
    BY <1>0, <2>1, ClosingIs
  <2>3. d \in reset' => \/ d \in reset
                        \/ cpc[d] # "connect" /\ Lost(holders'[d], toServer'[d], child'[d])
    BY <2>2 DEF Lost
  <2> QED BY <1>0, <2>1, <2>2, <2>3, SessionSame
<1> QED BY <1>1, <1>2, <1>3, <1>4 DEF Parent

\* A child is reaped: for its client it is as it was.
LEMMA HandlerSession ==
  ASSUME SessionInv, Handler, UNCHANGED <<url, line, clientVars>>, NEW d \in Clients
  PROVE  SessionHeld(d)'
<1>0. /\ TypeOK /\ SessionHeld(d) /\ child \in [Clients -> ChildStates]
      /\ UNCHANGED <<cpc, buf, output, argument, url, line>>
  BY DEF SessionInv, PlaceInv, TypeOK, clientVars
<1>1. /\ UNCHANGED <<toServer, toClient, reset, holders>>
      /\ child'[d] = child[d] \/ (child[d] = "zombie" /\ child'[d] = "reaped")
  BY <1>0 DEF Handler, HandlerStarts, HandlerReturns, Reap, streams
<1>2. CASE child'[d] = child[d]
  BY <1>0, <1>1, <1>2, SessionSame
<1>3. CASE child[d] = "zombie" /\ child'[d] = "reaped"
  <2>1. SentBy(child'[d], url'[d], line'[d]) = SentBy(child[d], url[d], line[d])
    BY <1>0, <1>3 DEF SentBy
  <2>2. Lost(holders[d], toServer[d], child[d]) => Lost(holders'[d], toServer'[d], child'[d])
    BY <1>1, <1>3 DEF Lost
  <2>3. ClientHeld(d)'
    BY <1>0, <1>1, <2>1, <2>2, ClientSame DEF SessionHeld
  <2>4. ChildHeld(d)'
    BY <1>0, <1>1, <1>3 DEF SessionHeld, ChildHeld, ChildAt
  <2> QED BY <2>3, <2>4 DEF SessionHeld
<1> QED BY <1>1, <1>2, <1>3

\* A child ends, when it has sent all it has to send.
LEMMA EndSession ==
  ASSUME SessionInv, NEW c \in Clients, End(c), UNCHANGED clientVars, NEW d \in Clients
  PROVE  SessionHeld(d)'
<1>0. /\ TypeOK /\ ParentTypeOK /\ OnePlace /\ Unknown(d) /\ SessionHeld(d)
      /\ child \in [Clients -> ChildStates]
      /\ UNCHANGED <<cpc, buf, output, argument, url, line>>
  BY DEF SessionInv, PlaceInv, TypeOK, clientVars, End
<1>1. /\ Answered(c) /\ Close(c, Clients) /\ child' = [child EXCEPT ![c] = "zombie"]
      /\ Clients \in SUBSET Clients
  BY DEF End, Exit
<1>2. /\ holders[d] = {} => holders'[d] = {}
      /\ UNCHANGED <<toServer, toClient>>
      /\ d \in reset' => \/ d \in reset
                         \/ cpc[d] # "connect" /\ holders'[d] = {} /\ toServer[d] # <<>>
  BY <1>0, <1>1, ClosingIs
<1>3. d \in reset' => \/ d \in reset
                      \/ cpc[d] # "connect" /\ Lost(holders'[d], toServer'[d], child'[d])
  BY <1>2 DEF Lost
<1>4. CASE d # c
  <2>1. child'[d] = child[d]
    BY <1>0, <1>1, <1>4
  <2> QED BY <1>0, <1>2, <1>3, <2>1, SessionSame
<1>5. CASE d = c
  <2>1. /\ child'[d] = "zombie" /\ child[d] \in {"answered", "file"}
        /\ child[d] = "file" => line[d] = Len(Files[PathOf(url[d])])
    BY <1>0, <1>1, <1>5 DEF Answered
  <2>2. holders[d] # {}
    BY <1>0, <2>1 DEF OnePlace, Working
  <2>3. SentBy(child'[d], url'[d], line'[d]) = SentBy(child[d], url[d], line[d])
    BY <1>0, <2>1 DEF SentBy
  <2>4. Lost(holders[d], toServer[d], child[d]) => Lost(holders'[d], toServer'[d], child'[d])
    BY <2>2 DEF Lost
  <2>5. ClientHeld(d)'
    BY <1>0, <1>2, <1>3, <2>3, <2>4, ClientSame DEF SessionHeld
  <2>6. url[d] # <<>> /\ Finds(url[d]) => line[d] = Len(Lines(url[d]))
    <3> SUFFICES ASSUME url[d] # <<>>, Finds(url[d]) PROVE line[d] = Len(Lines(url[d]))
      OBVIOUS
    <3>1. child[d] = "file"
      BY <1>0, <2>1 DEF SessionHeld, ChildHeld, ChildAt
    <3>2. Len(Lines(url[d])) = Len(Files[PathOf(url[d])])
      BY LinesAre
    <3> QED BY <2>1, <3>1, <3>2
  <2>7. ChildHeld(d)'
    BY <1>0, <1>2, <2>1, <2>6 DEF SessionHeld, ChildHeld, ChildAt
  <2> QED BY <2>5, <2>7 DEF SessionHeld
<1> QED BY <1>4, <1>5

\* A child sends more.
LEMMA ClientSentMore ==
  ASSUME NEW c \in Clients, SessionTypes, ClientHeld(c), holders[c] # {},
         holders'[c] = holders[c], c \in reset' => c \in reset,
         UNCHANGED <<cpc[c], buf[c], output[c]>>,
         NEW s, s = SentBy(child[c], url[c], line[c]), s \in Seq(Clean),
         NEW x \in Seq(Clean), toClient'[c] = toClient[c] \o x,
         SentBy(child'[c], url'[c], line'[c]) = s \o x
  PROVE  ClientHeld(c)'
<1> DEFINE s2 == SentBy(child'[c], url'[c], line'[c])
           h == holders[c]
           tc == toClient[c]
           tc2 == toClient'[c]
           ts2 == toServer'[c]
           ch2 == child'[c]
           out == output[c]
<1>1. tc \in Seq(Clean) /\ out \in Seq(Clean) /\ h # {}
  BY DEF SessionTypes
<1>2. Receives(tc, h, toServer[c], child[c], cpc[c], buf[c], out, s)
  BY DEF ClientHeld
<1>3. s2 = s \o x /\ tc2 = tc \o x
  OBVIOUS
<1> HIDE DEF s2, h, tc, tc2, ts2, ch2, out
<1>4. Receives(tc2, h, ts2, ch2, cpc[c], buf[c], out, s2)
  <2>1. Receives(tc \o x, h, ts2, ch2, cpc[c], buf[c], out, s \o x)
    BY <1>1, <1>2, MoreIsSent
  <2> QED BY <1>3, <2>1
<1>5. c \notin reset' /\ cpc[c] \notin {"done", "failed"}
  BY DEF ClientHeld, Lost
<1> QED BY <1>4, <1>5 DEF ClientHeld, s2, h, tc2, ts2, ch2, out

\* The clients whose child does nothing.
LEMMA OthersSame ==
  ASSUME SessionInv, NEW c \in Clients, NEW d \in Clients, d # c,
         UNCHANGED <<holders, reset, cpc, buf, output, argument>>,
         UNCHANGED <<toServer[d], toClient[d], child[d], url[d], line[d]>>
  PROVE  SessionHeld(d)'
<1>1. SessionHeld(d)
  BY DEF SessionInv
<1> QED BY <1>1, SessionSame

LEMMA ReadMethodSession ==
  ASSUME SessionInv, NEW c \in Clients, ReadMethod(c), UNCHANGED clientVars
  PROVE  SessionTypes' /\ \A d \in Clients : SessionHeld(d)'
<1> DEFINE ts == toServer[c]
           rest == Rest(argument[c])
           answer == Reply("400")
<1>0. /\ TypeOK /\ OnePlace /\ SessionTypes /\ SessionHeld(c) /\ ChildHeld(c) /\ ClientHeld(c)
      /\ child \in [Clients -> ChildStates]
      /\ UNCHANGED <<holders, reset, cpc, buf, output, argument, url, line>>
  BY DEF SessionInv, PlaceInv, TypeOK, clientVars, SessionHeld, ReadMethod
<1>1. child[c] = "born"
  BY DEF ReadMethod, ChildStep
<1>2. PICK method \in FirstPart(ts, 2) :
        /\ toServer' = [toServer EXCEPT ![c] = Without(@, method)]
        /\ IF method = Method
           THEN child' = [child EXCEPT ![c] = "url"] /\ UNCHANGED toClient
           ELSE /\ child' = [child EXCEPT ![c] = "answered"]
                /\ toClient' = [toClient EXCEPT ![c] = @ \o answer]
  BY DEF ReadMethod, ServerTakes, ServerWrites, ChildStep
<1>3. ts \in Seq(Asked)
  BY <1>0 DEF SessionTypes
<1>4. PICK j \in 1 .. Len(ts) :
        /\ j <= 2 /\ Len(method) = j
        /\ Without(ts, method) \in Seq(Asked) /\ Len(Without(ts, method)) = Len(ts) - j
        /\ \A i \in 1 .. Len(ts) - j : Without(ts, method)[i] = ts[j + i]
  <2> HIDE DEF ts
  <2>1. Without(ts, method) \in Seq(Asked)
    BY <1>3, FirstPartIs
  <2>2. PICK j \in 1 .. Len(ts) : j <= 2 /\ IsCut(ts, j, method, Without(ts, method))
    BY <1>3, FirstPartIs
  <2> QED BY <2>1, <2>2 DEF IsCut
<1> DEFINE ts2 == Without(ts, method)
<1>5. ts # <<>>
  BY <1>4
<1>6. ts = (Method \o Path(argument[c])) \o RestOfRequest /\ url[c] = <<>> /\ line[c] = 0
  BY <1>0, <1>1, <1>5 DEF ChildHeld, ChildAt
<1>7. /\ Len(ts) = 2 + Len(rest) /\ rest \in Seq(Asked)
      /\ \A i \in 1 .. Len(rest) : ts[2 + i] = rest[i]
  <2> DEFINE path == Path(argument[c])
             n == Len(path)
  <2>1. path \in Seq(Asked)
    BY <1>0, PathFacts DEF ChildHeld
  <2>2. ts = (Method \o path) \o RestOfRequest /\ rest = path \o RestOfRequest
    BY <1>6 DEF Rest
  <2> HIDE DEF path, ts, rest
  <2>3. rest \in Seq(Asked)
    BY <2>1, <2>2, WithBlank
  <2>4. IsRequest(ts, rest)
    BY <2>1, <2>2, WithMethod
  <2> QED BY <2>3, <2>4 DEF IsRequest
<1>8. toServer'[c] = ts2 /\ \A d \in Clients \ {c} : toServer'[d] = toServer[d]
  BY <1>0, <1>2 DEF SessionTypes
<1>9. answer \in Seq(Clean)
  BY ReplyIs
<1>10. SessionTypes'
  <2> HIDE DEF ts, answer
  <2>1. toServer' \in [Clients -> Seq(Asked)]
    BY <1>0, <1>2, <1>4 DEF SessionTypes, ts
  <2>2. toClient' \in [Clients -> Seq(Clean)]
    <3>1. toClient[c] \o answer \in Seq(Clean)
      <4>1. toClient[c] \in Seq(Clean)
        BY <1>0 DEF SessionTypes
      <4> QED BY <1>9, <4>1
    <3> QED BY <1>0, <1>2, <3>1 DEF SessionTypes
  <2> QED BY <1>0, <2>1, <2>2 DEF SessionTypes
<1>11. ASSUME NEW d \in Clients, d # c PROVE SessionHeld(d)'
  <2>1. toServer'[d] = toServer[d] /\ toClient'[d] = toClient[d] /\ child'[d] = child[d]
    BY <1>0, <1>2, <1>8, <1>11 DEF SessionTypes
  <2> QED BY <1>0, <1>11, <2>1, OthersSame
<1>12. holders[c] # {}
  BY <1>0, <1>1 DEF OnePlace, Working
<1>13. CASE method = Method
  <2>1. child'[c] = "url" /\ toClient'[c] = toClient[c]
    BY <1>0, <1>2, <1>13
  <2>2. ts2 = rest
    <3>1. j = 2
      BY <1>4, <1>13 DEF Method
    <3>2. /\ ts2 \in Seq(Asked) /\ Len(ts2) = Len(rest)
          /\ \A i \in 1 .. Len(rest) : ts2[i] = rest[i]
      <4> HIDE DEF ts, rest
      <4>1. Len(rest) \in Nat
        BY <1>7
      <4> QED BY <1>4, <1>7, <3>1, <4>1
    <3> HIDE DEF ts2, rest
    <3> QED BY <1>7, <3>2
  <2>3. SentBy(child'[c], url'[c], line'[c]) = SentBy(child[c], url[c], line[c])
    BY <1>1, <2>1 DEF SentBy
  <2>4. Lost(holders[c], toServer[c], child[c]) => Lost(holders'[c], toServer'[c], child'[c])
    BY <1>12 DEF Lost
  <2>5. ClientHeld(c)'
    BY <1>0, <2>1, <2>3, <2>4, ClientSame
  <2>6. ChildHeld(c)'
    <3>1. ChildAt(argument[c], cpc[c], "url", rest, url[c], line[c])
      BY <1>0, <1>5, <1>6 DEF ChildHeld, ChildAt
    <3> QED BY <1>0, <1>8, <2>1, <2>2, <3>1 DEF ChildHeld
  <2>7. SessionHeld(c)'
    BY <2>5, <2>6 DEF SessionHeld
  <2> QED BY <1>10, <1>11, <2>7
<1>14. CASE method # Method
  <2>1. child'[c] = "answered" /\ toClient'[c] = toClient[c] \o answer
    BY <1>0, <1>2, <1>14 DEF SessionTypes
  <2>2. SentBy(child[c], url[c], line[c]) = <<>> /\ SentBy(child'[c], url'[c], line'[c]) = answer
    BY <1>0, <1>1, <1>6, <2>1 DEF SentBy
  <2>3. <<>> \o answer = answer /\ <<>> \in Seq(Clean)
    BY <1>9, ConcatEmptySeq
  <2>4. ClientHeld(c)'
    <3> HIDE DEF answer
    <3> QED BY <1>0, <1>9, <1>12, <2>1, <2>2, <2>3, ClientSentMore
  <2>5. ChildHeld(c)'
    <3>1. ChildAt(argument[c], cpc[c], "answered", toServer'[c], url[c], line[c])
      BY <1>0, <1>5, <1>6 DEF ChildHeld, ChildAt
    <3> QED BY <1>0, <2>1, <3>1 DEF ChildHeld
  <2>6. SessionHeld(c)'
    BY <2>4, <2>5 DEF SessionHeld
  <2> QED BY <1>10, <1>11, <2>6
<1> QED BY <1>13, <1>14

LEMMA ReadUrlSession ==
  ASSUME SessionInv, NEW c \in Clients, ReadUrl(c), UNCHANGED clientVars
  PROVE  SessionTypes' /\ \A d \in Clients : SessionHeld(d)'
<1> DEFINE ts == toServer[c]
<1>0. /\ TypeOK /\ OnePlace /\ SessionTypes /\ SessionHeld(c) /\ ChildHeld(c) /\ ClientHeld(c)
      /\ child \in [Clients -> ChildStates]
      /\ UNCHANGED <<holders, reset, cpc, buf, output, argument, line>>
  BY DEF SessionInv, PlaceInv, TypeOK, clientVars, SessionHeld, ReadUrl
<1>1. child[c] = "url"
  BY DEF ReadUrl, ChildStep
<1>2. PICK text \in FirstPart(ts, Len(ts)) :
        /\ toServer' = [toServer EXCEPT ![c] = Without(@, text)]
        /\ url' = [url EXCEPT ![c] = text]
        /\ IF Finds(text)
           THEN /\ child' = [child EXCEPT ![c] = "file"]
                /\ toClient' = [toClient EXCEPT ![c] = @ \o Reply("200")]
           ELSE /\ child' = [child EXCEPT ![c] = "answered"]
                /\ toClient' = [toClient EXCEPT ![c] = @ \o Reply("404")]
  BY DEF ReadUrl, ServerTakes, ServerWrites, ChildStep, Finds
<1>3. ts \in Seq(Asked)
  BY <1>0 DEF SessionTypes
<1>4. PICK j \in 1 .. Len(ts) :
        /\ text \in Seq(Asked) /\ Len(text) = j /\ \A i \in 1 .. j : text[i] = ts[i]
        /\ Without(ts, text) \in Seq(Asked) /\ Len(Without(ts, text)) = Len(ts) - j
  <2> HIDE DEF ts
  <2>1. text \in Seq(Asked) /\ Without(ts, text) \in Seq(Asked)
    BY <1>3, FirstPartIs
  <2>2. PICK j \in 1 .. Len(ts) : IsCut(ts, j, text, Without(ts, text))
    BY <1>3, FirstPartIs
  <2> QED BY <2>1, <2>2 DEF IsCut
<1> DEFINE ts2 == Without(ts, text)
           answer == IF Finds(text) THEN Reply("200") ELSE Reply("404")
           ch2 == IF Finds(text) THEN "file" ELSE "answered"
<1>5. ts = Rest(argument[c]) /\ url[c] = <<>> /\ line[c] = 0 /\ NamesServer(argument[c])
      /\ cpc[c] \notin {"connect", "send"} /\ argument[c] \in Arguments[c]
  BY <1>0, <1>1 DEF ChildHeld, ChildAt
<1>6. text # <<>> /\ Begins(text, ts) /\ Len(text) + Len(ts2) = Len(ts)
  <2> HIDE DEF ts
  <2>1. Len(ts) \in Nat
    BY <1>3
  <2> QED BY <1>4, <2>1 DEF Begins
<1>7. /\ toServer'[c] = ts2 /\ url'[c] = text /\ child'[c] = ch2
      /\ toClient'[c] = toClient[c] \o answer
  BY <1>0, <1>2 DEF SessionTypes
<1>8. answer \in Seq(Clean)
  BY ReplyIs
<1>9. SessionTypes'
  <2> HIDE DEF ts, answer
  <2>1. toServer' \in [Clients -> Seq(Asked)] /\ url' \in [Clients -> Seq(Asked)]
    BY <1>0, <1>2, <1>4 DEF SessionTypes, ts
  <2>2. toClient' \in [Clients -> Seq(Clean)]
    <3>1. toClient[c] \o answer \in Seq(Clean)
      <4>1. toClient[c] \in Seq(Clean)
        BY <1>0 DEF SessionTypes
      <4> QED BY <1>8, <4>1
    <3>2. toClient' = [toClient EXCEPT ![c] = @ \o answer]
      BY <1>2 DEF answer
    <3> QED BY <1>0, <3>1, <3>2 DEF SessionTypes
  <2> QED BY <1>0, <2>1, <2>2 DEF SessionTypes
<1>10. ASSUME NEW d \in Clients, d # c PROVE SessionHeld(d)'
  <2>1. /\ toServer'[d] = toServer[d] /\ toClient'[d] = toClient[d] /\ child'[d] = child[d]
        /\ url'[d] = url[d] /\ line'[d] = line[d]
    BY <1>0, <1>2, <1>10 DEF SessionTypes
  <2> QED BY <1>0, <1>10, <2>1, OthersSame
<1>11. holders[c] # {}
  BY <1>0, <1>1 DEF OnePlace, Working
<1>12. SentBy(child[c], url[c], line[c]) = <<>>
  BY <1>1 DEF SentBy
<1>13. SentBy(ch2, text, 0) = answer
  <2>1. CASE Finds(text)
    <3>1. Len(Lines(text)) \in Nat
      BY <2>1, LinesAre
    <3> DEFINE zero == 0
    <3>2. zero \in 0 .. Len(Lines(text)) /\ zero = 0
      BY <3>1
    <3> HIDE DEF zero
    <3>3. ch2 = "file" /\ ch2 \notin {"none", "born", "url"}
      BY <2>1
    <3>4. SentBy(ch2, text, zero) = Reply("200")
      <4> HIDE DEF ch2
      <4> QED BY <1>6, <2>1, <3>2, <3>3, LinesSent
    <3> QED BY <2>1, <3>2, <3>4
  <2>2. CASE ~Finds(text)
    BY <1>6, <2>2 DEF SentBy
  <2> QED BY <2>1, <2>2
<1>14. ClientHeld(c)'
  <2>1. <<>> \o answer = answer /\ <<>> \in Seq(Clean)
    BY <1>8, ConcatEmptySeq
  <2>2. SentBy(child'[c], url'[c], line'[c]) = answer
    BY <1>0, <1>5, <1>7, <1>13
  <2> HIDE DEF answer, ch2
  <2> QED BY <1>0, <1>7, <1>8, <1>11, <1>12, <2>1, <2>2, ClientSentMore
<1>15. ChildHeld(c)'
  <2>1. Finds(text) => Len(Lines(text)) \in Nat
    BY LinesAre
  <2>2. ch2 \in {"file", "answered"} /\ (ch2 = "file" <=> Finds(text))
    OBVIOUS
  <2>3. Finds(text) => 0 \in 0 .. Len(Lines(text))
    BY <2>1
  <2>4. ChildAt(argument[c], cpc[c], ch2, ts2, text, 0)
    <3> HIDE DEF ts2, ch2, ts
    <3> QED BY <1>5, <1>6, <2>2, <2>3 DEF ChildAt
  <2> QED BY <1>0, <1>5, <1>7, <2>4 DEF ChildHeld
<1> QED BY <1>9, <1>10, <1>14, <1>15 DEF SessionHeld

LEMMA WriteLineSession ==
  ASSUME SessionInv, NEW c \in Clients, WriteLine(c), UNCHANGED clientVars
  PROVE  SessionTypes' /\ \A d \in Clients : SessionHeld(d)'
<1> DEFINE u == url[c]
           k == line[c]
           next == Lines(u)[k + 1]
           s == SentBy(child[c], u, k)
<1>0. /\ TypeOK /\ OnePlace /\ SessionTypes /\ SessionHeld(c) /\ ChildHeld(c) /\ ClientHeld(c)
      /\ line \in [Clients -> Nat]
      /\ UNCHANGED <<holders, reset, cpc, buf, output, argument, url, child, toServer>>
  BY DEF SessionInv, PlaceInv, TypeOK, clientVars, SessionHeld, WriteLine
<1>1. /\ child[c] = "file" /\ k < Len(Files[PathOf(u)])
      /\ toClient' = [toClient EXCEPT ![c] = @ \o CString(Files[PathOf(u)][k + 1])]
      /\ line' = [line EXCEPT ![c] = @ + 1]
  BY DEF WriteLine, ServerWrites
<1>2. u # <<>> /\ Finds(u) /\ k \in 0 .. Len(Lines(u))
  BY <1>0, <1>1 DEF ChildHeld, ChildAt
<1>3. /\ Len(Lines(u)) = Len(Files[PathOf(u)]) /\ Len(Lines(u)) \in Nat
      /\ \A i \in 1 .. Len(Lines(u)) :
           Lines(u)[i] \in Seq(Clean) /\ Lines(u)[i] = CString(Files[PathOf(u)][i])
  BY <1>2, LinesAre
<1>4. k + 1 \in 1 .. Len(Lines(u)) /\ k < Len(Lines(u)) /\ k + 1 \in 0 .. Len(Lines(u))
  BY <1>1, <1>2, <1>3
<1>5. next \in Seq(Clean) /\ next = CString(Files[PathOf(u)][k + 1])
  BY <1>3, <1>4
<1>6. toClient' = [toClient EXCEPT ![c] = @ \o next]
  BY <1>1, <1>5
<1>7. SessionTypes'
  <2> HIDE DEF next
  <2>1. toClient[c] \o next \in Seq(Clean)
    <3>1. toClient[c] \in Seq(Clean)
      BY <1>0 DEF SessionTypes
    <3> QED BY <1>5, <3>1
  <2>2. toClient' \in [Clients -> Seq(Clean)]
    BY <1>0, <1>6, <2>1 DEF SessionTypes
  <2> QED BY <1>0, <2>2 DEF SessionTypes
<1>8. ASSUME NEW d \in Clients, d # c PROVE SessionHeld(d)'
  <2>1. toClient'[d] = toClient[d] /\ line'[d] = line[d]
    BY <1>0, <1>1, <1>8 DEF SessionTypes
  <2> QED BY <1>0, <1>8, <2>1, OthersSame
<1>9. toClient'[c] = toClient[c] \o next /\ line'[c] = k + 1
  BY <1>0, <1>1, <1>6 DEF SessionTypes
<1>10. holders[c] # {}
  BY <1>0, <1>1 DEF OnePlace, Working
<1>11. IsReply(s) /\ SentBy(child[c], u, k + 1) = s \o next
  <2> DEFINE ch == child[c]
  <2>1. ch \notin {"none", "born", "url"}
    BY <1>1
  <2> HIDE DEF u, k, ch
  <2>2. SentBy(ch, u, k + 1) = SentBy(ch, u, k) \o Lines(u)[k + 1]
    BY <1>2, <1>4, <2>1, NextLineSent
  <2>3. IsReply(SentBy(ch, u, k))
    BY <1>2, <1>4, SentFacts
  <2> QED BY <2>2, <2>3 DEF ch
<1>12. ClientHeld(c)'
  <2>1. s \in Seq(Clean) /\ s = SentBy(child[c], url[c], line[c])
    BY <1>11 DEF IsReply
  <2>2. SentBy(child'[c], url'[c], line'[c]) = s \o next
    BY <1>0, <1>9, <1>11
  <2> HIDE DEF s, next
  <2> QED BY <1>0, <1>5, <1>9, <1>10, <2>1, <2>2, ClientSentMore
<1>13. ChildHeld(c)'
  <2>1. ChildAt(argument[c], cpc[c], "file", toServer[c], u, k)
    BY <1>0, <1>1 DEF ChildHeld
  <2>2. ChildAt(argument[c], cpc[c], "file", toServer[c], u, k + 1)
    <3> HIDE DEF u, k
    <3> QED BY <1>2, <1>4, <2>1 DEF ChildAt
  <2> QED BY <1>0, <1>1, <1>9, <2>2 DEF ChildHeld
<1> QED BY <1>7, <1>8, <1>12, <1>13 DEF SessionHeld

\* The clients that do nothing.
LEMMA OtherClients ==
  ASSUME SessionInv, NEW c \in Clients, UNCHANGED serverVars, UNCHANGED argument,
         NEW d \in Clients, d # c,
         UNCHANGED <<toServer[d], toClient[d], cpc[d], buf[d], output[d], holders[d]>>,
         reset' \subseteq reset \cup {c}
  PROVE  SessionHeld(d)'
<1>1. SessionHeld(d) /\ UNCHANGED <<child, url, line>>
  BY DEF SessionInv, serverVars, parentVars
<1> QED BY <1>1, SessionSame

LEMMA ConnectSession ==
  ASSUME SessionInv, NEW c \in Clients, Connect(c) \/ ConnectFails(c), UNCHANGED serverVars
  PROVE  SessionTypes' /\ \A d \in Clients : SessionHeld(d)'
<1>0. /\ SessionTypes /\ ChildHeld(c) /\ ClientHeld(c) /\ Unknown(c)
      /\ cpc \in [Clients -> {"connect", "send", "header", "body", "done", "failed"}]
      /\ holders \in [Clients -> SUBSET ({"listener", "parent"} \cup Clients)]
  BY DEF SessionInv, PlaceInv, TypeOK, ParentTypeOK, SessionHeld
<1>1. /\ cpc[c] = "connect"
      /\ UNCHANGED <<toServer, toClient, reset, argument, buf, output, child, url, line>>
      /\ \/ cpc' = [cpc EXCEPT ![c] = "send"] /\ NamesServer(argument[c])
            /\ holders' = [holders EXCEPT ![c] = {"listener"}]
         \/ cpc' = [cpc EXCEPT ![c] = "failed"] /\ UNCHANGED holders
  BY DEF Connect, ConnectFails, Goes, Handshake, streams, serverVars, parentVars
<1>2. SessionTypes'
  BY <1>0, <1>1, TextsStay
<1>3. ASSUME NEW d \in Clients, d # c PROVE SessionHeld(d)'
  <2>1. cpc'[d] = cpc[d] /\ holders'[d] = holders[d]
    BY <1>0, <1>1, <1>3
  <2> QED BY <1>1, <1>3, <2>1, OtherClients
<1>4. holders[c] = {} /\ child[c] = "none" /\ c \notin reset
  BY <1>0, <1>1 DEF Unknown, ClientHeld
<1>5. SentBy(child[c], url[c], line[c]) = <<>>
  BY <1>4 DEF SentBy
<1>6. toServer[c] = <<>> /\ ChildAt(argument[c], "connect", "none", <<>>, url[c], line[c])
  BY <1>0, <1>1, <1>4 DEF ChildHeld, ChildAt
<1>7. PICK n \in 0 .. Len(<<>>) :
        Takes(toClient[c], {}, <<>>, "none", "connect", buf[c], output[c], <<>>, n)
  BY <1>0, <1>1, <1>4, <1>5, <1>6 DEF ClientHeld, Receives
<1>8. n = 0
  OBVIOUS
<1>9. toClient[c] = <<>> /\ NoHeader(buf[c], <<>>, 0) /\ output[c] = <<>>
  <2>1. toClient[c] \in Seq(Clean)
    BY <1>0 DEF SessionTypes
  <2>2. OnTheWay(toClient[c], <<>>, 0) => toClient[c] = <<>>
    <3>1. OnTheWay(toClient[c], <<>>, 0) => Len(toClient[c]) = 0
      BY DEF OnTheWay
    <3> QED BY <2>1, <3>1
  <2> QED BY <1>7, <1>8, <2>2 DEF Takes, BehindHeader
<1>10. CASE cpc' = [cpc EXCEPT ![c] = "send"]
  <2>1. cpc'[c] = "send" /\ NamesServer(argument[c]) /\ holders'[c] = {"listener"}
    <3>1. cpc'[c] # "failed"
      BY <1>0, <1>10
    <3>2. cpc'[c] = "send" /\ ~(cpc' = [cpc EXCEPT ![c] = "failed"])
      BY <1>0, <1>10, <3>1
    <3> QED BY <1>0, <1>1, <3>2
  <2>2. Takes(<<>>, {"listener"}, <<>>, "none", "send", buf[c], <<>>, <<>>, 0)
    BY <1>9 DEF Takes, OnTheWay, BehindHeader
  <2>3. Receives(<<>>, {"listener"}, <<>>, "none", "send", buf[c], <<>>, <<>>)
    BY <2>2 DEF Receives
  <2>4. ClientHeld(c)'
    BY <1>1, <1>4, <1>5, <1>6, <1>9, <2>1, <2>3 DEF ClientHeld
  <2>5. ChildAt(argument[c], "send", "none", <<>>, url[c], line[c])
    BY <1>6, <2>1 DEF ChildAt
  <2>6. ChildHeld(c)'
    BY <1>0, <1>1, <1>4, <1>6, <2>1, <2>5 DEF ChildHeld
  <2> QED BY <1>2, <1>3, <2>4, <2>6 DEF SessionHeld
<1>11. CASE cpc' = [cpc EXCEPT ![c] = "failed"]
  <2>1. cpc'[c] = "failed" /\ holders'[c] = {}
    <3>1. cpc'[c] = "failed" /\ ~(cpc' = [cpc EXCEPT ![c] = "send"])
      BY <1>0, <1>11
    <3> QED BY <1>1, <1>4, <3>1
  <2>2. Takes(<<>>, {}, <<>>, "none", "failed", buf[c], <<>>, <<>>, 0)
    BY <1>9 DEF Takes, OnTheWay, BehindHeader
  <2>3. Receives(<<>>, {}, <<>>, "none", "failed", buf[c], <<>>, <<>>)
    BY <2>2 DEF Receives
  <2>4. ClientHeld(c)'
    BY <1>1, <1>4, <1>5, <1>6, <1>9, <2>1, <2>3 DEF ClientHeld, Lost
  <2>5. ChildAt(argument[c], "failed", "none", <<>>, url[c], line[c])
    BY <1>6 DEF ChildAt
  <2>6. ChildHeld(c)'
    BY <1>0, <1>1, <1>4, <1>6, <2>1, <2>5 DEF ChildHeld
  <2> QED BY <1>2, <1>3, <2>4, <2>6 DEF SessionHeld
<1> QED BY <1>1, <1>10, <1>11

LEMMA SendRequestSession ==
  ASSUME SessionInv, NEW c \in Clients, SendRequest(c), UNCHANGED serverVars
  PROVE  SessionTypes' /\ \A d \in Clients : SessionHeld(d)'
<1> DEFINE request == Request(c)
           s == SentBy(child[c], url[c], line[c])
<1>0. /\ SessionTypes /\ ChildHeld(c) /\ ClientHeld(c) /\ OnePlace
      /\ cpc \in [Clients -> {"connect", "send", "header", "body", "done", "failed"}]
  BY DEF SessionInv, PlaceInv, TypeOK, SessionHeld
<1>1. /\ cpc[c] = "send" /\ cpc' = [cpc EXCEPT ![c] = "header"]
      /\ UNCHANGED <<holders, toClient, argument, buf, output, child, url, line>>
      /\ IF holders[c] = {} THEN reset' = reset \cup {c} /\ UNCHANGED toServer
         ELSE toServer' = [toServer EXCEPT ![c] = @ \o request] /\ UNCHANGED reset
  BY DEF SendRequest, Goes, ClientSends, ServerClosed, serverVars, parentVars
<1>2. request = (Method \o Path(argument[c])) \o RestOfRequest
  BY DEF Request
<1>3. request \in Seq(Asked)
  <2> DEFINE path == Path(argument[c])
             rest == path \o RestOfRequest
  <2>1. path \in Seq(Asked)
    BY <1>0, PathFacts DEF ChildHeld
  <2> HIDE DEF path, request
  <2> QED BY <1>2, <2>1, WithMethod DEF path
<1>4. /\ toServer[c] = <<>> /\ child[c] \in {"none", "born"}
      /\ NamesServer(argument[c]) /\ argument[c] \in Arguments[c]
      /\ url[c] = <<>> /\ line[c] = 0
  BY <1>0, <1>1 DEF ChildHeld, ChildAt
<1>5. <<>> \o request = request
  <2> HIDE DEF request
  <2> QED BY <1>3, ConcatEmptySeq
<1>6. toServer'[c] = IF holders[c] = {} THEN <<>> ELSE request
  BY <1>0, <1>1, <1>4, <1>5 DEF SessionTypes
<1>7. SessionTypes'
  <2> HIDE DEF request
  <2>1. toServer[c] \o request \in Seq(Asked)
    BY <1>3, <1>4, <1>5
  <2> QED BY <1>0, <1>1, <2>1 DEF SessionTypes
<1>8. ASSUME NEW d \in Clients, d # c PROVE SessionHeld(d)'
  <2>1. cpc'[d] = cpc[d] /\ toServer'[d] = toServer[d] /\ reset' \subseteq reset \cup {c}
    BY <1>0, <1>1, <1>8 DEF SessionTypes
  <2> QED BY <1>1, <1>8, <2>1, OtherClients
<1>9. holders[c] = {} => child[c] = "none"
  BY <1>0, <1>4 DEF OnePlace, Working
<1>10. cpc'[c] = "header"
  BY <1>0, <1>1
<1>11. ChildHeld(c)'
  <2>1. ChildAt(argument[c], "header", child[c], toServer'[c], url[c], line[c])
    BY <1>2, <1>4, <1>6 DEF ChildAt
  <2> QED BY <1>1, <1>4, <1>10, <2>1 DEF ChildHeld
<1>12. Lost(holders[c], toServer[c], child[c]) <=> holders[c] = {}
  BY <1>9 DEF Lost
<1>13. Lost(holders[c], toServer'[c], child[c]) <=> holders[c] = {}
  BY <1>9 DEF Lost
<1>14. ClientHeld(c)'
  <2>1. PICK n \in 0 .. Len(s) :
          Takes(toClient[c], holders[c], toServer[c], child[c], "send", buf[c], output[c], s, n)
    BY <1>0, <1>1 DEF ClientHeld, Receives
  <2>2. Takes(toClient[c], holders[c], toServer'[c], child[c], "header", buf[c], output[c], s, n)
    <3> HIDE DEF s
    <3> QED BY <1>12, <1>13, <2>1 DEF Takes, BehindHeader
  <2>3. Receives(toClient[c], holders[c], toServer'[c], child[c], "header", buf[c], output[c], s)
    <3> HIDE DEF s
    <3> QED BY <2>2 DEF Receives
  <2>4. c \in reset' => holders[c] = {}
    BY <1>0, <1>1, <1>12 DEF ClientHeld
  <2> QED BY <1>1, <1>10, <1>13, <2>3, <2>4 DEF ClientHeld
<1> QED BY <1>7, <1>8, <1>11, <1>14 DEF SessionHeld

\* A part of what is on the way is taken.
LEMMA DataTaken ==
  ASSUME NEW s \in Seq(Clean), NEW n \in 0 .. Len(s), NEW tc \in Seq(Clean), OnTheWay(tc, s, n),
         NEW data \in FirstPart(tc, Len(tc))
  PROVE  \E m \in Nat :
           /\ m = Len(data) /\ m >= 1 /\ n + m <= Len(s)
           /\ data \in Seq(Clean) /\ \A i \in 1 .. m : data[i] = s[n + i]
           /\ Without(tc, data) \in Seq(Clean) /\ OnTheWay(Without(tc, data), s, n + m)
<1>1. PICK j \in 1 .. Len(tc) :
        /\ data \in Seq(Clean) /\ Len(data) = j /\ \A i \in 1 .. j : data[i] = tc[i]
        /\ Without(tc, data) \in Seq(Clean) /\ Len(Without(tc, data)) = Len(tc) - j
        /\ \A i \in 1 .. Len(tc) - j : Without(tc, data)[i] = tc[j + i]
  <2>1. data \in Seq(Clean) /\ Without(tc, data) \in Seq(Clean)
    BY FirstPartIs
  <2>2. PICK j \in 1 .. Len(tc) : IsCut(tc, j, data, Without(tc, data))
    BY FirstPartIs
  <2> QED BY <2>1, <2>2 DEF IsCut
<1> DEFINE rest == Without(tc, data)
<1>2. /\ Len(tc) \in Nat /\ Len(s) \in Nat /\ n \in Nat /\ j \in Nat /\ j >= 1 /\ j <= Len(tc)
      /\ Len(tc) = Len(s) - n /\ \A i \in 1 .. Len(tc) : tc[i] = s[n + i]
  BY DEF OnTheWay
<1> HIDE DEF rest
<1>3. ASSUME NEW i \in 1 .. j PROVE data[i] = s[n + i]
  <2>1. i \in 1 .. Len(tc)
    BY <1>2
  <2> QED BY <1>1, <1>2, <2>1
<1>4. ASSUME NEW i \in 1 .. Len(tc) - j PROVE rest[i] = s[(n + j) + i]
  <2>1. j + i \in 1 .. Len(tc) /\ n + (j + i) = (n + j) + i
    BY <1>2
  <2>2. rest[i] = tc[j + i]
    BY <1>1 DEF rest
  <2> QED BY <1>2, <2>1, <2>2
<1>5. Len(rest) = Len(tc) - j
  BY <1>1 DEF rest
<1>6. OnTheWay(rest, s, n + j)
  <2>1. Len(rest) = Len(s) - (n + j)
    BY <1>2, <1>5
  <2> QED BY <1>4, <1>5, <2>1 DEF OnTheWay
<1>7. n + j <= Len(s)
  BY <1>2
<1> QED BY <1>1, <1>2, <1>3, <1>6, <1>7 DEF rest

\* What the child has sent is a reply, or nothing.
LEMMA SentIsReply ==
  ASSUME NEW c, ChildHeld(c)
  PROVE  IsReply(SentBy(child[c], url[c], line[c])) /\ SentBy(child[c], url[c], line[c]) \in Seq(Clean)
<1>1. url[c] # <<>> /\ Finds(url[c]) => line[c] \in 0 .. Len(Lines(url[c]))
  BY DEF ChildHeld, ChildAt
<1>2. IsReply(SentBy(child[c], url[c], line[c]))
  BY <1>1, SentFacts
<1> QED BY <1>2 DEF IsReply

\* What one client has received does not move its child.
LEMMA ChildStays ==
  ASSUME NEW c, ChildHeld(c), cpc[c] \notin {"connect", "send"}, cpc'[c] \notin {"connect", "send"},
         UNCHANGED <<argument[c], child[c], toServer[c], url[c], line[c]>>
  PROVE  ChildHeld(c)'
BY DEF ChildHeld, ChildAt

LEMMA ReceiveHeaderSession ==
  ASSUME SessionInv, NEW c \in Clients, ReceiveHeader(c), UNCHANGED serverVars
  PROVE  SessionTypes' /\ \A d \in Clients : SessionHeld(d)'
<1> DEFINE s == SentBy(child[c], url[c], line[c])
           tc == toClient[c]
           b == buf[c]
<1>0. /\ SessionTypes /\ ChildHeld(c) /\ ClientHeld(c)
      /\ cpc \in [Clients -> {"connect", "send", "header", "body", "done", "failed"}]
  BY DEF SessionInv, PlaceInv, TypeOK, SessionHeld
<1>1. PICK data \in FirstPart(tc, Len(tc)) :
        /\ toClient' = [toClient EXCEPT ![c] = Without(@, data)]
        /\ buf' = [buf EXCEPT ![c] = Stored(b, data)]
        /\ IF HasHeader(Stored(b, data))
           THEN /\ cpc' = [cpc EXCEPT ![c] = "body"]
                /\ output' = [output EXCEPT ![c] = @ \o CString(BodyStart(Stored(b, data)))]
           ELSE UNCHANGED <<cpc, output>>
  BY DEF ReceiveHeader, ClientTakes, Goes, Fputs
<1>2. /\ cpc[c] = "header"
      /\ UNCHANGED <<holders, toServer, reset, argument, child, url, line>>
  BY DEF ReceiveHeader, ClientTakes, serverVars, parentVars
<1> DEFINE r == Stored(b, data)
           tc2 == Without(tc, data)
           body == CString(BodyStart(r))
<1>3. tc \in Seq(Clean) /\ b \in Seq(Clean \cup {NUL}) /\ IsReply(s) /\ s \in Seq(Clean)
  BY <1>0, SentIsReply DEF SessionTypes
<1>4. PICK n \in 0 .. Len(s) :
        Takes(tc, holders[c], toServer[c], child[c], "header", b, output[c], s, n)
  BY <1>0, <1>2 DEF ClientHeld, Receives
<1>5. tc # <<>>
  <2> HIDE DEF tc
  <2>1. PICK j \in 1 .. Len(tc) : TRUE
    BY <1>3, FirstPartIs
  <2> QED BY <2>1
<1>6. OnTheWay(tc, s, n) /\ NoHeader(b, s, n) /\ output[c] = <<>>
  <2> HIDE DEF tc, s, b
  <2> QED BY <1>4, <1>5 DEF Takes, BehindHeader
<1>7. PICK m \in Nat :
        /\ m = Len(data) /\ m >= 1 /\ n + m <= Len(s)
        /\ data \in Seq(Clean) /\ \A i \in 1 .. m : data[i] = s[n + i]
        /\ tc2 \in Seq(Clean) /\ OnTheWay(tc2, s, n + m)
  <2> HIDE DEF tc, s
  <2> QED BY <1>3, <1>6, DataTaken
<1>8. r \in Seq(Clean \cup {NUL}) /\ HeaderTaken(r, s, n + m)
  <2> HIDE DEF r, s, b
  <2>1. r = Stored(b, data) /\ n \in Nat
    BY <1>4 DEF r
  <2> QED BY <1>3, <1>6, <1>7, <2>1, HeaderReceived
<1>9. IF HasHeader(r)
      THEN body \in Seq(Clean) /\ Shows(r, body, s, n + m)
      ELSE NoHeader(r, s, n + m)
  <2> HIDE DEF r, s
  <2> QED BY <1>8 DEF HeaderTaken, Shows
<1>10. n + m \in 0 .. Len(s)
  <2> HIDE DEF s
  <2>1. Len(s) \in Nat
    BY <1>3
  <2> QED BY <1>7, <2>1
<1>11. /\ toClient'[c] = tc2 /\ buf'[c] = r
       /\ HasHeader(r) => cpc'[c] = "body" /\ output'[c] = <<>> \o body
       /\ ~HasHeader(r) => cpc'[c] = "header" /\ output'[c] = <<>>
  <2>1. toClient'[c] = tc2 /\ buf'[c] = r
    BY <1>0, <1>1 DEF SessionTypes
  <2>2. HasHeader(r) => cpc'[c] = "body" /\ output'[c] = <<>> \o body
    BY <1>0, <1>1, <1>6 DEF SessionTypes
  <2>3. ~HasHeader(r) => cpc'[c] = "header" /\ output'[c] = <<>>
    BY <1>1, <1>2, <1>6
  <2> QED BY <2>1, <2>2, <2>3
<1> DEFINE out2 == output'[c]
           cp2 == cpc'[c]
<1>12. IF HasHeader(r) THEN cp2 = "body" /\ out2 = body ELSE cp2 = "header" /\ out2 = <<>>
  <2> HIDE DEF body, r
  <2>1. HasHeader(r) => <<>> \o body = body
    BY <1>9, ConcatEmptySeq
  <2> QED BY <1>11, <2>1
<1>13. out2 \in Seq(Clean)
  <2> DEFINE nothing == <<>>
  <2>1. nothing \in Seq(Clean)
    OBVIOUS
  <2>2. IF HasHeader(r) THEN out2 = body ELSE out2 = nothing
    BY <1>12
  <2> HIDE DEF body, r, out2, nothing
  <2> QED BY <1>9, <2>1, <2>2
<1>14. SessionTypes'
  <2> HIDE DEF r, tc2
  <2>1. toClient' \in [Clients -> Seq(Clean)] /\ buf' \in [Clients -> Seq(Clean \cup {NUL})]
    BY <1>0, <1>1, <1>7, <1>8 DEF SessionTypes, r, tc2
  <2>2. output' = [output EXCEPT ![c] = out2]
    <3>1. output' = output \/ \E x : output' = [output EXCEPT ![c] = x]
      BY <1>1
    <3> QED BY <1>0, <3>1 DEF SessionTypes
  <2>3. output' \in [Clients -> Seq(Clean)]
    <3> HIDE DEF out2
    <3> QED BY <1>0, <1>13, <2>2 DEF SessionTypes
  <2> QED BY <1>0, <1>2, <2>1, <2>3 DEF SessionTypes
<1>15. ASSUME NEW d \in Clients, d # c PROVE SessionHeld(d)'
  <2>1. toClient'[d] = toClient[d] /\ buf'[d] = buf[d] /\ cpc'[d] = cpc[d] /\ output'[d] = output[d]
    BY <1>0, <1>1, <1>15 DEF SessionTypes
  <2> QED BY <1>2, <1>15, <2>1, OtherClients
<1>16. Takes(tc2, holders[c], toServer[c], child[c], cp2, r, out2, s, n + m)
  <2> HIDE DEF tc2, s, r, out2, cp2, body
  <2>1. OnTheWay(tc2, s, n + m)
    BY <1>7
  <2>2. CASE HasHeader(r)
    BY <1>9, <1>12, <2>1, <2>2 DEF Takes, BehindHeader
  <2>3. CASE ~HasHeader(r)
    BY <1>9, <1>12, <2>1, <2>3 DEF Takes, BehindHeader
  <2> QED BY <2>2, <2>3
<1>17. Receives(tc2, holders[c], toServer[c], child[c], cp2, r, out2, s)
  <2> HIDE DEF tc2, s, r, out2, cp2
  <2> QED BY <1>10, <1>16 DEF Receives
<1>18. cp2 \in {"header", "body"}
  <2> HIDE DEF cp2, r, out2, body
  <2> QED BY <1>12
<1>19. ClientHeld(c)'
  <2>1. c \in reset' => cpc'[c] # "connect" /\ Lost(holders'[c], toServer'[c], child'[c])
    BY <1>0, <1>2, <1>18 DEF ClientHeld
  <2>2. Receives(toClient'[c], holders'[c], toServer'[c], child'[c], cpc'[c], buf'[c], output'[c],
                 SentBy(child'[c], url'[c], line'[c]))
    BY <1>2, <1>11, <1>17
  <2> QED BY <1>18, <2>1, <2>2 DEF ClientHeld
<1>20. ChildHeld(c)'
  BY <1>0, <1>2, <1>18, ChildStays
<1> QED BY <1>14, <1>15, <1>19, <1>20 DEF SessionHeld

LEMMA ReceiveBodySession ==
  ASSUME SessionInv, NEW c \in Clients, ReceiveBody(c), UNCHANGED serverVars
  PROVE  SessionTypes' /\ \A d \in Clients : SessionHeld(d)'
<1> DEFINE s == SentBy(child[c], url[c], line[c])
           tc == toClient[c]
           out == output[c]
<1>0. SessionTypes /\ ChildHeld(c) /\ ClientHeld(c)
  BY DEF SessionInv, SessionHeld
<1>1. PICK data \in FirstPart(tc, Len(tc)) :
        /\ toClient' = [toClient EXCEPT ![c] = Without(@, data)]
        /\ output' = [output EXCEPT ![c] = @ \o CString(data)]
  BY DEF ReceiveBody, ClientTakes, Fputs
<1>2. /\ cpc[c] = "body"
      /\ UNCHANGED <<holders, toServer, reset, argument, child, url, line, cpc, buf>>
  BY DEF ReceiveBody, ClientTakes, serverVars, parentVars
<1> DEFINE tc2 == Without(tc, data)
           out2 == out \o CString(data)
<1>3. tc \in Seq(Clean) /\ out \in Seq(Clean) /\ s \in Seq(Clean)
  BY <1>0, SentIsReply DEF SessionTypes
<1>4. PICK n \in 0 .. Len(s) :
        Takes(tc, holders[c], toServer[c], child[c], "body", buf[c], out, s, n)
  BY <1>0, <1>2 DEF ClientHeld, Receives
<1>5. tc # <<>>
  <2> HIDE DEF tc
  <2>1. PICK j \in 1 .. Len(tc) : TRUE
    BY <1>3, FirstPartIs
  <2> QED BY <2>1
<1>6. OnTheWay(tc, s, n) /\ Shows(buf[c], out, s, n)
  <2> HIDE DEF tc, s, out
  <2> QED BY <1>4, <1>5 DEF Takes, BehindHeader
<1>7. PICK m \in Nat :
        /\ m = Len(data) /\ m >= 1 /\ n + m <= Len(s)
        /\ data \in Seq(Clean) /\ \A i \in 1 .. m : data[i] = s[n + i]
        /\ tc2 \in Seq(Clean) /\ OnTheWay(tc2, s, n + m)
  <2> HIDE DEF tc, s
  <2> QED BY <1>3, <1>6, DataTaken
<1>8. out2 \in Seq(Clean) /\ Shows(buf[c], out2, s, n + m)
  <2> HIDE DEF s, out
  <2> QED BY <1>3, <1>6, <1>7, BodyReceived
<1>9. n + m \in 0 .. Len(s)
  <2> HIDE DEF s
  <2>1. Len(s) \in Nat
    BY <1>3
  <2> QED BY <1>7, <2>1
<1>10. toClient'[c] = tc2 /\ output'[c] = out2
  BY <1>0, <1>1 DEF SessionTypes
<1>11. SessionTypes'
  <2> HIDE DEF tc2, out2
  <2>1. toClient' \in [Clients -> Seq(Clean)] /\ output' \in [Clients -> Seq(Clean)]
    BY <1>0, <1>1, <1>7, <1>8 DEF SessionTypes, tc2, out2
  <2> QED BY <1>0, <1>2, <2>1 DEF SessionTypes
<1>12. ASSUME NEW d \in Clients, d # c PROVE SessionHeld(d)'
  <2>1. toClient'[d] = toClient[d] /\ output'[d] = output[d]
    BY <1>0, <1>1, <1>12 DEF SessionTypes
  <2> QED BY <1>2, <1>12, <2>1, OtherClients
<1>13. Takes(tc2, holders[c], toServer[c], child[c], "body", buf[c], out2, s, n + m)
  <2> HIDE DEF tc2, s, out2
  <2> QED BY <1>7, <1>8 DEF Takes, BehindHeader
<1>14. Receives(tc2, holders[c], toServer[c], child[c], "body", buf[c], out2, s)
  <2> HIDE DEF tc2, s, out2
  <2> QED BY <1>9, <1>13 DEF Receives
<1>15. ClientHeld(c)'
  <2>1. c \in reset' => cpc'[c] # "connect" /\ Lost(holders'[c], toServer'[c], child'[c])
    BY <1>0, <1>2 DEF ClientHeld
  <2>2. Receives(toClient'[c], holders'[c], toServer'[c], child'[c], cpc'[c], buf'[c], output'[c],
                 SentBy(child'[c], url'[c], line'[c]))
    BY <1>2, <1>10, <1>14
  <2> QED BY <1>2, <2>1, <2>2 DEF ClientHeld
<1>16. ChildHeld(c)'
  BY <1>0, <1>2, ChildStays
<1> QED BY <1>11, <1>12, <1>15, <1>16 DEF SessionHeld

\* A loop ends, with the stream or with a reset.
LEMMA LoopEndsSession ==
  ASSUME SessionInv, NEW c \in Clients, HeaderEnds(c) \/ BodyEnds(c), UNCHANGED serverVars
  PROVE  SessionTypes' /\ \A d \in Clients : SessionHeld(d)'
<1> DEFINE s == SentBy(child[c], url[c], line[c])
           tc == toClient[c]
<1>0. /\ SessionTypes /\ ChildHeld(c) /\ ClientHeld(c)
      /\ cpc \in [Clients -> {"connect", "send", "header", "body", "done", "failed"}]
  BY DEF SessionInv, PlaceInv, TypeOK, SessionHeld
<1>1. PICK to \in BehindHeader :
        /\ cpc' = [cpc EXCEPT ![c] = to] /\ cpc[c] \in {"header", "body"}
        /\ to = "failed" => c \in reset
  BY DEF HeaderEnds, BodyEnds, Goes, ClientTakesReset, BehindHeader
<1>2. /\ UNCHANGED <<holders, toServer, toClient, argument, child, url, line, buf, output>>
      /\ tc = <<>> /\ reset' \subseteq reset
      /\ holders[c] = {} \/ c \in reset
  BY DEF HeaderEnds, BodyEnds, ClientTakesReset, ClientTakesEnd, ServerClosed, streams,
         serverVars, parentVars
<1>3. cpc'[c] = to
  BY <1>0, <1>1
<1>4. holders[c] = {} /\ (to = "failed" => Lost(holders[c], toServer[c], child[c]))
  BY <1>0, <1>1, <1>2 DEF ClientHeld, Lost
<1>5. SessionTypes'
  BY <1>0, <1>2, TextsStay
<1>6. ASSUME NEW d \in Clients, d # c PROVE SessionHeld(d)'
  <2>1. cpc'[d] = cpc[d]
    BY <1>0, <1>1, <1>6
  <2> QED BY <1>2, <1>6, <2>1, OtherClients
<1>7. PICK n \in 0 .. Len(s) :
        Takes(tc, holders[c], toServer[c], child[c], cpc[c], buf[c], output[c], s, n)
  BY <1>0 DEF ClientHeld, Receives
<1>8. Takes(tc, holders[c], toServer[c], child[c], to, buf[c], output[c], s, n)
  <2> HIDE DEF tc, s
  <2> QED BY <1>1, <1>2, <1>4, <1>7 DEF Takes, BehindHeader
<1>9. Receives(tc, holders[c], toServer[c], child[c], to, buf[c], output[c], s)
  <2> HIDE DEF tc, s
  <2> QED BY <1>8 DEF Receives
<1>10. to \notin {"connect", "send"}
  BY DEF BehindHeader
<1>11. ClientHeld(c)'
  <2>1. c \in reset' => cpc'[c] # "connect" /\ Lost(holders'[c], toServer'[c], child'[c])
    BY <1>0, <1>2, <1>3, <1>10 DEF ClientHeld
  <2>2. Receives(toClient'[c], holders'[c], toServer'[c], child'[c], cpc'[c], buf'[c], output'[c],
                 SentBy(child'[c], url'[c], line'[c]))
    BY <1>2, <1>3, <1>9
  <2> QED BY <1>2, <1>3, <1>4, <2>1, <2>2 DEF ClientHeld
<1>12. ChildHeld(c)'
  BY <1>0, <1>1, <1>2, <1>3, <1>10, ChildStays
<1> QED BY <1>5, <1>6, <1>11, <1>12 DEF SessionHeld

\* A reset takes what is on the way with it.
LEMMA LoseUnreadSession ==
  ASSUME SessionInv, NEW c \in Clients, LoseUnread(c), UNCHANGED <<serverVars, clientVars>>
  PROVE  SessionTypes' /\ \A d \in Clients : SessionHeld(d)'
<1> DEFINE s == SentBy(child[c], url[c], line[c])
<1>0. SessionTypes /\ ChildHeld(c) /\ ClientHeld(c)
  BY DEF SessionInv, SessionHeld
<1>1. /\ c \in reset /\ toClient' = [toClient EXCEPT ![c] = <<>>]
      /\ UNCHANGED <<holders, toServer, reset, argument, child, url, line, cpc, buf, output>>
  BY DEF LoseUnread, serverVars, parentVars, clientVars
<1>2. toClient'[c] = <<>> /\ \A d \in Clients \ {c} : toClient'[d] = toClient[d]
  BY <1>0, <1>1 DEF SessionTypes
<1>3. SessionTypes'
  <2>1. <<>> \in Seq(Clean)
    OBVIOUS
  <2> QED BY <1>0, <1>1, <2>1 DEF SessionTypes
<1>4. ASSUME NEW d \in Clients, d # c PROVE SessionHeld(d)'
  BY <1>1, <1>2, <1>4, OtherClients
<1>5. Lost(holders[c], toServer[c], child[c])
  BY <1>0, <1>1 DEF ClientHeld
<1>6. PICK n \in 0 .. Len(s) :
        Takes(toClient[c], holders[c], toServer[c], child[c], cpc[c], buf[c], output[c], s, n)
  BY <1>0 DEF ClientHeld, Receives
<1>7. Takes(<<>>, holders[c], toServer[c], child[c], cpc[c], buf[c], output[c], s, n)
  <2> HIDE DEF s
  <2> QED BY <1>5, <1>6 DEF Takes, Lost
<1>8. Receives(<<>>, holders[c], toServer[c], child[c], cpc[c], buf[c], output[c], s)
  <2> HIDE DEF s
  <2> QED BY <1>7 DEF Receives
<1>9. ClientHeld(c)'
  <2>1. Receives(toClient'[c], holders'[c], toServer'[c], child'[c], cpc'[c], buf'[c], output'[c],
                 SentBy(child'[c], url'[c], line'[c]))
    BY <1>1, <1>2, <1>8
  <2> QED BY <1>0, <1>1, <1>2, <2>1 DEF ClientHeld
<1>10. ChildHeld(c)'
  BY <1>0, <1>1 DEF ChildHeld
<1> QED BY <1>3, <1>4, <1>9, <1>10 DEF SessionHeld

LEMMA NextSession == SessionInv /\ PlaceInv' /\ [Next]_vars => SessionInv'
<1> SUFFICES ASSUME SessionInv, PlaceInv', [Next]_vars PROVE SessionInv'
  OBVIOUS
<1>0. SessionTypes /\ \A c \in Clients : SessionHeld(c)
  BY DEF SessionInv
<1>2. CASE (Parent \/ Handler) /\ UNCHANGED <<url, line>> /\ UNCHANGED clientVars
  <2>1. UNCHANGED <<url, line, clientVars>>
    BY <1>2
  <2>2. UNCHANGED <<toServer, toClient>>
    BY <1>2 DEF Parent, Listen, Accept, Fork, ForkFails, CloseNewFd, Close, Handler,
                HandlerStarts, HandlerReturns, Reap, streams
  <2>3. SessionTypes'
    BY <1>0, <2>1, <2>2, TextsStay DEF clientVars
  <2>4. ASSUME NEW d \in Clients PROVE SessionHeld(d)'
    BY <1>2, <2>1, ParentSession, HandlerSession
  <2> QED BY <2>3, <2>4 DEF SessionInv
<1>3. ASSUME NEW c \in Clients, Child(c), UNCHANGED clientVars PROVE SessionInv'
  <2>1. CASE End(c)
    <3>1. UNCHANGED <<toServer, toClient, url>>
      BY <2>1 DEF End, Exit, Close
    <3>2. SessionTypes'
      BY <1>0, <1>3, <3>1, TextsStay DEF clientVars
    <3>3. ASSUME NEW d \in Clients PROVE SessionHeld(d)'
      BY <1>3, <2>1, EndSession
    <3> QED BY <3>2, <3>3 DEF SessionInv
  <2>2. CASE ReadMethod(c)
    BY <1>3, <2>2, ReadMethodSession DEF SessionInv
  <2>3. CASE ReadUrl(c)
    BY <1>3, <2>3, ReadUrlSession DEF SessionInv
  <2>4. CASE WriteLine(c)
    BY <1>3, <2>4, WriteLineSession DEF SessionInv
  <2> QED BY <1>3, <2>1, <2>2, <2>3, <2>4 DEF Child
<1>4. ASSUME NEW c \in Clients, Client(c), UNCHANGED serverVars PROVE SessionInv'
  <2>1. CASE Connect(c) \/ ConnectFails(c)
    BY <1>4, <2>1, ConnectSession DEF SessionInv
  <2>2. CASE SendRequest(c)
    BY <1>4, <2>2, SendRequestSession DEF SessionInv
  <2>3. CASE ReceiveHeader(c)
    BY <1>4, <2>3, ReceiveHeaderSession DEF SessionInv
  <2>4. CASE HeaderEnds(c) \/ BodyEnds(c)
    BY <1>4, <2>4, LoopEndsSession DEF SessionInv
  <2>5. CASE ReceiveBody(c)
    BY <1>4, <2>5, ReceiveBodySession DEF SessionInv
  <2> QED BY <1>4, <2>1, <2>2, <2>3, <2>4, <2>5 DEF Client
<1>5. CASE \E c \in Clients : LoseUnread(c) /\ UNCHANGED <<serverVars, clientVars>>
  BY <1>5, LoseUnreadSession DEF SessionInv
<1>6. CASE UNCHANGED vars
  <2>1. UNCHANGED <<holders, toServer, toClient, reset, argument, child, url, line, cpc, buf, output>>
    BY <1>6 DEF vars, streams, serverVars, parentVars, clientVars
  <2>2. SessionTypes'
    BY <1>0, <2>1, TextsStay
  <2>3. ASSUME NEW d \in Clients PROVE SessionHeld(d)'
    BY <1>0, <2>1, SessionSame
  <2> QED BY <2>2, <2>3 DEF SessionInv
<1> QED BY <1>2, <1>3, <1>4, <1>5, <1>6 DEF Next, Server

\* A text up to n, without the size pieces from gap on.
LEMMA PiecesMissing ==
  ASSUME NEW text \in Seq(Clean), NEW n \in 1 .. Len(text), NEW size \in Nat,
         NEW gap \in 1 .. n - size + 1, NEW out \in Seq(Clean), Len(out) = n - size,
         \A i \in 1 .. Len(out) : out[i] = IF i < gap THEN text[i] ELSE text[i + size]
  PROVE  out = SubSeq(text, 1, gap - 1) \o SubSeq(text, gap + size, n)
<1> DEFINE C == Clean
           a == SubSeq(text, 1, gap - 1)
           b == SubSeq(text, gap + size, n)
           t == a \o b
           l == gap - 1
           k == (n - size) - l
<1>0. /\ Len(text) \in Nat /\ n \in Nat /\ gap \in Nat /\ n <= Len(text) /\ l \in Nat
      /\ l <= Len(text) /\ k \in Nat /\ text \in Seq(C)
  OBVIOUS
<1> HIDE DEF C
<1>1. a \in Seq(C) /\ Len(a) = l /\ \A i \in 1 .. l : a[i] = text[i]
  BY <1>0
<1>2. b \in Seq(C) /\ Len(b) = k /\ \A i \in 1 .. k : b[i] = text[(l + size) + i]
  <2>1. gap + size \in Nat /\ gap + size >= 1 /\ gap + size <= n + 1
        /\ n - (gap + size) + 1 = k /\ (gap + size) - 1 = l + size
    BY <1>0
  <2> DEFINE g == gap + size
  <2> HIDE DEF k, l, g
  <2>2. g \in Nat /\ g >= 1 /\ g <= n + 1 /\ n - g + 1 = k /\ g - 1 = l + size /\ b = SubSeq(text, g, n)
    BY <2>1 DEF g
  <2> HIDE DEF b
  <2>3. b \in Seq(C) /\ Len(b) = k /\ \A i \in 1 .. k : b[i] = text[(g - 1) + i]
    BY <1>0, <2>2
  <2> QED BY <2>2, <2>3
<1> HIDE DEF a, b
<1>3. t \in Seq(C) /\ IsJoined(t, a, b)
  BY <1>1, <1>2, JoinedIs
<1> HIDE DEF t
<1>4. /\ Len(t) = l + k /\ \A i \in 1 .. l : a[i] = t[i]
      /\ \A i \in 1 .. k : t[l + i] = b[i]
  BY <1>1, <1>2, <1>3 DEF IsJoined, Begins
<1>5. Len(t) = Len(out) /\ Len(out) = l + k
  BY <1>0, <1>4
<1>6. ASSUME NEW i \in 1 .. Len(out) PROVE t[i] = out[i]
  <2>1. CASE i < gap
    <3>1. i \in 1 .. l
      BY <1>0, <2>1
    <3> QED BY <1>1, <1>4, <2>1, <3>1
  <2>2. CASE ~(i < gap)
    <3> DEFINE j == i - l
    <3>1. j \in 1 .. k /\ l + j = i /\ (l + size) + j = i + size
      BY <1>0, <1>5, <2>2
    <3> HIDE DEF j, k, l
    <3>2. t[i] = b[j]
      BY <1>4, <3>1
    <3>3. b[j] = text[i + size]
      BY <1>2, <3>1
    <3> QED BY <2>2, <3>2, <3>3
  <2> QED BY <2>1, <2>2
<1>7. t = out
  <2>1. out \in Seq(C) /\ t \in Seq(C) /\ Len(t) = Len(out)
    BY <1>3, <1>5 DEF C
  <2>2. \A i \in 1 .. Len(out) : t[i] = out[i]
    BY <1>6
  <2> QED BY <2>1, <2>2
<1> QED BY <1>7 DEF t, a, b

\* What the child read leads to the file that was asked for, or, when the request was
\* cut, to one whose path begins that of the file.
LEMMA UrlLeads ==
  ASSUME NEW c \in Clients, SessionTypes, ChildHeld(c), url[c] # <<>>
  PROVE  /\ IsPrefix(PathOf(url[c]), Meant(c))
         /\ toServer[c] = <<>> => PathOf(url[c]) = Meant(c)
<1> DEFINE u == url[c]
           path == Path(argument[c])
           rest == Rest(argument[c])
           n == Len(path)
           p == PathOf(u)
           l == Len(p)
           ts == toServer[c]
<1>1. u \in Seq(Asked) /\ ts \in Seq(Asked)
  BY DEF SessionTypes
<1>2. /\ path \in Seq(Asked) /\ \A i \in 1 .. n : path[i] # Blank
      /\ path = Meant(c)
  <2>1. NamesServer(argument[c]) /\ argument[c] \in Arguments[c]
    BY DEF ChildHeld, ChildAt
  <2> QED BY <2>1, PathFacts
<1>3. Begins(u, rest) /\ Len(u) + Len(ts) = Len(rest)
  BY DEF ChildHeld, ChildAt
<1>4. rest = path \o RestOfRequest
  BY DEF Rest
<1> HIDE DEF u, path, rest, ts
<1>5. /\ n \in Nat /\ Len(rest) \in Nat /\ n + 1 <= Len(rest) /\ rest[n + 1] = Blank
      /\ \A i \in 1 .. n : rest[i] = path[i]
  <2>1. n = Len(path) /\ rest \in Seq(Asked)
    BY <1>2, <1>4, WithBlank
  <2>2. Len(rest) \in Nat
    BY <2>1
  <2> HIDE DEF n
  <2>3. AsksFor(rest, path, n)
    BY <1>2, <1>4, <2>1, WithBlank
  <2> QED BY <2>2, <2>3 DEF AsksFor
<1>6. /\ p \in Seq(Asked) /\ l <= Len(u) /\ \A i \in 1 .. l : p[i] = u[i] /\ u[i] # Blank
      /\ l < Len(u) => u[l + 1] = Blank
  <2>1. p = Before(u, Blank)
    BY DEF PathOf
  <2>2. /\ Before(u, Blank) \in Seq(Asked) /\ Len(Before(u, Blank)) <= Len(u)
        /\ \A i \in 1 .. Len(Before(u, Blank)) : Before(u, Blank)[i] = u[i] /\ u[i] # Blank
        /\ Len(Before(u, Blank)) < Len(u) => u[Len(Before(u, Blank)) + 1] = Blank
    BY <1>1, BeforeFacts
  <2> QED BY <2>1, <2>2
<1> HIDE DEF p
<1>7. /\ l \in Nat /\ Len(u) \in Nat /\ Len(ts) \in Nat
      /\ Len(u) <= Len(rest) /\ \A i \in 1 .. Len(u) : u[i] = rest[i]
  BY <1>1, <1>3, <1>5, <1>6 DEF Begins
<1> HIDE DEF n, l
<1>8. l <= n
  <2> SUFFICES ASSUME ~(l <= n) PROVE FALSE
    OBVIOUS
  <2>1. n + 1 \in 1 .. l /\ n + 1 \in 1 .. Len(u)
    BY <1>5, <1>6, <1>7
  <2> QED BY <1>5, <1>6, <1>7, <2>1
<1>9. ASSUME NEW i \in 1 .. l PROVE p[i] = path[i]
  <2>1. i \in 1 .. Len(u) /\ i \in 1 .. n
    BY <1>5, <1>6, <1>7, <1>8
  <2> QED BY <1>5, <1>6, <1>7, <2>1
<1>10. IsPrefix(p, path)
  <2>1. SubSeq(p, 1, l) = p
    BY <1>6 DEF l
  <2> DEFINE first == SubSeq(path, 1, l)
  <2>2. first \in Seq(Asked) /\ Len(first) = l /\ \A i \in 1 .. l : first[i] = path[i]
    <3> DEFINE A == Asked
    <3>1. path \in Seq(A) /\ l <= Len(path)
      BY <1>2, <1>8 DEF n
    <3> HIDE DEF A
    <3>2. first \in Seq(A) /\ Len(first) = l /\ \A i \in 1 .. l : first[i] = path[i]
      BY <1>7, <3>1
    <3> QED BY <3>2 DEF A
  <2> HIDE DEF first
  <2>3. first = p
    <3>1. Len(p) = l
      BY DEF l
    <3> QED BY <1>6, <1>9, <2>2, <3>1
  <2> QED BY <1>8, <2>1, <2>3 DEF IsPrefix, first, l, n
<1>11. ASSUME ts = <<>> PROVE p = path
  <2>1. Len(u) = Len(rest)
    <3>1. Len(ts) = 0
      BY <1>11
    <3> QED BY <1>3, <1>5, <1>7, <3>1
  <2>2. ~(l < n)
    <3> SUFFICES ASSUME l < n PROVE FALSE
      OBVIOUS
    <3>1. l + 1 \in 1 .. n /\ l + 1 \in 1 .. Len(u) /\ l < Len(u)
      BY <1>5, <1>7, <2>1
    <3>2. rest[l + 1] = path[l + 1] /\ u[l + 1] = rest[l + 1] /\ u[l + 1] = Blank
      BY <1>5, <1>6, <1>7, <3>1
    <3>3. path[l + 1] # Blank
      BY <1>2, <3>1 DEF n
    <3> QED BY <3>2, <3>3
  <2>3. l = n
    BY <1>5, <1>7, <1>8, <2>2
  <2>4. Len(p) = n /\ Len(path) = n
    BY <2>3 DEF l, n
  <2> QED BY <1>2, <1>6, <1>9, <2>3, <2>4
<1> QED BY <1>2, <1>10, <1>11 DEF p, u, ts

LEMMA TextIs ==
  ASSUME NEW c \in Clients
  PROVE  Text(c) = IF Finds(url[c]) THEN FlattenSeq(Lines(url[c])) ELSE <<>>
BY DEF Text, Found, Finds, Lines

\* Where the client has taken the header and more, the child has read the request,
\* and found the file: the other replies are a header.
LEMMA TakenIsSent ==
  ASSUME NEW ch, NEW u, NEW k, NEW s, s = SentBy(ch, u, k), NEW h, IsHeaded(s, h)
  PROVE  /\ ch \notin {"none", "born", "url"}
         /\ h < Len(s) => u # <<>> /\ Finds(u)
<1>1. s # <<>>
  <2>1. h >= 1 /\ h <= Len(s) /\ h \in Nat
    BY HeaderEndIs DEF IsHeaded
  <2>2. Len(<<>>) = 0
    OBVIOUS
  <2> QED BY <2>1, <2>2
<1>2. ch \notin {"none", "born", "url"}
  BY <1>1 DEF SentBy
<1>3. ASSUME ~(u # <<>> /\ Finds(u)) PROVE ~(h < Len(s))
  <2>1. s = Reply("400") \/ s = Reply("404")
    BY <1>2, <1>3 DEF SentBy
  <2>2. Len(s) \in Nat /\ IsHeaded(s, Len(s))
    BY <2>1, ReplyIs
  <2>3. h = Len(s)
    BY <2>2, HeadedOnce
  <2> QED BY <2>2, <2>3
<1> QED BY <1>2, <1>3

LEMMA SessionInOrder == SessionInv => OutputInOrder
<1> SUFFICES ASSUME SessionInv, NEW c \in Clients, output[c] # <<>>
             PROVE  /\ IsPrefix(PathOf(url[c]), Meant(c))
                    /\ \E n \in DOMAIN Text(c) : \E size \in 0 .. Len(Reply("200")) - 1 :
                         \E gap \in 1 .. n - size + 1 :
                           output[c] = SubSeq(Text(c), 1, gap - 1) \o SubSeq(Text(c), gap + size, n)
  BY DEF OutputInOrder
<1> DEFINE u == url[c]
           k == line[c]
           ch == child[c]
           out == output[c]
           s == SentBy(ch, u, k)
           text == FlattenSeq(Lines(u))
           head == Len(Reply("200"))
<1>1. SessionTypes /\ ChildHeld(c) /\ ClientHeld(c) /\ out \in Seq(Clean)
  BY DEF SessionInv, SessionHeld, SessionTypes
<1>2. PICK n \in 0 .. Len(s) : \E h \in Nat : \E g \in Nat : \E w \in Nat :
        IsHeaded(s, h) /\ IsShown(out, s, n, h, g, w)
  BY <1>1 DEF ClientHeld, Receives, Takes, Shows
<1>3. PICK h \in Nat : \E g \in Nat : \E w \in Nat :
        IsHeaded(s, h) /\ IsShown(out, s, n, h, g, w)
  BY <1>2
<1>4. PICK g \in Nat : \E w \in Nat : IsHeaded(s, h) /\ IsShown(out, s, n, h, g, w)
  BY <1>3
<1>5. PICK w \in Nat : IsHeaded(s, h) /\ IsShown(out, s, n, h, g, w)
  BY <1>4
<1>6. u # <<>> /\ Finds(u) => k \in 0 .. Len(Lines(u))
  BY <1>1 DEF ChildHeld, ChildAt
<1>7. Len(s) \in Nat
  <2>1. IsReply(s)
    BY <1>6, SentFacts
  <2> HIDE DEF s
  <2> QED BY <2>1 DEF IsReply
<1>8. Len(out) \in Nat /\ Len(out) # 0
  <2> DEFINE o == output[c]
             C == Clean
  <2>1. o \in Seq(C) /\ o # <<>>
    BY <1>1
  <2> HIDE DEF o, C
  <2>2. Len(o) \in Nat /\ Len(o) # 0
    BY <2>1
  <2> QED BY <2>2 DEF o
<1> HIDE DEF s, text, head
<1>9. /\ n \in Nat /\ n <= Len(s) /\ h <= n /\ w < h /\ g >= h + 1 /\ g + w <= n + 1
      /\ Len(out) = (n - h) - w
      /\ \A i \in 1 .. Len(out) : out[i] = IF i + h < g THEN s[i + h] ELSE s[(i + h) + w]
  <2>1. IsShown(out, s, n, h, g, w)
    BY <1>5
  <2>2. n \in Nat /\ n <= Len(s)
    BY <1>7
  <2> HIDE DEF out
  <2> QED BY <2>1, <2>2 DEF IsShown
<1> HIDE DEF out
<1>10. h < Len(s)
  BY <1>7, <1>8, <1>9
<1>11. ch \notin {"none", "born", "url"} /\ u # <<>> /\ Finds(u)
  <2>1. s = SentBy(ch, u, k)
    BY DEF s
  <2> HIDE DEF ch, u, k
  <2> QED BY <1>5, <1>10, <2>1, TakenIsSent
<1>12. IsOfFile(s, head, text)
  <2>1. s = SentBy(ch, u, k) /\ text = FlattenSeq(Lines(u)) /\ head = Len(Reply("200"))
    BY DEF s, text, head
  <2>2. k \in 0 .. Len(Lines(u)) /\ u # <<>> /\ Finds(u)
    BY <1>6, <1>11
  <2>3. ch \notin {"none", "born", "url"}
    BY <1>11
  <2> HIDE DEF ch, u, k
  <2> QED BY <2>1, <2>2, <2>3, LinesSent
<1>13. /\ h = head /\ text \in Seq(Clean) /\ Len(s) <= Len(text) + h
       /\ \A i \in 1 .. Len(s) - h : s[h + i] = text[i]
  <2>1. h = head
    BY <1>5, <1>12, HeadedOnce DEF IsOfFile
  <2> QED BY <1>12, <2>1 DEF IsOfFile
<1>14. Text(c) = text
  BY <1>11, TextIs DEF text
<1> DEFINE m == n - h
           gap == g - h
<1>15. Len(text) \in Nat
  <2> DEFINE C == Clean
  <2>1. text \in Seq(C)
    BY <1>13
  <2> HIDE DEF C
  <2> QED BY <2>1
<1>16. /\ m \in 1 .. Len(text) /\ w \in 0 .. head - 1 /\ gap \in 1 .. m - w + 1
       /\ Len(out) = m - w
  <2>1. Len(s) <= Len(text) + h /\ h = head
    BY <1>13
  <2> HIDE DEF m, gap
  <2>2. m \in 1 .. Len(text) /\ Len(out) = m - w
    BY <1>7, <1>8, <1>9, <1>15, <2>1 DEF m
  <2>3. gap \in 1 .. m - w + 1
    BY <1>7, <1>9 DEF m, gap
  <2>4. w \in 0 .. head - 1
    BY <1>9, <2>1
  <2> QED BY <2>2, <2>3, <2>4
<1>17. ASSUME NEW i \in 1 .. Len(out)
       PROVE  out[i] = IF i < gap THEN text[i] ELSE text[i + w]
  <2>1. out[i] = IF i + h < g THEN s[i + h] ELSE s[(i + h) + w]
    BY <1>9
  <2>2. i + h < g <=> i < gap
    BY <1>8
  <2>3. i \in 1 .. Len(s) - h /\ h + i = i + h
    BY <1>7, <1>8, <1>9
  <2>4. i + w \in 1 .. Len(s) - h /\ h + (i + w) = (i + h) + w
    BY <1>7, <1>8, <1>9
  <2>5. s[i + h] = text[i]
    BY <1>13, <2>3
  <2>6. s[(i + h) + w] = text[i + w]
    BY <1>13, <2>4
  <2> HIDE DEF gap
  <2> QED BY <2>1, <2>2, <2>5, <2>6
<1> HIDE DEF m, gap
<1>18. out = SubSeq(text, 1, gap - 1) \o SubSeq(text, gap + w, m)
  <2>1. out \in Seq(Clean)
    BY <1>1
  <2> QED BY <1>13, <1>16, <1>17, <2>1, PiecesMissing
<1>19. m \in DOMAIN text
  <2> DEFINE C == Clean
  <2>1. text \in Seq(C)
    BY <1>13
  <2> HIDE DEF C
  <2> QED BY <1>16, <2>1
<1>20. IsPrefix(PathOf(url[c]), Meant(c))
  BY <1>1, <1>11, UrlLeads
<1> QED BY <1>14, <1>16, <1>18, <1>19, <1>20 DEF out, head

LEMMA SessionComplete == SessionInv => OutputComplete
<1> SUFFICES ASSUME SessionInv, NEW c \in Clients, cpc[c] \in {"done", "failed"},
                    url[c] # <<>>, toServer[c] = <<>>, ~Contains(buf[c], NUL)
             PROVE  cpc[c] = "done" /\ PathOf(url[c]) = Meant(c) /\ output[c] = Text(c)
  BY DEF OutputComplete
<1> DEFINE u == url[c]
           k == line[c]
           ch == child[c]
           out == output[c]
           s == SentBy(ch, u, k)
           text == FlattenSeq(Lines(u))
           head == IF Finds(u) THEN Len(Reply("200")) ELSE Len(Reply("404"))
<1>1. /\ SessionTypes /\ ChildHeld(c) /\ ClientHeld(c) /\ out \in Seq(Clean)
      /\ PlaceInv /\ toClient[c] = <<>> /\ holders[c] = {}
  BY DEF SessionInv, SessionHeld, SessionTypes, ClientHeld
<1>2. PathOf(url[c]) = Meant(c)
  BY <1>1, UrlLeads
<1>3. ch \in ChildStates /\ ch \notin {"none", "born", "url"}
  BY <1>1 DEF ChildHeld, ChildAt, PlaceInv, TypeOK
<1>4. ch \in {"zombie", "reaped"}
  <2>1. ~Working(c)
    BY <1>1 DEF PlaceInv, OnePlace
  <2> QED BY <1>3, <2>1 DEF Working, ChildStates
<1>5. ~Lost(holders[c], toServer[c], child[c])
  BY <1>3 DEF Lost
<1>6. cpc[c] = "done"
  BY <1>1, <1>5 DEF ClientHeld
<1>7. PICK n \in 0 .. Len(s) :
        Takes(toClient[c], holders[c], toServer[c], child[c], cpc[c], buf[c], out, s, n)
  BY <1>1 DEF ClientHeld, Receives
<1>8. Finds(u) => k = Len(Lines(u)) /\ k \in 0 .. Len(Lines(u))
  BY <1>1, <1>4 DEF ChildHeld, ChildAt
<1>9. Finds(u) => IsOfFile(s, head, text) /\ Len(s) = Len(text) + head
  <2> SUFFICES ASSUME Finds(u) PROVE IsOfFile(s, head, text) /\ Len(s) = Len(text) + head
    OBVIOUS
  <2>1. s = SentBy(ch, u, k) /\ text = FlattenSeq(Lines(u)) /\ head = Len(Reply("200"))
        /\ u # <<>>
    OBVIOUS
  <2> HIDE DEF ch, u, k, s, text, head
  <2> QED BY <1>3, <1>8, <2>1, LinesSent
<1>10. ~Finds(u) => s \in Seq(Clean) /\ IsHeaded(s, head) /\ Len(s) = head
  <2> SUFFICES ASSUME ~Finds(u) PROVE s \in Seq(Clean) /\ IsHeaded(s, head) /\ Len(s) = head
    OBVIOUS
  <2>1. s = Reply("404") /\ head = Len(Reply("404"))
    BY <1>3 DEF SentBy
  <2> HIDE DEF s, head
  <2> QED BY <2>1, ReplyIs
<1> HIDE DEF s, head
<1>11. s \in Seq(Clean) /\ IsHeaded(s, head)
  BY <1>9, <1>10 DEF IsOfFile
<1>12. Len(s) \in Nat /\ head \in Nat /\ head <= Len(s)
  BY <1>11 DEF IsHeaded
<1>13. n = Len(s)
  <2>1. OnTheWay(<<>>, s, n)
    BY <1>1, <1>5, <1>7 DEF Takes
  <2>2. Len(<<>>) = 0
    OBVIOUS
  <2> QED BY <1>12, <2>1, <2>2 DEF OnTheWay
<1>14. ~NoHeader(buf[c], s, n)
  <2> SUFFICES ASSUME NoHeader(buf[c], s, n) PROVE FALSE
    OBVIOUS
  <2>1. n # 0
    BY <1>11, <1>12, <1>13, HeaderEndIs DEF IsHeaded
  <2>2. PICK h \in Nat : IsHeaded(s, h) /\ IsHidden(buf[c], s, n, h)
    BY <2>1 DEF NoHeader
  <2>3. ~(n < h)
    BY <1>12, <1>13, <2>2 DEF IsHeaded
  <2>4. PICK z \in Nat : z >= 1 /\ z <= Len(buf[c]) /\ buf[c][z] = NUL
    BY <2>2, <2>3 DEF IsHidden
  <2>5. Len(buf[c]) \in Nat
    BY <1>1 DEF SessionTypes
  <2>6. z \in 1 .. Len(buf[c])
    BY <2>4, <2>5
  <2> QED BY <2>4, <2>6 DEF Contains
<1>15. Shows(buf[c], out, s, n)
  BY <1>7, <1>14 DEF Takes
<1>16. PICK h \in Nat : \E g \in Nat : IsHeaded(s, h) /\ IsShown(out, s, n, h, g, 0)
  BY <1>15 DEF Shows
<1>17. PICK g \in Nat : IsHeaded(s, h) /\ IsShown(out, s, n, h, g, 0)
  BY <1>16
<1>18. h = head
  BY <1>11, <1>17, HeadedOnce
<1>19. Len(out) = Len(s) - head /\ \A i \in 1 .. Len(out) : out[i] = s[head + i]
  <2> DEFINE zero == 0
  <2>1. zero = 0 /\ IsShown(out, s, n, h, g, zero)
    BY <1>17
  <2> HIDE DEF zero, out
  <2>2. /\ Len(out) = (n - h) - zero
        /\ \A i \in 1 .. Len(out) : out[i] = IF i + h < g THEN s[i + h] ELSE s[(i + h) + zero]
    BY <2>1 DEF IsShown
  <2>3. Len(out) = Len(s) - head
    BY <1>12, <1>13, <1>18, <2>1, <2>2
  <2>4. ASSUME NEW i \in 1 .. Len(out) PROVE out[i] = s[head + i]
    <3>1. i + h = head + i /\ (i + h) + zero = head + i
      BY <1>12, <1>18, <2>1, <2>3
    <3> QED BY <2>2, <3>1
  <2> QED BY <2>3, <2>4
<1>20. CASE Finds(u)
  <2>1. /\ text \in Seq(Clean) /\ Len(s) = Len(text) + head
        /\ \A i \in 1 .. Len(s) - head : s[head + i] = text[i]
    BY <1>9, <1>20 DEF IsOfFile
  <2> DEFINE C == Clean
  <2>2. out \in Seq(C) /\ text \in Seq(C)
    BY <1>1, <2>1
  <2> HIDE DEF C, out, text
  <2>3. Len(out) = Len(text) /\ Len(text) \in Nat
    BY <1>12, <1>19, <2>1, <2>2
  <2>4. ASSUME NEW i \in 1 .. Len(out) PROVE out[i] = text[i]
    <3>1. i \in 1 .. Len(s) - head
      BY <1>19
    <3> QED BY <1>19, <2>1, <3>1
  <2>5. out = text
    BY <2>2, <2>3, <2>4
  <2> QED BY <1>2, <1>6, <1>20, <2>5, TextIs DEF out, text
<1>21. CASE ~Finds(u)
  <2>1. Len(out) = 0
    BY <1>10, <1>12, <1>19, <1>21
  <2>2. out = <<>>
    <3> HIDE DEF out
    <3> QED BY <1>1, <2>1 DEF out
  <2> QED BY <1>2, <1>6, <1>21, <2>2, TextIs
<1> QED BY <1>20, <1>21

LEMMA SessionInvariance == Spec => []SessionInv
<1> QED BY InitSession, NextSession, PlaceInvariance, PTL DEF Spec

\* What a client of http_server writes is the beginning of one file, with one stretch
\* missing at most, shorter than the header, and nothing of the header, and the file
\* is the one asked for or one whose path begins that of the request.
THEOREM OutputsKeepOrder == Spec => []OutputInOrder
<1> QED BY SessionInvariance, SessionInOrder, PTL

\* A client whose request was read whole and whose header came in one piece has, at
\* the end, all that the child found in the file under the path of the argument.
THEOREM OutputsAreComplete == Spec => []OutputComplete
<1> QED BY SessionInvariance, SessionComplete, PTL

------------------------------------------------------------------------------
\* The warm-up server and its clients.

\* The reply: the length, three newlines and the text.
LEMMA ReplyFacts ==
  ASSUME file \in GivenFiles, file # NoFile
  PROVE  /\ Contents \in Seq(Pieces)
         /\ WholeReply \in Seq(Pieces)
         /\ Len(WholeReply) = Len(Contents) + 4
         /\ WholeReply[1] = Decimal(Len(file)) /\ WholeReply[1] # "\n"
         /\ WholeReply[2] = "\n" /\ WholeReply[3] = "\n" /\ WholeReply[4] = "\n"
         /\ \A k \in 1 .. Len(Contents) : WholeReply[k + 4] = Contents[k]
<1>1. file \in Seq(Pieces)
  BY GivenFilesAssumption
<1>2. Contents \in Seq(Pieces)
  BY <1>1, BeforeFacts DEF Contents, CString
<1>3. Decimal(Len(file)) \in Pieces /\ Decimal(Len(file)) # "\n"
  BY DecimalAssumption
<1> DEFINE head == <<Decimal(Len(file)), "\n", "\n", "\n">>
<1>4. head \in Seq(Pieces) /\ Len(head) = 4
  <2> DEFINE number == Decimal(Len(file))
  <2>1. number \in Pieces /\ "\n" \in Pieces
    BY <1>3, PiecesAssumption
  <2> HIDE DEF number
  <2>2. <<number, "\n", "\n", "\n">> \in Seq(Pieces) /\ Len(<<number, "\n", "\n", "\n">>) = 4
    BY <2>1
  <2> QED BY <2>2 DEF number
<1>5. WholeReply = head \o Contents
  BY DEF WholeReply
<1>6. /\ head[1] = Decimal(Len(file))
      /\ head[2] = "\n" /\ head[3] = "\n" /\ head[4] = "\n"
  OBVIOUS
<1> HIDE DEF head
<1>7. /\ WholeReply \in Seq(Pieces) /\ Len(WholeReply) = Len(Contents) + 4
      /\ \A k \in 1 .. 4 : WholeReply[k] = head[k]
      /\ \A k \in 1 .. Len(Contents) : WholeReply[k + 4] = Contents[k]
  <2> QED BY <1>5, <1>2, <1>4, Behind
<1> QED BY <1>2, <1>3, <1>6, <1>7

\* What is shown of the first k pieces of a reply.
LEMMA ShownFacts ==
  ASSUME file \in GivenFiles, file # NoFile, NEW k \in 1 .. Len(WholeReply),
         NEW b, b = SubSeq(WholeReply, 1, k)
  PROVE  /\ b \in Seq(Pieces) /\ Len(b) = k
         /\ Newline(b) = IF k = 1 THEN 0 ELSE 2
         /\ k > 1 => Shown(b).length = <<Decimal(Len(file))>>
         /\ k = 2 => Shown(b).text = <<Junk>>
         /\ k > 2 => /\ Shown(b).text # <<Junk>>
                     /\ IsPrefix(Shown(b).text, <<"\n">> \o Contents)
                     /\ Shown(b).text \in Seq(Pieces)
         /\ k = Len(WholeReply) => k > 2 /\ Shown(b).text = <<"\n">> \o Contents
<1> DEFINE text == <<"\n">> \o Contents
<1>1. /\ Contents \in Seq(Pieces) /\ WholeReply \in Seq(Pieces)
      /\ Len(WholeReply) = Len(Contents) + 4
      /\ WholeReply[1] = Decimal(Len(file)) /\ WholeReply[1] # "\n"
      /\ WholeReply[2] = "\n" /\ WholeReply[3] = "\n" /\ WholeReply[4] = "\n"
      /\ \A j \in 1 .. Len(Contents) : WholeReply[j + 4] = Contents[j]
  BY ReplyFacts
<1>2. /\ b \in Seq(Pieces) /\ Len(b) = k
      /\ \A j \in 1 .. k : b[j] = WholeReply[j]
  BY <1>1
<1>3. Newline(b) = IF k = 1 THEN 0 ELSE 2
  <2> DEFINE I == {i \in 1 .. Len(b) : b[i] = "\n"}
  <2>1. Newline(b) = IF I # {} THEN Min(I) ELSE 0
    BY DEF Newline, SelectInSeq
  <2>2. CASE k = 1
    <3>1. I = {}
      BY <1>1, <1>2, <2>2
    <3> QED BY <2>1, <2>2, <3>1
  <2>3. CASE k # 1
    <3>1. 2 \in I /\ 1 \notin I /\ I \in SUBSET (Nat \ {0})
      BY <1>1, <1>2, <2>3
    <3> HIDE DEF I
    <3>2. Min(I) \in I /\ Min(I) <= 2
      BY <3>1, MinIsLeast
    <3>3. Min(I) = 2
      <4> DEFINE m == Min(I)
      <4>1. m \in I /\ m <= 2 /\ m \in Nat \ {0} /\ m # 1
        BY <3>1, <3>2
      <4> HIDE DEF m
      <4>2. m = 2
        BY <4>1
      <4> QED BY <4>2 DEF m
    <3> QED BY <2>1, <2>3, <3>1, <3>3
  <2> QED BY <2>2, <2>3
<1>4. k > 1 => Shown(b).length = <<Decimal(Len(file))>>
  <2> SUFFICES ASSUME k > 1 PROVE Shown(b).length = <<Decimal(Len(file))>>
    OBVIOUS
  <2>0. Newline(b) - 1 = 1
    BY <1>3
  <2>1. Shown(b).length = SubSeq(b, 1, 1)
    BY <2>0 DEF Shown
  <2>2. b[1] = Decimal(Len(file))
    BY <1>1, <1>2
  <2> QED BY <1>2, <2>1, <2>2
<1>5. k > 1 => Shown(b).text = IF 4 <= k + 1 THEN SubSeq(b, 4, k) ELSE <<Junk>>
  BY <1>2, <1>3 DEF Shown, TextStart
<1>6. /\ text \in Seq(Pieces) /\ Len(text) = Len(Contents) + 1
      /\ \A j \in 1 .. Len(text) : text[j] = WholeReply[j + 3]
  <2>1. /\ text \in Seq(Pieces) /\ Len(text) = Len(Contents) + 1
        /\ text[1] = "\n"
        /\ \A j \in 1 .. Len(Contents) : text[j + 1] = Contents[j]
    BY <1>1
  <2>2. ASSUME NEW j \in 1 .. Len(text) PROVE text[j] = WholeReply[j + 3]
    <3>1. CASE j = 1
      BY <1>1, <2>1, <3>1
    <3>2. CASE j # 1
      <4>1. j - 1 \in 1 .. Len(Contents) /\ (j - 1) + 1 = j /\ (j - 1) + 4 = j + 3
        BY <1>1, <2>1, <3>2
      <4> QED BY <1>1, <2>1, <4>1
    <3> QED BY <3>1, <3>2
  <2> QED BY <2>1, <2>2
<1> HIDE DEF text
<1>7. k > 2 => /\ SubSeq(b, 4, k) \in Seq(Pieces)
               /\ Len(SubSeq(b, 4, k)) = k - 3
               /\ \A j \in 1 .. k - 3 : SubSeq(b, 4, k)[j] = text[j]
               /\ SubSeq(text, 1, k - 3) = SubSeq(b, 4, k)
  <2> SUFFICES ASSUME k > 2
               PROVE  /\ SubSeq(b, 4, k) \in Seq(Pieces)
                      /\ Len(SubSeq(b, 4, k)) = k - 3
                      /\ \A j \in 1 .. k - 3 : SubSeq(b, 4, k)[j] = text[j]
                      /\ SubSeq(text, 1, k - 3) = SubSeq(b, 4, k)
    OBVIOUS
  <2> DEFINE t == SubSeq(b, 4, k)
             u == SubSeq(text, 1, k - 3)
  <2>1. /\ t \in Seq(Pieces) /\ Len(t) = k - 3
        /\ \A j \in 1 .. k - 3 : t[j] = b[j + 3]
    BY <1>2
  <2>2. /\ u \in Seq(Pieces) /\ Len(u) = k - 3
        /\ \A j \in 1 .. k - 3 : u[j] = text[j]
    BY <1>1, <1>6
  <2>3. \A j \in 1 .. k - 3 : t[j] = text[j]
    BY <1>1, <1>2, <1>6, <2>1
  <2> HIDE DEF t, u
  <2>4. t = u
    BY <2>1, <2>2, <2>3, SeqEqual
  <2> QED BY <2>1, <2>3, <2>4 DEF t, u
<1>8. k > 2 => SubSeq(b, 4, k) # <<Junk>>
  <2> SUFFICES ASSUME k > 2, SubSeq(b, 4, k) = <<Junk>> PROVE FALSE
    OBVIOUS
  <2>0. Len(<<Junk>>) = 1 /\ <<Junk>>[1] = Junk
    OBVIOUS
  <2>1. k - 3 = 1 /\ SubSeq(b, 4, k)[1] = Junk
    BY <1>7, <2>0
  <2>3. text[1] = Junk
    BY <1>7, <2>1
  <2>2. text[1] = "\n"
    BY <1>1, <1>6
  <2> QED BY <2>2, <2>3 DEF Junk
<1>9. k = Len(WholeReply) => SubSeq(text, 1, k - 3) = text
  <2> SUFFICES ASSUME k = Len(WholeReply) PROVE SubSeq(text, 1, k - 3) = text
    OBVIOUS
  <2>1. k - 3 = Len(text)
    BY <1>1, <1>6
  <2>2. /\ SubSeq(text, 1, Len(text)) \in Seq(Pieces)
        /\ Len(SubSeq(text, 1, Len(text))) = Len(text)
        /\ \A j \in 1 .. Len(text) : SubSeq(text, 1, Len(text))[j] = text[j]
    BY <1>6
  <2> QED BY <1>6, <2>1, <2>2, SeqEqual
<1>10. k > 2 => IsPrefix(SubSeq(b, 4, k), text)
  BY <1>1, <1>6, <1>7 DEF IsPrefix
<1>11. k = 2 => Shown(b).text = <<Junk>>
  BY <1>5
<1>12. k > 2 => Shown(b).text = SubSeq(b, 4, k)
  <2>1. k > 2 => k > 1 /\ 4 <= k + 1
    OBVIOUS
  <2> QED BY <1>5, <2>1
<1>13. k > 2 => /\ Shown(b).text # <<Junk>>
                /\ IsPrefix(Shown(b).text, text)
                /\ Shown(b).text \in Seq(Pieces)
  BY <1>7, <1>8, <1>10, <1>12
<1>14. k = Len(WholeReply) => k > 2 /\ Shown(b).text = text
  <2>1. k = Len(WholeReply) => k > 2
    BY <1>1
  <2> QED BY <1>7, <1>9, <1>12, <2>1
<1> QED BY <1>2, <1>3, <1>4, <1>11, <1>13, <1>14 DEF text

------------------------------------------------------------------------------
LEMMA NothingIsNoJunk ==
  /\ Nothing \in [length : Seq(Pieces), text : Seq(Pieces)]
  /\ Nothing.text # <<Junk>>
<1>1. Nothing.text = <<>> /\ Nothing.length = <<>>
  BY DEF Nothing
<1>2. Len(<<>>) = 0 /\ Len(<<Junk>>) = 1
  OBVIOUS
<1>3. Nothing \in [length : Seq(Pieces), text : Seq(Pieces)]
  BY DEF Nothing
<1> QED BY <1>1, <1>2, <1>3

LEMMA InitWarmUpInv == WarmUpInit => WarmUpInv /\ ZombiesSignalled
<1> SUFFICES ASSUME WarmUpInit PROVE WarmUpInv /\ ZombiesSignalled
  OBVIOUS
<1>1. ParentTypeOK /\ ZombiesSignalled /\ OnePlace
  BY InitParentTypes, InitOnePlace DEF WarmUpInit
<1>2. /\ file \in GivenFiles /\ ppc = "start"
      /\ child = [c \in Clients |-> "none"]
      /\ toClient = [c \in Clients |-> <<>>]
      /\ holders = [c \in Clients |-> {}]
      /\ wpc = [c \in Clients |-> "connect"]
      /\ shown = [c \in Clients |-> Nothing]
  BY DEF WarmUpInit, StreamsInit, ParentInit
<1>3. Nothing \in [length : Seq(Pieces), text : Seq(Pieces)] /\ Nothing.text # <<Junk>>
  BY NothingIsNoJunk
<1>4. WarmUpTypeOK
  BY <1>1, <1>2, <1>3 DEF WarmUpTypeOK
<1>5. ASSUME NEW c \in Clients PROVE ClientAndChild(c)
  BY <1>2 DEF ClientAndChild
<1>6. ASSUME NEW c \in Clients PROVE ReplyShownTo(c)
  BY <1>2, <1>3 DEF ReplyShownTo, IsJunk
<1> QED BY <1>1, <1>4, <1>5, <1>6 DEF WarmUpInv, ReplyShown

\* The contents do not change with the state of the clients.
LEMMA SameFile ==
  ASSUME UNCHANGED file
  PROVE  Contents' = Contents /\ WholeReply' = WholeReply
<1>1. file' = file
  OBVIOUS
<1>2. Contents' = Contents
  BY <1>1 DEF Contents, CString, Before, SelectInSeq, NUL
<1> QED BY <1>1, <1>2 DEF WholeReply

\* A step after which a client sees its connection and its child as before.
LEMMA SameForClient ==
  ASSUME NEW c, ClientAndChild(c), ReplyShownTo(c), UNCHANGED file,
         holders'[c] \subseteq holders[c], child'[c] = child[c], toClient'[c] = toClient[c],
         wpc'[c] = wpc[c], shown'[c] = shown[c],
         file = NoFile => ppc' \in {"start", "crashed"}
  PROVE  ClientAndChild(c)' /\ ReplyShownTo(c)'
BY SameFile DEF ClientAndChild, ReplyShownTo, IsJunk

LEMMA OpenFailsWarmUpInv ==
  ASSUME WarmUpInv, OpenFails, UNCHANGED <<file, warmUpClientVars>>
  PROVE  WarmUpInv'
<1>1. /\ ppc' = "crashed" /\ ppc = "start"
      /\ UNCHANGED <<streams, newFd, child, sigchld, handling, file, warmUpClientVars>>
  BY DEF OpenFails
<1>2. WarmUpTypeOK'
  BY <1>1 DEF WarmUpInv, WarmUpTypeOK, ParentTypeOK, streams, warmUpClientVars
<1>3. OnePlace'
  BY <1>1 DEF WarmUpInv, OnePlace, Waiting, Working, streams
<1>4. ASSUME NEW c \in Clients PROVE ClientAndChild(c)' /\ ReplyShownTo(c)'
  BY <1>1, SameForClient DEF WarmUpInv, ReplyShown, streams, warmUpClientVars
<1> QED BY <1>2, <1>3, <1>4 DEF WarmUpInv, ReplyShown

LEMMA ParentWarmUpInv ==
  ASSUME WarmUpInv, Serves /\ Parent, UNCHANGED <<file, warmUpClientVars>>
  PROVE  WarmUpInv'
<1>0. /\ WarmUpTypeOK /\ ParentTypeOK /\ OnePlace
      /\ \A c \in Clients : ClientAndChild(c) /\ ReplyShownTo(c)
      /\ \E S : child \in [Clients -> S]
      /\ UNCHANGED <<file, wpc, shown>>
  BY DEF WarmUpInv, WarmUpTypeOK, ReplyShown, warmUpClientVars
<1>1. UNCHANGED toClient
  BY DEF Parent, Listen, Accept, Fork, ForkFails, CloseNewFd, Close, streams
<1>2. ParentTypeOK' /\ OnePlace'
  BY <1>0, ParentKeepsTypes, ParentKeepsPlace
<1>3. child' \in [Clients -> {"none", "born", "sent", "zombie", "reaped"}]
  BY <1>0 DEF WarmUpTypeOK, Parent, Listen, Accept, Fork, ForkFails, CloseNewFd
<1>4. WarmUpTypeOK'
  BY <1>0, <1>1, <1>2, <1>3 DEF WarmUpTypeOK
<1>5. file # NoFile
  <2> SUFFICES ASSUME file = NoFile PROVE FALSE
    OBVIOUS
  <2>1. newFd \in Clients
    BY <1>0 DEF ParentTypeOK
  <2>2. ppc \in {"start", "crashed"}
    BY <1>0, <2>1 DEF ClientAndChild
  <2>3. ppc = "start"
    BY <2>2 DEF Parent, Listen, Accept, Fork, ForkFails, CloseNewFd
  <2> QED BY <2>3 DEF Serves
<1>6. ASSUME NEW c \in Clients PROVE ClientAndChild(c)' /\ ReplyShownTo(c)'
  <2>1. CASE Listen \/ ForkFails
    BY <1>0, <1>1, <1>5, <2>1, SameForClient DEF Listen, ForkFails, streams
  <2>2. CASE Accept
    <3> DEFINE d == Head(backlog)
    <3>1. /\ holders' = [holders EXCEPT ![d] = {"parent"}] /\ UNCHANGED child
          /\ backlog \in Seq(Clients) /\ backlog # <<>> /\ d = backlog[1]
      BY <1>0, <2>2 DEF Accept, ParentTypeOK
    <3>2. Waiting(d) /\ d \in Clients
      BY <3>1 DEF Waiting
    <3>3. holders[d] = {"listener"} /\ child[d] = "none" /\ holders'[d] = {"parent"}
      BY <1>0, <3>1, <3>2 DEF OnePlace, ParentTypeOK
    <3> HIDE DEF d
    <3>4. CASE c = d
      <4>1. wpc[c] = "recv"
        BY <1>0, <3>3, <3>4 DEF ClientAndChild, WarmUpTypeOK
      <4> QED BY <1>0, <1>1, <1>5, <3>1, <3>3, <3>4, <4>1, SameFile
              DEF ClientAndChild, ReplyShownTo, IsJunk
    <3>5. CASE c # d
      <4>1. holders'[c] = holders[c]
        BY <1>0, <3>1, <3>5 DEF ParentTypeOK
      <4> QED BY <1>0, <1>1, <1>5, <3>1, <4>1, SameForClient
    <3> QED BY <3>4, <3>5
  <2>3. CASE Fork
    <3>1. /\ child' = [child EXCEPT ![newFd] = "born"]
          /\ holders' = [e \in Clients |-> IF "parent" \in holders[e]
                                           THEN holders[e] \cup {newFd} ELSE holders[e]]
          /\ holders[newFd] = {"parent"} /\ child[newFd] = "none" /\ newFd \in Clients
          /\ \A e \in Clients : "parent" \in holders[e] => e = newFd
      BY <1>0, <2>3 DEF Fork, OnePlace, ParentTypeOK
    <3>2. CASE c = newFd
      <4>1. wpc[c] = "recv" /\ child'[c] = "born" /\ toClient[c] = <<>>
        BY <1>0, <3>1, <3>2 DEF ClientAndChild, WarmUpTypeOK
      <4>2. shown[c].text # <<Junk>>
        BY <1>0, <4>1, NothingIsNoJunk DEF ClientAndChild
      <4> QED BY <1>0, <1>1, <1>5, <4>1, <4>2
              DEF ClientAndChild, ReplyShownTo, IsJunk
    <3>3. CASE c # newFd
      <4>1. holders'[c] = holders[c] /\ child'[c] = child[c]
        BY <1>0, <3>1, <3>3
      <4> QED BY <1>0, <1>1, <1>5, <4>1, SameForClient
    <3> QED BY <3>2, <3>3
  <2>4. CASE CloseNewFd
    <3>1. holders'[c] \subseteq holders[c] /\ UNCHANGED child
      BY <2>4 DEF CloseNewFd, Close
    <3> QED BY <1>0, <1>1, <1>5, <3>1, SameForClient
  <2> QED BY <2>1, <2>2, <2>3, <2>4 DEF Parent
<1> QED BY <1>2, <1>4, <1>6 DEF WarmUpInv, ReplyShown

LEMMA HandlerWarmUpInv ==
  ASSUME WarmUpInv, Handler, UNCHANGED <<file, warmUpClientVars>>
  PROVE  WarmUpInv'
<1>0. /\ WarmUpTypeOK /\ ParentTypeOK /\ OnePlace
      /\ \A c \in Clients : ClientAndChild(c) /\ ReplyShownTo(c)
      /\ \E S : child \in [Clients -> S]
      /\ UNCHANGED <<file, wpc, shown>>
  BY DEF WarmUpInv, WarmUpTypeOK, ReplyShown, warmUpClientVars
<1>1. UNCHANGED <<holders, toClient, ppc>>
  BY DEF Handler, HandlerStarts, HandlerReturns, Reap, streams
<1>2. ParentTypeOK' /\ OnePlace'
  BY <1>0, HandlerKeepsTypes, HandlerKeepsPlace
<1>3. /\ child' \in [Clients -> {"none", "born", "sent", "zombie", "reaped"}]
      /\ \A c \in Clients : child'[c] = child[c] \/ (child[c] = "zombie" /\ child'[c] = "reaped")
  BY <1>0 DEF WarmUpTypeOK, Handler, HandlerStarts, HandlerReturns, Reap
<1>4. WarmUpTypeOK'
  BY <1>0, <1>1, <1>2, <1>3 DEF WarmUpTypeOK
<1>5. ASSUME NEW c \in Clients PROVE ClientAndChild(c)' /\ ReplyShownTo(c)'
  <2>1. CASE child'[c] = child[c]
    BY <1>0, <1>1, <2>1, SameForClient DEF ClientAndChild
  <2>2. CASE child[c] = "zombie" /\ child'[c] = "reaped"
    BY <1>0, <1>1, <2>2, SameFile DEF ClientAndChild, ReplyShownTo, IsJunk
  <2> QED BY <1>3, <2>1, <2>2
<1> QED BY <1>2, <1>4, <1>5 DEF WarmUpInv, ReplyShown

\* A child sends while its client has not received anything.
LEMMA SendWarmUpInv ==
  ASSUME WarmUpInv, NEW c \in Clients, Send(c), UNCHANGED <<file, warmUpClientVars>>
  PROVE  WarmUpInv'
<1>0. /\ WarmUpTypeOK /\ ParentTypeOK /\ OnePlace
      /\ \A d \in Clients : ClientAndChild(d) /\ ReplyShownTo(d)
      /\ \E S : child \in [Clients -> S]
      /\ UNCHANGED <<file, wpc, shown>>
  BY DEF WarmUpInv, WarmUpTypeOK, ReplyShown, warmUpClientVars
<1>1. /\ child[c] = "born" /\ child' = [child EXCEPT ![c] = "sent"]
      /\ toClient' = [toClient EXCEPT ![c] = @ \o WholeReply]
      /\ UNCHANGED <<backlog, holders, toServer, reset, ppc, newFd, sigchld, handling>>
  BY DEF Send, ServerWrites
<1>2. wpc[c] = "recv" /\ toClient[c] = <<>> /\ file \in GivenFiles /\ file # NoFile
  BY <1>0, <1>1 DEF ClientAndChild, WarmUpTypeOK
<1>3. WholeReply \in Seq(Pieces)
  BY <1>2, ReplyFacts
<1>4. /\ child'[c] = "sent" /\ toClient'[c] = WholeReply
      /\ \A d \in Clients \ {c} : child'[d] = child[d] /\ toClient'[d] = toClient[d]
      /\ child' \in [Clients -> {"none", "born", "sent", "zombie", "reaped"}]
      /\ toClient' \in [Clients -> Seq(Pieces)]
  <2>1. toClient[c] \o WholeReply = WholeReply
    BY <1>2, <1>3, ConcatEmptySeq
  <2> QED BY <1>0, <1>1, <1>3, <2>1 DEF WarmUpTypeOK
<1>5. ParentTypeOK'
  BY <1>0, <1>1, TrafficKeepsTypes DEF ParentTypeOK
<1>6. OnePlace'
  BY <1>0, <1>1, TrafficKeepsPlace DEF Working
<1>7. WarmUpTypeOK'
  BY <1>0, <1>4, <1>5 DEF WarmUpTypeOK
<1>8. ASSUME NEW d \in Clients PROVE ClientAndChild(d)' /\ ReplyShownTo(d)'
  <2>1. CASE d # c
    BY <1>0, <1>1, <1>4, <2>1, SameForClient DEF ClientAndChild
  <2>2. CASE d = c
    <3>1. shown[c].text # <<Junk>> /\ shown[c] = Nothing
      BY <1>0, <1>2, NothingIsNoJunk DEF ClientAndChild
    <3> QED BY <1>0, <1>1, <1>2, <1>4, <2>2, <3>1, SameFile
            DEF ClientAndChild, ReplyShownTo, IsJunk
  <2> QED BY <2>1, <2>2
<1> QED BY <1>6, <1>7, <1>8 DEF WarmUpInv, ReplyShown

LEMMA ExitWarmUpInv ==
  ASSUME WarmUpInv, NEW c \in Clients, child[c] = "sent", Exit(c), UNCHANGED <<file, warmUpClientVars>>
  PROVE  WarmUpInv'
<1>0. /\ WarmUpTypeOK /\ ParentTypeOK /\ OnePlace
      /\ \A d \in Clients : ClientAndChild(d) /\ ReplyShownTo(d)
      /\ \E S : child \in [Clients -> S]
      /\ UNCHANGED <<file, wpc, shown>>
  BY DEF WarmUpInv, WarmUpTypeOK, ReplyShown, warmUpClientVars
<1>1. /\ child' = [child EXCEPT ![c] = "zombie"]
      /\ \A d \in Clients : holders'[d] \subseteq holders[d]
      /\ UNCHANGED <<toClient, ppc>>
  BY DEF Exit, Close
<1>2. ParentTypeOK' /\ OnePlace'
  BY <1>0, ExitKeepsTypes, ExitKeepsPlace DEF Working
<1>3. WarmUpTypeOK'
  BY <1>0, <1>1, <1>2 DEF WarmUpTypeOK
<1>4. ASSUME NEW d \in Clients PROVE ClientAndChild(d)' /\ ReplyShownTo(d)'
  <2>1. CASE d # c
    <3>1. child'[d] = child[d]
      BY <1>0, <1>1, <2>1
    <3> QED BY <1>0, <1>1, <3>1, SameForClient DEF ClientAndChild
  <2>2. CASE d = c
    <3>1. child'[c] = "zombie"
      BY <1>0, <1>1
    <3> QED BY <1>0, <1>1, <2>2, <3>1, SameFile DEF ClientAndChild, ReplyShownTo, IsJunk
  <2> QED BY <2>1, <2>2
<1> QED BY <1>2, <1>3, <1>4 DEF WarmUpInv, ReplyShown

LEMMA ConnectWarmUpInv ==
  ASSUME WarmUpInv, NEW c \in Clients, WarmUpConnect(c) \/ WarmUpConnectFails(c),
         UNCHANGED <<file, parentVars>>
  PROVE  WarmUpInv'
<1>0. /\ WarmUpTypeOK /\ ParentTypeOK /\ OnePlace
      /\ \A d \in Clients : ClientAndChild(d) /\ ReplyShownTo(d)
      /\ \E S : child \in [Clients -> S]
      /\ UNCHANGED <<file, ppc, newFd, child, sigchld, handling, shown, toClient>>
  BY DEF WarmUpInv, WarmUpTypeOK, ReplyShown, parentVars, WarmUpConnect, WarmUpConnectFails, Handshake, streams
<1>1. CASE WarmUpConnect(c)
  <2>1. /\ wpc[c] = "connect" /\ Listening /\ Handshake(c)
        /\ wpc' = [wpc EXCEPT ![c] = "recv"]
        /\ holders' = [holders EXCEPT ![c] = {"listener"}]
    BY <1>1 DEF WarmUpConnect, WarmUpGoes, Handshake
  <2>2. holders[c] = {} /\ child[c] = "none" /\ toClient[c] = <<>> /\ file # NoFile
    BY <1>0, <2>1 DEF ClientAndChild, Listening
  <2>3. ParentTypeOK' /\ OnePlace'
    BY <1>0, <2>1, <2>2, HandshakeKeepsTypes, HandshakeKeepsPlace
  <2>4. /\ wpc' \in [Clients -> {"connect", "recv", "done", "failed", "crashed"}]
        /\ wpc'[c] = "recv"
        /\ \A d \in Clients \ {c} : wpc'[d] = wpc[d] /\ holders'[d] = holders[d]
    BY <1>0, <2>1 DEF WarmUpTypeOK, ParentTypeOK
  <2>5. WarmUpTypeOK'
    BY <1>0, <2>3, <2>4 DEF WarmUpTypeOK
  <2>6. ASSUME NEW d \in Clients PROVE ClientAndChild(d)' /\ ReplyShownTo(d)'
    <3>1. CASE d # c
      BY <1>0, <2>2, <2>4, <3>1, SameForClient
    <3>2. CASE d = c
      BY <1>0, <2>1, <2>2, <2>4, <3>2 DEF ClientAndChild, ReplyShownTo, IsJunk
    <3> QED BY <3>1, <3>2
  <2> QED BY <2>3, <2>5, <2>6 DEF WarmUpInv, ReplyShown
<1>2. CASE WarmUpConnectFails(c)
  <2>1. /\ wpc[c] = "connect" /\ wpc' = [wpc EXCEPT ![c] = "failed"] /\ UNCHANGED streams
    BY <1>2 DEF WarmUpConnectFails, WarmUpGoes
  <2>2. /\ wpc' \in [Clients -> {"connect", "recv", "done", "failed", "crashed"}]
        /\ wpc'[c] = "failed"
        /\ \A d \in Clients \ {c} : wpc'[d] = wpc[d]
    BY <1>0, <2>1 DEF WarmUpTypeOK
  <2>3. ParentTypeOK' /\ OnePlace' /\ WarmUpTypeOK'
    <3>1. UNCHANGED <<backlog, holders, toClient, reset>>
      BY <2>1 DEF streams
    <3>2. ParentTypeOK'
      BY <1>0, <3>1, TrafficKeepsTypes DEF ParentTypeOK
    <3>3. OnePlace'
      BY <1>0, <3>1, TrafficKeepsPlace
    <3> QED BY <1>0, <2>2, <3>1, <3>2, <3>3 DEF WarmUpTypeOK
  <2>4. ASSUME NEW d \in Clients PROVE ClientAndChild(d)' /\ ReplyShownTo(d)'
    <3>1. CASE d # c
      BY <1>0, <2>1, <2>2, <3>1, SameForClient DEF streams, ClientAndChild
    <3>2. CASE d = c
      BY <1>0, <2>1, <2>2, <3>2, SameFile
      DEF streams, ClientAndChild, ReplyShownTo, IsJunk
    <3> QED BY <3>1, <3>2
  <2> QED BY <2>3, <2>4 DEF WarmUpInv, ReplyShown
<1> QED BY <1>1, <1>2

\* What recv() can return: pieces of the reply from its beginning, or the end of a
\* stream that no child has written to.
LEMMA ReceiveFacts ==
  ASSUME WarmUpInv, NEW c \in Clients, Receive(c), UNCHANGED <<file, parentVars>>
  PROVE  \/ /\ file \in GivenFiles /\ file # NoFile /\ toClient[c] = WholeReply
            /\ child[c] \notin {"none", "born"}
            /\ \E k \in 1 .. Len(WholeReply) :
                 /\ ClientTakes(c, SubSeq(WholeReply, 1, k))
                 /\ Show(c, SubSeq(WholeReply, 1, k))
         \/ /\ UNCHANGED streams /\ Show(c, <<>>)
            /\ child[c] = "none" /\ holders[c] = {} /\ toClient[c] = <<>>
<1>0. /\ WarmUpTypeOK /\ ParentTypeOK /\ OnePlace /\ ClientAndChild(c) /\ wpc[c] = "recv"
  <2>1. wpc[c] = "recv"
    BY DEF Receive
  <2> QED BY <2>1 DEF WarmUpInv, WarmUpTypeOK
<1>1. CASE \E b \in FirstPart(toClient[c], RecvMax) : ClientTakes(c, b) /\ Show(c, b)
  <2>1. PICK b \in FirstPart(toClient[c], RecvMax) : ClientTakes(c, b) /\ Show(c, b)
    BY <1>1
  <2>2. PICK k \in 1 .. Len(toClient[c]) : b = SubSeq(toClient[c], 1, k)
    BY <2>1 DEF FirstPart
  <2>3. toClient[c] # <<>>
    BY <2>2
  <2>4. /\ child[c] \notin {"none", "born"} /\ toClient[c] = WholeReply
        /\ file \in GivenFiles /\ file # NoFile
    BY <1>0, <2>3 DEF ClientAndChild, WarmUpTypeOK
  <2> QED BY <2>1, <2>2, <2>4
<1>2. CASE ClientTakesEnd(c) /\ Show(c, <<>>)
  <2>1. UNCHANGED streams /\ toClient[c] = <<>> /\ holders[c] = {}
    BY <1>2 DEF ClientTakesEnd, ServerClosed
  <2>2. child[c] # "born"
    BY <1>0, <2>1 DEF OnePlace, Working
  <2>3. child[c] \notin {"sent", "zombie", "reaped"}
    <3> SUFFICES ASSUME child[c] \in {"sent", "zombie", "reaped"} PROVE FALSE
      OBVIOUS
    <3>1. WholeReply = <<>> /\ file \in GivenFiles /\ file # NoFile
      BY <1>0, <2>1 DEF ClientAndChild, WarmUpTypeOK
    <3>2. Len(WholeReply) = Len(Contents) + 4 /\ Contents \in Seq(Pieces)
      BY <3>1, ReplyFacts
    <3> DEFINE n == Len(Contents)
    <3>3. n \in Nat /\ 0 = n + 4
      BY <3>1, <3>2
    <3> HIDE DEF n
    <3> QED BY <3>3
  <2> QED BY <1>0, <1>2, <2>1, <2>2, <2>3 DEF WarmUpTypeOK
<1> QED BY <1>0, <1>1, <1>2 DEF Receive

LEMMA JunkTypes ==
  /\ <<Junk>> \in Seq(Pieces)
  /\ <<>> \in Seq(Pieces)
  /\ Nothing \in [length : Seq(Pieces), text : Seq(Pieces)]
  /\ Nothing.text # <<Junk>>
  /\ \A f \in GivenFiles \ {NoFile} : <<Decimal(Len(f))>> \in Seq(Pieces)
BY NothingIsNoJunk, PiecesAssumption, DecimalAssumption DEF Junk

LEMMA JunkRecord ==
  \A x \in Seq(Pieces) :
    /\ [length |-> x, text |-> <<Junk>>] \in [length : Seq(Pieces), text : Seq(Pieces)]
    /\ [length |-> x, text |-> <<Junk>>].text = <<Junk>>
<1> DEFINE J == <<Junk>>
<1>1. J \in Seq(Pieces)
  BY JunkTypes
<1> HIDE DEF J
<1> SUFFICES ASSUME NEW x \in Seq(Pieces)
             PROVE  /\ [length |-> x, text |-> J] \in [length : Seq(Pieces), text : Seq(Pieces)]
                    /\ [length |-> x, text |-> J].text = J
  BY DEF J
<1> QED BY <1>1

\* A client shows a part of the reply, or crashes on it, or has nothing to show.
LEMMA ReceiveWarmUpInv ==
  ASSUME WarmUpInv, NEW c \in Clients, Receive(c), UNCHANGED <<file, parentVars>>
  PROVE  WarmUpInv'
<1>0. /\ WarmUpTypeOK /\ ParentTypeOK /\ OnePlace /\ wpc[c] = "recv"
      /\ \A d \in Clients : ClientAndChild(d) /\ ReplyShownTo(d)
      /\ \E S : child \in [Clients -> S]
      /\ UNCHANGED <<file, ppc, newFd, child, sigchld, handling>>
  BY DEF WarmUpInv, WarmUpTypeOK, ReplyShown, parentVars, Receive
<1>1. /\ UNCHANGED <<backlog, holders, reset>>
      /\ \/ toClient' = toClient
         \/ \E x : toClient' = [toClient EXCEPT ![c] = x]
  BY DEF Receive, ClientTakes, ClientTakesEnd, streams
<1>2. /\ \E x : wpc' = [wpc EXCEPT ![c] = x]
      /\ shown' = shown \/ \E x : shown' = [shown EXCEPT ![c] = x]
  BY DEF Receive, Show, WarmUpGoes
<1>3. ASSUME NEW d \in Clients \ {c}
      PROVE  wpc'[d] = wpc[d] /\ shown'[d] = shown[d] /\ toClient'[d] = toClient[d]
  BY <1>0, <1>1, <1>2 DEF WarmUpTypeOK
<1>4. /\ toClient'[c] \in Seq(Pieces)
      /\ wpc'[c] \in {"done", "crashed"}
      /\ shown'[c] \in [length : Seq(Pieces), text : Seq(Pieces)]
      /\ child[c] # "born" /\ (child[c] = "none" => holders[c] = {} /\ toClient'[c] = <<>>)
      /\ wpc'[c] # "done" => shown'[c] = Nothing
      /\ ReplyShownTo(c)'
  <2>1. CASE /\ UNCHANGED streams /\ Show(c, <<>>)
             /\ child[c] = "none" /\ holders[c] = {} /\ toClient[c] = <<>>
    <3>1. Newline(<<>>) = 0
      BY DEF Newline, SelectInSeq
    <3>2. /\ toClient'[c] = <<>> /\ child'[c] = "none"
          /\ \/ wpc'[c] = "crashed" /\ shown'[c] = Nothing
             \/ wpc'[c] = "done" /\ shown'[c] = [length |-> <<>>, text |-> <<Junk>>]
      BY <1>0, <2>1, <3>1 DEF Show, WarmUpGoes, streams, WarmUpTypeOK, ClientAndChild
    <3>3. /\ shown'[c] \in [length : Seq(Pieces), text : Seq(Pieces)]
          /\ shown'[c] = Nothing \/ shown'[c].text = <<Junk>>
      BY <3>2, JunkTypes, JunkRecord
    <3>4. ReplyShownTo(c)'
      BY <3>2, <3>3 DEF ReplyShownTo, IsJunk
    <3> QED BY <2>1, <3>2, <3>3, <3>4, JunkTypes
  <2>2. CASE /\ file \in GivenFiles /\ file # NoFile /\ toClient[c] = WholeReply
             /\ child[c] \notin {"none", "born"}
             /\ \E k \in 1 .. Len(WholeReply) : /\ ClientTakes(c, SubSeq(WholeReply, 1, k))
                                           /\ Show(c, SubSeq(WholeReply, 1, k))
    <3>1. PICK k \in 1 .. Len(WholeReply) : /\ ClientTakes(c, SubSeq(WholeReply, 1, k))
                                       /\ Show(c, SubSeq(WholeReply, 1, k))
      BY <2>2
    <3> DEFINE b == SubSeq(WholeReply, 1, k)
               text == <<"\n">> \o Contents
    <3>2. /\ b \in Seq(Pieces) /\ Len(b) = k
          /\ Newline(b) = IF k = 1 THEN 0 ELSE 2
          /\ k > 1 => Shown(b).length = <<Decimal(Len(file))>>
          /\ k = 2 => Shown(b).text = <<Junk>>
          /\ k > 2 => /\ Shown(b).text # <<Junk>>
                      /\ IsPrefix(Shown(b).text, text)
                      /\ Shown(b).text \in Seq(Pieces)
          /\ k = Len(WholeReply) => k > 2 /\ Shown(b).text = text
      BY <2>2, ShownFacts
    <3>3. /\ WholeReply \in Seq(Pieces) /\ Len(WholeReply) \in Nat
          /\ toClient'[c] = SubSeq(WholeReply, k + 1, Len(WholeReply))
      <4>1. WholeReply \in Seq(Pieces)
        BY <2>2, ReplyFacts
      <4>2. toClient'[c] = Without(WholeReply, b)
        BY <1>0, <2>2, <3>1 DEF ClientTakes, WarmUpTypeOK
      <4> QED BY <3>2, <4>1, <4>2 DEF Without
    <3>4. /\ toClient'[c] \in Seq(Pieces)
          /\ toClient'[c] = <<>> => k = Len(WholeReply)
      BY <3>3, RestOf
    <3>5. Show(c, b)
      BY <3>1
    <3> HIDE DEF b, text
    <3>6. Contents' = Contents /\ file' = file /\ child'[c] = child[c]
      BY <1>0, SameFile
    <3>7. CASE k = 1
      <4>1. \/ wpc'[c] = "crashed" /\ shown'[c] = Nothing
            \/ wpc'[c] = "done" /\ shown'[c] = [length |-> b, text |-> <<Junk>>]
        BY <1>0, <3>2, <3>5, <3>7 DEF Show, WarmUpGoes, WarmUpTypeOK, ClientAndChild
      <4>2. Len(WholeReply) # 1
        <5> DEFINE n == Len(Contents)
        <5>1. n \in Nat /\ Len(WholeReply) = n + 4
          BY <2>2, ReplyFacts
        <5> HIDE DEF n
        <5> QED BY <5>1
      <4>3. toClient'[c] # <<>>
        BY <3>4, <3>7, <4>2
      <4>4. /\ shown'[c] \in [length : Seq(Pieces), text : Seq(Pieces)]
            /\ shown'[c] = Nothing \/ shown'[c].text = <<Junk>>
        <5>1. [length |-> b, text |-> <<Junk>>] \in [length : Seq(Pieces), text : Seq(Pieces)]
          BY <3>2, JunkRecord
        <5>2. [length |-> b, text |-> <<Junk>>].text = <<Junk>>
          OBVIOUS
        <5> QED BY <4>1, <5>1, <5>2, JunkTypes
      <4>5. ReplyShownTo(c)'
        BY <4>1, <4>3, <4>4 DEF ReplyShownTo, IsJunk
      <4> QED BY <2>2, <3>4, <4>1, <4>4, <4>5
    <3>8. CASE k > 1
      <4>1. wpc'[c] = "done" /\ shown'[c] = Shown(b)
        BY <1>0, <3>2, <3>5, <3>8 DEF Show, WarmUpGoes, WarmUpTypeOK
      <4>2. CASE k = 2
        <5>1. shown'[c].length = <<Decimal(Len(file))>> /\ shown'[c].text = <<Junk>>
          BY <3>2, <4>1, <4>2
        <5>2. toClient'[c] # <<>>
          BY <3>2, <3>4, <4>2
        <5>3. shown'[c] \in [length : Seq(Pieces), text : Seq(Pieces)]
          BY <2>2, <4>1, <5>1, JunkTypes, ReplyFacts DEF Shown
        <5> QED BY <2>2, <3>4, <4>1, <5>1, <5>2, <5>3 DEF ReplyShownTo, IsJunk
      <4>3. CASE k > 2
        <5>1. /\ shown'[c].length = <<Decimal(Len(file))>>
              /\ shown'[c].text # <<Junk>>
              /\ IsPrefix(shown'[c].text, text)
              /\ shown'[c].text \in Seq(Pieces)
              /\ toClient'[c] = <<>> => shown'[c].text = text
          BY <3>2, <3>4, <3>8, <4>1, <4>3
        <5>2. shown'[c] \in [length : Seq(Pieces), text : Seq(Pieces)]
          BY <2>2, <4>1, <5>1, JunkTypes, ReplyFacts DEF Shown
        <5> QED BY <2>2, <3>4, <3>6, <4>1, <5>1, <5>2 DEF ReplyShownTo, IsJunk, text
      <4> QED BY <3>8, <4>2, <4>3
    <3> QED BY <3>7, <3>8
  <2> QED BY <2>1, <2>2, ReceiveFacts
<1>5. WarmUpTypeOK' /\ ParentTypeOK' /\ OnePlace'
  <2>1. ParentTypeOK' /\ OnePlace'
    BY <1>0, <1>1, TrafficKeepsTypes, TrafficKeepsPlace DEF ParentTypeOK
  <2>2. toClient' \in [Clients -> Seq(Pieces)]
    BY <1>0, <1>1, <1>3, <1>4 DEF WarmUpTypeOK
  <2>3. wpc' \in [Clients -> {"connect", "recv", "done", "failed", "crashed"}]
    BY <1>0, <1>2, <1>3, <1>4 DEF WarmUpTypeOK
  <2>4. shown' \in [Clients -> [length : Seq(Pieces), text : Seq(Pieces)]]
    BY <1>0, <1>2, <1>3, <1>4 DEF WarmUpTypeOK
  <2> QED BY <1>0, <2>1, <2>2, <2>3, <2>4 DEF WarmUpTypeOK
<1>6. ASSUME NEW d \in Clients PROVE ClientAndChild(d)' /\ ReplyShownTo(d)'
  <2>1. CASE d # c
    BY <1>0, <1>1, <1>3, <2>1, SameForClient DEF ClientAndChild
  <2>2. CASE d = c
    BY <1>0, <1>1, <1>4, <2>2 DEF ClientAndChild
  <2> QED BY <2>1, <2>2
<1> QED BY <1>5, <1>6 DEF WarmUpInv, ReplyShown

LEMMA NextWarmUpInv == WarmUpInv /\ [WarmUpNext]_warmUpVars => WarmUpInv'
<1> SUFFICES ASSUME WarmUpInv, [WarmUpNext]_warmUpVars PROVE WarmUpInv'
  OBVIOUS
<1>1. CASE WarmUpServer /\ UNCHANGED <<file, warmUpClientVars>>
  <2>1. CASE \E c \in Clients : WarmUpChild(c)
    BY <1>1, <2>1, SendWarmUpInv, ExitWarmUpInv DEF WarmUpChild
  <2> QED BY <1>1, <2>1, OpenFailsWarmUpInv, ParentWarmUpInv, HandlerWarmUpInv DEF WarmUpServer
<1>2. CASE \E c \in Clients : WarmUpClient(c) /\ UNCHANGED <<file, parentVars>>
  BY <1>2, ConnectWarmUpInv, ReceiveWarmUpInv DEF WarmUpClient
<1>3. CASE UNCHANGED warmUpVars
  <2>1. /\ UNCHANGED <<backlog, holders, toClient, reset, ppc, newFd, child, sigchld,
                       handling, file, wpc, shown>>
        /\ WarmUpTypeOK /\ ParentTypeOK /\ OnePlace
        /\ \A c \in Clients : ClientAndChild(c) /\ ReplyShownTo(c)
        /\ \E S : child \in [Clients -> S]
    BY <1>3 DEF warmUpVars, streams, parentVars, warmUpClientVars, WarmUpInv, WarmUpTypeOK, ReplyShown
  <2>2. ParentTypeOK'
    BY <2>1, TrafficKeepsTypes DEF ParentTypeOK
  <2>3. OnePlace'
    BY <2>1 DEF OnePlace, Waiting, Working
  <2>4. WarmUpTypeOK'
    BY <2>1, <2>2 DEF WarmUpTypeOK
  <2>5. ASSUME NEW c \in Clients PROVE ClientAndChild(c)' /\ ReplyShownTo(c)'
    BY <2>1, SameForClient DEF ClientAndChild
  <2> QED BY <2>3, <2>4, <2>5 DEF WarmUpInv, ReplyShown
<1> QED BY <1>1, <1>2, <1>3 DEF WarmUpNext

LEMMA WarmUpInvariance == WarmUpSpec => []WarmUpInv
<1>1. WarmUpInv /\ [WarmUpNext]_warmUpVars => WarmUpInv'
  BY NextWarmUpInv
<1>2. WarmUpInit => WarmUpInv
  BY InitWarmUpInv
<1> QED BY <1>1, <1>2, PTL DEF WarmUpSpec

\* Every variable keeps its type, and no process has the connection of another
\* client open.
THEOREM WarmUpTypeCorrect == WarmUpSpec => []WarmUpTypeOK
<1>1. WarmUpInv => WarmUpTypeOK
  BY DEF WarmUpInv
<1> QED BY <1>1, WarmUpInvariance, PTL

\* However many clients there are, however the server and its children interleave
\* and whatever part of the reply recv() returns, a client that shows a text shows
\* the length of the file and a beginning of its contents, or all of them.
THEOREM RepliesAreShown == WarmUpSpec => []ReplyShown
<1>1. WarmUpInv => ReplyShown
  BY DEF WarmUpInv
<1> QED BY <1>1, WarmUpInvariance, PTL

\* Each connection is queued once and forked for once, and a child that works has
\* its connection open.
THEOREM WarmUpConnectionsHaveOnePlace == WarmUpSpec => []OnePlace
<1>1. WarmUpInv => OnePlace
  BY DEF WarmUpInv
<1> QED BY <1>1, WarmUpInvariance, PTL

\* Here too no child that ended is forgotten.
THEOREM WarmUpNoChildForgotten == WarmUpSpec => []ZombiesSignalled
<1>1. WarmUpInv /\ ZombiesSignalled /\ [WarmUpNext]_warmUpVars => ZombiesSignalled'
  <2> SUFFICES ASSUME WarmUpInv, ZombiesSignalled, [WarmUpNext]_warmUpVars PROVE ZombiesSignalled'
    OBVIOUS
  <2>0. \E S : child \in [Clients -> S]
    BY DEF WarmUpInv, WarmUpTypeOK
  <2>1. CASE Parent \/ Handler
    BY <2>0, <2>1, ParentKeepsSignals
  <2>2. ASSUME NEW c \in Clients, WarmUpChild(c) PROVE ZombiesSignalled'
    <3>1. CASE Exit(c)
      BY <3>1, ExitSignals
    <3>2. CASE Send(c)
      BY <2>0, <3>2, OthersKeepSignals DEF Send
    <3> QED BY <2>2, <3>1, <3>2 DEF WarmUpChild
  <2>3. CASE UNCHANGED <<child, sigchld, handling>>
    BY <2>3 DEF ZombiesSignalled
  <2>4. CASE OpenFails
    BY <2>4, <2>3 DEF OpenFails
  <2> QED BY <2>1, <2>2, <2>3, <2>4 DEF WarmUpNext, WarmUpServer, warmUpVars, parentVars
<1>2. WarmUpInit => ZombiesSignalled
  BY InitWarmUpInv
<1> QED BY <1>1, <1>2, WarmUpInvariance, PTL DEF WarmUpSpec

==============================================================================
