----------------------------- MODULE ForkingServer -----------------------------
(***************************************************************************)
(* What the servers of mp0 and mp1 have in common: the parent sets up a    *)
(* listener, accepts connections and forks a child for each; the SIGCHLD   *)
(* handler of the parent reaps the children that ended.  A server adds     *)
(* what its child does between "born" and Exit.                            *)
(***************************************************************************)
EXTENDS TcpStreams

VARIABLES
  ppc,        \* the parent: "start", "accept", "fork", "close", "exited"
  newFd,      \* the connection accept() returned last
  child,      \* the child of each connection: "none", "born", "zombie",
              \* "reaped", or a state of the server's own
  sigchld,    \* a SIGCHLD is pending: one bit, however many children ended
  handling    \* sigchld_handler() runs, with SIGCHLD blocked

parentVars == <<ppc, newFd, child, sigchld, handling>>

ParentInit ==
  /\ ppc = "start"
  /\ newFd \in Clients
  /\ child = [c \in Clients |-> "none"]
  /\ sigchld = FALSE
  /\ handling = FALSE

\* No address, no port to bind, no listener: the program exits.
Listen ==
  /\ ppc = "start"
  /\ ppc' \in {"accept", "exited"}
  /\ UNCHANGED <<streams, newFd, child, sigchld, handling>>

Listening == ppc \in {"accept", "fork", "close"}

\* A failing accept() only repeats the loop.
Accept ==
  /\ ppc = "accept" /\ ~handling
  /\ backlog # <<>>
  /\ newFd' = Head(backlog)
  /\ backlog' = Tail(backlog)
  /\ holders' = [holders EXCEPT ![Head(backlog)] = {"parent"}]
  /\ ppc' = "fork"
  /\ UNCHANGED <<toServer, toClient, reset, child, sigchld, handling>>

\* The child inherits every connection the parent has open.
Fork ==
  /\ ppc = "fork" /\ ~handling
  /\ child' = [child EXCEPT ![newFd] = "born"]
  /\ holders' = [c \in Clients |-> IF "parent" \in holders[c]
                                   THEN holders[c] \cup {newFd} ELSE holders[c]]
  /\ ppc' = "close"
  /\ UNCHANGED <<backlog, toServer, toClient, reset, newFd, sigchld, handling>>

\* fork() returns -1 when the system has no room for a process, which the
\* parent takes for the number of a child.
ForkFails ==
  /\ ppc = "fork" /\ ~handling
  /\ ppc' = "close"
  /\ UNCHANGED <<streams, newFd, child, sigchld, handling>>

\* Mutant of ClosedByParent: the parent keeps its descriptor.
ClosedByParentNone == {}

ClosedByParent == {newFd}

CloseNewFd ==
  /\ ppc = "close" /\ ~handling
  /\ Close("parent", ClosedByParent)
  /\ ppc' = "accept"
  /\ UNCHANGED <<newFd, child, sigchld, handling>>

\* The handler interrupts the parent anywhere; SA_RESTART resumes accept().
HandlerStarts ==
  /\ sigchld /\ ~handling
  /\ sigchld' = FALSE
  /\ handling' = TRUE
  /\ UNCHANGED <<streams, ppc, newFd, child>>

Reap(c) ==
  /\ handling
  /\ child[c] = "zombie"
  /\ child' = [child EXCEPT ![c] = "reaped"]
  /\ UNCHANGED <<streams, ppc, newFd, sigchld, handling>>

\* Mutant of NoneLeft: the handler waits for one child only.
NoneLeftButOne == \E c \in Clients : child[c] = "reaped"

\* waitpid() finds no child that has ended.
NoneLeft == \A c \in Clients : child[c] # "zombie"

HandlerReturns ==
  /\ handling /\ NoneLeft
  /\ handling' = FALSE
  /\ UNCHANGED <<streams, ppc, newFd, child, sigchld>>

\* The end of a child closes all its descriptors and tells the parent.
Exit(c) ==
  /\ child' = [child EXCEPT ![c] = "zombie"]
  /\ Close(c, Clients)
  /\ sigchld' = TRUE
  /\ UNCHANGED <<ppc, newFd, handling>>

Parent == Listen \/ Accept \/ Fork \/ ForkFails \/ CloseNewFd
Handler == HandlerStarts \/ HandlerReturns \/ \E c \in Clients : Reap(c)

------------------------------------------------------------------------------
\* Every connection is held only by the queue of the listener, by the parent
\* between accept() and close(), and by its own child.
ParentTypeOK ==
  /\ backlog \in Seq(Clients)
  /\ holders \in [Clients -> SUBSET ({"listener", "parent"} \cup Clients)]
  /\ \A c \in Clients : holders[c] \subseteq {"listener", "parent", c}
  /\ \A c \in Clients : "parent" \in holders[c] => c = newFd /\ ppc \in {"fork", "close"}
  /\ reset \subseteq Clients
  /\ ppc \in {"start", "accept", "fork", "close", "exited", "crashed"}
  /\ newFd \in Clients
  /\ sigchld \in BOOLEAN /\ handling \in BOOLEAN

Waiting(c) == \E i \in DOMAIN backlog : backlog[i] = c
Working(c) == child[c] \notin {"none", "zombie", "reaped"}

\* A connection is in one place at a time, from the queue over the parent to its
\* child: it is queued once, it is forked for once, and the child that works on it
\* has it open.
OnePlace ==
  /\ \A i, j \in DOMAIN backlog : i # j => backlog[i] # backlog[j]
  /\ ppc = "fork" => holders[newFd] = {"parent"} /\ child[newFd] = "none"
  /\ \A c \in Clients : /\ Waiting(c) => holders[c] = {"listener"}
                        /\ "listener" \in holders[c] => child[c] = "none"
                        /\ Working(c) => c \in holders[c]

\* No child that ended is forgotten: while there is one the handler runs, or the
\* SIGCHLD that starts it is pending, also when the signals of several children
\* are delivered as one.
ZombiesSignalled ==
  (\E c \in Clients : child[c] = "zombie") => sigchld \/ handling

==============================================================================
