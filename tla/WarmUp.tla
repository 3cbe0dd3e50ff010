-------------------------------- MODULE WarmUp --------------------------------
(***************************************************************************)
(* The programs of mp0 (mp0/src/server.c and client.c): the server reads a *)
(* file once and sends its length and contents to every client; a client   *)
(* shows what one recv() returns of that.                                  *)
(***************************************************************************)
EXTENDS ForkingServer

CONSTANTS
  Pieces,       \* what a recv() may cut a text into
  GivenFiles,   \* the files the server may be given, as sequences of pieces
  NoFile,       \* a name that fopen() cannot open
  RecvMax,      \* MAXDATASIZE - 1: the pieces recv() returns at most
  Decimal(_)    \* the digits of a length, one piece

ASSUME PiecesAssumption == {"\n", "JUNK"} \subseteq Pieces
ASSUME GivenFilesAssumption == \A f \in GivenFiles : f = NoFile \/ f \in Seq(Pieces)
ASSUME RecvMaxAssumption == RecvMax \in Nat
ASSUME DecimalAssumption ==
  \A f \in GivenFiles \ {NoFile} : Decimal(Len(f)) \in Pieces \ {"\n"}

VARIABLES
  file,     \* argv[1] of the server
  wpc,      \* per client: "connect", "recv", "done", "failed", "crashed"
  shown     \* per client: what it printed

warmUpClientVars == <<wpc, shown>>
warmUpVars == <<streams, parentVars, file, warmUpClientVars>>

Junk == "JUNK"      \* bytes that nobody wrote
Nothing == [length |-> <<>>, text |-> <<>>]

WarmUpInit ==
  /\ StreamsInit
  /\ ParentInit
  /\ file \in GivenFiles
  /\ wpc = [c \in Clients |-> "connect"]
  /\ shown = [c \in Clients |-> Nothing]

------------------------------------------------------------------------------
\* The server.

\* The file is copied as a C string.
Contents == CString(file)

\* The length is that of the whole file, in decimal.
WholeReply == <<Decimal(Len(file)), "\n", "\n", "\n">> \o Contents

\* The NULL of a failed fopen() goes to fseek() before it is looked at.
OpenFails ==
  /\ ppc = "start" /\ file = NoFile
  /\ ppc' = "crashed"
  /\ UNCHANGED <<streams, newFd, child, sigchld, handling>>

Serves == ppc = "start" => file # NoFile

Send(c) ==
  /\ child[c] = "born"
  /\ child' = [child EXCEPT ![c] = "sent"]
  /\ ServerWrites(c, WholeReply)
  /\ UNCHANGED <<backlog, holders, toServer, reset, ppc, newFd, sigchld, handling>>

WarmUpChild(c) == Send(c) \/ (child[c] = "sent" /\ Exit(c))

WarmUpServer == OpenFails \/ (Serves /\ Parent) \/ Handler \/ \E c \in Clients : WarmUpChild(c)

------------------------------------------------------------------------------
\* The clients.

WarmUpGoes(c, to) == wpc' = [wpc EXCEPT ![c] = to]

WarmUpConnect(c) ==
  /\ wpc[c] = "connect" /\ Listening
  /\ Handshake(c)
  /\ WarmUpGoes(c, "recv")
  /\ UNCHANGED shown

WarmUpConnectFails(c) ==
  /\ wpc[c] = "connect" /\ ~Listening
  /\ WarmUpGoes(c, "failed")
  /\ UNCHANGED <<streams, shown>>

\* The NUL goes behind what was received, b.  The number before the first newline
\* is shown, and the text that starts two bytes from it; when b ends with that
\* newline, this is behind the NUL.
Newline(b) == SelectInSeq(b, LAMBDA t : t = "\n")

\* Mutant of TextStart: all newlines are passed over.
TextStartLate(b) == Newline(b) + 3

TextStart(b) == Newline(b) + 2

Shown(b) ==
  [length |-> SubSeq(b, 1, Newline(b) - 1),
   text |-> IF TextStart(b) <= Len(b) + 1 THEN SubSeq(b, TextStart(b), Len(b))
                                          ELSE <<Junk>>]

\* Without a newline strchr() returns NULL, and the position computed from it lies
\* somewhere else in memory.
Show(c, b) ==
  IF Newline(b) # 0
  THEN WarmUpGoes(c, "done") /\ shown' = [shown EXCEPT ![c] = Shown(b)]
  ELSE \/ WarmUpGoes(c, "crashed") /\ UNCHANGED shown
       \/ WarmUpGoes(c, "done") /\ shown' = [shown EXCEPT ![c] = [length |-> b, text |-> <<Junk>>]]

\* The only recv(), of some of the bytes or, at the end of the stream, of none.  It
\* does not return -1: a client that sends nothing is not reset.
Receive(c) ==
  /\ wpc[c] = "recv"
  /\ \/ \E b \in FirstPart(toClient[c], RecvMax) : ClientTakes(c, b) /\ Show(c, b)
     \/ ClientTakesEnd(c) /\ Show(c, <<>>)

WarmUpClient(c) == WarmUpConnect(c) \/ WarmUpConnectFails(c) \/ Receive(c)

------------------------------------------------------------------------------
WarmUpNext ==
  \/ WarmUpServer /\ UNCHANGED <<file, warmUpClientVars>>
  \/ \E c \in Clients : WarmUpClient(c) /\ UNCHANGED <<file, parentVars>>

WarmUpSpec == WarmUpInit /\ [][WarmUpNext]_warmUpVars

\* Every process that can run does.
WarmUpFairSpec ==
  /\ WarmUpSpec
  /\ WF_warmUpVars(OpenFails /\ UNCHANGED <<file, warmUpClientVars>>)
  /\ WF_warmUpVars(Serves /\ Parent /\ UNCHANGED <<file, warmUpClientVars>>)
  /\ WF_warmUpVars(Handler /\ UNCHANGED <<file, warmUpClientVars>>)
  /\ \A c \in Clients : /\ WF_warmUpVars(WarmUpChild(c) /\ UNCHANGED <<file, warmUpClientVars>>)
                        /\ WF_warmUpVars(WarmUpClient(c) /\ UNCHANGED <<file, parentVars>>)

------------------------------------------------------------------------------
IsJunk(c) == shown[c].text = <<Junk>>

\* Whatever recv() returned, a client shows the length of the file and a part of
\* its text from the beginning, all of it when nothing of the reply was left; and
\* it shows junk, or crashes, only when the reply was cut, or was never sent.
ReplyShownTo(c) ==
  /\ wpc[c] = "done" /\ ~IsJunk(c) =>
       /\ shown[c].length = <<Decimal(Len(file))>>
       /\ IsPrefix(shown[c].text, <<"\n">> \o Contents)
       /\ toClient[c] = <<>> => shown[c].text = <<"\n">> \o Contents
  /\ wpc[c] = "crashed" \/ IsJunk(c) => toClient[c] # <<>> \/ child[c] = "none"

ReplyShown == \A c \in Clients : ReplyShownTo(c)

WarmUpTypeOK ==
  /\ ParentTypeOK
  /\ child \in [Clients -> {"none", "born", "sent", "zombie", "reaped"}]
  /\ toClient \in [Clients -> Seq(Pieces)]
  /\ file \in GivenFiles
  /\ wpc \in [Clients -> {"connect", "recv", "done", "failed", "crashed"}]
  /\ shown \in [Clients -> [length : Seq(Pieces), text : Seq(Pieces)]]

\* Where a client stands says where its connection and its child do.
ClientAndChild(c) ==
  /\ wpc[c] \in {"connect", "failed"} => holders[c] = {} /\ child[c] = "none"
  /\ wpc[c] \in {"done", "crashed"} =>
       child[c] # "born" /\ (child[c] = "none" => holders[c] = {})
  /\ wpc[c] # "done" => shown[c] = Nothing
  /\ child[c] \in {"none", "born"} => toClient[c] = <<>>
  /\ wpc[c] = "recv" /\ child[c] \in {"sent", "zombie", "reaped"} => toClient[c] = WholeReply
  /\ file = NoFile => ppc \in {"start", "crashed"} /\ child[c] = "none"

\* The inductive invariant of ReplyShown.
WarmUpInv ==
  /\ WarmUpTypeOK
  /\ OnePlace
  /\ \A c \in Clients : ClientAndChild(c)
  /\ ReplyShown

\* A client comes to its end, also when there is no server and when its child could
\* not be forked.
EveryClientEnds == \A c \in Clients : <>(wpc[c] \in {"done", "failed", "crashed"})

==============================================================================
