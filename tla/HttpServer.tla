------------------------------ MODULE HttpServer ------------------------------
(***************************************************************************)
(* http_server (mp1/src/http_server.c): the child of each connection       *)
(* answers one request, send_response(), and ends.  A piece of a reply, of *)
(* its header or of a line, stands for a byte of it.                       *)
(***************************************************************************)
EXTENDS ForkingServer

CONSTANTS
  Files,        \* the lines of each file the server can open, by its path
  StatusLine,   \* the first line of the replies with status "200", "400" and "404"
  HeaderEnd     \* the end of the header: "\r\n\r\n"

\* Behind an empty path fopen() is given what follows the blank, which is no file.
ASSUME FilesAssumption ==
  /\ \A path \in DOMAIN Files : Files[path] \in Seq(Seq(STRING))
  /\ <<>> \notin DOMAIN Files

\* The end of the header begins with the first '\r' of a reply.
ASSUME HeaderAssumption ==
  /\ HeaderEnd \in Seq(STRING \ {NUL}) /\ HeaderEnd # <<>>
  /\ \A status \in {"200", "400", "404"} :
       StatusLine[status] \in Seq(STRING \ {NUL, HeaderEnd[1]})

VARIABLES
  url,        \* what the child's second read() returned
  line        \* the number of lines the child has got from the file

serverVars == <<parentVars, url, line>>

ChildStates == {"none", "born", "url", "file", "answered", "zombie", "reaped"}

Blank == "blank"
Method == <<"GET", Blank>>
Reply(status) == StatusLine[status] \o HeaderEnd

ServerInit ==
  /\ ParentInit
  /\ url = [c \in Clients |-> <<>>]
  /\ line = [c \in Clients |-> 0]

ChildStep(c, from, to) == child[c] = from /\ child' = [child EXCEPT ![c] = to]

\* One read() of four bytes, two tokens here, must return the whole "GET ".
ReadMethod(c) ==
  /\ \E method \in FirstPart(toServer[c], 2) :
       /\ ServerTakes(c, 2, method)
       /\ IF method = Method
          THEN ChildStep(c, "born", "url") /\ UNCHANGED toClient
          ELSE /\ ChildStep(c, "born", "answered")
               /\ ServerWrites(c, Reply("400"))
  /\ UNCHANGED <<backlog, holders, reset, ppc, newFd, url, line, sigchld, handling>>

\* strsep() ends the path at the first blank, or where the read ended.  (The first
\* piece of a path is known by what follows the "/", as for fopen().)
PathOf(text) == Before(text, Blank)

ReadUrl(c) ==
  /\ \E text \in FirstPart(toServer[c], Len(toServer[c])) :
       /\ ServerTakes(c, Len(toServer[c]), text)
       /\ url' = [url EXCEPT ![c] = text]
       /\ IF PathOf(text) \in DOMAIN Files
          THEN ChildStep(c, "url", "file") /\ ServerWrites(c, Reply("200"))
          ELSE ChildStep(c, "url", "answered") /\ ServerWrites(c, Reply("404"))
  /\ UNCHANGED <<backlog, holders, reset, ppc, newFd, line, sigchld, handling>>

\* fgets() gives the next line, of which strlen() sees what precedes a NUL.
WriteLine(c) ==
  /\ child[c] = "file"
  /\ LET lines == Files[PathOf(url[c])] IN
       /\ line[c] < Len(lines)
       /\ ServerWrites(c, CString(lines[line[c] + 1]))
       /\ line' = [line EXCEPT ![c] = @ + 1]
  /\ UNCHANGED <<backlog, holders, toServer, reset, ppc, newFd, child, url, sigchld,
                 handling>>

\* Mutant of Answered: the last line of the file is not waited for.
AnsweredEarly(c) ==
  \/ child[c] = "answered"
  \/ child[c] = "file" /\ line[c] + 1 >= Len(Files[PathOf(url[c])])

Answered(c) ==
  \/ child[c] = "answered"
  \/ child[c] = "file" /\ line[c] = Len(Files[PathOf(url[c])])

\* close() and exit(), or an abort: free(url) is given the place strsep() moved
\* url to, inside the block, and the C library may stop the child for it.  Both
\* come after all the writes.
End(c) == Answered(c) /\ Exit(c) /\ UNCHANGED <<url, line>>

Child(c) == ReadMethod(c) \/ ReadUrl(c) \/ WriteLine(c) \/ End(c)

Server ==
  \/ (Parent \/ Handler) /\ UNCHANGED <<url, line>>
  \/ \E c \in Clients : Child(c)

==============================================================================
