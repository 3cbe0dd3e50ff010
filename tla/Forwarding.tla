------------------------------ MODULE Forwarding ------------------------------
(***************************************************************************)
(* The programs of mp3: main() of distvec.cpp and of linkstate.cpp, which  *)
(* are the same, and print_messages() and the parsers of graph.hpp.  The   *)
(* tables of the nodes are computed for the initial graph and after every  *)
(* change, and all messages are forwarded along them.  construct_fte() is  *)
(* taken to return any table that RouteTable allows, which is what DistVec *)
(* and LinkState are checked to implement.                                 *)
(***************************************************************************)
EXTENDS Graph

CONSTANTS
  NodeIds,        \* the node IDs considered
  TopologyFiles, ChangesFiles,
                  \* link files, as sequences of lines: the numbers sscanf finds
  MessageFiles    \* sequences of lines, those of the words between blanks: <<n>>
                  \* for a number and <<>> for a text, also an empty one

ASSUME NodeIdsAssumption == NodeIds \subseteq Nat /\ IsFiniteSet(NodeIds)

VARIABLES
  edges, changes, messages,    \* the parsed files
  applied,                     \* the changes applied
  vertices, adj_list,
  forwarding_table,            \* the tables computed since the last change
  message,                     \* the message being printed, by its index
  pc,                          \* "tables", "send", "walk", "done" or "thrown"
  announced,                   \* the cost printed for it
  hops, at,                    \* the hops printed for it, and the current node
  unreachable                  \* history: the messages of this round without route

files == <<edges, changes, messages>>
graph == <<vertices, adj_list, applied>>
walk == <<announced, hops, at>>
vars == <<files, graph, forwarding_table, message, pc, walk, unreachable>>

\* parse_link_file(): what sscanf() does not find in a line stays as the line before
\* left it.
ParsedLinks(lines) ==
  LET link[k \in 1 .. Len(lines)] ==
        LET Number(i, name) ==
              IF i <= Len(lines[k]) THEN lines[k][i] ELSE link[k - 1][name]
        IN  [src |-> Number(1, "src"), dst |-> Number(2, "dst"), cost |-> Number(3, "cost")]
  IN  link

\* parse_message_file(): the destination is the word behind the first blank, or the
\* first word again when there is no blank.
SrcWord(line) == line[1]
DstWord(line) == IF Len(line) > 1 THEN line[2] ELSE line[1]

\* stoi() throws for what is no number, and nobody catches it.
Readable(lines) == \A k \in DOMAIN lines : SrcWord(lines[k]) # <<>> /\ DstWord(lines[k]) # <<>>
ParsedMessages(lines) ==
  [k \in DOMAIN lines |-> [src |-> SrcWord(lines[k])[1], dst |-> DstWord(lines[k])[1]]]

Ends(e) == {e.src, e.dst}

\* A link leads to another node.  A negative cost, which removes one, stands in a
\* changes file: nothing looks for it in a topology.
Links == {e \in [src : NodeIds, dst : NodeIds, cost : Int] : e.src # e.dst}

\* The first line has its three numbers: before it src, dst and cost have no value.
ASSUME FilesAssumption ==
  /\ \A f \in TopologyFiles \cup ChangesFiles :
       f \in Seq(Seq(Int)) /\ (f # <<>> => Len(f[1]) >= 3)
  /\ \A f \in TopologyFiles : ParsedLinks(f) \in Seq({e \in Links : Valid(e)})
  /\ \A f \in ChangesFiles : ParsedLinks(f) \in Seq(Links)
  /\ MessageFiles \subseteq Seq(Seq(Seq(Int)))

Init ==
  /\ edges \in {ParsedLinks(f) : f \in TopologyFiles}
  /\ changes \in {ParsedLinks(f) : f \in ChangesFiles}
  /\ \E lines \in MessageFiles :
       IF Readable(lines) THEN messages = ParsedMessages(lines) /\ pc = "tables"
                          ELSE messages = <<>> /\ pc = "thrown"
  /\ applied = 0
  /\ vertices = UNION {Ends(edges[k]) : k \in DOMAIN edges}
  /\ adj_list = FromEdges(NodeIds, edges)
  /\ forwarding_table = <<>>
  /\ message = 1
  /\ announced = 0 /\ hops = <<>> /\ at = -1
  /\ unreachable = {}

------------------------------------------------------------------------------
\* The tables that construct_fte(u) may return: each entry has the cost of a
\* shortest route and one of the hops that such routes start with.
RouteTables(u, walks) ==
  LET Starts(n, t) ==
        IF t = u THEN n = u
        ELSE /\ n # u /\ t \in Reachable(walks, n)
             /\ adj_list[u][n] + Distance(walks, n, t) = Distance(walks, u, t)
      targets == Reachable(walks, u)
      choices == {hop \in [targets -> DOMAIN adj_list[u] \cup {u}] :
                    \A t \in targets : Starts(hop[t], t)}
  IN  {[t \in targets |-> [cost |-> Distance(walks, u, t), next_hop |-> hop[t]]] :
         hop \in choices}

\* The next vertex gets its table.
ComputeTable ==
  /\ pc = "tables"
  /\ \E u \in vertices \ DOMAIN forwarding_table :
       /\ \A v \in vertices \ DOMAIN forwarding_table : u <= v
       /\ \E walks \in {ShortestWalks(adj_list)} :
            \E table \in RouteTables(u, walks) :
              forwarding_table' = Put(forwarding_table, u, table)
  /\ UNCHANGED <<files, graph, message, pc, walk, unreachable>>

\* The tables are printed, and the messages follow.
PrintTables ==
  /\ pc = "tables"
  /\ DOMAIN forwarding_table = vertices
  /\ pc' = "send"
  /\ message' = 1
  /\ UNCHANGED <<files, graph, forwarding_table, walk, unreachable>>

\* A node that is no vertex has an empty table, as operator[] makes it.
Targets(u) == IF u \in vertices THEN DOMAIN forwarding_table[u] ELSE {}

SrcOf(m) == messages[m].src
DstOf(m) == messages[m].dst

\* The message has a route: its cost is printed, and its hops follow.
Announce ==
  /\ pc = "send" /\ message <= Len(messages)
  /\ DstOf(message) \in Targets(SrcOf(message))
  /\ announced' = forwarding_table[SrcOf(message)][DstOf(message)].cost
  /\ hops' = <<>>
  /\ at' = SrcOf(message)
  /\ pc' = "walk"
  /\ UNCHANGED <<files, graph, forwarding_table, message, unreachable>>

\* The message has none, which is printed instead.
Unreachable ==
  /\ pc = "send" /\ message <= Len(messages)
  /\ DstOf(message) \notin Targets(SrcOf(message))
  /\ unreachable' = unreachable \cup {message}
  /\ message' = message + 1
  /\ UNCHANGED <<files, graph, forwarding_table, pc, walk>>

\* Mutant of NextHop: the next hop is looked up in the table of the source.
NextHopOfSource == forwarding_table[SrcOf(message)][DstOf(message)].next_hop

NextHop == forwarding_table[at][DstOf(message)].next_hop

\* The current node is printed and left by its next hop to the destination; the
\* message ends where a node has none.
Hop ==
  /\ pc = "walk" /\ at \notin {DstOf(message), -1}
  /\ hops' = Append(hops, at)
  /\ IF DstOf(message) \in Targets(at)
     THEN at' = NextHop /\ UNCHANGED <<message, pc>>
     ELSE message' = message + 1 /\ pc' = "send" /\ UNCHANGED at
  /\ UNCHANGED <<files, graph, forwarding_table, announced, unreachable>>

\* The walk is over: the text is printed, and the next message is up.
Arrive ==
  /\ pc = "walk" /\ at \in {DstOf(message), -1}
  /\ message' = message + 1
  /\ pc' = "send"
  /\ UNCHANGED <<files, graph, forwarding_table, walk, unreachable>>

\* Mutant of FreshTables: the tables from before the change are kept.
FreshTablesKept == forwarding_table

\* print_messages() starts with no tables.
FreshTables == <<>>

\* All messages were printed: the next change is applied, and they are printed again.
ApplyChange ==
  /\ pc = "send" /\ message > Len(messages) /\ applied < Len(changes)
  /\ LET e == changes[applied + 1] IN
     /\ adj_list' = UpdateEdge(adj_list, e)
     /\ vertices' = IF Valid(e) THEN vertices \cup Ends(e) ELSE vertices
  /\ applied' = applied + 1
  /\ forwarding_table' = FreshTables
  /\ unreachable' = {}
  /\ pc' = "tables"
  /\ UNCHANGED <<files, message, walk>>

Finish ==
  /\ pc = "send" /\ message > Len(messages) /\ applied = Len(changes)
  /\ pc' = "done"
  /\ UNCHANGED <<files, graph, forwarding_table, message, walk, unreachable>>

Next == \/ ComputeTable \/ PrintTables \/ Announce \/ Unreachable
        \/ Hop \/ Arrive \/ ApplyChange \/ Finish

Spec == Init /\ [][Next]_vars

------------------------------------------------------------------------------

\* The nodes of the walk so far, and the links they took.
Path == Append(hops, at)
IsPath == \A k \in DOMAIN hops : Path[k + 1] \in DOMAIN adj_list[Path[k]]

Total(costs) ==
  LET sum[k \in 0 .. Len(costs)] == IF k = 0 THEN 0 ELSE sum[k - 1] + costs[k]
  IN  sum[Len(costs)]
PathCost == Total([k \in DOMAIN hops |-> adj_list[Path[k]][Path[k + 1]]])

\* The hops printed are links of the graph as it is after the last change, and the
\* cost printed is that of the links walked and of the route that is left: nodes
\* decide on their hops independently, each by its own table.
HopsMatchCost ==
  pc = "walk" =>
    /\ IsPath
    /\ DstOf(message) \in Targets(at)
    /\ announced = PathCost + forwarding_table[at][DstOf(message)].cost

\* A message is printed as unreachable when the graph after the last change has no
\* route for it, and only then.
UnreachableIsCut ==
  pc = "send" /\ message > Len(messages) =>
    LET walks == ShortestWalks(adj_list) IN
    unreachable = {m \in DOMAIN messages :
                     ~ (/\ SrcOf(m) \in vertices
                        /\ DstOf(m) \in Reachable(walks, SrcOf(m)))}

\* The lines about the link between two nodes.
LinesAbout(lines, u, v) == {k \in DOMAIN lines : Ends(lines[k]) = {u, v}}

Follows(adj, lines) ==
  \A u, v \in NodeIds : u # v =>
    LET about == LinesAbout(lines, u, v)
        last == lines[Max(about)]
    IN  IF about = {} \/ last.cost < 0
        THEN v \notin DOMAIN adj[u]
        ELSE v \in DOMAIN adj[u] /\ adj[u][v] = last.cost

\* The i-th number that the lines up to k say last.
Said(lines, k, i) == lines[Max({j \in 1 .. k : i <= Len(lines[j])})][i]
SaidLinks(lines) ==
  [k \in DOMAIN lines |-> [src |-> Said(lines, k, 1), dst |-> Said(lines, k, 2),
                           cost |-> Said(lines, k, 3)]]

\* The graph is what the two files say, line by line, where a line that has too few
\* numbers speaks with those of the lines before: the last line about two nodes sets
\* the cost of their link, in both directions, or removes it.
GraphFollowsFiles ==
  \E topology \in TopologyFiles : \E lines \in ChangesFiles :
    /\ edges = SaidLinks(topology) /\ changes = SaidLinks(lines)
    /\ Follows(adj_list, SaidLinks(topology) \o SubSeq(SaidLinks(lines), 1, applied))

==============================================================================
