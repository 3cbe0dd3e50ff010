# Formal models of the ECE 438 network programs

The repository holds the four machine problems of a networking course, each with programs of its own under `src/mp`. This directory models them in TLA+: TLC checks the models on small instances, and TLAPS proves the theorems of the `_proofs` modules for every value of the constants. Paths below are relative to `src/mp` unless they begin with `src/`.

## 1. The system

| Part | Files | State it keeps | Operations |
|---|---|---|---|
| Reliable sender (mp2) | `mp2/src/sender_main.cpp`, `sender.hpp` | packet vector, window (`cw_base`, `cw`, `SST`), `last_ack`, `dupAck`, congestion state SS/CA/FR, `max_sent`, `specialResends` | `fillVector`, `reliablyTransfer`, `finish_transfer` |
| Reliable receiver (mp2) | `mp2/src/receiver_main.cpp` | next sequence number, priority queue of early packets, destination file | `reliablyReceive` |
| Packets (mp2) | `mp2/src/shared.hpp` | type bits, sequence number, data | `populate`, `has_type`, `set_type` |
| Graph and link files (mp3) | `mp3/src/graph.hpp` | `vertices`, `adj_list`; parsed files | `Graph`, `update_edge`, `parse_link_file` |
| Distance vector routing (mp3) | `mp3/src/distvec/distvec.cpp` | one table per node, queue of notified nodes | `construct_fte` |
| Link state routing (mp3) | `mp3/src/link/linkstate.cpp` | distances, predecessors, known nodes, priority queue | `construct_fte` |
| Message forwarding (mp3) | `graph.hpp`, both `main` | tables of all nodes, current message, hops | `print_messages`, changes |
| CSMA simulator (mp4) | `mp4/src/CSMASimulator.cpp`, `.h` | per node a wait and a backoff index; the packet on the channel; counters | `simulate`, `simulateRound` |
| CSMA input and program (mp4) | the constructor, `csma.cpp` | the five parameters; `output.txt` | one read per line, simulate, write the goodput |
| HTTP server (mp1) | `mp1/src/http_server.c` | parent, children, shared descriptors, pending SIGCHLD | accept loop, `send_response`, `sigchld_handler` |
| HTTP client (mp1) | `mp1/src/http_client.c` | the parts of its argument, buffer, output file | `parse_hostname`, request, header loop, body loop |
| Warm-up server (mp0) | `mp0/src/server.c` | the reply built from its file; the same parent, children and handler as the HTTP server | read a file, accept loop, one `send` per child |
| Warm-up client (mp0) | `mp0/src/client.c` | one buffer | connect, one `recv`, show |
| Samples | `mp0/src/talker.c`, `listener.c`, `mp1/src/ref` | none of their own | straight-line socket calls |

How they interact: sender and receiver exchange datagrams that UDP loses, repeats and reorders. The two routing algorithms are alternatives behind one function `construct_fte(src)`, called by `print_messages` for every node after every change of the graph. The HTTP programs exchange byte streams; server processes share descriptors across `fork()` and are joined by signals; the warm-up server has the same skeleton. The simulator runs on the parameters that its constructor read from the input file.

Where it is hard:

* mp2: loss, duplication and reordering in both directions, timeouts racing late answers, state changed before the state machine reads it, fractional windows, a shutdown that is tried three times at most.
* mp3: tables computed from tables that change meanwhile, outdated queue items, ties that every node must break alike or at least consistently, a graph stored in two directions.
* mp4: waits that stand still while the channel is busy, backoff vectors that shrink or hold a zero, packets of one slot, packets cut by the end of the simulation.
* mp0, mp1: streams cut anywhere, several processes holding one connection, coalesced signals, failing forks, resets; texts cut at a NUL, a newline or a colon that is not the one meant.

What makes each part correct (the properties below make this precise): the file arrives in order, once and whole, and nobody ends early; the sender never waits for a packet it did not send. Tables never hold a loop, no notification is lost, and the result is a table of shortest routes with the tie-breaks of the handout; forwarded messages cost what was announced. The channel carries one packet at a time, uncut, and the goodput counts its slots. A simulation runs only on a file that is well-formed line by line. A client's file is its file, clients do not wait for each other, and no child stays a zombie.

## 2. Modules

```
Datagrams ── Sender ──┐
     └───── Receiver ─┴─ ReliableTransfer ──refines── FileTransfer      FillVector (how the vector comes about)
Graph ── DistVec ───────┐
   ├──── LinkState ─────┼── refine ── RouteTable ── used by ── Forwarding
CSMA ──refines── SlottedChannel
  └── CSMAProgram ── CSMAInput (where the parameters come from)
TcpStreams ── ForkingServer ─┬─ HttpServer ── HttpClient ── HttpSessions
                             └─ WarmUp
```

`MC*` modules hold the values of the constants for TLC (`FourNodeGraphs` the graphs that both routing algorithms are run on), `*_proofs` modules the theorems; `Graph_proofs` (shortest walks) and `NaturalLemmas` (least elements, induction, recursive functions) hold lemmas that several of them cite. Definitions keep the names of the code where TLA+ allows it; the rest of the correspondence:

* **Datagrams.** A packet is its type bits and sequence number; the payload is identified with the number. A channel is a set: `Lose` removes, delivery may leave a copy, any packet may come next. `FinPacket` has number 0 because the global `seq_no` never moves; `FinAckPacket` keeps the ACK bit because `set_type` adds a bit.
* **Sender.** One step per blocking point: `SendWindow` is the head of the loop (window from `max_sent`, then `specialResends`); `ReceiveTimeout` and `ReceiveReply(p, late)` are `recv()` with everything up to the next iteration, `late` being a reply read after the timer expired (lines 206-210), which counts as both. `Handle` first raises `last_ack` and `cw_base`, then runs the state machine: each branch of the `switch` is an action (`OnTimeout`, `OnDuplicate`, `OnNewAck`, ...). `cw` and `SST` are kept in units of `1/Scale` packet. `SendFin`, `FinAnswered`, `FinTimeout` are `finish_transfer()`, `CloseFile` the undefined `fclose(NULL)`: exit or crash.
* **Receiver.** `ReceivePacket` is a whole iteration: queue, drain, acknowledge, and for a FIN the answer and the `fclose()`.
* **FillVector.** `ReadPacket`, `ReadNothing`, `EmptyPacket`, `Filled` are the four ways through the loop with `populate()`; the size of the data is kept, the bytes are not.
* **Graph.** `adj_list` as a function of functions; `FromEdges` is the constructor, link by link, `Link`/`Unlink`/`UpdateEdge` are `update_edge()`. `ShortestWalks` is a reference definition, not code: the least costs over walks of at most as many links as there are nodes; `IsRouteTable` says with it what a table must hold. Recursion is written with recursive functions throughout, so that it can be proved about.
* **DistVec.** `Update` relaxes the node at the head of the queue against all neighbours and notifies them when its table changed; `Return` hands out the table.
* **LinkState.** `Skip` and `Settle` pop an outdated or a current item, `StartWalk`, `StepBack`, `EndWalk` follow predecessors to the first hop. The priority queue is a set of items: equal items are interchangeable, the second of them is always skipped.
* **Forwarding.** `ComputeTable` (any table `RouteTable` allows), `PrintTables`, `Announce`/`Unreachable`, `Hop`, `Arrive`, `ApplyChange`, `Finish`: the loop of `main` around `print_messages()`. `ParsedLinks` keeps what `sscanf` leaves from the line before; `ParsedMessages` takes the words around the first blank (the same word twice when there is none), and a word that `stoi` does not read ends the program (`Readable`, `pc = "thrown"`). `LinesAbout` are the lines of a file about one link, of which the last counts (`Follows`); `SaidLinks` says of a file, without the parser's loop, what its lines mean when some have too few numbers; `Total` adds up the links that a message went along.
* **CSMA.** One step per slot: `Transmit`, `Collide`, `Start`, `Idle`, and `Trap` for a division by a backoff of 0. `delivered` is a history variable.
* **CSMAInput.** One step per line: `ReadLine` for what is accepted, `SkipBlank`, `Reject` for the exceptions; `Parsed` and `CountMismatch` are what can be wrong with the numbers, and `EndOfFile` reveals what a member holds that no line set.
* **CSMAProgram.** `main()`: `Construct` (the steps of `CSMAInput`), `Simulate` (those of `CSMA`, on the parameters read), `WriteGoodput`. It instantiates the constructor's module on the variables of the simulator, so that nothing is assumed of the parameters.
* **TcpStreams.** External: two streams of pieces per connection, received in any parts; `holders`, the processes (or the listener's queue) that have the server's end open; a connection ends with its last holder, by a reset when the server left data unread; `LoseUnread` is what a reset destroys on its way. A reset takes the place of the end or, for data that was sent after it, comes behind it, so that one `recv()` returns 0 and the next -1 (`ClientTakesEnd`, `ClientTakesReset`). `Before(s, t)` is where C strings and `strsep()` stop: at a NUL (`CString`) or a blank (`PathOf`).
* **ForkingServer.** What `mp0/src/server.c` and `http_server.c` have line for line in common: `Listen`, `Accept`, `Fork`/`ForkFails`, `CloseNewFd` are the parent's loop; `HandlerStarts`, `Reap`, `HandlerReturns` the handler, which interrupts it anywhere and is started by one pending bit; `Exit` the end of a child. The map gives its definitions the lines of `mp0/src/server.c`.
* **HttpServer.** A piece of a reply stands for a byte: `StatusLine` and `HeaderEnd`, of any length, and the lines of the files are sequences of them. `ReadMethod` (the four bytes of "GET " are the two tokens of `Method`), `ReadUrl` (with `fopen` and the status line), `WriteLine`, `End` the child. `free(url)` on the pointer that `strsep()` moved is undefined; it comes after all writes, so its outcomes (abort, or go on to `close` and `exit`) end in the same state, `End`.
* **HttpClient.** `Hostname`, `Port` and `Path` are `parse_hostname()`, on arguments as sequences of pieces (here as long as a test of the code tells them apart) without blanks and queries: the colon is looked for in the path too, and the byte behind a port is never written, so that `ConnectFails` may look up another port. `ReceiveHeader` stores data behind `totalBytes` but the NUL at `numbytes`, as the code does (`Stored`); `HeaderEndsAt` is `strstr()`: the places where the bytes of `HeaderEnd` begin in the text before the first NUL. `Request` has the path between `Method` and `RestOfRequest`, a constant of any length that begins with a blank. `HeaderEnds` is the loop left by 0 or -1, after which the body loop runs all the same.
* **WarmUp.** `OpenFails` is the `NULL` of `fopen()` used before it is looked at; `WholeReply` the length of the whole file with the contents up to its first NUL; `Send` and `Exit` the child. `Receive` is the client's only `recv()`, `Show` what it prints of it, `Junk` standing for bytes that nobody wrote: with no newline in the buffer `strchr()` returns NULL, with the newline at its end the text starts behind the NUL.

Abstract specifications: `FileTransfer` (a file that grows in order, a sender that stops when it is whole, a receiver that stops after the sender), `RouteTable` (one table of shortest routes is delivered, once), `SlottedChannel` (one owner at a time, a fixed number of consecutive slots). The refinement mappings are at the ends of `ReliableTransfer`, `DistVec`, `LinkState` and `CSMA`.

## 3. Runs

| Run | States | Instance | What it shows |
|---|---|---|---|
| `transfer_safety` | 171 295 | 3 packets | `InOrderFile`, `AckSound`, `CompleteBeforeEnd`, `ResendsBase`, `RecoveryConsistent`, `WaitsForSentPacket`, the types, and `ImplementsFileTransfer` |
| `transfer_live` | 15 575 | 2 packets, fair network | `SenderFinishes`: the sender ends; by `CompleteBeforeEnd` the whole file is written then |
| `transfer_fin_lost` | violation | 1 packet | all FINs lost: the receiver never closes (hence never flushes) the file |
| `transfer_slow_start` | violation | 2 packets | a new acknowledgement does not grow the window |
| `fill_vector` | 447 | files to 8 bytes, requests to 10, packets of 3 | `CarriesTheRequest`, `DataComesFirst`: the vector carries what was asked for, in full packets but the last |
| `csma_safety` | 2 786 | 0-3 nodes, L in 0-3, eight vectors, T in {0, 1, 14} | waits in their windows, exclusive channel, slots counted, refinement of `SlottedChannel` |
| `csma_program` | 29 954 | the five lines in every order with three backoff lines and two counts; all files of at most 3 of 12 lines | `SimulatesTheFile`: a simulation runs only on good lines, with their values and counted backoffs; `WellFormedRuns`: the program ends on every file, on a well-formed one with a goodput between 0 and 1 |
| `dist_vec` | 31 864 | all graphs of 4 nodes, costs 1-2 | backed entries, no loops in intermediate tables, no lost notification, convergence, end, refinement of `RouteTable` |
| `link_state` | 60 184 | the same graphs | final distances, queue complete, lowest predecessors, end, refinement of `RouteTable` |
| `forwarding` | 125 462 | 4 topologies, 38 files of up to 3 changes, some with too few numbers, 8 message files | hops match the cost announced, unreachable means cut, graph follows the files |
| `http_sessions` | 298 656 | 2 clients, 2 arguments each, headers of 3 pieces | `OutputInOrder`: an output is the beginning of one file, at most one stretch missing from it that is shorter than the header; `OutputComplete`; no forgotten child, no client waits for another |
| `warm_up` | 22 310 | 2 clients, 5 files, `recv()` of at most 5 pieces | `ReplyShown`: the length and a beginning of the text, junk only of a reply that was cut or never sent; `EveryClientEnds` |

Every property of a passing run has a mutant in its module: a definition changed as a bug would change it, under which the property fails. Mutants stand before the definitions they are about.

**Bounds and why they are enough.** Three packets are the least for which one can be missing, one buffered behind it and one still outside the window; three duplicates, hence fast recovery, come from repeated datagrams and from `packets[max_sent]`, which every iteration sends again. `MaxCw` bounds the inflation of the window in recovery: a window beyond the vector sends no more than one that reaches its end, and the bound is above the three packets that recovery starts with. `Scale` is `2^(N+1)`, so that the halvings that can follow each other are exact. Four nodes with costs 1 and 2 give routes of three links, ties with different hops and last nodes, detours cheaper than a direct link and cut-off nodes. Three CSMA nodes give two that collide and one that waits; 14 slots hold several packets, collisions and drops. Two clients give overlapping children, coalesced signals and inherited descriptors; the first reads a two-line file with a NUL and its path can be cut to that of another file, the second gets a 404; each may also be given an argument that does not lead to the server, or a colon in its path; `BACKLOG` 1 is reached. The header of three pieces can be received in every way that matters: whole, with its end cut in two, and behind one or two pieces, so that a NUL hides a whole line of the file, more than one piece, or the header's end itself; the proofs are for headers and lines of any length. A change file of three lines ends with one of a single number, for which the line before and the first line mean different things. The files of the warm-up server are: none, an empty one, one with a NUL, one that a `recv()` of five pieces returns whole (its length and three newlines are four of them), and one that it must cut. Files of three lines hold every pair of an M and an R line with another line before, between or after them; the full files of five lines simulate five slots with two nodes that may collide.

**Where CHECK_DEADLOCK is FALSE.** Everywhere: all programs but the two servers end, and a server waits in `accept()` when no client is left.

**Fairness.**

* Transfer: each process keeps running (weak fairness of its own steps); UDP delivers a packet that is sent again and again to a receiver that keeps calling `recv()` (strong fairness of each data packet, of the FIN, and for acknowledgements the form written out at `Fairness`, since each could be lost just before the call). Nothing is assumed of the three FINs beyond that.
* `DistVec`, `LinkState`, `CSMAProgram`: sequential programs that nothing blocks, weak fairness of the next step.
* HTTP: weak fairness of the parent, the handler, every child and every client, except for the client's sending: a client may connect and stay silent, and the others must be served. TCP needs no assumption of its own, as data sent is in the stream until taken or reset. A connected client of the warm-up server sends nothing, so that there every process that can run does.

## 4. Proofs

All proofs are checked by TLAPS with SMT, Zenon and PTL. Every safety invariant and every refinement that a run checks is proved, for all values of the constants; liveness is only model-checked. No theorem assumes anything beyond the named `ASSUME`s of the modules, which TLC evaluates:

* numbers: `N \in Nat`, `DataPackets \subseteq 0..N-1`, `Scale` and `PacketSize` positive;
* graphs: finite sets of nodes, symmetric graphs with costs of at least zero; for `LinkState` positive and so small that no sum of them reaches `INT_MAX`, as the code compares distances with it;
* files: nonempty backoff vectors of naturals; lines that are numbers (`InputsAssumption`; a member that no line set is no number, `UnsetAssumption`), links between two different nodes, of which a topology removes none, in files whose first line has all three numbers (`FilesAssumption` of `Forwarding`), texts that are sequences of pieces, none under an empty path (`FilesAssumption` of `HttpServer`, `GivenFilesAssumption`);
* headers whose end begins with a piece that the status lines do not have, the `\r`, and no NUL in either (`HeaderAssumption`);
* arguments of `http_client` without blanks and queries, a host that begins with no slash, and a request that goes on with a blank behind the path (`ArgumentsAssumption`).

The arguments:

* **`ReliableTransfer_proofs`, transfer.** The inductive invariant `IInv` (defined in `ReliableTransfer`) joins the properties with what they rest on. The file in order needs to know that what is buffered lies strictly between `nextSeq` and `sentUpTo`; soundness of acknowledgements needs every packet in flight; that no one ends early needs `cw_base = last_ack` and that FINs exist only after the loop; that the base was sent before the sender waits needs `max_sent` sent or behind the window. Theorems: `Invariance`, `TypeCorrect`, `FileInOrder`, `AcksAreSound`, `EndsComplete`, `ResendsAreUseful`, `RecoveryIsConsistent`, `WaitIsJustified` and `Refinement` (`Spec => ImplementsFileTransfer`): every safety property that `transfer_safety` checks. `ShortFileNeverEnds` has a second invariant, `OnlyDataIsWritten` (what is written, buffered or in flight as data is a data packet): when a packet without data is among the `N`, neither program leaves its loop, whatever the network does.
* **`ReliableTransfer_proofs`, packet vector.** `FillIInv` says how much was read and packed so far (`ReadSoFar`: until the end of the file is met the two agree, and it is met only by a file shorter than the request) and that packets are full while something is left (`PackedSoFar`). Theorems: `DataFirst`; `FileRead`: the loop ends with the file read to its end or to what was asked for, and only a file that is too short leaves packets without data; `RequestCarried`: the sizes of the data packets add up to what was asked for and is there, for which the sum is followed packet by packet (`IsSum`). With `ShortFileNeverEnds` this says which transfers hang: those whose vector ends in such packets, never one of a file that is long enough.
* **`CSMA_proofs`.** `IInv` adds to the properties that only a long packet of an initialized simulation has slots left, and that a simulation with nodes has a nonzero first backoff. Theorems: `Invariance`, `TypeCorrect`, `WaitsBounded`, `ChannelExclusive`, `GoodputCounted`, `ChannelRefinement`. `FileIsSimulated` is about the program: `InputInv` follows the constructor line by line (the lines read were good, every parameter is that of the last line of its letter, and backoffs behind an M line are counted until the next R or M line), and stays when the simulation runs.
* **`Graph_proofs`.** The reference definition `ShortestWalks` takes as many rounds as there are nodes. `WalkInduction` makes an induction over walks one over rounds; `AtCounted` counts: as long as a round misses a shortest walk to a node it has those from one node more than the round before, so that the rounds taken are enough (`RoundsSettle`). `WalksCompose`, `WalksBack`, `WalksNotBelow` are the facts about shortest walks that the routing proofs cite.
* **`DistVec_proofs`.** `IInv` is `TypeOK /\ RoutesBacked /\ SettledUnlessQueued`: entries never fall below what their neighbour offers, since costs only fall, and a node whose neighbour improved is in the queue. `Best` is well defined by least elements of sets of costs and hops. Loop freedom (`LoopFree`) is stated for graphs with positive costs and follows from backed entries; `ConvergedTables` follows from an empty queue. `ShortestRoutes` is the refinement of `RouteTable` for every graph: no entry ever costs less than a shortest walk (`NotTooCheap`), and in converged tables none costs more, since they are closed under the links.
* **`LinkState_proofs`.** `IInv` joins the four invariants of the run with the types and two facts about the queue that keeps outdated items: an item never costs less than its node (`ItemsNotBelow`, so that an item of an unknown node on top is the current one), and a distance times the number of nodes is at most the number of known nodes times `INT_MAX - 1` (`DistanceBounded`: a route has at most one link per known node, so that `INT_MAX` means no route; TLC cannot evaluate the product). Theorems: `PredecessorsBack`, `KnownFirst`, `NoNodeForgotten`, `LowestLastNode`, `SearchSettles` (with an empty queue, the nodes without a distance have no known neighbour, and the distances of the others satisfy the equations of shortest routes) and `ShortestRoutes`, the refinement of `RouteTable`: the distances are those of the shortest walks (`NotTooNear`), and the walk back over the predecessors never leaves the shortest routes to its target (`WalkedBack`), so that the hop it ends with begins one (`HopsFound`).
* **`Forwarding_proofs`.** `IInv`: what was read of the files, a symmetric graph over its vertices that says what the last of the parsed lines say (`EdgesFollowed`), tables that are all of the current graph (`TablesHeld`), the messages found unreachable so far, and a walk whose links cost what is not yet left to go. That the parsed lines are what the files say (`ParsedIsSaid`) is an induction over the lines: a number that a line lacks is the one said last before it. Theorems: `FilesFollowed`, `TablesAreCurrent`, `UnreachableOnlyWhereCut`, `HopsCostWhatWasAnnounced`, and `HopsComeCloser`: although every node decides by its own table, with positive costs the rest of the route gets cheaper at each hop, so that no message comes to a node twice.
* **`Servers_proofs`, processes.** Each step of the parent, of the handler and of an ending child keeps two things: who holds a connection (`ParentTypeOK`, `OnePlace`: it is queued once, then with the parent, then with its own child) and that an ended child is signalled (`ZombiesSignalled`). Both servers add their child and their clients: `TypeCorrect`, `ConnectionsHaveOnePlace`, `NoChildForgotten` for each.
* **`Servers_proofs`, HTTP.** `SessionInv` says for each client where its child is in the request (`ChildAt`: what it read begins the request, and what it did not read is still in the stream; its line counts what it sent) and what the client has of the reply (`Receives`). The latter is one number: of the text the child has sent so far (`SentBy`) the client took the first `n` pieces, the rest is on the way or was lost to a reset, and either no end of the header was found in them (`NoHeader`) and nothing was written, or the output is what follows the header, without a stretch from `gap` on when a NUL was put there (`IsShown`). The stretch is as long as what was received before the NUL was put, which is less than the header, since otherwise the header's end would have been found by then (`HeadedOnce`, `HeaderStays`). It is inductive because a text sent later only goes behind what was sent (`MoreIsSent`), and because the end of the header is found by the second receive or, once a NUL has taken its place, never, so that no second NUL is put into the body (`HeaderTaken`). `OutputsKeepOrder` and `OutputsAreComplete` follow: for the second, a client that ended without a reset has taken everything, and a child that ended was at the last line.
* **`Servers_proofs`, warm-up.** `RepliesAreShown` is `ReplyShown` for any clients, files and size of `recv()`; its invariant relates where a client stands to its child and its stream (`ClientAndChild`), so that what it takes is a beginning of one whole reply.

`NaturalLemmas` has the induction these proofs rest on. The library's induction theorems take an operator as a parameter, which the provers here cannot instantiate; `NatInd` is the same for a set of numbers, and `RecursionExists`, `RecursionsAgree` and `NatRecursionExists` give recursive functions (rounds of walks, sums, joined lines, the links of a file) their unique values with the step as a function.

Only model-checked: liveness under fairness (`SenderFinishes`, `ClientsServed`, `EveryClientEnds`, `WellFormedRuns`, both `ConstructEnds`), which is out of the prover's reach, and the two violations of section 5.

## 5. What the models found in the code

* **Windows do not grow** (`transfer_slow_start`): line 223 raises `last_ack` before line 246 takes the difference to it. Outside fast recovery the window stays at one packet or what recovery left. `WaitsForSentPacket` has the escape `cw = 0` for a window halved to nothing in the units of the model.
* **The receiver may never close its file** (`transfer_fin_lost`): three FINs at most, and any stale acknowledgement is taken for their answer.
* **A file shorter than asked for never ends** (theorem `ShortFileNeverEnds`): the positive `feof()` of `populate()` counts as bytes read, and the packets it leaves behind have no DATA bit.
* **CSMA packets of one slot** (no run): the packet is over in the round that starts it, the branch that releases its node is never reached, and the node sends in every further slot. `ExclusiveChannel` and `CountsPacketSlots` are stated for packets of two slots or more; the refinement holds for all.
* **CSMA backoffs uncounted** (no run): an R line before its M line is not compared with it; `CountedAfterM`, a part of `SimulatesTheFile`, is stated for the other order only, and `WellFormed` asks for the count whatever the order. A backoff of 0 ends the program by a division (`Trap`).
* **Message lines** (no run): a blank line of the message file, or one whose destination is no number, ends the program by an exception of `stoi`; a line without a blank sends from a node to itself.
* **Warm-up client** (no run): it calls `recv()` once, for at most 99 bytes, where the assignment (`src/mp/mp0/mp0.pdf`) has it read the length first and then that many bytes. `ReplyShown` says what is shown of a cut reply. The text starts two bytes from the first of three newlines, that is with the third.
* **HTTP header in pieces** (no run): the NUL of a later piece goes to `buf[numbytes]` (`http_client.c:175`) and not behind that piece, so that as many bytes as were received before it are hidden, up to 18. They may be several short lines of the body, behind which the rest is written; or the header's end is among them, and then nothing is written at all. `OutputInOrder` says exactly that: one stretch is missing at most, shorter than the header. `OutputComplete` is stated for headers that arrive at once.
* **HTTP requests in pieces** (no run): a short `read()` of the method answers 400, one of the path may serve the file whose name begins the one asked for. `OutputInOrder` says exactly that, `OutputComplete` is stated for requests read whole.
* **HTTP arguments** (no run): with a colon in the path and no port, `parse_hostname()` takes all before the colon for the host; and the buffer of the port is not terminated. Both end in a failed look-up, or an attempt at another port.

## 6. Not modelled

* `mp0/src/talker.c`, `listener.c` and `mp1/src/ref`: the course's sample programs without state of their own (see PROJECT.json).
* mp2: `sender_main.cpp` 337-408 after the return of `reliablyTransfer`, and the functions only that code uses (`update_cwnd`, `fill_cwnd`, the classes of `sender.hpp` 43-65); `setup_socket`, `main` and argument handling.
  Every iteration sends `packets[max_sent]` again; this only repeats a packet, which the network may do anyway, so that no property here tells a sender that does from one that does not.
* mp3: `construct_paths` of `distvec.cpp`, which nothing calls; `min_node`/`max_node`; the wording of tables and messages. Costs are positive in all runs, as the handout says. `Edge::valid()` would accept 0, with which tie-breaking by lowest ID can make two nodes each other's next hop: `HopsDescend` and the proofs of `LinkState` are about positive costs. A first line with fewer than three numbers, for which `src`, `dst` and `cost` would be read uninitialized, is excluded from the files (`FilesAssumption`).
* mp4: `printState`; the wording of exceptions; the check of `argc`.
* mp0, mp1: address lookup and `bind`, as choices between success and failure; what the request says behind the path (a constant, `RestOfRequest`); lengths that reach the buffers (a piece of a header or body longer than the client's, whose header loop offers `recv()` the whole buffer wherever it stands, a request or line longer than the server's); clients that share a directory (and with it the file `output`).

## 7. Plan

Done, in the order of importance: the transfer (mp2) with its refinement and proofs; the simulator (mp4) and its program; routing (mp3) with the refinements of `RouteTable` and the proofs about forwarding; HTTP (mp1) and the warm-up programs (mp0) with the proofs about what a client gets. Left, in this order:

1. An abstract specification of a fetch (an output that grows by parts of one file) refined by `HttpSessions`; `SessionInv` is the invariant it needs.
2. The steps that the liveness properties take (each loop's measure falls) as action properties, proved, so that only fairness is left to TLC.
3. A network that neither loses nor reorders, for a property of fast retransmits without loss (`packets[max_sent]` is sent twice).
