--------------------------------- MODULE CSMA ---------------------------------
(***************************************************************************)
(* The simulation of mp4/src/CSMASimulator.cpp: simulate() and its         *)
(* simulateRound().  One step is one round, that is one time slot of the   *)
(* channel.  Nodes are numbered from 0, as in the vectors of the class.    *)
(***************************************************************************)
EXTENDS Integers, Sequences, FiniteSets

CONSTANTS
  NodeCounts,     \* the values of parameter N considered
  PacketSizes,    \* the values of parameter L considered
  Backoffs,       \* the values of parameter R considered, as sequences
  Times           \* the values of parameter T considered

ASSUME NodeCountsAssumption == NodeCounts \subseteq Nat
ASSUME PacketSizesAssumption == PacketSizes \subseteq Nat
ASSUME BackoffsAssumption == Backoffs \subseteq Seq(Nat) \ {<<>>}
ASSUME TimesAssumption == Times \subseteq Nat

VARIABLES
  node_count, packet_sz, retransmission_backoff, simulation_time,
  ticksToTransmission,        \* per node: the slots until it sends
  currBackoffIndex,           \* per node: index into the backoffs, from 0
  currTime,
  transmissionRemaining,      \* the slots the packet on the channel needs yet
  transmittingNode,           \* its node, or -1
  successfulTransmissionTicks,
  cpc,                        \* "init", "run", "done", or "trap" (it dies)
  delivered                   \* history: packets transmitted to their end

params == <<node_count, packet_sz, retransmission_backoff, simulation_time>>
nodeVars == <<ticksToTransmission, currBackoffIndex>>
channelVars == <<transmissionRemaining, transmittingNode,
                 successfulTransmissionTicks, delivered>>
vars == <<params, nodeVars, currTime, channelVars, cpc>>

Nodes == 0 .. node_count - 1

\* The backoff vector is indexed from 0 in the code.
Backoff(k) == retransmission_backoff[k + 1]
LastBackoff == Len(retransmission_backoff) - 1

\* The state of a simulator before simulate(), its parameters aside.
MembersInit ==
  /\ ticksToTransmission = <<>>
  /\ currBackoffIndex = <<>>
  /\ currTime = 0
  /\ transmissionRemaining = 0
  /\ transmittingNode = -1
  /\ successfulTransmissionTicks = 0
  /\ cpc = "init"
  /\ delivered = 0

Init ==
  /\ node_count \in NodeCounts
  /\ packet_sz \in PacketSizes
  /\ retransmission_backoff \in Backoffs
  /\ simulation_time \in Times
  /\ MembersInit

\* The wait of node i when it draws backoff k in the current slot.
Wait(i, k) == (currTime + 1 + i) % Backoff(k)

\* The first backoff divides, unless there is no node: not when it is 0, nor when
\* the vector is empty.
FirstWaitDefined ==
  node_count > 0 => retransmission_backoff # <<>> /\ Backoff(0) # 0

\* simulate() gives every node its first wait.
Initialize ==
  /\ cpc = "init"
  /\ FirstWaitDefined
  /\ ticksToTransmission' = [i \in Nodes |-> i % Backoff(0)]
  /\ currBackoffIndex' = [i \in Nodes |-> 0]
  /\ cpc' = "run"
  /\ UNCHANGED <<params, currTime, channelVars>>

------------------------------------------------------------------------------
(***************************************************************************)
(* simulateRound(), followed by currTime++.                                *)
(***************************************************************************)
Running == cpc = "run" /\ currTime < simulation_time

\* No packet is on the channel.  (Its mutant is Running alone.)
ChannelFree == Running /\ transmissionRemaining <= 0

\* The nodes whose wait is over.
Ready == {i \in Nodes : ticksToTransmission[i] = 0}

\* Mutants of WillStart and WillCollide: one node more is needed.
WillStartLate == Cardinality(Ready) > 1
WillCollideLate == Cardinality(Ready) > 2

WillStart == Cardinality(Ready) > 0
WillCollide == Cardinality(Ready) > 1

\* A packet is on the channel.  Its last slot gives its node a new wait.
Transmit ==
  /\ Running
  /\ transmissionRemaining > 0
  /\ IF transmissionRemaining = 1
     THEN /\ currBackoffIndex' = [currBackoffIndex EXCEPT ![transmittingNode] = 0]
          /\ ticksToTransmission' =
               [ticksToTransmission EXCEPT ![transmittingNode] = Wait(transmittingNode, 0)]
          /\ transmittingNode' = -1
          /\ delivered' = delivered + 1
     ELSE UNCHANGED <<nodeVars, transmittingNode, delivered>>
  /\ successfulTransmissionTicks' = successfulTransmissionTicks + 1
  /\ transmissionRemaining' = transmissionRemaining - 1
  /\ currTime' = currTime + 1
  /\ UNCHANGED <<params, cpc>>

\* The backoff a node goes to after a collision; the last one drops its packet
\* and starts again.
NextBackoff(i) ==
  IF currBackoffIndex[i] = LastBackoff THEN 0 ELSE currBackoffIndex[i] + 1

\* Mutant of NextWait: the wait is drawn before the backoff is raised.
NextWaitOld(i) == Wait(i, currBackoffIndex[i])

NextWait(i) == Wait(i, NextBackoff(i))

\* Several nodes are ready: each of them backs off.
Collide ==
  /\ ChannelFree /\ WillCollide
  /\ \A i \in Ready : Backoff(NextBackoff(i)) # 0
  /\ currBackoffIndex' =
       [i \in Nodes |-> IF i \in Ready THEN NextBackoff(i) ELSE currBackoffIndex[i]]
  /\ ticksToTransmission' =
       [i \in Nodes |-> IF i \in Ready THEN NextWait(i) ELSE ticksToTransmission[i]]
  /\ currTime' = currTime + 1
  /\ UNCHANGED <<params, channelVars, cpc>>

\* Mutant of SlotsLeft: the first slot is not taken off the packet.
SlotsLeftAll == packet_sz

SlotsLeft == packet_sz - 1

\* One node is ready: this slot is the first of its packet.
Start ==
  /\ ChannelFree /\ WillStart /\ ~WillCollide
  /\ transmittingNode' \in Ready
  /\ transmissionRemaining' = SlotsLeft
  /\ successfulTransmissionTicks' = successfulTransmissionTicks + 1
  /\ currTime' = currTime + 1
  /\ UNCHANGED <<params, nodeVars, delivered, cpc>>

\* Nobody is ready: every node waits one slot.
Idle ==
  /\ ChannelFree /\ ~WillStart
  /\ ticksToTransmission' = [i \in Nodes |-> ticksToTransmission[i] - 1]
  /\ currTime' = currTime + 1
  /\ UNCHANGED <<params, currBackoffIndex, channelVars, cpc>>

\* A backoff of 0 divides by zero, an empty vector is read outside.
Trap ==
  /\ \/ cpc = "init" /\ ~FirstWaitDefined
     \/ ChannelFree /\ WillCollide /\ \E i \in Ready : Backoff(NextBackoff(i)) = 0
  /\ cpc' = "trap"
  /\ UNCHANGED <<params, nodeVars, currTime, channelVars>>

Finish ==
  /\ cpc = "run" /\ ~Running
  /\ cpc' = "done"
  /\ UNCHANGED <<params, nodeVars, currTime, channelVars>>

Next == Initialize \/ Transmit \/ Collide \/ Start \/ Idle \/ Trap \/ Finish

Spec == Init /\ [][Next]_vars

------------------------------------------------------------------------------

\* With packets of one slot or none the channel is never marked busy, so the
\* properties of transmissions are stated for longer ones.
LongPackets == packet_sz >= 2

TypeOK ==
  /\ node_count \in Nat /\ packet_sz \in Nat /\ simulation_time \in Nat
  /\ retransmission_backoff \in Seq(Nat) \ {<<>>}
  /\ cpc \in {"init", "run", "done", "trap"}
  /\ cpc \in {"run", "done"} =>
       /\ ticksToTransmission \in [Nodes -> Nat]
       /\ currBackoffIndex \in [Nodes -> 0 .. LastBackoff]
  /\ currTime \in 0 .. simulation_time
  /\ transmissionRemaining \in Int
  /\ transmittingNode \in Nodes \cup {-1}
  /\ successfulTransmissionTicks \in 0 .. currTime
  /\ delivered \in 0 .. currTime

\* Every wait is one that the node's current backoff allows, through collisions,
\* drops and transmissions: no node waits longer than its window.
WaitsWithinBackoff ==
  cpc \in {"run", "done"} =>
    \A i \in Nodes : ticksToTransmission[i] < Backoff(currBackoffIndex[i])

\* While a packet is on the channel its node is the only one that is ready, so
\* the packet cannot be collided with; and it is busy exactly that long.
ExclusiveChannel ==
  LongPackets =>
    /\ transmittingNode # -1 <=> transmissionRemaining > 0
    /\ transmissionRemaining > 0 => Ready = {transmittingNode}
    /\ transmissionRemaining \in 0 .. packet_sz - 1

\* The slots counted as successful are those of whole packets and of the part
\* of the current one that was sent.
CountsPacketSlots ==
  LongPackets =>
    successfulTransmissionTicks =
      packet_sz * delivered
        + (IF transmissionRemaining > 0 THEN packet_sz - transmissionRemaining ELSE 0)

\* The simulation implements a channel that carries one packet at a time, uncut.
\* transmittingNode counts only while slots are left to send: after a packet of one
\* slot it keeps its value.
Channel == INSTANCE SlottedChannel
             WITH Nobody <- -1, slots <- packet_sz,
                  owner <- IF transmissionRemaining > 0 THEN transmittingNode ELSE -1,
                  left <- transmissionRemaining,
                  carried <- successfulTransmissionTicks

ImplementsSlottedChannel == Channel!Spec

==============================================================================
