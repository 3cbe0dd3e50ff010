----------------------------- MODULE CSMA_proofs -----------------------------
(***************************************************************************)
(* Proofs about CSMA, for any number of nodes, packet size, backoff vector *)
(* and duration: the invariants of the simulation, and that it implements  *)
(* SlottedChannel.                                                         *)
(***************************************************************************)
EXTENDS CSMAProgram, FiniteSetTheorems, NaturalLemmas

\* Only a packet of two slots or more, of a simulation that was initialized, has
\* slots left to send.
BusyWithLongPacket ==
  transmissionRemaining > 0 => LongPackets /\ cpc # "init" /\ transmittingNode # -1

\* A simulation with nodes that was initialized divides by its first backoff.
TransmitsNonzero ==
  cpc \in {"run", "done"} /\ node_count > 0 => Backoff(0) # 0

\* The inductive invariant: the exclusive channel and the count of its slots
\* rest on the waits of the nodes that are not sending.
IInv ==
  /\ TypeOK
  /\ WaitsWithinBackoff
  /\ TransmitsNonzero
  /\ BusyWithLongPacket
  /\ ExclusiveChannel
  /\ CountsPacketSlots

------------------------------------------------------------------------------

\* A wait lies within the backoff it is drawn from.
LEMMA RemainderInRange ==
  ASSUME NEW x \in Nat, NEW d \in Nat \ {0}
  PROVE  x % d \in Nat /\ x % d < d
OBVIOUS

\* What counting the ready nodes tells: none, or the one std::find returns.
LEMMA CountReady ==
  ASSUME node_count \in Nat
  PROVE  /\ ~WillStart => Ready = {}
         /\ \A i \in Ready : ~WillCollide => Ready = {i}
<1>1. Ready \subseteq Nodes /\ IsFiniteSet(Nodes)
  <2> DEFINE last == node_count - 1
  <2>1. last \in Int
    OBVIOUS
  <2> HIDE DEF last
  <2>2. IsFiniteSet(0 .. last)
    BY <2>1, FS_Interval
  <2> QED BY <2>2 DEF Ready, Nodes, last
<1>2. IsFiniteSet(Ready)
  BY <1>1, FS_Subset
<1>3. Cardinality(Ready) \in Nat /\ (Cardinality(Ready) = 0 <=> Ready = {})
  BY <1>2, FS_CardinalityType, FS_EmptySet
<1>4. Cardinality(Ready) = 1 => \E j : Ready = {j}
  BY <1>2, FS_Singleton
<1>5. ~WillStart => Ready = {}
  BY <1>3 DEF WillStart
<1>6. ASSUME NEW i \in Ready, ~WillCollide PROVE Ready = {i}
  <2>1. Cardinality(Ready) = 1
    BY <1>3, <1>6 DEF WillCollide
  <2> QED BY <1>4, <2>1
<1> QED BY <1>5, <1>6

------------------------------------------------------------------------------

LEMMA InitIInv == Init => IInv
<1> SUFFICES ASSUME Init PROVE IInv
  OBVIOUS
<1> USE NodeCountsAssumption, PacketSizesAssumption, BackoffsAssumption,
        TimesAssumption DEF Init, MembersInit
<1>1. TypeOK
  BY DEF TypeOK
<1>2. WaitsWithinBackoff /\ TransmitsNonzero /\ BusyWithLongPacket
  BY DEF WaitsWithinBackoff, TransmitsNonzero, BusyWithLongPacket
<1>3. ExclusiveChannel /\ CountsPacketSlots
  <2>1. packet_sz \in Nat
    OBVIOUS
  <2> QED BY <2>1 DEF ExclusiveChannel, CountsPacketSlots, LongPackets
<1> QED BY <1>1, <1>2, <1>3 DEF IInv

LEMMA InitializeStep ==
  ASSUME IInv, Initialize
  PROVE  IInv'
<1>1. /\ node_count \in Nat /\ packet_sz \in Nat /\ simulation_time \in Nat
      /\ retransmission_backoff \in Seq(Nat) \ {<<>>}
      /\ LastBackoff \in Nat
      /\ transmissionRemaining \in Int /\ transmissionRemaining <= 0
  BY DEF IInv, TypeOK, BusyWithLongPacket, Initialize, LastBackoff
<1>2. \A i \in Nodes : i % Backoff(0) \in Nat /\ i % Backoff(0) < Backoff(0)
  <2> SUFFICES ASSUME NEW i \in Nodes
               PROVE  i % Backoff(0) \in Nat /\ i % Backoff(0) < Backoff(0)
    OBVIOUS
  <2>1. i \in Nat /\ node_count # 0
    BY <1>1 DEF Nodes
  <2>2. Backoff(0) \in Nat \ {0}
    BY <1>1, <2>1 DEF Initialize, FirstWaitDefined, Backoff
  <2> QED BY <2>1, <2>2, RemainderInRange
<1>3. /\ ticksToTransmission' = [i \in Nodes |-> i % Backoff(0)]
      /\ currBackoffIndex' = [i \in Nodes |-> 0]
      /\ cpc' = "run"
      /\ UNCHANGED <<node_count, packet_sz, retransmission_backoff,
                     simulation_time, currTime, transmissionRemaining,
                     transmittingNode, successfulTransmissionTicks, delivered>>
  BY DEF Initialize, params, channelVars
<1>4. TypeOK'
  BY <1>1, <1>2, <1>3 DEF IInv, TypeOK, Nodes, LastBackoff
<1>5. WaitsWithinBackoff'
  BY <1>2, <1>3 DEF WaitsWithinBackoff, Nodes, Backoff
<1>6. BusyWithLongPacket' /\ ExclusiveChannel' /\ CountsPacketSlots'
  BY <1>1, <1>3 DEF IInv, BusyWithLongPacket, ExclusiveChannel,
                    CountsPacketSlots, LongPackets
<1>7. TransmitsNonzero'
  BY <1>1, <1>3 DEF TransmitsNonzero, Backoff, Initialize, FirstWaitDefined
<1> QED BY <1>4, <1>5, <1>6, <1>7 DEF IInv

\* What a round starts from.
RoundTyped ==
  /\ node_count \in Nat /\ packet_sz \in Nat /\ simulation_time \in Nat
  /\ retransmission_backoff \in Seq(Nat) \ {<<>>}
  /\ LastBackoff \in Nat
  /\ \A k \in 0 .. LastBackoff : Backoff(k) \in Nat
  /\ ticksToTransmission \in [Nodes -> Nat]
  /\ currBackoffIndex \in [Nodes -> 0 .. LastBackoff]
  /\ \A i \in Nodes : ticksToTransmission[i] < Backoff(currBackoffIndex[i])
  /\ currTime \in Nat /\ currTime < simulation_time
  /\ transmissionRemaining \in Int
  /\ transmittingNode \in Nodes \cup {-1}
  /\ successfulTransmissionTicks \in Nat
  /\ successfulTransmissionTicks <= currTime
  /\ delivered \in Nat /\ delivered <= currTime
  /\ cpc = "run"
  /\ node_count > 0 => Backoff(0) # 0

\* The invariant gives these types to a round.
LEMMA RoundTypes ==
  ASSUME IInv, Running
  PROVE  RoundTyped
<1>1. retransmission_backoff \in Seq(Nat) \ {<<>>}
  BY DEF IInv, TypeOK
<1>2. /\ LastBackoff \in Nat
      /\ \A k \in 0 .. LastBackoff : Backoff(k) \in Nat
  BY <1>1 DEF LastBackoff, Backoff
<1> QED BY <1>1, <1>2
      DEF RoundTyped, IInv, TypeOK, Running, WaitsWithinBackoff, TransmitsNonzero

\* A packet is on the channel: its node is the only one ready, and stays so until
\* its last slot draws a new wait.
LEMMA TransmitStep ==
  ASSUME IInv, Transmit
  PROVE  IInv'
<1>0. RoundTyped
  BY RoundTypes DEF Transmit
<1> USE <1>0 DEF RoundTyped
<1>1. Running /\ transmissionRemaining > 0
  BY DEF Transmit
<1>2. /\ packet_sz >= 2
      /\ transmittingNode \in Nodes
      /\ Ready = {transmittingNode}
      /\ transmissionRemaining <= packet_sz - 1
      /\ successfulTransmissionTicks =
           packet_sz * delivered + packet_sz - transmissionRemaining
  BY <1>1 DEF IInv, BusyWithLongPacket, ExclusiveChannel, CountsPacketSlots,
              LongPackets
<1>3. /\ UNCHANGED <<node_count, packet_sz, retransmission_backoff,
                     simulation_time, cpc>>
      /\ successfulTransmissionTicks' = successfulTransmissionTicks + 1
      /\ transmissionRemaining' = transmissionRemaining - 1
      /\ currTime' = currTime + 1
  BY DEF Transmit, params
<1>6. TransmitsNonzero'
  BY <1>3 DEF TransmitsNonzero, Backoff
<1>4. CASE transmissionRemaining = 1
  <2> DEFINE wait == Wait(transmittingNode, 0)
  <2>1. /\ currBackoffIndex' = [currBackoffIndex EXCEPT ![transmittingNode] = 0]
        /\ ticksToTransmission' =
             [ticksToTransmission EXCEPT ![transmittingNode] = wait]
        /\ transmittingNode' = -1
        /\ delivered' = delivered + 1
    BY <1>4 DEF Transmit
  <2>2. wait \in Nat /\ wait < Backoff(0)
    <3>1. Backoff(0) \in Nat \ {0}
      BY <1>1, <1>2 DEF IInv, TransmitsNonzero, Nodes, Running
    <3>2. currTime + 1 + transmittingNode \in Nat
      BY <1>1, <1>2 DEF Nodes
    <3> QED BY <3>1, <3>2, RemainderInRange DEF Wait
  <2> HIDE DEF wait
  <2>3. TypeOK'
    BY <1>1, <1>2, <1>3, <2>1, <2>2 DEF TypeOK, Nodes, LastBackoff, Running
  <2>4. WaitsWithinBackoff'
    BY <1>1, <1>2, <1>3, <2>1, <2>2 DEF WaitsWithinBackoff, Nodes, Backoff
  <2>5. BusyWithLongPacket' /\ ExclusiveChannel'
    BY <1>1, <1>2, <1>3, <1>4, <2>1
    DEF BusyWithLongPacket, ExclusiveChannel, LongPackets
  <2>6. CountsPacketSlots'
    <3>1. packet_sz * (delivered + 1) = packet_sz * delivered + packet_sz
      BY <1>1
    <3> QED BY <1>1, <1>2, <1>3, <1>4, <2>1, <3>1 DEF CountsPacketSlots, LongPackets
  <2> QED BY <1>6, <2>3, <2>4, <2>5, <2>6 DEF IInv
<1>5. CASE transmissionRemaining # 1
  <2>1. UNCHANGED <<ticksToTransmission, currBackoffIndex, transmittingNode, delivered>>
    BY <1>5 DEF Transmit, nodeVars
  <2>2. TypeOK'
    BY <1>1, <1>2, <1>3, <2>1 DEF TypeOK, Nodes, LastBackoff, Running
  <2>3. WaitsWithinBackoff'
    BY <1>1, <1>3, <2>1 DEF WaitsWithinBackoff, Nodes, Backoff
  <2>4. Ready' = Ready
    BY <1>3, <2>1 DEF Ready, Nodes
  <2>5. BusyWithLongPacket' /\ ExclusiveChannel'
    BY <1>1, <1>2, <1>3, <1>5, <2>1, <2>4
    DEF IInv, BusyWithLongPacket, ExclusiveChannel, LongPackets, Running
  <2>6. CountsPacketSlots'
    BY <1>1, <1>2, <1>3, <1>5, <2>1 DEF CountsPacketSlots, LongPackets
  <2> QED BY <1>6, <2>2, <2>3, <2>5, <2>6 DEF IInv
<1> QED BY <1>4, <1>5

\* After a collision every node that sent waits within its next backoff.
LEMMA CollideStep ==
  ASSUME IInv, Collide
  PROVE  IInv'
<1>0. RoundTyped
  BY RoundTypes DEF Collide, ChannelFree
<1> USE <1>0 DEF RoundTyped
<1>1. /\ Running /\ transmissionRemaining <= 0
      /\ \A i \in Ready : Backoff(NextBackoff(i)) # 0
  BY DEF Collide, ChannelFree
<1>2. /\ currBackoffIndex' =
           [i \in Nodes |-> IF i \in Ready THEN NextBackoff(i) ELSE currBackoffIndex[i]]
      /\ ticksToTransmission' =
           [i \in Nodes |-> IF i \in Ready THEN Wait(i, NextBackoff(i))
                                           ELSE ticksToTransmission[i]]
      /\ currTime' = currTime + 1
      /\ UNCHANGED <<node_count, packet_sz, retransmission_backoff,
                     simulation_time, transmissionRemaining, transmittingNode,
                     successfulTransmissionTicks, delivered, cpc>>
  BY DEF Collide, NextWait, params, channelVars
<1>3. \A i \in Ready : /\ NextBackoff(i) \in 0 .. LastBackoff
                       /\ Wait(i, NextBackoff(i)) \in Nat
                       /\ Wait(i, NextBackoff(i)) < Backoff(NextBackoff(i))
  <2> SUFFICES ASSUME NEW i \in Ready
               PROVE  /\ NextBackoff(i) \in 0 .. LastBackoff
                      /\ Wait(i, NextBackoff(i)) \in Nat
                      /\ Wait(i, NextBackoff(i)) < Backoff(NextBackoff(i))
    OBVIOUS
  <2>1. i \in Nodes /\ currBackoffIndex[i] \in 0 .. LastBackoff
    BY <1>1 DEF Ready
  <2>2. NextBackoff(i) \in 0 .. LastBackoff
    BY <1>1, <2>1 DEF NextBackoff
  <2>3. Backoff(NextBackoff(i)) \in Nat \ {0}
    BY <1>1, <2>2
  <2>4. currTime + 1 + i \in Nat
    BY <1>1, <2>1 DEF Nodes
  <2> QED BY <2>2, <2>3, <2>4, RemainderInRange DEF Wait
<1>4. TypeOK'
  BY <1>1, <1>2, <1>3 DEF TypeOK, Nodes, LastBackoff, Running
<1>5. WaitsWithinBackoff'
  BY <1>1, <1>2, <1>3 DEF WaitsWithinBackoff, Nodes, Backoff
<1>6. BusyWithLongPacket' /\ ExclusiveChannel' /\ CountsPacketSlots'
  BY <1>1, <1>2
  DEF IInv, BusyWithLongPacket, ExclusiveChannel, CountsPacketSlots, LongPackets
<1>7. TransmitsNonzero'
  BY <1>2 DEF TransmitsNonzero, Backoff
<1> QED BY <1>4, <1>5, <1>6, <1>7 DEF IInv

\* The first slot of a packet: nobody else is ready.
LEMMA StartStep ==
  ASSUME IInv, Start
  PROVE  IInv'
<1>0. RoundTyped
  BY RoundTypes DEF Start, ChannelFree
<1> USE <1>0 DEF RoundTyped
<1>1. /\ Running /\ transmissionRemaining <= 0
      /\ transmittingNode' \in Ready
      /\ Ready = {transmittingNode'}
  BY CountReady DEF Start, ChannelFree
<1>2. /\ transmissionRemaining' = packet_sz - 1
      /\ successfulTransmissionTicks' = successfulTransmissionTicks + 1
      /\ currTime' = currTime + 1
      /\ UNCHANGED <<node_count, packet_sz, retransmission_backoff,
                     simulation_time, ticksToTransmission, currBackoffIndex,
                     delivered, cpc>>
  BY DEF Start, SlotsLeft, params, nodeVars
<1>3. Ready' = Ready /\ transmittingNode' \in Nodes
  BY <1>1, <1>2 DEF Ready, Nodes
<1>4. TypeOK'
  BY <1>1, <1>2, <1>3 DEF TypeOK, Nodes, LastBackoff, Running
<1>5. WaitsWithinBackoff'
  BY <1>1, <1>2 DEF WaitsWithinBackoff, Nodes, Backoff
<1>6. BusyWithLongPacket' /\ ExclusiveChannel'
  BY <1>1, <1>2, <1>3
  DEF BusyWithLongPacket, ExclusiveChannel, LongPackets, Running, Nodes
<1>7. CountsPacketSlots'
  <2>1. LongPackets => successfulTransmissionTicks = packet_sz * delivered
    BY <1>1 DEF IInv, CountsPacketSlots
  <2>2. packet_sz * delivered \in Int
    BY <1>1
  <2> QED BY <1>1, <1>2, <2>1, <2>2 DEF CountsPacketSlots, LongPackets
<1>8. TransmitsNonzero'
  BY <1>2 DEF TransmitsNonzero, Backoff
<1> QED BY <1>4, <1>5, <1>6, <1>7, <1>8 DEF IInv

\* Nobody is ready: every wait is positive, and one less after the slot.
LEMMA IdleStep ==
  ASSUME IInv, Idle
  PROVE  IInv'
<1>0. RoundTyped
  BY RoundTypes DEF Idle, ChannelFree
<1> USE <1>0 DEF RoundTyped
<1>1. /\ Running /\ transmissionRemaining <= 0 /\ Ready = {}
      /\ ticksToTransmission' = [i \in Nodes |-> ticksToTransmission[i] - 1]
      /\ currTime' = currTime + 1
      /\ UNCHANGED <<node_count, packet_sz, retransmission_backoff,
                     simulation_time, currBackoffIndex, transmissionRemaining,
                     transmittingNode, successfulTransmissionTicks, delivered, cpc>>
  BY CountReady DEF Idle, ChannelFree, params, channelVars
<1>2. \A i \in Nodes : ticksToTransmission[i] - 1 \in Nat
  BY <1>1 DEF Ready
<1>3. TypeOK'
  BY <1>1, <1>2 DEF TypeOK, Nodes, LastBackoff, Running
<1>4. WaitsWithinBackoff'
  <2> SUFFICES ASSUME NEW i \in Nodes'
               PROVE  ticksToTransmission'[i] < Backoff(currBackoffIndex[i])'
    BY DEF WaitsWithinBackoff
  <2>1. /\ i \in Nodes
        /\ ticksToTransmission'[i] = ticksToTransmission[i] - 1
        /\ Backoff(currBackoffIndex[i])' = Backoff(currBackoffIndex[i])
    BY <1>1 DEF Nodes, Backoff
  <2>2. /\ ticksToTransmission[i] \in Nat
        /\ Backoff(currBackoffIndex[i]) \in Nat
        /\ ticksToTransmission[i] < Backoff(currBackoffIndex[i])
    BY <1>1, <2>1
  <2> QED BY <2>1, <2>2
<1>5. BusyWithLongPacket' /\ ExclusiveChannel' /\ CountsPacketSlots'
  BY <1>1
  DEF IInv, BusyWithLongPacket, ExclusiveChannel, CountsPacketSlots, LongPackets
<1>6. TransmitsNonzero'
  BY <1>1 DEF TransmitsNonzero, Backoff
<1> QED BY <1>3, <1>4, <1>5, <1>6 DEF IInv

\* The steps that leave the simulation's variables alone.
LEMMA StandStep ==
  ASSUME IInv, UNCHANGED <<params, nodeVars, currTime, channelVars>>,
         cpc' = cpc \/ cpc' = "trap" \/ (cpc = "run" /\ cpc' = "done")
  PROVE  IInv'
<1>1. /\ UNCHANGED <<node_count, packet_sz, retransmission_backoff,
                     simulation_time, ticksToTransmission, currBackoffIndex,
                     currTime, transmissionRemaining, transmittingNode,
                     successfulTransmissionTicks, delivered>>
      /\ Ready' = Ready
  BY DEF params, nodeVars, channelVars, Ready, Nodes
<1>2. TypeOK'
  BY <1>1 DEF IInv, TypeOK, Nodes, LastBackoff
<1>3. WaitsWithinBackoff' /\ TransmitsNonzero'
  BY <1>1 DEF IInv, WaitsWithinBackoff, TransmitsNonzero, Nodes, Backoff
<1>4. BusyWithLongPacket' /\ ExclusiveChannel' /\ CountsPacketSlots'
  BY <1>1
  DEF IInv, BusyWithLongPacket, ExclusiveChannel, CountsPacketSlots, LongPackets
<1> QED BY <1>2, <1>3, <1>4 DEF IInv

\* The inductive invariant holds in every reachable state of the simulation.
THEOREM Invariance == Spec => []IInv
<1>1. Init => IInv
  BY InitIInv
<1>2. IInv /\ [Next]_vars => IInv'
  <2> SUFFICES ASSUME IInv, [Next]_vars PROVE IInv'
    OBVIOUS
  <2>1. CASE Initialize BY <2>1, InitializeStep
  <2>2. CASE Transmit BY <2>2, TransmitStep
  <2>3. CASE Collide BY <2>3, CollideStep
  <2>4. CASE Start BY <2>4, StartStep
  <2>5. CASE Idle BY <2>5, IdleStep
  <2>6. CASE Trap BY <2>6, StandStep DEF Trap
  <2>7. CASE Finish BY <2>7, StandStep DEF Finish
  <2>8. CASE UNCHANGED vars BY <2>8, StandStep DEF vars
  <2> QED BY <2>1, <2>2, <2>3, <2>4, <2>5, <2>6, <2>7, <2>8 DEF Next
<1> QED BY <1>1, <1>2, PTL DEF Spec

\* The state of the simulator keeps its types: waits are never negative, and the
\* index into the backoff vector never leaves it.
THEOREM TypeCorrect == Spec => []TypeOK
<1>1. IInv => TypeOK
  BY DEF IInv
<1> QED BY <1>1, Invariance, PTL

\* No node waits longer than its current backoff allows.
THEOREM WaitsBounded == Spec => []WaitsWithinBackoff
<1>1. IInv => WaitsWithinBackoff
  BY DEF IInv
<1> QED BY <1>1, Invariance, PTL

\* A packet of two slots or more is never collided with: until its last slot its
\* node alone is ready.
THEOREM ChannelExclusive == Spec => []ExclusiveChannel
<1>1. IInv => ExclusiveChannel
  BY DEF IInv
<1> QED BY <1>1, Invariance, PTL

\* The numerator of the goodput counts the slots of packets, of all that were
\* transmitted and of the one under way.
THEOREM GoodputCounted == Spec => []CountsPacketSlots
<1>1. IInv => CountsPacketSlots
  BY DEF IInv
<1> QED BY <1>1, Invariance, PTL

------------------------------------------------------------------------------

\* A round that is not the start of a packet or one of its slots leaves the
\* channel alone.
LEMMA QuietStep ==
  ASSUME Initialize \/ Collide \/ Idle \/ Trap \/ Finish \/ UNCHANGED vars
  PROVE  UNCHANGED Channel!vars
BY DEF Initialize, Collide, Idle, Trap, Finish, vars, params, channelVars,
       Channel!vars

\* Simulations implement the slotted channel: a packet is never cut short, and
\* never given to another node.
THEOREM ChannelRefinement == Spec => ImplementsSlottedChannel
<1> DEFINE owner == IF transmissionRemaining > 0 THEN transmittingNode ELSE -1
<1>1. Init => Channel!Init
  BY PacketSizesAssumption DEF Init, MembersInit, Channel!Init
<1>2. IInv /\ [Next]_vars => [Channel!Next]_(Channel!vars)
  <2> SUFFICES ASSUME IInv, [Next]_vars
               PROVE  [Channel!Next]_(Channel!vars)
    OBVIOUS
  <2>1. CASE Transmit
    <3>1. /\ transmissionRemaining \in Int /\ transmissionRemaining > 0
          /\ transmittingNode # -1
      BY <2>1 DEF Transmit, IInv, TypeOK, BusyWithLongPacket
    <3>2. /\ transmissionRemaining' = transmissionRemaining - 1
          /\ successfulTransmissionTicks' = successfulTransmissionTicks + 1
          /\ packet_sz' = packet_sz
      BY <2>1 DEF Transmit, params
    <3>3. owner' = IF transmissionRemaining' = 0 THEN -1 ELSE owner
      <4>1. CASE transmissionRemaining = 1
        BY <2>1, <3>2, <4>1 DEF Transmit
      <4>2. CASE transmissionRemaining # 1
        BY <2>1, <3>1, <3>2, <4>2 DEF Transmit
      <4> QED BY <4>1, <4>2
    <3>4. owner # -1
      BY <3>1
    <3> QED BY <3>1, <3>2, <3>3, <3>4 DEF Channel!Next, Channel!Continue
  <2>2. CASE Start
    <3>1. owner = -1
      BY <2>2 DEF Start, ChannelFree, IInv, TypeOK
    <3>2. /\ transmittingNode' \in Nodes
          /\ transmissionRemaining' = packet_sz - 1
          /\ successfulTransmissionTicks' = successfulTransmissionTicks + 1
          /\ packet_sz' = packet_sz
      BY <2>2 DEF Start, SlotsLeft, Ready, params
    <3>3. transmittingNode' \in Nat
      BY <3>2 DEF Nodes
    <3>4. owner' \in IF transmissionRemaining' > 0 THEN Nat ELSE {-1}
      BY <3>3
    <3> QED BY <3>1, <3>2, <3>4 DEF Channel!Next, Channel!Start
  <2>3. CASE Initialize \/ Collide \/ Idle \/ Trap \/ Finish \/ UNCHANGED vars
    BY <2>3, QuietStep
  <2> QED BY <2>1, <2>2, <2>3 DEF Next
<1> QED BY <1>1, <1>2, Invariance, PTL
        DEF Spec, ImplementsSlottedChannel, Channel!Spec

------------------------------------------------------------------------------
(***************************************************************************)
(* CSMAProgram: what the constructor has read of the input file, for every *)
(* file.                                                                   *)
(***************************************************************************)
\* Of the first n lines, line k is the last one of letter c.
LastLine(c, k, n) ==
  k \in 1 .. n /\ lines[k].c = c /\ \A j \in k + 1 .. n : lines[j].c # c

IsValue(v, c, g, n) == \A k \in 1 .. n : LastLine(c, k, n) => v = g[k]

\* The numbers are those of the last lines of their letters, of the lines read.
ValuesRead ==
  \A k \in 1 .. pos :
    /\ LastLine("N", k, pos) => node_count = lines[k].toks[1]
    /\ LastLine("L", k, pos) => packet_sz = lines[k].toks[1]
    /\ LastLine("M", k, pos) => retransmissions = lines[k].toks[1]
    /\ LastLine("R", k, pos) => retransmission_backoff = lines[k].toks
    /\ LastLine("T", k, pos) => simulation_time = lines[k].toks[1]

\* The backoffs read behind an M line are counted.
BackoffsCounted ==
  \A r \in 1 .. pos : \A m \in 1 .. r - 1 :
    (/\ lines[r].c = "R" /\ lines[m].c = "M"
     /\ \A k \in m + 1 .. pos : k = r \/ lines[k].c \notin {"M", "R"})
      => Len(retransmission_backoff) = retransmissions

\* The inductive invariant: the lines read were all good, and nothing changes the
\* parameters once the simulation runs.
InputInv ==
  /\ lines \in Inputs /\ pos \in 0 .. Len(lines)
  /\ \A k \in 1 .. pos : GoodLine(lines[k])
  /\ ValuesRead
  /\ BackoffsCounted
  /\ ipc = "ok" => pos = Len(lines)
  /\ cpc # "init" => ipc = "ok"

LEMMA LineFacts ==
  ASSUME lines \in Inputs
  PROVE  /\ Len(lines) \in Nat /\ DOMAIN lines = 1 .. Len(lines)
         /\ \A k \in 1 .. Len(lines) : lines[k].toks \in Seq(Int)
<1> DEFINE R == [c : {lines[k].c : k \in DOMAIN lines}, toks : Seq(Int)]
<1>1. lines \in Seq(R)
  BY InputsAssumption
<1>2. \A x \in R : x.toks \in Seq(Int)
  OBVIOUS
<1> HIDE DEF R
<1>3. Len(lines) \in Nat /\ DOMAIN lines = 1 .. Len(lines)
      /\ \A k \in 1 .. Len(lines) : lines[k] \in R
  BY <1>1
<1> QED BY <1>2, <1>3

\* The numbers of a line that is good and not blank.
LEMMA GoodNumbers ==
  ASSUME lines \in Inputs, NEW k \in 1 .. Len(lines), GoodLine(lines[k]),
         lines[k].c \in {"N", "L", "M", "R", "T"}
  PROVE  /\ lines[k].toks # <<>> /\ lines[k].toks[1] \in Int /\ lines[k].toks[1] >= 0
<1>1. lines[k].toks \in Seq(Int)
  BY LineFacts
<1>2. lines[k].toks # <<>> /\ \A i \in DOMAIN lines[k].toks : lines[k].toks[i] >= 0
  <2>1. Input!Blank.c = ""
    BY DEF Input!Blank
  <2>2. lines[k] # Input!Blank
    BY <2>1
  <2> QED BY <2>2 DEF GoodLine
<1> DEFINE toks == lines[k].toks
<1>3. 1 \in DOMAIN toks /\ toks[1] \in Int
  <2>1. toks \in Seq(Int) /\ toks # <<>>
    BY <1>1, <1>2
  <2> HIDE DEF toks
  <2> QED BY <2>1
<1> QED BY <1>2, <1>3

\* One line more sets the parameter of its letter, and no other.
LEMMA OneLineMore ==
  ASSUME NEW n \in Nat, NEW c, NEW old, NEW new, NEW value,
         IsValue(old, c, value, n), new = IF lines[n + 1].c = c THEN value[n + 1] ELSE old
  PROVE  IsValue(new, c, value, n + 1)
<1> SUFFICES ASSUME NEW k \in 1 .. n + 1, LastLine(c, k, n + 1) PROVE new = value[k]
  BY DEF IsValue
<1>1. CASE k = n + 1
  BY <1>1 DEF LastLine
<1>2. CASE k # n + 1
  <2>1. k \in 1 .. n /\ n + 1 \in k + 1 .. n + 1
    BY <1>2
  <2>2. lines[n + 1].c # c
    BY <2>1 DEF LastLine
  <2>3. LastLine(c, k, n)
    BY <2>1 DEF LastLine
  <2> QED BY <2>1, <2>2, <2>3 DEF IsValue
<1> QED BY <1>1, <1>2

LEMMA ReadLineStep ==
  ASSUME InputInv, Input!ReadLine
  PROVE  /\ \A k \in 1 .. pos' : GoodLine(lines[k])
         /\ ValuesRead'
         /\ BackoffsCounted'
<1> DEFINE n == pos
           line == lines[n + 1]
           first == [k \in 1 .. n + 1 |-> lines[k].toks[1]]
           all == [k \in 1 .. n + 1 |-> lines[k].toks]
<1>1. /\ n \in Nat /\ n + 1 \in 1 .. Len(lines) /\ pos' = n + 1 /\ UNCHANGED lines
      /\ Len(lines) \in Nat /\ n < Len(lines)
  BY LineFacts DEF InputInv, Input!ReadLine, Input!Reading
<1>2. /\ line.c \in {"N", "L", "M", "R", "T"}
      /\ line.toks # <<>> /\ \A k \in DOMAIN line.toks : line.toks[k] >= 0
      /\ line.c = "R" => retransmissions = -1 \/ Len(line.toks) = retransmissions
  BY DEF Input!ReadLine, Input!Accepted, Input!Parsed, Input!CountMismatch, Input!Line
<1>3. /\ node_count' = IF line.c = "N" THEN line.toks[1] ELSE node_count
      /\ packet_sz' = IF line.c = "L" THEN line.toks[1] ELSE packet_sz
      /\ retransmissions' = IF line.c = "M" THEN line.toks[1] ELSE retransmissions
      /\ retransmission_backoff' = IF line.c = "R" THEN line.toks ELSE retransmission_backoff
      /\ simulation_time' = IF line.c = "T" THEN line.toks[1] ELSE simulation_time
  BY DEF Input!ReadLine, Input!SetBy, Input!Line
<1>4. first[n + 1] = line.toks[1] /\ all[n + 1] = line.toks
  BY <1>1
<1>5. /\ \A k \in 1 .. n + 1 : first[k] = lines[k].toks[1] /\ all[k] = lines[k].toks
      /\ \A k \in 1 .. n : k \in 1 .. n + 1
  BY <1>1
<1>6. \A k \in 1 .. n + 1 : GoodLine(lines[k])
  <2>1. GoodLine(line)
    BY <1>2 DEF GoodLine
  <2>2. \A k \in 1 .. n + 1 : k \in 1 .. n \/ k = n + 1
    BY <1>1
  <2> QED BY <2>1, <2>2 DEF InputInv
<1> HIDE DEF first, all
<1>7. \A k \in 1 .. n + 1 :
        /\ LastLine("N", k, n + 1) => node_count' = lines[k].toks[1]
        /\ LastLine("L", k, n + 1) => packet_sz' = lines[k].toks[1]
        /\ LastLine("M", k, n + 1) => retransmissions' = lines[k].toks[1]
        /\ LastLine("R", k, n + 1) => retransmission_backoff' = lines[k].toks
        /\ LastLine("T", k, n + 1) => simulation_time' = lines[k].toks[1]
  <2>0. /\ IsValue(node_count, "N", first, n)
        /\ IsValue(packet_sz, "L", first, n)
        /\ IsValue(retransmissions, "M", first, n)
        /\ IsValue(retransmission_backoff, "R", all, n)
        /\ IsValue(simulation_time, "T", first, n)
    BY <1>5 DEF InputInv, ValuesRead, IsValue
  <2>1. IsValue(node_count', "N", first, n + 1)
    <3>1. node_count' = IF lines[n + 1].c = "N" THEN first[n + 1] ELSE node_count
      BY <1>3, <1>4
    <3> QED BY <1>1, <2>0, <3>1, OneLineMore
  <2>2. IsValue(packet_sz', "L", first, n + 1)
    <3>1. packet_sz' = IF lines[n + 1].c = "L" THEN first[n + 1] ELSE packet_sz
      BY <1>3, <1>4
    <3> QED BY <1>1, <2>0, <3>1, OneLineMore
  <2>3. IsValue(retransmissions', "M", first, n + 1)
    <3>1. retransmissions' = IF lines[n + 1].c = "M" THEN first[n + 1] ELSE retransmissions
      BY <1>3, <1>4
    <3> QED BY <1>1, <2>0, <3>1, OneLineMore
  <2>4. IsValue(retransmission_backoff', "R", all, n + 1)
    <3>1. retransmission_backoff' = IF lines[n + 1].c = "R" THEN all[n + 1] ELSE retransmission_backoff
      BY <1>3, <1>4
    <3> QED BY <1>1, <2>0, <3>1, OneLineMore
  <2>5. IsValue(simulation_time', "T", first, n + 1)
    <3>1. simulation_time' = IF lines[n + 1].c = "T" THEN first[n + 1] ELSE simulation_time
      BY <1>3, <1>4
    <3> QED BY <1>1, <2>0, <3>1, OneLineMore
  <2> QED BY <1>5, <2>1, <2>2, <2>3, <2>4, <2>5 DEF IsValue
<1>8. ValuesRead'
  BY <1>1, <1>7 DEF ValuesRead, LastLine
<1>9. BackoffsCounted'
  <2> SUFFICES ASSUME NEW r \in 1 .. n + 1, NEW m \in 1 .. r - 1,
                      lines[r].c = "R", lines[m].c = "M",
                      \A k \in m + 1 .. n + 1 : k = r \/ lines[k].c \notin {"M", "R"}
               PROVE  Len(retransmission_backoff') = retransmissions'
    BY <1>1 DEF BackoffsCounted
  <2>1. CASE r = n + 1
    <3>1. m \in 1 .. n /\ m \in 1 .. Len(lines)
      BY <1>1, <2>1
    <3>2. LastLine("M", m, n)
      <4>1. \A j \in m + 1 .. n : j \in m + 1 .. n + 1 /\ j # r
        BY <1>1, <2>1
      <4> QED BY <3>1, <4>1 DEF LastLine
    <3>3. retransmissions = lines[m].toks[1]
      BY <3>1, <3>2 DEF InputInv, ValuesRead
    <3>4. lines[m].toks[1] \in Int /\ lines[m].toks[1] >= 0
      BY <3>1, GoodNumbers DEF InputInv
    <3>5. retransmissions # -1
      BY <3>3, <3>4
    <3> QED BY <1>2, <1>3, <2>1, <3>5
  <2>2. CASE r # n + 1
    <3>1. /\ r \in 1 .. n /\ n + 1 \in m + 1 .. n + 1
          /\ \A k \in m + 1 .. n : k \in m + 1 .. n + 1
      BY <1>1, <2>2
    <3>2. line.c \notin {"M", "R"}
      BY <2>2, <3>1
    <3>3. Len(retransmission_backoff) = retransmissions
      BY <3>1 DEF InputInv, BackoffsCounted
    <3> QED BY <1>3, <3>2, <3>3
  <2> QED BY <2>1, <2>2
<1> QED BY <1>1, <1>6, <1>8, <1>9

\* The parameters that no line has set come to hold some value; those that one has
\* set keep it.
LEMMA EndOfFileStep ==
  ASSUME InputInv, Input!EndOfFile
  PROVE  ValuesRead' /\ BackoffsCounted'
<1>1. /\ pos = Len(lines) /\ UNCHANGED <<lines, pos, retransmissions, retransmission_backoff>>
      /\ node_count' \in Input!Held(node_count)
      /\ packet_sz' \in Input!Held(packet_sz)
      /\ simulation_time' \in Input!Held(simulation_time)
  BY DEF Input!EndOfFile
<1>2. ASSUME NEW k \in 1 .. pos, NEW c \in {"N", "L", "T"}, LastLine(c, k, pos)
      PROVE  lines[k].toks[1] # Unset
  <2>1. k \in 1 .. Len(lines) /\ GoodLine(lines[k]) /\ lines[k].c = c /\ lines \in Inputs
    BY <1>1, <1>2 DEF InputInv, LastLine
  <2>2. lines[k].toks[1] \in Int
    BY <2>1, GoodNumbers
  <2> QED BY <2>2, UnsetAssumption
<1>3. ASSUME NEW k \in 1 .. pos
      PROVE  /\ LastLine("N", k, pos) => node_count' = lines[k].toks[1]
             /\ LastLine("L", k, pos) => packet_sz' = lines[k].toks[1]
             /\ LastLine("T", k, pos) => simulation_time' = lines[k].toks[1]
  BY <1>1, <1>2 DEF InputInv, ValuesRead, Input!Held
<1>4. ValuesRead'
  <2> SUFFICES ASSUME NEW k \in 1 .. pos
               PROVE  /\ LastLine("N", k, pos) => node_count' = lines[k].toks[1]
                      /\ LastLine("L", k, pos) => packet_sz' = lines[k].toks[1]
                      /\ LastLine("M", k, pos) => retransmissions' = lines[k].toks[1]
                      /\ LastLine("R", k, pos) => retransmission_backoff' = lines[k].toks
                      /\ LastLine("T", k, pos) => simulation_time' = lines[k].toks[1]
    BY <1>1 DEF ValuesRead, LastLine
  <2> QED BY <1>1, <1>3 DEF InputInv, ValuesRead
<1>5. BackoffsCounted'
  BY <1>1 DEF InputInv, BackoffsCounted
<1> QED BY <1>4, <1>5

LEMMA InitInputInv == ProgramInit => InputInv
<1> SUFFICES ASSUME ProgramInit PROVE InputInv
  OBVIOUS
<1>1. lines \in Inputs /\ pos = 0 /\ ipc \in {"read", "thrown"} /\ cpc = "init"
  BY DEF ProgramInit, Input!Init, MembersInit
<1>2. Len(lines) \in Nat
  BY <1>1, LineFacts
<1>3. 1 .. pos = {} /\ pos \in 0 .. Len(lines)
  BY <1>1, <1>2
<1> QED BY <1>1, <1>3 DEF InputInv, ValuesRead, BackoffsCounted

LEMMA NextInputInv == InputInv /\ [ProgramNext]_programVars => InputInv'
<1> SUFFICES ASSUME InputInv, [ProgramNext]_programVars PROVE InputInv'
  OBVIOUS
<1>1. /\ lines \in Inputs /\ Len(lines) \in Nat /\ pos \in 0 .. Len(lines)
  BY LineFacts DEF InputInv
<1>2. CASE Construct
  <2>1. Input!Next /\ UNCHANGED cpc
    BY <1>2 DEF Construct
  <2>2. ipc = "read" /\ cpc = "init"
    BY <2>1 DEF Input!Next, Input!ReadLine, Input!SkipBlank, Input!Reject, Input!EndOfFile,
                Input!Reading, InputInv
  <2>3. CASE Input!ReadLine
    <3>1. pos' = pos + 1 /\ UNCHANGED <<lines, ipc>> /\ pos < Len(lines)
      BY <2>3 DEF Input!ReadLine, Input!Reading
    <3>2. pos' \in 0 .. Len(lines)
      BY <1>1, <3>1
    <3> QED BY <1>1, <2>1, <2>2, <2>3, <3>1, <3>2, ReadLineStep DEF InputInv
  <2>4. CASE Input!SkipBlank
    <3>1. /\ pos' = pos + 1 /\ lines[pos + 1] = Input!Blank /\ pos < Len(lines)
          /\ UNCHANGED <<lines, ipc>>
          /\ UNCHANGED <<node_count, packet_sz, retransmissions, retransmission_backoff,
                         simulation_time>>
      BY <2>4 DEF Input!SkipBlank, Input!Reading, Input!Line, Input!parameters
    <3> DEFINE n == pos
    <3>0. n \in Nat
      BY <1>1
    <3>a. GoodLine(lines[n + 1])
      BY <3>1 DEF GoodLine
    <3>b. Input!Blank.c = ""
      BY DEF Input!Blank
    <3>2. lines[n + 1].c = ""
      BY <3>1, <3>b
    <3>3. /\ n + 1 \in 0 .. Len(lines)
          /\ \A k \in 1 .. n + 1 : k \in 1 .. n \/ k = n + 1
      BY <1>1, <3>1
    <3>4. \A k \in 1 .. n + 1 : GoodLine(lines[k])
      BY <3>a, <3>3 DEF InputInv
    <3>5. ASSUME NEW k \in 1 .. n + 1, NEW c \in {"N", "L", "M", "R", "T"},
                 LastLine(c, k, n + 1)
          PROVE  k \in 1 .. n /\ LastLine(c, k, n)
      <4>1. lines[k].c = c /\ \A j \in k + 1 .. n + 1 : lines[j].c # c
        BY <3>5 DEF LastLine
      <4>2. k # n + 1
        BY <3>2, <4>1
      <4> HIDE DEF n
      <4>3. k \in 1 .. n
        BY <3>0, <4>2
      <4>4. \A j \in k + 1 .. n : j \in k + 1 .. n + 1
        BY <3>0, <4>3
      <4> QED BY <4>1, <4>3, <4>4 DEF LastLine
    <3>6. ValuesRead'
      <4> SUFFICES ASSUME NEW k \in 1 .. n + 1
                   PROVE  /\ LastLine("N", k, n + 1) => node_count = lines[k].toks[1]
                          /\ LastLine("L", k, n + 1) => packet_sz = lines[k].toks[1]
                          /\ LastLine("M", k, n + 1) => retransmissions = lines[k].toks[1]
                          /\ LastLine("R", k, n + 1) => retransmission_backoff = lines[k].toks
                          /\ LastLine("T", k, n + 1) => simulation_time = lines[k].toks[1]
        BY <3>1 DEF ValuesRead, LastLine
      <4> QED BY <3>5 DEF InputInv, ValuesRead
    <3>7. BackoffsCounted'
      <4> SUFFICES ASSUME NEW r \in 1 .. n + 1, NEW m \in 1 .. r - 1,
                          lines[r].c = "R", lines[m].c = "M",
                          \A k \in m + 1 .. n + 1 : k = r \/ lines[k].c \notin {"M", "R"}
                   PROVE  Len(retransmission_backoff) = retransmissions
        BY <3>1 DEF BackoffsCounted
      <4>1. r # n + 1
        BY <3>2
      <4>2. r \in 1 .. n /\ \A k \in m + 1 .. n : k \in m + 1 .. n + 1
        <5> HIDE DEF n
        <5>1. r \in 1 .. n
          BY <3>0, <4>1
        <5>2. \A k \in m + 1 .. n : k \in m + 1 .. n + 1
          BY <3>0, <5>1
        <5> QED BY <5>1, <5>2
      <4> QED BY <4>2 DEF InputInv, BackoffsCounted
    <3> QED BY <1>1, <2>1, <2>2, <3>1, <3>3, <3>4, <3>6, <3>7 DEF InputInv
  <2>5. CASE Input!Reject
    <3>1. /\ ipc' = "thrown"
          /\ UNCHANGED <<lines, pos, node_count, packet_sz, retransmissions,
                         retransmission_backoff, simulation_time>>
      BY <2>5 DEF Input!Reject, Input!parameters
    <3> QED BY <2>1, <2>2, <3>1 DEF InputInv, ValuesRead, BackoffsCounted, LastLine
  <2>6. CASE Input!EndOfFile
    <3>1. pos = Len(lines) /\ UNCHANGED <<lines, pos>>
      BY <2>6 DEF Input!EndOfFile
    <3> QED BY <1>1, <2>1, <2>2, <2>6, <3>1, EndOfFileStep DEF InputInv
  <2> QED BY <2>1, <2>3, <2>4, <2>5, <2>6 DEF Input!Next
<1>3. CASE Simulate \/ WriteGoodput \/ UNCHANGED programVars
  <2>1. UNCHANGED <<lines, pos, retransmissions, ipc>>
    BY <1>3 DEF Simulate, WriteGoodput, programVars, inputVars
  <2>2. UNCHANGED <<node_count, packet_sz, retransmission_backoff, simulation_time>>
    BY <1>3 DEF Simulate, WriteGoodput, programVars, vars, params, Next, Initialize, Transmit,
                Collide, Start, Idle, Trap, Finish
  <2>3. cpc' = cpc \/ ipc = "ok"
    BY <1>3 DEF Simulate, WriteGoodput, programVars, vars
  <2> QED BY <2>1, <2>2, <2>3 DEF InputInv, ValuesRead, BackoffsCounted, LastLine
<1> QED BY <1>2, <1>3 DEF ProgramNext

\* The last line of a letter is there when one is.
LEMMA LastOfFacts ==
  ASSUME lines \in Inputs, NEW c, LinesOf(c) # {}
  PROVE  \E k \in 1 .. Len(lines) : /\ LastLine(c, k, Len(lines))
                                    /\ LastOf(c) = lines[k].toks
<1> DEFINE S == LinesOf(c)
           n == Len(lines)
<1>1. n \in Nat /\ S \subseteq 1 .. n /\ S # {}
  BY LineFacts DEF LinesOf
<1>2. \A k \in 1 .. n : k \in S <=> lines[k].c = c
  BY LineFacts DEF LinesOf
<1>3. LastOf(c) = lines[Max(S)].toks
  BY DEF LastOf
<1> HIDE DEF S, n
<1> DEFINE m == Max(S)
<1>4. m \in S /\ \A j \in S : j <= m
  BY <1>1, MaxIsGreatest
<1> HIDE DEF m
<1>5. m \in 1 .. n /\ lines[m].c = c
  BY <1>1, <1>2, <1>4
<1>6. ASSUME NEW j \in m + 1 .. n PROVE lines[j].c # c
  <2>1. j \in 1 .. n /\ ~(j <= m)
    BY <1>1, <1>5
  <2> QED BY <1>2, <1>4, <2>1
<1> QED BY <1>3, <1>5, <1>6 DEF LastLine, n, m

\* The simulation runs on what the file says, for every file, every value that an
\* unset parameter may hold, and every run of it.
THEOREM FileIsSimulated == ProgramSpec => []SimulatesTheFile
<1>1. InputInv => SimulatesTheFile
  <2> SUFFICES ASSUME InputInv, cpc # "init"
               PROVE  /\ \A k \in DOMAIN lines : GoodLine(lines[k])
                      /\ LinesOf("N") # {} => node_count = LastOf("N")[1]
                      /\ LinesOf("L") # {} => packet_sz = LastOf("L")[1]
                      /\ LinesOf("R") # {} => retransmission_backoff = LastOf("R")
                      /\ LinesOf("T") # {} => simulation_time = LastOf("T")[1]
                      /\ CountedAfterM
    BY DEF SimulatesTheFile
  <2>1. /\ lines \in Inputs /\ pos = Len(lines) /\ DOMAIN lines = 1 .. pos
    BY LineFacts DEF InputInv
  <2>2. \A k \in DOMAIN lines : GoodLine(lines[k])
    BY <2>1 DEF InputInv
  <2>3. LinesOf("N") # {} => node_count = LastOf("N")[1]
    BY <2>1, LastOfFacts DEF InputInv, ValuesRead
  <2>4. LinesOf("L") # {} => packet_sz = LastOf("L")[1]
    BY <2>1, LastOfFacts DEF InputInv, ValuesRead
  <2>5. LinesOf("R") # {} => retransmission_backoff = LastOf("R")
    BY <2>1, LastOfFacts DEF InputInv, ValuesRead
  <2>6. LinesOf("T") # {} => simulation_time = LastOf("T")[1]
    BY <2>1, LastOfFacts DEF InputInv, ValuesRead
  <2>7. CountedAfterM
    BY <2>1 DEF InputInv, BackoffsCounted, CountedAfterM
  <2> QED BY <2>2, <2>3, <2>4, <2>5, <2>6, <2>7
<1> QED BY <1>1, InitInputInv, NextInputInv, PTL DEF ProgramSpec

==============================================================================
