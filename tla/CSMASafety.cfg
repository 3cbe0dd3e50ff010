SPECIFICATION Spec
CONSTANTS
  NodeCounts <- FewNodes
  PacketSizes <- AllSizes
  Backoffs <- BackoffVectors
  Times <- Durations
INVARIANTS
  TypeOK
  WaitsWithinBackoff
  ExclusiveChannel
  CountsPacketSlots
PROPERTIES
  ImplementsSlottedChannel
CHECK_DEADLOCK FALSE
