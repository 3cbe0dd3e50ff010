SPECIFICATION FairSpec
CONSTANTS
  Vertices <- FourNodes
  Graphs <- SmallGraphs
INVARIANTS
  PredecessorBacksDistance
  KnownAreNearest
  FringeQueued
  LowestPredecessor
PROPERTIES
  ConstructEnds
  ImplementsRouteTable
CHECK_DEADLOCK FALSE
