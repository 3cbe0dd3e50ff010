SPECIFICATION FairSpec
CONSTANTS
  Vertices <- FourNodes
  Graphs <- SmallGraphs
INVARIANTS
  TypeOK
  RoutesBacked
  HopsDescend
  SettledUnlessQueued
  Converged
PROPERTIES
  ConstructEnds
  ImplementsRouteTable
CHECK_DEADLOCK FALSE
