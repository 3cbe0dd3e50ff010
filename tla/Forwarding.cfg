SPECIFICATION Spec
CONSTANTS
  NodeIds <- FiveIds
  TopologyFiles <- SomeTopologies
  ChangesFiles <- SomeChanges
  MessageFiles <- SomeMessages
INVARIANTS
  HopsMatchCost
  UnreachableIsCut
  GraphFollowsFiles
CHECK_DEADLOCK FALSE
