SPECIFICATION ProgramSpec
CONSTANTS
  NodeCounts = {}
  PacketSizes = {}
  Backoffs = {}
  Times = {}
  Inputs <- InputFiles
  Unset = Unset
  Garbage <- SomeGarbage
INVARIANTS
  SimulatesTheFile
PROPERTIES
  WellFormedRuns
CHECK_DEADLOCK FALSE
