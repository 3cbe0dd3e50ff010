SPECIFICATION Spec
CONSTANTS
  N = 2
  DataPackets <- AllData
  Scale = 8
  MaxCw = 5
PROPERTIES
  SlowStartGrows
CHECK_DEADLOCK FALSE
