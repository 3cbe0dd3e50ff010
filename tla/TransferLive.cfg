SPECIFICATION FairSpec
CONSTANTS
  N = 2
  DataPackets <- AllData
  Scale = 8
  MaxCw = 5
PROPERTIES
  SenderFinishes
CHECK_DEADLOCK FALSE
