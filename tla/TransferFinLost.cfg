SPECIFICATION FairSpec
CONSTANTS
  N = 1
  DataPackets <- AllData
  Scale = 4
  MaxCw = 4
PROPERTIES
  ReceiverCloses
CHECK_DEADLOCK FALSE
