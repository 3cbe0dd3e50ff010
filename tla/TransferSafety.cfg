SPECIFICATION Spec
CONSTANTS
  N = 3
  DataPackets <- AllData
  Scale = 16
  MaxCw = 6
INVARIANTS
  TypeOK
  InOrderFile
  AckSound
  CompleteBeforeEnd
  ResendsBase
  RecoveryConsistent
  WaitsForSentPacket
CHECK_DEADLOCK FALSE
PROPERTIES
  ImplementsFileTransfer
