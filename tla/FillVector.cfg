SPECIFICATION FillSpec
CONSTANTS
  PacketSize = 3
  MaxFile = 8
  MaxRequest = 10
INVARIANTS
  CarriesTheRequest
  DataComesFirst
CHECK_DEADLOCK FALSE
