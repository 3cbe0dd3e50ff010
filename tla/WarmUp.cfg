SPECIFICATION WarmUpFairSpec
CONSTANTS
  Clients <- TwoClients
  BACKLOG = 1
  Pieces <- AnyPieces
  GivenFiles <- SomeFiles
  NoFile = NoFile
  RecvMax = 5
  Decimal <- Digits
INVARIANTS
  ReplyShown
PROPERTIES
  EveryClientEnds
CHECK_DEADLOCK FALSE
