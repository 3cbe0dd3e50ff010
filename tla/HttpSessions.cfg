SPECIFICATION FairSpec
CONSTANTS
  Clients <- TwoClients
  Arguments <- SomeArguments
  Schemes <- TwoSchemes
  Slashed <- Directories
  ServerHost = "localhost"
  ServerPort = "80"
  Files <- TwoFiles
  StatusLine <- ShortStatusLine
  HeaderEnd <- ShortHeaderEnd
  RestOfRequest <- ShortRest
  BACKLOG = 1
INVARIANTS
  OutputInOrder
  OutputComplete
  ZombiesSignalled
CHECK_DEADLOCK FALSE
PROPERTIES
  ClientsServed
