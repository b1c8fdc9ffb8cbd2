SPECIFICATION FairSpec

CONSTANTS
  Client = client
  Server = server
  MaxId = 2
  SynMax = 2
  FinMax = 2
  TimeoutCount = 1
  Copies = 1
  Connects = 1
  Accepts = 1
  NetCap = 2
  Reordering = TRUE

PROPERTIES
  ConnectSettles
  SocketsReturned
  OrphansEnd

CHECK_DEADLOCK FALSE
