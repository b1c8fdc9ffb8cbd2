SPECIFICATION MCSpec

CONSTANTS
  Client = client
  Server = server
  MaxId = 3
  SynMax = 2
  FinMax = 2
  TimeoutCount = 1
  Copies = 2
  Connects = 2
  Accepts = 2
  NetCap = 3
  Reordering = FALSE

INVARIANTS
  HandlesTrue
  OneSocketPerConnect
  FinHonest
  IndexSound

CHECK_DEADLOCK FALSE
