SPECIFICATION Spec

CONSTANTS
  Client = client
  Server = server
  MaxId = 3
  SynMax = 2
  FinMax = 1
  TimeoutCount = 1
  Copies = 1
  Connects = 2
  Accepts = 1
  NetCap = 2
  Reordering = FALSE

INVARIANTS
  OneSocketPerConnect

CHECK_DEADLOCK FALSE
