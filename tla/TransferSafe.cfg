SPECIFICATION MCSpec

CONSTANTS
  a = a
  b = b
  Endpoint <- MCEndpoint
  Peer <- MCPeer
  Budget <- MCBudget
  MaxSegment = 2
  BufferSize = 4
  MaxWrite = 3
  SeqInterval = 3
  Cwnds = {3}
  Nagle = TRUE
  NagleSlack = 1
  ReadSizes = {1, 2}
  BytesOfA = 4
  BytesOfB = 2
  NetCap = 2
  Duplicates = TRUE

INVARIANTS
  NothingLost
  AckHonest
  BufferAccounted
  OnlyMissingReported
  AheadWithinWindow

PROPERTIES
  StreamSpec
  LossNeedsStaleNack
