SPECIFICATION FairSpec

CONSTANTS
  a = a
  b = b
  Endpoint <- MCEndpoint
  Peer <- MCPeer
  Budget <- MCBudget
  MaxSegment = 1
  BufferSize = 2
  MaxWrite = 1
  SeqInterval = 2
  Cwnds = {1, 3}
  Nagle = FALSE
  NagleSlack = 0
  ReadSizes = {1}
  BytesOfA = 3
  BytesOfB = 0
  NetCap = 1
  Duplicates = TRUE

PROPERTIES
  Delivered
