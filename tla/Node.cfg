SPECIFICATION MCSpec

CONSTANTS
  Handles = 3
  Viewers = 3
  Reader = {r1, r2}
  Modulus = 12
  Margin = 4
  Capacity = 2
  First = 8
  Last <- MCLast
  Jump = 1
  Switches = 1
  Key = {8, 10}

INVARIANTS
  OneChannelUnlessOvertaken
  ServedNotClosed
  StreamEndsWithChannel
  StreamGoesToPeer
  LostOnlyByOverlap
  SourceServes
  QueueInOrder
  NothingSkipped

PROPERTIES
  Reachable
