\* The application stops calling when the connection is closed and deleted.
SPECIFICATION FairSpec
CONSTANTS
  Reader = {r1}
  Writer = {w1}
  Segments = 1
  Room = 1
INVARIANTS Exclusive NobodyForgotten FreedUnused GivenUp
PROPERTIES CallsWoken CloseEnds
CHECK_DEADLOCK FALSE
