SPECIFICATION MCSpec

CONSTANTS
  MinCwnd = 3
  DefaultCwnd = 6
  ResendFloor = 1
  CwndModulus = 11
  MinRtt = 5
  DefaultRtt = 50
  MaxRtt = 100
  Samples = {2, 5, 30, 99, 100, 120}
  MaxSeq = 26
  MaxResend = 3

INVARIANTS
  WindowNeverCloses
  SlowStartBelowHalf

PROPERTIES
  RttSettles
