SPECIFICATION FairSpec

CONSTANTS
  Node = {n1, n2}
  NoNode = none
  Slots = 2
  Expire = 1
  Recursive = FALSE

PROPERTY Forgotten
