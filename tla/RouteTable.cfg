SPECIFICATION MCSpec

CONSTANTS
  Node = {n1, n2, n3}
  Mortal = n1
  NoNode = none
  Slots = 2
  Expire = 1
  Recursive = TRUE

INVARIANTS
  NoDuplicateRoute
  EventsFindTheirRow

PROPERTIES
  Forgotten
  ReportsGetIn
