SPECIFICATION Spec
CONSTANTS
  Proc = {server, c1, c2, c3}
  Reader = server
  Capacity = 2
  MaxWrites = 2
  ServerFirst = TRUE
  None = None
SYMMETRY Clients
CHECK_DEADLOCK FALSE
INVARIANTS NothingLost
