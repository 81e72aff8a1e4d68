SPECIFICATION Spec
CONSTANTS
  p1 = p1
  p2 = p2
  Path = {p1, p2}
  Outside = Outside
  Gone = Gone
  Garbage = Garbage
  Free = Free
  MaxFd = 1
  MaxPos = 1
  OffMod = 16
  IovecSize = 1
  OpenModes = {"r", "w"}
  Programs <- MCPrograms
SYMMETRY Symmetry
CHECK_DEADLOCK FALSE
INVARIANTS MapsAgree NamesTrue RecordedOpen OffsetCovers NoThrow
PROPERTIES ClosesTold
