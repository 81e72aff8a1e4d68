SPECIFICATION PathSpec
CONSTANTS
  Name = {"c", "o", "d", "f", "proc"}
  Dotted = {}
  CapioDir <- MCCapioDir
  Forbidden = {"proc"}
  RelPath <- MCRelPath
  AbsPath <- MCAbsPath
  Depth = 3
  MaxEntries = 6
  DirFd = {"fd1"}
  StartDir <- MCStartDir
  Cwd = Cwd
  None = None
INVARIANTS   NeverMisnamed
CHECK_DEADLOCK FALSE
