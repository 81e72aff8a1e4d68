SPECIFICATION Spec
CONSTANTS
  prod = prod
  cons = cons
  f = f
  g = g
  d = d
  root = root
  o = o
  NoApp = NoApp
  NoPath = NoPath
  Tid = {2, 3}
  App <- Apps
  AppOf <- TwoApps
  Path <- TreePaths
  CapioPath <- TreeCapio
  Handled <- TreeHandled
  Present = {root}
  Dir = {d}
  Parent <- TreeParent
  Declared = {d, g}
  CommitRule <- TreeRules
  FireRule <- AllUpdate
  CloseCount <- AnyClose
  FileCount <- TreeCount
  Deps <- TreeDeps
  Producers <- TreeMakers
  Globs <- TreeGlobs
  MaxSize = 1
  Inode = {1, 2, 3}
  Calls <- TreeCalls
  MaxCalls <- TreeBudget
  QueueCap = 2
  WriterCacheSize = 3
  FdNumber = 3
  MayDie = {}
PROPERTIES UpdateReleaseJustified
CHECK_DEADLOCK FALSE
