SPECIFICATION Spec
CONSTANTS
  prod = prod
  cons = cons
  f = f
  g = g
  d = d
  root = root
  o = o
  NoApp = NoApp
  NoPath = NoPath
  Tid = {2, 3}
  App <- Apps
  AppOf <- TwoApps
  Path <- OneFile
  CapioPath <- OneFile
  Handled <- OneFile
  Present = {}
  Dir = {}
  Parent <- NoParent
  Declared <- OneFile
  CommitRule <- AllOnClose
  FireRule <- AllUpdate
  CloseCount <- AnyClose
  FileCount <- NoFileCount
  Deps <- NoDeps
  Producers <- NoProducers
  Globs = {}
  MaxSize = 2
  Inode = {1, 2}
  Calls <- PipeCalls
  MaxCalls <- PipeBudget
  QueueCap = 2
  WriterCacheSize = 3
  FdNumber = 3
  MayDie = {2, 3}
INVARIANTS CallInv AnswerMeetsItsCall DataWaiterKept NoUnknownThread
PROPERTIES KeepsPromise
