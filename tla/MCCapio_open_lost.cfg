SPECIFICATION FairSpec
CONSTANTS
  prod = prod
  cons = cons
  f = f
  g = g
  d = d
  root = root
  o = o
  NoApp = NoApp
  NoPath = NoPath
  Tid = {2, 3, 5}
  App <- Apps
  AppOf <- TwoReaders
  Path <- OneFile
  CapioPath <- OneFile
  Handled <- OneFile
  Present = {}
  Dir = {}
  Parent <- NoParent
  Declared <- OneFile
  CommitRule <- AllOnClose
  FireRule <- AllUpdate
  CloseCount <- AnyClose
  FileCount <- NoFileCount
  Deps <- NoDeps
  Producers <- NoProducers
  Globs = {}
  MaxSize = 2
  Inode = {1, 2}
  Calls <- LostCalls
  MaxCalls <- OpenBudget
  QueueCap = 2
  WriterCacheSize = 3
  FdNumber = 3
  MayDie = {}
PROPERTIES CreationReleases
