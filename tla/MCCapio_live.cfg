SPECIFICATION FairSpec
CONSTANTS
  prod = prod
  cons = cons
  f = f
  g = g
  d = d
  root = root
  o = o
  NoApp = NoApp
  NoPath = NoPath
  Tid = {1, 2}
  App <- Apps
  AppOf <- LowReader
  Path <- OneFile
  CapioPath <- OneFile
  Handled <- OneFile
  Present = {}
  Dir = {}
  Parent <- NoParent
  Declared <- OneFile
  CommitRule <- AllOnClose
  FireRule <- NoUpdate
  CloseCount <- OneClose
  FileCount <- NoFileCount
  Deps <- NoDeps
  Producers <- NoProducers
  Globs = {}
  MaxSize = 2
  Inode = {1}
  Calls <- LiveCalls
  MaxCalls <- LiveBudget
  QueueCap = 2
  WriterCacheSize = 3
  FdNumber = 3
  MayDie = {}
PROPERTIES CommitSticky CommittedDataReleases SendsComplete
