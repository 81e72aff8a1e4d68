SPECIFICATION FairSpec
CONSTANTS
  s1 = s1
  s2 = s2
  int = int
  term = term
  t1 = t1
  Client = {t1}
  Server = {s1, s2}
  Signal = {int, term}
  MaxSignals = 2
  MaxKills = 1
CONSTRAINT TwoEvents
INVARIANTS OneServer CleanupComplete CleanStart KnowsItsClients
PROPERTIES ShutdownCompletes
CHECK_DEADLOCK FALSE
