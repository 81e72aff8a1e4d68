SPECIFICATION FairSpec
CONSTANTS
  t1 = t1
  t2 = t2
  a = a
  Tid = {t1, t2}
  App = {a}
  NoApp = NoApp
  MaxObjects = 3
  MaxStarts = 3
INVARIANTS NoUnknownTid 
PROPERTIES ChildStarts  EndedForgotten
CHECK_DEADLOCK FALSE
