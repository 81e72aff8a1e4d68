SPECIFICATION FairSpec
CONSTANTS
  w1 = w1
  w2 = w2
  r1 = r1
  r2 = r2
  Garbage = Garbage
  Writers = {w1, w2}
  Readers = {r1, r2}
  Capacity = 2
  MaxWrites = 2
  MayDie = {w2, r2}
INVARIANTS MutualExclusion
PROPERTIES RefinesFifo AllDelivered
CHECK_DEADLOCK FALSE
