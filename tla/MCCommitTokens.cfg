SPECIFICATION FairSpec
CONSTANTS
  s1 = s1
  s2 = s2
  s3 = s3
  Server = {s1, s2, s3}
  MaxCloses = 4
  MaxCrashes = 2
INVARIANTS NeverEarly
PROPERTIES CountsEveryClose ClosesGoThrough
CHECK_DEADLOCK FALSE
