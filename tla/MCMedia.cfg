SPECIFICATION FairSpec
CONSTANTS
  Media = {m1, m2}
  Sweeps = {s1, s2}
  Sends = {b1}
  BatchSize = 2
  MaxFaults = 1
  None = None
INVARIANTS BoundHasBytes NothingLeaks
PROPERTY OrphansGo
CHECK_DEADLOCK FALSE
