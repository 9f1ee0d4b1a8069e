SPECIFICATION FairSpec
CONSTANTS
  c1 = c1
  c2 = c2
  c3 = c3
  i1 = i1
  i2 = i2
  Conns = {c1, c2, c3}
  Instances = {i1, i2}
  InstanceOf <- TwoInstances
  MaxFaults = 3
INVARIANTS
  PresenceTypeOK
  NeverOvercounts
  LastCloseRecorded
PROPERTIES
  NoLastingFalseOnline
