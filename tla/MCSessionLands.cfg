SPECIFICATION FairSpec
CONSTANTS
  u1 = u1
  s1 = s1
  s2 = s2
  w1 = w1
  w2 = w2
  None = None
  Users = {u1}
  OwnerOf <- OwnerSingle
  Sessions = {s1}
  Workers = {w1, w2}
  MaxFaults = 1
PROPERTIES
  RevocationLands
