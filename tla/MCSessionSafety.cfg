SPECIFICATION Spec
CONSTANTS
  u1 = u1
  s1 = s1
  s2 = s2
  w1 = w1
  w2 = w2
  None = None
  Users = {u1}
  OwnerOf <- OwnerOne
  Sessions = {s1, s2}
  Workers = {w1, w2}
  MaxFaults = 1
SYMMETRY DeviceSymmetry
INVARIANTS
  TypeOK
  SweepIsComplete
  NeverGuessesActive
  DeactivatedShutOut
PROPERTIES
  RevokedIsFinal
