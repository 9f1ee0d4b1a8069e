SPECIFICATION Spec
CONSTANTS
  r1 = r1
  r2 = r2
  r3 = r3
  Requests = {r1, r2, r3}
  MaxToken = 3
  None = None
SYMMETRY Symmetry
INVARIANTS EarlierSuperseded ClosedForAReason TokenBurned
CHECK_DEADLOCK FALSE
