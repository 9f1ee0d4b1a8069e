SPECIFICATION Spec
CONSTANTS
  InviteIds = {1, 2}
  Names = {"x", "y"}
  r1 = r1
  r2 = r2
  r3 = r3
  Requests = {r1, r2, r3}
  MaxToken = 3
  None = None
  EmailOf <- MCEmailOf
SYMMETRY Symmetry
INVARIANTS TypeOK RedeemedOnce TokenWasMailed LatestLinkWorks
PROPERTY NeverPendingAgain
CHECK_DEADLOCK FALSE
