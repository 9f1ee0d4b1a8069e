SPECIFICATION Spec
CONSTANTS
  t1 = t1
  t2 = t2
  None = None
  Users = {1, 2, 3}
  StartRole <- TwoAdmins
  StartJoined <- InIdOrder
  IsPrivate = FALSE
  Txns = {t1, t2}
  Routes = {"leave", "remove", "change"}
SYMMETRY TxnSymmetry
PROPERTIES
  LockedDepartureCovered
