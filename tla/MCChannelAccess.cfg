SPECIFICATION Spec
CONSTANTS
  t1 = t1
  t2 = t2
  None = None
  Users = {1, 2}
  StartRole <- NewChannel
  StartJoined <- InIdOrder
  IsPrivate = FALSE
  Txns = {t1, t2}
  Routes = {"join", "leave", "add", "remove", "change", "deactivate"}
SYMMETRY TxnSymmetry
INVARIANTS
  TypeOK
  CallerStillAdmin
  CollectingNoDeadlock
