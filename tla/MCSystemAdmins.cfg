SPECIFICATION Spec
CONSTANTS
  i1 = i1
  i2 = i2
  r1 = r1
  r2 = r2
  None = None
  Users = {1, 2, 3, 4}
  Admins = {1, 2, 3}
  Instances = {i1, i2}
  SeedOf <- OneSeed
  Requests = {r1, r2}
INVARIANTS
  AnAdminRemains
PROPERTIES
  StartupKeepsAccounts
