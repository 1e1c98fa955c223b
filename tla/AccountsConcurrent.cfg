SPECIFICATION Spec
CONSTANTS
  ada = ada
  bea = bea
  cal = cal
  dan = dan
  north = north
  south = south
  sales = sales
  support = support
  r1 = r1
  r2 = r2
  r3 = r3
  r4 = r4
  NoRow = NoRow
  NoAccount = NoAccount
  NoDept = NoDept
  NoLink = NoLink
  Unset = Unset
  Account = {ada, bea, dan}
  Dept = {sales, support}
  DeptOrg <- MCDeptOrg
  Org = {north, south}
  DefaultOrg = north
  InitialUser <- TwoOrganizations
  Body <- AnyBodies
  Request = {r1, r2, r3}
  Workers = 2
  Faults = TRUE
SYMMETRY RequestSymmetry
INVARIANT TypeOK
INVARIANT AdminPowerIsSeeded
INVARIANT OrganizationsApart
INVARIANT AffectedAreTold
CHECK_DEADLOCK FALSE
