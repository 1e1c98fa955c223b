SPECIFICATION Spec
CONSTANTS
  ada = ada
  bea = bea
  cal = cal
  dan = dan
  north = north
  south = south
  sales = sales
  support = support
  r1 = r1
  r2 = r2
  r3 = r3
  r4 = r4
  NoRow = NoRow
  NoAccount = NoAccount
  NoDept = NoDept
  NoLink = NoLink
  Unset = Unset
  Account = {ada, cal}
  Dept = {sales, support}
  DeptOrg <- MCDeptOrg
  Org = {north, south}
  DefaultOrg = north
  InitialUser <- OneAdmin
  Body <- DemoteOnly
  Request = {r1, r2, r3}
  Workers = 1
  Faults = FALSE
SYMMETRY RequestSymmetry
PROPERTY LinkDiesWithLogin
CHECK_DEADLOCK FALSE
