SPECIFICATION Spec
CONSTANTS
  north = north
  south = south
  east = east
  c1 = c1
  p1 = p1
  t1 = t1
  d1 = d1
  d2 = d2
  ada = ada
  lea = lea
  r1 = r1
  r2 = r2
  r3 = r3
  NoLink = NoLink
  NoTarget = NoTarget
  NoUser = NoUser
  NoRow = NoRow
  Unset = Unset
  Org = {north, south, east}
  Client = {c1}
  Project = {p1}
  Task = {t1}
  Department = {d1, d2}
  User = {ada, lea}
  Writer = {ada, lea}
  Admin = {ada}
  InitialRow <- Tables
  InitialOrg = {north, south}
  InitialHome <- Homes
  Request = {r1, r2, r3}
  Workers = 2
  MaxMoves = 2
  Faults = TRUE
SYMMETRY RequestSymmetry
INVARIANT TypeOK
INVARIANT LinksHold
PROPERTY GoneIsRecorded
PROPERTY CascadeTakesOnlyNew
CHECK_DEADLOCK FALSE
