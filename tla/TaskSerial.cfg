SPECIFICATION Spec
CONSTANTS
  t1 = t1  t2 = t2
  mgr = mgr  emp1 = emp1  emp2 = emp2  outsider = outsider
  short = short  other = other  long = long  orgA = orgA  orgB = orgB
  r1 = r1  r2 = r2  r3 = r3
  NoRow = NoRow  NoUser = NoUser  NoTask = NoTask  Unset = Unset
  Task = {t1, t2}
  User = {mgr, emp1, emp2, outsider}
  Manager <- Managers
  Org <- OrgOfUser
  Content = {short, other, long}
  LongTitle = {long}
  Payload <- SerialBodies
  InitialRow <- OpenRow
  Request = {r1, r2, r3}
  Workers = 1
  Faults = TRUE
CHECK_DEADLOCK FALSE
SYMMETRY RequestSymmetry
INVARIANTS
  RefusedLeavesNoTrace
PROPERTIES
  LockedIsFinal
  ImplementsLifecycle
