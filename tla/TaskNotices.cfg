SPECIFICATION FairSpec
CONSTANTS
  t1 = t1  t2 = t2
  mgr = mgr  emp1 = emp1  emp2 = emp2  outsider = outsider
  short = short  other = other  long = long  orgA = orgA  orgB = orgB
  r1 = r1  r2 = r2  r3 = r3
  NoRow = NoRow  NoUser = NoUser  NoTask = NoTask  Unset = Unset
  Task = {t1}
  User = {mgr, emp1, emp2, outsider}
  Manager <- Managers
  Org <- OrgOfUser
  Content = {short, other, long}
  LongTitle = {long}
  Payload <- NoticeBodies
  InitialRow <- ReviewRow
  Request = {r1, r2}
  Workers = 2
  Faults = FALSE
CHECK_DEADLOCK FALSE
PROPERTIES
  NoticesArrive
