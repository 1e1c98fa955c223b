SPECIFICATION FairSpec
CONSTANTS
  Role = {"ADMIN", "EMPLOYEE"}
  Linked <- SomePages
  MaxEvents <- Bounds
  History <- Records
  RowCount <- Rows
  Breakdown <- Counts
  ChartSize <- Sizes
  TipSize <- ATip
  Mouse <- MousePlaces
  PagesOf <- AuditPages
  PageSize = 1
INVARIANTS
  PageSuitsRole
  BadgeTellsUnread
  ChartIsLit
  ChartIsWhole
  TipIsNearest
  ChartIsReadable
  AuditIsCurrent
  InboxIsCurrent
PROPERTIES
  EverythingSettles
CHECK_DEADLOCK FALSE
