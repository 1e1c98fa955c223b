SPECIFICATION FairSpec
CONSTANTS
  member = member
  project = project
  client = client
  None = None
  Gone = Gone
  Text = {"a"}
  Day = {day}
  Choice <- Everything
  Listed <- Everything
  PageSize = 2
  MaxEvents = 3
INVARIANTS
  QuietListIsCurrent
  SentAsListed
PROPERTIES
  RefusedOnlyWhenStale
  CreatedOnce
  WaitingEnds
CHECK_DEADLOCK FALSE
