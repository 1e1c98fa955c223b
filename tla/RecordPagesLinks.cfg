SPECIFICATION Spec
CONSTANTS
  member = member
  project = project
  client = client
  None = None
  Gone = Gone
  Text = {"a"}
  Day = {day}
  Choice <- Everything
  Listed <- Everything
  PageSize = 2
  MaxEvents = 3
INVARIANT
  LinksSurviveSaving
CHECK_DEADLOCK FALSE
