\* A cron expression that names no date, such as 30 February.
CONSTANTS
  a1 = a1
  a2 = a2
  Agent = {a1}
  Scenario <- Never
  Grace = 2
  PageSize = 2
SPECIFICATION Spec
INVARIANT TimesLieAhead
CHECK_DEADLOCK FALSE
