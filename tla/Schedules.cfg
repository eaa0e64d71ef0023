\* The scenarios of MCSchedules.
CONSTANTS
  a1 = a1
  a2 = a2
  Agent = {a1, a2}
  Scenario <- Scenarios
  Grace = 2
  PageSize = 2
SPECIFICATION FairSpec
INVARIANTS
  OccurrencesAreAccountedFor
  HistoryIsComplete
PROPERTIES
  OnlyEnabledOccurrencesRun
  OccurrencesWaitTheirTurn
  DueOccurrencesAreSettled
CHECK_DEADLOCK FALSE
