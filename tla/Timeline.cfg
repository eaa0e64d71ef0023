\* Two agents and a page of one row, in the scenarios of MCTimeline.
CONSTANTS
  Agent = {a1, a2}
  Limit = 1
  Scenario <- Scenarios
SPECIFICATION FairSpec
INVARIANTS
  TypeOK
  StoriesInOrder
  FinishedRunIsComplete
  NoHiddenHistory
PROPERTIES
  
  FeedSpec
  TimelineCatchesUp
CHECK_DEADLOCK FALSE
