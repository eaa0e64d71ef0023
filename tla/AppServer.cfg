\* Pipes that hold one line, in the scenarios of MCAppServer.
CONSTANTS
  Pipe = 1
  Scenario <- Scenarios
SPECIFICATION FairSpec
INVARIANTS
  ReaderIsHeard
  EveryRequestIsAccountedFor
PROPERTIES
  NotesAreAStream
  
  
CHECK_DEADLOCK FALSE
