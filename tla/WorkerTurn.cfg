\* The scenarios of MCWorkerTurn.
CONSTANT Scenario <- Scenarios
SPECIFICATION FairSpec
INVARIANTS
  TypeOK
  AtMostOneDelivery
  RefusedMeansNotDelivered
  AcceptedInputHasItsPlace
  FinalBatchIsComplete
PROPERTY SteersAreAnswered
CHECK_DEADLOCK FALSE
