\* A turn is interrupted and the next run is started while its completion is on its way.
CONSTANT Scenario <- Late
SPECIFICATION Spec
INVARIANT OnlyItsOwnTurnFinishesRun
CHECK_DEADLOCK FALSE
