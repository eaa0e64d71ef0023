\* Stop, archive, cancellation, schedules and messages to a running turn next to one delegation.
CONSTANTS
  a1 = a1  a2 = a2  k1 = k1  k2 = k2  NoKey = NoKey
  Agent = {a1, a2}
  Sender = {a1}
  Key = {k1}
  Mode = {"queue"}
  CompletionMode = {"poll"}
  UserOp = {"stop", "archive", "schedule", "steer", "cancel"}
  Outcome = {"completed"}
  Faults = TRUE
  MaxPending = 1
  MaxSend = 1
  MaxUserRun = 1
  MaxReset = 0
  MaxCrash = 0
  Disconnects = FALSE
SPECIFICATION Spec
INVARIANTS  ArchivedAgentRunsNothing
PROPERTIES OutcomesAreFinal
