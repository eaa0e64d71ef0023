\* One delegation that calls back, under cancellation, Stop run and New chat; clients may leave.
CONSTANTS
  a1 = a1  a2 = a2  k1 = k1  k2 = k2  NoKey = NoKey
  Agent = {a1, a2}
  Sender = {a1}
  Key = {k1}
  Mode = {"queue", "steer"}
  CompletionMode = {"notify"}
  UserOp = {"interrupt", "reset", "cancel"}
  Outcome = {"completed"}
  Faults = FALSE
  MaxPending = 1
  MaxSend = 1
  MaxUserRun = 1
  MaxReset = 1
  MaxCrash = 0
  Disconnects = TRUE
SPECIFICATION Spec
INVARIANTS NotificationEntersItsConversation StopRunSilences OneNotificationPerTask
