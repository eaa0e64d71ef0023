\* Two takeovers with release, heartbeat, chat, schedule, New chat, two faults and one restart.
CONSTANTS
  UserOp = {"release", "heartbeat", "chat", "schedule", "reset"}
  Disconnects = TRUE
  Ttl = 2
  RetryTtl = 1
  MaxTakeover = 2
  MaxRelease = 1
  MaxHeartbeat = 1
  MaxRun = 1
  MaxReset = 1
  MaxFault = 2
  MaxCrash = 1
SPECIFICATION FairSpec
INVARIANTS AcknowledgedControlIsExclusive ContinuedOnce ContinuedInItsConversation
PROPERTIES NoRunStartsUnderHuman AbandonedDesktopReturns
