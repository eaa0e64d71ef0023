\* Two delegations between two agents, lost replies, failing turns and one server restart.
CONSTANTS
  a1 = a1  a2 = a2  k1 = k1  k2 = k2  NoKey = NoKey
  Agent = {a1, a2}
  Sender = {a1, a2}
  Key = {k1, k2}
  Mode = {"queue", "steer"}
  CompletionMode = {"poll"}
  UserOp = {}
  Outcome = {"completed", "failed", "unknown"}
  Faults = TRUE
  MaxPending = 2
  MaxSend = 2
  MaxUserRun = 0
  MaxReset = 0
  MaxCrash = 1
  Disconnects = FALSE
SPECIFICATION Spec
SYMMETRY AgentSymmetry
INVARIANTS AtMostOnceDelivery CompletedMeansDelivered AcceptanceOrder RefusedSteerStartsItsOwnTurn
