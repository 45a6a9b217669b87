\* One session: handlers run one after the other.
SPECIFICATION Spec
CONSTANTS
  NoUser = NoUser
  Users = {u1, u2}
  Operators = {u1, u2}
  Approvers = {u2}
  Overriders = {u2}
  Sensors = {s1}
  DualSensors = {s1}
  Conditions = {"interlock", "loto"}
  Sessions = {k1}
  CommandTTL = 1
  ApprovalTTL = 2
  SentTimeout = 1
  SelectTTL = 0
  MaxCommands = 2
  MaxClaims = 2
  MaxTokens = 1
  MaxTime = 4
INVARIANTS TypeOK OneOpenCommand
PROPERTIES OverrideEntitled ImplementsLedger
CHECK_DEADLOCK FALSE
