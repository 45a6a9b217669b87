\* One session: handlers run one after the other; the gateway runs beside.
SPECIFICATION PathSpec
CONSTANTS
  NoUser = NoUser
  Users = {u1, u2}
  Operators = {u1}
  Approvers = {u2}
  Overriders = {}
  Sensors = {s1}
  DualSensors = {}
  Conditions = {"loto"}
  Sessions = {k1}
  CommandTTL = 2
  ApprovalTTL = 2
  SentTimeout = 3
  SelectTTL = 0
  MaxCommands = 2
  MaxClaims = 2
  MaxTokens = 1
  MaxTime = 4
  Writable = {s1}
  Skew = 1
  Offset = 0
  CacheMax = 2
  Outcomes = {"done", "refused", "unconfirmed"}
INVARIANTS PathTypeOK WrittenOnce CancelledNeverWritten AckedMeansWritten
PROPERTIES HeldWhileWritten LockoutHorizon
CHECK_DEADLOCK FALSE
