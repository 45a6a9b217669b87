\* Two approvals of one command at the same time.
SPECIFICATION PathSpec
CONSTANTS
  NoUser = NoUser
  Users = {u1, u2}
  Operators = {u1}
  Approvers = {u2}
  Overriders = {}
  Sensors = {s1}
  DualSensors = {s1}
  Conditions = {}
  Sessions = {k1, k2}
  CommandTTL = 1
  ApprovalTTL = 2
  SentTimeout = 2
  SelectTTL = 0
  MaxCommands = 1
  MaxClaims = 2
  MaxTokens = 1
  MaxTime = 2
  Writable = {s1}
  Skew = 1
  Offset = 0
  CacheMax = 2
  Outcomes = {"done"}
INVARIANTS WrittenOnce
SYMMETRY SessionSymmetry
CHECK_DEADLOCK FALSE
