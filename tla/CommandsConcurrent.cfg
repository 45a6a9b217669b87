\* Two sessions: handlers interleave between their reads and their commits.
SPECIFICATION FairSpec
CONSTANTS
  NoUser = NoUser
  Users = {u1, u2}
  Operators = {u1, u2}
  Approvers = {u2}
  Overriders = {u2}
  Sensors = {s1}
  DualSensors = {s1}
  Conditions = {}
  Sessions = {k1, k2}
  CommandTTL = 1
  ApprovalTTL = 2
  SentTimeout = 1
  SelectTTL = 0
  MaxCommands = 1
  MaxClaims = 2
  MaxTokens = 1
  MaxTime = 4
INVARIANTS TwoPersonRule FreshHandover
PROPERTIES OnlyLostUpdates WaitingEnds SentEnds
CHECK_DEADLOCK FALSE
