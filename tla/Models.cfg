\* Two users, one of them an approver.
SPECIFICATION SpecAll
CONSTANTS
  Models = {1, 2}
  a = a
  b = b
  Contents = {a, b}
  Users = {u1, u2}
  Approvers = {u2}
  Drafts = {1, 2}
  CRs = {1, 2}
  Settings <- Cases
  Any = Any
  None = None
INVARIANTS ReviewTypeOK NoSilentFork DraftOnce FilesKept ReviewedOnly StatesTell
CHECK_DEADLOCK FALSE
