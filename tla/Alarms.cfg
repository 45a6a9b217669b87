\* One sensor of each kind, readings up to a tick old.
SPECIFICATION FairSpec
CONSTANTS
  Settings <- Sensors
  Values = {0, 1, 2, 3, 5}
  None = None
  StaleAfter = 1
  MaxLag = 1
  ShelfLife = 1
  Ids = {1, 2, 3, 4}
  MaxRequests = 3
INVARIANTS TypeOK JournalMatches
PROPERTIES HeldIsRaised
CHECK_DEADLOCK FALSE
