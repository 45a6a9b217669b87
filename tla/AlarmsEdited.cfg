\* An engineer edits the sensor.
SPECIFICATION FairSpec
CONSTANTS
  Settings <- JustEdited
  Values = {0, 1, 2, 3, 5}
  None = None
  StaleAfter = 1
  MaxLag = 1
  ShelfLife = 1
  Ids = {1, 2, 3, 4}
  MaxRequests = 3
INVARIANTS JournalHolds
CHECK_DEADLOCK FALSE
