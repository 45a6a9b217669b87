\* A gateway through outages, lost answers, invalid rows and a restart.
SPECIFICATION FairSpec
CONSTANTS
  MaxRows = 3
  Policies <- BothPolicies
  BatchSize = 3
  MaxBatches = 2
  MaxBody = 2
  MaxAdded = 4
  PerCycle = 2
  MaxCrashes = 1
INVARIANTS TypeOK NothingVanishes SpoolBounded NotSentAgain
PROPERTIES OldestFirst OnlyBadRefused Drains
CHECK_DEADLOCK FALSE
