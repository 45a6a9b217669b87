\* A runner with room for one or two and a CFD worker, one process lost.
SPECIFICATION FairSpec
CONSTANTS
  Jobs <- TwoJobs
  Settings <- Mixtures
  MaxAttempts <- Attempts
  Server = server
  Workers = {worker}
  LeaseS = 2
  MaxActive = 2
  MaxClaims = 4
  MaxEnqueues = 1
  MaxCrashes = 1
INVARIANTS TypeOK OneRunner
PROPERTIES DoneStays AllSettle
CHECK_DEADLOCK FALSE
