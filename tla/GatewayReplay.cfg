\* One gateway, payloads handed to it again and again.
SPECIFICATION MCSpec
CONSTANTS
  Points = {s1, s2}
  Writable = {s1}
  Skew = 1
  Offset = 0
  CacheMax = 2
  Outcomes = {"done", "refused", "unconfirmed"}
  Ids = {1, 2}
  Lifetime = 1
  MaxTime = 3
  MaxBatches = 3
INVARIANTS NonceWrittenOnce
CHECK_DEADLOCK FALSE
